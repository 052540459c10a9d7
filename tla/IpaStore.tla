------------------------------ MODULE IpaStore ------------------------------
(***************************************************************************)
(* The IPA files of one app, which several devices may have, and the rows  *)
(* of `apps` that name them.  An upload writes either ipas/<bundle id>.ipa,*)
(* the same file for every device, or a file of its own in /tmp; then it   *)
(* files a row under the id in the IPA, or finds the one an earlier upload *)
(* filed, and its install job reads the file when its turn comes.  A job   *)
(* that has installed the app renames its row to the signed id, or merges  *)
(* it into the row that has that id: only then does the row refreshes go   *)
(* by name the new file.  A refresh that falls back to a full install      *)
(* reads the row and, after several awaits, the file.                      *)
(***************************************************************************)
EXTENDS Naturals, FiniteSets

CONSTANTS Devices,
          Uploads,     \* calls of install_ipa; each brings an id for a row of `apps`
          Refreshes,   \* refresh jobs at the same time
          Teams,       \* teams that sign; a signed id is the IPA's id with the team
          Unsigned,    \* in the place of the team in the id of an IPA
          Stored,      \* the path ipas/<bundle id>.ipa
          Partial,     \* content of a file that is not a whole IPA
          None,
          Worlds,      \* sets of devices, uploads and refreshes that take part
          MaxCrashes   \* bound on the restarts

ASSUME IpaAssumption ==
  /\ {Stored, Partial, None} \cap Uploads = {} /\ Stored # None /\ Partial # None
  /\ Uploads \cap Refreshes = {} /\ Unsigned \notin Teams
  /\ Worlds \subseteq SUBSET (Devices \cup Uploads \cup Refreshes)
  /\ None \notin Devices \cup Teams \cup {Unsigned} /\ MaxCrashes \in Nat

VARIABLES
  around,   \* the devices, uploads and refreshes that take part
  file,     \* file[p]: the upload whose bytes it holds
  rows,     \* rows[r]: the row of `apps` with id r, or None
  upload,   \* upload[u]: a call of install_ipa and its job
  refresh,  \* refresh[k]: a refresh job, from its read of the row on
  mark,     \* mark[j]: mark_app_installed, for the job of an upload or a refresh
  older,    \* history: older[u], the uploads written before u began
  owner,    \* history: owner[r], the upload that row r was last written for
  crashes   \* number of restarts

vars == <<around, file, rows, upload, refresh, mark, older, owner, crashes>>
files == <<file, older>>
apps == <<rows, owner>>

(* A file in /tmp has the name of its upload. *)
Paths == Uploads \cup {Stored}
Contents == Uploads \cup {Partial, None}
Ids == Teams \cup {Unsigned}
Jobs == Uploads \cup Refreshes

PCs == {"new", "writing", "written", "queued", "signed", "over"}
NoUpload == [pc |-> "new", device |-> None, path |-> None, clash |-> FALSE, app |-> None, ipa |-> None]
NoRefresh == [pc |-> "idle", app |-> None, id |-> None, path |-> None, owner |-> None, ipa |-> None]
NoMark == [pc |-> "idle", app |-> None, real |-> None, device |-> None, path |-> None,
           owner |-> None, target |-> None]

Init ==
  /\ around \in Worlds
  /\ file = [p \in Paths |-> None]
  /\ rows = [r \in Uploads |-> None] /\ owner = [r \in Uploads |-> None]
  /\ upload = [u \in Uploads |-> NoUpload]
  /\ refresh = [k \in Refreshes |-> NoRefresh]
  /\ mark = [j \in Jobs |-> NoMark]
  /\ older = [u \in Uploads |-> {}]
  /\ crashes = 0

At(u, pc) == upload[u].pc = pc

(* What is kept of an upload that is over: where its bytes went.           *)
Ended(u) == [upload[u] EXCEPT !.pc = "over", !.clash = FALSE, !.app = None, !.ipa = None]
Ends(u) == upload' = [upload EXCEPT ![u] = Ended(u)]
Writing(p) == {u \in Uploads : At(u, "writing") /\ upload[u].path = p}

(* What the file holds when a write ends: one that overlapped another      *)
(* leaves its own bytes, those that are there by then, or a mix.           *)
Outcomes(u) == IF upload[u].clash THEN {u, file[upload[u].path], Partial} ELSE {u}

-----------------------------------------------------------------------------
(* tokio::fs::write truncates the file before it writes.                   *)
Truncate(u, d, p) ==
  /\ At(u, "new")
  /\ upload' = [v \in Uploads |->
       IF v = u THEN [NoUpload EXCEPT !.pc = "writing", !.device = d, !.path = p,
                        !.clash = Writing(p) # {}]
       ELSE [upload[v] EXCEPT !.clash = @ \/ v \in Writing(p)]]
  /\ older' = [older EXCEPT ![u] = {v \in Uploads : upload[v].pc \notin {"new", "writing"}}]
  /\ file' = [file EXCEPT ![p] = Partial]
  /\ UNCHANGED <<apps, refresh, mark, crashes>>

(* Defect: a file that is there already is not written again. *)
WriteIfMissing(u, d, p) ==
  \/ file[p] = None /\ Truncate(u, d, p)
  \/ /\ At(u, "new") /\ file[p] # None
     /\ upload' = [upload EXCEPT ![u] =
          [NoUpload EXCEPT !.pc = "written", !.device = d, !.path = p]]
     /\ older' = [older EXCEPT ![u] = {v \in Uploads : upload[v].pc \notin {"new", "writing"}}]
     /\ UNCHANGED <<file, apps, refresh, mark, crashes>>

(* install_ipa, store or not. *)
WriteStart(u, d, p) == Truncate(u, d, p)

WriteEnd(u) ==
  /\ At(u, "writing")
  /\ \E c \in Outcomes(u) : file' = [file EXCEPT ![upload[u].path] = c]
  /\ upload' = [upload EXCEPT ![u].pc = "written", ![u].clash = FALSE]
  /\ UNCHANGED <<apps, refresh, mark, older, crashes>>

(* The disk is full: the file stays truncated, the call returns an error.  *)
WriteFails(u) ==
  /\ At(u, "writing") /\ Ends(u)
  /\ UNCHANGED <<files, apps, refresh, mark, crashes>>

IsRow(r) == r \in Uploads /\ rows[r] # None
DeleteRow(r) == rows' = [rows EXCEPT ![r] = None] /\ owner' = [owner EXCEPT ![r] = None]

(* The row with an id: UNIQUE (device_id, bundle_id).                      *)
Filed(d, id) == {r \in Uploads : IsRow(r) /\ rows[r].device = d /\ rows[r].id = id}

(* upsert_app, insert_job, send: the row filed under the id of the IPA, if *)
(* there is one, keeps its own id and is rewritten; or the row with the id *)
(* this call made up is inserted, beside the signed one of an app that is  *)
(* installed already.                                                      *)
Record(u) ==
  /\ At(u, "written")
  /\ LET filed == Filed(upload[u].device, Unsigned) IN
     \E r \in IF filed = {} THEN {u} ELSE filed :
       /\ rows' = [rows EXCEPT ![r] = [device |-> upload[u].device, id |-> Unsigned,
                                      path |-> upload[u].path]]
       /\ owner' = [owner EXCEPT ![r] = u]
       /\ upload' = [upload EXCEPT ![u].pc = "queued", ![u].app = r]
  /\ UNCHANGED <<files, refresh, mark, crashes>>

(* sideload::install_ipa reads the file and signs it, if it is an IPA.     *)
Sign(u) ==
  /\ At(u, "queued") /\ file[upload[u].path] \in Uploads
  /\ upload' = [upload EXCEPT ![u].pc = "signed", ![u].ipa = file[upload[u].path]]
  /\ UNCHANGED <<files, apps, refresh, mark, crashes>>

StartMark(j, r, id) == mark' = [mark EXCEPT ![j] = [NoMark EXCEPT !.pc = "marking", !.app = r, !.real = id]]

(* The app is on the device: its row is marked under the id it got.        *)
Installed(u, team) ==
  /\ At(u, "signed") /\ Ends(u)
  /\ StartMark(u, upload[u].app, team)
  /\ UNCHANGED <<files, apps, refresh, crashes>>

(* The job fails; nothing removes a file of /tmp.                          *)
JobFails(u) ==
  /\ At(u, "queued") \/ At(u, "signed")
  /\ Ends(u)
  /\ UNCHANGED <<files, apps, refresh, mark, crashes>>

-----------------------------------------------------------------------------
(* run_job for a refresh reads its row, once for the id of the profile to  *)
(* ask for, and again for the path when the profile was refused; one of    *)
(* the two reads is used.                                                  *)
ReadRow(k, r) ==
  /\ refresh[k].pc = "idle" /\ mark[k].pc = "idle" /\ IsRow(r)
  /\ refresh' = [refresh EXCEPT ![k] =
       [NoRefresh EXCEPT !.pc = "read", !.app = r, !.id = rows[r].id, !.path = rows[r].path,
                         !.owner = owner[r]]]
  /\ UNCHANGED <<files, apps, upload, mark, crashes>>

(* The session, the tunnel and the team of sideload::install_ipa come      *)
(* between the path and the file.                                          *)
ReadFile(k) ==
  /\ refresh[k].pc = "read" /\ file[refresh[k].path] \in Uploads
  /\ refresh' = [refresh EXCEPT ![k].pc = "signed", ![k].ipa = file[refresh[k].path]]
  /\ UNCHANGED <<files, apps, upload, mark, crashes>>

(* A new profile is found for the id a row was signed with, no other, and  *)
(* leaves it; an install gives the id of its signature.                    *)
Refreshed(k, team) ==
  /\ \/ refresh[k].pc = "read" /\ refresh[k].id = team
     \/ refresh[k].pc = "signed"
  /\ StartMark(k, refresh[k].app, team)
  /\ refresh' = [refresh EXCEPT ![k] = NoRefresh]
  /\ UNCHANGED <<files, apps, upload, crashes>>

RefreshFails(k) ==
  /\ refresh[k].pc # "idle"
  /\ refresh' = [refresh EXCEPT ![k] = NoRefresh]
  /\ UNCHANGED <<files, apps, upload, mark, crashes>>

-----------------------------------------------------------------------------
(* mark_app_installed, a statement at a time.                              *)

MarkEnds(j) == mark' = [mark EXCEPT ![j] = NoMark]

(* The row is read; if it has the id already only its times change.        *)
SelectRow(j) ==
  /\ mark[j].pc = "marking"
  /\ LET r == mark[j].app IN
     IF IsRow(r) /\ rows[r].id # mark[j].real
       THEN mark' = [mark EXCEPT ![j].pc = "looking", ![j].device = rows[r].device,
                                 ![j].path = rows[r].path, ![j].owner = owner[r]]
       ELSE MarkEnds(j)
  /\ UNCHANGED <<files, apps, upload, refresh, crashes>>

SelectConflict(j) ==
  /\ mark[j].pc = "looking"
  /\ LET named == Filed(mark[j].device, mark[j].real) \ {mark[j].app} IN
     \/ \E t \in named : mark' = [mark EXCEPT ![j].pc = "merging", ![j].target = t]
     \/ named = {} /\ mark' = [mark EXCEPT ![j].pc = "renaming"]
  /\ UNCHANGED <<files, apps, upload, refresh, crashes>>

(* The UNIQUE constraint refuses it when another row got the id meanwhile. *)
Rename(j) ==
  /\ mark[j].pc = "renaming"
  /\ LET r == mark[j].app IN
     rows' = IF IsRow(r) /\ Filed(mark[j].device, mark[j].real) \subseteq {r}
               THEN [rows EXCEPT ![r].id = mark[j].real] ELSE rows
  /\ MarkEnds(j)
  /\ UNCHANGED <<files, owner, upload, refresh, crashes>>

(* Defect: the merge leaves the path of the row it merges into. *)
MergeKeepsPath(j) ==
  /\ mark[j].pc = "merging"
  /\ IF IsRow(mark[j].target) THEN owner' = [owner EXCEPT ![mark[j].target] = mark[j].owner]
     ELSE UNCHANGED owner
  /\ mark' = [mark EXCEPT ![j].pc = "dropping"]
  /\ UNCHANGED <<files, rows, upload, refresh, crashes>>

(* The row with the id gets the path the other one had when it was read.   *)
UpdateTarget(j) ==
  /\ mark[j].pc = "merging"
  /\ LET t == mark[j].target IN
     IF IsRow(t) THEN /\ rows' = [rows EXCEPT ![t].path = mark[j].path]
                      /\ owner' = [owner EXCEPT ![t] = mark[j].owner]
     ELSE UNCHANGED apps
  /\ mark' = [mark EXCEPT ![j].pc = "dropping"]
  /\ UNCHANGED <<files, upload, refresh, crashes>>

(* The jobs of the other row are moved, which the foreign key refuses when *)
(* the target is gone, and the row is deleted, whatever it names by now.   *)
DropRow(j) ==
  /\ mark[j].pc = "dropping"
  /\ DeleteRow(mark[j].app) \/ (~IsRow(mark[j].target) /\ UNCHANGED apps)
  /\ MarkEnds(j)
  /\ UNCHANGED <<files, upload, refresh, crashes>>

MarkStep(j) ==
  SelectRow(j) \/ SelectConflict(j) \/ Rename(j) \/ UpdateTarget(j) \/ DropRow(j)

-----------------------------------------------------------------------------
(* delete_app, a sync or the scheduler's prune.                            *)
Remove(r) ==
  /\ IsRow(r)
  /\ DeleteRow(r)
  /\ UNCHANGED <<files, upload, refresh, mark, crashes>>

(* The server restarts; with the whole machine, which empties /tmp.        *)
Crash(reboot) ==
  /\ crashes < MaxCrashes /\ crashes' = crashes + 1
  /\ upload' = [u \in Uploads |-> IF At(u, "new") THEN NoUpload ELSE Ended(u)]
  /\ refresh' = [k \in Refreshes |-> NoRefresh] /\ mark' = [j \in Jobs |-> NoMark]
  /\ file' = [p \in Paths |-> IF reboot /\ p # Stored THEN None ELSE file[p]]
  /\ UNCHANGED <<apps, older>>

UploadStep(u) ==
  \/ WriteEnd(u) \/ WriteFails(u) \/ Record(u) \/ Sign(u) \/ JobFails(u)
  \/ \E team \in Teams : Installed(u, team)

RefreshStep(k) ==
  \/ (\E r \in Uploads : ReadRow(k, r)) \/ ReadFile(k) \/ RefreshFails(k)
  \/ \E team \in Teams : Refreshed(k, team)

Over == \A u \in Uploads \cap around : At(u, "over")
Rest == Over /\ UNCHANGED vars

Steps ==
  \/ \E u \in Uploads \cap around :
       \/ \E d \in Devices \cap around, p \in {u, Stored} : WriteStart(u, d, p)
       \/ UploadStep(u)
  \/ \E k \in Refreshes \cap around : RefreshStep(k)
  \/ \E j \in Jobs : MarkStep(j)
  \/ \E r \in Uploads : Remove(r)
  \/ \E reboot \in BOOLEAN : Crash(reboot)

Next == (Steps /\ UNCHANGED around) \/ Rest

Spec == Init /\ [][Next]_vars

-----------------------------------------------------------------------------
(* Properties *)

TypeOK ==
  /\ around \in Worlds /\ file \in [Paths -> Contents]
  /\ rows \in [Uploads -> [device : Devices, id : Ids, path : Paths] \cup {None}]
  /\ upload \in [Uploads -> [pc : PCs, device : Devices \cup {None}, path : Paths \cup {None},
                             clash : BOOLEAN, app : Uploads \cup {None}, ipa : Uploads \cup {None}]]
  /\ refresh \in [Refreshes -> [pc : {"idle", "read", "signed"}, app : Uploads \cup {None},
                                id : Ids \cup {None}, path : Paths \cup {None},
                                owner : Uploads \cup {None}, ipa : Uploads \cup {None}]]
  /\ mark \in [Jobs -> [pc : {"idle", "marking", "looking", "renaming", "merging", "dropping"},
                        app : Uploads \cup {None}, real : Teams \cup {None},
                        device : Devices \cup {None}, path : Paths \cup {None},
                        owner : Uploads \cup {None}, target : Uploads \cup {None}]]
  /\ owner \in [Uploads -> Uploads \cup {None}]
  /\ older \in [Uploads -> SUBSET Uploads] /\ crashes \in 0..MaxCrashes

(* Whatever other uploads of the app overwrite, an install job never signs *)
(* an IPA that was there before its own was uploaded, and one that was     *)
(* kept in a file of its own signs exactly what was uploaded.              *)
JobSignsItsOwn ==
  \A u \in Uploads : At(u, "signed") =>
    /\ upload[u].ipa \notin older[u]
    /\ upload[u].path = u => upload[u].ipa = u

(* Through whatever inserts, renames, merges and deletions: a refresh that *)
(* falls back installs nothing older than the upload that its row, when it *)
(* was read, had last been written for, nor than any upload that had been  *)
(* written to the same file by the time that is read.                      *)
RefreshIsNotOlder ==
  [][\A k \in Refreshes : refresh[k].pc = "read" /\ refresh'[k].pc = "signed" =>
       \A v \in Uploads : v = refresh[k].owner \/ upload[v].path = refresh[k].path =>
         refresh'[k].ipa \notin older[v]]_vars

=============================================================================
