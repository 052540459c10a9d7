--------------------------- MODULE IpaStoreProofs ---------------------------
EXTENDS IpaStore, TLAPS

Upload == [pc : PCs, device : Devices \cup {None}, path : Paths \cup {None},
           clash : BOOLEAN, app : Uploads \cup {None}, ipa : Uploads \cup {None}]
Row == [device : Devices, id : Ids, path : Paths]
Refresh == [pc : {"idle", "read", "signed"}, app : Uploads \cup {None},
            id : Ids \cup {None}, path : Paths \cup {None},
            owner : Uploads \cup {None}, ipa : Uploads \cup {None}]
Mark == [pc : {"idle", "marking", "looking", "renaming", "merging", "dropping"},
         app : Uploads \cup {None}, real : Teams \cup {None},
         device : Devices \cup {None}, path : Paths \cup {None},
         owner : Uploads \cup {None}, target : Uploads \cup {None}]

(* Whoever counts as older is past its write, for good.                    *)
OlderInv == \A u \in Uploads : \A v \in older[u] : upload[v].pc \notin {"new", "writing"}

(***************************************************************************)
(* Since an upload truncated its file, only uploads that were not through  *)
(* with theirs have put anything there.  A file of its own is written by   *)
(* nobody else, so no write of it ever overlaps another.                   *)
(***************************************************************************)
FileInv ==
  \A u \in Uploads : ~At(u, "new") =>
    /\ upload[u].device \in Devices /\ upload[u].path \in {u, Stored}
    /\ file[upload[u].path] \notin older[u]
    /\ upload[u].path = u =>
         /\ upload[u].pc = "writing" => ~upload[u].clash
         /\ upload[u].pc \in {"written", "queued"} => file[u] = u

(* An upload has no file before it begins. *)
NewInv == \A u \in Uploads : At(u, "new") => upload[u].path = None

(* The files, and the uploads that write and sign them. *)
UInv ==
  /\ upload \in [Uploads -> Upload] /\ file \in [Paths -> Contents]
  /\ older \in [Uploads -> SUBSET Uploads]
  /\ OlderInv /\ NewInv /\ FileInv /\ JobSignsItsOwn

(* The path is where upload v wrote its file. *)
Names(path, v) == v \in Uploads /\ ~At(v, "new") /\ path = upload[v].path

(***************************************************************************)
(* A row names the file of the upload it was last written for, and so does *)
(* what a refresh and a merge in progress remember of a row, whatever      *)
(* became of the row since.                                                *)
(***************************************************************************)
RowInv ==
  /\ \A r \in Uploads : IsRow(r) => Names(rows[r].path, owner[r])
  /\ \A k \in Refreshes : refresh[k].pc # "idle" => Names(refresh[k].path, refresh[k].owner)
  /\ \A j \in Jobs : mark[j].pc \notin {"idle", "marking"} => Names(mark[j].path, mark[j].owner)

(* A mark works for a team on a device. *)
MarkInv ==
  \A j \in Jobs : /\ mark[j].pc # "idle" => mark[j].real \in Teams
                  /\ mark[j].pc \notin {"idle", "marking"} => mark[j].device \in Devices

RTypes ==
  /\ around \in Worlds /\ crashes \in 0..MaxCrashes
  /\ rows \in [Uploads -> Row \cup {None}] /\ owner \in [Uploads -> Uploads \cup {None}]
  /\ refresh \in [Refreshes -> Refresh] /\ mark \in [Jobs -> Mark]

(* The rows, and the jobs that read and mark them. *)
RInv == RTypes /\ RowInv /\ MarkInv

IInv == UInv /\ RInv

(* No step makes an upload new again or moves its file.                    *)
Kept == \A v \in Uploads : ~At(v, "new") => ~At(v, "new")' /\ upload'[v].path = upload[v].path

(* The type invariant is part of the inductive one.                        *)
LEMMA TypeIs ==
  TypeOK <=> /\ RTypes /\ upload \in [Uploads -> Upload] /\ file \in [Paths -> Contents]
             /\ older \in [Uploads -> SUBSET Uploads]
BY DEF TypeOK, RTypes, Upload, Row, Refresh, Mark

-----------------------------------------------------------------------------
(* The files: each action keeps UInv.                                      *)
(* An upload that begins makes what was there the older of it.            *)
LEMMA TruncateStep ==
  ASSUME UInv, NEW u \in Uploads, NEW d \in Devices, NEW p \in {u, Stored}, Truncate(u, d, p)
  PROVE  UInv' /\ Kept
<1> USE IpaAssumption DEF PCs, Paths, Contents
<1>0. /\ upload \in [Uploads -> Upload] /\ file \in [Paths -> Contents]
      /\ older \in [Uploads -> SUBSET Uploads]
  BY DEF UInv
<1>1. At(u, "new") /\ (\A v \in Uploads : v \in Writing(u) => v = u)
  BY DEF Truncate, At, Writing, UInv, FileInv
<1>2. /\ upload'[u].pc = "writing" /\ upload'[u].device = d /\ upload'[u].path = p
      /\ upload'[u].ipa = None /\ (p = u => ~upload'[u].clash) /\ upload'[u] \in Upload
  <2>1. upload'[u] = [NoUpload EXCEPT !.pc = "writing", !.device = d, !.path = p,
                        !.clash = Writing(p) # {}]
    BY DEF Truncate
  <2>2. NoUpload \in Upload /\ NoUpload.ipa = None
    BY DEF NoUpload, Upload
  <2>3. PICK clash \in BOOLEAN : clash = (Writing(p) # {})
    OBVIOUS
  <2>4. p = u => ~clash
    BY <1>1, <2>3 DEF Writing, At
  <2>5. upload'[u] = [NoUpload EXCEPT !.pc = "writing", !.device = d, !.path = p, !.clash = clash]
    BY <2>1, <2>3
  <2>6. p \in Paths
    OBVIOUS
  <2> QED BY <2>2, <2>4, <2>5, <2>6 DEF Upload
<1>3. ASSUME NEW v \in Uploads \ {u}
      PROVE  /\ upload'[v].pc = upload[v].pc /\ upload'[v].device = upload[v].device
             /\ upload'[v].path = upload[v].path /\ upload'[v].ipa = upload[v].ipa
             /\ upload'[v] \in Upload
             /\ upload[v].path # p => (upload'[v].clash <=> upload[v].clash)
  <2>1. upload'[v] = [upload[v] EXCEPT !.clash = upload[v].clash \/ v \in Writing(p)]
    BY DEF Truncate
  <2>2. (upload[v].clash \/ v \in Writing(p)) \in BOOLEAN /\ upload[v] \in Upload
    BY <1>0
  <2>3. upload[v].path # p => ((upload[v].clash \/ v \in Writing(p)) <=> upload[v].clash)
    BY <2>2 DEF Writing
  <2> QED BY <2>1, <2>2, <2>3 DEF Upload
<1>4. /\ upload' \in [Uploads -> Upload] /\ file' \in [Paths -> Contents]
      /\ older' \in [Uploads -> SUBSET Uploads]
  <2>1. upload' \in [Uploads -> Upload]
    BY <1>2, <1>3 DEF Truncate
  <2>2. older' \in [Uploads -> SUBSET Uploads] /\ file' \in [Paths -> Contents]
    BY <1>0 DEF Truncate
  <2> QED BY <2>1, <2>2
<1>5. /\ older'[u] = {v \in Uploads : upload[v].pc \notin {"new", "writing"}}
      /\ \A v \in Uploads \ {u} : older'[v] = older[v]
      /\ file'[p] = Partial /\ \A q \in Paths \ {p} : file'[q] = file[q]
      /\ older \in [Uploads -> SUBSET Uploads]
  BY <1>0 DEF Truncate
<1>6. OlderInv'
  BY <1>1, <1>2, <1>3, <1>5 DEF UInv, OlderInv, At
<1>7. FileInv'
  <2>1. ASSUME NEW v \in Uploads \ {u}, ~At(v, "new")
        PROVE  /\ upload[v].path \in {v, Stored} /\ upload[v].path # u
               /\ file'[upload[v].path] \notin older[v]
               /\ upload[v].path = v => p # v /\ file'[v] = file[v]
    BY <1>5, <2>1 DEF UInv, FileInv
  <2>2. ASSUME NEW v \in Uploads, ~At(v, "new")', v # u
        PROVE  /\ upload'[v].device \in Devices /\ upload'[v].path \in {v, Stored}
               /\ file'[upload'[v].path] \notin older'[v]
               /\ upload'[v].path = v =>
                    /\ upload'[v].pc = "writing" => ~upload'[v].clash
                    /\ upload'[v].pc \in {"written", "queued"} => file'[v] = v
    BY <1>3, <1>5, <2>1, <2>2 DEF At, UInv, FileInv
  <2>3. Partial \notin older'[u]
    BY <1>5
  <2> QED BY <1>2, <1>5, <2>2, <2>3 DEF FileInv, At
<1>8. Kept /\ NewInv'
  BY <1>1, <1>2, <1>3 DEF Kept, NewInv, At, UInv
<1>9. JobSignsItsOwn'
  BY <1>2, <1>3, <1>5 DEF UInv, JobSignsItsOwn, At
<1> QED BY <1>4, <1>6, <1>7, <1>8, <1>9 DEF UInv

(* One step of an upload that has begun: its place and its file stay.      *)
LEMMA Moved ==
  ASSUME UInv, NEW u \in Uploads, ~At(u, "new"), NEW new \in Upload, upload' = [upload EXCEPT ![u] = new],
         new.pc \in {"written", "queued", "signed", "over"},
         new.path = upload[u].path, new.device = upload[u].device
  PROVE  /\ upload' \in [Uploads -> Upload] /\ upload'[u] = new
         /\ \A v \in Uploads \ {u} : upload'[v] = upload[v]
         /\ Kept /\ NewInv'
         /\ older' = older => OlderInv'
<1>1. upload' \in [Uploads -> Upload] /\ upload'[u] = new /\ \A v \in Uploads \ {u} : upload'[v] = upload[v]
  BY DEF UInv
<1>2. Kept /\ NewInv'
  BY <1>1 DEF Kept, NewInv, At, UInv
<1>3. ASSUME older' = older PROVE OlderInv'
  <2>1. \A x \in Uploads : older[x] \subseteq Uploads
    BY DEF UInv
  <2> QED BY <1>1, <1>3, <2>1 DEF UInv, OlderInv
<1> QED BY <1>1, <1>2, <1>3

(* A write that ends: u is older than nobody, so its bytes are not either. *)
LEMMA WriteEndStep == ASSUME UInv, NEW u \in Uploads, WriteEnd(u) PROVE UInv' /\ Kept
<1> USE IpaAssumption DEF PCs, Paths, Contents
<1> DEFINE p == upload[u].path
           new == [upload[u] EXCEPT !.pc = "written", !.clash = FALSE]
<1>0. /\ upload \in [Uploads -> Upload] /\ file \in [Paths -> Contents]
      /\ older \in [Uploads -> SUBSET Uploads] /\ At(u, "writing") /\ older' = older
  BY DEF UInv, WriteEnd
<1>1. p \in {u, Stored} /\ (p = u => ~upload[u].clash) /\ upload[u].device \in Devices
  BY <1>0 DEF UInv, FileInv, At
<1>2. PICK c \in Outcomes(u) : file' = [file EXCEPT ![p] = c]
  BY DEF WriteEnd
<1>3. c \in {u, file[p], Partial} /\ c \in Contents /\ (p = u => c = u)
  BY <1>0, <1>1 DEF Outcomes
<1>4. /\ new \in Upload /\ new.pc = "written" /\ new.path = p /\ new.device = upload[u].device
  <2>1. PICK w \in Upload : w = upload[u]
    BY <1>0
  <2>2. [w EXCEPT !.pc = "written", !.clash = FALSE] \in Upload
    BY DEF Upload
  <2> QED BY <2>1, <2>2 DEF Upload
<1>5. upload' = [upload EXCEPT ![u] = new]
  BY <1>0 DEF WriteEnd, Upload
<1> HIDE DEF new
<1>6. /\ upload' \in [Uploads -> Upload] /\ upload'[u] = new
      /\ \A v \in Uploads \ {u} : upload'[v] = upload[v]
      /\ Kept /\ NewInv' /\ OlderInv'
  BY <1>0, <1>4, <1>5, Moved DEF At
<1>7. file' \in [Paths -> Contents] /\ file'[p] = c /\ \A q \in Paths \ {p} : file'[q] = file[q]
  BY <1>0, <1>1, <1>2, <1>3
<1>8. \A v \in Uploads : u \notin older[v]
  BY <1>0 DEF UInv, OlderInv, At
<1>9. FileInv'
  <2>1. ASSUME NEW v \in Uploads, ~At(v, "new"), upload[v].path = p
        PROVE  c \notin older[v] /\ (p = v => c = v)
    BY <1>0, <1>1, <1>3, <1>8, <2>1 DEF UInv, FileInv
  <2>2. ASSUME NEW v \in Uploads, ~At(v, "new")
        PROVE  file'[upload[v].path] \notin older[v] /\ upload[v].path \in {v, Stored}
               /\ upload[v].device \in Devices
    BY <1>7, <2>1, <2>2 DEF UInv, FileInv
  <2>3. ASSUME NEW v \in Uploads, v # u PROVE upload'[v] = upload[v] /\ (v = p => FALSE)
    BY <1>0, <1>1, <1>6, <2>3
  <2>4. ASSUME NEW v \in Uploads, ~At(v, "new"), v # u, upload[v].path = v,
               upload[v].pc \in {"written", "queued"}
        PROVE  file'[v] = v
    BY <1>7, <2>3, <2>4 DEF UInv, FileInv
  <2>5. p = u => file'[u] = u
    BY <1>3, <1>7
  <2> QED BY <1>0, <1>1, <1>4, <1>6, <2>2, <2>3, <2>4, <2>5 DEF FileInv, At, UInv
<1>10. JobSignsItsOwn'
  BY <1>0, <1>4, <1>6 DEF UInv, JobSignsItsOwn, At
<1> QED BY <1>0, <1>6, <1>7, <1>9, <1>10 DEF UInv

(* What is over keeps its place. *)
LEMMA EndedType ==
  ASSUME UInv, NEW u \in Uploads
  PROVE  /\ Ended(u) \in Upload /\ Ended(u).pc = "over"
         /\ Ended(u).path = upload[u].path /\ Ended(u).device = upload[u].device
<1>1. PICK w \in Upload : w = upload[u]
  BY DEF UInv
<1>2. "over" \in PCs /\ FALSE \in BOOLEAN
  BY DEF PCs
<1>3. [w EXCEPT !.pc = "over", !.clash = FALSE, !.app = None, !.ipa = None] \in Upload
  BY <1>2 DEF Upload
<1>4. Ended(u) = [w EXCEPT !.pc = "over", !.clash = FALSE, !.app = None, !.ipa = None]
  BY <1>1 DEF Ended
<1> QED BY <1>1, <1>3, <1>4 DEF Upload

(* WriteFails, Installed, JobFails and Record: no file changes, and        *)
(* nothing is signed.                                                      *)
LEMMA MovedStep ==
  ASSUME UInv, NEW u \in Uploads, NEW new \in Upload, ~At(u, "new"), UNCHANGED files,
         upload' = [upload EXCEPT ![u] = new],
         new.pc \in {"queued", "over"}, new.path = upload[u].path, new.device = upload[u].device,
         new.pc = "queued" => At(u, "written")
  PROVE  UInv' /\ Kept
<1>1. /\ upload' \in [Uploads -> Upload] /\ upload'[u] = new
      /\ \A v \in Uploads \ {u} : upload'[v] = upload[v]
      /\ Kept /\ NewInv' /\ OlderInv'
  BY Moved DEF files
<1>2. FileInv'
  BY <1>1 DEF UInv, FileInv, files, At
<1>3. JobSignsItsOwn'
  BY <1>1 DEF UInv, JobSignsItsOwn, files, At
<1> QED BY <1>1, <1>2, <1>3 DEF UInv, files

(* The steps of uploads that leave the files alone, but for signing.       *)
LEMMA QuietStep ==
  ASSUME UInv, NEW u \in Uploads,
         WriteFails(u) \/ Record(u) \/ JobFails(u) \/ \E team \in Teams : Installed(u, team)
  PROVE  UInv' /\ Kept
<1>1. CASE Record(u)
  <2>0. upload \in [Uploads -> Upload] /\ At(u, "written") /\ UNCHANGED files
    BY <1>1 DEF UInv, Record
  <2>1. PICK r \in Uploads : upload' = [upload EXCEPT ![u].pc = "queued", ![u].app = r]
    BY <1>1 DEF Record, Filed
  <2> DEFINE new == [upload[u] EXCEPT !.pc = "queued", !.app = r]
  <2>2. new \in Upload /\ new.pc = "queued" /\ new.path = upload[u].path /\ new.device = upload[u].device
    BY <2>0 DEF Upload, PCs
  <2>3. upload' = [upload EXCEPT ![u] = new]
    BY <2>0, <2>1 DEF Upload
  <2> HIDE DEF new
  <2> QED BY <2>0, <2>2, <2>3, MovedStep DEF At
<1>2. CASE WriteFails(u) \/ JobFails(u) \/ \E team \in Teams : Installed(u, team)
  <2>1. ~At(u, "new") /\ Ends(u) /\ UNCHANGED files
    BY <1>2 DEF WriteFails, JobFails, Installed, At
  <2> QED BY <2>1, EndedType, MovedStep DEF Ends
<1> QED BY <1>1, <1>2

(* A job that signs has read a file FileInv speaks of.                     *)
LEMMA SignStep == ASSUME UInv, NEW u \in Uploads, Sign(u) PROVE UInv' /\ Kept
<1> USE IpaAssumption DEF PCs, Paths, Contents
<1> DEFINE new == [upload[u] EXCEPT !.pc = "signed", !.ipa = file[upload[u].path]]
<1>0. upload \in [Uploads -> Upload] /\ At(u, "queued") /\ file[upload[u].path] \in Uploads
      /\ UNCHANGED files
  BY DEF UInv, Sign
<1>1. upload' = [upload EXCEPT ![u] = new]
  BY <1>0 DEF Sign, Upload
<1>2. /\ new \in Upload /\ new.pc = "signed" /\ new.path = upload[u].path
      /\ new.device = upload[u].device /\ new.ipa = file[upload[u].path]
  <2>1. PICK w \in Upload : w = upload[u]
    BY <1>0
  <2>2. PICK i \in Uploads : i = file[upload[u].path]
    BY <1>0
  <2>3. [w EXCEPT !.pc = "signed", !.ipa = i] \in Upload
    BY DEF Upload
  <2> QED BY <2>1, <2>2, <2>3 DEF Upload
<1> HIDE DEF new
<1>3. /\ upload' \in [Uploads -> Upload] /\ upload'[u] = new
      /\ \A v \in Uploads \ {u} : upload'[v] = upload[v]
      /\ Kept /\ NewInv' /\ OlderInv'
  BY <1>0, <1>1, <1>2, Moved DEF At, files
<1>4. FileInv'
  BY <1>0, <1>2, <1>3 DEF UInv, FileInv, files, At
<1>5. JobSignsItsOwn'
  <2>1. file[upload[u].path] \notin older[u] /\ (upload[u].path = u => file[upload[u].path] = u)
    BY <1>0 DEF UInv, FileInv, At
  <2> QED BY <1>0, <1>2, <1>3, <2>1 DEF UInv, JobSignsItsOwn, files, At
<1> QED BY <1>0, <1>3, <1>4, <1>5 DEF UInv, files

(* A restart ends all calls and jobs; a file is what it was or gone.       *)
LEMMA CrashStep == ASSUME UInv, NEW reboot \in BOOLEAN, Crash(reboot) PROVE UInv' /\ Kept
<1> USE IpaAssumption DEF PCs, Paths, Contents
<1>0. /\ upload \in [Uploads -> Upload] /\ file \in [Paths -> Contents]
      /\ older \in [Uploads -> SUBSET Uploads] /\ older' = older
  BY DEF UInv, Crash
<1>1. NoUpload \in Upload /\ NoUpload.pc = "new" /\ NoUpload.path = None
  BY DEF NoUpload, Upload
<1>2. ASSUME NEW u \in Uploads
      PROVE  /\ upload'[u] \in Upload /\ upload'[u].pc \in {"new", "over"}
             /\ At(u, "new") <=> upload'[u].pc = "new"
             /\ At(u, "new") => upload'[u].path = None
             /\ ~At(u, "new") => /\ upload'[u].path = upload[u].path
                                 /\ upload'[u].device = upload[u].device
  <2>1. CASE At(u, "new")
    BY <1>1, <2>1 DEF Crash
  <2>2. CASE ~At(u, "new")
    BY <2>2, EndedType DEF Crash
  <2> QED BY <2>1, <2>2
<1>3. ASSUME NEW p \in Paths PROVE file'[p] \in {None, file[p]}
  BY DEF Crash
<1>4. upload' \in [Uploads -> Upload] /\ file' \in [Paths -> Contents]
  <2>1. upload' \in [Uploads -> Upload]
    BY <1>2 DEF Crash
  <2>2. file' \in [Paths -> Contents]
    BY <1>0 DEF Crash
  <2> QED BY <2>1, <2>2
<1>5. OlderInv'
  BY <1>0, <1>2 DEF UInv, OlderInv, At
<1>6. FileInv'
  BY <1>0, <1>2, <1>3 DEF UInv, FileInv, At
<1>7. JobSignsItsOwn' /\ Kept /\ NewInv'
  BY <1>2 DEF JobSignsItsOwn, Kept, NewInv, At
<1> QED BY <1>0, <1>4, <1>5, <1>6, <1>7 DEF UInv

-----------------------------------------------------------------------------
(* The rows: each action keeps RInv.  What it needs of an upload's step is *)
(* only that it is Kept.                                                   *)

(* What names a file goes on naming it. *)
LEMMA NamesKept ==
  ASSUME Kept, NEW path, NEW v, Names(path, v) PROVE v \in Uploads /\ ~At(v, "new")' /\ path = upload'[v].path
BY DEF Kept, Names

(* A step that touches neither rows nor what remembers them.               *)
LEMMA SameRows ==
  ASSUME RInv, Kept, UNCHANGED <<around, rows, owner, refresh, mark>>, crashes' \in 0..MaxCrashes
  PROVE  RInv'
<1>1. RTypes' /\ MarkInv'
  BY DEF RInv, RTypes, MarkInv
<1>2. RowInv'
  BY NamesKept DEF RInv, RowInv, Names, IsRow
<1> QED BY <1>1, <1>2 DEF RInv

(* A row that is written, or rewritten, for an upload.                     *)
LEMMA RowWritten ==
  ASSUME RInv, Kept, UNCHANGED <<around, refresh, mark, crashes>>,
         NEW r \in Uploads, NEW new \in Row, NEW v, Names(new.path, v),
         rows' = [rows EXCEPT ![r] = new], owner' = [owner EXCEPT ![r] = v]
  PROVE  RInv'
<1>1. v \in Uploads /\ ~At(v, "new")' /\ new.path = upload'[v].path
  BY NamesKept
<1>2. RTypes' /\ MarkInv'
  BY <1>1 DEF RInv, RTypes, MarkInv
<1>3. ASSUME NEW q \in Uploads, IsRow(q)' PROVE Names(rows[q].path, owner[q])'
  <2>1. CASE q = r
    BY <1>1, <2>1 DEF RInv, RTypes, Names
  <2>2. CASE q # r
    <3>1. rows'[q] = rows[q] /\ owner'[q] = owner[q]
      BY <2>2 DEF RInv, RTypes
    <3> QED BY <1>3, <3>1, NamesKept DEF RInv, RowInv, IsRow, Names
  <2> QED BY <2>1, <2>2
<1>4. RowInv'
  BY <1>3, NamesKept DEF RInv, RowInv, Names
<1> QED BY <1>2, <1>4 DEF RInv

(* What a job remembers of a row.                                          *)
LEMMA MarkWritten ==
  ASSUME RInv, Kept, UNCHANGED <<around, rows, owner, crashes>>,
         \A k \in Refreshes : refresh'[k] \in Refresh
              /\ (refresh'[k].pc # "idle" => refresh'[k] = refresh[k]),
         refresh' = [k \in Refreshes |-> refresh'[k]],
         NEW j \in Jobs, NEW new \in Mark, mark' = [mark EXCEPT ![j] = new],
         new.pc # "idle" => new.real \in Teams,
         new.pc \notin {"idle", "marking"} => new.device \in Devices /\ Names(new.path, new.owner)
  PROVE  RInv'
<1>1. mark'[j] = new /\ \A i \in Jobs \ {j} : mark'[i] = mark[i]
  BY DEF RInv, RTypes
<1>2. RTypes' /\ MarkInv'
  <2>1. mark' \in [Jobs -> Mark] /\ refresh' \in [Refreshes -> Refresh]
    BY DEF RInv, RTypes
  <2> QED BY <1>1, <2>1 DEF RInv, RTypes, MarkInv
<1>3. ASSUME NEW i \in Jobs, mark'[i].pc \notin {"idle", "marking"} PROVE Names(mark[i].path, mark[i].owner)'
  BY <1>1, <1>3, NamesKept DEF RInv, RowInv, Names
<1>4. RowInv'
  BY <1>3, NamesKept DEF RInv, RowInv, Names, IsRow
<1> QED BY <1>2, <1>4 DEF RInv

(* An upload that files its row. *)
LEMMA RecordStep == ASSUME IInv, NEW u \in Uploads, Record(u), Kept, UNCHANGED around PROVE RInv'
<1>1. PICK r \in Uploads :
        /\ rows' = [rows EXCEPT ![r] = [device |-> upload[u].device, id |-> Unsigned,
                                        path |-> upload[u].path]]
        /\ owner' = [owner EXCEPT ![r] = u]
  BY DEF Record, Filed
<1>2. ~At(u, "new") /\ UNCHANGED <<refresh, mark, crashes>>
  BY DEF Record, At
<1> DEFINE new == [device |-> upload[u].device, id |-> Unsigned, path |-> upload[u].path]
<1>3. new \in Row /\ Names(new.path, u)
  BY <1>2 DEF IInv, UInv, FileInv, Row, Ids, Paths, Names
<1> HIDE DEF new
<1>4. rows' = [rows EXCEPT ![r] = new]
  BY <1>1 DEF new
<1> QED BY <1>1, <1>2, <1>3, <1>4, RowWritten DEF IInv

(* An install or a refresh that begins to mark its row.                    *)
LEMMA StartStep ==
  ASSUME IInv, Kept, UNCHANGED around,
         \/ \E u \in Uploads, team \in Teams : Installed(u, team)
         \/ \E k \in Refreshes, team \in Teams : Refreshed(k, team)
  PROVE  RInv'
<1>0. NoRefresh \in Refresh /\ NoRefresh.pc = "idle"
  BY DEF NoRefresh, Refresh
<1>1. PICK j \in Jobs, app \in Uploads \cup {None}, team \in Teams : StartMark(j, app, team)
  <2>1. ASSUME NEW u \in Uploads, NEW team \in Teams, Installed(u, team)
        PROVE  StartMark(u, upload[u].app, team) /\ upload[u].app \in Uploads \cup {None}
    BY <2>1 DEF Installed, IInv, UInv, Upload
  <2>2. ASSUME NEW k \in Refreshes, NEW team \in Teams, Refreshed(k, team)
        PROVE  StartMark(k, refresh[k].app, team) /\ refresh[k].app \in Uploads \cup {None}
    BY <2>2 DEF Refreshed, IInv, RInv, RTypes, Refresh
  <2> QED BY <2>1, <2>2 DEF Jobs
<1> DEFINE new == [NoMark EXCEPT !.pc = "marking", !.app = app, !.real = team]
<1>2. new \in Mark /\ new.pc = "marking" /\ new.real = team
  BY DEF NoMark, Mark
<1>3. mark' = [mark EXCEPT ![j] = new]
  BY <1>1 DEF StartMark
<1> HIDE DEF new
<1>4. /\ \A k \in Refreshes :
           /\ refresh'[k] \in Refresh
           /\ refresh'[k].pc # "idle" => refresh'[k] = refresh[k]
      /\ refresh' = [k \in Refreshes |-> refresh'[k]]
      /\ UNCHANGED <<rows, owner, crashes>>
  <2>1. refresh \in [Refreshes -> Refresh]
    BY DEF IInv, RInv, RTypes
  <2>2. UNCHANGED <<rows, owner, crashes>>
    BY DEF Installed, Refreshed, apps
  <2>3. UNCHANGED refresh \/ \E k \in Refreshes : refresh' = [refresh EXCEPT ![k] = NoRefresh]
    BY DEF Installed, Refreshed
  <2> QED BY <1>0, <2>1, <2>2, <2>3
<1> QED BY <1>2, <1>3, <1>4, MarkWritten DEF IInv

(* Reading a row and its file, and failing: a refresh remembers the upload *)
(* the row was written for.                                                *)
LEMMA RefreshReads ==
  ASSUME IInv, NEW k \in Refreshes, Kept, UNCHANGED around,
         (\E r \in Uploads : ReadRow(k, r)) \/ ReadFile(k) \/ RefreshFails(k)
  PROVE  RInv'
<1>0. /\ refresh \in [Refreshes -> Refresh] /\ UNCHANGED <<rows, owner, mark, crashes>>
      /\ rows \in [Uploads -> Row \cup {None}] /\ owner \in [Uploads -> Uploads \cup {None}]
  BY DEF IInv, RInv, RTypes, ReadRow, ReadFile, RefreshFails, apps
<1>1. PICK new \in Refresh :
        /\ refresh' = [refresh EXCEPT ![k] = new]
        /\ new.pc # "idle" => Names(new.path, new.owner)
  <2>1. ASSUME NEW r \in Uploads, ReadRow(k, r)
        PROVE  \E new \in Refresh : /\ refresh' = [refresh EXCEPT ![k] = new]
                                    /\ new.pc # "idle" => Names(new.path, new.owner)
    <3>1. IsRow(r) /\ Names(rows[r].path, owner[r]) /\ rows[r] \in Row
      BY <1>0, <2>1 DEF ReadRow, IsRow, IInv, RInv, RowInv
    <3> DEFINE new == [NoRefresh EXCEPT !.pc = "read", !.app = r, !.id = rows[r].id, !.path = rows[r].path,
                                        !.owner = owner[r]]
    <3>2. PICK id \in Ids, path \in Paths, v \in Uploads : id = rows[r].id /\ path = rows[r].path /\ v = owner[r]
      BY <3>1 DEF Row, Names
    <3>3. [NoRefresh EXCEPT !.pc = "read", !.app = r, !.id = id, !.path = path, !.owner = v] \in Refresh
      BY DEF NoRefresh, Refresh
    <3>4. new \in Refresh /\ new.path = rows[r].path /\ new.owner = owner[r]
      BY <3>2, <3>3 DEF NoRefresh
    <3>5. refresh' = [refresh EXCEPT ![k] = new]
      BY <2>1 DEF ReadRow
    <3> HIDE DEF new
    <3> QED BY <3>1, <3>4, <3>5
  <2>2. CASE ReadFile(k)
    <3> PICK i \in Uploads : i = file[refresh[k].path]
      BY <2>2 DEF ReadFile
    <3> DEFINE new == [refresh[k] EXCEPT !.pc = "signed", !.ipa = i]
    <3>1. new \in Refresh /\ new.path = refresh[k].path /\ new.owner = refresh[k].owner
      BY <1>0 DEF Refresh
    <3>2. refresh' = [refresh EXCEPT ![k] = new]
      BY <1>0, <2>2 DEF ReadFile, Refresh
    <3>3. Names(refresh[k].path, refresh[k].owner)
      BY <2>2 DEF ReadFile, IInv, RInv, RowInv
    <3> HIDE DEF new
    <3> QED BY <3>1, <3>2, <3>3
  <2>3. CASE RefreshFails(k)
    <3>1. refresh' = [refresh EXCEPT ![k] = NoRefresh] /\ NoRefresh \in Refresh /\ NoRefresh.pc = "idle"
      BY <2>3 DEF RefreshFails, NoRefresh, Refresh
    <3> QED BY <3>1
  <2> QED BY <2>1, <2>2, <2>3
<1>2. refresh'[k] = new /\ \A i \in Refreshes \ {k} : refresh'[i] = refresh[i]
  BY <1>0, <1>1
<1>3. RTypes' /\ MarkInv'
  BY <1>0, <1>1 DEF IInv, RInv, RTypes, MarkInv
<1>4. ASSUME NEW i \in Refreshes, refresh'[i].pc # "idle" PROVE Names(refresh[i].path, refresh[i].owner)'
  BY <1>1, <1>2, <1>4, NamesKept DEF IInv, RInv, RowInv, Names
<1>5. RowInv'
  BY <1>0, <1>4, NamesKept DEF IInv, RInv, RowInv, Names, IsRow
<1> QED BY <1>3, <1>5 DEF RInv

(* A row that goes, whoever deletes it.                                    *)
LEMMA RowGone ==
  ASSUME RInv, NEW r, DeleteRow(r), UNCHANGED <<around, upload, refresh, crashes>>, mark' = mark
  PROVE  RInv'
<1>1. /\ rows \in [Uploads -> Row \cup {None}] /\ owner \in [Uploads -> Uploads \cup {None}]
      /\ rows' = [rows EXCEPT ![r] = None] /\ owner' = [owner EXCEPT ![r] = None]
  BY DEF RInv, RTypes, DeleteRow
<1>2. RTypes' /\ MarkInv'
  BY <1>1 DEF RInv, RTypes, MarkInv
<1>3. \A q \in Uploads : IsRow(q)' => rows'[q] = rows[q] /\ owner'[q] = owner[q] /\ IsRow(q)
  BY <1>1 DEF IsRow
<1>4. RowInv'
  BY <1>3 DEF RInv, RowInv, Names, At
<1> QED BY <1>2, <1>4 DEF RInv

(* The steps of mark_app_installed: what a merge writes is what it read.   *)
LEMMA MarkSteps == ASSUME IInv, NEW j \in Jobs, MarkStep(j), Kept, UNCHANGED around PROVE RInv'
<1> USE DEF At
<1>0. /\ NoMark \in Mark /\ NoMark.pc = "idle" /\ mark \in [Jobs -> Mark] /\ RInv
      /\ rows \in [Uploads -> Row \cup {None}] /\ owner \in [Uploads -> Uploads \cup {None}]
  BY DEF NoMark, Mark, IInv, RInv, RTypes
<1>1. /\ UNCHANGED <<upload, refresh, crashes>> /\ refresh' = [k \in Refreshes |-> refresh'[k]]
      /\ \A k \in Refreshes : refresh'[k] \in Refresh /\ refresh'[k] = refresh[k]
  BY DEF MarkStep, SelectRow, SelectConflict, Rename, UpdateTarget, DropRow, IInv, RInv, RTypes
<1>2. ASSUME NEW new \in Mark, mark' = [mark EXCEPT ![j] = new], UNCHANGED <<rows, owner>>,
             new.pc # "idle" => new.real \in Teams,
             new.pc \notin {"idle", "marking"} => new.device \in Devices /\ Names(new.path, new.owner)
      PROVE  RInv'
  BY <1>0, <1>1, <1>2, MarkWritten
<1>3. ASSUME MarkEnds(j), UNCHANGED <<rows, owner>> PROVE RInv'
  BY <1>0, <1>2, <1>3 DEF MarkEnds
<1>4. CASE SelectRow(j)
  <2> DEFINE r == mark[j].app
             new == [mark[j] EXCEPT !.pc = "looking", !.device = rows[r].device,
                                    !.path = rows[r].path, !.owner = owner[r]]
  <2>1. CASE IsRow(r) /\ rows[r].id # mark[j].real
    <3>1. Names(rows[r].path, owner[r]) /\ rows[r] \in Row /\ mark[j].pc = "marking"
      BY <1>0, <1>4, <2>1 DEF SelectRow, IsRow, IInv, RInv, RowInv
    <3>2. PICK d \in Devices, path \in Paths, v \in Uploads : d = rows[r].device /\ path = rows[r].path /\ v = owner[r]
      BY <3>1 DEF Row, Names
    <3>3. [mark[j] EXCEPT !.pc = "looking", !.device = d, !.path = path, !.owner = v] \in Mark
      BY <1>0 DEF Mark
    <3>4. /\ new \in Mark /\ new.real = mark[j].real /\ new.device = d
          /\ new.path = rows[r].path /\ new.owner = owner[r]
      BY <1>0, <3>2, <3>3 DEF Mark
    <3>5. mark' = [mark EXCEPT ![j] = new] /\ UNCHANGED <<rows, owner>>
      BY <1>0, <1>4, <2>1 DEF SelectRow, Mark, apps
    <3>6. mark[j].real \in Teams
      BY <3>1 DEF IInv, RInv, MarkInv
    <3> HIDE DEF new
    <3> QED BY <1>2, <3>1, <3>4, <3>5, <3>6
  <2>2. CASE ~(IsRow(r) /\ rows[r].id # mark[j].real)
    BY <1>3, <1>4, <2>2 DEF SelectRow, apps
  <2> QED BY <2>1, <2>2
<1>5. CASE ~SelectRow(j)
  <2>1. /\ mark[j].pc \notin {"idle", "marking"} /\ mark[j].real \in Teams /\ mark[j].device \in Devices
        /\ Names(mark[j].path, mark[j].owner)
    BY <1>5 DEF MarkStep, SelectConflict, Rename, UpdateTarget, DropRow, IInv, RInv, RowInv, MarkInv
  <2>2. CASE SelectConflict(j)
    <3>1. PICK new : /\ mark' = [mark EXCEPT ![j] = new] /\ new \in Mark /\ new.real = mark[j].real
                     /\ new.device = mark[j].device /\ new.path = mark[j].path /\ new.owner = mark[j].owner
      <4>1. ASSUME NEW t \in Uploads, mark' = [mark EXCEPT ![j].pc = "merging", ![j].target = t]
            PROVE  mark' = [mark EXCEPT ![j] = [mark[j] EXCEPT !.pc = "merging", !.target = t]]
                   /\ [mark[j] EXCEPT !.pc = "merging", !.target = t] \in Mark
        BY <1>0, <4>1 DEF Mark
      <4>2. ASSUME mark' = [mark EXCEPT ![j].pc = "renaming"]
            PROVE  mark' = [mark EXCEPT ![j] = [mark[j] EXCEPT !.pc = "renaming"]]
                   /\ [mark[j] EXCEPT !.pc = "renaming"] \in Mark
        BY <1>0, <4>2 DEF Mark
      <4>3. \/ \E t \in Uploads : mark' = [mark EXCEPT ![j].pc = "merging", ![j].target = t]
            \/ mark' = [mark EXCEPT ![j].pc = "renaming"]
        BY <2>2 DEF SelectConflict, Filed
      <4>4. PICK new : mark' = [mark EXCEPT ![j] = new]
                       /\ \/ new = [mark[j] EXCEPT !.pc = "renaming"] /\ new \in Mark
                          \/ \E t \in Uploads : /\ new = [mark[j] EXCEPT !.pc = "merging", !.target = t]
                                                /\ new \in Mark
        BY <4>1, <4>2, <4>3
      <4> QED BY <1>0, <4>4 DEF Mark
    <3>2. UNCHANGED <<rows, owner>>
      BY <2>2 DEF SelectConflict, apps
    <3> QED BY <1>2, <2>1, <3>1, <3>2
  <2>3. CASE Rename(j)
    <3> DEFINE r == mark[j].app
    <3>1. CASE UNCHANGED rows
      BY <1>3, <2>3, <3>1 DEF Rename
    <3>2. CASE IsRow(r) /\ rows' = [rows EXCEPT ![r].id = mark[j].real]
      <4>1. r \in Uploads /\ rows[r] \in Row /\ Names(rows[r].path, owner[r]) /\ owner' = owner
        BY <1>0, <2>3, <3>2 DEF IsRow, RInv, RowInv, Rename
      <4>2. PICK id \in Ids : id = mark[j].real
        BY <2>1 DEF Ids
      <4> DEFINE new == [rows[r] EXCEPT !.id = id]
      <4>3. new \in Row /\ new.path = rows[r].path
        BY <4>1 DEF Row
      <4>4. rows' = [rows EXCEPT ![r] = new]
        BY <1>0, <3>2, <4>1, <4>2
      <4> HIDE DEF new
      <4>5. ASSUME NEW q \in Uploads, IsRow(q)'
            PROVE  rows'[q] \in Row /\ Names(rows'[q].path, owner'[q])
        BY <1>0, <4>1, <4>3, <4>4, <4>5 DEF IsRow, RInv, RowInv
      <4>6. rows' \in [Uploads -> Row \cup {None}]
        BY <1>0, <4>3, <4>4
      <4>7. mark' = [mark EXCEPT ![j] = NoMark] /\ mark' \in [Jobs -> Mark]
        BY <1>0, <2>3 DEF Rename, MarkEnds
      <4>8. RTypes' /\ MarkInv'
        BY <1>0, <1>1, <4>1, <4>6, <4>7 DEF RInv, RTypes, MarkInv
      <4>9. RowInv'
        <5>1. ASSUME NEW i \in Jobs, mark'[i].pc \notin {"idle", "marking"} PROVE mark'[i] = mark[i]
          BY <1>0, <4>7, <5>1
        <5> QED BY <1>0, <1>1, <4>5, <5>1 DEF RInv, RowInv, Names
      <4> QED BY <4>8, <4>9 DEF RInv
    <3> QED BY <2>3, <3>1, <3>2 DEF Rename
  <2>4. CASE UpdateTarget(j)
    <3> DEFINE t == mark[j].target
               next == [mark[j] EXCEPT !.pc = "dropping"]
    <3>1. /\ next \in Mark /\ next.real = mark[j].real /\ next.device = mark[j].device
          /\ next.path = mark[j].path /\ next.owner = mark[j].owner
      BY <1>0 DEF Mark
    <3>2. mark' = [mark EXCEPT ![j] = next]
      BY <1>0, <2>4 DEF UpdateTarget, Mark
    <3> HIDE DEF next
    <3>3. CASE UNCHANGED apps
      BY <1>2, <2>1, <3>1, <3>2, <3>3 DEF apps
    <3>4. CASE /\ IsRow(t) /\ rows' = [rows EXCEPT ![t].path = mark[j].path]
               /\ owner' = [owner EXCEPT ![t] = mark[j].owner]
      <4>1. t \in Uploads /\ rows[t] \in Row
        BY <1>0, <3>4 DEF IsRow
      <4>2. PICK path \in Paths, v \in Uploads : path = mark[j].path /\ v = mark[j].owner /\ Names(path, v)
        BY <2>1 DEF Names, IInv, UInv, FileInv, Paths
      <4> DEFINE new == [rows[t] EXCEPT !.path = path]
      <4>3. new \in Row /\ new.path = path
        BY <4>1 DEF Row
      <4>4. rows' = [rows EXCEPT ![t] = new]
        BY <1>0, <3>4, <4>1, <4>2
      <4> HIDE DEF new
      <4>5. rows' \in [Uploads -> Row \cup {None}] /\ owner' \in [Uploads -> Uploads \cup {None}]
        BY <1>0, <3>4, <4>2, <4>3, <4>4
      <4>6. ASSUME NEW q \in Uploads, IsRow(q)' PROVE Names(rows'[q].path, owner'[q])
        <5>1. CASE q = t
          BY <1>0, <3>4, <4>1, <4>2, <4>3, <4>4, <5>1
        <5>2. CASE q # t
          BY <1>0, <3>4, <4>4, <4>6, <5>2 DEF IsRow, RInv, RowInv
        <5> QED BY <5>1, <5>2
      <4>7. mark' \in [Jobs -> Mark] /\ mark'[j] = next /\ \A i \in Jobs \ {j} : mark'[i] = mark[i]
        BY <1>0, <3>1, <3>2
      <4>8. RTypes' /\ MarkInv'
        BY <1>0, <1>1, <2>1, <3>1, <4>5, <4>7 DEF RInv, RTypes, MarkInv
      <4>9. RowInv'
        <5>1. ASSUME NEW i \in Jobs, mark'[i].pc \notin {"idle", "marking"} PROVE Names(mark'[i].path, mark'[i].owner)
          BY <1>0, <2>1, <3>1, <4>7, <5>1 DEF RInv, RowInv
        <5> QED BY <1>0, <1>1, <4>6, <5>1 DEF RInv, RowInv, Names
      <4> QED BY <4>8, <4>9 DEF RInv
    <3> QED BY <2>4, <3>3, <3>4 DEF UpdateTarget
  <2>5. CASE DropRow(j)
    <3>1. CASE UNCHANGED apps
      BY <1>3, <2>5, <3>1 DEF DropRow, apps
    <3>2. CASE DeleteRow(mark[j].app)
      <4>1. /\ mark' = [mark EXCEPT ![j] = NoMark] /\ mark' \in [Jobs -> Mark]
            /\ rows' = [rows EXCEPT ![mark[j].app] = None]
            /\ owner' = [owner EXCEPT ![mark[j].app] = None]
        BY <1>0, <2>5, <3>2 DEF DropRow, MarkEnds, DeleteRow
      <4>2. RTypes' /\ MarkInv'
        BY <1>0, <1>1, <4>1 DEF RInv, RTypes, MarkInv
      <4>3. ASSUME NEW i \in Jobs, mark'[i].pc \notin {"idle", "marking"} PROVE mark'[i] = mark[i]
        BY <1>0, <4>1, <4>3
      <4>4. \A q \in Uploads : IsRow(q)' => rows'[q] = rows[q] /\ owner'[q] = owner[q] /\ IsRow(q)
        BY <1>0, <4>1 DEF IsRow
      <4>5. RowInv'
        BY <1>0, <1>1, <4>3, <4>4 DEF RInv, RowInv, Names
      <4> QED BY <4>2, <4>5 DEF RInv
    <3> QED BY <2>5, <3>1, <3>2 DEF DropRow
  <2> QED BY <1>5, <2>2, <2>3, <2>4, <2>5 DEF MarkStep
<1> QED BY <1>4, <1>5

(* A restart forgets what jobs remember. *)
LEMMA CrashRows == ASSUME RInv, NEW reboot \in BOOLEAN, Crash(reboot), Kept, UNCHANGED around PROVE RInv'
<1>1. /\ UNCHANGED <<rows, owner>> /\ crashes' \in 0..MaxCrashes
      /\ refresh' = [k \in Refreshes |-> NoRefresh] /\ mark' = [j \in Jobs |-> NoMark]
  BY IpaAssumption DEF Crash, apps, RInv, RTypes
<1>2. NoRefresh \in Refresh /\ NoMark \in Mark /\ NoRefresh.pc = "idle" /\ NoMark.pc = "idle"
  BY DEF NoRefresh, NoMark, Refresh, Mark
<1>3. RTypes' /\ MarkInv'
  BY <1>1, <1>2 DEF RInv, RTypes, MarkInv
<1>4. RowInv'
  BY <1>1, <1>2, NamesKept DEF RInv, RowInv, Names, IsRow
<1> QED BY <1>3, <1>4 DEF RInv

-----------------------------------------------------------------------------
(* Every step keeps the invariant.                                         *)
LEMMA InvStep == IInv /\ [Next]_vars => IInv'
<1> SUFFICES ASSUME IInv, [Next]_vars PROVE IInv'
  OBVIOUS
<1> USE DEF IInv
<1>0. (Kept /\ UInv') \/ ~UNCHANGED <<file, older, upload>>
  BY DEF Kept, UInv, OlderInv, NewInv, FileInv, JobSignsItsOwn, At
<1>1. ASSUME NEW u \in Uploads, NEW d \in Devices, NEW p \in {u, Stored}, WriteStart(u, d, p), UNCHANGED around
      PROVE  IInv'
  <2>1. UInv' /\ Kept /\ UNCHANGED <<rows, owner, refresh, mark, crashes>>
    BY <1>1, TruncateStep DEF WriteStart, Truncate, apps
  <2> QED BY <1>1, <2>1, SameRows DEF RInv, RTypes
<1>2. ASSUME NEW u \in Uploads, UploadStep(u), UNCHANGED around PROVE IInv'
  <2>1. CASE WriteEnd(u) \/ WriteFails(u) \/ JobFails(u) \/ Sign(u)
    <3>1. UInv' /\ Kept
      BY <2>1, WriteEndStep, QuietStep, SignStep
    <3>2. UNCHANGED <<rows, owner, refresh, mark, crashes>>
      BY <2>1 DEF WriteEnd, WriteFails, JobFails, Sign, apps
    <3> QED BY <1>2, <3>1, <3>2, SameRows DEF RInv, RTypes
  <2>2. CASE Record(u)
    BY <1>2, <2>2, QuietStep, RecordStep
  <2>3. CASE \E team \in Teams : Installed(u, team)
    BY <1>2, <2>3, QuietStep, StartStep
  <2> QED BY <1>2, <2>1, <2>2, <2>3 DEF UploadStep
<1>3. ASSUME NEW k \in Refreshes, RefreshStep(k), UNCHANGED around PROVE IInv'
  <2>1. Kept /\ UInv'
    BY <1>0, <1>3 DEF RefreshStep, ReadRow, ReadFile, Refreshed, RefreshFails, files
  <2> QED BY <1>3, <2>1, RefreshReads, StartStep DEF RefreshStep
<1>4. ASSUME NEW j \in Jobs, MarkStep(j), UNCHANGED around PROVE IInv'
  <2>1. Kept /\ UInv'
    BY <1>0, <1>4 DEF MarkStep, SelectRow, SelectConflict, Rename, UpdateTarget, DropRow, files
  <2> QED BY <1>4, <2>1, MarkSteps
<1>5. ASSUME NEW r \in Uploads, Remove(r), UNCHANGED around PROVE IInv'
  <2>1. Kept /\ UInv' /\ DeleteRow(r) /\ UNCHANGED <<upload, refresh, mark, crashes>>
    BY <1>0, <1>5 DEF Remove, files
  <2> QED BY <1>5, <2>1, RowGone
<1>6. ASSUME NEW reboot \in BOOLEAN, Crash(reboot), UNCHANGED around PROVE IInv'
  BY <1>6, CrashStep, CrashRows
<1>7. CASE UNCHANGED vars
  <2>1. UInv' /\ Kept /\ UNCHANGED <<around, rows, owner, refresh, mark, crashes>>
    BY <1>0, <1>7 DEF vars
  <2> QED BY <2>1, SameRows DEF RInv, RTypes
<1> QED BY <1>1, <1>2, <1>3, <1>4, <1>5, <1>6, <1>7 DEF Next, Steps, Rest

(* The inductive invariant holds.                                          *)
LEMMA InvHolds == Spec => []IInv
<1>1. Init => IInv
  <2> SUFFICES ASSUME Init PROVE IInv
    OBVIOUS
  <2> USE IpaAssumption DEF Init
  <2>1. UInv
    BY DEF UInv, Upload, NoUpload, PCs, Paths, Contents, OlderInv, NewInv, FileInv, JobSignsItsOwn, At
  <2>2. NoRefresh \in Refresh /\ NoMark \in Mark /\ NoRefresh.pc = "idle" /\ NoMark.pc = "idle"
    BY DEF NoRefresh, NoMark, Refresh, Mark
  <2>3. RInv
    BY <2>2 DEF RInv, RTypes, RowInv, MarkInv, IsRow
  <2> QED BY <2>1, <2>3 DEF IInv
<1> QED BY <1>1, InvStep, PTL DEF Spec

-----------------------------------------------------------------------------
(* Types hold for any devices, uploads, refreshes, teams and restarts; a   *)
(* merge works for a signed id.                                            *)
THEOREM TypeCorrect == Spec => []TypeOK
<1>1. IInv => TypeOK
  BY TypeIs DEF IInv, UInv, RInv
<1> QED BY <1>1, InvHolds, PTL

(* For any number of devices, uploads and restarts, an install job never   *)
(* signs an IPA that was there before its own was uploaded, and with a     *)
(* file of its own it signs exactly what was uploaded.                     *)
THEOREM SignsItsOwn == Spec => []JobSignsItsOwn
<1>1. IInv => JobSignsItsOwn
  BY DEF IInv, UInv
<1> QED BY <1>1, InvHolds, PTL

(* Whatever inserts, renames, merges, deletions and restarts come between  *)
(* the upload, the merge, the read of the row and the read of the file: a  *)
(* refresh that falls back installs nothing older than the upload its row  *)
(* was written for when it was read, nor than any upload that had been     *)
(* written to the same file when that is read.                             *)
THEOREM FallbackIsNotOlder == Spec => RefreshIsNotOlder
<1> DEFINE NotOlder == \A k \in Refreshes : refresh[k].pc = "read" /\ refresh'[k].pc = "signed" =>
                         \A v \in Uploads : v = refresh[k].owner \/ upload[v].path = refresh[k].path =>
                           refresh'[k].ipa \notin older[v]
<1>1. IInv /\ [Next]_vars => [NotOlder]_vars
  <2> SUFFICES ASSUME IInv, Next, NEW k \in Refreshes, refresh[k].pc = "read", refresh'[k].pc = "signed",
                      NEW v \in Uploads, v = refresh[k].owner \/ upload[v].path = refresh[k].path
               PROVE  refresh'[k].ipa \notin older[v]
    OBVIOUS
  <2>0. refresh \in [Refreshes -> Refresh]
    BY DEF IInv, RInv, RTypes
  <2>1. ReadFile(k)
    <3>1. refresh' # refresh
      OBVIOUS
    <3>2. NoRefresh.pc = "idle"
      BY DEF NoRefresh
    <3>3. ~ \E reboot \in BOOLEAN : Crash(reboot)
      BY <3>2 DEF Crash
    <3>4. \E i \in Refreshes : RefreshStep(i)
      BY <3>1, <3>3 DEF Next, Steps, UploadStep, WriteEnd, WriteFails, Record, Sign, Installed, JobFails,
                  WriteStart, Truncate, MarkStep, SelectRow, SelectConflict, Rename, UpdateTarget, DropRow,
                  Remove, Rest, vars
    <3>5. PICK i \in Refreshes : RefreshStep(i)
      BY <3>4
    <3>6. ASSUME NEW new, refresh' = [refresh EXCEPT ![i] = new] PROVE i = k /\ new.pc = "signed"
      BY <2>0, <3>6
    <3>7. ASSUME NEW r \in Uploads, ReadRow(i, r) PROVE FALSE
      BY <3>6, <3>7 DEF ReadRow
    <3>8. ASSUME (\E team \in Teams : Refreshed(i, team)) \/ RefreshFails(i) PROVE FALSE
      BY <3>2, <3>6, <3>8 DEF Refreshed, RefreshFails
    <3>9. ASSUME ReadFile(i) PROVE i = k
      <4>1. refresh' = [refresh EXCEPT ![i] = [refresh[i] EXCEPT !.pc = "signed", !.ipa = file[refresh[i].path]]]
        BY <2>0, <3>9 DEF ReadFile, Refresh
      <4> QED BY <3>6, <4>1
    <3> QED BY <3>5, <3>7, <3>8, <3>9 DEF RefreshStep
  <2>2. refresh'[k].ipa = file[refresh[k].path]
    BY <2>0, <2>1 DEF ReadFile, Refresh
  <2>3. Names(refresh[k].path, refresh[k].owner)
    BY DEF IInv, RInv, RowInv
  <2>4. upload[v].path = refresh[k].path
    BY <2>3 DEF Names
  <2>5. CASE At(v, "new")
    <3>1. upload[v].path = None
      BY <2>5 DEF IInv, UInv, NewInv
    <3>2. refresh[k].path \in Uploads \cup {Stored}
      BY <2>3 DEF Names, IInv, UInv, FileInv
    <3> QED BY <2>4, <3>1, <3>2, IpaAssumption
  <2>6. CASE ~At(v, "new")
    BY <2>2, <2>4, <2>6 DEF IInv, UInv, FileInv
  <2> QED BY <2>5, <2>6
<1> QED BY <1>1, InvHolds, PTL DEF Spec, RefreshIsNotOlder
=============================================================================
