----------------------------- MODULE DeviceLink -----------------------------
(***************************************************************************)
(* How JAS gets to know a device and reaches it.  Its row in `devices` has *)
(* the address the owner typed in, its pairing file and, as a hint, the    *)
(* last address mDNS resolved for it.  Every operation reads the row once  *)
(* and tries the hint before the manual address: a "tunnel" connects and   *)
(* then both sides prove who they are, a "ping" only connects, and a       *)
(* "register" is a tunnel without a row, which inserts one.  Meanwhile the *)
(* device moves, other hosts answer at addresses it has left, one of them  *)
(* a phone too, and announcements are handled one at a time.               *)
(***************************************************************************)
EXTENDS Integers, Sequences

CONSTANTS Addrs,     \* IP addresses
          Class,     \* Class[a]: 1 for IPv4, 2 for IPv6, 3 for link-local IPv6
          NoAddr,    \* NULL
          Ops,       \* operations in flight at the same time
          Hosts,     \* who else may be at an address: "none", "other", "silent"
          MaxMoves,  \* bound on the changes of the device's addresses
          MaxEvents  \* bound on the announcements waiting to be handled

ASSUME LinkAssumption ==
  /\ NoAddr \notin Addrs /\ Class \in [Addrs -> 1..3]
  /\ Hosts \subseteq {"none", "other", "silent"}
  /\ MaxMoves \in Nat /\ MaxEvents \in Nat

VARIABLES
  at,      \* the addresses the device answers at
  others,  \* others[a]: who is at a when the device is not
  manual,  \* devices.ip, NoAddr without a row
  pairing, \* devices.pairing_blob: the file of the device, or of the other phone
  mdns,    \* devices.mdns_ip
  events,  \* announcements run_mdns has not received yet
  newest,  \* history: the device's last announcement since the row has its file
  op,      \* op[o]: an operation
  moves    \* number of moves so far

vars == <<at, others, manual, pairing, mdns, events, newest, op, moves>>
row == <<manual, pairing, mdns>>
environment == <<at, others, row, events, newest, moves>>

PCs == {"idle", "hint", "verifyHint", "manual", "verifyManual", "insert", "failed"}

(* `steady` is history: was the device, whose file the operation has, at   *)
(* op.manual ever since the start?                                         *)
Operations == [pc : PCs, kind : {"ping", "tunnel", "register"},
               file : {"own", "foreign"}, manual : Addrs \cup {NoAddr},
               hint : Addrs \cup {NoAddr}, peer : {"device", "none", "other", "silent"},
               steady : BOOLEAN]

NoOp == [pc |-> "idle", kind |-> "ping", file |-> "own", manual |-> NoAddr, hint |-> NoAddr,
         peer |-> "none", steady |-> FALSE]

Registered == manual # NoAddr

Host(a) == IF a \in at THEN "device" ELSE others[a]

Init ==
  /\ at \in SUBSET Addrs
  /\ others \in [Addrs -> Hosts]
  /\ \A a, b \in Addrs : "none" \in {others[a], others[b]} \/ a = b   \* one other host, a bound
  /\ manual = NoAddr /\ pairing = "own" /\ mdns = NoAddr
  /\ events = <<>> /\ newest = {}
  /\ op = [o \in Ops |-> NoOp]
  /\ moves = 0

-----------------------------------------------------------------------------
(* The device goes to another network, or to sleep.                        *)
Move(to) ==
  /\ moves < MaxMoves /\ to # at
  /\ moves' = moves + 1
  /\ at' = to
  /\ op' = [o \in Ops |-> [op[o] EXCEPT !.steady = @ /\ op[o].manual \in to]]
  /\ UNCHANGED <<others, row, events, newest>>

(* It announces some of its addresses; so does the other phone, which may  *)
(* have none that counts.                                                  *)
Announce(who, addrs) ==
  /\ Len(events) < MaxEvents
  /\ events' = Append(events, [who |-> who, addrs |-> addrs])
  /\ newest' = IF who = "own" THEN addrs ELSE newest
  /\ UNCHANGED <<at, others, row, op, moves>>

(* Defect: the first address of the set, whatever its class. *)
PickAny(addrs) == addrs

(* pick_ip: IPv4 first, link-local IPv6 last; which one of its class is up *)
(* to the order of a HashSet.                                              *)
PickIp(addrs) == {a \in addrs : \A b \in addrs : Class[a] <= Class[b]}

(* handle_resolved: an announcement that the pairing file of no row        *)
(* validates changes nothing, nor does one without an address.  Listing    *)
(* the rows and the UPDATE are one step: announcements are handled one     *)
(* after another, and only a deletion or another file could come between.  *)
HandleResolved ==
  /\ events # <<>>
  /\ events' = Tail(events)
  /\ IF Registered /\ Head(events).who = pairing /\ Head(events).addrs # {}
       THEN mdns' \in PickIp(Head(events).addrs)
       ELSE UNCHANGED mdns
  /\ UNCHANGED <<at, others, manual, pairing, newest, op, moves>>

(* change_device_ip; NoAddr stands for the empty field, which is refused.  *)
ChangeDeviceIp(a) ==
  /\ Registered /\ a # NoAddr
  /\ manual' = a
  /\ UNCHANGED <<at, others, pairing, mdns, events, newest, op, moves>>

(* delete_device *)
DeleteDevice ==
  /\ Registered
  /\ manual' = NoAddr /\ pairing' = "own" /\ mdns' = NoAddr
  /\ newest' = {}
  /\ UNCHANGED <<at, others, events, op, moves>>

(* reimport_pairing: of the new file only the format is checked.           *)
ReimportPairing(file) ==
  /\ Registered
  /\ pairing' = file /\ newest' = {}
  /\ UNCHANGED <<at, others, manual, mdns, events, op, moves>>

-----------------------------------------------------------------------------
(* open_cdtunnel_preferring_mdns and tcp_ping.                             *)

Owner(file) == IF file = "own" THEN "device" ELSE "other"

Goto(o, where, peer) == op' = [op EXCEPT ![o].pc = where, ![o].peer = peer]

(* What follows a success: the answer, or the INSERT of a registration.    *)
Through(o) == op' = [op EXCEPT ![o] = IF @.kind = "register" THEN [@ EXCEPT !.pc = "insert"] ELSE NoOp]

(* The row is read, once. *)
Begin(o, kind) ==
  /\ op[o].pc = "idle" /\ Registered
  /\ op' = [op EXCEPT ![o] =
       [pc |-> IF mdns \in {NoAddr, manual} THEN "manual" ELSE "hint", kind |-> kind,
        file |-> pairing, manual |-> manual, hint |-> mdns, peer |-> "none",
        steady |-> pairing = "own" /\ manual \in at]]
  /\ UNCHANGED environment

(* register_device, with the device's file and the address of the form.    *)
BeginRegister(o, a) ==
  /\ op[o].pc = "idle"
  /\ op' = [op EXCEPT ![o] =
       [pc |-> "manual", kind |-> "register", file |-> "own", manual |-> a,
        hint |-> NoAddr, peer |-> "none", steady |-> a \in at]]
  /\ UNCHANGED environment

(* A connect, with a limit of five seconds; a ping needs nothing else.     *)
Connect(o, pc, addr, verify, otherwise) ==
  /\ op[o].pc = pc
  /\ IF op[o].kind = "ping" /\ Host(addr) # "none" THEN Through(o)
     ELSE Goto(o, IF Host(addr) = "none" THEN otherwise ELSE verify, Host(addr))
  /\ UNCHANGED environment

(* The pairing and the rest of the tunnel, without a limit, with the host  *)
(* that accepted the connection as long as it is there and speaks: they    *)
(* fail with any but the one the file is of.                               *)
Verify(o, pc, addr, otherwise) ==
  /\ op[o].pc = pc
  /\ op[o].peer # "silent" /\ Host(addr) = op[o].peer
  /\ IF op[o].peer = Owner(op[o].file) THEN Through(o) ELSE Goto(o, otherwise, "none")
  /\ UNCHANGED environment

(* The host left since the connect.  TCP may report it, a reset by whoever *)
(* is there now or an unanswered retransmission, or the operation waits    *)
(* without end: nothing makes this step happen.                            *)
Lost(o, pc, addr, otherwise) ==
  /\ op[o].pc = pc /\ Host(addr) # op[o].peer
  /\ Goto(o, otherwise, "none")
  /\ UNCHANGED environment

(* Defect: an error at the hint is the operation's error. *)
NoFallback(o) == Connect(o, "hint", op[o].hint, "verifyHint", "failed")

ConnectHint(o)   == Connect(o, "hint", op[o].hint, "verifyHint", "manual")

(* Defect: the hint is tried again after an error. *)
VerifyRetries(o) == Verify(o, "verifyHint", op[o].hint, "hint")

VerifyHint(o)    == Verify(o, "verifyHint", op[o].hint, "manual")
ConnectManual(o) == Connect(o, "manual", op[o].manual, "verifyManual", "failed")
VerifyManual(o)  == Verify(o, "verifyManual", op[o].manual, "failed")

LostHint(o)   == Lost(o, "verifyHint", op[o].hint, "manual")
LostManual(o) == Lost(o, "verifyManual", op[o].manual, "failed")

(* insert_device: a second row for the device is refused.                  *)
Insert(o) ==
  /\ op[o].pc = "insert"
  /\ IF Registered THEN UNCHANGED <<row, newest>>
     ELSE manual' = op[o].manual /\ newest' = {} /\ UNCHANGED <<pairing, mdns>>
  /\ op' = [op EXCEPT ![o] = NoOp]
  /\ UNCHANGED <<at, others, events, moves>>

End(o) ==
  /\ op[o].pc = "failed"
  /\ op' = [op EXCEPT ![o] = NoOp]
  /\ UNCHANGED environment

OpStep(o) ==
  ConnectHint(o) \/ VerifyHint(o) \/ ConnectManual(o) \/ VerifyManual(o) \/ Insert(o) \/ End(o)

Next ==
  \/ \E to \in SUBSET Addrs : Move(to)
  \/ \E addrs \in (SUBSET at) \ {{}} : Announce("own", addrs)
  \/ Announce("foreign", {a \in Addrs : Host(a) = "other"})
  \/ HandleResolved
  \/ \E a \in Addrs \cup {NoAddr} : ChangeDeviceIp(a)
  \/ DeleteDevice \/ \E file \in {"own", "foreign"} : ReimportPairing(file)
  \/ \E o \in Ops : \/ OpStep(o) \/ LostHint(o) \/ LostManual(o)
                    \/ \E kind \in {"ping", "tunnel"} : Begin(o, kind)
                    \/ \E a \in Addrs : BeginRegister(o, a)

Spec == Init /\ [][Next]_vars

(* tokio runs the operations and the mDNS task; of a lost connection it    *)
(* may never hear.                                                         *)
FairSpec == Spec /\ WF_vars(HandleResolved) /\ \A o \in Ops : WF_vars(OpStep(o))

-----------------------------------------------------------------------------
(* Properties *)

TypeOK ==
  /\ at \subseteq Addrs /\ others \in [Addrs -> Hosts]
  /\ manual \in Addrs \cup {NoAddr} /\ pairing \in {"own", "foreign"}
  /\ mdns \in Addrs \cup {NoAddr} /\ (~Registered => mdns = NoAddr)
  /\ events \in Seq([who : {"own", "foreign"}, addrs : SUBSET Addrs]) /\ newest \subseteq Addrs
  /\ op \in [Ops -> Operations]
  /\ moves \in 0..MaxMoves

(* An operation whose device is at the manual address all the time does    *)
(* not fail, whatever hint it was given and whoever answers there now.     *)
SteadyNeverFails == \A o \in Ops : op[o].steady => op[o].pc # "failed"

Handled == \A i \in 1..Len(events) : events[i].who = "foreign"

(* Once every announcement is handled, the hint is an address of the last  *)
(* one, and a link-local one only when it had no other.                    *)
HintIsNewest ==
  Registered /\ pairing = "own" /\ newest # {} /\ Handled =>
    mdns \in newest /\ (Class[mdns] = 3 => \A a \in newest : Class[a] = 3)

(* An operation is held up where no limit of its own ends the wait: the    *)
(* host accepted the connection and keeps silent, or has left since.       *)
HeldUp(o) ==
  \/ op[o].pc = "verifyHint" /\ (op[o].peer = "silent" \/ Host(op[o].hint) # op[o].peer)
  \/ op[o].pc = "verifyManual" /\ (op[o].peer = "silent" \/ Host(op[o].manual) # op[o].peer)

(* An operation ends unless it is held up for ever: a wrong hint, another  *)
(* phone, a move, a new file or a deletion do not keep it from its end.    *)
OpEnds == \A o \in Ops : (op[o].pc # "idle" ~> op[o].pc = "idle") \/ <>[]HeldUp(o)

=============================================================================
