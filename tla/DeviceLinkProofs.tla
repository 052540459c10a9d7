-------------------------- MODULE DeviceLinkProofs --------------------------
EXTENDS DeviceLink, TLAPS

(***************************************************************************)
(* An operation that is steady has the device's own file, and the device   *)
(* is at its manual address now: what it connects to there is the device,  *)
(* and whatever went wrong at the hint led it to the manual address.       *)
(***************************************************************************)
SteadyInv ==
  \A o \in Ops : op[o].steady =>
    /\ op[o].file = "own" /\ op[o].manual \in at
    /\ op[o].pc # "failed"
    /\ op[o].pc = "verifyManual" => op[o].peer = "device"

(* An operation tries addresses and never NULL.                            *)
Aimed ==
  \A o \in Ops : /\ op[o].pc # "idle" => op[o].manual \in Addrs
                 /\ op[o].pc \in {"hint", "verifyHint"} => op[o].hint \in Addrs

(***************************************************************************)
(* The device's last announcement is in the queue, the last one of the     *)
(* device there, or it is handled and none of the device is left.          *)
(***************************************************************************)
LastOwn(i) == /\ events[i].who = "own" /\ events[i].addrs = newest
              /\ \A k \in 1..Len(events) : k > i => events[k].who = "foreign"

NewestInv ==
  Registered /\ pairing = "own" /\ newest # {} =>
    (\E i \in 1..Len(events) : LastOwn(i)) \/ (Handled /\ mdns \in PickIp(newest))

Announcement == [who : {"own", "foreign"}, addrs : SUBSET Addrs]

-----------------------------------------------------------------------------
(* The steps of the system, grouped as the proofs below go through them.   *)
LEMMA Steps ==
  ASSUME TypeOK, [Next]_vars
  PROVE  \/ \E to \in SUBSET Addrs : Move(to)
         \/ \E addrs \in (SUBSET Addrs) \ {{}} : Announce("own", addrs)
         \/ \E addrs \in SUBSET Addrs : Announce("foreign", addrs)
         \/ HandleResolved
         \/ \E a \in Addrs \cup {NoAddr} : ChangeDeviceIp(a)
         \/ DeleteDevice
         \/ \E file \in {"own", "foreign"} : ReimportPairing(file)
         \/ \E o \in Ops : \/ OpStep(o) \/ LostHint(o) \/ LostManual(o)
                           \/ \E kind \in {"ping", "tunnel"} : Begin(o, kind)
                           \/ \E a \in Addrs : BeginRegister(o, a)
         \/ UNCHANGED vars
<1>1. SUBSET at \subseteq SUBSET Addrs
  BY DEF TypeOK
<1>2. {a \in Addrs : Host(a) = "other"} \in SUBSET Addrs
  OBVIOUS
<1> QED BY <1>1, <1>2 DEF Next

(* A step of an operation that goes nowhere else. *)
LEMMA GotoType ==
  ASSUME op \in [Ops -> Operations], NEW o \in Ops, NEW where \in PCs,
         NEW peer \in {"device", "none", "other", "silent"}, Goto(o, where, peer)
  PROVE  op' \in [Ops -> Operations]
<1>1. [op[o] EXCEPT !.pc = where, !.peer = peer] \in Operations
  BY DEF Operations
<1>2. op' = [op EXCEPT ![o] = [op[o] EXCEPT !.pc = where, !.peer = peer]]
  BY DEF Goto, Operations
<1> QED BY <1>1, <1>2

(* An operation that is over.                                              *)
LEMMA NoOpType == ASSUME TypeOK PROVE NoOp \in Operations
BY DEF NoOp, Operations, PCs

(* Who is at an address.                                                   *)
LEMMA HostType ==
  ASSUME TypeOK, NEW a \in Addrs PROVE Host(a) \in {"device", "none", "other", "silent"}
BY LinkAssumption DEF TypeOK, Host

(* A step of an operation that succeeds.                                   *)
LEMMA ThroughType ==
  ASSUME TypeOK, NEW o \in Ops, Through(o) PROVE op' \in [Ops -> Operations]
<1>1. op \in [Ops -> Operations] /\ NoOp \in Operations
  BY NoOpType DEF TypeOK
<1>2. [op[o] EXCEPT !.pc = "insert"] \in Operations
  BY <1>1 DEF Operations, PCs
<1> QED BY <1>1, <1>2 DEF Through
-----------------------------------------------------------------------------
(* Types.                                                                  *)
(* Every step of an operation.                                             *)
LEMMA OpStepType ==
  ASSUME TypeOK, Aimed, NEW o \in Ops, OpStep(o) \/ LostHint(o) \/ LostManual(o)
  PROVE  op' \in [Ops -> Operations]
<1> USE DEF OpStep, Aimed
<1>1. op[o] \in Operations /\ op \in [Ops -> Operations]
  BY DEF TypeOK
<1>2. CASE ConnectHint(o)
  BY <1>1, <1>2, HostType, ThroughType, GotoType DEF ConnectHint, Connect, PCs
<1>3. CASE VerifyHint(o)
  BY <1>1, <1>3, HostType, ThroughType, GotoType DEF VerifyHint, Verify, PCs
<1>4. CASE ConnectManual(o)
  BY <1>1, <1>4, HostType, ThroughType, GotoType DEF ConnectManual, Connect, PCs
<1>5. CASE VerifyManual(o)
  BY <1>1, <1>5, HostType, ThroughType, GotoType DEF VerifyManual, Verify, PCs
<1>6. CASE Insert(o) \/ End(o)
  BY <1>1, <1>6, NoOpType DEF Insert, End
<1>7. CASE LostHint(o) \/ LostManual(o)
  BY <1>1, <1>7, GotoType DEF LostHint, LostManual, Lost, PCs
<1> QED BY <1>2, <1>3, <1>4, <1>5, <1>6, <1>7

(* The type invariant is inductive, given what operations aim at.          *)
LEMMA TypeStep == TypeOK /\ Aimed /\ [Next]_vars => TypeOK'
<1> SUFFICES ASSUME TypeOK, Aimed, [Next]_vars PROVE TypeOK'
  OBVIOUS
<1> USE LinkAssumption
<1>1. ASSUME NEW to \in SUBSET Addrs, Move(to) PROVE TypeOK'
  <2>1. ASSUME NEW o \in Ops
        PROVE  [op[o] EXCEPT !.steady = op[o].steady /\ op[o].manual \in to] \in Operations
    <3>1. op[o] \in Operations
      BY DEF TypeOK
    <3>2. (op[o].steady /\ op[o].manual \in to) \in BOOLEAN
      OBVIOUS
    <3> QED BY <3>1, <3>2 DEF Operations
  <2>2. op' \in [Ops -> Operations]
    BY <1>1, <2>1 DEF Move
  <2> QED BY <1>1, <2>2 DEF Move, TypeOK, row, Registered
<1>2. ASSUME NEW who \in {"own", "foreign"}, NEW addrs \in SUBSET Addrs, Announce(who, addrs) PROVE TypeOK'
  <2>1. events' \in Seq(Announcement) /\ newest' \subseteq Addrs
    BY <1>2 DEF Announce, TypeOK, Announcement
  <2> QED BY <1>2, <2>1 DEF Announce, TypeOK, row, Registered, Announcement
<1>3. CASE HandleResolved
  <2>1. events' \in Seq(Announcement)
    BY <1>3 DEF HandleResolved, TypeOK, Announcement
  <2>2. mdns' \in Addrs \cup {NoAddr} /\ (~Registered => mdns' = mdns)
    <3>1. Head(events).addrs \subseteq Addrs
      <4>1. events \in Seq(Announcement) /\ events # <<>>
        BY <1>3 DEF HandleResolved, TypeOK, Announcement
      <4>2. Head(events) \in Announcement
        BY <4>1
      <4> QED BY <4>2 DEF Announcement
    <3>2. CASE Registered /\ Head(events).who = pairing /\ Head(events).addrs # {}
      BY <1>3, <3>1, <3>2 DEF HandleResolved, PickIp
    <3>3. CASE ~(Registered /\ Head(events).who = pairing /\ Head(events).addrs # {})
      BY <1>3, <3>3 DEF HandleResolved, TypeOK
    <3> QED BY <3>2, <3>3
  <2> QED BY <1>3, <2>1, <2>2 DEF HandleResolved, TypeOK, Registered, Announcement
<1>4. ASSUME NEW a \in Addrs \cup {NoAddr}, ChangeDeviceIp(a) PROVE TypeOK'
  BY <1>4 DEF ChangeDeviceIp, TypeOK, Registered
<1>5. CASE DeleteDevice
  BY <1>5 DEF DeleteDevice, TypeOK, Registered
<1>6. ASSUME NEW file \in {"own", "foreign"}, ReimportPairing(file) PROVE TypeOK'
  BY <1>6 DEF ReimportPairing, TypeOK, Registered
<1>7. ASSUME NEW o \in Ops, OpStep(o) \/ LostHint(o) \/ LostManual(o) PROVE TypeOK'
  <2>1. op' \in [Ops -> Operations]
    BY <1>7, OpStepType
  <2>2. CASE Insert(o)
    BY <2>1, <2>2 DEF Insert, TypeOK, Registered, row, Aimed
  <2>3. CASE ~Insert(o)
    <3>1. UNCHANGED environment
      BY <1>7, <2>3 DEF OpStep, ConnectHint, VerifyHint, ConnectManual, VerifyManual, Connect, Verify,
                        LostHint, LostManual, Lost, End
    <3> QED BY <2>1, <3>1 DEF environment, TypeOK, Registered, row
  <2> QED BY <2>2, <2>3
<1>8. ASSUME NEW o \in Ops, NEW kind \in {"ping", "tunnel"}, Begin(o, kind) PROVE TypeOK'
  <2>1. op' \in [Ops -> Operations]
    BY <1>8 DEF Begin, TypeOK, Operations, PCs
  <2> QED BY <1>8, <2>1 DEF Begin, environment, TypeOK, Registered, row
<1>9. ASSUME NEW o \in Ops, NEW a \in Addrs, BeginRegister(o, a) PROVE TypeOK'
  <2>1. op' \in [Ops -> Operations]
    BY <1>9 DEF BeginRegister, TypeOK, Operations, PCs
  <2> QED BY <1>9, <2>1 DEF BeginRegister, environment, TypeOK, Registered, row
<1>10. CASE UNCHANGED vars
  BY <1>10 DEF vars, row, TypeOK, Registered
<1> QED BY <1>1, <1>2, <1>3, <1>4, <1>5, <1>6, <1>7, <1>8, <1>9, <1>10, Steps

-----------------------------------------------------------------------------
(* What an operation holds.                                                *)
Held == Aimed /\ SteadyInv

(* A step that changes one operation keeps it if what it leaves fits.      *)
LEMMA PutHeld ==
  ASSUME TypeOK, Held, NEW o \in Ops, NEW new, op' = [op EXCEPT ![o] = new], at' = at,
         new.pc # "idle" => new.manual \in Addrs,
         new.pc \in {"hint", "verifyHint"} => new.hint \in Addrs,
         new.steady => /\ new.file = "own" /\ new.manual \in at /\ new.pc # "failed"
                       /\ new.pc = "verifyManual" => new.peer = "device"
  PROVE  Held'
<1>1. op'[o] = new /\ \A p \in Ops \ {o} : op'[p] = op[p]
  BY DEF TypeOK
<1>2. ASSUME NEW p \in Ops
      PROVE  /\ op'[p].pc # "idle" => op'[p].manual \in Addrs
             /\ op'[p].pc \in {"hint", "verifyHint"} => op'[p].hint \in Addrs
             /\ op'[p].steady => /\ op'[p].file = "own" /\ op'[p].manual \in at'
                                 /\ op'[p].pc # "failed"
                                 /\ op'[p].pc = "verifyManual" => op'[p].peer = "device"
  <2>1. CASE p = o
    BY <1>1, <2>1
  <2>2. CASE p # o
    BY <1>1, <2>2 DEF Held, Aimed, SteadyInv
  <2> QED BY <2>1, <2>2
<1> QED BY <1>2 DEF Held, Aimed, SteadyInv

(* An operation that goes on: a steady one not to "failed", and to         *)
(* "verifyManual" only with the device.                                    *)
LEMMA GotoHeld ==
  ASSUME TypeOK, Held, NEW o \in Ops, NEW where, NEW peer, Goto(o, where, peer), at' = at,
         op[o].pc # "idle",
         where \in {"hint", "verifyHint"} => op[o].hint \in Addrs,
         op[o].steady => where # "failed" /\ (where = "verifyManual" => peer = "device")
  PROVE  Held'
<1> DEFINE new == [op[o] EXCEPT !.pc = where, !.peer = peer]
<1>1. op[o] \in Operations
  BY DEF TypeOK
<1>2. op' = [op EXCEPT ![o] = new]
  BY <1>1 DEF Goto, TypeOK, Operations
<1>3. /\ new.pc = where /\ new.peer = peer /\ new.manual = op[o].manual /\ new.hint = op[o].hint
      /\ new.file = op[o].file /\ new.steady = op[o].steady
  BY <1>1 DEF Operations
<1> HIDE DEF new
<1>4. op[o].manual \in Addrs /\ (op[o].steady => op[o].file = "own" /\ op[o].manual \in at)
  BY DEF Held, Aimed, SteadyInv
<1> QED BY <1>2, <1>3, <1>4, PutHeld

(* An operation that is over, or through.                                  *)
LEMMA DoneHeld ==
  ASSUME TypeOK, Held, NEW o \in Ops, op[o].pc # "idle", at' = at,
         Through(o) \/ op' = [op EXCEPT ![o] = NoOp]
  PROVE  Held'
<1>1. CASE op' = [op EXCEPT ![o] = NoOp]
  BY <1>1, PutHeld DEF NoOp
<1>2. CASE op' = [op EXCEPT ![o] = [op[o] EXCEPT !.pc = "insert"]]
  <2> DEFINE new == [op[o] EXCEPT !.pc = "insert"]
  <2>1. op[o] \in Operations
    BY DEF TypeOK
  <2>2. /\ new.pc = "insert" /\ new.manual = op[o].manual
        /\ new.file = op[o].file /\ new.steady = op[o].steady
    BY <2>1 DEF Operations
  <2>3. op' = [op EXCEPT ![o] = new]
    BY <1>2
  <2> HIDE DEF new
  <2>4. op[o].manual \in Addrs /\ (op[o].steady => op[o].file = "own" /\ op[o].manual \in at)
    BY DEF Held, Aimed, SteadyInv
  <2> QED BY <2>2, <2>3, <2>4, PutHeld
<1> QED BY <1>1, <1>2 DEF Through

(* So is what an operation holds: only a move takes `steady` away.         *)
LEMMA HeldStep == TypeOK /\ Held /\ [Next]_vars => Held'
<1> SUFFICES ASSUME TypeOK, Held, [Next]_vars PROVE Held'
  OBVIOUS
<1> USE LinkAssumption DEF Held, Aimed, SteadyInv
<1>1. ASSUME NEW to \in SUBSET Addrs, Move(to) PROVE Held'
  <2>1. ASSUME NEW o \in Ops
        PROVE  /\ op'[o].pc = op[o].pc /\ op'[o].file = op[o].file /\ op'[o].manual = op[o].manual
               /\ op'[o].hint = op[o].hint /\ op'[o].peer = op[o].peer
               /\ op'[o].steady => op[o].steady /\ op[o].manual \in to
    <3>1. op[o] \in Operations
      BY DEF TypeOK
    <3>2. op'[o] = [op[o] EXCEPT !.steady = op[o].steady /\ op[o].manual \in to]
      BY <1>1 DEF Move
    <3> QED BY <3>1, <3>2 DEF Operations
  <2>2. at' = to
    BY <1>1 DEF Move
  <2> QED BY <2>1, <2>2
<1>2. ASSUME UNCHANGED <<op, at>> PROVE Held'
  BY <1>2
<1>3. ASSUME NEW o \in Ops, OpStep(o) \/ LostHint(o) \/ LostManual(o) PROVE Held'
  <2>1. op[o].steady => op[o].file = "own" /\ op[o].manual \in at
    OBVIOUS
  <2>2. CASE ConnectHint(o)
    BY <2>2, GotoHeld, DoneHeld DEF ConnectHint, Connect, environment
  <2>3. CASE VerifyHint(o)
    BY <2>3, GotoHeld, DoneHeld DEF VerifyHint, Verify, environment
  <2>4. CASE ConnectManual(o)
    <3>1. op[o].steady => Host(op[o].manual) = "device"
      BY <2>1 DEF Host
    <3>2. op[o].pc = "manual" /\ at' = at
      BY <2>4 DEF ConnectManual, Connect, environment
    <3> QED BY <2>4, <3>1, <3>2, GotoHeld, DoneHeld DEF ConnectManual, Connect
  <2>5. CASE VerifyManual(o)
    <3>1. op[o].pc = "verifyManual" /\ at' = at
      BY <2>5 DEF VerifyManual, Verify, environment
    <3>2. op[o].steady => op[o].peer = Owner(op[o].file)
      BY <2>1, <3>1 DEF Owner
    <3> QED BY <2>5, <3>1, <3>2, GotoHeld, DoneHeld DEF VerifyManual, Verify
  <2>6. CASE Insert(o) \/ End(o)
    BY <2>6, DoneHeld DEF Insert, End, environment
  <2>7. CASE LostHint(o)
    BY <2>7, GotoHeld DEF LostHint, Lost, environment
  <2>8. CASE LostManual(o)
    <3>1. op[o].pc = "verifyManual" /\ Host(op[o].manual) # op[o].peer /\ at' = at
      BY <2>8 DEF LostManual, Lost, environment
    <3>2. ~op[o].steady
      BY <2>1, <3>1 DEF Host
    <3> QED BY <2>8, <3>1, <3>2, GotoHeld DEF LostManual, Lost
  <2> QED BY <1>3, <2>2, <2>3, <2>4, <2>5, <2>6, <2>7, <2>8 DEF OpStep
<1>4. ASSUME NEW o \in Ops, NEW kind \in {"ping", "tunnel"}, Begin(o, kind) PROVE Held'
  BY <1>4 DEF Begin, TypeOK, Operations, environment, Registered
<1>5. ASSUME NEW o \in Ops, NEW a \in Addrs, BeginRegister(o, a) PROVE Held'
  BY <1>5 DEF BeginRegister, TypeOK, Operations, environment
<1> QED
  BY <1>1, <1>2, <1>3, <1>4, <1>5, Steps
     DEF Announce, HandleResolved, ChangeDeviceIp, DeleteDevice, ReimportPairing, vars

-----------------------------------------------------------------------------
(* What the row and the queue of announcements hold.                       *)
(* And where the last announcement of the device is.                       *)
LEMMA NewestStep == TypeOK /\ NewestInv /\ [Next]_vars => NewestInv'
<1> SUFFICES ASSUME TypeOK, NewestInv, [Next]_vars,
                    (Registered /\ pairing = "own" /\ newest # {})'
             PROVE  (\E i \in 1..Len(events') : LastOwn(i)') \/ (Handled /\ mdns \in PickIp(newest))'
  BY DEF NewestInv
<1> DEFINE Goal == (\E i \in 1..Len(events') : LastOwn(i)') \/ (Handled /\ mdns \in PickIp(newest))'
<1> USE DEF Registered
<1>0. events \in Seq(Announcement)
  BY DEF TypeOK, Announcement
<1>1. ASSUME UNCHANGED <<row, newest, events>> PROVE Goal
  BY <1>1 DEF row, NewestInv, LastOwn, Handled, PickIp
<1>2. ASSUME NEW addrs \in (SUBSET Addrs) \ {{}}, Announce("own", addrs) PROVE Goal
  <2>1. Len(events') = Len(events) + 1 /\ events'[Len(events) + 1] = [who |-> "own", addrs |-> addrs]
        /\ newest' = addrs
    BY <1>0, <1>2 DEF Announce, Announcement
  <2> PICK n \in Nat : n = Len(events) + 1
    BY <1>0
  <2>2. LastOwn(n)'
    BY <1>0, <2>1 DEF LastOwn
  <2>3. n \in 1..Len(events')
    BY <1>0, <2>1
  <2> QED BY <2>2, <2>3
<1>3. ASSUME NEW addrs \in SUBSET Addrs, Announce("foreign", addrs) PROVE Goal
  <2>1. /\ Len(events') = Len(events) + 1 /\ Len(events) \in Nat
        /\ \A i \in 1..Len(events) : events'[i] = events[i]
        /\ events'[Len(events) + 1].who = "foreign" /\ UNCHANGED <<row, newest>>
    BY <1>0, <1>3 DEF Announce, Announcement
  <2>2. ASSUME NEW i \in 1..Len(events), LastOwn(i) PROVE LastOwn(i)' /\ i \in 1..Len(events')
    BY <2>1, <2>2 DEF LastOwn
  <2>3. ASSUME Handled, mdns \in PickIp(newest) PROVE (Handled /\ mdns \in PickIp(newest))'
    BY <2>1, <2>3 DEF Handled, PickIp, row
  <2> QED BY <2>1, <2>2, <2>3 DEF NewestInv, row
<1>4. CASE HandleResolved
  <2>1. /\ Len(events) \in Nat /\ Len(events) >= 1 /\ Len(events') = Len(events) - 1
        /\ \A i \in 1..Len(events') : events'[i] = events[i + 1]
        /\ Head(events) = events[1]
        /\ UNCHANGED <<manual, pairing, newest>>
    BY <1>0, <1>4 DEF HandleResolved
  <2>2. (\E i \in 1..Len(events) : LastOwn(i)) \/ (Handled /\ mdns \in PickIp(newest))
    BY <2>1 DEF NewestInv
  <2>3. ASSUME NEW i \in 1..Len(events), LastOwn(i), i > 1
        PROVE  \E j \in 1..Len(events') : LastOwn(j)'
    <3> PICK j \in Nat : j = i - 1
      BY <2>1, <2>3
    <3>1. j \in 1..Len(events') /\ events'[j] = events[i]
      BY <2>1, <2>3
    <3>2. ASSUME NEW k \in 1..Len(events'), k > j PROVE events'[k].who = "foreign"
      <4>1. k + 1 \in 1..Len(events) /\ k + 1 > i /\ events'[k] = events[k + 1]
        BY <2>1, <3>2
      <4> QED BY <2>3, <4>1 DEF LastOwn
    <3>3. events'[j].who = "own" /\ events'[j].addrs = newest'
      BY <2>1, <2>3, <3>1 DEF LastOwn
    <3>4. LastOwn(j)'
      BY <3>2, <3>3 DEF LastOwn
    <3> QED BY <3>1, <3>4
  <2>4. ASSUME LastOwn(1) PROVE (Handled /\ mdns \in PickIp(newest))'
    <3>1. Handled'
      BY <2>1, <2>4 DEF LastOwn, Handled
    <3>2. mdns' \in PickIp(newest)
      BY <1>4, <2>1, <2>4 DEF HandleResolved, LastOwn
    <3> QED BY <2>1, <3>1, <3>2 DEF PickIp
  <2>5. ASSUME Handled, mdns \in PickIp(newest) PROVE (Handled /\ mdns \in PickIp(newest))'
    <3>1. Handled' /\ events[1].who = "foreign"
      BY <2>1, <2>5 DEF Handled
    <3>2. mdns' = mdns
      BY <1>4, <2>1, <3>1 DEF HandleResolved
    <3> QED BY <2>1, <2>5, <3>1, <3>2 DEF PickIp
  <2> QED BY <2>1, <2>2, <2>3, <2>4, <2>5
<1>5. ASSUME NEW a \in Addrs \cup {NoAddr}, ChangeDeviceIp(a) PROVE Goal
  BY <1>5 DEF ChangeDeviceIp, NewestInv, LastOwn, Handled, PickIp
<1>6. ASSUME DeleteDevice \/ \E file \in {"own", "foreign"} : ReimportPairing(file) PROVE Goal
  BY <1>6 DEF DeleteDevice, ReimportPairing
<1>7. ASSUME NEW o \in Ops, Insert(o) PROVE Goal
  BY <1>1, <1>7 DEF Insert
<1>8. ASSUME NEW o \in Ops, OpStep(o) \/ LostHint(o) \/ LostManual(o), ~Insert(o) PROVE Goal
  <2>1. UNCHANGED environment
    BY <1>8 DEF OpStep, ConnectHint, VerifyHint, ConnectManual, VerifyManual, Connect, Verify,
                LostHint, LostManual, Lost, End
  <2> QED BY <1>1, <2>1 DEF environment
<1> QED
  BY <1>1, <1>2, <1>3, <1>4, <1>5, <1>6, <1>7, <1>8, Steps
     DEF Move, Begin, BeginRegister, environment, vars, row

-----------------------------------------------------------------------------
(* The inductive invariant: SteadyNeverFails needs SteadyInv, HintIsNewest *)
(* needs NewestInv.                                                        *)
IInv == TypeOK /\ Held /\ NewestInv

(* The inductive invariant holds.                                          *)
LEMMA InvHolds == Spec => []IInv
<1>1. Init => IInv
  <2> SUFFICES ASSUME Init PROVE IInv
    OBVIOUS
  <2>1. TypeOK
    BY LinkAssumption, NoOpType DEF Init, TypeOK, Registered, NoOp, Operations, PCs
  <2>2. Held /\ NewestInv
    BY DEF Init, NoOp, Held, Aimed, SteadyInv, NewestInv
  <2> QED BY <2>1, <2>2 DEF IInv
<1>2. IInv /\ [Next]_vars => IInv'
  BY TypeStep, HeldStep, NewestStep DEF IInv, Held
<1> QED BY <1>1, <1>2, PTL DEF Spec

(* An operation whose device is at the manual address all the time does    *)
(* not fail, for any number of operations, addresses, moves and hosts.     *)
THEOREM SteadyOpsSucceed == Spec => []SteadyNeverFails
<1>1. IInv => SteadyNeverFails
  BY DEF IInv, Held, SteadyInv, SteadyNeverFails
<1> QED BY <1>1, InvHolds, PTL

(* Once all announcements are handled the hint is an address of the last   *)
(* one, and a link-local one only when it had no other; whatever order of  *)
(* announcements, deletions, registrations and other pairing files.        *)
THEOREM HintFollows == Spec => []HintIsNewest
<1>1. IInv => HintIsNewest
  <2> SUFFICES ASSUME IInv, Registered, pairing = "own", newest # {}, Handled
               PROVE  mdns \in newest /\ (Class[mdns] = 3 => \A a \in newest : Class[a] = 3)
    BY DEF HintIsNewest
  <2>1. mdns \in PickIp(newest)
    BY DEF IInv, NewestInv, LastOwn, Handled
  <2>2. newest \subseteq Addrs /\ Class \in [Addrs -> 1..3]
    BY LinkAssumption DEF IInv, TypeOK
  <2> QED BY <2>1, <2>2 DEF PickIp
<1> QED BY <1>1, InvHolds, PTL

(* The row, the queue and the operations keep their types; a device that   *)
(* is not registered has no hint.                                          *)
THEOREM TypeCorrect == Spec => []TypeOK
<1>1. IInv => TypeOK
  BY DEF IInv
<1> QED BY <1>1, InvHolds, PTL
=============================================================================
