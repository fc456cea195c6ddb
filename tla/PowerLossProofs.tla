--------------------------- MODULE PowerLossProofs ---------------------------
(***************************************************************************)
(* Theorems about PowerLoss: what is left of the promises of the store and *)
(* of its log when the machine comes back with an earlier commit.          *)
(***************************************************************************)
EXTENDS PowerLoss, ExecutionAnswersProofs

(* The tables of a store x, read as LogInv reads those in use.             *)
TrailIn(x, d) == [i \in DOMAIN x.decision_logs[d] |-> x.decision_logs[d][i].event_type]

HoldsIn(x, key) == /\ key \in Key
                   /\ x.receipts[key.receipt_id] # NoRow
                   /\ BindingOf(x.receipts, key.receipt_id) = key

SpentIn(x, key) == HoldsIn(x, key) /\ x.receipts[key.receipt_id].status = "consumed"

GoodEventIn(x, d, e) ==
    /\ e.event_type \in {"receipt.issued", "receipt.reused"} => HoldsIn(x, e.receipt)
    /\ e.event_type \in {"receipt.consumed", "execute.accepted"} =>
          IsExecute(calls[d]) /\ e.receipt = KeyOf(d) /\ SpentIn(x, KeyOf(d))

ClaimsIn(x, d) == Len(TrailIn(x, d)) > 1 /\ TrailIn(x, d)[2] = "receipt.consumed"

(* A store that a machine can come back with: consistent in itself, and    *)
(* its events are of calls that were received.                             *)
Sound(x) ==
    /\ x.receipts \in [Rid -> Row \cup {NoRow}]
    /\ x.replay_index \subseteq Key
    /\ x.decision_logs \in [Decision -> Seq(Event)]
    /\ \A r \in Rid :
          {k \in x.replay_index : k.receipt_id = r} =
              IF x.receipts[r].status = "consumed" THEN {BindingOf(x.receipts, r)} ELSE {}
    /\ \A d \in Decision :
          /\ d > Len(calls) => x.decision_logs[d] = <<>>
          /\ TrailIn(x, d) \in Trails
          /\ \A i \in DOMAIN x.decision_logs[d] : GoodEventIn(x, d, x.decision_logs[d][i])
    /\ \A d, e \in Decision :
          ClaimsIn(x, d) /\ ClaimsIn(x, e) /\ KeyOf(d).receipt_id = KeyOf(e).receipt_id => d = e

(* A call received since power was lost the last time.                     *)
Current(d) == \A n \in losses : n < d

(* Logs and tables fit at any time; answers do as long as power is not     *)
(* lost after the call was received.                                       *)
PInv ==
    /\ LogInv
    /\ \A x \in survivors : Sound(x)
    /\ losses \subseteq 0..Len(calls)
    /\ \A s \in Server, d \in Decision : Serves(s, d) => Current(d)
    /\ \A a \in AllAnswers : Current(a.decision_id) => GoodAnswer(a)
    /\ ExecutedOnceBetweenLosses

-----------------------------------------------------------------------------
(* Stores.                                                                 *)

(* Its trails are those of the log.                                        *)
LEMMA SnapshotTrail ==
    ASSUME NEW x, x.decision_logs = decision_logs', NEW d
    PROVE  TrailIn(x, d) = Trail(d)' /\ (ClaimsIn(x, d) => Claims(d)')
<1>1. TrailIn(x, d) = Trail(d)'
  BY DEF TrailIn, Trail
<1> QED  BY <1>1 DEF ClaimsIn, Claims

(* What a step commits is a store to come back with.                       *)
LEMMA SnapshotSound ==
    ASSUME LogInv', NEW x, x = Snapshot'
    PROVE  Sound(x)'
<1>1. /\ x.receipts = receipts' /\ x.replay_index = replay_index'
      /\ x.decision_logs = decision_logs'
  BY DEF Snapshot
<1>2. /\ x.receipts \in [Rid -> Row \cup {NoRow}] /\ x.replay_index \subseteq Key
      /\ x.decision_logs \in [Decision -> Seq(Event)]
  BY <1>1 DEF LogInv, IInv, TypeInv, Typed, TypeOK
<1>3. \A r \in Rid :
         {k \in x.replay_index : k.receipt_id = r} =
             IF x.receipts[r].status = "consumed" THEN {BindingOf(x.receipts, r)} ELSE {}
  BY <1>1 DEF LogInv, IInv, StoreAtomic
<1>4. ASSUME NEW d \in Decision
      PROVE  /\ d > Len(calls') => x.decision_logs[d] = <<>>
             /\ TrailIn(x, d) \in Trails
  <2>1. d > Len(calls') => decision_logs'[d] = <<>>
    BY DEF LogInv, Served
  <2>2. Trail(d)' \in Trails
    BY DEF LogInv, Recording
  <2> QED  BY <1>1, <2>1, <2>2, SnapshotTrail
<1>5. ASSUME NEW d \in Decision, NEW i \in DOMAIN x.decision_logs[d]
      PROVE  GoodEventIn(x, d, x.decision_logs[d][i])'
  <2> PICK e : e = x.decision_logs[d][i]
    OBVIOUS
  <2>1. GoodEvent(d, e)'
    BY <1>1, <1>5 DEF LogInv, Recording, LoggedEvents
  <2>2. GoodEventIn(x, d, e)'
    BY <1>1, <2>1 DEF GoodEvent, GoodEventIn, Holds, HoldsIn, Spent, SpentIn
  <2> QED  BY <2>2
<1>6. ASSUME NEW d \in Decision, NEW e \in Decision, ClaimsIn(x, d), ClaimsIn(x, e),
             KeyOf(d)'.receipt_id = KeyOf(e)'.receipt_id
      PROVE  d = e
  <2>1. Claims(d)' /\ Claims(e)'
    BY <1>1, <1>6, SnapshotTrail
  <2> QED  BY <1>6, <2>1 DEF LogInv, Once
<1> QED  BY <1>2, <1>3, <1>4, <1>5, <1>6 DEF Sound

(* It stays one, whatever calls are received.                              *)
LEMMA SoundStays ==
    ASSUME NEW x, Sound(x), Len(calls) \in Nat, Len(calls') \in Nat,
           Len(calls) <= Len(calls'), \A d \in 1..Len(calls) : calls'[d] = calls[d]
    PROVE  Sound(x)'
<1>1. Decision \subseteq Nat /\ \A d \in Decision : d >= 1
  BY ControlAssumption DEF Decision
<1>2. ASSUME NEW d \in Decision, x.decision_logs[d] # <<>>
      PROVE  d \in 1..Len(calls) /\ calls'[d] = calls[d] /\ KeyOf(d)' = KeyOf(d)
  <2>1. d \in 1..Len(calls)
    BY <1>1, <1>2 DEF Sound
  <2> QED  BY <2>1 DEF KeyOf
<1>3. ASSUME NEW d \in Decision, NEW i \in DOMAIN x.decision_logs[d]
      PROVE  GoodEventIn(x, d, x.decision_logs[d][i])'
  <2> PICK e : e = x.decision_logs[d][i]
    OBVIOUS
  <2>1. x.decision_logs[d] # <<>>
    BY <1>3
  <2>2. GoodEventIn(x, d, e)
    BY <1>3 DEF Sound
  <2>3. GoodEventIn(x, d, e)'
    BY <1>2, <2>1, <2>2 DEF GoodEventIn, IsExecute
  <2> QED  BY <2>3
<1>4. ASSUME NEW d \in Decision, ClaimsIn(x, d) PROVE x.decision_logs[d] # <<>>
  <2>1. CASE x.decision_logs[d] = <<>>
    <3>1. TrailIn(x, d) = <<>>
      BY <2>1 DEF TrailIn
    <3> QED  BY <1>4, <3>1 DEF ClaimsIn
  <2> QED  BY <2>1
<1>5. ASSUME NEW d \in Decision, NEW e \in Decision, ClaimsIn(x, d), ClaimsIn(x, e),
             KeyOf(d)'.receipt_id = KeyOf(e)'.receipt_id
      PROVE  d = e
  <2>1. KeyOf(d)' = KeyOf(d) /\ KeyOf(e)' = KeyOf(e)
    BY <1>2, <1>4, <1>5
  <2> QED  BY <1>5, <2>1 DEF Sound
<1>6. \A d \in Decision : /\ d > Len(calls') => x.decision_logs[d] = <<>>
                          /\ TrailIn(x, d) \in Trails
  BY <1>1 DEF Sound
<1>7. /\ x.receipts \in [Rid -> Row \cup {NoRow}] /\ x.replay_index \subseteq Key
      /\ x.decision_logs \in [Decision -> Seq(Event)]
      /\ \A r \in Rid :
            {k \in x.replay_index : k.receipt_id = r} =
                IF x.receipts[r].status = "consumed" THEN {BindingOf(x.receipts, r)} ELSE {}
  BY DEF Sound
<1> QED  BY <1>3, <1>5, <1>6, <1>7 DEF Sound

-----------------------------------------------------------------------------
(* A loss of power.                                                        *)

(* The state after it: nobody is at work, and the tables are those of some *)
(* survivor.                                                               *)
Restored(x) ==
    /\ receipts' = x.receipts /\ replay_index' = x.replay_index
    /\ decision_logs' = x.decision_logs /\ survivors' = {x}
    /\ writer' = None /\ pending' = NoPending
    /\ pc' = [s \in Server |-> "down"]
    /\ req' = [s \in Server |-> NoReq]
    /\ faults' \in Nat /\ UNCHANGED <<clock, calls, replies>>

LEMMA OutageRestores ==
    ASSUME PInv, Outage
    PROVE  \E x \in survivors : Sound(x) /\ Restored(x)
<1>1. faults' \in Nat
  BY DEF Outage, Fault, PInv, LogInv, IInv, TypeInv, Typed, TypeOK
<1> QED  BY <1>1 DEF Outage, PInv, Restored

(* Lock, transaction and tables fit together again.                        *)
LEMMA RestoredIInv ==
    ASSUME IInv, NEW x, Sound(x), Restored(x)
    PROVE  IInv'
<1>1. /\ \A s \in Server : pc'[s] = "down" /\ req'[s] = NoReq
      /\ pc' \in [Server -> Label] /\ req' \in [Server -> Request]
  BY ControlAssumption
     DEF Restored, Label, NoReq, Request, Outcomes, Failures
<1>2. TypeOK'
  BY <1>1 DEF Restored, Sound, TypeOK, NoPending, IInv, TypeInv, Typed
<1>3. Len(calls') <= MaxCalls /\ Serving'
  BY <1>1 DEF Restored, IInv, TypeInv, Typed, Serving, Offering, Executing, InTxn
<1>4. PendingStored'
  BY DEF Restored, PendingStored, NoPending
<1>5. LockOwner'
  BY <1>1, ControlAssumption DEF Restored, LockOwner, InTxn
<1>6. Transaction'
  BY <1>1 DEF Restored, Transaction, Checked
<1>7. StoreAtomic'
  BY DEF Restored, Sound, StoreAtomic
<1> QED  BY <1>2, <1>3, <1>4, <1>5, <1>6, <1>7 DEF IInv, TypeInv, Typed

(* So do the logs.                                                         *)
LEMMA RestoredLogInv ==
    ASSUME LogInv, NEW x, Sound(x), Restored(x)
    PROVE  LogInv'
<1>1. IInv'
  BY RestoredIInv DEF LogInv
<1>2. ASSUME NEW s \in Server, NEW d PROVE ~Serves(s, d)'
  BY <1>2 DEF Restored, Serves
<1>3. calls' = calls /\ \A d : KeyOf(d)' = KeyOf(d)
  BY DEF Restored, KeyOf
<1>4. ASSUME NEW d
      PROVE  Trail(d)' = TrailIn(x, d) /\ (Claims(d)' => ClaimsIn(x, d))
  <2>1. Trail(d)' = TrailIn(x, d)
    BY DEF Restored, Trail, TrailIn
  <2> QED  BY <1>2, <2>1 DEF Claims, ClaimsIn
<1>5. Served'
  BY <1>2, <1>3 DEF Restored, LogInv, Served, Sound
<1>6. ASSUME NEW d \in Decision, NEW e \in LoggedEvents(d)'
      PROVE  GoodEvent(d, e)'
  <2>1. PICK i \in DOMAIN x.decision_logs[d] : e = x.decision_logs[d][i]
    BY <1>6 DEF Restored, LoggedEvents
  <2>2. GoodEventIn(x, d, e)
    BY <2>1 DEF Sound
  <2> QED  BY <1>3, <2>2
           DEF Restored, GoodEvent, GoodEventIn, Holds, HoldsIn, Spent, SpentIn, KeyOf, IsExecute
<1>7. ASSUME NEW d \in Decision PROVE Trail(d)' \in Trails
  BY <1>4 DEF Sound
<1>8. Recording'
  BY <1>6, <1>7 DEF Recording
<1>9. ASSUME NEW d \in Decision, NEW e \in Decision, Claims(d)', Claims(e)',
             KeyOf(d)'.receipt_id = KeyOf(e)'.receipt_id
      PROVE  d = e
  <2>1. ClaimsIn(x, d) /\ ClaimsIn(x, e)
    BY <1>4, <1>9
  <2>2. KeyOf(d).receipt_id = KeyOf(e).receipt_id
    BY <1>3, <1>9
  <2> QED  BY <2>1, <2>2 DEF Sound
<1>10. Once'
  BY <1>9 DEF Once
<1> QED  BY <1>1, <1>2, <1>5, <1>8, <1>10 DEF LogInv

-----------------------------------------------------------------------------
(* Answers.                                                                *)

(* An accepted call, answered or ready to be, that was received since the  *)
(* last loss of power has a claim on its receipt.                          *)
LEMMA AcceptedClaims ==
    ASSUME PInv, NEW a \in AllAnswers, Accepted(a), Current(a.decision_id)
    PROVE  Claims(a.decision_id)
<1>1. Trail(a.decision_id) = <<"decision.assessed", "receipt.consumed", "execute.accepted">>
  BY DEF PInv, GoodAnswer, Evident
<1> QED  BY <1>1 DEF Claims

(* So of two such calls for one receipt, power was lost after the first.   *)
LEMMA ReadyOnce ==
    ASSUME PInv, NEW a \in AllAnswers, NEW b \in AllAnswers, Accepted(a), Accepted(b),
           Current(b.decision_id), a.decision_id < b.decision_id,
           KeyOf(a.decision_id).receipt_id = KeyOf(b.decision_id).receipt_id
    PROVE  \E n \in losses : a.decision_id <= n /\ n < b.decision_id
<1>0. /\ a.decision_id \in Decision /\ b.decision_id \in Decision
      /\ a.decision_id \in Nat /\ b.decision_id \in Nat /\ \A n \in losses : n \in Nat
  <2>1. \A c \in replies : c.decision_id \in Decision
    BY DEF PInv, LogInv, IInv, TypeInv, Typed, TypeOK, Reply
  <2>2. ASSUME NEW s \in Server, pc[s] = "respond" PROVE AnswerOf(s).decision_id \in Decision
    BY <2>2, ControlAssumption
       DEF PInv, LogInv, IInv, TypeInv, Typed, TypeOK, Serving, AnswerOf, Decision
  <2>3. Len(calls) \in Nat /\ losses \subseteq 0..Len(calls)
    BY DEF PInv, LogInv, IInv, TypeInv, Typed, TypeOK
  <2> QED  BY <2>1, <2>2, <2>3, ControlAssumption DEF AllAnswers, Decision
<1>1. CASE Current(a.decision_id)
  <2>1. Claims(a.decision_id) /\ Claims(b.decision_id)
    BY <1>1, AcceptedClaims
  <2>2. a.decision_id = b.decision_id
    BY <1>0, <2>1 DEF PInv, LogInv, Once
  <2>3. FALSE
    BY <1>0, <2>2
  <2> QED  BY <2>3
<1>2. CASE ~Current(a.decision_id)
  <2>1. PICK n \in losses : ~(n < a.decision_id)
    BY <1>2 DEF Current
  <2>2. n < b.decision_id /\ n \in Nat
    BY <1>0, <2>1 DEF Current
  <2>3. a.decision_id <= n
    BY <1>0, <2>1, <2>2
  <2> QED  BY <2>1, <2>2, <2>3
<1> QED  BY <1>1, <1>2

(* A process that works answers nobody twice.                              *)
LEMMA WorkOnce ==
    ASSUME PInv, [Next]_vars, losses' = losses
    PROVE  ExecutedOnceBetweenLosses'
<1>0. /\ TypeInv /\ Served /\ Grows /\ Len(calls) \in Nat
      /\ ExecutedOnceBetweenLosses
  BY Growth DEF PInv, LogInv, IInv, TypeInv, Typed, TypeOK
<1>1. ASSUME NEW a \in AllAnswers
      PROVE  /\ a.decision_id \in 1..Len(calls)
             /\ calls'[a.decision_id] = calls[a.decision_id]
             /\ Accepted(a)' => Accepted(a)
  <2>1. a.decision_id \in 1..Len(calls)
    <3>1. CASE a \in replies
      BY <1>0, <3>1 DEF Served
    <3>2. ASSUME NEW s \in Server, pc[s] = "respond", a = AnswerOf(s)
          PROVE  a.decision_id \in 1..Len(calls)
      BY <1>0, <3>2 DEF TypeInv, Typed, Serving, AnswerOf
    <3> QED  BY <3>1, <3>2 DEF AllAnswers
  <2>2. calls'[a.decision_id] = calls[a.decision_id]
    BY <1>0, <2>1 DEF Grows
  <2> QED  BY <2>1, <2>2 DEF Accepted, IsExecute
<1>2. SUFFICES ASSUME NEW a \in replies', NEW b \in replies', Accepted(a)', Accepted(b)',
                      a.decision_id < b.decision_id,
                      KeyOf(a.decision_id)'.receipt_id = KeyOf(b.decision_id)'.receipt_id
               PROVE  \E n \in losses : a.decision_id <= n /\ n < b.decision_id
  BY DEF ExecutedOnceBetweenLosses, KeyOf
<1>3. ASSUME a \in AllAnswers, b \in AllAnswers
      PROVE  /\ Accepted(a) /\ Accepted(b)
             /\ KeyOf(a.decision_id).receipt_id = KeyOf(b.decision_id).receipt_id
  BY <1>1, <1>2, <1>3 DEF KeyOf
<1>4. CASE a \in replies /\ b \in replies
  BY <1>0, <1>2, <1>3, <1>4 DEF ExecutedOnceBetweenLosses, AllAnswers, KeyOf
<1>5. ASSUME NEW s \in Server, Moves(s), a \notin replies \/ b \notin replies
      PROVE  \E n \in losses : a.decision_id <= n /\ n < b.decision_id
  <2> PICK c : c = AnswerOf(s)
    OBVIOUS
  <2>1. replies' = replies \cup {c} /\ pc[s] = "respond"
    BY <1>0, <1>5, RepliesStep
  <2>2. c \in AllAnswers /\ a \in AllAnswers /\ b \in AllAnswers
    BY <2>1 DEF AllAnswers
  <2>3. Serves(s, c.decision_id) /\ c.decision_id \in Decision
    BY <1>0, <2>1, ControlAssumption DEF Serves, AnswerOf, TypeInv, Typed, Serving, Decision
  <2>4. Current(c.decision_id)
    BY <2>3 DEF PInv
  <2>5. b = c \/ a = c
    BY <1>5, <2>1
  <2>6. Current(b.decision_id)
    BY <1>0, <1>1, <1>2, <2>2, <2>4, <2>5 DEF Current, PInv
  <2> QED  BY <1>2, <1>3, <2>2, <2>6, ReadyOnce
<1> QED  BY <1>4, <1>5, StepCases

-----------------------------------------------------------------------------
(* The invariant.                                                          *)

(* Before the first call there is one store, and it is empty.              *)
LEMMA PInvInit == PowerInit => PInv
<1> SUFFICES ASSUME PowerInit PROVE PInv
  OBVIOUS
<1>1. LogInv /\ AllAnswers = {}
  BY LogInit DEF PowerInit, Init, AllAnswers
<1>2. /\ Snapshot.receipts = receipts /\ Snapshot.replay_index = replay_index
      /\ Snapshot.decision_logs = decision_logs
  BY DEF Snapshot
<1>3. Sound(Snapshot)
  <2>1. \A d \in Decision : decision_logs[d] = <<>> /\ TrailIn(Snapshot, d) = <<>>
    BY <1>2 DEF PowerInit, Init, TrailIn
  <2>2. \A d \in Decision : ~ClaimsIn(Snapshot, d)
    BY <2>1 DEF ClaimsIn
  <2>3. /\ receipts \in [Rid -> Row \cup {NoRow}] /\ replay_index \subseteq Key
        /\ decision_logs \in [Decision -> Seq(Event)] /\ StoreAtomic
    BY <1>1 DEF LogInv, IInv, TypeInv, Typed, TypeOK
  <2> QED  BY <1>2, <2>1, <2>2, <2>3 DEF Sound, StoreAtomic, Trails
<1>4. \A s \in Server, d \in Decision : ~Serves(s, d)
  BY DEF PowerInit, Init, Serves
<1> QED  BY <1>1, <1>3, <1>4
         DEF PInv, PowerInit, Init, ExecutedOnceBetweenLosses, AllAnswers

(* A step of a process: what it commits is sound, and what it answers good.*)
LEMMA PInvWork == PInv /\ Work => PInv'
<1> SUFFICES ASSUME PInv, Work PROVE PInv'
  OBVIOUS
<1>0. /\ [Next]_vars /\ LogInv /\ TypeInv /\ Grows /\ losses' = losses
      /\ Len(calls) \in Nat /\ Len(calls') \in Nat
  <2>1. [Next]_vars /\ LogInv /\ TypeInv /\ Typed' /\ Grows /\ losses' = losses
    BY Growth, TypeStep DEF Work, PInv, LogInv, IInv
  <2> QED  BY <2>1 DEF Typed, TypeInv, TypeOK
<1>1. LogInv'
  BY <1>0, LogNext
<1>2. ASSUME NEW x \in survivors' PROVE Sound(x)'
  <2>1. CASE x \in survivors
    BY <1>0, <2>1, SoundStays DEF PInv, Grows
  <2>2. CASE x = Snapshot'
    BY <1>1, <2>2, SnapshotSound
  <2> QED  BY <1>2, <2>1, <2>2 DEF Work
<1>3. losses' \subseteq 0..Len(calls')
  BY <1>0 DEF PInv, Grows
<1>4. ASSUME NEW t \in Server, NEW d \in Decision, Serves(t, d)' PROVE Current(d)'
  <2>1. CASE Serves(t, d)
    BY <1>0, <2>1 DEF PInv, Current
  <2>2. CASE d = Len(calls) + 1
    BY <1>0, <2>2 DEF PInv, Current
  <2>3. CASE UNCHANGED <<store, txn, pc, req, calls, replies>>
    BY <1>4, <2>1, <2>3 DEF Serves
  <2>4. ASSUME NEW s \in Server, Moves(s), t # s PROVE Serves(t, d)
    BY <1>0, <1>4, <2>4, OthersStay DEF Serves
  <2> QED  BY <1>0, <1>4, <2>1, <2>2, <2>3, <2>4, StepCases, ServesStep
<1>5. ASSUME NEW a \in AllAnswers', Current(a.decision_id)' PROVE GoodAnswer(a)'
  <2>1. Current(a.decision_id)
    BY <1>0, <1>5 DEF Current
  <2>2. a \in AllAnswers => GoodAnswer(a)
    BY <2>1 DEF PInv
  <2> QED  BY <1>0, <1>5, <2>2, AnswerStep
<1>6. ExecutedOnceBetweenLosses'
  BY <1>0, WorkOnce
<1> QED  BY <1>1, <1>2, <1>3, <1>4, <1>5, <1>6 DEF PInv

(* A loss of power: no answer given so far is vouched for.                 *)
LEMMA PInvOutage == PInv /\ Outage => PInv'
<1> SUFFICES ASSUME PInv, Outage PROVE PInv'
  OBVIOUS
<1>1. PICK x \in survivors : Sound(x) /\ Restored(x)
  BY OutageRestores
<1>2. LogInv'
  BY <1>1, RestoredLogInv DEF PInv
<1>3. /\ losses' = losses \cup {Len(calls)} /\ calls' = calls /\ replies' = replies
      /\ Len(calls) \in Nat /\ survivors' = {x}
  <2>1. calls \in Seq(Call)
    BY DEF PInv, LogInv, IInv, TypeInv, Typed, TypeOK
  <2>2. Len(calls) \in Nat
    BY <2>1
  <2> QED  BY <1>1, <2>2 DEF Outage, Restored
<1>4. \A y \in survivors' : Sound(y)'
  <2>1. Sound(x)'
    BY <1>1, <1>3, SoundStays
  <2> QED  BY <1>3, <2>1
<1>5. losses' \subseteq 0..Len(calls')
  <2>1. losses \subseteq 0..Len(calls) /\ Len(calls) \in 0..Len(calls)
    BY <1>3 DEF PInv
  <2>2. Len(calls') = Len(calls)
    BY <1>3
  <2> QED  BY <1>3, <2>1, <2>2
<1>6. ASSUME NEW s \in Server, NEW d PROVE ~Serves(s, d)'
  BY <1>1, <1>6 DEF Restored, Serves
<1>7. ASSUME NEW a \in AllAnswers' PROVE ~Current(a.decision_id)'
  <2>1. a \in replies
    BY <1>1, <1>3, <1>7 DEF AllAnswers, Restored
  <2>2. a.decision_id \in 1..Len(calls)
    BY <2>1 DEF PInv, LogInv, Served
  <2>3. Len(calls) \in losses' /\ ~(Len(calls) < a.decision_id)
    BY <1>3, <2>2
  <2> QED  BY <2>3 DEF Current
<1>8. ExecutedOnceBetweenLosses'
  <2> SUFFICES ASSUME NEW a \in replies, NEW b \in replies, Accepted(a), Accepted(b),
                      a.decision_id < b.decision_id,
                      KeyOf(a.decision_id).receipt_id = KeyOf(b.decision_id).receipt_id
               PROVE  \E n \in losses : a.decision_id <= n /\ n < b.decision_id
    BY <1>3 DEF ExecutedOnceBetweenLosses, Accepted, IsExecute, KeyOf
  <2> QED  BY DEF PInv, ExecutedOnceBetweenLosses, KeyOf
<1> QED  BY <1>2, <1>4, <1>5, <1>6, <1>7, <1>8 DEF PInv

(* Every step keeps the invariant; a checkpoint only makes one survivor of *)
(* the tables in use.                                                      *)
LEMMA PInvNext == PInv /\ [PowerNext]_powerVars => PInv'
<1> SUFFICES ASSUME PInv, Checkpoint \/ UNCHANGED powerVars PROVE PInv'
  BY PInvWork, PInvOutage DEF PowerNext
<1>1. /\ UNCHANGED vars /\ losses' = losses
      /\ survivors' = {Snapshot} \/ survivors' = survivors
  BY DEF Checkpoint, powerVars
<1>2. /\ [Next]_vars /\ LogInv /\ TypeInv
      /\ calls' = calls /\ Len(calls) \in Nat /\ replies' = replies
  BY <1>1 DEF PInv, LogInv, IInv, TypeInv, Typed, TypeOK, vars
<1>3. LogInv'
  BY <1>2, LogNext
<1>4. ASSUME NEW x \in survivors' PROVE Sound(x)'
  <2>1. CASE x \in survivors
    BY <1>2, <2>1, SoundStays DEF PInv
  <2>2. CASE x = Snapshot
    <3>1. x = Snapshot'
      BY <1>1, <2>2 DEF Snapshot, vars
    <3> QED  BY <1>3, <3>1, SnapshotSound
  <2> QED  BY <1>1, <1>4, <2>1, <2>2
<1>5. \A s \in Server, d \in Decision : Serves(s, d)' => Current(d)'
  BY <1>1 DEF PInv, Serves, Current, vars
<1>6. ASSUME NEW a \in AllAnswers', Current(a.decision_id)' PROVE GoodAnswer(a)'
  <2>1. Current(a.decision_id)
    BY <1>1, <1>6 DEF Current
  <2>2. a \in AllAnswers => GoodAnswer(a)
    BY <2>1 DEF PInv
  <2> QED  BY <1>2, <1>6, <2>2, AnswerStep
<1>7. ExecutedOnceBetweenLosses'
  BY <1>1, <1>2, WorkOnce
<1> QED  BY <1>1, <1>2, <1>3, <1>4, <1>5, <1>6, <1>7 DEF PInv

LEMMA PInvHolds == PowerSpec => []PInv
BY PInvInit, PInvNext, PTL DEF PowerSpec

-----------------------------------------------------------------------------
(* Theorems.                                                               *)

(* StoreAtomic: also what comes back after a loss of power has a receipt   *)
(* consumed exactly when its own key is in the replay index.               *)
THEOREM AtomicAcrossLosses == PowerSpec => []StoreAtomic
<1>1. PInv => StoreAtomic
  BY DEF PInv, LogInv, IInv
<1> QED  BY <1>1, PInvHolds, PTL

(* LogSound: no loss of power leaves an event of a receipt that the tables *)
(* do not bear out.                                                        *)
THEOREM LogSoundAcrossLosses == PowerSpec => []LogSound
<1>1. PInv => LogSound
  BY LogInvSound DEF PInv
<1> QED  BY <1>1, PInvHolds, PTL

(* ExecutedOnceBetweenLosses: a receipt is accepted twice only when power  *)
(* was lost in between, for any number of losses, processes and calls.     *)
THEOREM ExecutedOnceBetweenLossesHolds == PowerSpec => []ExecutedOnceBetweenLosses
<1>1. PInv => ExecutedOnceBetweenLosses
  BY DEF PInv
<1> QED  BY <1>1, PInvHolds, PTL
=============================================================================
