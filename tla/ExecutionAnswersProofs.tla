------------------------ MODULE ExecutionAnswersProofs ------------------------
(***************************************************************************)
(* Theorems about the answers and the logs of ExecutionControl, and that   *)
(* it implements ExecutionGate: AInv is inductive, and so is TimeInv where *)
(* the clock is not set back.                                              *)
(***************************************************************************)
EXTENDS ExecutionControlProofs, SequenceTheorems, FiniteSetTheorems

-----------------------------------------------------------------------------
(* Trails.                                                                 *)

(* Short trails, element by element.                                       *)
LEMMA ShortTrails ==
    ASSUME NEW a \in Events, NEW b \in Events, NEW c \in Events
    PROVE  /\ <<a>> \in Seq(Events) /\ <<a, b>> \in Seq(Events) /\ <<a, b, c>> \in Seq(Events)
           /\ Append(<<>>, a) = <<a>>
           /\ Append(<<a>>, b) = <<a, b>>
           /\ Append(<<a, b>>, c) = <<a, b, c>>
<1>1. /\ <<a>> \in Seq(Events) /\ Len(<<a>>) = 1
      /\ <<a, b>> \in Seq(Events) /\ Len(<<a, b>>) = 2
      /\ <<a, b, c>> \in Seq(Events) /\ Len(<<a, b, c>>) = 3
  OBVIOUS
<1>2. Append(<<>>, a) = <<a>>
  OBVIOUS
<1>3. Append(<<a>>, b) = <<a, b>>
  <2>1. /\ Append(<<a>>, b) \in Seq(Events)
        /\ Len(Append(<<a>>, b)) = 2
        /\ \A i \in 1..1 : Append(<<a>>, b)[i] = <<a>>[i]
        /\ Append(<<a>>, b)[2] = b
    BY <1>1, AppendProperties
  <2>2. \A i \in 1..2 : Append(<<a>>, b)[i] = <<a, b>>[i]
    BY <2>1
  <2> QED  BY <1>1, <2>1, <2>2, SeqEqual
<1>4. Append(<<a, b>>, c) = <<a, b, c>>
  <2>1. /\ Append(<<a, b>>, c) \in Seq(Events)
        /\ Len(Append(<<a, b>>, c)) = 3
        /\ \A i \in 1..2 : Append(<<a, b>>, c)[i] = <<a, b>>[i]
        /\ Append(<<a, b>>, c)[3] = c
    BY <1>1, AppendProperties
  <2>2. \A i \in 1..3 : Append(<<a, b>>, c)[i] = <<a, b, c>>[i]
    BY <2>1
  <2> QED  BY <1>1, <2>1, <2>2, SeqEqual
<1> QED  BY <1>1, <1>2, <1>3, <1>4

(* Logging an event appends its type to the trail of the call.             *)
LEMMA TrailAppend ==
    ASSUME NEW log \in Seq(Event), NEW e \in Event
    PROVE  LET types(l) == [i \in DOMAIN l |-> l[i].event_type] IN
           types(Append(log, e)) = Append(types(log), e.event_type)
<1> DEFINE types(l) == [i \in DOMAIN l |-> l[i].event_type]
           n == Len(log)
<1>1. /\ n \in Nat /\ DOMAIN log = 1..n
      /\ Append(log, e) \in Seq(Event) /\ Len(Append(log, e)) = n + 1
      /\ DOMAIN Append(log, e) = 1..(n + 1)
      /\ \A i \in 1..n : Append(log, e)[i] = log[i]
      /\ Append(log, e)[n + 1] = e
  OBVIOUS
<1>2. types(log) \in Seq(Events) /\ Len(types(log)) = n
  <2>1. \A i \in 1..n : log[i].event_type \in Events
    <3>1. \A i \in 1..n : log[i] \in Event
      BY <1>1
    <3> QED  BY <3>1 DEF Event
  <2>2. types(log) \in [1..n -> Events]
    BY <1>1, <2>1
  <2> QED  BY <1>1, <2>2, SeqDef
<1>3. e.event_type \in Events
  BY DEF Event
<1>4. /\ Append(types(log), e.event_type) \in Seq(Events)
      /\ Len(Append(types(log), e.event_type)) = n + 1
      /\ \A i \in 1..n : Append(types(log), e.event_type)[i] = types(log)[i]
      /\ Append(types(log), e.event_type)[n + 1] = e.event_type
  BY <1>1, <1>2, <1>3, AppendProperties
<1>5. types(Append(log, e)) \in Seq(Events) /\ Len(types(Append(log, e))) = n + 1
  <2>1. \A i \in 1..(n+1) : Append(log, e)[i].event_type \in Events
    <3>1. \A i \in 1..(n+1) : Append(log, e)[i] \in Event
      BY <1>1
    <3> QED  BY <3>1 DEF Event
  <2>2. types(Append(log, e)) \in [1..(n+1) -> Events] /\ n + 1 \in Nat
    BY <1>1, <2>1
  <2> QED  BY <1>1, <2>2, SeqDef
<1>6. \A i \in 1..(n + 1) : types(Append(log, e))[i] = Append(types(log), e.event_type)[i]
  BY <1>1, <1>4
<1> QED  BY <1>4, <1>5, <1>6, SeqEqual

(* A log that did not change has the same trail.                           *)
LEMMA TrailSame ==
    ASSUME NEW d, decision_logs'[d] = decision_logs[d]
    PROVE  Trail(d)' = Trail(d)
BY DEF Trail

-----------------------------------------------------------------------------
(* What only grows.                                                        *)

Grows ==
    /\ \A r \in Rid : receipts[r] # NoRow =>
          /\ receipts'[r] # NoRow
          /\ receipts'[r].plan_hash = receipts[r].plan_hash
          /\ receipts'[r].nonce = receipts[r].nonce
          /\ receipts'[r].expires_at = receipts[r].expires_at
          /\ receipts[r].status = "consumed" => receipts'[r].status = "consumed"
    /\ replay_index \subseteq replay_index'
    /\ Len(calls) <= Len(calls')
    /\ \A d \in 1..Len(calls) : calls'[d] = calls[d]

(* A call may be added to the history, nothing else happens to it.         *)
LEMMA CallsGrow ==
    TypeInv /\ [Next]_vars => Len(calls) <= Len(calls')
<1> SUFFICES ASSUME TypeInv, [Next]_vars PROVE Len(calls) <= Len(calls')
  OBVIOUS
<1>1. calls \in Seq(Call) /\ Len(calls) \in Nat
  BY DEF TypeInv, Typed, TypeOK
<1>2. CASE UNCHANGED calls
  BY <1>1, <1>2
<1>3. ASSUME NEW call \in ClientCalls, calls' = Append(calls, call)
      PROVE  Len(calls) <= Len(calls')
  BY <1>1, <1>3, ControlAssumption
<1>4. ASSUME NEW s \in Server, Receive(s) \/ ReceiveAndFail(s)
      PROVE  \E call \in ClientCalls : calls' = Append(calls, call)
  BY <1>4 DEF Receive, ReceiveAndFail
<1>5. ASSUME NEW s \in Server,
             Handle(s) \/ StatementFails(s) \/ Crash(s) \/ Restart(s)
      PROVE  UNCHANGED calls
  BY <1>5 DEF Handle, LogAssessed, Find, Issue, LogIssued, LogReused, BeginConsume,
              CheckReceipt, InsertReplay, MarkConsumed, CommitConsume, LogConsumed,
              LogAccepted, LogRejected, Respond, BusyTimeout, IssueConflict,
              StatementFails, Abort, Crash, Restart
<1>6. UNCHANGED vars \/ Tick \/ SetBack => UNCHANGED calls
  BY DEF vars, Tick, SetBack
<1> QED  BY <1>2, <1>3, <1>4, <1>5, <1>6 DEF Next, Exhausted

(* No step removes a row, a key or a call, or changes what a row is bound  *)
(* to.                                                                     *)
LEMMA Growth == IInv /\ [Next]_vars => Grows
<1> SUFFICES ASSUME IInv, [Next]_vars PROVE Grows
  OBVIOUS
<1>1. TypeInv /\ receipts \in [Rid -> Row \cup {NoRow}]
  BY DEF IInv, TypeInv, Typed, TypeOK
<1>2. Len(calls) <= Len(calls') /\ \A d \in 1..Len(calls) : calls'[d] = calls[d]
  BY <1>1, CallsGrow, CallsStable
<1>3. CASE UNCHANGED <<receipts, replay_index>>
  BY <1>2, <1>3 DEF Grows
<1>4. ASSUME NEW key \in Key, NEW now \in Nat,
             receipts[key.receipt_id] = NoRow,
             receipts' = [receipts EXCEPT ![key.receipt_id] = NewRow(key, now)],
             UNCHANGED replay_index
      PROVE  Grows
  BY <1>1, <1>2, <1>4 DEF Grows
<1>5. ASSUME NEW key \in Key, NEW now \in Nat,
             ConsumeVerdict(receipts, replay_index, key, now) = "ok",
             receipts' = [receipts EXCEPT ![key.receipt_id] = ConsumedRow(@, now)],
             replay_index' = replay_index \cup {key}
      PROVE  Grows
  <2>1. /\ key.receipt_id \in Rid /\ receipts[key.receipt_id] \in Row
    BY <1>1, <1>5, VerdictOk DEF Key
  <2>2. receipts'[key.receipt_id] = ConsumedRow(receipts[key.receipt_id], now)
    BY <1>1, <1>5, <2>1
  <2>3. ASSUME NEW row \in Row
        PROVE  /\ ConsumedRow(row, now) # NoRow
               /\ ConsumedRow(row, now).plan_hash = row.plan_hash
               /\ ConsumedRow(row, now).nonce = row.nonce
               /\ ConsumedRow(row, now).expires_at = row.expires_at
               /\ ConsumedRow(row, now).status = "consumed"
    <3>1. ConsumedRow(row, now) # NoRow
      BY <1>5, RowShape
    <3> QED  BY <3>1 DEF ConsumedRow, Row
  <2>4. \A r \in Rid : r # key.receipt_id => receipts'[r] = receipts[r]
    BY <1>1, <1>5
  <2> QED  BY <1>2, <1>5, <2>1, <2>2, <2>3, <2>4 DEF Grows
<1> QED  BY <1>3, <1>4, <1>5, TableStep

(* What the tables hold of a binding they go on holding.                   *)
LEMMA HoldsStable ==
    ASSUME Grows, NEW key
    PROVE  (Holds(key) => Holds(key)') /\ (Spent(key) => Spent(key)')
BY DEF Grows, Holds, Spent, BindingOf, Binding, Key

(* What explains a rejection, and what entitles to ALLOW, stays true.      *)
LEMMA ReasonsStable ==
    ASSUME TypeInv, Grows, NEW d \in 1..Len(calls), NEW error
    PROVE  /\ Explained(d, error) => Explained(d, error)'
           /\ Rightful(d) => Rightful(d)'
           /\ KeyOf(d)' = KeyOf(d) /\ calls'[d] = calls[d]
<1>1. KeyOf(d)' = KeyOf(d) /\ calls'[d] = calls[d]
  BY DEF Grows, KeyOf
<1>2. Rightful(d) => Rightful(d)'
  BY <1>1 DEF Rightful, IsExecute
<1>3. ASSUME Explained(d, error) PROVE Explained(d, error)'
  <2> DEFINE r == KeyOf(d).receipt_id
  <2>1. IsExecute(calls[d]) /\ KeyOf(d) \in Key /\ r \in Rid
    BY <1>3, ExecuteKey DEF Explained, KeyOf, TypeInv, Typed, TypeOK, Key
  <2>2. receipts[r].status = "consumed" => receipts[r] # NoRow
    BY DEF NoRow
  <2> QED  BY <1>1, <1>3, <2>1, <2>2 DEF Explained, Grows, BindingOf, Binding, IsExecute
<1> QED  BY <1>1, <1>2, <1>3

(* An answer stays good while the trail it refers to is not touched.       *)
LEMMA AnswerStable ==
    ASSUME TypeInv, Grows, NEW a, a.decision_id \in 1..Len(calls),
           Trail(a.decision_id)' = Trail(a.decision_id), GoodAnswer(a)
    PROVE  GoodAnswer(a)'
<1> DEFINE d == a.decision_id
<1>1. KeyOf(d)' = KeyOf(d) /\ calls'[d] = calls[d]
  BY ReasonsStable
<1>2. Accepted(a)' <=> Accepted(a)
  BY <1>1 DEF Accepted, IsExecute
<1>3. Evident(a)'
  BY <1>2 DEF GoodAnswer, Evident
<1>4. a.outcome = "ALLOW" => Rightful(d)'
  BY ReasonsStable DEF GoodAnswer
<1>5. Accepted(a) => Spent(KeyOf(d))'
  BY <1>1, HoldsStable DEF GoodAnswer
<1>6. a.outcome = "REQUIRE_CONFIRM" /\ a.receipt # None =>
        Holds(a.receipt)' /\ a.receipt.plan_hash = calls'[d].signals
  BY <1>1, HoldsStable DEF GoodAnswer
<1>7. a.error \in ConsumeError => Explained(d, a.error)'
  BY ReasonsStable DEF GoodAnswer
<1> QED  BY <1>2, <1>3, <1>4, <1>5, <1>6, <1>7 DEF GoodAnswer

-----------------------------------------------------------------------------
(* One handler moves, the others and their calls stay.                     *)

Moves(s) ==
    Receive(s) \/ ReceiveAndFail(s) \/ Handle(s) \/ StatementFails(s) \/ Crash(s) \/ Restart(s)

(* Every step is one of a handler, or changes nothing but time.            *)
LEMMA StepCases ==
    ASSUME [Next]_vars
    PROVE  \/ \E s \in Server : Moves(s)
           \/ UNCHANGED <<store, txn, pc, req, calls, replies>>
BY DEF Next, Moves, Tick, SetBack, Exhausted, vars, store, txn

(* The handlers that do not move keep their place and their variables.     *)
LEMMA OthersStay ==
    ASSUME TypeInv, NEW s \in Server, Moves(s), NEW t \in Server, t # s
    PROVE  pc'[t] = pc[t] /\ req'[t] = req[t]
<1>1. ASSUME Receive(s) \/ ReceiveAndFail(s) \/ Respond(s) \/ Crash(s) \/ LogRejected(s)
                \/ Find(s) \/ CheckReceipt(s) \/ MarkConsumed(s) \/ Abort(s)
      PROVE  pc'[t] = pc[t] /\ req'[t] = req[t]
  BY <1>1 DEF Receive, ReceiveAndFail, Respond, Crash, LogRejected, Find, CheckReceipt,
              MarkConsumed, Abort, Goto, TypeInv, Typed, TypeOK
<1>2. ASSUME LogAssessed(s) \/ Issue(s) \/ LogIssued(s) \/ LogReused(s) \/ BeginConsume(s)
                \/ InsertReplay(s) \/ CommitConsume(s) \/ LogConsumed(s) \/ LogAccepted(s)
                \/ Restart(s)
      PROVE  pc'[t] = pc[t] /\ req'[t] = req[t]
  BY <1>2 DEF LogAssessed, Issue, LogIssued, LogReused, BeginConsume, InsertReplay,
              CommitConsume, LogConsumed, LogAccepted, Restart, Goto, TypeInv, Typed, TypeOK
<1> QED
  BY <1>1, <1>2 DEF Moves, Handle, BusyTimeout, IssueConflict, StatementFails

(* A handler writes to the log of the call it serves only.                 *)
LEMMA OtherLogs ==
    ASSUME TypeInv, NEW s \in Server, Moves(s), NEW d \in Decision, ~Serves(s, d)
    PROVE  decision_logs'[d] = decision_logs[d]
<1>1. ASSUME NEW type, NEW verdict, NEW receipt, pc[s] \notin {"idle", "down"},
             Log(s, type, verdict, receipt)
      PROVE  decision_logs'[d] = decision_logs[d]
  BY <1>1 DEF Log, Serves, TypeInv, Typed, TypeOK
<1>2. ASSUME Receive(s) \/ ReceiveAndFail(s) \/ Respond(s) \/ Crash(s) \/ Find(s) \/ Issue(s)
                \/ BeginConsume(s) \/ CheckReceipt(s) \/ InsertReplay(s) \/ MarkConsumed(s)
                \/ CommitConsume(s) \/ Restart(s) \/ Abort(s)
      PROVE  decision_logs' = decision_logs
  BY <1>2 DEF Receive, ReceiveAndFail, Respond, Crash, Find, Issue, BeginConsume, CheckReceipt,
              InsertReplay, MarkConsumed, CommitConsume, Restart, Abort, store
<1>3. ASSUME LogAssessed(s) \/ LogIssued(s) \/ LogReused(s) \/ LogConsumed(s) \/ LogAccepted(s)
                \/ LogRejected(s)
      PROVE  /\ pc[s] \notin {"idle", "down"}
             /\ \E type, verdict, receipt : Log(s, type, verdict, receipt)
  BY <1>3 DEF LogAssessed, LogIssued, LogReused, LogConsumed, LogAccepted, LogRejected
<1> QED
  BY <1>1, <1>2, <1>3 DEF Moves, Handle, BusyTimeout, IssueConflict, StatementFails

(* What a handler that does not move knows of its call stays true.         *)
LEMMA HandledStable ==
    ASSUME TypeInv, Grows, NEW t \in Server, NEW d \in Decision, Serves(t, d), Handled(t, d),
           pc'[t] = pc[t], req'[t] = req[t], Trail(d)' = Trail(d)
    PROVE  Handled(t, d)'
<1>1. d \in 1..Len(calls)
  BY DEF Serves, TypeInv, Typed, Serving
<1>2. KeyOf(d)' = KeyOf(d) /\ calls'[d] = calls[d]
  BY <1>1, ReasonsStable
<1>3. Rightful(d) => Rightful(d)'
  BY <1>1, ReasonsStable
<1>4. Explained(d, req[t].error) => Explained(d, req[t].error)'
  <2>1. \A error : Explained(d, error) => Explained(d, error)'
    BY <1>1, ReasonsStable
  <2> QED  BY <2>1 DEF Explained
<1>5. Assessed(t, d) => Assessed(t, d)'
  BY <1>2 DEF Assessed
<1>6. Offers(t, d) => Offers(t, d)'
  BY <1>2, <1>4, HoldsStable DEF Offers
<1>7. Executes(t, d) => Executes(t, d)'
  BY <1>2, <1>4, HoldsStable DEF Executes
<1> QED  BY <1>3, <1>5, <1>6, <1>7 DEF Handled

(* What a handler at work may rely on about the call it serves.            *)
LEMMA Own ==
    ASSUME LogInv, NEW s \in Server, NEW d \in Decision, Serves(s, d)
    PROVE  /\ d \in 1..Len(calls) /\ calls[d] \in Call
           /\ req[s].decision_id = d /\ req[s] \in Request
           /\ CallOf(s) = calls[d] /\ Confirmed(s) = KeyOf(d)
           /\ Handled(s, d)
<1>1. TypeInv /\ Handled(s, d)
  BY DEF LogInv, IInv
<1>2. d \in 1..Len(calls) /\ req[s].decision_id = d /\ req[s] \in Request
  BY <1>1 DEF TypeInv, Typed, TypeOK, Serving, Serves
<1>3. calls \in Seq(Call)
  BY <1>1 DEF TypeInv, Typed, TypeOK
<1> QED  BY <1>1, <1>2, <1>3 DEF CallOf, Confirmed, KeyOf

(* Logging appends one event to the log of the call in service, and its    *)
(* type to the trail.                                                      *)
LEMMA LogTrail ==
    ASSUME TypeInv, NEW s \in Server, NEW d \in Decision, Serves(s, d),
           NEW type \in Events, NEW verdict \in Verdicts,
           NEW receipt \in Key \cup {None}, Log(s, type, verdict, receipt)
    PROVE  /\ decision_logs'[d] = Append(decision_logs[d],
                [event_type |-> type, verdict |-> verdict, receipt |-> receipt])
           /\ Trail(d)' = Append(Trail(d), type)
<1> DEFINE e == [event_type |-> type, verdict |-> verdict, receipt |-> receipt]
           types(l) == [i \in DOMAIN l |-> l[i].event_type]
<1>1. e \in Event /\ e.event_type = type /\ decision_logs[d] \in Seq(Event)
  BY DEF Event, TypeInv, Typed, TypeOK
<1>2. decision_logs'[d] = Append(decision_logs[d], e)
  BY DEF Log, Serves, TypeInv, Typed, TypeOK
<1>3. types(Append(decision_logs[d], e)) = Append(types(decision_logs[d]), type)
  BY <1>1, TrailAppend
<1>4. Trail(d) = types(decision_logs[d])
  BY DEF Trail
<1>5. Trail(d)' = types(Append(decision_logs[d], e))
  BY <1>2 DEF Trail
<1> HIDE DEF types, e
<1> QED  BY <1>2, <1>3, <1>4, <1>5 DEF e

(* What assess() answers is right for the signals it was given: a receipt  *)
(* has their plan, and ALLOW goes to a confirmation of it.                 *)
LEMMA AssessRight ==
    ASSUME NEW call \in Call, call.signals # "absent", NEW r \in Rid, NEW n \in Nonce
    PROVE  LET out == Assess(call, r, n) IN
        /\ out.error \notin ConsumeError
        /\ out.action = "REQUIRE_CONFIRM" /\ out.receipt # None =>
              out.receipt.plan_hash = call.signals
        /\ out.action = "ALLOW" /\ call.signals \in Plan =>
              IsExecute(call) /\ call.confirm.key.plan_hash = call.signals
<1>1. None \notin ConsumeError /\ "STALE_RECEIPT_OR_PLAN_CHANGED" \notin ConsumeError
  BY ControlAssumption DEF ConsumeError
<1>2. Assess(call, r, n).error \notin ConsumeError
  BY <1>1 DEF Assess, Guardrail
<1> QED  BY <1>2 DEF Assess, Guardrail, Binding, BaseAction, IsExecute

(* The verdict of consumeReceipt, when it is not ok, is explained by what  *)
(* the tables hold: a receipt used under another key is called consumed    *)
(* and not a replay, because only its own key can be in the replay index.  *)
LEMMA VerdictExplained ==
    ASSUME TypeInv, StoreAtomic, NEW d \in 1..Len(calls), IsExecute(calls[d]), NEW now,
           ConsumeVerdict(receipts, replay_index, KeyOf(d), now) # "ok"
    PROVE  Explained(d, ConsumeVerdict(receipts, replay_index, KeyOf(d), now))
<1> DEFINE key == KeyOf(d)
           r == key.receipt_id
<1>1. key \in Key /\ r \in Rid /\ receipts[r] \in Row \cup {NoRow}
  BY ExecuteKey DEF KeyOf, TypeInv, Typed, TypeOK, Key
<1>2. ASSUME receipts[r] # NoRow, receipts[r].status # "active", key \notin replay_index
      PROVE  receipts[r].status = "consumed" /\ BindingOf(receipts, r) # key
  <2>1. receipts[r].status = "consumed"
    BY <1>1, <1>2 DEF Row
  <2>2. BindingOf(receipts, r) \in replay_index
    BY <1>1, <2>1 DEF StoreAtomic
  <2> QED  BY <1>2, <2>1, <2>2
<1> QED  BY <1>1, <1>2 DEF Explained, ConsumeVerdict

(* After a rejection the call is on its way to a receipt of its own plan,  *)
(* or, if its signals are not gated, to REQUIRE_CONFIRM without one, or to *)
(* INTERNAL_ERROR.                                                         *)
LEMMA RejectedMove ==
    ASSUME TypeInv, NEW s \in Server, LogRejected(s)
    PROVE  \/ /\ req'[s].outcome = "REQUIRE_CONFIRM" /\ req'[s].error = req[s].error
              /\ IF req'[s].receipt = None THEN pc'[s] = "respond"
                 ELSE pc'[s] = "find" /\ req'[s].receipt.plan_hash = CallOf(s).signals
           \/ /\ req'[s].outcome = "INTERNAL_ERROR" /\ req'[s].error = None
              /\ pc'[s] = "respond"
<1> DEFINE again == [CallOf(s) EXCEPT !.confirm = [mode |-> "NONE"]]
<1>1. /\ req \in [Server -> Request] /\ pc \in [Server -> Label]
      /\ req[s] \in Request /\ CallOf(s) \in Call
  BY DEF LogRejected, TypeInv, Typed, TypeOK, Serving, CallOf
<1>2. PICK r \in Rid, n \in Nonce :
        \/ /\ req' = [req EXCEPT ![s] = [@ EXCEPT !.outcome = "REQUIRE_CONFIRM",
                                                  !.receipt = Assess(again, r, n).receipt]]
           /\ Goto(s, IF Assess(again, r, n).receipt = None THEN "respond" ELSE "find")
        \/ /\ req' = [req EXCEPT ![s] = [@ EXCEPT !.outcome = "INTERNAL_ERROR",
                                                  !.error = None, !.receipt = None]]
           /\ Goto(s, "respond")
  BY DEF LogRejected
<1>3. again.signals = CallOf(s).signals
  BY <1>1 DEF Call
<1>4. Assess(again, r, n).receipt # None =>
        Assess(again, r, n).receipt.plan_hash = CallOf(s).signals
  BY <1>3 DEF Assess, Guardrail, Binding, IsExecute, BaseAction, Call
<1> DEFINE receipt == Assess(again, r, n).receipt
<1> HIDE DEF receipt, again
<1>5. CASE /\ req' = [req EXCEPT ![s] = [@ EXCEPT !.outcome = "REQUIRE_CONFIRM",
                                                  !.receipt = receipt]]
           /\ Goto(s, IF receipt = None THEN "respond" ELSE "find")
  <2>1. /\ req'[s].outcome = "REQUIRE_CONFIRM" /\ req'[s].error = req[s].error
        /\ req'[s].receipt = receipt
    BY <1>1, <1>5 DEF Request
  <2>2. pc'[s] = IF receipt = None THEN "respond" ELSE "find"
    BY <1>1, <1>5 DEF Goto
  <2>3. receipt # None => receipt.plan_hash = CallOf(s).signals
    BY <1>4 DEF receipt
  <2> QED  BY <2>1, <2>2, <2>3
<1>6. CASE /\ req' = [req EXCEPT ![s] = [@ EXCEPT !.outcome = "INTERNAL_ERROR",
                                                  !.error = None, !.receipt = None]]
           /\ Goto(s, "respond")
  BY <1>1, <1>6 DEF Goto, Request
<1> QED  BY <1>2, <1>5, <1>6 DEF receipt

(* Where a handler that serves a call gets, it has recorded what it has to *)
(* and knows what it has to.                                               *)
LEMMA MoveHandled ==
    ASSUME LogInv, [Next]_vars, NEW s \in Server, Moves(s), NEW d \in Decision, Serves(s, d)'
    PROVE  Handled(s, d)'
<1>0. /\ TypeInv /\ StoreAtomic /\ Transaction /\ Grows
      /\ pc \in [Server -> Label] /\ req \in [Server -> Request]
      /\ receipts \in [Rid -> Row \cup {NoRow}]
  BY Growth DEF LogInv, IInv, TypeInv, Typed, TypeOK
<1> DEFINE out(call, r, n) == Assess(call, r, n)
<1>1. ASSUME Receive(s) PROVE Handled(s, d)'
  <2>1. PICK call \in ClientCalls, r \in Rid, n \in Nonce :
          /\ call.signals # "absent"
          /\ calls' = Append(calls, call)
          /\ req' = [req EXCEPT ![s] =
                [decision_id |-> Len(calls) + 1, ts |-> clock,
                 outcome |-> out(call, r, n).action, error |-> out(call, r, n).error,
                 receipt |-> out(call, r, n).receipt]]
    BY <1>1 DEF Receive
  <2>2. pc'[s] = "log_assessed" /\ UNCHANGED decision_logs /\ call \in Call
    BY <1>0, <1>1, ControlAssumption DEF Receive, Goto, store
  <2>3. /\ req'[s].decision_id = d /\ d = Len(calls) + 1
        /\ req'[s].outcome = out(call, r, n).action
        /\ req'[s].error = out(call, r, n).error
        /\ req'[s].receipt = out(call, r, n).receipt
    BY <1>0, <2>1 DEF Serves
  <2>4. calls'[d] = call
    BY <1>0, <2>1, <2>2, <2>3 DEF TypeInv, Typed, TypeOK
  <2>5. Trail(d)' = <<>>
    <3>1. decision_logs[d] = <<>>
      BY <1>0, <2>3 DEF LogInv, Served, TypeInv, Typed, TypeOK
    <3> QED  BY <2>2, <3>1 DEF Trail
  <2>6. Assessed(s, d)'
    BY <2>1, <2>2, <2>3, <2>4, <2>5, AssessRight, AssessShape DEF Assessed
  <2>7. req'[s].outcome = "ALLOW" => Rightful(d)'
    BY <2>1, <2>2, <2>3, <2>4, AssessRight DEF Rightful, KeyOf
  <2> QED  BY <2>2, <2>6, <2>7 DEF Handled, Offering, Executing, InTxn
<1>2. ASSUME ReceiveAndFail(s) PROVE Handled(s, d)'
  BY <1>0, <1>2 DEF ReceiveAndFail, Goto, Handled, Offering, Executing, InTxn
<1>3. ASSUME Abort(s) PROVE Handled(s, d)'
  BY <1>0, <1>3 DEF Abort, Goto, Handled, Offering, Executing, InTxn, Request
<1>4. ASSUME Respond(s) \/ Crash(s) \/ Restart(s) PROVE FALSE
  BY <1>0, <1>4 DEF Respond, Crash, Restart, Goto, Serves
<1>5. SUFFICES ASSUME Handle(s), Serves(s, d),
                      ~Respond(s), ~BusyTimeout(s), ~IssueConflict(s)
               PROVE  Handled(s, d)'
  <2>1. ASSUME Handle(s), ~Respond(s), ~BusyTimeout(s), ~IssueConflict(s)
        PROVE  Serves(s, d)
    BY <1>0, <2>1
       DEF Handle, LogAssessed, Find, Issue, LogIssued, LogReused, BeginConsume, CheckReceipt,
           InsertReplay, MarkConsumed, CommitConsume, LogConsumed, LogAccepted, LogRejected,
           Serves, Request
  <2> QED
    BY <1>1, <1>2, <1>3, <1>4, <2>1 DEF Moves, BusyTimeout, IssueConflict, StatementFails
<1>6. /\ d \in 1..Len(calls) /\ calls[d] \in Call
      /\ req[s].decision_id = d /\ req[s] \in Request
      /\ CallOf(s) = calls[d] /\ Confirmed(s) = KeyOf(d)
      /\ Handled(s, d)
  BY <1>5, Own
<1>7. /\ KeyOf(d)' = KeyOf(d) /\ calls'[d] = calls[d]
      /\ Rightful(d) => Rightful(d)'
      /\ \A error : Explained(d, error) => Explained(d, error)'
      /\ \A key : (Holds(key) => Holds(key)') /\ (Spent(key) => Spent(key)')
  BY <1>0, <1>6, ReasonsStable, HoldsStable
<1>8. "decision.assessed" \in Events /\ "execute.rejected" \in Events
      /\ "receipt.consumed" \in Events
      /\ "EXECUTE_ACCEPTED" \in Verdicts /\ "EXECUTE_REJECTED" \in Verdicts
  BY DEF Events, Verdicts
<1>9. ASSUME NEW outcome, outcome = "ALLOW", req[s].outcome = "ALLOW"
      PROVE  Rightful(d)'
  BY <1>6, <1>7, <1>9 DEF Handled
<1>10. ASSUME LogAssessed(s) PROVE Handled(s, d)'
  <2>1. /\ Assessed(s, d) /\ UNCHANGED req
        /\ Log(s, "decision.assessed", AssessedVerdict(req[s].outcome, CallOf(s)), req[s].receipt)
    BY <1>6, <1>10 DEF LogAssessed, Handled
  <2>2. Trail(d)' = <<"decision.assessed">>
    <3>1. Trail(d)' = Append(Trail(d), "decision.assessed")
      <4>1. AssessedVerdict(req[s].outcome, CallOf(s)) \in Verdicts
        BY DEF AssessedVerdict, Verdicts
      <4>2. req[s].receipt \in Key \cup {None}
        BY <1>6 DEF Request
      <4> QED  BY <1>0, <1>5, <1>8, <2>1, <4>1, <4>2, LogTrail
    <3> QED  BY <1>8, <2>1, <3>1, ShortTrails DEF Assessed
  <2>3. CASE pc'[s] = "find"
    <3>1. req[s].outcome = "REQUIRE_CONFIRM" /\ req[s].receipt # None
      BY <1>0, <1>10, <2>3 DEF LogAssessed, Goto
    <3>2. Offers(s, d)'
      BY <1>7, <2>1, <2>2, <2>3, <3>1 DEF Assessed, Offers, Before
    <3> QED  BY <2>1, <2>3, <3>1, <3>2 DEF Handled, Offering, Executing, InTxn
  <2>4. CASE pc'[s] = "begin"
    <3>1. req[s].outcome = "ALLOW"
      BY <1>0, <1>10, <2>4 DEF LogAssessed, Goto
    <3>2. Executes(s, d)'
      BY <2>1, <2>2, <2>4, <3>1 DEF Assessed, Executes
    <3> QED  BY <1>9, <2>4, <3>1, <3>2 DEF Handled, Offering
  <2>5. CASE pc'[s] = "respond"
    BY <1>9, <2>1, <2>5 DEF Handled, Offering, Executing, InTxn
  <2> QED  BY <1>0, <1>10, <2>3, <2>4, <2>5 DEF LogAssessed, Goto
<1>11. ASSUME Find(s) PROVE Handled(s, d)'
  <2>1. Offers(s, d) /\ UNCHANGED store /\ pc[s] = "find"
    BY <1>6, <1>11 DEF Find, Handled, Offering
  <2>2. Trail(d)' = Trail(d)
    BY <2>1 DEF store, Trail
  <2>3. CASE UNCHANGED req /\ pc' = [pc EXCEPT ![s] = "issue"]
    <3>1. Offers(s, d)' /\ pc'[s] = "issue"
      BY <1>0, <1>7, <2>1, <2>2, <2>3 DEF Offers
    <3> QED  BY <2>1, <2>3, <3>1 DEF Handled, Offers, Offering, Executing, InTxn
  <2>4. ASSUME NEW r \in LatestActive(receipts, req[s].receipt.plan_hash, req[s].ts),
               req' = [req EXCEPT ![s] = [@ EXCEPT !.receipt = BindingOf(receipts, r)]],
               pc' = [pc EXCEPT ![s] = "log_reused"]
        PROVE  Handled(s, d)'
    <3>1. r \in Rid /\ receipts[r].status = "active" /\ receipts[r].plan_hash = req[s].receipt.plan_hash
      BY DEF LatestActive, ActiveFor
    <3>2. receipts[r] \in Row /\ receipts[r] # NoRow
      BY <1>0, <3>1 DEF NoRow
    <3> PICK key : key = BindingOf(receipts, r)
      OBVIOUS
    <3>3. Holds(key)'
      BY <1>0, <2>1, <3>1, <3>2 DEF Holds, BindingOf, Binding, Key, Row, store
    <3>4. /\ req'[s].receipt = key
          /\ req'[s].outcome = req[s].outcome /\ req'[s].error = req[s].error
          /\ pc'[s] = "log_reused"
      BY <1>0, <1>6, <2>4 DEF Request
    <3>5. key.plan_hash = calls[d].signals
      BY <2>1, <3>1 DEF Offers, BindingOf, Binding
    <3>6. Offers(s, d)'
      BY <1>7, <2>1, <2>2, <3>3, <3>4, <3>5 DEF Offers
    <3> QED  BY <2>1, <3>4, <3>6 DEF Handled, Offers, Offering, Executing, InTxn
  <2> QED  BY <1>11, <2>3, <2>4 DEF Find, Goto
<1>12. ASSUME Issue(s) PROVE Handled(s, d)'
  <2>1. Offers(s, d) /\ UNCHANGED <<decision_logs, req>> /\ pc'[s] = "log_issued"
    BY <1>0, <1>6, <1>12 DEF Issue, Goto, Handled, Offering
  <2>2. Trail(d)' = Trail(d)
    BY <2>1 DEF Trail
  <2>3. Holds(req[s].receipt)'
    <3>1. req[s].receipt \in Key
      BY <1>0, <1>12 DEF Issue, TypeInv, Typed, Serving, Offering
    <3>2. receipts'[req[s].receipt.receipt_id] = NewRow(req[s].receipt, req[s].ts)
      BY <1>0, <1>12, <3>1 DEF Issue, Key
    <3>3. NewRow(req[s].receipt, req[s].ts) # NoRow
      BY <1>6, <3>1, RowShape DEF Request
    <3> QED  BY <2>1, <3>1, <3>2, <3>3 DEF Holds, BindingOf, Binding, NewRow, Key
  <2>4. Offers(s, d)'
    BY <1>7, <2>1, <2>2, <2>3 DEF Offers
  <2> QED  BY <2>1, <2>4 DEF Handled, Offers, Offering, Executing, InTxn
<1>13. ASSUME LogIssued(s) \/ LogReused(s) PROVE Handled(s, d)'
  <2>1. Offers(s, d) /\ UNCHANGED req /\ pc'[s] = "respond"
    BY <1>0, <1>6, <1>13 DEF LogIssued, LogReused, Goto, Handled, Offering
  <2> QED  BY <2>1 DEF Handled, Offers, Offering, Executing, InTxn
<1>14. ASSUME BeginConsume(s) \/ InsertReplay(s) PROVE Handled(s, d)'
  <2>1. /\ Executes(s, d) /\ UNCHANGED <<decision_logs, req>>
        /\ pc[s] \in {"begin", "insert_replay"} /\ pc'[s] \in {"check", "mark_consumed"}
    BY <1>0, <1>6, <1>14
       DEF BeginConsume, InsertReplay, Goto, Handled, Executing, InTxn, store
  <2>2. Trail(d)' = Trail(d)
    BY <2>1 DEF Trail
  <2>3. Executes(s, d)'
    BY <2>1, <2>2 DEF Executes
  <2> QED  BY <1>9, <2>1, <2>3 DEF Handled, Executes, Offering
<1>15. ASSUME CheckReceipt(s) PROVE Handled(s, d)'
  <2>1. /\ pc[s] = "check" /\ Executes(s, d) /\ UNCHANGED <<receipts, replay_index, decision_logs>>
        /\ IsExecute(calls[d])
    BY <1>0, <1>6, <1>15
       DEF CheckReceipt, Handled, Executing, InTxn, store, TypeInv, Typed, Serving
  <2>2. Trail(d)' = Trail(d)
    BY <2>1 DEF Trail
  <2> DEFINE verdict == ConsumeVerdict(receipts, replay_index, KeyOf(d), req[s].ts)
  <2>3. CASE verdict = "ok"
    <3>1. UNCHANGED req /\ pc'[s] = "insert_replay"
      BY <1>0, <1>6, <1>15, <2>3 DEF CheckReceipt, Goto
    <3>2. Executes(s, d)'
      BY <2>1, <2>2, <3>1 DEF Executes
    <3> QED  BY <1>9, <2>1, <3>1, <3>2 DEF Handled, Executes, Offering
  <2>4. CASE verdict # "ok"
    <3> PICK error : error = verdict
      OBVIOUS
    <3>1. /\ pc'[s] = "log_rejected" /\ req'[s].error = error
          /\ req'[s].outcome = req[s].outcome
      BY <1>0, <1>6, <1>15, <2>4 DEF CheckReceipt, Goto, Request
    <3>2. error \in ConsumeError
      BY <2>4, VerdictError
    <3>3. Explained(d, error)'
      BY <1>0, <1>6, <1>7, <2>1, <2>4, VerdictExplained
    <3>4. Executes(s, d)'
      BY <2>1, <2>2, <3>1, <3>2, <3>3 DEF Executes
    <3> QED  BY <1>9, <2>1, <3>1, <3>4 DEF Handled, Executes, Offering
  <2> QED  BY <2>3, <2>4
<1>16. ASSUME MarkConsumed(s) PROVE Handled(s, d)'
  <2>1. /\ pc[s] = "mark_consumed" /\ Executes(s, d) /\ UNCHANGED decision_logs
    BY <1>0, <1>6, <1>16 DEF MarkConsumed, Handled, Executing, InTxn, store
  <2>2. Trail(d)' = Trail(d)
    BY <2>1 DEF Trail
  <2>3. Usable(receipts[Confirmed(s).receipt_id], req[s].ts)
    <3>1. ConsumeVerdict(receipts, replay_index, Confirmed(s), req[s].ts) = "ok"
      BY <1>0, <2>1 DEF Transaction, Checked
    <3>2. receipts[Confirmed(s).receipt_id] \in Row
      <4>1. Confirmed(s) \in Key
        BY <1>0, <2>1, ConfirmedKey DEF Executing, InTxn
      <4> QED  BY <1>0, <3>1, <4>1, VerdictOk DEF Key
    <3>3. req[s].ts \in Nat /\ receipts[Confirmed(s).receipt_id].expires_at \in Nat
      BY <1>6, <3>2 DEF Request, Row
    <3> QED  BY <3>1, <3>3 DEF ConsumeVerdict, Usable
  <2>4. UNCHANGED req /\ pc'[s] = "commit"
    BY <1>0, <1>16, <2>3 DEF MarkConsumed, Goto
  <2>5. Executes(s, d)'
    BY <2>1, <2>2, <2>4 DEF Executes
  <2> QED  BY <1>9, <2>1, <2>4, <2>5 DEF Handled, Executes, Offering
<1>17. ASSUME CommitConsume(s) PROVE Handled(s, d)'
  <2>1. /\ pc[s] = "commit" /\ Executes(s, d) /\ UNCHANGED <<decision_logs, req>>
        /\ pc'[s] = "log_consumed"
    BY <1>0, <1>6, <1>17 DEF CommitConsume, Goto, Handled, Executing, InTxn
  <2>2. Trail(d)' = Trail(d)
    BY <2>1 DEF Trail
  <2> PICK key : key = KeyOf(d)
    OBVIOUS
  <2>3. Spent(key)'
    <3>1. /\ key \in Key /\ pending.consumed = {key.receipt_id}
          /\ ConsumeVerdict(receipts, replay_index, key, req[s].ts) = "ok"
      BY <1>0, <1>6, <2>1, ConfirmedKey DEF Transaction, Checked, Executing, InTxn
    <3>2. /\ key.receipt_id \in Rid /\ receipts[key.receipt_id] \in Row
          /\ receipts[key.receipt_id].plan_hash = key.plan_hash
          /\ receipts[key.receipt_id].nonce = key.nonce
      BY <1>0, <3>1, VerdictOk DEF Key
    <3>3. receipts'[key.receipt_id] = ConsumedRow(receipts[key.receipt_id], req[s].ts)
      BY <1>17, <3>1, <3>2 DEF CommitConsume
    <3>4. ConsumedRow(receipts[key.receipt_id], req[s].ts) # NoRow
      BY <1>6, <3>1, <3>2, RowShape DEF Request
    <3> QED  BY <3>1, <3>2, <3>3, <3>4
             DEF Spent, Holds, BindingOf, Binding, ConsumedRow, Row, Key
  <2>4. Executes(s, d)'
    BY <1>7, <2>1, <2>2, <2>3 DEF Executes
  <2> QED  BY <1>9, <2>1, <2>4 DEF Handled, Executes, Offering
<1>18. ASSUME LogConsumed(s) PROVE Handled(s, d)'
  <2>1. /\ pc[s] = "log_consumed" /\ Executes(s, d) /\ UNCHANGED req /\ pc'[s] = "log_accepted"
        /\ Log(s, "receipt.consumed", "EXECUTE_ACCEPTED", Confirmed(s))
    BY <1>0, <1>6, <1>18 DEF LogConsumed, Goto, Handled, Executing
  <2>2. Trail(d)' = <<"decision.assessed", "receipt.consumed">>
    <3>1. Confirmed(s) \in Key
      BY <1>0, <2>1, ConfirmedKey DEF Executing
    <3>2. Trail(d)' = Append(Trail(d), "receipt.consumed")
      BY <1>0, <1>5, <1>8, <2>1, <3>1, LogTrail
    <3> QED  BY <1>8, <2>1, <3>2, ShortTrails DEF Executes
  <2>3. Executes(s, d)'
    BY <1>7, <2>1, <2>2 DEF Executes
  <2> QED  BY <1>9, <2>1, <2>3 DEF Handled, Executes, Offering
<1>19. ASSUME LogAccepted(s) PROVE Handled(s, d)'
  <2>1. Executes(s, d) /\ UNCHANGED req /\ pc'[s] = "respond"
    BY <1>0, <1>6, <1>19 DEF LogAccepted, Goto, Handled, Executing
  <2> QED  BY <1>9, <2>1 DEF Handled, Executes, Offering, Executing, InTxn
<1>20. ASSUME LogRejected(s) PROVE Handled(s, d)'
  <2>1. /\ pc[s] = "log_rejected" /\ Executes(s, d)
        /\ Log(s, "execute.rejected", "EXECUTE_REJECTED", Confirmed(s))
    BY <1>6, <1>20 DEF LogRejected, Handled, Executing
  <2>2. Trail(d)' = <<"decision.assessed", "execute.rejected">>
    <3>1. Confirmed(s) \in Key
      BY <1>0, <2>1, ConfirmedKey DEF Executing
    <3>2. Trail(d)' = Append(Trail(d), "execute.rejected")
      BY <1>0, <1>5, <1>8, <2>1, <3>1, LogTrail
    <3> QED  BY <1>8, <2>1, <3>2, ShortTrails DEF Executes
  <2>3. req'[s].outcome # "ALLOW" /\ pc'[s] \in {"respond", "find"}
    BY <1>0, <1>20, RejectedMove
  <2>4. CASE pc'[s] = "find"
    <3>1. /\ req'[s].outcome = "REQUIRE_CONFIRM" /\ req'[s].error = req[s].error
          /\ req'[s].receipt.plan_hash = calls[d].signals
      BY <1>0, <1>6, <1>20, <2>4, RejectedMove
    <3>2. Offers(s, d)'
      BY <1>7, <2>1, <2>2, <2>4, <3>1 DEF Executes, Offers, Before
    <3> QED  BY <2>3, <2>4, <3>2 DEF Handled, Executing, InTxn
  <2> QED  BY <2>3, <2>4 DEF Handled, Offering, Executing, InTxn
<1> QED
  BY <1>5, <1>10, <1>11, <1>12, <1>13, <1>14, <1>15, <1>16, <1>17, <1>18, <1>19, <1>20 DEF Handle

(* An answer that reports a failure claims nothing.                        *)
LEMMA FailureGood ==
    ASSUME NEW a, a.outcome \in Failures, a.error = None
    PROVE  GoodAnswer(a)'
BY ControlAssumption DEF GoodAnswer, Evident, Accepted, Failures

(* The answer of a handler that gets ready to respond is good.             *)
LEMMA AnswerReady ==
    ASSUME LogInv, [Next]_vars, NEW s \in Server, Moves(s),
           pc[s] # "respond", pc'[s] = "respond", NEW a, a = AnswerOf(s)'
    PROVE  GoodAnswer(a)'
<1>0. /\ TypeInv /\ StoreAtomic /\ Transaction /\ Grows
      /\ pc \in [Server -> Label] /\ req \in [Server -> Request]
  BY Growth DEF LogInv, IInv, TypeInv, Typed, TypeOK
<1>1. /\ a.decision_id = req'[s].decision_id /\ a.outcome = req'[s].outcome
      /\ a.error = req'[s].error /\ a.receipt = req'[s].receipt
  BY DEF AnswerOf
<1>2. ASSUME ReceiveAndFail(s) PROVE GoodAnswer(a)'
  <2>1. a.outcome \in Failures /\ a.error = None
    BY <1>0, <1>1, <1>2 DEF ReceiveAndFail, Failures
  <2> QED  BY <2>1, FailureGood
<1>3. ASSUME Abort(s) PROVE GoodAnswer(a)'
  <2>1. a.outcome \in Failures /\ a.error = None
    BY <1>0, <1>1, <1>3 DEF Abort, Failures, Request
  <2> QED  BY <2>1, FailureGood
<1>4. SUFFICES ASSUME LogAssessed(s) \/ LogIssued(s) \/ LogReused(s) \/ LogAccepted(s)
                        \/ LogRejected(s)
               PROVE  GoodAnswer(a)'
  <2>1. ASSUME Receive(s) \/ Find(s) \/ Issue(s) \/ BeginConsume(s) \/ CheckReceipt(s)
                 \/ InsertReplay(s) \/ MarkConsumed(s) \/ CommitConsume(s) \/ LogConsumed(s)
                 \/ Respond(s) \/ Crash(s) \/ Restart(s)
        PROVE  FALSE
    BY <1>0, <2>1
       DEF Receive, Find, Issue, BeginConsume, CheckReceipt, InsertReplay, MarkConsumed,
           CommitConsume, LogConsumed, Respond, Crash, Restart, Goto
  <2> QED
    BY <1>2, <1>3, <2>1 DEF Moves, Handle, BusyTimeout, IssueConflict, StatementFails
<1>5. PICK d \in Decision : Serves(s, d)
  <2>1. pc[s] \notin {"idle", "down"}
    BY <1>4 DEF LogAssessed, LogIssued, LogReused, LogAccepted, LogRejected
  <2>2. req[s].decision_id \in Decision
    BY <1>0, <2>1, ControlAssumption DEF Decision, TypeInv, Typed, TypeOK, Serving
  <2> QED  BY <2>1, <2>2 DEF Serves
<1>6. /\ d \in 1..Len(calls) /\ calls[d] \in Call
      /\ req[s].decision_id = d /\ req[s] \in Request
      /\ CallOf(s) = calls[d] /\ Confirmed(s) = KeyOf(d)
      /\ Handled(s, d)
  BY <1>5, Own
<1>7. /\ KeyOf(d)' = KeyOf(d) /\ calls'[d] = calls[d]
      /\ Rightful(d) => Rightful(d)'
      /\ \A error : Explained(d, error) => Explained(d, error)'
      /\ \A key : (Holds(key) => Holds(key)') /\ (Spent(key) => Spent(key)')
  BY <1>0, <1>6, ReasonsStable, HoldsStable
<1>8. /\ \A type \in Events, verdict \in Verdicts, receipt \in Key \cup {None} :
            Log(s, type, verdict, receipt) => Trail(d)' = Append(Trail(d), type)
      /\ {"decision.assessed", "execute.rejected", "receipt.consumed", "execute.accepted",
          "receipt.issued", "receipt.reused"} \subseteq Events
      /\ {"EXECUTE_ACCEPTED", "EXECUTE_REJECTED", "REQUIRE_CONFIRM"} \subseteq Verdicts
  <2>1. ASSUME NEW type \in Events, NEW verdict \in Verdicts, NEW receipt \in Key \cup {None},
               Log(s, type, verdict, receipt)
        PROVE  Trail(d)' = Append(Trail(d), type)
    BY <1>0, <1>5, <2>1, LogTrail
  <2> QED  BY <2>1 DEF Events, Verdicts
<1>9. a.decision_id = d
  <2>1. req'[s].decision_id = req[s].decision_id
    BY <1>0, <1>4
       DEF LogAssessed, LogIssued, LogReused, LogAccepted, LogRejected, Request
  <2> QED  BY <1>1, <1>6, <2>1
<1>10. Accepted(a)' <=> a.outcome = "ALLOW" /\ IsExecute(calls[d])
  BY <1>7, <1>9 DEF Accepted, IsExecute
<1>11. CASE LogAssessed(s)
  <2>1. /\ Assessed(s, d) /\ UNCHANGED req
        /\ Log(s, "decision.assessed", AssessedVerdict(req[s].outcome, CallOf(s)), req[s].receipt)
    BY <1>6, <1>11 DEF LogAssessed, Handled
  <2>2. Trail(d)' = <<"decision.assessed">>
    <3>1. AssessedVerdict(req[s].outcome, CallOf(s)) \in Verdicts
      BY DEF AssessedVerdict, Verdicts
    <3>2. req[s].receipt \in Key \cup {None}
      BY <1>6 DEF Request
    <3>3. Trail(d)' = Append(Trail(d), "decision.assessed")
      BY <1>8, <2>1, <3>1, <3>2
    <3> QED  BY <1>8, <2>1, <3>3, ShortTrails DEF Assessed
  <2>3. \/ a.outcome = "BLOCK"
        \/ a.outcome = "REQUIRE_CONFIRM" /\ a.receipt = None
        \/ a.outcome = "ALLOW" /\ ~IsExecute(calls[d])
    BY <1>0, <1>1, <1>6, <1>11, <2>1 DEF LogAssessed, Goto
  <2>4. a.error \notin ConsumeError /\ (a.outcome = "ALLOW" => Rightful(d)')
    BY <1>1, <1>6, <1>7, <2>1 DEF Assessed, Handled
  <2>5. Before(a.error) = <<"decision.assessed">>
    BY <2>4 DEF Before
  <2> QED  BY <1>9, <1>10, <2>2, <2>3, <2>4, <2>5 DEF GoodAnswer, Evident
<1>12. CASE LogIssued(s) \/ LogReused(s)
  <2>1. PICK type \in {"receipt.issued", "receipt.reused"} :
          Log(s, type, "REQUIRE_CONFIRM", req[s].receipt)
    BY <1>12 DEF LogIssued, LogReused
  <2>2. Offers(s, d) /\ UNCHANGED req /\ pc[s] \in {"log_issued", "log_reused"}
    BY <1>6, <1>12 DEF LogIssued, LogReused, Handled, Offering
  <2>3. /\ a.outcome = "REQUIRE_CONFIRM" /\ Holds(a.receipt) /\ Trail(d) = Before(a.error)
        /\ a.receipt.plan_hash = calls[d].signals
        /\ a.error \in ConsumeError => Explained(d, a.error)
    BY <1>1, <2>2 DEF Offers
  <2>4. a.receipt \in Key /\ a.receipt # None
    BY <2>3, ReceiptsAssumption DEF Holds, Key
  <2>5. Trail(d)' = Append(Before(a.error), type)
    BY <1>1, <1>8, <2>1, <2>2, <2>3, <2>4
  <2> QED  BY <1>7, <1>9, <1>10, <2>3, <2>4, <2>5 DEF GoodAnswer, Evident
<1>13. CASE LogAccepted(s)
  <2>1. /\ pc[s] = "log_accepted" /\ Executes(s, d) /\ UNCHANGED req
        /\ Log(s, "execute.accepted", "EXECUTE_ACCEPTED", Confirmed(s))
        /\ IsExecute(calls[d]) /\ Confirmed(s) \in Key
    BY <1>0, <1>6, <1>13, ConfirmedKey DEF LogAccepted, Handled, Executing, TypeInv, Typed, Serving
  <2>2. Trail(d)' = <<"decision.assessed", "receipt.consumed", "execute.accepted">>
    <3>1. Trail(d)' = Append(Trail(d), "execute.accepted")
      BY <1>8, <2>1
    <3>2. Trail(d) = <<"decision.assessed", "receipt.consumed">>
      BY <2>1 DEF Executes
    <3>3. /\ "decision.assessed" \in Events /\ "receipt.consumed" \in Events
          /\ "execute.accepted" \in Events
      BY <1>8
    <3>4. Append(<<"decision.assessed", "receipt.consumed">>, "execute.accepted")
            = <<"decision.assessed", "receipt.consumed", "execute.accepted">>
      BY <3>3, ShortTrails
    <3> QED  BY <3>1, <3>2, <3>4
  <2>3. /\ a.outcome = "ALLOW" /\ a.error \notin ConsumeError
        /\ Spent(KeyOf(d))' /\ Rightful(d)'
    <3>1. Spent(KeyOf(d)) /\ Rightful(d)
      BY <1>6, <2>1 DEF Executes, Handled
    <3> QED  BY <1>1, <1>7, <2>1, <3>1 DEF Executes
  <2> QED  BY <1>7, <1>9, <1>10, <2>1, <2>2, <2>3 DEF GoodAnswer, Evident
<1>14. CASE LogRejected(s)
  <2>1. /\ pc[s] = "log_rejected" /\ Executes(s, d) /\ Confirmed(s) \in Key
        /\ Log(s, "execute.rejected", "EXECUTE_REJECTED", Confirmed(s))
    BY <1>0, <1>6, <1>14, ConfirmedKey DEF LogRejected, Handled, Executing
  <2>2. CASE a.outcome = "INTERNAL_ERROR" /\ a.error = None
    BY <2>2, FailureGood DEF Failures
  <2>3. CASE a.outcome = "REQUIRE_CONFIRM" /\ a.error = req[s].error /\ a.receipt = None
    <3>1. a.error \in ConsumeError /\ Explained(d, a.error)
      BY <2>1, <2>3 DEF Executes
    <3>2. Trail(d)' = Before(a.error)
      <4>1. Trail(d)' = Append(Trail(d), "execute.rejected")
        BY <1>8, <2>1
      <4> QED  BY <1>8, <2>1, <3>1, <4>1, ShortTrails DEF Executes, Before
    <3> QED  BY <1>7, <1>9, <1>10, <2>3, <3>1, <3>2 DEF GoodAnswer, Evident
  <2> QED  BY <1>0, <1>1, <1>14, <2>2, <2>3, RejectedMove
<1> QED  BY <1>4, <1>11, <1>12, <1>13, <1>14

-----------------------------------------------------------------------------
(* Calls, answers, events and claims, step by step.                        *)

(* A handler that serves a call was serving it, or has just received it.   *)
LEMMA ServesStep ==
    ASSUME TypeInv, NEW s \in Server, Moves(s), NEW d \in Decision, Serves(s, d)'
    PROVE  \/ Serves(s, d)
           \/ d = Len(calls) + 1 /\ Len(calls') = Len(calls) + 1
<1>0. /\ pc \in [Server -> Label] /\ req \in [Server -> Request]
      /\ calls \in Seq(Call) /\ Len(calls) \in Nat
  BY DEF TypeInv, Typed, TypeOK
<1>1. ASSUME Receive(s) \/ ReceiveAndFail(s)
      PROVE  d = Len(calls) + 1 /\ Len(calls') = Len(calls) + 1
  <2>1. req'[s].decision_id = Len(calls) + 1
    BY <1>0, <1>1 DEF Receive, ReceiveAndFail
  <2>2. \E call \in ClientCalls : calls' = Append(calls, call)
    BY <1>1 DEF Receive, ReceiveAndFail
  <2> QED  BY <1>0, <2>1, <2>2, ControlAssumption DEF Serves
<1>2. ASSUME LogAssessed(s) \/ Issue(s) \/ LogIssued(s) \/ LogReused(s) \/ BeginConsume(s)
                \/ InsertReplay(s) \/ CommitConsume(s) \/ LogConsumed(s) \/ LogAccepted(s)
      PROVE  Serves(s, d)
  BY <1>0, <1>2
     DEF LogAssessed, Issue, LogIssued, LogReused, BeginConsume, InsertReplay, CommitConsume,
         LogConsumed, LogAccepted, Serves
<1>3. ASSUME Find(s) \/ CheckReceipt(s) \/ MarkConsumed(s) \/ LogRejected(s)
      PROVE  Serves(s, d)
  BY <1>0, <1>3 DEF Find, CheckReceipt, MarkConsumed, LogRejected, Serves, Request
<1>4. ASSUME Abort(s), pc[s] \notin {"idle", "down"}
      PROVE  Serves(s, d)
  BY <1>0, <1>4 DEF Abort, Serves, Request
<1>5. ASSUME Respond(s) \/ Crash(s) \/ Restart(s) PROVE FALSE
  BY <1>0, <1>5 DEF Respond, Crash, Restart, Goto, Serves
<1> QED
  BY <1>1, <1>2, <1>3, <1>4, <1>5
     DEF Moves, Handle, BusyTimeout, IssueConflict, StatementFails, Reading, Writing, InTxn

(* The only answer a step can add is the one its handler had ready, and    *)
(* the handler is then done with the call.                                 *)
LEMMA RepliesStep ==
    ASSUME TypeInv, NEW s \in Server, Moves(s)
    PROVE  \/ replies' = replies
           \/ /\ replies' = replies \cup {AnswerOf(s)} /\ UNCHANGED <<store, calls>>
              /\ pc[s] = "respond" /\ pc'[s] = "idle"
<1>1. ASSUME Respond(s)
      PROVE  /\ replies' = replies \cup {AnswerOf(s)} /\ UNCHANGED <<store, calls>>
             /\ pc[s] = "respond" /\ pc'[s] = "idle"
  BY <1>1 DEF Respond, AnswerOf, Goto, store, TypeInv, Typed, TypeOK
<1>2. ASSUME ~Respond(s)
      PROVE  replies' = replies
  BY <1>2 DEF Moves, Handle, Receive, ReceiveAndFail, LogAssessed, Find, Issue, LogIssued,
              LogReused, BeginConsume, CheckReceipt, InsertReplay, MarkConsumed, CommitConsume,
              LogConsumed, LogAccepted, LogRejected, BusyTimeout, IssueConflict,
              StatementFails, Abort, Crash, Restart
<1> QED  BY <1>1, <1>2

(* Each call keeps one handler and gets at most one answer.                *)
LEMMA ServedStep == LogInv /\ [Next]_vars => Served'
<1> SUFFICES ASSUME LogInv, [Next]_vars PROVE Served'
  OBVIOUS
<1>0. /\ TypeInv /\ Served /\ Grows /\ Len(calls) \in Nat /\ Len(calls') \in Nat
      /\ Decision \subseteq Nat
  <2>1. TypeInv /\ Typed' /\ Served /\ Grows
    BY Growth, TypeStep DEF LogInv, IInv
  <2> QED  BY <2>1, ControlAssumption DEF TypeInv, Typed, TypeOK, Decision
<1>1. \A t \in Server, d \in Decision : Serves(t, d) => d \in 1..Len(calls)
  BY <1>0 DEF Serves, TypeInv, Typed, Serving
<1>2. CASE UNCHANGED <<store, txn, pc, req, calls, replies>>
  BY <1>0, <1>2 DEF Served, Serves, store
<1>3. ASSUME NEW s \in Server, Moves(s) PROVE Served'
  <2>1. ASSUME NEW t \in Server, t # s, NEW d
        PROVE  Serves(t, d)' <=> Serves(t, d)
    BY <1>0, <1>3, <2>1, OthersStay DEF Serves
  <2>2. ASSUME NEW d \in Decision, Serves(s, d)'
        PROVE  /\ \A t \in Server : Serves(t, d) => t = s
               /\ \A a \in replies : a.decision_id # d
    <3>1. CASE Serves(s, d)
      BY <1>0, <3>1 DEF Served
    <3>2. CASE d = Len(calls) + 1
      BY <1>0, <1>1, <3>2 DEF Served
    <3> QED  BY <1>0, <1>3, <2>2, <3>1, <3>2, ServesStep
  <2>3. \A t, u \in Server, d \in Decision : Serves(t, d)' /\ Serves(u, d)' => t = u
    BY <1>0, <2>1, <2>2 DEF Served
  <2>4. \A d \in Decision : d > Len(calls') => decision_logs'[d] = <<>>
    <3>1. ASSUME NEW d \in Decision, d > Len(calls')
          PROVE  d > Len(calls) /\ ~Serves(s, d)
      BY <1>0, <1>1, <3>1 DEF Grows
    <3> QED  BY <1>0, <1>3, <3>1, OtherLogs DEF Served
  <2>5. \A a \in replies : a.decision_id \in Decision /\ a.decision_id \in 1..Len(calls')
    BY <1>0 DEF Served, Grows, TypeInv, Typed, TypeOK, Reply
  <2>6. CASE replies' = replies
    <3>1. \A a \in replies, t \in Server : ~Serves(t, a.decision_id)'
      BY <1>0, <2>1, <2>2, <2>5 DEF Served
    <3> QED  BY <1>0, <2>3, <2>4, <2>5, <2>6, <3>1 DEF Served
  <2>7. CASE /\ replies' = replies \cup {AnswerOf(s)} /\ UNCHANGED calls
             /\ pc[s] = "respond" /\ pc'[s] = "idle"
    <3> PICK d : d = req[s].decision_id
      OBVIOUS
    <3>1. d \in 1..Len(calls) /\ d \in Decision /\ Serves(s, d)
      BY <1>0, <2>7, ControlAssumption DEF Serves, Decision, TypeInv, Typed, Serving
    <3>2. AnswerOf(s).decision_id = d
      BY DEF AnswerOf
    <3>3. ASSUME NEW t \in Server, Serves(t, d)'
          PROVE  FALSE
      <4>1. t # s
        BY <2>7, <3>3 DEF Serves
      <4>2. Serves(t, d)
        BY <2>1, <3>1, <3>3, <4>1
      <4> QED  BY <1>0, <3>1, <4>1, <4>2 DEF Served
    <3>4. \A a \in replies : a.decision_id # d
      BY <1>0, <3>1 DEF Served
    <3>5. \A a \in replies, t \in Server : ~Serves(t, a.decision_id)'
      BY <1>0, <2>1, <2>2, <2>5 DEF Served
    <3>6. \A a, b \in replies' : a.decision_id = b.decision_id => a = b
      BY <1>0, <2>7, <3>2, <3>4 DEF Served
    <3>7. \A a \in replies' : /\ a.decision_id \in 1..Len(calls')
                              /\ \A t \in Server : ~Serves(t, a.decision_id)'
      BY <2>5, <2>7, <3>1, <3>2, <3>3, <3>5
    <3> QED  BY <2>3, <2>4, <3>6, <3>7 DEF Served
  <2> QED  BY <1>0, <1>3, <2>6, <2>7, RepliesStep
<1> QED  BY <1>2, <1>3, StepCases

(* An answer given or ready stays good, and a new one is good.             *)
LEMMA AnswerStep ==
    ASSUME LogInv, [Next]_vars, NEW a \in AllAnswers', a \in AllAnswers => GoodAnswer(a)
    PROVE  GoodAnswer(a)'
<1>0. TypeInv /\ Served /\ Grows /\ pc \in [Server -> Label]
  BY Growth DEF LogInv, IInv, TypeInv, Typed, TypeOK
<1>1. \A b \in AllAnswers : b.decision_id \in 1..Len(calls) /\ b.decision_id \in Decision
  <2>1. \A b \in replies : b.decision_id \in 1..Len(calls) /\ b.decision_id \in Decision
    BY <1>0 DEF Served, TypeInv, Typed, TypeOK, Reply
  <2>2. ASSUME NEW t \in Server, pc[t] = "respond"
        PROVE  /\ AnswerOf(t).decision_id \in 1..Len(calls)
               /\ AnswerOf(t).decision_id \in Decision
    BY <1>0, <2>2, ControlAssumption DEF AnswerOf, TypeInv, Typed, Serving, Decision
  <2> QED  BY <2>1, <2>2 DEF AllAnswers
<1>2. ASSUME a \in AllAnswers, decision_logs'[a.decision_id] = decision_logs[a.decision_id]
      PROVE  GoodAnswer(a)'
  BY <1>0, <1>1, <1>2, AnswerStable, TrailSame
<1>3. CASE UNCHANGED <<store, txn, pc, req, calls, replies>>
  <2>1. \A t : AnswerOf(t)' = AnswerOf(t)
    BY <1>3 DEF AnswerOf
  <2>2. a \in AllAnswers
    BY <1>3, <2>1 DEF AllAnswers
  <2> QED  BY <1>2, <1>3, <2>2 DEF store
<1>4. ASSUME NEW s \in Server, Moves(s) PROVE GoodAnswer(a)'
  <2>1. ASSUME a \in replies PROVE GoodAnswer(a)'
    <3>1. a \in AllAnswers /\ ~Serves(s, a.decision_id)
      BY <1>0, <2>1 DEF AllAnswers, Served
    <3> QED  BY <1>0, <1>1, <1>2, <1>4, <3>1, OtherLogs
  <2>2. ASSUME a = AnswerOf(s), pc[s] = "respond", UNCHANGED decision_logs
        PROVE  GoodAnswer(a)'
    BY <1>2, <2>2 DEF AllAnswers
  <2>3. ASSUME NEW t \in Server, t # s, pc'[t] = "respond", a = AnswerOf(t)'
        PROVE  GoodAnswer(a)'
    <3>1. pc[t] = "respond" /\ a = AnswerOf(t)
      BY <1>0, <1>4, <2>3, OthersStay DEF AnswerOf
    <3>2. a \in AllAnswers /\ Serves(t, a.decision_id)
      BY <3>1 DEF AllAnswers, AnswerOf, Serves
    <3>3. a.decision_id \in Decision /\ ~Serves(s, a.decision_id)
      BY <1>0, <1>1, <2>3, <3>2 DEF Served
    <3> QED  BY <1>0, <1>2, <1>4, <3>2, <3>3, OtherLogs
  <2>4. ASSUME pc'[s] = "respond", a = AnswerOf(s)' PROVE GoodAnswer(a)'
    <3>1. ASSUME pc[s] = "respond" PROVE FALSE
      BY <1>0, <1>4, <2>4, <3>1
         DEF Moves, Handle, Receive, ReceiveAndFail, LogAssessed, Find, Issue, LogIssued,
             LogReused, BeginConsume, CheckReceipt, InsertReplay, MarkConsumed, CommitConsume,
             LogConsumed, LogAccepted, LogRejected, Respond, BusyTimeout, IssueConflict,
             StatementFails, Crash, Restart, Goto, Reading, Writing, InTxn
    <3> QED  BY <1>4, <2>4, <3>1, AnswerReady
  <2> QED  BY <1>0, <1>4, <2>1, <2>2, <2>3, <2>4, RepliesStep DEF AllAnswers, store
<1> QED  BY <1>3, <1>4, StepCases

(* An event stays good.                                                    *)
LEMMA EventStable ==
    ASSUME TypeInv, Grows, NEW d \in 1..Len(calls), NEW e, GoodEvent(d, e)
    PROVE  GoodEvent(d, e)'
<1>1. KeyOf(d)' = KeyOf(d) /\ calls'[d] = calls[d]
  BY ReasonsStable
<1> QED  BY <1>1, HoldsStable DEF GoodEvent, IsExecute

(* The trails a call may leave.                                            *)
LEMMA TrailsShape ==
    ASSUME NEW error \in ConfirmError \cup {None}
    PROVE  /\ <<>> \in Trails /\ Before(error) \in Trails
           /\ Append(Before(error), "receipt.issued") \in Trails
           /\ Append(Before(error), "receipt.reused") \in Trails
           /\ <<"decision.assessed", "receipt.consumed">> \in Trails
           /\ <<"decision.assessed", "receipt.consumed", "execute.accepted">> \in Trails
<1>1. \E other \in ConfirmError : Before(other) = Before(error)
  <2>1. CASE error = None
    <3>1. Before("STALE_RECEIPT_OR_PLAN_CHANGED") = Before(None)
      BY ControlAssumption DEF Before, ConsumeError
    <3> QED  BY <2>1, <3>1 DEF ConfirmError
  <2> QED  BY <2>1
<1> QED  BY <1>1 DEF Trails

(* What a handler adds to the log of its call: at most one event, which is *)
(* true, in the order of one of the trails; a consumption is recorded only *)
(* on the way from it.                                                     *)
LEMMA LogMoves ==
    ASSUME LogInv, [Next]_vars, NEW s \in Server, Moves(s), NEW d \in Decision, Serves(s, d)
    PROVE  \/ decision_logs'[d] = decision_logs[d]
           \/ /\ Trail(d)' \in Trails
              /\ \E e \in Event : decision_logs'[d] = Append(decision_logs[d], e)
                                  /\ GoodEvent(d, e)'
              /\ Len(Trail(d)') > 1 /\ Trail(d)'[2] = "receipt.consumed" => Claims(d)
<1> DEFINE Good(type, verdict, receipt) ==
        GoodEvent(d, [event_type |-> type, verdict |-> verdict, receipt |-> receipt])
<1>0. /\ TypeInv /\ Grows
      /\ d \in 1..Len(calls) /\ calls[d] \in Call
      /\ req[s].decision_id = d /\ req[s] \in Request
      /\ CallOf(s) = calls[d] /\ Confirmed(s) = KeyOf(d)
      /\ Handled(s, d)
  BY Growth, Own DEF LogInv, IInv
<1>1. /\ KeyOf(d)' = KeyOf(d) /\ calls'[d] = calls[d]
      /\ \A key : (Holds(key) => Holds(key)') /\ (Spent(key) => Spent(key)')
  BY <1>0, ReasonsStable, HoldsStable
<1>2. ASSUME NEW type \in Events, NEW verdict \in Verdicts, NEW receipt \in Key \cup {None},
             Log(s, type, verdict, receipt)
      PROVE  /\ Trail(d)' = Append(Trail(d), type)
             /\ [event_type |-> type, verdict |-> verdict, receipt |-> receipt] \in Event
             /\ decision_logs'[d] = Append(decision_logs[d],
                    [event_type |-> type, verdict |-> verdict, receipt |-> receipt])
  BY <1>0, <1>2, LogTrail DEF Event
<1>3. /\ {"decision.assessed", "execute.rejected", "receipt.consumed", "execute.accepted",
          "receipt.issued", "receipt.reused"} \subseteq Events
      /\ {"EXECUTE_ACCEPTED", "EXECUTE_REJECTED", "REQUIRE_CONFIRM"} \subseteq Verdicts
  BY DEF Events, Verdicts
<1>4. /\ req[s].error \in ConfirmError \cup {None} /\ req[s].receipt \in Key \cup {None}
      /\ ConsumeError \subseteq ConfirmError
  BY <1>0 DEF Request, ConfirmError
<1>5. CASE LogAssessed(s)
  <2>1. /\ Trail(d) = <<>>
        /\ Log(s, "decision.assessed", AssessedVerdict(req[s].outcome, CallOf(s)), req[s].receipt)
    BY <1>0, <1>5 DEF LogAssessed, Handled, Assessed
  <2>2. AssessedVerdict(req[s].outcome, CallOf(s)) \in Verdicts
    BY DEF AssessedVerdict, Verdicts
  <2>3. Trail(d)' = <<"decision.assessed">>
    BY <1>2, <1>3, <1>4, <2>1, <2>2, ShortTrails
  <2>4. Trail(d)' \in Trails /\ ~(Len(Trail(d)') > 1)
    <3>1. Before(None) = <<"decision.assessed">>
      BY ControlAssumption DEF Before
    <3> QED  BY <2>3, <3>1, TrailsShape
  <2>5. \A verdict, receipt :
          GoodEvent(d, [event_type |-> "decision.assessed", verdict |-> verdict,
                        receipt |-> receipt])'
    BY DEF GoodEvent
  <2> QED  BY <1>2, <1>3, <1>4, <2>1, <2>2, <2>4, <2>5
<1>6. CASE LogIssued(s) \/ LogReused(s)
  <2>1. PICK type \in {"receipt.issued", "receipt.reused"} :
          Log(s, type, "REQUIRE_CONFIRM", req[s].receipt)
    BY <1>6 DEF LogIssued, LogReused
  <2>2. Trail(d) = Before(req[s].error) /\ Holds(req[s].receipt)
    BY <1>0, <1>6 DEF LogIssued, LogReused, Handled, Offers, Offering
  <2>3. type \in Events /\ "REQUIRE_CONFIRM" \in Verdicts
    BY <1>3
  <2>4. Trail(d)' = Append(Before(req[s].error), type)
    BY <1>2, <1>4, <2>1, <2>2, <2>3
  <2>5. Trail(d)' \in Trails
    BY <1>4, <2>4, TrailsShape
  <2>6. Trail(d)'[2] # "receipt.consumed"
    <3>1. CASE req[s].error \in ConsumeError
      <4>1. Trail(d)' = <<"decision.assessed", "execute.rejected", type>>
        BY <1>3, <2>3, <2>4, <3>1, ShortTrails DEF Before
      <4> QED  BY <4>1
    <3>2. CASE req[s].error \notin ConsumeError
      <4>1. Trail(d)' = <<"decision.assessed", type>>
        BY <1>3, <2>3, <2>4, <3>2, ShortTrails DEF Before
      <4> QED  BY <4>1
    <3> QED  BY <3>1, <3>2
  <2> PICK receipt : receipt = req[s].receipt
    OBVIOUS
  <2>7. GoodEvent(d, [event_type |-> type, verdict |-> "REQUIRE_CONFIRM", receipt |-> receipt])'
    BY <1>1, <2>2 DEF GoodEvent
  <2> QED  BY <1>2, <1>4, <2>1, <2>3, <2>5, <2>6, <2>7
<1>7. CASE LogConsumed(s) \/ LogAccepted(s)
  <2>1. PICK type \in {"receipt.consumed", "execute.accepted"} :
          /\ Log(s, type, "EXECUTE_ACCEPTED", KeyOf(d))
          /\ type = "receipt.consumed" <=> pc[s] = "log_consumed"
          /\ pc[s] \in {"log_consumed", "log_accepted"}
    BY <1>0, <1>7 DEF LogConsumed, LogAccepted
  <2>2. Executes(s, d) /\ IsExecute(calls[d]) /\ KeyOf(d) \in Key
    BY <1>0, <2>1, ConfirmedKey DEF Handled, Executing, TypeInv, Typed, Serving
  <2>3. type \in Events /\ "EXECUTE_ACCEPTED" \in Verdicts
    BY <1>3
  <2>4. Trail(d)' = Append(Trail(d), type)
    BY <1>2, <2>1, <2>2, <2>3
  <2>5. Trail(d)' \in Trails
    <3>1. CASE pc[s] = "log_consumed"
      <4>1. Trail(d)' = <<"decision.assessed", "receipt.consumed">>
        BY <1>3, <2>1, <2>2, <2>4, <3>1, ShortTrails DEF Executes
      <4> QED  BY <4>1, TrailsShape
    <3>2. CASE pc[s] = "log_accepted"
      <4>1. Trail(d) = <<"decision.assessed", "receipt.consumed">> /\ type = "execute.accepted"
        BY <2>1, <2>2, <3>2 DEF Executes
      <4>2. {"decision.assessed", "receipt.consumed", "execute.accepted"} \subseteq Events
        BY <1>3
      <4>3. Trail(d)' = <<"decision.assessed", "receipt.consumed", "execute.accepted">>
        <5>1. Trail(d)' = Append(<<"decision.assessed", "receipt.consumed">>, "execute.accepted")
          BY <2>4, <4>1
        <5> QED  BY <4>2, <5>1, ShortTrails
      <4> QED  BY <4>3, TrailsShape
    <3> QED  BY <2>1, <3>1, <3>2
  <2>6. Claims(d)
    <3>1. CASE pc[s] = "log_consumed"
      BY <3>1 DEF Claims
    <3>2. CASE pc[s] = "log_accepted"
      <4>1. Trail(d) = <<"decision.assessed", "receipt.consumed">>
        BY <2>2, <3>2 DEF Executes
      <4> QED  BY <4>1 DEF Claims
    <3> QED  BY <2>1, <3>1, <3>2
  <2> PICK key : key = KeyOf(d)
    OBVIOUS
  <2>7. GoodEvent(d, [event_type |-> type, verdict |-> "EXECUTE_ACCEPTED", receipt |-> key])'
    <3>1. Spent(key)' /\ key = KeyOf(d)' /\ IsExecute(calls[d])'
      BY <1>1, <2>1, <2>2 DEF Executes, IsExecute
    <3> QED  BY <3>1 DEF GoodEvent
  <2> QED  BY <1>2, <2>1, <2>2, <2>3, <2>5, <2>6, <2>7
<1>8. CASE LogRejected(s)
  <2>1. /\ Executes(s, d) /\ KeyOf(d) \in Key /\ pc[s] = "log_rejected"
        /\ Log(s, "execute.rejected", "EXECUTE_REJECTED", KeyOf(d))
    BY <1>0, <1>8, ConfirmedKey DEF LogRejected, Handled, Executing
  <2>2. Trail(d)' = Append(Trail(d), "execute.rejected")
    BY <1>2, <1>3, <2>1
  <2>3. Trail(d)' = <<"decision.assessed", "execute.rejected">>
    BY <1>3, <2>1, <2>2, ShortTrails DEF Executes
  <2>4. Trail(d)' \in Trails /\ Trail(d)'[2] # "receipt.consumed"
    <3>1. Before(req[s].error) = Trail(d)'
      BY <2>1, <2>3 DEF Executes, Before
    <3> QED  BY <1>4, <2>3, <3>1, TrailsShape
  <2>5. \A receipt :
          GoodEvent(d, [event_type |-> "execute.rejected", verdict |-> "EXECUTE_REJECTED",
                        receipt |-> receipt])'
    BY DEF GoodEvent
  <2> QED  BY <1>2, <1>3, <2>1, <2>4, <2>5
<1>9. ASSUME Receive(s) \/ ReceiveAndFail(s) \/ Respond(s) \/ Crash(s) \/ Find(s) \/ Issue(s)
                \/ BeginConsume(s) \/ CheckReceipt(s) \/ InsertReplay(s) \/ MarkConsumed(s)
                \/ CommitConsume(s) \/ Restart(s) \/ Abort(s)
      PROVE  decision_logs' = decision_logs
  BY <1>9 DEF Receive, ReceiveAndFail, Respond, Crash, Find, Issue, BeginConsume, CheckReceipt,
              InsertReplay, MarkConsumed, CommitConsume, Restart, Abort, store
<1> QED
  BY <1>5, <1>6, <1>7, <1>8, <1>9 DEF Moves, Handle, BusyTimeout, IssueConflict, StatementFails

(* The log of every call stays true and keeps to one of the trails.        *)
LEMMA RecordingStep == LogInv /\ [Next]_vars => Recording'
<1> SUFFICES ASSUME LogInv, [Next]_vars, NEW d \in Decision
             PROVE  Trail(d)' \in Trails /\ \A e \in LoggedEvents(d)' : GoodEvent(d, e)'
  BY DEF Recording
<1>0. /\ TypeInv /\ Served /\ Grows /\ Trail(d) \in Trails
      /\ decision_logs[d] \in Seq(Event)
      /\ \A e \in LoggedEvents(d) : GoodEvent(d, e)
      /\ Len(calls) \in Nat /\ d \in Nat /\ d >= 1
  BY Growth, ControlAssumption DEF LogInv, IInv, TypeInv, Typed, TypeOK, Recording, Decision
<1>1. ASSUME NEW e \in LoggedEvents(d) PROVE GoodEvent(d, e)'
  <2>1. decision_logs[d] # <<>>
    BY <1>1 DEF LoggedEvents
  <2>2. d \in 1..Len(calls)
    BY <1>0, <2>1 DEF Served
  <2> QED  BY <1>0, <2>2, EventStable
<1>2. CASE decision_logs'[d] = decision_logs[d]
  <2>1. LoggedEvents(d)' = LoggedEvents(d)
    BY <1>2 DEF LoggedEvents
  <2> QED  BY <1>0, <1>1, <1>2, <2>1, TrailSame
<1>3. ASSUME Trail(d)' \in Trails, NEW e \in Event,
             decision_logs'[d] = Append(decision_logs[d], e), GoodEvent(d, e)'
      PROVE  Trail(d)' \in Trails /\ \A f \in LoggedEvents(d)' : GoodEvent(d, f)'
  <2>1. LoggedEvents(d)' \subseteq LoggedEvents(d) \cup {e}
    <3>1. \A i \in DOMAIN decision_logs'[d] :
            \/ i \in DOMAIN decision_logs[d] /\ decision_logs'[d][i] = decision_logs[d][i]
            \/ decision_logs'[d][i] = e
      BY <1>0, <1>3
    <3> QED  BY <3>1 DEF LoggedEvents
  <2> QED  BY <1>1, <1>3, <2>1
<1>4. CASE UNCHANGED <<store, txn, pc, req, calls, replies>>
  BY <1>2, <1>4 DEF store
<1>5. ASSUME NEW s \in Server, Moves(s)
      PROVE  Trail(d)' \in Trails /\ \A e \in LoggedEvents(d)' : GoodEvent(d, e)'
  <2>1. CASE ~Serves(s, d)
    BY <1>0, <1>2, <1>5, <2>1, OtherLogs
  <2>2. CASE Serves(s, d)
    BY <1>2, <1>3, <1>5, <2>2, LogMoves
  <2> QED  BY <2>1, <2>2
<1> QED  BY <1>4, <1>5, StepCases

(* A claim is made for a receipt that is consumed, under the key the call  *)
(* presented.                                                              *)
LEMMA ClaimSpent ==
    ASSUME LogInv, NEW d \in Decision, Claims(d)
    PROVE  d \in 1..Len(calls) /\ Spent(KeyOf(d))
<1>0. /\ TypeInv /\ Served /\ decision_logs[d] \in Seq(Event)
      /\ \A e \in LoggedEvents(d) : GoodEvent(d, e)
      /\ Len(calls) \in Nat /\ d \in Nat /\ d >= 1
  BY ControlAssumption DEF LogInv, IInv, TypeInv, Typed, TypeOK, Recording, Decision
<1>1. CASE Len(Trail(d)) > 1 /\ Trail(d)[2] = "receipt.consumed"
  <2>1. Trail(d) \in [1..Len(decision_logs[d]) -> Events]
    <3>1. \A i \in 1..Len(decision_logs[d]) : decision_logs[d][i] \in Event
      BY <1>0
    <3> QED  BY <1>0, <3>1 DEF Trail, Event
  <2>2. Len(decision_logs[d]) > 1 /\ 2 \in DOMAIN decision_logs[d]
    <3>1. Trail(d) \in Seq(Events) /\ Len(Trail(d)) = Len(decision_logs[d])
      BY <1>0, <2>1, SeqDef
    <3> QED  BY <1>0, <1>1, <3>1
  <2>3. decision_logs[d][2].event_type = "receipt.consumed"
        /\ decision_logs[d][2] \in LoggedEvents(d)
    BY <1>1, <2>2 DEF Trail, LoggedEvents
  <2>4. Spent(KeyOf(d))
    BY <1>0, <2>3 DEF GoodEvent
  <2>5. d \in 1..Len(calls)
    BY <1>0, <2>2 DEF Served
  <2> QED  BY <2>4, <2>5
<1>2. ASSUME NEW s \in Server, Serves(s, d), pc[s] = "log_consumed"
      PROVE  d \in 1..Len(calls) /\ Spent(KeyOf(d))
  BY <1>2, Own DEF Handled, Executing, Executes
<1> QED  BY <1>1, <1>2 DEF Claims

(* The only new claim is that of a handler that commits, for a receipt     *)
(* that was not consumed before.                                           *)
LEMMA ClaimStep ==
    ASSUME LogInv, [Next]_vars, NEW d \in Decision, Claims(d)'
    PROVE  \/ Claims(d)
           \/ \E s \in Server : /\ Serves(s, d) /\ CommitConsume(s)
                                /\ ~Spent(KeyOf(d)) /\ d \in 1..Len(calls)
<1>0. /\ TypeInv /\ Transaction /\ pc \in [Server -> Label] /\ req \in [Server -> Request]
  BY DEF LogInv, IInv, TypeInv, Typed, TypeOK
<1>1. CASE UNCHANGED <<store, txn, pc, req, calls, replies>>
  <2>1. Trail(d)' = Trail(d)
    BY <1>1 DEF Trail, store
  <2> QED  BY <1>1, <2>1 DEF Claims, Serves
<1>2. ASSUME NEW s \in Server, Moves(s),
             Len(Trail(d)') > 1 /\ Trail(d)'[2] = "receipt.consumed"
      PROVE  Claims(d)
  <2>1. CASE Serves(s, d)
    <3>1. CASE decision_logs'[d] = decision_logs[d]
      BY <1>2, <3>1, TrailSame DEF Claims
    <3> QED  BY <1>2, <2>1, <3>1, LogMoves
  <2>2. CASE ~Serves(s, d)
    BY <1>0, <1>2, <2>2, OtherLogs, TrailSame DEF Claims
  <2> QED  BY <2>1, <2>2
<1>3. ASSUME NEW s \in Server, Moves(s),
             NEW t \in Server, Serves(t, d)', pc'[t] = "log_consumed"
      PROVE  \/ Claims(d)
             \/ Serves(t, d) /\ CommitConsume(t)
  <2>1. CASE t # s
    BY <1>0, <1>3, <2>1, OthersStay DEF Claims, Serves
  <2>2. CASE t = s
    <3>1. CommitConsume(s)
      BY <1>0, <1>3, <2>2, RejectedMove
         DEF Moves, Handle, Receive, ReceiveAndFail, LogAssessed, Find, Issue, LogIssued,
             LogReused, BeginConsume, CheckReceipt, InsertReplay, MarkConsumed, CommitConsume,
             LogConsumed, LogAccepted, Respond, BusyTimeout, IssueConflict,
             StatementFails, Abort, Crash, Restart, Goto
    <3>2. Serves(s, d)
      BY <1>0, <1>3, <2>2, <3>1 DEF CommitConsume, Serves
    <3> QED  BY <2>2, <3>1, <3>2
  <2> QED  BY <2>1, <2>2
<1>4. ASSUME NEW s \in Server, Serves(s, d), CommitConsume(s)
      PROVE  ~Spent(KeyOf(d)) /\ d \in 1..Len(calls)
  <2>1. d \in 1..Len(calls) /\ Confirmed(s) = KeyOf(d)
    BY <1>4, Own
  <2>2. ConsumeVerdict(receipts, replay_index, Confirmed(s), req[s].ts) = "ok"
    BY <1>0, <1>4 DEF CommitConsume, Transaction, Checked
  <2> QED  BY <2>1, <2>2, VerdictOk DEF Spent
<1> QED  BY <1>1, <1>2, <1>3, <1>4, StepCases DEF Claims

(* No two calls claim one receipt.                                         *)
LEMMA OnceStep == LogInv /\ [Next]_vars => Once'
<1> SUFFICES ASSUME LogInv, [Next]_vars, NEW d \in Decision, NEW e \in Decision,
                    Claims(d)', Claims(e)',
                    KeyOf(d)'.receipt_id = KeyOf(e)'.receipt_id
             PROVE  d = e
  BY DEF Once
<1>0. TypeInv /\ Grows /\ Once /\ Served
  BY Growth DEF LogInv, IInv
<1>1. ASSUME NEW c \in Decision, Claims(c)'
      PROVE  c \in 1..Len(calls) /\ KeyOf(c)' = KeyOf(c)
  <2>1. c \in 1..Len(calls)
    BY <1>1, ClaimStep, ClaimSpent
  <2> QED  BY <1>0, <2>1, ReasonsStable
<1>2. KeyOf(d).receipt_id = KeyOf(e).receipt_id
  BY <1>1
<1>3. CASE Claims(d) /\ Claims(e)
  BY <1>0, <1>2, <1>3 DEF Once
<1>4. ASSUME NEW a \in Decision, NEW b \in Decision, KeyOf(a).receipt_id = KeyOf(b).receipt_id,
             Claims(a), NEW s \in Server, Serves(s, b), CommitConsume(s)
      PROVE  FALSE
  <2>1. Spent(KeyOf(a))
    BY <1>4, ClaimSpent
  <2>2. ConsumeVerdict(receipts, replay_index, KeyOf(b), req[s].ts) = "ok"
    BY <1>4, Own DEF LogInv, IInv, CommitConsume, Transaction, Checked
  <2> QED  BY <1>4, <2>1, <2>2, VerdictOk DEF Spent
<1>5. ASSUME NEW s \in Server, Serves(s, d), CommitConsume(s),
             NEW t \in Server, Serves(t, e), CommitConsume(t)
      PROVE  d = e
  <2>1. s = t
    BY <1>5 DEF LogInv, IInv, LockOwner, CommitConsume, InTxn
  <2> QED  BY <1>5, <2>1 DEF Serves
<1> QED  BY <1>2, <1>3, <1>4, <1>5, ClaimStep

-----------------------------------------------------------------------------
(* The invariant.                                                          *)

(* At first there are no calls and no events.                              *)
LEMMA LogInit == Init => LogInv
<1> SUFFICES ASSUME Init PROVE LogInv
  OBVIOUS
<1>1. IInv
  BY IInvInit
<1>2. \A s \in Server : \A d : ~Serves(s, d)
  BY DEF Init, Serves
<1>3. \A d \in Decision : Trail(d) = <<>> /\ LoggedEvents(d) = {}
  BY DEF Init, Trail, LoggedEvents
<1>4. Served
  BY <1>2 DEF Init, Served
<1>6. Recording
  BY <1>3, TrailsShape DEF Recording
<1>7. Once
  <2>1. \A d \in Decision : ~Claims(d)
    BY <1>2, <1>3 DEF Claims
  <2> QED  BY <2>1 DEF Once
<1> QED  BY <1>1, <1>2, <1>4, <1>6, <1>7 DEF LogInv

(* Every step keeps it.                                                    *)
LEMMA LogNext == LogInv /\ [Next]_vars => LogInv'
<1> SUFFICES ASSUME LogInv, [Next]_vars PROVE LogInv'
  OBVIOUS
<1>0. TypeInv /\ Grows /\ Served
  BY Growth DEF LogInv, IInv
<1>1. ASSUME NEW t \in Server, NEW d \in Decision, Serves(t, d)'
      PROVE  Handled(t, d)'
  <2>1. CASE UNCHANGED <<store, txn, pc, req, calls, replies>>
    <3>1. Trail(d)' = Trail(d)
      BY <2>1 DEF Trail, store
    <3>2. Serves(t, d) /\ Handled(t, d)
      BY <1>1, <2>1 DEF LogInv, Serves
    <3> QED  BY <1>0, <2>1, <3>1, <3>2, HandledStable
  <2>2. ASSUME NEW s \in Server, Moves(s) PROVE Handled(t, d)'
    <3>1. CASE t = s
      BY <1>1, <2>2, <3>1, MoveHandled
    <3>2. CASE t # s
      <4>1. pc'[t] = pc[t] /\ req'[t] = req[t]
        BY <1>0, <2>2, <3>2, OthersStay
      <4>2. Serves(t, d) /\ Handled(t, d)
        BY <1>1, <4>1 DEF LogInv, Serves
      <4>3. Trail(d)' = Trail(d)
        BY <1>0, <2>2, <3>2, <4>2, OtherLogs, TrailSame DEF Served
      <4> QED  BY <1>0, <4>1, <4>2, <4>3, HandledStable
    <3> QED  BY <3>1, <3>2
  <2> QED  BY <2>1, <2>2, StepCases
<1>2. IInv'
  BY IInvNext DEF LogInv
<1> QED  BY <1>1, <1>2, ServedStep, RecordingStep, OnceStep DEF LogInv

(* With the answers: there are none at first, and they stay good.          *)
LEMMA AInvInit == Init => AInv
<1>1. Init => AllAnswers = {}
  BY DEF Init, AllAnswers
<1> QED  BY <1>1, LogInit DEF AInv

LEMMA AInvNext == AInv /\ [Next]_vars => AInv'
<1> SUFFICES ASSUME AInv, [Next]_vars PROVE AInv'
  OBVIOUS
<1>1. LogInv'
  BY LogNext DEF AInv
<1>2. \A a \in AllAnswers' : GoodAnswer(a)'
  BY AnswerStep DEF AInv
<1> QED  BY <1>1, <1>2 DEF AInv

-----------------------------------------------------------------------------
(* Theorems.                                                               *)

(* AInv holds in every behaviour.                                          *)
LEMMA AInvHolds == Spec => []AInv
BY AInvInit, AInvNext, PTL DEF Spec

(* GateHolds: gated signals are allowed only to a call that consumed a     *)
(* receipt issued for exactly their plan, for any number of processes,     *)
(* calls and faults.                                                       *)
THEOREM GateHoldsAlways == Spec => []GateHolds
<1>1. AInv => GateHolds
  <2> SUFFICES ASSUME AInv, NEW a \in replies,
                      a.outcome = "ALLOW", calls[a.decision_id].signals \in Plan
               PROVE  /\ IsExecute(calls[a.decision_id])
                      /\ KeyOf(a.decision_id).plan_hash = calls[a.decision_id].signals
                      /\ Spent(KeyOf(a.decision_id))
    BY DEF GateHolds, KeyOf, Spent, Holds
  <2>1. GoodAnswer(a)
    BY DEF AInv, LogInv, AllAnswers
  <2>2. IsExecute(calls[a.decision_id])
        /\ KeyOf(a.decision_id).plan_hash = calls[a.decision_id].signals
    BY <2>1 DEF GoodAnswer, Rightful
  <2> QED  BY <2>1, <2>2 DEF GoodAnswer, Accepted
<1> QED  BY <1>1, AInvHolds, PTL

(* OfferedIsStored: a receipt is handed out only under the binding the     *)
(* store holds, and for the plan of the signals it answers.                *)
THEOREM OfferedIsStoredHolds == Spec => []OfferedIsStored
<1>1. AInv => OfferedIsStored
  BY DEF AInv, LogInv, AllAnswers, GoodAnswer, Holds, OfferedIsStored
<1> QED  BY <1>1, AInvHolds, PTL

(* What the logs record bears out what LogSound asks of them.              *)
LEMMA LogInvSound == LogInv => LogSound
<1> SUFFICES ASSUME LogInv, NEW d \in Decision, NEW i \in DOMAIN decision_logs[d],
                    decision_logs[d][i].event_type
                      \notin {"decision.assessed", "execute.rejected"}
             PROVE  LET e == decision_logs[d][i] IN
                    /\ receipts[e.receipt.receipt_id] # NoRow
                    /\ BindingOf(receipts, e.receipt.receipt_id) = e.receipt
                    /\ e.event_type \in {"receipt.consumed", "execute.accepted"} =>
                          receipts[e.receipt.receipt_id].status = "consumed"
  BY DEF LogSound
<1> DEFINE e == decision_logs[d][i]
<1>1. e \in Event
  BY DEF LogInv, IInv, TypeInv, Typed, TypeOK
<1>2. GoodEvent(d, e)
  BY DEF LogInv, Recording, LoggedEvents
<1>3. e.event_type \in {"receipt.issued", "receipt.reused", "receipt.consumed",
                        "execute.accepted"}
  BY <1>1 DEF Event, Events
<1> HIDE DEF e
<1>4. Holds(e.receipt) /\ (e.event_type \in {"receipt.consumed", "execute.accepted"} =>
                             Spent(e.receipt))
  BY <1>2, <1>3 DEF GoodEvent, Spent
<1> QED  BY <1>4 DEF e, Holds, Spent

(* LogSound: what the log calls issued or reused exists under that         *)
(* binding, what it calls consumed or accepted is consumed.                *)
THEOREM LogSoundHolds == Spec => []LogSound
<1>1. AInv => LogSound
  BY LogInvSound DEF AInv
<1> QED  BY <1>1, AInvHolds, PTL

(* AnswerEvidence: an answer that is not a failure is the last word of a   *)
(* complete trail in the log.                                              *)
THEOREM AnswerEvidenceHolds == Spec => []AnswerEvidence
<1>1. AInv => AnswerEvidence
  <2> SUFFICES ASSUME AInv, NEW a \in replies
               PROVE  LET trail    == Trail(a.decision_id)
                          rejected == IF a.error \in ConsumeError
                                      THEN <<"execute.rejected">> ELSE <<>>
                      IN
                      /\ Accepted(a) =>
                            trail = <<"decision.assessed", "receipt.consumed", "execute.accepted">>
                      /\ a.outcome \in {"ALLOW", "BLOCK"} /\ ~Accepted(a) =>
                            trail = <<"decision.assessed">>
                      /\ a.outcome = "REQUIRE_CONFIRM" =>
                            trail \in {<<"decision.assessed">> \o rejected \o offer : offer \in
                                          IF a.receipt = None THEN {<<>>}
                                          ELSE {<<"receipt.issued">>, <<"receipt.reused">>}}
    BY DEF AnswerEvidence
  <2> DEFINE rejected == IF a.error \in ConsumeError THEN <<"execute.rejected">> ELSE <<>>
  <2>1. Evident(a)
    BY DEF AInv, LogInv, AllAnswers, GoodAnswer
  <2>2. {"decision.assessed", "execute.rejected", "receipt.issued", "receipt.reused"}
          \subseteq Events
    BY DEF Events
  <2>3. /\ <<"decision.assessed">> \o rejected = Before(a.error)
        /\ Before(a.error) \in Seq(Events)
    <3>1. ASSUME NEW x \in Events, NEW y \in Events
          PROVE  /\ <<x>> \in Seq(Events) /\ <<x, y>> \in Seq(Events)
                 /\ <<x>> \o <<>> = <<x>> /\ <<x>> \o <<y>> = <<x, y>>
      <4>1. <<x>> \in Seq(Events) /\ <<x, y>> \in Seq(Events) /\ Append(<<x>>, y) = <<x, y>>
        BY ShortTrails
      <4> QED  BY <4>1, AppendIsConcat, ConcatEmptySeq
    <3> QED  BY <2>2, <3>1 DEF Before
  <2> HIDE DEF rejected
  <2>4. /\ <<"decision.assessed">> \o rejected \o <<>> = Before(a.error)
        /\ \A offer \in {"receipt.issued", "receipt.reused"} :
              <<"decision.assessed">> \o rejected \o <<offer>> = Append(Before(a.error), offer)
    BY <2>2, <2>3, ConcatEmptySeq, AppendIsConcat
  <2>5. ASSUME a.outcome = "REQUIRE_CONFIRM"
        PROVE  Trail(a.decision_id) \in
                  {<<"decision.assessed">> \o rejected \o offer : offer \in
                      IF a.receipt = None THEN {<<>>}
                      ELSE {<<"receipt.issued">>, <<"receipt.reused">>}}
    <3>1. CASE a.receipt = None
      BY <2>1, <2>4, <2>5, <3>1 DEF Evident
    <3>2. CASE a.receipt # None
      BY <2>1, <2>4, <2>5, <3>2 DEF Evident
    <3> QED  BY <3>1, <3>2
  <2> QED  BY <2>1, <2>5 DEF Evident, rejected
<1> QED  BY <1>1, AInvHolds, PTL

(* ExecutedOnce: no two calls are told that they may execute on the same   *)
(* receipt, and the log records one consumption and one acceptance of it.  *)
THEOREM ExecutedOnceHolds == Spec => []ExecutedOnce
<1>1. ASSUME AInv, NEW d \in Decision, NEW i \in DOMAIN decision_logs[d],
             decision_logs[d][i].event_type \in {"receipt.consumed", "execute.accepted"}
      PROVE  /\ Claims(d)
             /\ decision_logs[d][i].receipt = KeyOf(d)
             /\ i = IF decision_logs[d][i].event_type = "receipt.consumed" THEN 2 ELSE 3
  <2>1. Trail(d) \in Trails /\ GoodEvent(d, decision_logs[d][i])
    BY <1>1 DEF AInv, LogInv, Recording, LoggedEvents
  <2>2. decision_logs[d] \in Seq(Event) /\ DOMAIN Trail(d) = DOMAIN decision_logs[d]
    BY <1>1 DEF AInv, LogInv, IInv, TypeInv, Typed, TypeOK, Trail
  <2>3. i \in DOMAIN Trail(d) /\ Trail(d)[i] = decision_logs[d][i].event_type
    BY DEF Trail
  <2>4. ASSUME NEW error, NEW offer \in {"receipt.issued", "receipt.reused"}
        PROVE  \A j \in DOMAIN Append(Before(error), offer) :
                  Append(Before(error), offer)[j] \notin {"receipt.consumed", "execute.accepted"}
    <3>1. {"decision.assessed", "execute.rejected", offer} \subseteq Events
      BY DEF Events
    <3>2. \/ Append(Before(error), offer) = <<"decision.assessed", offer>>
          \/ Append(Before(error), offer) = <<"decision.assessed", "execute.rejected", offer>>
      BY <3>1, ShortTrails DEF Before
    <3>3. \A j \in DOMAIN <<"decision.assessed", offer>> :
            <<"decision.assessed", offer>>[j] \notin {"receipt.consumed", "execute.accepted"}
      OBVIOUS
    <3>4. \A j \in DOMAIN <<"decision.assessed", "execute.rejected", offer>> :
            <<"decision.assessed", "execute.rejected", offer>>[j]
              \notin {"receipt.consumed", "execute.accepted"}
      OBVIOUS
    <3> QED  BY <3>2, <3>3, <3>4
  <2>5. \A error : \A j \in DOMAIN Before(error) :
            Before(error)[j] \notin {"receipt.consumed", "execute.accepted"}
    BY DEF Before
  <2>6. Trail(d) \in {<<"decision.assessed", "receipt.consumed">>,
                      <<"decision.assessed", "receipt.consumed", "execute.accepted">>}
    BY <1>1, <2>1, <2>3, <2>4, <2>5 DEF Trails
  <2>7. Claims(d)
    BY <2>6 DEF Claims
  <2>8. i = IF decision_logs[d][i].event_type = "receipt.consumed" THEN 2 ELSE 3
    BY <1>1, <2>3, <2>6
  <2> QED  BY <1>1, <2>1, <2>7, <2>8 DEF GoodEvent
<1>2. ASSUME AInv, NEW a \in replies, Accepted(a)
      PROVE  a.decision_id \in Decision /\ Claims(a.decision_id)
  <2>1. a.decision_id \in Decision
    BY <1>2 DEF AInv, LogInv, IInv, TypeInv, Typed, TypeOK, Reply
  <2>2. Trail(a.decision_id) = <<"decision.assessed", "receipt.consumed", "execute.accepted">>
    BY <1>2 DEF AInv, LogInv, AllAnswers, GoodAnswer, Evident
  <2> QED  BY <2>1, <2>2 DEF Claims
<1>3. AInv => ExecutedOnce
  <2> SUFFICES ASSUME AInv PROVE ExecutedOnce
    OBVIOUS
  <2>1. ASSUME NEW a \in replies, NEW b \in replies, Accepted(a), Accepted(b), a # b
        PROVE  KeyOf(a.decision_id).receipt_id # KeyOf(b.decision_id).receipt_id
    BY <1>2, <2>1 DEF AInv, LogInv, Served, Once
  <2>2. ASSUME NEW r \in Rid, NEW a \in ListByReceiptId(r), NEW b \in ListByReceiptId(r), a # b,
               decision_logs[a[1]][a[2]].event_type \in {"receipt.consumed", "execute.accepted"}
        PROVE  decision_logs[b[1]][b[2]].event_type # decision_logs[a[1]][a[2]].event_type
    <3> SUFFICES ASSUME decision_logs[b[1]][b[2]].event_type = decision_logs[a[1]][a[2]].event_type
                 PROVE  FALSE
      OBVIOUS
    <3>1. ASSUME NEW c \in ListByReceiptId(r)
          PROVE  /\ c = <<c[1], c[2]>> /\ c[1] \in Decision /\ c[2] \in DOMAIN decision_logs[c[1]]
                 /\ decision_logs[c[1]][c[2]].receipt.receipt_id = r
      BY <3>1 DEF ListByReceiptId
    <3>2. /\ Claims(a[1]) /\ KeyOf(a[1]).receipt_id = r
          /\ Claims(b[1]) /\ KeyOf(b[1]).receipt_id = r
          /\ a[2] = b[2]
      BY <1>1, <2>2, <3>1
    <3>3. a[1] = b[1]
      BY <3>1, <3>2 DEF AInv, LogInv, Once
    <3> QED  BY <2>2, <3>1, <3>2, <3>3
  <2> QED  BY <2>1, <2>2 DEF ExecutedOnce, KeyOf
<1> QED  BY <1>3, AInvHolds, PTL

(* QueriesAgree: getReceiptState, findActiveReceiptByPlanHash,             *)
(* hasExecutionKey and consumeReceipt never disagree about a receipt.      *)
THEOREM QueriesAgreeHolds == Spec => []QueriesAgree
<1>1. IInv => QueriesAgree
  <2> SUFFICES ASSUME IInv, NEW r \in Stored(receipts), NEW now \in clock..(MaxClock + TTL)
               PROVE  LET key == BindingOf(receipts, r)
                          state == ReceiptState(receipts, r, now)
                      IN
                      /\ state = "active" <=> r \in ActiveFor(receipts, key.plan_hash, now)
                      /\ state = "active" <=> ConsumeVerdict(receipts, replay_index, key, now) = "ok"
                      /\ state = "consumed" <=> HasExecutionKey(replay_index, key)
    BY DEF QueriesAgree
  <2> DEFINE key == BindingOf(receipts, r)
  <2>1. /\ r \in Rid /\ receipts[r] \in Row /\ receipts[r] # NoRow /\ StoreAtomic
        /\ now \in Int /\ receipts[r].expires_at \in Nat
        /\ receipts[r].status \in {"active", "consumed"}
    BY ControlAssumption, ReceiptsAssumption
       DEF IInv, TypeInv, Typed, TypeOK, Stored, Row
  <2>2. /\ key.receipt_id = r /\ key.plan_hash = receipts[r].plan_hash
        /\ key.nonce = receipts[r].nonce
    BY DEF BindingOf, Binding
  <2>3. receipts[r].status = "consumed" <=> key \in replay_index
    BY <2>1, <2>2 DEF StoreAtomic
  <2> HIDE DEF key
  <2>4. ReceiptState(receipts, r, now) = "active" <=>
          receipts[r].status = "active" /\ receipts[r].expires_at > now
    BY <2>1 DEF ReceiptState
  <2>5. ReceiptState(receipts, r, now) = "consumed" <=> receipts[r].status = "consumed"
    BY <2>1 DEF ReceiptState
  <2>6. ReceiptState(receipts, r, now) = "active" <=> r \in ActiveFor(receipts, key.plan_hash, now)
    BY <2>1, <2>2, <2>4 DEF ActiveFor
  <2>7. ReceiptState(receipts, r, now) = "active" <=>
          ConsumeVerdict(receipts, replay_index, key, now) = "ok"
    BY <2>1, <2>2, <2>3, <2>4 DEF ConsumeVerdict
  <2> QED  BY <2>3, <2>5, <2>6, <2>7 DEF HasExecutionKey, key
<1> QED  BY <1>1, IInvInit, IInvNext, PTL DEF Spec

-----------------------------------------------------------------------------
(* The gate that processes and store implement.                            *)

Offered   == {BindingOf(receipts, r) : r \in Stored(receipts)}
Announced == {<<a.decision_id, calls[a.decision_id].confirm.key>> :
                a \in {b \in replies : Accepted(b)}}

(* Nothing is offered, granted or announced at first.                      *)
LEMMA GateInit == Init => Gate!Init
BY DEF Init, Gate!Init, Stored

(* Issuing a receipt offers its binding, the commit of consumeReceipt      *)
(* grants it, the answer to an accepted call announces it, and no other    *)
(* step changes any of the three.                                          *)
LEMMA GateStep == AInv /\ [Next]_vars => [Gate!Next]_(Gate!vars)
<1> SUFFICES ASSUME AInv, [Next]_vars PROVE [Gate!Next]_(Gate!vars)
  OBVIOUS
<1>0. /\ IInv /\ TypeInv /\ Served /\ Grows /\ receipts \in [Rid -> Row \cup {NoRow}]
  BY Growth DEF AInv, LogInv, IInv, TypeInv, Typed, TypeOK
<1>1. ASSUME NEW key \in Gate!Binding,
             \A o \in Offered : o.receipt_id # key.receipt_id,
             Offered' = Offered \cup {key}, UNCHANGED <<replay_index, Announced>>
      PROVE  Gate!Next
  BY <1>1 DEF Gate!Next, Gate!Offer, Offered, Announced
<1>2. ASSUME NEW key \in Gate!Binding, key \in Offered \ replay_index,
             replay_index' = replay_index \cup {key}, UNCHANGED <<Offered, Announced>>
      PROVE  Gate!Next
  BY <1>2 DEF Gate!Next, Gate!Grant, Offered, Announced
<1>3. ASSUME NEW key \in Gate!Binding, NEW d \in Decision, key \in replay_index,
             \A a \in Announced : a[1] # d /\ a[2] # key,
             Announced' = Announced \cup {<<d, key>>}, UNCHANGED <<Offered, replay_index>>
      PROVE  Gate!Next
  BY <1>3 DEF Gate!Next, Gate!Announce, Offered, Announced
<1>4. ASSUME UNCHANGED <<Offered, replay_index, Announced>>
      PROVE  UNCHANGED Gate!vars
  BY <1>4 DEF Gate!vars, Offered, Announced
<1>5. Gate!Binding = Key
  BY DEF Gate!Binding, Key
<1>6. ASSUME NEW a \in replies
      PROVE  calls'[a.decision_id] = calls[a.decision_id] /\ (Accepted(a)' <=> Accepted(a))
  BY <1>0, <1>6 DEF Served, Grows, Accepted, IsExecute
<1>7. UNCHANGED <<receipts, replay_index>> => UNCHANGED <<Offered, replay_index>>
  BY DEF Offered, Stored, BindingOf
<1>8. CASE replies' = replies
  <2>1. Announced' = Announced
    BY <1>6, <1>8 DEF Announced
  <2>2. CASE UNCHANGED <<receipts, replay_index>>
    BY <1>4, <1>7, <2>1, <2>2
  <2>3. ASSUME NEW key \in Key, NEW now \in Nat, receipts[key.receipt_id] = NoRow,
               receipts' = [receipts EXCEPT ![key.receipt_id] = NewRow(key, now)],
               UNCHANGED replay_index
        PROVE  Gate!Next
    <3>1. key.receipt_id \in Rid /\ receipts'[key.receipt_id] = NewRow(key, now)
      BY <1>0, <2>3 DEF Key
    <3>2. NewRow(key, now) # NoRow
      BY <2>3, RowShape
    <3>3. BindingOf(receipts', key.receipt_id) = key
      BY <3>1 DEF BindingOf, Binding, NewRow, Key
    <3>4. Stored(receipts)' = Stored(receipts) \cup {key.receipt_id}
          /\ key.receipt_id \notin Stored(receipts)
      BY <1>0, <2>3, <3>1, <3>2 DEF Stored
    <3>5. \A r \in Stored(receipts) : BindingOf(receipts', r) = BindingOf(receipts, r)
      BY <1>0, <2>3, <3>4 DEF Stored, BindingOf
    <3>6. Offered' = Offered \cup {key}
      BY <3>3, <3>4, <3>5 DEF Offered
    <3>7. \A o \in Offered : o.receipt_id # key.receipt_id
      BY <3>4 DEF Offered, BindingOf, Binding
    <3> QED  BY <1>1, <1>5, <2>1, <2>3, <3>6, <3>7
  <2>4. ASSUME NEW key \in Key, NEW now \in Nat,
               ConsumeVerdict(receipts, replay_index, key, now) = "ok",
               receipts' = [receipts EXCEPT ![key.receipt_id] = ConsumedRow(@, now)],
               replay_index' = replay_index \cup {key}
        PROVE  Gate!Next
    <3>1. /\ key.receipt_id \in Rid /\ receipts[key.receipt_id] \in Row
          /\ receipts[key.receipt_id].plan_hash = key.plan_hash
          /\ receipts[key.receipt_id].nonce = key.nonce
          /\ key.receipt_id \in Stored(receipts) /\ key \notin replay_index
      BY <1>0, <2>4, VerdictOk DEF Key, Stored
    <3>2. key = BindingOf(receipts, key.receipt_id)
      BY <3>1 DEF BindingOf, Binding, Key
    <3>3. \A r \in Stored(receipts) :
            /\ BindingOf(receipts', r) = BindingOf(receipts, r) /\ r \in Stored(receipts')
      BY <1>0 DEF Grows, Stored, BindingOf
    <3>4. \A r \in Stored(receipts') : r \in Stored(receipts)
      BY <1>0, <2>4, <3>1 DEF Stored
    <3>5. Offered' = Offered
      BY <3>3, <3>4 DEF Offered
    <3>6. key \in Offered \ replay_index
      BY <3>1, <3>2 DEF Offered
    <3> QED  BY <1>2, <1>5, <2>1, <2>4, <3>5, <3>6
  <2> QED  BY <1>0, <2>2, <2>3, <2>4, TableStep
<1>9. ASSUME NEW s \in Server, replies' = replies \cup {AnswerOf(s)}, UNCHANGED <<store, calls>>,
             pc[s] = "respond"
      PROVE  [Gate!Next]_(Gate!vars)
  <2> PICK a : a = AnswerOf(s)
    OBVIOUS
  <2>1. /\ UNCHANGED <<Offered, replay_index>>
        /\ GoodAnswer(a) /\ a.decision_id \in Decision /\ Serves(s, a.decision_id)
        /\ a.decision_id \in 1..Len(calls)
    <3>1. a \in AllAnswers /\ a.decision_id = req[s].decision_id
      BY <1>9 DEF AllAnswers, AnswerOf
    <3>2. a.decision_id \in 1..Len(calls) /\ a.decision_id \in Decision
      BY <1>0, <1>9, <3>1, ControlAssumption DEF TypeInv, Typed, Serving, Decision
    <3> QED  BY <1>7, <1>9, <3>1, <3>2 DEF AInv, LogInv, Serves, store
  <2>2. CASE ~Accepted(a)
    <3>1. ~Accepted(a)'
      BY <1>9, <2>2 DEF Accepted, IsExecute
    <3>2. Announced' = Announced
      BY <1>6, <1>9, <2>2, <3>1 DEF Announced
    <3> QED  BY <1>4, <2>1, <3>2
  <2>3. CASE Accepted(a)
    <3> PICK d, key : d = a.decision_id /\ key = KeyOf(d)
      OBVIOUS
    <3>1. Accepted(a)' /\ key = calls'[a.decision_id].confirm.key
      BY <1>9, <2>3 DEF Accepted, IsExecute, KeyOf
    <3>2. Announced' = Announced \cup {<<d, key>>}
      BY <1>6, <1>9, <3>1 DEF Announced
    <3>3. Spent(key) /\ key \in Key
      BY <2>1, <2>3 DEF GoodAnswer, Spent, Holds
    <3>4. key \in replay_index
      BY <1>0, <3>3 DEF IInv, StoreAtomic, Spent, Holds, Key
    <3>5. ASSUME NEW b \in replies, Accepted(b)
          PROVE  b.decision_id # d /\ KeyOf(b.decision_id) # key
      <4>1. b.decision_id \in Decision /\ b.decision_id # d
        BY <1>0, <2>1, <3>5 DEF Served, TypeInv, Typed, TypeOK, Reply
      <4>2. Claims(b.decision_id) /\ Claims(d)
        <5>1. Evident(a) /\ Evident(b)
          BY <2>1 DEF AInv, LogInv, AllAnswers, GoodAnswer
        <5>2. \A c \in {b.decision_id, d} :
                Trail(c) = <<"decision.assessed", "receipt.consumed", "execute.accepted">>
          BY <2>3, <3>5, <5>1 DEF Evident
        <5> QED  BY <5>2 DEF Claims
      <4> QED  BY <2>1, <4>1, <4>2 DEF AInv, LogInv, Once
    <3>6. \A x \in Announced : x[1] # d /\ x[2] # key
      BY <3>5 DEF Announced, KeyOf
    <3> QED  BY <1>3, <1>5, <2>1, <3>2, <3>3, <3>4, <3>6
  <2> QED  BY <2>2, <2>3
<1> QED  BY <1>0, <1>8, <1>9, StepCases, RepliesStep

(* ImplementsGate: processes, statements, transactions, crashes and the    *)
(* clock included, the program does nothing but offer, grant and announce. *)
THEOREM ImplementsGateHolds == Spec => ImplementsGate
BY GateInit, GateStep, AInvInit, AInvNext, PTL DEF Spec, ImplementsGate, Gate!Spec
-----------------------------------------------------------------------------
(* What holds where the clock is not set back: what was called expired     *)
(* stays so, and one process never has two receipts of one plan that can   *)
(* be executed.                                                            *)

(* Time does not go back.                                                  *)
LEMMA ClockStep ==
    ASSUME ~Backwards, TypeInv, [Next]_vars
    PROVE  clock \in Nat /\ clock' \in Nat /\ clock <= clock'
<1>0. clock \in Nat
  BY DEF TypeInv, Typed, TypeOK
<1>1. ASSUME NEW s \in Server, Moves(s) PROVE clock' = clock
  BY <1>1 DEF Moves, Handle, Receive, ReceiveAndFail, LogAssessed, Find, Issue, LogIssued,
              LogReused, BeginConsume, CheckReceipt, InsertReplay, MarkConsumed, CommitConsume,
              LogConsumed, LogAccepted, LogRejected, Respond, BusyTimeout, IssueConflict,
              StatementFails, Abort, Crash, Restart
<1>2. clock' = clock \/ clock' = clock + 1
  BY <1>1 DEF Next, Moves, Tick, SetBack, Exhausted, vars
<1> QED  BY <1>0, <1>2

(* The clock does not move while a handler does.                           *)
LEMMA ClockStays ==
    ASSUME NEW s \in Server, Moves(s)
    PROVE  clock' = clock
BY DEF Moves, Handle, Receive, ReceiveAndFail, LogAssessed, Find, Issue, LogIssued,
       LogReused, BeginConsume, CheckReceipt, InsertReplay, MarkConsumed, CommitConsume,
       LogConsumed, LogAccepted, LogRejected, Respond, BusyTimeout, IssueConflict,
       StatementFails, Abort, Crash, Restart

(* The timestamp of a handler is taken when it receives its call and lives *)
(* as long as the call.                                                    *)
LEMMA StampStep ==
    ASSUME TypeInv, NEW s \in Server, Moves(s)
    PROVE  \/ req'[s].ts = clock /\ UNCHANGED receipts
           \/ req'[s].ts = req[s].ts /\ (pc'[s] \notin {"idle", "down"} => pc[s] \notin {"idle", "down"})
           \/ req'[s].ts = 0 /\ pc'[s] \in {"idle", "down"}
<1>0. pc \in [Server -> Label] /\ req \in [Server -> Request]
  BY DEF TypeInv, Typed, TypeOK
<1>1. ASSUME Receive(s) \/ ReceiveAndFail(s) PROVE req'[s].ts = clock /\ UNCHANGED receipts
  BY <1>0, <1>1 DEF Receive, ReceiveAndFail, store
<1>2. ASSUME LogAssessed(s) \/ Issue(s) \/ LogIssued(s) \/ LogReused(s) \/ BeginConsume(s)
                \/ InsertReplay(s) \/ CommitConsume(s) \/ LogConsumed(s) \/ LogAccepted(s)
      PROVE  req'[s].ts = req[s].ts /\ pc[s] \notin {"idle", "down"}
  BY <1>0, <1>2
     DEF LogAssessed, Issue, LogIssued, LogReused, BeginConsume, InsertReplay, CommitConsume,
         LogConsumed, LogAccepted
<1>3. ASSUME Find(s) \/ CheckReceipt(s) \/ MarkConsumed(s) \/ LogRejected(s)
      PROVE  req'[s].ts = req[s].ts /\ pc[s] \notin {"idle", "down"}
  BY <1>0, <1>3 DEF Find, CheckReceipt, MarkConsumed, LogRejected, Request
<1>4. ASSUME BusyTimeout(s) \/ IssueConflict(s) \/ StatementFails(s)
      PROVE  req'[s].ts = req[s].ts /\ pc[s] \notin {"idle", "down"}
  BY <1>0, <1>4 DEF BusyTimeout, IssueConflict, StatementFails, Abort, Request, Reading, Writing, InTxn
<1>5. ASSUME Respond(s) \/ Crash(s) PROVE req'[s].ts = 0 /\ pc'[s] \in {"idle", "down"}
  BY <1>0, <1>5 DEF Respond, Crash, Goto, NoReq
<1>6. ASSUME Restart(s) PROVE req'[s].ts = req[s].ts /\ pc'[s] \in {"idle", "down"}
  BY <1>0, <1>6 DEF Restart, Goto
<1> QED  BY <1>1, <1>2, <1>3, <1>4, <1>5, <1>6 DEF Moves, Handle

(* A row that had expired has expired.                                     *)
LEMMA ExpiredStable ==
    ASSUME TypeInv, Grows, clock \in Nat, clock' \in Nat, clock <= clock',
           NEW d \in 1..Len(calls), Expired(d)
    PROVE  Expired(d)'
<1> DEFINE r == KeyOf(d).receipt_id
<1>1. KeyOf(d)' = KeyOf(d) /\ calls'[d] = calls[d]
  BY ReasonsStable
<1>2. r \in Rid
  BY ExecuteKey DEF Expired, KeyOf, TypeInv, Typed, TypeOK, Key
<1>3. receipts[r].expires_at \in Nat
  BY <1>2 DEF Expired, TypeInv, Typed, TypeOK, Row
<1> QED  BY <1>1, <1>2, <1>3 DEF Expired, Grows, IsExecute

(* A receipt is called expired only where its row has expired.             *)
LEMMA ExpiredVerdict ==
    ASSUME AInv, TimeInv, NEW s \in Server, Moves(s), NEW d \in Decision,
           Serves(s, d)', req'[s].error = "RECEIPT_EXPIRED"
    PROVE  d \in 1..Len(calls) /\ Expired(d)
<1>0. /\ TypeInv /\ pc \in [Server -> Label] /\ req \in [Server -> Request]
      /\ receipts \in [Rid -> Row \cup {NoRow}]
      /\ "RECEIPT_EXPIRED" # None /\ "RECEIPT_EXPIRED" # "STALE_RECEIPT_OR_PLAN_CHANGED"
  BY ControlAssumption DEF AInv, LogInv, IInv, TypeInv, Typed, TypeOK, ConsumeError
<1>1. ASSUME Serves(s, d), req[s].error = "RECEIPT_EXPIRED"
      PROVE  d \in 1..Len(calls) /\ Expired(d)
  BY <1>1, Own DEF TimeInv, AInv
<1>2. CASE Receive(s) \/ ReceiveAndFail(s)
  <2>1. ASSUME NEW call, NEW r, NEW n
        PROVE  Assess(call, r, n).error # "RECEIPT_EXPIRED"
    BY <1>0 DEF Assess, Guardrail
  <2> QED  BY <1>0, <1>2, <2>1 DEF Receive, ReceiveAndFail
<1>3. CASE LogAssessed(s) \/ Issue(s) \/ LogIssued(s) \/ LogReused(s) \/ BeginConsume(s)
              \/ InsertReplay(s) \/ CommitConsume(s) \/ LogConsumed(s) \/ LogAccepted(s)
  BY <1>0, <1>1, <1>3
     DEF LogAssessed, Issue, LogIssued, LogReused, BeginConsume, InsertReplay, CommitConsume,
         LogConsumed, LogAccepted, Serves
<1>4. CASE Find(s) \/ LogRejected(s)
  <2>1. pc[s] \in {"find", "log_rejected"}
    BY <1>4 DEF Find, LogRejected
  <2>2. req'[s].decision_id = req[s].decision_id /\ req'[s].error \in {req[s].error, None}
    <3>1. ASSUME Find(s)
          PROVE  req'[s].decision_id = req[s].decision_id /\ req'[s].error = req[s].error
      BY <1>0, <3>1 DEF Find, Request
    <3>2. ASSUME LogRejected(s)
          PROVE  /\ req'[s].decision_id = req[s].decision_id
                 /\ req'[s].error \in {req[s].error, None}
      BY <1>0, <3>2 DEF LogRejected, Request
    <3> QED  BY <1>4, <3>1, <3>2
  <2> QED  BY <1>0, <1>1, <2>1, <2>2 DEF Serves
<1>5. CASE CheckReceipt(s)
  <2>1. pc[s] = "check"
    BY <1>5 DEF CheckReceipt
  <2>2. Serves(s, d)
    BY <1>0, <1>5, <2>1 DEF CheckReceipt, Serves, Request
  <2>3. /\ d \in 1..Len(calls) /\ calls[d] \in Call /\ IsExecute(calls[d])
        /\ Confirmed(s) = KeyOf(d) /\ req[s].ts \in Nat /\ req[s].ts <= clock /\ clock \in Nat
    BY <1>0, <2>1, <2>2, Own
       DEF TypeInv, Typed, TypeOK, Serving, Executing, InTxn, Request, TimeInv, AInv
  <2>4. KeyOf(d) \in Key /\ KeyOf(d).receipt_id \in Rid
    BY <2>3, ExecuteKey DEF KeyOf, Key
  <2>5. CASE UNCHANGED req
    BY <1>1, <2>2, <2>5
  <2>6. CASE req' = [req EXCEPT ![s] = [@ EXCEPT !.error =
                 ConsumeVerdict(receipts, replay_index, Confirmed(s), req[s].ts)]]
    <3>1. ConsumeVerdict(receipts, replay_index, KeyOf(d), req[s].ts) = "RECEIPT_EXPIRED"
      BY <1>0, <2>3, <2>6 DEF Request
    <3>2. /\ receipts[KeyOf(d).receipt_id] # NoRow
          /\ receipts[KeyOf(d).receipt_id].expires_at <= req[s].ts
      BY <3>1 DEF ConsumeVerdict
    <3>3. receipts[KeyOf(d).receipt_id].expires_at \in Nat
      BY <1>0, <2>4, <3>2 DEF Row
    <3> QED  BY <2>3, <3>2, <3>3 DEF Expired
  <2> QED  BY <1>5, <2>5, <2>6 DEF CheckReceipt
<1>6. CASE MarkConsumed(s)
  BY <1>0, <1>1, <1>6 DEF MarkConsumed, Serves, Request
<1>7. CASE BusyTimeout(s) \/ IssueConflict(s) \/ StatementFails(s)
  BY <1>0, <1>7 DEF BusyTimeout, IssueConflict, StatementFails, Abort, Request
<1>8. CASE Respond(s) \/ Crash(s) \/ Restart(s)
  BY <1>0, <1>8 DEF Respond, Crash, Restart, Goto, Serves
<1> QED  BY <1>2, <1>3, <1>4, <1>5, <1>6, <1>7, <1>8 DEF Moves, Handle

(* Timestamps stay in the past, and what was called expired is expired.    *)
LEMMA TimeStep == ~Backwards /\ AInv /\ TimeInv /\ [Next]_vars => TimeInv'
<1> SUFFICES ASSUME ~Backwards, AInv, TimeInv, [Next]_vars PROVE TimeInv'
  OBVIOUS
<1>0. /\ TypeInv /\ Served /\ Grows /\ pc \in [Server -> Label] /\ req \in [Server -> Request]
      /\ clock \in Nat /\ clock' \in Nat /\ clock <= clock'
  BY Growth, ClockStep DEF AInv, LogInv, IInv, TypeInv, Typed, TypeOK
<1>1. \A t \in Server, d \in Decision :
        Serves(t, d) /\ req[t].error = "RECEIPT_EXPIRED" => d \in 1..Len(calls) /\ Expired(d)
  BY Own DEF TimeInv, AInv
<1>2. \A a \in replies : a.error = "RECEIPT_EXPIRED" =>
         a.decision_id \in 1..Len(calls) /\ Expired(a.decision_id)
  BY <1>0 DEF TimeInv, Served
<1>3. \A d \in 1..Len(calls) : Expired(d) => Expired(d)'
  BY <1>0, ExpiredStable
<1>4. CASE UNCHANGED <<store, txn, pc, req, calls, replies>>
  <2>1. ASSUME NEW t \in Server PROVE req'[t].ts <= clock'
    <3>1. req[t].ts \in Nat /\ req[t].ts <= clock
      BY <1>0 DEF TimeInv, Request
    <3> QED  BY <1>0, <1>4, <3>1
  <2>2. \A t \in Server, d \in Decision :
          Serves(t, d)' /\ req'[t].error = "RECEIPT_EXPIRED" => Expired(d)'
    BY <1>1, <1>3, <1>4 DEF Serves
  <2>3. \A a \in replies' : a.error = "RECEIPT_EXPIRED" => Expired(a.decision_id)'
    BY <1>2, <1>3, <1>4
  <2> QED  BY <2>1, <2>2, <2>3 DEF TimeInv
<1>5. ASSUME NEW s \in Server, Moves(s) PROVE TimeInv'
  <2>1. ASSUME NEW t \in Server PROVE req'[t].ts <= clock'
    <3>1. req[t].ts \in Nat /\ req[t].ts <= clock
      BY <1>0 DEF TimeInv, Request
    <3>2. CASE t = s
      BY <1>0, <1>5, <3>1, <3>2, StampStep, ClockStays
    <3>3. CASE t # s
      BY <1>0, <1>5, <3>1, <3>3, OthersStay
    <3> QED  BY <3>2, <3>3
  <2>2. ASSUME NEW t \in Server, NEW d \in Decision, Serves(t, d)', req'[t].error = "RECEIPT_EXPIRED"
        PROVE  Expired(d)'
    <3>1. CASE t = s
      BY <1>3, <1>5, <2>2, <3>1, ExpiredVerdict
    <3>2. CASE t # s
      BY <1>0, <1>1, <1>3, <1>5, <2>2, <3>2, OthersStay DEF Serves
    <3> QED  BY <3>1, <3>2
  <2>3. ASSUME NEW a \in replies', a.error = "RECEIPT_EXPIRED"
        PROVE  Expired(a.decision_id)'
    <3>1. CASE a \in replies
      BY <1>2, <1>3, <2>3, <3>1
    <3>2. CASE a = AnswerOf(s) /\ pc[s] = "respond"
      <4>1. /\ req[s].decision_id \in 1..Len(calls) /\ req[s].decision_id \in Decision
            /\ Serves(s, req[s].decision_id)
        BY <1>0, <3>2, ControlAssumption DEF Serves, Decision, TypeInv, Typed, Serving
      <4>2. a.decision_id = req[s].decision_id /\ a.error = req[s].error
        BY <3>2 DEF AnswerOf
      <4> QED  BY <1>1, <1>3, <2>3, <4>1, <4>2
    <3> QED  BY <1>0, <1>5, <3>1, <3>2, RepliesStep
  <2> QED  BY <2>1, <2>2, <2>3 DEF TimeInv
<1> QED  BY <1>4, <1>5, StepCases

(* No timestamp is taken and nothing is called expired at first.           *)
LEMMA TimeInit == Init => TimeInv
BY DEF Init, TimeInv, NoReq, Serves

(* TruthfulErrors: where the clock is not set back, the reason given for a *)
(* rejected EXECUTE is the true one and stays so.                          *)
THEOREM TruthfulErrorsHolds == ASSUME ~Backwards PROVE Spec => []TruthfulErrors
<1>1. Init => AInv /\ TimeInv
  BY AInvInit, TimeInit
<1>2. AInv /\ TimeInv /\ [Next]_vars => (AInv /\ TimeInv)'
  BY AInvNext, TimeStep
<1>3. AInv /\ TimeInv => TruthfulErrors
  <2> SUFFICES ASSUME AInv, TimeInv, NEW a \in replies, a.error \in ConsumeError
               PROVE  LET key == KeyOf(a.decision_id)
                          row == receipts[key.receipt_id]
                      IN  /\ Explained(a.decision_id, a.error)
                          /\ a.error = "RECEIPT_EXPIRED" => row.expires_at <= clock
    BY DEF TruthfulErrors, KeyOf, Explained
  <2>1. GoodAnswer(a)
    BY DEF AInv, LogInv, AllAnswers
  <2>2. a.error = "RECEIPT_EXPIRED" => Expired(a.decision_id)
    BY DEF TimeInv
  <2> QED  BY <2>1, <2>2 DEF GoodAnswer, Expired
<1> QED  BY <1>1, <1>2, <1>3, PTL DEF Spec
-----------------------------------------------------------------------------
(* One process: receipts of a plan follow one another.                     *)

(* The rows that exist keep their plan and times, and none becomes active  *)
(* again; a row appears only by Issue.                                     *)
LEMMA RowsStep ==
    ASSUME IInv, [Next]_vars, ~\E s \in Server : Issue(s), NEW r \in Stored(receipts')
    PROVE  /\ r \in Stored(receipts)
           /\ receipts'[r].status = "active" => receipts[r].status = "active"
           /\ receipts'[r].plan_hash = receipts[r].plan_hash
           /\ receipts'[r].issued_at = receipts[r].issued_at
           /\ receipts'[r].expires_at = receipts[r].expires_at
<1>0. receipts \in [Rid -> Row \cup {NoRow}] /\ r \in Rid
  BY DEF IInv, TypeInv, Typed, TypeOK, Stored
<1>1. CASE UNCHANGED receipts
  BY <1>1
<1>2. ASSUME NEW key \in Key, NEW now \in Nat,
             ConsumeVerdict(receipts, replay_index, key, now) = "ok",
             receipts' = [receipts EXCEPT ![key.receipt_id] = ConsumedRow(@, now)]
      PROVE  /\ r \in Stored(receipts)
             /\ receipts'[r].status = "active" => receipts[r].status = "active"
             /\ receipts'[r].plan_hash = receipts[r].plan_hash
             /\ receipts'[r].issued_at = receipts[r].issued_at
             /\ receipts'[r].expires_at = receipts[r].expires_at
  <2>1. CASE r # key.receipt_id
    BY <1>0, <1>2, <2>1 DEF Stored
  <2>2. CASE r = key.receipt_id
    <3>1. receipts[r] \in Row /\ receipts[r] # NoRow
      BY <1>0, <1>2, <2>2, VerdictOk
    <3>2. receipts'[r] = ConsumedRow(receipts[r], now)
      BY <1>0, <1>2, <2>2
    <3> QED  BY <1>0, <3>1, <3>2 DEF Stored, ConsumedRow, Row
  <2> QED  BY <2>1, <2>2
<1>3. UNCHANGED receipts
        \/ \E key \in Key, now \in Nat :
              /\ ConsumeVerdict(receipts, replay_index, key, now) = "ok"
              /\ receipts' = [receipts EXCEPT ![key.receipt_id] = ConsumedRow(@, now)]
  <2>1. \A s \in Server : Moves(s) => Issue(s) \/ UNCHANGED receipts \/ CommitConsume(s)
    BY DEF Moves, Handle, Receive, ReceiveAndFail, LogAssessed, Find, LogIssued,
           LogReused, BeginConsume, CheckReceipt, InsertReplay, MarkConsumed,
           LogConsumed, LogAccepted, LogRejected, Respond, BusyTimeout, IssueConflict,
           StatementFails, Abort, Crash, Restart, store
  <2>2. \/ UNCHANGED receipts
        \/ \E s \in Server : CommitConsume(s)
    BY <2>1, StepCases DEF store
  <2>3. ASSUME NEW s \in Server, CommitConsume(s)
        PROVE  \E key \in Key, now \in Nat :
              /\ ConsumeVerdict(receipts, replay_index, key, now) = "ok"
              /\ receipts' = [receipts EXCEPT ![key.receipt_id] = ConsumedRow(@, now)]
    <3>1. pc[s] = "commit" /\ TypeInv /\ req[s].ts \in Nat
      BY <2>3 DEF CommitConsume, IInv, TypeInv, Typed, TypeOK, Request
    <3>2. /\ pending.consumed = {Confirmed(s).receipt_id}
          /\ ConsumeVerdict(receipts, replay_index, Confirmed(s), req[s].ts) = "ok"
      BY <3>1 DEF IInv, Transaction, Checked
    <3>3. Confirmed(s) \in Key
      BY <3>1, ConfirmedKey DEF Executing, InTxn
    <3>4. receipts' = [receipts EXCEPT ![Confirmed(s).receipt_id] = ConsumedRow(@, req[s].ts)]
      BY <1>0, <2>3, <3>2 DEF CommitConsume
    <3> QED  BY <3>1, <3>2, <3>3, <3>4
  <2> QED  BY <2>2, <2>3
<1> QED  BY <1>1, <1>2, <1>3

(* A receipt is issued only after nothing was found for its plan.          *)
LEMMA FoundNothing ==
    ASSUME TypeInv, Successive, NEW s \in Server, Find(s), pc'[s] = "issue"
    PROVE  req'[s] = req[s] /\ ActiveFor(receipts, req[s].receipt.plan_hash, req[s].ts) = {}
<1> DEFINE p == req[s].receipt.plan_hash
           now == req[s].ts
<1>0. pc \in [Server -> Label] /\ receipts \in [Rid -> Row \cup {NoRow}]
      /\ now \in Nat /\ pc[s] = "find"
  BY DEF TypeInv, Typed, TypeOK, Find, Request
<1>1. UNCHANGED req /\ LatestActive(receipts, p, now) = {}
  BY <1>0 DEF Find, Goto
<1>2. ASSUME NEW r \in ActiveFor(receipts, p, now), NEW q \in ActiveFor(receipts, p, now)
      PROVE  r = q
  <2>1. r \in Stored(receipts) /\ q \in Stored(receipts)
    BY DEF ActiveFor, Stored, NoRow
  <2>2. receipts[r] \in Row /\ receipts[q] \in Row
    BY <1>0, <2>1 DEF Stored
  <2>3. receipts[r].issued_at <= now /\ receipts[q].issued_at <= now
    BY <1>0, <2>1 DEF Successive
  <2>4. ~Follows(r, q) /\ ~Follows(q, r)
    BY <1>0, <2>2, <2>3 DEF ActiveFor, Follows, Row
  <2> QED  BY <2>1, <2>4 DEF Successive, ActiveFor
<1>3. ASSUME NEW r \in ActiveFor(receipts, p, now) PROVE FALSE
  <2>1. receipts[r].issued_at \in Nat
    BY <1>0 DEF ActiveFor, Row, NoRow
  <2>2. r \in LatestActive(receipts, p, now)
    BY <1>2, <2>1 DEF LatestActive
  <2> QED  BY <1>1, <2>2
<1> QED  BY <1>1, <1>3
(* Issuing adds one active row, stamped with the time of its call.         *)
LEMMA IssuedRow ==
    ASSUME TypeInv, NEW s \in Server, Issue(s), NEW r \in Stored(receipts')
    PROVE  IF r \in Stored(receipts) THEN receipts'[r] = receipts[r]
           ELSE /\ receipts'[r].plan_hash = req[s].receipt.plan_hash
                /\ receipts'[r].issued_at = req[s].ts
<1>0. receipts \in [Rid -> Row \cup {NoRow}] /\ r \in Rid
  BY DEF TypeInv, Typed, TypeOK, Stored
<1>1. /\ receipts[req[s].receipt.receipt_id] = NoRow
      /\ receipts' = [receipts EXCEPT ![req[s].receipt.receipt_id] =
                          NewRow(req[s].receipt, req[s].ts)]
  BY DEF Issue
<1>2. CASE r = req[s].receipt.receipt_id
  BY <1>0, <1>1, <1>2 DEF Stored, NewRow
<1>3. CASE r # req[s].receipt.receipt_id
  BY <1>0, <1>1, <1>3 DEF Stored
<1> QED  BY <1>2, <1>3

(* One process keeps the receipts of each plan in succession.              *)
LEMMA SuccessiveStep ==
    ~Backwards /\ OneServer /\ AInv /\ TimeInv /\ Successive /\ [Next]_vars => Successive'
<1> SUFFICES ASSUME ~Backwards, OneServer, AInv, TimeInv, Successive, [Next]_vars
             PROVE  Successive'
  OBVIOUS
<1>0. /\ IInv /\ TypeInv /\ pc \in [Server -> Label] /\ req \in [Server -> Request]
      /\ receipts \in [Rid -> Row \cup {NoRow}] /\ receipts' \in [Rid -> Row \cup {NoRow}]
      /\ clock \in Nat /\ clock' \in Nat /\ clock <= clock'
  BY ClockStep, TypeStep DEF AInv, LogInv, IInv, TypeInv, Typed, TypeOK
<1>1. \A r \in Stored(receipts') : receipts'[r].issued_at \in Nat
  BY <1>0 DEF Stored, Row
<1>2. \A r \in Stored(receipts) : receipts[r].issued_at \in Nat /\ receipts[r].expires_at \in Nat
  BY <1>0 DEF Stored, Row
<1>3. CASE \E s \in Server : Issue(s)
  <2> PICK s \in Server : Issue(s)
    BY <1>3
  <2>1. /\ UNCHANGED <<clock, req>> /\ pc[s] = "issue" /\ pc'[s] = "log_issued"
        /\ req[s].ts \in Nat /\ req[s].ts <= clock
    BY <1>0 DEF Issue, Goto, TimeInv, Request
  <2>2. \A t \in Server : t = s
    BY DEF OneServer
  <2>3. ASSUME NEW r \in Stored(receipts')
        PROVE  receipts'[r].issued_at <= req[s].ts
    BY <1>0, <2>1, <2>3, IssuedRow DEF Successive
  <2>4. ASSUME NEW r \in Stored(receipts'), NEW q \in Stored(receipts'), r # q,
               receipts'[r].status = "active", receipts'[q].status = "active",
               receipts'[r].plan_hash = receipts'[q].plan_hash
        PROVE  Follows(r, q)' \/ Follows(q, r)'
    <3>1. CASE r \in Stored(receipts) /\ q \in Stored(receipts)
      BY <1>0, <2>4, <3>1, IssuedRow DEF Successive, Follows
    <3>2. ASSUME NEW x \in Stored(receipts'), NEW y \in Stored(receipts'),
                 x \notin Stored(receipts), y \in Stored(receipts),
                 receipts'[y].status = "active",
                 receipts'[x].plan_hash = receipts'[y].plan_hash
          PROVE  Follows(x, y)'
      <4>1. /\ receipts'[x].plan_hash = req[s].receipt.plan_hash
            /\ receipts'[x].issued_at = req[s].ts
            /\ receipts'[y] = receipts[y]
        BY <1>0, <3>2, IssuedRow
      <4>2. y \notin ActiveFor(receipts, req[s].receipt.plan_hash, req[s].ts)
        BY <2>1 DEF Successive
      <4>3. ~(receipts[y].expires_at > req[s].ts)
        BY <3>2, <4>1, <4>2 DEF ActiveFor, Stored
      <4> QED  BY <1>2, <2>1, <3>2, <4>1, <4>3 DEF Follows
    <3>3. ASSUME r \notin Stored(receipts), q \notin Stored(receipts) PROVE FALSE
      <4>1. \A x \in Stored(receipts') :
               x \notin Stored(receipts) => x = req[s].receipt.receipt_id
        BY <1>0 DEF Issue, Stored
      <4> QED  BY <2>4, <3>3, <4>1
    <3> QED  BY <2>4, <3>1, <3>2, <3>3
  <2>5. \A t \in Server : pc'[t] # "issue"
    BY <2>1, <2>2
  <2> QED  BY <1>0, <1>1, <2>1, <2>2, <2>3, <2>4, <2>5 DEF Successive
<1>4. CASE ~\E s \in Server : Issue(s)
  <2>1. \A r \in Stored(receipts') :
          /\ r \in Stored(receipts)
          /\ receipts'[r].status = "active" => receipts[r].status = "active"
          /\ receipts'[r].plan_hash = receipts[r].plan_hash
          /\ receipts'[r].issued_at = receipts[r].issued_at
          /\ receipts'[r].expires_at = receipts[r].expires_at
    BY <1>0, <1>4, RowsStep
  <2>2. ASSUME NEW r \in Stored(receipts')
        PROVE  receipts'[r].issued_at <= clock'
    BY <1>0, <1>2, <2>1 DEF Successive
  <2>3. \A r, q \in Stored(receipts') :
          /\ receipts'[r].status = "active" /\ receipts'[q].status = "active"
          /\ receipts'[r].plan_hash = receipts'[q].plan_hash /\ r # q
          => Follows(r, q)' \/ Follows(q, r)'
    BY <2>1 DEF Successive, Follows
  <2>4. ASSUME NEW t \in Server, pc'[t] \notin {"idle", "down"}, NEW r \in Stored(receipts')
        PROVE  receipts'[r].issued_at <= req'[t].ts
    <3>1. CASE UNCHANGED <<store, txn, pc, req, calls, replies>>
      BY <2>1, <2>4, <3>1 DEF Successive
    <3>2. ASSUME NEW s \in Server, Moves(s) PROVE receipts'[r].issued_at <= req'[t].ts
      <4>1. t = s
        BY DEF OneServer
      <4> QED  BY <1>0, <2>1, <2>4, <3>2, <4>1, StampStep DEF Successive
    <3> QED  BY <3>1, <3>2, StepCases
  <2>5. ASSUME NEW t \in Server, pc'[t] = "issue"
        PROVE  ActiveFor(receipts', req'[t].receipt.plan_hash, req'[t].ts) = {}
    <3>1. /\ req'[t] = req[t]
          /\ ActiveFor(receipts, req[t].receipt.plan_hash, req[t].ts) = {}
      <4>1. CASE UNCHANGED <<store, txn, pc, req, calls, replies>>
        BY <2>5, <4>1 DEF Successive
      <4>2. ASSUME NEW s \in Server, Moves(s)
            PROVE  /\ req'[t] = req[t]
                   /\ ActiveFor(receipts, req[t].receipt.plan_hash, req[t].ts) = {}
        <5>1. t = s
          BY DEF OneServer
        <5>2. Find(s)
          BY <1>0, <1>4, <2>5, <4>2, <5>1
             DEF Moves, Handle, Receive, ReceiveAndFail, LogAssessed, LogIssued,
                 LogReused, BeginConsume, CheckReceipt, InsertReplay, MarkConsumed, CommitConsume,
                 LogConsumed, LogAccepted, LogRejected, Respond, BusyTimeout, IssueConflict,
                 StatementFails, Abort, Crash, Restart, Goto
        <5> QED  BY <1>0, <2>5, <5>1, <5>2, FoundNothing
      <4> QED  BY <4>1, <4>2, StepCases
    <3> PICK p, now : p = req[t].receipt.plan_hash /\ now = req[t].ts
      OBVIOUS
    <3>2. ActiveFor(receipts', p, now) \subseteq ActiveFor(receipts, p, now)
      <4>1. \A r \in ActiveFor(receipts', p, now) : r \in Stored(receipts')
        BY DEF ActiveFor, Stored, NoRow
      <4> QED  BY <2>1, <4>1 DEF ActiveFor
    <3> QED  BY <3>1, <3>2
  <2> QED  BY <1>0, <2>2, <2>3, <2>4, <2>5 DEF Successive
<1> QED  BY <1>3, <1>4
(* There are no receipts at first.                                         *)
LEMMA SuccessiveInit == Init => Successive
<1> SUFFICES ASSUME Init PROVE Successive
  OBVIOUS
<1>1. Stored(receipts) = {}
  BY DEF Init, Stored
<1>2. \A s \in Server : pc[s] = "idle"
  BY DEF Init
<1> QED  BY <1>1, <1>2 DEF Successive

(* OneLiveReceiptPerPlan: with one process and a clock that is not set     *)
(* back there is never a second receipt of a plan that can be executed,    *)
(* whatever calls, crashes and failing statements there are.               *)
THEOREM OneLiveReceiptPerPlanHolds ==
    ASSUME ~Backwards, OneServer
    PROVE  Spec => []OneLiveReceiptPerPlan
<1>1. Init => AInv /\ TimeInv /\ Successive
  BY AInvInit, TimeInit, SuccessiveInit
<1>2. AInv /\ TimeInv /\ Successive /\ [Next]_vars => (AInv /\ TimeInv /\ Successive)'
  BY AInvNext, TimeStep, SuccessiveStep
<1>3. AInv /\ Successive => OneLiveReceiptPerPlan
  <2> SUFFICES ASSUME AInv, Successive, NEW p \in Plan
               PROVE  Cardinality(ActiveFor(receipts, p, clock)) <= 1
    BY DEF OneLiveReceiptPerPlan
  <2> DEFINE live == ActiveFor(receipts, p, clock)
  <2>0. receipts \in [Rid -> Row \cup {NoRow}] /\ clock \in Nat
    BY DEF AInv, LogInv, IInv, TypeInv, Typed, TypeOK
  <2>1. ASSUME NEW r \in live, NEW q \in live PROVE r = q
    <3>1. r \in Stored(receipts) /\ q \in Stored(receipts)
      BY DEF ActiveFor, Stored, NoRow
    <3>2. receipts[r] \in Row /\ receipts[q] \in Row
      BY <2>0, <3>1 DEF Stored
    <3>3. ~Follows(r, q) /\ ~Follows(q, r)
      BY <2>0, <3>1, <3>2 DEF ActiveFor, Follows, Row, Successive
    <3> QED  BY <3>1, <3>3 DEF Successive, ActiveFor
  <2>2. live = {} \/ \E r : live = {r}
    BY <2>1
  <2>3. Cardinality(live) \in {0, 1}
    BY <2>2, FS_EmptySet, FS_Singleton
  <2> QED  BY <2>3
<1> QED  BY <1>1, <1>2, <1>3, PTL DEF Spec
=============================================================================
