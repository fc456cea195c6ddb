----------------------- MODULE ExecutionControlProofs -----------------------
(***************************************************************************)
(* Theorems about ExecutionControl, for any number of processes, receipts, *)
(* plans, nonces, calls, faults and ticks.                                 *)
(***************************************************************************)
EXTENDS ExecutionInvariant, TLAPS

(* assess() on a call with signals returns a guardrail of the right shape: *)
(* a receipt to offer has the plan of the signals, and ALLOW with EXECUTE  *)
(* on gated signals echoes the binding the call presented.                 *)
LEMMA AssessShape ==
    ASSUME NEW call \in Call, call.signals # "absent", NEW r \in Rid, NEW n \in Nonce
    PROVE  LET out == Assess(call, r, n) IN
        /\ out.action \in {"ALLOW", "REQUIRE_CONFIRM", "BLOCK"}
        /\ out.receipt \in Key \cup {None}
        /\ out.error \in ConfirmError \cup {None}
BY DEF Assess, Guardrail, Call, Confirm, Key, Binding, IsExecute, BaseAction,
       Signals, ConfirmError

(* An EXECUTE call carries a complete binding (normalizeConfirm turns any  *)
(* other into INVALID_LEGACY_TRUE).                                        *)
LEMMA ExecuteKey ==
    ASSUME NEW call \in Call, IsExecute(call)
    PROVE  call.confirm.key \in Key
BY DEF Call, Confirm, IsExecute

(* A new row and a consumed row are rows: a table that gets one is still a *)
(* table of rows.                                                          *)
LEMMA RowShape ==
    ASSUME NEW key \in Key, NEW now \in Nat
    PROVE  /\ NewRow(key, now) \in Row
           /\ NewRow(key, now) # NoRow
           /\ \A row \in Row : ConsumedRow(row, now) \in Row /\ row # NoRow
<1>1. NoRow.status = "missing"
  BY DEF NoRow
<1>2. \A row \in Row : row # NoRow
  BY <1>1 DEF Row
<1>3. NewRow(key, now) \in Row
  BY ReceiptsAssumption DEF NewRow, Row, Key
<1>4. \A row \in Row : ConsumedRow(row, now) \in Row
  BY DEF ConsumedRow, Row
<1> QED  BY <1>2, <1>3, <1>4

(* A verdict other than ok is one of the errors consumeReceipt returns.    *)
LEMMA VerdictError ==
    ASSUME NEW key, NEW now, ConsumeVerdict(receipts, replay_index, key, now) # "ok"
    PROVE  ConsumeVerdict(receipts, replay_index, key, now) \in ConsumeError
BY DEF ConsumeVerdict, ConsumeError

(* The variables have their types at first, and no handler is at work.     *)
LEMMA TypeInit == Init => TypeInv
<1> SUFFICES ASSUME Init PROVE TypeInv
  OBVIOUS
<1>1. TypeOK
  BY ControlAssumption DEF Init, TypeOK, NoPending, NoReq, Request, Label, Outcomes, Failures
<1>2. Len(calls) <= MaxCalls /\ Serving
  BY ControlAssumption DEF Init, Serving, Offering, Executing, Reading, Writing, InTxn
<1>3. PendingStored
  BY DEF Init, PendingStored, NoPending
<1> QED  BY <1>1, <1>2, <1>3 DEF TypeInv, Typed

(* What a handler on its way through consumeReceipt presents is a binding. *)
LEMMA ConfirmedKey ==
    ASSUME TypeInv, NEW s \in Server, pc[s] \in Executing
    PROVE  Confirmed(s) \in Key
<1>1. CallOf(s) \in Call
  BY DEF TypeInv, Typed, TypeOK, Serving, Executing, InTxn, CallOf
<1> QED  BY <1>1, ExecuteKey DEF Confirmed, TypeInv, Typed, Serving

(* Appending an event to the log of the call in service keeps its type.    *)
LEMMA LogType ==
    ASSUME TypeInv, NEW s \in Server, pc[s] \notin {"idle", "down"},
           NEW type \in Events, NEW verdict \in Verdicts,
           NEW receipt \in Key \cup {None}, Log(s, type, verdict, receipt)
    PROVE  decision_logs' \in [Decision -> Seq(Event)]
<1>1. req[s].decision_id \in Decision
  BY ControlAssumption DEF TypeInv, Typed, TypeOK, Serving, Decision
<1>2. [event_type |-> type, verdict |-> verdict, receipt |-> receipt] \in Event
  BY DEF Event
<1> QED  BY <1>1, <1>2 DEF TypeInv, Typed, TypeOK, Log

(* One handler moves and perhaps changes its local variables: what has to  *)
(* be shown for Serving is only about where it gets.                       *)
LEMMA ServingMove ==
    ASSUME TypeInv, NEW s \in Server, NEW label, NEW local, calls' = calls,
           pc' = [pc EXCEPT ![s] = label],
           req' = [req EXCEPT ![s] = local],
           label \notin {"idle", "down"} => local.decision_id \in 1..Len(calls),
           label \in Executing => IsExecute(calls[local.decision_id]),
           label \in Offering => local.receipt \in Key
    PROVE  Serving'
BY DEF TypeInv, Typed, TypeOK, Serving, CallOf

(* Changing the local variables of one handler to a request keeps the type *)
(* of all of them.                                                         *)
LEMMA RequestMove ==
    ASSUME TypeInv, NEW s \in Server, NEW label \in Label, NEW local \in Request,
           pc' = [pc EXCEPT ![s] = label],
           req' = [req EXCEPT ![s] = local]
    PROVE  pc' \in [Server -> Label] /\ req' \in [Server -> Request]
BY DEF TypeInv, Typed, TypeOK

(* A new call enters the history and its handler; the others keep theirs.  *)
LEMMA ServingReceive ==
    ASSUME TypeInv, NEW s \in Server, NEW label, NEW local, NEW call \in Call,
           Len(calls) < MaxCalls,
           calls' = Append(calls, call),
           pc' = [pc EXCEPT ![s] = label],
           req' = [req EXCEPT ![s] = local],
           label \notin Executing \cup Offering,
           local.decision_id = Len(calls) + 1
    PROVE  /\ calls' \in Seq(Call)
           /\ Len(calls') <= MaxCalls
           /\ Serving'
<1>1. calls \in Seq(Call) /\ Len(calls) \in Nat
  BY DEF TypeInv, Typed, TypeOK
<1>2. /\ calls' \in Seq(Call)
      /\ Len(calls') = Len(calls) + 1
      /\ \A d \in 1..Len(calls) : calls'[d] = calls[d]
  BY <1>1
<1>3. Len(calls') <= MaxCalls
  BY <1>1, <1>2, ControlAssumption
<1>4. ASSUME NEW t \in Server
      PROVE  /\ pc'[t] \notin {"idle", "down"} => req'[t].decision_id \in 1..Len(calls')
             /\ pc'[t] \in Executing => IsExecute(CallOf(t)')
             /\ pc'[t] \in Offering => req'[t].receipt \in Key
  <2>1. CASE t = s
    BY <1>1, <1>2, <2>1 DEF TypeInv, Typed, TypeOK
  <2>2. CASE t # s
    BY <1>1, <1>2, <2>2 DEF TypeInv, Typed, TypeOK, Serving, Executing, InTxn, CallOf, IsExecute
  <2> QED  BY <2>1, <2>2
<1> QED  BY <1>2, <1>3, <1>4 DEF Serving, CallOf

(* A call that ends in PERSISTENCE_FAILURE leaves every variable typed and *)
(* its handler on the way to the answer.                                   *)
LEMMA AbortType ==
    ASSUME TypeInv, NEW s \in Server, pc[s] \notin {"idle", "down"}, Abort(s), faults' \in Nat
    PROVE  Typed'
<1> DEFINE local == [req[s] EXCEPT !.outcome = "PERSISTENCE_FAILURE",
                                   !.error = None, !.receipt = None]
<1>1. local \in Request
  BY DEF TypeInv, Typed, TypeOK, Request, Outcomes, Failures
<1>2. /\ req' = [req EXCEPT ![s] = local]
      /\ pc' = [pc EXCEPT ![s] = "respond"]
      /\ calls' = calls
  BY DEF Abort, Goto
<1>3. local.decision_id \in 1..Len(calls)
  BY DEF TypeInv, Typed, TypeOK, Request, Serving
<1>4. pc' \in [Server -> Label] /\ req' \in [Server -> Request]
  BY <1>1, <1>2, RequestMove DEF Label
<1>5. writer' \in Server \cup {None} /\ pending' \in [keys : SUBSET Key, consumed : SUBSET Rid]
  BY DEF Abort, Rollback, NoPending, TypeInv, Typed, TypeOK, txn
<1>6. TypeOK'
  BY <1>4, <1>5 DEF Abort, store, TypeInv, Typed, TypeOK
<1>7. Serving'
  BY <1>2, <1>3, ServingMove DEF Executing, Offering, InTxn
<1> QED  BY <1>6, <1>7, <1>2 DEF TypeInv, Typed

(* Every step keeps the types, and every handler at work keeps its call.   *)
LEMMA TypeStep == TypeInv /\ [Next]_vars => Typed'
<1> SUFFICES ASSUME TypeInv, [Next]_vars PROVE Typed'
  OBVIOUS
<1> USE DEF TypeInv, Typed
<1>1. ASSUME NEW s \in Server, Receive(s) PROVE Typed'
  <2>1. PICK call \in ClientCalls, r \in Rid, n \in Nonce :
          /\ call.signals # "absent"
          /\ req' = [req EXCEPT ![s] =
                [decision_id |-> Len(calls) + 1, ts |-> clock,
                 outcome |-> Assess(call, r, n).action, error |-> Assess(call, r, n).error,
                 receipt |-> Assess(call, r, n).receipt]]
          /\ calls' = Append(calls, call)
    BY <1>1 DEF Receive
  <2>2. call \in Call
    BY ControlAssumption
  <2> DEFINE local == [decision_id |-> Len(calls) + 1, ts |-> clock,
                       outcome |-> Assess(call, r, n).action, error |-> Assess(call, r, n).error,
                       receipt |-> Assess(call, r, n).receipt]
  <2>3. Len(calls) \in Nat /\ Len(calls) < MaxCalls /\ pc' = [pc EXCEPT ![s] = "log_assessed"]
    BY <1>1 DEF Receive, Goto, TypeOK
  <2>4. local \in Request
    <3>1. Len(calls) + 1 \in Decision
      BY <2>3, ControlAssumption DEF Decision
    <3> QED  BY <2>1, <2>2, <3>1, AssessShape DEF TypeOK, Request, Outcomes
  <2>5. pc' \in [Server -> Label] /\ req' \in [Server -> Request]
    BY <2>1, <2>3, <2>4, RequestMove DEF Label, Writing
  <2>6. calls' \in Seq(Call) /\ Len(calls') <= MaxCalls /\ Serving'
    BY <2>1, <2>2, <2>3, ServingReceive DEF Executing, Offering, InTxn
  <2>7. TypeOK'
    BY <1>1, <2>5, <2>6 DEF Receive, TypeOK, store, txn
  <2> QED  BY <2>6, <2>7
<1>2. ASSUME NEW s \in Server, ReceiveAndFail(s) PROVE Typed'
  <2>1. PICK call \in ClientCalls :
          /\ calls' = Append(calls, call)
          /\ req' = [req EXCEPT ![s] =
                [decision_id |-> Len(calls) + 1, ts |-> clock, error |-> None, receipt |-> None,
                 outcome |-> IF call.signals = "absent" THEN "INVALID_INPUT"
                                                        ELSE "INTERNAL_ERROR"]]
          /\ IF call.signals = "absent" THEN UNCHANGED faults ELSE Fault
    BY <1>2 DEF ReceiveAndFail
  <2>2. call \in Call
    BY ControlAssumption
  <2> DEFINE local == [decision_id |-> Len(calls) + 1, ts |-> clock, error |-> None,
                       receipt |-> None,
                       outcome |-> IF call.signals = "absent" THEN "INVALID_INPUT"
                                                              ELSE "INTERNAL_ERROR"]
  <2>3. Len(calls) \in Nat /\ Len(calls) < MaxCalls /\ pc' = [pc EXCEPT ![s] = "respond"]
    BY <1>2 DEF ReceiveAndFail, Goto, TypeOK
  <2>4. local \in Request
    <3>1. Len(calls) + 1 \in Decision
      BY <2>3, ControlAssumption DEF Decision
    <3> QED  BY <3>1 DEF TypeOK, Request, Outcomes, Failures
  <2>5. pc' \in [Server -> Label] /\ req' \in [Server -> Request]
    BY <2>1, <2>3, <2>4, RequestMove DEF Label
  <2>6. calls' \in Seq(Call) /\ Len(calls') <= MaxCalls /\ Serving'
    BY <2>1, <2>2, <2>3, ServingReceive DEF Executing, Offering, InTxn
  <2>7. TypeOK'
    BY <1>2, <2>1, <2>5, <2>6 DEF ReceiveAndFail, Fault, TypeOK, store, txn
  <2> QED  BY <2>6, <2>7
<1>3. ASSUME NEW s \in Server, LogAssessed(s) PROVE Typed'
  <2>1. TypeOK'
    BY <1>3, LogType DEF LogAssessed, Events, Verdicts, AssessedVerdict, Request, TypeOK, Label, Reading, Writing, Goto, txn
  <2>2. PICK label \in {"find", "begin", "respond"} :
          /\ pc' = [pc EXCEPT ![s] = label]
          /\ label = "find" => req[s].outcome = "REQUIRE_CONFIRM" /\ req[s].receipt # None
          /\ label = "begin" => IsExecute(CallOf(s))
    BY <1>3 DEF LogAssessed, Goto
  <2>3. req' = [req EXCEPT ![s] = req[s]] /\ calls' = calls
    BY <1>3 DEF LogAssessed, TypeOK
  <2>4. req[s].decision_id \in 1..Len(calls)
    BY <1>3 DEF LogAssessed, Serving
  <2>5. label = "find" => req[s].receipt \in Key
    BY <2>2 DEF TypeOK, Request
  <2>6. Serving'
    BY <2>2, <2>3, <2>4, <2>5, ServingMove DEF Executing, Offering, InTxn, CallOf
  <2> QED  BY <2>1, <2>3, <2>6
<1>4. ASSUME NEW s \in Server, Find(s) PROVE Typed'
  <2>1. PICK label \in {"issue", "log_reused"}, receipt \in Key :
          /\ pc' = [pc EXCEPT ![s] = label]
          /\ req' = [req EXCEPT ![s] = [@ EXCEPT !.receipt = receipt]]
    <3>1. req[s].receipt \in Key
      BY <1>4 DEF Find, Serving, Offering
    <3>2. CASE pc' = [pc EXCEPT ![s] = "issue"] /\ UNCHANGED req
      <4>1. req[s] = [req[s] EXCEPT !.receipt = req[s].receipt]
        BY DEF TypeOK, Request
      <4>2. req' = [req EXCEPT ![s] = [@ EXCEPT !.receipt = req[s].receipt]]
        BY <3>2, <4>1 DEF TypeOK
      <4> QED  BY <3>1, <3>2, <4>2
    <3>3. ASSUME NEW r \in LatestActive(receipts, req[s].receipt.plan_hash, req[s].ts),
                 req' = [req EXCEPT ![s] = [@ EXCEPT !.receipt = BindingOf(receipts, r)]],
                 pc' = [pc EXCEPT ![s] = "log_reused"]
          PROVE  \E receipt \in Key :
                    /\ pc' = [pc EXCEPT ![s] = "log_reused"]
                    /\ req' = [req EXCEPT ![s] = [@ EXCEPT !.receipt = receipt]]
      <4>1. r \in Rid /\ receipts[r].status = "active"
        BY DEF LatestActive, ActiveFor
      <4>2. receipts[r] \in Row
        BY <4>1 DEF TypeOK, NoRow
      <4>3. BindingOf(receipts, r) \in Key
        BY <4>1, <4>2 DEF BindingOf, Binding, Key, Row
      <4> QED  BY <3>3, <4>3
    <3> QED  BY <1>4, <3>2, <3>3 DEF Find, Goto
  <2> DEFINE local == [req[s] EXCEPT !.receipt = receipt]
  <2>2. local \in Request /\ local.receipt \in Key /\ local.decision_id \in 1..Len(calls)
    <3>1. req[s] \in Request /\ req[s].decision_id \in 1..Len(calls)
      BY <1>4 DEF Find, TypeOK, Serving
    <3> QED  BY <3>1 DEF Request
  <2>3. req' = [req EXCEPT ![s] = local] /\ calls' = calls
    BY <1>4, <2>1 DEF Find
  <2>4. pc' \in [Server -> Label] /\ req' \in [Server -> Request]
    BY <2>1, <2>2, <2>3, RequestMove DEF Label, Writing
  <2>5. TypeOK'
    BY <1>4, <2>3, <2>4 DEF Find, TypeOK, store, txn
  <2>6. Serving'
    BY <2>1, <2>2, <2>3, ServingMove DEF Executing, Offering, InTxn
  <2> QED  BY <2>3, <2>5, <2>6
<1>5. ASSUME NEW s \in Server, Issue(s) PROVE Typed'
  <2>1. TypeOK'
    BY <1>5, RowShape
       DEF Issue, TypeOK, Label, Reading, Writing, InTxn, Key, Serving,
           Offering, Request, Goto, store, txn
  <2>2. Len(calls') <= MaxCalls /\ Serving'
    BY <1>5
       DEF Issue, TypeOK, Label, Reading, Writing, InTxn, Goto, store, txn,
           Serving, Offering, Executing, CallOf
  <2> QED  BY <2>1, <2>2
<1>6. ASSUME NEW s \in Server, LogIssued(s) PROVE Typed'
  <2>1. TypeOK'
    BY <1>6, LogType
       DEF LogIssued, TypeOK, Label, Reading, Writing, InTxn, Events,
           Verdicts, Serving, Offering, Goto, store, txn
  <2>2. Len(calls') <= MaxCalls /\ Serving'
    BY <1>6
       DEF LogIssued, TypeOK, Label, Reading, Writing, InTxn, Goto, store,
           txn, Serving, Offering, Executing, CallOf
  <2> QED  BY <2>1, <2>2
<1>7. ASSUME NEW s \in Server, LogReused(s) PROVE Typed'
  <2>1. TypeOK'
    BY <1>7, LogType
       DEF LogReused, TypeOK, Label, Reading, Writing, InTxn, Events,
           Verdicts, Serving, Offering, Goto, store, txn
  <2>2. Len(calls') <= MaxCalls /\ Serving'
    BY <1>7
       DEF LogReused, TypeOK, Label, Reading, Writing, InTxn, Goto, store,
           txn, Serving, Offering, Executing, CallOf
  <2> QED  BY <2>1, <2>2
<1>8. ASSUME NEW s \in Server, BeginConsume(s) PROVE Typed'
  <2>1. TypeOK'
    BY <1>8
       DEF BeginConsume, TypeOK, Label, Reading, Writing, InTxn, Goto,
           store, txn
  <2>2. Len(calls') <= MaxCalls /\ Serving'
    BY <1>8
       DEF BeginConsume, TypeOK, Label, Reading, Writing, InTxn, Goto,
           store, txn, Serving, Offering, Executing, CallOf
  <2> QED  BY <2>1, <2>2
<1>9. ASSUME NEW s \in Server, CheckReceipt(s) PROVE Typed'
  <2> DEFINE verdict == ConsumeVerdict(receipts, replay_index, Confirmed(s), req[s].ts)
             local   == [req[s] EXCEPT !.error = verdict]
  <2>1. /\ req[s].decision_id \in 1..Len(calls)
        /\ IsExecute(calls[req[s].decision_id])
        /\ req[s] \in Request
    BY <1>9 DEF CheckReceipt, Serving, Executing, InTxn, CallOf, TypeOK
  <2>2. CASE verdict = "ok"
    <3>1. /\ pc' = [pc EXCEPT ![s] = "insert_replay"] /\ calls' = calls
          /\ req' = req /\ writer' = writer
      BY <1>9, <2>2 DEF CheckReceipt, Goto
    <3>2. req' = [req EXCEPT ![s] = req[s]]
      BY <3>1 DEF TypeOK
    <3>3. TypeOK'
      BY <1>9, <3>1 DEF CheckReceipt, TypeOK, Label, InTxn, store
    <3>4. Serving'
      BY <2>1, <3>1, <3>2, ServingMove DEF Executing, Offering, InTxn
    <3> QED  BY <3>1, <3>3, <3>4
  <2>3. CASE verdict # "ok"
    <3>1. /\ pc' = [pc EXCEPT ![s] = "log_rejected"] /\ calls' = calls
          /\ req' = [req EXCEPT ![s] = local] /\ writer' = None
      BY <1>9, <2>3 DEF CheckReceipt, Goto
    <3>2. verdict \in ConsumeError
      BY <2>3, VerdictError
    <3>3. local \in Request /\ local.decision_id = req[s].decision_id
      BY <2>1, <3>2 DEF Request, ConfirmError
    <3>4. pc' \in [Server -> Label] /\ req' \in [Server -> Request]
      BY <3>1, <3>3, RequestMove DEF Label, Writing
    <3>5. TypeOK'
      BY <1>9, <3>1, <3>4 DEF CheckReceipt, TypeOK, store
    <3>6. Serving'
      BY <2>1, <3>1, <3>3, ServingMove DEF Executing, Offering, InTxn
    <3> QED  BY <3>1, <3>5, <3>6
  <2> QED  BY <2>2, <2>3
<1>10. ASSUME NEW s \in Server, InsertReplay(s) PROVE Typed'
  <2>1. TypeOK'
    BY <1>10, ConfirmedKey
       DEF InsertReplay, TypeOK, Label, Reading, Writing, InTxn, Executing,
           Goto, store, txn
  <2>2. Len(calls') <= MaxCalls /\ Serving'
    BY <1>10
       DEF InsertReplay, TypeOK, Label, Reading, Writing, InTxn, Goto,
           store, txn, Serving, Offering, Executing, CallOf
  <2> QED  BY <2>1, <2>2
<1>11. ASSUME NEW s \in Server, MarkConsumed(s) PROVE Typed'
  <2> DEFINE local == [req[s] EXCEPT !.error = "RECEIPT_CONSUMED"]
  <2>1. /\ req[s].decision_id \in 1..Len(calls)
        /\ IsExecute(calls[req[s].decision_id])
        /\ req[s] \in Request
    BY <1>11 DEF MarkConsumed, Serving, Executing, InTxn, CallOf, TypeOK
  <2>2. CASE Usable(receipts[Confirmed(s).receipt_id], req[s].ts)
    <3>1. /\ pc' = [pc EXCEPT ![s] = "commit"] /\ calls' = calls /\ req' = req
          /\ writer' = writer
          /\ pending' = [pending EXCEPT !.consumed = @ \cup {Confirmed(s).receipt_id}]
      BY <1>11, <2>2 DEF MarkConsumed, Goto
    <3>2. req' = [req EXCEPT ![s] = req[s]]
      BY <3>1 DEF TypeOK
    <3>3. Confirmed(s).receipt_id \in Rid
      BY <1>11, ConfirmedKey DEF MarkConsumed, Executing, InTxn, Key
    <3>4. TypeOK'
      BY <1>11, <3>1, <3>3 DEF MarkConsumed, TypeOK, Label, InTxn, store
    <3>5. Serving'
      BY <2>1, <3>1, <3>2, ServingMove DEF Executing, Offering, InTxn
    <3> QED  BY <3>1, <3>4, <3>5
  <2>3. CASE ~Usable(receipts[Confirmed(s).receipt_id], req[s].ts)
    <3>1. /\ pc' = [pc EXCEPT ![s] = "log_rejected"] /\ calls' = calls
          /\ req' = [req EXCEPT ![s] = local] /\ writer' = None /\ pending' = NoPending
      BY <1>11, <2>3 DEF MarkConsumed, Goto
    <3>2. local \in Request /\ local.decision_id = req[s].decision_id
      BY <2>1 DEF Request, ConfirmError, ConsumeError
    <3>3. pc' \in [Server -> Label] /\ req' \in [Server -> Request]
      BY <3>1, <3>2, RequestMove DEF Label, Writing
    <3>4. TypeOK'
      BY <1>11, <3>1, <3>3 DEF MarkConsumed, TypeOK, store, NoPending
    <3>5. Serving'
      BY <2>1, <3>1, <3>2, ServingMove DEF Executing, Offering, InTxn
    <3> QED  BY <3>1, <3>4, <3>5
  <2> QED  BY <2>2, <2>3
<1>12. ASSUME NEW s \in Server, CommitConsume(s) PROVE Typed'
  <2>1. receipts' \in [Rid -> Row \cup {NoRow}]
    <3>1. ASSUME NEW r \in pending.consumed
          PROVE  ConsumedRow(receipts[r], req[s].ts) \in Row
      <4>1. receipts[r] \in Row
        BY <3>1 DEF TypeOK, PendingStored
      <4> QED  BY <1>12, <4>1 DEF TypeOK, Request, ConsumedRow, Row
    <3> QED  BY <1>12, <3>1 DEF CommitConsume, TypeOK
  <2>2. TypeOK'
    BY <1>12, <2>1 DEF CommitConsume, Goto, TypeOK, Label, Writing, InTxn, NoPending
  <2>3. Len(calls') <= MaxCalls /\ Serving'
    BY <1>12 DEF CommitConsume, Goto, TypeOK, Serving, Offering, Executing, InTxn, CallOf
  <2> QED  BY <2>2, <2>3
<1>13. ASSUME NEW s \in Server, LogConsumed(s) PROVE Typed'
  <2>1. TypeOK'
    BY <1>13, LogType, ConfirmedKey
       DEF LogConsumed, TypeOK, Label, Reading, Writing, InTxn, Events,
           Verdicts, Executing, Goto, store, txn
  <2>2. Len(calls') <= MaxCalls /\ Serving'
    BY <1>13
       DEF LogConsumed, TypeOK, Label, Reading, Writing, InTxn, Goto, store,
           txn, Serving, Offering, Executing, CallOf
  <2> QED  BY <2>1, <2>2
<1>14. ASSUME NEW s \in Server, LogAccepted(s) PROVE Typed'
  <2>1. TypeOK'
    BY <1>14, LogType, ConfirmedKey
       DEF LogAccepted, TypeOK, Label, Reading, Writing, InTxn, Events,
           Verdicts, Executing, Goto, store, txn
  <2>2. Len(calls') <= MaxCalls /\ Serving'
    BY <1>14
       DEF LogAccepted, TypeOK, Label, Reading, Writing, InTxn, Goto, store,
           txn, Serving, Offering, Executing, CallOf
  <2> QED  BY <2>1, <2>2
<1>15. ASSUME NEW s \in Server, LogRejected(s) PROVE Typed'
  <2>1. /\ req[s].decision_id \in 1..Len(calls)
        /\ req[s] \in Request
        /\ CallOf(s) \in Call
        /\ Confirmed(s) \in Key
    BY <1>15, ConfirmedKey DEF LogRejected, Serving, Executing, CallOf, TypeOK
  <2>2. decision_logs' \in [Decision -> Seq(Event)]
    BY <1>15, <2>1, LogType DEF LogRejected, Events, Verdicts
  <2>3. PICK label \in {"respond", "find"}, local \in Request :
          /\ pc' = [pc EXCEPT ![s] = label]
          /\ req' = [req EXCEPT ![s] = local]
          /\ local.decision_id = req[s].decision_id
          /\ label = "find" => local.receipt \in Key
          /\ faults' \in Nat
    <3> DEFINE again == [CallOf(s) EXCEPT !.confirm = [mode |-> "NONE"]]
               failed == [req[s] EXCEPT !.outcome = "INTERNAL_ERROR",
                                        !.error = None, !.receipt = None]
    <3>1. again \in Call
      BY <2>1 DEF Call, Confirm
    <3>2. PICK r \in Rid, n \in Nonce :
            \/ /\ req' = [req EXCEPT ![s] = [@ EXCEPT !.outcome = "REQUIRE_CONFIRM",
                                                 !.receipt = Assess(again, r, n).receipt]]
               /\ Goto(s, IF Assess(again, r, n).receipt = None THEN "respond" ELSE "find")
               /\ UNCHANGED faults
            \/ /\ req' = [req EXCEPT ![s] = [@ EXCEPT !.outcome = "INTERNAL_ERROR",
                                                      !.error = None, !.receipt = None]]
               /\ Goto(s, "respond")
               /\ Fault
      BY <1>15 DEF LogRejected
    <3> DEFINE offer == [req[s] EXCEPT !.outcome = "REQUIRE_CONFIRM",
                                       !.receipt = Assess(again, r, n).receipt]
    <3>3. Assess(again, r, n).receipt \in Key \cup {None}
      BY <3>1 DEF Assess, Guardrail, Call, Confirm, Key, Binding, IsExecute, BaseAction
    <3>4. /\ offer \in Request /\ failed \in Request
          /\ offer.decision_id = req[s].decision_id
          /\ failed.decision_id = req[s].decision_id
          /\ offer.receipt = Assess(again, r, n).receipt
      BY <2>1, <3>3 DEF Request, Outcomes, Failures
    <3>5. faults' \in Nat
      BY <3>2 DEF Fault, TypeOK
    <3> HIDE DEF offer, failed, again
    <3>6. \/ /\ req' = [req EXCEPT ![s] = offer]
             /\ pc' = [pc EXCEPT ![s] = IF offer.receipt = None THEN "respond" ELSE "find"]
          \/ /\ req' = [req EXCEPT ![s] = failed] /\ pc' = [pc EXCEPT ![s] = "respond"]
      BY <3>2, <3>4 DEF Goto, offer, failed
    <3>7. offer.receipt # None => offer.receipt \in Key
      BY <3>3, <3>4
    <3> QED  BY <3>4, <3>5, <3>6, <3>7
  <2>4. pc' \in [Server -> Label] /\ req' \in [Server -> Request]
    BY <2>3, RequestMove DEF Label, Reading
  <2>5. TypeOK'
    BY <1>15, <2>2, <2>3, <2>4 DEF LogRejected, TypeOK, txn
  <2>6. Serving' /\ calls' = calls
    BY <1>15, <2>1, <2>3, ServingMove DEF LogRejected, Executing, Offering, InTxn
  <2> QED  BY <2>5, <2>6
<1>16. ASSUME NEW s \in Server, Respond(s) PROVE Typed'
  <2>1. req[s] \in Request /\ req[s].decision_id \in Decision
    <3>1. req[s] \in Request /\ req[s].decision_id \in 1..Len(calls) /\ Len(calls) \in Nat
      BY <1>16 DEF Respond, TypeOK, Serving
    <3> QED  BY <3>1, ControlAssumption DEF Decision
  <2>2. [decision_id |-> req[s].decision_id, outcome |-> req[s].outcome,
         error |-> req[s].error, receipt |-> req[s].receipt] \in Reply
    BY <2>1 DEF Request, Reply
  <2>3. NoReq \in Request
    BY DEF NoReq, Request, Outcomes
  <2>4. TypeOK'
    BY <1>16, <2>2, <2>3 DEF Respond, Goto, TypeOK, Label, store, txn
  <2>5. Len(calls') <= MaxCalls /\ Serving'
    BY <1>16 DEF Respond, Goto, TypeOK, Serving, Offering, Executing, InTxn, Reading, Writing, CallOf
  <2> QED  BY <2>4, <2>5
<1>17. ASSUME NEW s \in Server, BusyTimeout(s) PROVE Typed'
  BY <1>17, AbortType DEF BusyTimeout, Writing, TypeOK
<1>18. ASSUME NEW s \in Server, IssueConflict(s) PROVE Typed'
  BY <1>18, AbortType DEF IssueConflict, TypeOK
<1>19. ASSUME NEW s \in Server, StatementFails(s) PROVE Typed'
  BY <1>19, AbortType DEF StatementFails, Reading, Writing, InTxn, Fault, TypeOK
<1>20. ASSUME NEW s \in Server, Crash(s) PROVE Typed'
  <2>1. TypeOK'
    BY <1>20
       DEF Crash, Rollback, TypeOK, Label, Reading, Writing, InTxn, Request,
           NoPending, NoReq, Outcomes, Fault, Goto, store, txn
  <2>2. Len(calls') <= MaxCalls /\ Serving'
    BY <1>20
       DEF Crash, Rollback, TypeOK, Label, Reading, Writing, InTxn, Goto,
           store, txn, Serving, Offering, Executing, CallOf
  <2> QED  BY <2>1, <2>2
<1>21. ASSUME NEW s \in Server, Restart(s) PROVE Typed'
  <2>1. TypeOK'
    BY <1>21
       DEF Restart, TypeOK, Label, Reading, Writing, InTxn, Goto, store, txn
  <2>2. Len(calls') <= MaxCalls /\ Serving'
    BY <1>21
       DEF Restart, TypeOK, Label, Reading, Writing, InTxn, Goto, store,
           txn, Serving, Offering, Executing, CallOf
  <2> QED  BY <2>1, <2>2
<1>30. ASSUME Tick PROVE Typed'
  BY <1>30 DEF Tick, TypeOK, Serving, store, txn, CallOf
<1>32. ASSUME SetBack PROVE Typed'
  BY <1>32 DEF SetBack, Fault, TypeOK, Serving, store, txn, CallOf
<1>31. ASSUME UNCHANGED vars PROVE Typed'
  BY <1>31 DEF vars, TypeOK, Serving, CallOf
<1> QED
  BY <1>1, <1>2, <1>3, <1>4, <1>5, <1>6, <1>7, <1>8, <1>9, <1>10, <1>11, <1>12,
     <1>13, <1>14, <1>15, <1>16, <1>17, <1>18, <1>19, <1>20, <1>21, <1>30, <1>31, <1>32
     DEF Next, Handle, Exhausted

(* No step removes a row, and only a row that exists is marked.            *)
LEMMA PendingStep == TypeInv /\ [Next]_vars => PendingStored'
<1> SUFFICES ASSUME TypeInv, [Next]_vars PROVE PendingStored'
  OBVIOUS
<1> USE DEF TypeInv, PendingStored
<1>1. CASE UNCHANGED <<receipts, pending>>
  BY <1>1
<1>2. ASSUME NEW s \in Server, Issue(s) PROVE PendingStored'
  <2>1. req[s].receipt \in Key /\ req[s].ts \in Nat
    BY <1>2 DEF Issue, Typed, TypeOK, Request, Serving, Offering
  <2>2. NewRow(req[s].receipt, req[s].ts) # NoRow
    BY <2>1, RowShape
  <2> QED  BY <1>2, <2>2 DEF Issue, txn, Typed, TypeOK
<1>3. ASSUME NEW s \in Server, InsertReplay(s) PROVE PendingStored'
  BY <1>3 DEF InsertReplay, store, Typed, TypeOK
<1>4. ASSUME NEW s \in Server, MarkConsumed(s) PROVE PendingStored'
  <2>1. NoRow.status # "active"
    BY DEF NoRow
  <2> QED  BY <1>4, <2>1 DEF MarkConsumed, Usable, NoPending, store, Typed, TypeOK
<1>5. ASSUME NEW s \in Server, CommitConsume(s) PROVE PendingStored'
  BY <1>5 DEF CommitConsume, NoPending
<1>6. ASSUME NEW s \in Server, Rollback(s), UNCHANGED receipts PROVE PendingStored'
  BY <1>6 DEF Rollback, NoPending, txn
<1>7. ASSUME NEW s \in Server,
             Receive(s) \/ ReceiveAndFail(s) \/ LogAssessed(s) \/ Find(s) \/ LogIssued(s)
               \/ LogReused(s) \/ BeginConsume(s) \/ CheckReceipt(s) \/ LogConsumed(s)
               \/ LogAccepted(s) \/ LogRejected(s) \/ Respond(s) \/ Restart(s)
      PROVE  UNCHANGED <<receipts, pending>>
  BY <1>7 DEF Receive, ReceiveAndFail, LogAssessed, Find, LogIssued, LogReused, BeginConsume,
              CheckReceipt, LogConsumed, LogAccepted, LogRejected, Respond, Restart, store, txn
<1>8. ASSUME NEW s \in Server,
             BusyTimeout(s) \/ IssueConflict(s) \/ StatementFails(s) \/ Crash(s)
      PROVE  Rollback(s) /\ UNCHANGED receipts
  BY <1>8 DEF BusyTimeout, IssueConflict, StatementFails, Crash, Abort, store
<1>9. Tick \/ SetBack \/ UNCHANGED vars => UNCHANGED <<receipts, pending>>
  BY DEF Tick, SetBack, vars, store, txn
<1> QED
  BY <1>1, <1>2, <1>3, <1>4, <1>5, <1>6, <1>7, <1>8, <1>9 DEF Next, Handle, Exhausted

(* Type correctness, with what keeps it: every variable has its type, and  *)
(* every handler at work has a call, and a binding where it needs one.     *)
THEOREM TypeCorrect == Spec => []TypeOK
<1>1. Init => TypeInv
  BY TypeInit
<1>2. TypeInv /\ [Next]_vars => TypeInv'
  BY TypeStep, PendingStep DEF TypeInv
<1>3. TypeInv => TypeOK
  BY DEF TypeInv, Typed
<1> QED  BY <1>1, <1>2, <1>3, PTL DEF Spec

-----------------------------------------------------------------------------
(* The lock, the transaction and the tables.                               *)

(* Calls already received stay what they were.                             *)
LEMMA CallsStable ==
    TypeInv /\ [Next]_vars => \A d \in 1..Len(calls) : calls'[d] = calls[d]
<1> SUFFICES ASSUME TypeInv, [Next]_vars PROVE \A d \in 1..Len(calls) : calls'[d] = calls[d]
  OBVIOUS
<1>1. CASE UNCHANGED calls
  BY <1>1
<1>2. ASSUME NEW call \in ClientCalls, calls' = Append(calls, call)
      PROVE  \A d \in 1..Len(calls) : calls'[d] = calls[d]
  BY <1>2, ControlAssumption DEF TypeInv, Typed, TypeOK
<1>3. ASSUME NEW s \in Server, Receive(s) \/ ReceiveAndFail(s)
      PROVE  \E call \in ClientCalls : calls' = Append(calls, call)
  BY <1>3 DEF Receive, ReceiveAndFail
<1>4. ASSUME NEW s \in Server,
             Handle(s) \/ StatementFails(s) \/ Crash(s) \/ Restart(s)
               \/ Tick \/ SetBack \/ UNCHANGED vars
      PROVE  UNCHANGED calls
  BY <1>4 DEF Handle, LogAssessed, Find, Issue, LogIssued, LogReused, BeginConsume,
              CheckReceipt, InsertReplay, MarkConsumed, CommitConsume, LogConsumed,
              LogAccepted, LogRejected, Respond, BusyTimeout, IssueConflict,
              StatementFails, Abort, Crash, Restart, Tick, SetBack, vars
<1>5. UNCHANGED vars \/ Tick \/ SetBack => UNCHANGED calls
  BY DEF vars, Tick, SetBack
<1> QED  BY <1>1, <1>2, <1>3, <1>4, <1>5 DEF Next, Exhausted

(* A handler that stays on its way through consumeReceipt keeps the        *)
(* binding it presents and its timestamp.                                  *)
LEMMA ConfirmedStable ==
    ASSUME TypeInv, [Next]_vars, NEW t \in Server, pc[t] \in Executing, pc'[t] \in Executing
    PROVE  Confirmed(t)' = Confirmed(t) /\ req'[t].ts = req[t].ts
<1>1. req[t].decision_id \in 1..Len(calls) /\ req[t] \in Request
  BY DEF TypeInv, Typed, TypeOK, Serving, Executing, InTxn
<1>2. req'[t].decision_id = req[t].decision_id /\ req'[t].ts = req[t].ts
  <2>1. CASE req'[t] = req[t]
    BY <2>1
  <2>2. ASSUME NEW s \in Server, s # t, NEW local, req' = [req EXCEPT ![s] = local]
        PROVE  req'[t] = req[t]
    BY <2>2 DEF TypeInv, Typed, TypeOK
  <2>3. ASSUME NEW s \in Server,
               Receive(s) \/ ReceiveAndFail(s) \/ Respond(s) \/ Crash(s)
        PROVE  s # t /\ \E local : req' = [req EXCEPT ![s] = local]
    BY <2>3 DEF Receive, ReceiveAndFail, Respond, Crash, Goto, Executing, InTxn,
                TypeInv, Typed, TypeOK
  <2>4. ASSUME NEW s \in Server, Find(s)
        PROVE  req' = req \/ (s # t /\ \E local : req' = [req EXCEPT ![s] = local])
    BY <2>4 DEF Find, Executing, InTxn
  <2>5. ASSUME NEW s \in Server, CheckReceipt(s) \/ MarkConsumed(s)
        PROVE  req' = req \/ \E e : req' = [req EXCEPT ![s] = [@ EXCEPT !.error = e]]
    BY <2>5 DEF CheckReceipt, MarkConsumed
  <2>6. ASSUME NEW s \in Server, LogRejected(s)
        PROVE  s # t /\ \E local : req' = [req EXCEPT ![s] = local]
    <3>1. pc'[s] \in {"respond", "find"}
      BY <2>6 DEF LogRejected, Goto, TypeInv, Typed, TypeOK
    <3> QED  BY <2>6, <3>1 DEF LogRejected, Executing, InTxn
  <2>7. ASSUME NEW s \in Server, BusyTimeout(s) \/ IssueConflict(s) \/ StatementFails(s)
        PROVE  s # t /\ \E local : req' = [req EXCEPT ![s] = local]
    <3>1. Abort(s)
      BY <2>7 DEF BusyTimeout, IssueConflict, StatementFails
    <3>2. pc'[s] = "respond"
      BY <3>1 DEF Abort, Goto, TypeInv, Typed, TypeOK
    <3> QED  BY <3>1, <3>2 DEF Abort, Executing, InTxn
  <2>8. ASSUME NEW s \in Server,
               LogAssessed(s) \/ Issue(s) \/ LogIssued(s) \/ LogReused(s) \/ BeginConsume(s)
                 \/ InsertReplay(s) \/ CommitConsume(s) \/ LogConsumed(s) \/ LogAccepted(s)
                 \/ Restart(s)
        PROVE  req' = req
    BY <2>8 DEF LogAssessed, Issue, LogIssued, LogReused, BeginConsume, InsertReplay,
                CommitConsume, LogConsumed, LogAccepted, Restart
  <2>9. Tick \/ SetBack \/ UNCHANGED vars => req' = req
    BY DEF Tick, SetBack, vars
  <2>10. ASSUME NEW s \in Server, NEW e, req' = [req EXCEPT ![s] = [@ EXCEPT !.error = e]]
         PROVE  req'[t].decision_id = req[t].decision_id /\ req'[t].ts = req[t].ts
    BY <1>1, <2>10 DEF TypeInv, Typed, TypeOK, Request
  <2> QED
    BY <2>1, <2>2, <2>3, <2>4, <2>5, <2>6, <2>7, <2>8, <2>9, <2>10
       DEF Next, Handle, Exhausted
<1> QED  BY <1>1, <1>2, CallsStable DEF Confirmed, CallOf

(* The steps that leave lock and transaction alone are taken outside it.   *)
Outside(s) ==
    \/ Receive(s) \/ ReceiveAndFail(s) \/ LogAssessed(s) \/ Find(s) \/ Issue(s)
    \/ LogIssued(s) \/ LogReused(s) \/ LogConsumed(s) \/ LogAccepted(s)
    \/ LogRejected(s) \/ Respond(s) \/ Restart(s)

(* A step of a handler outside the transaction leaves the lock and the     *)
(* pending writes alone, and stays outside.                                *)
LEMMA OutsideStep ==
    ASSUME TypeInv, NEW s \in Server, Outside(s)
    PROVE  /\ UNCHANGED txn
           /\ pc[s] \notin InTxn /\ pc'[s] \notin InTxn
           /\ \A t \in Server : t # s => pc'[t] = pc[t]
BY DEF Outside, Receive, ReceiveAndFail, LogAssessed, Find, Issue, LogIssued, LogReused,
       LogConsumed, LogAccepted, LogRejected, Respond, Restart, Goto, InTxn,
       TypeInv, Typed, TypeOK

(* Whatever interrupts a handler gives the lock back if the handler had it.*)
Interrupted(s) == BusyTimeout(s) \/ IssueConflict(s) \/ StatementFails(s) \/ Crash(s)

(* An interrupted handler leaves the transaction if it was in it, with the *)
(* lock free and nothing pending, and the tables as they were.             *)
LEMMA InterruptedStep ==
    ASSUME TypeInv, NEW s \in Server, Interrupted(s)
    PROVE  /\ Rollback(s) /\ UNCHANGED store
           /\ pc'[s] \notin InTxn
           /\ \A t \in Server : t # s => pc'[t] = pc[t]
BY DEF Interrupted, BusyTimeout, IssueConflict, StatementFails, Crash, Abort, Goto, InTxn,
       TypeInv, Typed, TypeOK

(* Every step is one of these: the cases of the proofs below.              *)
LEMMA NextCases ==
    ASSUME Next
    PROVE  \/ \E s \in Server :
                \/ Outside(s) \/ Interrupted(s) \/ BeginConsume(s) \/ CheckReceipt(s)
                \/ InsertReplay(s) \/ MarkConsumed(s) \/ CommitConsume(s)
           \/ Tick \/ SetBack \/ UNCHANGED vars
BY DEF Next, Handle, Outside, Interrupted, Exhausted

(* The lock is held exactly by the process inside the transaction.         *)
LEMMA LockStep == TypeInv /\ LockOwner /\ [Next]_vars => LockOwner'
<1> SUFFICES ASSUME TypeInv, LockOwner, [Next]_vars PROVE LockOwner'
  OBVIOUS
<1>0. pc \in [Server -> Label] /\ writer \in Server \cup {None} /\ None \notin Server
  BY ControlAssumption DEF TypeInv, Typed, TypeOK
<1>1. ASSUME NEW s \in Server, Outside(s) PROVE LockOwner'
  BY <1>1, OutsideStep DEF LockOwner, txn
<1>2. ASSUME NEW s \in Server, Interrupted(s) PROVE LockOwner'
  BY <1>0, <1>2, InterruptedStep DEF LockOwner, Rollback, txn
<1>3. ASSUME NEW s \in Server, BeginConsume(s) PROVE LockOwner'
  BY <1>0, <1>3 DEF BeginConsume, Goto, LockOwner, InTxn
<1>4. ASSUME NEW s \in Server, CheckReceipt(s) PROVE LockOwner'
  BY <1>0, <1>4 DEF CheckReceipt, Goto, LockOwner, InTxn
<1>5. ASSUME NEW s \in Server, InsertReplay(s) PROVE LockOwner'
  BY <1>0, <1>5 DEF InsertReplay, Goto, LockOwner, InTxn
<1>6. ASSUME NEW s \in Server, MarkConsumed(s) PROVE LockOwner'
  BY <1>0, <1>6 DEF MarkConsumed, Goto, LockOwner, InTxn
<1>7. ASSUME NEW s \in Server, CommitConsume(s) PROVE LockOwner'
  BY <1>0, <1>7 DEF CommitConsume, Goto, LockOwner, InTxn
<1>8. Tick \/ SetBack \/ UNCHANGED vars => LockOwner'
  BY DEF Tick, SetBack, vars, txn, LockOwner
<1> QED  BY <1>1, <1>2, <1>3, <1>4, <1>5, <1>6, <1>7, <1>8, NextCases

(* A process inside the transaction is alone in it, and while it is there  *)
(* nobody else writes to the tables: of the other processes' steps, only   *)
(* Issue touches a table of receipts and it needs the lock free.           *)
LEMMA Alone ==
    ASSUME TypeInv, LockOwner, NEW s \in Server, NEW t \in Server,
           pc[t] \in InTxn, writer = None \/ (pc[s] \in InTxn /\ s # t)
    PROVE  FALSE
BY ControlAssumption DEF LockOwner

(* Nothing of the open transaction changes in a step that leaves it, the   *)
(* tables and the processes in it alone.                                   *)
LEMMA TransactionUntouched ==
    ASSUME IInv, [Next]_vars, UNCHANGED <<receipts, replay_index, txn>>,
           \A t \in Server : pc'[t] \in InTxn => pc'[t] = pc[t]
    PROVE  Transaction'
<1>1. ASSUME NEW t \in Server, pc'[t] \in InTxn
      PROVE  /\ pc[t] = pc'[t]
             /\ Confirmed(t)' = Confirmed(t)
             /\ req'[t].ts = req[t].ts
  BY <1>1, ConfirmedStable DEF IInv, Executing
<1>2. \A t \in Server : pc'[t] \in Checked \cup {"check"} => pc'[t] \in InTxn
  BY DEF Checked, InTxn
<1> QED  BY <1>1, <1>2 DEF IInv, Transaction, Checked, txn

(* The open transaction holds what its statements wrote, and the test it   *)
(* passed stays passed until it ends.                                      *)
LEMMA TransactionStep == IInv /\ [Next]_vars => Transaction'
<1> SUFFICES ASSUME IInv, [Next]_vars PROVE Transaction'
  OBVIOUS
<1>0. /\ TypeInv /\ LockOwner
      /\ pc \in [Server -> Label] /\ writer \in Server \cup {None} /\ None \notin Server
  BY ControlAssumption DEF IInv, TypeInv, Typed, TypeOK
<1>1. ASSUME NEW s \in Server, Outside(s) PROVE Transaction'
  <2>1. /\ UNCHANGED txn
        /\ \A t \in Server : pc'[t] \in InTxn => pc'[t] = pc[t]
    BY <1>0, <1>1, OutsideStep
  <2>2. CASE UNCHANGED <<receipts, replay_index>>
    BY <2>1, <2>2, TransactionUntouched
  <2>3. CASE Issue(s)
    <3>1. writer = None /\ pending = NoPending
      BY <2>3 DEF Issue, IInv, Transaction
    <3>2. \A t \in Server : pc'[t] \notin InTxn
      BY <1>0, <2>1, <3>1 DEF LockOwner
    <3> QED  BY <2>1, <3>1, <3>2 DEF Transaction, Checked, InTxn, txn
  <2>4. Issue(s) \/ UNCHANGED <<receipts, replay_index>>
    BY <1>1 DEF Outside, Receive, ReceiveAndFail, LogAssessed, Find, LogIssued, LogReused,
                LogConsumed, LogAccepted, LogRejected, Respond, Restart, store
  <2> QED  BY <2>2, <2>3, <2>4
<1>2. ASSUME NEW s \in Server, Interrupted(s) PROVE Transaction'
  <2>1. /\ Rollback(s) /\ UNCHANGED store
        /\ \A t \in Server : pc'[t] \in InTxn => t # s /\ pc'[t] = pc[t]
    BY <1>0, <1>2, InterruptedStep
  <2>2. CASE writer = s
    <3>1. writer' = None /\ pending' = NoPending
      BY <2>1, <2>2 DEF Rollback
    <3>2. \A t \in Server : pc'[t] \notin InTxn
      BY <1>0, <2>1, <2>2 DEF LockOwner
    <3> QED  BY <3>1, <3>2 DEF Transaction, Checked, InTxn
  <2>3. CASE writer # s
    BY <2>1, <2>3, TransactionUntouched DEF Rollback, store
  <2> QED  BY <2>2, <2>3
<1>3. ASSUME NEW s \in Server, BeginConsume(s) PROVE Transaction'
  <2>1. pending' = NoPending /\ writer' = s /\ pc'[s] = "check"
    BY <1>0, <1>3 DEF BeginConsume, Goto, IInv, Transaction
  <2>2. \A t \in Server : t # s => pc'[t] \notin InTxn
    BY <1>0, <1>3 DEF BeginConsume, Goto, LockOwner
  <2> QED  BY <1>0, <2>1, <2>2 DEF Transaction, Checked, InTxn
<1>4. ASSUME NEW s \in Server, pc[s] \in InTxn
      PROVE  /\ writer = s
             /\ \A t \in Server : t # s => pc[t] \notin InTxn
  BY <1>0, <1>4 DEF LockOwner
<1>5. ASSUME NEW s \in Server, CheckReceipt(s) PROVE Transaction'
  <2>1. /\ pc[s] = "check" /\ pending = NoPending /\ pending' = pending
        /\ UNCHANGED <<receipts, replay_index>>
        /\ \A t \in Server : t # s => pc'[t] \notin InTxn
    BY <1>0, <1>4, <1>5 DEF CheckReceipt, Goto, InTxn, IInv, Transaction, store
  <2>2. CASE ConsumeVerdict(receipts, replay_index, Confirmed(s), req[s].ts) = "ok"
    <3>1. pc'[s] = "insert_replay" /\ writer' = writer
      BY <1>0, <1>5, <2>2 DEF CheckReceipt, Goto
    <3>2. Confirmed(s)' = Confirmed(s) /\ req'[s].ts = req[s].ts
      BY <1>0, <2>1, <3>1, ConfirmedStable DEF Executing, InTxn
    <3> QED  BY <2>1, <2>2, <3>1, <3>2 DEF Transaction, Checked, InTxn
  <2>3. CASE ConsumeVerdict(receipts, replay_index, Confirmed(s), req[s].ts) # "ok"
    <3>1. pc'[s] = "log_rejected"
      BY <1>0, <1>5, <2>3 DEF CheckReceipt, Goto
    <3> QED  BY <2>1, <3>1 DEF Transaction, Checked, InTxn
  <2> QED  BY <2>2, <2>3
<1>6. ASSUME NEW s \in Server, InsertReplay(s) PROVE Transaction'
  <2>1. /\ pc[s] = "insert_replay" /\ pc'[s] = "mark_consumed"
        /\ pending = NoPending /\ pending' = [pending EXCEPT !.keys = {Confirmed(s)}]
        /\ writer' = s
        /\ UNCHANGED <<receipts, replay_index>>
        /\ \A t \in Server : t # s => pc'[t] \notin InTxn
    BY <1>0, <1>4, <1>6 DEF InsertReplay, Goto, InTxn, IInv, Transaction, store, NoPending
  <2>2. Confirmed(s)' = Confirmed(s) /\ req'[s].ts = req[s].ts
    BY <1>0, <2>1, ConfirmedStable DEF Executing, InTxn
  <2>3. ConsumeVerdict(receipts, replay_index, Confirmed(s), req[s].ts) = "ok"
    BY <2>1 DEF IInv, Transaction, Checked
  <2> QED  BY <1>0, <2>1, <2>2, <2>3 DEF Transaction, Checked, InTxn, NoPending
<1>7. ASSUME NEW s \in Server, MarkConsumed(s) PROVE Transaction'
  <2>1. /\ pc[s] = "mark_consumed"
        /\ pending = [keys |-> {Confirmed(s)}, consumed |-> {}]
        /\ UNCHANGED <<receipts, replay_index>>
        /\ \A t \in Server : t # s => pc'[t] \notin InTxn
    BY <1>0, <1>4, <1>7 DEF MarkConsumed, Goto, InTxn, IInv, Transaction, store
  <2>2. CASE Usable(receipts[Confirmed(s).receipt_id], req[s].ts)
    <3>1. /\ pc'[s] = "commit" /\ writer' = s
          /\ pending' = [keys |-> {Confirmed(s)}, consumed |-> {Confirmed(s).receipt_id}]
      BY <1>0, <1>4, <1>7, <2>1, <2>2 DEF MarkConsumed, Goto, InTxn
    <3>2. Confirmed(s)' = Confirmed(s) /\ req'[s].ts = req[s].ts
      BY <1>0, <2>1, <3>1, ConfirmedStable DEF Executing, InTxn
    <3>3. ConsumeVerdict(receipts, replay_index, Confirmed(s), req[s].ts) = "ok"
      BY <2>1 DEF IInv, Transaction, Checked
    <3> QED  BY <1>0, <2>1, <3>1, <3>2, <3>3 DEF Transaction, Checked, InTxn
  <2>3. CASE ~Usable(receipts[Confirmed(s).receipt_id], req[s].ts)
    <3>1. pc'[s] = "log_rejected" /\ pending' = NoPending
      BY <1>0, <1>7, <2>3 DEF MarkConsumed, Goto
    <3> QED  BY <2>1, <3>1 DEF Transaction, Checked, InTxn
  <2> QED  BY <2>2, <2>3
<1>8. ASSUME NEW s \in Server, CommitConsume(s) PROVE Transaction'
  <2>1. pending' = NoPending /\ pc'[s] = "log_consumed"
    BY <1>0, <1>8 DEF CommitConsume, Goto
  <2>2. \A t \in Server : t # s => pc'[t] \notin InTxn
    BY <1>0, <1>4, <1>8 DEF CommitConsume, Goto, InTxn
  <2> QED  BY <2>1, <2>2 DEF Transaction, Checked, InTxn
<1>9. CASE Tick \/ SetBack \/ UNCHANGED vars
  <2>1. UNCHANGED <<receipts, replay_index, txn, pc>>
    BY <1>9 DEF Tick, SetBack, vars, store, txn
  <2> QED  BY <2>1, TransactionUntouched
<1> QED  BY <1>1, <1>2, <1>3, <1>5, <1>6, <1>7, <1>8, <1>9, NextCases

(* A verdict "ok" is the whole test: the row is active and in time, it has *)
(* the plan and the nonce presented, and the key was never used.           *)
LEMMA VerdictOk ==
    ASSUME NEW key, NEW now, ConsumeVerdict(receipts, replay_index, key, now) = "ok"
    PROVE  /\ receipts[key.receipt_id] # NoRow
           /\ receipts[key.receipt_id].status = "active"
           /\ receipts[key.receipt_id].plan_hash = key.plan_hash
           /\ receipts[key.receipt_id].nonce = key.nonce
           /\ key \notin replay_index
BY DEF ConsumeVerdict

(* The steps that write the tables: a receipt is issued under a free id,   *)
(* and a commit consumes the one receipt the process presented.            *)
LEMMA TableStep ==
    ASSUME IInv, [Next]_vars
    PROVE  \/ UNCHANGED <<receipts, replay_index>>
           \/ \E key \in Key, now \in Nat :
                /\ receipts[key.receipt_id] = NoRow
                /\ receipts' = [receipts EXCEPT ![key.receipt_id] = NewRow(key, now)]
                /\ UNCHANGED replay_index
           \/ \E key \in Key, now \in Nat :
                /\ ConsumeVerdict(receipts, replay_index, key, now) = "ok"
                /\ receipts' = [receipts EXCEPT ![key.receipt_id] = ConsumedRow(@, now)]
                /\ replay_index' = replay_index \cup {key}
<1>0. TypeInv /\ receipts \in [Rid -> Row \cup {NoRow}] /\ req \in [Server -> Request]
  BY DEF IInv, TypeInv, Typed, TypeOK
<1>1. ASSUME NEW s \in Server, Outside(s) PROVE Issue(s) \/ UNCHANGED <<receipts, replay_index>>
  BY <1>1 DEF Outside, Receive, ReceiveAndFail, LogAssessed, Find, LogIssued, LogReused,
              LogConsumed, LogAccepted, LogRejected, Respond, Restart, store
<1>2. ASSUME NEW s \in Server,
             Interrupted(s) \/ BeginConsume(s) \/ CheckReceipt(s) \/ InsertReplay(s)
               \/ MarkConsumed(s)
      PROVE  UNCHANGED <<receipts, replay_index>>
  BY <1>0, <1>2, InterruptedStep
     DEF BeginConsume, CheckReceipt, InsertReplay, MarkConsumed, store
<1>3. Tick \/ SetBack \/ UNCHANGED vars => UNCHANGED <<receipts, replay_index>>
  BY DEF Tick, SetBack, vars, store
<1>4. ASSUME NEW s \in Server, Issue(s)
      PROVE  /\ req[s].receipt \in Key /\ req[s].ts \in Nat
             /\ receipts[req[s].receipt.receipt_id] = NoRow
             /\ receipts' = [receipts EXCEPT ![req[s].receipt.receipt_id] =
                                NewRow(req[s].receipt, req[s].ts)]
             /\ UNCHANGED replay_index
  BY <1>0, <1>4 DEF Issue, TypeInv, Typed, Serving, Offering, Request
<1>5. ASSUME NEW s \in Server, CommitConsume(s)
      PROVE  /\ Confirmed(s) \in Key /\ req[s].ts \in Nat
             /\ ConsumeVerdict(receipts, replay_index, Confirmed(s), req[s].ts) = "ok"
             /\ receipts' = [receipts EXCEPT ![Confirmed(s).receipt_id] = ConsumedRow(@, req[s].ts)]
             /\ replay_index' = replay_index \cup {Confirmed(s)}
  <2>1. pc[s] = "commit"
    BY <1>5 DEF CommitConsume
  <2>2. /\ pending.keys = {Confirmed(s)} /\ pending.consumed = {Confirmed(s).receipt_id}
        /\ ConsumeVerdict(receipts, replay_index, Confirmed(s), req[s].ts) = "ok"
    BY <2>1 DEF IInv, Transaction, Checked
  <2>3. Confirmed(s) \in Key
    BY <1>0, <2>1, ConfirmedKey DEF Executing, InTxn
  <2> QED  BY <1>0, <1>5, <2>2, <2>3 DEF CommitConsume, Request
<1> QED  BY <1>1, <1>2, <1>3, <1>4, <1>5, NextCases

(* The replay index and the consumed receipts change together.             *)
LEMMA StoreStep == IInv /\ [Next]_vars => StoreAtomic'
<1> SUFFICES ASSUME IInv, [Next]_vars PROVE StoreAtomic'
  OBVIOUS
<1>0. /\ receipts \in [Rid -> Row \cup {NoRow}] /\ replay_index \subseteq Key /\ StoreAtomic
  BY DEF IInv, TypeInv, Typed, TypeOK
<1>1. CASE UNCHANGED <<receipts, replay_index>>
  BY <1>0, <1>1 DEF StoreAtomic, BindingOf
<1>2. ASSUME NEW key \in Key, NEW now \in Nat,
             receipts[key.receipt_id] = NoRow,
             receipts' = [receipts EXCEPT ![key.receipt_id] = NewRow(key, now)],
             UNCHANGED replay_index
      PROVE  StoreAtomic'
  <2>1. receipts'[key.receipt_id].status = "active" /\ receipts[key.receipt_id].status = "missing"
    BY <1>0, <1>2 DEF NewRow, NoRow, Key
  <2>2. \A r \in Rid : r # key.receipt_id => receipts'[r] = receipts[r]
    BY <1>0, <1>2
  <2> QED  BY <1>0, <1>2, <2>1, <2>2 DEF StoreAtomic, BindingOf
<1>3. ASSUME NEW key \in Key, NEW now \in Nat,
             ConsumeVerdict(receipts, replay_index, key, now) = "ok",
             receipts' = [receipts EXCEPT ![key.receipt_id] = ConsumedRow(@, now)],
             replay_index' = replay_index \cup {key}
      PROVE  StoreAtomic'
  <2> DEFINE row == receipts[key.receipt_id]
  <2>1. /\ key.receipt_id \in Rid /\ row \in Row /\ row.status = "active"
        /\ row.plan_hash = key.plan_hash /\ row.nonce = key.nonce
    BY <1>0, <1>3, VerdictOk DEF Key
  <2>2. receipts'[key.receipt_id] = ConsumedRow(row, now)
    BY <1>0, <1>3, <2>1
  <2>3. /\ ConsumedRow(row, now).status = "consumed"
        /\ ConsumedRow(row, now).plan_hash = key.plan_hash
        /\ ConsumedRow(row, now).nonce = key.nonce
    BY <2>1 DEF ConsumedRow, Row
  <2>4. BindingOf(receipts', key.receipt_id) = key
    BY <2>2, <2>3 DEF BindingOf, Binding, Key
  <2>5. {k \in replay_index : k.receipt_id = key.receipt_id} = {}
    BY <1>0, <2>1 DEF StoreAtomic
  <2>6. \A r \in Rid : r # key.receipt_id =>
            /\ receipts'[r] = receipts[r]
            /\ {k \in replay_index' : k.receipt_id = r} = {k \in replay_index : k.receipt_id = r}
    BY <1>0, <1>3
  <2>7. {k \in replay_index' : k.receipt_id = key.receipt_id} = {key}
    BY <1>3, <2>5
  <2> QED  BY <1>0, <2>2, <2>3, <2>4, <2>6, <2>7 DEF StoreAtomic, BindingOf
<1> QED  BY <1>1, <1>2, <1>3, TableStep

(* The invariant is inductive.                                             *)
LEMMA IInvInit == Init => IInv
<1> SUFFICES ASSUME Init PROVE IInv
  OBVIOUS
<1>1. LockOwner
  BY ControlAssumption DEF Init, LockOwner, InTxn
<1>2. Transaction
  BY DEF Init, Transaction, Checked
<1>3. StoreAtomic
  BY DEF Init, StoreAtomic, NoRow
<1> QED  BY <1>1, <1>2, <1>3, TypeInit DEF IInv

(* Every step keeps the invariant.                                         *)
LEMMA IInvNext == IInv /\ [Next]_vars => IInv'
BY TypeStep, PendingStep, LockStep, TransactionStep, StoreStep DEF IInv, TypeInv

(* StoreAtomic: a receipt is consumed exactly when its own key is in the   *)
(* replay index, for any number of processes and whatever fails.           *)
THEOREM StoreAtomicHolds == Spec => []StoreAtomic
<1>1. IInv => StoreAtomic
  BY DEF IInv
<1> QED  BY <1>1, IInvInit, IInvNext, PTL DEF Spec

(* Lifecycle: a receipt goes from missing to active to consumed, and its   *)
(* plan, nonce and times never change.                                     *)
THEOREM LifecycleHolds == Spec => Lifecycle
<1>1. IInv /\ [Next]_vars => LifecycleStep
  <2> SUFFICES ASSUME IInv, [Next]_vars, NEW r \in Rid, receipts'[r] # receipts[r]
               PROVE  \/ receipts[r] = NoRow /\ receipts'[r].status = "active"
                      \/ /\ receipts[r].status = "active" /\ receipts'[r].status = "consumed"
                         /\ receipts'[r] = ConsumedRow(receipts[r], receipts'[r].consumed_at)
    BY DEF LifecycleStep
  <2>0. receipts \in [Rid -> Row \cup {NoRow}]
    BY DEF IInv, TypeInv, Typed, TypeOK
  <2>1. ASSUME NEW key \in Key, NEW now \in Nat, receipts[key.receipt_id] = NoRow,
               receipts' = [receipts EXCEPT ![key.receipt_id] = NewRow(key, now)]
        PROVE  receipts[r] = NoRow /\ receipts'[r].status = "active"
    BY <2>0, <2>1 DEF NewRow
  <2>2. ASSUME NEW key \in Key, NEW now \in Nat,
               ConsumeVerdict(receipts, replay_index, key, now) = "ok",
               receipts' = [receipts EXCEPT ![key.receipt_id] = ConsumedRow(@, now)]
        PROVE  /\ receipts[r].status = "active" /\ receipts'[r].status = "consumed"
               /\ receipts'[r] = ConsumedRow(receipts[r], receipts'[r].consumed_at)
    <3>1. r = key.receipt_id /\ receipts[r] \in Row /\ receipts[r].status = "active"
      BY <2>0, <2>2, VerdictOk
    <3>2. receipts'[r] = ConsumedRow(receipts[r], now)
      BY <2>0, <2>2, <3>1
    <3>3. ConsumedRow(receipts[r], now).status = "consumed"
          /\ ConsumedRow(receipts[r], now).consumed_at = now
      BY <3>1 DEF ConsumedRow, Row
    <3> QED  BY <3>1, <3>2, <3>3
  <2> QED  BY <2>1, <2>2, TableStep
<1> QED  BY <1>1, IInvInit, IInvNext, PTL DEF Spec, Lifecycle
=============================================================================
