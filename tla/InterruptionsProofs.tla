------------------------- MODULE InterruptionsProofs -------------------------
(***************************************************************************)
(* Theorems about Interruptions: what the lines of telemetry are evidence  *)
(* of.                                                                     *)
(***************************************************************************)
EXTENDS Interruptions, ExecutionAnswersProofs

(* A call that is over: nobody serves it, so its log has its final form.   *)
Over(d) == d \in 1..Len(calls) /\ \A s \in Server : ~Serves(s, d)

(* A confirmed line belongs to a call that is over, presented the receipt  *)
(* the line names, consumed it and was accepted.                           *)
Confirmation(line) ==
    LET d == line.decision_id IN
    /\ Over(d) /\ IsExecute(calls[d])
    /\ line = Interruption(d, "REQUIRE_CONFIRM", "confirmed", KeyOf(d).receipt_id)
    /\ Spent(KeyOf(d))
    /\ Trail(d) = <<"decision.assessed", "receipt.consumed", "execute.accepted">>

Confirmations == \A line \in telemetry : line.user_action = "confirmed" => Confirmation(line)

(* A call that is over stays so, with the log it has.                      *)
LEMMA OverStable ==
    ASSUME AInv, [Next]_vars, NEW d, Over(d)
    PROVE  Over(d)' /\ Trail(d)' = Trail(d) /\ calls'[d] = calls[d]
<1>0. /\ TypeInv /\ Grows /\ Len(calls) \in Nat /\ Len(calls') \in Nat
      /\ d \in Decision /\ d \in 1..Len(calls) /\ d \in 1..Len(calls')
      /\ calls'[d] = calls[d]
  <2>1. TypeInv /\ Typed' /\ Grows
    BY Growth, TypeStep DEF AInv, LogInv, IInv
  <2>2. calls \in Seq(Call) /\ calls' \in Seq(Call) /\ Len(calls) <= MaxCalls
    BY <2>1 DEF TypeInv, Typed, TypeOK
  <2> QED  BY <2>1, <2>2, ControlAssumption DEF Over, Grows, Decision
<1>1. CASE UNCHANGED <<store, txn, pc, req, calls, replies>>
  BY <1>0, <1>1 DEF Over, Serves, Trail, store
<1>2. ASSUME NEW s \in Server, Moves(s)
      PROVE  Over(d)' /\ Trail(d)' = Trail(d)
  <2>1. ~Serves(s, d)
    BY DEF Over
  <2>2. Trail(d)' = Trail(d)
    BY <1>0, <1>2, <2>1, OtherLogs, TrailSame
  <2>3. ~Serves(s, d)'
    BY <1>0, <1>2, <2>1, ServesStep
  <2>4. \A t \in Server : t # s => ~Serves(t, d)'
    BY <1>0, <1>2, OthersStay DEF Over, Serves
  <2> QED  BY <1>0, <2>2, <2>3, <2>4 DEF Over
<1> QED  BY <1>0, <1>1, <1>2, StepCases

(* What a confirmed line is evidence of remains true.                      *)
LEMMA ConfirmationStable ==
    ASSUME AInv, [Next]_vars, NEW line, Confirmation(line)
    PROVE  Confirmation(line)'
<1>1. PICK d : d = line.decision_id
  OBVIOUS
<1>2. Over(d)' /\ Trail(d)' = Trail(d) /\ calls'[d] = calls[d]
  BY <1>1, OverStable DEF Confirmation
<1>3. KeyOf(d)' = KeyOf(d)
  BY <1>2 DEF KeyOf
<1>4. Spent(KeyOf(d))'
  BY <1>1, <1>3, Growth, HoldsStable DEF Confirmation, AInv, LogInv
<1> QED  BY <1>1, <1>2, <1>3, <1>4 DEF Confirmation, IsExecute, Interruption

(* A handler that ends its call leaves it with the log it had: it answers  *)
(* or its process dies.                                                    *)
LEMMA EndingStep ==
    ASSUME AInv, [Next]_vars, NEW s \in Ending, NEW d, d = req[s].decision_id
    PROVE  /\ Respond(s) \/ Crash(s)
           /\ d \in 1..Len(calls) /\ d \in Decision
           /\ Serves(s, d)
           /\ Over(d)' /\ UNCHANGED <<store, calls>>
<1>0. /\ TypeInv /\ Served /\ s \in Server /\ pc[s] \notin {"idle", "down"}
      /\ pc'[s] \in {"idle", "down"} /\ pc \in [Server -> Label]
  BY DEF Ending, AInv, LogInv, IInv, TypeInv, Typed, TypeOK
<1>1. /\ d \in 1..Len(calls) /\ d \in Decision /\ Serves(s, d)
  BY <1>0, ControlAssumption DEF Serves, Decision, TypeInv, Typed, Serving
<1>2. PICK t \in Server : Moves(t)
  BY <1>0, StepCases
<1>3. t = s
  BY <1>0, <1>2, OthersStay
<1>4. Respond(s) \/ Crash(s)
  BY <1>0, <1>2, <1>3
     DEF Moves, Handle, Receive, ReceiveAndFail, LogAssessed, Find, Issue, LogIssued,
         LogReused, BeginConsume, CheckReceipt, InsertReplay, MarkConsumed, CommitConsume,
         LogConsumed, LogAccepted, LogRejected, BusyTimeout, IssueConflict,
         StatementFails, Abort, Restart, Goto
<1>5. UNCHANGED <<store, calls>>
  BY <1>4 DEF Respond, Crash, store
<1>6. \A u \in Server : ~Serves(u, d)'
  <2>1. \A u \in Server : u # s => ~Serves(u, d)'
    BY <1>0, <1>1, <1>2, <1>3, OthersStay DEF Served, Serves
  <2> QED  BY <1>0, <2>1 DEF Serves
<1> QED  BY <1>1, <1>4, <1>5, <1>6 DEF Over

(* Lines are appended for calls that are confirmed only at an answer that  *)
(* accepts the execution.                                                  *)
LEMMA ConfirmedLine ==
    ASSUME AInv, [Next]_vars, NEW s \in Ending, NEW line \in Due(s),
           line.user_action = "confirmed"
    PROVE  Confirmation(line)'
<1> PICK d : d = req[s].decision_id
  OBVIOUS
<1>1. /\ d \in 1..Len(calls) /\ Serves(s, d) /\ Over(d)' /\ UNCHANGED <<store, calls>>
      /\ s \in Server
  BY EndingStep DEF Ending
<1>2. CallOf(s) = calls[d] /\ Confirmed(s) = KeyOf(d)
  BY DEF CallOf, Confirmed, KeyOf
<1>3. /\ Confirms(s)
      /\ line = Interruption(d, "REQUIRE_CONFIRM", "confirmed", KeyOf(d).receipt_id)
  BY <1>2 DEF Due, Lines, Interruption
<1>4. pc[s] = "respond" /\ req[s].outcome = "ALLOW" /\ IsExecute(calls[d])
  BY <1>2, <1>3 DEF Confirms, Answers
<1>5. GoodAnswer(AnswerOf(s)) /\ Accepted(AnswerOf(s)) /\ AnswerOf(s).decision_id = d
  BY <1>1, <1>4 DEF AInv, LogInv, AllAnswers, AnswerOf, Accepted
<1>6. /\ Spent(KeyOf(d))
      /\ Trail(d) = <<"decision.assessed", "receipt.consumed", "execute.accepted">>
  BY <1>5 DEF GoodAnswer, Evident
<1>7. /\ KeyOf(d)' = KeyOf(d) /\ IsExecute(calls'[d]) /\ Trail(d)' = Trail(d)
      /\ Spent(KeyOf(d))'
  BY <1>1, <1>4, <1>6, Growth, HoldsStable DEF KeyOf, Trail, store, AInv, LogInv
<1>8. line.decision_id = d
  BY <1>3 DEF Interruption
<1> QED  BY <1>1, <1>3, <1>6, <1>7, <1>8 DEF Confirmation, IsExecute, Interruption

(* Only lines of calls that end get into the file, and none gets out.      *)
LEMMA TelemetryStep ==
    ASSUME [TelemetryNext]_telemetryVars
    PROVE  /\ [Next]_vars
           /\ telemetry \subseteq telemetry' /\ lost \subseteq lost'
           /\ \A line \in telemetry' \ telemetry : \E s \in Ending : line \in Due(s)
           /\ \A s \in Ending : Due(s) \subseteq telemetry' \cup lost'
<1>1. CASE TelemetryNext
  BY <1>1 DEF TelemetryNext, AppendLines
<1>2. CASE UNCHANGED telemetryVars
  <2>1. UNCHANGED vars /\ UNCHANGED <<pc, telemetry, lost>>
    BY <1>2 DEF telemetryVars, vars
  <2>2. Ending = {}
    BY <2>1 DEF Ending
  <2> QED  BY <2>1, <2>2
<1> QED  BY <1>1, <1>2

(* Whatever a call does, confirmed lines are true.                         *)
LEMMA ConfirmationsStep ==
    AInv /\ Confirmations /\ [TelemetryNext]_telemetryVars => AInv' /\ Confirmations'
<1> SUFFICES ASSUME AInv, Confirmations, [TelemetryNext]_telemetryVars
             PROVE  AInv' /\ Confirmations'
  OBVIOUS
<1>1. [Next]_vars
  BY TelemetryStep
<1>2. ASSUME NEW line \in telemetry', line.user_action = "confirmed"
      PROVE  Confirmation(line)'
  <2>1. CASE line \in telemetry
    BY <1>1, <1>2, <2>1, ConfirmationStable DEF Confirmations
  <2>2. CASE line \notin telemetry
    <3>1. PICK s \in Ending : line \in Due(s)
      BY <2>2, TelemetryStep
    <3> QED  BY <1>1, <1>2, <3>1, ConfirmedLine
  <2> QED  BY <2>1, <2>2
<1> QED  BY <1>1, <1>2, AInvNext DEF Confirmations

(* Recording lines changes nothing of what the server does: with telemetry *)
(* it behaves as without, so all that is proved of ExecutionControl holds. *)
THEOREM TelemetryIsExecution == TelemetrySpec => Spec
<1>1. TelemetryInit => Init
  BY DEF TelemetryInit
<1>2. [TelemetryNext]_telemetryVars => [Next]_vars
  BY DEF TelemetryNext, telemetryVars, vars
<1> QED  BY <1>1, <1>2, PTL DEF TelemetrySpec, Spec

(* ConfirmedBacked: a receipt is confirmed by one call, it is consumed, and*)
(* the log of that call says that it was accepted.                         *)
THEOREM ConfirmedBackedHolds == TelemetrySpec => []ConfirmedBacked
<1>1. TelemetryInit => AInv /\ Confirmations
  BY AInvInit DEF TelemetryInit, Confirmations
<1>2. AInv /\ Confirmations => ConfirmedBacked
  <2> SUFFICES ASSUME AInv, Confirmations,
                      NEW line \in telemetry, line.user_action = "confirmed"
               PROVE  /\ receipts[line.id].status = "consumed"
                      /\ Recorded(line.decision_id, "execute.accepted")
                      /\ \A other \in telemetry :
                            other.user_action = "confirmed" /\ other.id = line.id => other = line
    BY DEF ConfirmedBacked
  <2>1. \A x : Confirmation(x) => /\ x.id = KeyOf(x.decision_id).receipt_id
                                  /\ x.decision_id \in Decision
                                  /\ Claims(x.decision_id)
    <3> SUFFICES ASSUME NEW x, Confirmation(x)
                 PROVE  /\ x.id = KeyOf(x.decision_id).receipt_id
                        /\ x.decision_id \in Decision
                        /\ Claims(x.decision_id)
      OBVIOUS
    <3>1. x.id = KeyOf(x.decision_id).receipt_id
      BY DEF Confirmation, Interruption
    <3>2. x.decision_id \in Decision
      BY ControlAssumption
         DEF Confirmation, Over, Decision, AInv, LogInv, IInv, TypeInv, Typed, TypeOK
    <3>3. Claims(x.decision_id)
      BY DEF Confirmation, Claims
    <3> QED  BY <3>1, <3>2, <3>3
  <2>2. Confirmation(line)
    BY DEF Confirmations
  <2>3. receipts[line.id].status = "consumed"
    BY <2>1, <2>2 DEF Confirmation, Spent
  <2>4. Recorded(line.decision_id, "execute.accepted")
    <3> PICK d : d = line.decision_id
      OBVIOUS
    <3>1. Trail(d) = <<"decision.assessed", "receipt.consumed", "execute.accepted">>
      BY <2>2 DEF Confirmation
    <3>2. 3 \in DOMAIN Trail(d) /\ Trail(d)[3] = "execute.accepted"
      BY <3>1
    <3> QED  BY <3>2 DEF Trail, Recorded
  <2>5. ASSUME NEW other \in telemetry, other.user_action = "confirmed", other.id = line.id
        PROVE  other = line
    <3>1. Confirmation(other)
      BY <2>5 DEF Confirmations
    <3>2. other.decision_id = line.decision_id
      BY <2>1, <2>2, <2>5, <3>1 DEF AInv, LogInv, Once
    <3> QED  BY <2>2, <3>1, <3>2 DEF Confirmation
  <2> QED  BY <2>3, <2>4, <2>5
<1> QED  BY <1>1, <1>2, ConfirmationsStep, PTL DEF TelemetrySpec
-----------------------------------------------------------------------------
(* Confirmations without a prompt.                                         *)

(* The client was asked to confirm receipt r, or was handed it in place of *)
(* a rejected one.                                                         *)
Prompted(r) ==
    \/ \E line \in telemetry \cup lost : line.user_action = "pending" /\ line.id = r
    \/ \E reply \in replies : /\ reply.error \in ConsumeError /\ reply.receipt # None
                              /\ reply.receipt.receipt_id = r

(* Process s has issued receipt r and is about to hand it out.             *)
HandsOut(s, r) ==
    /\ pc[s] \in {"log_issued", "respond"}
    /\ req[s].outcome = "REQUIRE_CONFIRM"
    /\ req[s].receipt # None /\ req[s].receipt.receipt_id = r

Prompting ==
    /\ faults = 0
    /\ \A r \in Stored(receipts) : Prompted(r) \/ \E s \in Server : HandsOut(s, r)
    /\ \A line \in telemetry : line.user_action = "confirmed" => Prompted(line.id)

(* A prompt is not taken back.                                             *)
LEMMA PromptedStable ==
    ASSUME AInv, [TelemetryNext]_telemetryVars, NEW r, Prompted(r)
    PROVE  Prompted(r)'
<1>1. telemetry \subseteq telemetry' /\ lost \subseteq lost' /\ [Next]_vars /\ TypeInv
  BY TelemetryStep DEF AInv, LogInv, IInv
<1>2. replies \subseteq replies'
  BY <1>1, StepCases, RepliesStep
<1> QED  BY <1>1, <1>2 DEF Prompted

(* Without faults one process hands out what it has issued.                *)
LEMMA HandsOutStep ==
    ASSUME OneServer, MaxFaults = 0, AInv, faults = 0, [TelemetryNext]_telemetryVars,
           NEW s \in Server, NEW r, HandsOut(s, r)
    PROVE  Prompted(r)' \/ HandsOut(s, r)'
<1>0. /\ TypeInv /\ [Next]_vars /\ pc \in [Server -> Label] /\ req \in [Server -> Request]
      /\ writer \in Server \cup {None}
  BY TelemetryStep DEF AInv, LogInv, IInv, TypeInv, Typed, TypeOK
<1>1. CASE UNCHANGED <<store, txn, pc, req, calls, replies>>
  BY <1>1 DEF HandsOut
<1>2. ASSUME NEW t \in Server, Moves(t) PROVE Prompted(r)' \/ HandsOut(s, r)'
  <2>1. t = s
    BY DEF OneServer
  <2>2. ~StatementFails(s) /\ ~Crash(s)
    BY DEF StatementFails, Crash, Fault
  <2>3. ~BusyTimeout(s)
    BY <1>0 DEF BusyTimeout, OneServer
  <2>4. LogIssued(s) \/ Respond(s)
    BY <1>0, <1>2, <2>1, <2>2, <2>3
       DEF HandsOut, Moves, Handle, Receive, ReceiveAndFail, LogAssessed, Find, Issue,
           LogReused, BeginConsume, CheckReceipt, InsertReplay, MarkConsumed, CommitConsume,
           LogConsumed, LogAccepted, LogRejected, IssueConflict, Restart
  <2>5. CASE LogIssued(s)
    BY <1>0, <2>5 DEF LogIssued, Goto, HandsOut
  <2>6. CASE Respond(s)
    <3>1. s \in Ending
      BY <1>0, <2>6 DEF Respond, Goto, Ending
    <3>2. CASE req[s].error \in ConsumeError
      <4>1. AnswerOf(s) \in replies'
        BY <2>6 DEF Respond, AnswerOf
      <4> QED  BY <3>2, <4>1 DEF AnswerOf, HandsOut, Prompted
    <3>3. CASE req[s].error \notin ConsumeError
      <4> PICK line : line = Interruption(req[s].decision_id, "REQUIRE_CONFIRM", "pending", r)
        OBVIOUS
      <4>1. Prompts(s)
        BY <2>6, <3>3 DEF Prompts, Answers, HandsOut, Respond
      <4>2. line \in Due(s)
        BY <4>1 DEF Due, Lines, HandsOut
      <4>3. line \in telemetry' \cup lost'
        BY <3>1, <4>2, TelemetryStep
      <4> QED  BY <4>3 DEF Prompted, Interruption
    <3> QED  BY <3>2, <3>3
  <2> QED  BY <2>4, <2>5, <2>6
<1> QED  BY <1>0, <1>1, <1>2, StepCases

(* Every receipt in the store has been handed out, or is about to be; one  *)
(* that was confirmed has been.                                            *)
LEMMA PromptingStep ==
    ASSUME OneServer, MaxFaults = 0, AInv, Confirmations, Prompting,
           [TelemetryNext]_telemetryVars
    PROVE  Prompting'
<1>0. /\ IInv /\ TypeInv /\ [Next]_vars /\ req \in [Server -> Request]
      /\ receipts \in [Rid -> Row \cup {NoRow}]
  BY TelemetryStep DEF AInv, LogInv, IInv, TypeInv, Typed, TypeOK
<1>1. faults' = 0
  <2>0. ~Fault /\ faults = 0
    BY DEF Prompting, Fault
  <2>1. \A s \in Server : Moves(s) => faults' = 0
    BY <2>0 DEF Moves, Handle, Receive, ReceiveAndFail, LogAssessed, Find, Issue,
           LogIssued, LogReused, BeginConsume, CheckReceipt, InsertReplay, MarkConsumed,
           CommitConsume, LogConsumed, LogAccepted, LogRejected, Respond, BusyTimeout,
           IssueConflict, StatementFails, Crash, Restart
  <2> QED  BY <1>0, <2>0, <2>1 DEF Next, Moves, Tick, SetBack, Exhausted, vars
<1>2. ASSUME NEW r \in Stored(receipts')
      PROVE  Prompted(r)' \/ \E s \in Server : HandsOut(s, r)'
  <2>1. CASE r \in Stored(receipts)
    BY <2>1, PromptedStable, HandsOutStep DEF Prompting
  <2>2. CASE r \notin Stored(receipts)
    <3>1. PICK s \in Server : Issue(s)
      BY <1>0, <2>2, RowsStep
    <3>2. r = req[s].receipt.receipt_id
      BY <1>0, <2>2, <3>1 DEF Issue, Stored
    <3>3. /\ req[s].outcome = "REQUIRE_CONFIRM" /\ req[s].receipt \in Key
          /\ req'[s] = req[s] /\ pc'[s] = "log_issued"
      <4>1. pc[s] = "issue" /\ pc'[s] = "log_issued" /\ req' = req
        BY <1>0, <3>1 DEF Issue, Goto, TypeInv, Typed, TypeOK
      <4>2. Serves(s, req[s].decision_id) /\ req[s].decision_id \in Decision
        BY <1>0, <4>1, ControlAssumption DEF Serves, Decision, TypeInv, Typed, TypeOK, Serving
      <4>3. Offers(s, req[s].decision_id)
        BY <4>1, <4>2 DEF AInv, LogInv, Handled, Offering
      <4> QED  BY <1>0, <4>1, <4>3 DEF Offers, TypeInv, Typed, Serving, Offering
    <3>4. req[s].receipt # None
      BY <3>3, ReceiptsAssumption DEF Key
    <3> QED  BY <3>2, <3>3, <3>4 DEF HandsOut
  <2> QED  BY <2>1, <2>2
<1>3. ASSUME NEW line \in telemetry', line.user_action = "confirmed"
      PROVE  Prompted(line.id)'
  <2>1. CASE line \in telemetry
    BY <1>3, <2>1, PromptedStable DEF Prompting
  <2>2. CASE line \notin telemetry
    <3>1. PICK s \in Ending : line \in Due(s)
      BY <2>2, TelemetryStep
    <3>2. /\ Confirms(s) /\ line.id = Confirmed(s).receipt_id /\ s \in Server
      BY <1>3, <3>1 DEF Due, Lines, Interruption, Ending
    <3>3. pc[s] = "respond" /\ req[s].outcome = "ALLOW" /\ IsExecute(CallOf(s))
      BY <3>2 DEF Confirms, Answers
    <3>4. GoodAnswer(AnswerOf(s)) /\ Accepted(AnswerOf(s))
          /\ KeyOf(AnswerOf(s).decision_id) = Confirmed(s)
      BY <3>2, <3>3 DEF AInv, LogInv, AllAnswers, AnswerOf, Accepted, KeyOf, Confirmed, CallOf
    <3>5. Spent(Confirmed(s))
      BY <3>4 DEF GoodAnswer
    <3>6. line.id \in Stored(receipts)
      BY <3>2, <3>5 DEF Spent, Holds, Stored, Key
    <3>7. ~\E t \in Server : HandsOut(t, line.id)
      BY <3>2, <3>3 DEF OneServer, HandsOut
    <3> QED  BY <3>6, <3>7, PromptedStable DEF Prompting
  <2> QED  BY <2>1, <2>2
<1> QED  BY <1>1, <1>2, <1>3 DEF Prompting

(* UnpromptedExplained: with one process and without faults, a receipt is  *)
(* confirmed without having been pending in the file only if its line was  *)
(* lost, or if it was handed out in place of a rejected one.               *)
THEOREM UnpromptedExplainedHolds ==
    ASSUME OneServer, MaxFaults = 0
    PROVE  TelemetrySpec => []UnpromptedExplained
<1>1. TelemetryInit => AInv /\ Confirmations /\ Prompting
  BY AInvInit DEF TelemetryInit, Confirmations, Prompting, Init, Stored
<1>2. AInv /\ Confirmations /\ Prompting /\ [TelemetryNext]_telemetryVars
        => (AInv /\ Confirmations /\ Prompting)'
  BY ConfirmationsStep, PromptingStep
<1>3. Prompting => UnpromptedExplained
  BY DEF Prompting, Prompted, UnpromptedExplained, ReportIds
<1> QED  BY <1>1, <1>2, <1>3, PTL DEF TelemetrySpec
=============================================================================
