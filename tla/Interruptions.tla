---------------------------- MODULE Interruptions ----------------------------
(***************************************************************************)
(* The telemetry of the server (src/src/telemetry.ts) over the execution   *)
(* control: one line for every call the guardrail interrupted, and one for *)
(* what the client made of an interruption.  Lines are appended between    *)
(* the statements of a call, at the latest before its answer, and carry    *)
(* the receipt id to correlate them; an append that fails is swallowed.    *)
(* Nothing reads the file but src/scripts/telemetry_report.ts.             *)
(***************************************************************************)
EXTENDS ExecutionControl

CONSTANT MaxLost   \* bound: lines that do not get into the file

ASSUME InterruptionsAssumption == MaxLost \in Nat

VARIABLES
    telemetry,   \* the lines in the file
    lost         \* the lines that never got there, for the properties only

telemetryVars == <<vars, telemetry, lost>>

(* A line, told apart by the call that wrote it.  The id is None where the *)
(* code draws a random one, which no other line will carry.                *)
Interruption(d, decision, action, id) ==
    [decision_id |-> d, decision |-> decision, user_action |-> action, id |-> id]

TelemetryInit == Init /\ telemetry = {} /\ lost = {}

(* What the call of s is recorded for: an ACK that names a receipt as soon *)
(* as it is assessed, an interruption when the answer asks for a           *)
(* confirmation or blocks, a confirmation when the execution is accepted.  *)
(* A rejection by consumeReceipt is answered without any line.             *)
Aborts(s) ==
    /\ CallOf(s).confirm.mode = "ACK" /\ CallOf(s).confirm.receipt_id # None
    /\ Recorded(req[s].decision_id, "decision.assessed")

Answers(s, outcome) == pc[s] = "respond" /\ req[s].outcome = outcome

Prompts(s) == Answers(s, "REQUIRE_CONFIRM") /\ req[s].error \notin ConsumeError
Blocks(s)  == Answers(s, "BLOCK")

(* Mutant: an EXECUTE counts as confirmed once it is assessed.             *)
ConfirmsOnAssessment(s) ==
    IsExecute(CallOf(s)) /\ Recorded(req[s].decision_id, "decision.assessed")

Confirms(s) == Answers(s, "ALLOW") /\ IsExecute(CallOf(s))

Lines(s, offered) ==
    LET line(decision, action, id) ==
            {Interruption(req[s].decision_id, decision, action, id)}
        when(condition, lines) == IF condition THEN lines ELSE {}
    IN  UNION {when(Aborts(s), line("REQUIRE_CONFIRM", "aborted", CallOf(s).confirm.receipt_id)),
               when(Blocks(s), line("BLOCK", "pending", None)),
               when(Prompts(s), line("REQUIRE_CONFIRM", "pending", offered)),
               when(Confirms(s), line("REQUIRE_CONFIRM", "confirmed", Confirmed(s).receipt_id))}

(* Mutant: the receipt id is not handed to recordInterruption.             *)
DueUncorrelated(s) == Lines(s, None)

(* The lines of the call of s: pending under the receipt that is offered.  *)
Due(s) == Lines(s, IF req[s].receipt = None THEN None ELSE req[s].receipt.receipt_id)

(* The lines of the calls that end in a step, by an answer or a crash.     *)
Ending == {s \in Server : pc[s] \notin {"idle", "down"} /\ pc'[s] \in {"idle", "down"}}

(* Some of them get into the file: the append may fail, or the process die *)
(* before it.                                                              *)
AppendLines ==
    LET lines == UNION {Due(s) : s \in Ending} IN
    \E written \in SUBSET lines :
        /\ telemetry' = telemetry \cup written
        /\ lost' = lost \cup (lines \ written)
        /\ Cardinality(lost') <= MaxLost

TelemetryNext == Next /\ AppendLines

TelemetrySpec == TelemetryInit /\ [][TelemetryNext]_telemetryVars

-----------------------------------------------------------------------------
(* The report: interruptions by what became of them.                       *)
ReportIds(action) == {line.id : line \in {l \in telemetry : l.user_action = action}}

-----------------------------------------------------------------------------
(* Properties.                                                             *)

(* The lines are evidence of executions: whatever is retried, replayed or  *)
(* presented under another binding, a receipt is confirmed by one call, it *)
(* is consumed, and the log of that call says that it was accepted.        *)
ConfirmedBacked ==
    \A line \in telemetry : line.user_action = "confirmed" =>
        /\ receipts[line.id].status = "consumed"
        /\ Recorded(line.decision_id, "execute.accepted")
        /\ \A other \in telemetry :
              other.user_action = "confirmed" /\ other.id = line.id => other = line

(* What the execution rate of the report divides: a receipt is confirmed   *)
(* without having been pending only if its line was lost, or if it was     *)
(* handed out in place of a rejected one.                                  *)
UnpromptedExplained ==
    \A id \in ReportIds("confirmed") \ ReportIds("pending") :
        \/ \E line \in lost : line.user_action = "pending" /\ line.id = id
        \/ \E reply \in replies : /\ reply.error \in ConsumeError
                                  /\ reply.receipt # None
                                  /\ reply.receipt.receipt_id = id
=============================================================================
