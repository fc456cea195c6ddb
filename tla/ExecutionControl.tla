-------------------------- MODULE ExecutionControl --------------------------
(***************************************************************************)
(* The "assess" tool of the server (src/src/server.ts) over the SQLite     *)
(* store.  Several server processes share one database file.  A process    *)
(* serves one call at a time: its handler has no await, so other calls of  *)
(* the same process wait; but the steps of two processes interleave        *)
(* between any two SQL statements.  A statement is one action, except the  *)
(* transaction of consumeReceipt, which is BEGIN IMMEDIATE, its statements *)
(* and COMMIT: its writes stay in "pending" and the write lock in "writer" *)
(* until then.  Readers see the committed tables only (WAL).               *)
(*                                                                         *)
(* In modules of their own: telemetry (Interruptions) and the content of   *)
(* state.json (ArtifactState), which nothing below reads, although an      *)
(* error writing state.json ends the call; clients (RoundTrip); losses of  *)
(* power (PowerLoss); and the creation of the store (StoreOpen).           *)
(***************************************************************************)
EXTENDS Receipts, Sequences

CONSTANTS
    Server,       \* server processes sharing the store
    ClientCalls,  \* the calls clients may make
    MaxCalls,     \* bound: calls received in a behaviour
    MaxClock,     \* bound: ticks of the clock
    Backwards,    \* may the clock be set back?
    MaxFaults     \* bound: crashes, failing statements or file writes, set clocks

VARIABLES
    clock,          \* wall clock, read by nowIso()
    receipts,       \* table receipts, committed
    replay_index,   \* table replay_index, committed: a set of keys
    decision_logs,  \* table decision_logs: the events of each decision, by seq
    writer,         \* the process holding the write lock in a transaction
    pending,        \* uncommitted writes of that transaction
    pc,             \* where the handler of each process stands
    req,            \* local variables of the handler of each process
    calls,          \* the calls received; a decision_id is an index into it
    replies,        \* the answers that reached the client
    faults          \* what went wrong so far, only to bound it

store == <<receipts, replay_index, decision_logs>>
txn   == <<writer, pending>>
vars  == <<clock, receipts, replay_index, decision_logs, writer, pending,
           pc, req, calls, replies, faults>>

-----------------------------------------------------------------------------
(* Calls.                                                                  *)

(* Signals up to what the pure assessment makes of them: no signals in the *)
(* call, harmless, over the extreme thresholds, or gated under a plan.     *)
Signals == Plan \cup {"absent", "low", "extreme"}

(* confirm as normalizeConfirm leaves it.                                  *)
Confirm == [mode : {"NONE", "INVALID_LEGACY_TRUE"}]
             \cup [mode : {"ACK"}, receipt_id : Rid \cup {None}]
             \cup [mode : {"EXECUTE"}, key : Key]

Call == [signals : Signals, confirm : Confirm]

ASSUME ControlAssumption ==
    /\ MaxCalls \in Nat /\ MaxClock \in Nat /\ MaxFaults \in Nat
    /\ Backwards \in BOOLEAN
    /\ None \notin Server \cup ConsumeError
    /\ ClientCalls \subseteq Call

BaseAction(signals) ==
    IF signals \in Plan THEN "REQUIRE_CONFIRM"
    ELSE IF signals = "extreme" THEN "BLOCK" ELSE "ALLOW"

IsExecute(call) == call.confirm.mode = "EXECUTE"

(* The guardrail of assess(): its action, receipt and confirmation error.  *)
(* It reads nothing but its arguments; r and n are what the random         *)
(* generators draw.                                                        *)
Guardrail(action, receipt, error) ==
    [action |-> action, receipt |-> receipt, error |-> error]

(* Mutant: the plan that is confirmed is not compared with the current.    *)
AssessTrusting(call, r, n) ==
    LET base  == BaseAction(call.signals)
        fresh == Binding(r, call.signals, n)
    IN  IF base # "REQUIRE_CONFIRM"            THEN Guardrail(base, None, None)
        ELSE IF call.confirm.mode \in {"NONE", "ACK"}
                                               THEN Guardrail(base, fresh, None)
        ELSE IF ~IsExecute(call)               THEN Guardrail(base, None, None)
        ELSE Guardrail("ALLOW", call.confirm.key, None)

Assess(call, r, n) ==
    LET base  == BaseAction(call.signals)
        fresh == Binding(r, call.signals, n)
    IN  IF base # "REQUIRE_CONFIRM"            THEN Guardrail(base, None, None)
        ELSE IF call.confirm.mode \in {"NONE", "ACK"}
                                               THEN Guardrail(base, fresh, None)
        ELSE IF ~IsExecute(call)               THEN Guardrail(base, None, None)
        ELSE IF call.confirm.key.plan_hash = call.signals
                              THEN Guardrail("ALLOW", call.confirm.key, None)
        ELSE Guardrail(base, fresh, "STALE_RECEIPT_OR_PLAN_CHANGED")

AssessedVerdict(action, call) ==
    IF action = "ALLOW" /\ IsExecute(call) THEN "EXECUTE_ACCEPTED"
    ELSE IF action = "BLOCK" THEN "BLOCK" ELSE "REQUIRE_CONFIRM"

-----------------------------------------------------------------------------
(* Types.                                                                  *)

(* makeDecisionId(): the n-th call received gets n.                        *)
Decision == 1..MaxCalls

Events   == {"decision.assessed", "receipt.issued", "receipt.reused",
             "receipt.consumed", "execute.accepted", "execute.rejected"}
Verdicts == {"REQUIRE_CONFIRM", "BLOCK", "EXECUTE_ACCEPTED", "EXECUTE_REJECTED"}
ConfirmError == ConsumeError \cup {"STALE_RECEIPT_OR_PLAN_CHANGED"}
Failures == {"INVALID_INPUT", "INTERNAL_ERROR", "PERSISTENCE_FAILURE"}
Outcomes == {"ALLOW", "REQUIRE_CONFIRM", "BLOCK"} \cup Failures

Event   == [event_type : Events, verdict : Verdicts, receipt : Key \cup {None}]
Reply   == [decision_id : Decision, outcome : Outcomes,
            error : ConfirmError \cup {None}, receipt : Key \cup {None}]
Request == [decision_id : Decision \cup {0}, ts : Nat, outcome : Outcomes,
            error : ConfirmError \cup {None}, receipt : Key \cup {None}]

(* Where a handler stands: Reading and Writing are single statements       *)
(* outside a transaction, InTxn the statements of consumeReceipt.          *)
Reading == {"find"}
Writing == {"log_assessed", "issue", "log_issued", "log_reused", "begin",
            "log_rejected", "log_consumed", "log_accepted"}
InTxn   == {"check", "insert_replay", "mark_consumed", "commit"}
Label   == {"idle", "down", "respond"} \cup Reading \cup Writing \cup InTxn

NoPending == [keys |-> {}, consumed |-> {}]
NoReq     == [decision_id |-> 0, ts |-> 0, outcome |-> "ALLOW", error |-> None,
              receipt |-> None]

TypeOK ==
    /\ clock \in Nat
    /\ receipts \in [Rid -> Row \cup {NoRow}]
    /\ replay_index \subseteq Key
    /\ decision_logs \in [Decision -> Seq(Event)]
    /\ writer \in Server \cup {None}
    /\ pending \in [keys : SUBSET Key, consumed : SUBSET Rid]
    /\ pc \in [Server -> Label]
    /\ req \in [Server -> Request]
    /\ calls \in Seq(Call)
    /\ replies \subseteq Reply
    /\ faults \in Nat

Init ==
    /\ clock = 0
    /\ receipts = [r \in Rid |-> NoRow]
    /\ replay_index = {}
    /\ decision_logs = [d \in Decision |-> <<>>]
    /\ writer = None
    /\ pending = NoPending
    /\ pc = [s \in Server |-> "idle"]
    /\ req = [s \in Server |-> NoReq]
    /\ calls = <<>>
    /\ replies = {}
    /\ faults = 0

CallOf(s)    == calls[req[s].decision_id]
Confirmed(s) == CallOf(s).confirm.key

Goto(s, label) == pc' = [pc EXCEPT ![s] = label]

(* Append one event of the call s serves; needs the write lock free.       *)
Log(s, type, verdict, receipt) ==
    /\ writer = None
    /\ decision_logs' = [decision_logs EXCEPT ![req[s].decision_id] =
            Append(@, [event_type |-> type, verdict |-> verdict, receipt |-> receipt])]

Fault == faults < MaxFaults /\ faults' = faults + 1

-----------------------------------------------------------------------------
(* Start of a call: the arguments are normalised, the timestamp every      *)
(* later step uses is taken, and the signals are assessed.                 *)
Receive(s) ==
    /\ pc[s] = "idle"
    /\ Len(calls) < MaxCalls
    /\ \E call \in ClientCalls, r \in Rid, n \in Nonce :
        /\ call.signals # "absent"
        /\ calls' = Append(calls, call)
        /\ LET out == Assess(call, r, n) IN
            req' = [req EXCEPT ![s] =
                [decision_id |-> Len(calls) + 1, ts |-> clock,
                 outcome |-> out.action, error |-> out.error, receipt |-> out.receipt]]
    /\ Goto(s, "log_assessed")
    /\ UNCHANGED <<clock, store, txn, replies, faults>>

(* A call without signals, or whose decision cannot be written to          *)
(* state.json, is answered before anything reaches the store.              *)
ReceiveAndFail(s) ==
    /\ pc[s] = "idle"
    /\ Len(calls) < MaxCalls
    /\ \E call \in ClientCalls :
        /\ calls' = Append(calls, call)
        /\ req' = [req EXCEPT ![s] =
                [decision_id |-> Len(calls) + 1, ts |-> clock, error |-> None, receipt |-> None,
                 outcome |-> IF call.signals = "absent" THEN "INVALID_INPUT"
                                                        ELSE "INTERNAL_ERROR"]]
        /\ IF call.signals = "absent" THEN UNCHANGED faults ELSE Fault
    /\ Goto(s, "respond")
    /\ UNCHANGED <<clock, store, txn, replies>>

LogAssessed(s) ==
    /\ pc[s] = "log_assessed"
    /\ Log(s, "decision.assessed", AssessedVerdict(req[s].outcome, CallOf(s)),
           req[s].receipt)
    /\ \/ /\ req[s].outcome = "REQUIRE_CONFIRM" /\ req[s].receipt # None
          /\ Goto(s, "find")
       \/ /\ req[s].outcome = "ALLOW" /\ IsExecute(CallOf(s))
          /\ Goto(s, "begin")
       \/ /\ \/ req[s].outcome = "BLOCK"
             \/ req[s].outcome = "REQUIRE_CONFIRM" /\ req[s].receipt = None
             \/ req[s].outcome = "ALLOW" /\ ~IsExecute(CallOf(s))
          /\ Goto(s, "respond")
    /\ UNCHANGED <<clock, receipts, replay_index, txn, req, calls, replies, faults>>

-----------------------------------------------------------------------------
(* Mutant: the id found is compared with the drawn one before it replaces  *)
(* it, so a second receipt is issued.                                      *)
FindWithoutAdopting(s) ==
    /\ pc[s] = "find"
    /\ LET found == LatestActive(receipts, req[s].receipt.plan_hash, req[s].ts)
       IN  Goto(s, IF req[s].receipt.receipt_id \in found THEN "log_reused" ELSE "issue")
    /\ UNCHANGED <<clock, store, txn, req, calls, replies, faults>>

(* Mutant: the answer keeps the drawn receipt although one is reused.      *)
FindKeepingDrawn(s) ==
    /\ pc[s] = "find"
    /\ LET found == LatestActive(receipts, req[s].receipt.plan_hash, req[s].ts)
       IN  Goto(s, IF found = {} THEN "issue" ELSE "log_reused")
    /\ UNCHANGED <<clock, store, txn, req, calls, replies, faults>>

(* REQUIRE_CONFIRM: reuse an active receipt of the plan, or issue the      *)
(* drawn one.  Also the way to a replacement after a rejected EXECUTE.     *)
Find(s) ==
    /\ pc[s] = "find"
    /\ LET found == LatestActive(receipts, req[s].receipt.plan_hash, req[s].ts) IN
        \/ /\ found = {}
           /\ Goto(s, "issue")
           /\ UNCHANGED req
        \/ \E r \in found :
            /\ req' = [req EXCEPT ![s] = [@ EXCEPT !.receipt = BindingOf(receipts, r)]]
            /\ Goto(s, "log_reused")
    /\ UNCHANGED <<clock, store, txn, calls, replies, faults>>

(* Mutant: INSERT OR REPLACE.                                              *)
IssueOrReplace(s) ==
    /\ pc[s] = "issue"
    /\ writer = None
    /\ receipts' = [receipts EXCEPT ![req[s].receipt.receipt_id] =
                        NewRow(req[s].receipt, req[s].ts)]
    /\ Goto(s, "log_issued")
    /\ UNCHANGED <<clock, replay_index, decision_logs, txn, req, calls, replies, faults>>

Issue(s) ==
    /\ pc[s] = "issue"
    /\ writer = None
    /\ receipts[req[s].receipt.receipt_id] = NoRow
    /\ receipts' = [receipts EXCEPT ![req[s].receipt.receipt_id] =
                        NewRow(req[s].receipt, req[s].ts)]
    /\ Goto(s, "log_issued")
    /\ UNCHANGED <<clock, replay_index, decision_logs, txn, req, calls, replies, faults>>

LogIssued(s) ==
    /\ pc[s] = "log_issued"
    /\ Log(s, "receipt.issued", "REQUIRE_CONFIRM", req[s].receipt)
    /\ Goto(s, "respond")
    /\ UNCHANGED <<clock, receipts, replay_index, txn, req, calls, replies, faults>>

LogReused(s) ==
    /\ pc[s] = "log_reused"
    /\ Log(s, "receipt.reused", "REQUIRE_CONFIRM", req[s].receipt)
    /\ Goto(s, "respond")
    /\ UNCHANGED <<clock, receipts, replay_index, txn, req, calls, replies, faults>>

-----------------------------------------------------------------------------
(* Mutant: BEGIN, which takes no lock.                                     *)
BeginConsumeDeferred(s) ==
    /\ pc[s] = "begin"
    /\ Goto(s, "check")
    /\ UNCHANGED <<clock, store, txn, req, calls, replies, faults>>

(* ALLOW with EXECUTE: the transaction of consumeReceipt.                  *)
BeginConsume(s) ==
    /\ pc[s] = "begin"
    /\ writer = None
    /\ writer' = s
    /\ Goto(s, "check")
    /\ UNCHANGED <<clock, store, pending, req, calls, replies, faults>>

(* Mutant: a rejection returns without ROLLBACK.                           *)
CheckReceiptKeepingLock(s) ==
    /\ pc[s] = "check"
    /\ LET verdict == ConsumeVerdict(receipts, replay_index, Confirmed(s), req[s].ts) IN
        \/ verdict = "ok" /\ Goto(s, "insert_replay") /\ UNCHANGED req
        \/ /\ verdict # "ok"
           /\ req' = [req EXCEPT ![s] = [@ EXCEPT !.error = verdict]]
           /\ Goto(s, "log_rejected")
    /\ UNCHANGED <<clock, store, txn, calls, replies, faults>>

CheckReceipt(s) ==
    /\ pc[s] = "check"
    /\ LET verdict == ConsumeVerdict(receipts, replay_index, Confirmed(s), req[s].ts) IN
        \/ /\ verdict = "ok"
           /\ Goto(s, "insert_replay")
           /\ UNCHANGED <<writer, req>>
        \/ /\ verdict # "ok"
           /\ writer' = None
           /\ req' = [req EXCEPT ![s] = [@ EXCEPT !.error = verdict]]
           /\ Goto(s, "log_rejected")
    /\ UNCHANGED <<clock, store, pending, calls, replies, faults>>

(* Mutant: the INSERT commits by itself.                                   *)
InsertReplayAutocommit(s) ==
    /\ pc[s] = "insert_replay"
    /\ replay_index' = replay_index \cup {Confirmed(s)}
    /\ Goto(s, "mark_consumed")
    /\ UNCHANGED <<clock, receipts, decision_logs, txn, req, calls, replies, faults>>

InsertReplay(s) ==
    /\ pc[s] = "insert_replay"
    /\ pending' = [pending EXCEPT !.keys = @ \cup {Confirmed(s)}]
    /\ Goto(s, "mark_consumed")
    /\ UNCHANGED <<clock, store, writer, req, calls, replies, faults>>

(* The UPDATE repeats the test of status and expiry; a count other than 1  *)
(* rolls the INSERT back.                                                  *)
MarkConsumed(s) ==
    /\ pc[s] = "mark_consumed"
    /\ \/ /\ Usable(receipts[Confirmed(s).receipt_id], req[s].ts)
          /\ pending' = [pending EXCEPT !.consumed = @ \cup {Confirmed(s).receipt_id}]
          /\ Goto(s, "commit")
          /\ UNCHANGED <<writer, req>>
       \/ /\ ~Usable(receipts[Confirmed(s).receipt_id], req[s].ts)
          /\ pending' = NoPending
          /\ writer' = None
          /\ req' = [req EXCEPT ![s] = [@ EXCEPT !.error = "RECEIPT_CONSUMED"]]
          /\ Goto(s, "log_rejected")
    /\ UNCHANGED <<clock, store, calls, replies, faults>>

(* Mutant: a failing COMMIT goes unnoticed.                                *)
CommitConsumeUnchecked(s) ==
    /\ pc[s] = "commit"
    /\ pending' = NoPending
    /\ writer' = None
    /\ Goto(s, "log_consumed")
    /\ UNCHANGED <<clock, store, req, calls, replies, faults>>

CommitConsume(s) ==
    /\ pc[s] = "commit"
    /\ replay_index' = replay_index \cup pending.keys
    /\ receipts' = [r \in Rid |-> IF r \in pending.consumed
                                  THEN ConsumedRow(receipts[r], req[s].ts)
                                  ELSE receipts[r]]
    /\ pending' = NoPending
    /\ writer' = None
    /\ Goto(s, "log_consumed")
    /\ UNCHANGED <<clock, decision_logs, req, calls, replies, faults>>

(* Mutant: the event is written if it can be.                              *)
LogConsumedBestEffort(s) ==
    /\ pc[s] = "log_consumed"
    /\ \/ Log(s, "receipt.consumed", "EXECUTE_ACCEPTED", Confirmed(s))
       \/ UNCHANGED decision_logs
    /\ Goto(s, "log_accepted")
    /\ UNCHANGED <<clock, receipts, replay_index, txn, req, calls, replies, faults>>

LogConsumed(s) ==
    /\ pc[s] = "log_consumed"
    /\ Log(s, "receipt.consumed", "EXECUTE_ACCEPTED", Confirmed(s))
    /\ Goto(s, "log_accepted")
    /\ UNCHANGED <<clock, receipts, replay_index, txn, req, calls, replies, faults>>

LogAccepted(s) ==
    /\ pc[s] = "log_accepted"
    /\ Log(s, "execute.accepted", "EXECUTE_ACCEPTED", Confirmed(s))
    /\ Goto(s, "respond")
    /\ UNCHANGED <<clock, receipts, replay_index, txn, req, calls, replies, faults>>

(* After a rejected EXECUTE the signals are assessed again without the     *)
(* confirmation; a gated plan then gets a receipt, and the answer is       *)
(* REQUIRE_CONFIRM in either case.  Writing state.json may fail once more. *)
LogRejected(s) ==
    /\ pc[s] = "log_rejected"
    /\ Log(s, "execute.rejected", "EXECUTE_REJECTED", Confirmed(s))
    /\ \E r \in Rid, n \in Nonce :
        LET out == Assess([CallOf(s) EXCEPT !.confirm = [mode |-> "NONE"]], r, n) IN
        \/ /\ req' = [req EXCEPT ![s] = [@ EXCEPT !.outcome = "REQUIRE_CONFIRM",
                                                  !.receipt = out.receipt]]
           /\ Goto(s, IF out.receipt = None THEN "respond" ELSE "find")
           /\ UNCHANGED faults
        \/ /\ req' = [req EXCEPT ![s] = [@ EXCEPT !.outcome = "INTERNAL_ERROR",
                                                  !.error = None, !.receipt = None]]
           /\ Goto(s, "respond")
           /\ Fault
    /\ UNCHANGED <<clock, receipts, replay_index, txn, calls, replies>>

-----------------------------------------------------------------------------
(* End of a call.                                                          *)
Respond(s) ==
    /\ pc[s] = "respond"
    /\ replies' = replies \cup
            {[decision_id |-> req[s].decision_id, outcome |-> req[s].outcome,
              error |-> req[s].error, receipt |-> req[s].receipt]}
    /\ req' = [req EXCEPT ![s] = NoReq]
    /\ Goto(s, "idle")
    /\ UNCHANGED <<clock, store, txn, calls, faults>>

(* What leaves a transaction of s without committing it.                   *)
Rollback(s) ==
    IF writer = s THEN writer' = None /\ pending' = NoPending ELSE UNCHANGED txn

(* withPersistence turns any error of a statement into PERSISTENCE_FAILURE *)
(* and the handler answers with it.                                        *)
Abort(s) ==
    /\ Rollback(s)
    /\ req' = [req EXCEPT ![s] = [@ EXCEPT !.outcome = "PERSISTENCE_FAILURE",
                                           !.error = None, !.receipt = None]]
    /\ Goto(s, "respond")
    /\ UNCHANGED <<clock, store, calls, replies>>

(* A write that waited busy_timeout for the lock of another process.       *)
BusyTimeout(s) ==
    /\ pc[s] \in Writing
    /\ writer \notin {None, s}
    /\ Abort(s)
    /\ UNCHANGED faults

(* INSERT of a receipt id that is taken.                                   *)
IssueConflict(s) ==
    /\ pc[s] = "issue"
    /\ writer = None
    /\ receipts[req[s].receipt.receipt_id] # NoRow
    /\ Abort(s)
    /\ UNCHANGED faults

(* Any statement may fail: disk full, I/O error, damaged file.             *)
StatementFails(s) ==
    /\ pc[s] \in Reading \cup Writing \cup InTxn
    /\ Abort(s)
    /\ Fault

-----------------------------------------------------------------------------
(* The process dies: its call is never answered and SQLite rolls an open   *)
(* transaction back.  It may be started again.                             *)
Crash(s) ==
    /\ pc[s] # "down"
    /\ Rollback(s)
    /\ req' = [req EXCEPT ![s] = NoReq]
    /\ Goto(s, "down")
    /\ Fault
    /\ UNCHANGED <<clock, store, calls, replies>>

Restart(s) ==
    /\ pc[s] = "down"
    /\ Goto(s, "idle")
    /\ UNCHANGED <<clock, store, txn, req, calls, replies, faults>>

Tick ==
    /\ clock < MaxClock
    /\ clock' = clock + 1
    /\ UNCHANGED <<store, txn, pc, req, calls, replies, faults>>

(* The wall clock is corrected by hand or by NTP: what had expired is      *)
(* valid again, and what is issued now may be older than what is stored.   *)
SetBack ==
    /\ Backwards
    /\ \E t \in 0..clock : t # clock /\ clock' = t
    /\ Fault
    /\ UNCHANGED <<store, txn, pc, req, calls, replies>>

(* The bounds are reached and nobody is at work: the only way to stop, so  *)
(* a deadlock is a handler that cannot go on.                              *)
Exhausted ==
    /\ \A s \in Server : pc[s] = "idle"
    /\ Len(calls) = MaxCalls /\ clock = MaxClock
    /\ UNCHANGED vars

-----------------------------------------------------------------------------
(* What a process does by itself once it has a call.                       *)
Handle(s) ==
    \/ LogAssessed(s) \/ Find(s) \/ Issue(s) \/ LogIssued(s) \/ LogReused(s)
    \/ BeginConsume(s) \/ CheckReceipt(s) \/ InsertReplay(s) \/ MarkConsumed(s)
    \/ CommitConsume(s) \/ LogConsumed(s) \/ LogAccepted(s) \/ LogRejected(s)
    \/ Respond(s) \/ BusyTimeout(s) \/ IssueConflict(s)

Next ==
    \/ \E s \in Server :
        \/ Receive(s) \/ ReceiveAndFail(s) \/ Handle(s)
        \/ StatementFails(s) \/ Crash(s) \/ Restart(s)
    \/ Tick
    \/ SetBack
    \/ Exhausted

Spec == Init /\ [][Next]_vars

-----------------------------------------------------------------------------
(* Properties.                                                             *)

Accepted(reply) == reply.outcome = "ALLOW" /\ IsExecute(calls[reply.decision_id])

(* What listByDecisionId answers, in the order of seq, down to the types.  *)
Trail(d) == [i \in DOMAIN decision_logs[d] |-> decision_logs[d][i].event_type]

Recorded(d, type) == \E i \in DOMAIN decision_logs[d] : decision_logs[d][i].event_type = type

(* The rows listByReceiptId answers with: calls, and places in their logs. *)
ListByReceiptId(r) ==
    UNION {{<<d, i>> : i \in {j \in DOMAIN decision_logs[d] :
                                /\ decision_logs[d][j].receipt # None
                                /\ decision_logs[d][j].receipt.receipt_id = r}} :
           d \in Decision}

(* A receipt is consumed exactly when its own execution key, and no other  *)
(* key naming it, is in the replay index, whatever crashes, failing        *)
(* statements and lock timeouts interrupt consumeReceipt.                  *)
StoreAtomic ==
    \A r \in Rid :
        {k \in replay_index : k.receipt_id = r} =
            IF receipts[r].status = "consumed" THEN {BindingOf(receipts, r)} ELSE {}

(* One receipt carries one execution: no two calls, of any process, before *)
(* or after a restart, are told that the same receipt was accepted, nor    *)
(* does the log record a second consumption or acceptance of it.           *)
ExecutedOnce ==
    /\ \A a, b \in replies :
          Accepted(a) /\ Accepted(b) /\ a # b =>
            calls[a.decision_id].confirm.key.receipt_id
                # calls[b.decision_id].confirm.key.receipt_id
    /\ \A r \in Rid : \A a, b \in ListByReceiptId(r) :
          LET type == decision_logs[a[1]][a[2]].event_type IN
          type \in {"receipt.consumed", "execute.accepted"} /\ a # b =>
            decision_logs[b[1]][b[2]].event_type # type

(* Gated signals are allowed only to a call that consumed a receipt issued *)
(* for exactly the plan these signals amount to.                           *)
GateHolds ==
    \A reply \in replies :
        LET call == calls[reply.decision_id] IN
        reply.outcome = "ALLOW" /\ call.signals \in Plan =>
            /\ IsExecute(call)
            /\ call.confirm.key.plan_hash = call.signals
            /\ receipts[call.confirm.key.receipt_id].status = "consumed"
            /\ BindingOf(receipts, call.confirm.key.receipt_id) = call.confirm.key

(* A client is handed a receipt only if the store holds it under exactly   *)
(* the plan and the nonce the client must present, and the plan is the one *)
(* of the signals it sent: the drawn receipt never leaks out when another  *)
(* one is reused.                                                          *)
OfferedIsStored ==
    \A reply \in replies :
        reply.outcome = "REQUIRE_CONFIRM" /\ reply.receipt # None =>
            /\ receipts[reply.receipt.receipt_id] # NoRow
            /\ BindingOf(receipts, reply.receipt.receipt_id) = reply.receipt
            /\ reply.receipt.plan_hash = calls[reply.decision_id].signals

(* Every answer that is not a failure was recorded first: the log holds    *)
(* the whole trail that leads to it, in order and nothing else.            *)
AnswerEvidence ==
    \A reply \in replies :
        LET trail    == Trail(reply.decision_id)
            rejected == IF reply.error \in ConsumeError THEN <<"execute.rejected">> ELSE <<>>
        IN
        /\ Accepted(reply) =>
              trail = <<"decision.assessed", "receipt.consumed", "execute.accepted">>
        /\ reply.outcome \in {"ALLOW", "BLOCK"} /\ ~Accepted(reply) =>
              trail = <<"decision.assessed">>
        /\ reply.outcome = "REQUIRE_CONFIRM" =>
              trail \in {<<"decision.assessed">> \o rejected \o offer : offer \in
                            IF reply.receipt = None THEN {<<>>}
                            ELSE {<<"receipt.issued">>, <<"receipt.reused">>}}

(* The log never claims what the store does not hold: receipts it calls    *)
(* issued or reused exist under that binding, those it calls consumed or   *)
(* accepted are consumed.  Neither ceases to be true later.                *)
LogSound ==
    \A d \in Decision : \A i \in DOMAIN decision_logs[d] :
        LET e == decision_logs[d][i] IN
        e.event_type \notin {"decision.assessed", "execute.rejected"} =>
        /\ receipts[e.receipt.receipt_id] # NoRow
        /\ BindingOf(receipts, e.receipt.receipt_id) = e.receipt
        /\ e.event_type \in {"receipt.consumed", "execute.accepted"} =>
              receipts[e.receipt.receipt_id].status = "consumed"

(* The reason given for a rejected EXECUTE is the true one and stays so: a *)
(* replay is called a replay and never a receipt used by someone else, a   *)
(* binding called wrong is wrong.                                          *)
TruthfulErrors ==
    \A reply \in replies : reply.error \in ConsumeError =>
        LET key == calls[reply.decision_id].confirm.key
            row == receipts[key.receipt_id]
        IN
        /\ reply.error = "REPLAY_DETECTED"    => key \in replay_index
        /\ reply.error = "RECEIPT_CONSUMED"   =>
              row.status = "consumed" /\ BindingOf(receipts, key.receipt_id) # key
        /\ reply.error = "RECEIPT_EXPIRED"    => row.expires_at <= clock
        /\ reply.error = "PLAN_HASH_MISMATCH" => row.plan_hash # key.plan_hash
        /\ reply.error = "NONCE_MISMATCH"     => row.nonce # key.nonce

(* No more than one receipt of a plan can be executed at a time: an active *)
(* one is reused until it is consumed or expires.  This holds for one      *)
(* server process; two may each find none and issue one.                   *)
OneLiveReceiptPerPlan ==
    \A p \in Plan : Cardinality(ActiveFor(receipts, p, clock)) <= 1

(* All questions to the tables have one answer, now and until every        *)
(* receipt has expired: what findActiveReceiptByPlanHash may offer is what *)
(* getReceiptState calls active and not expired and what consumeReceipt    *)
(* accepts, and a receipt is consumed for the one query when its key is    *)
(* known to the other.                                                     *)
QueriesAgree ==
    \A r \in Stored(receipts), now \in clock..(MaxClock + TTL) :
        LET key == BindingOf(receipts, r)
            state == ReceiptState(receipts, r, now)
        IN
        /\ state = "active" <=> r \in ActiveFor(receipts, key.plan_hash, now)
        /\ state = "active" <=> ConsumeVerdict(receipts, replay_index, key, now) = "ok"
        /\ state = "consumed" <=> HasExecutionKey(replay_index, key)

(* A receipt goes from missing to active to consumed and never back, and   *)
(* its plan, nonce and times never change once it is issued.               *)
LifecycleStep ==
    \A r \in Rid : receipts'[r] # receipts[r] =>
        \/ receipts[r] = NoRow /\ receipts'[r].status = "active"
        \/ /\ receipts[r].status = "active" /\ receipts'[r].status = "consumed"
           /\ receipts'[r] = ConsumedRow(receipts[r], receipts'[r].consumed_at)

Lifecycle == [][LifecycleStep]_vars

(* The gate the store and the processes implement together.                *)
Gate == INSTANCE ExecutionGate WITH
    offered   <- {BindingOf(receipts, r) : r \in Stored(receipts)},
    granted   <- replay_index,
    announced <- {<<reply.decision_id, calls[reply.decision_id].confirm.key>> :
                    reply \in {a \in replies : Accepted(a)}}

ImplementsGate == Gate!Spec

-----------------------------------------------------------------------------
(* Statements of the documents that the code does not satisfy.             *)

(* docs/guardrail_protocol.md: a confirmation whose plan_hash does not     *)
(* match the current plan is rejected.                                     *)
ExecutesCurrentPlan ==
    \A d \in Decision : \A i \in DOMAIN decision_logs[d] :
        decision_logs[d][i].event_type = "execute.accepted" =>
            decision_logs[d][i].receipt.plan_hash = calls[d].signals

(* docs/SCOPE_FREEZE_v1.0.md: execution rejection is recorded as an event. *)
RejectionRecorded ==
    \A reply \in replies :
        reply.outcome = "REQUIRE_CONFIRM" /\ reply.error # None =>
            Recorded(reply.decision_id, "execute.rejected")

(* docs/SCOPE_FREEZE_v1.0.md: every execution outcome is evidentiary; a    *)
(* consumed receipt has its event, or a handler is about to write it.      *)
ConsumptionRecorded ==
    \A r \in Rid : receipts[r].status = "consumed" =>
        \/ \E d \in Decision : Recorded(d, "receipt.consumed")
                               /\ calls[d].confirm.key.receipt_id = r
        \/ \E s \in Server : pc[s] = "log_consumed" /\ Confirmed(s).receipt_id = r
=============================================================================
