------------------------- MODULE ExecutionInvariant -------------------------
(***************************************************************************)
(* Inductive invariants of ExecutionControl.  IInv is what holds between   *)
(* the stops of the handlers, the lock, the open transaction and the       *)
(* tables; LogInv adds the calls and their logs, AInv the answers to them; *)
(* ClockInv adds the time, where the clock is not set back.                *)
(***************************************************************************)
EXTENDS ExecutionControl

Offering  == {"find", "issue", "log_issued", "log_reused"}
Executing == {"begin", "log_consumed", "log_accepted", "log_rejected"} \cup InTxn

(* A handler at work serves a call that was received; on the way through   *)
(* consumeReceipt that call presented a binding, on the way to a receipt   *)
(* there is one to offer.                                                  *)
Serving ==
    \A s \in Server :
        /\ pc[s] \notin {"idle", "down"} => req[s].decision_id \in 1..Len(calls)
        /\ pc[s] \in Executing => IsExecute(CallOf(s))
        /\ pc[s] \in Offering => req[s].receipt \in Key

(* Only a row that exists is about to be marked consumed.                  *)
PendingStored == \A r \in pending.consumed : receipts[r] # NoRow

Typed   == TypeOK /\ Len(calls) <= MaxCalls /\ Serving
TypeInv == Typed /\ PendingStored

(* The lock is held by the one process inside the transaction.             *)
LockOwner == \A s \in Server : pc[s] \in InTxn <=> writer = s

(* What the transaction has written so far, and that the test it passed    *)
(* still holds: nobody else can write.                                     *)
Checked == {"insert_replay", "mark_consumed", "commit"}

Transaction ==
    /\ writer = None => pending = NoPending
    /\ \A s \in Server :
        /\ pc[s] \in {"check", "insert_replay"} => pending = NoPending
        /\ pc[s] = "mark_consumed" => pending = [keys |-> {Confirmed(s)}, consumed |-> {}]
        /\ pc[s] = "commit" => pending = [keys |-> {Confirmed(s)},
                                          consumed |-> {Confirmed(s).receipt_id}]
        /\ pc[s] \in Checked =>
              ConsumeVerdict(receipts, replay_index, Confirmed(s), req[s].ts) = "ok"

IInv == TypeInv /\ LockOwner /\ Transaction /\ StoreAtomic

-----------------------------------------------------------------------------
(* Logs and answers.                                                       *)

Serves(s, d) == pc[s] \notin {"idle", "down"} /\ req[s].decision_id = d
KeyOf(d)     == calls[d].confirm.key

(* A call has one handler and then at most one answer, and a call that was *)
(* not received has left no trace.                                         *)
Served ==
    /\ \A s, t \in Server, d \in Decision : Serves(s, d) /\ Serves(t, d) => s = t
    /\ \A a \in replies :
          /\ a.decision_id \in 1..Len(calls)
          /\ \A s \in Server : ~Serves(s, a.decision_id)
    /\ \A a, b \in replies : a.decision_id = b.decision_id => a = b
    /\ \A d \in Decision : d > Len(calls) => decision_logs[d] = <<>>

(* What the tables hold of a binding; neither ceases to be true.           *)
Holds(key) == /\ key \in Key
              /\ receipts[key.receipt_id] # NoRow
              /\ BindingOf(receipts, key.receipt_id) = key
Spent(key) == Holds(key) /\ receipts[key.receipt_id].status = "consumed"

(* ALLOW is for harmless signals, or for a confirmation of the very plan.  *)
Rightful(d) ==
    calls[d].signals \in Plan => IsExecute(calls[d]) /\ KeyOf(d).plan_hash = calls[d].signals

(* The reason why call d was rejected is true; time aside, it remains so.  *)
Explained(d, error) ==
    LET row == receipts[KeyOf(d).receipt_id] IN
    /\ IsExecute(calls[d])
    /\ error = "REPLAY_DETECTED"    => KeyOf(d) \in replay_index
    /\ error = "RECEIPT_CONSUMED"   =>
          row.status = "consumed" /\ BindingOf(receipts, KeyOf(d).receipt_id) # KeyOf(d)
    /\ error = "PLAN_HASH_MISMATCH" => row # NoRow /\ row.plan_hash # KeyOf(d).plan_hash
    /\ error = "NONCE_MISMATCH"     => row # NoRow /\ row.nonce # KeyOf(d).nonce

(* The log of a call before a receipt is offered to it.                    *)
Before(error) == IF error \in ConsumeError
                 THEN <<"decision.assessed", "execute.rejected">>
                 ELSE <<"decision.assessed">>

(* What a handler that serves call d knows and has recorded where it is.   *)
Assessed(s, d) ==
    /\ Trail(d) = <<>>
    /\ req[s].outcome \in {"ALLOW", "REQUIRE_CONFIRM", "BLOCK"}
    /\ req[s].error \notin ConsumeError
    /\ req[s].outcome = "REQUIRE_CONFIRM" /\ req[s].receipt # None =>
          req[s].receipt.plan_hash = calls[d].signals

Offers(s, d) ==
    /\ Trail(d) = Before(req[s].error)
    /\ req[s].outcome = "REQUIRE_CONFIRM"
    /\ req[s].error \in ConsumeError => Explained(d, req[s].error)
    /\ req[s].receipt.plan_hash = calls[d].signals
    /\ pc[s] \in {"log_issued", "log_reused"} => Holds(req[s].receipt)

Executes(s, d) ==
    /\ Trail(d) = IF pc[s] = "log_accepted" THEN <<"decision.assessed", "receipt.consumed">>
                                            ELSE <<"decision.assessed">>
    /\ req[s].outcome = "ALLOW"
    /\ pc[s] \in {"log_consumed", "log_accepted"} => Spent(KeyOf(d))
    /\ IF pc[s] = "log_rejected"
       THEN req[s].error \in ConsumeError /\ Explained(d, req[s].error)
       ELSE req[s].error \notin ConsumeError

Handled(s, d) ==
    /\ req[s].outcome = "ALLOW"  => Rightful(d)
    /\ pc[s] = "log_assessed"    => Assessed(s, d)
    /\ pc[s] \in Offering        => Offers(s, d)
    /\ pc[s] \in Executing       => Executes(s, d)

(* What is true of an answer from when it is ready.                        *)
Evident(a) ==
    /\ Accepted(a) => Trail(a.decision_id) =
                         <<"decision.assessed", "receipt.consumed", "execute.accepted">>
    /\ a.outcome \in {"ALLOW", "BLOCK"} /\ ~Accepted(a) =>
          Trail(a.decision_id) = <<"decision.assessed">>
    /\ a.outcome = "REQUIRE_CONFIRM" =>
          IF a.receipt = None THEN Trail(a.decision_id) = Before(a.error)
          ELSE \E offer \in {"receipt.issued", "receipt.reused"} :
                  Trail(a.decision_id) = Append(Before(a.error), offer)

GoodAnswer(a) ==
    /\ Evident(a)
    /\ a.outcome = "ALLOW" => Rightful(a.decision_id)
    /\ Accepted(a) => Spent(KeyOf(a.decision_id))
    /\ a.outcome = "REQUIRE_CONFIRM" /\ a.receipt # None =>
          Holds(a.receipt) /\ a.receipt.plan_hash = calls[a.decision_id].signals
    /\ a.error \in ConsumeError => Explained(a.decision_id, a.error)

AnswerOf(s) == [decision_id |-> req[s].decision_id, outcome |-> req[s].outcome,
                error |-> req[s].error, receipt |-> req[s].receipt]

AllAnswers == replies \cup {AnswerOf(s) : s \in {t \in Server : pc[t] = "respond"}}

(* What is true of an event from when it is in the log of call d.          *)
GoodEvent(d, e) ==
    /\ e.event_type \in {"receipt.issued", "receipt.reused"} => Holds(e.receipt)
    /\ e.event_type \in {"receipt.consumed", "execute.accepted"} =>
          IsExecute(calls[d]) /\ e.receipt = KeyOf(d) /\ Spent(KeyOf(d))

LoggedEvents(d) == {decision_logs[d][i] : i \in DOMAIN decision_logs[d]}

Trails ==
    {<<>>} \cup {Before(error) : error \in ConfirmError}
      \cup {Append(Before(error), offer) : error \in ConfirmError,
                                           offer \in {"receipt.issued", "receipt.reused"}}
      \cup {<<"decision.assessed", "receipt.consumed">>,
            <<"decision.assessed", "receipt.consumed", "execute.accepted">>}

Recording ==
    \A d \in Decision :
        /\ Trail(d) \in Trails
        /\ \A e \in LoggedEvents(d) : GoodEvent(d, e)

(* The calls that consumed the receipt they named and may still say so.    *)
Claims(d) ==
    \/ Len(Trail(d)) > 1 /\ Trail(d)[2] = "receipt.consumed"
    \/ \E s \in Server : Serves(s, d) /\ pc[s] = "log_consumed"

Once ==
    \A d, e \in Decision :
        Claims(d) /\ Claims(e) /\ KeyOf(d).receipt_id = KeyOf(e).receipt_id => d = e

LogInv ==
    /\ IInv
    /\ Served
    /\ \A s \in Server, d \in Decision : Serves(s, d) => Handled(s, d)
    /\ Recording
    /\ Once

AInv == LogInv /\ \A a \in AllAnswers : GoodAnswer(a)

-----------------------------------------------------------------------------
(* Time, where the clock is not set back.                                  *)

Expired(d) ==
    LET row == receipts[KeyOf(d).receipt_id] IN
    IsExecute(calls[d]) /\ row # NoRow /\ row.expires_at <= clock

(* A receipt that was called expired is, and stays so.                     *)
TimeInv ==
    /\ \A s \in Server : req[s].ts <= clock
    /\ \A s \in Server, d \in Decision :
          Serves(s, d) /\ req[s].error = "RECEIPT_EXPIRED" => Expired(d)
    /\ \A a \in replies : a.error = "RECEIPT_EXPIRED" => Expired(a.decision_id)

(* Where, moreover, one process is at work: of two active receipts of one  *)
(* plan the first had expired when the second was issued, and no receipt   *)
(* is younger than the call in service.                                    *)
Follows(r, q) == receipts[q].expires_at <= receipts[r].issued_at

Successive ==
    /\ \A r \in Stored(receipts) :
          /\ receipts[r].issued_at <= clock
          /\ \A s \in Server :
                pc[s] \notin {"idle", "down"} => receipts[r].issued_at <= req[s].ts
    /\ \A r, q \in Stored(receipts) :
          /\ receipts[r].status = "active" /\ receipts[q].status = "active"
          /\ receipts[r].plan_hash = receipts[q].plan_hash /\ r # q
          => Follows(r, q) \/ Follows(q, r)
    /\ \A s \in Server : pc[s] = "issue" =>
          ActiveFor(receipts, req[s].receipt.plan_hash, req[s].ts) = {}

OneServer == \A s, t \in Server : s = t

ClockInv == AInv /\ TimeInv /\ (OneServer => Successive)
=============================================================================
