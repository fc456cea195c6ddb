------------------------------ MODULE RoundTrip ------------------------------
(***************************************************************************)
(* Clients that follow the hint of the answers: ask, present the receipt   *)
(* they are handed, and when that is rejected present the one handed out   *)
(* in its place (src/scripts/verify_use_smoke.mjs,                         *)
(* src/scripts/verify_guardrail.ts).  Every client has a server process    *)
(* of its own, started over stdio, and all of them work on one plan each   *)
(* in the same store.  A call that fails, or whose process died, is sent   *)
(* again.  One of them may once present something else than it was handed: *)
(* the server cannot tell what its callers put into "confirm".             *)
(***************************************************************************)
EXTENDS ExecutionControl

CONSTANT Task   \* the plan each client works on

ASSUME RoundTripAssumption == Task \in [Server -> Plan] /\ Rid \subseteq Nat

VARIABLES
    held,    \* the binding each client was handed last
    done,    \* the clients whose execution was accepted
    misused  \* the calls that did not present what was handed out

client        == <<held, done, misused>>
roundTripVars == <<vars, client>>

RoundTripInit == Init /\ held = [s \in Server |-> None] /\ done = {} /\ misused = {}

(* What client s sends next.                                               *)
NextCall(s) ==
    [signals |-> Task[s],
     confirm |-> IF held[s] = None THEN [mode |-> "NONE"]
                 ELSE [mode |-> "EXECUTE", key |-> held[s]]]

(* A drawn id is one that nobody has: it has 48 random bits.  Ids are only *)
(* compared, so it makes no difference which unused one it is.             *)
Used == Stored(receipts) \cup
            {req[s].receipt.receipt_id : s \in {t \in Server : req[t].receipt # None}}

NextUnused == {id \in Rid \ Used : \A other \in Rid \ Used : id <= other}

FreshDraw(s) ==
    /\ pc[s] \in {"idle", "log_rejected"} /\ pc'[s] # pc[s]
    /\ req'[s].outcome = "REQUIRE_CONFIRM" /\ req'[s].receipt # None
    => req'[s].receipt.receipt_id \in NextUnused

(* Bound: one thing goes wrong, an error, a crash, a client that presents  *)
(* something else, or a wait for the lock that runs out although a         *)
(* transaction takes milliseconds.                                         *)
SoFarSoGood ==
    /\ faults = 0 /\ misused = {}
    /\ \A s \in Server : req[s].outcome # "PERSISTENCE_FAILURE"
    /\ \A reply \in replies : reply.outcome # "PERSISTENCE_FAILURE"

Send(s) ==
    /\ s \notin done
    /\ calls' = Append(calls, NextCall(s))
    /\ Receive(s) \/ (SoFarSoGood /\ ReceiveAndFail(s))
    /\ FreshDraw(s)
    /\ UNCHANGED client

(* The call a client may make with one thing changed: the plan_hash, the   *)
(* nonce, the receipt id to one that nobody has, or the signals, to those  *)
(* of another plan, over the extreme thresholds, or harmless ones.         *)
Misuses(s) ==
    LET execute(signals, key) ==
            [signals |-> signals, confirm |-> [mode |-> "EXECUTE", key |-> key]]
    IN  {execute(Task[s], [held[s] EXCEPT !.plan_hash = p]) : p \in Plan \ {Task[s]}} \cup
        {execute(Task[s], [held[s] EXCEPT !.nonce = n]) : n \in Nonce \ {held[s].nonce}} \cup
        {execute(Task[s], [held[s] EXCEPT !.receipt_id = id]) : id \in NextUnused} \cup
        {execute(signals, held[s]) : signals \in Signals \ {Task[s], "absent"}}

Misuse(s) ==
    /\ s \notin done /\ held[s] # None
    /\ SoFarSoGood
    /\ \E call \in Misuses(s) : calls' = Append(calls, call)
    /\ Receive(s)
    /\ FreshDraw(s)
    /\ misused' = {Len(calls')}
    /\ UNCHANGED <<held, done>>

(* What the client makes of an answer: it is done, it has a receipt to     *)
(* present, or it sends the same call again.  The answer to a misuse       *)
(* counts for neither.                                                     *)
Learn(s) ==
    LET counts   == req[s].decision_id \notin misused
        handed   == counts /\ req[s].outcome = "REQUIRE_CONFIRM" /\ req[s].receipt # None
        accepted == counts /\ req[s].outcome = "ALLOW"
    IN  /\ held' = IF handed THEN [held EXCEPT ![s] = req[s].receipt] ELSE held
        /\ done' = IF accepted THEN done \cup {s} ELSE done
        /\ UNCHANGED misused

Serve(s) ==
    /\ Handle(s)
    /\ faults' # faults \/ (pc[s] \in Writing /\ writer \notin {None, s}) => SoFarSoGood
    /\ FreshDraw(s)
    /\ IF pc[s] = "respond" THEN Learn(s) ELSE UNCHANGED client

Recover(s) == Restart(s) /\ UNCHANGED client

Disturb ==
    /\ SoFarSoGood
    /\ \E s \in Server : StatementFails(s) \/ Crash(s)
    /\ UNCHANGED client

GetsOn(s) == Send(s) \/ Serve(s) \/ Recover(s)

RoundTripNext == (\E s \in Server : GetsOn(s) \/ Misuse(s)) \/ Disturb

(* A process gets on with its call, a client sends the next one, and it    *)
(* starts its server again when it is gone: these never compete.  Nothing  *)
(* has to fail.  The clock stands still: a round trip takes less than the  *)
(* five minutes of a receipt.                                              *)
RoundTripSpec ==
    /\ RoundTripInit /\ [][RoundTripNext]_roundTripVars
    /\ \A s \in Server : WF_roundTripVars(GetsOn(s))

-----------------------------------------------------------------------------
(* Properties.                                                             *)

(* Every client gets its execution accepted, although another consumes the *)
(* receipt it was handed, a call fails, or a process dies with a call that *)
(* it has executed.  So every call is answered unless its process dies: no *)
(* wait for the lock of another process, no rejected transaction and no    *)
(* exception in one blocks it, or anybody else, for good.                  *)
GetsThrough == <>(done = Server)

(* A client that presents what it was handed is told REPLAY_DETECTED when  *)
(* somebody was faster, also when that was its own call whose answer got   *)
(* lost, and nothing else: never that the receipt does not exist, expired, *)
(* was used under another binding, or has another plan or nonce.           *)
HonestRejections ==
    \A reply \in replies : reply.decision_id \notin misused =>
        reply.error \in {None, "REPLAY_DETECTED"}

(* Presenting something else than what was handed out is not accepted and  *)
(* uses up no receipt, with one exception: where the new signals need no   *)
(* confirmation the call is allowed anyway, and the receipt presented with *)
(* it is consumed.  Even then it is one the store holds under exactly the  *)
(* binding presented, never one under another plan or nonce.               *)
MisuseContained ==
    \A reply \in replies :
        LET call == calls[reply.decision_id] IN
        /\ reply.decision_id \in misused
        /\ reply.outcome = "ALLOW" \/ Recorded(reply.decision_id, "receipt.consumed")
        => /\ BaseAction(call.signals) = "ALLOW"
           /\ BindingOf(receipts, call.confirm.key.receipt_id) = call.confirm.key
=============================================================================
