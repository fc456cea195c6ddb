------------------------------ MODULE Receipts ------------------------------
(***************************************************************************)
(* The tables "receipts" and "replay_index" of the SQLite store            *)
(* (src/src/persistence/sqlite_store.ts) as values, and what the           *)
(* repository methods compute from them.  A table of receipts is a total   *)
(* function on Rid; a receipt id without a row maps to NoRow.              *)
(***************************************************************************)
EXTENDS Integers, FiniteSets

CONSTANTS
    Rid,    \* receipt ids makeReceiptId() may draw or a client may name
    Plan,   \* plan hashes, one per class of gated signals
    Nonce,  \* nonces makeNonce() may draw or a client may name
    TTL,    \* lifetime of a receipt, in ticks of the clock (5 minutes)
    None    \* no value

ASSUME ReceiptsAssumption ==
    /\ TTL \in Nat \ {0}
    /\ None \notin Rid \cup Plan \cup Nonce \cup Nat
    /\ None \notin [receipt_id : Rid, plan_hash : Plan, nonce : Nonce]
    /\ Plan \cap {"absent", "low", "extreme"} = {}

(* What an EXECUTE presents, and what buildExecutionKey makes a key of.    *)
Key == [receipt_id : Rid, plan_hash : Plan, nonce : Nonce]

Binding(r, p, n) == [receipt_id |-> r, plan_hash |-> p, nonce |-> n]

NoRow == [status |-> "missing"]

Row == [plan_hash : Plan, nonce : Nonce, status : {"active", "consumed"},
        issued_at : Nat, expires_at : Nat, consumed_at : Nat \cup {None}]

(* Mutant: the expiry is forgotten.                                        *)
NewRowWithoutExpiry(key, now) ==
    [plan_hash |-> key.plan_hash, nonce |-> key.nonce, status |-> "active",
     issued_at |-> now, expires_at |-> None, consumed_at |-> None]

NewRow(key, now) ==
    [plan_hash |-> key.plan_hash, nonce |-> key.nonce, status |-> "active",
     issued_at |-> now, expires_at |-> now + TTL, consumed_at |-> None]

ConsumedRow(row, now) == [row EXCEPT !.status = "consumed", !.consumed_at = now]

Stored(receipts) == {r \in Rid : receipts[r] # NoRow}

(* The binding under which receipt r is stored.                            *)
BindingOf(receipts, r) == Binding(r, receipts[r].plan_hash, receipts[r].nonce)

Usable(row, now) == row.status = "active" /\ row.expires_at > now

(* The rows findActiveReceiptByPlanHash may answer with: SQLite is free to *)
(* pick any of the latest ones when issued_at ties.                        *)
ActiveFor(receipts, plan, now) ==
    {r \in Rid : receipts[r].status = "active" /\ receipts[r].plan_hash = plan
                                               /\ receipts[r].expires_at > now}

LatestActive(receipts, plan, now) ==
    {r \in ActiveFor(receipts, plan, now) :
        \A o \in ActiveFor(receipts, plan, now) :
            receipts[o].issued_at <= receipts[r].issued_at}

(* Mutant: the very instant of expiry counts as in time.                   *)
ReceiptStateLenient(receipts, r, now) ==
    IF receipts[r].status = "active"
    THEN IF receipts[r].expires_at < now THEN "expired" ELSE "active"
    ELSE receipts[r].status

(* What getReceiptState says of receipt r, and hasExecutionKey of a key.   *)
ReceiptState(receipts, r, now) ==
    IF receipts[r].status = "active"
    THEN IF receipts[r].expires_at <= now THEN "expired" ELSE "active"
    ELSE receipts[r].status

HasExecutionKey(replay_index, key) == key \in replay_index

(* Mutant: the nonce is not compared.                                      *)
VerdictIgnoringNonce(receipts, replay_index, key, now) ==
    LET row == receipts[key.receipt_id] IN
    IF row = NoRow THEN "MISSING_RECEIPT"
    ELSE IF row.status # "active"           THEN "REPLAY_DETECTED"
    ELSE IF row.expires_at <= now           THEN "RECEIPT_EXPIRED"
    ELSE IF row.plan_hash # key.plan_hash   THEN "PLAN_HASH_MISMATCH"
    ELSE "ok"

(* Mutant: the error of the line above is copied to the test of the nonce. *)
VerdictBlamingPlan(receipts, replay_index, key, now) ==
    LET row == receipts[key.receipt_id] IN
    IF row = NoRow THEN "MISSING_RECEIPT"
    ELSE IF row.status # "active"
         THEN IF key \in replay_index THEN "REPLAY_DETECTED" ELSE "RECEIPT_CONSUMED"
    ELSE IF row.expires_at <= now           THEN "RECEIPT_EXPIRED"
    ELSE IF \/ row.plan_hash # key.plan_hash
            \/ row.nonce # key.nonce        THEN "PLAN_HASH_MISMATCH"
    ELSE "ok"

(* The verdict of the checks in consumeReceipt, in the order of the code.  *)
ConsumeVerdict(receipts, replay_index, key, now) ==
    LET row == receipts[key.receipt_id] IN
    IF row = NoRow THEN "MISSING_RECEIPT"
    ELSE IF row.status # "active"
         THEN IF key \in replay_index THEN "REPLAY_DETECTED" ELSE "RECEIPT_CONSUMED"
    ELSE IF row.expires_at <= now           THEN "RECEIPT_EXPIRED"
    ELSE IF row.plan_hash # key.plan_hash   THEN "PLAN_HASH_MISMATCH"
    ELSE IF row.nonce # key.nonce           THEN "NONCE_MISMATCH"
    ELSE IF key \in replay_index            THEN "REPLAY_DETECTED"
    ELSE "ok"

ConsumeError == {"MISSING_RECEIPT", "REPLAY_DETECTED", "RECEIPT_CONSUMED",
                 "RECEIPT_EXPIRED", "PLAN_HASH_MISMATCH", "NONCE_MISMATCH"}
=============================================================================
