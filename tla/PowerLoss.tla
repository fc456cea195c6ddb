------------------------------ MODULE PowerLoss ------------------------------
(***************************************************************************)
(* ExecutionControl on a machine that loses power.  The store runs with    *)
(* journal_mode = WAL and synchronous = NORMAL (configureRuntimePragmas in *)
(* src/src/persistence/sqlite_store.ts): a commit is appended to the WAL   *)
(* without a sync, and only a checkpoint brings it to the disk for sure.   *)
(* A process that dies loses nothing of it; a machine that does comes back *)
(* with the store as some commit since the last checkpoint left it.        *)
(***************************************************************************)
EXTENDS ExecutionControl

VARIABLES
    survivors,  \* the stores the machine may come back with
    losses      \* the number of calls received at each loss of power

powerVars == <<vars, survivors, losses>>

(* The three tables as one commit leaves them.                             *)
Snapshot == [receipts |-> receipts, replay_index |-> replay_index,
             decision_logs |-> decision_logs]

PowerInit == Init /\ survivors = {Snapshot} /\ losses = {}

(* Any step of a process; what it commits is one more store to come back   *)
(* with.  Bound: a loss of power is the only thing that goes wrong.        *)
Work ==
    /\ Next /\ faults' = faults
    /\ survivors' = survivors \cup {Snapshot'}
    /\ UNCHANGED losses

(* SQLite copies the WAL into the database file and syncs both.            *)
Checkpoint ==
    /\ survivors # {Snapshot}
    /\ survivors' = {Snapshot}
    /\ UNCHANGED <<vars, losses>>

(* Mutant: one file per table, each of which comes back by itself.         *)
OutageTorn ==
    /\ \E a, b, c \in survivors :
        /\ receipts' = a.receipts
        /\ replay_index' = b.replay_index
        /\ decision_logs' = c.decision_logs
        /\ survivors' = {Snapshot'}
    /\ writer' = None /\ pending' = NoPending
    /\ pc' = [s \in Server |-> "down"]
    /\ req' = [s \in Server |-> NoReq]
    /\ losses' = losses \cup {Len(calls)}
    /\ Fault
    /\ UNCHANGED <<clock, calls, replies>>

Outage ==
    /\ \E kept \in survivors :
        /\ receipts' = kept.receipts
        /\ replay_index' = kept.replay_index
        /\ decision_logs' = kept.decision_logs
        /\ survivors' = {kept}
    /\ writer' = None /\ pending' = NoPending
    /\ pc' = [s \in Server |-> "down"]
    /\ req' = [s \in Server |-> NoReq]
    /\ losses' = losses \cup {Len(calls)}
    /\ Fault
    /\ UNCHANGED <<clock, calls, replies>>

PowerNext == Work \/ Checkpoint \/ Outage

PowerSpec == PowerInit /\ [][PowerNext]_powerVars

-----------------------------------------------------------------------------
(* Properties.  StoreAtomic and LogSound hold here too: what comes back is *)
(* one moment of the past, never a receipt without its key or an event     *)
(* without its receipt.                                                    *)

(* A receipt is accepted twice only when power was lost in between, which  *)
(* may undo the commit of the first: ExecutedOnce is not promised across a *)
(* loss of power, and nothing else excuses a second acceptance.            *)
ExecutedOnceBetweenLosses ==
    \A a, b \in replies :
        /\ Accepted(a) /\ Accepted(b) /\ a.decision_id < b.decision_id
        /\ calls[a.decision_id].confirm.key.receipt_id
              = calls[b.decision_id].confirm.key.receipt_id
        => \E n \in losses : a.decision_id <= n /\ n < b.decision_id
=============================================================================
