------------------------------ MODULE StoreOpen ------------------------------
(***************************************************************************)
(* How a server process opens the SQLite file when it starts               *)
(* (openValidatedSqliteDatabase in src/src/persistence/sqlite_store.ts):   *)
(* it checks what the file is, creates or migrates the schema and checks   *)
(* the result.  No transaction spans these statements: each commits by     *)
(* itself, so a process that dies leaves what it wrote so far, and two     *)
(* processes that start together see each other's half-done work.          *)
(*                                                                         *)
(* Indexes are left out: nothing checks them.  A table that exists is one  *)
(* word, except for the columns the checks look at.                        *)
(***************************************************************************)
EXTENDS Integers, FiniteSets

CONSTANTS
    Server,     \* processes opening the file
    Origins,    \* what the file may be before this program ever opens it
    MaxFaults   \* bound: crashes and failing statements

VARIABLES
    file,       \* the database file
    origin,     \* what it was at first
    pc,         \* where the opening of each process stands
    verdict,    \* the error with which each process last gave up
    faults      \* crashes and failing statements so far, to bound them

vars == <<file, origin, pc, verdict, faults>>

Critical == {"receipts", "replay_index", "decision_logs"}
Triggers == {"no_update", "no_delete"}

(* user_version 0 is no version, 1 the one of this code, 2 a later one.    *)
(* "damaged" are the tables that lack a column no migration adds;          *)
(* "schema_version" is the one column of decision_logs a migration adds.   *)
File == [application_id : {"unset", "ours", "other", "unreadable"},
         user_version : 0..2,
         journal : {"delete", "wal"},
         tables : SUBSET (Critical \cup {"foreign"}),
         damaged : SUBSET Critical,
         schema_version : BOOLEAN,
         triggers : SUBSET Triggers]

Errors == {"INVALID_STORE_IDENTITY", "UNSUPPORTED_SCHEMA_VERSION",
           "PARTIAL_SCHEMA", "WRITE_FAILED"}

ASSUME StoreOpenAssumption ==
    /\ MaxFaults \in Nat
    /\ Origins \subseteq File
    /\ \A f \in Origins : f.damaged \subseteq f.tables

-----------------------------------------------------------------------------
(* Statements that write unconditionally, and what follows each.           *)

(* Mutant: the version pragma is forgotten.                                *)
FollowWithoutVersion ==
    [journal |-> "receipts", receipts |-> "replay_index",
     replay_index |-> "decision_logs", decision_logs |-> "no_update",
     no_update |-> "no_delete", no_delete |-> "read_columns",
     application_id |-> "validate", user_version |-> "validate"]

Follow == [journal |-> "receipts", receipts |-> "replay_index",
           replay_index |-> "decision_logs", decision_logs |-> "no_update",
           no_update |-> "no_delete", no_delete |-> "read_columns",
           application_id |-> "user_version", user_version |-> "validate"]

Statements == {"journal", "application_id", "user_version"} \cup Critical \cup Triggers

Label == Statements \cup {"down", "read_state", "check_columns", "read_columns",
                          "add_column", "validate", "open"}

(* Mutant: every opening counts the version up.                            *)
EffectCountingUp(statement, f) ==
    CASE statement = "journal"        -> [f EXCEPT !.journal = "wal"]
      [] statement \in Critical       ->
            [f EXCEPT !.tables = @ \cup {statement},
                      !.schema_version = @ \/ (statement = "decision_logs"
                                               /\ statement \notin f.tables)]
      [] statement \in Triggers       -> [f EXCEPT !.triggers = @ \cup {statement}]
      [] statement = "application_id" -> [f EXCEPT !.application_id = "ours"]
      [] statement = "user_version"   -> [f EXCEPT !.user_version = @ + 1]

(* CREATE ... IF NOT EXISTS adds what is missing; a new decision_logs has  *)
(* the column schema_version.                                              *)
Effect(statement, f) ==
    CASE statement = "journal"        -> [f EXCEPT !.journal = "wal"]
      [] statement \in Critical       ->
            [f EXCEPT !.tables = @ \cup {statement},
                      !.schema_version = @ \/ (statement = "decision_logs"
                                               /\ statement \notin f.tables)]
      [] statement \in Triggers       -> [f EXCEPT !.triggers = @ \cup {statement}]
      [] statement = "application_id" -> [f EXCEPT !.application_id = "ours"]
      [] statement = "user_version"   -> [f EXCEPT !.user_version = 1]

(* validateCriticalStructures                                              *)
Sound(f) == /\ Critical \subseteq f.tables
            /\ f.damaged = {} /\ f.schema_version
            /\ f.triggers = Triggers

TypeOK ==
    /\ file \in File /\ origin \in File
    /\ pc \in [Server -> Label]
    /\ verdict \in [Server -> Errors \cup {"none"}]
    /\ faults \in Nat

Init ==
    /\ origin \in Origins
    /\ file = origin
    /\ pc = [s \in Server |-> "down"]
    /\ verdict = [s \in Server |-> "none"]
    /\ faults = 0

Goto(s, label) ==
    /\ pc' = [pc EXCEPT ![s] = label]
    /\ UNCHANGED <<origin, verdict, faults>>

(* The process closes the file and exits with an error.                    *)
Reject(s, error) ==
    /\ pc' = [pc EXCEPT ![s] = "down"]
    /\ verdict' = [verdict EXCEPT ![s] = error]
    /\ UNCHANGED <<origin, faults>>

-----------------------------------------------------------------------------
(* Mutant: the runtime pragmas come before the file is known to be ours.   *)
StartWithPragmas(s) ==
    /\ pc[s] = "down"
    /\ Goto(s, "read_state")
    /\ file' = [file EXCEPT !.journal = "wal"]

Start(s) ==
    /\ pc[s] = "down"
    /\ Goto(s, "read_state")
    /\ UNCHANGED file

(* The three reads of readExistingStoreState are one step: other openers   *)
(* only move the identity and the version between values both accepted.    *)
ReadState(s) ==
    /\ pc[s] = "read_state"
    /\ LET found == file.tables \cap Critical IN
        \/ /\ file.application_id = "unreadable"
           /\ Reject(s, "WRITE_FAILED")
        \/ /\ \/ file.application_id = "other"
              \/ /\ file.application_id \in {"unset", "ours"} /\ file.user_version <= 1
                 /\ file.tables # {} /\ found = {}
           /\ Reject(s, "INVALID_STORE_IDENTITY")
        \/ /\ file.application_id \in {"unset", "ours"} /\ file.user_version > 1
           /\ Reject(s, "UNSUPPORTED_SCHEMA_VERSION")
        \/ /\ file.application_id \in {"unset", "ours"} /\ file.user_version <= 1
           /\ \/ found = Critical /\ Goto(s, "check_columns")
              \/ file.tables = {} /\ Goto(s, "journal")
              \/ found \notin {{}, Critical} /\ Reject(s, "PARTIAL_SCHEMA")
    /\ UNCHANGED file

(* Mutant: the migration of legacy stores is forgotten.                    *)
CheckColumnsStrictly(s) ==
    /\ pc[s] = "check_columns"
    /\ \/ file.damaged = {} /\ file.schema_version /\ Goto(s, "journal")
       \/ ~(file.damaged = {} /\ file.schema_version) /\ Reject(s, "PARTIAL_SCHEMA")
    /\ UNCHANGED file

CheckColumns(s) ==
    /\ pc[s] = "check_columns"
    /\ \/ file.damaged = {} /\ Goto(s, "journal")
       \/ file.damaged # {} /\ Reject(s, "PARTIAL_SCHEMA")
    /\ UNCHANGED file

Statement(s) ==
    /\ pc[s] \in Statements
    /\ file' = Effect(pc[s], file)
    /\ Goto(s, Follow[pc[s]])

(* Mutant: ALTER TABLE is issued whether or not the column is there.       *)
ReadColumnsUnconditionally(s) ==
    /\ pc[s] = "read_columns"
    /\ Goto(s, "add_column")
    /\ UNCHANGED file

ReadColumns(s) ==
    /\ pc[s] = "read_columns"
    /\ Goto(s, IF file.schema_version THEN "application_id" ELSE "add_column")
    /\ UNCHANGED file

(* Mutant: the table is renamed away and created anew.                     *)
AddColumnByCopy(s) ==
    /\ pc[s] = "add_column"
    /\ file' = [file EXCEPT !.tables = @ \ {"decision_logs"}]
    /\ Goto(s, "decision_logs")

(* ALTER TABLE fails if another process has added the column meanwhile.    *)
AddColumn(s) ==
    /\ pc[s] = "add_column"
    /\ \/ /\ ~file.schema_version
          /\ file' = [file EXCEPT !.schema_version = TRUE]
          /\ Goto(s, "application_id")
       \/ /\ file.schema_version
          /\ UNCHANGED file
          /\ Reject(s, "WRITE_FAILED")

Validate(s) ==
    /\ pc[s] = "validate"
    /\ IF Sound(file) THEN Goto(s, "open") ELSE Reject(s, "PARTIAL_SCHEMA")
    /\ UNCHANGED file

(* The process is killed, or a statement fails and it exits (at any time   *)
(* after that it may be started again): nothing is rolled back.            *)
Interrupt(s) ==
    /\ pc[s] # "down"
    /\ faults < MaxFaults /\ faults' = faults + 1
    /\ pc' = [pc EXCEPT ![s] = "down"]
    /\ \/ UNCHANGED verdict
       \/ pc[s] # "open" /\ verdict' = [verdict EXCEPT ![s] = "WRITE_FAILED"]
    /\ UNCHANGED <<file, origin>>

(* Every process has the file open.                                        *)
AllOpen ==
    /\ \A s \in Server : pc[s] = "open"
    /\ UNCHANGED vars

Open(s) ==
    \/ ReadState(s) \/ CheckColumns(s) \/ Statement(s) \/ ReadColumns(s)
    \/ AddColumn(s) \/ Validate(s)

Next == (\E s \in Server : Start(s) \/ Open(s) \/ Interrupt(s)) \/ AllOpen

(* Opening is synchronous code at start-up: it goes on unless the process  *)
(* dies.  Nothing starts a process, or starts it again.                    *)
Spec     == Init /\ [][Next]_vars
FairSpec == Spec /\ \A s \in Server : WF_vars(Open(s))

-----------------------------------------------------------------------------
(* Properties.                                                             *)

Fresh(f) == f.application_id \in {"unset", "ours"} /\ f.user_version <= 1 /\ f.tables = {}

(* A store of this program, of this version or a legacy one.               *)
Supported(f) ==
    /\ f.application_id \in {"unset", "ours"} /\ f.user_version <= 1
    /\ Critical \subseteq f.tables /\ f.damaged = {}

(* What docs/STATUS_v0.6.md says is rejected is not only rejected but left *)
(* as it was, down to its journal mode, however often it is opened.        *)
ForeignUntouched == ~Fresh(origin) /\ ~Supported(origin) => file = origin

(* A process works only on a complete store, append-only triggers and      *)
(* identity included, and it stays complete whatever other processes that  *)
(* start, migrate or die on the same file do.                              *)
OpenIsComplete ==
    \A s \in Server : pc[s] = "open" =>
        Sound(file) /\ file.application_id = "ours" /\ file.user_version = 1

(* A store that could be opened can be opened after any crash in the       *)
(* middle of a migration: no step passes through an unsupported state.     *)
MigrationCrashSafe == Supported(origin) => Supported(file)

(* No process refuses a supported store for what it is, not even one that  *)
(* looks while another one migrates it.                                    *)
SupportedAccepted ==
    Supported(origin) => \A s \in Server : verdict[s] \in {"none", "WRITE_FAILED"}

(* Processes that start together may turn each other away, but not all of  *)
(* them: one gets the file open unless it is killed or a statement fails.  *)
SomeoneOpens ==
    (\E s \in Server : pc[s] \notin {"down", "open"}) /\ (Fresh(origin) \/ Supported(origin))
        ~> (\E s \in Server : pc[s] = "open") \/ faults > 0

(* docs/SCOPE_FREEZE_v1.0.md: the server survives restart and scale-out.   *)
(* When nobody is opening it, a file this program created can be opened.   *)
OwnFileAccepted ==
    Fresh(origin) /\ (\A s \in Server : pc[s] \in {"down", "open"})
        => Fresh(file) \/ Supported(file)
=============================================================================
