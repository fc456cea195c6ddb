--------------------------- MODULE StoreOpenProofs ---------------------------
(***************************************************************************)
(* Theorems about StoreOpen, for any set of processes, any files and any   *)
(* number of crashes.                                                      *)
(***************************************************************************)
EXTENDS StoreOpen, TLAPS

(* A statement changes a file into a file, takes nothing away from it and  *)
(* moves its identity and version only to those of this program.           *)
LEMMA EffectGrows ==
    ASSUME NEW f \in File, NEW statement \in Statements
    PROVE  LET g == Effect(statement, f) IN
        /\ g \in File
        /\ f.tables \subseteq g.tables /\ f.triggers \subseteq g.triggers
        /\ g.damaged = f.damaged /\ (f.schema_version => g.schema_version)
        /\ g.application_id \in {f.application_id, "ours"}
        /\ g.user_version \in {f.user_version, 1}
        /\ statement = "application_id" => g.application_id = "ours"
        /\ statement = "user_version" => g.user_version = 1
<1>1. CASE statement = "journal"
  BY <1>1 DEF Effect, File
<1>2. CASE statement \in Critical
  BY <1>2 DEF Effect, File, Critical
<1>3. CASE statement \in Triggers
  BY <1>3 DEF Effect, File, Critical, Triggers
<1>4. CASE statement = "application_id"
  BY <1>4 DEF Effect, File, Critical, Triggers
<1>5. CASE statement = "user_version"
  BY <1>5 DEF Effect, File, Critical, Triggers
<1> QED  BY <1>1, <1>2, <1>3, <1>4, <1>5 DEF Statements

(* What every step does to the file: nothing, a statement of a process     *)
(* that stands at it, or the missing column.                               *)
LEMMA FileStep ==
    ASSUME TypeOK, [Next]_vars
    PROVE  \/ UNCHANGED file
           \/ \E s \in Server : pc[s] \in Statements /\ file' = Effect(pc[s], file)
           \/ \E s \in Server : /\ pc[s] = "add_column"
                                /\ file' = [file EXCEPT !.schema_version = TRUE]
BY DEF Next, Open, Start, ReadState, CheckColumns, Statement, ReadColumns, AddColumn, Validate,
       Interrupt, AllOpen, vars

(* The same as a comparison of the file before and after.                  *)
LEMMA FileGrows ==
    ASSUME TypeOK, [Next]_vars
    PROVE  /\ file' \in File
           /\ file.tables \subseteq file'.tables /\ file.triggers \subseteq file'.triggers
           /\ file'.damaged = file.damaged /\ (file.schema_version => file'.schema_version)
           /\ file'.application_id \in {file.application_id, "ours"}
           /\ file'.user_version \in {file.user_version, 1}
<1>0. file \in File
  BY DEF TypeOK
<1>1. CASE UNCHANGED file
  BY <1>0, <1>1
<1>2. ASSUME NEW s \in Server, pc[s] \in Statements, file' = Effect(pc[s], file)
      PROVE  /\ file' \in File
             /\ file.tables \subseteq file'.tables /\ file.triggers \subseteq file'.triggers
             /\ file'.damaged = file.damaged /\ (file.schema_version => file'.schema_version)
             /\ file'.application_id \in {file.application_id, "ours"}
             /\ file'.user_version \in {file.user_version, 1}
  BY <1>0, <1>2, EffectGrows
<1>3. CASE file' = [file EXCEPT !.schema_version = TRUE]
  BY <1>0, <1>3 DEF File
<1> QED  BY <1>1, <1>2, <1>3, FileStep

(* Every variable keeps its type.                                          *)
LEMMA TypeStep == TypeOK /\ [Next]_vars => TypeOK'
<1> SUFFICES ASSUME TypeOK, [Next]_vars PROVE TypeOK'
  OBVIOUS
<1>1. file' \in File
  BY FileGrows
<1>2. ASSUME NEW s \in Server, NEW label \in Label, Goto(s, label) PROVE TypeOK'
  BY <1>1, <1>2 DEF Goto, TypeOK
<1>3. ASSUME NEW s \in Server, NEW error \in Errors, Reject(s, error) PROVE TypeOK'
  BY <1>1, <1>3 DEF Reject, TypeOK, Label
<1>4. ASSUME NEW s \in Server, Start(s) \/ ReadState(s) \/ CheckColumns(s) \/ ReadColumns(s)
                                 \/ AddColumn(s) \/ Validate(s)
      PROVE  (\E label \in Label : Goto(s, label)) \/ (\E error \in Errors : Reject(s, error))
  BY <1>4, Zenon DEF Start, ReadState, CheckColumns, ReadColumns, AddColumn, Validate, Label,
              Errors, Statements, Critical, Triggers
<1>5. ASSUME NEW s \in Server, Statement(s) PROVE \E label \in Label : Goto(s, label)
  <2>1. \A statement \in Statements : Follow[statement] \in Label
    BY DEF Follow, Statements, Critical, Triggers, Label
  <2> QED  BY <1>5, <2>1 DEF Statement
<1>6. ASSUME NEW s \in Server, Interrupt(s) PROVE TypeOK'
  BY <1>1, <1>6 DEF Interrupt, TypeOK, Label, Errors
<1>7. CASE UNCHANGED vars
  BY <1>7 DEF vars, TypeOK
<1> QED  BY <1>2, <1>3, <1>4, <1>5, <1>6, <1>7 DEF Next, Open, AllOpen

(* The variables have their types at first.                                *)
LEMMA TypeInit == Init => TypeOK
BY StoreOpenAssumption DEF Init, TypeOK, Label, Errors

(* MigrationCrashSafe: a supported store stays one at every step of a      *)
(* migration, so also at a crash between two steps.                        *)
THEOREM MigrationCrashSafeHolds == Spec => []MigrationCrashSafe
<1>1. Init => MigrationCrashSafe
  BY DEF Init, MigrationCrashSafe
<1>2. TypeOK /\ MigrationCrashSafe /\ [Next]_vars => MigrationCrashSafe'
  <2> SUFFICES ASSUME TypeOK, MigrationCrashSafe, [Next]_vars PROVE MigrationCrashSafe'
    OBVIOUS
  <2>1. origin' = origin
    BY DEF Next, Open, Start, ReadState, CheckColumns, Statement, ReadColumns, AddColumn,
           Validate, Interrupt, AllOpen, Goto, Reject, vars
  <2>2. Supported(file) => Supported(file')
    BY FileGrows DEF Supported, TypeOK, File
  <2> QED  BY <2>1, <2>2 DEF MigrationCrashSafe
<1> QED  BY <1>1, <1>2, TypeInit, TypeStep, PTL DEF Spec

-----------------------------------------------------------------------------
(* A file this program does not support is read and nothing else: a        *)
(* process gets past the reading of its state only if only a damaged table *)
(* is wrong with it, and then no further than the columns.                 *)
Refused == ~Fresh(origin) /\ ~Supported(origin)

OnlyRead ==
    Refused =>
        /\ file = origin
        /\ \A s \in Server : pc[s] \in {"down", "read_state", "check_columns"}
        /\ \A s \in Server : pc[s] = "check_columns" => file.damaged # {}

(* A process that opens a file it must reject never gets beyond reading it.*)
LEMMA OnlyReadStep == TypeOK /\ OnlyRead /\ [Next]_vars => OnlyRead'
<1> SUFFICES ASSUME TypeOK, OnlyRead, [Next]_vars, Refused' PROVE OnlyRead'
  BY DEF OnlyRead
<1>0. origin' = origin
  BY DEF Next, Open, Start, ReadState, CheckColumns, Statement, ReadColumns, AddColumn,
         Validate, Interrupt, AllOpen, Goto, Reject, vars
<1>1. /\ Refused /\ file = origin /\ file \in File
      /\ \A t \in Server : pc[t] \in {"down", "read_state", "check_columns"}
      /\ \A t \in Server : pc[t] = "check_columns" => file.damaged # {}
  BY <1>0 DEF OnlyRead, Refused, TypeOK
<1>2. ASSUME NEW s \in Server, NEW label \in {"down", "read_state", "check_columns"},
             pc' = [pc EXCEPT ![s] = label], file' = file,
             label = "check_columns" => file.damaged # {}
      PROVE  OnlyRead'
  BY <1>0, <1>1, <1>2 DEF OnlyRead, TypeOK
<1>3. ASSUME NEW s \in Server, Start(s) \/ Interrupt(s) PROVE OnlyRead'
  BY <1>2, <1>3 DEF Start, Interrupt, Goto
<1>4. ASSUME NEW s \in Server, ReadState(s) PROVE OnlyRead'
  <2>1. CASE \E error \in Errors : Reject(s, error)
    BY <1>2, <1>4, <2>1 DEF ReadState, Reject
  <2>2. CASE /\ file.application_id \in {"unset", "ours"} /\ file.user_version <= 1
             /\ file.tables \cap Critical = Critical /\ Goto(s, "check_columns")
    <3>1. Critical \subseteq file.tables
      BY <2>2
    <3>2. file.damaged # {}
      BY <1>1, <2>2, <3>1 DEF Refused, Supported
    <3> QED  BY <1>2, <1>4, <2>2, <3>2 DEF ReadState, Goto
  <2>3. ~(file.application_id \in {"unset", "ours"} /\ file.user_version <= 1 /\ file.tables = {})
    BY <1>1 DEF Refused, Fresh
  <2> QED  BY <1>4, <2>1, <2>2, <2>3, Zenon DEF ReadState, Errors
<1>5. ASSUME NEW s \in Server, CheckColumns(s) PROVE OnlyRead'
  BY <1>1, <1>2, <1>5 DEF CheckColumns, Reject
<1>6. ASSUME NEW s \in Server,
             Statement(s) \/ ReadColumns(s) \/ AddColumn(s) \/ Validate(s)
      PROVE  FALSE
  <2>1. pc[s] \in Statements \cup {"read_columns", "add_column", "validate"}
    BY <1>6, Zenon DEF Statement, ReadColumns, AddColumn, Validate
  <2>2. pc[s] \in {"down", "read_state", "check_columns"}
    BY <1>1
  <2> QED  BY <2>1, <2>2 DEF Statements, Critical, Triggers
<1>7. CASE UNCHANGED vars
  BY <1>0, <1>1, <1>7 DEF vars, OnlyRead
<1> QED  BY <1>3, <1>4, <1>5, <1>6, <1>7 DEF Next, Open, AllOpen

(* ForeignUntouched: a file the documents say is rejected is never written *)
(* to, however many processes open it, and however often.                  *)
THEOREM ForeignUntouchedHolds == Spec => []ForeignUntouched
<1>1. Init => OnlyRead
  BY DEF Init, OnlyRead
<1>2. OnlyRead => ForeignUntouched
  BY DEF OnlyRead, ForeignUntouched, Refused
<1> QED  BY <1>1, <1>2, OnlyReadStep, TypeInit, TypeStep, PTL DEF Spec

-----------------------------------------------------------------------------
(* What a process at each label of the second half has seen to.            *)
Stamped ==
    \A s \in Server :
        /\ pc[s] \in {"user_version", "validate", "open"} => file.application_id = "ours"
        /\ pc[s] \in {"validate", "open"} => file.user_version = 1
        /\ pc[s] = "open" => Sound(file)

(* None of it is undone by another process.                                *)
LEMMA StampedStep == TypeOK /\ Stamped /\ [Next]_vars => Stamped'
<1> SUFFICES ASSUME TypeOK, Stamped, [Next]_vars PROVE Stamped'
  OBVIOUS
<1>0. /\ file.application_id = "ours" => file'.application_id = "ours"
      /\ file.user_version = 1 => file'.user_version = 1
      /\ Sound(file) => Sound(file')
  <2>1. file \in File /\ file' \in File
    BY FileGrows DEF TypeOK
  <2> QED  BY <2>1, FileGrows DEF Sound, File
<1>1. ASSUME NEW s \in Server, NEW label, pc' = [pc EXCEPT ![s] = label],
             label \in {"user_version", "validate", "open"} => file'.application_id = "ours",
             label \in {"validate", "open"} => file'.user_version = 1,
             label = "open" => Sound(file')
      PROVE  Stamped'
  BY <1>0, <1>1 DEF Stamped, TypeOK
<1>2. ASSUME NEW s \in Server,
             Start(s) \/ ReadState(s) \/ CheckColumns(s) \/ ReadColumns(s) \/ AddColumn(s)
               \/ Interrupt(s)
      PROVE  \E label \in {"down", "read_state", "check_columns", "journal", "application_id",
                           "add_column"} : pc' = [pc EXCEPT ![s] = label]
  BY <1>2, Zenon DEF Start, ReadState, CheckColumns, ReadColumns, AddColumn, Interrupt, Goto, Reject
<1>3. ASSUME NEW s \in Server, Statement(s) PROVE Stamped'
  <2>1. pc' = [pc EXCEPT ![s] = Follow[pc[s]]] /\ file' = Effect(pc[s], file)
        /\ pc[s] \in Statements /\ file \in File
    BY <1>3 DEF Statement, Goto, TypeOK
  <2>2. CASE pc[s] = "application_id"
    <3>1. Follow[pc[s]] = "user_version" /\ file'.application_id = "ours"
      BY <2>1, <2>2, EffectGrows DEF Follow
    <3> QED  BY <1>1, <2>1, <3>1
  <2>3. CASE pc[s] = "user_version"
    <3>1. Follow[pc[s]] = "validate" /\ file'.user_version = 1
      BY <2>1, <2>3, EffectGrows DEF Follow
    <3>2. file'.application_id = "ours"
      BY <1>0, <2>3 DEF Stamped
    <3> QED  BY <1>1, <2>1, <3>1, <3>2
  <2>4. CASE pc[s] \notin {"application_id", "user_version"}
    <3>1. Follow[pc[s]] \notin {"user_version", "validate", "open"}
      BY <2>1, <2>4 DEF Follow, Statements, Critical, Triggers
    <3> QED  BY <1>1, <2>1, <3>1
  <2> QED  BY <2>2, <2>3, <2>4
<1>4. ASSUME NEW s \in Server, Validate(s) PROVE Stamped'
  <2>1. CASE Sound(file)
    BY <1>0, <1>1, <1>4, <2>1 DEF Validate, Goto, Stamped
  <2>2. CASE ~Sound(file)
    BY <1>1, <1>4, <2>2 DEF Validate, Reject
  <2> QED  BY <2>1, <2>2
<1>5. CASE UNCHANGED vars
  BY <1>0, <1>5 DEF vars, Stamped
<1>6. ASSUME NEW s \in Server,
             Start(s) \/ ReadState(s) \/ CheckColumns(s) \/ ReadColumns(s) \/ AddColumn(s)
               \/ Interrupt(s)
      PROVE  Stamped'
  BY <1>1, <1>2, <1>6
<1> QED  BY <1>3, <1>4, <1>5, <1>6 DEF Next, Open, AllOpen

(* OpenIsComplete: a process that has the store open finds it complete and *)
(* stamped as ours, whatever other processes do to the file.               *)
THEOREM OpenIsCompleteHolds == Spec => []OpenIsComplete
<1>1. Init => Stamped
  BY DEF Init, Stamped
<1>2. Stamped => OpenIsComplete
  BY DEF Stamped, OpenIsComplete
<1> QED  BY <1>1, <1>2, StampedStep, TypeInit, TypeStep, PTL DEF Spec

-----------------------------------------------------------------------------
(* TypeOK: the file is a file of the program, whatever the starts, the     *)
(* statements and the deaths of its processes make of it.                  *)
THEOREM TypeCorrect == Spec => []TypeOK
BY TypeInit, TypeStep, PTL DEF Spec

(* What a process past the creating statements has made sure of.           *)
Created(label, f) ==
    /\ label \in {"no_delete", "read_columns", "add_column", "application_id",
                  "user_version", "validate"} => "no_update" \in f.triggers
    /\ label \in {"read_columns", "add_column", "application_id",
                  "user_version", "validate"} => "no_delete" \in f.triggers
    /\ label \in {"application_id", "user_version", "validate"} => f.schema_version

(* Why no check fails on a supported store: the ones at the start read     *)
(* what every migration preserves, the last one what the process itself    *)
(* has created or found, and no other process takes away.                  *)
Accepting ==
    Supported(origin) =>
        /\ Supported(file)
        /\ \A s \in Server : verdict[s] \in {"none", "WRITE_FAILED"} /\ Created(pc[s], file)

(* What is in the file stays there, so what one process has created is     *)
(* created for good.                                                       *)
LEMMA CreatedStays ==
    ASSUME NEW label, NEW f \in File, NEW g \in File,
           f.triggers \subseteq g.triggers, f.schema_version => g.schema_version,
           Created(label, f)
    PROVE  Created(label, g)
BY DEF Created

(* The statement a process stands at brings it to the next label with what *)
(* that label asks for.                                                    *)
LEMMA CreatedNext ==
    ASSUME NEW f \in File, NEW statement \in Statements, Created(statement, f)
    PROVE  Created(Follow[statement], Effect(statement, f))
<1> DEFINE g == Effect(statement, f)
<1>0. /\ g \in File /\ f.triggers \subseteq g.triggers
      /\ f.schema_version => g.schema_version
  BY EffectGrows
<1>1. CASE statement \in {"journal", "receipts", "replay_index", "decision_logs"}
  BY <1>1 DEF Follow, Created
<1>2. CASE statement \in Triggers
  <2>1. statement \in g.triggers
    BY <1>2 DEF Effect, File, Critical, Triggers
  <2> QED  BY <1>0, <1>2, <2>1 DEF Follow, Created, Triggers
<1>3. CASE statement \in {"application_id", "user_version"}
  BY <1>0, <1>3 DEF Follow, Created
<1> QED  BY <1>1, <1>2, <1>3 DEF Statements, Critical, Triggers

(* No step of any process turns another one away from a supported store.   *)
LEMMA AcceptingStep == TypeOK /\ Accepting /\ [Next]_vars => Accepting'
<1> SUFFICES ASSUME TypeOK, Accepting, [Next]_vars, Supported(origin)' PROVE Accepting'
  BY DEF Accepting
<1>0. origin' = origin
  BY DEF Next, Open, Start, ReadState, CheckColumns, Statement, ReadColumns, AddColumn,
         Validate, Interrupt, AllOpen, Goto, Reject, vars
<1>1. /\ Supported(file) /\ file \in File /\ file' \in File
      /\ \A t \in Server : verdict[t] \in {"none", "WRITE_FAILED"} /\ Created(pc[t], file)
  BY <1>0, FileGrows DEF Accepting, TypeOK, Supported
<1>2. Supported(file')
  BY <1>1, FileGrows DEF Supported, File
<1>3. \A t \in Server : Created(pc[t], file')
  BY <1>1, FileGrows, CreatedStays
<1>4. ASSUME NEW s \in Server, NEW label, Goto(s, label), Created(label, file')
      PROVE  Accepting'
  BY <1>1, <1>2, <1>3, <1>4 DEF Goto, Accepting, TypeOK
<1>5. ASSUME NEW s \in Server, Reject(s, "WRITE_FAILED") PROVE Accepting'
  <2>1. Created("down", file')
    BY DEF Created
  <2> QED  BY <1>1, <1>2, <1>3, <1>5, <2>1 DEF Reject, Accepting, TypeOK
<1>6. ASSUME NEW s \in Server, Start(s) PROVE Accepting'
  BY <1>4, <1>6 DEF Start, Created
<1>7. ASSUME NEW s \in Server, ReadState(s) PROVE Accepting'
  <2>1. file.tables \cap Critical = Critical /\ file.tables # {}
    BY <1>1 DEF Supported, Critical
  <2>2. /\ file.application_id \in {"unset", "ours"} /\ file.user_version <= 1
        /\ ~(file.user_version > 1)
    BY <1>1 DEF Supported, File
  <2>3. file.application_id \notin {"other", "unreadable"}
    BY <2>2
  <2>4. Critical # {}
    BY DEF Critical
  <2>5. Goto(s, "check_columns")
    BY <1>7, <2>1, <2>2, <2>3, <2>4, Zenon DEF ReadState
  <2> QED  BY <1>4, <2>5 DEF Created
<1>8. ASSUME NEW s \in Server, CheckColumns(s) PROVE Accepting'
  <2>1. Goto(s, "journal")
    BY <1>1, <1>8 DEF CheckColumns, Supported
  <2> QED  BY <1>4, <2>1 DEF Created
<1>9. ASSUME NEW s \in Server, Statement(s) PROVE Accepting'
  <2>1. Created(Follow[pc[s]], Effect(pc[s], file))
    BY <1>1, <1>9, CreatedNext DEF Statement
  <2>2. Created(Follow[pc[s]], file')
    BY <1>9, <2>1 DEF Statement
  <2> QED  BY <1>4, <1>9, <2>2 DEF Statement
<1>10. ASSUME NEW s \in Server, ReadColumns(s) PROVE Accepting'
  <2>1. Created("read_columns", file)
    BY <1>1, <1>10 DEF ReadColumns
  <2>2. CASE file.schema_version
    <3>1. Created("application_id", file')
      BY <1>10, <2>1, <2>2 DEF ReadColumns, Created
    <3> QED  BY <1>4, <1>10, <2>2, <3>1 DEF ReadColumns
  <2>3. CASE ~file.schema_version
    <3>1. Created("add_column", file')
      BY <1>10, <2>1 DEF ReadColumns, Created
    <3> QED  BY <1>4, <1>10, <2>3, <3>1 DEF ReadColumns
  <2> QED  BY <2>2, <2>3
<1>11. ASSUME NEW s \in Server, AddColumn(s) PROVE Accepting'
  <2>1. Created("add_column", file)
    BY <1>1, <1>11 DEF AddColumn
  <2>2. CASE file' = [file EXCEPT !.schema_version = TRUE] /\ Goto(s, "application_id")
    <3>1. Created("application_id", file')
      BY <1>1, <2>1, <2>2 DEF Created, File
    <3> QED  BY <1>4, <2>2, <3>1
  <2> QED  BY <1>5, <1>11, <2>2 DEF AddColumn
<1>12. ASSUME NEW s \in Server, Validate(s) PROVE Accepting'
  <2>1. Created("validate", file)
    BY <1>1, <1>12 DEF Validate
  <2>2. Sound(file)
    BY <1>1, <2>1 DEF Sound, Supported, Created, File, Triggers
  <2>3. Goto(s, "open")
    BY <1>12, <2>2 DEF Validate
  <2> QED  BY <1>4, <2>3 DEF Created
<1>13. ASSUME NEW s \in Server, Interrupt(s) PROVE Accepting'
  <2>1. Created("down", file')
    BY DEF Created
  <2>2. /\ pc' = [pc EXCEPT ![s] = "down"]
        /\ verdict' = verdict \/ verdict' = [verdict EXCEPT ![s] = "WRITE_FAILED"]
    BY <1>13 DEF Interrupt
  <2> QED  BY <1>1, <1>2, <1>3, <2>1, <2>2 DEF Accepting, TypeOK
<1>14. CASE UNCHANGED vars
  BY <1>0, <1>1, <1>14 DEF vars, Accepting
<1> QED  BY <1>6, <1>7, <1>8, <1>9, <1>10, <1>11, <1>12, <1>13, <1>14 DEF Next, Open, AllOpen

(* SupportedAccepted: no process refuses a supported store for what it is, *)
(* also not one that looks while others migrate it or have died doing so.  *)
THEOREM SupportedAcceptedHolds == Spec => []SupportedAccepted
<1>1. Init => Accepting
  BY DEF Init, Accepting, Created
<1>2. Accepting => SupportedAccepted
  BY DEF Accepting, SupportedAccepted
<1> QED  BY <1>1, <1>2, AcceptingStep, TypeInit, TypeStep, PTL DEF Spec
=============================================================================
