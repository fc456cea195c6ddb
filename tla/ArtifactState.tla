--------------------------- MODULE ArtifactState ---------------------------
(***************************************************************************)
(* .decision_assistant/state.json, the list of what the tools "assess" and *)
(* "detect_triggers" answered (src/src/persistence/state.ts).  Each answer *)
(* is put in front of the list by reading the file, changing the list and  *)
(* writing the whole file again, with no lock against the other server     *)
(* processes; writeFileSync first empties the file.  loadState answers     *)
(* with the default state when it can make no sense of the file; that      *)
(* state is copied shallowly, so its array of artifacts is one array for   *)
(* the life of the process and keeps what is put in front of it.           *)
(*                                                                         *)
(* An artifact is the number of its append; type and payload are left out. *)
(* So is the cooldown, which nothing sets or reads.                        *)
(***************************************************************************)
EXTENDS Integers, Sequences, SequencesExt

CONSTANTS
    Server,      \* server processes started in one directory
    Cap,         \* artifacts kept in the file: 200
    MaxAppends,  \* bound: artifacts in a behaviour
    MaxFaults    \* bound: processes that die, files that cannot be written

ASSUME ArtifactAssumption ==
    Cap \in Nat \ {0} /\ MaxAppends \in Nat /\ MaxFaults \in Nat

VARIABLES
    file,      \* state.json
    fallback,  \* DEFAULT_STATE.artifacts of each process
    pc,        \* where appendArtifact of each process stands
    list,      \* the list that appendArtifact is about to write
    made,      \* the number of artifacts made so far
    failed,    \* the artifacts whose append threw: the client got an error
    blind,     \* the artifacts made while the file could not be read
    since,     \* from this artifact on no append was disturbed
    faults     \* what went wrong so far, only to bound it

vars == <<file, fallback, pc, list, made, failed, blind, since, faults>>

Artifact == 1..MaxAppends

(* The file is missing, just emptied, not JSON, or a whole state.          *)
Unreadable(status) == [status |-> status, artifacts |-> <<>>]
Whole(artifacts)   == [status |-> "whole", artifacts |-> artifacts]
File == [status : {"missing", "empty", "garbled"}, artifacts : {<<>>}]
            \cup [status : {"whole"}, artifacts : Seq(Artifact)]

Init ==
    /\ file = Unreadable("missing")
    /\ fallback = [s \in Server |-> <<>>]
    /\ pc = [s \in Server |-> "idle"]
    /\ list = [s \in Server |-> <<>>]
    /\ made = 0
    /\ failed = {} /\ blind = {}
    /\ since = 1
    /\ faults = 0

Goto(s, label) == pc' = [pc EXCEPT ![s] = label]
Fault == faults < MaxFaults /\ faults' = faults + 1

(* Mutant: the oldest artifacts are kept.                                  *)
NewestOfOldest(artifacts) ==
    SubSeq(artifacts, IF Len(artifacts) > Cap THEN Len(artifacts) - Cap + 1 ELSE 1,
           Len(artifacts))

(* Mutant: the list is not cut.                                            *)
NewestOfAll(artifacts) == artifacts

Newest(artifacts) == SubSeq(artifacts, 1, IF Len(artifacts) < Cap THEN Len(artifacts) ELSE Cap)

(* Mutant: the array read from the file takes the place of the default     *)
(* one.                                                                    *)
LoadCaching(s) ==
    /\ pc[s] = "idle"
    /\ made < MaxAppends
    /\ made' = made + 1
    /\ LET artifacts == <<made'>> \o
              (IF file.status = "whole" THEN file.artifacts ELSE fallback[s])
       IN  /\ list' = [list EXCEPT ![s] = Newest(artifacts)]
           /\ fallback' = [fallback EXCEPT ![s] = artifacts]
    /\ blind' = IF file.status = "whole" THEN blind ELSE blind \cup {made'}
    /\ since' = IF \A t \in Server : pc[t] = "idle" THEN since ELSE made' + 1
    /\ Goto(s, "loaded")
    /\ UNCHANGED <<file, failed, faults>>

(* Mutant: push instead of unshift.                                        *)
LoadPushing(s) ==
    /\ pc[s] = "idle"
    /\ made < MaxAppends
    /\ made' = made + 1
    /\ \/ /\ file.status = "whole"
          /\ list' = [list EXCEPT ![s] = Newest(Append(file.artifacts, made'))]
          /\ UNCHANGED <<fallback, blind>>
       \/ /\ file.status # "whole"
          /\ fallback' = [fallback EXCEPT ![s] = Append(@, made')]
          /\ list' = [list EXCEPT ![s] = Newest(fallback'[s])]
          /\ blind' = blind \cup {made'}
    /\ since' = IF \A t \in Server : pc[t] = "idle" THEN since ELSE made' + 1
    /\ Goto(s, "loaded")
    /\ UNCHANGED <<file, failed, faults>>

(* appendArtifact up to the call of saveState: load, unshift, slice.       *)
Load(s) ==
    /\ pc[s] = "idle"
    /\ made < MaxAppends
    /\ made' = made + 1
    /\ \/ /\ file.status = "whole"
          /\ list' = [list EXCEPT ![s] = Newest(<<made'>> \o file.artifacts)]
          /\ UNCHANGED <<fallback, blind>>
       \/ /\ file.status # "whole"
          /\ fallback' = [fallback EXCEPT ![s] = <<made'>> \o @]
          /\ list' = [list EXCEPT ![s] = Newest(fallback'[s])]
          /\ blind' = blind \cup {made'}
    /\ since' = IF \A t \in Server : pc[t] = "idle" THEN since ELSE made' + 1
    /\ Goto(s, "loaded")
    /\ UNCHANGED <<file, failed, faults>>

(* writeFileSync opens the file with O_TRUNC ...                           *)
Open(s) ==
    /\ pc[s] = "loaded"
    /\ file' = Unreadable("empty")
    /\ Goto(s, "opened")
    /\ UNCHANGED <<fallback, list, made, failed, blind, since, faults>>

(* ... and writes from offset 0.  If another process has written since,    *)
(* what is longer than this list stays behind it.                          *)
Write(s) ==
    /\ pc[s] = "opened"
    /\ \/ file' = Whole(list[s])
       \/ file.status # "empty" /\ file' = Unreadable("garbled")
    /\ list' = [list EXCEPT ![s] = <<>>]
    /\ Goto(s, "idle")
    /\ UNCHANGED <<fallback, made, failed, blind, since, faults>>

(* What a write that ends early leaves of the file.                        *)
Partly(s) ==
    IF pc[s] = "opened" THEN file' \in {file, Unreadable("garbled")} ELSE UNCHANGED file

(* saveState throws: the directory or the file cannot be written, or the   *)
(* disk is full.  The tool answers INTERNAL_ERROR.                         *)
SaveFails(s) ==
    /\ pc[s] \in {"loaded", "opened"}
    /\ Partly(s)
    /\ failed' = failed \cup {Head(list[s])}
    /\ list' = [list EXCEPT ![s] = <<>>]
    /\ since' = made + 1
    /\ Goto(s, "idle")
    /\ Fault
    /\ UNCHANGED <<fallback, made, blind>>

(* The process dies and is started again, with an empty default state.     *)
Crash(s) ==
    /\ Partly(s)
    /\ fallback' = [fallback EXCEPT ![s] = <<>>]
    /\ list' = [list EXCEPT ![s] = <<>>]
    /\ since' = IF pc[s] = "idle" THEN since ELSE made + 1
    /\ Goto(s, "idle")
    /\ Fault
    /\ UNCHANGED <<made, failed, blind>>

Idle == \A s \in Server : pc[s] = "idle"

Exhausted == Idle /\ made = MaxAppends /\ UNCHANGED vars

Next ==
    \/ \E s \in Server : Load(s) \/ Open(s) \/ Write(s) \/ SaveFails(s) \/ Crash(s)
    \/ Exhausted

Spec == Init /\ [][Next]_vars

-----------------------------------------------------------------------------
(* Properties.                                                             *)

(* The types, and the file never holds more than Cap artifacts although    *)
(* the default array grows without limit.                                  *)
TypeOK ==
    /\ file \in File /\ Len(file.artifacts) <= Cap
    /\ fallback \in [Server -> Seq(Artifact)]
    /\ pc \in [Server -> {"idle", "loaded", "opened"}]
    /\ list \in [Server -> Seq(Artifact)]
    /\ made \in 0..MaxAppends
    /\ failed \subseteq Artifact /\ blind \subseteq Artifact
    /\ since \in 1..(MaxAppends + 2)
    /\ faults \in 0..MaxFaults

(* The file lists the newest artifact first and none twice, also when it   *)
(* is put together from what a process kept of an unreadable one.          *)
NewestFirst ==
    \A i, j \in DOMAIN file.artifacts :
        i < j => file.artifacts[i] > file.artifacts[j]

(* Nothing is lost by itself: the appends since the last one that failed,  *)
(* died or overlapped with one of another process are all in the file, at  *)
(* its front, up to Cap of them.  So a damaged file is whole again after   *)
(* the next undisturbed append, and with one process and no failure the    *)
(* file holds the latest Cap artifacts.                                    *)
KeepsUndisturbed ==
    Idle /\ since <= made =>
        /\ file.status = "whole"
        /\ \A n \in since..made : made - n < Cap =>
              made - n + 1 <= Len(file.artifacts) /\ file.artifacts[made - n + 1] = n

(* An artifact whose append threw may still turn up in the file, because   *)
(* the default array keeps it; but only one that was put into that array,  *)
(* when there was no file to read.                                         *)
FailedOnlyFromFallback ==
    \A n \in failed : n \in Range(file.artifacts) => n \in blind
=============================================================================
