----------------------------- MODULE GrowingWork -----------------------------
(***************************************************************************)
(* Work that grows between one assessment and the next: more files, more   *)
(* lines, dependency files, more days without delivery.  Each state is the *)
(* input of one call of assess().                                          *)
(***************************************************************************)
EXTENDS RiskScore

CONSTANT Levels   \* the values each numeric signal may take

VARIABLES mode, change, trend

vars == <<mode, change, trend>>

ChangeSizes == {"files", "diff", "median", "added", "median_alias", "files_alias"}
TrendSizes  == {"refactor_days", "ship_gap", "refactor_ratio", "todo_growth", "churn"}

ASSUME LevelsAssumption ==
    \A d \in ChangeSizes \cup TrendSizes \cup {"active"} : Levels[d] \subseteq Nat

TypeOK == mode \in Mode /\ change \in Change /\ trend \in Trend

(* The work starts small; its goal and its pace do not change.             *)
Init ==
    /\ mode \in Mode
    /\ \E active \in Levels.active, goal \in SUBSET {"docs", "code"} :
        change = [NoChange EXCEPT !.active = active, !.goal = goal]
    /\ trend = NoTrend

ChangeMore(d) ==
    /\ \E n \in Levels[d] : n > change[d] /\ change' = [change EXCEPT ![d] = n]
    /\ UNCHANGED <<mode, trend>>

TouchDependencies ==
    /\ ~change.dependencies
    /\ change' = [change EXCEPT !.dependencies = TRUE]
    /\ UNCHANGED <<mode, trend>>

AcceptAiCode ==
    /\ ~change.ai_generated
    /\ change' = [change EXCEPT !.ai_generated = TRUE]
    /\ UNCHANGED <<mode, trend>>

TouchPath(p) ==
    /\ p \notin change.paths
    /\ change' = [change EXCEPT !.paths = @ \cup {p}]
    /\ UNCHANGED <<mode, trend>>

DragOn(d) ==
    /\ \E n \in Levels[d] : n > trend[d] /\ trend' = [trend EXCEPT ![d] = n]
    /\ UNCHANGED <<mode, change>>

LoseDecisionFile ==
    /\ ~trend.decision_missing
    /\ trend' = [trend EXCEPT !.decision_missing = TRUE]
    /\ UNCHANGED <<mode, change>>

Next ==
    \/ \E d \in ChangeSizes : ChangeMore(d)
    \/ TouchDependencies \/ AcceptAiCode
    \/ \E p \in {"src", "docs"} : TouchPath(p)
    \/ \E d \in TrendSizes : DragOn(d)
    \/ LoseDecisionFile

Spec == Init /\ [][Next]_vars

-----------------------------------------------------------------------------
(* Properties.                                                             *)

Strictness == [ALLOW |-> 0, WARN |-> 1, REQUIRE_CONFIRM |-> 1, BLOCK |-> 2]
Urgency    == [ALLOW |-> 0, SCOPED_REFACTOR |-> 1, HARD_REFACTOR |-> 2]

(* The gate never opens because the change has grown: no rule that hits    *)
(* first, no window between two thresholds and no bridge from BLOCK to a   *)
(* confirmation lets more work through than less work, in either mode.     *)
GateMonotone ==
    [][Strictness[Gate(mode, change)] <= Strictness[Gate(mode', change')]]_vars

(* What the policy blocks cannot be confirmed: none of the texts it gives  *)
(* for a BLOCK has the wording that makes the guardrail ask instead.       *)
HardStopKept == Evaluate(mode, change).action = "BLOCK" => Gate(mode, change) = "BLOCK"

(* When detect_triggers is stricter than assess() of the same signals: it  *)
(* warns of what the gate allows, or blocks what the gate puts up for      *)
(* confirmation, exactly when the number it takes for files_touched is     *)
(* over a threshold that files_touched itself, reported or not, has not    *)
(* reached.  No other difference of the two mappings, nor the mode, makes  *)
(* the gate the milder of the two.                                         *)
HintHarsher ==
    LET hint == DetectTriggers(change)
        gate == Gate(mode, change)
        seen(limit) == HintedFiles(change) >= limit /\ change.files < limit
    IN  Strictness[hint] > Strictness[gate] <=>
            \/ gate = "ALLOW" /\ seen(Warn)
            \/ gate = "REQUIRE_CONFIRM" /\ seen(ExtremeFiles)

(* The longer the work drags on the higher the score, and the decision is  *)
(* never milder, whether the score or the blackhole rule makes it.         *)
RiskMonotone ==
    [][/\ Score(trend) <= Score(trend')
       /\ Urgency[RefactorDecision(trend)] <= Urgency[RefactorDecision(trend')]]_vars
=============================================================================
