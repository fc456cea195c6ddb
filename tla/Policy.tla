------------------------------- MODULE Policy -------------------------------
(***************************************************************************)
(* The gate of assess(): what the policy (src/src/modules/policy), the     *)
(* rules of src/src/modules/risk and the guardrail make of the signals of  *)
(* one call.  A text is the set of the phrases the guardrail looks for in  *)
(* it.  Ratios are percentages, durations milliseconds or days as in the   *)
(* code; a signal that is absent is 0, FALSE or empty, which is what the   *)
(* code falls back to.                                                     *)
(***************************************************************************)
EXTENDS Integers

CONSTANTS
    Warn, Block,           \* config.guardrail.files_touched
    FilesWarn, DiffWarn    \* config.rules.ai_momentum_override.thresholds

ASSUME PolicyAssumption ==
    /\ Warn \in Nat \ {0} /\ Block \in Nat \ {0}
    /\ FilesWarn \in Nat \ {0} /\ DiffWarn \in Nat \ {0}
    /\ Warn <= Block

Mode == {"cold", "full"}

(* The signals about the change at hand, which toInfraSignals hands to the *)
(* policy.  "goal" is what the wording of active_goal suggests, "paths"    *)
(* the roots of touched_paths.  filesTouchedMedian and filesTouched, here  *)
(* median_alias and files_alias, are names only detectTriggers knows.      *)
Change == [files : Nat, diff : Nat, dependencies : BOOLEAN, median : Nat,
           ai_generated : BOOLEAN, added : Nat, active : Nat,
           goal : SUBSET {"docs", "code"}, paths : SUBSET {"src", "docs"},
           median_alias : Nat, files_alias : Nat]

NoChange == [files |-> 0, diff |-> 0, dependencies |-> FALSE, median |-> 0,
             ai_generated |-> FALSE, added |-> 0, active |-> 0, goal |-> {}, paths |-> {},
             median_alias |-> 0, files_alias |-> 0]

(* The signals it does not hand on: the trend of the work.                 *)
Trend == [refactor_days : Nat, ship_gap : Nat, decision_missing : BOOLEAN,
          refactor_ratio : Nat, todo_growth : Nat, churn : Nat]

NoTrend == [refactor_days |-> 0, ship_gap |-> 0, decision_missing |-> FALSE,
            refactor_ratio |-> 0, todo_growth |-> 0, churn |-> 0]

-----------------------------------------------------------------------------
(* Rules.                                                                  *)

GoalDrift(c) ==
    \/ "docs" \in c.goal /\ "src" \in c.paths
    \/ "code" \in c.goal /\ "docs" \in c.paths

(* The first cold rule that hits, if any.                                  *)
ColdRule(c) ==
    IF c.files >= Block                                 THEN "r1_hard"
    ELSE IF c.files >= Warn                             THEN "r1_warn"
    ELSE IF c.median >= 6                               THEN "r2"
    ELSE IF c.ai_generated /\ c.added >= 120            THEN "r3"
    ELSE IF c.added >= 200 /\ c.active > 0 /\ c.active <= 300000
                                                        THEN "r3_proxy"
    ELSE IF GoalDrift(c)                                THEN "r4"
    ELSE "none"

AiMomentum(c) == c.files >= FilesWarn /\ (c.diff >= DiffWarn \/ c.dependencies)

Limits == [ship_gap |-> 3, refactor_ratio |-> 55, todo_growth |-> 30, churn |-> 35]

Alarms(t) == {d \in DOMAIN Limits : t[d] >= Limits[d]}

(* Refactor time blackhole: two of the four trends are over their limits.  *)
Blackhole(t) == \E a, b \in Alarms(t) : a # b

-----------------------------------------------------------------------------
(* Policy and guardrail.                                                   *)

Verdict(action, reason) == [action |-> action, reason |-> reason]

(* Mutant: the hard rule quotes its signal like the extreme one.           *)
ColdPolicyQuoting(c) ==
    IF ColdRule(c) = "r1_hard"
    THEN Verdict("BLOCK", {"hard threshold", "exceeded", "files_touched"})
    ELSE IF ColdRule(c) # "none" THEN Verdict("WARN", {}) ELSE Verdict("ALLOW", {})

ColdPolicy(c) ==
    IF ColdRule(c) = "r1_hard" THEN Verdict("BLOCK", {"hard threshold", "exceeded"})
    ELSE IF ColdRule(c) # "none" THEN Verdict("WARN", {}) ELSE Verdict("ALLOW", {})

ExtremeFiles == IF Block * 2 > 32 THEN Block * 2 ELSE 32

Extreme(c) == c.files >= ExtremeFiles \/ c.diff >= 5000

(* Mutant: the upper threshold bounds the window of the lower one.         *)
FullPolicyWindow(c) ==
    IF Extreme(c) THEN Verdict("BLOCK", {"exceeded", "extreme", "files_touched"})
    ELSE IF \/ c.files >= Warn /\ c.files < Block
            \/ AiMomentum(c) \/ Blackhole(NoTrend)
         THEN Verdict("WARN", {}) ELSE Verdict("ALLOW", {})

(* The blackhole rule sees none of its signals here.                       *)
FullPolicy(c) ==
    IF Extreme(c) THEN Verdict("BLOCK", {"exceeded", "extreme", "files_touched"})
    ELSE IF \/ c.files >= Warn \/ c.files >= Block
            \/ AiMomentum(c) \/ Blackhole(NoTrend)
         THEN Verdict("WARN", {}) ELSE Verdict("ALLOW", {})

Evaluate(mode, c) == IF mode = "cold" THEN ColdPolicy(c) ELSE FullPolicy(c)

(* The wording that turns a BLOCK into a request to confirm.               *)
ThresholdStyle(reason) ==
    "extreme" \notin reason /\ {"hard threshold", "exceeded", "files_touched"} \subseteq reason

(* evaluateGuardrail on the policy.                                        *)
Gate(mode, c) ==
    LET policy == Evaluate(mode, c) IN
    IF \/ policy.action = "WARN"
       \/ policy.action = "BLOCK" /\ ThresholdStyle(policy.reason)
    THEN "REQUIRE_CONFIRM"
    ELSE policy.action

(* What detectTriggers hands to the policy as files_touched: the first     *)
(* number it finds under three names, files_touched not among them.        *)
HintedFiles(c) ==
    IF c.median_alias # 0 THEN c.median_alias
    ELSE IF c.median # 0  THEN c.median
    ELSE c.files_alias

Hinted(c) == [NoChange EXCEPT !.files = HintedFiles(c)]

(* Mutant: the hint is that of the cold mode.                              *)
DetectTriggersCold(c) == ColdPolicy(Hinted(c)).action

(* The policy the tool "detect_triggers" reports: that of the defaults,    *)
(* whatever mode the server assesses in.                                   *)
DetectTriggers(c) == Evaluate("full", Hinted(c)).action
=============================================================================
