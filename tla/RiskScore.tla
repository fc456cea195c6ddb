------------------------------ MODULE RiskScore ------------------------------
(***************************************************************************)
(* The risk score and the decision assess() reports beside the gate        *)
(* (src/src/modules/risk/risk_score.ts and decision.ts), on the signals    *)
(* toSignalsV01 derives from the trend of the work.  The server passes no  *)
(* answers, and leaves decision_file_invalid, refactor_scope_expanding,    *)
(* parameter_bloat_hint and workaround_comment_hint FALSE.                 *)
(***************************************************************************)
EXTENDS Policy

Capped(limit, n) == IF n > limit THEN limit ELSE n

(* Points by three thresholds, highest first.                              *)
Tier(n, high, mid, low, points) ==
    IF n >= high THEN points[1] ELSE IF n >= mid THEN points[2]
    ELSE IF n >= low THEN points[3] ELSE 0

If(condition, points) == IF condition THEN points ELSE 0

(* toSignalsV01: ratios scaled to counts, Math.round halves up.            *)
FilesPerChange(t) == Capped(10, (t.refactor_ratio + 5) \div 10)
HotTouches(t)     == Capped(20, (2 * t.churn + 5) \div 10)
ReworkEvents(t)   == IF t.churn >= 50 THEN 3 ELSE IF t.churn >= 35 THEN 2
                     ELSE IF t.churn >= 20 THEN 1 ELSE 0

TimeSink(t) ==
    Capped(35, Tier(t.refactor_days, 14, 10, 7, <<25, 18, 10>>)
               + Tier(t.ship_gap, 10, 10, 7, <<10, 10, 5>>)
               + If(t.decision_missing, 8))

Amplification(t) ==
    Capped(25, Tier(FilesPerChange(t), 8, 6, 4, <<18, 12, 6>>)
               + Tier(HotTouches(t), 16, 12, 8, <<10, 7, 4>>))

Rework(t) == Tier(ReworkEvents(t), 3, 2, 1, <<15, 10, 5>>)

Smells(t) == If(t.todo_growth >= 30, 3) + If(t.refactor_ratio >= 60, 3) + If(t.churn >= 40, 2)

Score(t) == Capped(100, TimeSink(t) + Amplification(t) + Rework(t) + Smells(t))

Decide(t) ==
    IF Score(t) >= 60 THEN "HARD_REFACTOR"
    ELSE IF Score(t) >= 35 THEN "SCOPED_REFACTOR" ELSE "ALLOW"

(* Mutant: the rule overrides every decision.                              *)
RefactorDecisionForced(t) == IF Blackhole(t) THEN "SCOPED_REFACTOR" ELSE Decide(t)

(* The blackhole rule raises ALLOW.                                        *)
RefactorDecision(t) ==
    IF Blackhole(t) /\ Decide(t) = "ALLOW" THEN "SCOPED_REFACTOR" ELSE Decide(t)
=============================================================================
