-------------------------- MODULE GrowingWorkProofs --------------------------
(***************************************************************************)
(* The gate and the decision are monotone for every configuration of the   *)
(* thresholds and all sizes of a change.                                   *)
(***************************************************************************)
EXTENDS GrowingWork, TLAPS

(* What growing means, for the change and for the trend.                   *)
LargerChange(c, d) ==
    /\ c.files <= d.files /\ c.diff <= d.diff /\ c.median <= d.median /\ c.added <= d.added
    /\ c.dependencies => d.dependencies
    /\ c.ai_generated => d.ai_generated
    /\ c.active = d.active /\ c.goal = d.goal /\ c.paths \subseteq d.paths
    /\ c.median_alias <= d.median_alias /\ c.files_alias <= d.files_alias

WorseTrend(t, u) ==
    /\ t.refactor_days <= u.refactor_days /\ t.ship_gap <= u.ship_gap
    /\ t.decision_missing => u.decision_missing
    /\ t.refactor_ratio <= u.refactor_ratio /\ t.todo_growth <= u.todo_growth
    /\ t.churn <= u.churn

(* No text of a BLOCK asks for a confirmation, so the gate follows the     *)
(* action of the policy.                                                   *)
LEMMA GateOfAction ==
    ASSUME NEW m \in Mode, NEW c
    PROVE  /\ Evaluate(m, c).action = "BLOCK" => Gate(m, c) = "BLOCK"
           /\ Evaluate(m, c).action = "WARN" => Gate(m, c) = "REQUIRE_CONFIRM"
           /\ Evaluate(m, c).action = "ALLOW" => Gate(m, c) = "ALLOW"
           /\ Evaluate(m, c).action \in {"BLOCK", "WARN", "ALLOW"}
<1>1. /\ Evaluate(m, c).action \in {"BLOCK", "WARN", "ALLOW"}
      /\ Evaluate(m, c).action = "BLOCK" => ~ThresholdStyle(Evaluate(m, c).reason)
  BY DEF Evaluate, ColdPolicy, FullPolicy, Verdict, ThresholdStyle
<1> QED  BY <1>1 DEF Gate

(* A larger change never gets a milder action: from the cold rules, where  *)
(* a later rule may give way to an earlier one but never to none...        *)
LEMMA ColdGrows ==
    ASSUME NEW c \in Change, NEW d \in Change, LargerChange(c, d)
    PROVE  /\ ColdRule(c) = "r1_hard" => ColdRule(d) = "r1_hard"
           /\ ColdRule(c) # "none" => ColdRule(d) # "none"
<1>1. GoalDrift(c) => GoalDrift(d)
  BY DEF LargerChange, GoalDrift
<1> DEFINE Proxy(x)  == x.added >= 200 /\ x.active > 0 /\ x.active <= 300000
           Reached(x) == \/ x.files >= Block \/ x.files >= Warn \/ x.median >= 6
                         \/ x.ai_generated /\ x.added >= 120
                         \/ Proxy(x) \/ GoalDrift(x)
<1>2. ASSUME NEW x
      PROVE  /\ ColdRule(x) = "r1_hard" <=> x.files >= Block
             /\ ColdRule(x) # "none" <=> Reached(x)
  BY DEF ColdRule
<1>3. c.files >= Block => d.files >= Block
  BY PolicyAssumption DEF LargerChange, Change
<1>4. Proxy(c) => Proxy(d)
  BY DEF LargerChange, Change
<1> HIDE DEF Proxy
<1>5. Reached(c) => Reached(d)
  BY <1>1, <1>3, <1>4, PolicyAssumption DEF LargerChange, Change
<1> QED  BY <1>2, <1>3, <1>5

(* ... nor from the thresholds and latent rules of the full mode.          *)
LEMMA FullGrows ==
    ASSUME NEW c \in Change, NEW d \in Change, LargerChange(c, d)
    PROVE  /\ Extreme(c) => Extreme(d)
           /\ AiMomentum(c) => AiMomentum(d)
           /\ c.files >= Warn => d.files >= Warn
           /\ c.files >= Block => d.files >= Block
BY PolicyAssumption DEF Extreme, ExtremeFiles, AiMomentum, LargerChange, Change

(* Together: in either mode a larger change is treated at least as strictly.*)
LEMMA GateGrows ==
    ASSUME NEW m \in Mode, NEW c \in Change, NEW d \in Change, LargerChange(c, d)
    PROVE  Strictness[Gate(m, c)] <= Strictness[Gate(m, d)]
<1>1. /\ Evaluate(m, c).action = "BLOCK" => Evaluate(m, d).action = "BLOCK"
      /\ Evaluate(m, c).action = "WARN" => Evaluate(m, d).action # "ALLOW"
  <2>1. CASE m = "cold"
    BY <2>1, ColdGrows DEF Evaluate, ColdPolicy, Verdict
  <2>2. CASE m = "full"
    BY <2>2, FullGrows DEF Evaluate, FullPolicy, Verdict
  <2> QED  BY <2>1, <2>2 DEF Mode
<1> QED  BY <1>1, GateOfAction DEF Strictness

-----------------------------------------------------------------------------
(* The parts of the score grow with the trend, one by one.                 *)
LEMMA PartsGrow ==
    ASSUME NEW t \in Trend, NEW u \in Trend, WorseTrend(t, u)
    PROVE  /\ TimeSink(t) \in Nat /\ TimeSink(u) \in Nat /\ TimeSink(t) <= TimeSink(u)
           /\ Amplification(t) \in Nat /\ Amplification(u) \in Nat
           /\ Amplification(t) <= Amplification(u)
           /\ Rework(t) \in Nat /\ Rework(u) \in Nat /\ Rework(t) <= Rework(u)
           /\ Smells(t) \in Nat /\ Smells(u) \in Nat /\ Smells(t) <= Smells(u)
<1>1. TimeSink(t) \in Nat /\ TimeSink(u) \in Nat /\ TimeSink(t) <= TimeSink(u)
  BY DEF TimeSink, Capped, Tier, If, WorseTrend, Trend
<1>2. /\ FilesPerChange(t) \in Nat /\ FilesPerChange(u) \in Nat
      /\ FilesPerChange(t) <= FilesPerChange(u)
  BY DEF FilesPerChange, Capped, WorseTrend, Trend
<1>3. /\ HotTouches(t) \in Nat /\ HotTouches(u) \in Nat /\ HotTouches(t) <= HotTouches(u)
  BY DEF HotTouches, Capped, WorseTrend, Trend
<1>4. /\ Amplification(t) \in Nat /\ Amplification(u) \in Nat
      /\ Amplification(t) <= Amplification(u)
  BY <1>2, <1>3 DEF Amplification, Capped, Tier
<1>5. Rework(t) \in Nat /\ Rework(u) \in Nat /\ Rework(t) <= Rework(u)
  BY DEF Rework, ReworkEvents, Tier, WorseTrend, Trend
<1>6. Smells(t) \in Nat /\ Smells(u) \in Nat /\ Smells(t) <= Smells(u)
  BY DEF Smells, If, WorseTrend, Trend
<1> QED  BY <1>1, <1>4, <1>5, <1>6

(* An alarm once raised stays raised.                                      *)
LEMMA BlackholeGrows ==
    ASSUME NEW t \in Trend, NEW u \in Trend, WorseTrend(t, u), Blackhole(t)
    PROVE  Blackhole(u)
<1>1. Alarms(t) \subseteq Alarms(u)
  BY DEF Alarms, Limits, WorseTrend, Trend
<1> QED  BY <1>1 DEF Blackhole

(* A worse trend scores at least as high and is judged at least as         *)
(* urgent.                                                                 *)
LEMMA RiskGrows ==
    ASSUME NEW t \in Trend, NEW u \in Trend, WorseTrend(t, u)
    PROVE  /\ Score(t) <= Score(u)
           /\ Urgency[RefactorDecision(t)] <= Urgency[RefactorDecision(u)]
<1>1. Score(t) \in Nat /\ Score(u) \in Nat /\ Score(t) <= Score(u)
  BY PartsGrow DEF Score, Capped
<1>2. /\ Decide(t) = "HARD_REFACTOR" => Decide(u) = "HARD_REFACTOR"
      /\ Decide(t) = "SCOPED_REFACTOR" => Decide(u) # "ALLOW"
      /\ Decide(t) \in {"HARD_REFACTOR", "SCOPED_REFACTOR", "ALLOW"}
      /\ Decide(u) \in {"HARD_REFACTOR", "SCOPED_REFACTOR", "ALLOW"}
  BY <1>1 DEF Decide
<1> QED  BY <1>1, <1>2, BlackholeGrows DEF RefactorDecision, Urgency

-----------------------------------------------------------------------------
(* The work starts as a change and a trend.                                *)
LEMMA TypeInit == Init => TypeOK
<1> SUFFICES ASSUME Init PROVE TypeOK
  OBVIOUS
<1>1. trend \in Trend
  BY DEF Init, Trend, NoTrend
<1>2. PICK active \in Levels.active, goal \in SUBSET {"docs", "code"} :
        change = [NoChange EXCEPT !.active = active, !.goal = goal]
  BY DEF Init
<1>3. active \in Nat
  BY LevelsAssumption
<1>4. change \in Change
  BY <1>2, <1>3 DEF Change, NoChange
<1> QED  BY <1>1, <1>4 DEF Init, TypeOK

(* Every step makes the change larger or the trend worse, or leaves both.  *)
LEMMA Growth ==
    ASSUME TypeOK, [Next]_vars
    PROVE  /\ TypeOK' /\ mode' = mode
           /\ LargerChange(change, change') /\ WorseTrend(trend, trend')
<1>0. change \in Change /\ trend \in Trend /\ mode \in Mode
  BY DEF TypeOK
<1>1. LargerChange(change, change) /\ WorseTrend(trend, trend)
  BY <1>0 DEF LargerChange, WorseTrend, Change, Trend
<1>2. ASSUME NEW k \in ChangeSizes, ChangeMore(k)
      PROVE  change' \in Change /\ LargerChange(change, change') /\ UNCHANGED <<mode, trend>>
  <2>1. PICK n \in Levels[k] : n > change[k] /\ change' = [change EXCEPT ![k] = n]
    BY <1>2 DEF ChangeMore
  <2>2. n \in Nat
    BY LevelsAssumption
  <2>3. change' \in Change /\ LargerChange(change, change')
    BY <1>0, <2>1, <2>2 DEF Change, LargerChange, ChangeSizes
  <2> QED  BY <1>2, <2>3 DEF ChangeMore
<1>3. ASSUME NEW k \in TrendSizes, DragOn(k)
      PROVE  trend' \in Trend /\ WorseTrend(trend, trend') /\ UNCHANGED <<mode, change>>
  <2>1. PICK n \in Levels[k] : n > trend[k] /\ trend' = [trend EXCEPT ![k] = n]
    BY <1>3 DEF DragOn
  <2>2. n \in Nat
    BY LevelsAssumption
  <2>3. trend' \in Trend /\ WorseTrend(trend, trend')
    BY <1>0, <2>1, <2>2 DEF Trend, WorseTrend, TrendSizes
  <2> QED  BY <1>3, <2>3 DEF DragOn
<1>4. ASSUME TouchDependencies \/ AcceptAiCode \/ \E p \in {"src", "docs"} : TouchPath(p)
      PROVE  change' \in Change /\ LargerChange(change, change') /\ UNCHANGED <<mode, trend>>
  <2>1. CASE TouchDependencies
    <3>1. change' = [change EXCEPT !.dependencies = TRUE] /\ UNCHANGED <<mode, trend>>
      BY <2>1 DEF TouchDependencies
    <3>2. change' \in Change
      BY <1>0, <3>1 DEF Change
    <3>3. /\ change'.dependencies = TRUE /\ change'.ai_generated = change.ai_generated
          /\ change'.files = change.files /\ change'.diff = change.diff
          /\ change'.median = change.median /\ change'.added = change.added
          /\ change'.active = change.active /\ change'.goal = change.goal
          /\ change'.paths = change.paths /\ change'.median_alias = change.median_alias
          /\ change'.files_alias = change.files_alias
      BY <1>0, <3>1 DEF Change
    <3> QED  BY <1>1, <3>1, <3>2, <3>3, Zenon DEF LargerChange
  <2>2. CASE AcceptAiCode
    <3>1. change' = [change EXCEPT !.ai_generated = TRUE] /\ UNCHANGED <<mode, trend>>
      BY <2>2 DEF AcceptAiCode
    <3>2. change' \in Change
      BY <1>0, <3>1 DEF Change
    <3>3. /\ change'.ai_generated = TRUE /\ change'.dependencies = change.dependencies
          /\ change'.files = change.files /\ change'.diff = change.diff
          /\ change'.median = change.median /\ change'.added = change.added
          /\ change'.active = change.active /\ change'.goal = change.goal
          /\ change'.paths = change.paths /\ change'.median_alias = change.median_alias
          /\ change'.files_alias = change.files_alias
      BY <1>0, <3>1 DEF Change
    <3> QED  BY <1>1, <3>1, <3>2, <3>3, Zenon DEF LargerChange
  <2>3. ASSUME NEW p \in {"src", "docs"}, TouchPath(p)
        PROVE  change' \in Change /\ LargerChange(change, change') /\ UNCHANGED <<mode, trend>>
    <3>1. /\ change' = [change EXCEPT !.paths = change.paths \cup {p}]
          /\ UNCHANGED <<mode, trend>>
      BY <2>3 DEF TouchPath
    <3>2. change.paths \cup {p} \in SUBSET {"src", "docs"}
      BY <1>0 DEF Change
    <3>3. change' \in Change
      BY <1>0, <3>1, <3>2 DEF Change
    <3> QED  BY <1>0, <3>1, <3>3 DEF Change, LargerChange
  <2> QED  BY <1>4, <2>1, <2>2, <2>3
<1>5. ASSUME LoseDecisionFile
      PROVE  trend' \in Trend /\ WorseTrend(trend, trend') /\ UNCHANGED <<mode, change>>
  <2>1. trend' = [trend EXCEPT !.decision_missing = TRUE] /\ UNCHANGED <<mode, change>>
    BY <1>5 DEF LoseDecisionFile
  <2>2. trend' \in Trend
    BY <1>0, <2>1 DEF Trend
  <2> QED  BY <1>0, <2>1, <2>2 DEF Trend, WorseTrend
<1>6. CASE UNCHANGED vars
  BY <1>0, <1>1, <1>6 DEF vars, TypeOK
<1> QED  BY <1>0, <1>1, <1>2, <1>3, <1>4, <1>5, <1>6 DEF Next, TypeOK

(* HardStopKept: in either mode and for every change, what the policy      *)
(* blocks the guardrail blocks.                                            *)
THEOREM HardStopKeptHolds == Spec => []HardStopKept
<1>1. TypeOK => HardStopKept
  BY GateOfAction DEF TypeOK, HardStopKept
<1> QED  BY <1>1, TypeInit, Growth, PTL DEF Spec

(* Without a trend the blackhole rule has no evidence.                     *)
LEMMA NoBlackhole == ~Blackhole(NoTrend)
<1>1. ASSUME NEW d \in DOMAIN Limits PROVE ~(NoTrend[d] >= Limits[d])
  BY DEF Limits, NoTrend
<1> QED  BY <1>1 DEF Blackhole, Alarms

(* The hint is that of the two thresholds alone.                           *)
LEMMA HintFromFiles ==
    ASSUME NEW c \in Change
    PROVE  /\ HintedFiles(c) \in Nat /\ ExtremeFiles \in Nat
           /\ Warn <= Block /\ Block <= ExtremeFiles
           /\ DetectTriggers(c) = IF HintedFiles(c) >= ExtremeFiles THEN "BLOCK"
                                  ELSE IF HintedFiles(c) >= Warn THEN "WARN" ELSE "ALLOW"
<1> DEFINE h == Hinted(c)
<1>1. HintedFiles(c) \in Nat
  BY DEF HintedFiles, Change
<1>2. ExtremeFiles \in Nat /\ Warn <= Block /\ Block <= ExtremeFiles /\ Block \in Nat /\ Warn \in Nat
  BY PolicyAssumption DEF ExtremeFiles
<1>3. h.files = HintedFiles(c) /\ h.diff = 0 /\ ~h.dependencies
  BY DEF Hinted, NoChange
<1>4. DetectTriggers(c) = FullPolicy(h).action
  BY DEF DetectTriggers, Evaluate
<1> HIDE DEF h
<1>5. ~AiMomentum(h) /\ (Extreme(h) <=> HintedFiles(c) >= ExtremeFiles)
  BY <1>3, PolicyAssumption DEF AiMomentum, Extreme
<1>6. h.files >= Warn \/ h.files >= Block <=> HintedFiles(c) >= Warn
  BY <1>1, <1>2, <1>3
<1> QED  BY <1>1, <1>2, <1>4, <1>5, <1>6, NoBlackhole DEF FullPolicy, Verdict

(* What files_touched alone makes the gate do, in either mode.             *)
LEMMA GateOfFiles ==
    ASSUME NEW m \in Mode, NEW c \in Change
    PROVE  /\ Gate(m, c) = "ALLOW" => c.files < Warn
           /\ Gate(m, c) = "REQUIRE_CONFIRM" => c.files < ExtremeFiles
<1>1. c.files \in Nat /\ Warn \in Nat /\ ExtremeFiles \in Nat /\ Block <= ExtremeFiles /\ Block \in Nat
  BY PolicyAssumption DEF Change, ExtremeFiles
<1>2. c.files >= Warn => ColdRule(c) # "none"
  BY DEF ColdRule
<1>3. c.files >= ExtremeFiles => ColdRule(c) = "r1_hard" /\ Extreme(c)
  BY <1>1 DEF ColdRule, Extreme
<1>4. c.files >= Warn => Evaluate(m, c).action # "ALLOW"
  BY <1>2 DEF Mode, Evaluate, ColdPolicy, FullPolicy, Verdict
<1>5. c.files >= ExtremeFiles => Evaluate(m, c).action = "BLOCK"
  BY <1>3 DEF Mode, Evaluate, ColdPolicy, FullPolicy, Verdict
<1> QED  BY <1>1, <1>4, <1>5, GateOfAction

(* HintHarsher: detect_triggers is stricter than the gate exactly when its *)
(* number is over a threshold that files_touched has not reached, for all  *)
(* thresholds with Warn <= Block, in either mode.                          *)
THEOREM HintHarsherHolds == Spec => []HintHarsher
<1>1. ASSUME NEW m \in Mode, NEW c \in Change
      PROVE  Strictness[DetectTriggers(c)] > Strictness[Gate(m, c)] <=>
                \/ /\ Gate(m, c) = "ALLOW"
                   /\ HintedFiles(c) >= Warn /\ c.files < Warn
                \/ /\ Gate(m, c) = "REQUIRE_CONFIRM"
                   /\ HintedFiles(c) >= ExtremeFiles /\ c.files < ExtremeFiles
  <2>1. Gate(m, c) \in {"ALLOW", "REQUIRE_CONFIRM", "BLOCK"}
    BY GateOfAction
  <2>2. HintedFiles(c) >= ExtremeFiles => HintedFiles(c) >= Warn
    BY HintFromFiles, PolicyAssumption
  <2> QED  BY <2>1, <2>2, HintFromFiles, GateOfFiles DEF Strictness
<1>2. TypeOK => HintHarsher
  BY <1>1 DEF TypeOK, HintHarsher
<1> QED  BY <1>2, TypeInit, Growth, PTL DEF Spec

(* GateMonotone: the gate never opens because the change has grown, for    *)
(* all thresholds with Warn <= Block.                                      *)
THEOREM GateMonotoneHolds == Spec => GateMonotone
<1>1. TypeOK /\ [Next]_vars => Strictness[Gate(mode, change)] <= Strictness[Gate(mode', change')]
  BY Growth, GateGrows DEF TypeOK
<1>2. TypeOK /\ [Next]_vars =>
        [Strictness[Gate(mode, change)] <= Strictness[Gate(mode', change')]]_vars
  BY <1>1
<1> QED  BY <1>2, TypeInit, Growth, PTL DEF Spec, GateMonotone

(* RiskMonotone: neither the score nor the decision gets milder while the  *)
(* trend gets worse.                                                       *)
THEOREM RiskMonotoneHolds == Spec => RiskMonotone
<1> DEFINE Worse == /\ Score(trend) <= Score(trend')
                    /\ Urgency[RefactorDecision(trend)] <= Urgency[RefactorDecision(trend')]
<1>1. TypeOK /\ [Next]_vars => Worse
  BY Growth, RiskGrows DEF TypeOK
<1>2. TypeOK /\ [Next]_vars => [Worse]_vars
  BY <1>1
<1> HIDE DEF Worse
<1>3. Spec => [][Worse]_vars
  BY <1>2, TypeInit, Growth, PTL DEF Spec
<1> QED  BY <1>3 DEF RiskMonotone, Worse
=============================================================================
