---------------------------- MODULE MCGrowingWork ----------------------------
(***************************************************************************)
(* Every threshold, as the least value that reaches it: the functions are  *)
(* steps, so these values and 0 stand for all others.                      *)
(***************************************************************************)
EXTENDS GrowingWork

Boundaries ==
    [files |-> {2, 3, 5, 32}, diff |-> {10, 5000}, median |-> {3, 5, 6, 32},
     median_alias |-> {3, 5, 32}, files_alias |-> {3, 5, 32},
     added |-> {120, 200}, active |-> {0, 300000, 300001},
     refactor_days |-> {7, 10, 14}, ship_gap |-> {3, 7, 10},
     refactor_ratio |-> {35, 55, 60, 75}, todo_growth |-> {30},
     churn |-> {20, 35, 38, 40, 50, 58, 78}]

(* The gate reads the change only and the score the trend only, so they    *)
(* grow one at a time.  The aliases of the median grow while no other rule *)
(* of the cold mode is in play: under its own name it meets all of them.   *)
Plain == /\ change.added = 0 /\ change.active = 0 /\ ~change.ai_generated
         /\ change.goal = {} /\ change.paths = {}

OneGrows ==
    /\ trend = NoTrend \/ (change = NoChange /\ mode = "full")
    /\ (change.median_alias = 0 /\ change.files_alias = 0) \/ Plain
=============================================================================
