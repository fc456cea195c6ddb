----------------------------- MODULE MCStoreOpen -----------------------------
(***************************************************************************)
(* Small instances of StoreOpen.                                           *)
(***************************************************************************)
EXTENDS StoreOpen, TLC

EmptyFile == [application_id |-> "unset", user_version |-> 0, journal |-> "delete",
              tables |-> {}, damaged |-> {}, schema_version |-> FALSE, triggers |-> {}]

CurrentStore == [application_id |-> "ours", user_version |-> 1, journal |-> "wal",
                 tables |-> Critical, damaged |-> {}, schema_version |-> TRUE,
                 triggers |-> Triggers]

(* Every kind of file: by identity, version, tables, columns and triggers. *)
AnyFile ==
    {f \in [application_id : {"unset", "ours", "other", "unreadable"}, user_version : 0..2,
            journal : {"delete"},
            tables : {{}, {"foreign"}, {"receipts"}, {"receipts", "decision_logs"},
                      Critical, Critical \cup {"foreign"}},
            damaged : {{}, {"receipts"}}, schema_version : BOOLEAN,
            triggers : {{}, Triggers}] :
        /\ f.damaged \subseteq f.tables
        /\ f.schema_version \/ f.triggers # {} => "decision_logs" \in f.tables}
    \cup {CurrentStore}

OnlyEmpty == {EmptyFile}
=============================================================================
