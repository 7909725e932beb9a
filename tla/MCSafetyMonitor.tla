--------------------------- MODULE MCSafetyMonitor ---------------------------
(* search_log, which has a created_at, before price_history, which has not. *)
EXTENDS SafetyMonitor, TLC

TwoTables == <<"search_log", "price_history">>
RowsOfTwo == ("search_log" :> 4) @@ ("price_history" :> 1)
LimitsOfTwo == ("search_log" :> 2) @@ ("price_history" :> 0)
OneDated == {"search_log"}
=============================================================================
