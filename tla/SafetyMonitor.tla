---------------------------- MODULE SafetyMonitor ----------------------------
(***************************************************************************)
(* The dashboard's safety monitor: it prunes the oldest rows of the tables *)
(* that only grow, one table after the other, when the statistics say that *)
(* there are too many.  A request to prune one table may run meanwhile, on *)
(* a connection of its own, and goes by the true count.                    *)
(*                                                                         *)
(* A row is the number of its insertion.  The statistics lag: what a       *)
(* session inserted or deleted is reported later, an ANALYZE counts the    *)
(* rows whether reported or not, and a reset forgets them all.  A DELETE   *)
(* picks its rows in a snapshot and deletes those that are still there.    *)
(*                                                                         *)
(* The safety events, of prunes and of the database's size, are left out.  *)
(* Bounds: MaxRows rows inserted per table; MaxFaults statements that      *)
(* fail, or resets of the statistics.                                      *)
(***************************************************************************)
EXTENDS Integers, Sequences, FiniteSets, SequencesExt, FiniteSetsExt

CONSTANTS
    Tables,         \* the monitored tables, in the order of table_limits
    Dated,          \* those with a column created_at
    Requests,       \* that may prune a table, at the same time
    Limits,         \* per table: of rows
    PruneToPct,
    PruneBatchSize,
    MaxRows, MaxFaults

ASSUME SafetyAssumption ==
    /\ Tables \in Seq(STRING) /\ IsInjective(Tables)
    /\ Dated \subseteq Range(Tables)
    /\ Limits \in [Range(Tables) -> Nat] /\ PruneToPct \in 0 .. 100 /\ PruneBatchSize \in Nat \ {0}
    /\ MaxRows \in [Range(Tables) -> Nat] /\ MaxFaults \in Nat

VARIABLES
    rows,           \* per table: the rows it has
    inserted,       \* per table: how many rows were ever inserted
    estimate,       \* per table: n_live_tup
    unreported,     \* per table: inserted less deleted, and not yet reported
    monitor,        \* the monitor's pass
    request,        \* the requests
    faults          \* statements that failed and resets of the statistics

database == <<rows, inserted, estimate, unreported>>
monitorVars == <<database, monitor, request, faults>>

Names == Range(Tables)

Target(t) == (Limits[t] * PruneToPct) \div 100

\* The DELETE of a table's rows that somebody runs: "ready" to pick the oldest n
\* of them, or "picked".
Idle == [at |-> "idle", table |-> "", n |-> 0, picked |-> {}]

\* The monitor at its i-th table, of which it has seen nothing yet.
At(at, i) ==
    [at |-> at, i |-> i, left |-> 0, picked |-> {}]

MonitorInit ==
    /\ rows = [t \in Names |-> {}]
    /\ inserted = [t \in Names |-> 0]
    /\ estimate = [t \in Names |-> 0]
    /\ unreported = [t \in Names |-> 0]
    /\ monitor = At("sleep", 0)
    /\ request = [r \in Requests |-> Idle]
    /\ faults = 0

-----------------------------------------------------------------------------
(* The load generator and PostgreSQL's statistics *)

Insert(t) ==
    /\ inserted[t] < MaxRows[t]
    /\ inserted' = [inserted EXCEPT ![t] = @ + 1]
    /\ rows' = [rows EXCEPT ![t] = @ \cup {inserted'[t]}]
    /\ unreported' = [unreported EXCEPT ![t] = @ + 1]
    /\ UNCHANGED <<estimate, monitor, request, faults>>

Report(t) ==
    /\ unreported[t] # 0
    /\ estimate' = [estimate EXCEPT ![t] = Max({0, @ + unreported[t]})]
    /\ unreported' = [unreported EXCEPT ![t] = 0]
    /\ UNCHANGED <<rows, inserted, monitor, request, faults>>

Analyze(t) ==
    /\ estimate[t] # Cardinality(rows[t])
    /\ estimate' = [estimate EXCEPT ![t] = Cardinality(rows[t])]
    /\ UNCHANGED <<rows, inserted, unreported, monitor, request, faults>>

\* pg_stat_reset, in the restore before a test run.
ResetStats ==
    /\ faults < MaxFaults
    /\ faults' = faults + 1
    /\ estimate' = [t \in Names |-> 0]
    /\ UNCHANGED <<rows, inserted, unreported, monitor, request>>

-----------------------------------------------------------------------------
(* DELETE FROM table WHERE ctid IN (SELECT ... ORDER BY created_at LIMIT n) *)

\* Mutant: the subselect has no ORDER BY.
NewestRows(t, n) == {r \in rows[t] : Cardinality({s \in rows[t] : s >= r}) <= n}

Oldest(t, n) == {r \in rows[t] : Cardinality({s \in rows[t] : s <= r}) <= n}

RemoveRows(t, picked) ==
    /\ rows' = [rows EXCEPT ![t] = @ \ picked]
    /\ unreported' = [unreported EXCEPT ![t] = @ - Cardinality(picked \cap rows[t])]
    /\ UNCHANGED <<inserted, estimate>>

-----------------------------------------------------------------------------
(* SafetyMonitor.run and check_and_prune *)

Sleep == monitor' = At("sleep", 0)

\* The next table of the pass, or its end.
NextTable ==
    IF monitor.i < Len(Tables) THEN monitor' = At("table", monitor.i + 1) ELSE Sleep

Wake ==
    /\ monitor.at = "sleep" /\ Len(Tables) > 0
    /\ monitor' = At("table", 1)
    /\ UNCHANGED <<database, request, faults>>

CheckTable ==
    LET t == Tables[monitor.i]
        found == estimate[t]
    IN
    /\ monitor.at = "table"
    /\ IF found <= Limits[t]
         THEN NextTable
         ELSE monitor' = [monitor EXCEPT !.at = "batch", !.left = found - Target(t)]
    /\ UNCHANGED <<database, request, faults>>

Batch(left) == Min({left, PruneBatchSize})

PickBatch ==
    LET t == Tables[monitor.i] IN
    /\ monitor.at = "batch" /\ t \in Dated
    /\ monitor' = [monitor EXCEPT !.at = "delete", !.picked = Oldest(t, Batch(monitor.left))]
    /\ UNCHANGED <<database, request, faults>>

\* Mutant: only deleted rows count, and a batch that deletes nothing is repeated.
DeleteUntilDone ==
    LET t == Tables[monitor.i]
        deleted == Cardinality(monitor.picked \cap rows[t])
        left == monitor.left - deleted
    IN
    /\ monitor.at = "delete"
    /\ RemoveRows(t, monitor.picked)
    /\ IF left > 0
         THEN monitor' = [monitor EXCEPT !.at = "batch", !.left = left, !.picked = {}]
         ELSE NextTable
    /\ UNCHANGED <<request, faults>>

\* The batch is taken off what is left to delete, whatever was deleted; a batch
\* that deletes nothing is the last.
DeleteBatch ==
    LET t == Tables[monitor.i]
        deleted == Cardinality(monitor.picked \cap rows[t])
        left == monitor.left - Batch(monitor.left)
    IN
    /\ monitor.at = "delete"
    /\ RemoveRows(t, monitor.picked)
    /\ IF deleted > 0 /\ left > 0
         THEN monitor' = [monitor EXCEPT !.at = "batch", !.left = left, !.picked = {}]
         ELSE NextTable
    /\ UNCHANGED <<request, faults>>

\* Mutant: the batch that failed is tried again.
NoColumnAgain ==
    /\ monitor.at = "batch" /\ Tables[monitor.i] \notin Dated
    /\ monitor' = monitor
    /\ UNCHANGED <<database, request, faults>>

\* ORDER BY created_at raises: run logs it, and the rest of the pass is lost.
NoColumn ==
    /\ monitor.at = "batch" /\ Tables[monitor.i] \notin Dated
    /\ Sleep
    /\ UNCHANGED <<database, request, faults>>

MonitorError ==
    /\ monitor.at # "sleep" /\ faults < MaxFaults
    /\ faults' = faults + 1
    /\ Sleep
    /\ UNCHANGED <<database, request>>

-----------------------------------------------------------------------------
(* api_prune *)

\* One batch at most, and none of a table that is below its target.
CountRows(r, t) ==
    LET count == Cardinality(rows[t]) IN
    /\ request[r].at = "idle" /\ count > Target(t)
    /\ request' = [request EXCEPT ![r] = [at |-> "ready", table |-> t,
                                          n |-> Batch(count - Target(t)), picked |-> {}]]
    /\ UNCHANGED <<database, monitor, faults>>

PickOldest(r) ==
    LET t == request[r].table IN
    /\ request[r].at = "ready" /\ t \in Dated
    /\ request' = [request EXCEPT ![r].at = "picked", ![r].picked = Oldest(t, request[r].n)]
    /\ UNCHANGED <<database, monitor, faults>>

DeleteOldest(r) ==
    /\ request[r].at = "picked"
    /\ RemoveRows(request[r].table, request[r].picked)
    /\ request' = [request EXCEPT ![r] = Idle]
    /\ UNCHANGED <<monitor, faults>>

\* The table has no created_at.
RequestFails(r) ==
    /\ request[r].at = "ready" /\ request[r].table \notin Dated
    /\ request' = [request EXCEPT ![r] = Idle]
    /\ UNCHANGED <<database, monitor, faults>>

-----------------------------------------------------------------------------

Pass == Wake \/ CheckTable \/ PickBatch \/ DeleteBatch \/ NoColumn
Request(r) == PickOldest(r) \/ DeleteOldest(r) \/ RequestFails(r)

MonitorNext ==
    \/ \E t \in Names : Insert(t) \/ Report(t) \/ Analyze(t)
    \/ ResetStats
    \/ Pass \/ MonitorError
    \/ \E r \in Requests : Request(r) \/ \E t \in Names : CountRows(r, t)

\* The event loop runs the monitor and the handlers, sessions report what they
\* did, and autovacuum analyses the tables that change.
Fairness ==
    /\ WF_monitorVars(Pass)
    /\ \A r \in Requests : WF_monitorVars(Request(r))
    /\ \A t \in Names : WF_monitorVars(Report(t)) /\ WF_monitorVars(Analyze(t))

MonitorSpec == MonitorInit /\ [][MonitorNext]_monitorVars
FairSpec == MonitorSpec /\ Fairness

-----------------------------------------------------------------------------
(* Properties *)

\* Every variable keeps its shape, and no row appears that was not inserted.
TypeOK ==
    /\ inserted \in [Names -> Nat] /\ rows \in [Names -> SUBSET Nat]
    /\ \A t \in Names : inserted[t] <= MaxRows[t] /\ rows[t] \subseteq 1 .. inserted[t]
    /\ estimate \in [Names -> Nat] /\ unreported \in [Names -> Int]
    /\ monitor \in [at : {"sleep", "table", "batch", "delete"}, i : 0 .. Len(Tables),
                    left : Nat, picked : SUBSET Nat]
    /\ request \in [Requests -> [at : {"idle", "ready", "picked"}, table : Names \cup {""},
                                 n : Nat, picked : SUBSET Nat]]
    /\ faults \in 0 .. MaxFaults

\* However the monitor's batches and requests overlap, what is left of a table is
\* its latest rows.
LatestKept ==
    \A t \in Names : \A r \in rows[t] : (r .. inserted[t]) \subseteq rows[t]

\* A pass ends, although rows go on being inserted, the estimate exceeds what is
\* there, or a request deletes what the pass was about to.
PassEnds == monitor.at # "sleep" ~> monitor.at = "sleep"

\* The tables that no table without created_at precedes.
Reached == {Tables[i] : i \in {j \in DOMAIN Tables : \A k \in 1 .. j : Tables[k] \in Dated}}

\* The monitor brings these back to their limit, although a later table makes
\* each of its passes fail.
LimitRestored ==
    \A t \in Reached : Cardinality(rows[t]) > Limits[t] ~> Cardinality(rows[t]) <= Limits[t]
=============================================================================
