------------------------------- MODULE TestRuns -------------------------------
(***************************************************************************)
(* The life of a named test run.  The control plane serves /tests/start    *)
(* and /tests/stop from a thread pool, so several calls run at once; each  *)
(* reads the active run from the dashboard, snapshots the database, sends  *)
(* notifications that may be lost or outlive the call's patience, restores *)
(* the baseline and restarts the load generators.  The dashboard is one    *)
(* event loop in front of a SQLite store: every handler is one step.  Its  *)
(* poller measures the database and stores the sample later, under the     *)
(* run that is active by then.                                             *)
(*                                                                         *)
(* Bounds: MaxCalls calls in all, MaxWrites writes per restore,            *)
(* MaxSamples stored samples.                                              *)
(***************************************************************************)
EXTENDS Naturals, Sequences, FiniteSets

CONSTANTS
    Clients,     \* concurrent callers of the control plane
    Faults,      \* which of FaultKinds can happen
    Resets,      \* whether calls name a baseline dump: a set of Booleans
    MaxCalls, MaxWrites, MaxSamples

\* "timeout": five seconds pass without an answer to a lookup or a notification,
\*   which is lost, or still under way
\* "baseline": POST /api/baseline, or the answer to it, is lost
\* "crash": the dashboard process dies and is restarted by Docker
\* "restore": pg_restore fails, which is logged, or the reset raises (a timeout,
\*   ANALYZE)
\* "docker": a container is not found, or does not stop or come back
\* "snapshot": a snapshot query fails
\* "plane": the control plane dies with the calls it was serving
FaultKinds ==
    {"timeout", "baseline", "crash", "restore", "docker", "snapshot", "plane"}

ASSUME TestRunsAssumption ==
    /\ Faults \subseteq FaultKinds
    /\ Resets \subseteq BOOLEAN
    /\ MaxCalls \in Nat
    /\ MaxWrites \in Nat
    /\ MaxSamples \in Nat

Generators == {"load-generator", "load-generator-orm", "pgbench-runner"}
Restarted == {"load-generator", "load-generator-orm"}

(***************************************************************************)
(* A snapshot shows which restore of the database it saw and how much was  *)
(* written since; "error" is the {"error": ...} a failed one returns.      *)
(***************************************************************************)
Snapshot == [kind : {"taken", "error"}, epoch : Nat, writes : Nat]
NoSnapshot == [kind |-> "none", epoch |-> 0, writes |-> 0]
ErrorSnapshot == [kind |-> "error", epoch |-> 0, writes |-> 0]

Run == [status   : {"running", "completed", "stopped"},
        baseline : Nat,               \* index in baselines; 0 is the empty id
        before   : Snapshot,
        after    : Snapshot \cup {NoSnapshot}]

\* Where a /tests/start or /tests/stop handler stands.
Stage == {"idle", "lookup", "stop", "await_stop", "reset", "restore",
          "baseline", "start", "await_start", "restart", "done"}

Handler == [op : {"start", "stop"}, call : Nat, dump : BOOLEAN, active : Nat,
            baseline : Nat, outcome : {"ok", "refused", "failed"}]
NoHandler == [op |-> "stop", call |-> 0, dump |-> FALSE, active |-> 0,
              baseline |-> 0, outcome |-> "ok"]

Message == [kind : {"start", "stop"}, from : Clients, call : Nat,
            awaited : BOOLEAN, snap : Snapshot, baseline : Nat]

VARIABLES
    runs,        \* table test_runs, in started_at order
    baselines,   \* table baselines: the snapshot each row stores
    samples,     \* table samples: the run tagged (0: NULL) and what was measured
    dashboard,   \* is the dashboard process up
    poll,        \* the sample poll_once is filling in, or NoSnapshot
    net,         \* notifications not yet handled by the dashboard
    stage, handler,   \* the control plane's handlers, one per client
    calls,       \* calls made so far
    db,          \* [epoch, writes] of the tested database
    load         \* the generator containers that run

storeVars == <<runs, baselines, samples>>
dashVars == <<dashboard, poll>>
planeVars == <<stage, handler, calls>>
worldVars == <<db, load>>
vars == <<storeVars, dashVars, net, planeVars, worldVars>>

Init ==
    /\ runs = <<>>
    /\ baselines = <<>>
    /\ samples = <<>>
    /\ dashboard = TRUE
    /\ poll = NoSnapshot
    /\ net = {}
    /\ stage = [c \in Clients |-> "idle"]
    /\ handler = [c \in Clients |-> NoHandler]
    /\ calls = 0
    /\ db = [epoch |-> 0, writes |-> 0]
    /\ load = Generators

-----------------------------------------------------------------------------
(* The metrics store *)

Running == {r \in DOMAIN runs : runs[r].status = "running"}

\* active_test_run: the newest running row, 0 when there is none.
Active == IF Running = {} THEN 0
          ELSE CHOOSE r \in Running : \A s \in Running : s <= r

\* Mutant: the running row is not ended.
StartTestRunKeepsOld(before, baseline) ==
    runs' = Append(runs, [status |-> "running", baseline |-> baseline,
                          before |-> before, after |-> NoSnapshot])

\* Mutant: the superseded run passes for a completed one.
StartTestRunCompletes(before, baseline) ==
    runs' = Append([r \in DOMAIN runs |->
                      IF runs[r].status = "running"
                        THEN [runs[r] EXCEPT !.status = "completed"]
                        ELSE runs[r]],
                   [status |-> "running", baseline |-> baseline,
                    before |-> before, after |-> NoSnapshot])

\* start_test_run: every running row is stopped, a new one is inserted.
StartTestRun(before, baseline) ==
    runs' = Append([r \in DOMAIN runs |->
                      IF runs[r].status = "running"
                        THEN [runs[r] EXCEPT !.status = "stopped"]
                        ELSE runs[r]],
                   [status |-> "running", baseline |-> baseline,
                    before |-> before, after |-> NoSnapshot])

\* stop_test_run
StopTestRun(r, after) ==
    runs' = [runs EXCEPT ![r].status = "completed", ![r].after = after]

\* Mutant: the newest run is looked up whatever its status.
AddSampleToNewest(measured) ==
    samples' = Append(samples, [run |-> Len(runs), measured |-> measured])

\* MetricsStore.add: the run is looked up when the sample is stored.
AddSample(measured) ==
    samples' = Append(samples, [run |-> Active, measured |-> measured])

-----------------------------------------------------------------------------
(* The dashboard's endpoints and its poller *)

Measure == [kind |-> "taken", epoch |-> db.epoch, writes |-> db.writes]

\* Where a handler goes on once a notification is answered or given up.
AfterNotify(c, kind) ==
    IF kind = "start" THEN "restart"
    ELSE IF handler[c].op = "stop" THEN "done"
    ELSE IF handler[c].dump THEN "reset" ELSE "start"

Awaits(c) == stage[c] \in {"await_start", "await_stop"}
Resumed(c) == AfterNotify(c, IF stage[c] = "await_start" THEN "start" ELSE "stop")

Answer(m) ==
    /\ net' = net \ {m}
    /\ stage' = IF m.awaited THEN [stage EXCEPT ![m.from] = Resumed(m.from)]
                             ELSE stage

\* POST /api/test-run/start
ServeStart(m) ==
    /\ dashboard
    /\ m.kind = "start"
    /\ StartTestRun(m.snap, m.baseline)
    /\ Answer(m)
    /\ UNCHANGED <<baselines, samples, dashVars, handler, calls, worldVars>>

\* POST /api/test-run/stop: whatever run is active now, not the one named.
ServeStop(m) ==
    /\ dashboard
    /\ m.kind = "stop"
    /\ IF Active = 0 THEN UNCHANGED runs ELSE StopTestRun(Active, m.snap)
    /\ Answer(m)
    /\ UNCHANGED <<baselines, samples, dashVars, handler, calls, worldVars>>

\* POST /api/reset, also reached from the control plane's /flush.
ApiReset ==
    /\ dashboard
    /\ samples # <<>>
    /\ samples' = <<>>
    /\ UNCHANGED <<runs, baselines, dashVars, net, planeVars, worldVars>>

\* poll_once reads the pg_stat views (no more than MaxSamples are stored) ...
PollMeasure ==
    /\ dashboard
    /\ poll = NoSnapshot
    /\ Len(samples) < MaxSamples
    /\ poll' = Measure
    /\ UNCHANGED <<storeVars, dashboard, net, planeVars, worldVars>>

\* ... and stores the sample after the last of its awaits,
PollStore ==
    /\ dashboard
    /\ poll # NoSnapshot
    /\ AddSample(poll)
    /\ poll' = NoSnapshot
    /\ UNCHANGED <<runs, baselines, dashboard, net, planeVars, worldVars>>

\* unless one of the queries raises: run() logs it and goes on.
PollError ==
    /\ dashboard
    /\ poll # NoSnapshot
    /\ poll' = NoSnapshot
    /\ UNCHANGED <<storeVars, dashboard, net, planeVars, worldVars>>

\* The process dies: requests it had accepted fail, the store survives.
DashboardCrash ==
    /\ "crash" \in Faults
    /\ dashboard
    /\ dashboard' = FALSE
    /\ poll' = NoSnapshot
    /\ net' = {}
    /\ stage' = [c \in Clients |->
                   IF Awaits(c) THEN Resumed(c) ELSE stage[c]]
    /\ UNCHANGED <<storeVars, handler, calls, worldVars>>

DashboardRestart ==
    /\ ~dashboard
    /\ dashboard' = TRUE
    /\ UNCHANGED <<storeVars, poll, net, planeVars, worldVars>>

-----------------------------------------------------------------------------
(* The control plane's handlers *)

\* A call arrives: POST /tests/start, with or without a dump, or /tests/stop.
Call(c) ==
    /\ stage[c] = "idle"
    /\ calls < MaxCalls
    /\ calls' = calls + 1
    /\ \E op \in {"start", "stop"}, dump \in Resets :
         /\ dump => op = "start"
         /\ handler' = [handler EXCEPT ![c] =
                          [NoHandler EXCEPT !.op = op, !.call = calls', !.dump = dump]]
    /\ stage' = [stage EXCEPT ![c] = "lookup"]
    /\ UNCHANGED <<storeVars, dashVars, net, worldVars>>

Finish(c, outcome) ==
    /\ stage' = [stage EXCEPT ![c] = "done"]
    /\ handler' = [handler EXCEPT ![c].outcome = outcome]

\* GET /api/test-run: any failure reads as "no active run".
LookupAnswers ==
    {a \in {Active} : dashboard}
        \cup {a \in {0} : ~dashboard \/ "timeout" \in Faults}

Lookup(c) ==
    /\ stage[c] = "lookup"
    /\ \E active \in LookupAnswers :
         \/ /\ active # 0
            /\ stage' = [stage EXCEPT ![c] = "stop"]
            /\ handler' = [handler EXCEPT ![c].active = active]
         \/ /\ active = 0
            /\ handler[c].op = "start"
            /\ stage' = [stage EXCEPT ![c] = AfterNotify(c, "stop")]
            /\ UNCHANGED handler
         \/ /\ active = 0
            /\ handler[c].op = "stop"
            /\ Finish(c, "refused")
    /\ UNCHANGED <<storeVars, dashVars, net, calls, worldVars>>

\* _snapshot_db
SnapshotDb == {Measure} \cup (IF "snapshot" \in Faults THEN {ErrorSnapshot} ELSE {})

\* Mutant: the notification is sent and not waited for.
NotifyNoWait(c, kind, snap, baseline) ==
    /\ net' = net \cup {[kind |-> kind, from |-> c, call |-> handler[c].call,
                         awaited |-> FALSE, snap |-> snap,
                         baseline |-> baseline]}
    /\ stage' = [stage EXCEPT ![c] = AfterNotify(c, kind)]

\* _notify_dashboard_test_run: the request is sent and the call waits, or the
\* connection fails and the call goes on as if it had been answered.
Notify(c, kind, snap, baseline) ==
    \/ /\ dashboard
       /\ net' = net \cup {[kind |-> kind, from |-> c, call |-> handler[c].call,
                            awaited |-> TRUE, snap |-> snap,
                            baseline |-> baseline]}
       /\ stage' = [stage EXCEPT ![c] =
                      IF kind = "start" THEN "await_start" ELSE "await_stop"]
    \/ /\ ~dashboard
       /\ stage' = [stage EXCEPT ![c] = AfterNotify(c, kind)]
       /\ UNCHANGED net

\* The run that was found is stopped with a snapshot taken now.
StopActive(c) ==
    /\ stage[c] = "stop"
    /\ \E snap \in SnapshotDb : Notify(c, "stop", snap, 0)
    /\ UNCHANGED <<storeVars, dashVars, handler, calls, worldVars>>

\* Mutant: only the stop notification has a timeout.
GiveUpStop(c) ==
    /\ "timeout" \in Faults
    /\ stage[c] = "await_stop"
    /\ net' = {IF m.from = c THEN [m EXCEPT !.awaited = FALSE] ELSE m : m \in net}
    /\ stage' = [stage EXCEPT ![c] = Resumed(c)]
    /\ UNCHANGED <<storeVars, dashVars, handler, calls, worldVars>>

\* The five seconds pass; the dashboard may still handle the request.
GiveUp(c) ==
    /\ "timeout" \in Faults
    /\ Awaits(c)
    /\ net' = {IF m.from = c THEN [m EXCEPT !.awaited = FALSE] ELSE m : m \in net}
    /\ stage' = [stage EXCEPT ![c] = Resumed(c)]
    /\ UNCHANGED <<storeVars, dashVars, handler, calls, worldVars>>

\* _reset_db_from_dump stops the generators.  One that find_container does not
\* find, or whose listing raises, is left as it is and the reset goes on; a stop
\* that raises ends the call.
Reset(c) ==
    /\ stage[c] = "reset"
    /\ load' \in IF "docker" \in Faults THEN SUBSET load ELSE {{}}
    /\ \/ /\ stage' = [stage EXCEPT ![c] = "restore"]
          /\ UNCHANGED handler
       \/ /\ "docker" \in Faults
          /\ Finish(c, "failed")
    /\ UNCHANGED <<storeVars, dashVars, net, calls, db>>

\* What pg_restore leaves: the dump's contents, or all or part of what was there
\* before (a part counts as new contents).
Restored == {[epoch |-> db.epoch + 1, writes |-> 0]}
                \cup {d \in {db} : "restore" \in Faults}

\* pg_restore, the statistics resets and ANALYZE.  An exit status that tells of
\* failure is logged and the call goes on; a timeout or ANALYZE ends it.
Restore(c) ==
    /\ stage[c] = "restore"
    /\ db' \in Restored
    /\ \/ /\ stage' = [stage EXCEPT ![c] = "baseline"]
          /\ UNCHANGED handler
       \/ /\ "restore" \in Faults
          /\ Finish(c, "failed")
    /\ UNCHANGED <<storeVars, dashVars, net, calls, load>>

\* Mutant: without an answer the newest stored baseline is taken for the call's.
SaveBaselineOrLast(c) ==
    /\ stage[c] = "baseline"
    /\ stage' = [stage EXCEPT ![c] = "start"]
    /\ \E snap \in SnapshotDb :
         /\ baselines' \in {baselines} \cup {b \in {Append(baselines, snap)} : dashboard}
         /\ baselines' = baselines => ~dashboard \/ "baseline" \in Faults
    /\ handler' = [handler EXCEPT ![c].baseline = Len(baselines')]
    /\ UNCHANGED <<runs, samples, dashVars, net, calls, worldVars>>

\* POST /api/baseline.  Nothing else reads the row, so a late one is a prompt
\* one whose answer was lost.
SaveBaseline(c) ==
    /\ stage[c] = "baseline"
    /\ stage' = [stage EXCEPT ![c] = "start"]
    /\ \E snap \in SnapshotDb :
         \/ /\ dashboard
            /\ baselines' = Append(baselines, snap)
            /\ handler' = [handler EXCEPT ![c].baseline = Len(baselines')]
         \/ /\ dashboard /\ "baseline" \in Faults
            /\ baselines' = Append(baselines, snap)
            /\ UNCHANGED handler
         \/ /\ ~dashboard \/ "baseline" \in Faults
            /\ UNCHANGED <<baselines, handler>>
    /\ UNCHANGED <<runs, samples, dashVars, net, calls, worldVars>>

StartRun(c) ==
    /\ stage[c] = "start"
    /\ \E snap \in SnapshotDb : Notify(c, "start", snap, handler[c].baseline)
    /\ UNCHANGED <<storeVars, dashVars, handler, calls, worldVars>>

\* The two generators are restarted, which also starts a stopped one; an
\* exception leaves a container down or as it was.
RestartGenerators(c) ==
    /\ stage[c] = "restart"
    /\ \/ load' = load \cup Restarted
       \/ /\ "docker" \in Faults
          /\ \E up \in SUBSET Restarted : load' = (load \ Restarted) \cup up
    /\ Finish(c, "ok")
    /\ UNCHANGED <<storeVars, dashVars, net, calls, db>>

Return(c) ==
    /\ stage[c] = "done"
    /\ stage' = [stage EXCEPT ![c] = "idle"]
    /\ handler' = [handler EXCEPT ![c] = NoHandler]
    /\ UNCHANGED <<storeVars, dashVars, net, calls, worldVars>>

\* The control plane dies; what its calls had sent stays on the way.
PlaneCrash ==
    /\ "plane" \in Faults
    /\ \E c \in Clients : stage[c] # "idle"
    /\ stage' = [c \in Clients |-> "idle"]
    /\ handler' = [c \in Clients |-> NoHandler]
    /\ net' = {[m EXCEPT !.awaited = FALSE] : m \in net}
    /\ UNCHANGED <<storeVars, dashVars, calls, worldVars>>

\* The database is written to: by a generator that runs, by an inject or update
\* job, by a replay, by any client of the database.
Write ==
    /\ db.writes < MaxWrites
    /\ db' = [db EXCEPT !.writes = @ + 1]
    /\ UNCHANGED <<storeVars, dashVars, net, planeVars, load>>

-----------------------------------------------------------------------------

Serve == \E m \in net : ServeStart(m) \/ ServeStop(m)

Step(c) ==
    \/ Lookup(c) \/ StopActive(c) \/ GiveUp(c) \/ Reset(c) \/ Restore(c)
    \/ SaveBaseline(c) \/ StartRun(c) \/ RestartGenerators(c) \/ Return(c)

Next ==
    \/ \E c \in Clients : Call(c) \/ Step(c)
    \/ Serve \/ ApiReset
    \/ PollMeasure \/ PollStore \/ PollError
    \/ DashboardCrash \/ DashboardRestart \/ PlaneCrash
    \/ Write

\* The threads of the pool are scheduled.  Nothing is asked of the dashboard:
\* it may be down for good, or never take up what it has accepted.
Fairness == \A c \in Clients : WF_vars(Step(c))

Spec == Init /\ [][Next]_vars
FairSpec == Spec /\ Fairness

-----------------------------------------------------------------------------
(* Properties *)

\* Every variable keeps its shape, whatever the calls and faults.
TypeOK ==
    /\ runs \in Seq(Run)
    /\ baselines \in Seq(Snapshot)
    /\ samples \in Seq([run : Nat, measured : Snapshot])
    /\ dashboard \in BOOLEAN
    /\ poll \in Snapshot \cup {NoSnapshot}
    /\ net \in SUBSET Message
    /\ stage \in [Clients -> Stage]
    /\ handler \in [Clients -> Handler]
    /\ calls \in Nat
    /\ db \in [epoch : Nat, writes : Nat]
    /\ load \in SUBSET Generators

\* At most one run is running and it is the newest one, although concurrent
\* starts and stops reach the dashboard in any order, some of them late: the
\* samples of a run are those stored between its start and its successor's.
RunningIsNewest == \A r \in Running : r = Len(runs)

\* A run that has ended keeps its status and both snapshots for good: a late
\* or repeated stop never completes a run twice nor overwrites its db_after.
EndedRunsFrozen ==
    [][\A r \in DOMAIN runs \ Running :
          r \in DOMAIN runs' /\ runs'[r] = runs[r]]_vars

\* The stored samples of an ended run never become more: the poller, which
\* measures before the run changes and stores after, does not reopen it.
SamplesOf(r) == {i \in DOMAIN samples : samples[i].run = r}
HistorySealed ==
    [][\A r \in DOMAIN runs \ Running :
          Cardinality(SamplesOf(r)') <= Cardinality(SamplesOf(r))]_vars

\* The two snapshots of a completed run can be subtracted: the database was
\* not restored between them and the second is not older than the first.
DeltaMeaningful ==
    \A r \in DOMAIN runs :
        runs[r].before.kind = "taken" /\ runs[r].after.kind = "taken" =>
            /\ runs[r].before.epoch = runs[r].after.epoch
            /\ runs[r].before.writes <= runs[r].after.writes

\* A run that names a baseline can be compared with it: nothing was restored
\* between the baseline and the run's first snapshot, which is not the older one.
\* The two need not be equal: a generator that was not found, a job or a replay
\* writes on between them, and a failed pg_restore does not keep the call from
\* saving the unrestored contents as the baseline.
StartsFromBaseline ==
    \A r \in DOMAIN runs :
        LET b == baselines[runs[r].baseline] IN
        /\ runs[r].baseline # 0
        /\ runs[r].before.kind = "taken"
        /\ b.kind = "taken"
        => /\ runs[r].before.epoch = b.epoch
           /\ b.writes <= runs[r].before.writes

\* Every call is answered, even when the dashboard never does: no handler
\* waits for it beyond its timeout.
CallsReturn == \A c \in Clients : stage[c] # "idle" ~> stage[c] = "idle"

(***************************************************************************)
(* The store as the list of closed runs and the open one.                  *)
(***************************************************************************)
Record(r) == [status |-> runs[r].status, before |-> runs[r].before,
              after |-> runs[r].after]

Ledger == INSTANCE RunLedger WITH
    Snapshots <- Snapshot,
    history   <- [r \in DOMAIN runs \ Running |-> Record(r)],
    open      <- IF Running = {} THEN <<>> ELSE <<runs[Active].before>>

\* Whatever the interleaving and the faults, the store behaves as a run ledger:
\* one run open at a time, each closed once, in order, never touched again.
ImplementsLedger == Ledger!LedgerSpec
=============================================================================
