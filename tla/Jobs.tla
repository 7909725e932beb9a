--------------------------------- MODULE Jobs ---------------------------------
(***************************************************************************)
(* The background jobs of the control plane, and the browser tabs and      *)
(* other callers that start them.  A POST registers a job in the           *)
(* dictionary "jobs" and hands its function to the thread pool; the        *)
(* function does its work in batches and reports through update_job and    *)
(* complete_job, which skip a job that is no longer registered.  /flush    *)
(* clears the dictionary under the running functions and a restart forgets *)
(* it along with them.  A tab remembers the job whose POST was answered    *)
(* last and polls it until it has ended.                                   *)
(*                                                                         *)
(* Rows are counted in units that BatchSize bounds (500000 in the code).   *)
(* Bounds: MaxJobs scenarios are started; total_updated is counted modulo  *)
(* MaxTotal + 1.                                                           *)
(***************************************************************************)
EXTENDS Integers, Sequences, FiniteSets

CONSTANTS
    Tabs,        \* browser tabs
    NoTab,       \* a caller of the API that is not a tab
    Pressed,     \* the scenarios tabs start, among Scenarios
    Requested,   \* the scenarios other callers start, among Scenarios
    Rows,        \* rows an inject asks for, and an update's clause matches
    BatchSize,   \* rows per statement of an inject
    Sizes,       \* batch sizes an update is asked for; a negative one raises
    Counts,      \* rowcounts of the statement a caller gives with an inject
    Steps,       \* phases of a growth ladder
    Plan,        \* planned rows of each table of a cascade, nearest to the root first
    Rematch,     \* whether rows an update has updated may still match its clause: Booleans
    Faults,      \* which of FaultKinds can happen
    MaxJobs, MaxTotal

Scenarios == {"inject", "update", "cascade", "connections", "ladder"}

\* "conflict": rows of a batch already exist, or the table has too few to clone
\* "error": a statement or a pgbench run raises; or update_job does, whose job was
\*   flushed after it had looked it up
\* "empty": a table of the cascade has no rows
\* "flush": somebody flushes the jobs
\* "restart": the control plane dies and is restarted
\* "lost": a tab does not see the answer to its POST
\* "reload": a tab is reloaded
FaultKinds == {"conflict", "error", "empty", "flush", "restart", "lost", "reload"}

ASSUME JobsAssumption ==
    /\ Pressed \subseteq Scenarios /\ Requested \subseteq Scenarios
    /\ Rows \in Nat
    /\ NoTab \notin Tabs
    /\ BatchSize \in Nat \ {0}
    /\ Sizes \subseteq Nat
    /\ Counts \subseteq Int
    /\ Steps \in Nat
    /\ Plan \in Seq(Nat)
    /\ Rematch \subseteq BOOLEAN /\ Rematch # {}
    /\ Faults \subseteq FaultKinds
    /\ MaxJobs \in Nat
    /\ MaxTotal \in Nat

\* A row of the dictionary: what GET /jobs shows.  It is reported when its result or
\* its error has been filled in.
Job == [kind : Scenarios, status : {"running", "completed", "failed"},
        progress : 0 .. 100, before : BOOLEAN, rows : Int, reported : BOOLEAN]

\* A running function: the tab it was started for, what it was asked for (an update
\* with its batch size, an inject with a statement of the caller's or without), what is
\* left to do, what it has counted and (in real) what the statements answered; and
\* whether the rows it has updated match again.
Task == [kind : Scenarios, by : Tabs \cup {NoTab}, parent : Nat, asked : Nat, size : Nat,
         template : BOOLEAN, left : Nat, done : Int, real : Int, sub : Nat,
         again : BOOLEAN,
         stage : {"before", "batches", "analyze", "next", "sub", "reporting", "ended"}]

VARIABLES
    jobs,    \* the dictionary
    tasks,   \* the functions handed to the pool, in order: the job id is the index
    posts,   \* the jobs each tab has posted and waits to be told of
    active,  \* the job each tab polls (activeDataOp), or 0
    late,    \* the tabs an earlier poll's answer, that its job has ended, is on its way to
    astray   \* the tabs that ever lost track of a job, or started a scenario before an
             \* earlier POST was answered (a history)

vars == <<jobs, tasks, posts, active, late, astray>>
tabVars == <<posts, active, late, astray>>

NoJobs == [j \in {} |-> {}]

Init ==
    /\ jobs = NoJobs
    /\ tasks = <<>>
    /\ posts = [t \in Tabs |-> {}]
    /\ active = [t \in Tabs |-> 0]
    /\ late = {}
    /\ astray = {}

LesserOf(a, b) == IF a < b THEN a ELSE b

-----------------------------------------------------------------------------
(* The registry *)

\* new_job
Registered(js, id, kind) ==
    [j \in DOMAIN js \cup {id} |->
       IF j = id THEN [kind |-> kind, status |-> "running", progress |-> 0,
                       before |-> kind = "cascade", rows |-> 0, reported |-> FALSE]
       ELSE js[j]]

\* update_job with a progress
Updated(js, id, progress) ==
    IF id \in DOMAIN js THEN [js EXCEPT ![id].progress = LesserOf(progress, 100)]
                        ELSE js

End(id) == tasks' = [tasks EXCEPT ![id].stage = "ended"]

\* complete_job writes the status before anything else, into a row that is still there.
Verdict(id, status) ==
    \/ /\ id \in DOMAIN jobs
       /\ jobs' = [jobs EXCEPT ![id].status = status]
       /\ tasks' = [tasks EXCEPT ![id].stage = "reporting"]
    \/ /\ id \notin DOMAIN jobs
       /\ End(id)
       /\ UNCHANGED jobs

\* The rest of complete_job, field by field: a flush may have taken the row since, which
\* raises, and the second complete_job, of the error, finds nothing.
Reported(row, rows) ==
    IF row.status = "completed"
      THEN [row EXCEPT !.progress = 100, !.rows = rows, !.reported = TRUE]
      ELSE [row EXCEPT !.reported = TRUE]
Report(id) ==
    /\ tasks[id].stage = "reporting"
    /\ jobs' = IF id \in DOMAIN jobs
                 THEN [jobs EXCEPT ![id] = Reported(jobs[id], tasks[id].done)]
                 ELSE jobs
    /\ End(id)
    /\ UNCHANGED tabVars

Complete(id) == Verdict(id, "completed")

\* Mutant: the exception is caught further out, and not reported.
RaiseSilently(id) ==
    /\ "error" \in Faults
    /\ End(id)
    /\ UNCHANGED jobs

\* Mutant: the failure is reported and the function goes on.
RaiseGoesOn(id) ==
    /\ "error" \in Faults
    /\ id \in DOMAIN jobs
    /\ jobs' = [jobs EXCEPT ![id].status = "failed"]
    /\ UNCHANGED tasks

\* An exception: caught at the end of the function, which reports it.
Raise(id) ==
    /\ "error" \in Faults
    /\ Verdict(id, "failed")

\* A request as its function gets it.
NewTask(kind, by, parent, asked, size, template) ==
    [kind |-> kind, by |-> by, parent |-> parent, asked |-> asked, size |-> size,
     template |-> template, left |-> IF kind = "cascade" THEN 1 ELSE asked,
     done |-> 0, real |-> 0, sub |-> 0, again |-> FALSE,
     stage |-> IF kind = "cascade" THEN "next" ELSE "before"]

-----------------------------------------------------------------------------
(* _do_inject, _do_bulk_update, _do_connections and _do_ladder *)

\* The snapshot before.  An inject and an update store it with a plain lookup,
\* whose KeyError ends the function when the job has been flushed.
Before(id) ==
    LET k == tasks[id].kind IN
    /\ tasks[id].stage = "before"
    /\ \/ /\ k \in {"inject", "update"} => id \in DOMAIN jobs
          /\ \E again \in IF k = "update" THEN Rematch ELSE {FALSE} :
                 tasks' = [tasks EXCEPT ![id].stage = "batches", ![id].again = again]
          /\ jobs' = CASE k \in {"inject", "update"} ->
                            [jobs EXCEPT ![id].before = TRUE, ![id].progress = 0]
                       [] k = "connections" -> Updated(jobs, id, 10)
                       [] OTHER -> jobs
       \/ /\ k \in {"inject", "update"} /\ id \notin DOMAIN jobs
          /\ End(id)
          /\ UNCHANGED jobs
       \/ Raise(id)
    /\ UNCHANGED tabVars

Percent(part, whole) == (part * 100) \div whole

\* Mutant: a batch that fails is rolled back and the inject starts over.
InjectBatchRetries(id) ==
    LET k == tasks[id]  batch == LesserOf(k.left, BatchSize) IN
    /\ k.stage = "batches" /\ k.kind = "inject" /\ k.left > 0
    /\ \/ /\ tasks' = [tasks EXCEPT ![id].left = @ - batch,
                                    ![id].done = @ + batch,
                                    ![id].real = @ + batch]
          /\ UNCHANGED jobs
       \/ /\ "error" \in Faults
          /\ tasks' = [tasks EXCEPT ![id].left = k.asked, ![id].done = 0,
                                    ![id].real = 0]
          /\ UNCHANGED jobs
    /\ UNCHANGED tabVars

\* Mutant: the last batch is as large as the others.
InjectBatchFull(id) ==
    LET k == tasks[id] IN
    /\ k.stage = "batches" /\ k.kind = "inject" /\ k.left > 0
    /\ \/ /\ tasks' = [tasks EXCEPT ![id].left = @ - BatchSize,
                                    ![id].done = @ + BatchSize,
                                    ![id].real = @ + BatchSize]
          /\ UNCHANGED jobs
       \/ Raise(id)
    /\ UNCHANGED tabVars

Answered(k, batch) ==
    IF k.template THEN Counts
    ELSE IF "conflict" \in Faults THEN 0 .. batch ELSE {batch}

\* A batch: of the statement the code builds, rows that conflict are skipped by ON
\* CONFLICT DO NOTHING; a statement of the caller's answers with any rowcount.  A batch
\* of which none was inserted counts as inserted.
InjectBatch(id) ==
    LET k == tasks[id]  batch == LesserOf(k.left, BatchSize) IN
    /\ k.stage = "batches" /\ k.kind = "inject" /\ k.left > 0
    /\ \/ \E actual \in Answered(k, batch) :
             /\ tasks' = [tasks EXCEPT
                            ![id].left = @ - batch,
                            ![id].done = @ + (IF actual = 0 THEN batch ELSE actual),
                            ![id].real = @ + actual]
             /\ jobs' = Updated(jobs, id, Percent(k.asked - k.left + batch, k.asked))
       \/ Raise(id)
    /\ UNCHANGED tabVars

InjectEnds(id) ==
    /\ tasks[id].stage = "batches" /\ tasks[id].kind = "inject" /\ tasks[id].left = 0
    /\ tasks' = [tasks EXCEPT ![id].stage = "analyze"]
    /\ jobs' = Updated(jobs, id, 95)
    /\ UNCHANGED tabVars

\* A batch of updates; the one that finds fewer rows than it may update is the
\* last, and none is when it may update none.
UpdateBatch(id) ==
    LET k == tasks[id]  rows == LesserOf(k.left, k.size) IN
    /\ k.stage = "batches" /\ k.kind = "update"
    /\ \/ /\ tasks' = [tasks EXCEPT
                         ![id].left = IF k.again THEN @ ELSE @ - rows,
                         ![id].done = (@ + rows) % (MaxTotal + 1),
                         ![id].real = (@ + rows) % (MaxTotal + 1),
                         ![id].stage = IF rows < k.size THEN "analyze" ELSE @]
          /\ jobs' = IF rows < k.size THEN Updated(jobs, id, 95) ELSE jobs
       \/ Raise(id)
    /\ UNCHANGED tabVars

\* ANALYZE and the snapshot after.
Analyze(id) ==
    /\ tasks[id].stage = "analyze"
    /\ Complete(id) \/ Raise(id)
    /\ UNCHANGED tabVars

\* The pgbench run of a connection spike, and what it measured.
Spike(id) ==
    /\ tasks[id].stage = "batches" /\ tasks[id].kind = "connections"
    /\ Complete(id) \/ Raise(id)
    /\ UNCHANGED tabVars

\* A phase of a ladder, each a pgbench run with more connections than the last.
LadderPhase(id) ==
    /\ tasks[id].stage = "batches" /\ tasks[id].kind = "ladder"
    /\ tasks[id].left > 0
    /\ \/ /\ tasks' = [tasks EXCEPT ![id].left = @ - 1]
          /\ UNCHANGED jobs
       \/ Raise(id)
    /\ UNCHANGED tabVars

\* After the last phase: the report.
LadderEnds(id) ==
    /\ tasks[id].stage = "batches" /\ tasks[id].kind = "ladder"
    /\ tasks[id].left = 0
    /\ Complete(id) \/ Raise(id)
    /\ UNCHANGED tabVars

-----------------------------------------------------------------------------
(* _do_cascade: "left" is the position in the plan *)

PlannedUpTo[i \in 0 .. Len(Plan)] ==
    IF i = 0 THEN 0 ELSE PlannedUpTo[i - 1] + Plan[i]

\* A table of the plan: skipped, or injected by a job of its own, on the thread
\* of this one; after the last, the job completes.
CascadeNext(id) ==
    LET k == tasks[id]  sub == Len(tasks) + 1 IN
    /\ k.stage = "next"
    /\ \/ /\ k.left > Len(Plan)
          /\ Complete(id)
       \/ /\ k.left <= Len(Plan)
          /\ Plan[k.left] = 0 \/ "empty" \in Faults
          /\ tasks' = [tasks EXCEPT ![id].left = @ + 1]
          /\ UNCHANGED jobs
       \/ /\ k.left <= Len(Plan)
          /\ Plan[k.left] > 0
          /\ tasks' = Append([tasks EXCEPT ![id].stage = "sub", ![id].sub = sub],
                             NewTask("inject", k.by, id, Plan[k.left], 0, FALSE))
          /\ jobs' = Registered(
                Updated(jobs, id, Percent(k.done, PlannedUpTo[Len(Plan)])),
                sub, "inject")
       \/ /\ k.left <= Len(Plan)
          /\ Raise(id)
    /\ UNCHANGED tabVars

\* The table's function has returned: its rows count as injected, whatever it
\* has reported.  Or its report met a flush, and it has raised out of its handler.
CascadeReturn(id) ==
    LET k == tasks[id] IN
    /\ k.stage = "sub"
    /\ tasks[k.sub].stage = "ended"
    /\ \/ /\ tasks' = [tasks EXCEPT ![id].stage = "next",
                                    ![id].left = @ + 1,
                                    ![id].done = @ + Plan[k.left],
                                    ![id].real = @ + tasks[k.sub].real]
          /\ UNCHANGED jobs
       \/ /\ id \notin DOMAIN jobs
          /\ Raise(id)
    /\ UNCHANGED tabVars

-----------------------------------------------------------------------------
(* The tabs, the flush and the control plane's restart *)

Started == {id \in DOMAIN tasks : tasks[id].parent = 0}

Asked(kind) == CASE kind = "ladder"      -> Steps
                 [] kind = "connections" -> 0
                 [] kind = "cascade"     -> PlannedUpTo[Len(Plan)]
                 [] OTHER                -> Rows

\* What a request may give with it: an update its batch size.
SizesOf(kind) == IF kind = "update" THEN Sizes ELSE {0}

\* A POST is served: the job is registered and its function handed to the pool.
StartJob(by, kind, size, template) ==
    LET id == Len(tasks) + 1 IN
    /\ Cardinality(Started) < MaxJobs
    /\ tasks' = Append(tasks, NewTask(kind, by, 0, Asked(kind), size, template))
    /\ jobs' = Registered(jobs, id, kind)

\* A caller that is not a tab: it may give an inject its statement.
Request ==
    /\ \E kind \in Requested, template \in BOOLEAN :
          /\ template => kind = "inject"
          /\ \E size \in SizesOf(kind) : StartJob(NoTab, kind, size, template)
    /\ UNCHANGED tabVars

\* The button of a scenario: an inject and its cascade share one.
Button(kind) == IF kind = "cascade" THEN "inject" ELSE kind

AstrayIf(cond, t) == astray' = IF cond THEN astray \cup {t} ELSE astray

\* Mutant: a button is disabled by its own POST alone.
PressAnyTime(t) ==
    /\ \E kind \in Pressed :
          /\ \A id \in posts[t] : Button(tasks[id].kind) # Button(kind)
          /\ \E size \in SizesOf(kind) : StartJob(t, kind, size, FALSE)
    /\ posts' = [posts EXCEPT ![t] = @ \cup {Len(tasks) + 1}]
    /\ AstrayIf(posts[t] # {}, t)
    /\ UNCHANGED <<active, late>>

\* A scenario's button, enabled while the tab polls no job and the button's own POST is
\* not out; another button's POST may be.
Press(t) ==
    /\ active[t] = 0
    /\ \E kind \in Pressed :
          /\ \A id \in posts[t] : Button(tasks[id].kind) # Button(kind)
          /\ \E size \in SizesOf(kind) : StartJob(t, kind, size, FALSE)
    /\ posts' = [posts EXCEPT ![t] = @ \cup {Len(tasks) + 1}]
    /\ AstrayIf(posts[t] # {}, t)
    /\ UNCHANGED <<active, late>>

\* The answer names the job the tab will poll, in place of one it polls already.
Answer(t) ==
    /\ \E id \in posts[t] :
          /\ posts' = [posts EXCEPT ![t] = @ \ {id}]
          /\ \/ /\ active' = [active EXCEPT ![t] = id]
                /\ AstrayIf(active[t] # 0, t)
             \/ /\ "lost" \in Faults
                /\ AstrayIf(TRUE, t)
                /\ UNCHANGED active
    /\ UNCHANGED <<jobs, tasks, late>>

\* The poll that finds the job ended; any other, a 404 too, is ignored by the tab.  An
\* earlier poll's answer may still be under way.
Poll(t) ==
    /\ active[t] \in DOMAIN jobs
    /\ jobs[active[t]].status \in {"completed", "failed"}
    /\ active' = [active EXCEPT ![t] = 0]
    /\ late' \in {late, late \cup {t}}
    /\ UNCHANGED <<jobs, tasks, posts, astray>>

\* It arrives, and clears whatever the tab polls by now.
LatePoll(t) ==
    /\ t \in late
    /\ late' \in {late, late \ {t}}
    /\ active' = [active EXCEPT ![t] = 0]
    /\ AstrayIf(active[t] # 0, t)
    /\ UNCHANGED <<jobs, tasks, posts>>

Reload(t) ==
    /\ "reload" \in Faults
    /\ active[t] # 0 \/ posts[t] # {}
    /\ AstrayIf(TRUE, t)
    /\ posts' = [posts EXCEPT ![t] = {}]
    /\ active' = [active EXCEPT ![t] = 0]
    /\ late' = late \ {t}
    /\ UNCHANGED <<jobs, tasks>>

\* POST /flush for the jobs, or for everything.
Flush ==
    /\ "flush" \in Faults
    /\ DOMAIN jobs # {}
    /\ jobs' = NoJobs
    /\ UNCHANGED <<tasks, tabVars>>

\* Jobs live in memory: they and their functions are gone; a tab waiting for an
\* answer gets an error.
Restart ==
    /\ "restart" \in Faults
    /\ tasks # <<>>
    /\ jobs' = NoJobs
    /\ tasks' = [id \in DOMAIN tasks |-> [tasks[id] EXCEPT !.stage = "ended"]]
    /\ posts' = [t \in Tabs |-> {}]
    /\ UNCHANGED <<active, late, astray>>

-----------------------------------------------------------------------------

Work(id) ==
    \/ Before(id) \/ InjectBatch(id) \/ InjectEnds(id) \/ UpdateBatch(id)
    \/ Analyze(id) \/ Spike(id) \/ LadderPhase(id) \/ LadderEnds(id)
    \/ CascadeNext(id) \/ CascadeReturn(id) \/ Report(id)

Next ==
    \/ \E id \in DOMAIN tasks : Work(id)
    \/ \E t \in Tabs : Press(t) \/ Answer(t) \/ Poll(t) \/ LatePoll(t) \/ Reload(t)
    \/ Request \/ Flush \/ Restart

\* A cascade hands over a function of its own for each table it is to fill.
MaxTasks == MaxJobs * (1 + Cardinality({i \in DOMAIN Plan : Plan[i] > 0}))

\* An update that need not end: its batches are of no rows, or its own rows match its
\* clause again and fill every batch (main.py:478-489).
Endless(k) ==
    k.kind = "update" /\ (k.size = 0 \/ (k.again /\ k.asked >= k.size))

\* The pool runs every function it was handed (it has forty threads), and the database
\* answers every statement, with an error perhaps; of an endless update nothing is asked.
Fairness ==
    \A id \in 1 .. MaxTasks :
        WF_vars(id \in DOMAIN tasks /\ ~Endless(tasks[id]) /\ Work(id))

Spec == Init /\ [][Next]_vars
FairSpec == Spec /\ Fairness

-----------------------------------------------------------------------------
(* Properties *)

\* Every variable keeps its shape; a percentage stays one, and a tab, a
\* cascade and a dictionary key name functions that were started.
TypeOK ==
    /\ DOMAIN jobs \subseteq DOMAIN tasks
    /\ \A id \in DOMAIN jobs : jobs[id] \in Job
    /\ tasks \in Seq(Task)
    /\ \A id \in DOMAIN tasks : tasks[id].sub \in 0 .. Len(tasks)
    /\ posts \in [Tabs -> SUBSET DOMAIN tasks]
    /\ active \in [Tabs -> 0 .. Len(tasks)]
    /\ late \subseteq Tabs /\ astray \subseteq Tabs

\* A verdict is final: a listed job that completed or failed keeps its status, its
\* progress does not fall from then on, and when its result or error is there the row
\* stays as it is, until a flush drops it.
JobSealed ==
    [][\A id \in DOMAIN jobs \cap DOMAIN jobs' :
          jobs[id].status # "running" =>
              /\ jobs'[id].status = jobs[id].status
              /\ jobs'[id].progress >= jobs[id].progress
              /\ jobs[id].reported => jobs'[id] = jobs[id]]_vars

\* A job that is listed as running is being run, and one whose function has ended shows
\* its result or its error: no function ends without reporting to a row that is there.
RunningIsRun ==
    \A id \in DOMAIN jobs :
        tasks[id].stage = "ended" => jobs[id].status # "running" /\ jobs[id].reported

\* What an inject reports of the statement the code builds (not of a caller's own) lies
\* between what the database took and what was asked for, however many rows conflicted.
ReportInBounds ==
    \A id \in DOMAIN tasks :
        tasks[id].kind = "inject" /\ ~tasks[id].template =>
            tasks[id].real <= tasks[id].done /\ tasks[id].done <= tasks[id].asked

\* The scenarios of a tab whose work is not done.
LiveScenarios(t) ==
    {id \in Started : tasks[id].by = t /\ tasks[id].stage \notin {"reporting", "ended"}}

\* A tab that never lost track of a job, and waited for the answer to each POST before
\* the next, has one scenario running at a time: it does not start another before the
\* last one's work is done, whatever fails, is flushed or restarted.
OneScenario == \A t \in Tabs \ astray : Cardinality(LiveScenarios(t)) <= 1

\* Every function ends, but an endless update: no conflict, error or flush makes it loop.
TasksEnd ==
    \A id \in 1 .. MaxTasks :
        id \in DOMAIN tasks ~>
            (id \in DOMAIN tasks /\ (tasks[id].stage = "ended" \/ Endless(tasks[id])))
=============================================================================
