------------------------------ MODULE JobsProofs ------------------------------
(***************************************************************************)
(* What holds of the background jobs for any tabs, rows, batches, plans    *)
(* and faults: types; a job is listed as running exactly as long as its    *)
(* function works and shows its result or error exactly when it has ended, *)
(* from which it follows that no verdict is taken back; what an inject     *)
(* reports is bounded; and a tab that is not astray has one scenario at    *)
(* work at most, since the only one it may have is the one it knows.       *)
(***************************************************************************)
EXTENDS Jobs, FiniteSetTheorems, WellFoundedInduction, TLAPS

-----------------------------------------------------------------------------
(* The inductive invariant *)

\* What a function has counted and has still to do, and which come to the stages of a
\* cascade; one that waits for the function of a table names it.
Counted(k) ==
    /\ k.kind = "inject" => k.left <= k.asked
    /\ k.kind = "inject" /\ ~k.template => k.real <= k.done /\ k.done + k.left <= k.asked
    /\ k.stage \in {"next", "sub"} => k.kind = "cascade" /\ k.left >= 1
    /\ k.kind = "cascade" => k.done >= 0
    /\ k.stage = "sub" => k.left <= Len(Plan) /\ k.sub >= 1

\* A function works until its verdict is there; its job's row says running as long, and
\* shows the result or the error once it has ended.
AtWork(stage) == stage \notin {"reporting", "ended"}
Shows(j, stage) ==
    /\ j \in Job
    /\ j.status = "running" <=> AtWork(stage)
    /\ j.reported <=> stage = "ended"

\* The functions are what they may be, and a listed job shows where its function is.
TasksOK(ts) ==
    /\ ts \in Seq(Task)
    /\ \A id \in DOMAIN ts : Counted(ts[id]) /\ ts[id].sub \in 0 .. Len(ts)
ListedRight(js, ts) ==
    /\ DOMAIN js \subseteq DOMAIN ts
    /\ \A id \in DOMAIN js : Shows(js[id], ts[id].stage)
Right(js, ts) == TasksOK(ts) /\ ListedRight(js, ts)

TabsOK ==
    /\ posts \in [Tabs -> SUBSET DOMAIN tasks]
    /\ active \in [Tabs -> 0 .. Len(tasks)]
    /\ late \subseteq Tabs /\ astray \subseteq Tabs

\* A tab that is not astray knows the scenario that runs for it, as the one it has posted
\* or as the one it polls, and knows of one at most.
Known(t) == posts[t] \cup {active[t]}
KnowsOne(t) ==
    /\ posts[t] = {} \/ active[t] = 0
    /\ \A i, j \in posts[t] : i = j
TabsKnow == \A t \in Tabs \ astray : LiveScenarios(t) \subseteq Known(t) /\ KnowsOne(t)

IInv == Right(jobs, tasks) /\ TabsOK /\ TabsKnow

-----------------------------------------------------------------------------
(* Numbers *)

\* A set of numbers that has zero and the next of each of its members is all of them: the
\* least number it lacked would have one before it.
LEMMA SetInduction ==
    ASSUME NEW T \in SUBSET Nat, 0 \in T, \A n \in T : n + 1 \in T
    PROVE  T = Nat
<1> SUFFICES ASSUME T # Nat PROVE FALSE
    OBVIOUS
<1> DEFINE U == Nat \ T
           R == OpToRel(<, Nat)
<1>1. U # {} /\ U \subseteq Nat
    OBVIOUS
<1>2. IsWellFoundedOn(R, Nat)
    BY NatLessThanWellFounded, Zenon
<1>3. \E x \in U : \A y \in U : ~ (<<y, x>> \in R)
    BY ONLY <1>1, <1>2, WFMin, Zenon
<1>4. PICK x \in U : \A y \in U : ~ (<<y, x>> \in R)
    BY <1>3
<1> HIDE DEF R
<1>5. x \in Nat /\ x # 0 /\ x - 1 \in Nat
    BY <1>4
<1>6. x - 1 \in T \/ x - 1 \in U
    BY <1>5
<1>7. x - 1 \notin T
    BY <1>5
<1>8. <<x - 1, x>> \in R
  <2>1. x - 1 < x
      BY <1>5
  <2> QED
      BY <1>5, <2>1, Zenon DEF R, OpToRel
<1> QED
    BY <1>4, <1>6, <1>7, <1>8

LEMMA Quotients ==
    ASSUME NEW a \in Nat, NEW b \in Nat, b > 0
    PROVE  Percent(a, b) \in Nat
<1> PICK c \in Nat : c = a * 100
    OBVIOUS
<1> c \div b \in Nat
    OBVIOUS
<1> QED
    BY DEF Percent

LEMMA Remainders ==
    ASSUME NEW a \in Int
    PROVE  a % (MaxTotal + 1) \in Nat
<1> PICK m \in Nat \ {0} : m = MaxTotal + 1
    BY JobsAssumption
<1> QED
    OBVIOUS

LEMMA Lesser ==
    ASSUME NEW a \in Nat, NEW b \in Nat
    PROVE  /\ LesserOf(a, b) \in Nat
           /\ LesserOf(a, b) <= a
           /\ LesserOf(a, b) <= b
           /\ LesserOf(a, b) \in 0 .. b
BY DEF LesserOf

-----------------------------------------------------------------------------
(* The planned rows of a cascade *)

\* A table's rows are added to those of the tables before it.
LEMMA PlannedDef ==
    \A i \in 0 .. Len(Plan) :
        PlannedUpTo[i] = IF i = 0 THEN 0 ELSE PlannedUpTo[i - 1] + Plan[i]
<1> DEFINE L == Len(Plan)
           Sums(g, n) == \A i \in 0 .. n : g[i] = IF i = 0 THEN 0 ELSE g[i - 1] + Plan[i]
           T == {n \in Nat : n <= L => \E g : g = [i \in 0 .. n |-> g[i]] /\ Sums(g, n)}
<1>1. L \in Nat
    BY JobsAssumption
<1> HIDE DEF L
<1>2. 0 \in T
  <2> DEFINE z == [i \in 0 .. 0 |-> 0]
  <2>1. z = [i \in 0 .. 0 |-> z[i]] /\ Sums(z, 0)
      OBVIOUS
  <2> QED
      BY <2>1
<1>3. \A n \in T : n + 1 \in T
  <2> SUFFICES ASSUME NEW n \in Nat, n + 1 <= L,
                      NEW g, g = [i \in 0 .. n |-> g[i]], Sums(g, n)
               PROVE  \E h : h = [i \in 0 .. n + 1 |-> h[i]] /\ Sums(h, n + 1)
      BY <1>1
  <2> DEFINE h == [i \in 0 .. n + 1 |-> IF i = n + 1 THEN g[n] + Plan[n + 1] ELSE g[i]]
  <2>1. h = [i \in 0 .. n + 1 |-> h[i]]
      OBVIOUS
  <2>2. h[n + 1] = g[n] + Plan[n + 1] /\ \A i \in 0 .. n : h[i] = g[i]
      OBVIOUS
  <2> HIDE DEF h
  <2>3. ASSUME NEW i \in 0 .. n + 1 PROVE h[i] = IF i = 0 THEN 0 ELSE h[i - 1] + Plan[i]
    <3>1. CASE i = n + 1
        BY <3>1, <2>2
    <3>2. CASE i \in 0 .. n /\ i = 0
        BY <3>2, <2>2
    <3>3. CASE i \in 0 .. n /\ i # 0
      <4>1. i - 1 \in 0 .. n
          BY <3>3
      <4> QED
          BY <3>3, <4>1, <2>2
    <3> QED
        BY <3>1, <3>2, <3>3
  <2> QED
      BY <2>1, <2>3
<1>4. L \in T
  <2> HIDE DEF T
  <2>1. T \subseteq Nat
      BY DEF T
  <2>2. T = Nat
      BY <2>1, <1>2, <1>3, SetInduction
  <2> QED
      BY <2>2, <1>1
<1>5. PICK g : g = [i \in 0 .. L |-> g[i]] /\ Sums(g, L)
    BY <1>4
<1>6. g = [i \in 0 .. L |-> IF i = 0 THEN 0 ELSE g[i - 1] + Plan[i]]
  <2>1. \A i \in 0 .. L : g[i] = IF i = 0 THEN 0 ELSE g[i - 1] + Plan[i]
      BY <1>5
  <2> QED
      BY <1>5, <2>1, Zenon
<1>7. PlannedUpTo = [i \in 0 .. L |-> IF i = 0 THEN 0 ELSE PlannedUpTo[i - 1] + Plan[i]]
    BY <1>6, Zenon DEF PlannedUpTo, L
<1>8. ASSUME NEW i \in 0 .. L
      PROVE  PlannedUpTo[i] = IF i = 0 THEN 0 ELSE PlannedUpTo[i - 1] + Plan[i]
    BY <1>7, Zenon
<1> QED
    BY <1>8 DEF L

\* A cascade's planned rows are a number, and no less than those of any of its tables.
LEMMA Planned ==
    /\ PlannedUpTo[Len(Plan)] \in Nat
    /\ \A k \in 1 .. Len(Plan) : Plan[k] \in Nat /\ PlannedUpTo[Len(Plan)] >= Plan[k]
<1> DEFINE P(n) == PlannedUpTo[n] \in Nat /\ \A k \in 1 .. n : PlannedUpTo[n] >= Plan[k]
           T == {n \in Nat : n <= Len(Plan) => P(n)}
<1>1. Len(Plan) \in Nat /\ \A k \in 1 .. Len(Plan) : Plan[k] \in Nat
    BY JobsAssumption
<1>2. 0 \in T
    BY <1>1, PlannedDef
<1>3. \A n \in T : n + 1 \in T
  <2> SUFFICES ASSUME NEW n \in Nat, n + 1 <= Len(Plan), P(n) PROVE P(n + 1)
      BY <1>1
  <2>1. n + 1 \in 1 .. Len(Plan)
      BY <1>1
  <2>2. PlannedUpTo[n + 1] = PlannedUpTo[n] + Plan[n + 1]
    <3>1. n + 1 \in 0 .. Len(Plan) /\ n + 1 # 0 /\ (n + 1) - 1 = n
        BY <1>1
    <3> QED
        BY <3>1, PlannedDef
  <2>3. Plan[n + 1] \in Nat /\ \A k \in 1 .. n : Plan[k] \in Nat
      BY <2>1, <1>1
  <2>4. ASSUME NEW k \in 1 .. n + 1 PROVE PlannedUpTo[n + 1] >= Plan[k]
    <3>1. CASE k = n + 1
        BY <3>1, <2>2, <2>3
    <3>2. CASE k \in 1 .. n
        BY <3>2, <2>2, <2>3
    <3> QED
        BY <3>1, <3>2
  <2> QED
      BY <2>2, <2>3, <2>4
<1>4. Len(Plan) \in T
  <2> HIDE DEF T
  <2>1. T \subseteq Nat
      BY DEF T
  <2>2. T = Nat
      BY <2>1, <1>2, <1>3, SetInduction
  <2> QED
      BY <2>2, <1>1
<1> QED
    BY <1>1, <1>4

-----------------------------------------------------------------------------
(* The registry and the functions *)

\* The rows of the other jobs stay as they are.
Kept(js, js2, id) ==
    /\ DOMAIN js2 = DOMAIN js
    /\ \A j \in DOMAIN js \ {id} : js2[j] = js[j]

\* The row of the job, if it is still listed, shows where its function is.
Reports(js2, id, stage) == id \in DOMAIN js2 => Shows(js2[id], stage)

\* A progress changes the row of its job alone.
LEMMA ProgressReported ==
    ASSUME NEW js, NEW id, id \in DOMAIN js => js[id] \in Job, NEW p \in Nat
    PROVE  /\ Kept(js, Updated(js, id, p), id)
           /\ id \in DOMAIN js => /\ Updated(js, id, p)[id] \in Job
                                  /\ Updated(js, id, p)[id].status = js[id].status
                                  /\ Updated(js, id, p)[id].reported = js[id].reported
<1>1. CASE id \notin DOMAIN js
    BY <1>1 DEF Kept, Updated
<1>2. CASE id \in DOMAIN js
  <2> PICK j \in Job : j = js[id]
      BY <1>2
  <2>1. PICK q \in 0 .. 100 : q = LesserOf(p, 100)
      BY Lesser
  <2>2. PICK r : r = [j EXCEPT !.progress = q]
      OBVIOUS
  <2>3. r \in Job /\ r.status = j.status /\ r.reported = j.reported
      BY <2>2 DEF Job
  <2>4. Updated(js, id, p) = [js EXCEPT ![id] = r]
      BY <1>2, <2>1, <2>2 DEF Updated
  <2> QED
      BY <1>2, <2>3, <2>4 DEF Kept
<1> QED
    BY <1>1, <1>2

\* What complete_job does to the row: the status, and the rest after it.
LEMMA VerdictShows ==
    ASSUME NEW j, Shows(j, "batches"), NEW status \in {"completed", "failed"}
    PROVE  Shows([j EXCEPT !.status = status], "reporting")
<1> PICK r : r = [j EXCEPT !.status = status]
    OBVIOUS
<1>1. r \in Job /\ r.status = status /\ r.reported = j.reported
    BY DEF Job, Shows
<1> QED
    BY <1>1 DEF Shows, AtWork

\* A verdict in a row stays, as does all of it once it is reported.
Keeps(j, j2) ==
    j.status # "running" =>
        /\ j2.status = j.status
        /\ j2.progress >= j.progress
        /\ j.reported => j2 = j

LEMMA KeepsItself == \A j \in Job : Keeps(j, j)
BY DEF Keeps, Job

LEMMA ReportedShows ==
    ASSUME NEW j, Shows(j, "reporting"), NEW n \in Int
    PROVE  Shows(Reported(j, n), "ended") /\ Keeps(j, Reported(j, n))
<1>1. j \in Job /\ j.status # "running" /\ ~j.reported /\ j.progress \in 0 .. 100
    BY DEF Shows, AtWork, Job
<1>2. CASE j.status = "completed"
  <2> PICK hundred \in 0 .. 100 : hundred = 100
      OBVIOUS
  <2> PICK r1 : r1 = [j EXCEPT !.progress = hundred]
      OBVIOUS
  <2>1. r1 \in Job /\ r1.status = j.status /\ r1.progress = 100
      BY <1>1 DEF Job
  <2> PICK r2 : r2 = [r1 EXCEPT !.rows = n]
      OBVIOUS
  <2>2. /\ r2 = [kind |-> r1.kind, status |-> r1.status, progress |-> r1.progress,
                 before |-> r1.before, rows |-> n, reported |-> r1.reported]
        /\ r2 \in Job /\ r2.status = j.status /\ r2.progress = 100
    <3>1. r2 = [kind |-> r1.kind, status |-> r1.status, progress |-> r1.progress,
                before |-> r1.before, rows |-> n, reported |-> r1.reported]
        BY <2>1 DEF Job
    <3>2. /\ r1.kind \in Scenarios /\ r1.status \in {"running", "completed", "failed"}
          /\ r1.progress \in 0 .. 100 /\ r1.before \in BOOLEAN /\ r1.reported \in BOOLEAN
        BY <2>1 DEF Job
    <3>3. r2 \in Job
        BY <3>1, <3>2 DEF Job
    <3> QED
        BY <2>1, <3>1, <3>3
  <2> PICK r3 : r3 = [r2 EXCEPT !.reported = TRUE]
      OBVIOUS
  <2>3. r3 \in Job /\ r3.status = j.status /\ r3.progress = 100 /\ r3.reported
      BY <2>2 DEF Job
  <2>4. Reported(j, n) = r3
      BY <1>2 DEF Reported
  <2> QED
      BY <1>1, <2>3, <2>4 DEF Shows, AtWork, Keeps
<1>3. CASE j.status # "completed"
  <2> PICK r : r = [j EXCEPT !.reported = TRUE]
      OBVIOUS
  <2>1. r \in Job /\ r.status = j.status /\ r.progress = j.progress /\ r.reported
      BY <1>1 DEF Job
  <2>2. Reported(j, n) = r
      BY <1>3 DEF Reported
  <2> QED
      BY <1>1, <2>1, <2>2 DEF Shows, AtWork, Keeps
<1> QED
    BY <1>2, <1>3

\* A function replaced by another that is what it may be, and its job's row with it.
LEMMA Replaced ==
    ASSUME NEW js, NEW ts, Right(js, ts),
           NEW id \in DOMAIN ts, NEW r \in Task, Counted(r), r.sub \in 0 .. Len(ts),
           NEW js2, Kept(js, js2, id), Reports(js2, id, r.stage)
    PROVE  Right(js2, [ts EXCEPT ![id] = r])
<1> DEFINE us == [ts EXCEPT ![id] = r]
<1>1. ts \in Seq(Task) /\ DOMAIN ts = 1 .. Len(ts) /\ Len(ts) \in Nat
    BY DEF Right, TasksOK
<1>2. us \in Seq(Task) /\ Len(us) = Len(ts) /\ DOMAIN us = DOMAIN ts
    BY <1>1
<1>3. us[id] = r /\ \A i \in DOMAIN ts \ {id} : us[i] = ts[i]
    BY <1>1
<1> HIDE DEF us
<1>4. TasksOK(us)
  <2>1. ASSUME NEW i \in DOMAIN us PROVE Counted(us[i]) /\ us[i].sub \in 0 .. Len(us)
    <3>1. CASE i = id
        BY <3>1, <1>2, <1>3
    <3>2. CASE i # id
        BY <3>2, <1>2, <1>3 DEF Right, TasksOK
    <3> QED
        BY <3>1, <3>2
  <2> QED
      BY <2>1, <1>2 DEF TasksOK
<1>5. ListedRight(js2, us)
  <2>1. DOMAIN js2 \subseteq DOMAIN us
      BY <1>2 DEF Right, ListedRight, Kept
  <2>2. ASSUME NEW i \in DOMAIN js2
        PROVE  Shows(js2[i], us[i].stage)
    <3>1. CASE i = id
        BY <3>1, <1>3 DEF Reports
    <3>2. CASE i # id
      <4>1. i \in DOMAIN js \ {id} /\ i \in DOMAIN ts
          BY <3>2 DEF Kept, Right, ListedRight
      <4> QED
          BY <4>1, <1>3 DEF Kept, Right, ListedRight
    <3> QED
        BY <3>1, <3>2
  <2> QED
      BY <2>1, <2>2 DEF ListedRight
<1> QED
    BY <1>4, <1>5 DEF Right, us

\* A function appended, its job registered under its index.
LEMMA Added ==
    ASSUME NEW js, NEW ts, Right(js, ts),
           NEW n \in Task, Counted(n), n.sub = 0, AtWork(n.stage), NEW kind \in Scenarios
    PROVE  /\ Right(Registered(js, Len(ts) + 1, kind), Append(ts, n))
           /\ \A i \in DOMAIN js : Registered(js, Len(ts) + 1, kind)[i] = js[i]
<1> DEFINE us == Append(ts, n)
           id == Len(ts) + 1
           js2 == Registered(js, id, kind)
<1>1. ts \in Seq(Task) /\ DOMAIN ts = 1 .. Len(ts) /\ Len(ts) \in Nat
    BY DEF Right, TasksOK
<1>2. us \in Seq(Task) /\ Len(us) = id /\ DOMAIN us = DOMAIN ts \cup {id} /\ id \notin DOMAIN ts
    BY <1>1
<1>3. us[id] = n /\ \A i \in DOMAIN ts : us[i] = ts[i]
    BY <1>1
<1> HIDE DEF us
<1>4. TasksOK(us)
  <2>1. ASSUME NEW i \in DOMAIN us PROVE Counted(us[i]) /\ us[i].sub \in 0 .. Len(us)
    <3>1. CASE i = id
        BY <3>1, <1>1, <1>2, <1>3
    <3>2. CASE i # id
      <4>1. i \in DOMAIN ts
          BY <3>2, <1>2
      <4>2. Counted(ts[i]) /\ ts[i].sub \in 0 .. Len(ts)
          BY <4>1 DEF Right, TasksOK
      <4> QED
          BY <4>1, <4>2, <1>1, <1>2, <1>3
    <3> QED
        BY <3>1, <3>2
  <2> QED
      BY <2>1, <1>2 DEF TasksOK
<1>5. DOMAIN js \subseteq DOMAIN ts
    BY DEF Right, ListedRight
<1>6. /\ DOMAIN js2 = DOMAIN js \cup {id}
      /\ js2[id] = [kind |-> kind, status |-> "running", progress |-> 0,
                    before |-> kind = "cascade", rows |-> 0, reported |-> FALSE]
      /\ \A i \in DOMAIN js : js2[i] = js[i]
    BY <1>2, <1>5 DEF Registered
<1>7. Shows(js2[id], n.stage)
  <2> PICK b \in BOOLEAN : b = (kind = "cascade")
      OBVIOUS
  <2> PICK r : r = [kind |-> kind, status |-> "running", progress |-> 0,
                    before |-> b, rows |-> 0, reported |-> FALSE]
      OBVIOUS
  <2>1. r \in Job /\ r.status = "running" /\ r.reported = FALSE
      BY DEF Job
  <2>2. js2[id] = r
      BY <1>6, Zenon
  <2> QED
      BY <2>1, <2>2 DEF Shows, AtWork
<1> HIDE DEF js2
<1>8. ListedRight(js2, us)
  <2>1. DOMAIN js2 \subseteq DOMAIN us
      BY <1>2, <1>5, <1>6
  <2>2. ASSUME NEW i \in DOMAIN js2
        PROVE  Shows(js2[i], us[i].stage)
    <3>1. CASE i = id
        BY <3>1, <1>3, <1>7
    <3>2. CASE i # id
      <4>1. i \in DOMAIN js /\ i \in DOMAIN ts
          BY <3>2, <1>5, <1>6
      <4> QED
          BY <4>1, <1>3, <1>6 DEF Right, ListedRight
    <3> QED
        BY <3>1, <3>2
  <2> QED
      BY <2>1, <2>2 DEF ListedRight
<1> QED
    BY <1>4, <1>6, <1>8 DEF Right, us, js2

\* What a function starts with.
LEMMA NewTasks ==
    ASSUME NEW kind \in Scenarios, NEW by \in Tabs \cup {NoTab}, NEW parent \in Nat,
           NEW asked \in Nat, NEW size \in Nat, NEW template \in BOOLEAN
    PROVE  LET n == NewTask(kind, by, parent, asked, size, template) IN
           /\ n \in Task /\ Counted(n)
           /\ n.sub = 0 /\ AtWork(n.stage) /\ n.by = by /\ n.parent = parent
<1> DEFINE n == NewTask(kind, by, parent, asked, size, template)
<1>1. /\ n.kind = kind /\ n.by = by /\ n.parent = parent /\ n.asked = asked
      /\ n.left = (IF kind = "cascade" THEN 1 ELSE asked)
      /\ n.done = 0 /\ n.real = 0 /\ n.sub = 0
      /\ n.stage = (IF kind = "cascade" THEN "next" ELSE "before")
    BY DEF NewTask
<1>2. n \in Task
    BY DEF NewTask, Task
<1>3. Counted(n)
    BY <1>1 DEF Counted
<1> QED
    BY <1>1, <1>2, <1>3 DEF AtWork

\* What each scenario asks for is a number.
LEMMA Asks ==
    ASSUME NEW kind \in Scenarios
    PROVE  Asked(kind) \in Nat
BY Planned, JobsAssumption DEF Asked, Scenarios

-----------------------------------------------------------------------------
(* The steps of a function *)

\* A step that changes one function and the row of its job.
Moves(id) ==
    \E r \in Task :
        /\ Counted(r) /\ r.sub \in 0 .. Len(tasks)
        /\ r.kind = tasks[id].kind /\ r.by = tasks[id].by /\ r.parent = tasks[id].parent
        /\ tasks' = [tasks EXCEPT ![id] = r]
        /\ Kept(jobs, jobs', id) /\ Reports(jobs', id, r.stage)

\* What a running function and the row of its job are.
LEMMA Running ==
    ASSUME Right(jobs, tasks), NEW id \in DOMAIN tasks
    PROVE  /\ tasks \in Seq(Task) /\ Len(tasks) \in Nat /\ DOMAIN tasks = 1 .. Len(tasks)
           /\ tasks[id] \in Task /\ Counted(tasks[id]) /\ tasks[id].sub \in 0 .. Len(tasks)
           /\ id \in DOMAIN jobs => Shows(jobs[id], tasks[id].stage) /\ jobs[id] \in Job
BY DEF Shows, Right, TasksOK, ListedRight

\* Where a function is changes with its row, not what it has counted.
LEMMA StageMoves ==
    ASSUME Right(jobs, tasks), NEW id \in DOMAIN tasks, NEW stage \in {"reporting", "ended"},
           tasks' = [tasks EXCEPT ![id].stage = stage],
           Kept(jobs, jobs', id), Reports(jobs', id, stage)
    PROVE  Moves(id)
<1> PICK k \in Task : k = tasks[id] /\ Counted(k) /\ k.sub \in 0 .. Len(tasks)
    BY Running
<1> PICK r : r = [k EXCEPT !.stage = stage]
    OBVIOUS
<1>1. /\ r \in Task /\ r.stage = stage /\ r.kind = k.kind /\ r.by = k.by
      /\ r.parent = k.parent /\ r.sub = k.sub /\ r.template = k.template
      /\ r.real = k.real /\ r.done = k.done /\ r.left = k.left /\ r.asked = k.asked
    BY DEF Task
<1>2. Counted(r)
    BY <1>1 DEF Counted
<1>3. tasks' = [tasks EXCEPT ![id] = r]
    OBVIOUS
<1> QED
    BY <1>1, <1>2, <1>3 DEF Moves

LEMMA VerdictMoves ==
    ASSUME Right(jobs, tasks), NEW id \in DOMAIN tasks, AtWork(tasks[id].stage),
           NEW status \in {"completed", "failed"}, Verdict(id, status)
    PROVE  Moves(id)
<1>1. CASE id \in DOMAIN jobs
  <2> PICK j : j = [jobs[id] EXCEPT !.status = status]
      OBVIOUS
  <2>1. Shows(jobs[id], "batches")
      BY <1>1, Running DEF Shows, AtWork
  <2>2. Shows(j, "reporting")
      BY <2>1, VerdictShows
  <2>3. jobs' = [jobs EXCEPT ![id] = j] /\ tasks' = [tasks EXCEPT ![id].stage = "reporting"]
      BY <1>1 DEF Verdict
  <2>4. Kept(jobs, jobs', id) /\ Reports(jobs', id, "reporting")
      BY <1>1, <2>2, <2>3 DEF Kept, Reports
  <2> QED
      BY <2>3, <2>4, StageMoves
<1>2. CASE id \notin DOMAIN jobs
  <2>1. tasks' = [tasks EXCEPT ![id].stage = "ended"] /\ jobs' = jobs
      BY <1>2 DEF Verdict, End
  <2>2. Kept(jobs, jobs', id) /\ Reports(jobs', id, "ended")
      BY <1>2, <2>1 DEF Kept, Reports
  <2> QED
      BY <2>1, <2>2, StageMoves
<1> QED
    BY <1>1, <1>2

LEMMA RaiseMoves ==
    ASSUME Right(jobs, tasks), NEW id \in DOMAIN tasks, AtWork(tasks[id].stage),
           Raise(id) \/ Complete(id)
    PROVE  Moves(id)
BY VerdictMoves DEF Raise, Complete

\* A step that goes on with the function, and does not touch the rows or sets the
\* progress.
LEMMA GoesOn ==
    ASSUME Right(jobs, tasks), NEW id \in DOMAIN tasks, AtWork(tasks[id].stage),
           NEW stage, AtWork(stage),
           jobs' = jobs \/ \E p \in Nat : jobs' = Updated(jobs, id, p)
    PROVE  Kept(jobs, jobs', id) /\ Reports(jobs', id, stage)
<1>1. CASE jobs' = jobs
    BY <1>1, Running DEF Kept, Reports, Shows, AtWork
<1>2. CASE \E p \in Nat : jobs' = Updated(jobs, id, p)
  <2> PICK p \in Nat : jobs' = Updated(jobs, id, p)
      BY <1>2
  <2>1. id \in DOMAIN jobs => /\ jobs[id] \in Job /\ jobs[id].status = "running"
                              /\ ~jobs[id].reported
      BY Running DEF Shows, AtWork
  <2>2. PICK js : js = Updated(jobs, id, p)
      OBVIOUS
  <2>3. /\ Kept(jobs, js, id)
        /\ id \in DOMAIN jobs => /\ js[id] \in Job /\ js[id].status = "running"
                                 /\ ~js[id].reported
      BY <2>1, <2>2, ProgressReported
  <2>4. Kept(jobs, js, id) /\ Reports(js, id, stage)
      BY <2>3 DEF Kept, Reports, Shows, AtWork
  <2> QED
      BY <2>2, <2>4
<1> QED
    BY <1>1, <1>2

LEMMA BeforeMoves ==
    ASSUME Right(jobs, tasks), NEW id \in DOMAIN tasks, Before(id)
    PROVE  Moves(id) /\ AtWork(tasks[id].stage)
<1> PICK k \in Task : k = tasks[id] /\ Counted(k) /\ k.sub \in 0 .. Len(tasks)
    BY Running
<1>0. k.stage = "before" /\ AtWork(k.stage) /\ AtWork("batches")
    BY DEF Before, AtWork
<1>1. ASSUME NEW again \in BOOLEAN,
             k.kind \in {"inject", "update"} => id \in DOMAIN jobs,
             tasks' = [tasks EXCEPT ![id].stage = "batches", ![id].again = again],
             jobs' = CASE k.kind \in {"inject", "update"} ->
                             [jobs EXCEPT ![id].before = TRUE, ![id].progress = 0]
                        [] k.kind = "connections" -> Updated(jobs, id, 10)
                        [] OTHER -> jobs
      PROVE  Moves(id)
  <2> PICK r : r = [k EXCEPT !.stage = "batches", !.again = again]
      OBVIOUS
  <2>1. /\ r \in Task /\ r.stage = "batches" /\ r.kind = k.kind /\ r.by = k.by
        /\ r.parent = k.parent /\ r.sub = k.sub /\ r.template = k.template
        /\ r.real = k.real /\ r.done = k.done /\ r.left = k.left /\ r.asked = k.asked
      BY DEF Task
  <2>2. Counted(r)
      BY <2>1 DEF Counted
  <2>3. tasks' = [tasks EXCEPT ![id] = r]
      BY <1>1
  <2>4. Kept(jobs, jobs', id) /\ Reports(jobs', id, "batches")
    <3>1. CASE k.kind \in {"inject", "update"}
      <4> PICK j \in Job : j = jobs[id] /\ j.status = "running" /\ ~j.reported
          BY <3>1, <1>0, <1>1, Running DEF Shows
      <4> PICK j2 : j2 = [j EXCEPT !.before = TRUE]
          OBVIOUS
      <4> PICK z \in 0 .. 100 : z = 0
          OBVIOUS
      <4> PICK j3 : j3 = [j2 EXCEPT !.progress = z]
          OBVIOUS
      <4>1. j2 \in Job /\ j2.status = "running" /\ ~j2.reported
          BY DEF Job
      <4>2. j3 \in Job /\ j3.status = "running" /\ ~j3.reported
          BY <4>1 DEF Job
      <4>3. jobs' = [jobs EXCEPT ![id].before = TRUE, ![id].progress = 0]
          BY <3>1, <1>1
      <4>4. jobs' = [jobs EXCEPT ![id] = j3]
          BY <4>3, <1>1, <3>1
      <4> QED
          BY <4>2, <4>4 DEF Kept, Reports, Shows, AtWork
    <3>2. CASE k.kind = "connections"
      <4>1. jobs' = Updated(jobs, id, 10)
          BY <3>2, <1>1
      <4> QED
          BY <4>1, <1>0, GoesOn
    <3>3. CASE k.kind \notin {"inject", "update", "connections"}
      <4>1. jobs' = jobs
          BY <3>3, <1>1
      <4> QED
          BY <4>1, <1>0, GoesOn
    <3> QED
        BY <3>1, <3>2, <3>3
  <2> QED
      BY <2>1, <2>2, <2>3, <2>4 DEF Moves
<1>2. ASSUME id \notin DOMAIN jobs, End(id), UNCHANGED jobs
      PROVE  Moves(id)
  <2>1. Kept(jobs, jobs', id) /\ Reports(jobs', id, "ended")
      BY <1>2 DEF Kept, Reports
  <2>2. tasks' = [tasks EXCEPT ![id].stage = "ended"]
      BY <1>2 DEF End
  <2> QED
      BY <2>1, <2>2, StageMoves
<1>3. CASE Raise(id)
    BY <1>0, <1>3, RaiseMoves
<1>4. (IF k.kind = "update" THEN Rematch ELSE {FALSE}) \subseteq BOOLEAN
    BY JobsAssumption
<1> QED
    BY <1>0, <1>1, <1>2, <1>3, <1>4 DEF Before

LEMMA InjectBatchMoves ==
    ASSUME Right(jobs, tasks), NEW id \in DOMAIN tasks, InjectBatch(id)
    PROVE  Moves(id) /\ AtWork(tasks[id].stage)
<1> PICK k \in Task : k = tasks[id] /\ Counted(k) /\ k.sub \in 0 .. Len(tasks)
    BY Running
<1>1. k.stage = "batches" /\ k.kind = "inject" /\ k.left > 0 /\ AtWork(k.stage)
    BY DEF InjectBatch, AtWork
<1>2. ASSUME NEW l \in Nat, NEW d \in Int, NEW rl \in Int, l <= k.asked,
             ~k.template => rl <= d /\ d + l <= k.asked,
             tasks' = [tasks EXCEPT ![id].left = l, ![id].done = d, ![id].real = rl],
             NEW p \in Nat, jobs' = Updated(jobs, id, p)
      PROVE  Moves(id)
  <2> PICK r : r = [k EXCEPT !.left = l, !.done = d, !.real = rl]
      OBVIOUS
  <2>1. /\ r \in Task /\ r.stage = k.stage /\ r.kind = k.kind /\ r.by = k.by
        /\ r.parent = k.parent /\ r.sub = k.sub /\ r.template = k.template
        /\ r.real = rl /\ r.done = d /\ r.left = l /\ r.asked = k.asked
      BY DEF Task
  <2>2. Counted(r)
      BY <1>1, <1>2, <2>1 DEF Counted
  <2>3. tasks' = [tasks EXCEPT ![id] = r]
      BY <1>2
  <2>4. Kept(jobs, jobs', id) /\ Reports(jobs', id, r.stage)
      BY <1>1, <1>2, <2>1, GoesOn
  <2> QED
      BY <2>1, <2>2, <2>3, <2>4 DEF Moves
<1> PICK left \in Nat : left = k.left
    BY DEF Task
<1> PICK batch \in Nat : batch = LesserOf(left, BatchSize) /\ batch <= left
    BY Lesser, JobsAssumption
<1> PICK done \in Int, real \in Int, asked \in Nat :
        done = k.done /\ real = k.real /\ asked = k.asked
    BY DEF Task
<1>3. /\ left > 0 /\ left <= asked
      /\ ~k.template => real <= done /\ done + left <= asked
    BY <1>1 DEF Counted
<1>4. ASSUME NEW actual \in Int, ~k.template => actual \in 0 .. batch,
             tasks' = [tasks EXCEPT
                         ![id].left = @ - batch,
                         ![id].done = @ + (IF actual = 0 THEN batch ELSE actual),
                         ![id].real = @ + actual],
             jobs' = Updated(jobs, id, Percent(k.asked - k.left + batch, k.asked))
      PROVE  Moves(id)
  <2> PICK inserted \in Int : inserted = IF actual = 0 THEN batch ELSE actual
      OBVIOUS
  <2>1. ~k.template => actual <= inserted /\ inserted <= batch
      BY <1>4
  <2>2. /\ left - batch \in Nat /\ done + inserted \in Int /\ real + actual \in Int
        /\ left - batch <= asked
    <3>1. /\ done \in Int /\ inserted \in Int /\ left \in Nat /\ batch \in Nat
          /\ asked \in Nat /\ batch <= left /\ real \in Int /\ actual \in Int
        OBVIOUS
    <3> QED
        BY ONLY <3>1, <1>3
  <2>3. ~k.template => /\ real + actual <= done + inserted
                       /\ done + inserted + (left - batch) <= asked
    <3>1. /\ done \in Int /\ inserted \in Int /\ left \in Nat /\ batch \in Nat
          /\ asked \in Nat /\ batch <= left /\ real \in Int /\ actual \in Int
        OBVIOUS
    <3> QED
        BY ONLY <3>1, <1>3, <2>1
  <2>4. tasks' = [tasks EXCEPT ![id].left = left - batch,
                               ![id].done = done + inserted,
                               ![id].real = real + actual]
      BY <1>4
  <2>5. asked - left + batch \in Nat /\ asked > 0
    <3>1. left \in Nat /\ batch \in Nat /\ asked \in Nat
        OBVIOUS
    <3> QED
        BY ONLY <3>1, <1>3
  <2>6. Percent(asked - left + batch, asked) \in Nat
      BY <2>5, Quotients
  <2>7. jobs' = Updated(jobs, id, Percent(asked - left + batch, asked))
      BY <1>4
  <2> QED
      BY <1>2, <2>2, <2>3, <2>4, <2>6, <2>7
<1>5. ASSUME NEW actual \in Answered(k, batch)
      PROVE  actual \in Int /\ (~k.template => actual \in 0 .. batch)
    BY JobsAssumption DEF Answered
<1> QED
    BY <1>1, <1>4, <1>5, RaiseMoves DEF InjectBatch

LEMMA InjectEndsMoves ==
    ASSUME Right(jobs, tasks), NEW id \in DOMAIN tasks, InjectEnds(id)
    PROVE  Moves(id) /\ AtWork(tasks[id].stage)
<1> PICK k \in Task : k = tasks[id] /\ Counted(k) /\ k.sub \in 0 .. Len(tasks)
    BY Running
<1>1. /\ k.stage = "batches" /\ AtWork(k.stage) /\ AtWork("analyze")
      /\ tasks' = [tasks EXCEPT ![id].stage = "analyze"]
      /\ jobs' = Updated(jobs, id, 95)
    BY DEF InjectEnds, AtWork
<1> PICK r : r = [k EXCEPT !.stage = "analyze"]
    OBVIOUS
<1>2. /\ r \in Task /\ r.stage = "analyze" /\ r.kind = k.kind /\ r.by = k.by
      /\ r.parent = k.parent /\ r.sub = k.sub /\ r.template = k.template
      /\ r.real = k.real /\ r.done = k.done /\ r.left = k.left /\ r.asked = k.asked
    BY DEF Task
<1>3. Counted(r)
    BY <1>2 DEF Counted
<1>4. tasks' = [tasks EXCEPT ![id] = r]
    BY <1>1
<1>5. Kept(jobs, jobs', id) /\ Reports(jobs', id, r.stage)
    BY <1>1, <1>2, GoesOn
<1> QED
    BY <1>1, <1>2, <1>3, <1>4, <1>5 DEF Moves

LEMMA UpdateBatchMoves ==
    ASSUME Right(jobs, tasks), NEW id \in DOMAIN tasks, UpdateBatch(id)
    PROVE  Moves(id) /\ AtWork(tasks[id].stage)
<1> PICK k \in Task : k = tasks[id] /\ Counted(k) /\ k.sub \in 0 .. Len(tasks)
    BY Running
<1>1. /\ k.stage = "batches" /\ k.kind = "update" /\ AtWork(k.stage)
      /\ AtWork("batches") /\ AtWork("analyze")
    BY DEF UpdateBatch, AtWork
<1>2. ASSUME NEW l \in Nat, NEW d \in Int, NEW rl \in Int, NEW s \in {"analyze", "batches"},
             tasks' = [tasks EXCEPT ![id].left = l, ![id].done = d, ![id].real = rl,
                                    ![id].stage = s],
             jobs' = jobs \/ jobs' = Updated(jobs, id, 95)
      PROVE  Moves(id)
  <2> PICK q : q = [k EXCEPT !.left = l, !.done = d, !.real = rl]
      OBVIOUS
  <2>1. /\ q \in Task /\ q.kind = k.kind /\ q.by = k.by
        /\ q.parent = k.parent /\ q.sub = k.sub
      BY DEF Task
  <2> PICK r : r = [q EXCEPT !.stage = s]
      OBVIOUS
  <2>2. /\ r \in Task /\ r.stage = s /\ r.kind = k.kind /\ r.by = k.by
        /\ r.parent = k.parent /\ r.sub = k.sub
      BY <2>1 DEF Task
  <2>3. Counted(r)
      BY <1>1, <2>2 DEF Counted
  <2>4. tasks' = [tasks EXCEPT ![id] = r]
      BY <1>2
  <2>5. Kept(jobs, jobs', id) /\ Reports(jobs', id, r.stage)
      BY <1>1, <1>2, <2>2, GoesOn
  <2> QED
      BY <2>2, <2>3, <2>4, <2>5 DEF Moves
<1> PICK left \in Nat, size \in Nat : left = k.left /\ size = k.size
    BY DEF Task
<1> PICK done \in Int, real \in Int : done = k.done /\ real = k.real
    BY DEF Task
<1> PICK rows \in Nat : rows = LesserOf(left, size) /\ rows <= left
    BY Lesser
<1>3. ASSUME tasks' = [tasks EXCEPT
                         ![id].left = IF k.again THEN @ ELSE @ - rows,
                         ![id].done = (@ + rows) % (MaxTotal + 1),
                         ![id].real = (@ + rows) % (MaxTotal + 1),
                         ![id].stage = IF rows < k.size THEN "analyze" ELSE @],
             jobs' = IF rows < k.size THEN Updated(jobs, id, 95) ELSE jobs
      PROVE  Moves(id)
  <2>1. (IF k.again THEN left ELSE left - rows) \in Nat
      OBVIOUS
  <2>2. (done + rows) % (MaxTotal + 1) \in Int /\ (real + rows) % (MaxTotal + 1) \in Int
    <3>1. done + rows \in Int /\ real + rows \in Int
        OBVIOUS
    <3> QED
        BY <3>1, Remainders
  <2>3. (IF rows < k.size THEN "analyze" ELSE "batches") \in {"analyze", "batches"}
      OBVIOUS
  <2>4. tasks' = [tasks EXCEPT
                    ![id].left = IF k.again THEN left ELSE left - rows,
                    ![id].done = (done + rows) % (MaxTotal + 1),
                    ![id].real = (real + rows) % (MaxTotal + 1),
                    ![id].stage = IF rows < k.size THEN "analyze" ELSE "batches"]
      BY <1>1, <1>3
  <2>5. jobs' = jobs \/ jobs' = Updated(jobs, id, 95)
      BY <1>3
  <2> QED
      BY ONLY ZenonT(40), <1>2, <2>1, <2>2, <2>3, <2>4, <2>5
<1> QED
    BY <1>1, <1>3, RaiseMoves DEF UpdateBatch

LEMMA AnalyzeMoves ==
    ASSUME Right(jobs, tasks), NEW id \in DOMAIN tasks,
           Analyze(id) \/ Spike(id) \/ LadderEnds(id)
    PROVE  Moves(id) /\ AtWork(tasks[id].stage)
<1>1. AtWork(tasks[id].stage)
    BY DEF Analyze, Spike, LadderEnds, AtWork
<1> QED
    BY <1>1, RaiseMoves DEF Analyze, Spike, LadderEnds

LEMMA LadderPhaseMoves ==
    ASSUME Right(jobs, tasks), NEW id \in DOMAIN tasks, LadderPhase(id)
    PROVE  Moves(id) /\ AtWork(tasks[id].stage)
<1> PICK k \in Task : k = tasks[id] /\ Counted(k) /\ k.sub \in 0 .. Len(tasks)
    BY Running
<1>1. k.stage = "batches" /\ k.kind = "ladder" /\ k.left > 0 /\ AtWork(k.stage)
    BY DEF LadderPhase, AtWork
<1>2. ASSUME tasks' = [tasks EXCEPT ![id].left = @ - 1], UNCHANGED jobs
      PROVE  Moves(id)
  <2> PICK l \in Nat : l = k.left - 1
      BY <1>1 DEF Task
  <2> PICK r : r = [k EXCEPT !.left = l]
      OBVIOUS
  <2>1. /\ r \in Task /\ r.stage = k.stage /\ r.kind = k.kind /\ r.by = k.by
        /\ r.parent = k.parent /\ r.sub = k.sub
      BY DEF Task
  <2>2. Counted(r)
      BY <1>1, <2>1 DEF Counted
  <2>3. tasks' = [tasks EXCEPT ![id] = r]
      BY <1>2
  <2>4. Kept(jobs, jobs', id) /\ Reports(jobs', id, r.stage)
      BY <1>1, <1>2, <2>1, GoesOn
  <2> QED
      BY <2>1, <2>2, <2>3, <2>4 DEF Moves
<1> QED
    BY <1>1, <1>2, RaiseMoves DEF LadderPhase

\* A step that hands the function of a table to the pool.
Spawns(id) ==
    \E r \in Task, n \in Task, js \in {Updated(jobs, id, p) : p \in Nat} :
        /\ Counted(r) /\ r.sub \in 0 .. Len(tasks) + 1 /\ AtWork(r.stage)
        /\ r.kind = tasks[id].kind /\ r.by = tasks[id].by /\ r.parent = tasks[id].parent
        /\ Counted(n) /\ n.sub = 0 /\ AtWork(n.stage) /\ n.parent = id
        /\ tasks' = Append([tasks EXCEPT ![id] = r], n)
        /\ jobs' = Registered(js, Len(tasks) + 1, "inject")

LEMMA CascadeNextMoves ==
    ASSUME Right(jobs, tasks), NEW id \in DOMAIN tasks, CascadeNext(id)
    PROVE  (Moves(id) \/ Spawns(id)) /\ AtWork(tasks[id].stage)
<1> PICK k \in Task : k = tasks[id] /\ Counted(k) /\ k.sub \in 0 .. Len(tasks)
    BY Running
<1>1. k.stage = "next" /\ AtWork(k.stage) /\ AtWork("sub")
    BY DEF CascadeNext, AtWork
<1> PICK left \in Nat : left = k.left
    BY DEF Task
<1>2. k.kind = "cascade" /\ left >= 1
    BY <1>1 DEF Counted
<1>3. Len(tasks) \in Nat /\ DOMAIN tasks = 1 .. Len(tasks)
    BY Running
<1>4. ASSUME tasks' = [tasks EXCEPT ![id].left = @ + 1], UNCHANGED jobs
      PROVE  Moves(id)
  <2> PICK l \in Nat : l = left + 1
      OBVIOUS
  <2> PICK r : r = [k EXCEPT !.left = l]
      OBVIOUS
  <2>1. /\ r \in Task /\ r.stage = k.stage /\ r.kind = k.kind /\ r.by = k.by
        /\ r.parent = k.parent /\ r.sub = k.sub /\ r.left = l /\ r.done = k.done
      BY DEF Task
  <2>2. Counted(r)
      BY <1>1, <1>2, <2>1 DEF Counted
  <2>3. tasks' = [tasks EXCEPT ![id] = r]
      BY <1>4
  <2>4. Kept(jobs, jobs', id) /\ Reports(jobs', id, r.stage)
      BY <1>1, <1>4, <2>1, GoesOn
  <2> QED
      BY <2>1, <2>2, <2>3, <2>4 DEF Moves
<1>5. ASSUME left <= Len(Plan), Plan[left] > 0, NEW sub, sub = Len(tasks) + 1,
             tasks' = Append([tasks EXCEPT ![id].stage = "sub", ![id].sub = sub],
                             NewTask("inject", k.by, id, Plan[left], 0, FALSE)),
             jobs' = Registered(
                         Updated(jobs, id, Percent(k.done, PlannedUpTo[Len(Plan)])),
                         sub, "inject")
      PROVE  Spawns(id)
  <2> PICK r : r = [k EXCEPT !.stage = "sub", !.sub = sub]
      OBVIOUS
  <2>1. sub \in Nat /\ sub >= 1 /\ sub \in 0 .. Len(tasks) + 1
      BY <1>3, <1>5
  <2>2. /\ r \in Task /\ r.stage = "sub" /\ r.kind = k.kind /\ r.by = k.by
        /\ r.parent = k.parent /\ r.sub = sub /\ r.left = left /\ r.done = k.done
      BY <2>1 DEF Task
  <2>3. Counted(r)
      BY <1>2, <1>5, <2>1, <2>2 DEF Counted
  <2>4. left \in 1 .. Len(Plan) /\ Plan[left] \in Nat
      BY <1>2, <1>5, Planned, JobsAssumption
  <2> PICK n : n = NewTask("inject", k.by, id, Plan[left], 0, FALSE)
      OBVIOUS
  <2>5. k.by \in Tabs \cup {NoTab} /\ id \in Nat /\ "inject" \in Scenarios
      BY <1>3 DEF Task, Scenarios
  <2>6. n \in Task /\ Counted(n) /\ n.sub = 0 /\ AtWork(n.stage) /\ n.parent = id
    <3> PICK by \in Tabs \cup {NoTab}, asked \in Nat, size \in Nat, template \in BOOLEAN :
            by = k.by /\ asked = Plan[left] /\ size = 0 /\ template = FALSE
        BY <2>4, <2>5
    <3>1. n = NewTask("inject", by, id, asked, size, template)
        OBVIOUS
    <3>2. \A kind \in Scenarios, parent \in Nat :
             LET m == NewTask(kind, by, parent, asked, size, template) IN
             m \in Task /\ Counted(m) /\ m.sub = 0 /\ AtWork(m.stage) /\ m.parent = parent
        BY ONLY NewTasks, by \in Tabs \cup {NoTab}, asked \in Nat, size \in Nat,
                template \in BOOLEAN
    <3>3. /\ NewTask("inject", by, id, asked, size, template) \in Task
          /\ Counted(NewTask("inject", by, id, asked, size, template))
          /\ NewTask("inject", by, id, asked, size, template).sub = 0
          /\ AtWork(NewTask("inject", by, id, asked, size, template).stage)
          /\ NewTask("inject", by, id, asked, size, template).parent = id
        BY <2>5, <3>2, Zenon
    <3> QED
        BY <3>1, <3>3, Zenon
  <2> PICK planned \in Nat : planned = PlannedUpTo[Len(Plan)]
      BY Planned
  <2>7. planned > 0
      BY <1>5, <2>4, Planned
  <2>8. Percent(k.done, planned) \in Nat
    <3> PICK done \in Nat : done = k.done
        BY <1>2 DEF Counted, Task
    <3> QED
        BY <2>7, Quotients
  <2> PICK js : js = Updated(jobs, id, Percent(k.done, planned))
      OBVIOUS
  <2>9. js \in {Updated(jobs, id, p) : p \in Nat}
      BY <2>8
  <2>10. /\ tasks' = Append([tasks EXCEPT ![id] = r], n)
         /\ jobs' = Registered(js, Len(tasks) + 1, "inject")
      BY <1>5
  <2> QED
      BY <1>1, <1>3, <2>1, <2>2, <2>3, <2>6, <2>9, <2>10 DEF Spawns
<1> QED
    BY <1>1, <1>4, <1>5, RaiseMoves DEF CascadeNext

LEMMA CascadeReturnMoves ==
    ASSUME Right(jobs, tasks), NEW id \in DOMAIN tasks, CascadeReturn(id)
    PROVE  Moves(id) /\ AtWork(tasks[id].stage)
<1> PICK k \in Task : k = tasks[id] /\ Counted(k) /\ k.sub \in 0 .. Len(tasks)
    BY Running
<1>1. k.stage = "sub" /\ AtWork(k.stage) /\ AtWork("next")
    BY DEF CascadeReturn, AtWork
<1>2. k.kind = "cascade" /\ k.left >= 1 /\ k.left <= Len(Plan) /\ k.sub >= 1
    BY <1>1 DEF Counted
<1>3. ASSUME NEW l \in Nat, l >= 1, NEW d \in Int, d >= 0, NEW rl \in Int,
             tasks' = [tasks EXCEPT ![id].stage = "next", ![id].left = l,
                                    ![id].done = d, ![id].real = rl],
             jobs' = jobs
      PROVE  Moves(id)
  <2> PICK q : q = [k EXCEPT !.stage = "next", !.left = l]
      OBVIOUS
  <2>1. /\ q \in Task /\ q.stage = "next" /\ q.kind = k.kind /\ q.by = k.by
        /\ q.parent = k.parent /\ q.sub = k.sub /\ q.left = l
      BY DEF Task
  <2> PICK r : r = [q EXCEPT !.done = d, !.real = rl]
      OBVIOUS
  <2>2. /\ r \in Task /\ r.stage = "next" /\ r.kind = k.kind /\ r.by = k.by
        /\ r.parent = k.parent /\ r.sub = k.sub /\ r.left = l /\ r.done = d
      BY <2>1 DEF Task
  <2>3. Counted(r)
      BY <1>2, <1>3, <2>2 DEF Counted
  <2>4. tasks' = [tasks EXCEPT ![id] = r]
      BY <1>3
  <2>5. Kept(jobs, jobs', id) /\ Reports(jobs', id, r.stage)
      BY <1>1, <1>3, <2>2, GoesOn
  <2> QED
      BY <2>2, <2>3, <2>4, <2>5 DEF Moves
<1>4. k.sub \in DOMAIN tasks
    BY <1>2, Running
<1> PICK c \in Task : c = tasks[k.sub]
    BY <1>4, Running
<1> PICK left \in Nat, done \in Nat : left = k.left /\ done = k.done
    BY <1>2 DEF Task, Counted
<1> PICK real \in Int, inserted \in Int : real = k.real /\ inserted = c.real
    BY DEF Task
<1>5. left \in 1 .. Len(Plan)
    BY <1>2, JobsAssumption
<1> PICK rows \in Nat : rows = Plan[left]
    BY <1>5, Planned
<1>6. /\ left + 1 \in Nat /\ left + 1 >= 1
      /\ done + rows \in Int /\ done + rows >= 0 /\ real + inserted \in Int
  <2>1. \A a, b \in Int : a + b \in Int
      OBVIOUS
  <2>2. \A a, b \in Nat : a + b \in Int /\ a + b >= 0
      OBVIOUS
  <2>3. \A a \in Nat : a + 1 \in Nat /\ a + 1 >= 1
      OBVIOUS
  <2> QED
      BY <2>1, <2>2, <2>3
<1>7. ASSUME tasks' = [tasks EXCEPT ![id].stage = "next", ![id].left = @ + 1,
                                    ![id].done = @ + Plan[k.left],
                                    ![id].real = @ + tasks[k.sub].real],
             UNCHANGED jobs
      PROVE  Moves(id)
  <2>1. tasks' = [tasks EXCEPT ![id].stage = "next", ![id].left = left + 1,
                               ![id].done = done + rows, ![id].real = real + inserted]
      BY <1>7
  <2>2. jobs' = jobs
      BY <1>7
  <2> QED
      BY ONLY <1>3, <1>6, <2>1, <2>2
<1> QED
    BY <1>1, <1>7, RaiseMoves DEF CascadeReturn

LEMMA Works ==
    ASSUME Right(jobs, tasks), NEW id \in DOMAIN tasks, Work(id)
    PROVE  /\ \/ (Moves(id) \/ Spawns(id)) /\ AtWork(tasks[id].stage)
              \/ Report(id)
           /\ UNCHANGED tabVars
<1>1. CASE Before(id)
    BY <1>1, BeforeMoves DEF Before
<1>2. CASE InjectBatch(id)
    BY <1>2, InjectBatchMoves DEF InjectBatch
<1>3. CASE InjectEnds(id)
    BY <1>3, InjectEndsMoves DEF InjectEnds
<1>4. CASE UpdateBatch(id)
    BY <1>4, UpdateBatchMoves DEF UpdateBatch
<1>5. CASE Analyze(id) \/ Spike(id) \/ LadderEnds(id)
    BY <1>5, AnalyzeMoves DEF Analyze, Spike, LadderEnds
<1>6. CASE LadderPhase(id)
    BY <1>6, LadderPhaseMoves DEF LadderPhase
<1>7. CASE CascadeNext(id)
    BY <1>7, CascadeNextMoves DEF CascadeNext
<1>8. CASE CascadeReturn(id)
    BY <1>8, CascadeReturnMoves DEF CascadeReturn
<1>9. CASE Report(id)
    BY <1>9 DEF Report
<1> QED
    BY <1>1, <1>2, <1>3, <1>4, <1>5, <1>6, <1>7, <1>8, <1>9 DEF Work

-----------------------------------------------------------------------------
(* The invariant is preserved *)

Sealed == \A id \in DOMAIN jobs \cap DOMAIN jobs' : Keeps(jobs[id], jobs'[id])

\* No scenario is at work that was not before, for the same tab.
NoneStarts ==
    \A i \in DOMAIN tasks' :
        tasks'[i].parent = 0 /\ AtWork(tasks'[i].stage) =>
            /\ i \in DOMAIN tasks /\ tasks[i].parent = 0
            /\ AtWork(tasks[i].stage) /\ tasks[i].by = tasks'[i].by

\* A row that stays keeps itself.
LEMMA RowsKeep ==
    ASSUME Right(jobs, tasks), NEW id, Kept(jobs, jobs', id),
           id \in DOMAIN jobs => Keeps(jobs[id], jobs'[id])
    PROVE  Sealed
BY KeepsItself DEF Right, ListedRight, Shows, Kept, Sealed

\* The steps of a function before its verdict.
LEMMA MovesRight ==
    ASSUME Right(jobs, tasks), NEW id \in DOMAIN tasks, AtWork(tasks[id].stage), Moves(id)
    PROVE  Right(jobs', tasks') /\ Len(tasks') = Len(tasks) /\ Sealed /\ NoneStarts
<1> PICK r \in Task :
        /\ Counted(r) /\ r.sub \in 0 .. Len(tasks)
        /\ r.kind = tasks[id].kind /\ r.by = tasks[id].by /\ r.parent = tasks[id].parent
        /\ tasks' = [tasks EXCEPT ![id] = r]
        /\ Kept(jobs, jobs', id) /\ Reports(jobs', id, r.stage)
    BY DEF Moves
<1>1. Right(jobs', tasks')
    BY Replaced
<1>2. Len(tasks') = Len(tasks) /\ DOMAIN tasks' = DOMAIN tasks
    BY Running
<1>3. Sealed
  <2>1. id \in DOMAIN jobs => jobs[id].status = "running"
      BY Running DEF Shows
  <2> QED
      BY <2>1, RowsKeep DEF Keeps
<1>4. NoneStarts
  <2> SUFFICES ASSUME NEW i \in DOMAIN tasks, tasks'[i].parent = 0, AtWork(tasks'[i].stage)
               PROVE  /\ tasks[i].parent = 0
                      /\ AtWork(tasks[i].stage) /\ tasks[i].by = tasks'[i].by
      BY <1>2 DEF NoneStarts
  <2>1. CASE i = id
    <3>1. tasks'[i] = r
        BY <2>1, Running
    <3> QED
        BY <2>1, <3>1
  <2>2. CASE i # id
    <3>1. tasks'[i] = tasks[i]
        BY <2>2, Running
    <3> QED
        BY <3>1
  <2> QED
      BY <2>1, <2>2
<1> QED
    BY <1>1, <1>2, <1>3, <1>4

LEMMA SpawnsRight ==
    ASSUME Right(jobs, tasks), NEW id \in DOMAIN tasks, AtWork(tasks[id].stage), Spawns(id)
    PROVE  Right(jobs', tasks') /\ Len(tasks') = Len(tasks) + 1 /\ Sealed /\ NoneStarts
<1> PICK r \in Task, n \in Task, js \in {Updated(jobs, id, p) : p \in Nat} :
        /\ Counted(r) /\ r.sub \in 0 .. Len(tasks) + 1 /\ AtWork(r.stage)
        /\ r.kind = tasks[id].kind /\ r.by = tasks[id].by /\ r.parent = tasks[id].parent
        /\ Counted(n) /\ n.sub = 0 /\ AtWork(n.stage) /\ n.parent = id
        /\ tasks' = Append([tasks EXCEPT ![id] = r], n)
        /\ jobs' = Registered(js, Len(tasks) + 1, "inject")
    BY DEF Spawns
<1> DEFINE sub == Len(tasks) + 1
           us == Append(tasks, n)
           js1 == Registered(jobs, sub, "inject")
<1>1. /\ tasks \in Seq(Task) /\ Len(tasks) \in Nat /\ DOMAIN tasks = 1 .. Len(tasks)
      /\ id \in DOMAIN tasks /\ sub \notin DOMAIN tasks /\ DOMAIN jobs \subseteq DOMAIN tasks
    BY Running DEF Right, ListedRight
<1>2. Right(js1, us) /\ \A i \in DOMAIN jobs : js1[i] = jobs[i]
  <2>1. "inject" \in Scenarios
      BY DEF Scenarios
  <2> QED
      BY <2>1, Added
<1>3. /\ us \in Seq(Task) /\ Len(us) = sub /\ DOMAIN us = 1 .. sub
      /\ us[sub] = n /\ \A i \in DOMAIN tasks : us[i] = tasks[i]
    BY <1>1
<1>4. tasks' = [us EXCEPT ![id] = r]
  <2> DEFINE vs == [tasks EXCEPT ![id] = r]
             ws == [us EXCEPT ![id] = r]
  <2>1. vs \in Seq(Task) /\ Len(vs) = Len(tasks)
      BY <1>1
  <2>2. Append(vs, n) \in Seq(Task) /\ Len(Append(vs, n)) = sub
      BY <2>1, <1>1
  <2>3. ws \in Seq(Task) /\ Len(ws) = sub
      BY <1>1, <1>3
  <2>4. ASSUME NEW i \in 1 .. sub PROVE Append(vs, n)[i] = ws[i]
    <3>1. CASE i = sub
      <4>1. i = Len(vs) + 1
          BY <3>1, <2>1
      <4>2. Append(vs, n)[i] = n
          BY <4>1, <2>1
      <4>3. ws[i] = us[i]
          BY <3>1, <1>1, <1>3
      <4> QED
          BY <3>1, <4>2, <4>3, <1>3
    <3>2. CASE i # sub
      <4>1. i \in DOMAIN tasks /\ i \in 1 .. Len(vs)
          BY <3>2, <2>1, <1>1
      <4>2. Append(vs, n)[i] = vs[i]
          BY <4>1, <2>1
      <4>3. vs[i] = (IF i = id THEN r ELSE tasks[i]) /\ ws[i] = (IF i = id THEN r ELSE us[i])
          BY <4>1, <1>1, <1>3
      <4> QED
          BY <4>1, <4>2, <4>3, <1>3
    <3> QED
        BY <3>1, <3>2
  <2> HIDE DEF vs, ws
  <2>5. Append(vs, n) = ws
      BY <2>2, <2>3, <2>4
  <2> QED
      BY <2>5 DEF vs, ws
<1>5. /\ Kept(jobs, js, id)
      /\ id \in DOMAIN jobs => /\ js[id] \in Job /\ js[id].status = jobs[id].status
                               /\ js[id].reported = jobs[id].reported
  <2> PICK p \in Nat : js = Updated(jobs, id, p)
      OBVIOUS
  <2>1. id \in DOMAIN jobs => jobs[id] \in Job
      BY Running
  <2>2. \A q \in Nat :
           /\ Kept(jobs, Updated(jobs, id, q), id)
           /\ id \in DOMAIN jobs => /\ Updated(jobs, id, q)[id] \in Job
                                    /\ Updated(jobs, id, q)[id].status = jobs[id].status
                                    /\ Updated(jobs, id, q)[id].reported = jobs[id].reported
      BY ONLY <2>1, ProgressReported
  <2> QED
      BY <2>2
<1>6. /\ DOMAIN js1 = DOMAIN jobs \cup {sub} /\ DOMAIN jobs' = DOMAIN jobs \cup {sub}
      /\ jobs'[sub] = js1[sub]
      /\ \A i \in DOMAIN jobs : jobs'[i] = js[i]
    BY <1>1, <1>5 DEF Registered, Kept
<1>7. Kept(js1, jobs', id)
    BY <1>2, <1>5, <1>6 DEF Kept
<1>8. Reports(jobs', id, r.stage)
  <2>1. id # sub
      BY <1>1
  <2> QED
      BY <2>1, <1>5, <1>6, Running DEF Reports, Shows, AtWork
<1>9. Right(jobs', tasks')
  <2>1. id \in DOMAIN us /\ r.sub \in 0 .. Len(us)
      BY <1>1, <1>3
  <2> HIDE DEF us, js1
  <2>2. Right(jobs', [us EXCEPT ![id] = r])
      BY <2>1, <1>2, <1>7, <1>8, Replaced, Zenon
  <2> QED
      BY <2>2, <1>4
<1>10. Len(tasks') = Len(tasks) + 1 /\ DOMAIN tasks' = 1 .. sub
    BY <1>1, <1>3, <1>4
<1>11. Sealed
  <2> SUFFICES ASSUME NEW i \in DOMAIN jobs PROVE Keeps(jobs[i], jobs'[i])
      BY DEF Sealed
  <2>1. CASE i = id
      BY <2>1, Running DEF Shows, Keeps
  <2>2. CASE i # id
    <3>1. jobs'[i] = jobs[i]
        BY <2>2, <1>5, <1>6 DEF Kept
    <3> QED
        BY <3>1, KeepsItself DEF Right, ListedRight, Shows
  <2> QED
      BY <2>1, <2>2
<1>12. NoneStarts
  <2> SUFFICES ASSUME NEW i \in 1 .. sub, tasks'[i].parent = 0, AtWork(tasks'[i].stage)
               PROVE  /\ i \in DOMAIN tasks /\ tasks[i].parent = 0
                      /\ AtWork(tasks[i].stage) /\ tasks[i].by = tasks'[i].by
      BY <1>10 DEF NoneStarts
  <2>1. tasks'[i] = IF i = id THEN r ELSE us[i]
      BY <1>3, <1>4
  <2>2. CASE i = id
      BY <2>1, <2>2, <1>1
  <2>3. CASE i = sub
    <3>1. tasks'[i] = n
        BY <2>1, <2>3, <1>1, <1>3
    <3>2. id # 0
        BY <1>1
    <3> QED
        BY <3>1, <3>2
  <2>4. CASE i # id /\ i # sub
    <3>1. i \in DOMAIN tasks
        BY <2>4, <1>1
    <3> QED
        BY <3>1, <2>1, <2>4, <1>3
  <2> QED
      BY <2>2, <2>3, <2>4
<1> QED
    BY <1>9, <1>10, <1>11, <1>12

\* The rest of its report.
LEMMA ReportRight ==
    ASSUME Right(jobs, tasks), NEW id \in DOMAIN tasks, Report(id)
    PROVE  Right(jobs', tasks') /\ Len(tasks') = Len(tasks) /\ Sealed /\ NoneStarts
<1> PICK k \in Task : k = tasks[id] /\ Counted(k) /\ k.sub \in 0 .. Len(tasks)
    BY Running
<1>1. k.stage = "reporting" /\ tasks' = [tasks EXCEPT ![id].stage = "ended"]
    BY DEF Report, End
<1>2. /\ Kept(jobs, jobs', id) /\ Reports(jobs', id, "ended")
      /\ id \in DOMAIN jobs => Keeps(jobs[id], jobs'[id])
  <2>1. CASE id \in DOMAIN jobs
    <3> PICK n \in Int : n = k.done
        BY DEF Task
    <3> PICK j : j = Reported(jobs[id], n)
        OBVIOUS
    <3>1. Shows(jobs[id], "reporting")
        BY <1>1, <2>1, Running
    <3>2. Shows(j, "ended") /\ Keeps(jobs[id], j)
        BY <3>1, ReportedShows
    <3>3. jobs' = [jobs EXCEPT ![id] = j]
        BY <2>1 DEF Report
    <3> QED
        BY <2>1, <3>2, <3>3 DEF Kept, Reports
  <2>2. CASE id \notin DOMAIN jobs
      BY <2>2 DEF Report, Kept, Reports
  <2> QED
      BY <2>1, <2>2
<1>3. Sealed
    BY <1>2, RowsKeep
<1>4. Moves(id)
    BY <1>1, <1>2, StageMoves
<1>5. Right(jobs', tasks') /\ Len(tasks') = Len(tasks) /\ DOMAIN tasks' = DOMAIN tasks
  <2> PICK r \in Task :
          /\ Counted(r) /\ r.sub \in 0 .. Len(tasks)
          /\ tasks' = [tasks EXCEPT ![id] = r]
          /\ Kept(jobs, jobs', id) /\ Reports(jobs', id, r.stage)
      BY <1>4 DEF Moves
  <2>1. Right(jobs', [tasks EXCEPT ![id] = r])
      BY Replaced
  <2>2. Len(tasks') = Len(tasks) /\ DOMAIN tasks' = DOMAIN tasks
      BY Running
  <2> QED
      BY <2>1, <2>2
<1>6. NoneStarts
  <2>1. tasks'[id].stage = "ended"
      BY <1>1, Running DEF Task
  <2>2. \A i \in DOMAIN tasks \ {id} : tasks'[i] = tasks[i]
      BY <1>1, Running
  <2> QED
      BY <1>5, <2>1, <2>2 DEF NoneStarts, AtWork
<1> QED
    BY <1>3, <1>5, <1>6

\* A tab whose scenarios are among those that were at work, and that knows what it knew.
LEMMA NoneStartsKnown ==
    ASSUME TabsKnow, NoneStarts, NEW t \in Tabs \ astray,
           posts'[t] = posts[t], active'[t] = active[t]
    PROVE  LiveScenarios(t)' \subseteq Known(t)' /\ KnowsOne(t)'
<1>1. LiveScenarios(t) \subseteq Known(t) /\ KnowsOne(t)
    BY DEF TabsKnow
<1>2. ASSUME NEW i, i \in LiveScenarios(t)' PROVE i \in LiveScenarios(t)
    BY <1>2 DEF NoneStarts, LiveScenarios, Started, AtWork
<1>3. Known(t)' = Known(t)
    BY DEF Known
<1>4. KnowsOne(t)'
    BY <1>1 DEF KnowsOne
<1> QED
    BY <1>1, <1>2, <1>3, <1>4

LEMMA WorkRight ==
    ASSUME IInv, NEW id \in DOMAIN tasks, Work(id)
    PROVE  IInv' /\ Sealed
<1>1. Right(jobs, tasks) /\ TabsOK /\ TabsKnow
    BY DEF IInv
<1>2. /\ Right(jobs', tasks') /\ Sealed /\ NoneStarts
      /\ Len(tasks') = Len(tasks) \/ Len(tasks') = Len(tasks) + 1
      /\ UNCHANGED tabVars
    BY <1>1, Works, MovesRight, SpawnsRight, ReportRight
<1>3. TabsOK'
  <2>1. /\ Len(tasks) \in Nat /\ DOMAIN tasks = 1 .. Len(tasks)
        /\ Len(tasks') \in Nat /\ DOMAIN tasks' = 1 .. Len(tasks')
      BY <1>1, <1>2 DEF Right, TasksOK
  <2> PICK m \in Nat : m = Len(tasks)
      BY <2>1
  <2> PICK n \in Nat : n = Len(tasks')
      BY <2>1
  <2> n = m \/ n = m + 1
      BY <1>2
  <2>2. 0 .. Len(tasks) \subseteq 0 .. Len(tasks') /\ DOMAIN tasks \subseteq DOMAIN tasks'
      BY <2>1
  <2> QED
      BY <1>1, <1>2, <2>2 DEF TabsOK, tabVars
<1>4. TabsKnow'
  <2>1. posts' = posts /\ active' = active /\ astray' = astray
      BY <1>2 DEF tabVars
  <2> QED
      BY <2>1, <1>1, <1>2, NoneStartsKnown DEF TabsKnow
<1> QED
    BY <1>2, <1>3, <1>4 DEF IInv

\* A job registered for a POST: its scenario is at work, for its caller.
LEMMA StartRight ==
    ASSUME Right(jobs, tasks), NEW by \in Tabs \cup {NoTab}, NEW kind \in Scenarios,
           NEW size \in Nat, NEW template \in BOOLEAN, StartJob(by, kind, size, template)
    PROVE  /\ Right(jobs', tasks') /\ Sealed
           /\ Len(tasks) \in Nat /\ Len(tasks') = Len(tasks) + 1
           /\ DOMAIN tasks' = DOMAIN tasks \cup {Len(tasks) + 1}
           /\ DOMAIN tasks = 1 .. Len(tasks)
           /\ \A t \in Tabs : LiveScenarios(t)' \subseteq
                 LiveScenarios(t) \cup (IF t = by THEN {Len(tasks) + 1} ELSE {})
<1> PICK id : id = Len(tasks) + 1
    OBVIOUS
<1> PICK n : n = NewTask(kind, by, 0, Asked(kind), size, template)
    OBVIOUS
<1>1. n \in Task /\ Counted(n) /\ n.sub = 0 /\ AtWork(n.stage) /\ n.by = by
    BY Asks, NewTasks
<1>2. tasks' = Append(tasks, n) /\ jobs' = Registered(jobs, id, kind)
    BY DEF StartJob
<1>3. Right(jobs', tasks') /\ \A i \in DOMAIN jobs : jobs'[i] = jobs[i]
    BY <1>1, <1>2, Added
<1>4. Sealed
    BY <1>3, KeepsItself DEF Sealed, Right, ListedRight, Shows
<1>5. tasks \in Seq(Task) /\ Len(tasks) \in Nat /\ DOMAIN tasks = 1 .. Len(tasks)
    BY DEF Right, TasksOK
<1>6. /\ Len(tasks') = id /\ DOMAIN tasks' = DOMAIN tasks \cup {id}
      /\ tasks'[id] = n /\ \A i \in DOMAIN tasks : tasks'[i] = tasks[i]
    BY <1>1, <1>2, <1>5
<1>7. ASSUME NEW t \in Tabs
      PROVE  LiveScenarios(t)' \subseteq
                 LiveScenarios(t) \cup (IF t = by THEN {id} ELSE {})
    BY <1>1, <1>6 DEF LiveScenarios, Started
<1> QED
    BY <1>3, <1>4, <1>5, <1>6, <1>7

\* What a request gives is a batch size.
LEMMA SizesRight == \A kind \in Scenarios : SizesOf(kind) \subseteq Nat
BY JobsAssumption DEF SizesOf

\* A caller that is not a tab starts a scenario that no tab counts as its own.
LEMMA RequestRight ==
    ASSUME IInv, Request
    PROVE  IInv' /\ Sealed
<1>1. Right(jobs, tasks) /\ TabsOK /\ TabsKnow
    BY DEF IInv
<1> PICK kind \in Scenarios, template \in BOOLEAN, size \in Nat :
        StartJob(NoTab, kind, size, template)
    BY SizesRight, JobsAssumption DEF Request
<1>2. NoTab \in Tabs \cup {NoTab} /\ \A t \in Tabs : t # NoTab
    BY JobsAssumption
<1>3. /\ Right(jobs', tasks') /\ Sealed
      /\ Len(tasks) \in Nat /\ Len(tasks') = Len(tasks) + 1
      /\ DOMAIN tasks \subseteq DOMAIN tasks'
      /\ \A t \in Tabs : LiveScenarios(t)' \subseteq LiveScenarios(t)
    BY <1>1, <1>2, StartRight
<1>4. posts' = posts /\ active' = active /\ late' = late /\ astray' = astray
    BY DEF Request, tabVars
<1>5. TabsOK'
  <2>1. 0 .. Len(tasks) \subseteq 0 .. Len(tasks')
      BY <1>3
  <2> QED
      BY <1>1, <1>3, <1>4, <2>1 DEF TabsOK
<1>6. TabsKnow'
  <2> SUFFICES ASSUME NEW t \in Tabs \ astray
               PROVE  LiveScenarios(t)' \subseteq Known(t)' /\ KnowsOne(t)'
      BY <1>4 DEF TabsKnow
  <2>1. LiveScenarios(t) \subseteq Known(t) /\ KnowsOne(t)
      BY <1>1 DEF TabsKnow
  <2>2. Known(t)' = Known(t) /\ KnowsOne(t)'
      BY <1>4, <2>1 DEF Known, KnowsOne
  <2> QED
      BY <1>3, <2>1, <2>2
<1> QED
    BY <1>3, <1>5, <1>6 DEF IInv

\* A button: the tab that is not led astray by it knew of nothing, and knows of the job it
\* has posted.
LEMMA PressRight ==
    ASSUME IInv, NEW t \in Tabs, Press(t)
    PROVE  IInv' /\ Sealed
<1>1. Right(jobs, tasks) /\ TabsOK /\ TabsKnow
    BY DEF IInv
<1> PICK kind \in Scenarios, size \in Nat : StartJob(t, kind, size, FALSE)
    BY SizesRight, JobsAssumption DEF Press
<1> PICK id : id = Len(tasks) + 1
    OBVIOUS
<1>2. /\ Right(jobs', tasks') /\ Sealed
      /\ Len(tasks) \in Nat /\ Len(tasks') = id
      /\ DOMAIN tasks' = DOMAIN tasks \cup {id} /\ DOMAIN tasks = 1 .. Len(tasks)
      /\ \A u \in Tabs : LiveScenarios(u)' \subseteq
            LiveScenarios(u) \cup (IF u = t THEN {id} ELSE {})
    BY <1>1, StartRight
<1>3. /\ active[t] = 0 /\ active' = active /\ late' = late
      /\ posts' = [posts EXCEPT ![t] = @ \cup {id}]
      /\ astray' = IF posts[t] # {} THEN astray \cup {t} ELSE astray
    BY DEF Press, AstrayIf
<1>4. TabsOK'
  <2>1. 0 .. Len(tasks) \subseteq 0 .. Len(tasks')
      BY <1>2
  <2>2. posts \in [Tabs -> SUBSET DOMAIN tasks'] /\ posts[t] \cup {id} \in SUBSET DOMAIN tasks'
      BY <1>1, <1>2 DEF TabsOK
  <2>3. posts' \in [Tabs -> SUBSET DOMAIN tasks']
      BY <1>3, <2>2
  <2> QED
      BY <1>1, <1>3, <2>1, <2>3 DEF TabsOK
<1>5. TabsKnow'
  <2> SUFFICES ASSUME NEW u \in Tabs \ astray'
               PROVE  LiveScenarios(u)' \subseteq Known(u)' /\ KnowsOne(u)'
      BY DEF TabsKnow
  <2>1. LiveScenarios(u) \subseteq Known(u) /\ KnowsOne(u)
      BY <1>1, <1>3 DEF TabsKnow
  <2>2. CASE u = t
    <3>1. posts[t] = {} /\ posts'[t] = {id} /\ active'[t] = 0
        BY <1>1, <1>3, <2>2 DEF TabsOK
    <3>2. Known(u) = {0} /\ Known(u)' = {id, 0}
        BY <1>3, <2>2, <3>1 DEF Known
    <3>3. KnowsOne(u)'
        BY <2>2, <3>1 DEF KnowsOne
    <3> QED
        BY <1>2, <2>1, <2>2, <3>2, <3>3
  <2>3. CASE u # t
    <3>1. posts'[u] = posts[u] /\ active'[u] = active[u]
        BY <1>1, <1>3, <2>3 DEF TabsOK
    <3>2. Known(u)' = Known(u) /\ KnowsOne(u)'
        BY <2>1, <3>1 DEF Known, KnowsOne
    <3> QED
        BY <1>2, <2>1, <2>3, <3>2
  <2> QED
      BY <2>2, <2>3
<1> QED
    BY <1>2, <1>4, <1>5 DEF IInv

\* A tab that changes alone, and knows what it must or is astray.
LEMMA TabRight ==
    ASSUME IInv, NEW t \in Tabs, UNCHANGED <<jobs, tasks>>,
           NEW p \in SUBSET DOMAIN tasks, posts' = [posts EXCEPT ![t] = p],
           NEW a \in 0 .. Len(tasks), active' = [active EXCEPT ![t] = a],
           late' \subseteq Tabs, astray' \in {astray, astray \cup {t}},
           t \notin astray' => LiveScenarios(t) \subseteq p \cup {a} /\ p = {}
    PROVE  IInv' /\ Sealed
<1>1. Right(jobs, tasks) /\ TabsOK /\ TabsKnow
    BY DEF IInv
<1>2. Right(jobs', tasks') /\ Sealed
    BY <1>1, KeepsItself DEF Sealed, Right, ListedRight, Shows
<1>3. TabsOK'
    BY <1>1 DEF TabsOK
<1>4. TabsKnow'
  <2> SUFFICES ASSUME NEW u \in Tabs \ astray'
               PROVE  LiveScenarios(u)' \subseteq Known(u)' /\ KnowsOne(u)'
      BY DEF TabsKnow
  <2>1. LiveScenarios(u)' = LiveScenarios(u)
      BY DEF LiveScenarios, Started
  <2>2. CASE u # t
    <3>1. posts'[u] = posts[u] /\ active'[u] = active[u]
        BY <1>1, <2>2 DEF TabsOK
    <3>2. LiveScenarios(u) \subseteq Known(u) /\ KnowsOne(u)
        BY <1>1 DEF TabsKnow
    <3> QED
        BY <2>1, <3>1, <3>2 DEF Known, KnowsOne
  <2>3. CASE u = t
    <3>1. posts'[u] = p /\ active'[u] = a
        BY <1>1, <2>3 DEF TabsOK
    <3> QED
        BY <2>1, <2>3, <3>1 DEF Known, KnowsOne
  <2> QED
      BY <2>2, <2>3
<1> QED
    BY <1>2, <1>3, <1>4 DEF IInv

\* The answer to a tab's only POST.
LEMMA AnswerRight ==
    ASSUME IInv, NEW t \in Tabs, Answer(t)
    PROVE  IInv' /\ Sealed
<1>1. Right(jobs, tasks) /\ TabsOK /\ TabsKnow
    BY DEF IInv
<1> PICK id \in posts[t] :
        /\ posts' = [posts EXCEPT ![t] = @ \ {id}]
        /\ \/ active' = [active EXCEPT ![t] = id] /\ AstrayIf(active[t] # 0, t)
           \/ AstrayIf(TRUE, t) /\ UNCHANGED active
    BY DEF Answer
<1>2. /\ UNCHANGED <<jobs, tasks>> /\ late' \subseteq Tabs
      /\ posts[t] \in SUBSET DOMAIN tasks /\ DOMAIN tasks \subseteq 0 .. Len(tasks)
      /\ active[t] \in 0 .. Len(tasks)
    BY <1>1 DEF Answer, TabsOK, Right, TasksOK
<1> PICK p \in SUBSET DOMAIN tasks : p = posts[t] \ {id}
    BY <1>2
<1>3. posts' = [posts EXCEPT ![t] = p] /\ id \in 0 .. Len(tasks)
    BY <1>2
<1>4. CASE active' = [active EXCEPT ![t] = id] /\ AstrayIf(active[t] # 0, t)
  <2>1. astray' \in {astray, astray \cup {t}} /\ (t \notin astray' => t \notin astray)
      BY <1>4 DEF AstrayIf
  <2>2. ASSUME t \notin astray' PROVE LiveScenarios(t) \subseteq p \cup {id} /\ p = {}
    <3>1. active[t] = 0
        BY <1>4, <2>2 DEF AstrayIf
    <3>2. LiveScenarios(t) \subseteq posts[t] \cup {active[t]} /\ KnowsOne(t)
        BY <1>1, <2>1, <2>2 DEF TabsKnow, Known
    <3>3. posts[t] = {id}
        BY <3>2 DEF KnowsOne
    <3>4. 0 \notin LiveScenarios(t)
        BY <1>1 DEF LiveScenarios, Started, Right, TasksOK
    <3> QED
        BY <3>1, <3>2, <3>3, <3>4
  <2> QED
      BY <1>2, <1>3, <1>4, <2>1, <2>2, TabRight
<1>5. CASE AstrayIf(TRUE, t) /\ UNCHANGED active
  <2>1. astray' = astray \cup {t} /\ active' = [active EXCEPT ![t] = active[t]]
      BY <1>1, <1>5 DEF AstrayIf, TabsOK
  <2> QED
      BY <1>2, <1>3, <2>1, TabRight
<1> QED
    BY <1>4, <1>5

\* The end of the job a tab polls: its scenario was the only one that could be at work.
LEMMA PollRight ==
    ASSUME IInv, NEW t \in Tabs, Poll(t)
    PROVE  IInv' /\ Sealed
<1>1. Right(jobs, tasks) /\ TabsOK /\ TabsKnow
    BY DEF IInv
<1> PICK a : a = active[t]
    OBVIOUS
<1>2. /\ UNCHANGED <<jobs, tasks>> /\ late' \subseteq Tabs /\ astray' = astray
      /\ a \in DOMAIN jobs /\ jobs[a].status # "running"
      /\ active' = [active EXCEPT ![t] = 0]
      /\ posts' = [posts EXCEPT ![t] = posts[t]]
    BY <1>1 DEF Poll, TabsOK
<1>3. a \in DOMAIN tasks /\ ~AtWork(tasks[a].stage) /\ a # 0
    BY <1>1, <1>2 DEF Right, ListedRight, TasksOK, Shows
<1>4. ASSUME t \notin astray
      PROVE  LiveScenarios(t) \subseteq posts[t] \cup {0} /\ posts[t] = {}
  <2>1. LiveScenarios(t) \subseteq posts[t] \cup {a} /\ posts[t] = {}
      BY <1>1, <1>3, <1>4 DEF TabsKnow, Known, KnowsOne
  <2>2. a \notin LiveScenarios(t)
      BY <1>3 DEF LiveScenarios, AtWork
  <2> QED
      BY <2>1, <2>2
<1>5. 0 \in 0 .. Len(tasks) /\ posts[t] \in SUBSET DOMAIN tasks
    BY <1>1 DEF TabsOK, Right, TasksOK
<1> QED
    BY <1>2, <1>4, <1>5, TabRight

\* A late answer that clears nothing changes nothing; one that clears a job leads astray.
LEMMA LatePollRight ==
    ASSUME IInv, NEW t \in Tabs, LatePoll(t)
    PROVE  IInv' /\ Sealed
<1>1. Right(jobs, tasks) /\ TabsOK /\ TabsKnow
    BY DEF IInv
<1>2. /\ UNCHANGED <<jobs, tasks>> /\ late' \subseteq Tabs /\ posts' = posts
      /\ active' = [active EXCEPT ![t] = 0]
      /\ astray' = IF active[t] # 0 THEN astray \cup {t} ELSE astray
    BY <1>1 DEF LatePoll, TabsOK, AstrayIf
<1>3. CASE active[t] = 0
  <2>1. active' = active /\ astray' = astray
      BY <1>1, <1>2, <1>3 DEF TabsOK
  <2>2. Right(jobs', tasks') /\ Sealed
      BY <1>1, <1>2, KeepsItself DEF Sealed, Right, ListedRight, Shows
  <2>3. TabsOK' /\ TabsKnow'
      BY <1>1, <1>2, <2>1 DEF TabsOK, TabsKnow, Known, KnowsOne, LiveScenarios, Started
  <2> QED
      BY <2>2, <2>3 DEF IInv
<1>4. CASE active[t] # 0
  <2>1. /\ posts' = [posts EXCEPT ![t] = posts[t]] /\ posts[t] \in SUBSET DOMAIN tasks
        /\ 0 \in 0 .. Len(tasks)
      BY <1>1, <1>2 DEF TabsOK, Right, TasksOK
  <2>2. astray' = astray \cup {t}
      BY <1>2, <1>4
  <2> QED
      BY <1>2, <2>1, <2>2, TabRight
<1> QED
    BY <1>3, <1>4

LEMMA ReloadRight ==
    ASSUME IInv, NEW t \in Tabs, Reload(t)
    PROVE  IInv' /\ Sealed
<1>1. /\ UNCHANGED <<jobs, tasks>> /\ late' \subseteq Tabs
      /\ posts' = [posts EXCEPT ![t] = {}] /\ active' = [active EXCEPT ![t] = 0]
      /\ astray' = astray \cup {t}
    BY DEF IInv, TabsOK, Reload, AstrayIf
<1>2. 0 \in 0 .. Len(tasks) /\ {} \in SUBSET DOMAIN tasks
    BY DEF IInv, Right, TasksOK
<1> QED
    BY <1>1, <1>2, TabRight

LEMMA FlushRight ==
    ASSUME IInv, Flush
    PROVE  IInv' /\ Sealed
<1>1. Right(jobs, tasks) /\ TabsOK /\ TabsKnow
    BY DEF IInv
<1>2. /\ DOMAIN jobs' = {} /\ tasks' = tasks
      /\ posts' = posts /\ active' = active /\ late' = late /\ astray' = astray
    BY DEF Flush, NoJobs, tabVars
<1>3. Right(jobs', tasks') /\ Sealed
    BY <1>1, <1>2 DEF Right, ListedRight, Sealed
<1>4. TabsOK' /\ TabsKnow'
    BY <1>1, <1>2 DEF TabsOK, TabsKnow, Known, KnowsOne, LiveScenarios, Started
<1> QED
    BY <1>3, <1>4 DEF IInv

LEMMA RestartRight ==
    ASSUME IInv, Restart
    PROVE  IInv' /\ Sealed
<1>1. Right(jobs, tasks) /\ TabsOK /\ TabsKnow
    BY DEF IInv
<1>2. /\ DOMAIN jobs' = {} /\ active' = active /\ late' = late /\ astray' = astray
      /\ tasks' = [id \in DOMAIN tasks |-> [tasks[id] EXCEPT !.stage = "ended"]]
      /\ posts' = [t \in Tabs |-> {}]
    BY DEF Restart, NoJobs
<1>3. tasks \in Seq(Task) /\ Len(tasks) \in Nat /\ DOMAIN tasks = 1 .. Len(tasks)
    BY <1>1 DEF Right, TasksOK
<1>4. ASSUME NEW id \in DOMAIN tasks
      PROVE  /\ tasks'[id] \in Task /\ Counted(tasks'[id]) /\ tasks'[id].stage = "ended"
             /\ tasks'[id].sub \in 0 .. Len(tasks)
  <2> PICK k \in Task : k = tasks[id] /\ Counted(k) /\ k.sub \in 0 .. Len(tasks)
      BY <1>1, Running
  <2> PICK r : r = [k EXCEPT !.stage = "ended"]
      OBVIOUS
  <2>1. /\ r \in Task /\ r.stage = "ended" /\ r.kind = k.kind /\ r.sub = k.sub
        /\ r.template = k.template
        /\ r.real = k.real /\ r.done = k.done /\ r.left = k.left /\ r.asked = k.asked
      BY DEF Task
  <2>2. Counted(r)
      BY <2>1 DEF Counted
  <2>3. tasks'[id] = r
      BY <1>2
  <2> QED
      BY <2>1, <2>2, <2>3
<1>5. tasks' \in Seq(Task) /\ Len(tasks') = Len(tasks) /\ DOMAIN tasks' = DOMAIN tasks
    BY <1>2, <1>3, <1>4
<1>6. Right(jobs', tasks') /\ Sealed
    BY <1>2, <1>4, <1>5 DEF Right, TasksOK, ListedRight, Sealed
<1>7. TabsOK'
    BY <1>1, <1>2, <1>5 DEF TabsOK
<1>8. TabsKnow'
    BY <1>2, <1>4, <1>5 DEF TabsKnow, LiveScenarios, Started, KnowsOne
<1> QED
    BY <1>6, <1>7, <1>8 DEF IInv

LEMMA NextRight ==
    ASSUME IInv, [Next]_vars
    PROVE  IInv' /\ Sealed
<1>1. CASE \E id \in DOMAIN tasks : Work(id)
    BY <1>1, WorkRight
<1>2. CASE \E t \in Tabs : Press(t) \/ Answer(t) \/ Poll(t) \/ LatePoll(t) \/ Reload(t)
    BY <1>2, PressRight, AnswerRight, PollRight, LatePollRight, ReloadRight
<1>3. CASE Flush
    BY <1>3, FlushRight
<1>4. CASE Restart
    BY <1>4, RestartRight
<1>5. CASE Request
    BY <1>5, RequestRight
<1>6. CASE UNCHANGED vars
  <2>1. /\ jobs' = jobs /\ tasks' = tasks /\ posts' = posts /\ active' = active
        /\ late' = late /\ astray' = astray
      BY <1>6 DEF vars
  <2>2. Sealed
      BY <2>1, KeepsItself DEF Sealed, IInv, Right, ListedRight, Shows
  <2>3. IInv'
      BY <2>1 DEF IInv, TabsOK, TabsKnow, Known, KnowsOne, LiveScenarios, Started
  <2> QED
      BY <2>2, <2>3
<1> QED
    BY <1>1, <1>2, <1>3, <1>4, <1>5, <1>6 DEF Next

LEMMA InitRight == Init => IInv
<1> SUFFICES ASSUME Init PROVE IInv
    OBVIOUS
<1>1. /\ DOMAIN jobs = {} /\ tasks = <<>> /\ posts = [t \in Tabs |-> {}]
      /\ active = [t \in Tabs |-> 0] /\ late = {} /\ astray = {}
    BY DEF Init, NoJobs
<1>2. tasks \in Seq(Task) /\ Len(tasks) = 0 /\ DOMAIN tasks = {}
    BY <1>1
<1>3. Right(jobs, tasks)
    BY <1>1, <1>2 DEF Right, TasksOK, ListedRight
<1>4. TabsOK
    BY <1>1, <1>2 DEF TabsOK
<1>5. TabsKnow
    BY <1>1, <1>2 DEF TabsKnow, LiveScenarios, Started, KnowsOne
<1> QED
    BY <1>3, <1>4, <1>5 DEF IInv

LEMMA Invariant == Spec => []IInv
<1>1. IInv /\ [Next]_vars => IInv'
    BY NextRight
<1> QED
    BY InitRight, <1>1, PTL DEF Spec

-----------------------------------------------------------------------------
(* What the invariant says *)

\* Types: the rows of the dictionary, the functions and what the tabs remember keep their
\* shape and a percentage stays one (main.py:433-434), whatever the numbers asked for and
\* however many rows a batch inserts.
THEOREM TypeCorrect == Spec => []TypeOK
<1>1. IInv => TypeOK
    BY DEF IInv, Right, TasksOK, ListedRight, Shows, TabsOK, TypeOK
<1> QED
    BY <1>1, Invariant, PTL

\* A job that is listed as running is being run (new_job and complete_job,
\* main.py:108-147), and one whose function has ended shows its result or its error:
\* whatever is raised, flushed (main.py:813-817) or restarted, a function does not end
\* without reporting it to a row that is still there.
THEOREM ListedIsRun == Spec => []RunningIsRun
<1>1. IInv => RunningIsRun
    BY DEF IInv, Right, ListedRight, Shows, AtWork, RunningIsRun
<1> QED
    BY <1>1, Invariant, PTL

\* What an inject reports of the statement the code builds lies between what was inserted
\* and what was asked for (main.py:351-449), although a batch of no rows counts as
\* complete; of a statement the caller gives (main.py:356-357) nothing is said.
THEOREM ReportBounded == Spec => []ReportInBounds
<1>1. IInv => ReportInBounds
  <2> SUFFICES ASSUME IInv, NEW id \in DOMAIN tasks, tasks[id].kind = "inject",
                      ~tasks[id].template
               PROVE  tasks[id].real <= tasks[id].done /\ tasks[id].done <= tasks[id].asked
      BY DEF ReportInBounds
  <2> PICK k \in Task : k = tasks[id] /\ Counted(k)
      BY Running DEF IInv
  <2>1. k.real <= k.done /\ k.done + k.left <= k.asked
      BY DEF Counted
  <2>2. k.done \in Int /\ k.left \in Nat /\ k.asked \in Nat
      BY DEF Task
  <2> QED
      BY <2>1, <2>2
<1> QED
    BY <1>1, Invariant, PTL

\* complete_job writes a job's status first and the rest field by field (main.py:137-147):
\* nobody who has read a verdict reads another one later, or less progress, and when the
\* result or the error is there the row stays as it is.
THEOREM ReportsSealed == Spec => JobSealed
<1>1. IInv /\ [Next]_vars => [Sealed]_vars
    BY NextRight
<1>2. [Sealed]_vars <=> [\A id \in DOMAIN jobs \cap DOMAIN jobs' :
                            jobs[id].status # "running" =>
                                /\ jobs'[id].status = jobs[id].status
                                /\ jobs'[id].progress >= jobs[id].progress
                                /\ jobs[id].reported => jobs'[id] = jobs[id]]_vars
    BY DEF Sealed, Keeps
<1> QED
    BY <1>1, <1>2, Invariant, PTL DEF Spec, JobSealed

\* Scenarios of a tab that kept track of its jobs, and pressed no button while another
\* one's POST was out (page.js:694-702, 735-738), do not overlap: the one at work is the one
\* the tab has posted or polls, and a tab that polls one starts no other.
THEOREM Serial == Spec => []OneScenario
<1>1. IInv => OneScenario
  <2> SUFFICES ASSUME IInv, NEW t \in Tabs \ astray
               PROVE  Cardinality(LiveScenarios(t)) <= 1
      BY DEF OneScenario
  <2>1. LiveScenarios(t) \subseteq posts[t] \cup {active[t]} /\ KnowsOne(t)
      BY DEF IInv, TabsKnow, Known
  <2>2. 0 \notin LiveScenarios(t)
      BY DEF IInv, Right, TasksOK, LiveScenarios, Started
  <2>3. \E x : LiveScenarios(t) \subseteq {x}
    <3>1. CASE posts[t] = {}
        BY <2>1, <3>1
    <3>2. CASE posts[t] # {}
      <4> PICK x \in posts[t] : TRUE
          BY <3>2
      <4>1. posts[t] = {x} /\ active[t] = 0
          BY <2>1, <3>2 DEF KnowsOne
      <4> QED
          BY <2>1, <2>2, <4>1
    <3> QED
        BY <3>1, <3>2
  <2>4. PICK x : LiveScenarios(t) = {} \/ LiveScenarios(t) = {x}
      BY <2>3
  <2>5. Cardinality({}) = 0 /\ Cardinality({x}) = 1
      BY FS_EmptySet, FS_Singleton
  <2> QED
      BY <2>4, <2>5
<1> QED
    BY <1>1, Invariant, PTL
=============================================================================
