-------------------------- MODULE SchemaGraphProofs --------------------------
(***************************************************************************)
(* What holds of the schema graph for any tables, schemas and callers, and *)
(* any number of calls, migrations and restarts.  Four facts that hold     *)
(* apart from each other, each by an invariant of its own: a plan is in    *)
(* order, because its queue is the end of the plan itself; a graph has the *)
(* keys of its builds, because the last one to begin still has what the    *)
(* graph lacks; the cache is right, because a load knows what of the       *)
(* schema it has read, until a migration tears it; and a plan made while   *)
(* the graph does not change is complete, each table at its distance from  *)
(* the root, because all successors of the tables taken off the queue are  *)
(* in the plan, a level below them at most.                                *)
(***************************************************************************)
EXTENDS SchemaGraph, Integers, FiniteSetTheorems, WellFoundedInduction, TLAPS

-----------------------------------------------------------------------------
(* The inductive invariants *)

\* How many tables of its plan a walk has taken off the queue.
Taken(plan, queue) == Len(plan) - Len(queue)

Ordered(plan) ==
    \A j \in DOMAIN plan :
        /\ \A i \in 1 .. j - 1 :
              plan[i].table # plan[j].table /\ plan[i].depth <= plan[j].depth
        /\ j > 1 => \E i \in 1 .. j - 1 :
              plan[i].table = plan[j].parent /\ plan[i].depth + 1 = plan[j].depth

\* The queue is the end of the plan, and no table of the plan is more than a level
\* below the table that was last taken off it.
Queued(plan, queue, visited) ==
    LET m == Taken(plan, queue) IN
    /\ Len(queue) <= Len(plan)
    /\ visited = {plan[i].table : i \in DOMAIN plan}
    /\ \A k \in DOMAIN queue :
          queue[k].table = plan[m + k].table /\ queue[k].depth = plan[m + k].depth
    /\ m = 0 => Len(plan) = 1 /\ plan[1].depth = 0
    /\ m > 0 => \A i \in DOMAIN plan : plan[i].depth <= plan[m].depth + 1

\* A walk is at the table last taken off the queue.
Walking(plan, queue, table, depth) ==
    LET m == Taken(plan, queue) IN
    m > 0 /\ table = plan[m].table /\ depth = plan[m].depth

PlanOK(h, s) ==
    /\ Ordered(h.plan)
    /\ s \in {"pop", "iterate"} => Queued(h.plan, h.queue, h.visited)
    /\ s = "iterate" => Walking(h.plan, h.queue, h.walk.table, h.walk.depth)

PlansOK == \A c \in Threads : PlanOK(handler[c], stage[c])

\* What a build has still to add comes from data that went into the graph, and of the
\* build that began last nothing is missing but what it has still to add.
BuildsOK ==
    /\ \A c \in Building : handler[c].data \in mixed.all /\ handler[c].todo \subseteq handler[c].data.fks
    /\ graph.edges \subseteq UNION {data.fks : data \in mixed.all}
    /\ \/ mixed.last.fks \subseteq graph.edges
       \/ \E c \in Building : mixed.last.fks \subseteq graph.edges \cup handler[c].todo

\* What a load or refresh that is not torn has read, against the schema as it is now.
ReadOK(h, s, now) ==
    /\ s = "hash" => h.op # "refresh"
    /\ s = "rehash" => h.op = "refresh"
    /\ ~h.torn =>
        /\ s \in {"tables", "fks"} /\ h.op # "refresh" => h.hash = HashOf(now) /\ ~h.hit
        /\ s = "fks" => h.data.tables = now.tables
        /\ s \in {"replace", "nodes", "edges", "rehash"} /\ h.op = "refresh" => h.data = now
        /\ s \in {"replace", "nodes", "edges"} /\ h.op # "refresh" /\ ~h.hit =>
               h.hash = HashOf(h.data) /\ h.data \in Schemas
        /\ s = "store" => h.hash = HashOf(h.data) /\ h.data \in Schemas

ReadsOK == CacheTrue /\ \A c \in Threads : ReadOK(handler[c], stage[c], schema)

IInv == TypeOK /\ PlansOK /\ BuildsOK /\ ReadsOK

-----------------------------------------------------------------------------
(* Types *)

LEMMA InitialTypes == Idle \in Handler /\ EmptyGraph \in [nodes : SUBSET Tables, edges : SUBSET (Tables \X Tables)] /\ NoSchema \in Schema
<1>1. NoSchema \in Schema BY DEF NoSchema, Schema
<1>2. PICK t \in Tables : t = CHOOSE u \in Tables : TRUE BY SchemaGraphAssumption
<1>3. NoWalk(t) \in Walk BY DEF NoWalk, Walk
<1>4. Idle \in Handler BY <1>1, <1>2, <1>3 DEF Idle, Handler
<1> QED BY <1>1, <1>4 DEF EmptyGraph

\* The fields of a handler that a change of the graph leaves alone.
Alike(r, q) ==
    /\ q.op = r.op /\ q.root = r.root /\ q.hit = r.hit /\ q.hash = r.hash
    /\ q.data = r.data /\ q.todo = r.todo /\ q.torn = r.torn
    /\ q.plan = r.plan /\ q.queue = r.queue /\ q.visited = r.visited
    /\ q.walk.table = r.walk.table /\ q.walk.depth = r.walk.depth

LEMMA Disturbance ==
    ASSUME NEW h \in [Threads -> Handler], NEW current \in BOOLEAN
    PROVE  /\ Disturbed(h, current) \in [Threads -> Handler]
           /\ \A c \in Threads : Alike(h[c], Disturbed(h, current)[c])
<1>1. ASSUME NEW r \in Handler, NEW q,
             q = [r EXCEPT !.calm = FALSE, !.walk.current = @ /\ current]
      PROVE  q \in Handler /\ Alike(r, q)
  <2>1. PICK w : w = [r.walk EXCEPT !.current = @ /\ current] OBVIOUS
  <2>2. r.walk \in Walk BY DEF Handler
  <2>3. w \in Walk /\ w.table = r.walk.table /\ w.depth = r.walk.depth
    BY <2>1, <2>2 DEF Walk
  <2>4. q = [r EXCEPT !.calm = FALSE, !.walk = w] BY <1>1, <2>1
  <2> QED BY <2>3, <2>4 DEF Handler, Alike
<1>2. ASSUME NEW c \in Threads
      PROVE  Disturbed(h, current)[c] \in Handler /\ Alike(h[c], Disturbed(h, current)[c])
  <2>1. CASE h[c].plan = <<>> BY <2>1 DEF Disturbed, Alike
  <2>2. CASE h[c].plan # <<>>
    <3>1. PICK q : q = [h[c] EXCEPT !.calm = FALSE, !.walk.current = @ /\ current] OBVIOUS
    <3>2. Disturbed(h, current)[c] = q BY <2>2, <3>1 DEF Disturbed
    <3> QED BY <1>1, <3>1, <3>2
  <2> QED BY <2>1, <2>2
<1> QED BY <1>2 DEF Disturbed

LEMMA Ends ==
    ASSUME NEW S, NEW q \in Seq(S), q # <<>>
    PROVE  /\ Head(q) \in S /\ Head(q) = q[1]
           /\ Tail(q) \in Seq(S) /\ Len(Tail(q)) = Len(q) - 1 /\ Len(q) > 0
           /\ \A i \in 1 .. Len(q) - 1 : Tail(q)[i] = q[i + 1]
OBVIOUS

LEMMA InitTypes == Init => TypeOK
<1> SUFFICES ASSUME Init PROVE TypeOK OBVIOUS
<1> QED BY InitialTypes, SchemaGraphAssumption DEF Init, TypeOK, NoCache, Stage, Threads

\* A step that moves one thread, and no more.
LEMMA ThreadTypes ==
    ASSUME TypeOK, NEW c \in Threads, NEW s \in Stage, NEW r \in Handler,
           stage' = [stage EXCEPT ![c] = s], handler' = [handler EXCEPT ![c] = r]
    PROVE  stage' \in [Threads -> Stage] /\ handler' \in [Threads -> Handler]
BY DEF TypeOK

LEMMA StepTypes ==
    ASSUME TypeOK, [Next]_vars
    PROVE  TypeOK'
<1>0. schema \in Schema /\ Schemas \subseteq Schema BY SchemaGraphAssumption DEF TypeOK
<1>h. ASSUME NEW c \in Threads PROVE handler[c] \in Handler BY DEF TypeOK
<1>1. ASSUME NEW c \in Threads, Call(c) PROVE TypeOK'
  <2>1. PICK op \in {"load", "refresh", "plan"}, root \in Tables :
           /\ handler' = [handler EXCEPT ![c] = [Idle EXCEPT !.op = op, !.root = root]]
           /\ \E s \in {"tables", "hash", "done", "begin"} : Goto(c, s)
    BY <1>1 DEF Call
  <2>2. [Idle EXCEPT !.op = op, !.root = root] \in Handler BY InitialTypes DEF Handler
  <2> QED BY <1>1, <2>1, <2>2 DEF TypeOK, Call, Goto, Stage, planeVars
<1>2. ASSUME NEW c \in Threads, Return(c) PROVE TypeOK'
  BY <1>2, InitialTypes DEF TypeOK, Return, Goto, Stage, planeVars, countVars
<1>3. ASSUME NEW c \in Threads PROVE AfterLoad(c) \in Stage
  BY DEF AfterLoad, Stage
<1>4. ASSUME NEW c \in Threads, ReadFails(c) PROVE TypeOK'
  BY <1>3, <1>4 DEF TypeOK, ReadFails, Goto, planeVars, countVars
<1>5. ASSUME NEW c \in Threads, Hash(c) PROVE TypeOK'
  <2>0. PICK h \in Handler : h = handler[c] BY <1>h
  <2>1. PICK hit \in BOOLEAN : hit = (cache.set /\ cache.hash = HashOf(schema)) OBVIOUS
  <2>2. PICK data \in Schema : data = IF hit THEN cache.data ELSE h.data BY DEF Handler, TypeOK
  <2>3. HashOf(schema) \in SUBSET Tables BY <1>0 DEF HashOf, Schema
  <2>4. PICK r : r = [h EXCEPT !.hash = HashOf(schema), !.hit = hit, !.data = data] OBVIOUS
  <2>5. r \in Handler BY <2>3, <2>4 DEF Handler
  <2>6. handler' = [handler EXCEPT ![c] = r] BY <1>5, <2>0, <2>1, <2>2, <2>4 DEF Hash
  <2>7. PICK st \in Stage : Goto(c, st) BY <1>5 DEF Hash, Stage
  <2>8. stage' \in [Threads -> Stage] BY <2>7 DEF TypeOK, Goto
  <2>9. handler' \in [Threads -> Handler] BY <2>5, <2>6 DEF TypeOK
  <2> QED BY <1>5, <2>8, <2>9 DEF TypeOK, Hash, planeVars, countVars
<1>6. ASSUME NEW c \in Threads, ReadTables(c) PROVE TypeOK'
  <2>0. PICK h \in Handler : h = handler[c] BY <1>h
  <2>a. PICK data : data = [h.data EXCEPT !.tables = schema.tables] OBVIOUS
  <2>b. data \in Schema BY <1>0, <2>a DEF Handler, Schema
  <2>1. PICK r : r = [h EXCEPT !.data = data] OBVIOUS
  <2>2. r \in Handler BY <2>1, <2>b DEF Handler
  <2>3. handler' = [handler EXCEPT ![c] = r] BY <1>6, <2>0, <2>a, <2>1 DEF ReadTables
  <2> QED BY <1>6, <2>2, <2>3 DEF TypeOK, ReadTables, Goto, Stage, planeVars, countVars
<1>7. ASSUME NEW c \in Threads, ReadFks(c) PROVE TypeOK'
  <2>0. PICK h \in Handler : h = handler[c] BY <1>h
  <2>a. PICK data : data = [h.data EXCEPT !.fks = schema.fks] OBVIOUS
  <2>b. data \in Schema BY <1>0, <2>a DEF Handler, Schema
  <2>1. PICK r : r = [h EXCEPT !.data = data] OBVIOUS
  <2>2. r \in Handler BY <2>1, <2>b DEF Handler
  <2>3. handler' = [handler EXCEPT ![c] = r] BY <1>7, <2>0, <2>a, <2>1 DEF ReadFks
  <2> QED BY <1>7, <2>2, <2>3 DEF TypeOK, ReadFks, Goto, Stage, planeVars, countVars
<1>8. ASSUME NEW c \in Threads, Replace(c) PROVE TypeOK'
  <2>0. PICK h \in Handler : h = handler[c] BY <1>h
  <2>a. [h EXCEPT !.todo = h.data.fks] \in Handler BY DEF Handler, Schema
  <2>1. [handler EXCEPT ![c].todo = handler[c].data.fks] \in [Threads -> Handler]
    BY <2>0, <2>a DEF TypeOK
  <2>2. handler' \in [Threads -> Handler] BY <1>8, <2>1, Disturbance DEF Replace
  <2>3. {handler[d].data : d \in Building \cup {c}} \in SUBSET Schema BY <1>h DEF Building, Handler
  <2>4. handler[c].data \in Schema BY <1>h DEF Handler
  <2> QED BY <1>8, <2>2, <2>3, <2>4, InitialTypes DEF TypeOK, Replace, Goto, Stage, countVars
<1>9. ASSUME NEW c \in Threads, AddNodes(c) PROVE TypeOK'
  <2>1. handler' \in [Threads -> Handler] BY <1>9, Disturbance DEF AddNodes, TypeOK
  <2> QED BY <1>9, <2>1 DEF TypeOK, AddNodes, Goto, Stage, countVars, Handler, Schema
<1>10. ASSUME NEW c \in Threads, AddEdge(c) PROVE TypeOK'
  <2>1. PICK fk \in handler[c].todo :
           /\ graph' = [nodes |-> graph.nodes \cup {fk[1], fk[2]}, edges |-> graph.edges \cup {fk}]
           /\ handler' = Disturbed([handler EXCEPT ![c].todo = @ \ {fk}], TRUE)
    BY <1>10 DEF AddEdge
  <2>2. fk \in Tables \X Tables BY <1>h DEF Handler
  <2>0. PICK h \in Handler : h = handler[c] BY <1>h
  <2>a. [h EXCEPT !.todo = @ \ {fk}] \in Handler BY DEF Handler
  <2>3. [handler EXCEPT ![c].todo = @ \ {fk}] \in [Threads -> Handler] BY <2>0, <2>a DEF TypeOK
  <2>4. handler' \in [Threads -> Handler] BY <2>1, <2>3, Disturbance
  <2>5. fk[1] \in Tables /\ fk[2] \in Tables BY <2>2
  <2>6. graph' \in [nodes : SUBSET Tables, edges : SUBSET (Tables \X Tables)]
    BY <2>1, <2>2, <2>5 DEF TypeOK
  <2> QED BY <1>10, <2>4, <2>6 DEF TypeOK, AddEdge, countVars
<1>11. ASSUME NEW c \in Threads, Built(c) PROVE TypeOK'
  BY <1>3, <1>11 DEF TypeOK, Built, Goto, Stage, countVars
<1>12. ASSUME NEW c \in Threads, Rehash(c) PROVE TypeOK'
  <2>0. PICK h \in Handler : h = handler[c] BY <1>h
  <2>a. HashOf(schema) \in SUBSET Tables BY <1>0 DEF HashOf, Schema
  <2>b. [h EXCEPT !.hash = HashOf(schema)] \in Handler BY <2>a DEF Handler
  <2>1. [handler EXCEPT ![c].hash = HashOf(schema)] \in [Threads -> Handler]
    BY <2>0, <2>b DEF TypeOK
  <2> QED BY <1>12, <2>1 DEF TypeOK, Rehash, Goto, Stage, planeVars, countVars
<1>13. ASSUME NEW c \in Threads, Store(c) PROVE TypeOK'
  BY <1>3, <1>13 DEF TypeOK, Store, Goto, planeVars, countVars, Handler
<1>14. ASSUME NEW c \in Threads, Begin(c) PROVE TypeOK'
  <2>0. PICK h \in Handler : h = handler[c] BY <1>h
  <2>1. PICK root \in Tables : root = h.root BY DEF Handler
  <2>a. PICK calm \in BOOLEAN : calm = (Building = {}) OBVIOUS
  <2>b. PICK step \in PlanStep : step = [table |-> root, depth |-> 0, parent |-> root]
    BY DEF PlanStep
  <2>c. PICK place \in [table : Tables, depth : Nat] : place = [table |-> root, depth |-> 0]
    OBVIOUS
  <2>2. PICK r : r = [h EXCEPT !.plan = <<step>>, !.queue = <<place>>, !.visited = {root},
                            !.calm = calm]
    OBVIOUS
  <2>d. <<step>> \in Seq(PlanStep) /\ <<place>> \in Seq([table : Tables, depth : Nat]) OBVIOUS
  <2>3. r \in Handler BY <2>2, <2>d DEF Handler
  <2>4. handler' = [handler EXCEPT ![c] = r]
    BY <1>14, <2>0, <2>1, <2>a, <2>b, <2>c, <2>2 DEF Begin
  <2>5. stage' \in [Threads -> Stage] BY <1>14 DEF TypeOK, Begin, Goto, Stage
  <2>6. handler' \in [Threads -> Handler] BY <2>3, <2>4 DEF TypeOK
  <2> QED BY <1>14, <2>5, <2>6 DEF TypeOK, Begin, planeVars, countVars
<1>15. ASSUME NEW c \in Threads, Fail(c)
       PROVE  stage' \in [Threads -> Stage] /\ handler' \in [Threads -> Handler]
  <2>0. PICK h \in Handler : h = handler[c] BY <1>h
  <2>1. [h EXCEPT !.outcome = "failed"] \in Handler BY DEF Handler
  <2> QED BY <1>15, <2>0, <2>1 DEF Fail, Goto, Stage, TypeOK
<1>16. ASSUME NEW c \in Threads, Pop(c) PROVE TypeOK'
  <2>0. PICK h \in Handler : h = handler[c] BY <1>h
  <2>q. PICK q : q = h.queue OBVIOUS
  <2>1. CASE q # <<>> /\ Head(q).table \in graph.nodes
    <3>1. q \in Seq([table : Tables, depth : Nat]) BY <2>q DEF Handler
    <3>a. q # <<>> BY <2>1
    <3>2. Head(q) \in [table : Tables, depth : Nat] /\ Tail(q) \in Seq([table : Tables, depth : Nat])
      BY <3>a, <3>1, Ends
    <3>3. PICK w : w = [table |-> Head(q).table, depth |-> Head(q).depth,
                        succ |-> Successors(Head(q).table),
                        left |-> Successors(Head(q).table), current |-> TRUE] OBVIOUS
    <3>4. w \in Walk BY <3>2, <3>3 DEF Walk, Successors
    <3>5. PICK r : r = [h EXCEPT !.queue = Tail(q), !.walk = w] OBVIOUS
    <3>6. r \in Handler BY <3>2, <3>4, <3>5 DEF Handler
    <3>7. handler' = [handler EXCEPT ![c] = r] BY <1>16, <2>0, <2>q, <2>1, <3>3, <3>5 DEF Pop
    <3> QED BY <1>16, <2>0, <2>q, <2>1, <3>6, <3>7 DEF Pop, Goto, TypeOK, Stage, planeVars, countVars
  <2>2. CASE ~(q # <<>> /\ Head(q).table \in graph.nodes)
    BY <1>15, <1>16, <2>0, <2>q, <2>2 DEF Pop, Goto, TypeOK, Stage, planeVars, countVars
  <2> QED BY <2>1, <2>2
<1>17. ASSUME NEW c \in Threads, NEW child \in handler[c].walk.left, Visit(c, child)
       PROVE  stage' \in [Threads -> Stage] /\ handler' \in [Threads -> Handler]
  <2>0. PICK h \in Handler : h = handler[c] BY <1>h
  <2>1. PICK w : w = h.walk OBVIOUS
  <2>2. w \in Walk /\ child \in Tables BY <1>17, <2>0, <2>1 DEF Handler, Walk
  <2>3. PICK v : v = [w EXCEPT !.left = @ \ {child}] OBVIOUS
  <2>4. v \in Walk BY <2>2, <2>3 DEF Walk
  <2>5. CASE child \in h.visited
    <3>1. handler' = [handler EXCEPT ![c] = [h EXCEPT !.walk = v]] /\ stage' = stage
      BY <1>17, <2>0, <2>1, <2>3, <2>5 DEF Visit
    <3>2. [h EXCEPT !.walk = v] \in Handler BY <2>4 DEF Handler
    <3> QED BY <3>1, <3>2 DEF TypeOK
  <2>6. CASE child \notin h.visited /\ <<w.table, child>> \notin graph.edges
    BY <1>15, <1>17, <2>0, <2>1, <2>6 DEF Visit
  <2>7. CASE child \notin h.visited /\ <<w.table, child>> \in graph.edges
    <3>1. PICK step : step = [table |-> child, depth |-> w.depth + 1, parent |-> w.table] OBVIOUS
    <3>2. PICK place : place = [table |-> child, depth |-> w.depth + 1] OBVIOUS
    <3>a. w.table \in Tables /\ w.depth + 1 \in Nat BY <2>2 DEF Walk
    <3>b. step \in PlanStep /\ place \in [table : Tables, depth : Nat]
      BY <2>2, <3>1, <3>2, <3>a DEF PlanStep
    <3>c. h.plan \in Seq(PlanStep) /\ h.queue \in Seq([table : Tables, depth : Nat])
      BY DEF Handler
    <3>3. /\ Append(h.plan, step) \in Seq(PlanStep)
          /\ Append(h.queue, place) \in Seq([table : Tables, depth : Nat])
      BY <3>b, <3>c
    <3>4. PICK r : r = [h EXCEPT !.walk = v, !.visited = @ \cup {child},
                                 !.plan = Append(@, step), !.queue = Append(@, place)] OBVIOUS
    <3>5. r \in Handler BY <2>2, <2>4, <3>3, <3>4 DEF Handler
    <3>d. handler' = [handler EXCEPT ![c] = [handler[c] EXCEPT
             !.walk.left = @ \ {child}, !.visited = @ \cup {child},
             !.plan = Append(@, step), !.queue = Append(@, place)]]
      BY <1>17, <2>0, <2>1, <2>7, <3>1, <3>2 DEF Visit
    <3>6. handler' = [handler EXCEPT ![c] = r]
      BY <2>0, <2>1, <2>3, <3>4, <3>d
    <3>7. stage' = stage BY <1>17, <2>0, <2>1, <2>7 DEF Visit
    <3> QED BY <3>5, <3>6, <3>7 DEF TypeOK
  <2> QED BY <2>5, <2>6, <2>7
<1>18. ASSUME NEW c \in Threads, Iterate(c) PROVE TypeOK'
  <2>1. stage' \in [Threads -> Stage] /\ handler' \in [Threads -> Handler]
    BY <1>15, <1>17, <1>18 DEF Iterate, Goto, Stage, TypeOK
  <2> QED BY <1>18, <2>1 DEF TypeOK, Iterate, planeVars, countVars
<1>19. ASSUME Migrate PROVE TypeOK'
  <2>1. ASSUME NEW c \in Threads
        PROVE  [handler[c] EXCEPT !.torn = @ \/ MidRead(c)] \in Handler
    <3>0. PICK h \in Handler : h = handler[c] BY <1>h
    <3>1. PICK torn \in BOOLEAN : torn = (h.torn \/ MidRead(c)) OBVIOUS
    <3>2. [h EXCEPT !.torn = torn] \in Handler BY DEF Handler
    <3> QED BY <3>0, <3>1, <3>2
  <2>2. handler' \in [Threads -> Handler] BY <1>19, <2>1 DEF Migrate
  <2>3. /\ schema' \in Schemas
        /\ UNCHANGED <<cache, graph, loaded, mixed, stage, calls, restarts>>
        /\ migrations' = migrations + 1
    BY <1>19 DEF Migrate, planeVars
  <2> QED BY <2>2, <2>3 DEF TypeOK
<1>20. ASSUME Restart PROVE TypeOK'
  <2>1. stage' \in [Threads -> Stage] /\ handler' \in [Threads -> Handler]
    BY <1>20, InitialTypes DEF Restart, Fresh, Stage
  <2>2. graph' \in [nodes : SUBSET Tables, edges : SUBSET (Tables \X Tables)] /\ loaded' \in BOOLEAN
    BY <1>20, InitialTypes DEF Restart, Fresh
  <2>3. mixed' \in [last : Schema, all : SUBSET Schema] BY <1>20, InitialTypes DEF Restart, Fresh
  <2> QED BY <1>20, <2>1, <2>2, <2>3 DEF TypeOK, Restart
<1>21. CASE UNCHANGED vars BY <1>21 DEF TypeOK, vars, planeVars, countVars
<1> QED BY <1>1, <1>2, <1>4, <1>5, <1>6, <1>7, <1>8, <1>9, <1>10, <1>11, <1>12, <1>13, <1>14,
           <1>16, <1>18, <1>19, <1>20, <1>21 DEF Next, Step

-----------------------------------------------------------------------------
(* Plans are in order *)

\* What the order of a plan depends on is the same in two handlers.
SamePlan(r, q) ==
    /\ q.plan = r.plan /\ q.queue = r.queue /\ q.visited = r.visited
    /\ q.walk.table = r.walk.table /\ q.walk.depth = r.walk.depth

LEMMA PlanKept ==
    ASSUME NEW r, NEW q, NEW s, NEW t, PlanOK(r, s), SamePlan(r, q),
           t = s \/ t \notin {"pop", "iterate"} \/ (s = "iterate" /\ t = "pop")
    PROVE  PlanOK(q, t)
BY DEF PlanOK, SamePlan

LEMMA EmptyPlan ==
    ASSUME NEW r, NEW s, r.plan = <<>>, s \notin {"pop", "iterate"}
    PROVE  PlanOK(r, s)
BY DEF PlanOK, Ordered

Place == [table : Tables, depth : Nat]

LEMMA BeginOrdered ==
    ASSUME NEW step \in PlanStep, NEW place \in Place,
           place.table = step.table, place.depth = 0, step.depth = 0
    PROVE  Ordered(<<step>>) /\ Queued(<<step>>, <<place>>, {step.table})
<1>1. Len(<<step>>) = 1 /\ Len(<<place>>) = 1 /\ <<step>>[1] = step /\ <<place>>[1] = place
  OBVIOUS
<1>2. PICK plan, queue : plan = <<step>> /\ queue = <<place>> OBVIOUS
<1>a. DOMAIN plan = {1} /\ DOMAIN queue = {1} BY <1>2
<1>3. Taken(plan, queue) = 0 BY <1>1, <1>2 DEF Taken
<1>4. Ordered(plan) BY <1>a DEF Ordered
<1>b. {step.table} = {plan[i].table : i \in DOMAIN plan} BY <1>1, <1>2, <1>a
<1>c. plan[1] = step /\ queue[1] = place /\ Len(plan) = 1 /\ Len(queue) = 1 BY <1>1, <1>2
<1>5. Queued(plan, queue, {step.table}) BY <1>3, <1>a, <1>b, <1>c DEF Queued
<1> QED BY <1>2, <1>4, <1>5

LEMMA OneMore ==
    ASSUME NEW x \in Nat, NEW y \in Nat, NEW z \in Nat, x <= y, z <= x + 1
    PROVE  z <= y + 1
OBVIOUS

\* The table at the head of the queue is taken off: it comes next in the plan.
LEMMA PopQueued ==
    ASSUME NEW plan \in Seq(PlanStep), NEW queue \in Seq(Place), NEW visited,
           Ordered(plan), Queued(plan, queue, visited), queue # <<>>
    PROVE  /\ Queued(plan, Tail(queue), visited)
           /\ Walking(plan, Tail(queue), Head(queue).table, Head(queue).depth)
<1>1. PICK n \in Nat, l \in Nat : n = Len(plan) /\ l = Len(queue) OBVIOUS
<1>2. /\ l > 0 /\ Len(Tail(queue)) = l - 1 /\ DOMAIN Tail(queue) = 1 .. l - 1
      /\ Head(queue) = queue[1] /\ 1 \in DOMAIN queue
      /\ \A k \in 1 .. l - 1 : Tail(queue)[k] = queue[k + 1]
  BY <1>1, Ends
<1>3. DOMAIN plan = 1 .. n /\ DOMAIN queue = 1 .. l BY <1>1
<1>4. l <= n BY <1>1 DEF Queued
<1>5. PICK m \in Nat : m = n - l /\ m + 1 \in 1 .. n BY <1>2, <1>4
<1>6. Taken(plan, queue) = m /\ Taken(plan, Tail(queue)) = m + 1 BY <1>1, <1>2, <1>5 DEF Taken
<1>7. ASSUME NEW i \in 1 .. n PROVE plan[i] \in PlanStep /\ plan[i].depth \in Nat
  <2>1. plan[i] \in PlanStep BY <1>3
  <2> QED BY <2>1 DEF PlanStep
<1>8. ASSUME NEW k \in 1 .. l
      PROVE  queue[k].table = plan[m + k].table /\ queue[k].depth = plan[m + k].depth
  BY <1>3, <1>6 DEF Queued
<1>9. \A i \in 1 .. n : plan[i].depth <= plan[m + 1].depth + 1
  <2>1. CASE m = 0
    <3>1. n = 1 /\ plan[1].depth = 0 BY <1>1, <1>6, <2>1 DEF Queued
    <3> QED BY <2>1, <3>1
  <2>2. CASE m > 0
    <3>1. m \in 1 .. (m + 1) - 1 /\ m \in 1 .. n BY <1>5, <2>2
    <3>2. plan[m].depth <= plan[m + 1].depth BY <1>3, <1>5, <3>1 DEF Ordered
    <3>3. \A i \in 1 .. n : plan[i].depth <= plan[m].depth + 1
      BY <1>3, <1>6, <2>2 DEF Queued
    <3>4. plan[m].depth \in Nat /\ plan[m + 1].depth \in Nat BY <1>5, <1>7, <3>1
    <3>5. PICK x \in Nat, y \in Nat : x = plan[m].depth /\ y = plan[m + 1].depth /\ x <= y
      BY <3>2, <3>4
    <3> TAKE i \in 1 .. n
    <3>6. PICK z \in Nat : z = plan[i].depth /\ z <= x + 1 BY <1>7, <3>3, <3>5
    <3>7. z <= y + 1 BY <3>5, <3>6, OneMore
    <3> QED BY <3>5, <3>6, <3>7
  <2> QED BY <2>1, <2>2
<1>10. ASSUME NEW k \in DOMAIN Tail(queue)
       PROVE  /\ Tail(queue)[k].table = plan[(m + 1) + k].table
              /\ Tail(queue)[k].depth = plan[(m + 1) + k].depth
  <2>1. k + 1 \in 1 .. l /\ k \in 1 .. l - 1 /\ m + (k + 1) = (m + 1) + k BY <1>2, <1>5
  <2> QED BY <1>2, <1>8, <2>1
<1>11. l - 1 <= n /\ m + 1 > 0 BY <1>4
<1>12. visited = {plan[i].table : i \in DOMAIN plan} BY DEF Queued
<1>13. Queued(plan, Tail(queue), visited)
  BY <1>1, <1>2, <1>3, <1>6, <1>9, <1>10, <1>11, <1>12 DEF Queued
<1>14. Walking(plan, Tail(queue), Head(queue).table, Head(queue).depth)
  BY <1>2, <1>3, <1>6, <1>8, <1>11 DEF Walking
<1> QED BY <1>13, <1>14

LEMMA Appended ==
    ASSUME NEW S, NEW q \in Seq(S), NEW x \in S
    PROVE  /\ Append(q, x) \in Seq(S) /\ Len(Append(q, x)) = Len(q) + 1 /\ Len(q) \in Nat
           /\ DOMAIN q = 1 .. Len(q) /\ DOMAIN Append(q, x) = 1 .. Len(q) + 1
           /\ \A i \in 1 .. Len(q) : Append(q, x)[i] = q[i] /\ q[i] \in S
           /\ Append(q, x)[Len(q) + 1] = x
OBVIOUS

\* A child is added to the plan and to the queue, a level below the table of the walk.
LEMMA VisitQueued ==
    ASSUME NEW plan \in Seq(PlanStep), NEW queue \in Seq(Place), NEW visited,
           NEW table \in Tables, NEW depth \in Nat,
           Ordered(plan), Queued(plan, queue, visited), Walking(plan, queue, table, depth),
           NEW step \in PlanStep, NEW place \in Place,
           step.table \notin visited, step.depth = depth + 1, step.parent = table,
           place.table = step.table, place.depth = step.depth
    PROVE  /\ Ordered(Append(plan, step))
           /\ Queued(Append(plan, step), Append(queue, place), visited \cup {step.table})
           /\ Walking(Append(plan, step), Append(queue, place), table, depth)
<1>1. PICK n \in Nat, l \in Nat : n = Len(plan) /\ l = Len(queue) OBVIOUS
<1>2. PICK p : p = Append(plan, step) OBVIOUS
<1>3. PICK q : q = Append(queue, place) OBVIOUS
<1>4. /\ DOMAIN plan = 1 .. n /\ DOMAIN p = 1 .. n + 1 /\ Len(p) = n + 1
      /\ \A i \in 1 .. n : p[i] = plan[i] /\ plan[i] \in PlanStep
      /\ p[n + 1] = step
  BY <1>1, <1>2, Appended
<1>5. /\ DOMAIN queue = 1 .. l /\ DOMAIN q = 1 .. l + 1 /\ Len(q) = l + 1
      /\ \A k \in 1 .. l : q[k] = queue[k]
      /\ q[l + 1] = place
  BY <1>1, <1>3, Appended
<1>6. l <= n BY <1>1 DEF Queued
<1>7. Taken(plan, queue) = n - l BY <1>1 DEF Taken
<1>8. n - l > 0 BY <1>7 DEF Walking
<1>9. PICK m \in 1 .. n : m = n - l BY <1>6, <1>8
<1>10. Taken(p, q) = m BY <1>4, <1>5, <1>9 DEF Taken
<1>11. table = plan[m].table /\ depth = plan[m].depth BY <1>7, <1>9 DEF Walking
<1>12. \A i \in 1 .. n : plan[i].depth <= depth + 1 BY <1>4, <1>7, <1>8, <1>9, <1>11 DEF Queued
<1>13. visited = {plan[i].table : i \in 1 .. n} BY <1>4 DEF Queued
<1>14. p[m] = plan[m] BY <1>4, <1>9
<1>15. Ordered(p)
  <2>1. ASSUME NEW j \in 1 .. n
        PROVE  /\ \A i \in 1 .. j - 1 : p[i].table # p[j].table /\ p[i].depth <= p[j].depth
               /\ j > 1 => \E i \in 1 .. j - 1 : /\ p[i].table = p[j].parent
                                                 /\ p[i].depth + 1 = p[j].depth
    <3>1. \A i \in 1 .. j - 1 : i \in 1 .. n /\ p[i] = plan[i] BY <1>4
    <3>2. p[j] = plan[j] /\ j \in DOMAIN plan BY <1>4
    <3>3. /\ \A i \in 1 .. j - 1 :
               plan[i].table # plan[j].table /\ plan[i].depth <= plan[j].depth
          /\ j > 1 => \E i \in 1 .. j - 1 :
               plan[i].table = plan[j].parent /\ plan[i].depth + 1 = plan[j].depth
      BY <3>2, Zenon DEF Ordered
    <3>4. \A i \in 1 .. j - 1 : p[i].table # p[j].table /\ p[i].depth <= p[j].depth
      BY ONLY <3>1, <3>2, <3>3, Zenon
    <3>5. j > 1 => \E i \in 1 .. j - 1 : /\ p[i].table = p[j].parent
                                         /\ p[i].depth + 1 = p[j].depth
      BY ONLY <3>1, <3>2, <3>3, Zenon
    <3> QED BY ONLY <3>4, <3>5
  <2>2. ASSUME NEW i \in 1 .. (n + 1) - 1
        PROVE  p[i].table # p[n + 1].table /\ p[i].depth <= p[n + 1].depth
    <3>1. i \in 1 .. n OBVIOUS
    <3>2. plan[i].table \in visited BY <1>13, <3>1
    <3>3. plan[i].depth <= depth + 1 BY <1>12, <3>1
    <3> QED BY <1>4, <3>1, <3>2, <3>3
  <2>3. \E i \in 1 .. (n + 1) - 1 : /\ p[i].table = p[n + 1].parent
                                    /\ p[i].depth + 1 = p[n + 1].depth
    <3>1. m \in 1 .. (n + 1) - 1 BY <1>9
    <3> QED BY <1>4, <1>11, <1>14, <3>1
  <2>4. DOMAIN p = 1 .. n \cup {n + 1} BY <1>4
  <2> QED BY <2>1, <2>2, <2>3, <2>4 DEF Ordered
<1>16. visited \cup {step.table} = {p[i].table : i \in DOMAIN p} BY <1>4, <1>13
<1>17. ASSUME NEW k \in DOMAIN q
       PROVE  q[k].table = p[m + k].table /\ q[k].depth = p[m + k].depth
  <2>1. CASE k = l + 1
    <3>1. m + k = n + 1 BY <1>9, <2>1
    <3> QED BY <1>4, <1>5, <2>1, <3>1
  <2>2. CASE k # l + 1
    <3>1. k \in 1 .. l /\ m + k \in 1 .. n BY <1>5, <1>9, <2>2
    <3>2. queue[k].table = plan[m + k].table /\ queue[k].depth = plan[m + k].depth
      BY <1>5, <1>7, <1>9, <3>1 DEF Queued
    <3> QED BY <1>4, <1>5, <3>1, <3>2
  <2> QED BY <2>1, <2>2
<1>18. ASSUME NEW i \in DOMAIN p PROVE p[i].depth <= p[m].depth + 1
  <2>1. CASE i = n + 1 BY <1>4, <1>11, <1>14, <2>1
  <2>2. CASE i # n + 1
    <3>1. i \in 1 .. n BY <1>4, <2>2
    <3> QED BY <1>4, <1>11, <1>12, <1>14, <3>1
  <2> QED BY <2>1, <2>2
<1>19. l + 1 <= n + 1 /\ m > 0 /\ m # 0 BY <1>6
<1>a. Len(q) <= Len(p) BY <1>4, <1>5, <1>19
<1>20. Queued(p, q, visited \cup {step.table})
  BY <1>10, <1>16, <1>17, <1>18, <1>19, <1>a DEF Queued
<1>21. Walking(p, q, table, depth) BY <1>10, <1>11, <1>14, <1>19 DEF Walking
<1> QED BY <1>2, <1>3, <1>15, <1>20, <1>21


LEMMA IdlePlan == Idle.plan = <<>>
<1>1. PICK t : t = CHOOSE u \in Tables : TRUE OBVIOUS
<1> QED BY <1>1 DEF Idle

\* A step that moves one thread, whose plan is in order afterwards.
LEMMA OneMoves ==
    ASSUME TypeOK, PlansOK, NEW c \in Threads, NEW s, NEW r,
           stage' = [stage EXCEPT ![c] = s], handler' = [handler EXCEPT ![c] = r],
           PlanOK(r, s)
    PROVE  PlansOK'
<1>1. ASSUME NEW d \in Threads PROVE PlanOK(handler'[d], stage'[d])
  <2>1. CASE d = c BY <2>1 DEF TypeOK
  <2>2. CASE d # c
    <3>1. handler'[d] = handler[d] /\ stage'[d] = stage[d] BY <2>2 DEF TypeOK
    <3> QED BY <3>1 DEF PlansOK
  <2> QED BY <2>1, <2>2
<1> QED BY <1>1 DEF PlansOK

\* A step that changes the graph and moves one thread, which has no walk in progress.
LEMMA GraphMoves ==
    ASSUME TypeOK, PlansOK, NEW c \in Threads, NEW s, NEW r \in Handler, NEW current \in BOOLEAN,
           s \notin {"pop", "iterate"}, SamePlan(handler[c], r),
           stage' = [stage EXCEPT ![c] = s],
           handler' = Disturbed([handler EXCEPT ![c] = r], current)
    PROVE  PlansOK'
<1>1. [handler EXCEPT ![c] = r] \in [Threads -> Handler] BY DEF TypeOK
<1>2. ASSUME NEW d \in Threads PROVE PlanOK(handler'[d], stage'[d])
  <2>1. Alike([handler EXCEPT ![c] = r][d], handler'[d]) BY <1>1, Disturbance
  <2>2. SamePlan(handler[d], handler'[d])
    <3>1. CASE d = c BY <2>1, <3>1 DEF Alike, SamePlan, TypeOK
    <3>2. CASE d # c BY <2>1, <3>2 DEF Alike, SamePlan, TypeOK
    <3> QED BY <3>1, <3>2
  <2>3. stage'[d] = stage[d] \/ stage'[d] \notin {"pop", "iterate"} BY DEF TypeOK
  <2>4. PlanOK(handler[d], stage[d]) BY DEF PlansOK
  <2> QED BY <2>2, <2>3, <2>4, PlanKept
<1> QED BY <1>2 DEF PlansOK

LEMMA InitPlans == Init => PlansOK
BY IdlePlan, EmptyPlan DEF Init, PlansOK, Threads

LEMMA StepPlans ==
    ASSUME TypeOK, PlansOK, [Next]_vars
    PROVE  PlansOK'
<1>h. ASSUME NEW c \in Threads PROVE handler[c] \in Handler /\ PlanOK(handler[c], stage[c])
  BY DEF TypeOK, PlansOK
<1>s. ASSUME NEW c \in Threads, NEW s, handler' = handler, Goto(c, s),
             s \notin {"pop", "iterate"} \/ s = stage[c] \/ (stage[c] = "iterate" /\ s = "pop")
      PROVE  PlansOK'
  <2>1. handler' = [handler EXCEPT ![c] = handler[c]] BY <1>s DEF TypeOK
  <2>2. PlanOK(handler[c], s) BY <1>h, <1>s, PlanKept DEF SamePlan
  <2> QED BY <1>s, <2>1, <2>2, OneMoves DEF Goto
<1>r. ASSUME NEW c \in Threads, NEW s, NEW r, handler' = [handler EXCEPT ![c] = r], Goto(c, s),
             s \notin {"pop", "iterate"} \/ s = stage[c], SamePlan(handler[c], r)
      PROVE  PlansOK'
  <2>1. PlanOK(handler[c], stage[c]) BY <1>h
  <2>2. PlanOK(r, s) BY <1>r, <2>1, PlanKept
  <2> QED BY <1>r, <2>2, OneMoves DEF Goto
<1>1. ASSUME NEW c \in Threads, Call(c) PROVE PlansOK'
  <2>1. PICK op \in {"load", "refresh", "plan"}, root \in Tables :
           /\ handler' = [handler EXCEPT ![c] = [Idle EXCEPT !.op = op, !.root = root]]
           /\ \E s \in {"tables", "hash", "done", "begin"} : Goto(c, s)
    BY <1>1 DEF Call
  <2>2. PICK s \in {"tables", "hash", "done", "begin"} : Goto(c, s) BY <2>1
  <2>3. PICK i \in Handler : i = Idle BY InitialTypes
  <2>4. PICK r : r = [i EXCEPT !.op = op, !.root = root] OBVIOUS
  <2>5. r.plan = <<>> BY <2>3, <2>4, IdlePlan DEF Handler
  <2>6. PlanOK(r, s) BY <2>2, <2>5, EmptyPlan
  <2> QED BY <2>1, <2>2, <2>3, <2>4, <2>6, OneMoves DEF Goto
<1>2. ASSUME NEW c \in Threads, Return(c) PROVE PlansOK'
  <2>1. PlanOK(Idle, "idle") BY IdlePlan, EmptyPlan
  <2> QED BY <1>2, <2>1, OneMoves DEF Return, Goto
<1>3. ASSUME NEW c \in Threads PROVE AfterLoad(c) \in {"begin", "done"} BY DEF AfterLoad
<1>4. ASSUME NEW c \in Threads, ReadFails(c) PROVE PlansOK'
  <2>1. PICK s \in {"begin", "done"} : s = AfterLoad(c) BY <1>3
  <2>2. handler' = handler /\ Goto(c, s) BY <1>4, <2>1 DEF ReadFails
  <2> QED BY <1>s, <2>2
<1>5. ASSUME NEW c \in Threads, Hash(c) PROVE PlansOK'
  <2>1. PICK hit, data : handler' = [handler EXCEPT ![c] =
             [handler[c] EXCEPT !.hash = HashOf(schema), !.hit = hit, !.data = data]]
    BY ZenonT(40), <1>5 DEF Hash
  <2>2. PICK h \in Handler : h = handler[c] BY <1>h
  <2>3. PICK r : r = [h EXCEPT !.hash = HashOf(schema), !.hit = hit, !.data = data] OBVIOUS
  <2>4. SamePlan(h, r) BY <2>3 DEF Handler, SamePlan
  <2>5. PICK s \in {"replace", "tables"} : Goto(c, s) BY <1>5 DEF Hash
  <2> QED BY <1>r, <2>1, <2>2, <2>3, <2>4, <2>5
<1>6. ASSUME NEW c \in Threads, ReadTables(c) \/ ReadFks(c) PROVE PlansOK'
  <2>1. PICK data : handler' = [handler EXCEPT ![c] = [handler[c] EXCEPT !.data = data]]
    BY <1>6 DEF ReadTables, ReadFks
  <2>2. PICK h \in Handler : h = handler[c] BY <1>h
  <2>3. SamePlan(h, [h EXCEPT !.data = data]) BY DEF Handler, SamePlan
  <2>4. PICK s \in {"fks", "replace"} : Goto(c, s) BY <1>6 DEF ReadTables, ReadFks
  <2> QED BY <1>r, <2>1, <2>2, <2>3, <2>4
<1>7. ASSUME NEW c \in Threads, Rehash(c) PROVE PlansOK'
  <2>1. PICK h \in Handler : h = handler[c] BY <1>h
  <2>2. SamePlan(h, [h EXCEPT !.hash = HashOf(schema)]) BY DEF Handler, SamePlan
  <2> QED BY <1>7, <1>r, <2>1, <2>2 DEF Rehash
<1>8. ASSUME NEW c \in Threads, Built(c) \/ Store(c) PROVE PlansOK'
  <2>1. PICK s \in {"rehash", "begin", "done", "store"} : Goto(c, s)
    BY <1>3, <1>8 DEF Built, Store
  <2>2. handler' = handler BY <1>8 DEF Built, Store
  <2> QED BY <1>s, <2>1, <2>2
<1>9. ASSUME NEW c \in Threads, Replace(c) PROVE PlansOK'
  <2>1. PICK h \in Handler : h = handler[c] BY <1>h
  <2>2. PICK r : r = [h EXCEPT !.todo = h.data.fks] OBVIOUS
  <2>3. r \in Handler /\ SamePlan(h, r) BY <2>2 DEF Handler, SamePlan, Schema
  <2> QED BY <1>9, <2>1, <2>2, <2>3, GraphMoves DEF Replace, Goto
<1>10. ASSUME NEW c \in Threads, AddNodes(c) PROVE PlansOK'
  <2>1. handler = [handler EXCEPT ![c] = handler[c]] BY DEF TypeOK
  <2>2. SamePlan(handler[c], handler[c]) BY DEF SamePlan
  <2> QED BY <1>10, <1>h, <2>1, <2>2, GraphMoves DEF AddNodes, Goto
<1>11. ASSUME NEW c \in Threads, AddEdge(c) PROVE PlansOK'
  <2>1. PICK h \in Handler : h = handler[c] BY <1>h
  <2>2. PICK fk \in h.todo : handler' = Disturbed([handler EXCEPT ![c].todo = @ \ {fk}], TRUE)
    BY <1>11, <2>1 DEF AddEdge
  <2>3. PICK r : r = [h EXCEPT !.todo = @ \ {fk}] OBVIOUS
  <2>4. r \in Handler /\ SamePlan(h, r) BY <2>3 DEF Handler, SamePlan
  <2>5. stage' = [stage EXCEPT ![c] = "edges"] BY <1>11 DEF AddEdge, TypeOK
  <2> QED BY <2>1, <2>2, <2>3, <2>4, <2>5, GraphMoves
<1>12. ASSUME NEW c \in Threads, Begin(c) PROVE PlansOK'
  <2>1. PICK h \in Handler : h = handler[c] BY <1>h
  <2>2. PICK root \in Tables : root = h.root BY DEF Handler
  <2>3. PICK step \in PlanStep : step = [table |-> root, depth |-> 0, parent |-> root]
    BY DEF PlanStep
  <2>4. PICK place \in Place : place = [table |-> root, depth |-> 0] BY DEF Place
  <2>5. PICK calm : calm = (Building = {}) OBVIOUS
  <2>6. PICK r : r = [h EXCEPT !.plan = <<step>>, !.queue = <<place>>, !.visited = {root},
                               !.calm = calm] OBVIOUS
  <2>7. r.plan = <<step>> /\ r.queue = <<place>> /\ r.visited = {step.table}
    BY <2>3, <2>6 DEF Handler
  <2>8. PlanOK(r, "pop") BY <2>3, <2>4, <2>7, BeginOrdered DEF PlanOK
  <2>9. handler' = [handler EXCEPT ![c] = r]
    BY <1>12, <2>1, <2>2, <2>3, <2>4, <2>5, <2>6 DEF Begin
  <2> QED BY <1>12, <2>8, <2>9, OneMoves DEF Begin, Goto
<1>13. ASSUME NEW c \in Threads, Fail(c) PROVE PlansOK'
  <2>1. PICK h \in Handler : h = handler[c] BY <1>h
  <2>2. SamePlan(h, [h EXCEPT !.outcome = "failed"]) BY DEF Handler, SamePlan
  <2> QED BY <1>13, <1>r, <2>1, <2>2 DEF Fail
<1>14. ASSUME NEW c \in Threads, Pop(c) PROVE PlansOK'
  <2>1. PICK h \in Handler : h = handler[c] BY <1>h
  <2>2. PICK q \in Seq(Place) : q = h.queue BY DEF Handler, Place
  <2>3. CASE q # <<>> /\ Head(q).table \in graph.nodes
    <3>1. PICK w : w = [table |-> Head(q).table, depth |-> Head(q).depth,
                        succ |-> Successors(Head(q).table),
                        left |-> Successors(Head(q).table), current |-> TRUE] OBVIOUS
    <3>2. PICK r : r = [h EXCEPT !.queue = Tail(q), !.walk = w] OBVIOUS
    <3>3. handler' = [handler EXCEPT ![c] = r] /\ Goto(c, "iterate")
      BY <1>14, <2>1, <2>2, <2>3, <3>1, <3>2 DEF Pop
    <3>4. /\ r.plan = h.plan /\ r.visited = h.visited /\ r.queue = Tail(q)
          /\ r.walk.table = Head(q).table /\ r.walk.depth = Head(q).depth
      BY <3>1, <3>2 DEF Handler
    <3>5. Ordered(h.plan) /\ Queued(h.plan, q, h.visited)
      BY <1>14, <1>h, <2>1, <2>2 DEF Pop, PlanOK
    <3>6. h.plan \in Seq(PlanStep) /\ q # <<>> BY <2>3 DEF Handler
    <3>7. PlanOK(r, "iterate") BY <3>4, <3>5, <3>6, PopQueued DEF PlanOK
    <3> QED BY <3>3, <3>7, OneMoves DEF Goto
  <2>4. CASE q = <<>>
    <3>1. handler' = handler /\ Goto(c, "done") BY <1>14, <2>1, <2>2, <2>4 DEF Pop
    <3> QED BY <1>s, <3>1
  <2>5. CASE q # <<>> /\ Head(q).table \notin graph.nodes
    BY <1>13, <1>14, <2>1, <2>2, <2>5 DEF Pop
  <2> QED BY <2>3, <2>4, <2>5
<1>15. ASSUME NEW c \in Threads, NEW child \in handler[c].walk.left, stage[c] = "iterate",
              Visit(c, child)
       PROVE  PlansOK'
  <2>1. PICK h \in Handler : h = handler[c] BY <1>h
  <2>2. PICK w \in Walk : w = h.walk BY DEF Handler
  <2>3. PICK v : v = [w EXCEPT !.left = @ \ {child}] OBVIOUS
  <2>4. v.table = w.table /\ v.depth = w.depth BY <2>3 DEF Walk
  <2>5. CASE child \in h.visited
    <3>1. handler' = [handler EXCEPT ![c] = [h EXCEPT !.walk = v]] /\ Goto(c, "iterate")
      BY <1>15, <2>1, <2>2, <2>3, <2>5 DEF Visit, Goto, TypeOK
    <3>2. SamePlan(h, [h EXCEPT !.walk = v]) BY <2>2, <2>4 DEF Handler, SamePlan
    <3> QED BY <1>15, <1>r, <2>1, <3>1, <3>2
  <2>6. CASE child \notin h.visited /\ <<w.table, child>> \notin graph.edges
    BY <1>13, <1>15, <2>1, <2>2, <2>6 DEF Visit
  <2>7. CASE child \notin h.visited /\ <<w.table, child>> \in graph.edges
    <3>1. child \in Tables BY <1>15, <2>1, <2>2 DEF Walk
    <3>a. w.table \in Tables /\ w.depth + 1 \in Nat BY DEF Walk
    <3>2. PICK step \in PlanStep :
             step = [table |-> child, depth |-> w.depth + 1, parent |-> w.table]
      BY <3>1, <3>a DEF PlanStep
    <3>3. PICK place \in Place : place = [table |-> child, depth |-> w.depth + 1]
      BY <3>1, <3>a DEF Place
    <3>4. PICK r : r = [h EXCEPT !.walk = v, !.visited = @ \cup {child},
                                 !.plan = Append(@, step), !.queue = Append(@, place)] OBVIOUS
    <3>b. Goto(c, "iterate") BY <1>15, <2>1, <2>2, <2>7 DEF Visit, Goto, TypeOK
    <3>c. handler' = [handler EXCEPT ![c] = [handler[c] EXCEPT
             !.walk.left = @ \ {child}, !.visited = @ \cup {child},
             !.plan = Append(@, step), !.queue = Append(@, place)]]
      BY <1>15, <2>1, <2>2, <2>7, <3>2, <3>3 DEF Visit
    <3>5. handler' = [handler EXCEPT ![c] = r] /\ Goto(c, "iterate")
      BY <2>1, <2>2, <2>3, <3>4, <3>b, <3>c
    <3>6. /\ r.plan = Append(h.plan, step) /\ r.queue = Append(h.queue, place)
          /\ r.visited = h.visited \cup {step.table}
          /\ r.walk.table = w.table /\ r.walk.depth = w.depth
      BY <2>4, <3>2, <3>4 DEF Handler
    <3>7. /\ Ordered(h.plan) /\ Queued(h.plan, h.queue, h.visited)
          /\ Walking(h.plan, h.queue, w.table, w.depth)
      BY <1>15, <1>h, <2>1, <2>2 DEF PlanOK
    <3>8. h.plan \in Seq(PlanStep) /\ h.queue \in Seq(Place) BY DEF Handler, Place
    <3>9. w.table \in Tables /\ w.depth \in Nat BY DEF Walk
    <3>10. /\ step.table \notin h.visited /\ step.depth = w.depth + 1 /\ step.parent = w.table
           /\ place.table = step.table /\ place.depth = step.depth
      BY <2>7, <3>2, <3>3
    <3>11. /\ Ordered(Append(h.plan, step))
           /\ Queued(Append(h.plan, step), Append(h.queue, place), h.visited \cup {step.table})
           /\ Walking(Append(h.plan, step), Append(h.queue, place), w.table, w.depth)
      BY <3>7, <3>8, <3>9, <3>10, VisitQueued
    <3>12. PlanOK(r, "iterate") BY <3>6, <3>11 DEF PlanOK
    <3> QED BY <3>5, <3>12, OneMoves DEF Goto
  <2> QED BY <2>5, <2>6, <2>7
<1>16. ASSUME NEW c \in Threads, Iterate(c) PROVE PlansOK'
  BY <1>13, <1>15, <1>16, <1>s DEF Iterate
<1>17. ASSUME Migrate PROVE PlansOK'
  <2>1. ASSUME NEW d \in Threads PROVE PlanOK(handler'[d], stage'[d])
    <3>1. PICK h \in Handler : h = handler[d] BY <1>h
    <3>2. PICK torn : torn = (h.torn \/ MidRead(d)) OBVIOUS
    <3>3. SamePlan(h, [h EXCEPT !.torn = torn]) BY DEF Handler, SamePlan
    <3>4. handler'[d] = [h EXCEPT !.torn = torn] /\ stage'[d] = stage[d]
      BY <1>17, <3>1, <3>2 DEF Migrate
    <3>5. PlanOK(h, stage[d]) BY <1>h, <3>1
    <3> QED BY <3>3, <3>4, <3>5, PlanKept
  <2> QED BY <2>1 DEF PlansOK
<1>18. ASSUME Restart PROVE PlansOK'
  BY <1>18, IdlePlan, EmptyPlan DEF Restart, Fresh, PlansOK
<1>19. CASE UNCHANGED vars BY <1>19 DEF vars, PlansOK
<1> QED BY <1>1, <1>2, <1>4, <1>5, <1>6, <1>7, <1>8, <1>9, <1>10, <1>11, <1>12, <1>14, <1>16,
           <1>17, <1>18, <1>19 DEF Next, Step

-----------------------------------------------------------------------------
(* The graph has the keys of its builds *)

Adding == {"nodes", "edges"}

\* The graph stays, and so do the builds and what they have still to add.
LEMMA BuildsKept ==
    ASSUME BuildsOK, graph' = graph, mixed' = mixed,
           \A d \in Threads : stage'[d] \in Adding <=> stage[d] \in Adding,
           \A d \in Threads : stage[d] \in Adding => /\ handler'[d].data = handler[d].data
                                                     /\ handler'[d].todo = handler[d].todo
    PROVE  BuildsOK'
<1>1. Building' = Building /\ Building \subseteq Threads BY DEF Building, Adding
<1>2. \A d \in Building : handler'[d].data = handler[d].data /\ handler'[d].todo = handler[d].todo
  BY DEF Building, Adding
<1> QED BY <1>1, <1>2 DEF BuildsOK

\* A step of a thread that does not build, before it or after it.
LEMMA OthersBuild ==
    ASSUME TypeOK, BuildsOK, NEW c \in Threads, NEW s \in Stage \ Adding, stage[c] \notin Adding,
           graph' = graph, mixed' = mixed, stage' = [stage EXCEPT ![c] = s],
           \A d \in Threads : d # c => handler'[d] = handler[d]
    PROVE  BuildsOK'
<1>1. \A d \in Threads : stage'[d] \in Adding <=> stage[d] \in Adding BY DEF TypeOK
<1>2. \A d \in Threads : stage[d] \in Adding => d # c OBVIOUS
<1> QED BY <1>1, <1>2, BuildsKept

LEMMA InitBuilds == Init => BuildsOK
<1> SUFFICES ASSUME Init PROVE BuildsOK OBVIOUS
<1>1. Building = {} BY DEF Init, Building
<1>2. graph.edges = {} /\ mixed.last.fks = {} BY DEF Init, EmptyGraph, NoSchema
<1> QED BY <1>1, <1>2 DEF BuildsOK

LEMMA StepBuilds ==
    ASSUME TypeOK, BuildsOK, [Next]_vars
    PROVE  BuildsOK'
<1>s. Stage \ Adding = {"idle", "hash", "tables", "fks", "replace", "rehash", "store", "begin",
                        "pop", "iterate", "done"}
  BY DEF Stage, Adding
<1>h. handler \in [Threads -> Handler] /\ stage \in [Threads -> Stage] BY DEF TypeOK
<1>1. ASSUME NEW c \in Threads, Call(c) PROVE BuildsOK'
  <2>1. PICK s \in {"tables", "hash", "done", "begin"} : stage' = [stage EXCEPT ![c] = s]
    BY <1>1 DEF Call, Goto
  <2>2. \A d \in Threads : d # c => handler'[d] = handler[d] BY <1>1, <1>h DEF Call
  <2>3. stage[c] \notin Adding /\ graph' = graph /\ mixed' = mixed BY <1>1 DEF Call, Adding, planeVars
  <2> QED BY <1>s, <2>1, <2>2, <2>3, OthersBuild
<1>2. ASSUME NEW c \in Threads PROVE AfterLoad(c) \in {"begin", "done"} BY DEF AfterLoad
<1>3. ASSUME NEW c \in Threads,
             \/ Return(c) \/ ReadFails(c) \/ Hash(c) \/ ReadTables(c) \/ ReadFks(c) \/ Rehash(c)
             \/ Store(c) \/ Begin(c)
      PROVE  BuildsOK'
  <2>1. /\ stage[c] \notin Adding /\ graph' = graph /\ mixed' = mixed
        /\ \E s \in Stage \ Adding : stage' = [stage EXCEPT ![c] = s]
    BY <1>2, <1>3, <1>s DEF Return, ReadFails, Hash, ReadTables, ReadFks, Rehash, Store, Begin, Goto,
                            Adding, planeVars
  <2>2. \A d \in Threads : d # c => handler'[d] = handler[d]
    BY <1>3, <1>h DEF Return, ReadFails, Hash, ReadTables, ReadFks, Rehash, Store, Begin
  <2> QED BY <2>1, <2>2, OthersBuild
<1>4. ASSUME NEW c \in Threads, Pop(c) PROVE BuildsOK'
  <2>1. /\ stage[c] \notin Adding /\ graph' = graph /\ mixed' = mixed
        /\ \E s \in Stage \ Adding : stage' = [stage EXCEPT ![c] = s]
    BY <1>4, <1>s DEF Pop, Fail, Goto, Adding, planeVars
  <2>2. \A d \in Threads : d # c => handler'[d] = handler[d] BY <1>4, <1>h DEF Pop, Fail
  <2> QED BY <2>1, <2>2, OthersBuild
<1>5. ASSUME NEW c \in Threads, NEW child, stage[c] = "iterate", Visit(c, child)
      PROVE  /\ \E s \in Stage \ Adding : stage' = [stage EXCEPT ![c] = s]
             /\ \A d \in Threads : d # c => handler'[d] = handler[d]
  <2>1. stage' = stage => stage' = [stage EXCEPT ![c] = "iterate"] BY <1>5, <1>h
  <2> QED BY <1>5, <1>h, <1>s, <2>1 DEF Visit, Fail, Goto
<1>6. ASSUME NEW c \in Threads, Iterate(c) PROVE BuildsOK'
  <2>1. stage[c] \notin Adding /\ graph' = graph /\ mixed' = mixed
    BY <1>6 DEF Iterate, Adding, planeVars
  <2>2. /\ \E s \in Stage \ Adding : stage' = [stage EXCEPT ![c] = s]
        /\ \A d \in Threads : d # c => handler'[d] = handler[d]
    BY <1>5, <1>6, <1>h, <1>s DEF Iterate, Fail, Goto
  <2> QED BY <2>1, <2>2, OthersBuild
<1>d. ASSUME NEW c \in Threads, NEW r \in Handler, NEW current \in BOOLEAN,
             handler' = Disturbed([handler EXCEPT ![c] = r], current)
      PROVE  /\ handler'[c].data = r.data /\ handler'[c].todo = r.todo
             /\ \A d \in Threads : d # c => /\ handler'[d].data = handler[d].data
                                            /\ handler'[d].todo = handler[d].todo
  <2>1. [handler EXCEPT ![c] = r] \in [Threads -> Handler] BY <1>h
  <2>2. \A d \in Threads : Alike([handler EXCEPT ![c] = r][d], handler'[d]) BY <1>d, <2>1, Disturbance
  <2> QED BY <1>h, <2>2 DEF Alike
<1>7. ASSUME NEW c \in Threads, Replace(c) PROVE BuildsOK'
  <2>1. PICK h \in Handler : h = handler[c] BY <1>h
  <2>2. PICK r : r = [h EXCEPT !.todo = h.data.fks] OBVIOUS
  <2>3. r \in Handler /\ r.data = h.data /\ r.todo = h.data.fks BY <2>2 DEF Handler, Schema
  <2>4. handler' = Disturbed([handler EXCEPT ![c] = r], FALSE) BY <1>7, <2>1, <2>2 DEF Replace
  <2>5. Building' = Building \cup {c} BY <1>7, <1>h DEF Replace, Goto, Building
  <2>6. /\ handler'[c].data = h.data /\ handler'[c].todo = h.data.fks
        /\ \A d \in Building : /\ handler'[d].data = handler[d].data
                               /\ d # c => handler'[d].todo = handler[d].todo
    BY <1>d, <2>1, <2>3, <2>4 DEF Building
  <2>7. /\ graph'.edges = {} /\ mixed'.last = h.data
        /\ mixed'.all = {handler[d].data : d \in Building \cup {c}}
    BY <1>7, <2>1 DEF Replace, EmptyGraph
  <2>8. c \notin Building BY <1>7 DEF Replace, Building
  <2>9. \A d \in Building' : handler'[d].data \in mixed'.all /\ handler'[d].todo \subseteq handler'[d].data.fks
    BY <2>1, <2>5, <2>6, <2>7, <2>8 DEF BuildsOK
  <2> QED BY <2>5, <2>6, <2>7, <2>9 DEF BuildsOK
<1>8. ASSUME NEW c \in Threads, AddNodes(c) PROVE BuildsOK'
  <2>1. handler = [handler EXCEPT ![c] = handler[c]] BY <1>h
  <2>a. handler' = Disturbed([handler EXCEPT ![c] = handler[c]], TRUE) /\ handler[c] \in Handler
    BY <1>8, <1>h, <2>1 DEF AddNodes
  <2>2. \A d \in Threads : handler'[d].data = handler[d].data /\ handler'[d].todo = handler[d].todo
    BY <1>d, <2>a
  <2>3. Building' = Building BY <1>8, <1>h DEF AddNodes, Goto, Building
  <2>4. graph'.edges = graph.edges /\ mixed' = mixed BY <1>8 DEF AddNodes, TypeOK
  <2>5. Building \subseteq Threads BY DEF Building
  <2> QED BY <2>2, <2>3, <2>4, <2>5 DEF BuildsOK
<1>9. ASSUME NEW c \in Threads, AddEdge(c) PROVE BuildsOK'
  <2>1. PICK h \in Handler : h = handler[c] BY <1>h
  <2>a. PICK fk \in h.todo :
           /\ graph' = [nodes |-> graph.nodes \cup {fk[1], fk[2]}, edges |-> graph.edges \cup {fk}]
           /\ handler' = Disturbed([handler EXCEPT ![c].todo = @ \ {fk}], TRUE)
    BY <1>9, <2>1 DEF AddEdge
  <2>2. /\ graph'.edges = graph.edges \cup {fk}
        /\ handler' = Disturbed([handler EXCEPT ![c].todo = @ \ {fk}], TRUE)
    BY <2>a
  <2>3. PICK r : r = [h EXCEPT !.todo = @ \ {fk}] OBVIOUS
  <2>4. r \in Handler /\ r.data = h.data /\ r.todo = h.todo \ {fk} BY <2>3 DEF Handler
  <2>5. handler' = Disturbed([handler EXCEPT ![c] = r], TRUE) BY <2>1, <2>2, <2>3
  <2>6. /\ handler'[c].data = h.data /\ handler'[c].todo = h.todo \ {fk}
        /\ \A d \in Building : /\ handler'[d].data = handler[d].data
                               /\ d # c => handler'[d].todo = handler[d].todo
    BY <1>d, <2>1, <2>4, <2>5 DEF Building
  <2>7. Building' = Building /\ c \in Building /\ mixed' = mixed BY <1>9 DEF AddEdge, Building
  <2>8. \A d \in Building' : handler'[d].data \in mixed'.all /\ handler'[d].todo \subseteq handler'[d].data.fks
    BY <2>1, <2>6, <2>7 DEF BuildsOK
  <2>9. fk \in h.data.fks /\ h.data \in mixed.all BY <2>1, <2>2, <2>7 DEF BuildsOK
  <2>10. graph'.edges \subseteq UNION {data.fks : data \in mixed'.all}
    BY <2>2, <2>7, <2>9 DEF BuildsOK
  <2>11. \/ mixed'.last.fks \subseteq graph'.edges
         \/ \E d \in Building' : mixed'.last.fks \subseteq graph'.edges \cup handler'[d].todo
    <3>1. CASE mixed.last.fks \subseteq graph.edges BY <2>2, <2>7, <3>1
    <3>2. ASSUME NEW d \in Building, mixed.last.fks \subseteq graph.edges \cup handler[d].todo
          PROVE  mixed'.last.fks \subseteq graph'.edges \cup handler'[d].todo
      BY <2>1, <2>2, <2>6, <2>7, <3>2
    <3> QED BY <2>7, <3>1, <3>2 DEF BuildsOK
  <2> QED BY <2>8, <2>10, <2>11 DEF BuildsOK
<1>10. ASSUME NEW c \in Threads, Built(c) PROVE BuildsOK'
  <2>a. PICK s \in {"rehash", "begin", "done", "store"} : Goto(c, s) BY <1>2, <1>10 DEF Built
  <2>1. stage' = [stage EXCEPT ![c] = s] BY <2>a DEF Goto
  <2>2. Building' = Building \ {c} BY <1>h, <2>1 DEF Building
  <2>3. handler' = handler /\ graph' = graph /\ mixed' = mixed /\ handler[c].todo = {}
    BY <1>10 DEF Built
  <2> QED BY <2>2, <2>3 DEF BuildsOK
<1>11. ASSUME Migrate PROVE BuildsOK'
  <2>1. ASSUME NEW d \in Threads
        PROVE  handler'[d].data = handler[d].data /\ handler'[d].todo = handler[d].todo
    <3>1. PICK h \in Handler : h = handler[d] BY <1>h
    <3>2. PICK torn : torn = (h.torn \/ MidRead(d)) OBVIOUS
    <3>3. handler'[d] = [h EXCEPT !.torn = torn] BY <1>11, <3>1, <3>2 DEF Migrate
    <3> QED BY <3>1, <3>3 DEF Handler
  <2>2. graph' = graph /\ mixed' = mixed /\ stage' = stage BY <1>11 DEF Migrate, planeVars
  <2> QED BY <2>1, <2>2, BuildsKept
<1>12. ASSUME Restart PROVE BuildsOK'
  <2>1. Building' = {} BY <1>12 DEF Restart, Fresh, Building
  <2>2. graph'.edges = {} /\ mixed'.last.fks = {} BY <1>12 DEF Restart, Fresh, EmptyGraph, NoSchema
  <2> QED BY <2>1, <2>2 DEF BuildsOK
<1>13. CASE UNCHANGED vars BY <1>13, BuildsKept DEF vars, planeVars
<1> QED BY <1>1, <1>3, <1>4, <1>6, <1>7, <1>8, <1>9, <1>10, <1>11, <1>12, <1>13 DEF Next, Step

-----------------------------------------------------------------------------
(* The cache is right *)

\* What a load or refresh goes by is the same in two handlers.
SameRead(r, q) ==
    q.op = r.op /\ q.hit = r.hit /\ q.hash = r.hash /\ q.data = r.data /\ q.torn = r.torn

\* The stages of a load or refresh.
Loading == {"hash", "tables", "fks", "replace", "nodes", "edges", "rehash", "store"}

LEMMA ReadKept ==
    ASSUME NEW r, NEW q, NEW s, NEW t, NEW now, SameRead(r, q), ReadOK(r, s, now),
           t = s \/ t \notin Loading
    PROVE  ReadOK(q, t, now)
BY DEF ReadOK, SameRead, Loading

\* A step of a thread that leaves the schema and the cache alone.
LEMMA OneReads ==
    ASSUME TypeOK, ReadsOK, NEW c \in Threads, NEW s, NEW r,
           schema' = schema, cache' = cache,
           stage' = [stage EXCEPT ![c] = s], handler' = [handler EXCEPT ![c] = r],
           ReadOK(r, s, schema)
    PROVE  ReadsOK'
<1>1. ASSUME NEW d \in Threads PROVE ReadOK(handler'[d], stage'[d], schema')
  <2>1. CASE d = c BY <2>1 DEF TypeOK
  <2>2. CASE d # c
    <3>1. handler'[d] = handler[d] /\ stage'[d] = stage[d] BY <2>2 DEF TypeOK
    <3> QED BY <3>1 DEF ReadsOK
  <2> QED BY <2>1, <2>2
<1>2. CacheTrue' BY DEF ReadsOK, CacheTrue
<1> QED BY <1>1, <1>2 DEF ReadsOK

\* A step that changes the graph, and the stage of one thread.
LEMMA GraphReads ==
    ASSUME TypeOK, ReadsOK, NEW c \in Threads, NEW s, NEW r \in Handler, NEW current \in BOOLEAN,
           schema' = schema, cache' = cache, stage' = [stage EXCEPT ![c] = s],
           handler' = Disturbed([handler EXCEPT ![c] = r], current), ReadOK(r, s, schema)
    PROVE  ReadsOK'
<1>1. [handler EXCEPT ![c] = r] \in [Threads -> Handler] BY DEF TypeOK
<1>2. ASSUME NEW d \in Threads PROVE ReadOK(handler'[d], stage'[d], schema')
  <2>1. Alike([handler EXCEPT ![c] = r][d], handler'[d]) BY <1>1, Disturbance
  <2>2. CASE d = c
    <3>1. SameRead(r, handler'[d]) BY <2>1, <2>2 DEF Alike, SameRead, TypeOK
    <3>2. stage'[d] = s BY <2>2 DEF TypeOK
    <3> QED BY <3>1, <3>2, ReadKept
  <2>3. CASE d # c
    <3>1. SameRead(handler[d], handler'[d]) BY <2>1, <2>3 DEF Alike, SameRead, TypeOK
    <3>2. stage'[d] = stage[d] /\ ReadOK(handler[d], stage[d], schema)
      BY <2>3 DEF TypeOK, ReadsOK
    <3> QED BY <3>1, <3>2, ReadKept
  <2> QED BY <2>2, <2>3
<1>3. CacheTrue' BY DEF ReadsOK, CacheTrue
<1> QED BY <1>2, <1>3 DEF ReadsOK

LEMMA InitReads == Init => ReadsOK
<1> SUFFICES ASSUME Init PROVE ReadsOK OBVIOUS
<1>1. CacheTrue BY DEF Init, CacheTrue, NoCache
<1>2. PICK t : t = CHOOSE u \in Tables : TRUE OBVIOUS
<1>3. Idle.op = "load" BY <1>2 DEF Idle
<1>4. ASSUME NEW c \in Threads PROVE ReadOK(handler[c], stage[c], schema)
  <2>1. handler[c] = Idle /\ stage[c] \in {"hash", "idle"} BY DEF Init
  <2> QED BY <1>3, <2>1 DEF ReadOK
<1> QED BY <1>1, <1>4 DEF ReadsOK

LEMMA StepReads ==
    ASSUME TypeOK, ReadsOK, [Next]_vars
    PROVE  ReadsOK'
<1>h. ASSUME NEW c \in Threads
      PROVE  handler[c] \in Handler /\ stage[c] \in Stage /\ ReadOK(handler[c], stage[c], schema)
  BY DEF TypeOK, ReadsOK
<1>t. schema \in Schema /\ schema \in Schemas BY SchemaGraphAssumption DEF TypeOK
<1>r. ASSUME NEW c \in Threads, NEW s, NEW r, SameRead(handler[c], r), Goto(c, s),
             handler' = [handler EXCEPT ![c] = r], s = stage[c] \/ s \notin Loading,
             schema' = schema, cache' = cache
      PROVE  ReadsOK'
  <2>1. ReadOK(handler[c], stage[c], schema) BY <1>h
  <2>2. ReadOK(r, s, schema) BY <1>r, <2>1, ReadKept
  <2> QED BY <1>r, <2>2, OneReads DEF Goto
<1>s. ASSUME NEW c \in Threads, NEW s, Goto(c, s), handler' = handler,
             ReadOK(handler[c], s, schema), schema' = schema, cache' = cache
      PROVE  ReadsOK'
  <2>1. handler' = [handler EXCEPT ![c] = handler[c]] BY <1>s DEF TypeOK
  <2> QED BY <1>s, <2>1, OneReads DEF Goto
<1>e. ASSUME NEW s, NEW r, s \notin Loading PROVE ReadOK(r, s, schema)
  BY <1>e DEF ReadOK, Loading
<1>1. ASSUME NEW c \in Threads, Call(c) PROVE ReadsOK'
  <2>1. PICK op \in {"load", "refresh", "plan"}, root \in Tables :
           /\ handler' = [handler EXCEPT ![c] = [Idle EXCEPT !.op = op, !.root = root]]
           /\ \E s \in {"tables", "hash", "done", "begin"} :
                 Goto(c, s) /\ (s = "hash" => op # "refresh") /\ (s = "tables" => op = "refresh")
    BY <1>1 DEF Call
  <2>2. PICK s \in {"tables", "hash", "done", "begin"} :
           Goto(c, s) /\ (s = "hash" => op # "refresh") /\ (s = "tables" => op = "refresh")
    BY <2>1
  <2>3. PICK i \in Handler : i = Idle BY InitialTypes
  <2>4. PICK r : r = [i EXCEPT !.op = op, !.root = root] OBVIOUS
  <2>5. r.op = op BY <2>3, <2>4 DEF Handler
  <2>6. ReadOK(r, s, schema) BY <2>2, <2>5 DEF ReadOK
  <2>7. schema' = schema /\ cache' = cache BY <1>1 DEF Call
  <2> QED BY <2>1, <2>2, <2>3, <2>4, <2>6, <2>7, OneReads DEF Goto
<1>2. ASSUME NEW c \in Threads, Return(c) PROVE ReadsOK'
  <2>1. ReadOK(Idle, "idle", schema) BY <1>e DEF Loading
  <2> QED BY <1>2, <2>1, OneReads DEF Return, Goto
<1>3. ASSUME NEW c \in Threads PROVE AfterLoad(c) \notin Loading BY DEF AfterLoad, Loading
<1>4. ASSUME NEW c \in Threads, ReadFails(c) PROVE ReadsOK'
  <2>1. ReadOK(handler[c], AfterLoad(c), schema) BY <1>3, <1>e
  <2> QED BY <1>4, <1>s, <2>1 DEF ReadFails
<1>5. ASSUME NEW c \in Threads, Hash(c) PROVE ReadsOK'
  <2>1. PICK hit \in BOOLEAN : \E data :
           /\ handler' = [handler EXCEPT ![c] =
                 [handler[c] EXCEPT !.hash = HashOf(schema), !.hit = hit, !.data = data]]
           /\ Goto(c, IF hit THEN "replace" ELSE "tables")
    BY <1>5 DEF Hash
  <2>a. PICK data :
           /\ handler' = [handler EXCEPT ![c] =
                 [handler[c] EXCEPT !.hash = HashOf(schema), !.hit = hit, !.data = data]]
           /\ Goto(c, IF hit THEN "replace" ELSE "tables")
    BY <2>1
  <2>2. PICK h \in Handler : h = handler[c] BY <1>h
  <2>3. PICK r : r = [h EXCEPT !.hash = HashOf(schema), !.hit = hit, !.data = data] OBVIOUS
  <2>4. r.hash = HashOf(schema) /\ r.hit = hit /\ r.op = h.op BY <2>3 DEF Handler
  <2>5. r.op # "refresh" BY <1>5, <1>h, <2>2, <2>4 DEF Hash, ReadOK
  <2>6. ReadOK(r, IF hit THEN "replace" ELSE "tables", schema) BY <2>4, <2>5 DEF ReadOK
  <2>7. schema' = schema /\ cache' = cache BY <1>5 DEF Hash
  <2> QED BY <2>a, <2>2, <2>3, <2>6, <2>7, OneReads DEF Goto
<1>6. ASSUME NEW c \in Threads, ReadTables(c) PROVE ReadsOK'
  <2>1. PICK h \in Handler : h = handler[c] BY <1>h
  <2>2. PICK data : data = [h.data EXCEPT !.tables = schema.tables] OBVIOUS
  <2>3. data.tables = schema.tables BY <2>2 DEF Handler, Schema
  <2>4. PICK r : r = [h EXCEPT !.data = data] OBVIOUS
  <2>5. r.data = data /\ r.op = h.op /\ r.hit = h.hit /\ r.hash = h.hash /\ r.torn = h.torn
    BY <2>4 DEF Handler
  <2>6. ReadOK(r, "fks", schema) BY <1>6, <1>h, <2>1, <2>3, <2>5 DEF ReadTables, ReadOK
  <2>7. handler' = [handler EXCEPT ![c] = r] BY <1>6, <2>1, <2>2, <2>4 DEF ReadTables
  <2>8. schema' = schema /\ cache' = cache BY <1>6 DEF ReadTables
  <2> QED BY <1>6, <2>6, <2>7, <2>8, OneReads DEF ReadTables, Goto
<1>7. ASSUME NEW c \in Threads, ReadFks(c) PROVE ReadsOK'
  <2>1. PICK h \in Handler : h = handler[c] BY <1>h
  <2>2. PICK data : data = [h.data EXCEPT !.fks = schema.fks] OBVIOUS
  <2>3. data.tables = h.data.tables /\ (h.data.tables = schema.tables => data = schema)
    BY <1>t, <2>2 DEF Handler, Schema
  <2>4. PICK r : r = [h EXCEPT !.data = data] OBVIOUS
  <2>5. r.data = data /\ r.op = h.op /\ r.hit = h.hit /\ r.hash = h.hash /\ r.torn = h.torn
    BY <2>4 DEF Handler
  <2>6. ReadOK(h, "fks", schema) BY <1>7, <1>h, <2>1 DEF ReadFks
  <2>7. ReadOK(r, "replace", schema) BY <1>t, <2>3, <2>5, <2>6 DEF ReadOK
  <2>8. handler' = [handler EXCEPT ![c] = r] BY <1>7, <2>1, <2>2, <2>4 DEF ReadFks
  <2>9. schema' = schema /\ cache' = cache BY <1>7 DEF ReadFks
  <2> QED BY <1>7, <2>7, <2>8, <2>9, OneReads DEF ReadFks, Goto
<1>8. ASSUME NEW c \in Threads, Replace(c) PROVE ReadsOK'
  <2>1. PICK h \in Handler : h = handler[c] BY <1>h
  <2>2. PICK r : r = [h EXCEPT !.todo = h.data.fks] OBVIOUS
  <2>3. r \in Handler /\ SameRead(h, r) BY <2>2 DEF Handler, SameRead, Schema
  <2>4. ReadOK(h, "replace", schema) BY <1>8, <1>h, <2>1 DEF Replace
  <2>5. ReadOK(r, "nodes", schema) BY <2>3, <2>4 DEF ReadOK, SameRead
  <2>6. schema' = schema /\ cache' = cache BY <1>8 DEF Replace
  <2>7. handler' = Disturbed([handler EXCEPT ![c] = r], FALSE) /\ stage' = [stage EXCEPT ![c] = "nodes"]
    BY <1>8, <2>1, <2>2 DEF Replace, Goto
  <2> QED BY <2>3, <2>5, <2>6, <2>7, GraphReads
<1>9. ASSUME NEW c \in Threads, AddNodes(c) PROVE ReadsOK'
  <2>1. handler = [handler EXCEPT ![c] = handler[c]] BY DEF TypeOK
  <2>2. ReadOK(handler[c], "nodes", schema) BY <1>9, <1>h DEF AddNodes
  <2>3. ReadOK(handler[c], "edges", schema) BY <2>2 DEF ReadOK
  <2>4. handler' = Disturbed([handler EXCEPT ![c] = handler[c]], TRUE)
    BY <1>9, <2>1 DEF AddNodes
  <2>5. schema' = schema /\ cache' = cache /\ stage' = [stage EXCEPT ![c] = "edges"]
    BY <1>9 DEF AddNodes, Goto
  <2>6. handler[c] \in Handler BY <1>h
  <2> QED BY <2>3, <2>4, <2>5, <2>6, GraphReads
<1>10. ASSUME NEW c \in Threads, AddEdge(c) PROVE ReadsOK'
  <2>1. PICK h \in Handler : h = handler[c] BY <1>h
  <2>2. PICK fk : handler' = Disturbed([handler EXCEPT ![c].todo = @ \ {fk}], TRUE)
    BY <1>10 DEF AddEdge
  <2>3. PICK r : r = [h EXCEPT !.todo = @ \ {fk}] OBVIOUS
  <2>4. r \in Handler /\ SameRead(h, r) BY <2>3 DEF Handler, SameRead
  <2>5. ReadOK(h, "edges", schema) BY <1>10, <1>h, <2>1 DEF AddEdge
  <2>6. ReadOK(r, "edges", schema) BY <2>4, <2>5, ReadKept
  <2>7. schema' = schema /\ cache' = cache /\ stage' = [stage EXCEPT ![c] = "edges"]
    BY <1>10 DEF AddEdge, TypeOK
  <2>8. handler' = Disturbed([handler EXCEPT ![c] = r], TRUE) BY <2>1, <2>2, <2>3
  <2> QED BY <2>4, <2>6, <2>7, <2>8, GraphReads
<1>11. ASSUME NEW c \in Threads, Built(c) PROVE ReadsOK'
  <2>1. PICK h \in Handler : h = handler[c] BY <1>h
  <2>2. ReadOK(h, "edges", schema) BY <1>11, <1>h, <2>1 DEF Built
  <2>3. schema' = schema /\ cache' = cache /\ handler' = handler BY <1>11 DEF Built
  <2>4. CASE h.op = "refresh"
    <3>1. Goto(c, "rehash") BY <1>11, <2>1, <2>4 DEF Built
    <3>2. ReadOK(h, "rehash", schema) BY <2>2, <2>4 DEF ReadOK
    <3> QED BY <1>s, <2>1, <2>3, <3>1, <3>2
  <2>5. CASE h.op # "refresh" /\ h.hit
    <3>1. Goto(c, AfterLoad(c)) BY <1>11, <2>1, <2>5 DEF Built
    <3>2. ReadOK(h, AfterLoad(c), schema) BY <1>3, <1>e
    <3> QED BY <1>s, <2>1, <2>3, <3>1, <3>2
  <2>6. CASE h.op # "refresh" /\ ~h.hit
    <3>1. Goto(c, "store") BY <1>11, <2>1, <2>6 DEF Built
    <3>2. ReadOK(h, "store", schema) BY <2>2, <2>6 DEF ReadOK
    <3> QED BY <1>s, <2>1, <2>3, <3>1, <3>2
  <2> QED BY <2>4, <2>5, <2>6
<1>12. ASSUME NEW c \in Threads, Rehash(c) PROVE ReadsOK'
  <2>1. PICK h \in Handler : h = handler[c] BY <1>h
  <2>2. PICK r : r = [h EXCEPT !.hash = HashOf(schema)] OBVIOUS
  <2>3. r.hash = HashOf(schema) /\ r.data = h.data /\ r.torn = h.torn BY <2>2 DEF Handler
  <2>4. ReadOK(h, "rehash", schema) BY <1>12, <1>h, <2>1 DEF Rehash
  <2>5. ReadOK(r, "store", schema) BY <1>t, <2>3, <2>4 DEF ReadOK
  <2>6. handler' = [handler EXCEPT ![c] = r] BY <1>12, <2>1, <2>2 DEF Rehash
  <2>7. schema' = schema /\ cache' = cache BY <1>12 DEF Rehash
  <2> QED BY <1>12, <2>5, <2>6, <2>7, OneReads DEF Rehash, Goto
<1>13. ASSUME NEW c \in Threads, Store(c) PROVE ReadsOK'
  <2>1. PICK h \in Handler : h = handler[c] BY <1>h
  <2>2. ReadOK(h, "store", schema) BY <1>13, <1>h, <2>1 DEF Store
  <2>3. cache'.hash = h.hash /\ cache'.data = h.data /\ cache'.torn = h.torn
    BY <1>13, <2>1 DEF Store
  <2>4. CacheTrue' BY <2>2, <2>3 DEF CacheTrue, ReadOK
  <2>5. ASSUME NEW d \in Threads PROVE ReadOK(handler'[d], stage'[d], schema')
    <3>1. handler' = handler /\ schema' = schema BY <1>13 DEF Store
    <3>2. CASE d = c
      <4>1. stage'[d] = AfterLoad(c) BY <1>13, <3>2 DEF Store, Goto, TypeOK
      <4> QED BY <1>3, <1>e, <3>1, <4>1
    <3>3. CASE d # c
      <4>1. stage'[d] = stage[d] BY <1>13, <3>3 DEF Store, Goto, TypeOK
      <4> QED BY <1>h, <3>1, <4>1
    <3> QED BY <3>2, <3>3
  <2> QED BY <2>4, <2>5 DEF ReadsOK
<1>14. ASSUME NEW c \in Threads, Begin(c) PROVE ReadsOK'
  <2>1. PICK r : handler' = [handler EXCEPT ![c] = r] BY <1>14 DEF Begin
  <2>2. ReadOK(r, "pop", schema) BY <1>e DEF Loading
  <2>3. schema' = schema /\ cache' = cache /\ stage' = [stage EXCEPT ![c] = "pop"]
    BY <1>14 DEF Begin, Goto
  <2> QED BY <2>1, <2>2, <2>3, OneReads
<1>15. ASSUME NEW c \in Threads, NEW s, NEW r, s \notin Loading, schema' = schema, cache' = cache,
              stage' = [stage EXCEPT ![c] = s], handler' = [handler EXCEPT ![c] = r]
       PROVE  ReadsOK'
  BY <1>15, <1>e, OneReads
<1>16. ASSUME NEW c \in Threads
       PROVE  /\ handler' = handler => \E r : handler' = [handler EXCEPT ![c] = r]
              /\ stage' = stage => stage' = [stage EXCEPT ![c] = stage[c]]
  <2>1. handler = [handler EXCEPT ![c] = handler[c]] BY DEF TypeOK
  <2> QED BY <2>1 DEF TypeOK
<1>17. ASSUME NEW c \in Threads, Pop(c) PROVE ReadsOK'
  <2>1. schema' = schema /\ cache' = cache BY <1>17 DEF Pop
  <2>2. /\ \E s : s \notin Loading /\ stage' = [stage EXCEPT ![c] = s]
        /\ \E r : handler' = [handler EXCEPT ![c] = r]
    BY <1>16, <1>17 DEF Pop, Fail, Goto, Loading
  <2> QED BY <1>15, <2>1, <2>2
<1>18. ASSUME NEW c \in Threads, Iterate(c) PROVE ReadsOK'
  <2>1. schema' = schema /\ cache' = cache BY <1>18 DEF Iterate
  <2>2. /\ \E s : s \notin Loading /\ stage' = [stage EXCEPT ![c] = s]
        /\ \E r : handler' = [handler EXCEPT ![c] = r]
    BY <1>16, <1>18 DEF Iterate, Visit, Fail, Goto, Loading
  <2> QED BY <1>15, <2>1, <2>2
<1>19. ASSUME Migrate PROVE ReadsOK'
  <2>1. ASSUME NEW d \in Threads PROVE ReadOK(handler'[d], stage'[d], schema')
    <3>1. PICK h \in Handler : h = handler[d] BY <1>h
    <3>2. PICK torn \in BOOLEAN : torn = (h.torn \/ MidRead(d)) OBVIOUS
    <3>3. PICK r : r = [h EXCEPT !.torn = torn] OBVIOUS
    <3>4. /\ r.torn = torn /\ r.op = h.op /\ r.hit = h.hit /\ r.hash = h.hash /\ r.data = h.data
      BY <3>3 DEF Handler
    <3>5. handler'[d] = r /\ stage'[d] = stage[d] BY <1>19, <3>1, <3>2, <3>3 DEF Migrate
    <3>6. ReadOK(h, stage[d], schema) BY <1>h, <3>1
    <3>7. CASE torn BY <3>4, <3>5, <3>6, <3>7 DEF ReadOK
    <3>8. CASE ~torn
      <4>1. ~h.torn /\ ~MidRead(d) BY <3>2, <3>8
      <4>2. /\ stage[d] # "fks" /\ ~(stage[d] = "tables" /\ h.op # "refresh")
            /\ ~(stage[d] \in {"replace", "nodes", "edges", "rehash"} /\ h.op = "refresh")
        BY <3>1, <4>1 DEF MidRead
      <4> QED BY <3>4, <3>5, <3>6, <4>1, <4>2 DEF ReadOK
    <3> QED BY <3>7, <3>8
  <2>2. CacheTrue' BY <1>19 DEF Migrate, ReadsOK, CacheTrue
  <2> QED BY <2>1, <2>2 DEF ReadsOK
<1>20. ASSUME Restart PROVE ReadsOK'
  <2>1. Idle.op = "load"
    <3>1. PICK t : t = CHOOSE u \in Tables : TRUE OBVIOUS
    <3> QED BY <3>1 DEF Idle
  <2>2. ASSUME NEW d \in Threads PROVE ReadOK(handler'[d], stage'[d], schema')
    <3>1. handler'[d] = Idle /\ stage'[d] \in {"hash", "idle"} BY <1>20 DEF Restart, Fresh
    <3> QED BY <2>1, <3>1 DEF ReadOK
  <2>3. CacheTrue' BY <1>20 DEF Restart, ReadsOK, CacheTrue
  <2> QED BY <2>2, <2>3 DEF ReadsOK
<1>21. CASE UNCHANGED vars BY <1>21 DEF vars, ReadsOK, CacheTrue
<1> QED BY <1>1, <1>2, <1>4, <1>5, <1>6, <1>7, <1>8, <1>9, <1>10, <1>11, <1>12, <1>13, <1>14,
           <1>17, <1>18, <1>19, <1>20, <1>21 DEF Next, Step

-----------------------------------------------------------------------------
(* A plan made while the graph does not change is complete *)

\* A table is in the plan, at that depth or above.
Reached(plan, t, d) == \E k \in DOMAIN plan : plan[k].table = t /\ plan[k].depth <= d

\* The plan starts at the root, and each of its tables refers to the one before it that
\* it was reached from.
Linked(plan, root, edges) ==
    /\ Len(plan) > 0 /\ plan[1].table = root /\ plan[1].depth = 0
    /\ \A j \in DOMAIN plan : j > 1 => <<plan[j].parent, plan[j].table>> \in edges

\* All that the first tables of the plan lead to is in it, a level below them at most.
Explored(plan, n, edges) ==
    \A i \in 1 .. n : \A u \in Tables :
        <<plan[i].table, u>> \in edges => Reached(plan, u, plan[i].depth + 1)

\* The table of the walk leads to what is left of its successors and to what is reached.
Halfway(plan, table, depth, left, edges) ==
    \A u \in Tables : <<table, u>> \in edges => u \in left \/ Reached(plan, u, depth + 1)

SearchOK(h, s, edges) ==
    h.calm =>
      /\ s \in {"pop", "iterate"} => Linked(h.plan, h.root, edges)
      /\ s = "pop" => Explored(h.plan, Taken(h.plan, h.queue), edges)
      /\ s = "iterate" =>
            /\ Explored(h.plan, Taken(h.plan, h.queue) - 1, edges)
            /\ Halfway(h.plan, h.walk.table, h.walk.depth, h.walk.left, edges)
      /\ s = "done" /\ h.op = "plan" /\ h.outcome = "ok" =>
            Linked(h.plan, h.root, edges) /\ Explored(h.plan, Len(h.plan), edges)

SearchesOK == \A c \in Threads : SearchOK(handler[c], stage[c], graph.edges)

SInv == IInv /\ SearchesOK

\* What has been reached stays so when the plan grows.
LEMMA StillReached ==
    ASSUME NEW plan \in Seq(PlanStep), NEW step \in PlanStep, NEW t, NEW d, Reached(plan, t, d)
    PROVE  Reached(Append(plan, step), t, d)
<1>1. PICK k \in DOMAIN plan : plan[k].table = t /\ plan[k].depth <= d BY DEF Reached
<1>2. k \in DOMAIN Append(plan, step) /\ Append(plan, step)[k] = plan[k] BY Appended
<1> QED BY <1>1, <1>2 DEF Reached

LEMMA BeginSearches ==
    ASSUME NEW step \in PlanStep, NEW place \in Place, NEW edges, step.depth = 0
    PROVE  /\ Linked(<<step>>, step.table, edges)
           /\ Explored(<<step>>, Taken(<<step>>, <<place>>), edges)
<1>1. Len(<<step>>) = 1 /\ <<step>>[1] = step /\ DOMAIN <<step>> = {1} OBVIOUS
<1>2. Taken(<<step>>, <<place>>) = 0 BY DEF Taken
<1> QED BY <1>1, <1>2 DEF Linked, Explored

\* The queue is empty: all tables of the plan have been walked.
LEMMA AllTaken ==
    ASSUME NEW plan \in Seq(PlanStep), NEW queue, queue = <<>>
    PROVE  Taken(plan, queue) = Len(plan)
BY DEF Taken

\* A walk begins with all successors of its table left.
LEMMA PopSearches ==
    ASSUME NEW plan \in Seq(PlanStep), NEW queue \in Seq(Place), queue # <<>>, NEW edges,
           NEW left, left = {u \in Tables : <<Head(queue).table, u>> \in edges},
           Explored(plan, Taken(plan, queue), edges)
    PROVE  /\ Explored(plan, Taken(plan, Tail(queue)) - 1, edges)
           /\ Halfway(plan, Head(queue).table, Head(queue).depth, left, edges)
<1>1. Taken(plan, Tail(queue)) - 1 = Taken(plan, queue) BY Ends DEF Taken
<1> QED BY <1>1 DEF Halfway

\* A successor that has been visited is no more than a level below the table of the walk.
LEMMA VisitedReached ==
    ASSUME NEW plan \in Seq(PlanStep), NEW queue \in Seq(Place), NEW visited,
           NEW table, NEW depth, Queued(plan, queue, visited),
           Walking(plan, queue, table, depth), NEW child \in visited
    PROVE  Reached(plan, child, depth + 1)
<1>1. PICK k \in DOMAIN plan : plan[k].table = child BY DEF Queued
<1>2. plan[k].depth <= depth + 1 BY DEF Queued, Walking
<1> QED BY <1>1, <1>2 DEF Reached

LEMMA SkipSearches ==
    ASSUME NEW plan \in Seq(PlanStep), NEW queue \in Seq(Place), NEW visited,
           NEW table, NEW depth, NEW left, NEW edges, Queued(plan, queue, visited),
           Walking(plan, queue, table, depth), NEW child \in visited,
           Halfway(plan, table, depth, left, edges)
    PROVE  Halfway(plan, table, depth, left \ {child}, edges)
<1>1. Reached(plan, child, depth + 1) BY VisitedReached
<1> QED BY <1>1 DEF Halfway

\* A successor that is new has a key from the table of the walk, and is reached by it.
LEMMA VisitSearches ==
    ASSUME NEW plan \in Seq(PlanStep), NEW queue \in Seq(Place), NEW root,
           NEW table \in Tables, NEW depth \in Nat, NEW left, NEW edges,
           Linked(plan, root, edges), Halfway(plan, table, depth, left, edges),
           Explored(plan, Taken(plan, queue) - 1, edges),
           NEW step \in PlanStep, NEW place \in Place,
           step.depth = depth + 1, step.parent = table,
           <<table, step.table>> \in edges
    PROVE  /\ Linked(Append(plan, step), root, edges)
           /\ Explored(Append(plan, step), Taken(Append(plan, step), Append(queue, place)) - 1, edges)
           /\ Halfway(Append(plan, step), table, depth, left \ {step.table}, edges)
<1> DEFINE more == Append(plan, step)
           n == Len(plan)
<1>1. /\ Len(more) = n + 1 /\ n \in Nat /\ DOMAIN plan = 1 .. n /\ DOMAIN more = 1 .. n + 1
      /\ \A i \in 1 .. n : more[i] = plan[i]
      /\ more[n + 1] = step
  BY Appended
<1>2. Taken(more, Append(queue, place)) = Taken(plan, queue) BY <1>1, Appended DEF Taken
<1>l. Len(queue) \in Nat BY Appended
<1>t. ASSUME NEW a \in Nat, NEW b \in Nat PROVE (a - b) - 1 \in Int /\ (a - b) - 1 <= a
  OBVIOUS
<1>3. PICK m \in Int : m = Taken(plan, queue) - 1 /\ m <= n BY ONLY <1>1, <1>l, <1>t DEF Taken
<1>r. ASSUME NEW t, NEW d, Reached(plan, t, d) PROVE Reached(more, t, d)
  BY <1>r, StillReached
<1> HIDE DEF more
<1>4. Linked(more, root, edges)
  <2>1. n > 0 /\ plan[1].table = root /\ plan[1].depth = 0 BY DEF Linked
  <2>2. more[1] = plan[1] BY <1>1, <2>1
  <2>3. ASSUME NEW j \in 1 .. n + 1, j > 1 PROVE <<more[j].parent, more[j].table>> \in edges
    <3>1. CASE j = n + 1 BY <1>1, <3>1
    <3>2. CASE j # n + 1
      <4>1. j \in 1 .. n /\ more[j] = plan[j] BY <1>1, <3>2
      <4> QED BY <1>1, <2>3, <4>1 DEF Linked
    <3> QED BY <3>1, <3>2
  <2> QED BY <1>1, <2>1, <2>2, <2>3 DEF Linked
<1>5. Explored(more, m, edges)
  <2> SUFFICES ASSUME NEW i \in 1 .. m, NEW u \in Tables, <<more[i].table, u>> \in edges
               PROVE  Reached(more, u, more[i].depth + 1)
    BY DEF Explored
  <2>1. i \in 1 .. n /\ more[i] = plan[i] BY <1>1, <1>3
  <2>2. Reached(plan, u, plan[i].depth + 1) BY <1>3, <2>1 DEF Explored
  <2> QED BY <1>r, <2>1, <2>2
<1>6. Reached(more, step.table, depth + 1)
  <2>1. step.depth <= depth + 1 BY DEF PlanStep
  <2> QED BY <1>1, <2>1 DEF Reached
<1>7. Halfway(more, table, depth, left \ {step.table}, edges)
  BY <1>6, <1>r DEF Halfway
<1> QED BY <1>2, <1>3, <1>4, <1>5, <1>7 DEF more

\* The walk of a table is over: that table too has been explored.
LEMMA WalkedSearches ==
    ASSUME NEW plan \in Seq(PlanStep), NEW queue \in Seq(Place), NEW table, NEW depth, NEW edges,
           Walking(plan, queue, table, depth), Halfway(plan, table, depth, {}, edges),
           Explored(plan, Taken(plan, queue) - 1, edges)
    PROVE  Explored(plan, Taken(plan, queue), edges)
<1>0. Len(plan) \in Nat /\ Len(queue) \in Nat OBVIOUS
<1>1. PICK m \in Int : m = Taken(plan, queue) BY <1>0 DEF Taken
<1>2. table = plan[m].table /\ depth = plan[m].depth BY <1>1 DEF Walking
<1> SUFFICES ASSUME NEW i \in 1 .. m, NEW u \in Tables, <<plan[i].table, u>> \in edges
             PROVE  Reached(plan, u, plan[i].depth + 1)
  BY <1>1 DEF Explored
<1>3. CASE i = m BY <1>2, <1>3 DEF Halfway
<1>4. CASE i # m
  <2>1. i \in 1 .. m - 1 BY <1>4
  <2> QED BY <1>1, <2>1 DEF Explored
<1> QED BY <1>3, <1>4

\* What the search depends on is the same in two handlers.
SameSearch(r, q) ==
    /\ SamePlan(r, q) /\ q.walk.left = r.walk.left
    /\ q.root = r.root /\ q.op = r.op /\ q.outcome = r.outcome /\ q.calm = r.calm

LEMMA SearchKept ==
    ASSUME NEW r, NEW q, NEW s, NEW edges, SearchOK(r, s, edges), SameSearch(r, q)
    PROVE  SearchOK(q, s, edges)
BY DEF SearchOK, SameSearch, SamePlan

\* There is no search elsewhere.
LEMMA NoSearch ==
    ASSUME NEW r, NEW s, NEW edges,
           \/ s \notin {"pop", "iterate", "done"}
           \/ s = "done" /\ (r.op # "plan" \/ r.outcome # "ok")
    PROVE  SearchOK(r, s, edges)
BY DEF SearchOK

\* A step that moves one thread and leaves the graph.
LEMMA OneSearches ==
    ASSUME TypeOK, SearchesOK, NEW c \in Threads, NEW s, NEW r,
           stage' = [stage EXCEPT ![c] = s], handler' = [handler EXCEPT ![c] = r],
           UNCHANGED graph, SearchOK(r, s, graph.edges)
    PROVE  SearchesOK'
<1>1. ASSUME NEW d \in Threads PROVE SearchOK(handler'[d], stage'[d], graph'.edges)
  <2>1. CASE d = c BY <2>1 DEF TypeOK
  <2>2. CASE d # c
    <3>1. handler'[d] = handler[d] /\ stage'[d] = stage[d] BY <2>2 DEF TypeOK
    <3> QED BY <3>1 DEF SearchesOK
  <2> QED BY <2>1, <2>2
<1> QED BY <1>1 DEF SearchesOK

\* A step that changes the graph: no plan under way is made in calm, and none was made.
LEMMA GraphSearches ==
    ASSUME TypeOK, SearchesOK, NEW c \in Threads, NEW s, NEW r \in Handler, NEW current,
           s \notin {"pop", "iterate", "done"},
           stage' = [stage EXCEPT ![c] = s],
           handler' = Disturbed([handler EXCEPT ![c] = r], current)
    PROVE  SearchesOK'
<1> DEFINE hs == [handler EXCEPT ![c] = r]
<1>1. hs \in [Threads -> Handler] BY DEF TypeOK
<1>2. ASSUME NEW d \in Threads PROVE SearchOK(handler'[d], stage'[d], graph'.edges)
  <2>1. CASE d = c
    <3>1. stage'[d] = s BY <2>1 DEF TypeOK
    <3> QED BY <3>1, NoSearch
  <2>2. CASE d # c
    <3>1. hs[d] = handler[d] /\ stage'[d] = stage[d] BY <2>2 DEF TypeOK
    <3>d. handler' = Disturbed(hs, current) OBVIOUS
    <3> HIDE DEF hs
    <3>2. CASE hs[d].plan = <<>>
      <4>1. handler'[d] = handler[d] BY <3>1, <3>2, <3>d DEF Disturbed
      <4>2. SearchOK(handler[d], stage[d], graph.edges) BY DEF SearchesOK
      <4>3. ~Linked(handler[d].plan, handler[d].root, graph.edges)
        BY <3>1, <3>2 DEF Linked
      <4> QED BY <3>1, <4>1, <4>2, <4>3 DEF SearchOK
    <3>3. CASE hs[d].plan # <<>>
      <4>1. handler'[d] = [hs[d] EXCEPT !.calm = FALSE, !.walk.current = @ /\ current]
        BY <3>3, <3>d DEF Disturbed
      <4>2. PICK q \in Handler : q = hs[d] BY <1>1
      <4>3. PICK w : w = [q.walk EXCEPT !.current = @ /\ current] OBVIOUS
      <4>4. handler'[d] = [q EXCEPT !.calm = FALSE, !.walk = w] BY <4>1, <4>2, <4>3
      <4>5. handler'[d].calm = FALSE BY <4>4 DEF Handler
      <4> QED BY <4>5 DEF SearchOK
    <3> QED BY <3>2, <3>3
  <2> QED BY <2>1, <2>2
<1> QED BY <1>2 DEF SearchesOK

LEMMA InitSearches == Init => SearchesOK
BY NoSearch DEF Init, SearchesOK, Threads

LEMMA StepSearches ==
    ASSUME TypeOK, PlansOK, SearchesOK, [Next]_vars
    PROVE  SearchesOK'
<1>h. ASSUME NEW c \in Threads
      PROVE  /\ handler[c] \in Handler /\ PlanOK(handler[c], stage[c])
             /\ SearchOK(handler[c], stage[c], graph.edges)
  BY DEF TypeOK, PlansOK, SearchesOK
<1>n. ASSUME NEW c \in Threads, NEW s, NEW r, handler' = [handler EXCEPT ![c] = r], Goto(c, s),
             UNCHANGED graph,
             \/ s \notin {"pop", "iterate", "done"}
             \/ s = "done" /\ (r.op # "plan" \/ r.outcome # "ok")
      PROVE  SearchesOK'
  <2>1. SearchOK(r, s, graph.edges) BY <1>n, NoSearch
  <2> QED BY <1>n, <2>1, OneSearches DEF Goto
<1>s. ASSUME NEW c \in Threads, NEW s, handler' = handler, Goto(c, s), UNCHANGED graph,
             \/ s \notin {"pop", "iterate", "done"}
             \/ s = AfterLoad(c)
      PROVE  SearchesOK'
  <2>1. handler' = [handler EXCEPT ![c] = handler[c]] BY <1>s DEF TypeOK
  <2>2. s \notin {"pop", "iterate", "done"} \/ (s = "done" /\ handler[c].op # "plan")
    BY <1>s DEF AfterLoad
  <2> QED BY <1>n, <1>s, <2>1, <2>2
<1>1. ASSUME NEW c \in Threads, Call(c) PROVE SearchesOK'
  <2>1. PICK op \in {"load", "refresh", "plan"}, root \in Tables :
           /\ handler' = [handler EXCEPT ![c] = [Idle EXCEPT !.op = op, !.root = root]]
           /\ Goto(c, IF op = "refresh" THEN "tables" ELSE IF ~loaded THEN "hash"
                      ELSE IF op = "load" THEN "done" ELSE "begin")
    BY <1>1 DEF Call
  <2>2. PICK s : /\ s = IF op = "refresh" THEN "tables" ELSE IF ~loaded THEN "hash"
                        ELSE IF op = "load" THEN "done" ELSE "begin"
                 /\ Goto(c, s)
    BY <2>1
  <2>3. PICK i \in Handler : i = Idle BY InitialTypes
  <2>4. PICK r : r = [i EXCEPT !.op = op, !.root = root] OBVIOUS
  <2>5. r.op = op BY <2>3, <2>4 DEF Handler
  <2>6. s \notin {"pop", "iterate", "done"} \/ (s = "done" /\ r.op # "plan")
    BY <2>2, <2>5
  <2>7. handler' = [handler EXCEPT ![c] = r] /\ UNCHANGED graph
    BY <1>1, <2>1, <2>3, <2>4 DEF Call, planeVars
  <2> QED BY <1>n, <2>2, <2>6, <2>7
<1>2. ASSUME NEW c \in Threads, Return(c) PROVE SearchesOK'
  BY <1>2, <1>n DEF Return, planeVars
<1>3. ASSUME NEW c \in Threads, ReadFails(c) \/ Store(c) PROVE SearchesOK'
  BY <1>3, <1>s DEF ReadFails, Store, planeVars
<1>4. ASSUME NEW c \in Threads, Built(c) PROVE SearchesOK'
  <2>1. PICK s : /\ s = IF handler[c].op = "refresh" THEN "rehash"
                        ELSE IF handler[c].hit THEN AfterLoad(c) ELSE "store"
                 /\ Goto(c, s)
    BY <1>4 DEF Built
  <2>2. handler' = handler /\ UNCHANGED graph BY <1>4 DEF Built
  <2> QED BY <1>s, <2>1, <2>2
<1>5. ASSUME NEW c \in Threads, Hash(c) \/ ReadTables(c) \/ ReadFks(c) \/ Rehash(c)
      PROVE  SearchesOK'
  <2>1. UNCHANGED graph BY <1>5 DEF Hash, ReadTables, ReadFks, Rehash, planeVars
  <2>2. PICK s \in {"replace", "tables", "fks", "store"} : Goto(c, s)
    BY <1>5 DEF Hash, ReadTables, ReadFks, Rehash
  <2>3. PICK r : handler' = [handler EXCEPT ![c] = r]
    BY <1>5 DEF Hash, ReadTables, ReadFks, Rehash
  <2> QED BY <1>n, <2>1, <2>2, <2>3
<1>6. ASSUME NEW c \in Threads, Replace(c) PROVE SearchesOK'
  <2>1. PICK h \in Handler : h = handler[c] BY <1>h
  <2>2. PICK r : r = [h EXCEPT !.todo = h.data.fks] OBVIOUS
  <2>3. r \in Handler BY <2>2 DEF Handler, Schema
  <2> QED BY <1>6, <2>1, <2>2, <2>3, GraphSearches DEF Replace, Goto
<1>7. ASSUME NEW c \in Threads, AddNodes(c) PROVE SearchesOK'
  <2>1. handler = [handler EXCEPT ![c] = handler[c]] BY DEF TypeOK
  <2> QED BY <1>7, <1>h, <2>1, GraphSearches DEF AddNodes, Goto
<1>8. ASSUME NEW c \in Threads, AddEdge(c) PROVE SearchesOK'
  <2>1. PICK h \in Handler : h = handler[c] BY <1>h
  <2>2. PICK fk \in h.todo : handler' = Disturbed([handler EXCEPT ![c].todo = @ \ {fk}], TRUE)
    BY <1>8, <2>1 DEF AddEdge
  <2>3. PICK r : r = [h EXCEPT !.todo = @ \ {fk}] OBVIOUS
  <2>4. r \in Handler BY <2>3 DEF Handler
  <2>5. stage' = [stage EXCEPT ![c] = "edges"] BY <1>8 DEF AddEdge, TypeOK
  <2> QED BY <2>1, <2>2, <2>3, <2>4, <2>5, GraphSearches
<1>9. ASSUME NEW c \in Threads, Begin(c) PROVE SearchesOK'
  <2>1. PICK h \in Handler : h = handler[c] BY <1>h
  <2>2. PICK root \in Tables : root = h.root BY DEF Handler
  <2>3. PICK step \in PlanStep : step = [table |-> root, depth |-> 0, parent |-> root]
    BY DEF PlanStep
  <2>4. PICK place \in Place : place = [table |-> root, depth |-> 0] BY DEF Place
  <2>5. PICK calm : calm = (Building = {}) OBVIOUS
  <2>6. PICK r : r = [h EXCEPT !.plan = <<step>>, !.queue = <<place>>, !.visited = {root},
                               !.calm = calm] OBVIOUS
  <2>7. r.plan = <<step>> /\ r.queue = <<place>> /\ r.root = step.table
    BY <2>2, <2>3, <2>6 DEF Handler
  <2>8. SearchOK(r, "pop", graph.edges) BY <2>3, <2>7, BeginSearches DEF SearchOK
  <2>9. handler' = [handler EXCEPT ![c] = r]
    BY <1>9, <2>1, <2>2, <2>3, <2>4, <2>5, <2>6 DEF Begin
  <2> QED BY <1>9, <2>8, <2>9, OneSearches DEF Begin, Goto, planeVars
<1>10. ASSUME NEW c \in Threads, Fail(c), UNCHANGED graph PROVE SearchesOK'
  <2>1. PICK h \in Handler : h = handler[c] BY <1>h
  <2>2. [h EXCEPT !.outcome = "failed"].outcome = "failed" BY DEF Handler
  <2> QED BY <1>10, <1>n, <2>1, <2>2 DEF Fail
<1>11. ASSUME NEW c \in Threads, Pop(c) PROVE SearchesOK'
  <2>1. PICK h \in Handler : h = handler[c] BY <1>h
  <2>2. PICK q \in Seq(Place) : q = h.queue BY DEF Handler, Place
  <2>a. UNCHANGED graph /\ h.plan \in Seq(PlanStep) BY <1>11 DEF Pop, planeVars, Handler
  <2>b. /\ h.calm => Linked(h.plan, h.root, graph.edges)
        /\ h.calm => Explored(h.plan, Taken(h.plan, q), graph.edges)
    BY <1>11, <1>h, <2>1, <2>2 DEF Pop, SearchOK
  <2>3. CASE q # <<>> /\ Head(q).table \in graph.nodes
    <3>1. PICK w : w = [table |-> Head(q).table, depth |-> Head(q).depth,
                        succ |-> Successors(Head(q).table),
                        left |-> Successors(Head(q).table), current |-> TRUE] OBVIOUS
    <3>2. PICK r : r = [h EXCEPT !.queue = Tail(q), !.walk = w] OBVIOUS
    <3>3. handler' = [handler EXCEPT ![c] = r] /\ Goto(c, "iterate")
      BY <1>11, <2>1, <2>2, <2>3, <3>1, <3>2 DEF Pop
    <3>4. /\ r.plan = h.plan /\ r.queue = Tail(q) /\ r.root = h.root /\ r.calm = h.calm
          /\ r.walk.table = Head(q).table /\ r.walk.depth = Head(q).depth
          /\ r.walk.left = {u \in Tables : <<Head(q).table, u>> \in graph.edges}
      BY <3>1, <3>2 DEF Handler, Successors
    <3>5. r.calm => /\ Explored(r.plan, Taken(r.plan, r.queue) - 1, graph.edges)
                    /\ Halfway(r.plan, r.walk.table, r.walk.depth, r.walk.left, graph.edges)
      BY <2>2, <2>3, <2>a, <2>b, <3>4, PopSearches
    <3>6. SearchOK(r, "iterate", graph.edges) BY <2>b, <3>4, <3>5 DEF SearchOK
    <3> QED BY <2>a, <3>3, <3>6, OneSearches DEF Goto
  <2>4. CASE q = <<>>
    <3>1. handler' = handler /\ Goto(c, "done") BY <1>11, <2>1, <2>2, <2>4 DEF Pop
    <3>2. Taken(h.plan, q) = Len(h.plan) BY <2>4, <2>a, AllTaken
    <3>3. SearchOK(h, "done", graph.edges) BY <2>b, <3>2 DEF SearchOK
    <3>4. handler' = [handler EXCEPT ![c] = h] BY <2>1, <3>1 DEF TypeOK
    <3> QED BY <2>a, <3>1, <3>3, <3>4, OneSearches DEF Goto
  <2>5. CASE q # <<>> /\ Head(q).table \notin graph.nodes
    BY <1>10, <1>11, <2>1, <2>2, <2>5, <2>a DEF Pop
  <2> QED BY <2>3, <2>4, <2>5
<1>12. ASSUME NEW c \in Threads, NEW child \in handler[c].walk.left, stage[c] = "iterate",
              Visit(c, child), UNCHANGED graph
       PROVE  SearchesOK'
  <2>1. PICK h \in Handler : h = handler[c] BY <1>h
  <2>2. PICK w \in Walk : w = h.walk BY DEF Handler
  <2>3. PICK v : v = [w EXCEPT !.left = @ \ {child}] OBVIOUS
  <2>4. v.table = w.table /\ v.depth = w.depth /\ v.left = w.left \ {child}
    BY <2>3 DEF Walk
  <2>a. h.plan \in Seq(PlanStep) /\ h.queue \in Seq(Place) BY DEF Handler, Place
  <2>b. Queued(h.plan, h.queue, h.visited) /\ Walking(h.plan, h.queue, w.table, w.depth)
    BY <1>12, <1>h, <2>1, <2>2 DEF PlanOK
  <2>c. h.calm => /\ Linked(h.plan, h.root, graph.edges)
                  /\ Explored(h.plan, Taken(h.plan, h.queue) - 1, graph.edges)
                  /\ Halfway(h.plan, w.table, w.depth, w.left, graph.edges)
    BY <1>12, <1>h, <2>1, <2>2 DEF SearchOK
  <2>5. CASE child \in h.visited
    <3>1. PICK r : r = [h EXCEPT !.walk = v] OBVIOUS
    <3>2. handler' = [handler EXCEPT ![c] = r] /\ Goto(c, "iterate")
      BY <1>12, <2>1, <2>2, <2>3, <2>5, <3>1 DEF Visit, Goto, TypeOK
    <3>3. /\ r.plan = h.plan /\ r.queue = h.queue /\ r.root = h.root /\ r.calm = h.calm
          /\ r.walk.table = w.table /\ r.walk.depth = w.depth
          /\ r.walk.left = w.left \ {child}
      BY <2>4, <3>1 DEF Handler
    <3>4. h.calm => Halfway(h.plan, w.table, w.depth, w.left \ {child}, graph.edges)
      BY <2>5, <2>a, <2>b, <2>c, SkipSearches
    <3>5. SearchOK(r, "iterate", graph.edges) BY <2>c, <3>3, <3>4 DEF SearchOK
    <3> QED BY <1>12, <3>2, <3>5, OneSearches DEF Goto
  <2>6. CASE child \notin h.visited /\ <<w.table, child>> \notin graph.edges
    BY <1>10, <1>12, <2>1, <2>2, <2>6 DEF Visit
  <2>7. CASE child \notin h.visited /\ <<w.table, child>> \in graph.edges
    <3>1. child \in Tables BY <1>12, <2>1, <2>2 DEF Walk
    <3>a. w.table \in Tables /\ w.depth \in Nat /\ w.depth + 1 \in Nat BY DEF Walk
    <3>2. PICK step \in PlanStep :
             step = [table |-> child, depth |-> w.depth + 1, parent |-> w.table]
      BY <3>1, <3>a DEF PlanStep
    <3>3. PICK place \in Place : place = [table |-> child, depth |-> w.depth + 1]
      BY <3>1, <3>a DEF Place
    <3>4. PICK r : r = [h EXCEPT !.walk = v, !.visited = @ \cup {child},
                                 !.plan = Append(@, step), !.queue = Append(@, place)] OBVIOUS
    <3>b. Goto(c, "iterate") BY <1>12, <2>1, <2>2, <2>7 DEF Visit, Goto, TypeOK
    <3>c. handler' = [handler EXCEPT ![c] = [handler[c] EXCEPT
             !.walk.left = @ \ {child}, !.visited = @ \cup {child},
             !.plan = Append(@, step), !.queue = Append(@, place)]]
      BY <1>12, <2>1, <2>2, <2>7, <3>2, <3>3 DEF Visit
    <3>5. handler' = [handler EXCEPT ![c] = r]
      BY <2>1, <2>2, <2>3, <3>4, <3>c
    <3>6. /\ r.plan = Append(h.plan, step) /\ r.queue = Append(h.queue, place)
          /\ r.root = h.root /\ r.calm = h.calm
          /\ r.walk.table = w.table /\ r.walk.depth = w.depth
          /\ r.walk.left = w.left \ {step.table}
      BY <2>4, <3>2, <3>4 DEF Handler
    <3>7. /\ step.depth = w.depth + 1 /\ step.parent = w.table
          /\ <<w.table, step.table>> \in graph.edges
      BY <2>7, <3>2
    <3>8. h.calm =>
            /\ Linked(Append(h.plan, step), h.root, graph.edges)
            /\ Explored(Append(h.plan, step),
                        Taken(Append(h.plan, step), Append(h.queue, place)) - 1, graph.edges)
            /\ Halfway(Append(h.plan, step), w.table, w.depth, w.left \ {step.table}, graph.edges)
      BY <2>a, <2>c, <3>a, <3>7, VisitSearches
    <3>9. SearchOK(r, "iterate", graph.edges) BY <3>6, <3>8 DEF SearchOK
    <3> QED BY <1>12, <3>5, <3>9, <3>b, OneSearches DEF Goto
  <2> QED BY <2>5, <2>6, <2>7
<1>13. ASSUME NEW c \in Threads, stage[c] = "iterate", handler[c].walk.left = {},
              handler' = handler, Goto(c, "pop"), UNCHANGED graph
       PROVE  SearchesOK'
  <2>1. PICK h \in Handler : h = handler[c] BY <1>h
  <2>2. h.plan \in Seq(PlanStep) /\ h.queue \in Seq(Place) BY DEF Handler, Place
  <2>3. Walking(h.plan, h.queue, h.walk.table, h.walk.depth)
    BY <1>13, <1>h, <2>1 DEF PlanOK
  <2>4. h.calm => /\ Linked(h.plan, h.root, graph.edges)
                  /\ Explored(h.plan, Taken(h.plan, h.queue) - 1, graph.edges)
                  /\ Halfway(h.plan, h.walk.table, h.walk.depth, {}, graph.edges)
    BY <1>13, <1>h, <2>1 DEF SearchOK
  <2>5. h.calm => Explored(h.plan, Taken(h.plan, h.queue), graph.edges)
    BY <2>2, <2>3, <2>4, WalkedSearches
  <2>6. SearchOK(h, "pop", graph.edges) BY <2>4, <2>5 DEF SearchOK
  <2>7. handler' = [handler EXCEPT ![c] = h] BY <1>13, <2>1 DEF TypeOK
  <2> QED BY <1>13, <2>6, <2>7, OneSearches DEF Goto
<1>14. ASSUME NEW c \in Threads, Iterate(c) PROVE SearchesOK'
  <2>1. UNCHANGED graph /\ stage[c] = "iterate" BY <1>14 DEF Iterate, planeVars
  <2> QED BY <1>10, <1>12, <1>13, <1>14, <2>1 DEF Iterate
<1>15. ASSUME Migrate PROVE SearchesOK'
  <2>1. ASSUME NEW d \in Threads PROVE SearchOK(handler'[d], stage'[d], graph'.edges)
    <3>1. PICK h \in Handler : h = handler[d] BY <1>h
    <3>2. PICK torn : torn = (h.torn \/ MidRead(d)) OBVIOUS
    <3>3. SameSearch(h, [h EXCEPT !.torn = torn]) BY DEF Handler, SameSearch, SamePlan
    <3>4. handler'[d] = [h EXCEPT !.torn = torn] /\ stage'[d] = stage[d] /\ graph' = graph
      BY <1>15, <3>1, <3>2 DEF Migrate, planeVars
    <3>5. SearchOK(h, stage[d], graph.edges) BY <1>h, <3>1
    <3> QED BY <3>3, <3>4, <3>5, SearchKept
  <2> QED BY <2>1 DEF SearchesOK
<1>16. ASSUME Restart PROVE SearchesOK'
  BY <1>16, NoSearch DEF Restart, Fresh, SearchesOK
<1>17. CASE UNCHANGED vars BY <1>17 DEF vars, planeVars, SearchesOK
<1> QED BY <1>1, <1>2, <1>3, <1>4, <1>5, <1>6, <1>7, <1>8, <1>9, <1>11, <1>14, <1>15,
           <1>16, <1>17 DEF Next, Step

\* A set of numbers that has zero and the next of each of its members is all of them: the
\* least number it lacked would have one before it.
LEMMA SetInduction ==
    ASSUME NEW T \in SUBSET Nat, 0 \in T, \A n \in T : n + 1 \in T
    PROVE  T = Nat
<1> SUFFICES ASSUME T # Nat PROVE FALSE
    OBVIOUS
<1> DEFINE U == Nat \ T
           R == OpToRel(<, Nat)
<1>1. U # {} /\ U \subseteq Nat
    OBVIOUS
<1>2. IsWellFoundedOn(R, Nat)
    BY NatLessThanWellFounded, Zenon
<1>3. \E x \in U : \A y \in U : ~ (<<y, x>> \in R)
    BY ONLY <1>1, <1>2, WFMin, Zenon
<1>4. PICK x \in U : \A y \in U : ~ (<<y, x>> \in R)
    BY <1>3
<1> HIDE DEF R
<1>5. x \in Nat /\ x # 0 /\ x - 1 \in Nat
    BY <1>4
<1>6. x - 1 \in T \/ x - 1 \in U
    BY <1>5
<1>7. x - 1 \notin T
    BY <1>5
<1>8. <<x - 1, x>> \in R
  <2>1. x - 1 < x
      BY <1>5
  <2> QED
      BY <1>5, <2>1, Zenon DEF R, OpToRel
<1> QED
    BY <1>4, <1>6, <1>7, <1>8

\* The tables within n + 1 keys are those within n and what they lead to.
LEMMA BallDef ==
    ASSUME NEW t
    PROVE  \A i \in 0 .. Cardinality(Tables) :
             Within(t)[i] = IF i = 0 THEN {t}
                            ELSE Within(t)[i - 1]
                                   \cup UNION {Successors(u) : u \in Within(t)[i - 1]}
<1> DEFINE L == Cardinality(Tables)
           More(s) == s \cup UNION {Successors(u) : u \in s}
           root == {t}
           Balls(g, n) == \A i \in 0 .. n : g[i] = IF i = 0 THEN root ELSE More(g[i - 1])
           T == {n \in Nat : n <= L => \E g : g = [i \in 0 .. n |-> g[i]] /\ Balls(g, n)}
<1>1. L \in Nat BY SchemaGraphAssumption, FS_CardinalityType
<1> HIDE DEF L, More, root
<1>2. 0 \in T
  <2> DEFINE z == [i \in 0 .. 0 |-> root]
  <2>1. z = [i \in 0 .. 0 |-> z[i]] /\ Balls(z, 0) OBVIOUS
  <2> QED BY <2>1
<1>3. ASSUME NEW n \in Nat, n + 1 <= L,
             NEW g, g = [i \in 0 .. n |-> g[i]], Balls(g, n)
      PROVE  \E h : h = [i \in 0 .. n + 1 |-> h[i]] /\ Balls(h, n + 1)
  <2> DEFINE h == [i \in 0 .. n + 1 |-> IF i = n + 1 THEN More(g[n]) ELSE g[i]]
  <2>1. h = [i \in 0 .. n + 1 |-> h[i]] OBVIOUS
  <2>2. h[n + 1] = More(g[n]) /\ \A i \in 0 .. n : h[i] = g[i] OBVIOUS
  <2> HIDE DEF h
  <2>3. ASSUME NEW i \in 0 .. n + 1 PROVE h[i] = IF i = 0 THEN root ELSE More(h[i - 1])
    <3>1. CASE i = n + 1 BY <3>1, <2>2
    <3>2. CASE i \in 0 .. n /\ i = 0 BY <1>3, <3>2, <2>2
    <3>3. CASE i \in 0 .. n /\ i # 0
      <4>1. i - 1 \in 0 .. n BY <3>3
      <4> QED BY <1>3, <3>3, <4>1, <2>2
    <3> QED BY <3>1, <3>2, <3>3
  <2> QED BY <2>1, <2>3
<1>9. \A n \in T : n + 1 \in T
  <2> DEFINE Some(n) == \E g : g = [i \in 0 .. n |-> g[i]] /\ Balls(g, n)
  <2>1. \A n \in Nat : n + 1 <= L /\ Some(n) => Some(n + 1) BY <1>3
  <2>2. T = {n \in Nat : n <= L => Some(n)} OBVIOUS
  <2> HIDE DEF Some, T
  <2> QED BY <1>1, <2>1, <2>2
<1>4. L \in T
  <2> HIDE DEF T
  <2>1. T \subseteq Nat BY DEF T
  <2>2. T = Nat BY <2>1, <1>2, <1>9, SetInduction
  <2> QED BY <2>2, <1>1
<1>5. PICK g : g = [i \in 0 .. L |-> g[i]] /\ Balls(g, L) BY <1>4
<1>6. g = [i \in 0 .. L |-> IF i = 0 THEN root ELSE More(g[i - 1])]
  <2>1. \A i \in 0 .. L : g[i] = IF i = 0 THEN root ELSE More(g[i - 1]) BY <1>5
  <2> QED BY <1>5, <2>1, Zenon
<1> DEFINE b == Within(t)
<1>7. b = [i \in 0 .. L |-> IF i = 0 THEN root ELSE More(b[i - 1])]
  BY <1>6, Zenon DEF Within, L, More, root
<1> HIDE DEF b
<1>8. ASSUME NEW i \in 0 .. L PROVE b[i] = IF i = 0 THEN root ELSE More(b[i - 1])
  BY <1>7, Zenon
<1> QED BY <1>8 DEF L, More, root, b

\* The two cases of the definition.
LEMMA Balls ==
    ASSUME NEW t \in Tables
    PROVE  /\ Cardinality(Tables) \in Nat
           /\ Within(t)[0] = {t}
           /\ \A n \in Nat : n + 1 <= Cardinality(Tables) =>
                Within(t)[n + 1] = Within(t)[n] \cup UNION {Successors(u) : u \in Within(t)[n]}
<1> DEFINE b == Within(t)
           N == Cardinality(Tables)
           More(s) == s \cup UNION {Successors(u) : u \in s}
<1>1. N \in Nat BY SchemaGraphAssumption, FS_CardinalityType
<1>2. \A i \in 0 .. N : b[i] = IF i = 0 THEN {t} ELSE More(b[i - 1]) BY BallDef
<1> HIDE DEF b, N, More
<1>3. b[0] = {t} BY <1>1, <1>2
<1>4. ASSUME NEW n \in Nat, n + 1 <= N PROVE b[n + 1] = More(b[n])
  <2>1. n + 1 \in 0 .. N /\ n + 1 # 0 /\ (n + 1) - 1 = n BY <1>1, <1>4
  <2> QED BY <1>2, <2>1
<1> QED BY <1>1, <1>3, <1>4 DEF b, N, More

\* A table is reached over others: its depth is less than its place in the plan.
LEMMA DepthBound ==
    ASSUME NEW plan \in Seq(PlanStep), Ordered(plan), plan[1].depth = 0
    PROVE  \A j \in DOMAIN plan : plan[j].depth <= j - 1
<1> DEFINE T == {n \in Nat : \A j \in DOMAIN plan : j <= n => plan[j].depth <= j - 1}
<1>d. ASSUME NEW j \in DOMAIN plan PROVE j \in Nat /\ j >= 1 /\ plan[j].depth \in Nat
  <2>1. plan[j] \in PlanStep OBVIOUS
  <2> QED BY <2>1 DEF PlanStep
<1>1. 0 \in T BY <1>d
<1>2. \A n \in T : n + 1 \in T
  <2> SUFFICES ASSUME NEW n \in Nat, \A j \in DOMAIN plan : j <= n => plan[j].depth <= j - 1,
                      NEW j \in DOMAIN plan, j <= n + 1
               PROVE  plan[j].depth <= j - 1
    OBVIOUS
  <2>1. CASE j <= n BY <2>1
  <2>2. CASE j = 1 BY <2>2
  <2>3. CASE j = n + 1 /\ j > 1
    <3>1. PICK i \in 1 .. j - 1 : plan[i].depth + 1 = plan[j].depth BY <2>3 DEF Ordered
    <3>2. i \in DOMAIN plan /\ i <= n BY <1>d, <2>3
    <3>3. plan[i].depth <= i - 1 BY <3>2
    <3> QED BY <1>d, <3>1, <3>2, <3>3
  <2> QED BY <1>d, <2>1, <2>2, <2>3
<1>3. T = Nat
  <2>1. T \subseteq Nat OBVIOUS
  <2> HIDE DEF T
  <2> QED BY <1>1, <1>2, <2>1, SetInduction
<1> QED BY <1>3, <1>d

\* No table is in the plan twice, so that there are no more steps than tables.
LEMMA PlanBounded ==
    ASSUME NEW plan \in Seq(PlanStep), Ordered(plan)
    PROVE  Len(plan) <= Cardinality(Tables)
<1> DEFINE n == Len(plan)
           f == [i \in 1 .. n |-> plan[i].table]
<1>1. n \in Nat /\ DOMAIN plan = 1 .. n OBVIOUS
<1>2. ASSUME NEW i \in 1 .. n PROVE plan[i].table \in Tables
  <2>1. plan[i] \in PlanStep BY <1>1
  <2> QED BY <2>1 DEF PlanStep
<1>3. ASSUME NEW i \in 1 .. n, NEW j \in 1 .. n, plan[i].table = plan[j].table PROVE i = j
  <2>1. ~(i < j) /\ ~(j < i)
    <3>1. ASSUME i < j PROVE FALSE
      <4>1. i \in 1 .. j - 1 BY <3>1
      <4> QED BY <1>1, <1>3, <4>1 DEF Ordered
    <3>2. ASSUME j < i PROVE FALSE
      <4>1. j \in 1 .. i - 1 BY <3>2
      <4> QED BY <1>1, <1>3, <4>1 DEF Ordered
    <3> QED BY <3>1, <3>2
  <2> QED BY <2>1
<1>f. f \in [1 .. n -> Tables] BY <1>2
<1>g. \A i, j \in 1 .. n : f[i] = f[j] => i = j BY <1>3
<1> HIDE DEF f
<1>4. f \in Injection(1 .. n, Tables) BY <1>f, <1>g DEF Injection, IsInjective
<1>5. IsFiniteSet(Tables) BY SchemaGraphAssumption
<1>6. Cardinality(1 .. n) <= Cardinality(Tables) BY <1>4, <1>5, FS_Injection
<1>7. Cardinality(1 .. n) = n BY <1>1, FS_Interval
<1> QED BY <1>6, <1>7

\* Each table of a plan is within its depth of the root ...
LEMMA PlanInBalls ==
    ASSUME NEW plan \in Seq(PlanStep), NEW root \in Tables, Ordered(plan),
           Linked(plan, root, graph.edges)
    PROVE  \A j \in DOMAIN plan : plan[j].table \in Within(root)[plan[j].depth]
<1> DEFINE b == Within(root)
           N == Cardinality(Tables)
           T == {n \in Nat : \A j \in DOMAIN plan : j <= n => plan[j].table \in b[plan[j].depth]}
<1>l. plan[1].table = root /\ plan[1].depth = 0 BY DEF Linked
<1>d. ASSUME NEW j \in DOMAIN plan
      PROVE  /\ j \in Nat /\ j >= 1 /\ plan[j].depth \in Nat /\ plan[j].table \in Tables
             /\ plan[j].depth + 1 <= N
  <2>1. plan[j] \in PlanStep OBVIOUS
  <2>2. /\ j \in Nat /\ j >= 1 /\ j <= Len(plan) /\ Len(plan) \in Nat
        /\ plan[j].depth \in Nat /\ plan[j].table \in Tables
    BY <2>1 DEF PlanStep
  <2>3. plan[j].depth <= j - 1 BY <1>l, DepthBound
  <2>4. Len(plan) <= N BY PlanBounded
  <2>5. N \in Nat BY Balls
  <2> HIDE DEF N
  <2> QED BY <2>2, <2>3, <2>4, <2>5
<1>b. /\ b[0] = {root}
      /\ \A n \in Nat : n + 1 <= N => b[n + 1] = b[n] \cup UNION {Successors(u) : u \in b[n]}
  BY Balls
<1> HIDE DEF b, N
<1>1. 0 \in T BY <1>d
<1>2. \A n \in T : n + 1 \in T
  <2> SUFFICES ASSUME NEW n \in Nat,
                      \A j \in DOMAIN plan : j <= n => plan[j].table \in b[plan[j].depth],
                      NEW j \in DOMAIN plan, j <= n + 1
               PROVE  plan[j].table \in b[plan[j].depth]
    OBVIOUS
  <2>1. CASE j <= n BY <2>1
  <2>2. CASE j = 1 BY <1>b, <1>l, <2>2
  <2>3. CASE j = n + 1 /\ j > 1
    <3>1. PICK i \in 1 .. j - 1 :
             plan[i].table = plan[j].parent /\ plan[i].depth + 1 = plan[j].depth
      BY <2>3 DEF Ordered
    <3>2. i \in DOMAIN plan /\ i <= n BY <1>d, <2>3
    <3>3. plan[i].table \in b[plan[i].depth] BY <3>2
    <3>4. <<plan[i].table, plan[j].table>> \in graph.edges BY <2>3, <3>1 DEF Linked
    <3>5. plan[j].table \in Successors(plan[i].table) BY <1>d, <3>4 DEF Successors
    <3>6. plan[i].depth \in Nat /\ plan[i].depth + 1 <= N BY <1>d, <3>2
    <3>7. b[plan[i].depth + 1] = b[plan[i].depth] \cup UNION {Successors(u) : u \in b[plan[i].depth]}
      BY <1>b, <3>6
    <3> QED BY <3>1, <3>3, <3>5, <3>7
  <2> QED BY <1>d, <2>1, <2>2, <2>3
<1>3. T = Nat
  <2>1. T \subseteq Nat OBVIOUS
  <2> HIDE DEF T
  <2> QED BY <1>1, <1>2, <2>1, SetInduction
<1> QED BY <1>3, <1>d DEF b

\* ... and a table within n keys of the root is in the plan at n or above.
LEMMA BallsInPlan ==
    ASSUME NEW plan \in Seq(PlanStep), NEW root \in Tables,
           Linked(plan, root, graph.edges), Explored(plan, Len(plan), graph.edges)
    PROVE  \A n \in 0 .. Cardinality(Tables) : \A u \in Within(root)[n] : Reached(plan, u, n)
<1> DEFINE b == Within(root)
           N == Cardinality(Tables)
           T == {n \in Nat : n <= N => \A u \in b[n] : Reached(plan, u, n)}
<1>n. N \in Nat BY Balls
<1>b. /\ b[0] = {root}
      /\ \A n \in Nat : n + 1 <= N => b[n + 1] = b[n] \cup UNION {Successors(u) : u \in b[n]}
  BY Balls
<1> HIDE DEF b, N
<1>d. ASSUME NEW k \in DOMAIN plan PROVE k \in 1 .. Len(plan) /\ plan[k].depth \in Nat
  <2>1. plan[k] \in PlanStep OBVIOUS
  <2> QED BY <2>1 DEF PlanStep
<1>1. 0 \in T
  <2>1. 1 \in DOMAIN plan /\ plan[1].table = root /\ plan[1].depth <= 0 BY DEF Linked
  <2>2. Reached(plan, root, 0) BY <2>1 DEF Reached
  <2> QED BY <1>b, <2>2
<1>2. \A n \in T : n + 1 \in T
  <2> SUFFICES ASSUME NEW n \in Nat, n + 1 <= N, \A u \in b[n] : Reached(plan, u, n),
                      NEW u \in b[n + 1]
               PROVE  Reached(plan, u, n + 1)
    BY <1>n
  <2>1. CASE u \in b[n]
    <3>1. PICK k \in DOMAIN plan : plan[k].table = u /\ plan[k].depth <= n
      BY <2>1 DEF Reached
    <3>2. plan[k].depth <= n + 1 BY <1>d, <3>1
    <3> QED BY <3>1, <3>2 DEF Reached
  <2>2. CASE u \notin b[n]
    <3>1. PICK p \in b[n] : u \in Successors(p) BY <1>b, <2>2
    <3>2. PICK k \in DOMAIN plan : plan[k].table = p /\ plan[k].depth <= n BY DEF Reached
    <3>3. u \in Tables /\ <<plan[k].table, u>> \in graph.edges
      BY <3>1, <3>2 DEF Successors
    <3>4. Reached(plan, u, plan[k].depth + 1) BY <1>d, <3>3 DEF Explored
    <3>5. PICK l \in DOMAIN plan : plan[l].table = u /\ plan[l].depth <= plan[k].depth + 1
      BY <3>4 DEF Reached
    <3>6. plan[l].depth <= n + 1 BY <1>d, <3>2, <3>5
    <3> QED BY <3>5, <3>6 DEF Reached
  <2> QED BY <2>1, <2>2
<1>3. T = Nat
  <2>1. T \subseteq Nat OBVIOUS
  <2> HIDE DEF T
  <2> QED BY <1>1, <1>2, <2>1, SetInduction
<1> QED BY <1>3, <1>n DEF b, N

\* The balls grow.
LEMMA BallsGrow ==
    ASSUME NEW root \in Tables, NEW d \in Nat
    PROVE  \A n \in Nat : d <= n /\ n <= Cardinality(Tables) => Within(root)[d] \subseteq Within(root)[n]
<1> DEFINE b == Within(root)
           N == Cardinality(Tables)
           T == {n \in Nat : d <= n /\ n <= N => b[d] \subseteq b[n]}
<1>b. \A n \in Nat : n + 1 <= N => b[n + 1] = b[n] \cup UNION {Successors(u) : u \in b[n]}
  BY Balls
<1>n. N \in Nat BY Balls
<1> HIDE DEF b, N
<1>1. 0 \in T OBVIOUS
<1>2. \A n \in T : n + 1 \in T
  <2> SUFFICES ASSUME NEW n \in Nat, d <= n + 1, n + 1 <= N,
                      d <= n /\ n <= N => b[d] \subseteq b[n]
               PROVE  b[d] \subseteq b[n + 1]
    BY <1>n
  <2>1. CASE d = n + 1 BY <2>1
  <2>2. CASE d <= n
    <3>1. n <= N BY <1>n
    <3>2. b[n] \subseteq b[n + 1] BY <1>b
    <3> QED BY <2>2, <3>1, <3>2
  <2> QED BY <2>1, <2>2
<1>3. T = Nat
  <2>1. T \subseteq Nat OBVIOUS
  <2> HIDE DEF T
  <2> QED BY <1>1, <1>2, <2>1, SetInduction
<1> QED BY <1>3 DEF b, N

\* A breadth-first search finds all that the root leads to, each at its distance.
LEMMA SearchComplete ==
    ASSUME NEW plan \in Seq(PlanStep), NEW root \in Tables, Ordered(plan),
           Linked(plan, root, graph.edges), Explored(plan, Len(plan), graph.edges)
    PROVE  /\ {plan[i].table : i \in DOMAIN plan} = Within(root)[Cardinality(Tables)]
           /\ \A i \in DOMAIN plan :
                 LET d == plan[i].depth IN
                 /\ plan[i].table \in Within(root)[d]
                 /\ d > 0 => plan[i].table \notin Within(root)[d - 1]
<1> DEFINE b == Within(root)
           N == Cardinality(Tables)
<1>n. N \in Nat BY Balls
<1>1. \A j \in DOMAIN plan : plan[j].table \in b[plan[j].depth] BY PlanInBalls
<1>2. \A n \in 0 .. N : \A u \in b[n] : Reached(plan, u, n) BY BallsInPlan
<1>3. \A d \in Nat : d <= N => b[d] \subseteq b[N] BY <1>n, BallsGrow
<1>d. ASSUME NEW j \in DOMAIN plan
      PROVE  /\ j \in Nat /\ j >= 1 /\ plan[j].depth \in Nat /\ plan[j].depth <= N
  <2>1. plan[j] \in PlanStep OBVIOUS
  <2>2. /\ j \in Nat /\ j >= 1 /\ j <= Len(plan) /\ Len(plan) \in Nat /\ plan[j].depth \in Nat
    BY <2>1 DEF PlanStep
  <2>3. plan[j].depth <= j - 1 BY DepthBound DEF Linked
  <2>4. Len(plan) <= N BY PlanBounded
  <2> HIDE DEF N
  <2> QED BY <1>n, <2>2, <2>3, <2>4
<1> HIDE DEF b, N
<1>4. ASSUME NEW u \in b[N] PROVE \E i \in DOMAIN plan : plan[i].table = u
  <2>1. N \in 0 .. N BY <1>n
  <2> QED BY <1>2, <2>1 DEF Reached
<1>5. ASSUME NEW i \in DOMAIN plan PROVE plan[i].table \in b[N] BY <1>1, <1>3, <1>d
<1>6. ASSUME NEW i \in DOMAIN plan, plan[i].depth > 0 PROVE plan[i].table \notin b[plan[i].depth - 1]
  <2> SUFFICES ASSUME plan[i].table \in b[plan[i].depth - 1] PROVE FALSE
    OBVIOUS
  <2>1. plan[i].depth - 1 \in 0 .. N BY <1>d, <1>n, <1>6
  <2>2. PICK k \in DOMAIN plan : plan[k].table = plan[i].table /\ plan[k].depth <= plan[i].depth - 1
    BY <1>2, <2>1 DEF Reached
  <2>3. k # i BY <1>d, <2>2
  <2>4. k < i \/ i < k BY <1>d, <2>3
  <2>5. k \in 1 .. i - 1 \/ i \in 1 .. k - 1 BY <1>d, <2>4
  <2> QED BY <2>2, <2>5 DEF Ordered
<1>7. {plan[i].table : i \in DOMAIN plan} = b[N] BY <1>4, <1>5
<1> QED BY <1>1, <1>6, <1>7 DEF b, N

-----------------------------------------------------------------------------
(* The theorems *)

\* The variables keep their shape (schema_graph.py:245-310).
THEOREM TypeCorrect == Spec => []TypeOK
<1>1. Init => TypeOK BY InitTypes
<1>2. TypeOK /\ [Next]_vars => TypeOK' BY StepTypes
<1> QED BY <1>1, <1>2, PTL DEF Spec

LEMMA Invariance == Spec => []IInv
<1>1. Init => IInv BY InitTypes, InitPlans, InitBuilds, InitReads DEF IInv
<1>2. IInv /\ [Next]_vars => IInv' BY StepTypes, StepPlans, StepBuilds, StepReads DEF IInv
<1> QED BY <1>1, <1>2, PTL DEF Spec

\* A cascade's plan names each table once, level by level, each after the parent it
\* was reached from (schema_graph.py:367-399), whatever the graph is and becomes.
THEOREM PlansInOrder == Spec => []LevelOrder
<1>1. IInv => LevelOrder
  <2> SUFFICES ASSUME IInv, NEW c \in Threads PROVE Ordered(PlanOf(c))
    BY DEF LevelOrder, Ordered
  <2> QED BY DEF IInv, PlansOK, PlanOK, PlanOf
<1> QED BY <1>1, Invariance, PTL

\* The graph that overlapping builds leave has every key of the last of them, and none
\* that no build had read (schema_graph.py:293-310).
THEOREM NothingUnread == Spec => []GraphOfBuilds
<1>1. IInv => GraphOfBuilds BY DEF IInv, BuildsOK, GraphOfBuilds
<1> QED BY <1>1, Invariance, PTL

\* The cache that a later process loads is right, but for a migration between two
\* reads of the load that stored it (schema_graph.py:255-331).
THEOREM CacheRight == Spec => []CacheTrue
<1>1. IInv => CacheTrue BY DEF IInv, ReadsOK
<1> QED BY <1>1, Invariance, PTL

\* A plan made while the graph does not change has the root and every table that keys
\* lead to from it, each at its distance (schema_graph.py:367-399): a search that goes
\* on reaches, from each table it has taken, all of its successors at a level below it
\* at most.
THEOREM PlansComplete == Spec => []PlanComplete
<1>1. SInv => PlanComplete
  <2> SUFFICES ASSUME SInv, NEW c \in Threads,
                      stage[c] = "done", handler[c].op = "plan", handler[c].outcome = "ok",
                      handler[c].calm
               PROVE  LET h == handler[c]  ball == Within(h.root) IN
                      /\ {h.plan[i].table : i \in DOMAIN h.plan} = ball[Cardinality(Tables)]
                      /\ \A i \in DOMAIN h.plan :
                           LET d == h.plan[i].depth IN
                           h.plan[i].table \in ball[d] /\ (d > 0 => h.plan[i].table \notin ball[d - 1])
    BY DEF PlanComplete
  <2>1. PICK h \in Handler : h = handler[c] BY DEF SInv, IInv, TypeOK
  <2>2. h.plan \in Seq(PlanStep) /\ h.root \in Tables BY DEF Handler
  <2>3. Ordered(h.plan) BY <2>1 DEF SInv, IInv, PlansOK, PlanOK
  <2>4. Linked(h.plan, h.root, graph.edges) /\ Explored(h.plan, Len(h.plan), graph.edges)
    BY <2>1 DEF SInv, SearchesOK, SearchOK
  <2> QED BY <2>1, <2>2, <2>3, <2>4, SearchComplete
<1>2. Init => SInv BY InitTypes, InitPlans, InitBuilds, InitReads, InitSearches DEF IInv, SInv
<1>3. SInv /\ [Next]_vars => SInv'
  BY StepTypes, StepPlans, StepBuilds, StepReads, StepSearches DEF IInv, SInv
<1> QED BY <1>1, <1>2, <1>3, PTL DEF Spec
=============================================================================
