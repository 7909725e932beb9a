----------------------------- MODULE SchemaGraph -----------------------------
(***************************************************************************)
(* The control plane's schema graph: one object, rebuilt in place by the   *)
(* threads that load or refresh it and walked by those that plan a         *)
(* cascading inject.  Nothing locks it.  A load goes by a hash of the live *)
(* schema, which tells tables apart but not foreign keys, and by the row   *)
(* that the last load or refresh left in the SQLite cache; the cache       *)
(* outlives the process, the graph does not.                               *)
(*                                                                         *)
(* Columns are abstracted to the tables that have them, and ratios, row    *)
(* counts and classifications are left out: they steer nothing here.       *)
(* Bounds: MaxCalls calls, MaxMigrations migrations, MaxRestarts restarts. *)
(***************************************************************************)
EXTENDS Naturals, Sequences, FiniteSets

CONSTANTS
    Tables,
    Schemas,     \* what the live database may look like: [tables, fks]
    Clients,     \* concurrent callers of the control plane
    MaxCalls, MaxMigrations, MaxRestarts

Schema == [tables : SUBSET Tables, fks : SUBSET (Tables \X Tables)]

ASSUME SchemaGraphAssumption ==
    /\ Tables # {} /\ IsFiniteSet(Tables)
    /\ Schemas \subseteq Schema
    /\ Schemas # {}
    /\ \A s \in Schemas, fk \in Tables \X Tables :
          fk \in s.fks => fk[1] \in s.tables /\ fk[2] \in s.tables
    /\ "startup" \notin Clients
    /\ MaxCalls \in Nat /\ MaxMigrations \in Nat /\ MaxRestarts \in Nat

\* The threads: the startup hook and the callers.
Threads == Clients \cup {"startup"}

\* _compute_schema_hash
HashOf(s) == s.tables

NoSchema == [tables |-> {}, fks |-> {}]
NoCache == [hash |-> {}, data |-> NoSchema, torn |-> FALSE, set |-> FALSE]

\* A step of a plan, and its place in the queue of the walk.
PlanStep == [table : Tables, depth : Nat, parent : Tables]

\* A walk in progress: the successors that the table at the head of the queue
\* had when their iteration began, those not visited yet by it, and whether
\* the graph iterated over is still the current one.
Walk == [table : Tables, depth : Nat, succ : SUBSET Tables,
         left : SUBSET Tables, current : BOOLEAN]
NoWalk(t) == [table |-> t, depth |-> 0, succ |-> {}, left |-> {}, current |-> FALSE]

Stage == {"idle", "hash", "tables", "fks", "replace", "nodes", "edges", "rehash",
          "store", "begin", "pop", "iterate", "done"}

\* torn: the schema has changed between two of the reads of this load (a
\* history); calm: the graph has not changed since this plan began (another).
Handler == [op : {"load", "refresh", "plan"}, root : Tables, hit : BOOLEAN,
            hash : SUBSET Tables, data : Schema, todo : SUBSET (Tables \X Tables),
            torn : BOOLEAN, plan : Seq(PlanStep), queue : Seq([table : Tables, depth : Nat]),
            visited : SUBSET Tables, walk : Walk, calm : BOOLEAN,
            outcome : {"ok", "failed"}]

VARIABLES
    schema,          \* the live database
    cache,           \* the row of schema_cache, or NoCache
    graph,           \* self.G: its nodes and edges
    loaded,          \* self.loaded
    mixed,           \* the data of the builds that went into graph (a history), and
                     \* of the last to begin: its tables are self.tables
    stage, handler,  \* of each thread
    calls, migrations, restarts

planeVars == <<graph, loaded, mixed>>
countVars == <<calls, migrations, restarts>>
vars == <<schema, cache, planeVars, stage, handler, countVars>>

EmptyGraph == [nodes |-> {}, edges |-> {}]
Idle == LET t == CHOOSE t \in Tables : TRUE IN
    [op |-> "load", root |-> t, hit |-> FALSE, hash |-> {}, data |-> NoSchema,
     todo |-> {}, torn |-> FALSE, plan |-> <<>>, queue |-> <<>>, visited |-> {},
     walk |-> NoWalk(t), calm |-> TRUE, outcome |-> "ok"]

\* A fresh process: nothing loaded, the startup hook about to load.
Fresh ==
    /\ graph' = EmptyGraph
    /\ loaded' = FALSE
    /\ mixed' = [last |-> NoSchema, all |-> {}]
    /\ stage' = [c \in Threads |-> IF c = "startup" THEN "hash" ELSE "idle"]
    /\ handler' = [c \in Threads |-> Idle]

Init ==
    /\ schema \in Schemas
    /\ cache = NoCache
    /\ graph = EmptyGraph
    /\ loaded = FALSE
    /\ mixed = [last |-> NoSchema, all |-> {}]
    /\ stage = [c \in Threads |-> IF c = "startup" THEN "hash" ELSE "idle"]
    /\ handler = [c \in Threads |-> Idle]
    /\ calls = 0 /\ migrations = 0 /\ restarts = 0

Goto(c, s) == stage' = [stage EXCEPT ![c] = s]

\* Where a thread goes when its load or refresh is over, well or not.
AfterLoad(c) == IF handler[c].op = "plan" THEN "begin" ELSE "done"

-----------------------------------------------------------------------------
(* Calls *)

\* GET /schema/graph, POST /schema/refresh, or a plan, for /schema/cascade or
\* /inject/cascade; the first and the last load a graph that is not loaded.
\* The server takes calls once the startup hook is over.
Call(c) ==
    /\ stage[c] = "idle"
    /\ c # "startup" /\ stage["startup"] = "idle"
    /\ calls < MaxCalls
    /\ calls' = calls + 1
    /\ \E op \in {"load", "refresh", "plan"}, root \in Tables :
         /\ op = "plan" \/ root = Idle.root
         /\ handler' = [handler EXCEPT ![c] = [Idle EXCEPT !.op = op, !.root = root]]
         /\ Goto(c, IF op = "refresh" THEN "tables"
                    ELSE IF ~loaded THEN "hash"
                    ELSE IF op = "load" THEN "done" ELSE "begin")
    /\ UNCHANGED <<schema, cache, planeVars, migrations, restarts>>

Return(c) ==
    /\ stage[c] = "done"
    /\ Goto(c, "idle")
    /\ handler' = [handler EXCEPT ![c] = Idle]
    /\ UNCHANGED <<schema, cache, planeVars, countVars>>

-----------------------------------------------------------------------------
(* load and refresh.  Any read of the database can raise: the exception is  *)
(* logged and the caller goes on with the graph as it is.                   *)

ReadFails(c) ==
    /\ stage[c] \in {"hash", "tables", "fks", "rehash"}
    /\ Goto(c, AfterLoad(c))
    /\ UNCHANGED <<schema, cache, planeVars, handler, countVars>>

\* load: the hash decides between the cached data and an introspection.
Hash(c) ==
    LET hit == cache.set /\ cache.hash = HashOf(schema) IN
    /\ stage[c] = "hash"
    /\ handler' = [handler EXCEPT ![c].hash = HashOf(schema), ![c].hit = hit,
                                  ![c].data = IF hit THEN cache.data ELSE @]
    /\ Goto(c, IF hit THEN "replace" ELSE "tables")
    /\ UNCHANGED <<schema, cache, planeVars, countVars>>

\* _introspect reads the tables first and the foreign keys last.
ReadTables(c) ==
    /\ stage[c] = "tables"
    /\ handler' = [handler EXCEPT ![c].data.tables = schema.tables]
    /\ Goto(c, "fks")
    /\ UNCHANGED <<schema, cache, planeVars, countVars>>

ReadFks(c) ==
    /\ stage[c] = "fks"
    /\ handler' = [handler EXCEPT ![c].data.fks = schema.fks]
    /\ Goto(c, "replace")
    /\ UNCHANGED <<schema, cache, planeVars, countVars>>

\* The threads that are adding to whatever graph is current.
Building == {c \in Threads : stage[c] \in {"nodes", "edges"}}

\* What a change of the graph does to the plans under way.
Disturbed(h, current) ==
    [c \in Threads |-> IF h[c].plan = <<>> THEN h[c]
                       ELSE [h[c] EXCEPT !.calm = FALSE,
                                         !.walk.current = @ /\ current]]

\* Mutant: the graph is extended in place.
ReplaceKeeps(c) ==
    /\ stage[c] = "replace"
    /\ mixed' = [last |-> handler[c].data,
                 all |-> {handler[d].data : d \in Building \cup {c}}]
    /\ handler' = Disturbed([handler EXCEPT ![c].todo = handler[c].data.fks], TRUE)
    /\ Goto(c, "nodes")
    /\ UNCHANGED <<schema, cache, graph, loaded, countVars>>

\* _build_graph starts from an empty graph ...
Replace(c) ==
    /\ stage[c] = "replace"
    /\ graph' = EmptyGraph
    /\ mixed' = [last |-> handler[c].data,
                 all |-> {handler[d].data : d \in Building \cup {c}}]
    /\ handler' = Disturbed([handler EXCEPT ![c].todo = handler[c].data.fks], FALSE)
    /\ Goto(c, "nodes")
    /\ UNCHANGED <<schema, cache, loaded, countVars>>

\* ... adds self.tables, which are those of the last build to begin ...
AddNodes(c) ==
    /\ stage[c] = "nodes"
    /\ graph' = [graph EXCEPT !.nodes = @ \cup mixed.last.tables]
    /\ handler' = Disturbed(handler, TRUE)
    /\ Goto(c, "edges")
    /\ UNCHANGED <<schema, cache, loaded, mixed, countVars>>

\* ... and the foreign keys one by one, to the graph that is current by then.
AddEdge(c) ==
    /\ stage[c] = "edges"
    /\ \E fk \in handler[c].todo :
         /\ graph' = [nodes |-> graph.nodes \cup {fk[1], fk[2]},
                      edges |-> graph.edges \cup {fk}]
         /\ handler' = Disturbed([handler EXCEPT ![c].todo = @ \ {fk}], TRUE)
    /\ UNCHANGED <<schema, cache, loaded, mixed, stage, countVars>>

Built(c) ==
    /\ stage[c] = "edges"
    /\ handler[c].todo = {}
    /\ loaded' = TRUE
    /\ Goto(c, IF handler[c].op = "refresh" THEN "rehash"
               ELSE IF handler[c].hit THEN AfterLoad(c) ELSE "store")
    /\ UNCHANGED <<schema, cache, graph, mixed, handler, countVars>>

\* Mutant: the hash in the cache is taken for the current one.
RehashCached(c) ==
    /\ stage[c] = "rehash"
    /\ handler' = [handler EXCEPT ![c].hash = cache.hash]
    /\ Goto(c, "store")
    /\ UNCHANGED <<schema, cache, planeVars, countVars>>

\* refresh computes the hash after it has built the graph.
Rehash(c) ==
    /\ stage[c] = "rehash"
    /\ handler' = [handler EXCEPT ![c].hash = HashOf(schema)]
    /\ Goto(c, "store")
    /\ UNCHANGED <<schema, cache, planeVars, countVars>>

Store(c) ==
    /\ stage[c] = "store"
    /\ cache' = [hash |-> handler[c].hash, data |-> handler[c].data,
                 torn |-> handler[c].torn, set |-> TRUE]
    /\ Goto(c, AfterLoad(c))
    /\ UNCHANGED <<schema, planeVars, handler, countVars>>

-----------------------------------------------------------------------------
(* cascade_plan *)

Successors(t) == {u \in Tables : <<t, u>> \in graph.edges}

Begin(c) ==
    LET root == handler[c].root IN
    /\ stage[c] = "begin"
    /\ handler' = [handler EXCEPT
         ![c].plan = <<[table |-> root, depth |-> 0, parent |-> root]>>,
         ![c].queue = <<[table |-> root, depth |-> 0]>>,
         ![c].visited = {root},
         ![c].calm = Building = {}]
    /\ Goto(c, "pop")
    /\ UNCHANGED <<schema, cache, planeVars, countVars>>

Fail(c) ==
    /\ Goto(c, "done")
    /\ handler' = [handler EXCEPT ![c].outcome = "failed"]

\* The next table of the queue; one that is not in the graph raises.
Pop(c) ==
    LET q == handler[c].queue IN
    /\ stage[c] = "pop"
    /\ \/ /\ q = <<>>
          /\ Goto(c, "done")
          /\ UNCHANGED handler
       \/ /\ q # <<>> /\ Head(q).table \notin graph.nodes
          /\ Fail(c)
       \/ /\ q # <<>> /\ Head(q).table \in graph.nodes
          /\ handler' = [handler EXCEPT
               ![c].queue = Tail(q),
               ![c].walk = [table |-> Head(q).table, depth |-> Head(q).depth,
                            succ |-> Successors(Head(q).table),
                            left |-> Successors(Head(q).table), current |-> TRUE]]
          /\ Goto(c, "iterate")
    /\ UNCHANGED <<schema, cache, planeVars, countVars>>

\* Mutant: a child is queued at the depth of its parent.
VisitSameDepth(c, child) ==
    LET h == handler[c]  w == h.walk IN
    \/ /\ child \in h.visited
       /\ handler' = [handler EXCEPT ![c].walk.left = @ \ {child}]
       /\ UNCHANGED stage
    \/ /\ child \notin h.visited
       /\ handler' = [handler EXCEPT
            ![c].walk.left = @ \ {child},
            ![c].visited = @ \cup {child},
            ![c].plan = Append(@, [table |-> child, depth |-> w.depth + 1,
                                   parent |-> w.table]),
            ![c].queue = Append(@, [table |-> child, depth |-> w.depth])]
       /\ UNCHANGED stage

\* Mutant: the walk of a table ends at the first successor visited already.
VisitBreaks(c, child) ==
    LET h == handler[c]  w == h.walk IN
    \/ /\ child \in h.visited
       /\ handler' = [handler EXCEPT ![c].walk.left = {}]
       /\ UNCHANGED stage
    \/ /\ child \notin h.visited
       /\ handler' = [handler EXCEPT
            ![c].walk.left = @ \ {child},
            ![c].visited = @ \cup {child},
            ![c].plan = Append(@, [table |-> child, depth |-> w.depth + 1,
                                   parent |-> w.table]),
            ![c].queue = Append(@, [table |-> child, depth |-> w.depth + 1])]
       /\ UNCHANGED stage

\* A successor is looked at: visited already, or gone from the graph that is
\* current now (the lookup of its edge raises), or added to the plan.
Visit(c, child) ==
    LET h == handler[c]  w == h.walk IN
    \/ /\ child \in h.visited
       /\ handler' = [handler EXCEPT ![c].walk.left = @ \ {child}]
       /\ UNCHANGED stage
    \/ /\ child \notin h.visited
       /\ <<w.table, child>> \notin graph.edges
       /\ Fail(c)
    \/ /\ child \notin h.visited
       /\ <<w.table, child>> \in graph.edges
       /\ handler' = [handler EXCEPT
            ![c].walk.left = @ \ {child},
            ![c].visited = @ \cup {child},
            ![c].plan = Append(@, [table |-> child, depth |-> w.depth + 1,
                                   parent |-> w.table]),
            ![c].queue = Append(@, [table |-> child, depth |-> w.depth + 1])]
       /\ UNCHANGED stage

\* The iteration raises when the successors have changed under it; a graph
\* that has been replaced no longer changes.
Iterate(c) ==
    LET w == handler[c].walk
        changed == w.current /\ Successors(w.table) # w.succ
    IN
    /\ stage[c] = "iterate"
    /\ \/ /\ changed
          /\ Fail(c)
       \/ /\ ~changed
          /\ \E child \in w.left : Visit(c, child)
       \/ /\ ~changed
          /\ w.left = {}
          /\ Goto(c, "pop")
          /\ UNCHANGED handler
    /\ UNCHANGED <<schema, cache, planeVars, countVars>>

-----------------------------------------------------------------------------
(* The rest of the world *)

\* Between the first and the last read of the database by a load or refresh.
MidRead(c) ==
    \/ stage[c] = "fks"
    \/ stage[c] = "tables" /\ handler[c].op # "refresh"
    \/ stage[c] \in {"replace", "nodes", "edges", "rehash"} /\ handler[c].op = "refresh"

\* Somebody migrates the database.
Migrate ==
    /\ migrations < MaxMigrations
    /\ migrations' = migrations + 1
    /\ schema' \in Schemas \ {schema}
    /\ handler' = [c \in Threads |-> [handler[c] EXCEPT !.torn = @ \/ MidRead(c)]]
    /\ UNCHANGED <<cache, planeVars, stage, calls, restarts>>

\* The control plane dies and is restarted.
Restart ==
    /\ restarts < MaxRestarts
    /\ restarts' = restarts + 1
    /\ Fresh
    /\ UNCHANGED <<schema, cache, calls, migrations>>

-----------------------------------------------------------------------------

Step(c) ==
    \/ Hash(c) \/ ReadTables(c) \/ ReadFks(c) \/ ReadFails(c)
    \/ Replace(c) \/ AddNodes(c) \/ AddEdge(c) \/ Built(c) \/ Rehash(c) \/ Store(c)
    \/ Begin(c) \/ Pop(c) \/ Iterate(c) \/ Return(c)

Next ==
    \/ \E c \in Threads : Call(c) \/ Step(c)
    \/ Migrate \/ Restart

Spec == Init /\ [][Next]_vars
-----------------------------------------------------------------------------
(* Properties *)

\* Every variable keeps its shape; what a handler needs in a stage is there.
TypeOK ==
    /\ schema \in Schemas
    /\ cache \in [hash : SUBSET Tables, data : Schema, torn : BOOLEAN, set : BOOLEAN]
    /\ graph \in [nodes : SUBSET Tables, edges : SUBSET (Tables \X Tables)]
    /\ loaded \in BOOLEAN
    /\ mixed \in [last : Schema, all : SUBSET Schema]
    /\ stage \in [Threads -> Stage]
    /\ handler \in [Threads -> Handler]
    /\ calls \in Nat /\ migrations \in Nat /\ restarts \in Nat

\* Builds that overlap add to one graph.  When they are over it has every
\* foreign key of the build that began last and none that no build had read.
GraphOfBuilds ==
    Building = {} =>
        /\ mixed.last.fks \subseteq graph.edges
        /\ graph.edges \subseteq UNION {data.fks : data \in mixed.all}

\* What a later process will load for a hash has that hash, and is a schema the
\* database had, unless a migration came between two reads of the load that
\* stored it.
CacheTrue ==
    cache.set /\ ~cache.torn =>
        HashOf(cache.data) = cache.hash /\ cache.data \in Schemas

PlanOf(c) == handler[c].plan

\* A cascade injects into each table once, whatever cycles and converging keys
\* the graph has and however it changes under the walk: level by level, so that
\* sorting by depth leaves the plan as it is, and after the one parent it was
\* reached from, whose keys its rows take.  This is not the topological order of
\* docs/04: another parent, further from the root, may come after its child.
LevelOrder ==
    \A c \in Threads : \A j \in DOMAIN PlanOf(c) :
        /\ \A i \in 1 .. j - 1 :
              /\ PlanOf(c)[i].table # PlanOf(c)[j].table
              /\ PlanOf(c)[i].depth <= PlanOf(c)[j].depth
        /\ j > 1 => \E i \in 1 .. j - 1 :
                      /\ PlanOf(c)[i].table = PlanOf(c)[j].parent
                      /\ PlanOf(c)[i].depth + 1 = PlanOf(c)[j].depth

\* The tables within n keys of a table.
Within(t) ==
    LET ball[n \in 0 .. Cardinality(Tables)] ==
          IF n = 0 THEN {t}
          ELSE ball[n - 1] \cup UNION {Successors(u) : u \in ball[n - 1]}
    IN  ball

\* A plan made while the graph does not change has the root and every table
\* that foreign keys lead to from it, each at its distance from the root.
PlanComplete ==
    \A c \in Threads :
        LET h == handler[c]  ball == Within(h.root) IN
        /\ stage[c] = "done" /\ h.op = "plan" /\ h.outcome = "ok" /\ h.calm
        => /\ {h.plan[i].table : i \in DOMAIN h.plan} = ball[Cardinality(Tables)]
           /\ \A i \in DOMAIN h.plan :
                 LET d == h.plan[i].depth IN
                 h.plan[i].table \in ball[d] /\ (d > 0 => h.plan[i].table \notin ball[d - 1])
=============================================================================
