-------------------------------- MODULE OrmLoad --------------------------------
(***************************************************************************)
(* The ORM load generator: it waits for data, introspects the schema table *)
(* by table, reflects it twice more into ORM classes, and lets its workers *)
(* run random operations on what these passes found.  A migration may drop *)
(* tables at any time: before, between and after the passes.               *)
(*                                                                         *)
(* A table is a record of what its classification and the operations read. *)
(* Rows, columns and the statements' text are left out: a statement is the *)
(* set of tables it names, and whether it asks of a relationship or of a   *)
(* column what that cannot give.  Which tables get a class, and when two   *)
(* classes are related, is the ORM library's doing, modelled from its use. *)
(*                                                                         *)
(* Bound: MaxDrops tables dropped.                                         *)
(***************************************************************************)
EXTENDS Naturals, FiniteSets, SequencesExt

CONSTANTS
    Tables,
    Schemas,     \* the databases that are considered
    Catalog,     \* the tables in the order the catalog lists them
    Workers,
    MaxDepth,    \* walk_chains' max_depth, 4 in the code
    MaxDrops

Keys == {"serial", "natural", "composite", "none", "association"}

ASSUME OrmLoadAssumption ==
    /\ Catalog \in Seq(Tables) /\ ToSet(Catalog) = Tables
    /\ MaxDepth \in Nat /\ MaxDrops \in Nat
    /\ \A s \in Schemas : DOMAIN s = Tables /\ \A t \in Tables :
        /\ s[t].fks \in Seq(Tables)   \* the tables its foreign keys refer to
        /\ s[t].rows \in Nat          \* n_live_tup
        /\ s[t].times \subseteq {"created_at", "updated_at", "other"}
        /\ s[t].status \in BOOLEAN
        /\ s[t].numeric \subseteq {"number", "array"}   \* columns whose type contains "int", ..
        /\ s[t].key \in Keys

VARIABLES
    schema,     \* what each table is, and
    db,         \*   the tables that are still there
    data,       \* has the database any rows
    duration,   \* is ORM_DURATION set
    stopped,    \* has the container been told to stop
    shutdown,   \* the event
    phase,      \* how far main is
    todo,       \* the tables to introspect, then the workers to join
    profile,    \* the tables introspected, each with the keys it had
    children_of, fk_chains,
    models,     \* the tables of the first reflection
    mapped,     \* the tables whose keys made the relationships of the classes
    ctx,        \* per operation: the statements it may come to
    worker,     \* per worker: the statement of its operation, and whether it writes
    failure,    \* the last operation that was counted as an error
    dropped     \* tables dropped since the first reflection (a history)

environment == <<schema, data, duration>>
findings == <<profile, children_of, fk_chains, models, mapped, ctx>>
ormVars == <<environment, db, stopped, shutdown, phase, todo, findings, worker, failure, dropped>>

Operations == {"n_plus_1", "eager_join", "eager_subquery", "eager_selectin", "bulk_insert",
               "orm_update", "pagination", "aggregation", "exists_filter", "relationship"}
Writes == {"bulk_insert", "orm_update"}
Waiting == [at |-> "waiting", writes |-> FALSE, tables |-> {}, wrong |-> FALSE]
Ended == [Waiting EXCEPT !.at = "ended"]

OrmInit ==
    /\ schema \in Schemas
    /\ db = Tables
    /\ data \in BOOLEAN
    /\ duration \in BOOLEAN
    /\ stopped = FALSE
    /\ shutdown = FALSE
    /\ phase = "wait"
    /\ todo = <<>>
    /\ profile = [t \in {} |-> <<>>]
    /\ fk_chains = <<>>
    /\ children_of = [t \in Tables |-> <<>>]
    /\ models = {} /\ mapped = {}
    /\ ctx = [op \in Operations |-> {}]
    /\ worker = [w \in Workers |-> Ended]
    /\ failure = Waiting
    /\ dropped = {}

-----------------------------------------------------------------------------
(* What the introspection makes of the keys *)

\* The elements of a sequence that are in S, in their order.
Among(s, S) == FlattenSeq([i \in DOMAIN s |-> IF s[i] \in S THEN <<s[i]>> ELSE <<>>])

\* The tables of the profile, in the order they were introspected.
Listed == Among(Catalog, DOMAIN profile)

\* children_of: one entry per key that refers to p, those of p itself left out.
Children(p) ==
    FlattenSeq([i \in DOMAIN Listed |->
        LET t == Listed[i] IN
        [j \in 1..Cardinality({k \in DOMAIN profile[t] : profile[t][k] = p /\ p # t}) |-> t]])

\* Mutant: a child that is in the chain already is walked again.
WalkCycles(children) ==
    LET walk[chain \in Seq(Tables) \ {<<>>}] ==
        IF Len(chain) > MaxDepth THEN <<>>
        ELSE LET kids == children[Last(chain)] IN
             FlattenSeq([i \in DOMAIN kids |->
                 <<Append(chain, kids[i])>> \o walk[Append(chain, kids[i])]])
    IN walk

\* The chains that go on from a chain, in the order the recursion finds them.
Walk(children) ==
    LET walk[chain \in Seq(Tables) \ {<<>>}] ==
        IF Len(chain) > MaxDepth THEN <<>>
        ELSE LET kids == Among(children[Last(chain)], Tables \ ToSet(chain)) IN
             FlattenSeq([i \in DOMAIN kids |->
                 <<Append(chain, kids[i])>> \o walk[Append(chain, kids[i])]])
    IN walk

\* From every table; two keys between the same tables give the same chain twice.
WalkChains(children) == FlattenSeq([i \in DOMAIN Listed |-> Walk(children)[<<Listed[i]>>]])

\* What becomes of them: without duplicates, and stably sorted, the longest first.
UniqueSorted(chains) ==
    LET new(i) == \A j \in 1..(i - 1) : chains[j] # chains[i]
    IN FlattenSeq([n \in 1..MaxDepth |->
           FlattenSeq([i \in DOMAIN chains |->
               IF new(i) /\ Len(chains[i]) = MaxDepth + 2 - n THEN <<chains[i]>> ELSE <<>>])])

\* The role of a table.
Classify(t) ==
    LET x == schema[t]
        has_children == children_of[t] # <<>>
        has_fks == profile[t] # <<>>
        updated == "updated_at" \in x.times
        only_created == "created_at" \in x.times /\ ~updated
    IN  IF t \in ToSet(profile[t]) THEN "hierarchical"
        ELSE IF x.rows < 10000 /\ has_children /\ ~has_fks THEN "lookup"
        ELSE IF only_created /\ ~x.status /\ ~has_children THEN "append_only"
        ELSE IF x.status /\ updated THEN "transactional"
        ELSE IF has_children THEN "entity"
        ELSE IF has_fks THEN IF updated THEN "transactional" ELSE "append_only"
        ELSE IF x.times # {} THEN "transactional" ELSE "lookup"

-----------------------------------------------------------------------------
(* What the operations have to choose from *)

Known(t) == t \in DOMAIN profile /\ t \in models

\* The tables the library makes a class for: not without a primary key, nor those
\* that only link two others.
HasClass(t) == schema[t].key \notin {"none", "association"}

\* Mutant: every table that was reflected is taken to have a class.
GetModelAny(t) == t \in models

GetModel(t) == t \in models /\ HasClass(t)

\* Has root's class a relationship whose other end is t, in whatever direction: there was
\* a key between them when the pass that made the class came by.
Related(root, t) ==
    /\ GetModel(root) /\ GetModel(t)
    /\ root \in mapped => t \in mapped
    /\ root \in ToSet(schema[t].fks) \/ t \in ToSet(schema[root].fks)

Chains2 == Among(fk_chains, {c \in ToSet(fk_chains) : \A t \in ToSet(c) : Known(t)})
Insertable == {t \in DOMAIN profile :
    Known(t) /\ schema[t].rows > 0 /\ Classify(t) \in {"append_only", "transactional"}}
Updatable == {t \in DOMAIN profile :
    /\ Known(t) /\ schema[t].times # {} /\ schema[t].rows >= 100
    /\ Classify(t) \in {"transactional", "entity"}}
Paginable == {t \in DOMAIN profile :
    Known(t) /\ schema[t].times # {} /\ schema[t].rows >= 1000}
Aggregable == {t \in DOMAIN profile :
    Known(t) /\ schema[t].numeric # {} /\ profile[t] # <<>> /\ schema[t].rows >= 1000}
HasRels == {t \in DOMAIN profile :
    Known(t) /\ children_of[t] # <<>> /\ schema[t].rows >= 100}

\* The tables an operation names when it is given a chain, a pair or a table: none
\* when it returns before it has asked anything.
NPlus1(c) == IF GetModel(c[1]) THEN {c[1]} \cup {t \in ToSet(Tail(c)) : Related(c[1], t)} ELSE {}
Eager(root, child) ==
    IF GetModel(root) /\ Related(root, child) THEN {root, child} ELSE {}
OnTable(t) == IF GetModel(t) THEN {t} ELSE {}

\* A statement, and one that asks for any() of a relationship: that found first by its
\* name is p's own key to k, a scalar without any(), if there is one.
Asks(tables, wrong) == [tables |-> tables, wrong |-> wrong /\ tables # {}]
Plain(tables) == Asks(tables, FALSE)
Exists(p, k) == Asks(Eager(p, k), k \in ToSet(schema[p].fks))

\* The sum of a column.
Aggregate(t, column) == Asks(OnTable(t), column = "array")

\* What an operation may come to: its lists may be empty, and then it names nothing.
Statements(op) ==
    LET chains == ToSet(IF op = "relationship"
                        THEN SubSeq(Chains2, 1, IF Len(Chains2) < 10 THEN Len(Chains2) ELSE 10)
                        ELSE Chains2)
        some == CASE op = "n_plus_1" -> {Plain(NPlus1(c)) : c \in chains}
                  [] op \in {"eager_join", "eager_subquery", "eager_selectin", "relationship"} ->
                        {Plain(Eager(c[1], c[2])) : c \in chains}
                  [] op = "exists_filter" ->
                        UNION {{Exists(p, k) : k \in ToSet(children_of[p])} : p \in HasRels}
                  [] op = "bulk_insert" -> {Plain(OnTable(t)) : t \in Insertable}
                  [] op = "orm_update" -> {Plain(OnTable(t)) : t \in Updatable}
                  [] op = "pagination" -> {Plain(OnTable(t)) : t \in Paginable}
                  [] op = "aggregation" ->
                        UNION {{Aggregate(t, n) : n \in schema[t].numeric} : t \in Aggregable}
    IN IF some = {} THEN {Plain({})} ELSE some

-----------------------------------------------------------------------------
(* main *)

Main == <<findings, todo, phase>>

\* Mutant: the names of the tables are those of the first start.
WaitStale ==
    /\ phase = "wait"
    /\ data \/ shutdown
    /\ phase' = "introspect"
    /\ todo' = Catalog
    /\ UNCHANGED <<environment, db, stopped, shutdown, findings, worker, failure, dropped>>

\* wait_for_data: rows have come, or the event is set; main goes on in both cases.
WaitForData ==
    /\ phase = "wait"
    /\ data \/ shutdown
    /\ phase' = "introspect"
    /\ todo' = Among(Catalog, db)
    /\ UNCHANGED <<environment, db, stopped, shutdown, findings, worker, failure, dropped>>

\* One table: its keys are those that still refer to something.  A table that has
\* been dropped since the names were read makes the process fail.
Introspect ==
    /\ phase = "introspect"
    /\ todo # <<>>
    /\ IF Head(todo) \in db
       THEN /\ profile' = [t \in DOMAIN profile \cup {Head(todo)} |->
                 IF t = Head(todo)
                 THEN Among(schema[t].fks, db) ELSE profile[t]]
            /\ todo' = Tail(todo)
            /\ UNCHANGED phase
       ELSE /\ phase' = "failed"
            /\ UNCHANGED <<profile, todo>>
    /\ UNCHANGED <<environment, db, stopped, shutdown, children_of, fk_chains, models, mapped,
                   ctx, worker, failure, dropped>>

Introspected ==
    /\ phase = "introspect"
    /\ todo = <<>>
    /\ children_of' = [p \in Tables |-> Children(p)]
    /\ \E chains \in {WalkChains(children_of')} : fk_chains' = UniqueSorted(chains)
    /\ phase' = "reflect"
    /\ UNCHANGED <<environment, db, stopped, shutdown, todo, profile, models, mapped, ctx,
                   worker, failure, dropped>>

\* The tables of the public schema.
Reflect ==
    /\ phase = "reflect"
    /\ models' = db
    /\ phase' = "prepare"
    /\ UNCHANGED <<environment, db, stopped, shutdown, todo, profile, children_of, fk_chains,
                   mapped, ctx, worker, failure, dropped>>

\* Base.prepare reflects once more, what is left by now, under the names without a schema,
\* and makes classes of both; which of the two of one name is kept is the library's matter.
Prepare ==
    /\ phase = "prepare"
    /\ mapped' \in {models, db}
    /\ phase' = "launch"
    /\ UNCHANGED <<environment, db, stopped, shutdown, todo, profile, children_of, fk_chains,
                   models, ctx, worker, failure, dropped>>

\* The context is built; the timer and the workers are started.
Launch ==
    /\ phase = "launch"
    /\ ctx' = [op \in Operations |-> Statements(op)]
    /\ worker' = [w \in Workers |-> Waiting]
    /\ phase' = "run"
    /\ UNCHANGED <<environment, db, stopped, shutdown, todo, profile, children_of, fk_chains,
                   models, mapped, failure, dropped>>

ShutDown ==
    /\ phase = "run"
    /\ shutdown
    /\ phase' = "join"
    /\ todo' = SetToSeq(Workers)
    /\ UNCHANGED <<environment, db, stopped, shutdown, findings, worker, failure, dropped>>

\* Mutant: the joins have no timeout.
JoinForever ==
    /\ phase = "join"
    /\ todo # <<>>
    /\ worker[Head(todo)] = Ended
    /\ todo' = Tail(todo)
    /\ UNCHANGED <<environment, db, stopped, shutdown, phase, findings, worker, failure, dropped>>

\* A worker has ended, or five seconds have passed.
Join ==
    /\ phase = "join"
    /\ todo # <<>>
    /\ todo' = Tail(todo)
    /\ UNCHANGED <<environment, db, stopped, shutdown, phase, findings, worker, failure, dropped>>

\* The end of the process takes the workers that are still there with it.
Exit ==
    /\ phase = "join"
    /\ todo = <<>>
    /\ phase' = "done"
    /\ worker' = [w \in Workers |-> Ended]
    /\ UNCHANGED <<environment, db, stopped, shutdown, todo, findings, failure, dropped>>

\* Docker starts an ended process again, unless it was told to stop.
Relaunch ==
    /\ phase \in {"done", "failed"}
    /\ ~stopped
    /\ phase' = "wait"
    /\ shutdown' = FALSE
    /\ todo' = <<>>
    /\ profile' = [t \in {} |-> <<>>]
    /\ fk_chains' = <<>>
    /\ children_of' = [t \in Tables |-> <<>>]
    /\ models' = {} /\ mapped' = {}
    /\ ctx' = [op \in Operations |-> {}]
    /\ failure' = Waiting
    /\ dropped' = {}
    /\ UNCHANGED <<environment, db, stopped, worker>>

-----------------------------------------------------------------------------
(* The other threads, and the world *)

\* handle_signal
Signal ==
    /\ ~stopped
    /\ stopped' = TRUE
    /\ shutdown' = TRUE
    /\ UNCHANGED <<environment, db, Main, worker, failure, dropped>>

Timer ==
    /\ duration
    /\ phase = "run"
    /\ ~shutdown
    /\ shutdown' = TRUE
    /\ UNCHANGED <<environment, db, stopped, Main, worker, failure, dropped>>

Begin(w, op) ==
    /\ worker[w] = Waiting
    /\ ~shutdown
    /\ \E s \in ctx[op] :
           worker' = [worker EXCEPT ![w] = [at |-> "running", writes |-> op \in Writes,
                                            tables |-> s.tables, wrong |-> s.wrong]]
    /\ UNCHANGED <<environment, db, stopped, shutdown, Main, failure, dropped>>

\* A statement fails on a table that is not there or has no class, and when it asks for
\* what is not to be had; a write may fail on the rows: a key nobody generates, a unique
\* column, an identifier of another type.
Raises(o) == o.wrong \/ ~(o.tables \subseteq db) \/ \E t \in o.tables : ~HasClass(t)
MayRaise(o) == o.writes /\ o.tables # {}

\* The operation ends, whenever the database lets it, and is counted.
Finish(w) ==
    /\ worker[w].at = "running"
    /\ \/ /\ Raises(worker[w]) \/ MayRaise(worker[w])
          /\ failure' = worker[w]
       \/ /\ ~Raises(worker[w])
          /\ UNCHANGED failure
    /\ worker' = [worker EXCEPT ![w] = Waiting]
    /\ UNCHANGED <<environment, db, stopped, shutdown, Main, dropped>>

WorkerEnds(w) ==
    /\ worker[w] = Waiting
    /\ shutdown
    /\ worker' = [worker EXCEPT ![w] = Ended]
    /\ UNCHANGED <<environment, db, stopped, shutdown, Main, failure, dropped>>

\* A migration drops a table, and with it the keys that refer to it.
Drop(t) ==
    /\ t \in db
    /\ Cardinality(Tables \ db) < MaxDrops
    /\ db' = db \ {t}
    /\ dropped' = IF models = {} THEN dropped ELSE dropped \cup {t}
    /\ UNCHANGED <<environment, stopped, shutdown, Main, worker, failure>>

Rows ==
    /\ ~data
    /\ data' = TRUE
    /\ UNCHANGED <<schema, duration, db, stopped, shutdown, Main, worker, failure, dropped>>

MainStep ==
    \/ WaitForData \/ Introspect \/ Introspected \/ Reflect \/ Prepare \/ Launch
    \/ ShutDown \/ Join \/ Exit

OrmNext ==
    \/ MainStep
    \/ Relaunch
    \/ Signal
    \/ Timer
    \/ \E w \in Workers : \/ \E op \in Operations : Begin(w, op)
                          \/ Finish(w)
                          \/ WorkerEnds(w)
    \/ \E t \in Tables : Drop(t)
    \/ Rows

\* The main thread goes on, the timer runs out, and Docker keeps its policy; an
\* operation may wait for the database for ever.
OrmSpec == OrmInit /\ [][OrmNext]_ormVars /\ WF_ormVars(MainStep) /\ WF_ormVars(Timer) /\ WF_ormVars(Relaunch)

-----------------------------------------------------------------------------
(* Properties *)

\* walk_chains, the removal of duplicates and the sort (introspect.py:247-275): the
\* chains are all the simple paths along the keys of 2 to MaxDepth + 1 tables, each
\* of them once, the longest first.
ChainsRight ==
    phase \in {"reflect", "prepare", "launch", "run"} =>
        /\ ToSet(fk_chains) =
             {c \in BoundedSeq(DOMAIN profile, MaxDepth + 1) :
                 /\ Len(c) >= 2 /\ IsInjective(c)
                 /\ \A i \in 1..(Len(c) - 1) : c[i] \in ToSet(profile[c[i + 1]])}
        /\ IsInjective(fk_chains)
        /\ \A i, j \in DOMAIN fk_chains : i < j => Len(fk_chains[i]) >= Len(fk_chains[j])

\* What the passes found may differ, and from the classes the library makes: still an
\* operation that reads fails only on a table that was dropped after the first reflection,
\* or when it asks what is not to be had; and it does so only of two tables that refer to
\* each other (an exists filter) or of one that has an array among its numbers (a sum).
ErrorsExplained ==
    LET o == failure IN
    \/ o = Waiting \/ o.writes
    \/ o.tables \cap dropped # {}
    \/ /\ o.wrong
       /\ \/ \E p, k \in o.tables : /\ p # k
                                    /\ p \in ToSet(schema[k].fks)
                                    /\ k \in ToSet(schema[p].fks)
          \/ \E t \in o.tables : o.tables = {t} /\ "array" \in schema[t].numeric

\* Told to stop, or its duration over, the process ends, whatever its workers are
\* waiting for.
MainEnds ==
    /\ stopped ~> (phase \in {"done", "failed"})
    /\ (duration /\ phase = "run") ~> (phase \in {"done", "failed"})

\* A process that a migration made fail comes back and gets to its work, unless it is
\* told to stop or the rows never come.
ComesToWork == (phase = "failed" /\ data) ~> (phase = "run" \/ stopped)

=============================================================================
