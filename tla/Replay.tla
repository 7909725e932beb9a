-------------------------------- MODULE Replay --------------------------------
(***************************************************************************)
(* The replay engine of the control plane: one object, shared by the       *)
(* threads that serve /replay/start and /replay/stop, and the worker       *)
(* threads a start spawns.  No lock protects the engine; its fields are    *)
(* read and rebound one statement at a time, and every worker uses the     *)
(* statistics that are current when its query ends.                        *)
(*                                                                         *)
(* A "generation" is one statistics dictionary, created by one start; the  *)
(* counters in it are abstracted to the set of generations whose workers   *)
(* have counted in it.  Bound: MaxCalls calls in all.                      *)
(***************************************************************************)
EXTENDS Naturals, Sequences

CONSTANTS
    Clients,      \* concurrent callers of the control plane
    Sets,         \* imported query sets; no two share a query id
    Concurrency,  \* workers a start spawns
    Durations,    \* whether a start names a duration: a set of Booleans
    MaxCalls

ASSUME ReplayAssumption ==
    /\ Sets # {}
    /\ Concurrency \in Nat \ {0}
    /\ Durations \subseteq BOOLEAN
    /\ MaxCalls \in Nat

\* Where a handler stands: the statement it executes next.
Stage == {"idle", "check", "arm", "prepare", "launch", "spawn", "append",
          "signal", "join", "release", "save", "done"}

Handler == [op : {"start", "stop"}, set : Sets, timed : BOOLEAN, gen : Nat,
            thread : Nat, list : Nat, next : Nat, outcome : {"ok", "refused", "failed"}]

\* "lost": ended by an exception out of its loop, "dead": in any other way.
Worker == [gen : Nat, timed : BOOLEAN, at : {"connect", "loop", "query", "dead", "lost"}]

VARIABLES
    running, stopEvent,   \* engine.running, engine.stop_event
    stats,                \* every statistics dictionary; the last is engine.stats
    lists,                \* every list of threads; the last is engine._threads
    workers,              \* the worker threads, in the order they were spawned
    gaveUp,               \* has a join ever ended before its worker (a history)
    results,              \* what table replay_results holds, a record per save
    stage, handler, calls

engineVars == <<running, stopEvent, stats, lists, gaveUp>>
callVars == <<stage, handler, calls>>
vars == <<engineVars, workers, results, callVars>>

Init ==
    /\ running = FALSE
    /\ stopEvent = FALSE
    /\ stats = <<>>
    /\ lists = <<<<>>>>
    /\ workers = <<>>
    /\ gaveUp = FALSE
    /\ results = <<>>
    /\ stage = [c \in Clients |-> "idle"]
    /\ handler = [c \in Clients |->
                    [op |-> "stop", set |-> CHOOSE s \in Sets : TRUE,
                     timed |-> FALSE, gen |-> 0, thread |-> 0, list |-> 0, next |-> 1,
                     outcome |-> "ok"]]
    /\ calls = 0

Goto(c, s) == stage' = [stage EXCEPT ![c] = s]
Finish(c, outcome) ==
    /\ Goto(c, "done")
    /\ handler' = [handler EXCEPT ![c].outcome = outcome]

-----------------------------------------------------------------------------
(* The handlers.  A call arrives: *)

Call(c) ==
    /\ stage[c] = "idle"
    /\ calls < MaxCalls
    /\ calls' = calls + 1
    /\ Goto(c, "check")
    /\ \E op \in {"start", "stop"}, s \in Sets, timed \in Durations :
         /\ op = "stop" => s = handler[c].set /\ timed = handler[c].timed
         /\ handler' = [handler EXCEPT ![c] =
              [op |-> op, set |-> s, timed |-> timed, gen |-> Len(stats), thread |-> 0,
               list |-> 0, next |-> 1, outcome |-> "ok"]]
    /\ UNCHANGED <<engineVars, workers, results>>

\* start: refused while a replay runs or when the set has no queries left.
CheckStart(c) ==
    /\ stage[c] = "check"
    /\ handler[c].op = "start"
    /\ \/ /\ ~running
          /\ Goto(c, "arm")
          /\ UNCHANGED handler
       \/ Finish(c, "refused")
    /\ UNCHANGED <<engineVars, workers, results, calls>>

Arm(c) ==
    /\ stage[c] = "arm"
    /\ running' = TRUE
    /\ Goto(c, "prepare")
    /\ UNCHANGED <<stopEvent, stats, lists, workers, gaveUp, results, handler, calls>>

\* The event is cleared; fresh statistics, totals and configuration.
Prepare(c) ==
    /\ stage[c] = "prepare"
    /\ stopEvent' = FALSE
    /\ stats' = Append(stats, [set |-> handler[c].set, by |-> {}])
    /\ handler' = [handler EXCEPT ![c].gen = Len(stats')]
    /\ Goto(c, "launch")
    /\ UNCHANGED <<running, lists, workers, gaveUp, results, calls>>

Launch(c) ==
    /\ stage[c] = "launch"
    /\ lists' = Append(lists, <<>>)
    /\ Goto(c, "spawn")
    /\ UNCHANGED <<running, stopEvent, stats, workers, gaveUp, results, handler, calls>>

\* One worker is started ...
Spawn(c) ==
    LET h == handler[c] IN
    /\ stage[c] = "spawn"
    /\ h.next <= Concurrency
    /\ workers' = Append(workers,
                    [gen |-> h.gen, timed |-> h.timed, at |-> "connect"])
    /\ handler' = [handler EXCEPT ![c].thread = Len(workers')]
    /\ Goto(c, "append")
    /\ UNCHANGED <<engineVars, results, calls>>

\* ... unless the process can have no more threads: the exception ends the call,
\* and the engine goes on running with the workers it has.
SpawnFails(c) ==
    /\ stage[c] = "spawn"
    /\ handler[c].next <= Concurrency
    /\ Finish(c, "failed")
    /\ UNCHANGED <<engineVars, workers, results, calls>>

\* ... and appended to whatever list is engine._threads by then.
AppendThread(c) ==
    /\ stage[c] = "append"
    /\ lists' = [lists EXCEPT ![Len(lists)] = Append(@, handler[c].thread)]
    /\ handler' = [handler EXCEPT ![c].next = @ + 1]
    /\ Goto(c, "spawn")
    /\ UNCHANGED <<running, stopEvent, stats, workers, gaveUp, results, calls>>

Started(c) ==
    /\ stage[c] = "spawn"
    /\ handler[c].next > Concurrency
    /\ Goto(c, "done")
    /\ UNCHANGED <<engineVars, workers, results, handler, calls>>

\* stop: nothing to do when no replay runs.
CheckStop(c) ==
    /\ stage[c] = "check"
    /\ handler[c].op = "stop"
    /\ \/ /\ running
          /\ Goto(c, "signal")
          /\ UNCHANGED handler
       \/ /\ ~running
          /\ Finish(c, "refused")
    /\ UNCHANGED <<engineVars, workers, results, calls>>

\* Mutant: the event is not set.
SignalNoEvent(c) ==
    /\ stage[c] = "signal"
    /\ handler' = [handler EXCEPT ![c].list = Len(lists)]
    /\ Goto(c, "join")
    /\ UNCHANGED <<engineVars, workers, results, calls>>

\* Mutant: the results are saved before the workers are joined.
SignalNoJoin(c) ==
    /\ stage[c] = "signal"
    /\ stopEvent' = TRUE
    /\ handler' = [handler EXCEPT ![c].list = Len(lists)]
    /\ Goto(c, "release")
    /\ UNCHANGED <<running, stats, lists, workers, gaveUp, results, calls>>

\* The event is set and the loop takes hold of the current list of threads.
Signal(c) ==
    /\ stage[c] = "signal"
    /\ stopEvent' = TRUE
    /\ handler' = [handler EXCEPT ![c].list = Len(lists)]
    /\ Goto(c, "join")
    /\ UNCHANGED <<running, stats, lists, workers, gaveUp, results, calls>>

Ended == {"dead", "lost"}
Joined(c) == lists[handler[c].list]
JoinsNow(c) == workers[Joined(c)[handler[c].next]]

\* Mutant: the last worker of the list is not joined.
JoinLeavesLast(c) ==
    /\ stage[c] = "join"
    /\ \/ /\ handler[c].next < Len(Joined(c))
          /\ handler' = [handler EXCEPT ![c].next = @ + 1]
          /\ gaveUp' = (gaveUp \/ JoinsNow(c).at \notin Ended)
          /\ UNCHANGED stage
       \/ /\ handler[c].next >= Len(Joined(c))
          /\ Goto(c, "release")
          /\ UNCHANGED <<handler, gaveUp>>
    /\ UNCHANGED <<running, stopEvent, stats, lists, workers, results, calls>>

\* Each worker of the list, as long as the list has become, is waited for until
\* it is dead or the five seconds are over, in a long query perhaps.
Join(c) ==
    /\ stage[c] = "join"
    /\ \/ /\ handler[c].next <= Len(Joined(c))
          /\ handler' = [handler EXCEPT ![c].next = @ + 1]
          /\ gaveUp' = (gaveUp \/ JoinsNow(c).at \notin Ended)
          /\ UNCHANGED stage
       \/ /\ handler[c].next > Len(Joined(c))
          /\ Goto(c, "release")
          /\ UNCHANGED <<handler, gaveUp>>
    /\ UNCHANGED <<running, stopEvent, stats, lists, workers, results, calls>>

Release(c) ==
    /\ stage[c] = "release"
    /\ running' = FALSE
    /\ Goto(c, "save")
    /\ UNCHANGED <<stopEvent, stats, lists, workers, gaveUp, results, handler, calls>>

\* Mutant: nothing is saved unless every worker has ended.
SaveIfDrained(c) ==
    /\ stage[c] = "save"
    /\ results' = IF \A i \in DOMAIN Joined(c) : workers[Joined(c)[i]].at \in Ended
                    THEN Append(results, [gen |-> Len(stats)])
                    ELSE results
    /\ Goto(c, "done")
    /\ UNCHANGED <<engineVars, workers, handler, calls>>

\* A row for each query of the statistics that are current by now, if any.
Save(c) ==
    /\ stage[c] = "save"
    /\ results' = IF stats = <<>> THEN results
                  ELSE Append(results, [gen |-> Len(stats)])
    /\ Goto(c, "done")
    /\ UNCHANGED <<engineVars, workers, handler, calls>>

Return(c) ==
    /\ stage[c] = "done"
    /\ Goto(c, "idle")
    /\ UNCHANGED <<engineVars, workers, results, handler, calls>>

-----------------------------------------------------------------------------
(* The workers *)

Move(w, to) == workers' = [workers EXCEPT ![w].at = to]

\* The connection is opened, or fails and the thread ends.
Connect(w) ==
    /\ workers[w].at = "connect"
    /\ \E to \in {"loop", "dead"} : Move(w, to)
    /\ UNCHANGED <<engineVars, results, callVars>>

\* Mutant: the event is not looked at.
LoopIgnoresEvent(w) ==
    /\ workers[w].at = "loop"
    /\ \/ Move(w, "query")
       \/ workers[w].timed /\ Move(w, "dead")
    /\ UNCHANGED <<engineVars, results, callVars>>

\* The top of the loop: the event, the duration, a query.
Loop(w) ==
    /\ workers[w].at = "loop"
    /\ \/ stopEvent /\ Move(w, "dead")
       \/ workers[w].timed /\ Move(w, "dead")
       \/ ~stopEvent /\ Move(w, "query")
    /\ UNCHANGED <<engineVars, results, callVars>>

\* A query ends, well or with an error, and is counted in the statistics that
\* are current; when they are of another set the KeyError, raised again in the
\* exception handler, ends the thread.
Count(w) ==
    LET g == workers[w].gen IN
    /\ workers[w].at = "query"
    /\ \/ /\ stats[Len(stats)].set = stats[g].set
          /\ stats' = [stats EXCEPT ![Len(stats)].by = @ \cup {g}]
          /\ Move(w, "loop")
       \/ /\ stats[Len(stats)].set # stats[g].set
          /\ Move(w, "lost")
          /\ UNCHANGED stats
    /\ UNCHANGED <<running, stopEvent, lists, gaveUp, results, callVars>>

-----------------------------------------------------------------------------

Step(c) ==
    \/ CheckStart(c) \/ Arm(c) \/ Prepare(c) \/ Launch(c)
    \/ Spawn(c) \/ SpawnFails(c) \/ AppendThread(c) \/ Started(c)
    \/ CheckStop(c) \/ Signal(c) \/ Join(c) \/ Release(c) \/ Save(c)
    \/ Return(c)

Work(w) == Connect(w) \/ Loop(w) \/ Count(w)

Next ==
    \/ \E c \in Clients : Call(c) \/ Step(c)
    \/ \E w \in DOMAIN workers : Work(w)

\* The pool's threads and the worker threads are scheduled, and every query
\* ends some day.
Fairness ==
    /\ \A c \in Clients : WF_vars(Step(c))
    /\ \A w \in 1..(MaxCalls * Concurrency) :
          WF_vars(w \in DOMAIN workers /\ Work(w))

Spec == Init /\ [][Next]_vars
FairSpec == Spec /\ Fairness

-----------------------------------------------------------------------------
(* Properties *)

\* Every variable keeps its shape, whatever the calls and the workers do.
TypeOK ==
    /\ running \in BOOLEAN
    /\ stopEvent \in BOOLEAN
    /\ stats \in Seq([set : Sets, by : SUBSET Nat])
    /\ lists \in Seq(Seq(Nat))
    /\ workers \in Seq(Worker)
    /\ gaveUp \in BOOLEAN
    /\ results \in Seq([gen : Nat])
    /\ stage \in [Clients -> Stage]
    /\ handler \in [Clients -> Handler]
    /\ calls \in Nat

Alive == {w \in DOMAIN workers : workers[w].at \notin Ended}

\* The statistics of a replay count the queries of its own workers only, unless
\* a stop gave a worker up.
OwnCounts == ~gaveUp => \A g \in DOMAIN stats : stats[g].by \subseteq {g}

\* A replay keeps the workers it has until it is stopped: none is killed by the
\* KeyError of a replay of another set, unless a stop gave a worker up.
NoneLost == (\E w \in DOMAIN workers : workers[w].at = "lost") => gaveUp

\* The results of a replay outlive the stop that ends it: a stop that answers
\* "stopped" leaves the statistics that were current when it was called saved.
StopSavesResults ==
    \A c \in Clients :
        /\ stage[c] = "done" /\ handler[c].op = "stop"
        /\ handler[c].outcome = "ok" /\ handler[c].gen # 0
        => \E i \in DOMAIN results : results[i].gen = handler[c].gen

\* Workers that nothing has told to end can be told to: unless a call is under
\* way, they belong to a replay that a stop does not refuse.
Stoppable ==
    (\A c \in Clients : stage[c] = "idle") /\ Alive # {} /\ ~stopEvent => running

\* Once the replay is stopped for good, every worker ends, those of earlier
\* replays and those that were never joined too.
DrainAfterStop == <>[]stopEvent => <>[](Alive = {})
=============================================================================
