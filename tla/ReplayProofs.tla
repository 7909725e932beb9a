----------------------------- MODULE ReplayProofs -----------------------------
(***************************************************************************)
(* What holds of the replay engine for any callers, query sets, numbers of *)
(* workers and calls: its types, with every reference to a generation, a   *)
(* list or a worker naming one that exists; counts mixed within a query    *)
(* set only; and, when calls come one at a time, a saved row for every     *)
(* stopped replay, exactly one, and no live worker beyond a stop's reach.  *)
(***************************************************************************)
EXTENDS Replay, SequenceTheorems, TLAPS

-----------------------------------------------------------------------------
(* Typing *)

ListsExist == Len(lists) >= 1
WorkersRefer == \A w \in DOMAIN workers : workers[w].gen \in DOMAIN stats
StartsRefer ==
    \A c \in Clients :
        stage[c] \in {"launch", "spawn", "append"} => handler[c].gen \in DOMAIN stats
CountsRefer == \A g \in DOMAIN stats : stats[g].by \subseteq DOMAIN stats

IInv ==
    /\ TypeOK
    /\ ListsExist
    /\ WorkersRefer
    /\ StartsRefer
    /\ CountsRefer

\* Initially nothing has been started.
LEMMA InitIInv == Init => IInv
<1> SUFFICES ASSUME Init PROVE IInv
  OBVIOUS
<1>1. TypeOK
  <2>1. lists \in Seq(Seq(Nat)) /\ stats = <<>> /\ workers = <<>> /\ results = <<>>
    BY DEF Init
  <2>2. stage \in [Clients -> Stage]
    BY DEF Init, Stage
  <2>3. handler \in [Clients -> Handler]
    BY ReplayAssumption DEF Init, Handler
  <2>4. /\ stats \in Seq([set : Sets, by : SUBSET Nat])
        /\ workers \in Seq(Worker)
        /\ results \in Seq([gen : Nat])
    <3>1. \A S : <<>> \in Seq(S)
      OBVIOUS
    <3> QED
      BY <2>1, <3>1
  <2> QED
    BY <2>1, <2>2, <2>3, <2>4 DEF TypeOK, Init
<1>2. ListsExist
  BY DEF Init, ListsExist
<1>3. WorkersRefer /\ StartsRefer /\ CountsRefer
  BY DEF Init, WorkersRefer, StartsRefer, CountsRefer
<1> QED
  BY <1>1, <1>2, <1>3 DEF IInv

\* A handler moving to a stage that refers to nothing keeps the references.
LEMMA GotoType ==
    ASSUME NEW c \in Clients, NEW s \in Stage, TypeOK, Goto(c, s)
    PROVE  stage' \in [Clients -> Stage]
BY DEF TypeOK, Goto

LEMMA FinishType ==
    ASSUME NEW c \in Clients, NEW o \in {"ok", "refused", "failed"}, TypeOK, Finish(c, o)
    PROVE  /\ stage' \in [Clients -> Stage]
           /\ handler' \in [Clients -> Handler]
           /\ StartsRefer /\ UNCHANGED stats => StartsRefer'
<1>1. stage' \in [Clients -> Stage]
  BY DEF TypeOK, Finish, Goto, Stage
<1>2. handler' \in [Clients -> Handler]
  BY ZenonT(40) DEF TypeOK, Finish, Handler
<1>3. ASSUME StartsRefer, UNCHANGED stats PROVE StartsRefer'
  BY <1>3 DEF StartsRefer, TypeOK, Finish, Goto, Handler
<1> QED
  BY <1>1, <1>2, <1>3

LEMMA HandlerTypes ==
    ASSUME TypeOK, NEW c \in Clients, NEW n \in Nat
    PROVE  /\ [handler EXCEPT ![c].gen = n] \in [Clients -> Handler]
           /\ [handler EXCEPT ![c].list = n] \in [Clients -> Handler]
           /\ [handler EXCEPT ![c].thread = n] \in [Clients -> Handler]
           /\ [handler EXCEPT ![c].next = n] \in [Clients -> Handler]
           /\ handler[c].next + 1 \in Nat
<1>1. handler \in [Clients -> Handler] /\ handler[c] \in Handler
  BY DEF TypeOK
<1>2. /\ [handler[c] EXCEPT !.gen = n] \in Handler
      /\ [handler[c] EXCEPT !.list = n] \in Handler
      /\ [handler[c] EXCEPT !.thread = n] \in Handler
      /\ [handler[c] EXCEPT !.next = n] \in Handler
      /\ handler[c].next \in Nat
  BY <1>1 DEF Handler
<1> QED
  BY <1>1, <1>2

LEMMA CallKeeps ==
    ASSUME NEW c \in Clients, IInv, Call(c) PROVE IInv'
<1> USE DEF IInv
<1>1. PICK op \in {"start", "stop"}, s \in Sets, timed \in BOOLEAN :
        handler' = [handler EXCEPT ![c] =
              [op |-> op, set |-> s, timed |-> timed, gen |-> Len(stats), thread |-> 0,
               list |-> 0, next |-> 1, outcome |-> "ok"]]
  BY ReplayAssumption DEF Call
<1>2. Len(stats) \in Nat
  BY DEF TypeOK
<1>3. handler' \in [Clients -> Handler]
  BY <1>1, <1>2 DEF TypeOK, Handler
<1>4. stage' \in [Clients -> Stage]
  BY GotoType DEF Call, Stage
<1>5. calls' \in Nat
  BY DEF Call, TypeOK
<1>6. TypeOK'
  BY <1>3, <1>4, <1>5 DEF Call, TypeOK, engineVars
<1>7. StartsRefer'
  BY <1>1 DEF Call, StartsRefer, Goto, TypeOK, engineVars
<1> QED
  BY <1>6, <1>7 DEF Call, engineVars, ListsExist, WorkersRefer, CountsRefer

\* Steps that change neither the statistics, the lists nor the workers.
LEMMA QuietStepKeeps ==
    ASSUME NEW c \in Clients, IInv,
           CheckStart(c) \/ Arm(c) \/ SpawnFails(c) \/ Started(c) \/ CheckStop(c)
             \/ Signal(c) \/ Join(c) \/ Release(c) \/ Save(c) \/ Return(c)
    PROVE  IInv'
<1> USE DEF IInv
<1>0. UNCHANGED <<stats, lists, workers, calls>>
  BY DEF CheckStart, Arm, SpawnFails, Started, CheckStop, Signal, Join, Release, Save, Return,
         engineVars
<1>1. handler' \in [Clients -> Handler]
  <2>1. CASE UNCHANGED handler
    BY <2>1 DEF TypeOK
  <2>2. CASE \E o \in {"ok", "refused", "failed"} : Finish(c, o)
    BY <2>2, FinishType
  <2>3. CASE Signal(c)
    <3>1. Len(lists) \in Nat
      BY DEF TypeOK
    <3> QED BY ZenonT(40), <2>3, <3>1 DEF Signal, TypeOK, Handler
  <2>4. CASE Join(c)
    <3>1. UNCHANGED handler \/ handler' = [handler EXCEPT ![c].next = handler[c].next + 1]
      BY <2>4 DEF Join
    <3> DEFINE k == handler[c].next + 1
    <3>2. k \in Nat
      BY HandlerTypes
    <3> HIDE DEF k
    <3>3. [handler EXCEPT ![c].next = k] \in [Clients -> Handler]
      BY <3>2, HandlerTypes
    <3> QED BY <3>1, <3>3 DEF TypeOK, k
  <2> QED
    BY <2>1, <2>2, <2>3, <2>4 DEF CheckStart, Arm, SpawnFails, Started, CheckStop, Release, Save, Return
<1>2. stage' \in [Clients -> Stage]
  <2>1. \A s \in Stage : Goto(c, s) => stage' \in [Clients -> Stage]
    BY GotoType
  <2>2. \/ UNCHANGED stage
        \/ \E s \in Stage : Goto(c, s)
    BY DEF CheckStart, Arm, SpawnFails, Started, CheckStop, Signal, Join, Release, Save, Return,
           Finish, Stage
  <2> QED
    BY <2>1, <2>2 DEF TypeOK
<1>3. results' \in Seq([gen : Nat])
  <2>1. CASE UNCHANGED results
    BY <2>1 DEF TypeOK
  <2>2. CASE Save(c)
    <3>1. Len(stats) \in Nat
      BY DEF TypeOK
    <3>2. results' = results \/ results' = Append(results, [gen |-> Len(stats)])
      BY <2>2 DEF Save
    <3>3. [gen |-> Len(stats)] \in [gen : Nat]
      BY <3>1
    <3>4. results \in Seq([gen : Nat])
      BY DEF TypeOK
    <3> DEFINE row == [gen |-> Len(stats)]
               S == [gen : Nat]
    <3>5. row \in S /\ results \in Seq(S) /\ (results' = results \/ results' = Append(results, row))
      BY <3>2, <3>3, <3>4
    <3> HIDE DEF row, S
    <3>6. results' \in Seq(S)
      BY <3>5
    <3> QED BY <3>6 DEF S
  <2> QED
    BY <2>1, <2>2 DEF CheckStart, Arm, SpawnFails, Started, CheckStop, Signal, Join, Release, Return
<1>4. running' \in BOOLEAN /\ stopEvent' \in BOOLEAN /\ gaveUp' \in BOOLEAN
  <2>1. CASE Join(c)
    BY <2>1 DEF Join, TypeOK
  <2>2. CASE UNCHANGED gaveUp
    BY <2>2 DEF CheckStart, Arm, SpawnFails, Started, CheckStop, Signal, Join, Release, Save, Return,
         engineVars, TypeOK
  <2> QED
    BY <2>1, <2>2 DEF CheckStart, Arm, SpawnFails, Started, CheckStop, Signal, Release, Save, Return,
         engineVars
<1>5. TypeOK'
  BY <1>0, <1>1, <1>2, <1>3, <1>4 DEF TypeOK
<1>6. StartsRefer'
  <2>1. SUFFICES ASSUME NEW d \in Clients, stage'[d] \in {"launch", "spawn", "append"}
                 PROVE  stage[d] = stage'[d] /\ handler'[d] = handler[d]
    BY <1>0 DEF StartsRefer
  <2> QED
    BY <2>1 DEF CheckStart, Arm, SpawnFails, Started, CheckStop, Signal, Join, Release, Save, Return,
           Finish, Goto, TypeOK
<1> QED
  BY <1>0, <1>5, <1>6 DEF ListsExist, WorkersRefer, CountsRefer

LEMMA PrepareKeeps ==
    ASSUME NEW c \in Clients, IInv, Prepare(c) PROVE IInv'
<1> USE DEF IInv
<1>1. PICK n \in Nat : n = Len(stats)
  BY DEF TypeOK
<1> DEFINE new == [set |-> handler[c].set, by |-> {}]
<1>2. new \in [set : Sets, by : SUBSET Nat]
  BY DEF TypeOK, Handler
<1>3. stats' = Append(stats, new)
  BY DEF Prepare
<1> HIDE DEF new
<1>4. /\ stats' \in Seq([set : Sets, by : SUBSET Nat])
      /\ DOMAIN stats = 1 .. n
      /\ Len(stats') = n + 1
      /\ DOMAIN stats' = 1 .. n + 1
      /\ \A g \in 1 .. n : stats'[g] = stats[g]
      /\ stats'[n + 1] = new
  BY <1>1, <1>2, <1>3 DEF TypeOK
<1>5. handler' = [handler EXCEPT ![c].gen = n + 1]
  BY <1>4 DEF Prepare
<1>6. handler' \in [Clients -> Handler]
  <2>1. n + 1 \in Nat
    OBVIOUS
  <2>2. [handler EXCEPT ![c].gen = n + 1] \in [Clients -> Handler]
    BY <2>1, HandlerTypes
  <2> QED BY <1>5, <2>2
<1>7. stage' \in [Clients -> Stage]
  BY GotoType DEF Prepare, Stage
<1>8. TypeOK'
  BY <1>4, <1>6, <1>7 DEF TypeOK, Prepare
<1>9. StartsRefer'
  <2>1. SUFFICES ASSUME NEW d \in Clients, stage'[d] \in {"launch", "spawn", "append"}
                 PROVE  handler'[d].gen \in 1 .. n + 1
    BY <1>4 DEF StartsRefer
  <2>2. CASE d = c
    BY <1>5, <2>2 DEF TypeOK, Handler
  <2>3. CASE d # c
    BY <1>4, <1>5, <2>1, <2>3 DEF StartsRefer, Prepare, Goto, TypeOK
  <2> QED BY <2>2, <2>3
<1>10. CountsRefer'
  <2>1. new.by = {}
    BY DEF new
  <2> QED
    BY <1>4, <2>1 DEF CountsRefer
<1>11. WorkersRefer'
  BY <1>4 DEF WorkersRefer, Prepare
<1> QED
  BY <1>8, <1>9, <1>10, <1>11 DEF ListsExist, Prepare

LEMMA LaunchKeeps ==
    ASSUME NEW c \in Clients, IInv, Launch(c) PROVE IInv'
<1> USE DEF IInv
<1>1. lists' \in Seq(Seq(Nat)) /\ Len(lists') = Len(lists) + 1
  BY DEF Launch, TypeOK
<1>2. stage' \in [Clients -> Stage]
  BY GotoType DEF Launch, Stage
<1>3. TypeOK'
  BY <1>1, <1>2 DEF TypeOK, Launch
<1>4. ListsExist'
  BY <1>1 DEF ListsExist, TypeOK
<1>5. StartsRefer'
  BY DEF StartsRefer, Launch, Goto, TypeOK
<1> QED
  BY <1>3, <1>4, <1>5 DEF Launch, WorkersRefer, CountsRefer

LEMMA SpawnKeeps ==
    ASSUME NEW c \in Clients, IInv, Spawn(c) PROVE IInv'
<1> USE DEF IInv
<1>1. PICK n \in Nat : n = Len(workers)
  BY DEF TypeOK
<1> DEFINE new == [gen |-> handler[c].gen, timed |-> handler[c].timed, at |-> "connect"]
<1>2. new \in Worker /\ new.gen = handler[c].gen
  BY DEF TypeOK, Handler, Worker
<1>3. workers' = Append(workers, new)
  BY DEF Spawn
<1> HIDE DEF new
<1>4. /\ workers' \in Seq(Worker)
      /\ DOMAIN workers = 1 .. n
      /\ Len(workers') = n + 1
      /\ DOMAIN workers' = 1 .. n + 1
      /\ \A w \in 1 .. n : workers'[w] = workers[w]
      /\ workers'[n + 1] = new
  BY <1>1, <1>2, <1>3 DEF TypeOK
<1>5. UNCHANGED lists
  BY DEF Spawn, engineVars
<1>6. handler' \in [Clients -> Handler] /\ stage' \in [Clients -> Stage]
  <2>1. n + 1 \in Nat
    OBVIOUS
  <2>2. [handler EXCEPT ![c].thread = n + 1] \in [Clients -> Handler]
    BY <2>1, HandlerTypes
  <2> QED
    BY <1>4, <2>2, GotoType DEF Spawn, Stage
<1>7. TypeOK'
  BY <1>4, <1>5, <1>6 DEF TypeOK, Spawn, engineVars
<1>8. WorkersRefer'
  <2>1. handler[c].gen \in DOMAIN stats
    BY DEF StartsRefer, Spawn
  <2> QED
    BY <1>2, <1>4, <2>1 DEF WorkersRefer, Spawn, engineVars
<1>9. StartsRefer'
  BY DEF StartsRefer, Spawn, Goto, TypeOK, Handler, engineVars
<1> QED
  BY <1>5, <1>7, <1>8, <1>9 DEF Spawn, ListsExist, CountsRefer, engineVars

LEMMA AppendKeeps ==
    ASSUME NEW c \in Clients, IInv, AppendThread(c) PROVE IInv'
<1> USE DEF IInv
<1>1. PICK t \in Nat : t = handler[c].thread
  BY DEF TypeOK, Handler
<1>2. lists' \in Seq(Seq(Nat)) /\ Len(lists') = Len(lists)
  <2>1. Len(lists) \in DOMAIN lists /\ lists[Len(lists)] \in Seq(Nat)
    BY DEF TypeOK, ListsExist
  <2>2. Append(lists[Len(lists)], t) \in Seq(Nat)
    BY <2>1
  <2>3. lists' = [lists EXCEPT ![Len(lists)] = Append(lists[Len(lists)], t)]
    BY <1>1 DEF AppendThread
  <2> QED
    BY <2>1, <2>2, <2>3 DEF TypeOK
<1>3. handler' \in [Clients -> Handler]
  BY HandlerTypes DEF AppendThread
<1>4. stage' \in [Clients -> Stage]
  BY GotoType DEF AppendThread, Stage
<1>5. TypeOK'
  BY <1>2, <1>3, <1>4 DEF TypeOK, AppendThread
<1>6. StartsRefer'
  BY DEF StartsRefer, AppendThread, Goto, TypeOK, Handler
<1> QED
  BY <1>2, <1>5, <1>6 DEF AppendThread, ListsExist, WorkersRefer, CountsRefer

LEMMA WorkKeeps ==
    ASSUME NEW w \in DOMAIN workers, IInv, Work(w) PROVE IInv'
<1> USE DEF IInv
<1>0. w \in 1 .. Len(workers) /\ Len(workers) \in Nat /\ workers[w] \in Worker
  BY DEF TypeOK
<1>1. PICK to \in {"loop", "query", "dead", "lost"} : Move(w, to)
  BY DEF Work, Connect, Loop, Count
<1>2. [workers[w] EXCEPT !.at = to] \in Worker
  BY <1>0 DEF Worker
<1>3. workers' = [workers EXCEPT ![w] = [workers[w] EXCEPT !.at = to]]
  BY <1>1 DEF Move
<1>4. /\ workers' \in Seq(Worker)
      /\ DOMAIN workers' = DOMAIN workers
  BY <1>0, <1>2, <1>3 DEF TypeOK
<1>5. \A v \in DOMAIN workers : workers'[v].gen = workers[v].gen
  BY <1>0, <1>3, <1>2 DEF Worker
<1>6. CASE UNCHANGED stats
  <2>1. UNCHANGED <<running, stopEvent, lists, gaveUp, results, callVars>>
    BY DEF Work, Connect, Loop, Count, engineVars
  <2>2. TypeOK'
    BY <1>4, <1>6, <2>1 DEF TypeOK, callVars
  <2> QED
    BY <1>4, <1>5, <1>6, <2>1, <2>2
      DEF callVars, ListsExist, WorkersRefer, StartsRefer, CountsRefer
<1>7. CASE stats' # stats
  <2> DEFINE g == workers[w].gen
             last == Len(stats)
  <2>1. /\ UNCHANGED <<running, stopEvent, lists, gaveUp, results, callVars>>
        /\ stats[last].set = stats[g].set
        /\ stats' = [stats EXCEPT ![last].by = @ \cup {g}]
    BY <1>7 DEF Work, Connect, Loop, Count, engineVars
  <2>2. g \in DOMAIN stats /\ DOMAIN stats = 1 .. Len(stats) /\ last \in Nat
    BY DEF WorkersRefer, TypeOK
  <2>3. last \in DOMAIN stats /\ stats[last] \in [set : Sets, by : SUBSET Nat] /\ g \in Nat
    <3>1. last \in DOMAIN stats /\ g \in Nat
      BY <2>2
    <3>2. \A S : stats \in Seq(S) => stats[last] \in S
      BY <2>2, <3>1
    <3> QED
      BY <3>1, <3>2 DEF TypeOK
  <2> HIDE DEF g, last
  <2>4. [stats[last] EXCEPT !.by = stats[last].by \cup {g}] \in [set : Sets, by : SUBSET Nat]
    BY <2>3
  <2>5. stats' = [stats EXCEPT ![last] = [stats[last] EXCEPT !.by = stats[last].by \cup {g}]]
    BY <2>1
  <2>6. stats' \in Seq([set : Sets, by : SUBSET Nat]) /\ DOMAIN stats' = DOMAIN stats
    BY <2>3, <2>4, <2>5 DEF TypeOK
  <2>7. /\ \A h \in DOMAIN stats : stats'[h].set = stats[h].set
        /\ \A h \in DOMAIN stats : stats'[h].by =
              IF h = last THEN stats[h].by \cup {g} ELSE stats[h].by
    BY <2>3, <2>5
  <2>8. TypeOK'
    BY <1>4, <2>1, <2>6 DEF TypeOK, callVars
  <2>9. CountsRefer'
    BY <2>2, <2>6, <2>7 DEF CountsRefer
  <2> QED
    BY <1>4, <1>5, <2>1, <2>6, <2>8, <2>9
      DEF callVars, ListsExist, WorkersRefer, StartsRefer
<1> QED
  BY <1>6, <1>7

LEMMA StutterKeeps == ASSUME IInv, UNCHANGED vars PROVE IInv'
BY DEF IInv, vars, engineVars, callVars, TypeOK, ListsExist, WorkersRefer,
       StartsRefer, CountsRefer

\* The invariant is inductive.
LEMMA NextIInv == IInv /\ [Next]_vars => IInv'
<1> SUFFICES ASSUME IInv, [Next]_vars PROVE IInv'
  OBVIOUS
<1>1. ASSUME NEW c \in Clients, Call(c) PROVE IInv'
  BY <1>1, CallKeeps
<1>2. ASSUME NEW c \in Clients, Step(c) PROVE IInv'
  BY <1>2, QuietStepKeeps, PrepareKeeps, LaunchKeeps, SpawnKeeps, AppendKeeps DEF Step
<1>3. ASSUME NEW w \in DOMAIN workers, Work(w) PROVE IInv'
  BY <1>3, WorkKeeps
<1>4. CASE UNCHANGED vars
  BY <1>4, StutterKeeps
<1> QED
  BY <1>1, <1>2, <1>3, <1>4 DEF Next

\* Every variable keeps its type, and whatever a handler, a list or a worker
\* refers to exists.
THEOREM Typing == Spec => []TypeOK
<1>1. IInv => TypeOK
  BY DEF IInv
<1> QED
  BY <1>1, InitIInv, NextIInv, PTL DEF Spec

-----------------------------------------------------------------------------
(* One caller at a time, queries as slow as they like *)

OneCaller == \A c, d \in Clients : c = d

\* The statements between which the flag is up, or down.
FlagFollowsStage ==
    \A c \in Clients :
        /\ stage[c] \in {"prepare", "launch", "spawn", "append", "signal", "join", "release"}
              => running
        /\ stage[c] \in {"arm", "save"} => ~running

\* A running replay, and one about to be saved, has not been saved yet.
CurrentUnsaved ==
    \A c \in Clients :
        (running /\ stage[c] # "prepare") \/ stage[c] = "save"
            => \A i \in DOMAIN results : results[i].gen # Len(stats)

SavedExist == \A i \in DOMAIN results : results[i].gen <= Len(stats)

\* An engine that is not running has told its workers to end, if it has any.
StoppedTold == ~running => stopEvent \/ workers = <<>>
StopTells == \A c \in Clients : stage[c] \in {"join", "release"} => stopEvent

StartStages ==
    \A c \in Clients :
        stage[c] \in {"arm", "prepare", "launch", "spawn", "append"} => handler[c].op = "start"

\* A stop works on the statistics that were current when it was called.
StopKeepsStats ==
    \A c \in Clients :
        /\ handler[c].op = "stop"
        /\ stage[c] \in {"check", "signal", "join", "release", "save"}
        => handler[c].gen = Len(stats)

\* The results of a replay are saved at most once.
SavedOnce ==
    \A i, j \in DOMAIN results : results[i].gen = results[j].gen => i = j

SInv ==
    /\ OneCaller /\ IInv
    /\ FlagFollowsStage /\ CurrentUnsaved /\ SavedExist
    /\ StoppedTold /\ StopTells /\ StartStages /\ StopKeepsStats
    /\ SavedOnce /\ StopSavesResults

LEMMA InitSInv == Init /\ OneCaller => SInv
BY InitIInv DEF Init, SInv, FlagFollowsStage, CurrentUnsaved, SavedExist, StoppedTold,
     StopTells, StartStages, StopKeepsStats, SavedOnce, StopSavesResults

\* With one caller a step of one handler leaves no other handler to consider.
LEMMA OnlyHandler ==
    ASSUME NEW c \in Clients, OneCaller, IInv, NEW s \in Stage, Goto(c, s)
    PROVE  \A d \in Clients : d = c /\ stage'[d] = s
BY DEF OneCaller, Goto, IInv, TypeOK

LEMMA CallSerial ==
    ASSUME NEW c \in Clients, SInv, Call(c), IInv' PROVE SInv'
<1> USE DEF SInv
<1>1. \A d \in Clients : d = c /\ stage'[d] = "check"
  BY OnlyHandler DEF Call, Stage
<1>2. UNCHANGED <<running, stopEvent, stats, lists, workers, results>>
  BY DEF Call, engineVars
<1>3. handler'[c].gen = Len(stats)
  BY DEF Call, IInv, TypeOK
<1>4. stage[c] = "idle"
  BY DEF Call
<1>5. FlagFollowsStage' /\ StopTells' /\ StartStages' /\ StopSavesResults'
  BY <1>1 DEF FlagFollowsStage, StopTells, StartStages, StopSavesResults
<1>6. CurrentUnsaved'
  BY <1>1, <1>2, <1>4 DEF CurrentUnsaved
<1>7. SavedExist' /\ StoppedTold' /\ SavedOnce'
  BY <1>2 DEF SavedExist, StoppedTold, SavedOnce
<1>8. StopKeepsStats'
  BY <1>1, <1>2, <1>3 DEF StopKeepsStats
<1> QED
  BY <1>5, <1>6, <1>7, <1>8 DEF OneCaller

LEMMA StepSerial ==
    ASSUME NEW c \in Clients, SInv, Step(c), IInv' PROVE SInv'
<1> USE DEF SInv
<1>0. /\ \A d \in Clients : d = c
      /\ Len(stats) \in Nat
      /\ Len(results) \in Nat /\ DOMAIN results = 1 .. Len(results)
      /\ \A i \in DOMAIN results : results[i].gen \in Nat
      /\ stage \in [Clients -> Stage] /\ handler \in [Clients -> Handler]
      /\ OneCaller'
  <2>1. results \in Seq([gen : Nat]) /\ Len(stats) \in Nat
    BY DEF IInv, TypeOK
  <2>2. \A i \in DOMAIN results : results[i].gen \in Nat
    <3>1. \A S : results \in Seq(S) => \A i \in DOMAIN results : results[i] \in S
      OBVIOUS
    <3>2. \A i \in DOMAIN results : results[i] \in [gen : Nat]
      BY <2>1, <3>1
    <3> QED
      BY <3>2
  <2>3. stage \in [Clients -> Stage] /\ handler \in [Clients -> Handler]
    BY DEF IInv, TypeOK
  <2>4. (\A d \in Clients : d = c) /\ OneCaller'
    BY DEF OneCaller
  <2>5. Len(results) \in Nat /\ DOMAIN results = 1 .. Len(results)
    BY <2>1
  <2> QED
    BY <2>1, <2>2, <2>3, <2>4, <2>5
<1>1. CASE CheckStart(c) \/ CheckStop(c)
  <2>1. UNCHANGED <<running, stopEvent, stats, workers, results>>
    BY <1>1 DEF CheckStart, CheckStop, engineVars
  <2>2. CASE Finish(c, "refused")
    <3>1. stage'[c] = "done" /\ handler'[c].outcome = "refused" /\ stage[c] = "check"
      BY <1>0, <1>1, <2>2 DEF Finish, Goto, CheckStart, CheckStop, Handler
    <3> QED
      BY <1>0, <2>1, <3>1 DEF FlagFollowsStage, CurrentUnsaved, SavedExist, StoppedTold,
         StopTells, StartStages, StopKeepsStats, SavedOnce, StopSavesResults
  <2>3. CASE ~running /\ handler[c].op = "start" /\ Goto(c, "arm") /\ UNCHANGED handler
    BY <1>0, <2>1, <2>3 DEF Goto, FlagFollowsStage, CurrentUnsaved, SavedExist, StoppedTold,
       StopTells, StartStages, StopKeepsStats, SavedOnce, StopSavesResults
  <2>4. CASE running /\ stage[c] = "check" /\ Goto(c, "signal") /\ UNCHANGED handler
    BY <1>0, <2>1, <2>4 DEF Goto, FlagFollowsStage, CurrentUnsaved, SavedExist, StoppedTold,
       StopTells, StartStages, StopKeepsStats, SavedOnce, StopSavesResults
  <2> QED
    BY <1>1, <2>2, <2>3, <2>4 DEF CheckStart, CheckStop
<1>2. CASE Arm(c)
  BY <1>0, <1>2 DEF Arm, Goto, FlagFollowsStage, CurrentUnsaved, SavedExist, StoppedTold,
     StopTells, StartStages, StopKeepsStats, SavedOnce, StopSavesResults
<1>3. CASE Prepare(c)
  <2>1. stage'[c] = "launch" /\ stage[c] = "prepare" /\ handler'[c].op = handler[c].op
    BY <1>0, <1>3 DEF Prepare, Goto, Handler
  <2>2. Len(stats') = Len(stats) + 1
    BY <1>3 DEF Prepare, IInv, TypeOK
  <2>3. UNCHANGED <<running, workers, results>> /\ running
    BY <1>3, <2>1 DEF Prepare, FlagFollowsStage
  <2>4. \A i \in DOMAIN results' :
           results'[i].gen # Len(stats') /\ results'[i].gen <= Len(stats')
    BY <1>0, <2>2, <2>3 DEF SavedExist
  <2> QED
    BY <1>0, <2>1, <2>3, <2>4 DEF FlagFollowsStage, CurrentUnsaved, SavedExist, StoppedTold,
       StopTells, StartStages, StopKeepsStats, SavedOnce, StopSavesResults
<1>4. CASE Launch(c)
  BY <1>0, <1>4 DEF Launch, Goto, FlagFollowsStage, CurrentUnsaved, SavedExist, StoppedTold,
     StopTells, StartStages, StopKeepsStats, SavedOnce, StopSavesResults
<1>5. CASE Spawn(c) \/ AppendThread(c)
  <2>1. /\ UNCHANGED <<running, stopEvent, stats, results>> /\ running
        /\ stage[c] \in {"spawn", "append"} /\ stage'[c] \in {"spawn", "append"}
    BY <1>0, <1>5 DEF Spawn, AppendThread, Goto, engineVars, FlagFollowsStage
  <2>2. handler'[c].op = handler[c].op
    BY <1>0, <1>5 DEF Spawn, AppendThread, Handler
  <2> QED
    BY <1>0, <2>1, <2>2 DEF FlagFollowsStage, CurrentUnsaved, SavedExist, StoppedTold,
       StopTells, StartStages, StopKeepsStats, SavedOnce, StopSavesResults
<1>12. CASE SpawnFails(c)
  <2>1. /\ UNCHANGED <<running, stopEvent, stats, workers, results>> /\ running
        /\ stage'[c] = "done" /\ handler'[c].outcome = "failed" /\ stage[c] = "spawn"
    BY <1>0, <1>12 DEF SpawnFails, Finish, Goto, engineVars, Handler, FlagFollowsStage
  <2> QED
    BY <1>0, <2>1 DEF FlagFollowsStage, CurrentUnsaved, SavedExist, StoppedTold,
       StopTells, StartStages, StopKeepsStats, SavedOnce, StopSavesResults
<1>6. CASE Started(c)
  BY <1>0, <1>6 DEF Started, engineVars, Goto, FlagFollowsStage, CurrentUnsaved, SavedExist,
     StoppedTold, StopTells, StartStages, StopKeepsStats, SavedOnce, StopSavesResults
<1>7. CASE Signal(c)
  <2>1. handler'[c].op = handler[c].op /\ handler'[c].gen = handler[c].gen
    BY <1>0, <1>7 DEF Signal, Handler
  <2>2. /\ stage[c] = "signal" /\ stage'[c] = "join" /\ stopEvent'
        /\ UNCHANGED <<running, stats, workers, results>>
    BY <1>0, <1>7 DEF Signal, Goto
  <2> QED
    BY <1>0, <2>1, <2>2 DEF FlagFollowsStage, CurrentUnsaved, SavedExist, StoppedTold,
       StopTells, StartStages, StopKeepsStats, SavedOnce, StopSavesResults
<1>8. CASE Join(c)
  <2>1. handler'[c].op = handler[c].op /\ handler'[c].gen = handler[c].gen
    BY <1>0, <1>8 DEF Join, Handler
  <2>2. /\ stage[c] = "join" /\ stage'[c] \in {"join", "release"}
        /\ UNCHANGED <<running, stopEvent, stats, workers, results>>
    BY <1>0, <1>8 DEF Join, Goto, engineVars
  <2> QED
    BY <1>0, <2>1, <2>2 DEF FlagFollowsStage, CurrentUnsaved, SavedExist, StoppedTold,
       StopTells, StartStages, StopKeepsStats, SavedOnce, StopSavesResults
<1>9. CASE Release(c)
  BY <1>0, <1>9 DEF Release, Goto, FlagFollowsStage, CurrentUnsaved, SavedExist, StoppedTold,
     StopTells, StartStages, StopKeepsStats, SavedOnce, StopSavesResults
<1>10. CASE Save(c)
  <2>1. /\ stage[c] = "save" /\ stage'[c] = "done" /\ ~running
        /\ UNCHANGED <<running, stopEvent, stats, workers, handler>>
    BY <1>0, <1>10 DEF Save, Goto, engineVars, FlagFollowsStage
  <2>2. FlagFollowsStage' /\ CurrentUnsaved' /\ StoppedTold' /\ StopTells' /\ StartStages'
          /\ StopKeepsStats'
    BY <1>0, <2>1 DEF FlagFollowsStage, CurrentUnsaved, StoppedTold, StopTells, StartStages,
       StopKeepsStats
  <2>3. CASE stats = <<>>
    <3>1. UNCHANGED results /\ Len(stats) = 0
      BY <1>10, <2>3 DEF Save
    <3> QED
      BY <1>0, <2>1, <2>2, <3>1 DEF SavedExist, SavedOnce, StopSavesResults, StopKeepsStats
  <2>4. CASE stats # <<>>
    <3>1. /\ DOMAIN results' = 1 .. Len(results) + 1
          /\ results'[Len(results) + 1].gen = Len(stats)
          /\ \A i \in DOMAIN results : results'[i] = results[i]
      BY <1>0, <1>10, <2>4 DEF Save, IInv, TypeOK
    <3>2. SavedExist'
      BY <1>0, <2>1, <3>1 DEF SavedExist
    <3>3. \A i \in DOMAIN results : results[i].gen # Len(stats)
      BY <2>1 DEF CurrentUnsaved
    <3>4. SavedOnce'
      BY <1>0, <3>1, <3>3 DEF SavedOnce
    <3>5. StopSavesResults'
      <4>1. handler'[c].op = "stop" => handler'[c].gen = Len(stats)
        BY <2>1 DEF StopKeepsStats
      <4>2. Len(results) + 1 \in DOMAIN results'
        BY <1>0, <3>1
      <4> QED
        BY <1>0, <3>1, <4>1, <4>2 DEF StopSavesResults
    <3> QED
      BY <1>0, <2>2, <3>2, <3>4, <3>5
  <2> QED
    BY <2>3, <2>4
<1>11. CASE Return(c)
  BY <1>0, <1>11 DEF Return, engineVars, Goto, FlagFollowsStage, CurrentUnsaved, SavedExist,
     StoppedTold, StopTells, StartStages, StopKeepsStats, SavedOnce, StopSavesResults
<1> QED
  BY <1>1, <1>2, <1>3, <1>4, <1>5, <1>6, <1>7, <1>8, <1>9, <1>10, <1>11,
     <1>12 DEF Step

LEMMA WorkSerial ==
    ASSUME NEW w \in DOMAIN workers, SInv, Work(w), IInv' PROVE SInv'
<1> USE DEF SInv
<1>1. UNCHANGED <<running, stopEvent, results, stage, handler>>
  BY DEF Work, Connect, Loop, Count, engineVars, callVars
<1>2. Len(stats') = Len(stats)
  BY DEF Work, Connect, Loop, Count, engineVars, IInv, TypeOK
<1>3. workers # <<>>
  OBVIOUS
<1>4. StoppedTold'
  BY <1>1, <1>3 DEF StoppedTold
<1> QED
  BY <1>1, <1>2, <1>4 DEF OneCaller, FlagFollowsStage, CurrentUnsaved, SavedExist,
     StopTells, StartStages, StopKeepsStats, SavedOnce, StopSavesResults

LEMMA NextSInv == SInv /\ [Next]_vars => SInv'
<1> SUFFICES ASSUME SInv, [Next]_vars PROVE SInv'
  OBVIOUS
<1>1. IInv'
  BY NextIInv DEF SInv
<1>2. CASE Next
  BY <1>1, <1>2, CallSerial, StepSerial, WorkSerial DEF Next
<1>3. CASE UNCHANGED vars
  BY <1>1, <1>3 DEF vars, engineVars, callVars, SInv, OneCaller, FlagFollowsStage,
     CurrentUnsaved, SavedExist, StoppedTold, StopTells, StartStages, StopKeepsStats,
     SavedOnce, StopSavesResults
<1> QED
  BY <1>2, <1>3

\* When calls come one at a time, the results of a replay are saved at most
\* once, and a stop that answers "stopped" has saved them, even when it gave up
\* waiting for some of the workers.
THEOREM SerialSaves == OneCaller /\ Spec => [](SavedOnce /\ StopSavesResults)
<1>1. SInv => SavedOnce /\ StopSavesResults
  BY DEF SInv
<1> QED
  BY <1>1, InitSInv, NextSInv, PTL DEF Spec

\* When calls come one at a time, workers that nothing has told to end belong
\* to a replay that the next stop does not refuse.
THEOREM SerialStoppable == OneCaller /\ Spec => []Stoppable
<1>1. SInv => Stoppable
  BY DEF SInv, Stoppable, StoppedTold, Alive
<1> QED
  BY <1>1, InitSInv, NextSInv, PTL DEF Spec

-----------------------------------------------------------------------------
(* Counts of a replay's own workers, one caller at a time *)

LastList == lists[Len(lists)]

\* A stop begins to join at the head of the list, and joins the last one.
JoinsFromHead ==
    \A c \in Clients :
        /\ stage[c] \in {"check", "signal"} => handler[c].next = 1
        /\ stage[c] = "join" => handler[c].list = Len(lists)

\* A start spawns workers for the statistics it has made.
StartsCurrent ==
    \A c \in Clients :
        stage[c] \in {"launch", "spawn", "append"} => handler[c].gen = Len(stats)

\* No worker outlives the replay: none is left once the joins are over, nor
\* before the first one of the next is spawned.
NoneLeft ==
    ~running \/ (\E c \in Clients : stage[c] \in {"prepare", "launch", "release"})
        => Alive = {}

\* Whatever is alive is in the last list, where no join has passed it, or about
\* to be appended to it.
Appending(w) == \E c \in Clients : stage[c] = "append" /\ handler[c].thread = w
AliveListed ==
    \A w \in Alive :
        \/ Appending(w)
        \/ \E i \in DOMAIN LastList :
              /\ LastList[i] = w
              /\ \A c \in Clients : stage[c] = "join" => handler[c].next <= i

\* Whatever is alive belongs to the current statistics.
AliveCurrent == \A w \in Alive : workers[w].gen = Len(stats)

OwnInv ==
    /\ SInv
    /\ JoinsFromHead /\ StartsCurrent
    /\ ~gaveUp => NoneLeft /\ AliveListed /\ AliveCurrent
    /\ OwnCounts /\ NoneLost

LEMMA InitOwnInv == Init /\ OneCaller => OwnInv
<1> SUFFICES ASSUME Init, OneCaller PROVE OwnInv
  OBVIOUS
<1>1. SInv
  BY InitSInv
<1>2. Alive = {} /\ DOMAIN stats = {}
  BY DEF Init, Alive
<1> QED
  BY <1>1, <1>2 DEF Init, OwnInv, JoinsFromHead, StartsCurrent, NoneLeft, AliveListed,
     AliveCurrent, OwnCounts, NoneLost

LEMMA OwnFacts ==
    ASSUME NEW c \in Clients, OwnInv
    PROVE  /\ \A d \in Clients : d = c
           /\ Len(stats) \in Nat /\ DOMAIN stats = 1 .. Len(stats)
           /\ Len(lists) \in Nat \ {0} /\ Len(lists) \in DOMAIN lists
           /\ LastList \in Seq(Nat)
           /\ Len(LastList) \in Nat /\ DOMAIN LastList = 1 .. Len(LastList)
           /\ stage \in [Clients -> Stage] /\ handler \in [Clients -> Handler]
           /\ handler[c].next \in Nat
           /\ gaveUp \in BOOLEAN
<1> USE DEF OwnInv, SInv, IInv
<1>1. \A d \in Clients : d = c
  BY DEF OneCaller
<1>2. Len(stats) \in Nat /\ DOMAIN stats = 1 .. Len(stats)
  BY DEF TypeOK
<1>3. Len(lists) \in Nat \ {0} /\ Len(lists) \in DOMAIN lists
  BY DEF TypeOK, ListsExist
<1>4. LastList \in Seq(Nat)
  BY <1>3 DEF TypeOK, LastList
<1>5. Len(LastList) \in Nat /\ DOMAIN LastList = 1 .. Len(LastList)
  BY <1>4
<1> QED
  BY <1>1, <1>2, <1>3, <1>4, <1>5 DEF TypeOK, Handler

\* A call arrives, or a start's flag, refusal or end: no worker is concerned.
LEMMA OwnQuiet ==
    ASSUME NEW c \in Clients, OwnInv, SInv',
           Call(c) \/ CheckStart(c) \/ Arm(c) \/ SpawnFails(c) \/ Started(c)
             \/ CheckStop(c) \/ Signal(c) \/ Release(c) \/ Save(c) \/ Return(c)
    PROVE  OwnInv'
<1>0. /\ \A d \in Clients : d = c
      /\ stage \in [Clients -> Stage] /\ handler \in [Clients -> Handler]
  BY OwnFacts
<1>1. UNCHANGED <<stats, lists, workers, gaveUp>>
  BY DEF Call, CheckStart, Arm, SpawnFails, Started, CheckStop, Signal, Release, Save, Return, engineVars
<1>2. UNCHANGED <<Alive, LastList>>
  BY <1>1 DEF Alive, LastList
<1>3. OwnCounts' /\ NoneLost' /\ (~gaveUp' => AliveCurrent')
  BY <1>1, <1>2 DEF OwnInv, OwnCounts, NoneLost, AliveCurrent
<1>4. StartsCurrent'
  BY <1>0, <1>1 DEF Call, CheckStart, Arm, SpawnFails, Started, CheckStop, Signal, Release, Save, Return,
     Finish, Goto, StartsCurrent
<1>5. JoinsFromHead' /\ (stage'[c] = "join" => handler'[c].next = 1)
  BY <1>0, <1>1 DEF Call, CheckStart, Arm, SpawnFails, Started, CheckStop, Signal, Release, Save, Return,
     Finish, Goto, JoinsFromHead, OwnInv, Handler
<1>6. ASSUME ~gaveUp' PROVE AliveListed'
  <2>1. AliveListed /\ LastList \in Seq(Nat)
    BY <1>1, <1>6, OwnFacts DEF OwnInv
  <2>2. stage[c] # "append"
    BY DEF Call, CheckStart, Arm, SpawnFails, Started, CheckStop, Signal, Release, Save, Return
  <2>3. \A w \in Alive : \E i \in DOMAIN LastList : LastList[i] = w
    BY <1>0, <2>1, <2>2 DEF AliveListed, Appending
  <2>4. \A i \in DOMAIN LastList : 1 <= i
    BY <2>1
  <2> QED
    BY <1>0, <1>2, <1>5, <2>3, <2>4 DEF AliveListed
<1>7. ASSUME ~gaveUp' PROVE NoneLeft'
  <2>1. NoneLeft /\ FlagFollowsStage
    BY <1>1, <1>7 DEF OwnInv, SInv
  <2>2. CASE ~running \/ stage[c] = "release"
    BY <1>2, <2>1, <2>2 DEF NoneLeft
  <2>3. CASE running /\ stage[c] # "release"
    <3>1. running' /\ stage'[c] \notin {"prepare", "launch", "release"}
      BY <1>0, <2>1, <2>3 DEF Call, CheckStart, Arm, SpawnFails, Started, CheckStop, Signal, Release, Save,
         Return, Finish, Goto, engineVars, FlagFollowsStage
    <3> QED
      BY <1>0, <3>1 DEF NoneLeft
  <2> QED
    BY <2>2, <2>3, <1>0 DEF OwnInv, SInv, IInv, TypeOK
<1> QED
  BY <1>3, <1>4, <1>5, <1>6, <1>7 DEF OwnInv

\* Fresh statistics while no worker is left.
LEMMA OwnPrepare ==
    ASSUME NEW c \in Clients, OwnInv, SInv', Prepare(c) PROVE OwnInv'
<1>0. /\ \A d \in Clients : d = c
      /\ stage \in [Clients -> Stage] /\ handler \in [Clients -> Handler]
      /\ Len(stats) \in Nat /\ DOMAIN stats = 1 .. Len(stats)
  BY OwnFacts
<1>1. UNCHANGED <<lists, workers, gaveUp, Alive>> /\ stage[c] = "prepare" /\ stage'[c] = "launch"
  BY <1>0 DEF Prepare, Alive, Goto
<1>2. ~gaveUp => Alive' = {}
  BY <1>1 DEF OwnInv, NoneLeft
<1>3. /\ DOMAIN stats' = 1 .. Len(stats) + 1
      /\ stats'[Len(stats) + 1].by = {}
      /\ \A g \in DOMAIN stats : stats'[g] = stats[g]
  <2> DEFINE new == [set |-> handler[c].set, by |-> {}]
  <2>1. new.by = {} /\ stats' = Append(stats, new)
    BY DEF Prepare
  <2> HIDE DEF new
  <2> QED
    BY <2>1, <1>0 DEF OwnInv, SInv, IInv, TypeOK
<1>4. OwnCounts' /\ NoneLost'
  BY <1>0, <1>1, <1>3 DEF OwnInv, OwnCounts, NoneLost
<1>5. StartsCurrent' /\ JoinsFromHead'
  BY <1>0, <1>1 DEF Prepare, StartsCurrent, JoinsFromHead
<1> QED
  BY <1>1, <1>2, <1>4, <1>5 DEF OwnInv, NoneLeft, AliveListed, AliveCurrent

LEMMA OwnLaunch ==
    ASSUME NEW c \in Clients, OwnInv, SInv', Launch(c) PROVE OwnInv'
<1>0. /\ \A d \in Clients : d = c
      /\ stage \in [Clients -> Stage] /\ handler \in [Clients -> Handler]
  BY OwnFacts
<1>1. /\ UNCHANGED <<stats, workers, gaveUp, Alive, handler>>
      /\ stage[c] = "launch" /\ stage'[c] = "spawn"
  BY <1>0 DEF Launch, Alive, Goto
<1>2. ~gaveUp => Alive' = {}
  BY <1>1 DEF OwnInv, NoneLeft
<1>3. OwnCounts' /\ NoneLost'
  BY <1>1 DEF OwnInv, OwnCounts, NoneLost
<1>4. StartsCurrent' /\ JoinsFromHead'
  BY <1>0, <1>1 DEF StartsCurrent, JoinsFromHead, OwnInv
<1> QED
  BY <1>1, <1>2, <1>3, <1>4 DEF OwnInv, NoneLeft, AliveListed, AliveCurrent

\* The new worker is of the current statistics, and about to be appended.
LEMMA OwnSpawn ==
    ASSUME NEW c \in Clients, OwnInv, SInv', Spawn(c) PROVE OwnInv'
<1>0. /\ \A d \in Clients : d = c
      /\ stage \in [Clients -> Stage] /\ handler \in [Clients -> Handler]
  BY OwnFacts
<1>1. /\ UNCHANGED <<running, stats, gaveUp, LastList>>
      /\ stage[c] = "spawn" /\ stage'[c] = "append"
  BY <1>0 DEF Spawn, Goto, engineVars, LastList
<1> DEFINE n == Len(workers)
           new == [gen |-> handler[c].gen, timed |-> handler[c].timed, at |-> "connect"]
<1>2. /\ n \in Nat /\ DOMAIN workers = 1 .. n
      /\ workers' = Append(workers, new) /\ new.gen = handler[c].gen /\ new.at = "connect"
      /\ workers \in Seq(Worker)
  BY DEF Spawn, OwnInv, SInv, IInv, TypeOK
<1> HIDE DEF new
<1>3. /\ DOMAIN workers' = 1 .. n + 1 /\ Len(workers') = n + 1
      /\ \A w \in 1 .. n : workers'[w] = workers[w]
      /\ workers'[n + 1] = new
  BY <1>2
<1> HIDE DEF n
<1>4. Alive' = Alive \cup {n + 1}
  BY <1>2, <1>3 DEF Alive, Ended
<1>5. handler'[c].thread = n + 1 /\ handler'[c].gen = handler[c].gen
  BY <1>0, <1>3 DEF Spawn, Handler
<1>6. StartsCurrent' /\ JoinsFromHead' /\ OwnCounts'
  BY <1>0, <1>1, <1>5 DEF StartsCurrent, JoinsFromHead, OwnCounts, OwnInv
<1>7. NoneLost'
  BY <1>1, <1>2, <1>3 DEF OwnInv, NoneLost
<1>8. ASSUME ~gaveUp PROVE NoneLeft'
  BY <1>0, <1>1 DEF NoneLeft, OwnInv, SInv, FlagFollowsStage
<1>9. ASSUME ~gaveUp PROVE AliveListed'
  <2>1. SUFFICES ASSUME NEW w \in Alive'
                 PROVE  Appending(w)' \/ \E i \in DOMAIN LastList : LastList[i] = w
    BY <1>0, <1>1 DEF AliveListed
  <2>2. CASE w = n + 1
    BY <1>1, <1>5, <2>2 DEF Appending
  <2>3. CASE w \in Alive
    BY <1>0, <1>1, <1>9, <2>3 DEF OwnInv, AliveListed, Appending
  <2> QED
    BY <1>4, <2>2, <2>3
<1>10. ASSUME ~gaveUp PROVE AliveCurrent'
  <2>1. handler[c].gen = Len(stats)
    BY <1>1 DEF OwnInv, StartsCurrent
  <2>2. \A w \in Alive : workers'[w].gen = Len(stats)
    BY <1>2, <1>3, <1>10 DEF OwnInv, AliveCurrent, Alive
  <2> QED
    BY <1>1, <1>2, <1>3, <1>4, <2>1, <2>2 DEF AliveCurrent
<1> QED
  BY <1>1, <1>6, <1>7, <1>8, <1>9, <1>10 DEF OwnInv

\* The thread goes to the list, and what was alive before is there already.
LEMMA OwnAppend ==
    ASSUME NEW c \in Clients, OwnInv, SInv', AppendThread(c) PROVE OwnInv'
<1>0. /\ \A d \in Clients : d = c
      /\ stage \in [Clients -> Stage] /\ handler \in [Clients -> Handler]
      /\ Len(lists) \in DOMAIN lists /\ Len(lists) \in Nat \ {0}
      /\ LastList \in Seq(Nat) /\ Len(LastList) \in Nat
      /\ DOMAIN LastList = 1 .. Len(LastList)
  BY OwnFacts
<1>1. /\ UNCHANGED <<running, stats, gaveUp, workers, Alive>>
      /\ stage[c] = "append" /\ stage'[c] = "spawn"
  BY <1>0 DEF AppendThread, Goto, Alive
<1>2. PICK t \in Nat : t = handler[c].thread
  BY <1>0 DEF Handler
<1>3. LastList' = Append(LastList, t)
  <2>1. lists' = [lists EXCEPT ![Len(lists)] = Append(LastList, t)]
    BY <1>2 DEF AppendThread, LastList
  <2>2. Len(lists') = Len(lists)
    BY <1>0, <2>1 DEF OwnInv, SInv, IInv, TypeOK
  <2> QED
    BY <1>0, <2>1, <2>2 DEF LastList
<1>4. /\ DOMAIN LastList' = 1 .. Len(LastList) + 1
      /\ LastList'[Len(LastList) + 1] = t
      /\ \A i \in DOMAIN LastList : LastList'[i] = LastList[i] /\ i \in DOMAIN LastList'
  BY <1>0, <1>2, <1>3
<1>5. StartsCurrent' /\ JoinsFromHead'
  BY <1>0, <1>1 DEF StartsCurrent, JoinsFromHead, OwnInv, AppendThread, Handler
<1>6. OwnCounts' /\ NoneLost'
  BY <1>1 DEF OwnInv, OwnCounts, NoneLost
<1>7. ASSUME ~gaveUp PROVE NoneLeft'
  BY <1>0, <1>1 DEF NoneLeft, OwnInv, SInv, FlagFollowsStage
<1>8. ASSUME ~gaveUp PROVE AliveListed'
  <2>1. SUFFICES ASSUME NEW w \in Alive
                 PROVE  \E i \in DOMAIN LastList' : LastList'[i] = w
    BY <1>0, <1>1 DEF AliveListed
  <2>2. CASE Appending(w)
    BY <1>0, <1>2, <1>4, <2>2 DEF Appending
  <2>3. CASE ~Appending(w)
    BY <1>4, <1>8, <2>3 DEF OwnInv, AliveListed
  <2> QED
    BY <2>2, <2>3
<1>9. ASSUME ~gaveUp PROVE AliveCurrent'
  BY <1>1, <1>9 DEF OwnInv, AliveCurrent
<1> QED
  BY <1>1, <1>5, <1>6, <1>7, <1>8, <1>9 DEF OwnInv

\* A join that ends with its worker dead passes nothing alive; past the end of
\* the list nothing alive is left.
LEMMA OwnJoin ==
    ASSUME NEW c \in Clients, OwnInv, SInv', Join(c) PROVE OwnInv'
<1>0. /\ \A d \in Clients : d = c
      /\ stage \in [Clients -> Stage] /\ handler \in [Clients -> Handler]
      /\ Len(LastList) \in Nat /\ DOMAIN LastList = 1 .. Len(LastList)
      /\ handler[c].next \in Nat /\ gaveUp \in BOOLEAN
  BY OwnFacts
<1>1. /\ UNCHANGED <<running, stopEvent, stats, lists, workers, Alive, LastList>>
      /\ stage[c] = "join" /\ running
  BY DEF Join, Alive, LastList, OwnInv, SInv, FlagFollowsStage
<1>2. handler[c].list = Len(lists) /\ Joined(c) = LastList
  BY <1>1 DEF OwnInv, JoinsFromHead, Joined, LastList
<1>3. gaveUp => gaveUp'
  BY DEF Join
<1>4. OwnCounts' /\ NoneLost' /\ (~gaveUp' => AliveCurrent')
  BY <1>1, <1>3 DEF OwnInv, OwnCounts, NoneLost, AliveCurrent
<1>5. CASE /\ handler[c].next <= Len(LastList)
           /\ handler' = [handler EXCEPT ![c].next = @ + 1]
           /\ gaveUp' = (gaveUp \/ JoinsNow(c).at \notin Ended)
           /\ UNCHANGED stage
  <2>1. JoinsFromHead' /\ StartsCurrent'
    BY <1>0, <1>1, <1>2, <1>5 DEF JoinsFromHead, StartsCurrent, Handler
  <2>2. ASSUME ~gaveUp' PROVE NoneLeft'
    BY <1>0, <1>1, <1>5 DEF NoneLeft
  <2>3. ASSUME ~gaveUp' PROVE AliveListed'
    <3>1. SUFFICES ASSUME NEW w \in Alive
                   PROVE  \E i \in DOMAIN LastList :
                             LastList[i] = w /\ handler'[c].next <= i
      BY <1>0, <1>1 DEF AliveListed
    <3>2. PICK i \in DOMAIN LastList : LastList[i] = w /\ handler[c].next <= i
      BY <1>0, <1>1, <1>3, <2>3 DEF OwnInv, AliveListed, Appending
    <3>3. i # handler[c].next
      <4>1. workers[LastList[handler[c].next]].at \in Ended
        BY <1>2, <1>5, <2>3 DEF JoinsNow
      <4> QED
        BY <3>2, <4>1 DEF Alive
    <3>4. handler'[c].next = handler[c].next + 1
      BY <1>0, <1>5 DEF Handler
    <3> QED
      BY <1>0, <3>2, <3>3, <3>4
  <2> QED
    BY <1>4, <2>1, <2>2, <2>3 DEF OwnInv
<1>6. CASE /\ handler[c].next > Len(LastList)
           /\ Goto(c, "release")
           /\ UNCHANGED <<handler, gaveUp>>
  <2>1. stage'[c] = "release"
    BY <1>0, <1>6 DEF Goto
  <2>2. JoinsFromHead' /\ StartsCurrent'
    BY <1>0, <2>1 DEF JoinsFromHead, StartsCurrent
  <2>3. ASSUME ~gaveUp PROVE Alive = {}
    <3>1. \A w \in Alive : \E i \in DOMAIN LastList : handler[c].next <= i
      BY <1>0, <1>1, <2>3 DEF OwnInv, AliveListed, Appending
    <3> QED
      BY <1>0, <1>6, <3>1
  <2> QED
    BY <1>1, <1>4, <1>6, <2>2, <2>3 DEF OwnInv, NoneLeft, AliveListed
<1> QED
  BY <1>2, <1>5, <1>6 DEF Join

\* A worker comes to life only when it is spawned, and counts in its own.
LEMMA OwnWork ==
    ASSUME NEW w \in DOMAIN workers, OwnInv, SInv', Work(w) PROVE OwnInv'
<1>0. /\ workers \in Seq(Worker) /\ Len(stats) \in Nat /\ DOMAIN stats = 1 .. Len(stats)
      /\ stats \in Seq([set : Sets, by : SUBSET Nat])
  BY DEF OwnInv, SInv, IInv, TypeOK
<1>1. UNCHANGED <<running, lists, gaveUp, stage, handler, LastList>>
  BY DEF Work, Connect, Loop, Count, engineVars, callVars, LastList
<1>2. Len(stats') = Len(stats)
  BY <1>0 DEF Work, Connect, Loop, Count, engineVars
<1>3. PICK to \in {"loop", "query", "dead", "lost"} : Move(w, to)
  BY DEF Work, Connect, Loop, Count
<1>4. workers[w].at \notin Ended
  BY DEF Work, Connect, Loop, Count, Ended
<1>5. \A v \in DOMAIN workers :
         workers'[v].gen = workers[v].gen /\ (v # w => workers'[v] = workers[v])
  BY <1>0, <1>3 DEF Move, Worker
<1>6. DOMAIN workers' = DOMAIN workers
  BY <1>3 DEF Move
<1>7. Alive' \subseteq Alive /\ Alive \subseteq DOMAIN workers
  BY <1>4, <1>5, <1>6 DEF Alive
<1>8. JoinsFromHead' /\ StartsCurrent'
  BY <1>1, <1>2 DEF OwnInv, JoinsFromHead, StartsCurrent
<1>9. ~gaveUp => NoneLeft' /\ AliveListed' /\ AliveCurrent'
  BY <1>1, <1>2, <1>5, <1>7 DEF OwnInv, NoneLeft, AliveListed, Appending, AliveCurrent
<1>10. OwnCounts'
  <2>1. CASE UNCHANGED stats
    BY <1>1, <2>1 DEF OwnInv, OwnCounts
  <2>2. CASE stats' = [stats EXCEPT ![Len(stats)].by = @ \cup {workers[w].gen}]
    <3>1. SUFFICES ASSUME ~gaveUp, NEW g \in DOMAIN stats'
                   PROVE  stats'[g].by \subseteq {g}
      BY <1>1 DEF OwnCounts
    <3>2. g \in DOMAIN stats /\ stats[g].by \subseteq {g}
      BY <2>2, <3>1 DEF OwnInv, OwnCounts
    <3>3. workers[w].gen = Len(stats)
      BY <1>4, <3>1 DEF OwnInv, AliveCurrent, Alive
    <3>4. CASE g = Len(stats)
      <4>1. stats[g] \in [set : Sets, by : SUBSET Nat]
        <5>1. \A S : stats \in Seq(S) => stats[g] \in S
          BY <3>2
        <5> QED
          BY <1>0, <5>1
      <4>2. stats'[g].by = stats[g].by \cup {g}
        BY <2>2, <3>2, <3>3, <3>4, <4>1
      <4> QED
        BY <3>2, <4>2
    <3>5. CASE g # Len(stats)
      BY <2>2, <3>2, <3>5
    <3> QED
      BY <3>4, <3>5
  <2> QED
    BY <2>1, <2>2 DEF Work, Connect, Loop, Count, engineVars
<1>11. NoneLost'
  <2>1. SUFFICES ASSUME ~gaveUp, NEW v \in DOMAIN workers, workers'[v].at = "lost"
                 PROVE  FALSE
    BY <1>1, <1>6 DEF NoneLost
  <2>2. workers[v].at # "lost"
    BY <2>1 DEF OwnInv, NoneLost
  <2>3. v = w /\ to = "lost"
    BY <1>0, <1>3, <1>5, <2>1, <2>2 DEF Move
  <2>4. stats[Len(stats)].set # stats[workers[w].gen].set
    <3>1. ASSUME NEW x \in {"loop", "query", "dead"}, Move(w, x) PROVE workers'[w].at = x
      <4>1. workers[w] \in Worker
        BY <1>0
      <4>2. workers'[w] = [workers[w] EXCEPT !.at = x]
        BY <3>1 DEF Move
      <4> QED
        BY <4>1, <4>2 DEF Worker
    <3>2. workers'[w].at = "lost"
      BY <2>1, <2>3
    <3>3. ~Connect(w)
      BY <3>1, <3>2 DEF Connect
    <3>4. ~Loop(w)
      BY <3>1, <3>2 DEF Loop
    <3> QED
      BY <3>1, <3>2, <3>3, <3>4 DEF Work, Count
  <2>5. workers[w].gen = Len(stats)
    BY <1>4, <2>1 DEF OwnInv, AliveCurrent, Alive
  <2> QED
    BY <2>4, <2>5
<1> QED
  BY <1>1, <1>8, <1>9, <1>10, <1>11 DEF OwnInv

LEMMA NextOwnInv == OwnInv /\ [Next]_vars => OwnInv'
<1> SUFFICES ASSUME OwnInv, [Next]_vars PROVE OwnInv'
  OBVIOUS
<1>1. SInv'
  BY NextSInv DEF OwnInv
<1>2. ASSUME NEW c \in Clients, Call(c) \/ Step(c) PROVE OwnInv'
  BY <1>1, <1>2, OwnQuiet, OwnPrepare, OwnLaunch, OwnSpawn, OwnAppend, OwnJoin DEF Step
<1>3. ASSUME NEW w \in DOMAIN workers, Work(w) PROVE OwnInv'
  BY <1>1, <1>3, OwnWork
<1>4. CASE UNCHANGED vars
  <2>1. UNCHANGED <<Alive, LastList>>
    BY <1>4 DEF vars, engineVars, Alive, LastList
  <2> QED
    BY <1>1, <1>4, <2>1 DEF vars, engineVars, callVars, OwnInv, JoinsFromHead, StartsCurrent,
       NoneLeft, AliveListed, Appending, AliveCurrent, OwnCounts, NoneLost
<1> QED
  BY <1>2, <1>3, <1>4 DEF Next

\* When calls come one at a time and no join has ended before its worker, no
\* worker looks its query up in the statistics of another replay, whose KeyError
\* would end it (query_replay.py:297, 305).
THEOREM SerialNoneLost == OneCaller /\ Spec => []NoneLost
<1>1. OwnInv => NoneLost
  BY DEF OwnInv
<1> QED
  BY <1>1, InitOwnInv, NextOwnInv, PTL DEF Spec

\* When calls come one at a time and no join has ended before its worker, every
\* replay counts the queries of its own workers only, although a worker writes
\* into whatever self.stats is by then (query_replay.py:295).
THEOREM SerialOwnCounts == OneCaller /\ Spec => []OwnCounts
<1>1. OwnInv => OwnCounts
  BY DEF OwnInv
<1> QED
  BY <1>1, InitOwnInv, NextOwnInv, PTL DEF Spec
=============================================================================
