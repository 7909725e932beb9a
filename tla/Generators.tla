------------------------------ MODULE Generators ------------------------------
(***************************************************************************)
(* The control plane's hold on the generators' containers: the intensity   *)
(* presets, which recreate containers with other settings, the start and   *)
(* stop of a generator, and a test run's stops and restarts.  The requests *)
(* run on threads of a pool and share os.environ, the file .env and the    *)
(* Docker engine without a lock.                                           *)
(*                                                                         *)
(* A handler finds a container by its service's label and then holds it by *)
(* id: it may have been stopped, removed or replaced when the handler gets *)
(* to it.  A name can be taken once.  The settings a container or the      *)
(* environment has are named by the preset they came from.                 *)
(*                                                                         *)
(* Bounds: MaxCalls requests, MaxFaults calls that raise, of Docker or on  *)
(* the file.                                                               *)
(***************************************************************************)
EXTENDS Naturals, Sequences, FiniteSets

CONSTANTS
    Handlers,
    Levels,        \* the presets that are asked for
    ImageLabels,   \* whether images carry the service's label: a set of Booleans
    MaxCalls, MaxFaults

ASSUME GeneratorsAssumption ==
    /\ Levels \subseteq {"low", "medium", "high"}
    /\ ImageLabels \subseteq BOOLEAN /\ ImageLabels # {}
    /\ MaxCalls \in Nat /\ MaxFaults \in Nat

\* Those of docker-compose.yml that are looked at.
Services == {"load-generator", "load-generator-orm", "pgbench-runner"}
Recreated == <<"load-generator", "load-generator-orm">>
Stopped == <<"load-generator", "load-generator-orm", "pgbench-runner">>
Startable == Services \ {"load-generator"}

\* Settings, by the preset that gave them; those of docker-compose.yml are as in
\* "medium".
Settings == {"low", "medium", "high"}

VARIABLES
    box,        \* per service: its container, the id-th one, if there is one
    environ,    \* os.environ
    dotenv,     \* .env: the preset it holds, and whether it still holds the rest
    handler,
    calls, faults,
    latest,     \* the level asked for last (a history)
    disturbed,  \* have two presets ever been applied at once, or one failed on .env (a history)
    missed,     \* services the last preset did not get to (a history)
    lost        \* services whose new container could not be created (a history)

histories == <<latest, disturbed, missed, lost>>
vars == <<box, environ, dotenv, handler, calls, faults, histories>>

\* compose: made by docker compose, whose labels it carries.  found: carries the
\* service's label at least.
Box == [id : Nat, there : BOOLEAN, running : BOOLEAN, env : Settings,
        compose : BOOLEAN, found : BOOLEAN]
NoBox == [id |-> 0, there |-> FALSE, running |-> FALSE, env |-> "medium",
          compose |-> TRUE, found |-> TRUE]

IdleHandler == [op |-> "stop", level |-> "medium", svcs |-> <<>>, at |-> "idle",
                seen |-> 0, env |-> "medium", kept |-> TRUE]

\* After docker compose up with the generators' profiles.
Init ==
    /\ box = [s \in Services |-> [NoBox EXCEPT !.id = 1, !.there = TRUE, !.running = TRUE]]
    /\ environ = "medium"
    /\ dotenv = [level |-> "medium", others |-> TRUE]
    /\ handler = [h \in Handlers |-> IdleHandler]
    /\ calls = 0
    /\ faults = 0
    /\ latest = "medium"
    /\ disturbed = FALSE
    /\ missed = Services
    /\ lost = {}

Applying == {h \in Handlers : handler[h].op = "intensity" /\ handler[h].at # "idle"}
Svc(h) == Head(handler[h].svcs)
Set(h, r) == handler' = [handler EXCEPT ![h] = r]
Goto(h, at) == Set(h, [handler[h] EXCEPT !.at = at])

\* The handler has done with a service, and goes on with the next one or ends.
Done(h) ==
    LET r == handler[h] IN
    IF Len(r.svcs) > 1 THEN [r EXCEPT !.svcs = Tail(r.svcs), !.at = "find", !.seen = 0]
    ELSE IF r.op = "reset" THEN [r EXCEPT !.at = "restore", !.seen = 0]
    ELSE IdleHandler

\* A Docker call raises: a preset and a restart go on with the next service, the
\* others fail.
Raised(h) ==
    IF handler[h].op \in {"intensity", "restart"} THEN Done(h)
    ELSE IdleHandler

Miss(h) ==
    missed' = IF handler[h].op = "intensity" THEN missed \cup {Svc(h)} ELSE missed

-----------------------------------------------------------------------------
(* The requests *)

Ask(h, r) ==
    /\ handler[h].at = "idle"
    /\ calls < MaxCalls
    /\ calls' = calls + 1
    /\ Set(h, r)
    /\ UNCHANGED <<box, environ, dotenv, faults, lost>>

SetIntensity(h, level) ==
    /\ Ask(h, [IdleHandler EXCEPT !.op = "intensity", !.level = level,
                                  !.svcs = Recreated, !.at = "environ"])
    /\ latest' = level
    /\ disturbed' = (disturbed \/ Applying # {})
    /\ missed' = {}

StartGenerator(h, s) ==
    /\ Ask(h, [IdleHandler EXCEPT !.op = "start", !.svcs = <<s>>, !.at = "find"])
    /\ UNCHANGED <<latest, disturbed, missed>>

StopGenerator(h, s) ==
    /\ Ask(h, [IdleHandler EXCEPT !.op = "stop", !.svcs = <<s>>, !.at = "find"])
    /\ UNCHANGED <<latest, disturbed, missed>>

\* A test run: with a dump its generators are stopped for the restore.
StartTest(h) ==
    /\ \/ Ask(h, [IdleHandler EXCEPT !.op = "reset", !.svcs = Stopped, !.at = "find"])
       \/ Ask(h, [IdleHandler EXCEPT !.op = "restart", !.svcs = Recreated, !.at = "find"])
    /\ UNCHANGED <<latest, disturbed, missed>>

-----------------------------------------------------------------------------
(* A preset: os.environ, then .env, which is read, truncated and written.    *)

SetEnviron(h) ==
    /\ handler[h].at = "environ"
    /\ environ' = handler[h].level
    /\ Goto(h, "truncate")
    /\ UNCHANGED <<box, dotenv, calls, faults, histories>>

TruncateDotenv(h) ==
    /\ handler[h].at = "truncate"
    /\ dotenv' = [level |-> "none", others |-> FALSE]
    /\ Set(h, [handler[h] EXCEPT !.kept = dotenv.others, !.at = "write"])
    /\ UNCHANGED <<box, environ, calls, faults, histories>>

WriteDotenv(h) ==
    /\ handler[h].at = "write"
    /\ dotenv' = [level |-> handler[h].level, others |-> handler[h].kept]
    /\ Goto(h, "find")
    /\ UNCHANGED <<box, environ, calls, faults, histories>>

\* The file cannot be read or opened, or not written when it has been truncated: the
\* request fails, with os.environ as it has made it.
DotenvRaises(h) ==
    /\ handler[h].at \in {"truncate", "write"}
    /\ faults < MaxFaults /\ faults' = faults + 1
    /\ disturbed' = TRUE
    /\ Set(h, IdleHandler)
    /\ UNCHANGED <<box, environ, dotenv, calls, latest, missed, lost>>

-----------------------------------------------------------------------------
(* The containers *)

Found(s) == box[s].there /\ box[s].found
Running(s) == Found(s) /\ box[s].running

\* find_container and the test of the status it has read, for a handler that
\* wants a container that runs, or any.  When Docker raises, it has found none.
Wanted(h) == IF handler[h].op = "restart" THEN Found(Svc(h)) ELSE Running(Svc(h))

Find(h) ==
    /\ handler[h].at = "find" /\ handler[h].op # "start" /\ Wanted(h)
    /\ Set(h, [handler[h] EXCEPT !.seen = box[Svc(h)].id,
                 !.at = IF handler[h].op = "restart" THEN "restart" ELSE "stop"])
    /\ UNCHANGED <<box, environ, dotenv, calls, faults, histories>>

FindNone(h) ==
    /\ handler[h].at = "find"
    /\ \/ ~Wanted(h) /\ UNCHANGED faults
       \/ Wanted(h) /\ faults < MaxFaults /\ faults' = faults + 1
    /\ IF handler[h].op = "start" THEN Goto(h, "spawn") ELSE Set(h, Done(h))
    /\ Miss(h)
    /\ UNCHANGED <<box, environ, dotenv, calls, latest, disturbed, lost>>

AlreadyRunning(h) ==
    /\ handler[h].at = "find" /\ handler[h].op = "start" /\ Wanted(h)
    /\ Set(h, IdleHandler)
    /\ UNCHANGED <<box, environ, dotenv, calls, faults, histories>>

Gone(h) == ~box[Svc(h)].there \/ box[Svc(h)].id # handler[h].seen

\* The container that the handler has seen is gone, it is running again when it
\* is to be removed, or Docker fails.
Raise(h) ==
    /\ handler[h].at \in {"stop", "remove", "restart"}
    /\ \/ Gone(h) /\ UNCHANGED faults
       \/ handler[h].at = "remove" /\ box[Svc(h)].running /\ UNCHANGED faults
       \/ faults < MaxFaults /\ faults' = faults + 1
    /\ Set(h, Raised(h))
    /\ Miss(h)
    /\ UNCHANGED <<box, environ, dotenv, calls, latest, disturbed, lost>>

Stop(h) ==
    /\ handler[h].at = "stop" /\ ~Gone(h)
    /\ box' = [box EXCEPT ![Svc(h)].running = FALSE]
    /\ Set(h, IF handler[h].op = "intensity" THEN [handler[h] EXCEPT !.at = "remove"]
              ELSE Done(h))
    /\ UNCHANGED <<environ, dotenv, calls, faults, histories>>

\* Mutant: a container that has the preset's settings is not made again.
RemoveSkips(h) ==
    /\ handler[h].at = "remove" /\ ~Gone(h) /\ ~box[Svc(h)].running
    /\ box' = [box EXCEPT ![Svc(h)] = [NoBox EXCEPT !.id = box[Svc(h)].id]]
    /\ IF box[Svc(h)].env = handler[h].level THEN Set(h, Done(h)) ELSE Goto(h, "run")
    /\ UNCHANGED <<environ, dotenv, calls, faults, histories>>

Discard(h) ==
    /\ handler[h].at = "remove" /\ ~Gone(h) /\ ~box[Svc(h)].running
    /\ box' = [box EXCEPT ![Svc(h)] = [NoBox EXCEPT !.id = box[Svc(h)].id]]
    /\ Goto(h, "run")
    /\ UNCHANGED <<environ, dotenv, calls, faults, histories>>

New(s, env, running, compose, found) ==
    box' = [box EXCEPT ![s] = [id |-> @.id + 1, there |-> TRUE, running |-> running,
                               env |-> env, compose |-> compose, found |-> found]]

\* Mutant: the new container has the settings of the old one.
RunOldEnv(h) ==
    /\ handler[h].at = "run" /\ ~box[Svc(h)].there
    /\ \E found \in ImageLabels : New(Svc(h), box[Svc(h)].env, TRUE, FALSE, found)
    /\ Set(h, Done(h))
    /\ UNCHANGED <<environ, dotenv, calls, faults, histories>>

\* The new container, with the labels of its image alone.
Run(h) ==
    /\ handler[h].at = "run" /\ ~box[Svc(h)].there
    /\ \E found \in ImageLabels : New(Svc(h), handler[h].level, TRUE, FALSE, found)
    /\ Set(h, Done(h))
    /\ UNCHANGED <<environ, dotenv, calls, faults, histories>>

\* The name has been taken meanwhile; or Docker fails, before it has created the
\* container or before it has started it.
RunRaises(h) ==
    LET s == Svc(h) IN
    /\ handler[h].at = "run"
    /\ \/ box[s].there /\ UNCHANGED <<box, faults, lost>>
       \/ /\ ~box[s].there /\ faults < MaxFaults /\ faults' = faults + 1
          /\ \/ lost' = lost \cup {s} /\ UNCHANGED box
             \/ /\ \E found \in ImageLabels : New(s, handler[h].level, FALSE, FALSE, found)
                /\ UNCHANGED lost
    /\ Set(h, Done(h))
    /\ Miss(h)
    /\ UNCHANGED <<environ, dotenv, calls, latest, disturbed>>

\* The restore of the dump, and what may raise in it.
Restore(h) ==
    /\ handler[h].at = "restore"
    /\ \/ Set(h, [handler[h] EXCEPT !.op = "restart", !.svcs = Recreated, !.at = "find"])
       \/ Set(h, IdleHandler)
    /\ UNCHANGED <<box, environ, dotenv, calls, faults, histories>>

Restart(h) ==
    /\ handler[h].at = "restart" /\ ~Gone(h)
    /\ box' = [box EXCEPT ![Svc(h)].running = TRUE]
    /\ Set(h, Done(h))
    /\ UNCHANGED <<environ, dotenv, calls, faults, histories>>

\* docker compose up: the process inherits os.environ ...
Spawn(h) ==
    /\ handler[h].at = "spawn"
    /\ Set(h, [handler[h] EXCEPT !.env = environ, !.at = "up"])
    /\ UNCHANGED <<box, environ, dotenv, calls, faults, histories>>

\* ... and creates the container, or the one it knows anew when the settings
\* differ, or starts it; another one of that name makes it fail.
Up(h) ==
    LET s == Svc(h)  env == handler[h].env IN
    /\ handler[h].at = "up"
    /\ \/ ~box[s].there /\ New(s, env, TRUE, TRUE, TRUE)
       \/ box[s].there /\ box[s].compose /\ box[s].env # env /\ New(s, env, TRUE, TRUE, TRUE)
       \/ box[s].there /\ box[s].compose /\ box[s].env = env
          /\ box' = [box EXCEPT ![s].running = TRUE]
       \/ UNCHANGED box
    /\ Set(h, IdleHandler)
    /\ UNCHANGED <<environ, dotenv, calls, faults, histories>>

-----------------------------------------------------------------------------

Step(h) ==
    \/ SetEnviron(h) \/ TruncateDotenv(h) \/ WriteDotenv(h) \/ DotenvRaises(h)
    \/ Find(h) \/ FindNone(h) \/ AlreadyRunning(h)
    \/ Raise(h) \/ Stop(h) \/ Discard(h) \/ Run(h) \/ RunRaises(h)
    \/ Restore(h) \/ Restart(h) \/ Spawn(h) \/ Up(h)

Next ==
    \E h \in Handlers :
        \/ \E level \in Levels : SetIntensity(h, level)
        \/ \E s \in Startable : StartGenerator(h, s) \/ StopGenerator(h, s)
        \/ StartTest(h)
        \/ Step(h)

\* The pool's threads are scheduled, and every Docker call returns.
Fairness == \A h \in Handlers : WF_vars(Step(h))

Spec == Init /\ [][Next]_vars
FairSpec == Spec /\ Fairness

-----------------------------------------------------------------------------
(* Properties *)

\* A request under way: what it was asked for, the services it has still to do, the
\* one it is at first, and where in it the handler is.
Place == {"idle", "environ", "truncate", "write", "find", "stop", "remove", "run",
          "restore", "restart", "spawn", "up"}
Request == [op : {"intensity", "start", "stop", "reset", "restart"}, level : Settings,
            svcs : Seq(Services), at : Place, seen : Nat, env : Settings, kept : BOOLEAN]

\* Every variable keeps its shape, and a handler at work has a service to work on.
TypeOK ==
    /\ box \in [Services -> Box]
    /\ environ \in Settings
    /\ dotenv \in [level : {"low", "medium", "high", "none"}, others : BOOLEAN]
    /\ handler \in [Handlers -> Request]
    /\ \A h \in Handlers : handler[h].at # "idle" => handler[h].svcs # <<>>
    /\ calls \in 0 .. MaxCalls /\ faults \in 0 .. MaxFaults
    /\ latest \in Settings /\ disturbed \in BOOLEAN
    /\ missed \subseteq Services /\ lost \subseteq Services

\* A generator that there was is there, or a preset is about to create it anew,
\* or Docker failed to, whoever stops, starts, restarts or recreates it at the
\* same time.
NothingLost ==
    \A s \in Services \ lost :
        box[s].id > 0 => \/ box[s].there
                         \/ \E h \in Handlers : handler[h].at = "run" /\ Svc(h) = s

\* When no preset is being applied, and presets were applied one at a time and found
\* their file in order, the last one has been: /config reports it, .env holds it with what else was there,
\* and every generator runs with it that the preset could recreate, although
\* others are started, stopped and restarted at the same time.
LevelApplied ==
    Applying = {} /\ ~disturbed =>
        /\ environ = latest
        /\ dotenv = [level |-> latest, others |-> TRUE]
        /\ \A s \in (Services \ {"pgbench-runner"}) \ missed :
              box[s].there => box[s].env = latest

\* What a preset has taken down comes back, or Docker failed to create it.
ComesBack ==
    \A s \in Services :
        (box[s].id > 0 /\ ~box[s].there) ~> (box[s].there \/ s \in lost)
=============================================================================
