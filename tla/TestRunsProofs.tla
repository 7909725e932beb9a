---------------------------- MODULE TestRunsProofs ----------------------------
(***************************************************************************)
(* The store keeps its promises for any number of callers, any faults and  *)
(* any number of calls: types, one running run, ended runs untouched, and  *)
(* the refinement of RunLedger.                                            *)
(***************************************************************************)
EXTENDS TestRuns, SequenceTheorems, FiniteSetTheorems, TLAPS

\* db_after is written only by the step that ends the run.
RunningHasNoAfter == \A r \in Running : runs[r].after = NoSnapshot

\* RunningIsNewest is inductive with the types, since a start ends every running
\* run before it inserts its own; the refinement also needs RunningHasNoAfter.
IInv == TypeOK /\ RunningIsNewest /\ RunningHasNoAfter

\* While at most the newest run is running, active_test_run returns it.
LEMMA ActiveIsNewest ==
    ASSUME IInv
    PROVE  /\ Running = {} => Active = 0
           /\ Running # {} => /\ Running = {Len(runs)}
                              /\ Len(runs) \in DOMAIN runs
                              /\ Active = Len(runs)
           /\ Active \in Nat
<1>1. Running # {} => Running = {Len(runs)}
  BY DEF IInv, RunningIsNewest, Running
<1>2. Running # {} => Len(runs) \in DOMAIN runs
  BY <1>1 DEF Running
<1>3. Len(runs) \in Nat
  BY DEF IInv, TypeOK
<1>4. Running # {} => Active = Len(runs)
  BY <1>1, <1>3 DEF Active
<1>. QED
  BY <1>1, <1>2, <1>3, <1>4 DEF Active

LEMMA SnapshotTypes ==
    ASSUME TypeOK
    PROVE  /\ Measure \in Snapshot
           /\ SnapshotDb \subseteq Snapshot
           /\ NoSnapshot \notin Snapshot
BY DEF TypeOK, Measure, SnapshotDb, ErrorSnapshot, Snapshot, NoSnapshot

LEMMA StageTypes ==
    ASSUME TypeOK, NEW c \in Clients, NEW kind \in {"start", "stop"}
    PROVE  /\ AfterNotify(c, kind) \in Stage
           /\ Resumed(c) \in Stage
BY DEF AfterNotify, Resumed, Stage

\* The store's two updates keep the table's type.
LEMMA StartTestRunTypes ==
    ASSUME TypeOK, NEW before \in Snapshot, NEW baseline \in Nat,
           StartTestRun(before, baseline)
    PROVE  /\ runs' \in Seq(Run)
           /\ Len(runs') = Len(runs) + 1
           /\ runs'[Len(runs) + 1] = [status |-> "running", baseline |-> baseline,
                                      before |-> before, after |-> NoSnapshot]
           /\ \A r \in DOMAIN runs :
                 runs'[r] = IF r \in Running
                              THEN [runs[r] EXCEPT !.status = "stopped"]
                              ELSE runs[r]
<1> DEFINE ended == [r \in DOMAIN runs |->
                       IF runs[r].status = "running"
                         THEN [runs[r] EXCEPT !.status = "stopped"]
                         ELSE runs[r]]
           new == [status |-> "running", baseline |-> baseline,
                   before |-> before, after |-> NoSnapshot]
<1>1. runs \in Seq(Run) /\ Len(runs) \in Nat /\ DOMAIN runs = 1 .. Len(runs)
  BY DEF TypeOK
<1>2. ASSUME NEW r \in DOMAIN runs PROVE ended[r] \in Run
  <2>1. runs[r] \in Run
    BY <1>1
  <2>. QED BY <2>1 DEF Run
<1>3. ended \in Seq(Run) /\ Len(ended) = Len(runs) /\ DOMAIN ended = DOMAIN runs
  <2>1. ended \in [1 .. Len(runs) -> Run]
    BY <1>1, <1>2
  <2>. QED BY <1>1, <2>1
<1>4. new \in Run
  BY DEF Run
<1>5. runs' = Append(ended, new)
  BY DEF StartTestRun
<1> HIDE DEF new
<1>6. /\ runs' \in Seq(Run)
      /\ Len(runs') = Len(runs) + 1
      /\ runs'[Len(runs) + 1] = new
      /\ \A r \in 1 .. Len(runs) : runs'[r] = ended[r]
  <2> HIDE DEF ended
  <2>. QED BY <1>1, <1>3, <1>4, <1>5
<1>. QED
  BY <1>1, <1>6 DEF new, Running

LEMMA StopTestRunTypes ==
    ASSUME TypeOK, NEW r \in DOMAIN runs, NEW after \in Snapshot,
           StopTestRun(r, after)
    PROVE  /\ runs' \in Seq(Run)
           /\ Len(runs') = Len(runs)
           /\ runs'[r] = [runs[r] EXCEPT !.status = "completed", !.after = after]
           /\ \A s \in DOMAIN runs \ {r} : runs'[s] = runs[s]
<1> DEFINE ended == [runs[r] EXCEPT !.status = "completed", !.after = after]
<1>1. runs \in Seq(Run) /\ Len(runs) \in Nat /\ DOMAIN runs = 1 .. Len(runs)
  BY DEF TypeOK
<1>2. runs[r] \in Run
  BY <1>1
<1>3. ended \in Run
  BY <1>2 DEF Run
<1>4. runs' = [runs EXCEPT ![r] = ended]
  BY <1>1, <1>2 DEF StopTestRun, Run
<1> HIDE DEF ended
<1>5. runs' \in [1 .. Len(runs) -> Run]
  BY <1>1, <1>3, <1>4
<1>6. runs' \in Seq(Run) /\ Len(runs') = Len(runs)
  BY <1>1, <1>5
<1>. QED
  BY <1>1, <1>4, <1>6 DEF ended

-----------------------------------------------------------------------------
(* Steps that leave test_runs alone *)

\* Only the dashboard's two notification handlers write the table.
OtherStep ==
    \/ \E c \in Clients : Call(c) \/ Step(c)
    \/ ApiReset \/ PollMeasure \/ PollStore \/ PollError
    \/ DashboardCrash \/ DashboardRestart \/ PlaneCrash \/ Write

LEMMA NextSplits ==
    Next => \/ \E m \in net : ServeStart(m) \/ ServeStop(m)
            \/ OtherStep
BY DEF Next, Serve, OtherStep

LEMMA OtherStepKeepsRuns == OtherStep => UNCHANGED runs
BY DEF OtherStep, Step, storeVars, dashVars, planeVars, worldVars,
       Call, Lookup, StopActive, GiveUp, Reset, Restore, SaveBaseline, StartRun,
       RestartGenerators, Return, ApiReset, PollMeasure, PollStore, PollError,
       DashboardCrash, DashboardRestart, PlaneCrash, Write

-----------------------------------------------------------------------------
(* Types *)

LEMMA InitTypes == Init => TypeOK
BY TestRunsAssumption
   DEF Init, TypeOK, NoSnapshot, Stage, Handler, NoHandler, Generators

\* A notification keeps the message set and the stages in their types.
LEMMA NotifyTypes ==
    ASSUME TypeOK, NEW c \in Clients, NEW kind \in {"start", "stop"},
           NEW snap \in Snapshot, NEW baseline \in Nat,
           Notify(c, kind, snap, baseline)
    PROVE  /\ net' \in SUBSET Message
           /\ stage' \in [Clients -> Stage]
<1>1. AfterNotify(c, kind) \in Stage
  BY StageTypes
<1>2. handler[c].call \in Nat
  BY DEF TypeOK, Handler
<1>3. {"await_start", "await_stop"} \subseteq Stage
  BY DEF Stage
<1> DEFINE sent == [kind |-> kind, from |-> c, call |-> handler[c].call,
                    awaited |-> TRUE, snap |-> snap, baseline |-> baseline]
<1>4. sent \in Message
  BY <1>2 DEF Message
<1>5. net' \in {net, net \cup {sent}}
  BY DEF Notify
<1> HIDE DEF sent
<1>6. net' \in SUBSET Message
  BY <1>4, <1>5 DEF TypeOK
<1>7. stage' \in [Clients -> Stage]
  BY <1>1, <1>3 DEF TypeOK, Notify
<1>. QED
  BY <1>6, <1>7

LEMMA AnswerTypes ==
    ASSUME TypeOK, NEW m \in net, Answer(m)
    PROVE  /\ net' \in SUBSET Message
           /\ stage' \in [Clients -> Stage]
<1>1. m.from \in Clients
  BY DEF TypeOK, Message
<1>2. Resumed(m.from) \in Stage
  BY <1>1, StageTypes
<1>. QED
  BY <1>1, <1>2 DEF TypeOK, Answer

LEMMA FinishTypes ==
    ASSUME TypeOK, NEW c \in Clients,
           NEW outcome \in {"ok", "refused", "failed"}, Finish(c, outcome)
    PROVE  /\ stage' \in [Clients -> Stage]
           /\ handler' \in [Clients -> Handler]
BY ZenonT(40) DEF TypeOK, Finish, Stage, Handler

LEMMA TypesPreserved ==
    ASSUME IInv, Next
    PROVE  TypeOK'
<1> USE DEF storeVars, dashVars, planeVars, worldVars
<1>1. TypeOK
  BY DEF IInv
<1>2. ASSUME NEW m \in net, ServeStart(m) PROVE TypeOK'
  <2>1. m.snap \in Snapshot /\ m.baseline \in Nat
    BY <1>1 DEF TypeOK, Message
  <2>2. runs' \in Seq(Run)
    BY <1>1, <1>2, <2>1, StartTestRunTypes DEF ServeStart
  <2>. QED
    BY <1>1, <1>2, <2>2, AnswerTypes DEF ServeStart, TypeOK
<1>3. ASSUME NEW m \in net, ServeStop(m) PROVE TypeOK'
  <2>1. m.snap \in Snapshot
    BY <1>1 DEF TypeOK, Message
  <2>2. runs' \in Seq(Run)
    <3>1. CASE Active = 0
      BY <1>1, <1>3, <3>1 DEF ServeStop, TypeOK
    <3>2. CASE Active # 0
      <4>1. Active \in DOMAIN runs
        BY <3>2, ActiveIsNewest
      <4>. QED
        BY <1>1, <1>3, <2>1, <3>2, <4>1, StopTestRunTypes DEF ServeStop
    <3>. QED BY <3>1, <3>2
  <2>. QED
    BY <1>1, <1>3, <2>2, AnswerTypes DEF ServeStop, TypeOK
<1>4. ASSUME NEW c \in Clients, Call(c) PROVE TypeOK'
  <2>1. PICK op \in {"start", "stop"}, dump \in Resets :
          handler' = [handler EXCEPT ![c] =
                        [NoHandler EXCEPT !.op = op, !.call = calls', !.dump = dump]]
    BY <1>4 DEF Call
  <2>2. calls' \in Nat
    BY <1>1, <1>4 DEF Call, TypeOK
  <2>3. [NoHandler EXCEPT !.op = op, !.call = calls', !.dump = dump] \in Handler
    BY <2>2, TestRunsAssumption DEF NoHandler, Handler
  <2>4. handler' \in [Clients -> Handler]
    BY <1>1, <2>1, <2>3 DEF TypeOK
  <2>5. stage' \in [Clients -> Stage]
    BY <1>1, <1>4 DEF Call, TypeOK, Stage
  <2>. QED
    BY <1>1, <1>4, <2>2, <2>4, <2>5 DEF Call, TypeOK
<1>5. ASSUME NEW c \in Clients, Lookup(c) PROVE TypeOK'
  <2>1. PICK active \in LookupAnswers :
          \/ /\ active # 0
             /\ stage' = [stage EXCEPT ![c] = "stop"]
             /\ handler' = [handler EXCEPT ![c].active = active]
          \/ /\ stage' = [stage EXCEPT ![c] = AfterNotify(c, "stop")]
             /\ UNCHANGED handler
          \/ Finish(c, "refused")
    BY <1>5 DEF Lookup
  <2>2. active \in Nat
    BY ActiveIsNewest DEF LookupAnswers
  <2>3. stage' \in [Clients -> Stage]
    <3>1. "stop" \in Stage
      BY DEF Stage
    <3>2. AfterNotify(c, "stop") \in Stage
      BY <1>1, StageTypes
    <3>. QED BY <1>1, <2>1, <3>1, <3>2, FinishTypes DEF TypeOK
  <2>4. handler' \in [Clients -> Handler]
    <3>1. CASE handler' = [handler EXCEPT ![c].active = active]
      BY ZenonT(40), <1>1, <2>2, <3>1 DEF TypeOK, Handler
    <3>2. CASE UNCHANGED handler
      BY <1>1, <3>2 DEF TypeOK
    <3>. QED BY <1>1, <2>1, <3>1, <3>2, FinishTypes
  <2>. QED
    BY <1>1, <1>5, <2>3, <2>4 DEF Lookup, TypeOK
<1>6. ASSUME NEW c \in Clients, StopActive(c) PROVE TypeOK'
  <2>1. net' \in SUBSET Message /\ stage' \in [Clients -> Stage]
    BY <1>1, <1>6, SnapshotTypes, NotifyTypes DEF StopActive
  <2>. QED
    BY <1>1, <1>6, <2>1 DEF StopActive, TypeOK
<1>7. ASSUME NEW c \in Clients, GiveUp(c) PROVE TypeOK'
  <2>1. net' \in SUBSET Message
    <3>1. \A m \in Message : [m EXCEPT !.awaited = FALSE] \in Message
      BY DEF Message
    <3>2. net \in SUBSET Message
      BY <1>1 DEF TypeOK
    <3>3. net' = {IF m.from = c THEN [m EXCEPT !.awaited = FALSE] ELSE m : m \in net}
      BY <1>7 DEF GiveUp
    <3>. QED BY <3>1, <3>2, <3>3
  <2>2. stage' \in [Clients -> Stage]
    BY <1>1, <1>7, StageTypes DEF GiveUp, TypeOK
  <2>. QED
    BY <1>1, <1>7, <2>1, <2>2 DEF GiveUp, TypeOK
<1>8. ASSUME NEW c \in Clients, Reset(c) PROVE TypeOK'
  <2>1. stage' \in [Clients -> Stage] /\ handler' \in [Clients -> Handler]
    BY <1>1, <1>8, FinishTypes DEF Reset, TypeOK, Stage
  <2>2. load' \in SUBSET Generators
    BY <1>1, <1>8 DEF Reset, TypeOK
  <2>. QED
    BY <1>1, <1>8, <2>1, <2>2 DEF Reset, TypeOK
<1>9. ASSUME NEW c \in Clients, Restore(c) PROVE TypeOK'
  <2>1. stage' \in [Clients -> Stage] /\ handler' \in [Clients -> Handler]
    BY <1>1, <1>9, FinishTypes DEF Restore, TypeOK, Stage
  <2>2. db' \in [epoch : Nat, writes : Nat]
    BY <1>1, <1>9 DEF Restore, Restored, TypeOK
  <2>. QED
    BY <1>1, <1>9, <2>1, <2>2 DEF Restore, TypeOK
<1>10. ASSUME NEW c \in Clients, SaveBaseline(c) PROVE TypeOK'
  <2>1. PICK snap \in SnapshotDb :
          \/ /\ baselines' = Append(baselines, snap)
             /\ \/ handler' = [handler EXCEPT ![c].baseline = Len(baselines')]
                \/ UNCHANGED handler
          \/ UNCHANGED <<baselines, handler>>
    BY <1>10 DEF SaveBaseline
  <2>2. baselines' \in Seq(Snapshot)
    <3>1. snap \in Snapshot
      BY <1>1, SnapshotTypes
    <3>2. baselines \in Seq(Snapshot)
      BY <1>1 DEF TypeOK
    <3>3. Append(baselines, snap) \in Seq(Snapshot)
      BY <3>1, <3>2
    <3>. QED BY <2>1, <3>2, <3>3
  <2>3. Len(baselines') \in Nat
    BY <2>2
  <2>4. handler' \in [Clients -> Handler]
    <3> DEFINE n == Len(baselines')
    <3>1. n \in Nat
      BY <2>3
    <3>2. handler' = [handler EXCEPT ![c].baseline = n] \/ UNCHANGED handler
      BY <2>1
    <3> HIDE DEF n
    <3>3. handler \in [Clients -> Handler]
      BY <1>1 DEF TypeOK
    <3>4. [handler[c] EXCEPT !.baseline = n] \in Handler
      BY <3>1, <3>3 DEF Handler
    <3>5. handler' = [handler EXCEPT ![c] = [handler[c] EXCEPT !.baseline = n]]
             \/ UNCHANGED handler
      BY <3>2
    <3>. QED BY <3>3, <3>4, <3>5
  <2>5. stage' \in [Clients -> Stage]
    BY <1>1, <1>10 DEF SaveBaseline, TypeOK, Stage
  <2>. QED
    BY <1>1, <1>10, <2>2, <2>4, <2>5 DEF SaveBaseline, TypeOK
<1>11. ASSUME NEW c \in Clients, StartRun(c) PROVE TypeOK'
  <2>1. handler[c].baseline \in Nat
    BY <1>1 DEF TypeOK, Handler
  <2>2. net' \in SUBSET Message /\ stage' \in [Clients -> Stage]
    BY <1>1, <1>11, <2>1, SnapshotTypes, NotifyTypes DEF StartRun
  <2>. QED
    BY <1>1, <1>11, <2>2 DEF StartRun, TypeOK
<1>12. ASSUME NEW c \in Clients, RestartGenerators(c) PROVE TypeOK'
  <2>1. load' \in SUBSET Generators
    BY <1>1, <1>12 DEF RestartGenerators, TypeOK, Restarted, Generators
  <2>2. stage' \in [Clients -> Stage] /\ handler' \in [Clients -> Handler]
    BY <1>1, <1>12, FinishTypes DEF RestartGenerators
  <2>. QED
    BY <1>1, <1>12, <2>1, <2>2 DEF RestartGenerators, TypeOK
<1>13. ASSUME NEW c \in Clients, Return(c) PROVE TypeOK'
  BY <1>1, <1>13 DEF Return, TypeOK, Stage, NoHandler, Handler
<1>14. CASE ApiReset
  BY <1>1, <1>14 DEF ApiReset, TypeOK
<1>15. CASE PollMeasure
  BY <1>1, <1>15, SnapshotTypes DEF PollMeasure, TypeOK
<1>16. CASE PollStore
  <2>1. [run |-> Active, measured |-> poll] \in [run : Nat, measured : Snapshot]
    BY <1>1, <1>16, ActiveIsNewest DEF PollStore, TypeOK
  <2>2. samples' \in Seq([run : Nat, measured : Snapshot])
    BY <1>1, <1>16, <2>1 DEF PollStore, AddSample, TypeOK
  <2>. QED
    BY <1>1, <1>16, <2>2 DEF PollStore, TypeOK
<1>17. CASE PollError
  BY <1>1, <1>17 DEF PollError, TypeOK
<1>18. CASE DashboardCrash
  <2>1. stage' \in [Clients -> Stage]
    BY <1>1, <1>18, StageTypes DEF DashboardCrash, TypeOK
  <2>. QED
    BY <1>1, <1>18, <2>1 DEF DashboardCrash, TypeOK
<1>19. CASE DashboardRestart
  BY <1>1, <1>19 DEF DashboardRestart, TypeOK
<1>20. CASE PlaneCrash
  <2>1. net' \in SUBSET Message
    <3>1. \A m \in net : [m EXCEPT !.awaited = FALSE] \in Message
      BY <1>1 DEF TypeOK, Message
    <3>. QED BY <1>20, <3>1 DEF PlaneCrash
  <2>2. stage' \in [Clients -> Stage] /\ handler' \in [Clients -> Handler]
    BY <1>20 DEF PlaneCrash, Stage, NoHandler, Handler
  <2>. QED
    BY <1>1, <1>20, <2>1, <2>2 DEF PlaneCrash, TypeOK
<1>21. CASE Write
  BY <1>1, <1>21 DEF Write, TypeOK
<1>. QED
  BY <1>2, <1>3, <1>4, <1>5, <1>6, <1>7, <1>8, <1>9, <1>10, <1>11, <1>12, <1>13,
     <1>14, <1>15, <1>16, <1>17, <1>18, <1>19, <1>20, <1>21
     DEF Next, Serve, Step

-----------------------------------------------------------------------------
(* What the two notifications do to the table *)

LEMMA StartEffect ==
    ASSUME IInv, NEW m \in net, ServeStart(m)
    PROVE  /\ DOMAIN runs = 1 .. Len(runs)
           /\ DOMAIN runs' = 1 .. Len(runs) + 1
           /\ Len(runs') = Len(runs) + 1
           /\ Running' = {Len(runs) + 1}
           /\ m.snap \in Snapshot
           /\ runs'[Len(runs) + 1].before = m.snap
           /\ runs'[Len(runs) + 1].after = NoSnapshot
           /\ \A r \in DOMAIN runs \ Running : runs'[r] = runs[r]
           /\ \A r \in Running : runs'[r] = [runs[r] EXCEPT !.status = "stopped"]
<1>1. m.snap \in Snapshot /\ m.baseline \in Nat
  BY DEF IInv, TypeOK, Message
<1>2. /\ runs' \in Seq(Run)
      /\ Len(runs') = Len(runs) + 1
      /\ runs'[Len(runs) + 1] = [status |-> "running", baseline |-> m.baseline,
                                 before |-> m.snap, after |-> NoSnapshot]
      /\ \A r \in DOMAIN runs :
            runs'[r] = IF r \in Running
                         THEN [runs[r] EXCEPT !.status = "stopped"]
                         ELSE runs[r]
  BY <1>1, StartTestRunTypes DEF IInv, ServeStart
<1>3. DOMAIN runs = 1 .. Len(runs) /\ Len(runs) \in Nat
  BY DEF IInv, TypeOK
<1>4. DOMAIN runs' = 1 .. Len(runs) + 1
  BY <1>2
<1>5. ASSUME NEW r \in DOMAIN runs PROVE runs'[r].status # "running"
  <2>1. runs[r] \in Run
    BY DEF IInv, TypeOK
  <2>2. CASE r \in Running
    BY <1>2, <2>1, <2>2 DEF Run
  <2>3. CASE r \notin Running
    BY <1>2, <2>3 DEF Running
  <2>. QED BY <2>2, <2>3
<1>6. runs'[Len(runs) + 1].status = "running"
  BY <1>2
<1>7. Running' = {Len(runs) + 1}
  BY <1>3, <1>4, <1>5, <1>6 DEF Running
<1>8. \A r \in DOMAIN runs \ Running : runs'[r] = runs[r]
  BY <1>2
<1>9. \A r \in Running : runs'[r] = [runs[r] EXCEPT !.status = "stopped"]
  <2>1. Running \subseteq DOMAIN runs
    BY DEF Running
  <2>. QED BY <1>2, <2>1
<1>10. /\ runs'[Len(runs) + 1].before = m.snap
       /\ runs'[Len(runs) + 1].after = NoSnapshot
  BY <1>2
<1>. QED
  BY <1>1, <1>2, <1>3, <1>4, <1>7, <1>8, <1>9, <1>10

LEMMA StopEffect ==
    ASSUME IInv, NEW m \in net, ServeStop(m)
    PROVE  \/ UNCHANGED runs
           \/ /\ DOMAIN runs = 1 .. Len(runs)
              /\ DOMAIN runs' = DOMAIN runs
              /\ Running = {Len(runs)}
              /\ Running' = {}
              /\ m.snap \in Snapshot
              /\ runs'[Len(runs)] =
                    [runs[Len(runs)] EXCEPT !.status = "completed", !.after = m.snap]
              /\ \A r \in DOMAIN runs \ Running : runs'[r] = runs[r]
<1>1. CASE Active = 0
  BY <1>1 DEF ServeStop
<1>2. CASE Active # 0
  <2>1. Running = {Len(runs)} /\ Len(runs) \in DOMAIN runs /\ Active = Len(runs)
    BY <1>2, ActiveIsNewest
  <2>2. m.snap \in Snapshot
    BY DEF IInv, TypeOK, Message
  <2>3. StopTestRun(Len(runs), m.snap)
    BY <1>2, <2>1 DEF ServeStop
  <2>4. /\ runs' \in Seq(Run)
        /\ Len(runs') = Len(runs)
        /\ runs'[Len(runs)] =
              [runs[Len(runs)] EXCEPT !.status = "completed", !.after = m.snap]
        /\ \A s \in DOMAIN runs \ {Len(runs)} : runs'[s] = runs[s]
    BY <2>1, <2>2, <2>3, StopTestRunTypes DEF IInv
  <2>5. DOMAIN runs = 1 .. Len(runs) /\ DOMAIN runs' = DOMAIN runs
    BY <2>4 DEF IInv, TypeOK
  <2>6. runs'[Len(runs)].status = "completed"
    <3>1. runs[Len(runs)] \in Run
      BY <2>1 DEF IInv, TypeOK
    <3>. QED BY <2>4, <3>1 DEF Run
  <2>7. Running' = {}
    <3>1. ASSUME NEW s \in DOMAIN runs \ {Len(runs)}
          PROVE  runs'[s].status # "running"
      BY <2>1, <2>4, <3>1 DEF Running
    <3>. QED
      BY <2>5, <2>6, <3>1 DEF Running
  <2>. QED
    BY <2>1, <2>2, <2>4, <2>5, <2>7
<1>. QED
  BY <1>1, <1>2

-----------------------------------------------------------------------------
(* The invariant *)

LEMMA InvariantPreserved ==
    ASSUME IInv, [Next]_vars
    PROVE  IInv'
<1>1. CASE UNCHANGED vars
  BY <1>1 DEF IInv, TypeOK, RunningIsNewest, RunningHasNoAfter, Running, vars,
              storeVars, dashVars, planeVars, worldVars
<1>2. CASE Next
  <2>1. TypeOK'
    BY <1>2, TypesPreserved
  <2>2. RunningIsNewest' /\ RunningHasNoAfter'
    <3>1. ASSUME NEW m \in net, ServeStart(m)
          PROVE  RunningIsNewest' /\ RunningHasNoAfter'
      BY <3>1, StartEffect DEF RunningIsNewest, RunningHasNoAfter
    <3>2. CASE UNCHANGED runs
      BY <3>2 DEF IInv, RunningIsNewest, RunningHasNoAfter, Running
    <3>3. ASSUME NEW m \in net, ServeStop(m)
          PROVE  RunningIsNewest' /\ RunningHasNoAfter'
      BY <3>2, <3>3, StopEffect DEF RunningIsNewest, RunningHasNoAfter
    <3>. QED
      BY <1>2, <3>1, <3>2, <3>3, NextSplits, OtherStepKeepsRuns
  <2>. QED
    BY <2>1, <2>2 DEF IInv
<1>. QED
  BY <1>1, <1>2

LEMMA InvariantInitially == Init => IInv
BY InitTypes DEF Init, IInv, RunningIsNewest, RunningHasNoAfter, Running

LEMMA Invariant == Spec => []IInv
<1>1. IInv /\ [Next]_vars => IInv'
  BY InvariantPreserved
<1>. QED
  BY <1>1, InvariantInitially, PTL DEF Spec

\* Every table, message and handler of the two services keeps its type.
THEOREM Typing == Spec => []TypeOK
<1>1. IInv => TypeOK
  BY DEF IInv
<1>. QED
  BY <1>1, Invariant, PTL

\* At most one test run is running and it is the newest, for any number of
\* concurrent callers and any loss, delay or crash between the services.
THEOREM OneRunning == Spec => []RunningIsNewest
<1>1. IInv => RunningIsNewest
  BY DEF IInv
<1>. QED
  BY <1>1, Invariant, PTL

\* The record of a run that has ended never changes.
THEOREM EndedFrozen == Spec => EndedRunsFrozen
<1> DEFINE Frozen == \A r \in DOMAIN runs \ Running :
                        r \in DOMAIN runs' /\ runs'[r] = runs[r]
<1>1. ASSUME IInv, [Next]_vars PROVE [Frozen]_vars
  <2>1. CASE UNCHANGED runs
    BY <2>1
  <2>2. ASSUME NEW m \in net, ServeStart(m) PROVE Frozen
    <3>1. Len(runs) \in Nat
      BY <1>1 DEF IInv, TypeOK
    <3>. QED BY <1>1, <2>2, <3>1, StartEffect
  <2>3. ASSUME NEW m \in net, ServeStop(m) PROVE Frozen
    BY <1>1, <2>1, <2>3, StopEffect
  <2>4. CASE UNCHANGED vars
    BY <2>4
  <2>. QED
    BY <1>1, <2>1, <2>2, <2>3, <2>4, NextSplits, OtherStepKeepsRuns
<1>. QED
  BY <1>1, Invariant, PTL DEF Spec, EndedRunsFrozen

-----------------------------------------------------------------------------
(* Refinement *)

\* What RunLedger sees of the store.
History == [r \in DOMAIN runs \ Running |-> Record(r)]
OpenRun == IF Running = {} THEN <<>> ELSE <<runs[Active].before>>

\* A run that ends goes to the end of the history, which is otherwise the same.
LEMMA HistoryGrows ==
    ASSUME NEW n \in Nat, NEW h, NEW h2, NEW rec,
           h = [r \in 1 .. n |-> h[r]],
           h2 = [r \in 1 .. n + 1 |-> h2[r]],
           \A r \in 1 .. n : h2[r] = h[r],
           h2[n + 1] = rec
    PROVE  h2 = Append(h, rec)
<1> DEFINE Elem == {h2[r] : r \in 1 .. n + 1}
<1>1. h \in [1 .. n -> Elem] /\ h2 \in [1 .. n + 1 -> Elem] /\ rec \in Elem
  <2>1. \A r \in 1 .. n + 1 : h2[r] \in Elem
    OBVIOUS
  <2>2. \A r \in 1 .. n : h[r] \in Elem
    <3>1. 1 .. n \subseteq 1 .. n + 1
      OBVIOUS
    <3>. QED BY <2>1, <3>1
  <2>3. n + 1 \in 1 .. n + 1
    OBVIOUS
  <2> HIDE DEF Elem
  <2>. QED BY <2>1, <2>2, <2>3
<1> HIDE DEF Elem
<1>2. h \in Seq(Elem) /\ Len(h) = n
  BY <1>1
<1>3. /\ Append(h, rec) \in Seq(Elem)
      /\ Len(Append(h, rec)) = n + 1
      /\ Append(h, rec)[n + 1] = rec
      /\ \A r \in 1 .. n : Append(h, rec)[r] = h[r]
  BY <1>1, <1>2
<1>4. Append(h, rec) \in [1 .. n + 1 -> Elem]
  BY <1>3, LenProperties
<1>5. \A r \in 1 .. n + 1 : Append(h, rec)[r] = h2[r]
  BY <1>3
<1>. QED
  BY <1>1, <1>4, <1>5

LEMMA StartRefines ==
    ASSUME IInv, NEW m \in net, ServeStart(m)
    PROVE  Ledger!Open
<1>0. PICK n \in Nat : n = Len(runs)
  BY DEF IInv, TypeOK
<1>1. n \in Nat /\ DOMAIN runs = 1 .. n /\ DOMAIN runs' = 1 .. n + 1
  BY <1>0, StartEffect
<1>2. Running' = {n + 1} /\ runs'[n + 1].before = m.snap /\ m.snap \in Snapshot
  BY <1>0, StartEffect
<1>3. Active' = n + 1
  BY <1>1, <1>2 DEF Active
<1>4. OpenRun' = <<m.snap>>
  BY <1>2, <1>3 DEF OpenRun
<1>5. OpenRun' \in [{1} -> Snapshot]
  BY <1>2, <1>4
<1>6. CASE Running = {}
  <2>1. DOMAIN runs' \ Running' = 1 .. n /\ DOMAIN runs \ Running = 1 .. n
    BY <1>1, <1>2, <1>6
  <2>2. \A r \in 1 .. n : Record(r)' = Record(r)
    BY <1>1, <1>6, StartEffect DEF Record
  <2>3. History' = History
    BY <2>1, <2>2 DEF History
  <2>4. OpenRun = <<>>
    BY <1>6 DEF OpenRun
  <2>. QED
    BY <1>5, <2>3, <2>4 DEF Ledger!Open, History, OpenRun
<1>7. CASE Running # {}
  <2>1. Running = {n} /\ n \in DOMAIN runs /\ Active = n
    BY <1>0, <1>7, ActiveIsNewest
  <2>2. DOMAIN runs' \ Running' = 1 .. n /\ DOMAIN runs \ Running = 1 .. n - 1
    BY <1>1, <1>2, <2>1
  <2>3. \A r \in 1 .. n - 1 : Record(r)' = Record(r)
    BY <2>2, StartEffect DEF Record
  <2>4. Record(n)' = [status |-> "stopped", before |-> OpenRun[1],
                     after |-> NoSnapshot]
    <3>1. runs[n] \in Run
      BY <2>1 DEF IInv, TypeOK
    <3>2. runs'[n] = [runs[n] EXCEPT !.status = "stopped"]
      BY <2>1, StartEffect
    <3>3. runs[n].after = NoSnapshot
      BY <2>1 DEF IInv, RunningHasNoAfter
    <3>4. OpenRun[1] = runs[n].before
      BY <2>1 DEF OpenRun
    <3>. QED
      BY <3>1, <3>2, <3>3, <3>4 DEF Record, Run
  <2>5. History' = Append(History, Record(n)')
    <3>1. n - 1 \in Nat
      BY <1>1, <2>1
    <3>2. /\ History = [r \in 1 .. n - 1 |-> History[r]]
          /\ History' = [r \in 1 .. (n - 1) + 1 |-> History'[r]]
          /\ \A r \in 1 .. n - 1 : History'[r] = History[r]
          /\ History'[(n - 1) + 1] = Record(n)'
      BY <1>1, <2>1, <2>2, <2>3 DEF History
    <3>. QED
      BY <3>1, <3>2, HistoryGrows
  <2>6. OpenRun # <<>>
    BY <2>1 DEF OpenRun
  <2>. QED
    BY <1>5, <2>4, <2>5, <2>6 DEF Ledger!Open, Ledger!ClosedAs, History, OpenRun
<1>. QED
  BY <1>6, <1>7

LEMMA StopRefines ==
    ASSUME IInv, NEW m \in net, ServeStop(m), runs' # runs
    PROVE  Ledger!Close
<1>0. PICK n \in Nat : n = Len(runs)
  BY DEF IInv, TypeOK
<1>1. /\ DOMAIN runs = 1 .. n /\ DOMAIN runs' = 1 .. n
      /\ Running = {n} /\ Running' = {}
      /\ m.snap \in Snapshot
      /\ runs'[n] = [runs[n] EXCEPT !.status = "completed", !.after = m.snap]
      /\ \A r \in DOMAIN runs \ Running : runs'[r] = runs[r]
  BY <1>0, StopEffect
<1>2. n \in Nat /\ n \in DOMAIN runs /\ Active = n
  BY <1>0, <1>1, ActiveIsNewest
<1>3. OpenRun # <<>> /\ OpenRun' = <<>> /\ OpenRun[1] = runs[n].before
  BY <1>1, <1>2 DEF OpenRun
<1>4. DOMAIN runs' \ Running' = 1 .. n /\ DOMAIN runs \ Running = 1 .. n - 1
  BY <1>1, <1>2
<1>5. \A r \in 1 .. n - 1 : Record(r)' = Record(r)
  BY <1>1, <1>4 DEF Record
<1>6. Record(n)' = [status |-> "completed", before |-> OpenRun[1],
                   after |-> m.snap]
  <2>1. runs[n] \in Run
    BY <1>2 DEF IInv, TypeOK
  <2>. QED
    BY <1>1, <1>3, <2>1 DEF Record, Run
<1>7. History' = Append(History, Record(n)')
  <2>1. n - 1 \in Nat /\ (n - 1) + 1 = n
    BY <1>1, <1>2
  <2>2. /\ History = [r \in 1 .. n - 1 |-> History[r]]
        /\ History' = [r \in 1 .. (n - 1) + 1 |-> History'[r]]
        /\ \A r \in 1 .. n - 1 : History'[r] = History[r]
        /\ History'[(n - 1) + 1] = Record(n)'
    BY <1>2, <1>4, <1>5, <2>1 DEF History
  <2>. QED
    BY <2>1, <2>2, HistoryGrows
<1>8. n \in DOMAIN History' /\ History'[n].after = m.snap
  BY <1>1, <1>2, <1>4, <1>6 DEF History
<1>9. History' = Append(History, [status |-> "completed", before |-> OpenRun[1],
                                  after |-> History'[n].after])
  BY <1>6, <1>7, <1>8
<1>. QED
  BY <1>1, <1>3, <1>8, <1>9 DEF Ledger!Close, Ledger!ClosedAs, History, OpenRun

\* Concurrent handlers, late or lost notifications and crashes included, the
\* store does what RunLedger allows: open one run, or close the open one.
THEOREM Refinement == Spec => ImplementsLedger
<1>1. Init => Ledger!LedgerInit
  BY DEF Init, Ledger!LedgerInit, Running
<1>2. ASSUME IInv, [Next]_vars
      PROVE  [Ledger!LedgerNext]_(Ledger!ledgerVars)
  <2>1. CASE UNCHANGED runs
    BY <2>1 DEF Ledger!ledgerVars, Running, Active, Record
  <2>2. ASSUME NEW m \in net, ServeStart(m) PROVE Ledger!LedgerNext
    BY <1>2, <2>2, StartRefines DEF Ledger!LedgerNext
  <2>3. ASSUME NEW m \in net, ServeStop(m), runs' # runs PROVE Ledger!LedgerNext
    BY <1>2, <2>3, StopRefines DEF Ledger!LedgerNext
  <2>4. UNCHANGED vars => UNCHANGED runs
    BY DEF vars, storeVars
  <2>. QED
    BY <1>2, <2>1, <2>2, <2>3, <2>4, NextSplits, OtherStepKeepsRuns
<1>. QED
  BY <1>1, <1>2, Invariant, PTL DEF Spec, ImplementsLedger, Ledger!LedgerSpec

-----------------------------------------------------------------------------
(* The samples of a run that has ended *)

SamplesOfAre(s, r) == {i \in DOMAIN s : s[i].run = r}

\* Storing a sample of another run adds none to those of run r.
LEMMA OtherSample ==
    ASSUME NEW S, NEW s \in Seq(S), NEW x \in S, NEW r, x.run # r
    PROVE  SamplesOfAre(Append(s, x), r) = SamplesOfAre(s, r)
<1>1. PICK n \in Nat : n = Len(s)
  OBVIOUS
<1>2. DOMAIN s = 1 .. n /\ \A i \in 1 .. n : s[i] \in S
  BY <1>1
<1>3. /\ DOMAIN Append(s, x) = 1 .. n + 1
      /\ Append(s, x)[n + 1] = x
      /\ \A i \in 1 .. n : Append(s, x)[i] = s[i]
  BY <1>1, <1>2
<1>4. 1 .. n + 1 = 1 .. n \cup {n + 1}
  OBVIOUS
<1>. QED
  BY <1>2, <1>3, <1>4, Zenon DEF SamplesOfAre

LEMMA SamplesCounted ==
    ASSUME NEW S, NEW s \in Seq(S), NEW r
    PROVE  /\ Cardinality(SamplesOfAre(s, r)) \in Nat
           /\ SamplesOfAre(<<>>, r) = {}
<1>1. Len(s) \in Nat /\ DOMAIN s = 1 .. Len(s)
  OBVIOUS
<1>2. IsFiniteSet(1 .. Len(s))
  BY <1>1, FS_Interval
<1>3. SamplesOfAre(s, r) \in SUBSET (1 .. Len(s))
  BY <1>1 DEF SamplesOfAre
<1>4. Cardinality(SamplesOfAre(s, r)) \in Nat
  BY <1>2, <1>3, FS_Subset, FS_CardinalityType
<1>5. SamplesOfAre(<<>>, r) = {}
  BY DEF SamplesOfAre
<1>. QED
  BY <1>4, <1>5

\* Only the poller, and a reset of the dashboard, write the samples.
LEMMA SamplesWritten == [Next]_vars => UNCHANGED samples \/ ApiReset \/ PollStore
BY DEF Next, Step, Serve, vars, storeVars, dashVars, planeVars, worldVars, ServeStart,
       ServeStop, Call, Lookup, StopActive, GiveUp, Reset, Restore, SaveBaseline, StartRun,
       RestartGenerators, Return, PollMeasure, PollError, DashboardCrash, DashboardRestart,
       PlaneCrash, Write

\* The samples of a run that has ended never become more, although the poller
\* measures before the run ends and stores after: the run is looked up when the
\* sample is stored (metrics_store.py:215), and is then the newest one or none.
THEOREM HistoryStays == Spec => HistorySealed
<1> DEFINE Sealed == \A r \in DOMAIN runs \ Running :
                        Cardinality(SamplesOf(r)') <= Cardinality(SamplesOf(r))
<1>1. ASSUME IInv, [Next]_vars PROVE Sealed
  <2> DEFINE S == [run : Nat, measured : Snapshot]
  <2>1. samples \in Seq(S)
    BY <1>1 DEF IInv, TypeOK
  <2> HIDE DEF S
  <2> SUFFICES ASSUME NEW r \in DOMAIN runs \ Running
               PROVE  Cardinality(SamplesOf(r)') <= Cardinality(SamplesOf(r))
    OBVIOUS
  <2>2. SamplesOf(r) = SamplesOfAre(samples, r) /\ SamplesOf(r)' = SamplesOfAre(samples', r)
    BY DEF SamplesOf, SamplesOfAre
  <2>3. Cardinality(SamplesOf(r)) \in Nat
    BY <2>1, <2>2, SamplesCounted
  <2>4. CASE UNCHANGED samples
    BY <2>2, <2>3, <2>4
  <2>5. CASE ApiReset
    <3>1. SamplesOf(r)' = {}
      BY <2>1, <2>2, <2>5, SamplesCounted DEF ApiReset
    <3>2. Cardinality({}) = 0
      BY FS_EmptySet
    <3>. QED BY <2>3, <3>1, <3>2
  <2>6. CASE PollStore
    <3>1. PICK x : x = [run |-> Active, measured |-> poll]
      OBVIOUS
    <3>2. samples' = Append(samples, x)
      BY <2>6, <3>1 DEF PollStore, AddSample
    <3>3. x \in S /\ x.run = Active
      BY <1>1, <2>6, <3>1, ActiveIsNewest DEF PollStore, IInv, TypeOK, S
    <3>4. r # Active
      <4>1. r # 0
        BY <1>1 DEF IInv, TypeOK
      <4>. QED BY <1>1, <4>1, ActiveIsNewest
    <3>5. SamplesOf(r)' = SamplesOf(r)
      BY <2>1, <2>2, <3>2, <3>3, <3>4, OtherSample
    <3>. QED BY <2>3, <3>5
  <2>. QED
    BY <1>1, <2>4, <2>5, <2>6, SamplesWritten
<1>. QED
  BY <1>1, Invariant, PTL DEF Spec, HistorySealed

-----------------------------------------------------------------------------
(* What a waiting handler waits for *)

AwaitStage(kind) == IF kind = "start" THEN "await_start" ELSE "await_stop"

\* A notification that is waited for is that of a handler which waits, and the
\* only one it waits for.
AwaitedFits ==
    \A m \in net : m.awaited => stage[m.from] = AwaitStage(m.kind)
AwaitedOnce ==
    \A m, k \in net : m.awaited /\ k.awaited /\ m.from = k.from => m = k

WInv == IInv /\ AwaitedFits /\ AwaitedOnce

\* A handler that did not wait goes on, and no message is new.
LEMMA MovesOn ==
    ASSUME WInv, IInv', NEW c \in Clients, ~Awaits(c), NEW s,
           stage' = [stage EXCEPT ![c] = s], net' \subseteq net
    PROVE  WInv'
<1>1. stage \in [Clients -> Stage] /\ net \in SUBSET Message
  BY DEF WInv, IInv, TypeOK
<1>2. ASSUME NEW m \in net', m.awaited PROVE stage'[m.from] = AwaitStage(m.kind)
  <2>1. m \in net /\ m.from \in Clients /\ stage[m.from] = AwaitStage(m.kind)
    BY <1>1, <1>2 DEF WInv, AwaitedFits, Message
  <2>2. m.from # c
    BY <2>1 DEF AwaitStage, Awaits
  <2>. QED BY <1>1, <2>1, <2>2
<1>. QED
  BY <1>2 DEF WInv, AwaitedFits, AwaitedOnce

\* A notification is sent by a handler that did not wait.
LEMMA NotifyWaits ==
    ASSUME WInv, IInv', NEW c \in Clients, ~Awaits(c), NEW kind \in {"start", "stop"},
           NEW snap \in Snapshot, NEW baseline \in Nat, Notify(c, kind, snap, baseline)
    PROVE  WInv'
<1>1. stage \in [Clients -> Stage] /\ net \in SUBSET Message
  BY DEF WInv, IInv, TypeOK
<1>2. CASE UNCHANGED net /\ stage' = [stage EXCEPT ![c] = AfterNotify(c, kind)]
  BY <1>2, MovesOn
<1>3. ASSUME NEW n, n.kind = kind, n.from = c, n.awaited,
             net' = net \cup {n}, stage' = [stage EXCEPT ![c] = AwaitStage(kind)]
      PROVE  WInv'
  <2>1. \A m \in net : m.awaited => m.from \in Clients /\ m.from # c
    BY <1>1 DEF WInv, AwaitedFits, AwaitStage, Awaits, Message
  <2>2. AwaitedFits'
    BY <1>1, <1>3, <2>1 DEF WInv, AwaitedFits
  <2>3. AwaitedOnce'
    BY <1>3, <2>1 DEF WInv, AwaitedOnce
  <2>. QED BY <2>2, <2>3 DEF WInv
<1>4. CASE /\ net' = net \cup {[kind |-> kind, from |-> c, call |-> handler[c].call,
                                awaited |-> TRUE, snap |-> snap, baseline |-> baseline]}
           /\ stage' = [stage EXCEPT ![c] = AwaitStage(kind)]
  <2>1. PICK n : n = [kind |-> kind, from |-> c, call |-> handler[c].call,
                      awaited |-> TRUE, snap |-> snap, baseline |-> baseline]
    OBVIOUS
  <2>2. n.kind = kind /\ n.from = c /\ n.awaited
    BY <2>1
  <2>3. net' = net \cup {n} /\ stage' = [stage EXCEPT ![c] = AwaitStage(kind)]
    BY <1>4, <2>1
  <2>. QED BY ONLY <1>3, <2>2, <2>3
<1>. QED
  BY <1>2, <1>4 DEF Notify, AwaitStage

LEMMA AnswerWaits ==
    ASSUME WInv, IInv', NEW m \in net, Answer(m) PROVE WInv'
<1>1. /\ stage \in [Clients -> Stage] /\ net \in SUBSET Message
      /\ m.from \in Clients /\ net' = net \ {m}
  BY DEF WInv, IInv, TypeOK, Message, Answer
<1>2. CASE ~m.awaited
  BY <1>1, <1>2 DEF WInv, AwaitedFits, AwaitedOnce, Answer
<1>3. CASE m.awaited
  <2>1. \A k \in net' : k.awaited => k.from # m.from /\ k.from \in Clients
    BY <1>1, <1>3 DEF WInv, AwaitedOnce, Message
  <2>2. \A d \in Clients \ {m.from} : stage'[d] = stage[d]
    BY <1>1, <1>3 DEF Answer
  <2>3. AwaitedFits'
    BY <1>1, <2>1, <2>2 DEF WInv, AwaitedFits
  <2>. QED
    BY <1>1, <2>3 DEF WInv, AwaitedOnce
<1>. QED
  BY <1>2, <1>3 DEF WInv, IInv, TypeOK, Message

LEMMA GiveUpWaits ==
    ASSUME WInv, IInv', NEW c \in Clients, GiveUp(c) PROVE WInv'
<1>1. stage \in [Clients -> Stage] /\ net \in SUBSET Message
  BY DEF WInv, IInv, TypeOK
<1>2. ASSUME NEW k \in net', k.awaited PROVE k \in net /\ k.from # c /\ k.from \in Clients
  <2>1. PICK m \in net : k = IF m.from = c THEN [m EXCEPT !.awaited = FALSE] ELSE m
    BY <1>2 DEF GiveUp
  <2>2. m \in Message /\ [m EXCEPT !.awaited = FALSE].awaited = FALSE
    BY <1>1 DEF Message
  <2>. QED BY <1>2, <2>1, <2>2 DEF Message
<1>3. \A d \in Clients \ {c} : stage'[d] = stage[d]
  BY <1>1 DEF GiveUp
<1>. QED
  BY <1>2, <1>3 DEF WInv, AwaitedFits, AwaitedOnce

LEMMA WaitingInitially == Init => WInv
BY InvariantInitially DEF Init, WInv, AwaitedFits, AwaitedOnce

LEMMA WaitingPreserved ==
    ASSUME WInv, [Next]_vars PROVE WInv'
<1>1. IInv /\ IInv'
  BY InvariantPreserved DEF WInv
<1> USE DEF storeVars, dashVars, planeVars, worldVars
<1>2. CASE UNCHANGED <<net, stage>>
  BY <1>1, <1>2 DEF WInv, AwaitedFits, AwaitedOnce
<1>3. ASSUME NEW m \in net, ServeStart(m) \/ ServeStop(m) PROVE WInv'
  BY <1>1, <1>3, AnswerWaits DEF ServeStart, ServeStop
<1>4. ASSUME NEW c \in Clients, Call(c) \/ Lookup(c) \/ Reset(c) \/ Restore(c)
                 \/ SaveBaseline(c) \/ RestartGenerators(c) \/ Return(c)
      PROVE  WInv'
  <2>1. /\ net' = net /\ ~Awaits(c)
        /\ \E s : stage' = [stage EXCEPT ![c] = s]
    BY <1>4 DEF Call, Lookup, Reset, Restore, SaveBaseline, RestartGenerators, Return,
                Finish, Awaits
  <2>. QED BY <1>1, <2>1, MovesOn
<1>5. ASSUME NEW c \in Clients, StopActive(c) \/ StartRun(c) PROVE WInv'
  <2>1. ~Awaits(c) /\ handler[c].baseline \in Nat /\ SnapshotDb \subseteq Snapshot
    BY <1>1, <1>5, SnapshotTypes DEF StopActive, StartRun, Awaits, IInv, TypeOK, Handler
  <2>. QED
    BY <1>1, <1>5, <2>1, NotifyWaits DEF StopActive, StartRun
<1>6. ASSUME NEW c \in Clients, GiveUp(c) PROVE WInv'
  BY <1>1, <1>6, GiveUpWaits
<1>7. CASE DashboardCrash
  BY <1>1, <1>7 DEF DashboardCrash, WInv, AwaitedFits, AwaitedOnce
<1>8. CASE PlaneCrash
  <2>1. net \in SUBSET Message
    BY <1>1 DEF IInv, TypeOK
  <2>2. \A k \in net' : ~k.awaited
    BY <1>8, <2>1 DEF PlaneCrash, Message
  <2>. QED
    BY <1>1, <2>2 DEF WInv, AwaitedFits, AwaitedOnce
<1>9. CASE UNCHANGED vars
  BY <1>2, <1>9 DEF vars
<1>10. CASE ApiReset \/ PollMeasure \/ PollStore \/ PollError \/ DashboardRestart \/ Write
  BY <1>2, <1>10 DEF ApiReset, PollMeasure, PollStore, PollError, DashboardRestart, Write
<1>. QED
  BY <1>3, <1>4, <1>5, <1>6, <1>7, <1>8, <1>9, <1>10 DEF Next, Serve, Step

-----------------------------------------------------------------------------
(* One caller at a time: the baseline of a run *)

OneCaller == \A c, d \in Clients : c = d

\* No call has a baseline before it has saved one.
BaselineLast ==
    \A c \in Clients :
        stage[c] \in {"lookup", "stop", "await_stop", "reset", "restore", "baseline"}
            => handler[c].baseline = 0

\* The database was not restored between two snapshots, the second not older.
Since(old, new) == old.epoch = new.epoch /\ old.writes <= new.writes

\* The database has not been restored since a call saved its baseline.
BaselineCurrent ==
    \A c \in Clients :
        stage[c] = "start" /\ handler[c].baseline # 0 =>
            /\ handler[c].baseline \in DOMAIN baselines
            /\ baselines[handler[c].baseline].kind = "taken" =>
                  Since(baselines[handler[c].baseline], db)

\* A snapshot and the baseline it goes with can be compared.
Agree(bases, baseline, snap) ==
    baseline # 0 =>
        /\ baseline \in DOMAIN bases
        /\ snap.kind = "taken" /\ bases[baseline].kind = "taken" =>
              Since(bases[baseline], snap)

MessagesAgree == \A m \in net : m.kind = "start" => Agree(baselines, m.baseline, m.snap)
RunsAgree == \A r \in DOMAIN runs : Agree(baselines, runs[r].baseline, runs[r].before)

BInv ==
    /\ OneCaller /\ WInv
    /\ BaselineLast /\ BaselineCurrent
    /\ MessagesAgree /\ RunsAgree

LEMMA BaselineInitially == OneCaller /\ Init => BInv
BY WaitingInitially
   DEF Init, BInv, BaselineLast, BaselineCurrent, MessagesAgree, RunsAgree

\* Baselines are added and never changed, so what agrees goes on agreeing.
LEMMA AgreementStays ==
    ASSUME NEW bases \in Seq(Snapshot), NEW snap \in Snapshot, NEW more,
           more = bases \/ more = Append(bases, snap)
    PROVE  \A b, s : Agree(bases, b, s) => Agree(more, b, s)
<1>1. \A b \in DOMAIN bases : b \in DOMAIN more /\ more[b] = bases[b]
  <2>1. PICK n \in Nat : n = Len(bases) /\ DOMAIN bases = 1 .. n
    OBVIOUS
  <2>2. CASE more = Append(bases, snap)
    BY <2>1, <2>2
  <2>. QED BY <2>2
<1>. QED
  BY <1>1 DEF Agree

\* The caller's stage changes to one that says nothing about its baseline.
LEMMA CallerMoves ==
    ASSUME BInv, WInv', NEW c \in Clients, NEW s,
           stage' = [stage EXCEPT ![c] = s],
           s \in {"done", "idle", "restart", "await_start"}
             \/ /\ s \in {"lookup", "stop", "await_stop", "reset", "start"}
                /\ handler'[c].baseline = 0,
           UNCHANGED <<baselines, runs>>, MessagesAgree'
    PROVE  BInv'
<1>1. \A d \in Clients : d = c /\ stage'[d] = s
  BY DEF BInv, OneCaller, WInv, IInv, TypeOK
<1>2. BaselineLast' /\ BaselineCurrent'
  BY <1>1 DEF BaselineLast, BaselineCurrent
<1>3. RunsAgree'
  BY DEF BInv, RunsAgree
<1>. QED
  BY <1>2, <1>3 DEF BInv, OneCaller

\* A handler that goes on from its notification.
LEMMA ResumedStage ==
    ASSUME BInv, NEW c \in Clients, Awaits(c)
    PROVE  \/ Resumed(c) \in {"done", "restart"}
           \/ Resumed(c) \in {"reset", "start"} /\ handler[c].baseline = 0
BY DEF BInv, BaselineLast, Awaits, Resumed, AfterNotify

\* The effect of an answer on the caller: it goes on, or is not concerned.
LEMMA AnswerAgrees ==
    ASSUME BInv, NEW m \in net, Answer(m), UNCHANGED <<handler, baselines, db>>
    PROVE  BaselineLast' /\ BaselineCurrent' /\ MessagesAgree'
<1>1. /\ m.from \in Clients /\ m.kind \in {"start", "stop"}
      /\ \A d \in Clients : d = m.from
      /\ stage \in [Clients -> Stage]
  BY DEF BInv, OneCaller, WInv, IInv, TypeOK, Message
<1>2. MessagesAgree'
  BY DEF Answer, BInv, MessagesAgree
<1>3. CASE ~m.awaited
  BY <1>2, <1>3 DEF Answer, BInv, BaselineLast, BaselineCurrent
<1>4. CASE m.awaited
  <2>1. Awaits(m.from)
    BY <1>1, <1>4 DEF BInv, WInv, AwaitedFits, AwaitStage, Awaits
  <2>2. \A d \in Clients : d = m.from /\ stage'[d] = Resumed(m.from)
    BY <1>1, <1>4 DEF Answer
  <2>3. \/ Resumed(m.from) \in {"done", "restart"}
        \/ Resumed(m.from) \in {"reset", "start"} /\ handler'[m.from].baseline = 0
    BY <1>1, <2>1, ResumedStage
  <2>. QED
    BY <1>2, <2>2, <2>3 DEF BaselineLast, BaselineCurrent
<1>. QED
  BY <1>1, <1>3, <1>4 DEF BInv, WInv, IInv, TypeOK, Message

LEMMA ServeAgrees ==
    ASSUME BInv, WInv', NEW m \in net, ServeStart(m) \/ ServeStop(m)
    PROVE  BInv'
<1>1. IInv /\ Answer(m) /\ UNCHANGED <<handler, baselines, db>>
  BY DEF BInv, WInv, ServeStart, ServeStop, worldVars
<1>2. runs \in Seq(Run) /\ DOMAIN runs = 1 .. Len(runs) /\ Len(runs) \in Nat
  BY <1>1 DEF IInv, TypeOK
<1>3. \A r \in DOMAIN runs : runs[r] \in Run
  BY <1>2
<1>4. RunsAgree'
  <2>1. CASE ServeStart(m)
    <3>1. m.snap \in Snapshot /\ m.baseline \in Nat /\ m.kind = "start"
      BY <1>1, <2>1 DEF IInv, TypeOK, Message, ServeStart
    <3>2. /\ DOMAIN runs' = 1 .. Len(runs) + 1
          /\ runs'[Len(runs) + 1].baseline = m.baseline
          /\ runs'[Len(runs) + 1].before = m.snap
          /\ \A r \in DOMAIN runs : runs'[r] = IF r \in Running
                                                THEN [runs[r] EXCEPT !.status = "stopped"]
                                                ELSE runs[r]
      <4>1. StartTestRun(m.snap, m.baseline) /\ TypeOK
        BY <1>1, <2>1 DEF ServeStart, IInv
      <4>2. /\ runs' \in Seq(Run) /\ Len(runs') = Len(runs) + 1
            /\ runs'[Len(runs) + 1] = [status |-> "running", baseline |-> m.baseline,
                                       before |-> m.snap, after |-> NoSnapshot]
            /\ \A r \in DOMAIN runs : runs'[r] = IF r \in Running
                                                  THEN [runs[r] EXCEPT !.status = "stopped"]
                                                  ELSE runs[r]
        BY ONLY <3>1, <4>1, StartTestRunTypes
      <4>3. DOMAIN runs' = 1 .. Len(runs) + 1
        BY ONLY <4>2
      <4>. QED BY ONLY <4>2, <4>3
    <3>3. ASSUME NEW r \in DOMAIN runs
          PROVE  runs'[r].baseline = runs[r].baseline /\ runs'[r].before = runs[r].before
      BY <1>3, <3>2 DEF Run
    <3>4. Agree(baselines, m.baseline, m.snap)
      BY <3>1 DEF BInv, MessagesAgree
    <3>. QED
      BY <1>1, <1>2, <3>2, <3>3, <3>4 DEF BInv, RunsAgree
  <2>2. CASE ServeStop(m)
    <3>1. CASE UNCHANGED runs
      BY <1>1, <3>1 DEF BInv, RunsAgree
    <3>2. CASE runs' # runs
      <4>1. /\ DOMAIN runs' = DOMAIN runs
            /\ \A r \in DOMAIN runs :
                  \/ runs'[r] = runs[r]
                  \/ runs'[r] = [runs[r] EXCEPT !.status = "completed", !.after = m.snap]
        BY <1>1, <2>2, <3>2, StopEffect
      <4>2. \A r \in DOMAIN runs :
               runs'[r].baseline = runs[r].baseline /\ runs'[r].before = runs[r].before
        BY <1>3, <4>1 DEF Run
      <4>. QED BY <1>1, <4>1, <4>2 DEF BInv, RunsAgree
    <3>. QED BY <3>1, <3>2
  <2>. QED BY <2>1, <2>2
<1>5. BaselineLast' /\ BaselineCurrent' /\ MessagesAgree'
  BY <1>1, AnswerAgrees
<1>. QED
  BY <1>4, <1>5 DEF BInv, OneCaller

LEMMA CallAgrees ==
    ASSUME BInv, WInv', NEW c \in Clients,
           Call(c) \/ Lookup(c) \/ StopActive(c) \/ GiveUp(c) \/ RestartGenerators(c)
             \/ Return(c)
    PROVE  BInv'
<1> USE DEF storeVars, dashVars, planeVars, worldVars
<1>1. /\ net \in SUBSET Message /\ handler \in [Clients -> Handler]
      /\ UNCHANGED <<baselines, runs>>
  BY DEF BInv, WInv, IInv, TypeOK, Call, Lookup, StopActive, GiveUp, RestartGenerators, Return
<1>2. CASE Call(c)
  <2>1. stage' = [stage EXCEPT ![c] = "lookup"] /\ UNCHANGED net
    BY <1>2 DEF Call
  <2>2. handler'[c].baseline = 0
    <3>1. PICK op, dump : handler' = [handler EXCEPT ![c] =
                          [NoHandler EXCEPT !.op = op, !.call = calls', !.dump = dump]]
      BY <1>2 DEF Call
    <3>. QED BY <1>1, <3>1 DEF NoHandler
  <2>3. MessagesAgree'
    BY <1>1, <2>1 DEF BInv, MessagesAgree
  <2>. QED BY <1>1, <2>1, <2>2, <2>3, CallerMoves
<1>3. CASE Lookup(c)
  <2>1. stage[c] = "lookup" /\ handler[c].baseline = 0 /\ UNCHANGED net
    BY <1>3 DEF Lookup, BInv, BaselineLast
  <2>2. MessagesAgree'
    BY <1>1, <2>1 DEF BInv, MessagesAgree
  <2>3. handler'[c].baseline = 0
    BY <1>1, <1>3, <2>1 DEF Lookup, Finish, Handler
  <2>4. \E s \in {"stop", "done", "reset", "start"} : stage' = [stage EXCEPT ![c] = s]
    BY <1>3 DEF Lookup, Finish, AfterNotify
  <2>. QED BY <1>1, <2>2, <2>3, <2>4, CallerMoves
<1>4. CASE StopActive(c)
  <2>1. stage[c] = "stop" /\ handler[c].baseline = 0 /\ UNCHANGED handler
    BY <1>4 DEF StopActive, BInv, BaselineLast
  <2>2. \E s \in {"await_stop", "done", "reset", "start"} : stage' = [stage EXCEPT ![c] = s]
    BY <1>4 DEF StopActive, Notify, AfterNotify
  <2>3. \A m \in net' : m \in net \/ m.kind = "stop"
    BY <1>4 DEF StopActive, Notify
  <2>4. MessagesAgree'
    BY <1>1, <2>3 DEF BInv, MessagesAgree
  <2>. QED BY <1>1, <2>1, <2>2, <2>4, CallerMoves
<1>5. CASE GiveUp(c)
  <2>1. Awaits(c) /\ UNCHANGED handler /\ stage' = [stage EXCEPT ![c] = Resumed(c)]
    BY <1>5 DEF GiveUp
  <2>2. MessagesAgree'
    <3>1. SUFFICES ASSUME NEW k \in net', k.kind = "start"
                   PROVE  Agree(baselines, k.baseline, k.snap)
      BY <1>1 DEF MessagesAgree
    <3>2. PICK m \in net : k = IF m.from = c THEN [m EXCEPT !.awaited = FALSE] ELSE m
      BY <1>5 DEF GiveUp
    <3>3. m \in Message
      BY <1>1
    <3>4. k.kind = m.kind /\ k.baseline = m.baseline /\ k.snap = m.snap
      BY <3>2, <3>3 DEF Message
    <3>. QED BY <3>1, <3>4 DEF BInv, MessagesAgree
  <2>. QED BY <1>1, <2>1, <2>2, ResumedStage, CallerMoves
<1>6. CASE RestartGenerators(c) \/ Return(c)
  <2>1. UNCHANGED net /\ \E s \in {"done", "idle"} : stage' = [stage EXCEPT ![c] = s]
    BY <1>6 DEF RestartGenerators, Return, Finish
  <2>2. MessagesAgree'
    BY <1>1, <2>1 DEF BInv, MessagesAgree
  <2>. QED BY <1>1, <2>1, <2>2, CallerMoves
<1>. QED
  BY <1>2, <1>3, <1>4, <1>5, <1>6

\* The call that restores has no baseline yet.
LEMMA ResetAgrees ==
    ASSUME BInv, WInv', NEW c \in Clients, Reset(c) \/ Restore(c)
    PROVE  BInv'
<1> USE DEF storeVars, dashVars, planeVars, worldVars
<1>1. /\ UNCHANGED <<baselines, runs, net>>
      /\ \A d \in Clients : d = c
      /\ stage \in [Clients -> Stage] /\ handler \in [Clients -> Handler]
  BY DEF BInv, OneCaller, WInv, IInv, TypeOK, Reset, Restore
<1>2. MessagesAgree' /\ RunsAgree'
  BY <1>1 DEF BInv, MessagesAgree, RunsAgree
<1>3. CASE Finish(c, "failed")
  <2>1. \E s \in {"done"} : stage' = [stage EXCEPT ![c] = s]
    BY <1>3 DEF Finish
  <2>. QED BY <1>1, <1>2, <2>1, CallerMoves
<1>4. CASE /\ UNCHANGED handler /\ handler[c].baseline = 0
           /\ \E s \in {"restore", "baseline"} : stage' = [stage EXCEPT ![c] = s]
  <2>1. \A d \in Clients : d = c /\ stage'[d] \in {"restore", "baseline"}
                             /\ handler'[d].baseline = 0
    BY <1>1, <1>4
  <2>2. BaselineLast' /\ BaselineCurrent'
    BY <1>4, <2>1 DEF BaselineLast, BaselineCurrent
  <2>. QED BY <1>2, <2>2 DEF BInv, OneCaller
<1>5. stage[c] \in {"reset", "restore"} => handler[c].baseline = 0
  BY DEF BInv, BaselineLast
<1>6. CASE Reset(c)
  BY <1>3, <1>4, <1>5, <1>6 DEF Reset
<1>7. CASE Restore(c)
  BY <1>3, <1>4, <1>5, <1>7 DEF Restore
<1>. QED
  BY <1>6, <1>7

LEMMA SaveBaselineAgrees ==
    ASSUME BInv, WInv', NEW c \in Clients, SaveBaseline(c) PROVE BInv'
<1> USE DEF dashVars, worldVars
<1>1. /\ \A d \in Clients : d = c
      /\ stage \in [Clients -> Stage] /\ handler \in [Clients -> Handler]
      /\ baselines \in Seq(Snapshot) /\ TypeOK
  BY DEF BInv, OneCaller, WInv, IInv, TypeOK
<1>2. /\ stage[c] = "baseline" /\ handler[c].baseline = 0
      /\ UNCHANGED <<runs, net, db>>
      /\ \A d \in Clients : d = c /\ stage'[d] = "start"
  BY <1>1 DEF SaveBaseline, BInv, BaselineLast
<1>3. PICK snap \in SnapshotDb :
         \/ /\ baselines' = Append(baselines, snap)
            /\ \/ handler' = [handler EXCEPT ![c].baseline = Len(baselines')]
               \/ UNCHANGED handler
         \/ UNCHANGED <<baselines, handler>>
  BY DEF SaveBaseline
<1>4. snap \in Snapshot /\ (snap.kind = "taken" => Since(snap, db))
  BY <1>1, <1>3, SnapshotTypes DEF SnapshotDb, ErrorSnapshot, Measure, Since, TypeOK
<1>5. MessagesAgree' /\ RunsAgree'
  <2>1. \A b, s : Agree(baselines, b, s) => Agree(baselines', b, s)
    BY <1>1, <1>3, <1>4, AgreementStays
  <2>. QED BY <1>2, <2>1 DEF BInv, MessagesAgree, RunsAgree
<1>6. BaselineLast'
  BY <1>2 DEF BaselineLast
<1>7. BaselineCurrent'
  <2>1. CASE UNCHANGED handler
    BY <1>2, <2>1 DEF BaselineCurrent
  <2>2. CASE /\ baselines' = Append(baselines, snap)
             /\ handler' = [handler EXCEPT ![c].baseline = Len(baselines')]
    <3>1. /\ Len(baselines') \in DOMAIN baselines'
          /\ baselines'[Len(baselines')] = snap
      BY <1>1, <1>4, <2>2
    <3>2. handler'[c].baseline = Len(baselines')
      BY <1>1, <2>2 DEF Handler
    <3>. QED BY <1>2, <1>4, <3>1, <3>2 DEF BaselineCurrent
  <2>. QED BY <1>3, <2>1, <2>2
<1>. QED
  BY <1>5, <1>6, <1>7 DEF BInv, OneCaller

\* The run is announced with the database as it is since the baseline.
LEMMA StartRunAgrees ==
    ASSUME BInv, WInv', NEW c \in Clients, StartRun(c) PROVE BInv'
<1>1. /\ stage[c] = "start" /\ UNCHANGED <<baselines, runs, handler>>
      /\ TypeOK
  BY DEF StartRun, storeVars, BInv, WInv, IInv
<1>2. PICK snap \in SnapshotDb : Notify(c, "start", snap, handler[c].baseline)
  BY DEF StartRun
<1>3. snap.kind = "taken" => snap.epoch = db.epoch /\ snap.writes = db.writes
  BY <1>2 DEF SnapshotDb, ErrorSnapshot, Measure
<1>4. Agree(baselines, handler[c].baseline, snap)
  BY <1>1, <1>3 DEF BInv, BaselineCurrent, Agree, Since
<1>5. MessagesAgree'
  BY <1>1, <1>2, <1>4 DEF Notify, BInv, MessagesAgree
<1>6. \E s \in {"await_start", "restart"} : stage' = [stage EXCEPT ![c] = s]
  BY <1>2 DEF Notify, AfterNotify
<1>. QED
  BY <1>1, <1>5, <1>6, CallerMoves

LEMMA BaselinePreserved ==
    ASSUME BInv, [Next]_vars PROVE BInv'
<1> USE DEF storeVars, dashVars, planeVars, worldVars
<1>1. WInv'
  BY WaitingPreserved DEF BInv
<1>2. CASE UNCHANGED <<stage, handler, runs, baselines, net, db>>
  BY <1>1, <1>2 DEF BInv, OneCaller, BaselineLast, BaselineCurrent,
     MessagesAgree, RunsAgree
<1>3. CASE UNCHANGED vars \/ ApiReset \/ PollMeasure \/ PollStore \/ PollError
           \/ DashboardRestart
  BY <1>2, <1>3 DEF vars, ApiReset, PollMeasure, PollStore, PollError, DashboardRestart
<1>4. ASSUME NEW m \in net, ServeStart(m) \/ ServeStop(m) PROVE BInv'
  BY <1>1, <1>4, ServeAgrees
<1>5. ASSUME NEW c \in Clients, Call(c) \/ Step(c) PROVE BInv'
  BY <1>1, <1>5, CallAgrees, ResetAgrees, SaveBaselineAgrees, StartRunAgrees DEF Step
<1>6. CASE DashboardCrash
  <2>1. /\ UNCHANGED <<handler, runs, baselines, db>> /\ net' = {}
        /\ stage' = [c \in Clients |-> IF Awaits(c) THEN Resumed(c) ELSE stage[c]]
    BY <1>6 DEF DashboardCrash
  <2>2. MessagesAgree' /\ RunsAgree'
    BY <2>1 DEF BInv, MessagesAgree, RunsAgree
  <2>3. ASSUME NEW c \in Clients
        PROVE  \/ stage'[c] = stage[c]
               \/ stage'[c] \in {"done", "restart"}
               \/ stage'[c] \in {"reset", "start"} /\ handler[c].baseline = 0
    BY <2>1, ResumedStage
  <2>4. BaselineLast' /\ BaselineCurrent'
    BY <2>1, <2>3 DEF BInv, BaselineLast, BaselineCurrent
  <2>. QED BY <1>1, <2>2, <2>4 DEF BInv, OneCaller
<1>7. CASE PlaneCrash
  <2>1. /\ UNCHANGED <<runs, baselines>>
        /\ \A c \in Clients : stage'[c] = "idle"
        /\ net' = {[m EXCEPT !.awaited = FALSE] : m \in net}
    BY <1>7 DEF PlaneCrash
  <2>2. MessagesAgree'
    <3>1. SUFFICES ASSUME NEW k \in net', k.kind = "start"
                   PROVE  Agree(baselines, k.baseline, k.snap)
      BY <2>1 DEF MessagesAgree
    <3>2. PICK m \in net : k = [m EXCEPT !.awaited = FALSE]
      BY <2>1
    <3>3. m \in Message
      BY DEF BInv, WInv, IInv, TypeOK
    <3>4. k.kind = m.kind /\ k.baseline = m.baseline /\ k.snap = m.snap
      BY <3>2, <3>3 DEF Message
    <3>. QED BY <3>1, <3>4 DEF BInv, MessagesAgree
  <2>. QED
    BY <1>1, <2>1, <2>2 DEF BInv, OneCaller, BaselineLast, BaselineCurrent, RunsAgree
<1>8. CASE Write
  <2>1. UNCHANGED <<stage, handler, runs, baselines, net>>
    BY <1>8 DEF Write
  <2>2. db'.epoch = db.epoch /\ db'.writes = db.writes + 1
    BY <1>8 DEF Write, BInv, WInv, IInv, TypeOK
  <2>3. db.writes \in Nat /\ \A b \in DOMAIN baselines : baselines[b].writes \in Nat
    <3>1. baselines \in Seq(Snapshot) /\ db \in [epoch : Nat, writes : Nat]
      BY DEF BInv, WInv, IInv, TypeOK
    <3>2. \A b \in DOMAIN baselines : baselines[b] \in Snapshot
      BY <3>1
    <3>. QED BY <3>1, <3>2 DEF Snapshot
  <2>4. \A b \in DOMAIN baselines : Since(baselines[b], db) => Since(baselines[b], db)'
    BY <2>1, <2>2, <2>3 DEF Since
  <2>5. BaselineCurrent'
    BY <2>1, <2>4 DEF BInv, BaselineCurrent
  <2>. QED
    BY <1>1, <2>1, <2>5 DEF BInv, OneCaller, BaselineLast, MessagesAgree, RunsAgree
<1>. QED
  BY <1>3, <1>4, <1>5, <1>6, <1>7, <1>8 DEF Next, Serve

\* When calls come one at a time, no restore lies between the baseline a run
\* names and its first snapshot, whatever is lost, late or dies between the two
\* services, fails silently or goes on writing (main.py: _reset_db_from_dump
\* before the baseline and both before the announcement).
THEOREM SerialBaseline == OneCaller /\ Spec => []StartsFromBaseline
<1>1. BInv => StartsFromBaseline
  BY DEF BInv, RunsAgree, Agree, Since, StartsFromBaseline
<1>. QED
  BY <1>1, BaselineInitially, BaselinePreserved, PTL DEF Spec

-----------------------------------------------------------------------------
(* One caller at a time, and no notification late: the delta of a run *)

\* A notification is handled while its sender waits, or not at all.
NothingLate == Faults \cap {"timeout", "plane"} = {}

\* None is lost, as only a dashboard that dies loses one.
NothingLost == "crash" \notin Faults

\* No call names a dump.
NothingRestored == TRUE \notin Resets

\* Nothing is restored, and no run announced, while one is running.
NoneOpen ==
    \A c \in Clients :
        stage[c] \in {"reset", "restore", "baseline", "start", "await_start"}
            => Running = {}

\* No handler is on its way to a restore.
Dumpless ==
    \A c \in Clients :
        ~handler[c].dump /\ stage[c] \notin {"reset", "restore", "baseline"}

\* Of the same restore, with no more written since.
NotAfter(a, b) == a.epoch = b.epoch /\ a.writes <= b.writes

OpenNotAfter ==
    \A r \in Running : runs[r].before.kind = "taken" => NotAfter(runs[r].before, db)

MessagesNotAfter ==
    \A m \in net :
        m.snap.kind = "taken" =>
            /\ NotAfter(m.snap, db)
            /\ m.kind = "stop" =>
                  \A r \in Running :
                      runs[r].before.kind = "taken" => NotAfter(runs[r].before, m.snap)

AllAwaited == \A m \in net : m.awaited

Conditions == OneCaller /\ NothingLate /\ (NothingLost \/ NothingRestored)

DInv ==
    /\ Conditions /\ WInv /\ AllAwaited
    /\ NothingLost => dashboard /\ NoneOpen
    /\ NothingRestored => Dumpless
    /\ OpenNotAfter /\ MessagesNotAfter /\ DeltaMeaningful

LEMMA DeltaInitially == Conditions /\ Init => DInv
BY WaitingInitially
   DEF Init, DInv, AllAwaited, NoneOpen, Dumpless, NoHandler, OpenNotAfter,
       MessagesNotAfter, DeltaMeaningful, Running

\* A message under way keeps the caller waiting, and there is one at most.
LEMMA OneMessage ==
    ASSUME DInv, NEW m \in net
    PROVE  /\ m \in Message /\ m.from \in Clients /\ m.kind \in {"start", "stop"}
           /\ m.awaited
           /\ \A d \in Clients : d = m.from /\ stage[d] = AwaitStage(m.kind)
           /\ net \ {m} = {}
<1>1. m \in Message /\ m.from \in Clients /\ m.kind \in {"start", "stop"} /\ m.awaited
  BY DEF DInv, WInv, IInv, TypeOK, Message, AllAwaited
<1>2. \A d \in Clients : d = m.from /\ stage[d] = AwaitStage(m.kind)
  BY <1>1 DEF DInv, Conditions, OneCaller, WInv, AwaitedFits
<1>3. \A k \in net : k = m
  <2>1. \A k \in net : k.awaited /\ k.from \in Clients
    BY DEF DInv, WInv, IInv, TypeOK, Message, AllAwaited
  <2>. QED BY <1>1, <2>1 DEF DInv, Conditions, OneCaller, WInv, AwaitedOnce
<1>. QED
  BY <1>1, <1>2, <1>3

LEMMA SnapshotNumbers ==
    ASSUME TypeOK
    PROVE  /\ db.epoch \in Nat /\ db.writes \in Nat
           /\ \A s \in Snapshot : s.epoch \in Nat /\ s.writes \in Nat
           /\ \A r \in DOMAIN runs : runs[r] \in Run /\ runs[r].before \in Snapshot
           /\ \A m \in net : m.snap \in Snapshot
           /\ \A s \in SnapshotDb :
                 s.kind = "taken" => s.epoch = db.epoch /\ s.writes = db.writes
<1>1. runs \in Seq(Run) /\ net \in SUBSET Message /\ db \in [epoch : Nat, writes : Nat]
  BY DEF TypeOK
<1>2. \A r \in DOMAIN runs : runs[r] \in Run
  BY <1>1
<1>3. \A s \in SnapshotDb : s.kind = "taken" => s.epoch = db.epoch /\ s.writes = db.writes
  BY DEF SnapshotDb, Measure, ErrorSnapshot
<1>. QED
  BY <1>1, <1>2, <1>3 DEF Run, Message, Snapshot

\* The caller moves; messages, runs and database stay.
LEMMA CallerSteps ==
    ASSUME DInv, WInv', NEW c \in Clients, NEW s,
           stage' = [stage EXCEPT ![c] = s],
           NothingLost =>
               (s \in {"reset", "restore", "baseline", "start", "await_start"}
                    => Running = {}),
           NothingRestored =>
               ~handler'[c].dump /\ s \notin {"reset", "restore", "baseline"},
           UNCHANGED <<dashboard, net, runs, db>>
    PROVE  DInv'
<1>1. Running' = Running
  BY DEF Running
<1>2. \A d \in Clients : d = c /\ stage'[d] = s
  BY DEF DInv, Conditions, OneCaller, WInv, IInv, TypeOK
<1>3. NothingLost => NoneOpen'
  BY <1>1, <1>2 DEF NoneOpen
<1>4. NothingRestored => Dumpless'
  BY <1>2 DEF Dumpless
<1>. QED
  BY <1>1, <1>3, <1>4 DEF DInv, Conditions, OneCaller, NothingLate, NothingLost,
     NothingRestored, AllAwaited, OpenNotAfter, MessagesNotAfter, DeltaMeaningful

\* A notification is sent and its answer waited for, or nobody takes it.
LEMMA NotifySteps ==
    ASSUME DInv, WInv', NEW c \in Clients, NEW kind \in {"start", "stop"},
           NEW snap \in SnapshotDb, NEW baseline, Notify(c, kind, snap, baseline),
           NothingLost => (kind = "start" => Running = {}),
           UNCHANGED <<dashboard, handler, runs, db>>
    PROVE  DInv'
<1>1. Running' = Running
  BY DEF Running
<1>2. NothingRestored => ~handler[c].dump
  BY DEF DInv, Dumpless
<1>3. CASE ~dashboard
  <2>1. ~NothingLost
    BY <1>3 DEF DInv
  <2>2. UNCHANGED net /\ stage' = [stage EXCEPT ![c] = AfterNotify(c, kind)]
    BY <1>3 DEF Notify
  <2>3. NothingRestored => AfterNotify(c, kind) \notin {"reset", "restore", "baseline"}
    BY <1>2 DEF AfterNotify
  <2>. QED BY <1>2, <2>1, <2>2, <2>3, CallerSteps
<1>4. CASE dashboard
  <2>1. PICK n : n = [kind |-> kind, from |-> c, call |-> handler[c].call,
                      awaited |-> TRUE, snap |-> snap, baseline |-> baseline]
    OBVIOUS
  <2>2. n.kind = kind /\ n.snap = snap /\ n.awaited
    BY <2>1
  <2>3. /\ net' = net \cup {n}
        /\ stage' = [stage EXCEPT ![c] =
                        IF kind = "start" THEN "await_start" ELSE "await_stop"]
    BY <1>4, <2>1 DEF Notify
  <2>4. \A d \in Clients :
            stage'[d] = IF kind = "start" THEN "await_start" ELSE "await_stop"
    BY <2>3 DEF DInv, Conditions, OneCaller, WInv, IInv, TypeOK
  <2>5. NothingLost => NoneOpen'
    BY <1>1, <2>4 DEF NoneOpen
  <2>6. NothingRestored => Dumpless'
    BY <2>4 DEF DInv, Dumpless
  <2>7. AllAwaited'
    BY <2>2, <2>3 DEF DInv, AllAwaited
  <2>8. MessagesNotAfter'
    <3>1. ASSUME snap.kind = "taken"
          PROVE  /\ NotAfter(snap, db)
                 /\ \A r \in Running :
                       runs[r].before.kind = "taken" => NotAfter(runs[r].before, snap)
      <4>1. /\ snap.epoch = db.epoch /\ snap.writes = db.writes /\ db.writes \in Nat
        BY <3>1, SnapshotNumbers DEF DInv, WInv, IInv
      <4>. QED BY <4>1 DEF DInv, OpenNotAfter, NotAfter
    <3>. QED
      BY <1>1, <2>2, <2>3, <3>1 DEF DInv, MessagesNotAfter
  <2>. QED
    BY <1>1, <1>4, <2>5, <2>6, <2>7, <2>8
       DEF DInv, Conditions, OneCaller, NothingLate, NothingLost, NothingRestored,
           OpenNotAfter, DeltaMeaningful
<1>. QED
  BY <1>3, <1>4

\* A handler keeps its dump until it returns.
LEMMA DumpKept ==
    ASSUME DInv, NEW c \in Clients, Call(c) \/ Step(c)
    PROVE  NothingRestored => ~handler'[c].dump
<1> SUFFICES ASSUME NothingRestored PROVE ~handler'[c].dump
  OBVIOUS
<1>1. handler \in [Clients -> Handler] /\ handler[c] \in Handler /\ ~handler[c].dump
  BY DEF DInv, WInv, IInv, TypeOK, Dumpless
<1>2. CASE Call(c)
  <2>1. PICK op \in {"start", "stop"}, dump \in Resets :
            handler' = [handler EXCEPT ![c] =
                          [NoHandler EXCEPT !.op = op, !.call = calls', !.dump = dump]]
    BY <1>2 DEF Call
  <2>2. ~dump
    BY TestRunsAssumption DEF NothingRestored
  <2>. QED BY <1>1, <2>1, <2>2 DEF NoHandler
<1>3. CASE \/ UNCHANGED handler
           \/ \E x : handler' = [handler EXCEPT ![c].active = x]
           \/ \E x : handler' = [handler EXCEPT ![c].baseline = x]
           \/ \E x : handler' = [handler EXCEPT ![c].outcome = x]
           \/ handler' = [handler EXCEPT ![c] = NoHandler]
  BY <1>1, <1>3 DEF Handler, NoHandler
<1>4. CASE Lookup(c)
  BY <1>3, <1>4 DEF Lookup, Finish
<1>5. CASE StopActive(c) \/ GiveUp(c) \/ StartRun(c)
  BY <1>3, <1>5 DEF StopActive, GiveUp, StartRun
<1>6. CASE Reset(c) \/ Restore(c)
  BY <1>3, <1>6 DEF Reset, Restore, Finish
<1>7. CASE SaveBaseline(c)
  BY <1>3, <1>7 DEF SaveBaseline
<1>8. CASE RestartGenerators(c) \/ Return(c)
  BY <1>3, <1>8 DEF RestartGenerators, Return, Finish
<1>. QED
  BY <1>2, <1>4, <1>5, <1>6, <1>7, <1>8 DEF Step

LEMMA CallSteps ==
    ASSUME DInv, WInv', NEW c \in Clients, Call(c) \/ Step(c) PROVE DInv'
<1> USE DEF storeVars, dashVars, planeVars, worldVars
<1>1. WInv /\ IInv /\ TypeOK
  BY DEF DInv, WInv, IInv
<1>2. /\ NothingRestored => ~handler'[c].dump
      /\ NothingRestored => ~handler[c].dump
      /\ NothingRestored => stage[c] \notin {"reset", "restore", "baseline"}
  BY DumpKept DEF DInv, Dumpless
<1>3. NothingLost =>
        (stage[c] \in {"reset", "restore", "baseline", "start", "await_start"}
             => Running = {})
  BY DEF DInv, NoneOpen
<1>4. CASE Call(c)
  <2>1. stage' = [stage EXCEPT ![c] = "lookup"] /\ UNCHANGED <<dashboard, net, runs, db>>
    BY <1>4 DEF Call
  <2>. QED BY <1>2, <2>1, CallerSteps
<1>5. CASE Lookup(c)
  <2>1. /\ UNCHANGED <<dashboard, net, runs, db>>
        /\ \E s \in {"stop", "done", "reset", "start"} :
              /\ stage' = [stage EXCEPT ![c] = s]
              /\ s \in {"reset", "start"} => 0 \in LookupAnswers
              /\ s = "reset" => handler[c].dump
    BY <1>5 DEF Lookup, Finish, AfterNotify
  <2>2. NothingLost => (0 \in LookupAnswers => Running = {})
    <3>1. NothingLost => (0 \in LookupAnswers => Active = 0)
      BY DEF LookupAnswers, DInv, Conditions, NothingLate
    <3>2. Running # {} => Active = Len(runs) /\ Len(runs) \in DOMAIN runs
      BY <1>1, ActiveIsNewest
    <3>3. DOMAIN runs = 1 .. Len(runs)
      BY <1>1 DEF TypeOK
    <3>. QED BY <3>1, <3>2, <3>3
  <2>. QED BY <1>2, <2>1, <2>2, CallerSteps
<1>6. CASE StopActive(c)
  <2>1. /\ UNCHANGED <<dashboard, handler, runs, db>>
        /\ \E snap \in SnapshotDb : Notify(c, "stop", snap, 0)
    BY <1>6 DEF StopActive
  <2>. QED BY <2>1, NotifySteps
<1>7. CASE StartRun(c)
  <2>1. /\ UNCHANGED <<dashboard, handler, runs, db>> /\ stage[c] = "start"
        /\ \E snap \in SnapshotDb : Notify(c, "start", snap, handler[c].baseline)
    BY <1>7 DEF StartRun
  <2>. QED BY <1>3, <2>1, NotifySteps
<1>8. CASE Reset(c)
  <2>1. /\ UNCHANGED <<dashboard, net, runs, db>> /\ stage[c] = "reset"
        /\ \E s \in {"restore", "done"} : stage' = [stage EXCEPT ![c] = s]
    BY <1>8 DEF Reset, Finish
  <2>. QED BY <1>2, <1>3, <2>1, CallerSteps
<1>9. CASE Restore(c)
  <2>1. /\ UNCHANGED <<dashboard, net, runs>> /\ stage[c] = "restore"
        /\ \E s \in {"baseline", "done"} : stage' = [stage EXCEPT ![c] = s]
    BY <1>9 DEF Restore, Finish
  <2>2. ~NothingRestored /\ NothingLost /\ Running = {}
    BY <1>2, <1>3, <2>1 DEF DInv, Conditions
  <2>3. net = {}
    <3>1. \A m \in net : FALSE
      BY <2>1, OneMessage DEF AwaitStage
    <3>. QED BY <3>1
  <2>4. Running' = {}
    BY <2>1, <2>2 DEF Running
  <2>. QED
    BY <2>1, <2>2, <2>3, <2>4 DEF DInv, Conditions, OneCaller, NothingLate, NothingLost,
       NothingRestored, AllAwaited, NoneOpen, OpenNotAfter, MessagesNotAfter, DeltaMeaningful
<1>10. CASE SaveBaseline(c)
  <2>1. /\ UNCHANGED <<dashboard, net, runs, db>> /\ stage[c] = "baseline"
        /\ stage' = [stage EXCEPT ![c] = "start"]
    BY <1>10 DEF SaveBaseline
  <2>. QED BY <1>2, <1>3, <2>1, CallerSteps
<1>11. CASE RestartGenerators(c) \/ Return(c)
  <2>1. /\ UNCHANGED <<dashboard, net, runs, db>>
        /\ \E s \in {"done", "idle"} : stage' = [stage EXCEPT ![c] = s]
    BY <1>11 DEF RestartGenerators, Return, Finish
  <2>. QED BY <1>2, <2>1, CallerSteps
<1>12. ~GiveUp(c)
  BY DEF GiveUp, DInv, Conditions, NothingLate
<1>. QED
  BY <1>4, <1>5, <1>6, <1>7, <1>8, <1>9, <1>10, <1>11, <1>12 DEF Step

\* The answer, whatever was served: no message is left, and the caller goes on.
LEMMA AnswerSteps ==
    ASSUME DInv, NEW m \in net, Answer(m), UNCHANGED handler,
           Running' = {} \/ m.kind = "start"
    PROVE  net' = {} /\ NoneOpen' /\ (NothingRestored => Dumpless')
<1>1. net' = {} /\ m.from \in Clients /\ m.awaited
      /\ \A d \in Clients : d = m.from /\ stage[d] = AwaitStage(m.kind)
  BY OneMessage DEF Answer
<1>2. \A d \in Clients : stage'[d] = Resumed(d)
  BY <1>1 DEF Answer, DInv, WInv, IInv, TypeOK
<1>3. m.kind = "start" => \A d \in Clients : stage'[d] = "restart"
  BY <1>1, <1>2 DEF Resumed, AfterNotify, AwaitStage
<1>4. NothingRestored => Dumpless'
  BY <1>2 DEF DInv, Dumpless, Resumed, AfterNotify
<1>. QED
  BY <1>1, <1>3, <1>4 DEF NoneOpen

\* A run that is still running is superseded, and has no second snapshot.
LEMMA ServeStartSteps ==
    ASSUME DInv, WInv', NEW m \in net, ServeStart(m) PROVE DInv'
<1>1. IInv /\ TypeOK /\ Answer(m) /\ m.kind = "start" /\ UNCHANGED <<dashboard, handler, db>>
  BY DEF DInv, WInv, IInv, ServeStart, dashVars, worldVars
<1>2. PICK n \in Nat : n = Len(runs) + 1
  BY <1>1 DEF TypeOK
<1>3. /\ DOMAIN runs' = DOMAIN runs \cup {n} /\ Running' = {n}
      /\ runs'[n].before = m.snap /\ runs'[n].after = NoSnapshot
      /\ \A r \in DOMAIN runs \ Running : runs'[r] = runs[r]
      /\ \A r \in Running : runs'[r] = [runs[r] EXCEPT !.status = "stopped"]
  <2>1. /\ DOMAIN runs = 1 .. Len(runs) /\ DOMAIN runs' = 1 .. n /\ Running' = {n}
        /\ runs'[n].before = m.snap /\ runs'[n].after = NoSnapshot
        /\ \A r \in DOMAIN runs \ Running : runs'[r] = runs[r]
        /\ \A r \in Running : runs'[r] = [runs[r] EXCEPT !.status = "stopped"]
    BY <1>1, <1>2, StartEffect
  <2>2. 1 .. n = 1 .. Len(runs) \cup {n}
    BY <1>1, <1>2 DEF TypeOK
  <2>. QED BY <2>1, <2>2
<1>4. \A r \in Running : runs'[r].after = NoSnapshot
  <2>1. \A r \in Running : runs[r] \in Run /\ runs[r].after = NoSnapshot
    BY <1>1, SnapshotNumbers DEF IInv, RunningHasNoAfter, Running
  <2>. QED BY <1>3, <2>1 DEF Run
<1>5. net' = {} /\ NoneOpen' /\ (NothingRestored => Dumpless')
  BY <1>1, AnswerSteps
<1>6. OpenNotAfter'
  BY <1>1, <1>3 DEF DInv, MessagesNotAfter, OpenNotAfter
<1>7. DeltaMeaningful'
  <2>1. \A r \in DOMAIN runs' :
            \/ r \in DOMAIN runs /\ runs'[r] = runs[r]
            \/ runs'[r].after = NoSnapshot
    BY <1>3, <1>4
  <2>. QED BY <2>1 DEF DInv, DeltaMeaningful, NoSnapshot
<1>. QED
  BY <1>1, <1>5, <1>6, <1>7 DEF DInv, Conditions, OneCaller, NothingLate, NothingLost,
     NothingRestored, AllAwaited, MessagesNotAfter

LEMMA ServeStopSteps ==
    ASSUME DInv, WInv', NEW m \in net, ServeStop(m) PROVE DInv'
<1>1. IInv /\ TypeOK /\ Answer(m) /\ m.kind = "stop" /\ UNCHANGED <<dashboard, handler, db>>
  BY DEF DInv, WInv, IInv, ServeStop, dashVars, worldVars
<1>2. CASE Running = {}
  <2>1. UNCHANGED runs /\ Running' = {}
    <3>1. UNCHANGED runs
      BY <1>1, <1>2, ActiveIsNewest DEF ServeStop
    <3>. QED BY <1>2, <3>1 DEF Running
  <2>2. net' = {} /\ NoneOpen' /\ (NothingRestored => Dumpless')
    BY <1>1, <2>1, AnswerSteps
  <2>. QED
    BY <1>1, <2>1, <2>2 DEF DInv, Conditions, OneCaller, NothingLate, NothingLost,
       NothingRestored, AllAwaited, OpenNotAfter, MessagesNotAfter, DeltaMeaningful
<1>3. CASE Running # {}
  <2>1. PICK n \in DOMAIN runs : n = Len(runs) /\ Running = {n} /\ Active = n /\ Active # 0
    BY <1>1, <1>3, ActiveIsNewest DEF TypeOK
  <2>2. runs[n].status = "running" /\ runs[n] \in Run
    BY <1>1, <2>1, SnapshotNumbers DEF Running
  <2>3. runs'[n].status = "completed"
    <3>1. StopTestRun(n, m.snap) /\ m.snap \in Snapshot
      BY <1>1, <2>1, SnapshotNumbers DEF ServeStop
    <3>2. runs'[n] = [runs[n] EXCEPT !.status = "completed", !.after = m.snap]
      BY ONLY <1>1, <2>1, <3>1, StopTestRunTypes
    <3>. QED BY <2>2, <3>2 DEF Run
  <2>4. /\ DOMAIN runs' = DOMAIN runs /\ Running' = {}
        /\ runs'[n] = [runs[n] EXCEPT !.status = "completed", !.after = m.snap]
        /\ \A r \in DOMAIN runs \ Running : runs'[r] = runs[r]
    <3>1. runs' # runs
      BY <2>2, <2>3
    <3>. QED BY ONLY <1>1, <2>1, <3>1, StopEffect, ServeStop(m), m \in net
  <2>5. net' = {} /\ NoneOpen' /\ (NothingRestored => Dumpless')
    BY <1>1, <2>4, AnswerSteps
  <2>6. runs'[n].before = runs[n].before /\ runs'[n].after = m.snap
    BY <2>2, <2>4 DEF Run
  <2>7. /\ runs[n].before.kind = "taken" /\ m.snap.kind = "taken"
           => NotAfter(runs[n].before, m.snap)
    BY <1>1, <2>1 DEF DInv, MessagesNotAfter
  <2>8. DeltaMeaningful'
    <3>1. \A r \in DOMAIN runs \ {n} : runs'[r] = runs[r]
      BY <2>1, <2>4
    <3>2. SUFFICES ASSUME NEW r \in DOMAIN runs, runs'[r].before.kind = "taken",
                          runs'[r].after.kind = "taken"
                   PROVE  NotAfter(runs'[r].before, runs'[r].after)
      BY <2>4 DEF DeltaMeaningful, NotAfter
    <3>3. CASE r = n
      BY <2>6, <2>7, <3>2, <3>3
    <3>4. CASE r # n
      BY <3>1, <3>2, <3>4 DEF DInv, DeltaMeaningful, NotAfter
    <3>. QED BY <3>3, <3>4
  <2>. QED
    BY <1>1, <2>4, <2>5, <2>8
       DEF DInv, Conditions, OneCaller, NothingLate, NothingLost, NothingRestored,
           AllAwaited, OpenNotAfter, MessagesNotAfter
<1>. QED
  BY <1>2, <1>3

\* The dashboard dies or comes back; the message it had taken is lost.
LEMMA OutageSteps ==
    ASSUME DInv, WInv', DashboardCrash \/ DashboardRestart PROVE DInv'
<1>1. UNCHANGED <<handler, runs, db>>
  BY DEF DashboardCrash, DashboardRestart, storeVars, planeVars, worldVars
<1>2. Running' = Running
  BY <1>1 DEF Running
<1>3. CASE DashboardCrash
  <2>1. net' = {} /\ ~NothingLost
    BY <1>3 DEF DashboardCrash, NothingLost
  <2>2. \A c \in Clients : stage'[c] \in {Resumed(c), stage[c]}
    BY <1>3 DEF DashboardCrash
  <2>3. NothingRestored => Dumpless'
    BY <1>1, <2>2 DEF DInv, Dumpless, Resumed, AfterNotify
  <2>. QED
    BY <1>1, <1>2, <2>1, <2>3 DEF DInv, Conditions, OneCaller, NothingLate, NothingLost,
       NothingRestored, AllAwaited, OpenNotAfter, MessagesNotAfter, DeltaMeaningful
<1>4. CASE DashboardRestart
  <2>1. dashboard' /\ UNCHANGED <<net, stage>>
    BY <1>4 DEF DashboardRestart, planeVars
  <2>. QED
    BY <1>1, <1>2, <2>1 DEF DInv, Conditions, OneCaller, NothingLate, NothingLost,
       NothingRestored, AllAwaited, NoneOpen, Dumpless, OpenNotAfter, MessagesNotAfter,
       DeltaMeaningful
<1>. QED
  BY <1>3, <1>4

LEMMA DeltaPreserved ==
    ASSUME DInv, [Next]_vars PROVE DInv'
<1> USE DEF storeVars, dashVars, planeVars, worldVars
<1>1. WInv' /\ WInv
  BY WaitingPreserved DEF DInv
<1>2. CASE UNCHANGED <<stage, handler, runs, dashboard, net, db>>
  <2>1. Running' = Running
    BY <1>2 DEF Running
  <2>. QED
    BY <1>1, <1>2, <2>1 DEF DInv, Conditions, OneCaller, NothingLate, NothingLost,
       NothingRestored, AllAwaited, NoneOpen, Dumpless, OpenNotAfter, MessagesNotAfter,
       DeltaMeaningful
<1>3. CASE UNCHANGED vars \/ ApiReset \/ PollMeasure \/ PollStore \/ PollError
  BY <1>2, <1>3 DEF vars, ApiReset, PollMeasure, PollStore, PollError
<1>4. ASSUME NEW m \in net, ServeStart(m) \/ ServeStop(m) PROVE DInv'
  BY <1>1, <1>4, ServeStartSteps, ServeStopSteps
<1>5. ASSUME NEW c \in Clients, Call(c) \/ Step(c) PROVE DInv'
  BY <1>1, <1>5, CallSteps
<1>6. CASE DashboardCrash \/ DashboardRestart
  BY <1>1, <1>6, OutageSteps
<1>7. CASE Write
  <2>1. /\ UNCHANGED <<stage, handler, runs, dashboard, net>>
        /\ db' = [db EXCEPT !.writes = @ + 1]
        /\ Running' = Running
    BY <1>7 DEF Write, Running
  <2>2. db'.epoch = db.epoch /\ db'.writes = db.writes + 1 /\ db.writes \in Nat
    BY <1>1, <2>1 DEF WInv, IInv, TypeOK
  <2>3. \A s \in Snapshot : NotAfter(s, db) => NotAfter(s, db')
    <3>1. \A s \in Snapshot : s.writes \in Nat
      BY DEF Snapshot
    <3>. QED BY <2>2, <3>1 DEF NotAfter
  <2>4. /\ \A r \in Running : runs[r].before \in Snapshot
        /\ \A m \in net : m.snap \in Snapshot
    BY <1>1, SnapshotNumbers DEF WInv, IInv, Running
  <2>5. OpenNotAfter' /\ MessagesNotAfter'
    BY <2>1, <2>3, <2>4 DEF DInv, OpenNotAfter, MessagesNotAfter
  <2>. QED
    BY <1>1, <2>1, <2>5 DEF DInv, Conditions, OneCaller, NothingLate, NothingLost,
       NothingRestored, AllAwaited, NoneOpen, Dumpless, DeltaMeaningful
<1>8. ~PlaneCrash
  BY DEF PlaneCrash, DInv, Conditions, NothingLate
<1>. QED
  BY <1>3, <1>4, <1>5, <1>6, <1>7, <1>8 DEF Next, Serve

\* When calls come one at a time and no notification is handled late, the two
\* snapshots of a completed run can be subtracted: no restore lies between them.
\* Restores, containers, snapshots and baselines may fail; the dashboard may die,
\* as long as no call restores a dump, for a run whose end it did not hear of
\* stays open.
THEOREM SerialDelta ==
    /\ OneCaller /\ NothingLate /\ (NothingLost \/ NothingRestored)
    /\ Spec
    => []DeltaMeaningful
<1>1. DInv => DeltaMeaningful
  BY DEF DInv
<1>2. Init /\ Conditions => DInv
  BY DeltaInitially
<1>3. DInv /\ [Next]_vars => DInv'
  BY DeltaPreserved
<1>. QED
  BY <1>1, <1>2, <1>3, PTL DEF Spec, Conditions
=============================================================================
