--------------------------- MODULE GeneratorsProofs ---------------------------
(***************************************************************************)
(* The two components that drive load: first the control plane's handlers  *)
(* and the generators' containers, then the ORM load generator itself.     *)
(* They share no variable; their names differ, and no fact about one is    *)
(* used for the other.                                                     *)
(*                                                                         *)
(* What holds of the generators' containers for any handlers, presets and  *)
(* numbers of calls and faults: types; no container is lost but by a       *)
(* creation that failed; and a preset that was applied alone is in force.  *)
(* The last rests on what a preset has done at each of its stages, and on  *)
(* the containers it has made, which nobody else touches but to stop,      *)
(* start or remove for another preset.                                     *)
(*                                                                         *)
(* What holds of the ORM generator for any schema, depth, workers and      *)
(* migrations: the chains it computes are all the simple paths there are,  *)
(* each once, the longest first; and what it counts as an error of a read  *)
(* names a table that was dropped under it, or asks what two tables that   *)
(* refer to each other, or an array, cannot give.  The first rests on the  *)
(* walk's recursion, well founded for it stops at a depth; the second on   *)
(* what the operations' lists let through.                                 *)
(***************************************************************************)
EXTENDS Generators, OrmLoad, FiniteSetTheorems, WellFoundedInduction, TLAPS

-----------------------------------------------------------------------------
(* The inductive invariant *)

\* Which requests come to which places.
Fits(r) ==
    /\ r.at \in {"environ", "truncate", "write", "remove", "run"} => r.op = "intensity"
    /\ r.at \in {"spawn", "up"} => r.op = "start"
    /\ r.at = "restore" => r.op = "reset"
    /\ r.at = "restart" => r.op = "restart"
    /\ r.at = "stop" => r.op \in {"intensity", "stop", "reset"}
    /\ r.at # "idle" => r.svcs # <<>>
PlacesOK == \A h \in Handlers : Fits(handler[h])

Preset == {"load-generator", "load-generator-orm"}
Pending(h) == Range(handler[h].svcs)

\* A preset has made the service's container, as it was asked to.
Made(s) == box[s].there /\ ~box[s].compose /\ box[s].env = latest

\* What a preset that runs alone has done when it is at a place.
Progress(h) ==
    /\ handler[h].level = latest
    /\ handler[h].at = "environ" => dotenv.others
    /\ handler[h].at # "environ" => environ = latest
    /\ handler[h].at = "truncate" => dotenv.others
    /\ handler[h].at = "write" => handler[h].kept
    /\ handler[h].at \in {"find", "stop", "remove", "run"} =>
           dotenv = [level |-> latest, others |-> TRUE]
    /\ handler[h].at \in {"environ", "truncate", "write"} => Preset \subseteq Pending(h)
    /\ \A s \in Preset \ (missed \cup Pending(h)) : Made(s)

OnePreset == \A g, h \in Applying : g = h

InForce ==
    /\ environ = latest
    /\ dotenv = [level |-> latest, others |-> TRUE]
    /\ \A s \in Preset \ missed : Made(s)

PresetInv ==
    ~disturbed =>
        /\ OnePreset
        /\ \A h \in Applying : Progress(h)
        /\ Applying = {} => InForce

IInv ==
    /\ TypeOK
    /\ PlacesOK
    /\ NothingLost
    /\ PresetInv

-----------------------------------------------------------------------------
(* The operators *)

LEMMA IdleFits == IdleHandler \in Request /\ Fits(IdleHandler)
<1>1. <<>> \in Seq(Services)
  OBVIOUS
<1> QED
  BY <1>1 DEF IdleHandler, Request, Place, Settings, Fits

\* The lists of services that the requests begin with.
LEMMA ListTypes ==
    /\ Recreated \in Seq(Services) /\ Recreated # <<>>
    /\ Range(Recreated) = Preset
    /\ Stopped \in Seq(Services) /\ Stopped # <<>>
    /\ \A s \in Services : <<s>> \in Seq(Services) /\ <<s>> # <<>>
BY DEF Recreated, Stopped, Services, Preset, Range

\* A handler that takes a new place.
LEMMA SetType ==
    ASSUME TypeOK, PlacesOK, NEW h \in Handlers, NEW r \in Request, Fits(r), Set(h, r)
    PROVE  /\ handler' \in [Handlers -> Request] /\ PlacesOK'
           /\ \A g \in Handlers : handler'[g].at # "idle" => handler'[g].svcs # <<>>
           /\ handler'[h] = r
           /\ \A g \in Handlers \ {h} : handler'[g] = handler[g]
BY DEF Set, TypeOK, PlacesOK, Fits

LEMMA GotoType ==
    ASSUME TypeOK, NEW h \in Handlers, NEW at \in Place
    PROVE  [handler[h] EXCEPT !.at = at] \in Request
BY DEF TypeOK, Request

LEMMA SvcType ==
    ASSUME TypeOK, NEW h \in Handlers, handler[h].at # "idle"
    PROVE  Svc(h) \in Services
BY DEF TypeOK, Request, Svc

\* What is pending of a list of services when the first of them is done with.
LEMMA TailPending ==
    ASSUME NEW S, NEW q \in Seq(S), q # <<>>
    PROVE  /\ Len(q) > 1 => /\ Tail(q) \in Seq(S) /\ Tail(q) # <<>>
                            /\ Range(q) \subseteq {Head(q)} \cup Range(Tail(q))
           /\ ~(Len(q) > 1) => Range(q) \subseteq {Head(q)}
<1>1. Len(q) \in Nat /\ Len(q) > 0 /\ DOMAIN q = 1 .. Len(q) /\ Head(q) = q[1]
  OBVIOUS
<1>2. ASSUME Len(q) > 1
      PROVE  /\ Tail(q) \in Seq(S) /\ Tail(q) # <<>>
             /\ Range(q) \subseteq {Head(q)} \cup Range(Tail(q))
  <2>1. /\ Tail(q) \in Seq(S) /\ Len(Tail(q)) = Len(q) - 1
        /\ DOMAIN Tail(q) = 1 .. Len(q) - 1
        /\ \A i \in 1 .. Len(q) - 1 : Tail(q)[i] = q[i + 1]
    BY <1>1, <1>2
  <2>2. ASSUME NEW i \in DOMAIN q
        PROVE  q[i] = Head(q) \/ q[i] \in Range(Tail(q))
    <3>1. CASE i = 1
      BY <1>1, <3>1
    <3>2. CASE i # 1
      <4>1. i - 1 \in DOMAIN Tail(q) /\ Tail(q)[i - 1] = q[i]
        BY <1>1, <2>1, <2>2, <3>2
      <4> QED
        BY <4>1 DEF Range
    <3> QED
      BY <3>1, <3>2
  <2>3. Tail(q) # <<>>
    <3>1. 1 \in DOMAIN Tail(q)
      BY <1>1, <1>2, <2>1
    <3> QED
      BY SMTT(40), <3>1
  <2>4. Range(q) \subseteq {Head(q)} \cup Range(Tail(q))
    BY <2>2 DEF Range
  <2> QED
    BY <2>1, <2>3, <2>4
<1>3. ASSUME ~(Len(q) > 1) PROVE Range(q) \subseteq {Head(q)}
  <2>1. DOMAIN q = {1}
    BY <1>1, <1>3
  <2> QED
    BY <1>1, <2>1 DEF Range
<1> QED
  BY <1>2, <1>3

\* Where a handler is when it has done with a service.
LEMMA DoneFacts ==
    ASSUME TypeOK, PlacesOK, NEW h \in Handlers, handler[h].at # "idle"
    PROVE  /\ Done(h) \in Request /\ Fits(Done(h))
           /\ Done(h).at \in {"find", "restore", "idle"}
           /\ Done(h).at # "find" => Done(h).op # "intensity"
           /\ Done(h).at = "find" =>
                 /\ Done(h).op = handler[h].op /\ Done(h).level = handler[h].level
                 /\ Pending(h) \subseteq {Svc(h)} \cup
                        Range(Done(h).svcs)
           /\ handler[h].op = "intensity" /\ Done(h).at # "find" => Pending(h) \subseteq {Svc(h)}
<1>1. PICK r \in Request : r = handler[h]
  BY DEF TypeOK
<1>2. PICK q \in Seq(Services) : q = r.svcs /\ q # <<>>
  BY <1>1 DEF PlacesOK, Fits, Request
<1>3. CASE Len(q) > 1
  <2>1. Done(h) = [r EXCEPT !.svcs = Tail(q), !.at = "find", !.seen = 0]
    BY <1>1, <1>2, <1>3 DEF Done
  <2>2. /\ Tail(q) \in Seq(Services) /\ Tail(q) # <<>>
        /\ Pending(h) \subseteq {Svc(h)} \cup Range(Tail(q))
    BY <1>1, <1>2, <1>3, TailPending DEF Pending, Svc
  <2>3. /\ Done(h) \in Request /\ Done(h).at = "find" /\ Done(h).svcs = Tail(q)
        /\ Done(h).op = r.op /\ Done(h).level = r.level
    <3>1. PICK t \in Seq(Services) : t = Tail(q)
      BY <2>2
    <3>2. PICK u : u = [r EXCEPT !.svcs = t, !.at = "find", !.seen = 0]
      OBVIOUS
    <3>3. u \in Request /\ u.at = "find" /\ u.svcs = t /\ u.op = r.op /\ u.level = r.level
      BY <3>2 DEF Request, Place
    <3> QED
      BY <2>1, <3>1, <3>2, <3>3
  <2> QED
    BY <1>1, <2>2, <2>3 DEF Fits
<1>4. CASE ~(Len(q) > 1)
  <2>1. Pending(h) \subseteq {Svc(h)}
    BY <1>1, <1>2, <1>4, TailPending DEF Pending, Svc
  <2>2. CASE r.op = "reset"
    <3>1. Done(h) = [r EXCEPT !.at = "restore", !.seen = 0]
      BY <1>1, <1>2, <1>4, <2>2 DEF Done
    <3>2. PICK u : u = [r EXCEPT !.at = "restore", !.seen = 0]
      OBVIOUS
    <3>3. u \in Request /\ u.at = "restore" /\ u.svcs = r.svcs /\ u.op = r.op
      BY <3>2 DEF Request, Place
    <3>4. Done(h) = u
      BY <3>1, <3>2
    <3> QED
      BY <1>1, <1>2, <2>1, <2>2, <3>3, <3>4 DEF Fits
  <2>3. CASE r.op # "reset"
    <3>1. Done(h) = IdleHandler
      BY <1>1, <1>2, <1>4, <2>3 DEF Done
    <3> QED
      BY <2>1, <3>1, IdleFits DEF IdleHandler
  <2> QED
    BY <2>2, <2>3
<1> QED
  BY <1>3, <1>4

\* When a Docker call raises, a request that is no preset may also end.
LEMMA RaisedFacts ==
    ASSUME TypeOK, PlacesOK, NEW h \in Handlers, handler[h].at # "idle"
    PROVE  /\ Raised(h) \in Request /\ Fits(Raised(h))
           /\ Raised(h).at \in {"find", "restore", "idle"}
           /\ handler[h].op = "intensity" => Raised(h) = Done(h)
           /\ handler[h].op # "intensity" => Raised(h).op # "intensity"
BY DoneFacts, IdleFits DEF Raised, IdleHandler

\* A container that is created.
LEMMA NewBox ==
    ASSUME TypeOK, NEW s \in Services, NEW env \in Settings, NEW running \in BOOLEAN,
           NEW compose \in BOOLEAN, NEW found \in BOOLEAN, New(s, env, running, compose, found)
    PROVE  /\ box' \in [Services -> Box]
           /\ box'[s].there /\ box'[s].env = env /\ box'[s].compose = compose
           /\ \A t \in Services \ {s} : box'[t] = box[t]
BY DEF TypeOK, New, Box

LEMMA RunningBox ==
    ASSUME TypeOK, NEW s \in Services, NEW running \in BOOLEAN,
           box' = [box EXCEPT ![s].running = running]
    PROVE  /\ box' \in [Services -> Box]
           /\ \A t \in Services : /\ box'[t].id = box[t].id /\ box'[t].there = box[t].there
                                  /\ box'[t].env = box[t].env /\ box'[t].compose = box[t].compose
BY DEF TypeOK, Box

-----------------------------------------------------------------------------
(* What a step of one handler leaves of the invariant's parts *)

Others(h) == \A g \in Handlers \ {h} : handler'[g] = handler[g]

\* No container is lost by a step that takes none away without being about to create
\* it, and leaves none uncreated.
LEMMA LostKeeps ==
    ASSUME NothingLost, NEW h \in Handlers, Others(h), lost \subseteq lost',
           \A s \in Services \ lost' :
               box'[s].id > 0 =>
                   \/ box'[s].there
                   \/ handler'[h].at = "run" /\ Svc(h)' = s
                   \/ /\ box[s].id > 0 /\ ~box[s].there
                      /\ ~(handler[h].at = "run" /\ Svc(h) = s)
    PROVE  NothingLost'
<1> SUFFICES ASSUME NEW s \in Services \ lost', box'[s].id > 0, ~box'[s].there
             PROVE  \E g \in Handlers : handler'[g].at = "run" /\ Svc(g)' = s
  BY DEF NothingLost
<1>1. CASE handler'[h].at = "run" /\ Svc(h)' = s
  BY <1>1
<1>2. CASE /\ box[s].id > 0 /\ ~box[s].there
           /\ ~(handler[h].at = "run" /\ Svc(h) = s)
  <2>1. PICK g \in Handlers : handler[g].at = "run" /\ Svc(g) = s
    BY <1>2 DEF NothingLost
  <2>2. g # h /\ handler'[g] = handler[g]
    BY <1>2, <2>1 DEF Others
  <2> QED
    BY <2>1, <2>2 DEF Svc
<1> QED
  BY <1>1, <1>2

\* A handler that applies no preset disturbs none.
LEMMA Bystander ==
    ASSUME PresetInv, NEW h \in Handlers, Others(h), h \notin Applying, h \notin Applying',
           UNCHANGED <<environ, dotenv, latest, disturbed, missed>>,
           \A s \in Preset : Made(s) => Made(s)'
    PROVE  PresetInv'
<1> SUFFICES ASSUME ~disturbed
             PROVE  OnePreset' /\ (\A g \in Applying' : Progress(g)') /\ (Applying' = {} => InForce')
  BY DEF PresetInv
<1>1. Applying' = Applying
  BY DEF Applying, Others
<1>2. OnePreset'
  BY <1>1 DEF PresetInv, OnePreset
<1>3. ASSUME NEW g \in Applying PROVE Progress(g)'
  <2>1. Progress(g) /\ handler'[g] = handler[g]
    BY <1>3 DEF PresetInv, Applying, Others
  <2> QED
    BY <2>1 DEF Progress, Pending
<1>4. ASSUME Applying = {} PROVE InForce'
  BY <1>4 DEF PresetInv, InForce
<1> QED
  BY <1>1, <1>2, <1>3, <1>4

\* A handler that goes on with the same service.
LEMMA ApplicantStays ==
    ASSUME PresetInv, NEW h \in Handlers, Others(h), h \in Applying, h \in Applying',
           UNCHANGED disturbed, Progress(h) => Progress(h)'
    PROVE  PresetInv'
<1> SUFFICES ASSUME ~disturbed
             PROVE  OnePreset' /\ (\A g \in Applying' : Progress(g)') /\ (Applying' = {} => InForce')
  BY DEF PresetInv
<1>1. Applying = {h} /\ Progress(h)
  BY DEF PresetInv, OnePreset
<1>2. Applying' = {h}
  BY <1>1 DEF Applying, Others
<1> QED
  BY <1>1, <1>2 DEF OnePreset

\* A handler that has done with a service, which it has made or has not got to.
LEMMA ApplicantMoves ==
    ASSUME TypeOK, PlacesOK, PresetInv,
           NEW h \in Handlers, NEW v \in Services, v = Svc(h),
           Others(h), h \in Applying, handler'[h] = Done(h),
           handler[h].at \in {"find", "stop", "remove", "run"},
           UNCHANGED <<environ, dotenv, latest, disturbed>>,
           \A s \in Preset \ {v} : Made(s) => Made(s)',
           missed \subseteq missed', v \in missed' \/ Made(v)'
    PROVE  PresetInv'
<1> SUFFICES ASSUME ~disturbed
             PROVE  OnePreset' /\ (\A g \in Applying' : Progress(g)') /\ (Applying' = {} => InForce')
  BY DEF PresetInv
<1>1. Applying = {h} /\ Progress(h)
  BY DEF PresetInv, OnePreset
<1>2. Applying' \subseteq {h}
  BY <1>1 DEF Applying, Others
<1>3. handler[h].at # "idle" /\ handler[h].op = "intensity"
  BY DEF Applying
<1>4. ASSUME h \in Applying' PROVE Progress(h)'
  <2>1. Done(h).at = "find"
    BY <1>3, <1>4, DoneFacts DEF Applying
  <2>2. Done(h).level = latest' /\ Pending(h) \subseteq {v} \cup Pending(h)'
    BY <1>1, <1>3, <2>1, DoneFacts DEF Progress, Pending
  <2>3. \A s \in Preset \ (missed \cup Pending(h))' : Made(s)'
    BY <1>1, <2>2 DEF Progress
  <2> QED
    BY <1>1, <2>1, <2>2, <2>3 DEF Progress
<1>5. ASSUME Applying' = {} PROVE InForce'
  <2>1. Done(h).at # "find"
    BY <1>3, <1>5, DoneFacts DEF Applying
  <2>2. Pending(h) \subseteq {v}
    BY <1>3, <2>1, DoneFacts
  <2> QED
    BY <1>1, <2>2 DEF Progress, InForce
<1> QED
  BY <1>2, <1>4, <1>5 DEF OnePreset

-----------------------------------------------------------------------------
(* The steps *)

LEMMA InitIInv == Init => IInv
<1> SUFFICES ASSUME Init PROVE IInv
  OBVIOUS
<1>1. box \in [Services -> Box] /\ \A s \in Services : box[s].there
  BY DEF Init, NoBox, Box, Settings
<1>2. handler \in [Handlers -> Request] /\ PlacesOK
  BY IdleFits DEF Init, PlacesOK
<1>3. TypeOK
  <2>1. \A h \in Handlers : handler[h].at = "idle"
    BY DEF Init, IdleHandler
  <2>2. dotenv \in [level : {"low", "medium", "high", "none"}, others : BOOLEAN]
    BY DEF Init
  <2>3. environ \in Settings /\ latest \in Settings /\ disturbed \in BOOLEAN
    BY DEF Init, Settings
  <2>4. calls \in 0 .. MaxCalls /\ faults \in 0 .. MaxFaults
    BY GeneratorsAssumption DEF Init
  <2> QED
    BY <1>1, <1>2, <2>1, <2>2, <2>3, <2>4 DEF TypeOK, Init
<1>4. NothingLost
  BY <1>1 DEF NothingLost
<1>5. Applying = {}
  BY DEF Init, Applying, IdleHandler
<1>6. InForce
  BY DEF Init, InForce, Preset, Services
<1> QED
  BY <1>2, <1>3, <1>4, <1>5, <1>6 DEF IInv, PresetInv, OnePreset

\* A request that is taken.
LEMMA AskType ==
    ASSUME TypeOK, PlacesOK, NEW h \in Handlers, NEW r \in Request, Fits(r), Ask(h, r),
           latest' \in Settings, disturbed' \in BOOLEAN, missed' \subseteq Services
    PROVE  TypeOK' /\ PlacesOK' /\ Others(h) /\ handler'[h] = r
<1>1. /\ Set(h, r) /\ calls' = calls + 1 /\ calls < MaxCalls
      /\ UNCHANGED <<box, environ, dotenv, faults, lost>>
  BY DEF Ask
<1>2. /\ handler' \in [Handlers -> Request] /\ PlacesOK'
      /\ \A g \in Handlers : handler'[g].at # "idle" => handler'[g].svcs # <<>>
      /\ handler'[h] = r /\ Others(h)
  BY <1>1, SetType DEF Others
<1>3. calls' \in 0 .. MaxCalls
  BY <1>1, GeneratorsAssumption DEF TypeOK
<1> QED
  BY <1>1, <1>2, <1>3 DEF TypeOK

LEMMA AskLoses ==
    ASSUME NothingLost, NEW h \in Handlers, NEW r, Ask(h, r), Others(h)
    PROVE  NothingLost'
<1>1. UNCHANGED <<box, lost>> /\ handler[h].at = "idle"
  BY DEF Ask
<1>2. \A s \in Services \ lost' :
         box'[s].id > 0 => box'[s].there \/ (box[s].id > 0 /\ ~box[s].there)
  BY <1>1
<1> QED
  BY <1>1, <1>2, LostKeeps

LEMMA SetIntensityKeeps ==
    ASSUME IInv, NEW h \in Handlers, NEW level \in Levels, SetIntensity(h, level)
    PROVE  IInv'
<1> USE DEF IInv
<1> DEFINE r == [IdleHandler EXCEPT !.op = "intensity", !.level = level,
                                    !.svcs = Recreated, !.at = "environ"]
<1>1. /\ r \in Request /\ Fits(r)
      /\ r.op = "intensity" /\ r.level = level /\ r.svcs = Recreated /\ r.at = "environ"
  BY ListTypes, GeneratorsAssumption DEF Request, Place, Settings, IdleHandler, Fits
<1>2. /\ Ask(h, r) /\ latest' = level /\ missed' = {}
      /\ disturbed' = (disturbed \/ Applying # {})
      /\ UNCHANGED dotenv
  BY DEF SetIntensity, Ask
<1> HIDE DEF r
<1>3. TypeOK' /\ PlacesOK' /\ Others(h) /\ handler'[h] = r
  BY <1>1, <1>2, AskType, GeneratorsAssumption DEF TypeOK, Settings
<1>4. NothingLost'
  BY <1>2, <1>3, AskLoses
<1>5. PresetInv'
  <2>1. SUFFICES ASSUME ~disturbed, Applying = {}
                 PROVE  OnePreset' /\ (\A g \in Applying' : Progress(g)') /\ Applying' # {}
    BY <1>2 DEF PresetInv
  <2>2. Applying' = {h}
    BY <1>1, <1>3, <2>1 DEF Applying, Others
  <2>3. Pending(h)' = Preset
    BY <1>1, <1>3, ListTypes DEF Pending
  <2>4. dotenv'.others
    BY <1>2, <2>1 DEF PresetInv, InForce
  <2>5. Progress(h)'
    BY <1>1, <1>2, <1>3, <2>3, <2>4 DEF Progress
  <2> QED
    BY <2>2, <2>5 DEF OnePreset
<1> QED
  BY <1>3, <1>4, <1>5

\* The other requests apply no preset.
LEMMA OtherRequestKeeps ==
    ASSUME IInv, NEW h \in Handlers, NEW r \in Request, Fits(r), r.op # "intensity",
           Ask(h, r), UNCHANGED <<latest, disturbed, missed>>
    PROVE  IInv'
<1> USE DEF IInv
<1>1. TypeOK' /\ PlacesOK' /\ Others(h) /\ handler'[h] = r
  BY AskType DEF TypeOK
<1>2. NothingLost'
  BY <1>1, AskLoses
<1>3. UNCHANGED <<box, environ, dotenv>> /\ handler[h].at = "idle"
  BY DEF Ask
<1>4. \A s \in Preset : Made(s) => Made(s)'
  BY <1>3 DEF Made
<1>5. h \notin Applying /\ h \notin Applying'
  BY <1>1, <1>3 DEF Applying
<1>6. PresetInv'
  BY <1>1, <1>3, <1>4, <1>5, Bystander
<1> QED
  BY <1>1, <1>2, <1>6

LEMMA RequestKeeps ==
    ASSUME IInv, NEW h \in Handlers,
           StartTest(h) \/ \E s \in Startable : StartGenerator(h, s) \/ StopGenerator(h, s)
    PROVE  IInv'
<1> DEFINE r(op, svcs) == [IdleHandler EXCEPT !.op = op, !.svcs = svcs, !.at = "find"]
<1>1. ASSUME NEW op \in {"start", "stop", "reset", "restart"},
             NEW svcs \in Seq(Services), svcs # <<>>
      PROVE  r(op, svcs) \in Request /\ Fits(r(op, svcs)) /\ r(op, svcs).op # "intensity"
  BY <1>1 DEF Request, Place, Settings, IdleHandler, Fits
<1>2. PICK op \in {"start", "stop", "reset", "restart"}, svcs \in Seq(Services) :
        svcs # <<>> /\ Ask(h, r(op, svcs)) /\ UNCHANGED <<latest, disturbed, missed>>
  BY ListTypes DEF StartTest, StartGenerator, StopGenerator, Startable
<1> QED
  BY <1>1, <1>2, OtherRequestKeeps

\* A preset's work on os.environ and .env.
LEMMA SettingsKeep ==
    ASSUME IInv, NEW h \in Handlers, SetEnviron(h) \/ TruncateDotenv(h) \/ WriteDotenv(h)
    PROVE  IInv'
<1> USE DEF IInv
<1>1. handler[h] \in Request /\ Fits(handler[h]) /\ handler[h].at \in {"environ", "truncate", "write"}
  BY DEF TypeOK, PlacesOK, SetEnviron, TruncateDotenv, WriteDotenv
<1>2. PICK r : /\ Set(h, r) /\ r \in Request /\ Fits(r)
               /\ r.op = "intensity" /\ r.at # "idle" /\ r.at # "run"
               /\ r.svcs = handler[h].svcs /\ r.level = handler[h].level
               /\ handler[h].at = "environ" => r.at = "truncate"
               /\ handler[h].at = "truncate" => r.at = "write" /\ r.kept = dotenv.others
               /\ handler[h].at = "write" => r.at = "find"
  <2>1. CASE SetEnviron(h) \/ WriteDotenv(h)
    <3>1. PICK at \in {"truncate", "find"} :
            /\ Set(h, [handler[h] EXCEPT !.at = at])
            /\ handler[h].at = "environ" => at = "truncate"
            /\ handler[h].at = "write" => at = "find"
            /\ handler[h].at # "truncate"
      BY <2>1 DEF SetEnviron, WriteDotenv, Goto
    <3>2. PICK r : r = [handler[h] EXCEPT !.at = at]
      OBVIOUS
    <3>3. /\ r \in Request /\ r.at = at /\ r.op = handler[h].op
          /\ r.svcs = handler[h].svcs /\ r.level = handler[h].level
      BY <1>1, <3>2 DEF Request, Place
    <3> QED
      BY <1>1, <3>1, <3>2, <3>3 DEF Fits
  <2>2. CASE TruncateDotenv(h)
    <3>1. PICK r : r = [handler[h] EXCEPT !.kept = dotenv.others, !.at = "write"]
      OBVIOUS
    <3>2. dotenv.others \in BOOLEAN
      BY DEF TypeOK
    <3>3. /\ r \in Request /\ r.at = "write" /\ r.op = handler[h].op
          /\ r.svcs = handler[h].svcs /\ r.level = handler[h].level /\ r.kept = dotenv.others
      BY <1>1, <3>1, <3>2 DEF Request, Place
    <3> QED
      BY <1>1, <2>2, <3>1, <3>3 DEF TruncateDotenv, Fits
  <2> QED
    BY <2>1, <2>2
<1>3. UNCHANGED <<box, calls, faults, latest, disturbed, missed, lost>>
  BY DEF SetEnviron, TruncateDotenv, WriteDotenv, histories
<1>4. /\ handler' \in [Handlers -> Request] /\ PlacesOK'
      /\ \A g \in Handlers : handler'[g].at # "idle" => handler'[g].svcs # <<>>
      /\ handler'[h] = r /\ Others(h)
  BY <1>2, SetType DEF Others
<1>5. /\ environ' \in Settings
      /\ dotenv' \in [level : {"low", "medium", "high", "none"}, others : BOOLEAN]
  <2>1. handler[h].level \in Settings /\ handler[h].kept \in BOOLEAN
    BY <1>1 DEF Request
  <2>2. CASE SetEnviron(h)
    BY <2>1, <2>2 DEF SetEnviron, TypeOK
  <2>3. CASE TruncateDotenv(h)
    BY <2>3 DEF TruncateDotenv, TypeOK
  <2>4. CASE WriteDotenv(h)
    BY <2>1, <2>4 DEF WriteDotenv, TypeOK, Settings
  <2> QED
    BY <2>2, <2>3, <2>4
<1>6. TypeOK'
  BY <1>3, <1>4, <1>5 DEF TypeOK
<1>7. NothingLost'
  <2>1. \A s \in Services \ lost' : box'[s].id > 0 =>
            \/ box'[s].there
            \/ box[s].id > 0 /\ ~box[s].there /\ ~(handler[h].at = "run" /\ Svc(h) = s)
    BY <1>1, <1>3
  <2> QED
    BY <1>3, <1>4, <2>1, LostKeeps
<1>8. PresetInv'
  <2>1. h \in Applying /\ h \in Applying'
    BY <1>1, <1>2, <1>4 DEF Applying, Fits
  <2>2. ASSUME Progress(h) PROVE Progress(h)'
    <3>1. Pending(h)' = Pending(h)
      BY <1>2, <1>4 DEF Pending
    <3>2. \A s \in Preset : Made(s) => Made(s)'
      BY <1>3 DEF Made
    <3>3. CASE SetEnviron(h)
      BY <1>2, <1>3, <1>4, <2>2, <3>1, <3>2, <3>3 DEF Progress, SetEnviron
    <3>4. CASE TruncateDotenv(h)
      BY <1>2, <1>3, <1>4, <2>2, <3>1, <3>2, <3>4 DEF Progress, TruncateDotenv
    <3>5. CASE WriteDotenv(h)
      BY <1>2, <1>3, <1>4, <2>2, <3>1, <3>2, <3>5 DEF Progress, WriteDotenv
    <3> QED
      BY <3>3, <3>4, <3>5
  <2> QED
    BY <1>3, <1>4, <2>1, <2>2, ApplicantStays
<1> QED
  BY <1>4, <1>6, <1>7, <1>8

LEMMA FaultType ==
    ASSUME TypeOK, UNCHANGED faults \/ (faults < MaxFaults /\ faults' = faults + 1)
    PROVE  faults' \in 0 .. MaxFaults
BY GeneratorsAssumption DEF TypeOK

\* A preset that fails on .env.
LEMMA DotenvKeeps ==
    ASSUME IInv, NEW h \in Handlers, DotenvRaises(h)
    PROVE  IInv'
<1> USE DEF IInv
<1>1. handler[h] \in Request /\ handler[h].at \in {"truncate", "write"} /\ Set(h, IdleHandler)
  BY DEF TypeOK, DotenvRaises
<1>2. /\ UNCHANGED <<box, environ, dotenv, calls, latest, missed, lost>> /\ disturbed' = TRUE
      /\ faults' \in 0 .. MaxFaults
  BY FaultType DEF DotenvRaises
<1>3. /\ handler' \in [Handlers -> Request] /\ PlacesOK'
      /\ \A g \in Handlers : handler'[g].at # "idle" => handler'[g].svcs # <<>>
      /\ handler'[h] = IdleHandler /\ Others(h)
  BY <1>1, IdleFits, SetType DEF Others
<1>4. TypeOK'
  BY <1>2, <1>3 DEF TypeOK
<1>5. NothingLost'
  <2>1. \A s \in Services \ lost' : box'[s].id > 0 =>
            \/ box'[s].there
            \/ box[s].id > 0 /\ ~box[s].there /\ ~(handler[h].at = "run" /\ Svc(h) = s)
    BY <1>1, <1>2
  <2> QED
    BY <1>2, <1>3, <2>1, LostKeeps
<1> QED
  BY <1>2, <1>3, <1>4, <1>5 DEF PresetInv

\* The steps on containers change neither os.environ, .env nor what was asked for.
LEMMA StepType ==
    ASSUME TypeOK, PlacesOK, NEW h \in Handlers, NEW r \in Request, Fits(r), Set(h, r),
           box' \in [Services -> Box], UNCHANGED <<environ, dotenv, calls, latest, disturbed>>,
           faults' \in 0 .. MaxFaults, missed' \subseteq Services, lost' \subseteq Services
    PROVE  TypeOK' /\ PlacesOK' /\ Others(h) /\ handler'[h] = r
<1>1. /\ handler' \in [Handlers -> Request] /\ PlacesOK'
      /\ \A g \in Handlers : handler'[g].at # "idle" => handler'[g].svcs # <<>>
      /\ handler'[h] = r /\ Others(h)
  BY SetType DEF Others
<1> QED
  BY <1>1 DEF TypeOK

LEMMA MissType ==
    ASSUME TypeOK, NEW h \in Handlers, handler[h].at # "idle", Miss(h)
    PROVE  /\ missed' \subseteq Services /\ missed \subseteq missed'
           /\ handler[h].op # "intensity" => missed' = missed
           /\ handler[h].op = "intensity" => Svc(h) \in missed'
BY SvcType DEF Miss, TypeOK

\* A handler looks for a container or waits, and touches none.
LEMMA LookKeeps ==
    ASSUME IInv, NEW h \in Handlers, Find(h) \/ AlreadyRunning(h) \/ Restore(h) \/ Spawn(h)
    PROVE  IInv'
<1> USE DEF IInv
<1>1. /\ handler[h] \in Request /\ Fits(handler[h]) /\ handler[h].at \in {"find", "restore", "spawn"}
      /\ UNCHANGED <<box, environ, dotenv, calls, faults, histories>>
  BY DEF TypeOK, PlacesOK, Find, AlreadyRunning, Restore, Spawn
<1>2. PICK r : /\ Set(h, r) /\ r \in Request /\ Fits(r)
               /\ handler[h].op = "intensity" =>
                      /\ r.op = "intensity" /\ r.at = "stop" /\ r.level = handler[h].level
                      /\ r.svcs = handler[h].svcs
               /\ handler[h].op # "intensity" => r.op # "intensity"
  <2>1. CASE Find(h)
    <3>1. PICK at \in {"restart", "stop"}, seen \in Nat :
            /\ Set(h, [handler[h] EXCEPT !.seen = seen, !.at = at])
            /\ at = "restart" <=> handler[h].op = "restart"
            /\ handler[h].op # "start"
      BY <1>1, <2>1, SvcType DEF Find, TypeOK, Box
    <3>2. PICK r : r = [handler[h] EXCEPT !.seen = seen, !.at = at]
      OBVIOUS
    <3>3. /\ r \in Request /\ r.at = at /\ r.op = handler[h].op
          /\ r.svcs = handler[h].svcs /\ r.level = handler[h].level
      BY <1>1, <3>2 DEF Request, Place
    <3>4. Fits(r)
      BY <1>1, <3>1, <3>3 DEF Fits, Request
    <3> QED
      BY <3>1, <3>2, <3>3, <3>4
  <2>2. CASE AlreadyRunning(h)
    BY <2>2, IdleFits DEF AlreadyRunning, IdleHandler
  <2>3. CASE Restore(h)
    <3>1. CASE Set(h, IdleHandler)
      BY <1>1, <2>3, <3>1, IdleFits DEF Restore, IdleHandler, Fits
    <3>2. CASE Set(h, [handler[h] EXCEPT !.op = "restart", !.svcs = Recreated, !.at = "find"])
      <4>1. PICK r : r = [handler[h] EXCEPT !.op = "restart", !.svcs = Recreated, !.at = "find"]
        OBVIOUS
      <4>2. r \in Request /\ r.at = "find" /\ r.op = "restart" /\ r.svcs = Recreated
        BY <1>1, <4>1, ListTypes DEF Request, Place
      <4>3. Fits(r)
        BY <4>2, ListTypes DEF Fits
      <4> QED
        BY <1>1, <2>3, <3>2, <4>1, <4>2, <4>3 DEF Restore, Fits
    <3> QED
      BY <2>3, <3>1, <3>2 DEF Restore
  <2>4. CASE Spawn(h)
    <3>1. PICK r : r = [handler[h] EXCEPT !.env = environ, !.at = "up"]
      OBVIOUS
    <3>2. /\ r \in Request /\ r.at = "up" /\ r.op = handler[h].op /\ r.svcs = handler[h].svcs
      BY <1>1, <3>1 DEF Request, Place, TypeOK
    <3> QED
      BY <1>1, <2>4, <3>1, <3>2 DEF Spawn, Fits
  <2> QED
    BY <2>1, <2>2, <2>3, <2>4
<1>3. TypeOK' /\ PlacesOK' /\ Others(h) /\ handler'[h] = r
  BY <1>1, <1>2, StepType DEF TypeOK, histories
<1>4. NothingLost'
  <2>1. \A s \in Services \ lost' : box'[s].id > 0 =>
            \/ box'[s].there
            \/ box[s].id > 0 /\ ~box[s].there /\ ~(handler[h].at = "run" /\ Svc(h) = s)
    BY <1>1
  <2> QED
    BY <1>1, <1>3, <2>1, LostKeeps DEF histories
<1>5. PresetInv'
  <2>1. \A s \in Preset : Made(s) => Made(s)'
    BY <1>1 DEF Made, histories
  <2>2. CASE handler[h].op # "intensity"
    <3>1. h \notin Applying /\ h \notin Applying'
      BY <1>2, <1>3, <2>2 DEF Applying
    <3> QED
      BY <1>1, <1>3, <2>1, <3>1, Bystander DEF histories
  <2>3. CASE handler[h].op = "intensity"
    <3>1. h \in Applying /\ h \in Applying' /\ handler[h].at = "find"
      BY <1>1, <1>2, <1>3, <2>3 DEF Applying, Fits
    <3>2. Pending(h)' = Pending(h)
      BY <1>2, <1>3, <2>3 DEF Pending
    <3>3. Progress(h) => Progress(h)'
      BY <1>1, <1>2, <1>3, <2>1, <2>3, <3>1, <3>2 DEF Progress, histories
    <3> QED
      BY <1>1, <1>3, <3>1, <3>3, ApplicantStays DEF histories
  <2> QED
    BY <2>2, <2>3
<1> QED
  BY <1>3, <1>4, <1>5

\* A handler that has done with its service, or ends: a preset has made the container
\* or missed it, and whoever applies none leaves what a preset has made.
LEMMA DoneKeeps ==
    ASSUME IInv, NEW h \in Handlers, NEW v \in Services, v = Svc(h),
           NEW r \in Request, Fits(r), Set(h, r),
           handler[h].at \in {"find", "stop", "remove", "run", "restart", "up"},
           handler[h].op = "intensity" => r = Done(h),
           handler[h].op # "intensity" => r.op # "intensity",
           box' \in [Services -> Box], UNCHANGED <<environ, dotenv, calls, latest, disturbed>>,
           faults' \in 0 .. MaxFaults, lost \subseteq lost', lost' \subseteq Services,
           missed \subseteq missed', missed' \subseteq Services,
           handler[h].op # "intensity" => missed' = missed /\ (Made(v) => Made(v)'),
           handler[h].op = "intensity" => v \in missed' \/ Made(v)',
           \A s \in Preset \ {v} : Made(s) => Made(s)',
           \A s \in Services \ lost' :
               box'[s].id > 0 =>
                   \/ box'[s].there
                   \/ box[s].id > 0 /\ ~box[s].there /\ ~(handler[h].at = "run" /\ v = s)
    PROVE  IInv'
<1> USE DEF IInv
<1>1. TypeOK' /\ PlacesOK' /\ Others(h) /\ handler'[h] = r
  BY StepType
<1>2. NothingLost'
  BY <1>1, LostKeeps
<1>3. PresetInv'
  <2>1. CASE handler[h].op = "intensity"
    <3>1. h \in Applying /\ handler[h].at \in {"find", "stop", "remove", "run"}
      BY <2>1 DEF Applying, PlacesOK, Fits
    <3> QED
      BY <1>1, <2>1, <3>1, ApplicantMoves
  <2>2. CASE handler[h].op # "intensity"
    <3>1. h \notin Applying /\ h \notin Applying'
      BY <1>1, <2>2 DEF Applying
    <3>2. \A s \in Preset : Made(s) => Made(s)'
      BY <2>2
    <3> QED
      BY <1>1, <2>2, <3>1, <3>2, Bystander
  <2> QED
    BY <2>1, <2>2
<1> QED
  BY <1>1, <1>2, <1>3

LEMMA MissKeeps ==
    ASSUME IInv, NEW h \in Handlers, FindNone(h) \/ Raise(h) PROVE IInv'
<1> USE DEF IInv
<1>1. /\ handler[h] \in Request /\ Fits(handler[h])
      /\ handler[h].at \in {"find", "stop", "remove", "restart"}
      /\ UNCHANGED <<box, environ, dotenv, calls, latest, disturbed, lost>>
      /\ Miss(h) /\ (UNCHANGED faults \/ (faults < MaxFaults /\ faults' = faults + 1))
  BY DEF TypeOK, PlacesOK, FindNone, Raise
<1>2. PICK r \in Request :
               /\ Set(h, r) /\ Fits(r)
               /\ handler[h].op = "intensity" => r = Done(h)
               /\ handler[h].op # "intensity" => r.op # "intensity"
  <2>1. CASE FindNone(h) /\ handler[h].op = "start"
    <3>1. PICK r : r = [handler[h] EXCEPT !.at = "spawn"]
      OBVIOUS
    <3>2. /\ r \in Request /\ r.at = "spawn" /\ r.op = handler[h].op /\ r.svcs = handler[h].svcs
      BY <1>1, <3>1 DEF Request, Place
    <3> QED
      BY <1>1, <2>1, <3>1, <3>2 DEF FindNone, Goto, Fits
  <2>2. CASE FindNone(h) /\ handler[h].op # "start"
    <3>1. Set(h, Done(h))
      BY <2>2 DEF FindNone
    <3>2. handler[h].op # "intensity" => Done(h).op # "intensity"
      BY <1>1, DoneFacts
    <3> QED
      BY <1>1, <3>1, <3>2, DoneFacts
  <2>3. CASE Raise(h)
    <3>1. Set(h, Raised(h))
      BY <2>3 DEF Raise
    <3> QED
      BY <1>1, <3>1, RaisedFacts
  <2> QED
    BY <1>1, <2>1, <2>2, <2>3
<1>3. PICK v \in Services : v = Svc(h)
  BY <1>1, SvcType
<1>4. \A s \in Preset \cup {v} : Made(s) => Made(s)'
  BY <1>1 DEF Made
<1>5. faults' \in 0 .. MaxFaults
  BY <1>1, FaultType
<1>6. /\ missed' \subseteq Services /\ missed \subseteq missed'
      /\ handler[h].op # "intensity" => missed' = missed
      /\ handler[h].op = "intensity" => v \in missed'
  BY <1>1, <1>3, MissType
<1>7. box' \in [Services -> Box] /\ lost' \subseteq Services /\ lost \subseteq lost'
  BY <1>1 DEF TypeOK
<1>8. \A s \in Services \ lost' :
          box'[s].id > 0 =>
              box'[s].there \/ (box[s].id > 0 /\ ~box[s].there /\ ~(handler[h].at = "run" /\ v = s))
  BY <1>1
<1> QED
  BY <1>1, <1>2, <1>3, <1>4, <1>5, <1>6, <1>7, <1>8, DoneKeeps

\* What a step that changes no more than whether a container runs has in common.
LEMMA RunningStep ==
    ASSUME TypeOK, NEW v \in Services, NEW running \in BOOLEAN,
           box' = [box EXCEPT ![v].running = running],
           UNCHANGED <<latest, faults, missed, lost>>
    PROVE  /\ box' \in [Services -> Box] /\ faults' \in 0 .. MaxFaults
           /\ missed' \subseteq Services /\ missed \subseteq missed'
           /\ lost' \subseteq Services /\ lost \subseteq lost'
           /\ \A s \in Services : Made(s) <=> Made(s)'
           /\ \A s \in Services : box'[s].id = box[s].id /\ box'[s].there = box[s].there
BY RunningBox DEF Made, TypeOK

LEMMA StopKeeps ==
    ASSUME IInv, NEW h \in Handlers, Stop(h) PROVE IInv'
<1> USE DEF IInv
<1>1. /\ handler[h] \in Request /\ Fits(handler[h]) /\ handler[h].at = "stop"
      /\ UNCHANGED <<environ, dotenv, calls, faults, histories>>
  BY DEF TypeOK, PlacesOK, Stop
<1>2. PICK v \in Services : v = Svc(h)
  BY <1>1, SvcType
<1>3. box' = [box EXCEPT ![v].running = FALSE]
  BY <1>2 DEF Stop
<1>4. /\ box' \in [Services -> Box] /\ faults' \in 0 .. MaxFaults
      /\ missed' \subseteq Services /\ missed \subseteq missed'
      /\ lost' \subseteq Services /\ lost \subseteq lost'
      /\ \A s \in Services : Made(s) <=> Made(s)'
      /\ \A s \in Services : box'[s].id = box[s].id /\ box'[s].there = box[s].there
  BY <1>1, <1>3, RunningStep DEF histories
<1>5. \A s \in Services \ lost' :
          box'[s].id > 0 =>
              box'[s].there \/ (box[s].id > 0 /\ ~box[s].there /\ ~(handler[h].at = "run" /\ v = s))
  BY <1>1, <1>4
<1>6. CASE handler[h].op # "intensity"
  <2>1. /\ Set(h, Done(h)) /\ Done(h) \in Request /\ Fits(Done(h)) /\ Done(h).op # "intensity"
    BY <1>1, <1>6, DoneFacts DEF Stop
  <2> QED
    BY ZenonT(40), <1>1, <1>2, <1>4, <1>5, <1>6, <2>1, DoneKeeps DEF Preset, Services, histories
<1>7. CASE handler[h].op = "intensity"
  <2>1. PICK r : r = [handler[h] EXCEPT !.at = "remove"]
    OBVIOUS
  <2>2. /\ r \in Request /\ r.at = "remove" /\ r.op = "intensity"
        /\ r.svcs = handler[h].svcs /\ r.level = handler[h].level
    BY <1>1, <1>7, <2>1 DEF Request, Place
  <2>3. Fits(r) /\ Set(h, r)
    BY <1>1, <1>7, <2>1, <2>2 DEF Fits, Stop
  <2>4. TypeOK' /\ PlacesOK' /\ Others(h) /\ handler'[h] = r
    BY <1>1, <1>4, <2>2, <2>3, StepType DEF histories
  <2>5. NothingLost'
    BY <1>1, <1>2, <1>4, <1>5, <2>4, LostKeeps
  <2>6. h \in Applying /\ h \in Applying'
    BY <1>1, <1>7, <2>2, <2>4 DEF Applying
  <2>7. Progress(h) => Progress(h)'
    BY <1>1, <1>4, <2>2, <2>4 DEF Progress, Pending, histories, Preset, Services
  <2>8. PresetInv'
    BY <1>1, <2>4, <2>6, <2>7, ApplicantStays DEF histories
  <2> QED
    BY <2>4, <2>5, <2>8
<1> QED
  BY <1>6, <1>7

LEMMA RestartKeeps ==
    ASSUME IInv, NEW h \in Handlers, Restart(h) PROVE IInv'
<1> USE DEF IInv
<1>1. /\ handler[h] \in Request /\ Fits(handler[h]) /\ handler[h].at = "restart"
      /\ handler[h].op = "restart"
      /\ UNCHANGED <<environ, dotenv, calls, faults, histories>>
  BY DEF TypeOK, PlacesOK, Restart, Fits
<1>2. PICK v \in Services : v = Svc(h)
  BY <1>1, SvcType
<1>3. box' = [box EXCEPT ![v].running = TRUE]
  BY <1>2 DEF Restart
<1>4. /\ box' \in [Services -> Box] /\ faults' \in 0 .. MaxFaults
      /\ missed' \subseteq Services /\ missed \subseteq missed'
      /\ lost' \subseteq Services /\ lost \subseteq lost'
      /\ \A s \in Services : Made(s) <=> Made(s)'
      /\ \A s \in Services : box'[s].id = box[s].id /\ box'[s].there = box[s].there
  BY <1>1, <1>3, RunningStep DEF histories
<1>5. \A s \in Services \ lost' :
          box'[s].id > 0 =>
              box'[s].there \/ (box[s].id > 0 /\ ~box[s].there /\ ~(handler[h].at = "run" /\ v = s))
  BY <1>1, <1>4
<1>6. /\ Set(h, Done(h)) /\ Done(h) \in Request /\ Fits(Done(h)) /\ Done(h).op # "intensity"
  BY <1>1, DoneFacts DEF Restart
<1> QED
  BY <1>1, <1>2, <1>4, <1>5, <1>6, DoneKeeps DEF Preset, Services, histories

LEMMA RemoveKeeps ==
    ASSUME IInv, NEW h \in Handlers, Discard(h) PROVE IInv'
<1> USE DEF IInv
<1>1. /\ handler[h] \in Request /\ Fits(handler[h]) /\ handler[h].at = "remove"
      /\ handler[h].op = "intensity"
      /\ UNCHANGED <<environ, dotenv, calls, faults, histories>>
  BY DEF TypeOK, PlacesOK, Discard, Fits
<1>2. PICK v \in Services : v = Svc(h)
  BY <1>1, SvcType
<1>3. /\ box' \in [Services -> Box]
      /\ \A s \in Services \ {v} : box'[s] = box[s]
  BY <1>2 DEF Discard, TypeOK, Box, NoBox, Settings
<1>4. v \in Pending(h)
  BY <1>1, <1>2 DEF Svc, Pending, Range, Request, Fits
<1>5. PICK r : r = [handler[h] EXCEPT !.at = "run"]
  OBVIOUS
<1>6. /\ r \in Request /\ r.at = "run" /\ r.op = "intensity"
      /\ r.svcs = handler[h].svcs /\ r.level = handler[h].level
  BY <1>1, <1>5 DEF Request, Place
<1>7. Fits(r) /\ Set(h, r)
  BY <1>1, <1>5, <1>6 DEF Fits, Discard, Goto
<1>8. TypeOK' /\ PlacesOK' /\ Others(h) /\ handler'[h] = r
  BY <1>1, <1>3, <1>6, <1>7, StepType DEF histories, TypeOK
<1>9. NothingLost'
  <2>1. Svc(h)' = v
    BY <1>2, <1>6, <1>8 DEF Svc
  <2>2. \A s \in Services \ lost' :
            box'[s].id > 0 =>
                \/ box'[s].there
                \/ handler'[h].at = "run" /\ Svc(h)' = s
                \/ box[s].id > 0 /\ ~box[s].there /\ ~(handler[h].at = "run" /\ Svc(h) = s)
    BY <1>1, <1>3, <1>6, <1>8, <2>1
  <2> QED
    BY <1>1, <1>8, <2>2, LostKeeps DEF histories
<1>10. PresetInv'
  <2>1. h \in Applying /\ h \in Applying'
    BY <1>1, <1>6, <1>8 DEF Applying
  <2>2. Pending(h)' = Pending(h)
    BY <1>6, <1>8 DEF Pending
  <2>3. \A s \in Preset \ Pending(h) : Made(s) => Made(s)'
    BY <1>1, <1>3, <1>4 DEF Made, histories, Preset, Services
  <2>4. Progress(h) => Progress(h)'
    BY <1>1, <1>6, <1>8, <2>2, <2>3 DEF Progress, histories
  <2> QED
    BY <1>1, <1>8, <2>1, <2>4, ApplicantStays DEF histories
<1> QED
  BY <1>8, <1>9, <1>10

\* The creation of a container, well or not: it is the preset's, and there, or it is
\* missed and, when it is not there, lost.
LEMMA RunKeeps ==
    ASSUME IInv, NEW h \in Handlers, Run(h) \/ RunRaises(h) PROVE IInv'
<1> USE DEF IInv
<1>1. /\ handler[h] \in Request /\ Fits(handler[h]) /\ handler[h].at = "run"
      /\ handler[h].op = "intensity" /\ handler[h].level \in Settings
      /\ UNCHANGED <<environ, dotenv, calls, latest, disturbed>>
  BY DEF TypeOK, PlacesOK, Run, RunRaises, Fits, Request, histories
<1>2. PICK v \in Services : v = Svc(h)
  BY <1>1, SvcType
<1>3. /\ Set(h, Done(h)) /\ Done(h) \in Request /\ Fits(Done(h))
  BY <1>1, DoneFacts DEF Run, RunRaises
<1>4. /\ box' \in [Services -> Box]
      /\ \A s \in Services \ {v} : box'[s] = box[s]
      /\ box'[v].there \/ v \in lost'
      /\ Run(h) => box'[v].there /\ ~box'[v].compose /\ box'[v].env = handler[h].level
  <2>1. CASE UNCHANGED box /\ (box[v].there \/ v \in lost') /\ ~Run(h)
    BY <2>1 DEF TypeOK
  <2>2. ASSUME NEW found \in BOOLEAN, NEW running \in BOOLEAN,
               New(v, handler[h].level, running, FALSE, found)
        PROVE  /\ box' \in [Services -> Box]
               /\ \A s \in Services \ {v} : box'[s] = box[s]
               /\ box'[v].there /\ ~box'[v].compose /\ box'[v].env = handler[h].level
    BY <1>1, <2>2, NewBox
  <2>3. CASE Run(h)
    BY <1>2, <2>2, <2>3, GeneratorsAssumption DEF Run
  <2>4. CASE RunRaises(h) /\ ~Run(h)
    BY <1>2, <2>1, <2>2, <2>4, GeneratorsAssumption DEF RunRaises
  <2> QED
    BY <2>3, <2>4
<1>5. /\ faults' \in 0 .. MaxFaults /\ lost \subseteq lost' /\ lost' \subseteq Services
  <2>1. UNCHANGED faults \/ (faults < MaxFaults /\ faults' = faults + 1)
    BY DEF Run, RunRaises
  <2>2. UNCHANGED lost \/ lost' = lost \cup {v}
    BY <1>2 DEF Run, RunRaises, histories
  <2> QED
    BY <2>1, <2>2, FaultType DEF TypeOK
<1>6. /\ missed' \subseteq Services /\ missed \subseteq missed'
      /\ Run(h) \/ v \in missed'
  BY <1>1, <1>2, MissType DEF Run, RunRaises, histories, TypeOK
<1>7. \A s \in Preset \ {v} : Made(s) => Made(s)'
  BY <1>1, <1>4 DEF Made, Preset, Services
<1>8. \A s \in Services \ lost' :
          box'[s].id > 0 =>
              box'[s].there \/ (box[s].id > 0 /\ ~box[s].there /\ ~(handler[h].at = "run" /\ v = s))
  BY <1>4
<1>9. CASE ~disturbed
  <2>1. handler[h].level = latest
    BY <1>1, <1>9 DEF PresetInv, Progress, Applying
  <2>2. v \in missed' \/ Made(v)'
    BY <1>1, <1>4, <1>6, <2>1 DEF Made
  <2> QED
    BY <1>1, <1>2, <1>3, <1>4, <1>5, <1>6, <1>7, <1>8, <2>2, DoneKeeps
<1>10. CASE disturbed
  <2>1. TypeOK' /\ PlacesOK' /\ Others(h) /\ handler'[h] = Done(h)
    BY <1>1, <1>3, <1>4, <1>5, <1>6, StepType
  <2>2. NothingLost'
    BY <1>2, <1>5, <1>8, <2>1, LostKeeps
  <2> QED
    BY <1>1, <1>10, <2>1, <2>2 DEF PresetInv
<1> QED
  BY <1>9, <1>10 DEF TypeOK

\* docker compose up leaves a container alone that a preset has made.
LEMMA UpKeeps ==
    ASSUME IInv, NEW h \in Handlers, Up(h) PROVE IInv'
<1> USE DEF IInv
<1>1. /\ handler[h] \in Request /\ handler[h].at = "up" /\ handler[h].op = "start"
      /\ handler[h].env \in Settings
      /\ UNCHANGED <<environ, dotenv, calls, faults, histories>>
  BY DEF TypeOK, PlacesOK, Up, Fits, Request
<1>2. PICK v \in Services : v = Svc(h)
  BY <1>1, SvcType
<1>3. /\ box' \in [Services -> Box]
      /\ \A s \in Services : Made(s) => Made(s)'
      /\ \A s \in Services : box'[s].there \/ (box'[s].id = box[s].id /\ ~box[s].there)
  <2>1. CASE UNCHANGED box
    BY <1>1, <2>1 DEF TypeOK, Made, histories
  <2>2. CASE New(v, handler[h].env, TRUE, TRUE, TRUE) /\ (~box[v].there \/ box[v].compose)
    <3>1. /\ box' \in [Services -> Box] /\ box'[v].there
          /\ \A s \in Services \ {v} : box'[s] = box[s]
      BY <1>1, <2>2, NewBox
    <3> QED
      BY <1>1, <2>2, <3>1 DEF Made, histories
  <2>3. CASE box' = [box EXCEPT ![v].running = TRUE]
    BY <1>1, <2>3, RunningStep DEF histories
  <2> QED
    BY <1>2, <2>1, <2>2, <2>3 DEF Up
<1>4. Set(h, IdleHandler) /\ IdleHandler.op # "intensity"
  BY DEF Up, IdleHandler
<1>5. \A s \in Services \ lost' :
          box'[s].id > 0 =>
              box'[s].there \/ (box[s].id > 0 /\ ~box[s].there /\ ~(handler[h].at = "run" /\ v = s))
  BY <1>1, <1>3
<1>6. /\ faults' \in 0 .. MaxFaults /\ lost \subseteq lost' /\ lost' \subseteq Services
      /\ missed \subseteq missed' /\ missed' \subseteq Services
  BY <1>1 DEF TypeOK, histories
<1> QED
  BY <1>1, <1>2, <1>3, <1>4, <1>5, <1>6, IdleFits, DoneKeeps DEF Preset, Services, histories

LEMMA NextKeepsIInv == IInv /\ [Next]_vars => IInv'
<1> SUFFICES ASSUME IInv, [Next]_vars PROVE IInv'
  OBVIOUS
<1>1. CASE UNCHANGED vars
  BY <1>1 DEF vars, histories, IInv, TypeOK, PlacesOK, NothingLost, Svc, PresetInv, OnePreset,
         Applying, Progress, InForce, Made, Pending
<1>2. ASSUME NEW h \in Handlers, \E level \in Levels : SetIntensity(h, level) PROVE IInv'
  BY <1>2, SetIntensityKeeps
<1>3. ASSUME NEW h \in Handlers,
             StartTest(h) \/ \E s \in Startable : StartGenerator(h, s) \/ StopGenerator(h, s)
      PROVE  IInv'
  BY <1>3, RequestKeeps
<1>4. ASSUME NEW h \in Handlers, Step(h) PROVE IInv'
  BY <1>4, SettingsKeep, DotenvKeeps, LookKeeps, MissKeeps, StopKeeps, RemoveKeeps, RunKeeps, RestartKeeps,
     UpKeeps DEF Step
<1> QED
  BY <1>1, <1>2, <1>3, <1>4 DEF Next

-----------------------------------------------------------------------------
(* The theorems *)

LEMMA Invariance == Spec => []IInv
<1>1. Init => IInv
  BY InitIInv
<1>2. IInv /\ [Next]_vars => IInv'
  BY NextKeepsIInv
<1> QED
  BY <1>1, <1>2, PTL DEF Spec

\* Containers, settings and requests keep their shape, and a handler at work has a
\* service to work on.
THEOREM TypeCorrect == Spec => []TypeOK
<1>1. IInv => TypeOK
  BY DEF IInv
<1> QED
  BY <1>1, Invariance, PTL

\* set_intensity removes containers before it creates them (main.py:1588-1621): however
\* many requests stop, start, restart and recreate them at the same time, none is lost
\* but one that Docker failed to create.
THEOREM ContainersKept == Spec => []NothingLost
<1>1. IInv => NothingLost
  BY DEF IInv
<1> QED
  BY <1>1, Invariance, PTL

\* A preset that was applied alone (main.py:1546-1621) is in force, in os.environ, in
\* .env and in every container it got to, whatever other requests run beside it.
THEOREM PresetsInForce == Spec => []LevelApplied
<1>1. IInv => LevelApplied
  BY DEF IInv, PresetInv, InForce, LevelApplied, Made, Preset, Services
<1> QED
  BY <1>1, Invariance, PTL

-----------------------------------------------------------------------------
(* Sequences of sequences, put one after the other *)

\* A set of numbers that has zero and the next of each of its members is all of them: the
\* least number it lacked would have one before it.
LEMMA SetInduction ==
    ASSUME NEW T \in SUBSET Nat, 0 \in T, \A n \in T : n + 1 \in T
    PROVE  T = Nat
<1> SUFFICES ASSUME T # Nat PROVE FALSE
    OBVIOUS
<1> DEFINE U == Nat \ T
           R == OpToRel(<, Nat)
<1>1. U # {} /\ U \subseteq Nat
    OBVIOUS
<1>2. IsWellFoundedOn(R, Nat)
    BY NatLessThanWellFounded, Zenon
<1>3. \E x \in U : \A y \in U : ~ (<<y, x>> \in R)
    BY ONLY <1>1, <1>2, WFMin, Zenon
<1>4. PICK x \in U : \A y \in U : ~ (<<y, x>> \in R)
    BY <1>3
<1> HIDE DEF R
<1>5. x \in Nat /\ x # 0 /\ x - 1 \in Nat
    BY <1>4
<1>6. x - 1 \in T \/ x - 1 \in U
    BY <1>5
<1>7. x - 1 \notin T
    BY <1>5
<1>8. <<x - 1, x>> \in R
  <2>1. x - 1 < x
      BY <1>5
  <2> QED
      BY <1>5, <2>1, Zenon DEF R, OpToRel
<1> QED
    BY <1>4, <1>6, <1>7, <1>8

\* What comes after n of the sequences, for each n.
LEMMA FlattenBy ==
    ASSUME NEW S, NEW ss \in Seq(Seq(S))
    PROVE  \E f \in [0 .. Len(ss) -> Seq(S)] :
               /\ f[0] = <<>> /\ \A i \in 1 .. Len(ss) : f[i] = f[i - 1] \o ss[i]
               /\ FlattenSeq(ss) = f[Len(ss)]
<1> DEFINE L == Len(ss)
           Upto(g, n) == \A i \in 1 .. n : g[i] = IF i = 1 THEN ss[i] ELSE g[i - 1] \o ss[i]
           Some(n) == \E g \in [1 .. n -> Seq(S)] : Upto(g, n)
           T == {n \in Nat : n <= L => Some(n)}
<1>0. L \in Nat /\ ss = [i \in 1 .. L |-> ss[i]] /\ \A i \in 1 .. L : ss[i] \in Seq(S)
  OBVIOUS
<1>1. 0 \in T
  <2>1. Some(0)
    <3> WITNESS [i \in 1 .. 0 |-> <<>>] \in [1 .. 0 -> Seq(S)]
    <3> QED
      OBVIOUS
  <2> HIDE DEF Some
  <2> QED
    BY <2>1
<1>2. ASSUME NEW n \in T PROVE n + 1 \in T
  <2> HIDE DEF Some
  <2> SUFFICES ASSUME n + 1 <= L PROVE Some(n + 1)
    BY <1>2
  <2>0. n \in Nat /\ n <= L /\ n + 1 \in 1 .. L /\ Some(n)
    BY <1>0, <1>2
  <2> USE DEF Some
  <2>1. PICK g \in [1 .. n -> Seq(S)] : Upto(g, n)
    BY <2>0
  <2> DEFINE next == IF n = 0 THEN ss[n + 1] ELSE g[n] \o ss[n + 1]
             h == [i \in 1 .. n + 1 |-> IF i = n + 1 THEN next ELSE g[i]]
  <2>2. next \in Seq(S)
    <3>1. ss[n + 1] \in Seq(S)
      BY <1>0, <2>0
    <3>2. CASE n = 0
      BY <3>1, <3>2
    <3>3. CASE n # 0
      <4>1. g[n] \in Seq(S)
        BY <2>0, <2>1, <3>3
      <4> QED
        BY <3>1, <3>3, <4>1
    <3> QED
      BY <3>2, <3>3
  <2>3. h \in [1 .. n + 1 -> Seq(S)]
    <3> HIDE DEF next
    <3>1. ASSUME NEW i \in 1 .. n + 1 PROVE (IF i = n + 1 THEN next ELSE g[i]) \in Seq(S)
      BY <2>0, <2>1, <2>2
    <3> QED
      BY <3>1
  <2>4. Upto(h, n + 1)
    <3> HIDE DEF next
    <3>1. /\ h[n + 1] = next /\ \A i \in 1 .. n : h[i] = g[i]
      BY <2>0
    <3> HIDE DEF h
    <3>2. ASSUME NEW i \in 1 .. n + 1
          PROVE  h[i] = IF i = 1 THEN ss[i] ELSE h[i - 1] \o ss[i]
      <4>1. CASE i = n + 1
        <5>1. CASE n = 0
          BY <3>1, <4>1, <5>1 DEF next
        <5>2. CASE n # 0
          <6>1. i - 1 = n /\ n \in 1 .. n /\ i # 1
            BY <2>0, <4>1, <5>2
          <6> QED
            BY <3>1, <4>1, <5>2, <6>1 DEF next
        <5> QED
          BY <5>1, <5>2
      <4>2. CASE i # n + 1
        <5>1. i \in 1 .. n /\ (i # 1 => i - 1 \in 1 .. n)
          BY <2>0, <4>2
        <5> QED
          BY <2>1, <3>1, <5>1
      <4> QED
        BY <4>1, <4>2
    <3> QED
      BY <3>2
  <2> QED
    BY <2>3, <2>4
<1>3. PICK g \in [1 .. L -> Seq(S)] : Upto(g, L)
  <2> HIDE DEF T, Some
  <2>1. T = Nat
    <3>1. T \in SUBSET Nat
      BY DEF T
    <3> QED
      BY <3>1, <1>1, <1>2, SetInduction
  <2>2. Some(L)
    BY <1>0, <2>1 DEF T
  <2> QED
    BY <2>2 DEF Some
<1> DEFINE flatten[i \in 1 .. Len(ss)] == IF i = 1 THEN ss[i] ELSE flatten[i - 1] \o ss[i]
           f == [i \in 0 .. L |-> IF i = 0 THEN <<>> ELSE flatten[i]]
<1>4. flatten = [i \in 1 .. L |-> IF i = 1 THEN ss[i] ELSE flatten[i - 1] \o ss[i]]
  <2>1. g = [i \in 1 .. L |-> g[i]] /\ \A i \in 1 .. L : g[i] = IF i = 1 THEN ss[i] ELSE g[i - 1] \o ss[i]
    BY <1>3
  <2>2. g = [i \in 1 .. L |-> IF i = 1 THEN ss[i] ELSE g[i - 1] \o ss[i]]
    BY <2>1, Zenon
  <2> QED
    BY <2>2, Zenon DEF flatten, L
<1>5. FlattenSeq(ss) = IF L = 0 THEN ss ELSE flatten[L]
  BY DEF FlattenSeq
<1> HIDE DEF flatten
<1>6. \A i \in 1 .. L : flatten[i] = IF i = 1 THEN ss[i] ELSE flatten[i - 1] \o ss[i]
  BY <1>4, Zenon
<1> DEFINE Same(n) == \A i \in 1 .. n : flatten[i] = g[i]
           T2 == {n \in Nat : n <= L => Same(n)}
<1>7. \A i \in 1 .. L : flatten[i] \in Seq(S)
  <2>1. 0 \in T2
    OBVIOUS
  <2>2. ASSUME NEW n \in T2 PROVE n + 1 \in T2
    <3> SUFFICES ASSUME n + 1 <= L PROVE flatten[n + 1] = g[n + 1] /\ \A i \in 1 .. n : flatten[i] = g[i]
      BY <2>2
    <3>1. n \in Nat /\ n <= L /\ n + 1 \in 1 .. L /\ (n + 1) - 1 = n /\ \A i \in 1 .. n : flatten[i] = g[i]
      BY <1>0, <2>2
    <3>2. flatten[n + 1] = IF n + 1 = 1 THEN ss[n + 1] ELSE flatten[n] \o ss[n + 1]
      BY <1>6, <3>1
    <3>3. g[n + 1] = IF n + 1 = 1 THEN ss[n + 1] ELSE g[n] \o ss[n + 1]
      BY <1>3, <3>1
    <3>4. n + 1 # 1 => flatten[n] = g[n]
      BY <3>1
    <3> QED
      BY <3>1, <3>2, <3>3, <3>4
  <2> HIDE DEF T2, Same
  <2>3. T2 = Nat
    <3>1. T2 \in SUBSET Nat
      BY DEF T2
    <3> QED
      BY <3>1, <2>1, <2>2, SetInduction
  <2>4. Same(L)
    BY <1>0, <2>3 DEF T2
  <2> QED
    BY <1>3, <2>4 DEF Same
<1>8. f \in [0 .. L -> Seq(S)]
  <2>1. ASSUME NEW i \in 0 .. L PROVE (IF i = 0 THEN <<>> ELSE flatten[i]) \in Seq(S)
    <3>1. <<>> \in Seq(S)
      OBVIOUS
    <3> QED
      BY <1>0, <1>7, <3>1
  <2> QED
    BY <2>1
<1>9. f[0] = <<>> /\ \A i \in 1 .. L : f[i] = flatten[i]
  BY <1>0
<1>10. ASSUME NEW i \in 1 .. L PROVE f[i] = f[i - 1] \o ss[i]
  <2>1. CASE i = 1
    <3>1. f[i - 1] = <<>> /\ f[i] = ss[i] /\ ss[i] \in Seq(S)
      BY <1>0, <1>6, <1>9, <2>1
    <3>2. <<>> \o ss[i] = ss[i]
      BY <3>1
    <3> QED
      BY <3>1, <3>2
  <2>2. CASE i # 1
    <3>1. i - 1 \in 1 .. L
      BY <1>0, <2>2
    <3> QED
      BY <1>6, <1>9, <2>2, <3>1
  <2> QED
    BY <2>1, <2>2
<1>11. FlattenSeq(ss) = f[L]
  <2>1. CASE L = 0
    <3>1. ss = <<>>
      BY <2>1
    <3> QED
      BY <1>5, <1>9, <2>1, <3>1
  <2>2. CASE L # 0
    <3>1. L \in 1 .. L
      BY <1>0, <2>2
    <3> QED
      BY <1>5, <1>9, <2>2, <3>1
  <2> QED
    BY <2>1, <2>2
<1> HIDE DEF f
<1> QED
  BY <1>8, <1>9, <1>10, <1>11

LEMMA ConcatFacts ==
    ASSUME NEW S, NEW s \in Seq(S), NEW t \in Seq(S)
    PROVE  /\ s \o t \in Seq(S) /\ Len(s \o t) = Len(s) + Len(t)
           /\ \A i \in 1 .. Len(s) : (s \o t)[i] = s[i]
           /\ \A i \in 1 .. Len(t) : (s \o t)[Len(s) + i] = t[i]
           /\ \A i \in DOMAIN (s \o t) :
                 i \in DOMAIN s \/ (i - Len(s) \in DOMAIN t /\ i > Len(s) /\ (s \o t)[i] = t[i - Len(s)])
           /\ ToSet(s \o t) = ToSet(s) \cup ToSet(t)
<1>1. /\ s \o t \in Seq(S) /\ Len(s \o t) = Len(s) + Len(t)
      /\ \A i \in 1 .. Len(s) : (s \o t)[i] = s[i]
      /\ \A i \in 1 .. Len(t) : (s \o t)[Len(s) + i] = t[i]
      /\ Len(s) \in Nat /\ Len(t) \in Nat
      /\ DOMAIN s = 1 .. Len(s) /\ DOMAIN t = 1 .. Len(t)
      /\ DOMAIN (s \o t) = 1 .. Len(s) + Len(t)
  OBVIOUS
<1> DEFINE c == s \o t
<1> HIDE DEF c
<1>2. \A i \in 1 .. Len(s) + Len(t) :
         i \in 1 .. Len(s) \/ (i - Len(s) \in 1 .. Len(t) /\ i > Len(s) /\ i = Len(s) + (i - Len(s)))
  BY <1>1
<1>3. \A i \in DOMAIN c : i \in DOMAIN s \/ (i - Len(s) \in DOMAIN t /\ i > Len(s) /\ c[i] = t[i - Len(s)])
  BY <1>1, <1>2 DEF c
<1>4. ToSet(c) \subseteq ToSet(s) \cup ToSet(t)
  BY <1>1, <1>3 DEF ToSet, c
<1>5. ToSet(s) \subseteq ToSet(c)
  <2>1. \A i \in DOMAIN s : i \in DOMAIN c /\ c[i] = s[i]
    BY <1>1 DEF c
  <2> QED
    BY <2>1 DEF ToSet
<1>6. ToSet(t) \subseteq ToSet(c)
  <2>1. \A i \in DOMAIN t : Len(s) + i \in DOMAIN c /\ c[Len(s) + i] = t[i]
    BY <1>1 DEF c
  <2> QED
    BY <2>1 DEF ToSet
<1> QED
  BY <1>1, <1>3, <1>4, <1>5, <1>6 DEF c

\* The elements are those of the sequences.
LEMMA FlattenRange ==
    ASSUME NEW S, NEW ss \in Seq(Seq(S))
    PROVE  /\ FlattenSeq(ss) \in Seq(S)
           /\ ToSet(FlattenSeq(ss)) = UNION {ToSet(ss[i]) : i \in DOMAIN ss}
<1> DEFINE L == Len(ss)
<1>0. L \in Nat /\ DOMAIN ss = 1 .. L /\ \A i \in 1 .. L : ss[i] \in Seq(S)
  OBVIOUS
<1>1. PICK f \in [0 .. L -> Seq(S)] :
               /\ f[0] = <<>> /\ \A i \in 1 .. L : f[i] = f[i - 1] \o ss[i]
               /\ FlattenSeq(ss) = f[L]
  BY FlattenBy
<1> DEFINE Right(n) == ToSet(f[n]) = UNION {ToSet(ss[i]) : i \in 1 .. n}
           T == {n \in Nat : n <= L => Right(n)}
<1>2. 0 \in T
  BY <1>1 DEF ToSet
<1>3. ASSUME NEW n \in T PROVE n + 1 \in T
  <2> HIDE DEF Right
  <2> SUFFICES ASSUME n + 1 <= L PROVE Right(n + 1)
    BY <1>3
  <2> USE DEF Right
  <2>1. n \in Nat /\ Right(n) /\ n + 1 \in 1 .. L /\ n \in 0 .. L /\ (n + 1) - 1 = n
    BY <1>0, <1>3
  <2>2. f[n + 1] = f[n] \o ss[n + 1]
    BY <1>1, <2>1
  <2>3. ToSet(f[n + 1]) = ToSet(f[n]) \cup ToSet(ss[n + 1])
    <3>1. f[n] \in Seq(S) /\ ss[n + 1] \in Seq(S)
      BY <1>0, <1>1, <2>1
    <3> QED
      BY <2>2, <3>1, ConcatFacts
  <2>4. 1 .. n + 1 = (1 .. n) \cup {n + 1}
    BY <2>1
  <2> QED
    BY <2>1, <2>3, <2>4
<1> HIDE DEF Right
<1>4. T = Nat
  <2>1. T \in SUBSET Nat
    OBVIOUS
  <2> HIDE DEF T
  <2> QED
    BY <2>1, <1>2, <1>3, SetInduction
<1>5. Right(L)
  BY <1>0, <1>4
<1>6. f[L] \in Seq(S)
  BY <1>0, <1>1
<1> QED
  BY <1>0, <1>1, <1>5, <1>6 DEF Right

\* What Among picks.
LEMMA AmongRight ==
    ASSUME NEW S, NEW s \in Seq(S), NEW U
    PROVE  Among(s, U) \in Seq(S) /\ ToSet(Among(s, U)) = ToSet(s) \cap U
<1> DEFINE ss == [i \in DOMAIN s |-> IF s[i] \in U THEN <<s[i]>> ELSE <<>>]
<1>1. DOMAIN s = 1 .. Len(s) /\ Len(s) \in Nat /\ \A i \in DOMAIN s : s[i] \in S
  OBVIOUS
<1>2. ss \in Seq(Seq(S))
  <2>1. \A i \in DOMAIN s : (IF s[i] \in U THEN <<s[i]>> ELSE <<>>) \in Seq(S)
    BY <1>1
  <2>2. ss \in [1 .. Len(s) -> Seq(S)]
    BY <1>1, <2>1
  <2> HIDE DEF ss
  <2> QED
    BY <1>1, <2>2
<1>3. DOMAIN ss = DOMAIN s /\ \A i \in DOMAIN s : ToSet(ss[i]) = {s[i]} \cap U
  <2>1. ASSUME NEW x PROVE ToSet(<<x>>) = {x}
    BY DEF ToSet
  <2>2. ToSet(<<>>) = {}
    BY DEF ToSet
  <2>3. ASSUME NEW i \in DOMAIN s PROVE ToSet(ss[i]) = {s[i]} \cap U
    <3>1. CASE s[i] \in U
      BY <2>1, <3>1
    <3>2. CASE s[i] \notin U
      BY <2>2, <3>2
    <3> QED
      BY <3>1, <3>2
  <2> QED
    BY <2>3
<1>4. Among(s, U) = FlattenSeq(ss)
  BY DEF Among
<1> HIDE DEF ss
<1>5. /\ FlattenSeq(ss) \in Seq(S)
      /\ ToSet(FlattenSeq(ss)) = UNION {ToSet(ss[i]) : i \in DOMAIN ss}
  BY <1>2, FlattenRange
<1>6. ToSet(s) = {s[i] : i \in DOMAIN s}
  BY DEF ToSet
<1>7. UNION {ToSet(ss[i]) : i \in DOMAIN ss} = ToSet(s) \cap U
  BY <1>3, <1>6
<1> QED
  BY <1>4, <1>5, <1>7

-----------------------------------------------------------------------------
(* The duplicates removed, the longest first *)

Chain == {c \in Seq(Tables) : Len(c) \in 2 .. MaxDepth + 1}

\* No element is there twice, and none is followed by a longer one.
Sorted(s) ==
    \A i, j \in DOMAIN s : i < j => s[i] # s[j] /\ Len(s[i]) >= Len(s[j])

LEMMA SortedConcat ==
    ASSUME NEW s \in Seq(Seq(Tables)), NEW t \in Seq(Seq(Tables)), Sorted(s), Sorted(t),
           \A a \in ToSet(s), b \in ToSet(t) : a # b /\ Len(a) >= Len(b)
    PROVE  Sorted(s \o t)
<1> DEFINE c == s \o t
<1>1. /\ DOMAIN s = 1 .. Len(s) /\ DOMAIN t = 1 .. Len(t) /\ DOMAIN c = 1 .. Len(s) + Len(t)
      /\ Len(s) \in Nat /\ Len(t) \in Nat
  OBVIOUS
<1>2. /\ \A i \in 1 .. Len(s) : c[i] = s[i]
      /\ \A i \in 1 .. Len(t) : c[Len(s) + i] = t[i]
  BY ConcatFacts
<1> HIDE DEF c
<1>3. ASSUME NEW i \in DOMAIN c, NEW j \in DOMAIN c, i < j
      PROVE  c[i] # c[j] /\ Len(c[i]) >= Len(c[j])
  <2>1. CASE j \in 1 .. Len(s)
    <3>1. i \in DOMAIN s /\ j \in DOMAIN s /\ c[i] = s[i] /\ c[j] = s[j]
      BY <1>1, <1>2, <1>3, <2>1
    <3> QED
      BY <1>3, <3>1 DEF Sorted
  <2>2. CASE j \notin 1 .. Len(s)
    <3> DEFINE m == j - Len(s)
    <3>1. m \in 1 .. Len(t) /\ j = Len(s) + m
      BY <1>1, <2>2
    <3>2. c[j] = t[m] /\ t[m] \in ToSet(t)
      <4>1. c[Len(s) + m] = t[m]
        BY <1>2, <3>1
      <4> QED
        BY <1>1, <3>1, <4>1 DEF ToSet
    <3>3. CASE i \in 1 .. Len(s)
      <4>1. c[i] = s[i] /\ s[i] \in ToSet(s)
        BY <1>1, <1>2, <3>3 DEF ToSet
      <4> QED
        BY <3>2, <4>1
    <3>4. CASE i \notin 1 .. Len(s)
      <4> DEFINE l == i - Len(s)
      <4>1. l \in 1 .. Len(t) /\ i = Len(s) + l /\ l < m
        BY <1>1, <1>3, <3>1, <3>4
      <4>2. c[i] = t[l]
        <5>1. c[Len(s) + l] = t[l]
          BY <1>2, <4>1
        <5> QED
          BY <4>1, <5>1
      <4>3. t[l] # t[m] /\ Len(t[l]) >= Len(t[m])
        BY <1>1, <3>1, <4>1 DEF Sorted
      <4> QED
        BY <3>2, <4>2, <4>3
    <3> QED
      BY <3>3, <3>4
  <2> QED
    BY <2>1, <2>2
<1> QED
  BY <1>3 DEF Sorted, c

\* The chains of one length that are there for the first time.
LEMMA OneLength ==
    ASSUME NEW chains \in Seq(Chain), NEW l \in Nat
    PROVE  LET new(i) == \A j \in 1..(i - 1) : chains[j] # chains[i]
               s == FlattenSeq([i \in DOMAIN chains |->
                        IF new(i) /\ Len(chains[i]) = l THEN <<chains[i]>> ELSE <<>>])
           IN  s \in Seq(Chain) /\ Sorted(s) /\ ToSet(s) = {c \in ToSet(chains) : Len(c) = l}
<1> DEFINE new(i) == \A j \in 1..(i - 1) : chains[j] # chains[i]
           part(i) == IF new(i) /\ Len(chains[i]) = l THEN <<chains[i]>> ELSE <<>>
           ss == [i \in DOMAIN chains |-> part(i)]
           L == Len(chains)
<1>1. DOMAIN chains = 1 .. L /\ L \in Nat /\ \A i \in 1 .. L : chains[i] \in Chain
  OBVIOUS
<1>2. ASSUME NEW i \in DOMAIN chains
      PROVE  /\ part(i) \in Seq(Chain) /\ Sorted(part(i))
             /\ ToSet(part(i)) = IF new(i) /\ Len(chains[i]) = l THEN {chains[i]} ELSE {}
  <2>1. ASSUME NEW x \in Chain PROVE <<x>> \in Seq(Chain) /\ Sorted(<<x>>) /\ ToSet(<<x>>) = {x}
    BY DEF Sorted, ToSet
  <2>2. <<>> \in Seq(Chain) /\ Sorted(<<>>) /\ ToSet(<<>>) = {}
    BY DEF Sorted, ToSet
  <2>3. CASE new(i) /\ Len(chains[i]) = l
    <3>1. part(i) = <<chains[i]>> /\ chains[i] \in Chain
      BY <1>1, <2>3
    <3> QED
      BY <2>1, <2>3, <3>1
  <2>4. CASE ~(new(i) /\ Len(chains[i]) = l)
    <3>1. part(i) = <<>>
      BY <2>4
    <3> QED
      BY <2>2, <2>4, <3>1
  <2> QED
    BY <2>3, <2>4
<1>3. ss \in Seq(Seq(Chain)) /\ Len(ss) = L /\ \A i \in 1 .. L : ss[i] = part(i)
  <2> HIDE DEF part
  <2>1. ss \in [1 .. L -> Seq(Chain)]
    BY <1>1, <1>2
  <2> QED
    BY <1>1, <2>1
<1> HIDE DEF part, ss
<1>4. PICK f \in [0 .. L -> Seq(Chain)] :
          /\ f[0] = <<>> /\ \A i \in 1 .. L : f[i] = f[i - 1] \o ss[i]
          /\ FlattenSeq(ss) = f[L]
  <2>1. \E f \in [0 .. Len(ss) -> Seq(Chain)] :
            /\ f[0] = <<>> /\ \A i \in 1 .. Len(ss) : f[i] = f[i - 1] \o ss[i]
            /\ FlattenSeq(ss) = f[Len(ss)]
    BY <1>3, FlattenBy, Zenon
  <2> QED
    BY <1>3, <2>1, Zenon
<1> DEFINE Right(n) == /\ Sorted(f[n])
                       /\ ToSet(f[n]) = {c \in {chains[i] : i \in 1 .. n} : Len(c) = l}
           T == {n \in Nat : n <= L => Right(n)}
<1>5. 0 \in T
  BY <1>4 DEF Sorted, ToSet
<1>6. ASSUME NEW n \in T PROVE n + 1 \in T
  <2> HIDE DEF Right
  <2> SUFFICES ASSUME n + 1 <= L PROVE Right(n + 1)
    BY <1>6
  <2> USE DEF Right
  <2>1. n \in Nat /\ Right(n) /\ n + 1 \in DOMAIN chains /\ n \in 0 .. L /\ (n + 1) - 1 = n
    BY <1>1, <1>6
  <2>2. f[n + 1] = f[n] \o part(n + 1)
    BY <1>1, <1>3, <1>4, <2>1
  <2>3. /\ part(n + 1) \in Seq(Chain) /\ Sorted(part(n + 1))
        /\ ToSet(part(n + 1)) = IF new(n + 1) /\ Len(chains[n + 1]) = l THEN {chains[n + 1]} ELSE {}
    BY <1>2, <2>1
  <2>4. f[n] \in Seq(Chain)
    BY <1>4, <2>1
  <2>5. ToSet(f[n + 1]) = ToSet(f[n]) \cup ToSet(part(n + 1))
    BY <2>2, <2>3, <2>4, ConcatFacts
  <2>6. ToSet(f[n + 1]) = {c \in {chains[i] : i \in 1 .. n + 1} : Len(c) = l}
    <3>1. {chains[i] : i \in 1 .. n + 1} = {chains[i] : i \in 1 .. n} \cup {chains[n + 1]}
      <4>1. 1 .. n + 1 = (1 .. n) \cup {n + 1}
        BY <2>1
      <4> QED
        BY <4>1
    <3>2. CASE new(n + 1)
      BY <2>1, <2>3, <2>5, <3>1, <3>2
    <3>3. CASE ~new(n + 1)
      <4>1. chains[n + 1] \in {chains[i] : i \in 1 .. n}
        BY <2>1, <3>3
      <4> QED
        BY <2>1, <2>3, <2>5, <3>1, <3>3, <4>1
    <3> QED
      BY <3>2, <3>3
  <2>7. Sorted(f[n + 1])
    <3>1. ASSUME NEW a \in ToSet(f[n]), NEW b \in ToSet(part(n + 1))
          PROVE  a # b /\ Len(a) >= Len(b)
      <4>1. Len(a) = l /\ a \in {chains[i] : i \in 1 .. n}
        BY <2>1
      <4>2. b = chains[n + 1] /\ Len(b) = l /\ new(n + 1)
        BY <2>3
      <4>3. \A j \in 1 .. n : chains[j] # chains[n + 1]
        BY <2>1, <4>2
      <4> QED
        BY <4>1, <4>2, <4>3
    <3>2. f[n] \in Seq(Seq(Tables)) /\ part(n + 1) \in Seq(Seq(Tables))
      BY <2>3, <2>4 DEF Chain
    <3> QED
      BY <2>1, <2>2, <2>3, <3>1, <3>2, SortedConcat
  <2> QED
    BY <2>6, <2>7
<1> HIDE DEF Right
<1>7. T = Nat
  <2>1. T \in SUBSET Nat
    OBVIOUS
  <2> HIDE DEF T
  <2> QED
    BY <2>1, <1>5, <1>6, SetInduction
<1>8. Right(L)
  BY <1>1, <1>7
<1>9. f[L] \in Seq(Chain)
  BY <1>1, <1>4
<1>10. {chains[i] : i \in 1 .. L} = ToSet(chains)
  BY <1>1 DEF ToSet
<1> QED
  BY <1>4, <1>8, <1>9, <1>10 DEF Right, ss, part

\* What main does with the chains keeps each of them once and sorts them.
LEMMA UniqueSortedRight ==
    ASSUME NEW chains \in Seq(Chain)
    PROVE  /\ UniqueSorted(chains) \in Seq(Chain)
           /\ Sorted(UniqueSorted(chains))
           /\ ToSet(UniqueSorted(chains)) = ToSet(chains)
<1> DEFINE new(i) == \A j \in 1..(i - 1) : chains[j] # chains[i]
           by(n) == FlattenSeq([i \in DOMAIN chains |->
                       IF new(i) /\ Len(chains[i]) = MaxDepth + 2 - n THEN <<chains[i]>> ELSE <<>>])
           ss == [n \in 1..MaxDepth |-> by(n)]
<1>1. MaxDepth \in Nat
  BY OrmLoadAssumption
<1>2. UniqueSorted(chains) = FlattenSeq(ss)
  BY DEF UniqueSorted
<1>3. ASSUME NEW n \in 1 .. MaxDepth
      PROVE  /\ by(n) \in Seq(Chain) /\ Sorted(by(n))
             /\ ToSet(by(n)) = {c \in ToSet(chains) : Len(c) = MaxDepth + 2 - n}
  <2>1. MaxDepth + 2 - n \in Nat
    BY <1>1
  <2> QED
    BY <2>1, OneLength, Zenon
<1> HIDE DEF by
<1>4. ss \in Seq(Seq(Chain)) /\ Len(ss) = MaxDepth /\ \A n \in 1 .. MaxDepth : ss[n] = by(n)
  <2>1. ss \in [1 .. MaxDepth -> Seq(Chain)]
    BY <1>3
  <2> QED
    BY <1>1, <2>1
<1> HIDE DEF ss
<1>5. PICK f \in [0 .. MaxDepth -> Seq(Chain)] :
          /\ f[0] = <<>> /\ \A i \in 1 .. MaxDepth : f[i] = f[i - 1] \o ss[i]
          /\ FlattenSeq(ss) = f[MaxDepth]
  <2>1. \E f \in [0 .. Len(ss) -> Seq(Chain)] :
            /\ f[0] = <<>> /\ \A i \in 1 .. Len(ss) : f[i] = f[i - 1] \o ss[i]
            /\ FlattenSeq(ss) = f[Len(ss)]
    BY <1>4, FlattenBy, Zenon
  <2> QED
    BY <1>4, <2>1, Zenon
<1>6. \A c \in ToSet(chains) : Len(c) \in 2 .. MaxDepth + 1
  <2>1. \A i \in DOMAIN chains : chains[i] \in Chain
    OBVIOUS
  <2> QED
    BY <2>1 DEF ToSet, Chain
<1> DEFINE Right(n) == /\ Sorted(f[n])
                       /\ ToSet(f[n]) = {c \in ToSet(chains) : Len(c) >= MaxDepth + 2 - n}
           T == {n \in Nat : n <= MaxDepth => Right(n)}
<1>7. 0 \in T
  <2>1. Sorted(f[0]) /\ ToSet(f[0]) = {}
    BY <1>5 DEF Sorted, ToSet
  <2>2. {c \in ToSet(chains) : Len(c) >= MaxDepth + 2 - 0} = {}
    BY <1>1, <1>6
  <2> QED
    BY <2>1, <2>2
<1>8. ASSUME NEW n \in T PROVE n + 1 \in T
  <2> HIDE DEF Right
  <2> SUFFICES ASSUME n + 1 <= MaxDepth PROVE Right(n + 1)
    BY <1>8
  <2> USE DEF Right
  <2>1. n \in Nat /\ Right(n) /\ n + 1 \in 1 .. MaxDepth /\ n \in 0 .. MaxDepth /\ (n + 1) - 1 = n
    BY <1>1, <1>8
  <2>2. f[n + 1] = f[n] \o by(n + 1)
    BY <1>4, <1>5, <2>1
  <2>3. /\ by(n + 1) \in Seq(Chain) /\ Sorted(by(n + 1))
        /\ ToSet(by(n + 1)) = {c \in ToSet(chains) : Len(c) = MaxDepth + 2 - (n + 1)}
    BY <1>3, <2>1
  <2>4. f[n] \in Seq(Chain)
    BY <1>5, <2>1
  <2>5. ToSet(f[n + 1]) = ToSet(f[n]) \cup ToSet(by(n + 1))
    BY <2>2, <2>3, <2>4, ConcatFacts
  <2>6. ToSet(f[n + 1]) = {c \in ToSet(chains) : Len(c) >= MaxDepth + 2 - (n + 1)}
    <3>1. \A k \in Nat : k >= MaxDepth + 2 - (n + 1) <=>
              (k >= MaxDepth + 2 - n \/ k = MaxDepth + 2 - (n + 1))
      BY <1>1, <2>1
    <3>2. \A c \in ToSet(chains) : Len(c) \in Nat
      BY <1>6, <1>1
    <3> QED
      BY <2>1, <2>3, <2>5, <3>1, <3>2
  <2>7. Sorted(f[n + 1])
    <3>1. ASSUME NEW a \in ToSet(f[n]), NEW b \in ToSet(by(n + 1))
          PROVE  a # b /\ Len(a) >= Len(b)
      <4>1. a \in ToSet(chains) /\ Len(a) >= MaxDepth + 2 - n
        BY <2>1
      <4>2. Len(b) = MaxDepth + 2 - (n + 1)
        BY <2>3
      <4>3. Len(a) \in Nat /\ Len(a) > Len(b)
        BY <1>1, <1>6, <2>1, <4>1, <4>2
      <4> QED
        BY <4>2, <4>3, <1>1, <2>1
    <3>2. f[n] \in Seq(Seq(Tables)) /\ by(n + 1) \in Seq(Seq(Tables))
      BY <2>3, <2>4 DEF Chain
    <3> QED
      BY <2>1, <2>2, <2>3, <3>1, <3>2, SortedConcat
  <2> QED
    BY <2>6, <2>7
<1> HIDE DEF Right
<1>9. T = Nat
  <2>1. T \in SUBSET Nat
    OBVIOUS
  <2> HIDE DEF T
  <2> QED
    BY <2>1, <1>7, <1>8, SetInduction
<1>10. Right(MaxDepth)
  <2> HIDE DEF T
  <2>1. MaxDepth \in T
    BY <1>1, <1>9
  <2> QED
    BY <1>1, <2>1 DEF T
<1>11. f[MaxDepth] \in Seq(Chain)
  BY <1>1, <1>5
<1>12. {c \in ToSet(chains) : Len(c) >= MaxDepth + 2 - MaxDepth} = ToSet(chains)
  BY <1>1, <1>6
<1> QED
  BY <1>2, <1>5, <1>10, <1>11, <1>12 DEF Right

-----------------------------------------------------------------------------
(* The walk *)

Chains == Seq(Tables) \ {<<>>}
Lists == [Tables -> Seq(Tables)]

\* The tables the walk goes on to from a chain.
Kids(children, chain) == Among(children[Last(chain)], Tables \ ToSet(chain))

\* What it finds from a chain, given what it finds from longer ones.
WalkStep(children, f, chain) ==
    IF Len(chain) > MaxDepth THEN <<>>
    ELSE FlattenSeq([i \in DOMAIN Kids(children, chain) |->
             <<Append(chain, Kids(children, chain)[i])>> \o f[Append(chain, Kids(children, chain)[i])]])

LEMMA KidsRight ==
    ASSUME NEW children \in Lists, NEW chain \in Chains
    PROVE  /\ Kids(children, chain) \in Seq(Tables)
           /\ ToSet(Kids(children, chain)) = ToSet(children[Last(chain)]) \ ToSet(chain)
           /\ \A i \in DOMAIN Kids(children, chain) :
                 /\ Kids(children, chain)[i] \in Tables
                 /\ Append(chain, Kids(children, chain)[i]) \in Chains
                 /\ Len(Append(chain, Kids(children, chain)[i])) = Len(chain) + 1
<1>1. chain \in Seq(Tables) /\ Len(chain) \in Nat \ {0} /\ Last(chain) \in Tables
  BY DEF Chains, Last
<1>2. children[Last(chain)] \in Seq(Tables)
  BY <1>1 DEF Lists
<1>3. /\ Kids(children, chain) \in Seq(Tables)
      /\ ToSet(Kids(children, chain)) = ToSet(children[Last(chain)]) \cap (Tables \ ToSet(chain))
  BY <1>2, AmongRight DEF Kids
<1>4. ToSet(children[Last(chain)]) \subseteq Tables
  BY <1>2 DEF ToSet
<1>5. ASSUME NEW i \in DOMAIN Kids(children, chain)
      PROVE  /\ Kids(children, chain)[i] \in Tables
             /\ Append(chain, Kids(children, chain)[i]) \in Chains
             /\ Len(Append(chain, Kids(children, chain)[i])) = Len(chain) + 1
  <2>1. Kids(children, chain)[i] \in Tables
    BY <1>3
  <2>2. ASSUME NEW t \in Tables PROVE Append(chain, t) \in Chains /\ Len(Append(chain, t)) = Len(chain) + 1
    BY <1>1 DEF Chains
  <2> QED
    BY <2>1, <2>2
<1> QED
  BY <1>3, <1>4, <1>5

\* A step asks of longer chains only, and gives chains.
LEMMA WalkStepRight ==
    ASSUME NEW children \in Lists, NEW chain \in Chains, NEW f, NEW g,
           Len(chain) <= MaxDepth =>
               \A t \in Tables : /\ f[Append(chain, t)] \in Seq(Seq(Tables))
                                 /\ f[Append(chain, t)] = g[Append(chain, t)]
    PROVE  /\ WalkStep(children, f, chain) \in Seq(Seq(Tables))
           /\ WalkStep(children, f, chain) = WalkStep(children, g, chain)
<1> DEFINE kids == Kids(children, chain)
           part(h, i) == <<Append(chain, kids[i])>> \o h[Append(chain, kids[i])]
<1>0. MaxDepth \in Nat /\ Len(chain) \in Nat
  BY OrmLoadAssumption DEF Chains
<1>1. CASE Len(chain) > MaxDepth
  BY <1>1 DEF WalkStep
<1>2. CASE ~(Len(chain) > MaxDepth)
  <2>1. \A t \in Tables : /\ f[Append(chain, t)] \in Seq(Seq(Tables))
                          /\ f[Append(chain, t)] = g[Append(chain, t)]
    BY <1>0, <1>2
  <2>2. kids \in Seq(Tables) /\ \A i \in DOMAIN kids : kids[i] \in Tables /\ Append(chain, kids[i]) \in Chains
    BY KidsRight, Zenon
  <2>3. /\ WalkStep(children, f, chain) = FlattenSeq([i \in DOMAIN kids |-> part(f, i)])
        /\ WalkStep(children, g, chain) = FlattenSeq([i \in DOMAIN kids |-> part(g, i)])
    BY <1>2, Zenon DEF WalkStep
  <2> HIDE DEF kids
  <2>4. ASSUME NEW i \in DOMAIN kids PROVE part(f, i) = part(g, i) /\ part(f, i) \in Seq(Seq(Tables))
    <3>1. Append(chain, kids[i]) \in Seq(Tables)
      BY <2>2 DEF Chains
    <3>2. f[Append(chain, kids[i])] \in Seq(Seq(Tables))
          /\ f[Append(chain, kids[i])] = g[Append(chain, kids[i])]
      BY <2>1, <2>2
    <3>3. ASSUME NEW x \in Seq(Tables), NEW s \in Seq(Seq(Tables)) PROVE <<x>> \o s \in Seq(Seq(Tables))
      OBVIOUS
    <3> QED
      BY <3>1, <3>2, <3>3
  <2> HIDE DEF part
  <2>5. [i \in DOMAIN kids |-> part(f, i)] = [i \in DOMAIN kids |-> part(g, i)]
    BY <2>4
  <2>6. [i \in DOMAIN kids |-> part(f, i)] \in Seq(Seq(Seq(Tables)))
    <3>1. [i \in DOMAIN kids |-> part(f, i)] \in [DOMAIN kids -> Seq(Seq(Tables))]
      BY <2>4
    <3>2. DOMAIN kids = 1 .. Len(kids) /\ Len(kids) \in Nat
      BY <2>2
    <3> QED
      BY <3>1, <3>2
  <2>7. FlattenSeq([i \in DOMAIN kids |-> part(f, i)]) \in Seq(Seq(Tables))
    BY <2>6, FlattenRange
  <2> QED
    BY <2>3, <2>5, <2>7
<1> QED
  BY <1>1, <1>2

\* The recursion is well founded, for a chain that has grown too long is not walked.
LEMMA WalkDef ==
    ASSUME NEW children \in Lists
    PROVE  /\ Walk(children) \in [Chains -> Seq(Seq(Tables))]
           /\ \A chain \in Chains :
                 Walk(children)[chain] = WalkStep(children, Walk(children), chain)
<1>0. MaxDepth \in Nat /\ \A c \in Chains : Len(c) \in Nat \ {0}
  BY OrmLoadAssumption DEF Chains
<1>1. \A c \in Chains, t \in Tables : Append(c, t) \in Chains /\ Len(Append(c, t)) = Len(c) + 1
  BY DEF Chains
<1> DEFINE Good(g, n) == \A c \in Chains : Len(c) + n > MaxDepth => g[c] = WalkStep(children, g, c)
           T == {n \in Nat : \E g \in [Chains -> Seq(Seq(Tables))] : Good(g, n)}
<1>2. 0 \in T
  <2> DEFINE g == [c \in Chains |-> <<>>]
  <2>1. g \in [Chains -> Seq(Seq(Tables))]
    OBVIOUS
  <2>2. Good(g, 0)
    BY <1>0 DEF WalkStep
  <2> HIDE DEF g, Good
  <2> QED
    BY <2>1, <2>2
<1>3. ASSUME NEW n \in T PROVE n + 1 \in T
  <2>1. n \in Nat /\ n + 1 \in Nat
    OBVIOUS
  <2>2. PICK g \in [Chains -> Seq(Seq(Tables))] : Good(g, n)
    OBVIOUS
  <2> DEFINE h == [c \in Chains |-> WalkStep(children, g, c)]
  <2>3. \A c \in Chains, t \in Tables : g[Append(c, t)] \in Seq(Seq(Tables))
    BY <1>1, <2>2
  <2>4. h \in [Chains -> Seq(Seq(Tables))]
    <3>1. ASSUME NEW c \in Chains PROVE WalkStep(children, g, c) \in Seq(Seq(Tables))
      BY <2>3, WalkStepRight, Zenon
    <3> QED
      BY <3>1
  <2>5. ASSUME NEW c \in Chains, Len(c) + (n + 1) > MaxDepth PROVE h[c] = WalkStep(children, h, c)
    <3>1. ASSUME NEW t \in Tables PROVE g[Append(c, t)] = h[Append(c, t)]
      <4>1. Append(c, t) \in Chains /\ Len(Append(c, t)) + n > MaxDepth
        BY <1>0, <1>1, <2>1, <2>5
      <4> QED
        BY <2>2, <4>1
    <3> HIDE DEF h
    <3>2. WalkStep(children, g, c) = WalkStep(children, h, c)
      BY <2>3, <3>1, WalkStepRight, Zenon
    <3> QED
      BY <3>2 DEF h
  <2> HIDE DEF h
  <2>6. Good(h, n + 1)
    BY <2>5
  <2> HIDE DEF Good
  <2> QED
    BY <2>1, <2>4, <2>6
<1> HIDE DEF Good
<1>4. T = Nat
  <2>1. T \in SUBSET Nat
    OBVIOUS
  <2> HIDE DEF T
  <2> QED
    BY <2>1, <1>2, <1>3, SetInduction
<1>5. PICK g \in [Chains -> Seq(Seq(Tables))] : Good(g, MaxDepth)
  <2> HIDE DEF T
  <2>1. MaxDepth \in T
    BY <1>0, <1>4
  <2> QED
    BY <2>1 DEF T
<1>6. g = [c \in Chains |-> WalkStep(children, g, c)]
  <2>1. \A c \in Chains : g[c] = WalkStep(children, g, c)
    BY <1>0, <1>5 DEF Good
  <2>2. g = [c \in Chains |-> g[c]]
    BY <1>5
  <2> QED
    BY <2>1, <2>2, Zenon
<1>7. Walk(children) = [c \in Chains |-> WalkStep(children, Walk(children), c)]
  <2> DEFINE w == CHOOSE f : f = [c \in Chains |-> WalkStep(children, f, c)]
  <2>1. w = [c \in Chains |-> WalkStep(children, w, c)]
    BY <1>6, Zenon
  <2>2. Walk(children) = w
    BY Zenon DEF Walk, WalkStep, Kids, Chains
  <2> QED
    BY <2>1, <2>2, Zenon
<1> DEFINE w == Walk(children)
<1>8. \A c \in Chains : w[c] = WalkStep(children, w, c)
  BY <1>7, Zenon
<1> HIDE DEF w
<1> DEFINE Same(n) == \A c \in Chains : Len(c) + n > MaxDepth => w[c] = g[c]
           T2 == {n \in Nat : Same(n)}
<1>9. 0 \in T2
  <2>1. ASSUME NEW c \in Chains, Len(c) + 0 > MaxDepth PROVE w[c] = g[c]
    <3>1. w[c] = WalkStep(children, w, c) /\ g[c] = WalkStep(children, g, c)
      BY <1>6, <1>8, Zenon
    <3>2. Len(c) > MaxDepth
      BY <1>0, <2>1
    <3> QED
      BY <3>1, <3>2 DEF WalkStep
  <2> QED
    BY <2>1
<1>10. ASSUME NEW n \in T2 PROVE n + 1 \in T2
  <2>1. n \in Nat /\ n + 1 \in Nat /\ Same(n)
    OBVIOUS
  <2>2. ASSUME NEW c \in Chains, Len(c) + (n + 1) > MaxDepth PROVE w[c] = g[c]
    <3>1. ASSUME NEW t \in Tables PROVE g[Append(c, t)] \in Seq(Seq(Tables)) /\ g[Append(c, t)] = w[Append(c, t)]
      <4>1. Append(c, t) \in Chains /\ Len(Append(c, t)) + n > MaxDepth
        BY <1>0, <1>1, <2>1, <2>2
      <4> QED
        BY <1>5, <2>1, <4>1
    <3>2. WalkStep(children, g, c) = WalkStep(children, w, c)
      BY <3>1, WalkStepRight, Zenon
    <3>3. g[c] = WalkStep(children, g, c)
      BY <1>6, Zenon
    <3> QED
      BY <1>8, <3>2, <3>3
  <2> QED
    BY <2>1, <2>2
<1> HIDE DEF Same
<1>11. T2 = Nat
  <2>1. T2 \in SUBSET Nat
    OBVIOUS
  <2> HIDE DEF T2
  <2> QED
    BY <2>1, <1>9, <1>10, SetInduction
<1>12. \A c \in Chains : w[c] = g[c]
  <2> HIDE DEF T2
  <2>1. MaxDepth \in T2
    BY <1>0, <1>11
  <2> QED
    BY <1>0, <2>1 DEF T2, Same
<1>13. w \in [Chains -> Seq(Seq(Tables))]
  <2>1. DOMAIN w = Chains /\ w = [c \in Chains |-> w[c]]
    BY <1>7, Zenon DEF w
  <2>2. w = [c \in Chains |-> g[c]]
    BY <1>12, <2>1, Zenon
  <2> QED
    BY <1>5, <2>2
<1> QED
  BY <1>8, <1>13 DEF w

\* The simple paths that go on from a chain.
Paths(children, chain) ==
    {c \in Seq(Tables) :
        /\ Len(c) > Len(chain) /\ Len(c) <= MaxDepth + 1
        /\ \A i \in 1 .. Len(chain) : c[i] = chain[i]
        /\ IsInjective(c)
        /\ \A i \in Len(chain) .. Len(c) - 1 : c[i + 1] \in ToSet(children[c[i]])}

LEMMA GrowInjective ==
    ASSUME NEW chain \in Chains, IsInjective(chain), NEW t \in Tables \ ToSet(chain)
    PROVE  IsInjective(Append(chain, t))
<1> DEFINE l == Len(chain)
           c == Append(chain, t)
<1>1. /\ l \in Nat /\ DOMAIN chain = 1 .. l /\ DOMAIN c = 1 .. l + 1
      /\ (\A i \in 1 .. l : c[i] = chain[i]) /\ c[l + 1] = t
  BY DEF Chains
<1>2. \A i \in 1 .. l : chain[i] # t
  BY <1>1 DEF ToSet
<1>3. \A i \in 1 .. l + 1 : i = l + 1 \/ i \in 1 .. l
  BY <1>1
<1>4. \A i, j \in DOMAIN chain : chain[i] = chain[j] => i = j
  BY DEF IsInjective
<1> HIDE DEF c
<1>5. \A i, j \in DOMAIN c : c[i] = c[j] => i = j
  BY <1>1, <1>2, <1>3, <1>4
<1>6. IsInjective(c)
  BY <1>5, Zenon DEF IsInjective
<1> QED
  BY <1>6 DEF c

\* Those of one more table, and those that go on from one of these.
LEMMA PathsStep ==
    ASSUME NEW children \in Lists, NEW chain \in Chains, IsInjective(chain), Len(chain) <= MaxDepth,
           NEW c
    PROVE  c \in Paths(children, chain) <=>
               \E t \in ToSet(children[Last(chain)]) \ ToSet(chain) :
                   c = Append(chain, t) \/ c \in Paths(children, Append(chain, t))
<1>0. /\ MaxDepth \in Nat /\ chain \in Seq(Tables) /\ Len(chain) \in Nat \ {0}
      /\ Last(chain) \in Tables /\ Last(chain) = chain[Len(chain)]
  BY OrmLoadAssumption DEF Chains, Last
<1>1. ToSet(children[Last(chain)]) \subseteq Tables
  <2>1. children[Last(chain)] \in Seq(Tables)
    BY <1>0 DEF Lists
  <2> QED
    BY <2>1 DEF ToSet
<1>2. ASSUME NEW t \in Tables
      PROVE  /\ Append(chain, t) \in Seq(Tables) /\ Len(Append(chain, t)) = Len(chain) + 1
             /\ \A i \in 1 .. Len(chain) : Append(chain, t)[i] = chain[i]
             /\ Append(chain, t)[Len(chain) + 1] = t
  BY <1>0
<1>3. ASSUME c \in Paths(children, chain)
      PROVE  \E t \in ToSet(children[Last(chain)]) \ ToSet(chain) :
                 c = Append(chain, t) \/ c \in Paths(children, Append(chain, t))
  <2> DEFINE l == Len(chain)
             t == c[l + 1]
  <2>1. /\ c \in Seq(Tables) /\ Len(c) > l /\ Len(c) <= MaxDepth + 1
        /\ \A i \in 1 .. l : c[i] = chain[i]
        /\ IsInjective(c)
        /\ \A i \in l .. Len(c) - 1 : c[i + 1] \in ToSet(children[c[i]])
    BY <1>3 DEF Paths
  <2>2. l \in l .. Len(c) - 1 /\ l \in 1 .. l /\ l + 1 \in 1 .. Len(c) /\ Len(c) \in Nat /\ DOMAIN c = 1 .. Len(c)
    BY <1>0, <2>1
  <2>3. t \in ToSet(children[Last(chain)])
    BY <1>0, <2>1, <2>2
  <2>4. t \notin ToSet(chain)
    <3> SUFFICES ASSUME NEW i \in 1 .. l, chain[i] = t PROVE FALSE
      BY <1>0 DEF ToSet
    <3>1. c[i] = c[l + 1] /\ i \in DOMAIN c /\ l + 1 \in DOMAIN c /\ i # l + 1
      BY <1>0, <2>1, <2>2
    <3> QED
      BY <2>1, <3>1 DEF IsInjective
  <2>5. t \in Tables
    BY <1>1, <2>3
  <2> HIDE DEF t
  <2>6. \A i \in 1 .. l + 1 : c[i] = Append(chain, t)[i]
    <3>1. ASSUME NEW i \in 1 .. l + 1 PROVE c[i] = Append(chain, t)[i]
      <4>1. CASE i = l + 1
        BY <1>2, <2>5, <4>1 DEF t
      <4>2. CASE i # l + 1
        <5>1. i \in 1 .. l
          BY <1>0, <4>2
        <5> QED
          BY <1>2, <2>1, <2>5, <5>1
      <4> QED
        BY <4>1, <4>2
    <3> QED
      BY <3>1
  <2>7. CASE Len(c) = l + 1
    <3>1. c = Append(chain, t)
      <4>1. Append(chain, t) \in Seq(Tables) /\ Len(Append(chain, t)) = Len(c)
        BY <1>2, <2>5, <2>7
      <4> QED
        BY <2>1, <2>6, <2>7, <4>1
    <3> QED
      BY <2>3, <2>4, <3>1
  <2>8. CASE Len(c) # l + 1
    <3>1. Len(c) > l + 1
      <4>1. \A a, b \in Nat : a > b /\ a # b + 1 => a > b + 1
        OBVIOUS
      <4>2. Len(c) \in Nat /\ l \in Nat
        BY <1>0, <2>2
      <4> QED
        BY <2>1, <2>8, <4>1, <4>2, Zenon
    <3>2. \A i \in l + 1 .. Len(c) - 1 : i \in l .. Len(c) - 1
      BY <1>0, <2>2
    <3>3. c \in Paths(children, Append(chain, t))
      BY <1>2, <2>1, <2>5, <2>6, <3>1, <3>2 DEF Paths
    <3> QED
      BY <2>3, <2>4, <3>3
  <2> QED
    BY <2>7, <2>8
<1>4. ASSUME NEW t \in ToSet(children[Last(chain)]) \ ToSet(chain),
             c = Append(chain, t) \/ c \in Paths(children, Append(chain, t))
      PROVE  c \in Paths(children, chain)
  <2> DEFINE l == Len(chain)
  <2>0. t \in Tables
    BY <1>1
  <2>1. CASE c = Append(chain, t)
    <3>1. /\ c \in Seq(Tables) /\ Len(c) = l + 1 /\ \A i \in 1 .. l : c[i] = chain[i]
          /\ c[l + 1] = t
      BY <1>2, <2>0, <2>1
    <3>2. IsInjective(c)
      <4>1. t \in Tables \ ToSet(chain)
        BY <2>0
      <4> QED
        BY <2>1, <4>1, GrowInjective, Zenon
    <3>3. ASSUME NEW i \in l .. Len(c) - 1 PROVE c[i + 1] \in ToSet(children[c[i]])
      <4>1. i = l /\ l \in 1 .. l
        BY <1>0, <3>1
      <4>2. c[i] = Last(chain) /\ c[i + 1] = t
        BY <1>0, <3>1, <4>1
      <4> QED
        BY <4>2
    <3>4. Len(c) > l /\ Len(c) <= MaxDepth + 1
      BY <1>0, <3>1
    <3> QED
      BY <3>1, <3>2, <3>3, <3>4 DEF Paths
  <2>2. CASE c \in Paths(children, Append(chain, t))
    <3>1. /\ c \in Seq(Tables) /\ Len(c) > l + 1 /\ Len(c) <= MaxDepth + 1 /\ IsInjective(c)
          /\ \A i \in 1 .. l + 1 : c[i] = Append(chain, t)[i]
          /\ \A i \in l + 1 .. Len(c) - 1 : c[i + 1] \in ToSet(children[c[i]])
      BY <1>2, <2>0, <2>2 DEF Paths
    <3>2. (\A i \in 1 .. l : i \in 1 .. l + 1) /\ l + 1 \in 1 .. l + 1 /\ Len(c) \in Nat /\ l \in 1 .. l
      BY <1>0, <3>1
    <3>3. (\A i \in 1 .. l : c[i] = chain[i]) /\ c[l + 1] = t
      BY <1>2, <2>0, <3>1, <3>2
    <3>4. ASSUME NEW i \in l .. Len(c) - 1 PROVE c[i + 1] \in ToSet(children[c[i]])
      <4>1. CASE i = l
        <5>1. c[i] = Last(chain) /\ c[i + 1] = t
          BY <1>0, <3>2, <3>3, <4>1
        <5> QED
          BY <5>1
      <4>2. CASE i # l
        <5>1. i \in l + 1 .. Len(c) - 1
          BY <1>0, <3>2, <4>2
        <5> QED
          BY <3>1, <5>1
      <4> QED
        BY <4>1, <4>2
    <3>5. Len(c) > l
      BY <1>0, <3>1, <3>2
    <3> QED
      BY <3>1, <3>3, <3>4, <3>5 DEF Paths
  <2> QED
    BY <1>4, <2>1, <2>2
<1> QED
  BY <1>3, <1>4

\* The walk finds them all, and nothing else.
LEMMA WalkRight ==
    ASSUME NEW children \in Lists, NEW chain \in Chains, IsInjective(chain)
    PROVE  ToSet(Walk(children)[chain]) = Paths(children, chain)
<1> DEFINE w == Walk(children)
           Right(n) == \A c \in Chains : IsInjective(c) /\ Len(c) + n > MaxDepth =>
                           ToSet(w[c]) = Paths(children, c)
           T == {n \in Nat : Right(n)}
<1>0. MaxDepth \in Nat /\ \A c \in Chains : Len(c) \in Nat \ {0}
  BY OrmLoadAssumption DEF Chains
<1>1. w \in [Chains -> Seq(Seq(Tables))] /\ \A c \in Chains : w[c] = WalkStep(children, w, c)
  BY WalkDef, Zenon
<1> HIDE DEF w
<1>2. ASSUME NEW c \in Chains, Len(c) > MaxDepth PROVE ToSet(w[c]) = Paths(children, c)
  <2>1. ToSet(w[c]) = {}
    <3>1. w[c] = <<>>
      BY <1>1, <1>2 DEF WalkStep
    <3> QED
      BY <3>1 DEF ToSet
  <2>2. ASSUME NEW p \in Paths(children, c) PROVE FALSE
    <3>1. p \in Seq(Tables) /\ Len(p) > Len(c) /\ Len(p) <= MaxDepth + 1
      BY DEF Paths
    <3>2. Len(p) \in Nat
      BY <3>1
    <3> QED
      BY <1>0, <1>2, <3>1, <3>2
  <2> QED
    BY <2>1, <2>2
<1>3. 0 \in T
  BY <1>0, <1>2
<1>4. ASSUME NEW n \in T PROVE n + 1 \in T
  <2>1. n \in Nat /\ n + 1 \in Nat /\ Right(n)
    BY <1>4
  <2>2. ASSUME NEW c \in Chains, IsInjective(c), Len(c) + (n + 1) > MaxDepth
        PROVE  ToSet(w[c]) = Paths(children, c)
    <3>1. CASE Len(c) > MaxDepth
      BY <1>2, <3>1
    <3>2. CASE ~(Len(c) > MaxDepth)
      <4> DEFINE kids == Kids(children, c)
                 part(i) == <<Append(c, kids[i])>> \o w[Append(c, kids[i])]
                 ss == [i \in DOMAIN kids |-> part(i)]
      <4>1. /\ kids \in Seq(Tables) /\ ToSet(kids) = ToSet(children[Last(c)]) \ ToSet(c)
            /\ \A i \in DOMAIN kids : kids[i] \in Tables /\ Append(c, kids[i]) \in Chains
                   /\ Len(Append(c, kids[i])) = Len(c) + 1
        BY KidsRight, Zenon
      <4>2. w[c] = FlattenSeq(ss)
        BY <1>1, <3>2, Zenon DEF WalkStep
      <4> HIDE DEF kids
      <4>3. ASSUME NEW i \in DOMAIN kids
            PROVE  /\ part(i) \in Seq(Seq(Tables))
                   /\ ToSet(part(i)) = {Append(c, kids[i])} \cup Paths(children, Append(c, kids[i]))
        <5>1. w[Append(c, kids[i])] \in Seq(Seq(Tables))
          BY <1>1, <4>1
        <5>2. kids[i] \in Tables \ ToSet(c)
          BY <4>1 DEF ToSet
        <5>3. IsInjective(Append(c, kids[i]))
          BY <2>2, <5>2, GrowInjective, Zenon
        <5>4. Len(Append(c, kids[i])) + n > MaxDepth
          <6>1. Len(c) \in Nat
            BY <1>0
          <6> QED
            BY <1>0, <2>1, <2>2, <4>1, <6>1
        <5>5. ToSet(w[Append(c, kids[i])]) = Paths(children, Append(c, kids[i]))
          BY <2>1, <4>1, <5>3, <5>4
        <5>6. Append(c, kids[i]) \in Seq(Tables)
          BY <4>1 DEF Chains
        <5>7. <<Append(c, kids[i])>> \in Seq(Seq(Tables))
          BY <5>6
        <5>8. ToSet(<<Append(c, kids[i])>>) = {Append(c, kids[i])}
          BY DEF ToSet
        <5>9. /\ part(i) \in Seq(Seq(Tables))
              /\ ToSet(part(i)) = ToSet(<<Append(c, kids[i])>>) \cup ToSet(w[Append(c, kids[i])])
          <6>1. ASSUME NEW x \in Seq(Seq(Tables)), NEW y \in Seq(Seq(Tables))
                PROVE  x \o y \in Seq(Seq(Tables)) /\ ToSet(x \o y) = ToSet(x) \cup ToSet(y)
            BY ConcatFacts
          <6> QED
            BY <5>1, <5>7, <6>1, Zenon
        <5> QED
          BY <5>5, <5>8, <5>9, Zenon
      <4> HIDE DEF part
      <4>4. ss \in Seq(Seq(Seq(Tables))) /\ DOMAIN ss = DOMAIN kids /\ \A i \in DOMAIN kids : ss[i] = part(i)
        <5>1. ss \in [DOMAIN kids -> Seq(Seq(Tables))]
          BY <4>3
        <5>2. DOMAIN kids = 1 .. Len(kids) /\ Len(kids) \in Nat
          BY <4>1
        <5> QED
          BY <5>1, <5>2
      <4> HIDE DEF ss
      <4>5. ToSet(w[c]) = UNION {ToSet(ss[i]) : i \in DOMAIN ss}
        BY <4>2, <4>4, FlattenRange
      <4>6. ASSUME NEW p
            PROVE  p \in ToSet(w[c]) <=>
                       \E t \in ToSet(kids) : p = Append(c, t) \/ p \in Paths(children, Append(c, t))
        <5>1. p \in ToSet(w[c]) <=>
                  \E i \in DOMAIN kids : p = Append(c, kids[i]) \/ p \in Paths(children, Append(c, kids[i]))
          BY <4>3, <4>4, <4>5
        <5>2. ToSet(kids) = {kids[i] : i \in DOMAIN kids}
          BY DEF ToSet
        <5> QED
          BY <5>1, <5>2
      <4>7. ASSUME NEW p
            PROVE  p \in Paths(children, c) <=>
                       \E t \in ToSet(kids) : p = Append(c, t) \/ p \in Paths(children, Append(c, t))
        <5>1. Len(c) <= MaxDepth
          BY <1>0, <3>2
        <5> QED
          BY <2>2, <4>1, <5>1, PathsStep, Zenon
      <4> QED
        BY <4>6, <4>7
    <3> QED
      BY <3>1, <3>2
  <2> QED
    BY <2>1, <2>2
<1> HIDE DEF Right
<1>5. T = Nat
  <2>1. T \in SUBSET Nat
    OBVIOUS
  <2> HIDE DEF T
  <2> QED
    BY <2>1, <1>3, <1>4, SetInduction
<1>6. Right(MaxDepth)
  <2> HIDE DEF T
  <2>1. MaxDepth \in T
    BY <1>0, <1>5
  <2> QED
    BY <2>1 DEF T
<1> QED
  BY <1>0, <1>6 DEF Right, w

-----------------------------------------------------------------------------
(* What the introspection computes *)

Profiled == profile \in [DOMAIN profile -> Seq(Tables)] /\ DOMAIN profile \subseteq Tables

\* A sequence of a larger set's members, all of them in a smaller one.
LEMMA SeqOver ==
    ASSUME NEW S, NEW s \in Seq(S), NEW U, ToSet(s) \subseteq U
    PROVE  s \in Seq(U)
<1>1. DOMAIN s = 1 .. Len(s) /\ Len(s) \in Nat /\ s = [i \in 1 .. Len(s) |-> s[i]]
  OBVIOUS
<1>2. \A i \in 1 .. Len(s) : s[i] \in U
  BY <1>1 DEF ToSet
<1>3. s \in [1 .. Len(s) -> U]
  BY <1>1, <1>2
<1> QED
  BY <1>1, <1>3

LEMMA ListedRight ==
    ASSUME Profiled
    PROVE  Listed \in Seq(Tables) /\ ToSet(Listed) = DOMAIN profile
<1>1. Catalog \in Seq(Tables) /\ ToSet(Catalog) = Tables
  BY OrmLoadAssumption
<1>2. Listed \in Seq(Tables) /\ ToSet(Listed) = ToSet(Catalog) \cap DOMAIN profile
  BY <1>1, AmongRight, Zenon DEF Listed
<1> QED
  BY <1>1, <1>2 DEF Profiled

\* The children of a table are those of the profile with a key that refers to it.
LEMMA ChildrenRight ==
    ASSUME Profiled, NEW p
    PROVE  /\ Children(p) \in Seq(Tables)
           /\ ToSet(Children(p)) = {t \in DOMAIN profile : p \in ToSet(profile[t]) /\ p # t}
<1> DEFINE keys(t) == {k \in DOMAIN profile[t] : profile[t][k] = p /\ p # t}
           times(t) == [j \in 1..Cardinality(keys(t)) |-> t]
           ss == [i \in DOMAIN Listed |-> times(Listed[i])]
<1>1. /\ Listed \in Seq(Tables) /\ DOMAIN Listed = 1 .. Len(Listed) /\ Len(Listed) \in Nat
      /\ ToSet(Listed) = DOMAIN profile /\ {Listed[i] : i \in DOMAIN Listed} = DOMAIN profile
  <2>1. Listed \in Seq(Tables) /\ ToSet(Listed) = DOMAIN profile
    BY ListedRight
  <2> QED
    BY <2>1 DEF ToSet
<1>2. ASSUME NEW t \in DOMAIN profile
      PROVE  /\ times(t) \in Seq(Tables)
             /\ ToSet(times(t)) = IF p \in ToSet(profile[t]) /\ p # t THEN {t} ELSE {}
  <2>1. profile[t] \in Seq(Tables) /\ t \in Tables /\ DOMAIN profile[t] = 1 .. Len(profile[t])
        /\ Len(profile[t]) \in Nat
    BY DEF Profiled
  <2>2. IsFiniteSet(keys(t))
    <3>1. IsFiniteSet(1 .. Len(profile[t]))
      BY <2>1, FS_Interval
    <3>2. keys(t) \subseteq 1 .. Len(profile[t])
      BY <2>1
    <3> QED
      BY <3>1, <3>2, FS_Subset
  <2>3. Cardinality(keys(t)) \in Nat /\ (Cardinality(keys(t)) = 0 <=> keys(t) = {})
    BY <2>2, FS_CardinalityType, FS_EmptySet
  <2>4. keys(t) = {} <=> ~(p \in ToSet(profile[t]) /\ p # t)
    BY DEF ToSet
  <2> HIDE DEF keys
  <2>5. times(t) \in Seq(Tables)
    <3>1. times(t) \in [1 .. Cardinality(keys(t)) -> Tables]
      BY <2>1
    <3> QED
      BY <2>3, <3>1
  <2>6. ToSet(times(t)) = IF Cardinality(keys(t)) = 0 THEN {} ELSE {t}
    <3>1. DOMAIN times(t) = 1 .. Cardinality(keys(t)) /\ \A j \in 1 .. Cardinality(keys(t)) : times(t)[j] = t
      OBVIOUS
    <3> HIDE DEF times
    <3>2. CASE Cardinality(keys(t)) = 0
      BY <3>1, <3>2 DEF ToSet
    <3>3. CASE Cardinality(keys(t)) # 0
      <4>1. 1 \in 1 .. Cardinality(keys(t))
        BY <2>3, <3>3
      <4> QED
        BY <3>1, <3>3, <4>1 DEF ToSet
    <3> QED
      BY <3>2, <3>3
  <2> QED
    BY <2>3, <2>4, <2>5, <2>6
<1>3. Children(p) = FlattenSeq(ss)
  BY Zenon DEF Children
<1> HIDE DEF times
<1>4. ss \in Seq(Seq(Tables)) /\ DOMAIN ss = DOMAIN Listed /\ \A i \in DOMAIN Listed : ss[i] = times(Listed[i])
  <2>1. ss \in [1 .. Len(Listed) -> Seq(Tables)]
    BY <1>1, <1>2
  <2> QED
    BY <1>1, <2>1
<1> HIDE DEF ss
<1>5. Children(p) \in Seq(Tables) /\ ToSet(Children(p)) = UNION {ToSet(ss[i]) : i \in DOMAIN ss}
  BY <1>3, <1>4, FlattenRange
<1>6. UNION {ToSet(ss[i]) : i \in DOMAIN ss} = UNION {ToSet(times(t)) : t \in DOMAIN profile}
  BY <1>1, <1>4
<1>7. UNION {ToSet(times(t)) : t \in DOMAIN profile} = {t \in DOMAIN profile : p \in ToSet(profile[t]) /\ p # t}
  BY <1>2
<1> QED
  BY <1>5, <1>6, <1>7

\* The simple paths along the keys, of two tables or more.
SimplePaths ==
    {c \in BoundedSeq(DOMAIN profile, MaxDepth + 1) :
        /\ Len(c) >= 2 /\ IsInjective(c)
        /\ \A i \in 1..(Len(c) - 1) : c[i] \in ToSet(profile[c[i + 1]])}

LEMMA InBounded ==
    ASSUME NEW S, NEW n \in Nat, NEW c
    PROVE  c \in BoundedSeq(S, n) <=> c \in Seq(S) /\ Len(c) <= n
<1>1. BoundedSeq(S, n) = UNION {[1 .. m -> S] : m \in 0 .. n}
  BY DEF BoundedSeq, SeqOf
<1>2. ASSUME c \in BoundedSeq(S, n) PROVE c \in Seq(S) /\ Len(c) <= n
  <2>1. PICK m \in 0 .. n : c \in [1 .. m -> S]
    BY <1>1, <1>2
  <2>2. m \in Nat /\ m <= n
    OBVIOUS
  <2>3. c \in Seq(S) /\ Len(c) = m
    BY <2>1, <2>2
  <2> QED
    BY <2>2, <2>3
<1>3. ASSUME c \in Seq(S), Len(c) <= n PROVE c \in BoundedSeq(S, n)
  <2>1. Len(c) \in 0 .. n /\ c \in [1 .. Len(c) -> S]
    BY <1>3
  <2> QED
    BY <1>1, <2>1
<1> QED
  BY <1>2, <1>3

LEMMA WalkChainsRight ==
    ASSUME Profiled, NEW children \in Lists,
           \A p \in Tables : ToSet(children[p]) = {t \in DOMAIN profile : p \in ToSet(profile[t]) /\ p # t}
    PROVE  /\ WalkChains(children) \in Seq(Chain)
           /\ ToSet(WalkChains(children)) = SimplePaths
<1> DEFINE w == Walk(children)
           ss == [i \in DOMAIN Listed |-> w[<<Listed[i]>>]]
<1>0. MaxDepth \in Nat /\ MaxDepth + 1 \in Nat
  BY OrmLoadAssumption
<1>1. /\ Listed \in Seq(Tables) /\ DOMAIN Listed = 1 .. Len(Listed) /\ Len(Listed) \in Nat
      /\ ToSet(Listed) = DOMAIN profile /\ {Listed[i] : i \in DOMAIN Listed} = DOMAIN profile
  <2>1. Listed \in Seq(Tables) /\ ToSet(Listed) = DOMAIN profile
    BY ListedRight
  <2> QED
    BY <2>1 DEF ToSet
<1>2. ASSUME NEW t \in DOMAIN profile
      PROVE  w[<<t>>] \in Seq(Seq(Tables)) /\ ToSet(w[<<t>>]) = Paths(children, <<t>>)
  <2>1. t \in Tables
    BY DEF Profiled
  <2>2. <<t>> \in Chains /\ IsInjective(<<t>>)
    BY <2>1 DEF Chains, IsInjective
  <2>3. w[<<t>>] \in Seq(Seq(Tables))
    <3>1. w \in [Chains -> Seq(Seq(Tables))]
      BY WalkDef, Zenon
    <3> HIDE DEF w
    <3> QED
      BY <2>2, <3>1
  <2> QED
    BY <2>2, <2>3, WalkRight, Zenon
<1>3. WalkChains(children) = FlattenSeq(ss)
  BY Zenon DEF WalkChains
<1> HIDE DEF w
<1>4. ss \in Seq(Seq(Seq(Tables))) /\ DOMAIN ss = DOMAIN Listed /\ \A i \in DOMAIN Listed : ss[i] = w[<<Listed[i]>>]
  <2>1. ss \in [1 .. Len(Listed) -> Seq(Seq(Tables))]
    BY <1>1, <1>2
  <2> QED
    BY <1>1, <2>1
<1> HIDE DEF ss
<1>5. /\ WalkChains(children) \in Seq(Seq(Tables))
      /\ ToSet(WalkChains(children)) = UNION {ToSet(ss[i]) : i \in DOMAIN ss}
  BY <1>3, <1>4, FlattenRange
<1>6. UNION {ToSet(ss[i]) : i \in DOMAIN ss} = UNION {Paths(children, <<t>>) : t \in DOMAIN profile}
  <2>1. ASSUME NEW i \in DOMAIN ss PROVE \E t \in DOMAIN profile : ToSet(ss[i]) = Paths(children, <<t>>)
    <3>1. Listed[i] \in DOMAIN profile /\ ss[i] = w[<<Listed[i]>>]
      BY <1>1, <1>4
    <3> QED
      BY <1>2, <3>1
  <2>2. ASSUME NEW t \in DOMAIN profile PROVE \E i \in DOMAIN ss : ToSet(ss[i]) = Paths(children, <<t>>)
    <3>1. PICK i \in DOMAIN ss : Listed[i] = t
      BY <1>1, <1>4
    <3>2. ss[i] = w[<<t>>]
      BY <1>4, <3>1
    <3> QED
      BY <1>2, <3>2
  <2>3. \A c : c \in UNION {ToSet(ss[i]) : i \in DOMAIN ss} <=> \E i \in DOMAIN ss : c \in ToSet(ss[i])
    OBVIOUS
  <2>4. \A c : c \in UNION {Paths(children, <<t>>) : t \in DOMAIN profile}
                  <=> \E t \in DOMAIN profile : c \in Paths(children, <<t>>)
    OBVIOUS
  <2>5. \A c : (\E i \in DOMAIN ss : c \in ToSet(ss[i])) <=> \E t \in DOMAIN profile : c \in Paths(children, <<t>>)
    BY <2>1, <2>2, Zenon
  <2>6. \A c : c \in UNION {ToSet(ss[i]) : i \in DOMAIN ss}
                  <=> c \in UNION {Paths(children, <<t>>) : t \in DOMAIN profile}
    BY <2>3, <2>4, <2>5, Zenon
  <2> QED
    BY <2>6, Zenon
<1>7. ASSUME NEW t \in DOMAIN profile, NEW c \in Paths(children, <<t>>) PROVE c \in SimplePaths
  <2>1. /\ c \in Seq(Tables) /\ Len(c) > 1 /\ Len(c) <= MaxDepth + 1 /\ c[1] = t /\ IsInjective(c)
        /\ \A i \in 1 .. Len(c) - 1 : c[i + 1] \in ToSet(children[c[i]])
    <3>1. Len(<<t>>) = 1 /\ <<t>>[1] = t /\ 1 \in 1 .. 1
      OBVIOUS
    <3> QED
      BY <3>1 DEF Paths
  <2>2. Len(c) \in Nat /\ \A i \in 1 .. Len(c) : c[i] \in Tables
    BY <2>1
  <2>3. ASSUME NEW i \in 1 .. Len(c) - 1
        PROVE  c[i + 1] \in DOMAIN profile /\ c[i] \in ToSet(profile[c[i + 1]])
    <3>1. c[i] \in Tables /\ c[i + 1] \in ToSet(children[c[i]])
      BY <2>1, <2>2
    <3> QED
      BY <3>1
  <2>4. \A i \in 1 .. Len(c) : c[i] \in DOMAIN profile
    <3>1. ASSUME NEW i \in 1 .. Len(c), i # 1 PROVE c[i] \in DOMAIN profile
      <4>1. i - 1 \in 1 .. Len(c) - 1 /\ (i - 1) + 1 = i
        BY <2>2, <3>1
      <4> QED
        BY <2>3, <4>1
    <3> QED
      BY <2>1, <3>1
  <2>5. c \in Seq(DOMAIN profile)
    <3>1. DOMAIN c = 1 .. Len(c)
      BY <2>1
    <3>2. ToSet(c) \subseteq DOMAIN profile
      BY <2>4, <3>1 DEF ToSet
    <3> QED
      BY <2>1, <3>2, SeqOver
  <2>6. c \in BoundedSeq(DOMAIN profile, MaxDepth + 1)
    BY <1>0, <2>1, <2>5, InBounded, Zenon
  <2>7. Len(c) >= 2
    BY <2>1, <2>2
  <2> QED
    BY <2>1, <2>3, <2>6, <2>7 DEF SimplePaths
<1>8. ASSUME NEW c \in SimplePaths PROVE \E t \in DOMAIN profile : c \in Paths(children, <<t>>)
  <2>1. /\ c \in BoundedSeq(DOMAIN profile, MaxDepth + 1)
        /\ Len(c) >= 2 /\ IsInjective(c)
        /\ \A i \in 1..(Len(c) - 1) : c[i] \in ToSet(profile[c[i + 1]])
    BY DEF SimplePaths
  <2>2. c \in Seq(DOMAIN profile) /\ Len(c) <= MaxDepth + 1
    BY <1>0, <2>1, InBounded, Zenon
  <2>3. /\ Len(c) \in Nat /\ DOMAIN c = 1 .. Len(c) /\ \A i \in 1 .. Len(c) : c[i] \in DOMAIN profile
        /\ \A i \in 1 .. Len(c) - 1 : i \in 1 .. Len(c) /\ i + 1 \in 1 .. Len(c) /\ i # i + 1
        /\ 1 \in 1 .. Len(c) /\ Len(c) > 1
    BY <2>1, <2>2
  <2>4. c \in Seq(Tables)
    <3>1. DOMAIN profile \subseteq Tables
      BY DEF Profiled
    <3> QED
      BY <2>2, <3>1
  <2>5. ASSUME NEW i \in 1 .. Len(c) - 1 PROVE c[i + 1] \in ToSet(children[c[i]])
    <3>1. c[i] # c[i + 1]
      BY <2>1, <2>3 DEF IsInjective
    <3>2. c[i] \in Tables /\ c[i + 1] \in DOMAIN profile
      BY <2>3 DEF Profiled
    <3> QED
      BY <2>1, <3>1, <3>2
  <2>6. c \in Paths(children, <<c[1]>>)
    <3>1. Len(<<c[1]>>) = 1 /\ \A i \in 1 .. 1 : <<c[1]>>[i] = c[i]
      OBVIOUS
    <3> QED
      BY <2>1, <2>2, <2>3, <2>4, <2>5, <3>1 DEF Paths
  <2> QED
    BY <2>3, <2>6
<1>9. ToSet(WalkChains(children)) = SimplePaths
  <2>1. \A c : c \in ToSet(WalkChains(children)) <=> \E t \in DOMAIN profile : c \in Paths(children, <<t>>)
    BY <1>5, <1>6
  <2>2. \A c : c \in SimplePaths <=> \E t \in DOMAIN profile : c \in Paths(children, <<t>>)
    BY <1>7, <1>8
  <2>3. \A c : c \in ToSet(WalkChains(children)) <=> c \in SimplePaths
    BY <2>1, <2>2
  <2> QED
    BY <2>3, Zenon
<1>10. SimplePaths \subseteq Chain
  <2>1. ASSUME NEW c \in SimplePaths PROVE c \in Chain
    <3>1. PICK t \in DOMAIN profile : c \in Paths(children, <<t>>)
      BY <1>8
    <3>2. c \in Seq(Tables) /\ Len(c) <= MaxDepth + 1
      BY <3>1 DEF Paths
    <3>3. Len(c) >= 2
      BY DEF SimplePaths
    <3>4. Len(c) \in 2 .. MaxDepth + 1
      <4>1. Len(c) \in Nat
        BY <3>2
      <4> QED
        BY <1>0, <3>2, <3>3, <4>1
    <3> QED
      BY <3>2, <3>4 DEF Chain
  <2> QED
    BY <2>1
<1>11. WalkChains(children) \in Seq(Chain)
  BY <1>5, <1>9, <1>10, SeqOver, Zenon
<1> QED
  BY <1>9, <1>11

LEMMA ChainsComputed ==
    ASSUME Profiled
    PROVE  LET children == [p \in Tables |-> Children(p)]
               s == UniqueSorted(WalkChains(children))
           IN  /\ ToSet(s) = SimplePaths /\ IsInjective(s)
               /\ \A i, j \in DOMAIN s : i < j => Len(s[i]) >= Len(s[j])
<1> DEFINE children == [p \in Tables |-> Children(p)]
           s == UniqueSorted(WalkChains(children))
<1>1. children \in Lists
  <2>1. \A p \in Tables : Children(p) \in Seq(Tables)
    BY ChildrenRight
  <2> QED
    BY <2>1 DEF Lists
<1>2. \A p \in Tables : ToSet(children[p]) = {t \in DOMAIN profile : p \in ToSet(profile[t]) /\ p # t}
  BY ChildrenRight
<1> HIDE DEF children
<1>3. WalkChains(children) \in Seq(Chain) /\ ToSet(WalkChains(children)) = SimplePaths
  BY <1>1, <1>2, WalkChainsRight
<1>4. s \in Seq(Chain) /\ Sorted(s) /\ ToSet(s) = SimplePaths
  BY <1>3, UniqueSortedRight, Zenon
<1> HIDE DEF s
<1>5. \A i, j \in DOMAIN s : i < j => s[i] # s[j] /\ Len(s[i]) >= Len(s[j])
  BY <1>4 DEF Sorted
<1>6. \A i, j \in DOMAIN s : s[i] = s[j] => i = j
  <2>1. DOMAIN s = 1 .. Len(s) /\ Len(s) \in Nat
    BY <1>4
  <2>2. \A i, j \in DOMAIN s : i < j \/ j < i \/ i = j
    BY <2>1
  <2> QED
    BY <1>5, <2>2
<1>7. IsInjective(s)
  BY <1>6, Zenon DEF IsInjective
<1> QED
  BY <1>4, <1>5, <1>7 DEF s, children

\* The phases in which the profile is as it was left by the introspection.
ChainsInv ==
    /\ schema \in Schemas
    /\ Profiled
    /\ phase = "introspect" => todo \in Seq(Tables)
    /\ ChainsRight

LEMMA ChainsInit == OrmInit => ChainsInv
<1> SUFFICES ASSUME OrmInit PROVE ChainsInv
  OBVIOUS
<1>1. Profiled
  BY DEF OrmInit, Profiled
<1> QED
  BY <1>1 DEF OrmInit, ChainsInv, ChainsRight

LEMMA ChainsStep == ChainsInv /\ [OrmNext]_ormVars => ChainsInv'
<1> SUFFICES ASSUME ChainsInv, [OrmNext]_ormVars PROVE ChainsInv'
  OBVIOUS
<1>0. schema \in Schemas /\ Profiled /\ Catalog \in Seq(Tables)
      /\ (phase = "introspect" => todo \in Seq(Tables))
  BY OrmLoadAssumption DEF ChainsInv
<1> DEFINE Kept == /\ UNCHANGED <<schema, profile, fk_chains>>
                   /\ phase' \in {"reflect", "prepare", "launch", "run"} => phase \in {"reflect", "prepare", "launch", "run"}
                   /\ phase' = "introspect" => phase = "introspect" /\ todo' = todo
<1>1. ASSUME Kept PROVE ChainsInv'
  <2>1. ChainsRight'
    BY <1>1 DEF ChainsInv, ChainsRight
  <2> QED
    BY <1>0, <1>1, <2>1 DEF ChainsInv, Profiled
<1> HIDE DEF Kept
<1>2. CASE WaitForData
  <2>1. todo' \in Seq(Tables)
    BY <1>0, <1>2, AmongRight, Zenon DEF WaitForData
  <2> QED
    BY <1>0, <1>2, <2>1 DEF WaitForData, ChainsInv, ChainsRight, Profiled, environment, findings
<1>3. CASE Introspect
  <2>1. CASE Head(todo) \in db
    <3> DEFINE t0 == Head(todo)
    <3>1. todo \in Seq(Tables) /\ todo # <<>> /\ phase' = phase /\ phase = "introspect" /\ schema' = schema
          /\ todo' = Tail(todo)
          /\ profile' = [t \in DOMAIN profile \cup {t0} |->
                 IF t = t0 THEN Among(schema[t].fks, db) ELSE profile[t]]
      BY <1>0, <1>3, <2>1 DEF Introspect, environment
    <3>2. t0 \in Tables /\ Tail(todo) \in Seq(Tables)
      BY <3>1
    <3> HIDE DEF t0
    <3>3. Among(schema[t0].fks, db) \in Seq(Tables)
      <4>1. schema[t0].fks \in Seq(Tables)
        BY <1>0, <3>2, OrmLoadAssumption
      <4> QED
        BY <4>1, AmongRight, Zenon
    <3>4. ASSUME NEW t \in DOMAIN profile \cup {t0}
          PROVE  (IF t = t0 THEN Among(schema[t].fks, db) ELSE profile[t]) \in Seq(Tables)
      <4>1. CASE t = t0
        BY <3>3, <4>1
      <4>2. CASE t # t0
        BY <1>0, <4>2 DEF Profiled
      <4> QED
        BY <4>1, <4>2
    <3>5. profile' \in [DOMAIN profile \cup {t0} -> Seq(Tables)]
      BY <3>1, <3>4
    <3>6. Profiled'
      BY <1>0, <3>2, <3>5 DEF Profiled
    <3> QED
      BY <1>0, <3>1, <3>2, <3>6 DEF ChainsInv, ChainsRight
  <2>2. CASE Head(todo) \notin db
    <3>1. Kept
      BY <1>3, <2>2 DEF Introspect, Kept, environment
    <3> QED
      BY <1>1, <3>1
  <2> QED
    BY <2>1, <2>2
<1>4. CASE Introspected
  <2> DEFINE children == [p \in Tables |-> Children(p)]
  <2>1. /\ fk_chains' = UniqueSorted(WalkChains(children))
        /\ phase' = "reflect" /\ profile' = profile /\ schema' = schema
    BY <1>4 DEF Introspected, environment
  <2>2. /\ ToSet(fk_chains') = SimplePaths /\ IsInjective(fk_chains')
        /\ \A i, j \in DOMAIN fk_chains' : i < j => Len(fk_chains'[i]) >= Len(fk_chains'[j])
    BY <1>0, <2>1, ChainsComputed, Zenon
  <2>3. ChainsRight'
    BY <2>1, <2>2 DEF ChainsRight, SimplePaths
  <2> QED
    BY <1>0, <2>1, <2>3 DEF ChainsInv, Profiled
<1>5. CASE Relaunch
  <2>1. profile' = [t \in {} |-> <<>>] /\ phase' = "wait" /\ schema' = schema
    BY <1>5 DEF Relaunch, environment
  <2>2. Profiled'
    BY <2>1 DEF Profiled
  <2> QED
    BY <1>0, <2>1, <2>2 DEF ChainsInv, ChainsRight
<1>6. CASE Reflect \/ Prepare \/ Launch \/ ShutDown \/ Join \/ Exit
  <2>1. Kept
    BY <1>6 DEF Kept, Reflect, Prepare, Launch, ShutDown, Join, Exit, environment, findings
  <2> QED
    BY <1>1, <2>1
<1>7. ASSUME UNCHANGED <<schema, profile, fk_chains, phase, todo>> PROVE ChainsInv'
  BY <1>1, <1>7 DEF Kept
<1>8. CASE Signal \/ Timer \/ Rows
  BY <1>7, <1>8 DEF Signal, Timer, Rows, environment, Main, findings
<1>9. ASSUME NEW w \in Workers, (\E op \in Operations : Begin(w, op)) \/ Finish(w) \/ WorkerEnds(w)
      PROVE  ChainsInv'
  BY <1>7, <1>9 DEF Begin, Finish, WorkerEnds, environment, Main, findings
<1>10. ASSUME NEW t \in Tables, Drop(t) PROVE ChainsInv'
  BY <1>7, <1>10 DEF Drop, environment, Main, findings
<1>11. CASE UNCHANGED ormVars
  BY <1>7, <1>11 DEF ormVars, environment, findings
<1> QED
  BY <1>2, <1>3, <1>4, <1>5, <1>6, <1>8, <1>9, <1>10, <1>11 DEF OrmNext, MainStep

\* Whatever the schema, the order of the catalog, the depth and the migrations: the chains
\* that the introspection leaves are all the simple paths along the keys it found, each of
\* them once, the longest first (introspect.py:247-275).
THEOREM ChainsComplete == OrmSpec => []ChainsRight
<1>1. ChainsInv => ChainsRight
  BY DEF ChainsInv
<1> QED
  BY ChainsInit, ChainsStep, <1>1, PTL DEF OrmSpec

-----------------------------------------------------------------------------
(* Why an operation fails *)

\* A table that was reflected and has a class.
Usable(t) == t \in models /\ HasClass(t)

Statement == [tables : SUBSET Tables, wrong : BOOLEAN]
States == [at : {"waiting", "running", "ended"}, writes : BOOLEAN, tables : SUBSET Tables, wrong : BOOLEAN]

OrmTypes ==
    /\ db \subseteq Tables /\ models \subseteq Tables
    /\ ctx \in [Operations -> SUBSET Statement]
    /\ worker \in [Workers -> States]

\* Before main has come to run there is no context, and but for run and join no worker.
Phases ==
    /\ phase \in {"wait", "introspect", "reflect", "prepare", "launch", "run", "join", "done",
                 "failed"}
    /\ phase \notin {"run", "join", "done"} => ctx = [op \in Operations |-> {}]
    /\ phase \notin {"run", "join"} => worker = [w \in Workers |-> Ended]

\* What asks of a relationship or a column what that cannot give names two tables that
\* refer to each other, or one that has an array among its numbers.
Excused(s) ==
    \/ \E p, k \in s.tables : /\ p # k
                             /\ p \in ToSet(schema[k].fks)
                             /\ k \in ToSet(schema[p].fks)
    \/ \E t \in s.tables : s.tables = {t} /\ "array" \in schema[t].numeric
Sound(s) == (\A t \in s.tables : Usable(t)) /\ (s.wrong => Excused(s))

\* What an operation may come to ask, and what it asks.
StatementsSound ==
    /\ \A op \in Operations : \A s \in ctx[op] : Sound(s)
    /\ \A w \in Workers : worker[w].at = "running" => Sound(worker[w])

FailureInv ==
    /\ OrmTypes
    /\ Phases
    /\ models \subseteq db \cup dropped
    /\ StatementsSound
    /\ ErrorsExplained

\* The keys a table was introspected with are its own, and what the introspection took for
\* a child refers to its parent.
KeysFound ==
    /\ \A t \in DOMAIN profile : ToSet(profile[t]) \subseteq ToSet(schema[t].fks)
    /\ \A p \in Tables : \A k \in ToSet(children_of[p]) : k # p /\ p \in ToSet(schema[k].fks)

LEMMA KeysInit == OrmInit => KeysFound
<1> SUFFICES ASSUME OrmInit PROVE KeysFound
  OBVIOUS
<1>1. DOMAIN profile = {} /\ \A p \in Tables : children_of[p] = <<>>
  BY DEF OrmInit
<1>2. ToSet(<<>>) = {}
  BY DEF ToSet
<1> QED
  BY <1>1, <1>2 DEF KeysFound

LEMMA KeysStep == ChainsInv /\ KeysFound /\ [OrmNext]_ormVars => KeysFound'
<1> SUFFICES ASSUME ChainsInv, KeysFound, [OrmNext]_ormVars PROVE KeysFound'
  OBVIOUS
<1>0. schema \in Schemas /\ Profiled /\ (phase = "introspect" => todo \in Seq(Tables))
  BY DEF ChainsInv
<1>1. ASSUME UNCHANGED <<schema, profile, children_of>> PROVE KeysFound'
  BY <1>1 DEF KeysFound
<1>2. CASE Introspect
  <2>1. CASE Head(todo) \in db
    <3>1. /\ schema' = schema /\ children_of' = children_of
          /\ todo \in Seq(Tables) /\ todo # <<>>
          /\ profile' = [t \in DOMAIN profile \cup {Head(todo)} |->
                 IF t = Head(todo) THEN Among(schema[t].fks, db) ELSE profile[t]]
      BY <1>0, <1>2, <2>1 DEF Introspect, environment
    <3>2. ASSUME NEW t \in DOMAIN profile'
          PROVE  ToSet(profile'[t]) \subseteq ToSet(schema[t].fks)
      <4>1. CASE t = Head(todo)
        <5>1. t \in Tables
          BY <3>1, <4>1
        <5>2. schema[t].fks \in Seq(Tables)
          BY <1>0, <5>1, OrmLoadAssumption
        <5>3. ToSet(Among(schema[t].fks, db)) \subseteq ToSet(schema[t].fks)
          BY <5>2, AmongRight
        <5>4. profile'[t] = Among(schema[t].fks, db)
          BY <3>1, <4>1
        <5> QED
          BY <5>3, <5>4
      <4>2. CASE t # Head(todo)
        <5>1. t \in DOMAIN profile /\ profile'[t] = profile[t]
          BY <3>1, <3>2, <4>2
        <5> QED
          BY <5>1 DEF KeysFound
      <4> QED
        BY <4>1, <4>2
    <3> QED
      BY <3>1, <3>2 DEF KeysFound
  <2>2. CASE Head(todo) \notin db
    BY <1>1, <1>2, <2>2 DEF Introspect, environment
  <2> QED
    BY <2>1, <2>2
<1>3. CASE Introspected
  <2>1. children_of' = [p \in Tables |-> Children(p)] /\ UNCHANGED <<schema, profile>>
    BY <1>3 DEF Introspected, environment
  <2>2. ASSUME NEW p \in Tables, NEW k \in ToSet(children_of'[p])
        PROVE  k # p /\ p \in ToSet(schema[k].fks)
    <3>1. children_of'[p] = Children(p)
      BY <2>1
    <3>2. k \in DOMAIN profile /\ p \in ToSet(profile[k]) /\ p # k
      BY <1>0, <2>2, <3>1, ChildrenRight
    <3> QED
      BY <3>2 DEF KeysFound
  <2> QED
    BY <2>1, <2>2 DEF KeysFound
<1>4. CASE Relaunch
  <2>1. DOMAIN profile' = {} /\ (\A p \in Tables : children_of'[p] = <<>>) /\ schema' = schema
    BY <1>4 DEF Relaunch, environment
  <2>2. ToSet(<<>>) = {}
    BY DEF ToSet
  <2> QED
    BY <2>1, <2>2 DEF KeysFound
<1>5. CASE WaitForData \/ Reflect \/ Prepare \/ Launch \/ ShutDown \/ Join \/ Exit
  BY <1>1, <1>5 DEF WaitForData, Reflect, Prepare, Launch, ShutDown, Join, Exit, environment, findings
<1>6. CASE Signal \/ Timer \/ Rows
  BY <1>1, <1>6 DEF Signal, Timer, Rows, environment, Main, findings
<1>7. ASSUME NEW w \in Workers, (\E op \in Operations : Begin(w, op)) \/ Finish(w) \/ WorkerEnds(w)
      PROVE  KeysFound'
  BY <1>1, <1>7 DEF Begin, Finish, WorkerEnds, environment, Main, findings
<1>8. ASSUME NEW t \in Tables, Drop(t) PROVE KeysFound'
  BY <1>1, <1>8 DEF Drop, environment, Main, findings
<1>9. CASE UNCHANGED ormVars
  BY <1>1, <1>9 DEF ormVars, environment, findings
<1> QED
  BY <1>2, <1>3, <1>4, <1>5, <1>6, <1>7, <1>8, <1>9 DEF OrmNext, MainStep

\* The lists only give what get_model and the relationships confirm, and what cannot be had
\* is asked only where keys go both ways, or of an array.
LEMMA StatementsRight ==
    ASSUME KeysFound, Profiled, models \subseteq Tables,
           NEW op \in Operations, NEW s \in Statements(op)
    PROVE  s \in Statement /\ Sound(s)
<1>1. ASSUME NEW ts, \A u \in ts : Usable(u) PROVE Plain(ts) \in Statement /\ Sound(Plain(ts))
  <2>1. Plain(ts) = [tables |-> ts, wrong |-> FALSE]
    BY DEF Plain, Asks
  <2>2. ts \subseteq Tables
    BY <1>1 DEF Usable
  <2> QED
    BY <1>1, <2>1, <2>2 DEF Statement, Sound
<1>2. \A c : \A u \in NPlus1(c) : Usable(u)
  BY DEF NPlus1, Related, GetModel, Usable
<1>3. \A r, c : \A u \in Eager(r, c) : Usable(u)
  BY DEF Eager, Related, GetModel, Usable
<1>4. \A r : \A u \in OnTable(r) : Usable(u)
  BY DEF OnTable, GetModel, Usable
<1>5. ASSUME NEW p \in HasRels, NEW k \in ToSet(children_of[p])
      PROVE  Exists(p, k) \in Statement /\ Sound(Exists(p, k))
  <2> DEFINE e == Exists(p, k)
  <2>1. e = [tables |-> Eager(p, k), wrong |-> k \in ToSet(schema[p].fks) /\ Eager(p, k) # {}]
    BY DEF Exists, Asks
  <2>2. Eager(p, k) \subseteq Tables
    BY <1>3 DEF Usable
  <2>3. p \in Tables
    BY DEF HasRels, Profiled
  <2>4. k # p /\ p \in ToSet(schema[k].fks)
    BY <2>3 DEF KeysFound
  <2> HIDE DEF e
  <2>5. ASSUME e.wrong PROVE Excused(e)
    <3>1. k \in ToSet(schema[p].fks) /\ Eager(p, k) # {}
      BY <2>1, <2>5
    <3>2. Eager(p, k) = {p, k}
      BY <3>1 DEF Eager
    <3>3. p \in e.tables /\ k \in e.tables
      BY <2>1, <3>2
    <3> QED
      BY <2>4, <3>1, <3>3 DEF Excused
  <2>6. Sound(e)
    BY <1>3, <2>1, <2>5 DEF Sound
  <2>7. e \in Statement
    BY <2>1, <2>2 DEF Statement
  <2> QED
    BY <2>6, <2>7 DEF e
<1>6. ASSUME NEW t, NEW n \in schema[t].numeric
      PROVE  Aggregate(t, n) \in Statement /\ Sound(Aggregate(t, n))
  <2> DEFINE e == Aggregate(t, n)
  <2>1. e = [tables |-> OnTable(t), wrong |-> n = "array" /\ OnTable(t) # {}]
    BY DEF Aggregate, Asks
  <2>2. OnTable(t) \subseteq Tables
    BY <1>4 DEF Usable
  <2> HIDE DEF e
  <2>3. ASSUME e.wrong PROVE Excused(e)
    <3>1. n = "array" /\ OnTable(t) = {t}
      BY <2>1, <2>3 DEF OnTable
    <3>2. e.tables = {t}
      BY <2>1, <3>1
    <3> QED
      BY <3>1, <3>2 DEF Excused
  <2>4. Sound(e)
    BY <1>4, <2>1, <2>3 DEF Sound
  <2>5. e \in Statement
    BY <2>1, <2>2 DEF Statement
  <2> QED
    BY <2>4, <2>5 DEF e
<1> DEFINE chains == ToSet(IF op = "relationship"
                           THEN SubSeq(Chains2, 1, IF Len(Chains2) < 10 THEN Len(Chains2) ELSE 10)
                           ELSE Chains2)
           exists == UNION {{Exists(p, k) : k \in ToSet(children_of[p])} : p \in HasRels}
           sums == UNION {{Aggregate(t, n) : n \in schema[t].numeric} : t \in Aggregable}
           some == CASE op = "n_plus_1" -> {Plain(NPlus1(c)) : c \in chains}
                     [] op \in {"eager_join", "eager_subquery", "eager_selectin", "relationship"} ->
                           {Plain(Eager(c[1], c[2])) : c \in chains}
                     [] op = "exists_filter" -> exists
                     [] op = "bulk_insert" -> {Plain(OnTable(u)) : u \in Insertable}
                     [] op = "orm_update" -> {Plain(OnTable(u)) : u \in Updatable}
                     [] op = "pagination" -> {Plain(OnTable(u)) : u \in Paginable}
                     [] op = "aggregation" -> sums
<1>7. Statements(op) = IF some = {} THEN {Plain({})} ELSE some
  BY Zenon DEF Statements
<1> HIDE DEF chains
<1>8. CASE s = Plain({})
  BY <1>1, <1>8
<1>9. CASE s \in some
  <2>1. \A e \in exists : e \in Statement /\ Sound(e)
    BY <1>5
  <2>2. \A e \in sums : e \in Statement /\ Sound(e)
    BY <1>6
  <2> HIDE DEF exists, sums
  <2>3. CASE op = "n_plus_1"
    <3>1. PICK c : s = Plain(NPlus1(c))
      BY <1>9, <2>3
    <3> QED
      BY <1>1, <1>2, <3>1
  <2>4. CASE op \in {"eager_join", "eager_subquery", "eager_selectin", "relationship"}
    <3>1. some = {Plain(Eager(c[1], c[2])) : c \in chains}
      BY <2>4
    <3> HIDE DEF some
    <3>2. PICK c : s = Plain(Eager(c[1], c[2]))
      BY <1>9, <3>1
    <3> QED
      BY <1>1, <1>3, <3>2
  <2>5. CASE op = "exists_filter"
    BY <1>9, <2>1, <2>5
  <2>6. CASE op = "aggregation"
    BY <1>9, <2>2, <2>6
  <2>7. CASE op \in {"bulk_insert", "orm_update", "pagination"}
    <3>1. PICK r : s = Plain(OnTable(r))
      BY <1>9, <2>7
    <3> QED
      BY <1>1, <1>4, <3>1
  <2> QED
    BY <2>3, <2>4, <2>5, <2>6, <2>7 DEF Operations
<1> HIDE DEF some
<1> QED
  BY <1>7, <1>8, <1>9

LEMMA Idle ==
    /\ Ended \in States /\ Ended.at = "ended"
    /\ Waiting \in States /\ Waiting.at = "waiting" /\ Waiting # Ended
<1>1. Waiting \in States /\ Waiting.at = "waiting"
  BY DEF Waiting, States
<1>2. Ended \in States /\ Ended.at = "ended"
  BY <1>1 DEF Ended, States
<1> QED
  BY <1>1, <1>2

LEMMA FailureInit == OrmInit => FailureInv
<1> SUFFICES ASSUME OrmInit PROVE FailureInv
  OBVIOUS
<1>2. OrmTypes
  BY Idle DEF OrmInit, OrmTypes
<1>3. Phases
  BY DEF OrmInit, Phases
<1>4. StatementsSound
  BY Idle DEF OrmInit, StatementsSound
<1> QED
  BY <1>2, <1>3, <1>4 DEF OrmInit, FailureInv, ErrorsExplained

LEMMA FailureStep == FailureInv /\ KeysFound /\ Profiled /\ [OrmNext]_ormVars => FailureInv'
<1> SUFFICES ASSUME FailureInv, KeysFound, Profiled, [OrmNext]_ormVars PROVE FailureInv'
  OBVIOUS
<1>0. OrmTypes /\ Phases /\ models \subseteq db \cup dropped /\ StatementsSound /\ ErrorsExplained
  BY DEF FailureInv
<1>h. ASSUME UNCHANGED <<schema, models>> PROVE \A s : Sound(s)' <=> Sound(s)
  BY <1>h DEF Sound, Usable, HasClass, Excused
\* What main does with the rest left alone.
<1>1. ASSUME UNCHANGED <<schema, db, models, ctx, worker, failure, dropped>>, Phases'
      PROVE  FailureInv'
  BY <1>0, <1>1, <1>h DEF FailureInv, OrmTypes, StatementsSound, ErrorsExplained, Waiting
<1>2. CASE WaitForData \/ Introspect \/ Introspected \/ Prepare \/ ShutDown \/ Join
  <2>1. UNCHANGED <<schema, db, models, ctx, worker, failure, dropped>>
    BY <1>2 DEF WaitForData, Introspect, Introspected, Prepare, ShutDown, Join, environment, findings
  <2>2. Phases'
    BY <1>0, <1>2, <2>1 DEF WaitForData, Introspect, Introspected, Prepare, ShutDown, Join, Phases, Ended, Waiting
  <2> QED
    BY <1>1, <2>1, <2>2
<1>3. CASE Reflect
  <2>1. /\ phase = "reflect" /\ phase' = "prepare" /\ models' = db
        /\ UNCHANGED <<schema, db, ctx, worker, failure, dropped>>
    BY <1>3 DEF Reflect, environment
  <2>2. ctx = [op \in Operations |-> {}] /\ worker = [w \in Workers |-> Ended]
    BY <1>0, <2>1 DEF Phases
  <2>3. StatementsSound'
    BY Idle, <2>1, <2>2 DEF StatementsSound
  <2>4. OrmTypes' /\ Phases' /\ ErrorsExplained' /\ (models \subseteq db \cup dropped)'
    BY <1>0, <2>1, <2>2 DEF OrmTypes, Phases, ErrorsExplained, Ended, Waiting
  <2> QED
    BY <2>3, <2>4 DEF FailureInv
<1>4. CASE Launch
  <2>1. /\ phase' = "run" /\ ctx' = [op \in Operations |-> Statements(op)]
        /\ worker' = [w \in Workers |-> Waiting]
        /\ UNCHANGED <<schema, db, models, failure, dropped>>
    BY <1>4 DEF Launch, environment
  <2>2. models \subseteq Tables
    BY <1>0 DEF OrmTypes
  <2>3. \A op \in Operations : \A s \in Statements(op) : s \in Statement /\ Sound(s)
    BY <2>2, StatementsRight
  <2>4. OrmTypes'
    BY <1>0, Idle, <2>1, <2>3 DEF OrmTypes
  <2>5. Phases' /\ ErrorsExplained' /\ (models \subseteq db \cup dropped)'
    BY <1>0, <2>1 DEF Phases, ErrorsExplained, Waiting
  <2>6. \A s : Sound(s)' <=> Sound(s)
    BY <1>h, <2>1
  <2>7. StatementsSound'
    BY Idle, <2>1, <2>3, <2>6 DEF StatementsSound
  <2> QED
    BY <2>4, <2>5, <2>7 DEF FailureInv
<1>5. CASE Exit
  <2>1. /\ phase' = "done" /\ worker' = [w \in Workers |-> Ended]
        /\ UNCHANGED <<schema, db, models, ctx, failure, dropped>>
    BY <1>5 DEF Exit, environment, findings
  <2>2. OrmTypes' /\ Phases' /\ ErrorsExplained' /\ (models \subseteq db \cup dropped)'
    BY <1>0, Idle, <2>1 DEF OrmTypes, Phases, ErrorsExplained, Ended, Waiting
  <2>3. \A s : Sound(s)' <=> Sound(s)
    BY <1>h, <2>1
  <2>4. StatementsSound'
    BY <1>0, Idle, <2>1, <2>3 DEF StatementsSound
  <2> QED
    BY <2>2, <2>4 DEF FailureInv
<1>6. CASE Relaunch
  <2>1. /\ phase \in {"done", "failed"} /\ phase' = "wait" /\ models' = {}
        /\ ctx' = [op \in Operations |-> {}] /\ failure' = Waiting /\ dropped' = {}
        /\ UNCHANGED <<schema, db, worker>>
    BY <1>6 DEF Relaunch, environment
  <2>2. worker = [w \in Workers |-> Ended]
    BY <1>0, <2>1 DEF Phases
  <2>3. OrmTypes'
    BY <1>0, <2>1 DEF OrmTypes
  <2>4. Phases'
    BY <2>1, <2>2 DEF Phases, Ended, Waiting
  <2>5. StatementsSound'
    BY Idle, <2>1, <2>2 DEF StatementsSound
  <2> QED
    BY <2>1, <2>3, <2>4, <2>5 DEF FailureInv, ErrorsExplained, Waiting
<1>7. CASE Signal \/ Timer \/ Rows
  <2>1. UNCHANGED <<schema, db, models, ctx, worker, failure, dropped, phase>>
    BY <1>7 DEF Signal, Timer, Rows, environment, Main, findings
  <2>2. Phases'
    BY <1>0, <2>1 DEF Phases, Ended, Waiting
  <2> QED
    BY <1>1, <2>1, <2>2
<1>8. ASSUME NEW w \in Workers, NEW op \in Operations, Begin(w, op) PROVE FailureInv'
  <2>1. PICK q \in ctx[op] :
            worker' = [worker EXCEPT ![w] = [at |-> "running", writes |-> op \in Writes,
                                             tables |-> q.tables, wrong |-> q.wrong]]
    BY <1>8 DEF Begin
  <2> DEFINE o == [at |-> "running", writes |-> op \in Writes, tables |-> q.tables, wrong |-> q.wrong]
  <2>2. worker[w] = Waiting /\ UNCHANGED <<schema, db, models, ctx, failure, dropped, phase>>
    BY <1>8 DEF Begin, environment, Main, findings
  <2>3. phase \in {"run", "join"}
    <3>1. worker[w] # Ended
      BY Idle, <2>2
    <3> QED
      BY <1>0, <3>1 DEF Phases
  <2>4. q \in Statement /\ Sound(q)
    BY <1>0 DEF OrmTypes, StatementsSound
  <2>9. o \in States /\ Sound(o)
    BY <2>4 DEF Statement, States, Sound, Excused
  <2> HIDE DEF o
  <2>5. OrmTypes'
    <3>1. worker' = [worker EXCEPT ![w] = o]
      BY <2>1 DEF o
    <3> QED
      BY <1>0, <2>2, <2>9, <3>1 DEF OrmTypes
  <2>6. \A s : Sound(s)' <=> Sound(s)
    BY <1>h, <2>2
  <2>7. StatementsSound'
    <3>1. ASSUME NEW v \in Workers, worker'[v].at = "running" PROVE Sound(worker'[v])
      <4>1. CASE v = w
        <5>1. worker'[v] = o
          BY <1>0, <2>1, <4>1 DEF OrmTypes, o
        <5> QED
          BY <2>9, <5>1
      <4>2. CASE v # w
        <5>1. worker'[v] = worker[v]
          BY <1>0, <2>1, <4>2 DEF OrmTypes
        <5> QED
          BY <1>0, <3>1, <5>1 DEF StatementsSound
      <4> QED
        BY <4>1, <4>2
    <3> QED
      BY <1>0, <2>2, <2>6, <3>1 DEF StatementsSound
  <2>8. Phases' /\ ErrorsExplained' /\ (models \subseteq db \cup dropped)'
    BY <1>0, <2>2, <2>3 DEF Phases, ErrorsExplained, Waiting
  <2> QED
    BY <2>5, <2>7, <2>8 DEF FailureInv
<1>9. ASSUME NEW w \in Workers, NEW end \in {Waiting, Ended}, worker' = [worker EXCEPT ![w] = end],
             UNCHANGED <<schema, db, models, ctx, dropped, phase>>, worker[w] # Ended, ErrorsExplained'
      PROVE  FailureInv'
  <2>1. phase \in {"run", "join"}
    BY <1>0, <1>9 DEF Phases
  <2>2. OrmTypes' /\ Phases' /\ (models \subseteq db \cup dropped)'
    BY <1>0, Idle, <1>9, <2>1 DEF OrmTypes, Phases
  <2>3. \A s : Sound(s)' <=> Sound(s)
    BY <1>h, <1>9
  <2>4. StatementsSound'
    <3>1. ASSUME NEW v \in Workers, worker'[v].at = "running" PROVE worker'[v] = worker[v]
      BY <1>0, Idle, <1>9, <3>1 DEF OrmTypes
    <3> QED
      BY <1>0, <1>9, <2>3, <3>1 DEF StatementsSound
  <2> QED
    BY <1>9, <2>2, <2>4 DEF FailureInv
<1>10. ASSUME NEW w \in Workers, Finish(w) PROVE FailureInv'
  <2>1. /\ worker[w].at = "running" /\ worker' = [worker EXCEPT ![w] = Waiting]
        /\ UNCHANGED <<schema, db, models, ctx, dropped, phase>>
        /\ \/ (Raises(worker[w]) \/ MayRaise(worker[w])) /\ failure' = worker[w]
           \/ failure' = failure
    BY <1>10 DEF Finish, environment, Main, findings
  <2>2. worker[w] # Ended
    BY Idle, <2>1
  <2>3. ErrorsExplained'
    <3>1. CASE failure' = failure
      BY <1>0, <2>1, <3>1 DEF ErrorsExplained, Waiting
    <3>2. CASE MayRaise(worker[w]) /\ failure' = worker[w]
      BY <3>2 DEF MayRaise, ErrorsExplained
    <3>3. CASE Raises(worker[w]) /\ failure' = worker[w]
      <4>1. Sound(worker[w])
        BY <1>0, <2>1 DEF StatementsSound
      <4>2. CASE worker[w].wrong
        <5>1. Excused(worker[w]) /\ schema' = schema
          BY <2>1, <4>1, <4>2 DEF Sound
        <5> QED
          BY <3>3, <4>2, <5>1 DEF ErrorsExplained, Excused
      <4>3. CASE ~worker[w].wrong
        <5>1. ~(worker[w].tables \subseteq db)
          BY <3>3, <4>1, <4>3 DEF Raises, Usable, Sound
        <5>2. PICK t \in worker[w].tables : t \notin db
          BY <5>1
        <5>3. t \in dropped
          BY <1>0, <4>1, <5>2 DEF Usable, Sound
        <5> QED
          BY <2>1, <3>3, <5>2, <5>3 DEF ErrorsExplained
      <4> QED
        BY <4>2, <4>3
    <3> QED
      BY <2>1, <3>1, <3>2, <3>3
  <2> QED
    BY <1>9, <2>1, <2>2, <2>3
<1>11. ASSUME NEW w \in Workers, WorkerEnds(w) PROVE FailureInv'
  <2>1. /\ worker[w] = Waiting /\ worker' = [worker EXCEPT ![w] = Ended]
        /\ UNCHANGED <<schema, db, models, ctx, dropped, phase, failure>>
    BY <1>11 DEF WorkerEnds, environment, Main, findings
  <2>2. worker[w] # Ended
    BY Idle, <2>1
  <2>3. ErrorsExplained'
    BY <1>0, <2>1 DEF ErrorsExplained, Waiting
  <2> QED
    BY <1>9, <2>1, <2>2, <2>3
<1>12. ASSUME NEW t \in Tables, Drop(t) PROVE FailureInv'
  <2>1. /\ db' = db \ {t} /\ dropped' = IF models = {} THEN dropped ELSE dropped \cup {t}
        /\ UNCHANGED <<schema, models, ctx, worker, failure, phase>>
    BY <1>12 DEF Drop, environment, Main, findings
  <2>2. (models \subseteq db \cup dropped)' /\ dropped \subseteq dropped'
    BY <1>0, <2>1
  <2>3. OrmTypes' /\ Phases'
    BY <1>0, <2>1 DEF OrmTypes, Phases, Ended, Waiting
  <2>4. ErrorsExplained'
    BY <1>0, <2>1, <2>2 DEF ErrorsExplained, Waiting
  <2>5. StatementsSound'
    BY <1>0, <1>h, <2>1 DEF StatementsSound
  <2> QED
    BY <2>2, <2>3, <2>4, <2>5 DEF FailureInv
<1>13. CASE UNCHANGED ormVars
  <2>1. UNCHANGED <<schema, db, models, ctx, worker, failure, dropped, phase>>
    BY <1>13 DEF ormVars, environment, findings
  <2>2. Phases'
    BY <1>0, <2>1 DEF Phases, Ended, Waiting
  <2> QED
    BY <1>1, <2>1, <2>2
<1> QED
  BY <1>2, <1>3, <1>4, <1>5, <1>6, <1>7, <1>8, <1>10, <1>11, <1>12, <1>13 DEF OrmNext, MainStep

\* Whatever the passes found and wherever a migration strikes: an operation that only reads
\* fails on no table but one dropped after the first reflection, while the process was up,
\* and asks what is not to be had of no tables but two that refer to each other, or one
\* that has an array among its numbers (main.py:142-196, 199-498, models.py:51-97).
THEOREM FailuresExplained == OrmSpec => []ErrorsExplained
<1>1. FailureInv => ErrorsExplained
  BY DEF FailureInv
<1>2. ChainsInv => Profiled
  BY DEF ChainsInv
<1> QED
  BY FailureInit, FailureStep, KeysInit, KeysStep, ChainsInit, ChainsStep, <1>1, <1>2, PTL DEF OrmSpec

\* What main, the workers and the database may come to hold.
THEOREM OrmTyped == OrmSpec => [](OrmTypes /\ Phases /\ Profiled)
<1>1. FailureInv => OrmTypes /\ Phases
  BY DEF FailureInv
<1>2. ChainsInv => Profiled
  BY DEF ChainsInv
<1> QED
  BY FailureInit, FailureStep, KeysInit, KeysStep, ChainsInit, ChainsStep, <1>1, <1>2, PTL DEF OrmSpec

=============================================================================
