---------------------------- MODULE QuerySetsProofs ----------------------------
(***************************************************************************)
(* What holds of the query sets for any ids, handlers and numbers of       *)
(* queries: types, what was answered is durable, results refer to queries  *)
(* that are stored or were deleted, and the startup loads the directory    *)
(* once.  The argument rests on two facts: what is committed is a part of  *)
(* what the connection sees, and nobody but the startup itself uses the    *)
(* store before requests are served.                                       *)
(***************************************************************************)
EXTENDS QuerySets, TLAPS

-----------------------------------------------------------------------------
(* The inductive invariant *)

DiskInView == \A s \in DOMAIN disk : s \in DOMAIN view /\ view[s] = disk[s]
DeletedUnseen == deleted \cap DOMAIN view = {}

StoreType ==
    /\ DOMAIN disk \subseteq SetIds /\ disk \in [DOMAIN disk -> Row]
    /\ DOMAIN view \subseteq SetIds /\ view \in [DOMAIN view -> Row]
    /\ \A s \in DOMAIN view : view[s].query_count \in {0, view[s].stored}
    /\ answered \subseteq SetIds /\ deleted \subseteq SetIds

\* The store: what is committed and what is seen.
StoreInv ==
    /\ StoreType
    /\ DiskInView
    /\ DeletedUnseen
    /\ AnswersDurable

\* What is replayed can be traced as well: it is seen, or has been deleted.
PlayingTraceable == playing # NoSet => playing \in DOMAIN view \cup deleted

\* Before requests are served, no reload and no replay is under way, and the store
\* is as empty as the startup found it.
BootAlone ==
    boot # "up" => reload = [h \in Handlers |-> "idle"] /\ playing = NoSet
BootLoads ==
    /\ boot = "sql" => DOMAIN view = {}
    /\ boot = "json" => \A s \in DOMAIN view : view[s].origin = "startup sql"

IInv ==
    /\ TypeOK
    /\ StoreInv
    /\ ResultsTraceable
    /\ PlayingTraceable
    /\ BootAlone
    /\ BootLoads
    /\ StartupLoadsOnce

\* Initially the store is empty and the process starts.
LEMMA InitIInv == Init => IInv
<1> SUFFICES ASSUME Init PROVE IInv
  OBVIOUS
<1>1. DOMAIN disk = {} /\ DOMAIN view = {} /\ disk = view
  BY DEF Init, Nothing
<1>2. disk \in [DOMAIN disk -> Row] /\ view \in [DOMAIN view -> Row]
  BY DEF Init, Nothing
<1>3. StoreType
  BY <1>1, <1>2 DEF StoreType, Init
<1>4. StoreInv
  BY <1>1, <1>3 DEF StoreInv, DiskInView, DeletedUnseen, AnswersDurable, Init
<1>5. TypeOK
  BY <1>3 DEF TypeOK, StoreType, Init
<1> QED
  BY <1>1, <1>4, <1>5
    DEF IInv, Init, ResultsTraceable, PlayingTraceable, BootAlone, BootLoads, StartupLoadsOnce

-----------------------------------------------------------------------------
(* What the operations do to the store *)

\* An import adds one set, of the given origin, to what is seen, leaves the sets that
\* are seen as they are, and takes nothing off what is committed.
Adds(origin) ==
    /\ \E s \in SetIds \ DOMAIN view :
          /\ DOMAIN view' = DOMAIN view \cup {s}
          /\ view'[s].origin = origin
          /\ \A t \in DOMAIN view : view'[t] = view[t]
    /\ DOMAIN disk \subseteq DOMAIN disk'
    /\ deleted' = deleted

LEMMA ImportAdds ==
    ASSUME StoreInv, NEW origin \in Origin, Import(origin)
    PROVE  StoreInv' /\ Adds(origin)
<1> USE DEF StoreInv
<1>1. PICK s \in Fresh, n \in 0 .. MaxRows :
        /\ view' = With(view, s, [query_count |-> n, stored |-> n, origin |-> origin])
        /\ disk' = view'
        /\ answered' = answered \cup {s}
        /\ UNCHANGED deleted
  BY DEF Import
<1> DEFINE row == [query_count |-> n, stored |-> n, origin |-> origin]
<1>2. /\ s \in SetIds /\ s \notin DOMAIN view /\ s \notin deleted
      /\ row \in Row /\ row.origin = origin
      /\ row.query_count = n /\ row.stored = n
  BY DEF Fresh, Row
<1>3. view' = With(view, s, row)
  BY <1>1
<1> HIDE DEF row
<1>4. /\ DOMAIN view' = DOMAIN view \cup {s}
      /\ view' \in [DOMAIN view' -> Row]
      /\ view'[s] = row
      /\ \A t \in DOMAIN view : view'[t] = view[t]
  BY <1>2, <1>3 DEF StoreType, With
<1>5. StoreType'
  BY <1>1, <1>2, <1>4 DEF StoreType
<1>6. DiskInView' /\ DeletedUnseen'
  BY <1>1, <1>2, <1>4 DEF DiskInView, DeletedUnseen
<1>7. AnswersDurable'
  BY <1>1, <1>2, <1>4 DEF AnswersDurable, DiskInView, DeletedUnseen
<1>8. Adds(origin)
  BY <1>1, <1>2, <1>4 DEF Adds, DiskInView
<1> QED
  BY <1>5, <1>6, <1>7, <1>8

LEMMA ImportRaisesAdds ==
    ASSUME StoreInv, NEW origin \in Origin, ImportRaises(origin)
    PROVE  StoreInv' /\ Adds(origin)
<1> USE DEF StoreInv
<1>1. PICK s \in Fresh, n \in 0 .. MaxRows - 1 :
        /\ view' = With(view, s, [query_count |-> 0, stored |-> n, origin |-> origin])
        /\ UNCHANGED <<disk, answered, deleted>>
  BY DEF ImportRaises
<1> DEFINE row == [query_count |-> 0, stored |-> n, origin |-> origin]
<1>2. /\ s \in SetIds /\ s \notin DOMAIN view /\ s \notin deleted
      /\ row \in Row /\ row.origin = origin /\ row.query_count = 0
  BY QuerySetsAssumption DEF Fresh, Row
<1>3. view' = With(view, s, row)
  BY <1>1
<1> HIDE DEF row
<1>4. /\ DOMAIN view' = DOMAIN view \cup {s}
      /\ view' \in [DOMAIN view' -> Row]
      /\ view'[s] = row
      /\ \A t \in DOMAIN view : view'[t] = view[t]
  BY <1>2, <1>3 DEF StoreType, With
<1>5. StoreType'
  BY <1>1, <1>2, <1>4 DEF StoreType
<1>6. DiskInView' /\ DeletedUnseen' /\ AnswersDurable'
  BY <1>1, <1>2, <1>4 DEF DiskInView, DeletedUnseen, AnswersDurable
<1>7. Adds(origin)
  BY <1>1, <1>2, <1>4 DEF Adds
<1> QED
  BY <1>5, <1>6, <1>7

\* Any of the imports, of files too: a set is added, or nothing is touched.
LEMMA ImportsAdd ==
    ASSUME StoreInv, NEW origin \in Origin, NEW file \in File,
           ImportFiles(file, origin) \/ ImportJson(origin)
    PROVE  StoreInv' /\ (Adds(origin) \/ UNCHANGED store)
<1>1. CASE Import(origin) \/ ImportRaises(origin)
  BY <1>1, ImportAdds, ImportRaisesAdds
<1>2. CASE UNCHANGED store
  BY <1>2 DEF store, StoreInv, StoreType, DiskInView, DeletedUnseen, AnswersDurable
<1> QED
  BY <1>1, <1>2 DEF ImportFiles, ImportJson

\* A deletion commits, and takes one set off what is seen.
LEMMA DeleteRemoves ==
    ASSUME StoreInv, NEW s \in DOMAIN view \cup deleted, DeleteSet(s)
    PROVE  /\ StoreInv'
           /\ DOMAIN view' = DOMAIN view \ {s} /\ disk' = view'
           /\ \A t \in DOMAIN view' : view'[t] = view[t]
           /\ deleted' = deleted \cup {s}
<1> USE DEF StoreInv
<1>1. /\ disk' = view' /\ deleted' = deleted \cup {s} /\ answered' = answered
      /\ view' = [t \in DOMAIN view \ {s} |-> view[t]]
  BY DEF DeleteSet, Restrict
<1>2. /\ DOMAIN view' = DOMAIN view \ {s}
      /\ view' \in [DOMAIN view' -> Row]
      /\ \A t \in DOMAIN view' : view'[t] = view[t]
  BY <1>1 DEF StoreType
<1>3. StoreType'
  BY <1>1, <1>2 DEF StoreType
<1>4. DiskInView' /\ DeletedUnseen'
  BY <1>1, <1>2 DEF DiskInView, DeletedUnseen
<1>5. AnswersDurable'
  BY <1>1, <1>2 DEF AnswersDurable, DiskInView, DeletedUnseen
<1> QED
  BY <1>1, <1>2, <1>3, <1>4, <1>5

-----------------------------------------------------------------------------
(* The steps *)

\* What an import of a set that no startup makes leaves of the rest.
LEMMA AddsKeeps ==
    ASSUME IInv, StoreInv', NEW origin \in {"reload", "request"},
           Adds(origin) \/ UNCHANGED store, boot = "up",
           UNCHANGED <<boot, playing, results>>
    PROVE  /\ ResultsTraceable' /\ PlayingTraceable'
           /\ BootAlone' /\ BootLoads' /\ StartupLoadsOnce'
<1> USE DEF IInv
<1>1. CASE UNCHANGED store
  BY <1>1 DEF store, ResultsTraceable, PlayingTraceable, BootAlone, BootLoads, StartupLoadsOnce
<1>2. CASE Adds(origin)
  <2>1. ResultsTraceable' /\ PlayingTraceable'
    BY <1>2 DEF Adds, ResultsTraceable, PlayingTraceable
  <2>2. BootAlone' /\ BootLoads'
    BY DEF BootAlone, BootLoads
  <2>3. StartupLoadsOnce'
    BY <1>2 DEF Adds, StartupLoadsOnce
  <2> QED
    BY <2>1, <2>2, <2>3
<1> QED
  BY <1>1, <1>2

LEMMA ApiImportKeeps ==
    ASSUME IInv, ApiImport PROVE IInv'
<1> USE DEF IInv
<1>1. StoreInv' /\ (Adds("request") \/ UNCHANGED store)
  <2>1. CASE ImportStats \/ ImportText
    BY <2>1, ImportAdds, ImportRaisesAdds DEF ImportStats, ImportText, Origin
  <2>2. CASE \E file \in File : ImportFiles(file, "request")
    BY <2>2, ImportsAdd DEF Origin
  <2> QED
    BY <2>1, <2>2 DEF ApiImport
<1>2. /\ ResultsTraceable' /\ PlayingTraceable'
      /\ BootAlone' /\ BootLoads' /\ StartupLoadsOnce'
  BY <1>1, AddsKeeps DEF ApiImport
<1>3. TypeOK'
  BY <1>1 DEF TypeOK, StoreInv, StoreType, ApiImport
<1> QED
  BY <1>1, <1>2, <1>3

LEMMA ApiDeleteKeeps ==
    ASSUME IInv, ApiDelete PROVE IInv'
<1> USE DEF IInv
<1>1. PICK s \in DOMAIN view \cup deleted : DeleteSet(s)
  BY DEF ApiDelete
<1>2. /\ StoreInv'
      /\ DOMAIN view' = DOMAIN view \ {s} /\ disk' = view'
      /\ \A t \in DOMAIN view' : view'[t] = view[t]
      /\ deleted' = deleted \cup {s}
  BY <1>1, DeleteRemoves
<1>3. ResultsTraceable'
  BY <1>2 DEF ApiDelete, ResultsTraceable, StoreInv, DiskInView
<1>4. PlayingTraceable'
  BY <1>2 DEF ApiDelete, PlayingTraceable
<1>5. BootAlone' /\ BootLoads'
  BY DEF ApiDelete, BootAlone, BootLoads
<1>6. StartupLoadsOnce'
  BY <1>2 DEF StartupLoadsOnce
<1>7. TypeOK'
  BY <1>2 DEF TypeOK, StoreInv, StoreType, ApiDelete
<1> QED
  BY <1>2, <1>3, <1>4, <1>5, <1>6, <1>7

LEMMA ReloadKeeps ==
    ASSUME IInv, NEW h \in Handlers, ReloadSql(h) \/ ReloadJson(h) PROVE IInv'
<1> USE DEF IInv
<1>1. boot = "up"
  BY DEF ReloadSql, ReloadJson, BootAlone
<1>2. files["sql"] \in File
  BY DEF TypeOK
<1>3. StoreInv' /\ (Adds("reload") \/ UNCHANGED store)
  <2>1. CASE UNCHANGED store
    BY <2>1 DEF store, StoreInv, StoreType, DiskInView, DeletedUnseen, AnswersDurable
  <2>2. CASE ImportFiles(files["sql"], "reload") \/ ImportJson("reload")
    BY <1>2, <2>2, ImportsAdd DEF Origin
  <2> QED
    BY <2>1, <2>2 DEF ReloadSql, ReloadJson
<1>4. UNCHANGED <<files, boot, playing, results>>
  BY DEF ReloadSql, ReloadJson
<1>5. /\ ResultsTraceable' /\ PlayingTraceable'
      /\ BootAlone' /\ BootLoads' /\ StartupLoadsOnce'
  BY <1>1, <1>3, <1>4, AddsKeeps
<1>6. reload' \in [Handlers -> {"idle", "json"}]
  BY DEF ReloadSql, ReloadJson, TypeOK
<1>7. TypeOK'
  BY <1>3, <1>4, <1>6 DEF TypeOK, StoreInv, StoreType
<1> QED
  BY <1>3, <1>5, <1>7

\* The replay: its stop commits what is seen, the set that is replayed included.
LEMMA ReplayKeeps ==
    ASSUME IInv, StartReplay \/ StopReplay PROVE IInv'
<1> USE DEF IInv
<1>1. CASE StartReplay
  <2>1. playing' \in DOMAIN view /\ boot = "up"
    BY <1>1 DEF StartReplay
  <2>2. UNCHANGED <<disk, view, answered, deleted, files, boot, reload, results>>
    BY <1>1 DEF StartReplay, store
  <2>3. TypeOK'
    BY <2>1, <2>2 DEF TypeOK
  <2>4. StoreInv'
    BY <2>2 DEF StoreInv, StoreType, DiskInView, DeletedUnseen, AnswersDurable
  <2> QED
    BY <2>1, <2>2, <2>3, <2>4
      DEF ResultsTraceable, PlayingTraceable, BootAlone, BootLoads, StartupLoadsOnce
<1>2. CASE StopReplay
  <2>1. /\ playing # NoSet /\ results' = results \cup {playing} /\ playing' = NoSet
        /\ disk' = view
        /\ UNCHANGED <<view, answered, deleted, files, boot, reload>>
    BY <1>2 DEF StopReplay
  <2>2. TypeOK'
    BY <2>1 DEF TypeOK
  <2>3. StoreInv'
    BY <2>1 DEF StoreInv, StoreType, DiskInView, DeletedUnseen, AnswersDurable
  <2>4. ResultsTraceable' /\ PlayingTraceable'
    BY <2>1 DEF ResultsTraceable, PlayingTraceable, StoreInv, DiskInView
  <2>5. BootAlone' /\ BootLoads' /\ StartupLoadsOnce'
    BY <2>1 DEF BootAlone, BootLoads, StartupLoadsOnce
  <2> QED
    BY <2>2, <2>3, <2>4, <2>5
<1> QED
  BY <1>1, <1>2

\* The startup looks at an empty store, or leaves it alone.
LEMMA BootCheckKeeps ==
    ASSUME IInv, BootCheck PROVE IInv'
<1> USE DEF IInv
<1>1. UNCHANGED <<disk, view, answered, deleted, files, reload, playing, results>>
  BY DEF BootCheck, store
<1>2. boot' \in {"sql", "up"} /\ (boot' = "sql" => DOMAIN view = {})
  BY DEF BootCheck
<1>3. TypeOK'
  BY <1>1, <1>2 DEF TypeOK
<1>4. StoreInv'
  BY <1>1 DEF StoreInv, StoreType, DiskInView, DeletedUnseen, AnswersDurable
<1>5. BootAlone' /\ BootLoads'
  BY <1>1, <1>2 DEF BootCheck, BootAlone, BootLoads
<1> QED
  BY <1>1, <1>3, <1>4, <1>5 DEF ResultsTraceable, PlayingTraceable, StartupLoadsOnce

LEMMA BootImportKeeps ==
    ASSUME IInv, BootSql \/ BootJson PROVE IInv'
<1> USE DEF IInv
<1>1. UNCHANGED <<files, reload, playing, results>> /\ boot' \in {"json", "up"}
  BY DEF BootSql, BootJson
<1>2. files["sql"] \in File
  BY DEF TypeOK
<1>3. PICK origin \in {"startup sql", "startup json"} :
        /\ boot = "sql" => origin = "startup sql"
        /\ boot = "json" => origin = "startup json"
  BY DEF BootSql, BootJson
<1>4. StoreInv' /\ (Adds(origin) \/ UNCHANGED store)
  <2>1. CASE UNCHANGED store
    BY <2>1 DEF store, StoreInv, StoreType, DiskInView, DeletedUnseen, AnswersDurable
  <2>2. CASE ImportFiles(files["sql"], origin) \/ ImportJson(origin)
    BY <1>2, <2>2, ImportsAdd DEF Origin
  <2> QED
    BY <1>3, <2>1, <2>2 DEF BootSql, BootJson
<1>5. TypeOK'
  BY <1>1, <1>4 DEF TypeOK, StoreInv, StoreType
<1>6. ResultsTraceable' /\ PlayingTraceable'
  <2>1. CASE Adds(origin)
    BY <1>1, <2>1 DEF Adds, ResultsTraceable, PlayingTraceable
  <2>2. CASE UNCHANGED store
    BY <1>1, <2>2 DEF store, ResultsTraceable, PlayingTraceable
  <2> QED
    BY <1>4, <2>1, <2>2
<1>7. BootAlone'
  BY <1>1 DEF BootSql, BootJson, BootAlone
<1>8. BootLoads' /\ StartupLoadsOnce'
  <2>1. CASE Adds(origin)
    BY <1>1, <1>3, <2>1 DEF BootSql, BootJson, Adds, BootLoads, StartupLoadsOnce
  <2>2. CASE UNCHANGED store
    BY <1>1, <2>2 DEF BootSql, BootJson, store, BootLoads, StartupLoadsOnce
  <2> QED
    BY <1>4, <2>1, <2>2
<1> QED
  BY <1>4, <1>5, <1>6, <1>7, <1>8

\* What nobody committed is gone; what is left had been seen.
LEMMA RestartKeeps ==
    ASSUME IInv, Restart PROVE IInv'
<1> USE DEF IInv
<1>1. /\ view' = disk /\ boot' = "check" /\ playing' = NoSet
      /\ reload' = [h \in Handlers |-> "idle"]
      /\ UNCHANGED <<disk, files, results, answered, deleted>>
  BY DEF Restart
<1>2. /\ DOMAIN disk \subseteq DOMAIN view
      /\ \A s \in DOMAIN disk : view[s] = disk[s]
  BY DEF StoreInv, DiskInView
<1>3. TypeOK'
  BY <1>1, <1>2 DEF TypeOK
<1>4. StoreInv'
  BY <1>1, <1>2 DEF StoreInv, StoreType, DiskInView, DeletedUnseen, AnswersDurable
<1>5. ResultsTraceable' /\ PlayingTraceable' /\ BootAlone' /\ BootLoads'
  BY <1>1 DEF ResultsTraceable, PlayingTraceable, BootAlone, BootLoads
<1>6. StartupLoadsOnce'
  BY <1>1, <1>2 DEF StartupLoadsOnce
<1> QED
  BY <1>3, <1>4, <1>5, <1>6

LEMMA EditFileKeeps ==
    ASSUME IInv, EditFile PROVE IInv'
<1> USE DEF IInv
<1>1. UNCHANGED <<disk, view, answered, deleted, boot, reload, playing, results>>
  BY DEF EditFile, store
<1>2. files' \in [{"sql", "json"} -> File]
  BY DEF EditFile, TypeOK
<1>3. TypeOK'
  BY <1>1, <1>2 DEF TypeOK
<1>4. StoreInv'
  BY <1>1 DEF StoreInv, StoreType, DiskInView, DeletedUnseen, AnswersDurable
<1> QED
  BY <1>1, <1>3, <1>4
    DEF ResultsTraceable, PlayingTraceable, BootAlone, BootLoads, StartupLoadsOnce

LEMMA NextKeepsIInv == IInv /\ [Next]_vars => IInv'
<1> SUFFICES ASSUME IInv, [Next]_vars PROVE IInv'
  OBVIOUS
<1>1. CASE UNCHANGED vars
  BY ZenonT(40), <1>1 DEF vars, IInv, TypeOK, StoreInv, StoreType, DiskInView, DeletedUnseen, AnswersDurable,
         ResultsTraceable, PlayingTraceable, BootAlone, BootLoads, StartupLoadsOnce
<1>2. CASE Next
  <2>1. CASE ApiImport \/ ApiDelete
    BY <2>1, ApiImportKeeps, ApiDeleteKeeps
  <2>2. CASE \E h \in Handlers : ReloadSql(h) \/ ReloadJson(h)
    BY <2>2, ReloadKeeps
  <2>3. CASE StartReplay \/ StopReplay
    BY <2>3, ReplayKeeps
  <2>4. CASE BootCheck \/ BootSql \/ BootJson \/ Restart
    BY <2>4, BootCheckKeeps, BootImportKeeps, RestartKeeps
  <2>5. CASE EditFile
    BY <2>5, EditFileKeeps
  <2> QED
    BY <1>2, <2>1, <2>2, <2>3, <2>4, <2>5 DEF Next
<1> QED
  BY <1>1, <1>2

-----------------------------------------------------------------------------
(* The theorems *)

LEMMA Invariance == Spec => []IInv
<1>1. Init => IInv
  BY InitIInv
<1>2. IInv /\ [Next]_vars => IInv'
  BY NextKeepsIInv
<1> QED
  BY <1>1, <1>2, PTL DEF Spec

\* The tables, the files and the handlers keep their shape, and a set never counts
\* queries it does not have.
THEOREM TypeCorrect == Spec => []TypeOK
<1>1. IInv => TypeOK
  BY DEF IInv
<1> QED
  BY <1>1, Invariance, PTL

\* What a call has answered outlives every restart and every import that raises
\* (query_replay.py:94-222): for any number of sets, handlers and queries.
THEOREM Durable == Spec => []AnswersDurable
<1>1. IInv => AnswersDurable
  BY DEF IInv, StoreInv
<1> QED
  BY <1>1, Invariance, PTL

\* The results of a stopped replay are of a set that is stored or was deleted
\* (query_replay.py:331-348), whether or not its queries were committed when it began.
THEOREM Traceable == Spec => []ResultsTraceable
<1>1. IInv => ResultsTraceable
  BY DEF IInv
<1> QED
  BY <1>1, Invariance, PTL

\* The startup (main.py:62-84) loads each kind of file once, wherever earlier ones died.
THEOREM LoadsOnce == Spec => []StartupLoadsOnce
<1>1. IInv => StartupLoadsOnce
  BY DEF IInv
<1> QED
  BY <1>1, Invariance, PTL

=============================================================================
