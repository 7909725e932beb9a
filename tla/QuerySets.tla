------------------------------- MODULE QuerySets -------------------------------
(***************************************************************************)
(* The control plane's query sets: one SQLite connection, shared under one *)
(* lock by every request, so that each operation on it is one step.        *)
(*                                                                         *)
(* The connection opens a transaction at its first INSERT or DELETE and    *)
(* only a commit closes it.  An import that raises half-way (a query that  *)
(* is null, a file that is not UTF-8) releases the lock and leaves its     *)
(* transaction open: what it has inserted is seen by whoever uses the      *)
(* connection next, is committed by the next commit whatever it is for,    *)
(* and is lost when the process ends before.                               *)
(*                                                                         *)
(* Queries are counted, not told apart.  Bounds: every import takes a new  *)
(* id of SetIds, and a file or a request has up to MaxRows queries.        *)
(***************************************************************************)
EXTENDS Naturals, Functions

CONSTANTS
    SetIds,     \* the ids uuid4 gives
    Handlers,   \* threads that may serve /queries/reload at the same time
    MaxRows,    \* queries in a file or a request
    NoSet       \* nothing is replayed

ASSUME QuerySetsAssumption == MaxRows \in Nat \ {0} /\ NoSet \notin SetIds

File == {"absent", "good", "bad"}
Origin == {"startup sql", "startup json", "reload", "request"}
Row == [query_count : 0 .. MaxRows, stored : 0 .. MaxRows, origin : Origin]

VARIABLES
    disk,       \* per set: its row and its queries, as committed
    view,       \* the same, as the connection sees them
    files,      \* what queries/ holds: *.sql and queries.json
    boot,       \* where the startup stands; requests are served when it is up
    reload,     \* per handler: about to import queries.json, or idle
    playing,    \* the set that is replayed
    results,    \* the sets with rows in replay_results
    answered,   \* the sets whose import has answered (a history)
    deleted     \* those whose deletion has (a history)

vars == <<disk, view, files, boot, reload, playing, results, answered, deleted>>
store == <<disk, view, answered, deleted>>

Nothing == [s \in {} |-> [query_count |-> 0, stored |-> 0, origin |-> "request"]]

Init ==
    /\ disk = Nothing
    /\ view = Nothing
    /\ files \in [{"sql", "json"} -> File]
    /\ boot = "check"
    /\ reload = [h \in Handlers |-> "idle"]
    /\ playing = NoSet
    /\ results = {}
    /\ answered = {}
    /\ deleted = {}

With(f, s, row) == [x \in DOMAIN f \cup {s} |-> IF x = s THEN row ELSE f[x]]
Fresh == SetIds \ (DOMAIN view \cup answered \cup deleted \cup results)

-----------------------------------------------------------------------------
(* The imports.  All three insert the set with a count of zero, then its     *)
(* queries, skipping empty ones, comments and utility statements, and set    *)
(* the count and commit last.                                                *)

\* Mutant: the count is updated, but not committed.
ImportUncommitted(origin) ==
    \E s \in Fresh, n \in 0 .. MaxRows :
        /\ view' = With(view, s, [query_count |-> n, stored |-> n, origin |-> origin])
        /\ answered' = answered \cup {s}
        /\ UNCHANGED <<disk, deleted>>

Import(origin) ==
    \E s \in Fresh, n \in 0 .. MaxRows :
        /\ view' = With(view, s, [query_count |-> n, stored |-> n, origin |-> origin])
        /\ disk' = view'
        /\ answered' = answered \cup {s}
        /\ UNCHANGED deleted

\* A query or a file raises: the set and the queries before it stay in the open
\* transaction.
ImportRaises(origin) ==
    \E s \in Fresh, n \in 0 .. MaxRows - 1 :
        /\ view' = With(view, s, [query_count |-> 0, stored |-> n, origin |-> origin])
        /\ UNCHANGED <<disk, answered, deleted>>

ImportStats == Import("request") \/ ImportRaises("request")
ImportText == Import("request") \/ ImportRaises("request")

ImportFiles(file, origin) ==
    \/ file # "bad" /\ Import(origin)
    \/ file = "bad" /\ ImportRaises(origin)

\* queries.json: when it is no JSON, nothing has been inserted yet.
ImportJson(origin) ==
    \/ files["json"] = "good" /\ Import(origin)
    \/ files["json"] = "bad" /\ (ImportRaises(origin) \/ UNCHANGED store)

ApiImport ==
    /\ boot = "up"
    /\ \/ ImportStats \/ ImportText
       \/ \E file \in File : ImportFiles(file, "request")
    /\ UNCHANGED <<files, boot, reload, playing, results>>

\* The deletion of a set, of one that somebody else has deleted too.
DeleteSet(s) ==
    /\ view' = Restrict(view, DOMAIN view \ {s})
    /\ disk' = view'
    /\ deleted' = deleted \cup {s}
    /\ UNCHANGED answered

ApiDelete ==
    /\ boot = "up"
    /\ \E s \in DOMAIN view \cup deleted : DeleteSet(s)
    /\ UNCHANGED <<files, boot, reload, playing, results>>

-----------------------------------------------------------------------------
(* Reload: two imports, with the lock free between them.                     *)

ReloadSql(h) ==
    /\ boot = "up" /\ reload[h] = "idle"
    /\ \/ files["sql"] = "absent" /\ reload' = [reload EXCEPT ![h] = "json"] /\ UNCHANGED store
       \/ files["sql"] = "good" /\ reload' = [reload EXCEPT ![h] = "json"] /\ ImportFiles(files["sql"], "reload")
       \/ files["sql"] = "bad" /\ UNCHANGED reload /\ ImportFiles(files["sql"], "reload")
    /\ UNCHANGED <<files, boot, playing, results>>

\* What it raises is caught and answered.
ReloadJson(h) ==
    /\ reload[h] = "json"
    /\ reload' = [reload EXCEPT ![h] = "idle"]
    /\ \/ files["json"] = "absent" /\ UNCHANGED store
       \/ files["json"] # "absent" /\ ImportJson("reload")
    /\ UNCHANGED <<files, boot, playing, results>>

-----------------------------------------------------------------------------
(* The replay: it takes the queries of a set that has any when it starts.    *)

StartReplay ==
    /\ boot = "up" /\ playing = NoSet
    /\ \E s \in DOMAIN view : view[s].stored > 0 /\ playing' = s
    /\ UNCHANGED <<store, files, boot, reload, results>>

\* Mutant: the results are saved on a connection of their own.
StopReplayElsewhere ==
    /\ playing # NoSet
    /\ results' = results \cup {playing}
    /\ playing' = NoSet
    /\ UNCHANGED <<store, files, boot, reload>>

\* Its stop saves the results and commits, what others left open included.
StopReplay ==
    /\ playing # NoSet
    /\ results' = results \cup {playing}
    /\ playing' = NoSet
    /\ disk' = view
    /\ UNCHANGED <<view, answered, deleted, files, boot, reload>>

-----------------------------------------------------------------------------
(* The startup, before the first request is served, and the end of the       *)
(* process, at any time.                                                     *)

\* Mutant: the sets that are there are not looked at.
BootCheckAlways ==
    /\ boot = "check"
    /\ boot' = "sql"
    /\ UNCHANGED <<store, files, reload, playing, results>>

BootCheck ==
    /\ boot = "check"
    /\ boot' = IF DOMAIN view = {} THEN "sql" ELSE "up"
    /\ UNCHANGED <<store, files, reload, playing, results>>

\* An import that raises ends the loading, and is logged.
BootSql ==
    /\ boot = "sql"
    /\ \/ files["sql"] = "absent" /\ boot' = "json" /\ UNCHANGED store
       \/ files["sql"] = "good" /\ boot' = "json" /\ ImportFiles(files["sql"], "startup sql")
       \/ files["sql"] = "bad" /\ boot' = "up" /\ ImportFiles(files["sql"], "startup sql")
    /\ UNCHANGED <<files, reload, playing, results>>

BootJson ==
    /\ boot = "json"
    /\ boot' = "up"
    /\ \/ files["json"] = "absent" /\ UNCHANGED store
       \/ files["json"] # "absent" /\ ImportJson("startup json")
    /\ UNCHANGED <<files, reload, playing, results>>

\* What is not committed is lost; the process starts again.
Restart ==
    /\ view' = disk
    /\ boot' = "check"
    /\ reload' = [h \in Handlers |-> "idle"]
    /\ playing' = NoSet
    /\ UNCHANGED <<disk, files, results, answered, deleted>>

\* Somebody adds, edits or removes a file of queries/.
EditFile ==
    /\ \E k \in {"sql", "json"}, to \in File : files' = [files EXCEPT ![k] = to]
    /\ UNCHANGED <<store, boot, reload, playing, results>>

Next ==
    \/ ApiImport \/ ApiDelete
    \/ \E h \in Handlers : ReloadSql(h) \/ ReloadJson(h)
    \/ StartReplay \/ StopReplay
    \/ BootCheck \/ BootSql \/ BootJson \/ Restart
    \/ EditFile

Spec == Init /\ [][Next]_vars

-----------------------------------------------------------------------------
(* Properties *)

\* The tables, the files and the handlers keep their shape; a set that says how
\* many queries it has, has as many.
TypeOK ==
    /\ DOMAIN disk \subseteq SetIds /\ disk \in [DOMAIN disk -> Row]
    /\ DOMAIN view \subseteq SetIds /\ view \in [DOMAIN view -> Row]
    /\ \A s \in DOMAIN view : view[s].query_count \in {0, view[s].stored}
    /\ files \in [{"sql", "json"} -> File]
    /\ boot \in {"check", "sql", "json", "up"}
    /\ reload \in [Handlers -> {"idle", "json"}]
    /\ playing \in SetIds \cup {NoSet}
    /\ results \subseteq SetIds /\ answered \subseteq SetIds /\ deleted \subseteq SetIds

\* What a call has answered outlives every restart, whatever other imports left
\* open before or after it: a set is there, whole, until it is deleted, and
\* does not come back then.
AnswersDurable ==
    /\ \A s \in answered \ deleted :
         s \in DOMAIN disk /\ disk[s].query_count = disk[s].stored
    /\ deleted \cap DOMAIN disk = {}

\* Saved results are of a set that is stored or has been deleted, although the
\* replay may have been of queries that nobody had committed.
ResultsTraceable == results \subseteq DOMAIN disk \cup deleted

\* The startup loads each kind of file once, however often the process starts,
\* dies while it loads, or fails to load: the sets of an earlier startup are
\* not imported a second time beside it.
StartupLoadsOnce ==
    \A origin \in {"startup sql", "startup json"} :
        \A s, t \in DOMAIN view :
            view[s].origin = origin /\ view[t].origin = origin => s = t
=============================================================================
