------------------------------ MODULE TruthCheck ------------------------------
(***************************************************************************)
(* The truth service: it compares what a collector reports of a database   *)
(* with what the database says itself.  The collector, another program,    *)
(* appends one JSON line per sample to the newest of its files, in writes  *)
(* that need not end where a line does, and starts a new file from time to *)
(* time or when it is restarted.  The reader lists the files and then reads *)
(* the last line of one after the other.                                   *)
(*                                                                         *)
(* Of a file the model keeps the last line that is complete and the line   *)
(* being written.  The collector is honest: a sample holds what the        *)
(* database held.  The counters are blks_hit and blks_read, and size stands *)
(* for the gauges.                                                         *)
(*                                                                         *)
(* Bounds: MaxTime, MaxChanges to the database, MaxSamples, MaxFiles and    *)
(* MaxChecks.                                                              *)
(***************************************************************************)
EXTENDS Integers, Sequences

CONSTANTS
    MaxAge,        \* max_sample_age_seconds
    RatioPart,     \* the ratio may differ by 1/RatioPart
    CounterPart,   \*   a counter by 1/CounterPart of the true one
    SizeTolerance, \*   and the size by this much
    MaxTime, MaxChanges, MaxSamples, MaxFiles, MaxChecks

ASSUME TruthAssumption ==
    /\ MaxAge \in Nat /\ SizeTolerance \in Nat
    /\ RatioPart \in Nat \ {0} /\ CounterPart \in Nat \ {0}
    /\ {MaxTime, MaxChanges, MaxSamples, MaxFiles, MaxChecks} \subseteq Nat

VARIABLES
    clock,
    db,        \* what pg_stat_database says, and how often it has changed
    files,     \* the collector's files, the newest last
    samples,   \* how many have been begun
    check,     \* the verification that is running
    checks

vars == <<clock, db, files, samples, check, checks>>

NoSample == [time |-> -1, hit |-> 0, read |-> 0, size |-> 0, version |-> -1]
EmptyFile == [last |-> NoSample, tail |-> "none", next |-> NoSample]
NoCheck == [at |-> "idle", truth |-> NoSample, now |-> 0, left |-> 0, found |-> NoSample,
            skipped |-> FALSE, newest |-> NoSample, verdict |-> "none"]

Abs(n) == IF n < 0 THEN -n ELSE n

Snapshot == [time |-> clock, hit |-> db.hit, read |-> db.read, size |-> db.size,
             version |-> db.version]

Init ==
    /\ clock = 0
    /\ db = [hit |-> 0, read |-> 0, size |-> 0, version |-> 0]
    /\ files = <<>>
    /\ samples = 0
    /\ check = NoCheck
    /\ checks = 0

-----------------------------------------------------------------------------
(* The database and the collector *)

Tick ==
    /\ clock < MaxTime
    /\ clock' = clock + 1
    /\ UNCHANGED <<db, files, samples, check, checks>>

\* Blocks are hit or read, the database grows, or its statistics are reset.
Change ==
    /\ db.version < MaxChanges
    /\ \/ db' = [db EXCEPT !.hit = @ + 1, !.version = @ + 1]
       \/ db' = [db EXCEPT !.read = @ + 1, !.size = @ + 1, !.version = @ + 1]
       \/ db' = [db EXCEPT !.hit = 0, !.read = 0, !.version = @ + 1]
    /\ UNCHANGED <<clock, files, samples, check, checks>>

Write(f) ==
    /\ files' = [files EXCEPT ![Len(files)] = f]
    /\ UNCHANGED <<clock, db, check, checks>>

Newest == files[Len(files)]

\* A part of a line reaches the file, then the rest of it, with or without its end.
BeginLine ==
    /\ files # <<>> /\ samples < MaxSamples
    /\ Newest.tail = "none"
    /\ samples' = samples + 1
    /\ Write([Newest EXCEPT !.tail = "part", !.next = Snapshot])

FillLine ==
    /\ files # <<>> /\ Newest.tail = "part"
    /\ Write([Newest EXCEPT !.tail = "whole"])
    /\ UNCHANGED samples

EndLine ==
    /\ files # <<>> /\ Newest.tail \in {"part", "whole"}
    /\ Write([EmptyFile EXCEPT !.last = Newest.next])
    /\ UNCHANGED samples

\* Rotated between two lines, or by a restart wherever the old file stood.
NewFile ==
    /\ Len(files) < MaxFiles
    /\ files' = Append(files, EmptyFile)
    /\ UNCHANGED <<clock, db, samples, check, checks>>

-----------------------------------------------------------------------------
(* The verification *)

Step(c) ==
    /\ check' = c
    /\ UNCHANGED <<clock, db, files, samples>>

\* The first snapshot gives the rates, which no assertion uses.
Verify ==
    /\ check.at = "idle"
    /\ checks < MaxChecks
    /\ checks' = checks + 1
    /\ Step([NoCheck EXCEPT !.at = "snapshot"])

TakeSnapshot ==
    /\ check.at = "snapshot"
    /\ Step([check EXCEPT !.at = "list", !.truth = Snapshot])
    /\ UNCHANGED checks

\* What the last line of a file is to somebody who reads it now.
Complete(f) == IF f.tail = "whole" THEN f.next ELSE f.last

\* The files, newest first, and the time that ages are measured against.  newest is
\* what a reader without bounds would find then (a history).
List ==
    /\ check.at = "list"
    /\ Step([check EXCEPT !.at = "read", !.left = Len(files), !.now = clock,
                          !.newest = IF \E i \in DOMAIN files : Complete(files[i]) # NoSample
                                     THEN LET i == CHOOSE i \in DOMAIN files :
                                              /\ Complete(files[i]) # NoSample
                                              /\ \A j \in (i + 1)..Len(files) :
                                                     Complete(files[j]) = NoSample
                                          IN Complete(files[i])
                                     ELSE NoSample])
    /\ UNCHANGED checks

Fresh(s) == check.now - s.time <= MaxAge

\* Mutant: the oldest file first.
ReadOldestFirst ==
    /\ check.at = "read"
    /\ check.left > 0
    /\ LET f == files[Len(files) + 1 - check.left]
           s == Complete(f)
       IN  Step(IF f.tail # "part" /\ s # NoSample /\ Fresh(s)
                THEN [check EXCEPT !.at = "judge", !.found = s]
                ELSE [check EXCEPT !.left = @ - 1, !.skipped = @ \/ f.tail = "part"])
    /\ UNCHANGED checks

\* Mutant: an empty file ends the search.
ReadStops ==
    /\ check.at = "read"
    /\ check.left > 0
    /\ LET f == files[check.left]
           s == Complete(f)
       IN  Step(IF f.tail # "part" /\ (s = NoSample \/ Fresh(s))
                THEN [check EXCEPT !.at = "judge", !.found = s]
                ELSE [check EXCEPT !.left = @ - 1, !.skipped = @ \/ f.tail = "part"])
    /\ UNCHANGED checks

\* The next file: a sample that is fresh ends the search.  An empty file, a line that
\* is not JSON yet, and an old sample lead to the next older file.
Read ==
    /\ check.at = "read"
    /\ check.left > 0
    /\ LET f == files[check.left]
           s == Complete(f)
       IN  Step(IF f.tail # "part" /\ s # NoSample /\ Fresh(s)
                THEN [check EXCEPT !.at = "judge", !.found = s]
                ELSE [check EXCEPT !.left = @ - 1, !.skipped = @ \/ f.tail = "part"])
    /\ UNCHANGED checks

\* A line that ends inside a character raises, and the request with it.
ReadRaises ==
    /\ check.at = "read"
    /\ check.left > 0
    /\ files[check.left].tail = "part"
    /\ Step(NoCheck)
    /\ UNCHANGED checks

\* No file is left.
ReadNone ==
    /\ check.at = "read"
    /\ check.left = 0
    /\ Step([check EXCEPT !.at = "judge"])
    /\ UNCHANGED checks

\* A quotient of 0 by 0 is 0.
RatioClose(g, s) ==
    LET blocks == g.hit + g.read
    IN  IF blocks = 0 THEN s.hit * RatioPart <= s.hit + s.read
        ELSE Abs(g.hit * (s.hit + s.read) - s.hit * blocks) * RatioPart
                 <= blocks * (s.hit + s.read)

\* The collector leaves zeroes out of a sample; what is left out is not compared.
CounterClose(true, reported) ==
    reported = 0 \/ IF true > 0 THEN Abs(true - reported) * CounterPart <= true ELSE reported = 0

SizeClose(true, reported) == reported = 0 \/ Abs(true - reported) <= SizeTolerance

\* But for the ratio, whose absence fails.
AllPassed(g, s) ==
    /\ s.hit # 0 /\ RatioClose(g, s)
    /\ CounterClose(g.hit, s.hit) /\ CounterClose(g.read, s.read)
    /\ SizeClose(g.size, s.size)

Judge ==
    /\ check.at = "judge"
    /\ Step([check EXCEPT !.at = "idle",
            !.verdict = IF check.found # NoSample /\ AllPassed(check.truth, check.found)
                        THEN "PASS" ELSE "FAIL"])
    /\ UNCHANGED checks

Next ==
    \/ Tick \/ Change
    \/ BeginLine \/ FillLine \/ EndLine \/ NewFile
    \/ Verify \/ TakeSnapshot \/ List \/ Read \/ ReadRaises \/ ReadNone \/ Judge

Spec == Init /\ [][Next]_vars

-----------------------------------------------------------------------------
(* Properties *)

\* While the collector writes and rotates (jsonl_reader.py:40-72), the sample that is
\* compared is no older than the limit, and unless a line was found half written it is
\* no older than the newest there was when the files were listed.
NewestSample ==
    check.found # NoSample =>
        /\ check.now - check.found.time <= MaxAge
        /\ check.skipped \/ check.found.time >= check.newest.time

\* An honest collector is failed (cache_memory.py:128-219) only for a reason: there was
\* no sample recent enough, or a line was half written; no block had been hit, and the
\* sample left the ratio out; or the database has changed between the sample and the
\* snapshot.
FailHasCause ==
    check.verdict = "FAIL" =>
        \/ check.found = NoSample /\ (\/ check.skipped
                                     \/ check.newest = NoSample
                                     \/ check.now - check.newest.time > MaxAge)
        \/ check.found # NoSample /\ (\/ check.found.hit = 0
                                     \/ check.found.version # check.truth.version)

=============================================================================
