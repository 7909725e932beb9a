--------------------------- MODULE ObserversProofs ---------------------------
(***************************************************************************)
(* What is proved of the two services that watch the database, the truth   *)
(* service and the dashboard's safety monitor.  They share no state: each  *)
(* theorem is about the steps of one of them.                              *)
(*                                                                         *)
(* Of a verification, for any tolerances and limits, and however           *)
(* the collector writes and rotates under the reader: the sample that is   *)
(* compared is the newest there was, or a line was found half written; and *)
(* an honest collector is failed for a cause.  What the reader has still   *)
(* to read holds the sample it ought to find, as long as it has not found  *)
(* or skipped it.                                                          *)
(*                                                                         *)
(* Of the monitor, for any tables, limits and requests: the oldest rows    *)
(* go first, as what somebody has picked stays the oldest until it goes.   *)
(***************************************************************************)
EXTENDS TruthCheck, SafetyMonitor, FiniteSetTheorems, WellFoundedInduction, TLAPS

-----------------------------------------------------------------------------
(* The inductive invariant *)

Database == [hit : Nat, read : Nat, size : Nat, version : Nat]
Sample == [time : Int, hit : Nat, read : Nat, size : Nat, version : Int]
File == [last : Sample, tail : {"none", "part", "whole"}, next : Sample]
Checking == [at : {"idle", "snapshot", "list", "read", "judge"}, truth : Sample, now : Int,
             left : Nat, found : Sample, skipped : BOOLEAN, newest : Sample,
             verdict : {"none", "PASS", "FAIL"}]

Types ==
    /\ clock \in Nat /\ db \in Database /\ files \in Seq(File)
    /\ check \in Checking

\* Two views of the database that are of one version are the same.
Agree(a, b) ==
    a.version = b.version => a.hit = b.hit /\ a.read = b.read /\ a.size = b.size

\* A sample, or the lack of one, of what the database d has held until now.
Honest(s, d, now) ==
    \/ s = NoSample
    \/ s.time \in 0 .. now /\ s.version \in 0 .. d.version /\ Agree(s, d)

\* The lines of a file, complete or not.
Lines(f) == {f.last} \cup IF f.tail = "none" THEN {} ELSE {f.next}

FileOK(f, d, now) ==
    /\ \A s \in Lines(f) : Honest(s, d, now)
    /\ f.tail # "none" => f.next # NoSample /\ f.last.time <= f.next.time

\* No file has a sample that is newer than one of a later file.
Ordered(fs) ==
    \A i, j \in DOMAIN fs : i < j =>
        \A a \in Lines(fs[i]), b \in Lines(fs[j]) : b # NoSample => a.time <= b.time

FilesOK(fs, d, now) ==
    /\ \A i \in DOMAIN fs : FileOK(fs[i], d, now)
    /\ Ordered(fs)

\* What the database said to the verification agrees with it and with every sample.
TruthOK(c, fs, d) ==
    c.at \in {"list", "read", "judge"} =>
        /\ c.truth.version \in 0 .. d.version /\ Agree(c.truth, d)
        /\ \A i \in DOMAIN fs : \A s \in Lines(fs[i]) : Agree(s, c.truth)

\* There was no sample to be found, it was too old, or a half written line was skipped.
Excused(c) == c.skipped \/ c.newest = NoSample \/ c.now - c.newest.time > MaxAge

\* A file that has still to be read has a sample as new as the newest.
Ahead(c, fs) ==
    \E i \in 1 .. c.left : /\ Complete(fs[i]) # NoSample
                           /\ c.newest.time <= Complete(fs[i]).time
ReadOK(c, fs) ==
    c.at = "read" => c.left <= Len(fs) /\ (Excused(c) \/ Ahead(c, fs))

\* What has been found is recent enough, as new as it should be, and true.
FoundOK(c) ==
    c.found # NoSample =>
        /\ c.at \in {"judge", "idle"}
        /\ c.now - c.found.time <= MaxAge
        /\ c.skipped \/ c.newest.time <= c.found.time
        /\ Agree(c.found, c.truth)

\* Nothing has been found only if that is excused, and nothing has been said yet.
NoneOK(c) ==
    /\ c.at = "judge" /\ c.found = NoSample => Excused(c)
    /\ c.at # "idle" => c.verdict = "none"

IInv ==
    /\ Types
    /\ FilesOK(files, db, clock)
    /\ TruthOK(check, files, db)
    /\ ReadOK(check, files)
    /\ FoundOK(check)
    /\ NoneOK(check)
    /\ FailHasCause

-----------------------------------------------------------------------------
(* Samples and files *)

\* Honesty lasts: time goes on, and a database that changes is of a later version.
LEMMA HonestLater ==
    ASSUME NEW d \in Database, NEW e \in Database, d = e \/ d.version < e.version,
           NEW now \in Nat, NEW later \in Nat, now <= later,
           NEW s \in Sample, Honest(s, d, now)
    PROVE  Honest(s, e, later)
<1>1. CASE s = NoSample
    BY <1>1 DEF Honest
<1>2. CASE s # NoSample
  <2>1. s.time \in 0 .. now /\ s.version \in 0 .. d.version /\ Agree(s, d)
      BY <1>2 DEF Honest
  <2>2. s.time \in 0 .. later
      BY <2>1
  <2>3. s.version \in 0 .. e.version /\ Agree(s, e)
    <3>1. CASE d = e
        BY <2>1, <3>1
    <3>2. CASE d.version < e.version
      <4> PICK dv \in Nat, ev \in Nat : dv = d.version /\ ev = e.version
          BY DEF Database
      <4> PICK sv \in 0 .. dv : sv = s.version
          BY <2>1
      <4> QED
          BY <3>2 DEF Agree
    <3> QED
        BY <3>1, <3>2
  <2> QED
      BY <2>2, <2>3 DEF Honest
<1> QED
    BY <1>1, <1>2

LEMMA NoSampleOK == NoSample \in Sample /\ NoSample.time = -1 /\ NoSample.version = -1
BY DEF NoSample, Sample

LEMMA SnapshotOK ==
    ASSUME Types
    PROVE  /\ Snapshot \in Sample /\ Snapshot # NoSample /\ Snapshot.time = clock
           /\ Snapshot.version = db.version /\ Snapshot.version \in Nat
           /\ Agree(Snapshot, db) /\ Honest(Snapshot, db, clock)
<1>1. /\ Snapshot.time = clock /\ Snapshot.hit = db.hit /\ Snapshot.read = db.read
      /\ Snapshot.size = db.size /\ Snapshot.version = db.version
    BY DEF Snapshot
<1>2. /\ clock \in Nat /\ db.hit \in Nat /\ db.read \in Nat /\ db.size \in Nat
      /\ db.version \in Nat
    BY DEF Types, Database
<1>3. Snapshot \in Sample
    BY <1>2 DEF Snapshot, Sample
<1>4. Snapshot # NoSample
    BY <1>1, <1>2, NoSampleOK
<1>5. Agree(Snapshot, db)
    BY <1>1 DEF Agree
<1>6. clock \in 0 .. clock /\ db.version \in 0 .. db.version
    BY <1>2
<1> QED
    BY <1>1, <1>2, <1>3, <1>4, <1>5, <1>6 DEF Honest

\* An honest sample's time is a number, and one that is no sample is older than any.
LEMMA SampleTimes ==
    ASSUME NEW d \in Database, NEW now \in Nat, NEW s \in Sample, Honest(s, d, now)
    PROVE  s.time <= now /\ (s # NoSample => s.time \in 0 .. now)
<1>1. CASE s = NoSample
    BY <1>1, NoSampleOK
<1>2. CASE s # NoSample
    BY <1>2 DEF Honest
<1> QED
    BY <1>1, <1>2

\* A file's lines are samples; its last complete one is one of them.
LEMMA FileLines ==
    ASSUME NEW f \in File
    PROVE  /\ Lines(f) \subseteq Sample
           /\ Complete(f) \in Lines(f) /\ Complete(f) \in Sample
BY DEF File, Lines, Complete

LEMMA NewestFile ==
    ASSUME Types, files # <<>>
    PROVE  /\ Len(files) \in Nat \ {0} /\ DOMAIN files = 1 .. Len(files)
           /\ Len(files) \in DOMAIN files /\ Newest \in File
BY DEF Types, Newest

-----------------------------------------------------------------------------
(* The collector writes *)

\* A file that gains a sample newer than all of them, at the end.
LEMMA OrderedWrite ==
    ASSUME Types, FilesOK(files, db, clock), files # <<>>,
           NEW f \in File, FileOK(f, db, clock),
           Lines(f) \subseteq Lines(Newest) \cup {Snapshot, NoSample}
    PROVE  FilesOK([files EXCEPT ![Len(files)] = f], db, clock)
<1> DEFINE n == Len(files)
           fs == [files EXCEPT ![n] = f]
<1>1. /\ n \in Nat \ {0} /\ DOMAIN files = 1 .. n /\ files \in Seq(File) /\ Newest \in File
      /\ files[n] = Newest
    BY NewestFile DEF Types, Newest
<1> HIDE DEF n
<1>2. DOMAIN fs = 1 .. n /\ fs[n] = f /\ \A i \in 1 .. n : i # n => fs[i] = files[i]
    BY <1>1
<1> HIDE DEF fs
<1>3. ASSUME NEW i \in 1 .. n PROVE FileOK(fs[i], db, clock)
    BY <1>1, <1>2 DEF FilesOK
<1>4. ASSUME NEW i \in 1 .. n, NEW j \in 1 .. n, i < j,
             NEW a \in Lines(fs[i]), NEW b \in Lines(fs[j]), b # NoSample
      PROVE  a.time <= b.time
  <2>1. i # n /\ fs[i] = files[i] /\ files[i] \in File
      BY <1>1, <1>2, <1>4
  <2>2. a \in Lines(files[i]) /\ a \in Sample
      BY <2>1, FileLines
  <2>3. CASE b \in Lines(files[j])
      BY <1>1, <1>4, <2>2, <2>3 DEF FilesOK, Ordered
  <2>4. CASE b \notin Lines(files[j])
    <3>1. j = n
        BY <1>2, <2>4
    <3>2. b = Snapshot
        BY <1>1, <1>2, <1>4, <2>4, <3>1
    <3>3. b.time = clock
        BY <3>2, SnapshotOK
    <3>4. Honest(a, db, clock)
        BY <1>1, <2>2 DEF FilesOK, FileOK
    <3> QED
        BY <2>2, <3>3, <3>4, SampleTimes DEF Types
  <2> QED
      BY <2>3, <2>4
<1>5. Ordered(fs)
    BY <1>2, <1>4 DEF Ordered
<1> QED
    BY <1>2, <1>3, <1>5 DEF FilesOK, n, fs

\* What the verification has read, and has still to read, stays as good when a file
\* gains samples.
LEMMA Written ==
    ASSUME IInv, files # <<>>,
           NEW f \in File, FileOK(f, db, clock),
           Lines(f) \subseteq Lines(Newest) \cup {Snapshot, NoSample},
           Complete(Newest) # NoSample =>
               Complete(f) # NoSample /\ Complete(Newest).time <= Complete(f).time,
           Write(f)
    PROVE  IInv'
<1> DEFINE n == Len(files)
           fs == [files EXCEPT ![n] = f]
<1>1. /\ Types /\ FilesOK(files, db, clock) /\ TruthOK(check, files, db)
      /\ ReadOK(check, files) /\ FoundOK(check) /\ NoneOK(check) /\ FailHasCause
    BY DEF IInv
<1>2. files' = fs /\ clock' = clock /\ db' = db /\ check' = check
    BY DEF Write
<1>3. FilesOK(fs, db, clock)
    BY <1>1, OrderedWrite
<1>4. /\ n \in Nat \ {0} /\ DOMAIN files = 1 .. n /\ files \in Seq(File) /\ Newest \in File
      /\ files[n] = Newest
    BY <1>1, NewestFile DEF Types, Newest
<1> HIDE DEF n
<1>5. /\ DOMAIN fs = 1 .. n /\ fs[n] = f /\ \A i \in 1 .. n : i # n => fs[i] = files[i]
      /\ fs \in Seq(File) /\ Len(fs) = n
    BY <1>4
<1> HIDE DEF fs
<1> PICK c \in Checking : c = check
    BY <1>1 DEF Types
<1>6. TruthOK(c, fs, db)
  <2> SUFFICES ASSUME c.at \in {"list", "read", "judge"}, NEW i \in DOMAIN fs, NEW s \in Lines(fs[i])
               PROVE  Agree(s, c.truth)
      BY <1>1 DEF TruthOK
  <2>1. /\ c.truth.version \in 0 .. db.version /\ Agree(c.truth, db)
        /\ \A j \in 1 .. n : \A x \in Lines(files[j]) : Agree(x, c.truth)
      BY <1>1, <1>4 DEF TruthOK
  <2>2. CASE i # n \/ s \in Lines(Newest)
      BY <2>1, <2>2, <1>4, <1>5
  <2>3. CASE s = NoSample
    <3>1. s.version # c.truth.version
        BY <2>1, <2>3, NoSampleOK
    <3> QED
        BY <3>1 DEF Agree
  <2>4. CASE s = Snapshot
    <3>1. Agree(s, db) /\ s.version = db.version
        BY <1>1, <2>4, SnapshotOK
    <3> QED
        BY <2>1, <3>1 DEF Agree
  <2> QED
      BY <1>5, <2>2, <2>3, <2>4
<1>7. ReadOK(c, fs)
  <2> SUFFICES ASSUME c.at = "read" PROVE c.left <= Len(fs) /\ (Excused(c) \/ Ahead(c, fs))
      BY DEF ReadOK
  <2>1. c.left <= n /\ (Excused(c) \/ Ahead(c, files))
      BY <1>1, <1>4 DEF ReadOK, n
  <2>2. ASSUME Ahead(c, files) PROVE Ahead(c, fs)
    <3> PICK i \in 1 .. c.left : /\ Complete(files[i]) # NoSample
                                 /\ c.newest.time <= Complete(files[i]).time
        BY <2>2 DEF Ahead
    <3>1. i \in 1 .. n
        BY <2>1, <1>4 DEF Checking
    <3>2. CASE i # n
        BY <3>1, <3>2, <1>5 DEF Ahead
    <3>3. CASE i = n
      <4>1. Complete(f) # NoSample /\ Complete(Newest).time <= Complete(f).time
          BY <3>3, <1>4
      <4>2. Complete(f) \in Sample /\ Complete(Newest) \in Sample
          BY <1>4, FileLines
      <4>3. c.newest.time <= Complete(f).time
        <5> PICK x \in Int, y \in Int, z \in Int :
                x = c.newest.time /\ y = Complete(Newest).time /\ z = Complete(f).time
            BY <4>2 DEF Checking, Sample
        <5> QED
            BY <4>1, <3>3, <1>4
      <4> QED
          BY <4>1, <4>3, <3>3, <1>5 DEF Ahead
    <3> QED
        BY <3>2, <3>3
  <2> QED
      BY <1>5, <2>1, <2>2
<1>8. Types'
    BY <1>1, <1>2, <1>5 DEF Types
<1>9. FailHasCause'
    BY <1>1, <1>2 DEF FailHasCause
<1>10. /\ FilesOK(files', db', clock') /\ TruthOK(check', files', db')
       /\ ReadOK(check', files') /\ FoundOK(check') /\ NoneOK(check')
    BY <1>1, <1>2, <1>3, <1>6, <1>7
<1> QED
    BY <1>8, <1>9, <1>10 DEF IInv

\* What each part of a write makes of the newest file.
LEMMA WriteSteps ==
    ASSUME IInv, BeginLine \/ FillLine \/ EndLine
    PROVE  IInv'
<1>1. Types /\ FilesOK(files, db, clock)
    BY DEF IInv
<1>2. files # <<>>
    BY DEF BeginLine, FillLine, EndLine
<1> PICK g \in File : g = Newest
    BY <1>1, <1>2, NewestFile
<1> PICK last \in Sample, next \in Sample, tail \in {"none", "part", "whole"} :
        last = g.last /\ next = g.next /\ tail = g.tail
    BY DEF File
<1>3. FileOK(g, db, clock)
    BY <1>1, <1>2, NewestFile DEF FilesOK, Newest
<1>4. Snapshot \in Sample /\ Snapshot # NoSample /\ Snapshot.time = clock
      /\ Honest(Snapshot, db, clock)
    BY <1>1, SnapshotOK
<1>5. Honest(last, db, clock) /\ (tail # "none" => /\ Honest(next, db, clock)
                                                   /\ next # NoSample /\ last.time <= next.time)
    BY <1>3 DEF FileOK, Lines
<1>6. CASE BeginLine
  <2>1. tail = "none" /\ Write([g EXCEPT !.tail = "part", !.next = Snapshot])
      BY <1>6 DEF BeginLine
  <2> PICK f : f = [g EXCEPT !.tail = "part", !.next = Snapshot]
      OBVIOUS
  <2>2. f \in File /\ f.last = last /\ f.tail = "part" /\ f.next = Snapshot
      BY <1>4 DEF File
  <2>3. last.time <= Snapshot.time
      BY <1>1, <1>4, <1>5, SampleTimes DEF Types
  <2>4. Lines(f) = {last, Snapshot} /\ last \in Lines(g) /\ Complete(f) = last /\ Complete(g) = last
      BY <2>1, <2>2 DEF Lines, Complete
  <2>5. FileOK(f, db, clock)
      BY <1>4, <1>5, <2>2, <2>3, <2>4 DEF FileOK
  <2>6. last.time <= last.time
      BY DEF Sample
  <2> QED
      BY <1>2, <2>1, <2>2, <2>4, <2>5, <2>6, Written
<1>7. CASE FillLine
  <2>1. tail = "part" /\ Write([g EXCEPT !.tail = "whole"])
      BY <1>7 DEF FillLine
  <2> PICK f : f = [g EXCEPT !.tail = "whole"]
      OBVIOUS
  <2>2. f \in File /\ f.last = last /\ f.tail = "whole" /\ f.next = next
      BY DEF File
  <2>4. Lines(f) = Lines(g) /\ Complete(f) = next /\ Complete(g) = last
      BY <2>1, <2>2 DEF Lines, Complete
  <2>5. FileOK(f, db, clock)
      BY <1>3, <1>5, <2>1, <2>2, <2>4 DEF FileOK
  <2> QED
      BY <1>2, <1>5, <2>1, <2>2, <2>4, <2>5, Written
<1>8. CASE EndLine
  <2>1. tail # "none" /\ Write([EmptyFile EXCEPT !.last = next])
      BY <1>8 DEF EndLine
  <2> PICK f : f = [EmptyFile EXCEPT !.last = next]
      OBVIOUS
  <2>2. f \in File /\ f.last = next /\ f.tail = "none"
      BY NoSampleOK DEF EmptyFile, File
  <2>4. Lines(f) = {next} /\ next \in Lines(g) /\ Complete(f) = next /\ Complete(g) \in {last, next}
      BY <2>1, <2>2 DEF Lines, Complete
  <2>5. FileOK(f, db, clock)
      BY <1>5, <2>1, <2>2, <2>4 DEF FileOK
  <2>6. next.time <= next.time
      BY DEF Sample
  <2>7. Complete(g).time <= Complete(f).time
      BY <1>5, <2>1, <2>4, <2>6
  <2> QED
      BY <1>2, <1>5, <2>1, <2>2, <2>4, <2>5, <2>7, Written
<1> QED
    BY <1>6, <1>7, <1>8

LEMMA NewFileRight ==
    ASSUME IInv, NewFile
    PROVE  IInv'
<1>1. /\ Types /\ FilesOK(files, db, clock) /\ TruthOK(check, files, db)
      /\ ReadOK(check, files) /\ FoundOK(check) /\ NoneOK(check) /\ FailHasCause
    BY DEF IInv
<1> PICK fs : fs = Append(files, EmptyFile)
    OBVIOUS
<1>2. files' = fs /\ clock' = clock /\ db' = db /\ check' = check
    BY DEF NewFile
<1>3. EmptyFile \in File /\ Lines(EmptyFile) = {NoSample} /\ EmptyFile.tail = "none"
    BY NoSampleOK DEF EmptyFile, File, Lines
<1> PICK n \in Nat : n = Len(files)
    BY <1>1 DEF Types
<1>4. files \in Seq(File) /\ DOMAIN files = 1 .. n
    BY <1>1 DEF Types
<1>5. /\ fs \in Seq(File) /\ Len(fs) = n + 1 /\ DOMAIN fs = 1 .. n + 1
      /\ fs[n + 1] = EmptyFile /\ \A i \in 1 .. n : fs[i] = files[i]
    BY <1>3, <1>4
<1>6. FilesOK(fs, db, clock)
  <2>1. ASSUME NEW i \in 1 .. n + 1 PROVE FileOK(fs[i], db, clock)
    <3>1. CASE i = n + 1
        BY <3>1, <1>3, <1>5 DEF FileOK, Honest
    <3>2. CASE i \in 1 .. n
        BY <3>2, <1>1, <1>4, <1>5 DEF FilesOK
    <3> QED
        BY <3>1, <3>2
  <2>2. ASSUME NEW i \in 1 .. n + 1, NEW j \in 1 .. n + 1, i < j,
               NEW a \in Lines(fs[i]), NEW b \in Lines(fs[j]), b # NoSample
        PROVE  a.time <= b.time
    <3>1. j # n + 1
        BY <2>2, <1>3, <1>5
    <3>2. i \in 1 .. n /\ j \in 1 .. n
        BY <2>2, <3>1
    <3> QED
        BY <2>2, <3>2, <1>1, <1>4, <1>5 DEF FilesOK, Ordered
  <2>3. Ordered(fs)
      BY <1>5, <2>2 DEF Ordered
  <2> QED
      BY <1>5, <2>1, <2>3 DEF FilesOK
<1> PICK c \in Checking : c = check
    BY <1>1 DEF Types
<1>7. TruthOK(c, fs, db)
  <2> SUFFICES ASSUME c.at \in {"list", "read", "judge"},
                      NEW i \in 1 .. n + 1, NEW s \in Lines(fs[i])
               PROVE  Agree(s, c.truth)
      BY <1>1, <1>5 DEF TruthOK
  <2>1. c.truth.version \in 0 .. db.version
      BY <1>1 DEF TruthOK
  <2>2. CASE i = n + 1
    <3>1. s.version # c.truth.version
        BY <2>1, <2>2, <1>3, <1>5, NoSampleOK
    <3> QED
        BY <3>1 DEF Agree
  <2>3. CASE i \in 1 .. n
      BY <2>3, <1>1, <1>4, <1>5 DEF TruthOK
  <2> QED
      BY <2>2, <2>3
<1>8. ReadOK(c, fs)
  <2> SUFFICES ASSUME c.at = "read" PROVE c.left <= n + 1 /\ (Excused(c) \/ Ahead(c, fs))
      BY <1>5 DEF ReadOK
  <2> PICK left \in Nat : left = c.left
      BY DEF Checking
  <2>1. left <= n /\ (Excused(c) \/ Ahead(c, files))
      BY <1>1 DEF ReadOK
  <2>2. 1 .. left \subseteq 1 .. n
      BY <2>1
  <2>3. Ahead(c, files) => Ahead(c, fs)
      BY <2>2, <1>5 DEF Ahead
  <2> QED
      BY <2>1, <2>3
<1>9. Types' /\ FailHasCause'
    BY <1>1, <1>2, <1>5 DEF Types, FailHasCause
<1> QED
    BY <1>1, <1>2, <1>6, <1>7, <1>8, <1>9 DEF IInv

-----------------------------------------------------------------------------
(* Time passes, and the database changes *)

LEMMA Passes ==
    ASSUME IInv, db' \in Database, db' = db \/ db.version < db'.version,
           clock' \in Nat, clock <= clock', files' = files, check' = check
    PROVE  IInv'
<1>1. /\ Types /\ FilesOK(files, db, clock) /\ TruthOK(check, files, db)
      /\ ReadOK(check, files) /\ FoundOK(check) /\ NoneOK(check) /\ FailHasCause
    BY DEF IInv
<1>2. ASSUME NEW i \in DOMAIN files PROVE FileOK(files[i], db', clock')
  <2>1. files[i] \in File /\ FileOK(files[i], db, clock)
      BY <1>1 DEF Types, FilesOK
  <2>2. ASSUME NEW s \in Lines(files[i]) PROVE Honest(s, db', clock')
    <3>1. s \in Sample /\ Honest(s, db, clock)
        BY <2>1, FileLines DEF FileOK
    <3> QED
        BY <3>1, <1>1, HonestLater DEF Types
  <2> QED
      BY <2>1, <2>2 DEF FileOK
<1>3. FilesOK(files', db', clock')
    BY <1>1, <1>2 DEF FilesOK
<1>4. TruthOK(check', files', db')
  <2> PICK c \in Checking : c = check
      BY <1>1 DEF Types
  <2> PICK d \in Database, e \in Database : d = db /\ e = db'
      BY <1>1 DEF Types
  <2> PICK dv \in Nat, ev \in Nat : dv = d.version /\ ev = e.version
      BY DEF Database
  <2>1. ASSUME c.truth.version \in 0 .. d.version, Agree(c.truth, d)
        PROVE  c.truth.version \in 0 .. e.version /\ Agree(c.truth, e)
    <3>1. CASE e = d
        BY <2>1, <3>1
    <3>2. CASE dv < ev
      <4> PICK tv \in 0 .. dv : tv = c.truth.version
          BY <2>1
      <4>1. tv \in 0 .. ev /\ tv # ev
          BY <3>2
      <4> QED
          BY <4>1 DEF Agree
    <3> QED
        BY <3>1, <3>2
  <2> QED
      BY <1>1, <2>1 DEF TruthOK
<1>5. Types' /\ FailHasCause'
    BY <1>1 DEF Types, FailHasCause
<1> QED
    BY <1>1, <1>3, <1>4, <1>5 DEF IInv

LEMMA TickRight ==
    ASSUME IInv, Tick
    PROVE  IInv'
<1>1. clock \in Nat /\ db \in Database
    BY DEF IInv, Types
<1>2. clock' = clock + 1 /\ db' = db /\ files' = files /\ check' = check
    BY DEF Tick
<1> QED
    BY <1>1, <1>2, Passes

LEMMA ChangeRight ==
    ASSUME IInv, Change
    PROVE  IInv'
<1>1. clock \in Nat
    BY DEF IInv, Types
<1> PICK d \in Database : d = db
    BY DEF IInv, Types
<1> PICK h \in Nat, r \in Nat, z \in Nat, v \in Nat :
        h = d.hit /\ r = d.read /\ z = d.size /\ v = d.version
    BY DEF Database
<1>2. clock' = clock /\ files' = files /\ check' = check
    BY DEF Change
<1>3. db' \in Database /\ db'.version = v + 1
  <2> PICK h1 \in Nat, r1 \in Nat, z1 \in Nat, v1 \in Nat :
          h1 = d.hit + 1 /\ r1 = d.read + 1 /\ z1 = d.size + 1 /\ v1 = d.version + 1
      BY DEF Database
  <2>1. CASE db' = [d EXCEPT !.hit = @ + 1, !.version = @ + 1]
    <3>1. db' = [d EXCEPT !.hit = h1, !.version = v1]
        BY <2>1
    <3> QED
        BY <3>1 DEF Database
  <2>2. CASE db' = [d EXCEPT !.read = @ + 1, !.size = @ + 1, !.version = @ + 1]
    <3>1. PICK e : e = [d EXCEPT !.read = r1, !.size = z1]
        OBVIOUS
    <3>2. e \in Database
        BY <3>1 DEF Database
    <3>3. db' = [e EXCEPT !.version = v1]
        BY <2>2, <3>1
    <3> QED
        BY <3>2, <3>3 DEF Database
  <2>3. CASE db' = [d EXCEPT !.hit = 0, !.read = 0, !.version = @ + 1]
    <3>0. PICK zero \in Nat : zero = 0
        OBVIOUS
    <3>1. PICK e : e = [d EXCEPT !.hit = zero, !.read = zero]
        OBVIOUS
    <3>2. e \in Database
        BY <3>1 DEF Database
    <3>3. db' = [e EXCEPT !.version = v1]
        BY <2>3, <3>0, <3>1
    <3> QED
        BY <3>2, <3>3 DEF Database
  <2> QED
      BY <2>1, <2>2, <2>3 DEF Change
<1>5. db.version < db'.version
    BY <1>3
<1>6. clock <= clock'
    BY <1>1, <1>2
<1> QED
    BY <1>1, <1>2, <1>3, <1>5, <1>6, Passes

-----------------------------------------------------------------------------
(* The verification *)

\* FailHasCause of a verification.
Caused(c) ==
    c.verdict = "FAIL" =>
        \/ c.found = NoSample /\ Excused(c)
        \/ c.found # NoSample /\ (\/ c.found.hit = 0
                                  \/ c.found.version # c.truth.version)

LEMMA Stepped ==
    ASSUME IInv, NEW c \in Checking, Step(c),
           TruthOK(c, files, db), ReadOK(c, files), FoundOK(c), NoneOK(c), Caused(c)
    PROVE  IInv'
<1>1. Types /\ FilesOK(files, db, clock)
    BY DEF IInv
<1>2. check' = c /\ clock' = clock /\ db' = db /\ files' = files
    BY DEF Step
<1>3. Types'
    BY <1>1, <1>2 DEF Types
<1>4. FailHasCause'
    BY <1>2 DEF FailHasCause, Caused, Excused
<1> QED
    BY <1>1, <1>2, <1>3, <1>4 DEF IInv

LEMMA NoCheckOK ==
    /\ NoCheck \in Checking /\ NoCheck.at = "idle" /\ NoCheck.found = NoSample
    /\ NoCheck.verdict = "none"
BY NoSampleOK DEF NoCheck, Checking

LEMMA VerifyRight ==
    ASSUME IInv, Verify \/ ReadRaises
    PROVE  IInv'
<1> PICK c : c \in {NoCheck, [NoCheck EXCEPT !.at = "snapshot"]} /\ Step(c)
    BY DEF Verify, ReadRaises
<1>1. /\ c \in Checking /\ c.at \in {"idle", "snapshot"}
      /\ c.found = NoSample /\ c.verdict = "none"
    BY NoCheckOK DEF Checking
<1>2. TruthOK(c, files, db) /\ ReadOK(c, files) /\ FoundOK(c) /\ NoneOK(c) /\ Caused(c)
    BY <1>1 DEF TruthOK, ReadOK, FoundOK, NoneOK, Caused
<1> QED
    BY <1>1, <1>2, Stepped

\* Every sample there is was taken of this version or an earlier one.
LEMMA TakeSnapshotRight ==
    ASSUME IInv, TakeSnapshot
    PROVE  IInv'
<1>1. Types /\ FilesOK(files, db, clock) /\ FoundOK(check) /\ NoneOK(check)
    BY DEF IInv
<1> PICK k \in Checking : k = check
    BY <1>1 DEF Types
<1>2. k.at = "snapshot" /\ Step([k EXCEPT !.at = "list", !.truth = Snapshot])
    BY DEF TakeSnapshot
<1>3. /\ Snapshot \in Sample /\ Snapshot.version = db.version /\ Snapshot.version \in Nat
      /\ Agree(Snapshot, db)
    BY <1>1, SnapshotOK
<1> PICK c : c = [k EXCEPT !.at = "list", !.truth = Snapshot]
    OBVIOUS
<1>4. /\ c \in Checking /\ c.at = "list" /\ c.truth = Snapshot /\ c.found = k.found
      /\ c.verdict = k.verdict
    BY <1>3 DEF Checking
<1>5. k.found = NoSample /\ k.verdict = "none"
    BY <1>1, <1>2 DEF FoundOK, NoneOK
<1>6. TruthOK(c, files, db)
  <2>1. ASSUME NEW i \in DOMAIN files, NEW s \in Lines(files[i]) PROVE Agree(s, Snapshot)
    <3>1. s = NoSample \/ Agree(s, db)
        BY <1>1 DEF FilesOK, FileOK, Honest
    <3>2. CASE s = NoSample
      <4>1. s.version # Snapshot.version
          BY <3>2, <1>3, NoSampleOK
      <4> QED
          BY <4>1 DEF Agree
    <3>3. CASE Agree(s, db)
        BY <3>3, <1>3 DEF Agree, Snapshot
    <3> QED
        BY <3>1, <3>2, <3>3
  <2>2. c.truth.version \in 0 .. db.version
      BY <1>3, <1>4
  <2> QED
      BY <1>3, <1>4, <2>1, <2>2 DEF TruthOK
<1>7. ReadOK(c, files) /\ FoundOK(c) /\ NoneOK(c) /\ Caused(c)
    BY <1>4, <1>5 DEF ReadOK, FoundOK, NoneOK, Caused
<1> QED
    BY <1>2, <1>4, <1>6, <1>7, Stepped

\* A set of indexes that is not empty has a last one.
LEMMA LastIndex ==
    ASSUME NEW n \in Nat, NEW S \in SUBSET (1 .. n), S # {}
    PROVE  \E i \in S : \A j \in (i + 1) .. n : j \notin S
<1> DEFINE T == {x \in Nat : n - x \in S}
           R == OpToRel(<, Nat)
<1>1. T # {} /\ T \subseteq Nat
  <2> PICK i \in 1 .. n : i \in S
      OBVIOUS
  <2>1. i \in Nat /\ i <= n
      OBVIOUS
  <2>2. n - i \in Nat /\ n - (n - i) = i
      BY ONLY n \in Nat, <2>1
  <2> QED
      BY <2>2
<1>2. IsWellFoundedOn(R, Nat)
    BY NatLessThanWellFounded, Zenon
<1>3. PICK x \in T : \A y \in T : ~ (<<y, x>> \in R)
    BY ONLY <1>1, <1>2, WFMin, Zenon
<1>4. x \in Nat /\ n - x \in S
    OBVIOUS
<1>5. ASSUME NEW j \in (n - x + 1) .. n, j \in S PROVE FALSE
  <2>1. n - j \in Nat /\ n - (n - j) = j /\ n - j < x
      BY <1>4
  <2>2. n - j \in T
      BY <1>5, <2>1
  <2>3. <<n - j, x>> \in R
      BY <1>4, <2>1, Zenon DEF OpToRel
  <2> HIDE DEF R, T
  <2> QED
      BY <1>3, <2>2, <2>3
<1> QED
    BY <1>4, <1>5

LEMMA ListRight ==
    ASSUME IInv, List
    PROVE  IInv'
<1>1. Types /\ TruthOK(check, files, db) /\ FoundOK(check) /\ NoneOK(check)
    BY DEF IInv
<1> PICK k \in Checking : k = check
    BY <1>1 DEF Types
<1> DEFINE With == {i \in DOMAIN files : Complete(files[i]) # NoSample}
           Final(i) == Complete(files[i]) # NoSample
                      /\ \A j \in (i + 1)..Len(files) : Complete(files[j]) = NoSample
<1> DEFINE
        newest == IF \E i \in DOMAIN files : Complete(files[i]) # NoSample
                 THEN LET i == CHOOSE i \in DOMAIN files :
                                   /\ Complete(files[i]) # NoSample
                                   /\ \A j \in (i + 1)..Len(files) :
                                          Complete(files[j]) = NoSample
                      IN Complete(files[i])
                 ELSE NoSample
<1>2. k.at = "list" /\ Step([k EXCEPT !.at = "read", !.left = Len(files), !.now = clock,
                                      !.newest = newest])
    BY DEF List
<1> PICK n \in Nat : n = Len(files)
    BY <1>1 DEF Types
<1>3. files \in Seq(File) /\ DOMAIN files = 1 .. n
    BY <1>1 DEF Types
<1>4. newest = NoSample \/ \E i \in 1 .. n : newest = Complete(files[i]) /\ newest # NoSample
  <2>1. CASE With = {}
      BY <2>1
  <2>2. CASE With # {}
    <3>1. With \in SUBSET (1 .. n)
        BY <1>3
    <3>2. \E i \in With : \A j \in (i + 1) .. n : j \notin With
        BY <2>2, <3>1, LastIndex
    <3>3. \E i \in DOMAIN files : Final(i)
      <4> PICK i \in With : \A j \in (i + 1) .. n : j \notin With
          BY <3>2
      <4>1. ASSUME NEW j \in (i + 1) .. n PROVE j \in DOMAIN files
          BY <1>3
      <4> QED
          BY <4>1
    <3> DEFINE l == CHOOSE i \in DOMAIN files : Final(i)
    <3>4. l \in DOMAIN files /\ Final(l)
        BY <3>3
    <3>5. newest = Complete(files[l])
        BY <2>2
    <3> HIDE DEF l
    <3> QED
        BY <1>3, <3>4, <3>5
  <2> QED
      BY <2>1, <2>2
<1> HIDE DEF newest
<1>5. newest \in Sample
    BY <1>3, <1>4, FileLines, NoSampleOK
<1>6. clock \in Int
    BY <1>1 DEF Types
<1> PICK c : c = [k EXCEPT !.at = "read", !.left = n, !.now = clock, !.newest = newest]
    OBVIOUS
<1>7. /\ c \in Checking /\ c.at = "read" /\ c.left = n /\ c.truth = k.truth
      /\ c.newest = newest /\ c.found = k.found /\ c.verdict = k.verdict
  <2> PICK b : b = [k EXCEPT !.at = "read", !.left = n]
      OBVIOUS
  <2>1. /\ b \in Checking /\ b.at = "read" /\ b.left = n /\ b.truth = k.truth
        /\ b.found = k.found /\ b.verdict = k.verdict
      BY DEF Checking
  <2>2. c = [b EXCEPT !.now = clock, !.newest = newest]
      OBVIOUS
  <2> QED
      BY ZenonT(40), <1>5, <1>6, <2>1, <2>2 DEF Checking
<1>8. k.found = NoSample /\ k.verdict = "none"
    BY <1>1, <1>2 DEF FoundOK, NoneOK
<1>9. TruthOK(c, files, db)
    BY <1>1, <1>2, <1>7 DEF TruthOK
<1>10. ReadOK(c, files)
  <2>1. n <= Len(files)
      OBVIOUS
  <2>2. newest.time <= newest.time
      BY <1>5 DEF Sample
  <2>3. Excused(c) \/ Ahead(c, files)
      BY <1>4, <1>7, <2>2 DEF Excused, Ahead
  <2> QED
      BY <1>7, <2>1, <2>3 DEF ReadOK
<1>11. FoundOK(c) /\ NoneOK(c) /\ Caused(c)
    BY <1>7, <1>8 DEF FoundOK, NoneOK, Caused
<1> QED
    BY <1>2, <1>7, <1>9, <1>10, <1>11, Stepped

LEMMA ReadRight ==
    ASSUME IInv, Read
    PROVE  IInv'
<1>1. /\ Types /\ FilesOK(files, db, clock) /\ TruthOK(check, files, db)
      /\ ReadOK(check, files) /\ FoundOK(check) /\ NoneOK(check)
    BY DEF IInv
<1> PICK k \in Checking : k = check
    BY <1>1 DEF Types
<1> PICK n \in Nat : n = Len(files)
    BY <1>1 DEF Types
<1> PICK left \in Nat, now \in Int, since \in Int :
        left = k.left /\ now = k.now /\ since = k.newest.time
    BY DEF Checking, Sample
<1>2. k.at = "read" /\ left > 0
    BY DEF Read
<1>3. left <= n /\ (Excused(k) \/ Ahead(k, files))
    BY <1>1, <1>2 DEF ReadOK
<1>4. files \in Seq(File) /\ DOMAIN files = 1 .. n /\ left \in 1 .. n
    BY <1>1, <1>2, <1>3 DEF Types
<1> PICK f \in File : f = files[left]
    BY <1>4
<1> PICK s \in Sample : s = Complete(f) /\ s \in Lines(f)
    BY FileLines
<1> PICK time \in Int : time = s.time
    BY DEF Sample
<1>5. k.found = NoSample /\ k.verdict = "none"
    BY <1>1, <1>2 DEF FoundOK, NoneOK
<1>6. MaxAge \in Nat
    BY TruthAssumption
<1>7. CASE f.tail # "part" /\ s # NoSample /\ now - time <= MaxAge
  <2>1. Step([k EXCEPT !.at = "judge", !.found = s])
      BY <1>2, <1>7 DEF Read, Fresh
  <2> PICK c : c = [k EXCEPT !.at = "judge", !.found = s]
      OBVIOUS
  <2>2. /\ c \in Checking /\ c.at = "judge" /\ c.found = s /\ c.truth = k.truth
        /\ c.now = now /\ c.skipped = k.skipped /\ c.newest = k.newest
        /\ c.verdict = k.verdict
      BY DEF Checking
  <2>3. Agree(s, k.truth)
      BY <1>1, <1>2, <1>4 DEF TruthOK
  <2>4. k.skipped \/ since <= time
    <3>1. CASE k.newest = NoSample
      <4>1. since = -1
          BY <3>1, NoSampleOK
      <4>2. Honest(s, db, clock)
          BY <1>1, <1>4 DEF FilesOK, FileOK
      <4>3. time \in Nat
          BY <1>1, <1>7, <4>2, SampleTimes DEF Types
      <4> QED
          BY <4>1, <4>3
    <3>2. CASE now - since > MaxAge
        BY <3>2, <1>6, <1>7
    <3>3. CASE Ahead(k, files)
      <4> PICK i \in 1 .. left : /\ Complete(files[i]) # NoSample
                                 /\ since <= Complete(files[i]).time
          BY <3>3 DEF Ahead
      <4>1. i \in 1 .. n /\ files[i] \in File
          BY <1>3, <1>4
      <4>2. Complete(files[i]) \in Lines(files[i]) /\ Complete(files[i]) \in Sample
          BY <4>1, FileLines
      <4>3. CASE i = left
          BY <4>3
      <4>4. CASE i < left
        <5> PICK t \in Int : t = Complete(files[i]).time
            BY <4>2 DEF Sample
        <5>1. t <= time
            BY <1>1, <1>4, <1>7, <4>1, <4>2, <4>4 DEF FilesOK, Ordered
        <5> QED
            BY <5>1
      <4> QED
          BY <4>3, <4>4
    <3> QED
        BY <1>3, <3>1, <3>2, <3>3 DEF Excused
  <2>5. TruthOK(c, files, db)
      BY <1>1, <1>2, <2>2 DEF TruthOK
  <2>6. FoundOK(c)
      BY <1>7, <2>2, <2>3, <2>4 DEF FoundOK
  <2>7. ReadOK(c, files) /\ NoneOK(c) /\ Caused(c)
      BY <1>5, <1>7, <2>2 DEF ReadOK, NoneOK, Caused
  <2> QED
      BY <2>1, <2>2, <2>5, <2>6, <2>7, Stepped
<1>8. CASE ~ (f.tail # "part" /\ s # NoSample /\ now - time <= MaxAge)
  <2> PICK part \in BOOLEAN : part = (f.tail = "part")
      OBVIOUS
  <2> PICK skipped \in BOOLEAN : skipped = (k.skipped \/ part)
      OBVIOUS
  <2> PICK next \in Nat : next = left - 1
      BY <1>2
  <2>1. Step([k EXCEPT !.left = @ - 1, !.skipped = @ \/ f.tail = "part"])
      BY <1>2, <1>8 DEF Read, Fresh
  <2> PICK c : c = [k EXCEPT !.left = next, !.skipped = skipped]
      OBVIOUS
  <2>2. c = [k EXCEPT !.left = @ - 1, !.skipped = @ \/ f.tail = "part"]
    <3>1. skipped = (k.skipped \/ f.tail = "part") /\ next = k.left - 1
        BY Zenon
    <3> QED
        BY <3>1, Zenon
  <2>3. /\ c \in Checking /\ c.at = "read" /\ c.found = k.found /\ c.truth = k.truth
        /\ c.left = next /\ c.now = now /\ c.skipped = skipped /\ c.newest = k.newest
        /\ c.verdict = k.verdict
      BY <1>2 DEF Checking
  <2>4. Excused(k) => Excused(c)
      BY <2>3, Zenon DEF Excused
  <2>5. ASSUME Ahead(k, files) PROVE Excused(c) \/ Ahead(c, files)
    <3> PICK i \in 1 .. left : /\ Complete(files[i]) # NoSample
                               /\ since <= Complete(files[i]).time
        BY <2>5 DEF Ahead
    <3>1. CASE i = left
      <4>1. s # NoSample /\ since <= time
          BY <3>1
      <4>2. CASE f.tail = "part"
          BY <4>2, <2>3, Zenon DEF Excused
      <4>3. CASE ~ (now - time <= MaxAge)
        <5>1. now - since > MaxAge
            BY <4>1, <4>3, <1>6
        <5> QED
            BY <5>1, <2>3 DEF Excused
      <4> QED
          BY <4>1, <4>2, <4>3, <1>8
    <3>2. CASE i # left
      <4>1. i \in 1 .. next
          BY <3>2
      <4> QED
          BY <4>1, <2>3 DEF Ahead
    <3> QED
        BY <3>1, <3>2
  <2>6. ReadOK(c, files)
    <3>1. next <= Len(files)
        BY <1>3
    <3> QED
        BY <3>1, <1>3, <2>3, <2>4, <2>5 DEF ReadOK
  <2>7. TruthOK(c, files, db) /\ FoundOK(c) /\ NoneOK(c) /\ Caused(c)
      BY <1>1, <1>2, <1>5, <2>3 DEF TruthOK, FoundOK, NoneOK, Caused
  <2> QED
      BY <2>1, <2>2, <2>3, <2>6, <2>7, Stepped
<1> QED
    BY <1>7, <1>8

LEMMA ReadNoneRight ==
    ASSUME IInv, ReadNone
    PROVE  IInv'
<1>1. /\ Types /\ TruthOK(check, files, db) /\ ReadOK(check, files)
      /\ FoundOK(check) /\ NoneOK(check)
    BY DEF IInv
<1> PICK k \in Checking : k = check
    BY <1>1 DEF Types
<1>2. k.at = "read" /\ k.left = 0 /\ Step([k EXCEPT !.at = "judge"])
    BY DEF ReadNone
<1>3. Excused(k) /\ k.found = NoSample /\ k.verdict = "none"
    BY <1>1, <1>2 DEF ReadOK, Ahead, FoundOK, NoneOK
<1> PICK c : c = [k EXCEPT !.at = "judge"]
    OBVIOUS
<1>4. /\ c \in Checking /\ c.at = "judge" /\ c.found = k.found /\ c.truth = k.truth
      /\ c.now = k.now /\ c.skipped = k.skipped /\ c.newest = k.newest
      /\ c.verdict = k.verdict
    BY DEF Checking
<1>5. Excused(c)
    BY <1>3, <1>4, Zenon DEF Excused
<1>6. /\ TruthOK(c, files, db) /\ ReadOK(c, files) /\ FoundOK(c)
      /\ NoneOK(c) /\ Caused(c)
    BY <1>1, <1>2, <1>3, <1>4, <1>5 DEF TruthOK, ReadOK, FoundOK, NoneOK, Caused
<1> QED
    BY <1>2, <1>4, <1>6, Stepped

\* A sample that agrees with the database passes, unless it leaves the ratio out.
LEMMA AgreePasses ==
    ASSUME NEW g \in Sample, NEW s \in Sample, s.hit # 0,
           g.hit = s.hit, g.read = s.read, g.size = s.size
    PROVE  AllPassed(g, s)
<1> PICK h \in Nat, r \in Nat, z \in Nat : h = s.hit /\ r = s.read /\ z = s.size
    BY DEF Sample
<1>1. \A a \in Int : Abs(a - a) = 0
    BY DEF Abs
<1>2. \A a, b \in Nat : a * b \in Nat
    OBVIOUS
<1>3. RatioPart \in Nat /\ CounterPart \in Nat /\ SizeTolerance \in Nat
    BY TruthAssumption
<1>4. h > 0 /\ h + r \in Nat /\ h + r # 0
    OBVIOUS
<1>5. RatioClose(g, s)
  <2>1. h * (h + r) \in Nat
      BY <1>2, <1>4
  <2>2. Abs(h * (h + r) - h * (h + r)) = 0
      BY <1>1, <2>1
  <2>3. (h + r) * (h + r) \in Nat
      BY <1>2, <1>4
  <2>4. 0 * RatioPart <= (h + r) * (h + r)
      BY <1>3, <2>3
  <2> QED
      BY <1>4, <2>2, <2>4 DEF RatioClose
<1>6. \A a \in Nat : CounterClose(a, a)
    BY <1>1, <1>3 DEF CounterClose
<1>7. SizeClose(z, z)
    BY <1>1, <1>3 DEF SizeClose
<1> QED
    BY <1>5, <1>6, <1>7 DEF AllPassed

LEMMA JudgeRight ==
    ASSUME IInv, Judge
    PROVE  IInv'
<1>1. Types /\ TruthOK(check, files, db) /\ FoundOK(check) /\ NoneOK(check)
    BY DEF IInv
<1> PICK k \in Checking : k = check
    BY <1>1 DEF Types
<1> PICK verdict \in {"PASS", "FAIL"} :
        verdict = IF k.found # NoSample /\ AllPassed(k.truth, k.found) THEN "PASS" ELSE "FAIL"
    OBVIOUS
<1>2. k.at = "judge" /\ Step([k EXCEPT !.at = "idle", !.verdict = verdict])
    BY DEF Judge
<1> PICK c : c = [k EXCEPT !.at = "idle", !.verdict = verdict]
    OBVIOUS
<1>3. /\ c \in Checking /\ c.at = "idle" /\ c.found = k.found /\ c.truth = k.truth
      /\ c.now = k.now /\ c.skipped = k.skipped /\ c.newest = k.newest
      /\ c.verdict = verdict
    BY DEF Checking
<1>4. Caused(c)
  <2> SUFFICES ASSUME verdict = "FAIL"
               PROVE  \/ k.found = NoSample /\ Excused(k)
                      \/ k.found # NoSample /\ (\/ k.found.hit = 0
                                                \/ k.found.version # k.truth.version)
      BY <1>3, Zenon DEF Caused, Excused
  <2>1. CASE k.found = NoSample
      BY <2>1, <1>1, <1>2 DEF NoneOK
  <2>2. CASE k.found # NoSample
    <3>1. ~ AllPassed(k.truth, k.found)
        BY <2>2
    <3>2. Agree(k.found, k.truth) /\ k.found \in Sample /\ k.truth \in Sample
        BY <2>2, <1>1 DEF FoundOK, Checking
    <3> QED
        BY <2>2, <3>1, <3>2, AgreePasses DEF Agree
  <2> QED
      BY <2>1, <2>2
<1>5. FoundOK(c)
    BY <1>1, <1>3 DEF FoundOK
<1>6. TruthOK(c, files, db) /\ ReadOK(c, files) /\ NoneOK(c)
    BY <1>3 DEF TruthOK, ReadOK, NoneOK
<1> QED
    BY <1>2, <1>3, <1>4, <1>5, <1>6, Stepped

LEMMA NextRight ==
    ASSUME IInv, [Next]_vars
    PROVE  IInv'
<1>1. CASE Tick \/ Change
    BY <1>1, TickRight, ChangeRight
<1>2. CASE BeginLine \/ FillLine \/ EndLine \/ NewFile
    BY <1>2, WriteSteps, NewFileRight
<1>3. CASE Verify \/ ReadRaises \/ TakeSnapshot \/ List
    BY <1>3, VerifyRight, TakeSnapshotRight, ListRight
<1>4. CASE Read \/ ReadNone \/ Judge
    BY <1>4, ReadRight, ReadNoneRight, JudgeRight
<1>5. CASE UNCHANGED vars
  <2>1. clock' = clock /\ db' = db /\ files' = files /\ check' = check
      BY <1>5 DEF vars
  <2> QED
      BY <2>1 DEF IInv, Types, FailHasCause
<1> QED
    BY <1>1, <1>2, <1>3, <1>4, <1>5 DEF Next

LEMMA InitRight == Init => IInv
<1> SUFFICES ASSUME Init PROVE IInv
    OBVIOUS
<1>1. /\ clock = 0 /\ db = [hit |-> 0, read |-> 0, size |-> 0, version |-> 0]
      /\ files = <<>> /\ check = NoCheck
    BY DEF Init
<1>2. Types
    BY <1>1, NoCheckOK DEF Types, Database
<1>3. DOMAIN files = {}
    BY <1>1
<1>4. FilesOK(files, db, clock)
    BY <1>3 DEF FilesOK, Ordered
<1>5. /\ TruthOK(check, files, db) /\ ReadOK(check, files)
      /\ FoundOK(check) /\ NoneOK(check) /\ FailHasCause
    BY <1>1, NoCheckOK DEF TruthOK, ReadOK, FoundOK, NoneOK, FailHasCause
<1> QED
    BY <1>2, <1>4, <1>5 DEF IInv

LEMMA Invariant == Spec => []IInv
<1>1. IInv /\ [Next]_vars => IInv'
    BY NextRight
<1> QED
    BY InitRight, <1>1, PTL DEF Spec

-----------------------------------------------------------------------------
(* What the invariant says *)

\* While the collector writes and rotates under find_latest_sample
\* (jsonl_reader.py:45-72), for any number of files and samples: the sample
\* that is compared is no older than the limit and, unless a line was found half
\* written, no older than the newest there was when the files were listed.
THEOREM SampleNewest == Spec => []NewestSample
<1>1. IInv => NewestSample
  <2> SUFFICES ASSUME IInv, check.found # NoSample
               PROVE  /\ check.now - check.found.time <= MaxAge
                      /\ check.skipped \/ check.found.time >= check.newest.time
      BY DEF NewestSample
  <2> PICK k \in Checking : k = check /\ FoundOK(k)
      BY DEF IInv, Types
  <2> PICK found \in Int, newest \in Int : found = k.found.time /\ newest = k.newest.time
      BY DEF Checking, Sample
  <2>1. k.now - found <= MaxAge /\ (k.skipped \/ newest <= found)
      BY DEF FoundOK
  <2> QED
      BY <2>1
<1> QED
    BY <1>1, Invariant, PTL

\* An honest collector is failed only for a reason, for any tolerances: what agrees with
\* the database passes every comparison (cache_memory.py:99-227).
THEOREM FailCaused == Spec => []FailHasCause
<1>1. IInv => FailHasCause
    BY DEF IInv
<1> QED
    BY <1>1, Invariant, PTL

-----------------------------------------------------------------------------
(* The safety monitor: what is picked is the oldest *)

\* Of the rows that table t has, those picked are the oldest, whoever has deleted
\* or inserted rows since.
OldestOf(t, picked) ==
    \A p \in picked : p \in 1 .. inserted[t] /\ \A r \in rows[t] : r <= p => r \in picked

MonitorPicked == monitor.at = "delete" => OldestOf(Tables[monitor.i], monitor.picked)
RequestsPicked ==
    \A r \in Requests : request[r].at = "picked" => OldestOf(request[r].table, request[r].picked)

\* Somebody at work is at work on a table.
TablesKnown ==
    /\ monitor.at # "sleep" => monitor.i \in DOMAIN Tables
    /\ \A r \in Requests : request[r].at # "idle" => request[r].table \in Names

PruneInv == TypeOK /\ TablesKnown /\ MonitorPicked /\ RequestsPicked /\ LatestKept

LEMMA NamesFacts ==
    /\ Names = {Tables[i] : i \in DOMAIN Tables} /\ DOMAIN Tables = 1 .. Len(Tables)
    /\ Len(Tables) \in Nat /\ Limits \in [Names -> Nat] /\ MaxRows \in [Names -> Nat]
    /\ PruneToPct \in 0 .. 100 /\ PruneBatchSize \in Nat \ {0} /\ MaxFaults \in Nat
BY SafetyAssumption DEF SafetyAssumption, Names, Range

\* A target is a number no greater than the limit.
LEMMA TargetBelow ==
    ASSUME NEW t \in Names
    PROVE  Target(t) \in Nat /\ Target(t) <= Limits[t]
<1>1. Limits[t] \in Nat /\ PruneToPct \in 0 .. 100
  BY NamesFacts
<1>2. ASSUME NEW l \in Nat, NEW p \in 0 .. 100
      PROVE  l * p \in Nat /\ l * p <= l * 100
  <2>1. l * (100 - p) \in Nat
    BY SMT
  <2> QED
    BY <2>1, SMT
<1>3. ASSUME NEW a \in Nat, NEW l \in Nat, a <= l * 100
      PROVE  a \div 100 \in Nat /\ a \div 100 <= l
  BY <1>3, SMT
<1> QED
  BY <1>1, <1>2, <1>3 DEF Target

\* A batch is a part of what is left.
LEMMA BatchBelow ==
    ASSUME NEW left \in Nat
    PROVE  Batch(left) \in Nat /\ Batch(left) <= left
<1>1. \E x \in {left, PruneBatchSize} : \A y \in {left, PruneBatchSize} : x <= y
  <2>1. left \in Nat /\ PruneBatchSize \in Nat
    BY NamesFacts
  <2> QED
    BY <2>1
<1>2. /\ Batch(left) \in {left, PruneBatchSize}
      /\ \A y \in {left, PruneBatchSize} : Batch(left) <= y
  BY <1>1 DEF Batch, Min
<1> QED
  BY <1>2, NamesFacts

LEMMA MaxIsNat ==
    ASSUME NEW n \in Int
    PROVE  Max({0, n}) \in Nat
<1>1. \E x \in {0, n} : \A y \in {0, n} : x >= y
  OBVIOUS
<1> QED
  BY <1>1 DEF Max

LEMMA RowsFinite ==
    ASSUME TypeOK, NEW t \in Names, NEW S \in SUBSET rows[t]
    PROVE  IsFiniteSet(S) /\ Cardinality(S) \in Nat
<1>1. inserted[t] \in Int /\ S \in SUBSET (1 .. inserted[t])
  <2>1. inserted[t] \in Nat /\ rows[t] \subseteq 1 .. inserted[t]
    BY DEF TypeOK
  <2> QED
    BY <2>1
<1>2. IsFiniteSet(1 .. inserted[t])
  BY <1>1, FS_Interval
<1> QED
  BY <1>1, <1>2, FS_Subset, FS_CardinalityType

\* The oldest n rows are the oldest, whatever n is.
LEMMA OldestIsOldest ==
    ASSUME TypeOK, NEW t \in Names, NEW n \in Nat
    PROVE  OldestOf(t, Oldest(t, n)) /\ Oldest(t, n) \subseteq Nat
<1>1. rows[t] \subseteq 1 .. inserted[t] /\ inserted[t] \in Nat
  BY DEF TypeOK
<1>2. ASSUME NEW p \in Oldest(t, n), NEW r \in rows[t], r <= p
      PROVE  r \in Oldest(t, n)
  <2> DEFINE upTo(s) == {u \in rows[t] : u <= s}
  <2>1. p \in rows[t] /\ Cardinality(upTo(p)) <= n
    BY DEF Oldest
  <2>2. upTo(r) \in SUBSET upTo(p)
    BY <1>1, <1>2, <2>1
  <2>3. IsFiniteSet(upTo(p)) /\ Cardinality(upTo(p)) \in Nat /\ Cardinality(upTo(r)) \in Nat
    BY RowsFinite, <2>2
  <2>4. Cardinality(upTo(r)) <= Cardinality(upTo(p))
    BY <2>2, <2>3, FS_Subset
  <2>5. Cardinality(upTo(r)) <= n
    BY <2>1, <2>3, <2>4
  <2> QED
    BY <2>5 DEF Oldest
<1> QED
  BY <1>1, <1>2 DEF OldestOf, Oldest

\* What is left after the oldest have gone, whoever picked them and when, is the latest.
LEMMA RemoveKeeps ==
    ASSUME PruneInv, NEW t \in Names, NEW picked \in SUBSET Nat, OldestOf(t, picked),
           RemoveRows(t, picked)
    PROVE  /\ LatestKept' /\ rows' \in [Names -> SUBSET Nat] /\ inserted' = inserted
           /\ \A u \in Names : rows'[u] \subseteq rows[u]
           /\ estimate' = estimate /\ unreported' \in [Names -> Int]
<1>1. /\ inserted' = inserted /\ estimate' = estimate
      /\ rows' = [rows EXCEPT ![t] = rows[t] \ picked]
      /\ rows \in [Names -> SUBSET Nat] /\ inserted \in [Names -> Nat]
      /\ \A u \in Names : rows[u] \subseteq 1 .. inserted[u]
  BY DEF RemoveRows, PruneInv, TypeOK
<1>2. Cardinality(picked \cap rows[t]) \in Nat
  BY RowsFinite DEF PruneInv
<1>3. unreported' \in [Names -> Int]
  <2> DEFINE gone == Cardinality(picked \cap rows[t])
  <2>1. unreported' = [unreported EXCEPT ![t] = unreported[t] - gone]
    BY DEF RemoveRows
  <2>2. unreported \in [Names -> Int] /\ gone \in Nat
    BY <1>2 DEF PruneInv, TypeOK
  <2> HIDE DEF gone
  <2> QED
    BY <2>1, <2>2
<1>4. \A u \in Names : rows'[u] = IF u = t THEN rows[t] \ picked ELSE rows[u]
  BY <1>1
<1>5. ASSUME NEW u \in Names, NEW r \in rows'[u], NEW s \in r .. inserted[u]
      PROVE  s \in rows'[u]
  <2>1. r \in rows[u] /\ r \in Nat /\ s \in rows[u] /\ r <= s
    BY <1>1, <1>4 DEF PruneInv, LatestKept
  <2>2. CASE u = t
    BY <1>4, <2>1, <2>2 DEF OldestOf
  <2>3. CASE u # t
    BY <1>4, <2>1, <2>3
  <2> QED
    BY <2>2, <2>3
<1>6. LatestKept'
  BY <1>1, <1>5 DEF LatestKept
<1> QED
  BY <1>1, <1>3, <1>4, <1>6

\* What was picked stays the oldest while rows go.
LEMMA PickedStays ==
    ASSUME NEW t \in Names, NEW picked, OldestOf(t, picked),
           inserted' = inserted, rows'[t] \subseteq rows[t]
    PROVE  OldestOf(t, picked)'
BY DEF OldestOf

-----------------------------------------------------------------------------
(* One lemma per kind of step *)

MonitorState ==
    [at : {"sleep", "table", "batch", "delete"}, i : 0 .. Len(Tables), left : Nat,
     picked : SUBSET Nat]
RequestState ==
    [at : {"idle", "ready", "picked"}, table : Names \cup {""}, n : Nat, picked : SUBSET Nat]

Shape ==
    /\ monitor \in MonitorState
    /\ request \in [Requests -> RequestState]

\* The pass goes on with the next table, or ends.
LEMMA NextTableOK ==
    ASSUME Shape, NextTable
    PROVE  /\ monitor' \in MonitorState /\ monitor'.at \in {"sleep", "table"}
           /\ monitor'.at # "sleep" => monitor'.i \in DOMAIN Tables
<1>1. monitor.i \in 0 .. Len(Tables) /\ Len(Tables) \in Nat /\ DOMAIN Tables = 1 .. Len(Tables)
  BY NamesFacts DEF Shape, MonitorState
<1>2. CASE monitor.i < Len(Tables)
  <2>1. monitor' = [at |-> "table", i |-> monitor.i + 1, left |-> 0, picked |-> {}]
    BY <1>2 DEF NextTable, At
  <2>2. monitor.i + 1 \in 0 .. Len(Tables) /\ monitor.i + 1 \in DOMAIN Tables
    BY <1>1, <1>2
  <2> QED
    BY <2>1, <2>2 DEF MonitorState
<1>3. CASE ~(monitor.i < Len(Tables))
  <2>1. monitor' = [at |-> "sleep", i |-> 0, left |-> 0, picked |-> {}]
    BY <1>3 DEF NextTable, Sleep, At
  <2> QED
    BY <1>1, <2>1 DEF MonitorState
<1> QED
  BY <1>2, <1>3

\* Steps of the database: rows are inserted, and the statistics change.
LEMMA DatabaseSteps ==
    ASSUME PruneInv, NEW t \in Names,
           Insert(t) \/ Report(t) \/ Analyze(t) \/ ResetStats
    PROVE  PruneInv'
<1>1. UNCHANGED <<monitor, request>>
  BY DEF Insert, Report, Analyze, ResetStats
<1>2. /\ rows \in [Names -> SUBSET Nat] /\ inserted \in [Names -> Nat]
      /\ MaxRows \in [Names -> Nat] /\ MaxFaults \in Nat
      /\ estimate \in [Names -> Nat] /\ unreported \in [Names -> Int]
      /\ faults \in 0 .. MaxFaults
      /\ \A u \in Names : inserted[u] <= MaxRows[u] /\ rows[u] \subseteq 1 .. inserted[u]
      /\ \A u \in Names : \A r \in rows[u] : (r .. inserted[u]) \subseteq rows[u]
  BY NamesFacts DEF PruneInv, TypeOK, LatestKept
<1>3. CASE Insert(t)
  <2>1. /\ \A u \in Names : inserted'[u] = IF u = t THEN inserted[t] + 1 ELSE inserted[u]
        /\ \A u \in Names : rows'[u] = IF u = t THEN rows[t] \cup {inserted[t] + 1} ELSE rows[u]
        /\ rows' \in [Names -> SUBSET Nat] /\ inserted' \in [Names -> Nat]
        /\ unreported' \in [Names -> Int] /\ UNCHANGED <<estimate, faults>>
        /\ inserted[t] < MaxRows[t]
    BY <1>2, <1>3 DEF Insert
  <2>2. \A u \in Names : inserted'[u] <= MaxRows[u] /\ rows'[u] \subseteq 1 .. inserted'[u]
    BY <1>2, <2>1
  <2>3. TypeOK'
    BY <1>1, <1>2, <2>1, <2>2 DEF PruneInv, TypeOK
  <2>4. LatestKept'
    BY <1>2, <2>1 DEF LatestKept
  <2>5. ASSUME NEW u \in Names, NEW picked, OldestOf(u, picked)
        PROVE  OldestOf(u, picked)'
    <3>1. CASE u # t
      BY <2>1, <2>5, <3>1 DEF OldestOf
    <3>2. CASE u = t
      <4>1. \A p \in picked : p \in 1 .. inserted[t] /\ \A r \in rows[t] : r <= p => r \in picked
        BY <2>5, <3>2 DEF OldestOf
      <4>2. inserted'[t] = inserted[t] + 1 /\ rows'[t] = rows[t] \cup {inserted[t] + 1}
        BY <2>1
      <4> QED
        BY <1>2, <3>2, <4>1, <4>2 DEF OldestOf
    <3> QED
      BY <3>1, <3>2
  <2> QED
    BY <1>1, <2>3, <2>4, <2>5, NamesFacts
       DEF PruneInv, MonitorPicked, RequestsPicked, TablesKnown
<1>4. CASE Report(t) \/ Analyze(t) \/ ResetStats
  <2>1. UNCHANGED <<rows, inserted>>
    BY <1>4 DEF Report, Analyze, ResetStats
  <2>2. Cardinality(rows[t]) \in Nat /\ Max({0, estimate[t] + unreported[t]}) \in Nat
    BY <1>2, RowsFinite, MaxIsNat DEF PruneInv
  <2>3. estimate' \in [Names -> Nat] /\ unreported' \in [Names -> Int] /\ faults' \in 0 .. MaxFaults
    <3>1. CASE Report(t)
      BY <1>2, <2>2, <3>1 DEF Report
    <3>2. CASE Analyze(t)
      BY <1>2, <2>2, <3>2 DEF Analyze
    <3>3. CASE ResetStats
      BY <1>2, <3>3 DEF ResetStats
    <3> QED
      BY <1>4, <3>1, <3>2, <3>3
  <2> QED
    BY <1>1, <2>1, <2>3 DEF PruneInv, TypeOK, TablesKnown, MonitorPicked, RequestsPicked,
       LatestKept, OldestOf
<1> QED
  BY <1>3, <1>4

\* Steps of the pass that delete nothing.
LEMMA PassSteps ==
    ASSUME PruneInv, Wake \/ CheckTable \/ PickBatch \/ NoColumn \/ MonitorError
    PROVE  PruneInv'
<1>1. UNCHANGED <<database, request>>
  BY DEF Wake, CheckTable, PickBatch, NoColumn, MonitorError
<1>2. UNCHANGED <<rows, inserted, estimate, unreported>>
  BY <1>1 DEF database
<1>3. Shape /\ estimate \in [Names -> Nat] /\ faults \in 0 .. MaxFaults
  BY DEF PruneInv, TypeOK, Shape, MonitorState, RequestState
<1>4. /\ faults' \in 0 .. MaxFaults
      /\ monitor' \in MonitorState
      /\ monitor'.at # "sleep" => monitor'.i \in DOMAIN Tables
      /\ MonitorPicked'
  <2>1. CASE Wake
    BY <1>3, <2>1, NamesFacts DEF Wake, At, MonitorPicked, MonitorState
  <2>2. CASE CheckTable
    <3> DEFINE t == Tables[monitor.i]
    <3>1. t \in Names /\ monitor.i \in DOMAIN Tables
      BY <2>2, NamesFacts DEF CheckTable, PruneInv, TablesKnown
    <3>2. /\ estimate[t] \in Nat /\ Target(t) \in Nat /\ Target(t) <= Limits[t]
          /\ Limits[t] \in Nat
      BY <1>3, <3>1, TargetBelow, NamesFacts
    <3>3. CASE estimate[t] <= Limits[t]
      <4>1. NextTable /\ UNCHANGED faults
        BY <2>2, <3>3 DEF CheckTable
      <4> QED
        BY <1>3, <4>1, NextTableOK DEF MonitorPicked
    <3>4. CASE ~(estimate[t] <= Limits[t])
      <4>1. estimate[t] - Target(t) \in Nat
        BY <3>2, <3>4
      <4>2. monitor' = [monitor EXCEPT !.at = "batch", !.left = estimate[t] - Target(t)]
        BY <2>2, <3>4 DEF CheckTable
      <4> QED
        BY <1>3, <2>2, <3>1, <4>1, <4>2 DEF CheckTable, MonitorPicked, Shape, MonitorState
    <3> QED
      BY <3>3, <3>4
  <2>3. CASE PickBatch
    <3> DEFINE t == Tables[monitor.i]
    <3>1. t \in Names /\ monitor.i \in DOMAIN Tables
      BY <2>3, NamesFacts DEF PickBatch, PruneInv, TablesKnown
    <3>2. Batch(monitor.left) \in Nat
      BY <1>3, BatchBelow DEF Shape, MonitorState
    <3>3. OldestOf(t, Oldest(t, Batch(monitor.left))) /\ Oldest(t, Batch(monitor.left)) \subseteq Nat
      BY <3>1, <3>2, OldestIsOldest DEF PruneInv
    <3>4. monitor' = [monitor EXCEPT !.at = "delete", !.picked = Oldest(t, Batch(monitor.left))]
      BY <2>3 DEF PickBatch
    <3>5. /\ monitor'.at = "delete" /\ monitor'.i = monitor.i
          /\ monitor'.picked = Oldest(t, Batch(monitor.left))
      BY <1>3, <3>4 DEF Shape, MonitorState
    <3>6. MonitorPicked'
      BY <1>2, <3>3, <3>5 DEF MonitorPicked, OldestOf
    <3> QED
      BY <1>3, <2>3, <3>1, <3>3, <3>4, <3>6 DEF PickBatch, Shape, MonitorState
  <2>4. CASE NoColumn \/ MonitorError
    BY <1>3, <2>4, NamesFacts DEF NoColumn, MonitorError, Sleep, At, MonitorPicked, MonitorState
  <2> QED
    BY <2>1, <2>2, <2>3, <2>4
<1> QED
  BY <1>1, <1>2, <1>4
     DEF PruneInv, TypeOK, MonitorState, TablesKnown, RequestsPicked, LatestKept, OldestOf

\* A batch is deleted.
LEMMA BatchStep ==
    ASSUME PruneInv, DeleteBatch
    PROVE  PruneInv'
<1> DEFINE t == Tables[monitor.i]
           left == monitor.left - Batch(monitor.left)
<1>1. Shape /\ monitor.at = "delete"
  BY DEF PruneInv, TypeOK, Shape, MonitorState, RequestState, DeleteBatch
<1>2. t \in Names /\ monitor.i \in DOMAIN Tables
  BY <1>1, NamesFacts DEF PruneInv, TablesKnown
<1>3. OldestOf(t, monitor.picked) /\ monitor.picked \in SUBSET Nat
  BY <1>1 DEF PruneInv, MonitorPicked, Shape, MonitorState
<1>4. RemoveRows(t, monitor.picked) /\ UNCHANGED <<request, faults>>
  BY DEF DeleteBatch
<1>5. /\ LatestKept' /\ rows' \in [Names -> SUBSET Nat] /\ inserted' = inserted
      /\ \A u \in Names : rows'[u] \subseteq rows[u]
      /\ estimate' = estimate /\ unreported' \in [Names -> Int]
  BY <1>2, <1>3, <1>4, RemoveKeeps
<1>6. left \in Nat
  <2>1. monitor.left \in Nat
    BY <1>1 DEF Shape, MonitorState
  <2>2. Batch(monitor.left) \in Nat /\ Batch(monitor.left) <= monitor.left
    BY <2>1, BatchBelow
  <2> QED
    BY <2>1, <2>2
<1>7. /\ monitor' \in MonitorState
      /\ monitor'.at # "delete"
      /\ monitor'.at # "sleep" => monitor'.i \in DOMAIN Tables
  <2>1. \/ monitor' = [monitor EXCEPT !.at = "batch", !.left = left, !.picked = {}]
        \/ NextTable
    BY DEF DeleteBatch
  <2> HIDE DEF left
  <2>2. CASE monitor' = [monitor EXCEPT !.at = "batch", !.left = left, !.picked = {}]
    BY <1>1, <1>2, <1>6, <2>2 DEF Shape, MonitorState
  <2>3. CASE NextTable
    BY <1>1, <2>3, NextTableOK
  <2> QED
    BY <2>1, <2>2, <2>3
<1>8. TypeOK'
  BY <1>4, <1>5, <1>7 DEF PruneInv, TypeOK, MonitorState
<1>9. RequestsPicked'
  BY <1>4, <1>5, PickedStays DEF PruneInv, RequestsPicked, TablesKnown
<1> QED
  BY <1>4, <1>5, <1>7, <1>8, <1>9 DEF PruneInv, TablesKnown, MonitorPicked

\* The requests, at any moment of the pass.
LEMMA RequestSteps ==
    ASSUME PruneInv, NEW r \in Requests,
           Request(r) \/ \E t \in Names : CountRows(r, t)
    PROVE  PruneInv'
<1>1. Shape
  BY DEF PruneInv, TypeOK, Shape, MonitorState, RequestState
<1>2. CASE PickOldest(r)
  <2> DEFINE t == request[r].table
             picked == Oldest(t, request[r].n)
  <2>1. t \in Names /\ request[r].n \in Nat
    BY <1>1, <1>2 DEF PickOldest, PruneInv, TablesKnown, Shape, RequestState
  <2>2. OldestOf(t, picked) /\ picked \in SUBSET Nat
    BY <2>1, OldestIsOldest DEF PruneInv
  <2>3. /\ request' = [request EXCEPT ![r] = [request[r] EXCEPT !.at = "picked", !.picked = picked]]
        /\ UNCHANGED <<rows, inserted, estimate, unreported, monitor, faults>>
    BY <1>1, <1>2 DEF PickOldest, database, Shape, RequestState
  <2> HIDE DEF picked
  <2>4. \A s \in Requests : request'[s] =
           IF s = r THEN [request[r] EXCEPT !.at = "picked", !.picked = picked] ELSE request[s]
    BY <1>1, <2>3 DEF Shape
  <2>5. Shape'
    BY <1>1, <2>2, <2>3 DEF Shape, RequestState
  <2>6. RequestsPicked'
    <3>1. /\ request'[r].table = t /\ request'[r].picked = picked
          /\ \A s \in Requests : s # r => request'[s] = request[s]
      BY <1>1, <2>4 DEF Shape, RequestState
    <3>2. \A s \in Requests : request'[s].at = "picked" =>
             OldestOf(request'[s].table, request'[s].picked)
      BY <2>2, <3>1 DEF PruneInv, RequestsPicked
    <3> QED
      BY <2>3, <3>2 DEF RequestsPicked, OldestOf
  <2>7. \A s \in Requests : request'[s].at # "idle" => request'[s].table \in Names
    BY <1>1, <2>1, <2>4 DEF PruneInv, TablesKnown, Shape, RequestState
  <2> QED
    BY <2>3, <2>5, <2>6, <2>7
       DEF PruneInv, TypeOK, Shape, MonitorState, RequestState, TablesKnown, MonitorPicked, LatestKept, OldestOf
<1>3. CASE DeleteOldest(r)
  <2> DEFINE t == request[r].table
  <2>1. t \in Names /\ OldestOf(t, request[r].picked) /\ request[r].picked \in SUBSET Nat
    BY <1>1, <1>3 DEF DeleteOldest, PruneInv, TablesKnown, RequestsPicked, Shape, RequestState
  <2>2. /\ RemoveRows(t, request[r].picked) /\ UNCHANGED <<monitor, faults>>
        /\ request' = [request EXCEPT ![r] = Idle]
    BY <1>3 DEF DeleteOldest
  <2>3. /\ LatestKept' /\ rows' \in [Names -> SUBSET Nat] /\ inserted' = inserted
        /\ \A u \in Names : rows'[u] \subseteq rows[u]
        /\ estimate' = estimate /\ unreported' \in [Names -> Int]
    BY <2>1, <2>2, RemoveKeeps
  <2>4. \A s \in Requests : request'[s] = IF s = r THEN Idle ELSE request[s]
    BY <1>1, <2>2 DEF Shape
  <2>5. Shape'
    BY <1>1, <2>2 DEF Shape, Idle, RequestState
  <2>6. TypeOK'
    BY <2>2, <2>3, <2>5 DEF PruneInv, TypeOK, Shape, MonitorState, RequestState
  <2>7. RequestsPicked'
    <3>1. Idle.at = "idle"
      BY DEF Idle
    <3>2. ASSUME NEW s \in Requests, request'[s].at = "picked"
          PROVE  OldestOf(request[s].table, request[s].picked)'
      <4>1. s # r /\ request'[s] = request[s]
        BY <2>4, <3>1, <3>2
      <4>2. request[s].table \in Names /\ OldestOf(request[s].table, request[s].picked)
        BY <3>2, <4>1 DEF PruneInv, RequestsPicked, TablesKnown
      <4> QED
        BY <2>3, <4>1, <4>2, PickedStays
    <3> QED
      BY <3>2 DEF RequestsPicked
  <2>8. MonitorPicked'
    BY <2>2, <2>3, PickedStays, NamesFacts DEF PruneInv, MonitorPicked, TablesKnown
  <2> QED
    <3>1. TablesKnown'
      <4>1. Idle.at = "idle"
        BY DEF Idle
      <4> QED
        BY <2>2, <2>4, <4>1 DEF PruneInv, TablesKnown
    <3> QED
      BY <2>3, <2>6, <2>7, <2>8, <3>1 DEF PruneInv
<1>4. CASE RequestFails(r) \/ \E t \in Names : CountRows(r, t)
  <2> DEFINE Becomes(q) ==
        /\ request' = [request EXCEPT ![r] = q] /\ q \in RequestState
        /\ q.at # "picked" /\ (q.at # "idle" => q.table \in Names)
  <2>1. PICK q : Becomes(q)
    <3>1. ASSUME RequestFails(r) PROVE \E q : Becomes(q)
      <4> WITNESS Idle
      <4> QED
        BY <3>1 DEF RequestFails, Idle, RequestState
    <3>2. ASSUME NEW t \in Names, CountRows(r, t) PROVE \E q : Becomes(q)
      <4> DEFINE n == Batch(Cardinality(rows[t]) - Target(t))
      <4>1. Cardinality(rows[t]) - Target(t) \in Nat
        <5>1. Cardinality(rows[t]) \in Nat /\ Target(t) \in Nat
          BY RowsFinite, TargetBelow DEF PruneInv
        <5>2. Cardinality(rows[t]) > Target(t)
          BY <3>2 DEF CountRows
        <5> QED
          BY <5>1, <5>2
      <4>2. n \in Nat
        BY <4>1, BatchBelow
      <4>3. request' = [request EXCEPT ![r] = [at |-> "ready", table |-> t, n |-> n, picked |-> {}]]
        BY <3>2 DEF CountRows
      <4> HIDE DEF n
      <4> WITNESS [at |-> "ready", table |-> t, n |-> n, picked |-> {}]
      <4> QED
        BY <4>2, <4>3 DEF RequestState
    <3> HIDE DEF Becomes
    <3> QED
      BY <1>4, <3>1, <3>2
  <2>2. UNCHANGED <<rows, inserted, estimate, unreported, monitor, faults>>
    BY <1>4 DEF RequestFails, CountRows, database
  <2>3. \A s \in Requests : request'[s] = IF s = r THEN q ELSE request[s]
    BY <1>1, <2>1 DEF Shape
  <2>4. Shape'
    BY <1>1, <2>1, <2>2 DEF Shape, RequestState
  <2>5. RequestsPicked'
    BY <2>1, <2>2, <2>3 DEF PruneInv, RequestsPicked, OldestOf
  <2> QED
    BY <2>1, <2>2, <2>3, <2>4, <2>5
       DEF PruneInv, TypeOK, Shape, MonitorState, RequestState, TablesKnown, MonitorPicked, LatestKept, OldestOf
<1> QED
  BY <1>2, <1>3, <1>4 DEF Request

-----------------------------------------------------------------------------
(* The theorems *)

LEMMA PruneStarts == MonitorInit => PruneInv
<1> SUFFICES ASSUME MonitorInit PROVE PruneInv
  OBVIOUS
<1>1. monitor = [at |-> "sleep", i |-> 0, left |-> 0, picked |-> {}]
  BY DEF MonitorInit, At
<1>2. request = [r \in Requests |-> [at |-> "idle", table |-> "", n |-> 0, picked |-> {}]]
  BY DEF MonitorInit, Idle
<1>3. rows = [t \in Names |-> {}] /\ inserted = [t \in Names |-> 0]
  BY DEF MonitorInit
<1>4. TypeOK
  <2>1. \A t \in Names : MaxRows[t] \in Nat
    BY NamesFacts
  <2>2. \A t \in Names : inserted[t] = 0 /\ rows[t] = {}
    BY <1>3
  <2>3. \A t \in Names : inserted[t] <= MaxRows[t] /\ rows[t] \subseteq 1 .. inserted[t]
    BY <2>1, <2>2
  <2>4. monitor \in [at : {"sleep", "table", "batch", "delete"}, i : 0 .. Len(Tables),
                     left : Nat, picked : SUBSET Nat]
    <3>1. 0 \in 0 .. Len(Tables)
      BY NamesFacts
    <3> QED
      BY <1>1, <3>1
  <2>5. request \in [Requests -> [at : {"idle", "ready", "picked"}, table : Names \cup {""},
                                  n : Nat, picked : SUBSET Nat]]
    BY <1>2
  <2>6. rows \in [Names -> SUBSET Nat] /\ inserted \in [Names -> Nat]
    BY <1>3
  <2>7. estimate \in [Names -> Nat] /\ unreported \in [Names -> Int]
    BY DEF MonitorInit
  <2>8. faults \in 0 .. MaxFaults
    BY NamesFacts DEF MonitorInit
  <2> QED
    BY <2>3, <2>4, <2>5, <2>6, <2>7, <2>8 DEF TypeOK
<1> QED
  BY <1>1, <1>2, <1>3, <1>4 DEF PruneInv, TablesKnown, MonitorPicked, RequestsPicked, LatestKept

LEMMA PruneSteps == PruneInv /\ [MonitorNext]_monitorVars => PruneInv'
<1> SUFFICES ASSUME PruneInv, [MonitorNext]_monitorVars PROVE PruneInv'
  OBVIOUS
<1>1. CASE MonitorNext
  <2>1. ASSUME NEW t \in Names, Insert(t) \/ Report(t) \/ Analyze(t) PROVE PruneInv'
    BY <2>1, DatabaseSteps
  <2>2. CASE ResetStats
    <3>1. ASSUME Names = {} PROVE PruneInv'
      <4>1. /\ UNCHANGED <<rows, inserted, unreported, monitor, request>>
            /\ estimate' \in [Names -> Nat] /\ faults' \in 0 .. MaxFaults
        <5>1. faults \in 0 .. MaxFaults /\ MaxFaults \in Nat
          BY NamesFacts DEF PruneInv, TypeOK
        <5> QED
          BY <2>2, <5>1 DEF ResetStats
      <4> QED
        BY <4>1 DEF PruneInv, TypeOK, TablesKnown, MonitorPicked, RequestsPicked, LatestKept,
           OldestOf
    <3>2. CASE Names # {}
      BY <2>2, <3>2, DatabaseSteps
    <3> QED
      BY <3>1, <3>2
  <2>3. CASE Pass \/ MonitorError
    BY <2>3, PassSteps, BatchStep DEF Pass
  <2>4. ASSUME NEW r \in Requests, Request(r) \/ \E t \in Names : CountRows(r, t) PROVE PruneInv'
    BY <2>4, RequestSteps
  <2> QED
    BY <1>1, <2>1, <2>2, <2>3, <2>4 DEF MonitorNext
<1>2. CASE UNCHANGED monitorVars
  BY <1>2 DEF monitorVars, database, PruneInv, TypeOK, TablesKnown, MonitorPicked, RequestsPicked,
     LatestKept, OldestOf
<1> QED
  BY <1>1, <1>2

LEMMA PruneHolds == MonitorSpec => []PruneInv
BY PruneStarts, PruneSteps, PTL DEF MonitorSpec

\* The safety monitor and the prune requests keep the shape of their state: what is
\* left to delete is never negative, and every request and pass is at a table.
THEOREM PruneTypes == MonitorSpec => []TypeOK
<1>1. PruneInv => TypeOK
  BY DEF PruneInv
<1> QED
  BY <1>1, PruneHolds, PTL

\* Whatever the statistics said, and however the passes of the monitor and any number
\* of prune requests overlap (safety_monitor.py:70-76, main.py:379-386): no row goes
\* before an older one.
THEOREM LatestStay == MonitorSpec => []LatestKept
<1>1. PruneInv => LatestKept
  BY DEF PruneInv
<1> QED
  BY <1>1, PruneHolds, PTL
=============================================================================
