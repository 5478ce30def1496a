----------------------------- MODULE LogsProofs -----------------------------
(***************************************************************************)
(* Proofs about the daily logs, for any number of writers, days, lines and *)
(* kept files: the line of append() is still there when it returns, and    *)
(* the follower prints each file from its beginning, in order.             *)
(***************************************************************************)
EXTENDS Logs, FiniteSetTheorems, WellFoundedInduction, TLAPS

\* Every step is small; what the provers may need is time.
USE ZenonT(60)

\* A later time is never of an earlier day, and no day is NoDay.
LEMMA DateGrows ==
    ASSUME NEW s \in Nat, NEW t \in Nat, s <= t
    PROVE  date(s) \in Nat \ {0} /\ date(s) <= date(t)
<1>1. /\ s \div DayLength \in Nat /\ t \div DayLength \in Nat
      /\ s \div DayLength <= t \div DayLength
  BY LogsAssumption, SMTT(60)
<1> QED
  BY <1>1, SMTT(60) DEF date

\* A nonempty set of numbers has a least element.
LEMMA Least ==
    ASSUME NEW T \in SUBSET Nat, T # {}
    PROVE  \E x \in T : \A y \in T : x <= y
<1>1. IsWellFoundedOn(OpToRel(<, Nat), Nat)
  BY NatLessThanWellFounded
<1>2. PICK x \in T : \A y \in T : ~(<<y, x>> \in OpToRel(<, Nat))
  BY <1>1, WFMin
<1>3. ASSUME NEW y \in T, y < x
      PROVE  <<y, x>> \in OpToRel(<, Nat)
  <2>1. <<y, x>> \in Nat \X Nat /\ <<y, x>>[1] < <<y, x>>[2]
    BY <1>3
  <2> QED
    BY <2>1 DEF OpToRel
<1>4. \A y \in T : ~(y < x)
  BY <1>2, <1>3
<1> QED
  BY <1>4, SMTT(60)

\* The days of the model are finitely many positive numbers.
LEMMA DaysFinite == IsFiniteSet(Days) /\ Days \subseteq Nat \ {0}
<1>1. date(MaxTime) \in Nat
  BY LogsAssumption, DateGrows, SMTT(60)
<1>2. IsFiniteSet(1 .. date(MaxTime))
  BY <1>1, FS_Interval, SMTT(60)
<1> QED
  BY <1>1, <1>2, SMTT(60) DEF Days

\* A nonempty set of days has a latest one.
LEMMA Greatest ==
    ASSUME NEW T \in SUBSET Days, T # {}
    PROVE  \E x \in T : \A y \in T : y <= x
<1> DEFINE U == {n \in Nat : \A y \in T : y <= n}
<1>1. date(MaxTime) \in U
  BY LogsAssumption, DateGrows, SMTT(60) DEF Days
<1>2. PICK x \in U : \A n \in U : x <= n
  BY <1>1, Least
<1>3. PICK z \in T : z > x - 1
  <2>1. SUFFICES ASSUME \A z \in T : ~(z > x - 1)
                 PROVE  FALSE
    OBVIOUS
  <2>2. PICK y \in T : TRUE
    OBVIOUS
  <2>3. x - 1 \in U
    BY <2>1, <2>2, DaysFinite, SMTT(60)
  <2> QED
    BY <1>2, <2>3, SMTT(60)
<1>4. z = x
  BY <1>3, DaysFinite, SMTT(60)
<1> QED
  BY <1>2, <1>4

\* The newest file is one of the files, and none is newer.
LEMMA NewestIs ==
    ASSUME NEW T \in SUBSET Days, T # {}
    PROVE  Newest(T) \in T /\ \A y \in T : y <= Newest(T)
  BY Greatest DEF Newest

\* Pruning leaves some of the files, at most Keep, and among them the newest; so
\* for each file there was, one that is as new is left.
LEMMA KeptNewest ==
    ASSUME NEW T \in SUBSET Days
    PROVE  /\ Kept(T) \subseteq T
           /\ \A y \in T : \E x \in Kept(T) : y <= x
           /\ \A x \in T : (\A y \in T : y <= x) => x \in Kept(T)
           /\ Cardinality(Kept(T)) <= Keep
<1>0. \A e \in T : e \in Nat
  BY DaysFinite
<1>1. \A d \in T : IsFiniteSet({e \in T : e > d})
  BY DaysFinite, FS_Subset
<1>2. ASSUME NEW x \in T, \A y \in T : y <= x
      PROVE  x \in Kept(T)
  <2>1. \A e \in T : ~(e > x)
    BY <1>0, <1>2, SMTT(60)
  <2>2. {e \in T : e > x} = {}
    BY <2>1
  <2> QED
    BY <2>2, FS_EmptySet, LogsAssumption, SMTT(60) DEF Kept
<1>3. ASSUME NEW y \in T
      PROVE  \E x \in Kept(T) : y <= x
  BY <1>2, Greatest
<1>4. Cardinality(Kept(T)) <= Keep
  <2>1. CASE Kept(T) = {}
    BY <2>1, FS_EmptySet, LogsAssumption, SMTT(60)
  <2>2. CASE Kept(T) # {}
    <3>1. PICK x \in Kept(T) : \A y \in Kept(T) : x <= y
      BY <2>2, Least, DaysFinite DEF Kept
    <3> DEFINE A == {e \in T : e > x}
    <3>2. IsFiniteSet(A) /\ Cardinality(A) \in Nat /\ Cardinality(A) < Keep /\ x \notin A
      BY <1>1, <3>1, FS_CardinalityType, DaysFinite, SMTT(60) DEF Kept
    <3>3. Kept(T) \subseteq A \cup {x}
      <4>1. \A y \in Kept(T) : y \in T /\ (y > x \/ y = x)
        BY <1>0, <3>1, SMTT(60) DEF Kept
      <4> QED
        BY <4>1
    <3>4. IsFiniteSet(A \cup {x}) /\ Cardinality(A \cup {x}) = Cardinality(A) + 1
      BY <3>2, FS_AddElement
    <3>5. /\ Cardinality(Kept(T)) <= Cardinality(A \cup {x})
          /\ IsFiniteSet(Kept(T))
      BY <3>3, <3>4, FS_Subset
    <3> QED
      BY <3>2, <3>4, <3>5, FS_CardinalityType, LogsAssumption, SMTT(60)
  <2> QED
    BY <2>1, <2>2
<1> QED
  BY <1>2, <1>3, <1>4 DEF Kept

-----------------------------------------------------------------------------
(* The writers' invariant.                                                 *)

\* The types that the proofs need.
Shape ==
    /\ now \in 0 .. MaxTime
    /\ pc \in [Writers -> {"idle", "locked", "stamped", "written"}]
    /\ stamp \in [Writers -> 0 .. MaxTime]
    /\ files \in [Days -> Seq(Nat)]
    /\ exists \in SUBSET Days
    /\ crashes \in Nat

\* No file is of a later day than today's.  A file with lines may have been
\* removed, but then a newer one exists.  Its lines are of its day, in order.
FilesInv ==
    /\ \A d \in exists : d <= date(now)
    /\ \A d \in Days :
        /\ files[d] # <<>> => \E e \in exists : d <= e
        /\ \A i \in 1 .. Len(files[d]) :
            /\ files[d][i] <= now /\ date(files[d][i]) = d
            /\ \A j \in 1 .. i : files[d][j] <= files[d][i]

\* Whoever is in append() holds the lock, so between reading the time and
\* returning nobody writes: no line and no file is later than the time read.
TurnInv ==
    \A w \in Writers :
        /\ pc[w] # "idle" => lock = w
        /\ stamp[w] <= now
        /\ pc[w] \in {"stamped", "written"} =>
             /\ \A d \in exists : d <= date(stamp[w])
             /\ \A d \in Days : \A i \in 1 .. Len(files[d]) : files[d][i] <= stamp[w]
        /\ pc[w] = "written" => date(stamp[w]) \in exists

WriterInv == Shape /\ FilesInv /\ TurnInv

\* What a step of the writers may do to a reader: files get longer, and a file is
\* only removed if one that is as new is left.
Grows == /\ \A d \in exists : \E e \in exists' : d <= e
         /\ \A d \in Days : Len(files[d]) <= Len(files'[d])

\* The file that Write opens, or creates anew, is the one that its lines are in: a
\* file that was removed is never created again, its day is past.
LEMMA WriteAppends ==
    ASSUME WriterInv, NEW w \in Writers, Write(w)
    PROVE  /\ date(stamp[w]) \in Days
           /\ files' = [files EXCEPT ![date(stamp[w])] = Append(@, stamp[w])]
<1>1. stamp[w] \in Nat /\ stamp[w] <= MaxTime /\ pc[w] = "stamped"
  BY LogsAssumption, SMTT(60) DEF WriterInv, Shape, Write
<1>2. date(stamp[w]) \in Days
  BY <1>1, LogsAssumption, DateGrows, SMTT(60) DEF Days
<1>3. date(stamp[w]) \notin exists => files[date(stamp[w])] = <<>>
  BY <1>1, <1>2, DaysFinite, SMTT(60) DEF WriterInv, Shape, FilesInv, TurnInv
<1> QED
  BY <1>2, <1>3 DEF Write, WriterInv, Shape

\* A written line is the last of its file, and of the newest file.
LEMMA WriteKeeps ==
    ASSUME WriterInv, NEW w \in Writers, Write(w)
    PROVE  WriterInv' /\ Grows
<1>1. PICK d \in Days : d = date(stamp[w])
  BY WriteAppends
<1>2. PICK t \in Nat : t = stamp[w] /\ t <= MaxTime
  BY LogsAssumption, SMTT(60) DEF WriterInv, Shape
<1>3. /\ files \in [Days -> Seq(Nat)] /\ now \in Nat /\ now <= MaxTime /\ pc[w] = "stamped"
      /\ d \in Nat /\ exists \subseteq Days
  BY LogsAssumption, DaysFinite, SMTT(60) DEF WriterInv, Shape, Write
<1>4. files' = [files EXCEPT ![d] = Append(@, t)]
  BY <1>1, <1>2, WriteAppends
<1>5. /\ files'[d] = Append(files[d], t) /\ files' \in [Days -> Seq(Nat)]
      /\ \A e \in Days \ {d} : files'[e] = files[e]
  BY <1>3, <1>4, SMTT(60)
<1>6. /\ exists' = exists \cup {d} /\ UNCHANGED <<now, lock, stamp, crashes>>
      /\ pc' = [pc EXCEPT ![w] = "written"]
  BY <1>1 DEF Write
<1>7. Shape'
  BY <1>5, <1>6 DEF WriterInv, Shape
<1>8. PICK n \in Nat : n = Len(files[d])
  BY <1>3, SMTT(60)
<1>9. /\ Len(files'[d]) = n + 1 /\ files'[d][n + 1] = t
      /\ \A i \in 1 .. n : files'[d][i] = files[d][i]
  BY <1>3, <1>5, <1>8, SMTT(60)
<1>10. /\ t <= now /\ d <= date(now) /\ date(now) \in Nat
       /\ \A e \in exists : e <= d
       /\ \A e \in Days : \A i \in 1 .. Len(files[e]) : files[e][i] <= t
  <2>1. t <= now
    BY <1>2 DEF WriterInv, TurnInv
  <2>2. d <= date(now) /\ date(now) \in Nat
    BY <1>1, <1>2, <1>3, <2>1, DateGrows, SMTT(60)
  <2>3. \A e \in exists : e <= d
    BY <1>1, <1>3 DEF WriterInv, TurnInv
  <2>4. \A e \in Days : \A i \in 1 .. Len(files[e]) : files[e][i] <= t
    BY <1>2, <1>3 DEF WriterInv, TurnInv
  <2> QED
    BY <2>1, <2>2, <2>3, <2>4
<1>11. FilesInv'
  <2>1. \A e \in exists' : e <= date(now')
    BY <1>6, <1>10 DEF WriterInv, FilesInv
  <2>2. \A e \in Days : files'[e] # <<>> => \E x \in exists' : e <= x
    <3>1. \A e \in Days \ {d} : files'[e] # <<>> => \E x \in exists' : e <= x
      BY <1>5, <1>6 DEF WriterInv, FilesInv
    <3> QED
      BY <1>3, <1>6, <3>1, SMTT(60)
  <2>3. ASSUME NEW e \in Days \ {d}, NEW i \in 1 .. Len(files'[e])
        PROVE  /\ files'[e][i] <= now' /\ date(files'[e][i]) = e
               /\ \A j \in 1 .. i : files'[e][j] <= files'[e][i]
    BY <1>5, <1>6, <2>3 DEF WriterInv, FilesInv
  <2>4. ASSUME NEW i \in 1 .. n
        PROVE  /\ files'[d][i] <= now' /\ date(files'[d][i]) = d
               /\ \A j \in 1 .. i : files'[d][j] <= files'[d][i]
    <3>1. /\ files[d][i] <= now /\ date(files[d][i]) = d
          /\ \A j \in 1 .. i : files[d][j] <= files[d][i]
      BY <1>8, <2>4 DEF WriterInv, FilesInv
    <3> QED
      BY <1>6, <1>9, <2>4, <3>1, SMTT(60)
  <2>5. files'[d][n + 1] <= now' /\ date(files'[d][n + 1]) = d
    BY <1>1, <1>2, <1>6, <1>9, <1>10
  <2>6. \A j \in 1 .. n + 1 : files'[d][j] <= files'[d][n + 1]
    <3>1. \A j \in 1 .. n : files[d][j] <= t
      BY <1>8, <1>10
    <3>2. \A j \in 1 .. n : files'[d][j] <= t
      BY <1>9, <3>1
    <3>3. \A j \in 1 .. n + 1 : j \in 1 .. n \/ j = n + 1
      BY SMTT(60)
    <3> QED
      BY <1>9, <3>2, <3>3, SMTT(60)
  <2>7. \A i \in 1 .. Len(files'[d]) :
          /\ files'[d][i] <= now' /\ date(files'[d][i]) = d
          /\ \A j \in 1 .. i : files'[d][j] <= files'[d][i]
    <3>1. \A i \in 1 .. Len(files'[d]) : i \in 1 .. n \/ i = n + 1
      BY <1>9, SMTT(60)
    <3> QED
      BY <2>4, <2>5, <2>6, <3>1
  <2>8. \A e \in Days : \A i \in 1 .. Len(files'[e]) :
          /\ files'[e][i] <= now' /\ date(files'[e][i]) = e
          /\ \A j \in 1 .. i : files'[e][j] <= files'[e][i]
    BY <2>3, <2>7
  <2> QED
    BY <2>1, <2>2, <2>8 DEF FilesInv
<1>12. TurnInv'
  <2>1. \A i \in 1 .. n + 1 : files'[d][i] <= t
    BY <1>8, <1>9, <1>10, SMTT(60)
  <2>2. \A e \in Days : \A i \in 1 .. Len(files'[e]) : files'[e][i] <= t
    BY <1>5, <1>9, <1>10, <2>1
  <2>3. \A v \in Writers \ {w} : pc[v] = "idle" /\ pc'[v] = "idle"
    BY <1>3, <1>6 DEF WriterInv, Shape, TurnInv
  <2>4. pc'[w] = "written" /\ lock' = w /\ date(stamp'[w]) = d /\ stamp'[w] = t
    BY <1>1, <1>2, <1>3, <1>6 DEF WriterInv, Shape, TurnInv
  <2> QED
    BY <1>3, <1>6, <1>10, <2>2, <2>3, <2>4, SMTT(60) DEF WriterInv, TurnInv
<1>13. Grows
  <2>1. \A e \in Days : Len(files[e]) <= Len(files'[e])
    BY <1>3, <1>5, <1>8, <1>9, SMTT(60)
  <2> QED
    BY <1>3, <1>6, <2>1, DaysFinite, SMTT(60) DEF Grows
<1> QED
  BY <1>7, <1>11, <1>12, <1>13 DEF WriterInv

\* The end of append(), by its return or by a crash, removes only old files.
LEMMA PruneKeeps ==
    ASSUME WriterInv, NEW w \in Writers, Prune(w) \/ Crash(w)
    PROVE  WriterInv' /\ Grows
<1>1. exists \subseteq Days /\ exists' \subseteq exists /\ \A d \in exists : \E e \in exists' : d <= e
  <2>1. CASE Prune(w)
    BY <2>1, KeptNewest DEF Prune, WriterInv, Shape
  <2>2. CASE Crash(w)
    BY <2>2, DaysFinite, SMTT(60) DEF Crash, WriterInv, Shape
  <2> QED
    BY <2>1, <2>2
<1>2. /\ UNCHANGED <<now, files>> /\ pc' = [pc EXCEPT ![w] = "idle"]
      /\ stamp' = [stamp EXCEPT ![w] = 0] /\ pc[w] # "idle" /\ crashes' \in Nat
  BY SMTT(60) DEF Prune, Crash, WriterInv, Shape
<1>3. Shape'
  BY <1>1, <1>2, LogsAssumption, SMTT(60) DEF WriterInv, Shape
<1>4. FilesInv'
  <2>1. \A d \in Days : files[d] # <<>> => \E e \in exists' : d <= e
    <3>1. Days \subseteq Nat
      BY DaysFinite
    <3>2. \A d, e, x \in Days : d <= e /\ e <= x => d <= x
      BY <3>1, SMTT(60)
    <3> QED
      BY <1>1, <3>2, SMTT(60) DEF WriterInv, FilesInv
  <2> QED
    BY <1>1, <1>2, <2>1 DEF WriterInv, FilesInv
<1>5. TurnInv'
  <2>1. \A v \in Writers : pc'[v] = "idle"
    BY <1>2 DEF WriterInv, Shape, TurnInv
  <2>2. \A v \in Writers : stamp'[v] <= now'
    BY <1>2, LogsAssumption, SMTT(60) DEF WriterInv, Shape, TurnInv
  <2> QED
    BY <2>1, <2>2 DEF TurnInv
<1>6. Grows
  <2>1. \A d \in Days : Len(files[d]) <= Len(files'[d])
    BY <1>2, SMTT(60) DEF WriterInv, Shape
  <2> QED
    BY <1>1, <2>1 DEF Grows
<1> QED
  BY <1>3, <1>4, <1>5, <1>6 DEF WriterInv

\* The other steps leave the files alone.
LEMMA OtherKeeps ==
    ASSUME WriterInv,
           \/ Tick \/ Show \/ ReaderStep \/ UNCHANGED vars
           \/ \E w \in Writers : Lock(w) \/ Stamp(w)
    PROVE  WriterInv' /\ Grows
<1>1. UNCHANGED <<files, exists, crashes>>
  BY DEF Tick, Show, ReaderStep, Look, OpenService, ReadTunnel, ReadService, Lock, Stamp,
         vars, writerVars
<1>2. Grows
  BY <1>1, DaysFinite, SMTT(60) DEF Grows, WriterInv, Shape
<1>3. CASE UNCHANGED <<now, lock, pc, stamp>>
  BY <1>1, <1>2, <1>3 DEF WriterInv, Shape, FilesInv, TurnInv
<1>4. CASE Tick
  <2>1. now' \in 0 .. MaxTime /\ now' = now + 1 /\ now \in Nat /\ UNCHANGED <<lock, pc, stamp>>
    BY <1>4, LogsAssumption, SMTT(60) DEF Tick, writerVars, WriterInv, Shape
  <2>2. date(now) \in Nat /\ date(now') \in Nat /\ date(now) <= date(now')
    BY <2>1, DateGrows, SMTT(60)
  <2>3. Shape'
    BY <1>1, <2>1 DEF WriterInv, Shape
  <2>4. \A d \in exists' : d <= date(now')
    BY <1>1, <2>2, DaysFinite, SMTT(60) DEF WriterInv, Shape, FilesInv
  <2>5. \A d \in Days : \A i \in 1 .. Len(files[d]) : files[d][i] <= now'
    <3>1. \A d \in Days : \A i \in 1 .. Len(files[d]) : files[d][i] \in Nat /\ files[d][i] <= now
      BY SMTT(60) DEF WriterInv, Shape, FilesInv
    <3> QED
      BY <2>1, <3>1, SMTT(60)
  <2>6. FilesInv'
    BY <1>1, <2>4, <2>5, SMTT(60) DEF WriterInv, FilesInv
  <2>7. TurnInv'
    BY <1>1, <2>1, LogsAssumption, SMTT(60) DEF WriterInv, Shape, TurnInv
  <2> QED
    BY <1>2, <2>3, <2>6, <2>7 DEF WriterInv
<1>5. ASSUME NEW w \in Writers, Lock(w)
      PROVE  WriterInv'
  <2>1. /\ UNCHANGED <<now, stamp>> /\ pc' = [pc EXCEPT ![w] = "locked"] /\ lock' = w
        /\ lock = Nobody
    BY <1>5 DEF Lock
  <2>2. \A v \in Writers : pc[v] = "idle"
    BY <2>1, LogsAssumption DEF WriterInv, TurnInv
  <2> QED
    BY <1>1, <2>1, <2>2, SMTT(60) DEF WriterInv, Shape, FilesInv, TurnInv
<1>6. ASSUME NEW w \in Writers, Stamp(w)
      PROVE  WriterInv'
  <2>1. /\ UNCHANGED <<now, lock>> /\ pc' = [pc EXCEPT ![w] = "stamped"] /\ pc[w] = "locked"
        /\ stamp' = [stamp EXCEPT ![w] = now]
    BY <1>6 DEF Stamp
  <2>2. Shape'
    BY <1>1, <2>1 DEF WriterInv, Shape
  <2>3. FilesInv'
    BY <1>1, <2>1 DEF WriterInv, FilesInv
  <2>4. pc'[w] = "stamped" /\ stamp'[w] = now /\ lock' = w /\ now' = now /\ now <= now
    BY <2>1, LogsAssumption, SMTT(60) DEF WriterInv, Shape, TurnInv
  <2>5. \A v \in Writers \ {w} : pc'[v] = "idle" /\ stamp'[v] <= now
    BY <2>1 DEF WriterInv, Shape, TurnInv
  <2>6. \A d \in Days : \A i \in 1 .. Len(files[d]) : files[d][i] <= now
    BY DEF WriterInv, FilesInv
  <2>7. TurnInv'
    BY <1>1, <2>4, <2>5, <2>6, SMTT(60) DEF WriterInv, FilesInv, TurnInv
  <2> QED
    BY <2>2, <2>3, <2>7 DEF WriterInv
<1> QED
  BY <1>2, <1>3, <1>4, <1>5, <1>6
     DEF Show, ReaderStep, Look, OpenService, ReadTunnel, ReadService, vars, writerVars

\* Every step keeps the writers' invariant and lets the files only grow.
LEMMA WritersKeep ==
    ASSUME WriterInv, [Next]_vars
    PROVE  WriterInv' /\ Grows
  BY WriteKeeps, PruneKeeps, OtherKeeps DEF Next, WriterStep

-----------------------------------------------------------------------------
(* The reader's invariant.                                                 *)

\* A printed line: its day and its number in the file.
Lines == Nat \X Nat
Line(d, n) == <<d, n>>
DayOf(l) == l[1]
NumberOf(l) == l[2]

\* The parts of a line.
LEMMA LineIs ==
    /\ \A d, n \in Nat : /\ Line(d, n) \in Lines
                         /\ DayOf(Line(d, n)) = d /\ NumberOf(Line(d, n)) = n
    /\ \A l \in Lines : DayOf(l) \in Nat /\ NumberOf(l) \in Nat
  BY DEF Lines, Line, DayOf, NumberOf

\* The first half of ShownIsPrefix, of any sequence of lines.
Chain(sq) ==
    \A i \in 1 .. Len(sq) :
        /\ NumberOf(sq[i]) > 1 => i > 1 /\ sq[i - 1] = Line(DayOf(sq[i]), NumberOf(sq[i]) - 1)
        /\ NumberOf(sq[i]) = 1 => \A j \in 1 .. i - 1 : DayOf(sq[j]) < DayOf(sq[i])

\* The last of the lines sq is the n-th of day d, or, if n is 0, they are all of
\* earlier days.
UpTo(sq, d, n) ==
    /\ \A i \in 1 .. Len(sq) : DayOf(sq[i]) <= d
    /\ n > 0 => Len(sq) > 0 /\ sq[Len(sq)] = Line(d, n)
    /\ n = 0 => \A i \in 1 .. Len(sq) : DayOf(sq[i]) < d

\* What has been printed ends where the reader stands in the current file; the
\* file has that many lines, and it is not newer than the newest one.
ReaderInv ==
    /\ shown \in Seq(Lines) /\ offset \in Nat
    /\ current \in Days \cup {NoDay} /\ listed \in Days \cup {NoDay}
    /\ Chain(shown) /\ UpTo(shown, current, offset)
    /\ current # NoDay => offset <= Len(files[current]) /\ \E e \in exists : current <= e
    /\ current = NoDay => offset = 0
    /\ at \in {"open", "read"} => current <= listed
    /\ at = "open" => current # listed

\* A function on 1 .. c is a sequence of length c.
LEMMA IsSeq ==
    ASSUME NEW S, NEW c \in Nat, NEW f \in [1 .. c -> S]
    PROVE  f \in Seq(S) /\ Len(f) = c
<1>1. f \in Seq(S)
  BY SMTT(60)
<1>2. PICK k \in Nat : k = Len(f) /\ 1 .. k = 1 .. c
  BY <1>1, SMTT(60)
<1>3. \A i \in Nat : (1 <= i /\ i <= k) <=> (1 <= i /\ i <= c)
  BY <1>2, SMTT(60)
<1> QED
  BY <1>1, <1>2, <1>3, SMTT(60)

\* The elements of a concatenation.
LEMMA Joined ==
    ASSUME NEW S, NEW sq \in Seq(S), NEW new \in Seq(S), NEW k \in Nat, NEW c \in Nat,
           k = Len(sq), c = Len(new)
    PROVE  /\ sq \o new \in Seq(S) /\ Len(sq \o new) = k + c
           /\ \A i \in 1 .. k : (sq \o new)[i] = sq[i]
           /\ \A i \in k + 1 .. k + c : (sq \o new)[i] = new[i - k]
  BY SMTT(60)

\* all is sq followed by the lines m + 1 to m + c of day d.
Longer(sq, all, d, m, k, c) ==
    /\ Len(sq) = k /\ Len(all) = k + c
    /\ \A i \in 1 .. k : all[i] = sq[i]
    /\ \A i \in k + 1 .. k + c : all[i] = Line(d, m + (i - k))

\* Lines printed from where the reader stands continue the chain.
LEMMA LongerChain ==
    ASSUME NEW sq \in Seq(Lines), NEW all \in Seq(Lines),
           NEW d \in Nat, NEW m \in Nat, NEW k \in Nat, NEW c \in Nat,
           Longer(sq, all, d, m, k, c), Chain(sq), UpTo(sq, d, m)
    PROVE  Chain(all) /\ UpTo(all, d, m + c)
<1> USE DEF Longer
<1> DEFINE n == m + c
<1>1. ASSUME NEW i \in k + 1 .. k + c
      PROVE  /\ all[i] = Line(d, m + (i - k))
             /\ DayOf(all[i]) = d /\ NumberOf(all[i]) = m + (i - k)
  <2>1. m + (i - k) \in Nat
    BY SMTT(60)
  <2>2. DayOf(Line(d, m + (i - k))) = d /\ NumberOf(Line(d, m + (i - k))) = m + (i - k)
    BY <2>1, LineIs
  <2> QED
    BY <2>2
<1>2. ASSUME NEW i \in 1 .. k
      PROVE  /\ NumberOf(all[i]) > 1 =>
                  i > 1 /\ all[i - 1] = Line(DayOf(all[i]), NumberOf(all[i]) - 1)
             /\ NumberOf(all[i]) = 1 =>
                  \A j \in 1 .. i - 1 : DayOf(all[j]) < DayOf(all[i])
  BY SMTT(60) DEF Chain
<1>3. ASSUME NEW i \in k + 1 .. k + c
      PROVE  NumberOf(all[i]) > 1 =>
               i > 1 /\ all[i - 1] = Line(DayOf(all[i]), NumberOf(all[i]) - 1)
  <2>1. CASE i = k + 1
    <3>1. SUFFICES ASSUME m > 0
                   PROVE  k > 0 /\ all[k] = Line(d, m)
      BY <1>1, <2>1, SMTT(60)
    <3> QED
      BY <3>1, SMTT(60) DEF UpTo
  <2>2. CASE i > k + 1
    <3>1. i - 1 \in k + 1 .. k + c /\ m + ((i - 1) - k) = (m + (i - k)) - 1 /\ i > 1
      BY <2>2, SMTT(60)
    <3> QED
      BY <1>1, <3>1, SMTT(60)
  <2> QED
    BY <2>1, <2>2, SMTT(60)
<1>4. ASSUME NEW i \in k + 1 .. k + c, NumberOf(all[i]) = 1
      PROVE  \A j \in 1 .. i - 1 : DayOf(all[j]) < DayOf(all[i])
  <2>1. m = 0 /\ i = k + 1 /\ DayOf(all[i]) = d
    BY <1>1, <1>4, SMTT(60)
  <2>2. \A j \in 1 .. k : DayOf(all[j]) < d
    BY <2>1, SMTT(60) DEF UpTo
  <2> QED
    BY <2>1, <2>2, SMTT(60)
<1>5. \A i \in 1 .. Len(all) : i \in 1 .. k \/ i \in k + 1 .. k + c
  BY SMTT(60)
<1>6. Chain(all)
  BY <1>2, <1>3, <1>4, <1>5 DEF Chain
<1>7. \A i \in 1 .. Len(all) : DayOf(all[i]) <= d
  <2>1. \A i \in 1 .. k : DayOf(all[i]) <= d
    BY SMTT(60) DEF UpTo
  <2>2. \A i \in k + 1 .. k + c : DayOf(all[i]) <= d
    BY <1>1, SMTT(60)
  <2> QED
    BY <1>5, <2>1, <2>2
<1>8. n > 0 => Len(all) > 0 /\ all[Len(all)] = Line(d, n)
  <2>1. CASE c = 0
    BY <2>1, SMTT(60) DEF UpTo
  <2>2. CASE c > 0
    BY <1>1, <2>2, SMTT(60)
  <2> QED
    BY <2>1, <2>2, SMTT(60)
<1>9. n = 0 => \A i \in 1 .. Len(all) : DayOf(all[i]) < d
  BY SMTT(60) DEF UpTo
<1> QED
  BY <1>6, <1>7, <1>8, <1>9 DEF UpTo

\* PrintFrom brings the reader to the end of the file.
LEMMA PrintKeeps ==
    ASSUME WriterInv, NEW d \in Days, NEW m \in Nat, m <= Len(files[d]),
           shown \in Seq(Lines), Chain(shown), UpTo(shown, d, m), PrintFrom(d, m)
    PROVE  /\ shown' \in Seq(Lines) /\ offset' \in Nat /\ offset' = Len(files[d])
           /\ Chain(shown') /\ UpTo(shown', d, offset')
<1>1. PICK n \in Nat, k \in Nat : n = Len(files[d]) /\ m <= n /\ k = Len(shown)
  BY SMTT(60) DEF WriterInv, Shape
<1>2. PICK c \in Nat : c = n - m /\ m + c = n
  <2>1. n - m \in Nat /\ m + (n - m) = n
    BY <1>1, SMTT(60)
  <2> QED
    BY <2>1
<1>3. PICK new : new = [i \in 1 .. c |-> Line(d, m + i)]
  OBVIOUS
<1>4. shown' = shown \o new /\ offset' = n
  BY <1>1, <1>2, <1>3 DEF PrintFrom, Line
<1>5. d \in Nat
  BY DaysFinite
<1>6. new \in [1 .. c -> Lines]
  BY <1>3, <1>5, LineIs, SMTT(60)
<1>7. new \in Seq(Lines) /\ Len(new) = c
  BY <1>6, IsSeq
<1>8. /\ shown' \in Seq(Lines) /\ Len(shown') = k + c
      /\ \A i \in 1 .. k : shown'[i] = shown[i]
      /\ \A i \in k + 1 .. k + c : shown'[i] = new[i - k]
  <2>1. k = Len(shown) /\ c = Len(new) /\ new \in Seq(Lines)
    BY <1>1, <1>7
  <2>2. /\ shown \o new \in Seq(Lines) /\ Len(shown \o new) = k + c
        /\ \A i \in 1 .. k : (shown \o new)[i] = shown[i]
        /\ \A i \in k + 1 .. k + c : (shown \o new)[i] = new[i - k]
    BY <2>1, Joined, SMTT(60)
  <2> QED
    BY <1>4, <2>2
<1>9. \A i \in k + 1 .. k + c : shown'[i] = Line(d, m + (i - k))
  <2>1. \A i \in k + 1 .. k + c : i - k \in 1 .. c
    BY SMTT(60)
  <2>2. \A i \in 1 .. c : new[i] = Line(d, m + i)
    BY <1>3
  <2> QED
    BY <1>8, <2>1, <2>2
<1>10. Longer(shown, shown', d, m, k, c)
  BY <1>1, <1>8, <1>9 DEF Longer
<1>11. Chain(shown') /\ UpTo(shown', d, m + c)
  BY <1>5, <1>8, <1>10, LongerChain
<1> QED
  BY <1>1, <1>2, <1>4, <1>8, <1>11

\* A step of a writer does not disturb the reader.
LEMMA WritingUnseen ==
    ASSUME WriterInv, WriterInv', ReaderInv, Grows, UNCHANGED readerVars
    PROVE  ReaderInv'
<1>1. UNCHANGED <<at, listed, current, offset, shown>>
  BY SMTT(60) DEF readerVars
<1>2. current # NoDay => offset <= Len(files'[current]) /\ \E e \in exists' : current <= e
  <2>1. SUFFICES ASSUME current # NoDay
                 PROVE  offset <= Len(files'[current]) /\ \E e \in exists' : current <= e
    OBVIOUS
  <2>2. /\ current \in Days /\ current \in Nat /\ exists \subseteq Nat /\ offset \in Nat
        /\ Len(files[current]) \in Nat /\ Len(files'[current]) \in Nat /\ exists' \subseteq Nat
    BY <2>1, DaysFinite, SMTT(60) DEF WriterInv, Shape, ReaderInv
  <2>3. PICK e \in exists : current <= e
    BY <2>1 DEF ReaderInv
  <2>4. PICK x \in exists' : e <= x
    BY DEF Grows
  <2>5. current <= x
    BY <2>2, <2>3, <2>4, SMTT(60)
  <2>6. offset <= Len(files[current]) /\ Len(files[current]) <= Len(files'[current])
    BY <2>1, <2>2 DEF ReaderInv, Grows
  <2>7. offset <= Len(files'[current])
    BY <2>2, <2>6, SMTT(60)
  <2> QED
    BY <2>5, <2>7
<1> QED
  BY <1>1, <1>2 DEF ReaderInv

\* Look never goes back: the newest file is as new as the current one, since
\* pruning keeps the newest and the clock only advances.
LEMMA LookKeeps ==
    ASSUME WriterInv, ReaderInv, Look
    PROVE  ReaderInv'
<1>1. UNCHANGED <<files, exists, shown>> /\ exists \subseteq Days /\ Days \subseteq Nat \ {0}
  BY DaysFinite DEF Look, writerVars, WriterInv, Shape
<1>2. /\ current \in Nat /\ offset \in Nat /\ shown \in Seq(Lines) /\ Chain(shown)
      /\ UpTo(shown, current, offset)
  BY <1>1 DEF ReaderInv, NoDay
<1>3. listed' \in exists \cup {NoDay} /\ listed' \in Nat /\ current <= listed'
  <2>1. CASE exists = {}
    BY <1>1, <2>1, SMTT(60) DEF Look, ReaderInv, NoDay
  <2>2. CASE exists # {}
    <3>1. listed' \in exists /\ \A e \in exists : e <= listed'
      BY <1>1, <2>2, NewestIs DEF Look
    <3> QED
      BY <1>1, <1>2, <3>1, SMTT(60) DEF ReaderInv, NoDay
  <2> QED
    BY <2>1, <2>2
<1>4. UNCHANGED <<current, offset>> /\ (at' = "open" => current # listed')
  BY DEF Look
<1> QED
  BY <1>1, <1>3, <1>4 DEF ReaderInv

\* A file that is opened is newer than the one before.
LEMMA OpenKeeps ==
    ASSUME WriterInv, ReaderInv, OpenService
    PROVE  ReaderInv'
<1>1. /\ UNCHANGED <<files, exists, shown, listed>> /\ exists \subseteq Days
      /\ Days \subseteq Nat \ {0} /\ at' # "open"
  BY DaysFinite DEF OpenService, writerVars, WriterInv, Shape
<1>2. /\ current \in Nat /\ offset \in Nat /\ shown \in Seq(Lines) /\ Chain(shown)
      /\ UpTo(shown, current, offset) /\ current <= listed /\ current # listed
  BY <1>1 DEF ReaderInv, NoDay, OpenService
<1>3. CASE UNCHANGED <<current, offset>>
  BY <1>1, <1>2, <1>3 DEF ReaderInv
<1>4. CASE listed \in exists /\ current' = listed /\ offset' = 0
  <2>1. listed \in Days /\ listed \in Nat /\ current < listed /\ listed <= listed
    BY <1>1, <1>2, <1>4, SMTT(60)
  <2>2. \A i \in 1 .. Len(shown) : DayOf(shown[i]) \in Nat /\ DayOf(shown[i]) < listed
    BY <1>2, <2>1, LineIs, SMTT(60) DEF UpTo
  <2>3. UpTo(shown', current', offset')
    BY <1>1, <1>4, <2>1, <2>2, SMTT(60) DEF UpTo
  <2>4. offset' <= Len(files'[current']) /\ \E e \in exists' : current' <= e
    BY <1>1, <1>4, <2>1, SMTT(60) DEF WriterInv, Shape
  <2> QED
    BY <1>1, <1>2, <1>4, <2>1, <2>3, <2>4, SMTT(60) DEF ReaderInv, NoDay
<1> QED
  BY <1>3, <1>4 DEF OpenService

\* Both readers print from the offset, or a newer file from its start.
LEMMA ReadKeeps ==
    ASSUME WriterInv, ReaderInv, ReadTunnel \/ ReadService
    PROVE  ReaderInv'
<1>1. /\ UNCHANGED <<files, exists, listed>> /\ at = "read" /\ at' \notin {"open", "read"}
      /\ exists \subseteq Days /\ Days \subseteq Nat \ {0}
  BY DaysFinite DEF ReadTunnel, ReadService, NextLook, writerVars, WriterInv, Shape
<1>2. /\ current \in Nat /\ offset \in Nat /\ shown \in Seq(Lines) /\ Chain(shown)
      /\ UpTo(shown, current, offset) /\ current <= listed
  BY <1>1 DEF ReaderInv, NoDay
<1>3. CASE UNCHANGED <<current, offset, shown>>
  BY <1>1, <1>3 DEF ReaderInv
<1>4. ASSUME NEW d \in Days, NEW m \in Nat, m <= Len(files[d]), UpTo(shown, d, m),
             PrintFrom(d, m), current' = d, \E e \in exists : d <= e
      PROVE  ReaderInv'
  <2>1. /\ shown' \in Seq(Lines) /\ offset' \in Nat /\ offset' = Len(files[d])
        /\ Chain(shown') /\ UpTo(shown', d, offset')
    BY <1>2, <1>4, PrintKeeps
  <2>2. d # NoDay
    BY <1>1 DEF NoDay
  <2> QED
    BY <1>1, <1>4, <2>1, <2>2, SMTT(60) DEF ReaderInv
<1>5. CASE ReadService /\ current # NoDay
  <2>1. /\ current \in Days /\ offset <= Len(files[current]) /\ PrintFrom(current, offset)
        /\ current' = current /\ \E e \in exists : current <= e
    BY <1>5 DEF ReadService, ReaderInv
  <2> QED
    BY <1>2, <1>4, <2>1
<1>6. CASE ReadTunnel /\ listed \in exists /\ current' = listed
           /\ PrintFrom(listed, IF listed = current /\ offset <= Len(files[listed])
                                THEN offset ELSE 0)
  <2>1. listed \in Days /\ listed \in Nat /\ \E e \in exists : listed <= e
    BY <1>1, <1>6, SMTT(60)
  <2>2. CASE listed = current
    <3>1. offset <= Len(files[listed])
      BY <1>1, <2>1, <2>2 DEF ReaderInv, NoDay
    <3> QED
      BY <1>2, <1>4, <1>6, <2>1, <2>2, <3>1
  <2>3. CASE listed # current
    <3>1. PrintFrom(listed, 0) /\ 0 <= Len(files[listed]) /\ current < listed
      BY <1>2, <1>6, <2>1, <2>3, SMTT(60) DEF WriterInv, Shape
    <3>2. \A i \in 1 .. Len(shown) : DayOf(shown[i]) \in Nat /\ DayOf(shown[i]) < listed
      <4>1. ASSUME NEW i \in 1 .. Len(shown)
            PROVE  DayOf(shown[i]) \in Nat /\ DayOf(shown[i]) <= current
        <5>1. shown[i] \in Lines
          BY <1>2, <4>1, SMTT(60)
        <5>2. DayOf(shown[i]) <= current
          BY <1>2, <4>1 DEF UpTo
        <5> QED
          BY <5>1, <5>2, LineIs
      <4> QED
        BY <1>2, <2>1, <3>1, <4>1, SMTT(60)
    <3>3. UpTo(shown, listed, 0)
      BY <2>1, <3>2, SMTT(60) DEF UpTo
    <3> QED
      BY <1>4, <1>6, <2>1, <3>1, <3>3
  <2> QED
    BY <2>2, <2>3
<1> QED
  BY <1>3, <1>5, <1>6 DEF ReadTunnel, ReadService

\* A new command starts with nothing printed.
LEMMA ShowKeeps ==
    ASSUME Show
    PROVE  ReaderInv'
  BY SMTT(60) DEF Show, ReaderInv, Chain, UpTo, NoDay

-----------------------------------------------------------------------------
(* The theorems.                                                          *)

\* The inductive invariant.
IInv == WriterInv /\ ReaderInv

\* append() of logs.rs, show() and show_logs keep the inductive invariant.
THEOREM Invariance == Spec => []IInv
<1>1. Init => IInv
  <2>1. SUFFICES ASSUME Init PROVE IInv
    OBVIOUS
  <2>2. Shape /\ FilesInv /\ TurnInv
    BY <2>1, LogsAssumption, SMTT(60) DEF Init, Shape, FilesInv, TurnInv
  <2>3. ReaderInv
    BY <2>1, SMTT(60) DEF Init, ReaderInv, Chain, UpTo, NoDay
  <2> QED
    BY <2>2, <2>3 DEF IInv, WriterInv
<1>2. IInv /\ [Next]_vars => IInv'
  <2>1. SUFFICES ASSUME IInv, [Next]_vars PROVE IInv'
    OBVIOUS
  <2>2. WriterInv' /\ Grows
    BY <2>1, WritersKeep DEF IInv
  <2>3. CASE UNCHANGED readerVars
    BY <2>1, <2>2, <2>3, WritingUnseen DEF IInv
  <2>4. CASE Show \/ ReaderStep
    BY <2>1, <2>2, <2>4, ShowKeeps, LookKeeps, OpenKeeps, ReadKeeps DEF IInv, ReaderStep
  <2>5. UNCHANGED readerVars \/ Show \/ ReaderStep
    BY <2>1 DEF Next, WriterStep, Tick, Lock, Stamp, Write, Prune, Crash, vars
  <2> QED
    BY <2>3, <2>4, <2>5
<1> QED
  BY <1>1, <1>2, PTL DEF Spec

\* The types of the variables of which the invariant says nothing, or less.
RestShape ==
    /\ lock \in Writers \cup {Nobody}
    /\ appended \in 0 .. MaxLines /\ crashes \in 0 .. MaxCrashes
    /\ kind \in {"tunnel", "service"}
    /\ follow \in BOOLEAN
    /\ at \in {"off", "look", "open", "read", "failed"}
    /\ shown \in Seq(Days \X Nat)

\* The writers keep them ...
LEMMA WriterKeepsRest ==
    ASSUME RestShape, Tick \/ \E w \in Writers : Lock(w) \/ WriterStep(w) \/ Crash(w)
    PROVE  RestShape'
<1>1. /\ lock' \in Writers \cup {Nobody} /\ UNCHANGED <<kind, readerVars>>
      /\ appended' = appended \/ (appended < MaxLines /\ appended' = appended + 1)
      /\ crashes' = crashes \/ (crashes < MaxCrashes /\ crashes' = crashes + 1)
  BY DEF RestShape, Tick, Lock, WriterStep, Stamp, Write, Prune, Crash, writerVars
<1>2. appended' \in 0 .. MaxLines /\ crashes' \in 0 .. MaxCrashes
  BY <1>1, LogsAssumption, SMTT(60) DEF RestShape
<1> QED
  BY <1>1, <1>2, SMTT(60) DEF RestShape, readerVars

\* ... and what the reader prints are lines of files that there are.
LEMMA PrintedLines ==
    ASSUME shown \in Seq(Days \X Nat), files \in [Days -> Seq(Nat)], NEW d \in Days, NEW m \in Nat,
           m <= Len(files[d]), PrintFrom(d, m)
    PROVE  shown' \in Seq(Days \X Nat)
<1> DEFINE c == Len(files[d]) - m
           new == [i \in 1 .. c |-> <<d, m + i>>]
<1>1. c \in Nat
  BY SMTT(60)
<1>2. new \in [1 .. c -> Days \X Nat]
  BY <1>1, SMTT(60)
<1>3. new \in Seq(Days \X Nat)
  <2> HIDE DEF new, c
  <2> QED
    BY <1>1, <1>2, IsSeq
<1>4. shown' = shown \o new
  BY DEF PrintFrom
<1> HIDE DEF new
<1> QED
  BY <1>3, <1>4, SMTT(60)

\* The reader keeps them, too.
LEMMA ReaderKeepsRest ==
    ASSUME IInv, RestShape, Show \/ ReaderStep
    PROVE  RestShape'
<1> USE DEF RestShape, writerVars, NextLook
<1>1. /\ files \in [Days -> Seq(Nat)] /\ exists \subseteq Days
      /\ current \in Days \cup {NoDay} /\ offset \in Nat
      /\ current # NoDay => offset <= Len(files[current])
  BY DEF IInv, WriterInv, Shape, ReaderInv
<1>2. CASE Show
  BY <1>2, SMTT(60) DEF Show
<1>3. CASE Look \/ OpenService
  BY <1>3 DEF Look, OpenService
<1>4. CASE ReadService
  <2>1. shown' \in Seq(Days \X Nat)
    <3>1. CASE current = NoDay
      BY <1>4, <3>1 DEF ReadService
    <3>2. CASE current # NoDay
      BY <1>1, <1>4, <3>2, PrintedLines DEF ReadService
    <3> QED
      BY <3>1, <3>2
  <2> QED
    BY <1>4, <2>1 DEF ReadService
<1>5. CASE ReadTunnel
  <2>1. shown' \in Seq(Days \X Nat)
    <3>1. CASE UNCHANGED shown
      BY <3>1
    <3>2. CASE /\ listed \in exists
               /\ PrintFrom(listed, IF listed = current /\ offset <= Len(files[listed])
                                    THEN offset ELSE 0)
      <4>1. PICK m \in Nat : m <= Len(files[listed]) /\ PrintFrom(listed, m)
        <5>1. CASE listed = current /\ offset <= Len(files[listed])
          BY <1>1, <3>2, <5>1
        <5>2. CASE ~(listed = current /\ offset <= Len(files[listed]))
          <6>1. PrintFrom(listed, 0) /\ 0 <= Len(files[listed])
            BY <1>1, <3>2, <5>2, SMTT(60)
          <6> QED
            BY <6>1
        <5> QED
          BY <5>1, <5>2
      <4> QED
        BY <1>1, <3>2, <4>1, PrintedLines
    <3> QED
      BY <1>5, <3>1, <3>2 DEF ReadTunnel
  <2> QED
    BY <1>5, <2>1 DEF ReadTunnel
<1> QED
  BY <1>2, <1>3, <1>4, <1>5 DEF ReaderStep

\* The variables of writers, files and reader keep their types: no line is stamped later
\* than the clock can be, and none is printed of a file that there never was.
THEOREM TypeCorrect == Spec => []TypeOK
<1>1. Init => RestShape
  <2>1. Init => follow \in BOOLEAN
    BY DEF Init
  <2>2. Init => /\ lock \in Writers \cup {Nobody} /\ shown \in Seq(Days \X Nat)
                /\ appended \in 0 .. MaxLines /\ crashes \in 0 .. MaxCrashes
                /\ kind \in {"tunnel", "service"} /\ at = "off"
    BY LogsAssumption, SMTT(60) DEF Init
  <2> QED
    BY <2>1, <2>2 DEF RestShape
<1>2. ASSUME IInv, RestShape, [Next]_vars PROVE RestShape'
  <2>1. CASE UNCHANGED vars
    BY <1>2, <2>1 DEF vars, RestShape, writerVars, readerVars
  <2>2. CASE Next
    BY <1>2, <2>2, WriterKeepsRest, ReaderKeepsRest DEF Next
  <2> QED
    BY <1>2, <2>1, <2>2
<1>3. ASSUME IInv, RestShape PROVE TypeOK
  <2>1. /\ files \in [Days -> Seq(Nat)] /\ now \in Nat /\ now <= MaxTime
        /\ \A d \in Days : \A i \in 1 .. Len(files[d]) : files[d][i] <= now
    BY <1>3, LogsAssumption, SMTT(60) DEF IInv, WriterInv, Shape, FilesInv
  <2>2. ASSUME NEW d \in Days PROVE files[d] \in Seq(0 .. MaxTime)
    <3>1. files[d] \in Seq(Nat) /\ \A i \in 1 .. Len(files[d]) : files[d][i] \in 0 .. MaxTime
      BY <2>1, <2>2, LogsAssumption, SMTT(60)
    <3>2. /\ Len(files[d]) \in Nat
          /\ files[d] \in [1 .. Len(files[d]) -> 0 .. MaxTime]
      BY <3>1, SMTT(60)
    <3> QED
      BY <3>2, IsSeq
  <2>3. files \in [Days -> Seq(0 .. MaxTime)]
    BY <2>1, <2>2
  <2> QED
    BY <1>3, <2>3 DEF IInv, WriterInv, Shape, ReaderInv, RestShape, TypeOK
<1> QED
  BY <1>1, <1>2, <1>3, Invariance, PTL DEF Spec

\* What `sshdt service logs` has printed is, file after file, the beginning of
\* the file: show() and show_logs print no line twice and none out of order, also
\* while append() writes, the day changes and old files are removed.
THEOREM Prefix == Spec => []ShownIsPrefix
<1>1. IInv => ShownIsPrefix
  BY DEF IInv, WriterInv, ReaderInv, FilesInv, Chain, Line, DayOf, NumberOf, ShownIsPrefix
<1> QED
  BY <1>1, Invariance, PTL

\* When append() returns, the file of its line is among the at most Keep files
\* that are left: its own pruning does not remove what it has just written.
THEOREM Written == Spec => LineKept
<1> DEFINE Done == \A w \in Writers : pc[w] = "written" /\ pc'[w] = "idle" /\ crashes' = crashes =>
                      date(stamp[w]) \in exists' /\ Cardinality(exists') <= Keep
<1>1. IInv /\ [Next]_vars => [Done]_vars
  <2>1. SUFFICES ASSUME IInv, Next, NEW w \in Writers, pc[w] = "written", pc'[w] = "idle",
                        crashes' = crashes
                 PROVE  date(stamp[w]) \in exists' /\ Cardinality(exists') <= Keep
    OBVIOUS
  <2>2. Prune(w)
    <3>1. pc \in [Writers -> {"idle", "locked", "stamped", "written"}]
      BY <2>1 DEF IInv, WriterInv, Shape
    <3>2. ~ UNCHANGED pc
      BY <2>1
    <3>3. PICK v \in Writers : Lock(v) \/ WriterStep(v) \/ Crash(v)
      BY <2>1, <3>2
         DEF Next, ReaderStep, Tick, Show, Look, OpenService, ReadTunnel, ReadService, writerVars
    <3>4. v = w
      BY <2>1, <3>1, <3>3 DEF WriterStep, Lock, Stamp, Write, Prune, Crash
    <3>5. crashes' # crashes + 1
      BY <2>1, SMTT(60) DEF IInv, WriterInv, Shape
    <3> QED
      BY <2>1, <3>3, <3>4, <3>5 DEF WriterStep, Lock, Stamp, Write, Crash
  <2> QED
    BY <2>1, <2>2, KeptNewest DEF Prune, IInv, WriterInv, Shape, TurnInv
<1> QED
  BY <1>1, Invariance, PTL DEF Spec, LineKept

-----------------------------------------------------------------------------
(* The writers implement Journal.                                          *)

\* If pruning removes files, then the oldest, and Keep are left.
LEMMA KeptRest ==
    ASSUME NEW T \in SUBSET Days, Kept(T) # T
    PROVE  /\ \A d \in T \ Kept(T), e \in Kept(T) : d < e
           /\ Cardinality(Kept(T)) = Keep
<1> DEFINE Later(d) == {x \in T : x > d}
<1>1. \A x \in T : x \in Nat
  BY DaysFinite
<1>2. IsFiniteSet(T) /\ Kept(T) \subseteq T /\ IsFiniteSet(Kept(T))
  BY DaysFinite, KeptNewest, FS_Subset
<1>3. \A d \in T : IsFiniteSet(Later(d)) /\ Cardinality(Later(d)) \in Nat
  BY <1>2, FS_Subset, FS_CardinalityType
<1>4. /\ \A d \in T \ Kept(T) : ~(Cardinality(Later(d)) < Keep)
      /\ \A e \in Kept(T) : Cardinality(Later(e)) < Keep
  BY DEF Kept
<1>5. ASSUME NEW d \in T \ Kept(T), NEW e \in Kept(T), ~(d < e) PROVE FALSE
  <2>1. d \in T /\ e \in T /\ d \in Nat /\ e \in Nat /\ e <= d
    BY <1>1, <1>2, <1>5, SMTT(60)
  <2>2. \A x \in T : x > d => x > e
    BY <1>1, <2>1, SMTT(60)
  <2>3. Cardinality(Later(d)) <= Cardinality(Later(e))
    <3>1. Later(d) \subseteq Later(e)
      BY <2>2
    <3> QED
      BY <1>3, <2>1, <3>1, FS_Subset
  <2> HIDE DEF Later
  <2> QED
    BY <1>3, <1>4, <2>1, <2>3, LogsAssumption, SMTT(60)
<1>6. PICK z \in T \ Kept(T) : \A y \in T \ Kept(T) : y <= z
  BY <1>2, Greatest
<1>7. Later(z) \subseteq Kept(T)
  <2> SUFFICES ASSUME NEW x \in T, x > z, x \notin Kept(T) PROVE FALSE
    OBVIOUS
  <2> QED
    BY <1>1, <1>6, SMTT(60)
<1>8. Cardinality(Later(z)) <= Cardinality(Kept(T)) /\ Cardinality(Kept(T)) \in Nat
  BY <1>2, <1>7, FS_Subset, FS_CardinalityType
<1>9. Cardinality(Kept(T)) <= Keep
  BY KeptNewest
<1> HIDE DEF Later
<1>10. Cardinality(Kept(T)) = Keep
  BY <1>3, <1>4, <1>6, <1>8, <1>9, LogsAssumption, SMTT(60)
<1> QED
  BY <1>5, <1>10

\* append() records its line in the newest file; the file of its day was never removed.
LEMMA WriteRecords ==
    ASSUME WriterInv, NEW w \in Writers, Write(w)
    PROVE  \E t \in 0 .. MaxTime : Files!Record(t)
<1>1. stamp[w] \in 0 .. MaxTime /\ pc[w] = "stamped"
  BY LogsAssumption DEF WriterInv, Shape, Write
<1>2. date(stamp[w]) \in Days /\ files' = [files EXCEPT ![date(stamp[w])] = Append(@, stamp[w])]
  BY WriteAppends
<1>3. /\ \A d \in exists : d <= date(stamp[w])
      /\ \A d \in Days : \A i \in 1 .. Len(files[d]) : files[d][i] <= stamp[w]
  BY <1>1 DEF WriterInv, TurnInv
<1>4. date(stamp[w]) \in exists \/ files[date(stamp[w])] = <<>>
  <2> SUFFICES ASSUME files[date(stamp[w])] # <<>> PROVE date(stamp[w]) \in exists
    OBVIOUS
  <2>1. PICK e \in exists : date(stamp[w]) <= e
    BY <1>2 DEF WriterInv, FilesInv
  <2>2. e \in Nat /\ date(stamp[w]) \in Nat /\ e <= date(stamp[w])
    BY <1>2, <1>3, DaysFinite DEF WriterInv, Shape
  <2>3. e = date(stamp[w])
    BY <2>1, <2>2, SMTT(60)
  <2> QED
    BY <2>3
<1>5. exists' = exists \cup {date(stamp[w])}
  BY DEF Write
<1>6. Files!Record(stamp[w])
  BY <1>2, <1>3, <1>4, <1>5, ZenonT(60) DEF Files!Record
<1> QED
  BY <1>1, <1>6, ZenonT(60)

\* Journal counts as we do.
LEMMA SameCount == \A S : Files!Cardinality(S) = Cardinality(S)
  BY DEF Cardinality, Files!Cardinality

\* Every step is one of Journal, or leaves its state.
LEMMA JournalStep ==
    ASSUME WriterInv, [Next]_vars
    PROVE  [Files!JournalNext]_(Files!journalVars)
<1>1. ASSUME NEW w \in Writers, Write(w) PROVE Files!JournalNext
  BY <1>1, WriteRecords DEF Files!JournalNext
<1>2. ASSUME NEW w \in Writers, Prune(w), Kept(exists) # exists PROVE Files!JournalNext
  <2>1. exists \subseteq Days /\ exists' = Kept(exists) /\ UNCHANGED files
    BY <1>2 DEF Prune, WriterInv, Shape
  <2>2. /\ Kept(exists) \subseteq exists
        /\ \A d \in exists \ Kept(exists), e \in Kept(exists) : d < e
        /\ Cardinality(Kept(exists)) = Keep
    BY <1>2, <2>1, KeptNewest, KeptRest
  <2> DEFINE expired == exists \ Kept(exists)
  <2>3. expired \in SUBSET exists /\ exists' = exists \ expired
    BY <2>1, <2>2
  <2>4. (\A d \in expired, e \in exists' : d < e) /\ Files!Cardinality(exists') = Keep
    BY <2>1, <2>2, SameCount
  <2> HIDE DEF expired
  <2>5. Files!Expire
    BY <2>1, <2>3, <2>4 DEF Files!Expire
  <2> QED
    BY <2>5 DEF Files!JournalNext
<1>3. CASE UNCHANGED <<files, exists>>
  BY <1>3 DEF Files!journalVars
<1>4. ASSUME NEW w \in Writers, Prune(w), Kept(exists) = exists
      PROVE  UNCHANGED <<files, exists>>
  BY <1>4 DEF Prune
<1>5. CASE Tick \/ Show \/ ReaderStep \/ UNCHANGED vars
  BY <1>3, <1>5
     DEF Tick, Show, ReaderStep, Look, OpenService, ReadTunnel, ReadService, vars, writerVars
<1>6. CASE \E w \in Writers : Lock(w) \/ Stamp(w) \/ Crash(w)
  BY <1>3, <1>6 DEF Lock, Stamp, Crash
<1> QED
  BY <1>1, <1>2, <1>3, <1>4, <1>5, <1>6 DEF Next, WriterStep

\* Whatever the writers' interleaving and wherever they are killed, the files of append()
\* are those of a journal: lines are added at the end of the newest file in the order of
\* their times, no removed file comes back, and only the oldest expire, down to Keep.
THEOREM Journalled == Spec => JournalKept
<1>1. Init => Files!JournalInit
  BY DEF Init, Files!JournalInit
<1>2. IInv /\ [Next]_vars => [Files!JournalNext]_(Files!journalVars)
  BY JournalStep DEF IInv
<1> QED
  BY <1>1, <1>2, Invariance, PTL DEF Spec, JournalKept, Files!JournalSpec
=============================================================================
