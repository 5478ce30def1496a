-------------------------------- MODULE Logs --------------------------------
(***************************************************************************)
(* A daily log (logs.rs, show_logs of service.rs): processes append lines  *)
(* to the file of the day under a lock and remove the oldest files, while  *)
(* `sshdt service logs` prints the newest file and follows it.  In the     *)
(* service's own log, which one process writes, tracing_appender does what *)
(* append() does for the tunnel logs.                                      *)
(***************************************************************************)
EXTENDS Naturals, Sequences, FiniteSets

CONSTANTS
    Writers,     \* processes that log
    Nobody,      \* no writer
    Keep,        \* how many files are kept: 7
    DayLength,   \* ticks in a day
    MaxTime,     \* bound on the clock
    MaxLines,    \* bound on the appended lines
    MaxCrashes   \* bound on killed writers

ASSUME LogsAssumption ==
    /\ Nobody \notin Writers
    /\ Keep \in Nat \ {0} /\ DayLength \in Nat \ {0}
    /\ MaxTime \in Nat /\ MaxLines \in Nat /\ MaxCrashes \in Nat

VARIABLES
    now,      \* the clock
    lock,     \* who holds the lock file
    pc,       \* pc[w]: where w is in append()
    stamp,    \* stamp[w]: the time it has read
    files,    \* files[d]: the times of the lines of day d's file, also when removed
    exists,   \* the days whose files exist
    appended, \* the calls of append() so far
    crashes,  \* the killed writers so far
    kind,     \* which log it is, "tunnel" or "service"
    follow,   \* is --follow given?
    at,       \* where the reader is
    listed,   \* the newest file when it last looked
    current,  \* the file it reads
    offset,   \* how many lines of it have been read
    shown     \* the lines printed so far: day and number of each

writerVars == <<lock, pc, stamp, files, exists, appended, crashes>>
readerVars == <<follow, at, listed, current, offset, shown>>
vars == <<now, writerVars, kind, readerVars>>

NoDay == 0
date(time) == 1 + time \div DayLength
Days == 1 .. date(MaxTime)

Newest(ds) == CHOOSE d \in ds : \A e \in ds : e <= d

TypeOK ==
    /\ now \in 0 .. MaxTime
    /\ lock \in Writers \cup {Nobody}
    /\ pc \in [Writers -> {"idle", "locked", "stamped", "written"}]
    /\ stamp \in [Writers -> 0 .. MaxTime]
    /\ files \in [Days -> Seq(0 .. MaxTime)]
    /\ exists \subseteq Days
    /\ appended \in 0 .. MaxLines /\ crashes \in 0 .. MaxCrashes
    /\ kind \in {"tunnel", "service"}
    /\ follow \in BOOLEAN
    /\ at \in {"off", "look", "open", "read", "failed"}
    /\ listed \in Days \cup {NoDay} /\ current \in Days \cup {NoDay}
    /\ offset \in Nat
    /\ shown \in Seq(Days \X Nat)

Init ==
    /\ now = 0
    /\ lock = Nobody
    /\ pc = [w \in Writers |-> "idle"]
    /\ stamp = [w \in Writers |-> 0]
    /\ files = [d \in Days |-> <<>>]
    /\ exists = {}
    /\ appended = 0
    /\ crashes = 0
    /\ kind \in {"tunnel", "service"}
    /\ follow = FALSE
    /\ at = "off"
    /\ listed = NoDay /\ current = NoDay
    /\ offset = 0
    /\ shown = <<>>

-----------------------------------------------------------------------------
(* append()                                                                *)

\* FileExt::lock.  The service's log has one writer at a time, the guarded server;
\* there the lock stands for that.
Lock(w) ==
    /\ pc[w] = "idle" /\ appended < MaxLines
    /\ lock = Nobody
    /\ lock' = w
    /\ pc' = [pc EXCEPT ![w] = "locked"]
    /\ appended' = appended + 1
    /\ UNCHANGED <<now, stamp, files, exists, crashes, kind, readerVars>>

\* The time is read, which also names the file.
Stamp(w) ==
    /\ pc[w] = "locked"
    /\ stamp' = [stamp EXCEPT ![w] = now]
    /\ pc' = [pc EXCEPT ![w] = "stamped"]
    /\ UNCHANGED <<now, lock, files, exists, appended, crashes, kind, readerVars>>

\* The file is opened or created, and the line written.
Write(w) ==
    /\ pc[w] = "stamped"
    /\ LET d == date(stamp[w]) IN
         /\ files' = [files EXCEPT ![d] = Append(IF d \in exists THEN @ ELSE <<>>, stamp[w])]
         /\ exists' = exists \cup {d}
    /\ pc' = [pc EXCEPT ![w] = "written"]
    /\ UNCHANGED <<now, lock, stamp, appended, crashes, kind, readerVars>>

\* Mutant of Kept: the list of files is in reverse order.
KeptOldest(ds) == {d \in ds : Cardinality({e \in ds : e < d}) < Keep}

\* The files that pruning leaves: the last Keep of the sorted list.
Kept(ds) == {d \in ds : Cardinality({e \in ds : e > d}) < Keep}

\* The oldest files are removed and the lock is released.
Prune(w) ==
    /\ pc[w] = "written"
    /\ exists' = Kept(exists)
    /\ lock' = Nobody
    /\ pc' = [pc EXCEPT ![w] = "idle"]
    /\ stamp' = [stamp EXCEPT ![w] = 0]
    /\ UNCHANGED <<now, files, appended, crashes, kind, readerVars>>

\* The process is killed in append(), which releases the lock.
Crash(w) ==
    /\ pc[w] # "idle" /\ crashes < MaxCrashes
    /\ crashes' = crashes + 1
    /\ lock' = Nobody
    /\ pc' = [pc EXCEPT ![w] = "idle"]
    /\ stamp' = [stamp EXCEPT ![w] = 0]
    /\ UNCHANGED <<now, files, exists, appended, kind, readerVars>>

-----------------------------------------------------------------------------
(* The reader.                                                             *)

\* The command is given.
Show ==
    /\ at \in {"off", "failed"}
    /\ at' = "look"
    /\ follow' \in BOOLEAN
    /\ listed' = NoDay /\ current' = NoDay /\ offset' = 0 /\ shown' = <<>>
    /\ UNCHANGED <<now, writerVars, kind>>

\* The newest file is looked for; show_logs opens it if it is another one.
Look ==
    /\ at = "look"
    /\ listed' = IF exists = {} THEN NoDay ELSE Newest(exists)
    /\ at' = IF kind = "service" /\ listed' \notin {NoDay, current} THEN "open" ELSE "read"
    /\ UNCHANGED <<now, writerVars, kind, follow, current, offset, shown>>

\* show_logs: File::open, which fails if the file has been removed.
OpenService ==
    /\ at = "open"
    /\ \/ listed \notin exists /\ at' = "failed" /\ UNCHANGED <<current, offset>>
       \/ listed \in exists /\ at' = "read" /\ current' = listed /\ offset' = 0
    /\ UNCHANGED <<now, writerVars, kind, follow, listed, shown>>

\* What lies behind the offset is printed; then the loop goes on, or ends.
PrintFrom(file, from) ==
    /\ shown' = shown \o [i \in 1 .. Len(files[file]) - from |-> <<file, from + i>>]
    /\ offset' = Len(files[file])

NextLook == at' = IF follow THEN "look" ELSE "off"

\* Mutant of ReadTunnel: the offset is kept when the file changes.
ReadTunnelKeepsOffset ==
    /\ kind = "tunnel" /\ at = "read"
    /\ \/ listed = NoDay /\ NextLook /\ UNCHANGED <<current, offset, shown>>
       \/ listed # NoDay /\ listed \notin exists /\ at' = "failed"
          /\ UNCHANGED <<current, offset, shown>>
       \/ /\ listed \in exists
          /\ current' = listed
          /\ PrintFrom(listed, IF offset <= Len(files[listed]) THEN offset ELSE 0)
          /\ NextLook
    /\ UNCHANGED <<now, writerVars, kind, follow, listed>>

\* Mutant of ReadTunnel: the reader stays with the file that it has begun.
ReadTunnelStays ==
    /\ kind = "tunnel" /\ at = "read"
    /\ \/ listed = NoDay /\ NextLook /\ UNCHANGED <<current, offset, shown>>
       \/ listed # NoDay /\ listed \notin exists /\ at' = "failed"
          /\ UNCHANGED <<current, offset, shown>>
       \/ /\ listed \in exists
          /\ current' = IF current = NoDay THEN listed ELSE current
          /\ PrintFrom(current', offset)
          /\ NextLook
    /\ UNCHANGED <<now, writerVars, kind, follow, listed>>

\* show(): the file is opened, which fails if it has been removed, and read from
\* the offset; a new file, or one that is shorter than the offset, from its start.
ReadTunnel ==
    /\ kind = "tunnel" /\ at = "read"
    /\ \/ listed = NoDay /\ NextLook /\ UNCHANGED <<current, offset, shown>>
       \/ listed # NoDay /\ listed \notin exists /\ at' = "failed"
          /\ UNCHANGED <<current, offset, shown>>
       \/ /\ listed \in exists
          /\ current' = listed
          /\ PrintFrom(listed, IF listed = current /\ offset <= Len(files[listed])
                               THEN offset ELSE 0)
          /\ NextLook
    /\ UNCHANGED <<now, writerVars, kind, follow, listed>>

\* show_logs: the open file is read to its end.
ReadService ==
    /\ kind = "service" /\ at = "read"
    /\ IF current = NoDay THEN UNCHANGED <<offset, shown>> ELSE PrintFrom(current, offset)
    /\ NextLook
    /\ UNCHANGED <<now, writerVars, kind, follow, listed, current>>

-----------------------------------------------------------------------------
Tick ==
    /\ now < MaxTime
    /\ now' = now + 1
    /\ UNCHANGED <<writerVars, kind, readerVars>>

WriterStep(w) == Stamp(w) \/ Write(w) \/ Prune(w)
ReaderStep == Look \/ OpenService \/ ReadTunnel \/ ReadService

Next ==
    \/ Tick \/ Show \/ ReaderStep
    \/ \E w \in Writers : Lock(w) \/ WriterStep(w) \/ Crash(w)

Spec == Init /\ [][Next]_vars

\* A process that has begun goes on; nobody has to log or to look.
FairSpec == Spec /\ WF_vars(ReaderStep) /\ \A w \in Writers : WF_vars(WriterStep(w))

-----------------------------------------------------------------------------
(* Properties.                                                             *)

\* When append() returns, the file of its line is among the Keep files that are
\* left, even if the day has changed and other processes log.
LineKept ==
    [][\A w \in Writers : pc[w] = "written" /\ pc'[w] = "idle" /\ crashes' = crashes =>
        date(stamp[w]) \in exists' /\ Cardinality(exists') <= Keep]_vars

\* What --follow prints is, file after file, the beginning of the file: no line
\* twice, none out of order, and none left out except at the end of a file that
\* is no longer the newest.  (Lines written to it between two looks are never
\* printed.)  The lines of a file are of its day and in the order of their times,
\* which append() reads under the lock.
ShownIsPrefix ==
    /\ \A i \in 1 .. Len(shown) :
        /\ shown[i][2] > 1 => i > 1 /\ shown[i - 1] = <<shown[i][1], shown[i][2] - 1>>
        /\ shown[i][2] = 1 => \A j \in 1 .. i - 1 : shown[j][1] < shown[i][1]
    /\ \A d \in Days : \A i \in 1 .. Len(files[d]) :
        /\ date(files[d][i]) = d
        /\ \A j \in 1 .. i : files[d][j] <= files[d][i]

\* --follow gets to the end of the newest file again and again, also across a
\* change of the day, unless that file is removed in between.
FollowerCatchesUp ==
    []<>(\/ at \in {"off", "failed"} \/ exists = {}
         \/ current = Newest(exists) /\ offset = Len(files[current]))

\* What Journal is in terms of this module.
Files == INSTANCE Journal WITH
    lines <- files, present <- exists, Times <- 0 .. MaxTime, DayOf <- date

\* append() of all the processes together keeps one journal: a line goes behind every
\* earlier one into the newest file, a day that was pruned never gets a file again,
\* and pruning removes only the oldest files, down to Keep, whoever dies in between.
JournalKept == Files!JournalSpec
=============================================================================
