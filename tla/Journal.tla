------------------------------ MODULE Journal ------------------------------
(***************************************************************************)
(* What a daily log promises, however many processes write to it and die   *)
(* while they do: a line goes to the end of the newest file, behind every  *)
(* earlier line; a file that was removed never comes back; and the files   *)
(* that expire are the oldest, no more than it takes to be down to Keep.   *)
(***************************************************************************)
EXTENDS Naturals, Sequences, FiniteSets

CONSTANTS Keep, Times, Days, DayOf(_)

VARIABLES
    lines,   \* lines[d]: the times of the lines of day d
    present  \* the days whose files there are

journalVars == <<lines, present>>

JournalInit ==
    /\ lines = [d \in Days |-> <<>>]
    /\ present = {}

Record(t) ==
    /\ \A d \in present : d <= DayOf(t)
    /\ DayOf(t) \in present \/ lines[DayOf(t)] = <<>>
    /\ \A d \in Days : \A i \in 1 .. Len(lines[d]) : lines[d][i] <= t
    /\ lines' = [lines EXCEPT ![DayOf(t)] = Append(@, t)]
    /\ present' = present \cup {DayOf(t)}

Expire ==
    /\ \E expired \in SUBSET present :
         /\ present' = present \ expired
         /\ \A d \in expired, e \in present' : d < e
         /\ Cardinality(present') = Keep
    /\ UNCHANGED lines

JournalNext == Expire \/ \E t \in Times : Record(t)

JournalSpec == JournalInit /\ [][JournalNext]_journalVars
=============================================================================
