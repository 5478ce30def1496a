----------------------------- MODULE LoginGate -----------------------------
(***************************************************************************)
(* What max_startups promises: connections are let in in the order in      *)
(* which their tasks joined the semaphore's queue (not that of accept: the *)
(* tasks are spawned), at most Limit of them are between the queue and     *)
(* their login, and each leaves there by logging in or by being closed,    *)
(* whatever ends first.  A stream that an application hands over goes by   *)
(* the gate.                                                               *)
(***************************************************************************)
EXTENDS Naturals, Sequences, FiniteSets

CONSTANTS Conns, Limit

VARIABLES
    queue,   \* the connections that wait
    inside,  \* those that are starting up
    members  \* those that are logged in

gateVars == <<queue, inside, members>>

GateInit ==
    /\ queue = <<>>
    /\ inside = {}
    /\ members = {}

Waits(c) == \E i \in 1 .. Len(queue) : queue[i] = c

Arrive(c) ==
    /\ c \notin inside \cup members /\ ~Waits(c)
    /\ queue' = Append(queue, c)
    /\ UNCHANGED <<inside, members>>

Enter ==
    /\ queue # <<>>
    /\ Cardinality(inside) < Limit
    /\ inside' = inside \cup {Head(queue)}
    /\ queue' = Tail(queue)
    /\ UNCHANGED members

LogIn(c) ==
    /\ c \notin members /\ ~Waits(c)
    /\ members' = members \cup {c}
    /\ inside' = inside \ {c}
    /\ UNCHANGED queue

Leave(c) ==
    /\ c \in inside \cup members
    /\ inside' = inside \ {c}
    /\ members' = members \ {c}
    /\ UNCHANGED queue

GateNext == Enter \/ \E c \in Conns : Arrive(c) \/ LogIn(c) \/ Leave(c)

GateSpec == GateInit /\ [][GateNext]_gateVars
=============================================================================
