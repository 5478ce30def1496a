--------------------------- MODULE SharedManager ---------------------------
(***************************************************************************)
(* What the tunnel manager promises to the proxies of one tunnel: at any   *)
(* time at most one process owns the tunnel, it takes leases for proxies,  *)
(* and it retires only when no proxy holds one.  Only a crash takes leases *)
(* away from proxies that still hold them.                                 *)
(***************************************************************************)
EXTENDS Naturals

CONSTANTS Clients, Brokers, Nobody

VARIABLES
    owner,    \* the process that serves the tunnel, Nobody if none does
    holders,  \* the clients whose leases it counts
    crashes   \* number of brokers that were killed

sharedVars == <<owner, holders, crashes>>

SharedInit ==
    /\ owner = Nobody
    /\ holders = {}
    /\ crashes = 0

Elect(b) ==
    /\ owner = Nobody
    /\ owner' = b
    /\ UNCHANGED <<holders, crashes>>

Grant(c) ==
    /\ owner # Nobody
    /\ c \notin holders
    /\ holders' = holders \cup {c}
    /\ UNCHANGED <<owner, crashes>>

Release(c) ==
    /\ c \in holders
    /\ holders' = holders \ {c}
    /\ UNCHANGED <<owner, crashes>>

Retire ==
    /\ owner # Nobody
    /\ holders = {}
    /\ owner' = Nobody
    /\ UNCHANGED <<holders, crashes>>

\* A broker is killed: the owner, or a process that is not the owner.
Kill ==
    /\ crashes' = crashes + 1
    /\ \/ owner' = Nobody /\ holders' = {}
       \/ UNCHANGED <<owner, holders>>

SharedNext ==
    \/ \E b \in Brokers : Elect(b)
    \/ \E c \in Clients : Grant(c) \/ Release(c)
    \/ Retire
    \/ Kill

SharedSpec == SharedInit /\ [][SharedNext]_sharedVars
=============================================================================
