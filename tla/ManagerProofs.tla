--------------------------- MODULE ManagerProofs ---------------------------
(***************************************************************************)
(* Proofs about module Manager, for any set of clients and of broker slots *)
(* and any limits.  IInv strengthens the safety properties to an inductive *)
(* invariant: it says who holds the lock, whose endpoint is published, and *)
(* in which phase of its broker a session can be at which stage.           *)
(***************************************************************************)
EXTENDS Manager, FiniteSetTheorems, TLAPS

\* Every step is small; what the provers may need is time.
USE ZenonT(60)

\* The lock belongs to the broker past its election, or to a client's probe.
LockOwned ==
    /\ \A b \in Brokers : pc[b] \in Locked <=> lock = b
    /\ \A c \in Clients : cpc[c] = "unlock" => lock = c

\* A broker's endpoint is in the file until it removes it itself.
EndpointOwned ==
    \A b \in Brokers : pc[b] \in {"serving", "stopping", "closed"} => endpoint = b

\* A client that is about to connect has no connection.
Unconnected ==
    \A c \in Clients :
        cpc[c] \in {"idle", "search", "unlock", "read", "connect", "spawn"}
          => stage[c] = "none"

\* The phases of the broker in which a connection can be at each stage.
SessionsHosted ==
    \A c \in Clients :
        /\ stage[c] # "none" => peer[c] \in Brokers
        /\ stage[c] = "backlog" => pc[peer[c]] \in Listening
        /\ stage[c] \in Tasks => pc[peer[c]] \in {"serving", "stopping", "closed", "unlinked"}
        /\ stage[c] \in Leased => pc[peer[c]] = "serving"

\* The shutdown phases come after LeaseState.stopping was set.
StoppingKnown ==
    \A b \in Brokers : pc[b] \in {"stopping", "closed", "unlinked", "drained"} => stopping[b]

IInv ==
    /\ TypeOK
    /\ LockOwned
    /\ EndpointOwned
    /\ Unconnected
    /\ SessionsHosted
    /\ StoppingKnown
    /\ LeasesCounted
    /\ SessionsBounded

\* The sessions of b that hold a lease, and those that have a task.
LeasedAt(b) == {c \in Clients : peer[c] = b /\ stage[c] \in Leased}
TasksAt(b) == {c \in Clients : peer[c] = b /\ stage[c] \in Tasks}

-----------------------------------------------------------------------------
(* Counting sessions.                                                      *)

\* The sets of sessions are finite, so they have a cardinality.
LEMMA FiniteSessions ==
    ASSUME NEW b \in Brokers
    PROVE  /\ IsFiniteSet(LeasedAt(b)) /\ Cardinality(LeasedAt(b)) \in Nat
           /\ IsFiniteSet(TasksAt(b)) /\ Cardinality(TasksAt(b)) \in Nat
<1>1. LeasedAt(b) \in SUBSET Clients /\ TasksAt(b) \in SUBSET Clients
  BY DEF LeasedAt, TasksAt
<1>2. IsFiniteSet(LeasedAt(b)) /\ IsFiniteSet(TasksAt(b))
  BY <1>1, ManagerAssumption, FS_Subset
<1> QED
  BY <1>2, FS_CardinalityType

\* One element more, one element less.
LEMMA CountOne ==
    ASSUME NEW S, IsFiniteSet(S), NEW x
    PROVE  /\ x \notin S => Cardinality(S \cup {x}) = Cardinality(S) + 1
           /\ x \in S => Cardinality(S \ {x}) = Cardinality(S) - 1
  BY FS_AddElement, FS_RemoveElement

\* A session with a lease is counted, so the counter can be decremented.
LEMMA LeaseHeld ==
    ASSUME LeasesCounted, NEW b \in Brokers, NEW c \in LeasedAt(b)
    PROVE  count[b] \in Nat \ {0}
<1>1. LeasedAt(b) # {}
  OBVIOUS
<1>2. Cardinality(LeasedAt(b)) \in Nat \ {0}
  BY <1>1, FiniteSessions, FS_EmptySet
<1> QED
  BY <1>2 DEF LeasesCounted, LeasedAt

\* A broker without a counted lease has no session with a lease.
LEMMA NoLease ==
    ASSUME LeasesCounted, NEW b \in Brokers, count[b] = 0
    PROVE  LeasedAt(b) = {}
  BY FiniteSessions, FS_EmptySet DEF LeasesCounted, LeasedAt

\* Steps that leave the sessions and their counters alone.
LEMMA SameSessions ==
    ASSUME LeasesCounted, SessionsBounded, UNCHANGED <<peer, stage, count, finished>>
    PROVE  LeasesCounted' /\ SessionsBounded'
  BY DEF LeasesCounted, SessionsBounded, Sessions

-----------------------------------------------------------------------------
(* Type correctness.                                                       *)

\* Dropping a lease that is held keeps the types of LeaseState.
LEMMA DropLeaseType ==
    ASSUME TypeOK, NEW b \in Brokers, count[b] \in Nat \ {0}, DropLease(b)
    PROVE  count' \in [Brokers -> Nat] /\ expired' \in [Brokers -> BOOLEAN]
<1>1. count' \in [Brokers -> Nat]
  BY SMTT(60) DEF TypeOK, DropLease
<1>2. expired' \in [Brokers -> BOOLEAN]
  <2>1. (IF count[b] = 1 THEN FALSE ELSE expired[b]) \in BOOLEAN
    BY DEF TypeOK
  <2> QED
    BY <2>1 DEF TypeOK, DropLease
<1> QED
  BY <1>1, <1>2

\* So does the end of a session task.
LEMMA EndTaskType ==
    ASSUME TypeOK, NEW b \in Brokers, NEW c \in Clients, EndTask(b, c)
    PROVE  /\ stage' \in [Clients -> Stages] /\ peer' \in [Clients -> Brokers \cup {Nobody}]
           /\ valid' \in [Clients -> BOOLEAN] /\ finished' \in [Brokers -> Nat]
  BY SMTT(60) DEF TypeOK, Stages, EndTask, Disconnect

\* Every step keeps the types.
LEMMA TypeStep ==
    ASSUME IInv, [Next]_vars
    PROVE  TypeOK'
<1> USE ManagerAssumption DEF IInv
<1>1. CASE UNCHANGED vars
  BY <1>1 DEF vars, TypeOK
<1>2. ASSUME NEW c \in Clients, Start(c)
      PROVE  TypeOK'
  BY <1>2 DEF Start, Goto, TypeOK, Phases, Locked, ClientPhases, Searching, Settled,
     Stages, fileVars, brokerVars, sessionVars, clientVars
<1>3. ASSUME NEW c \in Clients, NoLockFile(c)
      PROVE  TypeOK'
  BY <1>3 DEF NoLockFile, Goto, TypeOK, Phases, Locked, ClientPhases, Searching,
     Settled, Stages, fileVars, brokerVars, sessionVars, clientVars
<1>4. ASSUME NEW c \in Clients, ProbeTakesLock(c)
      PROVE  TypeOK'
  BY <1>4 DEF ProbeTakesLock, Goto, TypeOK, Phases, Locked, ClientPhases, Searching,
     Settled, Stages, fileVars, brokerVars, sessionVars, clientVars
<1>5. ASSUME NEW c \in Clients, ProbeUnlocks(c)
      PROVE  TypeOK'
  BY <1>5, SMTT(60) DEF ProbeUnlocks, Goto, TypeOK, Phases, Locked, ClientPhases, Searching,
     Settled, Stages, fileVars, brokerVars, sessionVars, clientVars
<1>6. ASSUME NEW c \in Clients, ProbeSeesHolder(c)
      PROVE  TypeOK'
  BY <1>6 DEF ProbeSeesHolder, Goto, TypeOK, Phases, Locked, ClientPhases, Searching,
     Settled, Stages, fileVars, brokerVars, sessionVars, clientVars
<1>7. ASSUME NEW c \in Clients, ReadEndpoint(c)
      PROVE  TypeOK'
  BY <1>7 DEF ReadEndpoint, Goto, TypeOK, Phases, Locked, ClientPhases, Searching,
     Settled, Stages, fileVars, brokerVars, sessionVars, clientVars
<1>8. ASSUME NEW c \in Clients, Connect(c)
      PROVE  TypeOK'
  BY <1>8, SMTT(60) DEF Connect, Goto, TypeOK, Phases, Locked, ClientPhases, Searching, Settled,
     Stages, fileVars, brokerVars, sessionVars, clientVars
<1>9. ASSUME NEW c \in Clients, ConnectFails(c)
      PROVE  TypeOK'
  BY <1>9, SMTT(60) DEF ConnectFails, Goto, TypeOK, Phases, Locked, ClientPhases, Searching,
     Settled, Stages, fileVars, brokerVars, sessionVars, clientVars
<1>10. ASSUME NEW c \in Clients, GetResponse(c)
      PROVE  TypeOK'
  BY <1>10 DEF GetResponse, Goto, TypeOK, Phases, Locked, ClientPhases, Searching,
     Settled, Stages, fileVars, brokerVars, sessionVars, clientVars
<1>11. ASSUME NEW c \in Clients, GetEof(c)
      PROVE  TypeOK'
  BY <1>11 DEF GetEof, Goto, TypeOK, Phases, Locked, ClientPhases, Searching, Settled,
     Stages, fileVars, brokerVars, sessionVars, clientVars
<1>12. ASSUME NEW c \in Clients, Respawn(c)
      PROVE  TypeOK'
  BY <1>12, SMTT(60) DEF Respawn, Goto, TypeOK, Phases, Locked, ClientPhases, Searching, Settled,
     Stages, fileVars, brokerVars, sessionVars, clientVars
<1>13. ASSUME NEW c \in Clients, LookAgain(c)
      PROVE  TypeOK'
  BY <1>13, SMTT(60) DEF LookAgain, Goto, TypeOK, Phases, Locked, ClientPhases, Searching,
     Settled, Stages, fileVars, brokerVars, sessionVars, clientVars
<1>14. ASSUME NEW c \in Clients, SpawnDelayOver(c)
      PROVE  TypeOK'
  BY <1>14 DEF SpawnDelayOver, TypeOK, Phases, Locked, ClientPhases, Searching,
     Settled, Stages, fileVars, brokerVars, sessionVars, clientVars
<1>15. ASSUME NEW c \in Clients, Finish(c)
      PROVE  TypeOK'
  BY <1>15 DEF Finish, Goto, TypeOK, Phases, Locked, ClientPhases, Searching, Settled,
     Stages, fileVars, brokerVars, sessionVars, clientVars
<1>16. ASSUME NEW c \in Clients, Quit(c)
      PROVE  TypeOK'
  BY <1>16 DEF Quit, Goto, TypeOK, Phases, Locked, ClientPhases, Searching, Settled,
     Stages, fileVars, brokerVars, sessionVars, clientVars
<1>17. ASSUME NEW b \in Brokers, OpenLock(b)
      PROVE  TypeOK'
  BY <1>17 DEF OpenLock, TypeOK, Phases, Locked, ClientPhases, Searching, Settled,
     Stages, fileVars, brokerVars, sessionVars, clientVars
<1>18. ASSUME NEW b \in Brokers, TakeLock(b)
      PROVE  TypeOK'
  BY <1>18 DEF TakeLock, TypeOK, Phases, Locked, ClientPhases, Searching, Settled,
     Stages, fileVars, brokerVars, sessionVars, clientVars
<1>19. ASSUME NEW b \in Brokers, LoseElection(b)
      PROVE  TypeOK'
  BY <1>19 DEF LoseElection, TypeOK, Phases, Locked, ClientPhases, Searching, Settled,
     Stages, fileVars, brokerVars, sessionVars, clientVars
<1>20. ASSUME NEW b \in Brokers, Publish(b)
      PROVE  TypeOK'
  BY <1>20 DEF Publish, FreshState, TypeOK, Phases, Locked, ClientPhases, Searching,
     Settled, Stages, fileVars, brokerVars, sessionVars, clientVars
<1>21. ASSUME NEW b \in Brokers, IdleTimePasses(b)
      PROVE  TypeOK'
  BY <1>21, SMTT(60) DEF IdleTimePasses, TypeOK, Phases, Locked, ClientPhases, Searching,
     Settled, Stages, fileVars, brokerVars, sessionVars, clientVars
<1>22. ASSUME NEW b \in Brokers, BeginIdleShutdown(b)
      PROVE  TypeOK'
  BY <1>22 DEF BeginIdleShutdown, TypeOK, Phases, Locked, ClientPhases, Searching,
     Settled, Stages, fileVars, brokerVars, sessionVars, clientVars
<1>23. ASSUME NEW b \in Brokers, DropListener(b)
      PROVE  TypeOK'
  BY <1>23 DEF DropListener, Disconnect, TypeOK, Phases, Locked, ClientPhases,
     Searching, Settled, Stages, fileVars, brokerVars, sessionVars, clientVars
<1>24. ASSUME NEW b \in Brokers, RemoveEndpoint(b)
      PROVE  TypeOK'
  BY <1>24 DEF RemoveEndpoint, TypeOK, Phases, Locked, ClientPhases, Searching,
     Settled, Stages, fileVars, brokerVars, sessionVars, clientVars
<1>25. ASSUME NEW b \in Brokers, Drain(b)
      PROVE  TypeOK'
  BY <1>25 DEF Drain, Disconnect, TypeOK, Phases, Locked, ClientPhases, Searching,
     Settled, Stages, fileVars, brokerVars, sessionVars, clientVars
<1>26. ASSUME NEW b \in Brokers, Exit(b)
      PROVE  TypeOK'
  BY <1>26 DEF Exit, FreshState, Forget, TypeOK, Phases, Locked, ClientPhases,
     Searching, Settled, Stages, fileVars, brokerVars, sessionVars, clientVars
<1>27. ASSUME NEW b \in Brokers, Crash(b)
      PROVE  TypeOK'
  BY <1>27, SMTT(60) DEF Crash, FreshState, Forget, Disconnect, TypeOK, Phases, Locked,
     ClientPhases, Searching, Settled, Stages, fileVars, brokerVars, sessionVars,
     clientVars
<1>28. ASSUME NEW b \in Brokers, Reap(b)
      PROVE  TypeOK'
  BY <1>28, SMTT(60) DEF Reap, TypeOK, Phases, Locked, ClientPhases, Searching, Settled, Stages,
     fileVars, brokerVars, sessionVars, clientVars
<1>29. ASSUME NEW b \in Brokers, NEW c \in Clients, Accept(b, c)
      PROVE  TypeOK'
  <2>1. CASE Disconnect({c})
    BY <1>29, <2>1, SMTT(60) DEF Accept, Disconnect, TypeOK, Phases, Locked, ClientPhases,
       Searching, Settled, Stages, fileVars, brokerVars, clientVars
  <2>2. CASE stage' = [stage EXCEPT ![c] = "receiving"] /\ UNCHANGED <<peer, valid>>
    BY <1>29, <2>2 DEF Accept, TypeOK, Phases, Locked, ClientPhases, Searching,
       Settled, Stages, fileVars, brokerVars, clientVars
  <2> QED
    BY <1>29, <2>1, <2>2, SMTT(60) DEF Accept
<1>30. ASSUME NEW b \in Brokers, NEW c \in Clients, AcquireLease(b, c)
      PROVE  TypeOK'
  BY <1>30, SMTT(60) DEF AcquireLease, TypeOK, Phases, Locked, ClientPhases, Searching, Settled,
     Stages, fileVars, brokerVars, sessionVars, clientVars
<1>31. ASSUME NEW b \in Brokers, NEW c \in Clients, Refuse(b, c)
      PROVE  TypeOK'
  BY <1>31, SMTT(60) DEF Refuse, EndTask, Disconnect, TypeOK, Phases, Locked, ClientPhases,
     Searching, Settled, Stages, fileVars, brokerVars, sessionVars, clientVars
<1>32. ASSUME NEW b \in Brokers, NEW c \in Clients, RespondOk(b, c)
      PROVE  TypeOK'
  BY <1>32 DEF RespondOk, TypeOK, Phases, Locked, ClientPhases, Searching, Settled,
     Stages, fileVars, brokerVars, sessionVars, clientVars
<1>33. ASSUME NEW b \in Brokers, NEW c \in Clients, RespondError(b, c)
      PROVE  TypeOK'
  <2>1. c \in LeasedAt(b)
    BY <1>33, SMTT(60) DEF RespondError, LeasedAt, Leased
  <2>2. count[b] \in Nat \ {0}
    BY <2>1, LeaseHeld
  <2>3. count' \in [Brokers -> Nat] /\ expired' \in [Brokers -> BOOLEAN]
    BY <1>33, <2>2, DropLeaseType DEF RespondError
  <2>4. /\ stage' \in [Clients -> Stages] /\ peer' \in [Clients -> Brokers \cup {Nobody}]
        /\ valid' \in [Clients -> BOOLEAN] /\ finished' \in [Brokers -> Nat]
    BY <1>33, EndTaskType DEF RespondError
  <2> QED
    BY <1>33, <2>3, <2>4 DEF RespondError, TypeOK, fileVars, clientVars
<1>34. ASSUME NEW b \in Brokers, NEW c \in Clients, CancelOpen(b, c)
      PROVE  TypeOK'
  <2>1. c \in LeasedAt(b)
    BY <1>34 DEF CancelOpen, LeasedAt, Leased
  <2>2. count[b] \in Nat \ {0}
    BY <2>1, LeaseHeld
  <2>3. count' \in [Brokers -> Nat] /\ expired' \in [Brokers -> BOOLEAN]
    BY <1>34, <2>2, DropLeaseType DEF CancelOpen
  <2>4. /\ stage' \in [Clients -> Stages] /\ peer' \in [Clients -> Brokers \cup {Nobody}]
        /\ valid' \in [Clients -> BOOLEAN] /\ finished' \in [Brokers -> Nat]
    BY <1>34, EndTaskType DEF CancelOpen
  <2> QED
    BY <1>34, <2>3, <2>4 DEF CancelOpen, TypeOK, fileVars, clientVars
<1>35. ASSUME NEW b \in Brokers, NEW c \in Clients, CloseSession(b, c)
      PROVE  TypeOK'
  <2>1. c \in LeasedAt(b)
    BY <1>35 DEF CloseSession, LeasedAt, Leased
  <2>2. count[b] \in Nat \ {0}
    BY <2>1, LeaseHeld
  <2>3. count' \in [Brokers -> Nat] /\ expired' \in [Brokers -> BOOLEAN]
    BY <1>35, <2>2, DropLeaseType DEF CloseSession
  <2>4. /\ stage' \in [Clients -> Stages] /\ peer' \in [Clients -> Brokers \cup {Nobody}]
        /\ valid' \in [Clients -> BOOLEAN] /\ finished' \in [Brokers -> Nat]
    BY <1>35, EndTaskType DEF CloseSession
  <2> QED
    BY <1>35, <2>3, <2>4 DEF CloseSession, TypeOK, fileVars, clientVars
<1> QED
  BY <1>1, <1>2, <1>3, <1>4, <1>5, <1>6, <1>7, <1>8, <1>9, <1>10, <1>11, <1>12, <1>13,
     <1>14, <1>15, <1>16, <1>17, <1>18, <1>19, <1>20, <1>21, <1>22, <1>23, <1>24,
     <1>25, <1>26, <1>27, <1>28, <1>29, <1>30, <1>31, <1>32, <1>33, <1>34,
     <1>35 DEF Next, ClientStep, BrokerStep, SessionStep

-----------------------------------------------------------------------------
(* Locks, endpoints and phases.                                            *)

Control == LockOwned /\ EndpointOwned /\ Unconnected /\ SessionsHosted /\ StoppingKnown

\* Every step keeps the lock, the endpoint and the sessions where they belong.
LEMMA ControlStep ==
    ASSUME IInv, [Next]_vars
    PROVE  Control'
<1> USE ManagerAssumption DEF IInv, Control, LockOwned, EndpointOwned, Unconnected,
                             SessionsHosted, StoppingKnown, Locked, Listening, Tasks, Leased
<1>1. CASE UNCHANGED vars
  BY <1>1, SMTT(60) DEF vars
<1>2. ASSUME NEW c \in Clients, Start(c)
      PROVE  Control'
  BY <1>2, SMTT(60) DEF Start, Goto, TypeOK, fileVars, brokerVars, sessionVars, clientVars
<1>3. ASSUME NEW c \in Clients, NoLockFile(c)
      PROVE  Control'
  BY <1>3, SMTT(60) DEF NoLockFile, Goto, TypeOK, fileVars, brokerVars, sessionVars, clientVars
<1>4. ASSUME NEW c \in Clients, ProbeTakesLock(c)
      PROVE  Control'
  <2>1. \A b \in Brokers : pc[b] \notin Locked
    BY <1>4, SMTT(60) DEF ProbeTakesLock
  <2>2. stage[c] \in Stages
    BY SMTT(60) DEF TypeOK
  <2>3. stage[c] = "none"
    BY <2>1, <2>2, SMTT(60) DEF Stages
  <2> QED
    BY <1>4, <2>1, <2>3, SMTT(60) DEF ProbeTakesLock, Goto, TypeOK, brokerVars, sessionVars
<1>5. ASSUME NEW c \in Clients, ProbeUnlocks(c)
      PROVE  Control'
  BY <1>5, SMTT(60) DEF ProbeUnlocks, Goto, TypeOK, fileVars, brokerVars, sessionVars, clientVars
<1>6. ASSUME NEW c \in Clients, ProbeSeesHolder(c)
      PROVE  Control'
  BY <1>6, SMTT(60) DEF ProbeSeesHolder, Goto, TypeOK, fileVars, brokerVars, sessionVars,
     clientVars
<1>7. ASSUME NEW c \in Clients, ReadEndpoint(c)
      PROVE  Control'
  BY <1>7, SMTT(60) DEF ReadEndpoint, Goto, TypeOK, fileVars, brokerVars, sessionVars, clientVars
<1>8. ASSUME NEW c \in Clients, Connect(c)
      PROVE  Control'
  BY <1>8, SMTT(60) DEF Connect, Goto, TypeOK, fileVars, brokerVars, sessionVars, clientVars
<1>9. ASSUME NEW c \in Clients, ConnectFails(c)
      PROVE  Control'
  BY <1>9, SMTT(60) DEF ConnectFails, Goto, TypeOK, fileVars, brokerVars, sessionVars, clientVars
<1>10. ASSUME NEW c \in Clients, GetResponse(c)
      PROVE  Control'
  BY <1>10, SMTT(60) DEF GetResponse, Goto, TypeOK, fileVars, brokerVars, sessionVars, clientVars
<1>11. ASSUME NEW c \in Clients, GetEof(c)
      PROVE  Control'
  BY <1>11, SMTT(60) DEF GetEof, Goto, TypeOK, fileVars, brokerVars, sessionVars, clientVars
<1>12. ASSUME NEW c \in Clients, Respawn(c)
      PROVE  Control'
  BY <1>12, SMTT(60) DEF Respawn, Goto, TypeOK, fileVars, brokerVars, sessionVars, clientVars
<1>13. ASSUME NEW c \in Clients, LookAgain(c)
      PROVE  Control'
  BY <1>13, SMTT(60) DEF LookAgain, Goto, TypeOK, fileVars, brokerVars, sessionVars, clientVars
<1>14. ASSUME NEW c \in Clients, SpawnDelayOver(c)
      PROVE  Control'
  BY <1>14, SMTT(60) DEF SpawnDelayOver, TypeOK, fileVars, brokerVars, sessionVars, clientVars
<1>15. ASSUME NEW c \in Clients, Finish(c)
      PROVE  Control'
  BY <1>15, SMTT(60) DEF Finish, Goto, TypeOK, fileVars, brokerVars, sessionVars, clientVars
<1>16. ASSUME NEW c \in Clients, Quit(c)
      PROVE  Control'
  BY <1>16, SMTT(60) DEF Quit, Goto, TypeOK, fileVars, brokerVars, sessionVars, clientVars
<1>17. ASSUME NEW b \in Brokers, OpenLock(b)
      PROVE  Control'
  BY <1>17, SMTT(60) DEF OpenLock, TypeOK, fileVars, brokerVars, sessionVars, clientVars
<1>18. ASSUME NEW b \in Brokers, TakeLock(b)
      PROVE  Control'
  BY <1>18, SMTT(60) DEF TakeLock, TypeOK, fileVars, brokerVars, sessionVars, clientVars
<1>19. ASSUME NEW b \in Brokers, LoseElection(b)
      PROVE  Control'
  BY <1>19, SMTT(60) DEF LoseElection, TypeOK, fileVars, brokerVars, sessionVars, clientVars
<1>20. ASSUME NEW b \in Brokers, Publish(b)
      PROVE  Control'
  BY <1>20, SMTT(60) DEF Publish, FreshState, TypeOK, fileVars, brokerVars, sessionVars,
     clientVars
<1>21. ASSUME NEW b \in Brokers, IdleTimePasses(b)
      PROVE  Control'
  BY <1>21, SMTT(60) DEF IdleTimePasses, TypeOK, fileVars, brokerVars, sessionVars, clientVars
<1>22. ASSUME NEW b \in Brokers, BeginIdleShutdown(b)
      PROVE  Control'
  <2>1. \A c \in Clients : peer[c] = b => stage[c] \notin Leased
    BY <1>22, NoLease DEF BeginIdleShutdown, LeasedAt
  <2> QED
    BY <1>22, <2>1, SMTT(60) DEF BeginIdleShutdown, TypeOK, fileVars, brokerVars, sessionVars,
       clientVars
<1>23. ASSUME NEW b \in Brokers, DropListener(b)
      PROVE  Control'
  BY <1>23, SMTT(60) DEF DropListener, Disconnect, TypeOK, fileVars, brokerVars, sessionVars,
     clientVars
<1>24. ASSUME NEW b \in Brokers, RemoveEndpoint(b)
      PROVE  Control'
  BY <1>24, SMTT(60) DEF RemoveEndpoint, TypeOK, fileVars, brokerVars, sessionVars, clientVars
<1>25. ASSUME NEW b \in Brokers, Drain(b)
      PROVE  Control'
  BY <1>25, SMTT(60) DEF Drain, Disconnect, TypeOK, fileVars, brokerVars, sessionVars, clientVars
<1>26. ASSUME NEW b \in Brokers, Exit(b)
      PROVE  Control'
  BY <1>26, SMTT(60) DEF Exit, FreshState, Forget, TypeOK, fileVars, brokerVars, sessionVars,
     clientVars
<1>27. ASSUME NEW b \in Brokers, Crash(b)
      PROVE  Control'
  BY <1>27, SMTT(60) DEF Crash, FreshState, Forget, Disconnect, TypeOK, fileVars, brokerVars,
     sessionVars, clientVars
<1>28. ASSUME NEW b \in Brokers, Reap(b)
      PROVE  Control'
  BY <1>28 DEF Reap, TypeOK, fileVars, brokerVars, sessionVars, clientVars
<1>29. ASSUME NEW b \in Brokers, NEW c \in Clients, Accept(b, c)
      PROVE  Control'
  BY <1>29, SMTT(60) DEF Accept, Disconnect, TypeOK, fileVars, brokerVars, sessionVars, clientVars
<1>30. ASSUME NEW b \in Brokers, NEW c \in Clients, AcquireLease(b, c)
      PROVE  Control'
  BY <1>30, SMTT(60) DEF AcquireLease, TypeOK, fileVars, brokerVars, sessionVars, clientVars
<1>31. ASSUME NEW b \in Brokers, NEW c \in Clients, Refuse(b, c)
      PROVE  Control'
  BY <1>31, SMTT(60) DEF Refuse, EndTask, Disconnect, TypeOK, fileVars, brokerVars, sessionVars,
     clientVars
<1>32. ASSUME NEW b \in Brokers, NEW c \in Clients, RespondOk(b, c)
      PROVE  Control'
  BY <1>32, SMTT(60) DEF RespondOk, TypeOK, fileVars, brokerVars, sessionVars, clientVars
<1>33. ASSUME NEW b \in Brokers, NEW c \in Clients, RespondError(b, c)
      PROVE  Control'
  BY <1>33, ZenonT(60) DEF RespondError, EndTask, Disconnect, DropLease, TypeOK, fileVars,
     brokerVars, sessionVars, clientVars
<1>34. ASSUME NEW b \in Brokers, NEW c \in Clients, CancelOpen(b, c)
      PROVE  Control'
  BY <1>34, ZenonT(60) DEF CancelOpen, EndTask, Disconnect, DropLease, TypeOK, fileVars,
     brokerVars, sessionVars, clientVars
<1>35. ASSUME NEW b \in Brokers, NEW c \in Clients, CloseSession(b, c)
      PROVE  Control'
  BY <1>35, SMTT(60) DEF CloseSession, EndTask, Disconnect, DropLease, TypeOK, fileVars,
     brokerVars, sessionVars, clientVars
<1> QED
  BY <1>1, <1>2, <1>3, <1>4, <1>5, <1>6, <1>7, <1>8, <1>9, <1>10, <1>11, <1>12, <1>13,
     <1>14, <1>15, <1>16, <1>17, <1>18, <1>19, <1>20, <1>21, <1>22, <1>23, <1>24,
     <1>25, <1>26, <1>27, <1>28, <1>29, <1>30, <1>31, <1>32, <1>33, <1>34, <1>35,
     ZenonT(60) DEF Next, ClientStep, BrokerStep, SessionStep

-----------------------------------------------------------------------------
(* Lease counters and the session limit.                                   *)

\* It is enough to look at the one broker b whose sessions change.
LEMMA OneBrokerChanges ==
    ASSUME LeasesCounted, SessionsBounded, NEW b \in Brokers,
           \A a \in Brokers \ {b} :
               /\ LeasedAt(a)' = LeasedAt(a) /\ count'[a] = count[a]
               /\ TasksAt(a)' = TasksAt(a) /\ finished'[a] = finished[a],
           count'[b] = Cardinality(LeasedAt(b)'),
           Cardinality(TasksAt(b)') + finished'[b] <= MaxSessions
    PROVE  LeasesCounted' /\ SessionsBounded'
<1>1. \A a \in Brokers : count'[a] = Cardinality(LeasedAt(a)')
  BY ZenonT(60) DEF LeasesCounted, LeasedAt
<1>2. \A a \in Brokers : Cardinality(TasksAt(a)') + finished'[a] <= MaxSessions
  BY ZenonT(60) DEF SessionsBounded, Sessions, TasksAt
<1> QED
  BY <1>1, <1>2 DEF LeasesCounted, SessionsBounded, Sessions, LeasedAt, TasksAt

\* What the counters of b are now.
LEMMA CountersNow ==
    ASSUME LeasesCounted, SessionsBounded, NEW b \in Brokers
    PROVE  /\ count[b] = Cardinality(LeasedAt(b))
           /\ Cardinality(TasksAt(b)) + finished[b] <= MaxSessions
           /\ Sessions(b) = Cardinality(TasksAt(b)) + finished[b]
  BY DEF LeasesCounted, SessionsBounded, Sessions, LeasedAt, TasksAt

\* A session that holds a lease lets go of it, and its task ends.
LEMMA LeaseEnds ==
    ASSUME TypeOK, LeasesCounted, SessionsBounded, NEW b \in Brokers, NEW c \in Clients,
           peer[c] = b, stage[c] \in Leased, EndTask(b, c), DropLease(b)
    PROVE  LeasesCounted' /\ SessionsBounded'
<1> USE DEF EndTask, Disconnect, DropLease, TypeOK
<1>1. LeasedAt(b)' = LeasedAt(b) \ {c} /\ TasksAt(b)' = TasksAt(b) \ {c}
  BY ManagerAssumption, SMTT(60) DEF LeasedAt, TasksAt, Leased, Tasks
<1>2. c \in LeasedAt(b) /\ c \in TasksAt(b)
  BY DEF LeasedAt, TasksAt, Leased, Tasks
<1>3. /\ Cardinality(LeasedAt(b) \ {c}) = Cardinality(LeasedAt(b)) - 1
      /\ Cardinality(TasksAt(b) \ {c}) = Cardinality(TasksAt(b)) - 1
  BY <1>2, FiniteSessions, CountOne
<1>4. \A a \in Brokers \ {b} :
        /\ LeasedAt(a)' = LeasedAt(a) /\ count'[a] = count[a]
        /\ TasksAt(a)' = TasksAt(a) /\ finished'[a] = finished[a]
  BY ManagerAssumption, SMTT(60) DEF LeasedAt, TasksAt
<1>5. count'[b] = Cardinality(LeasedAt(b)')
  BY <1>1, <1>3, CountersNow
<1>6. Cardinality(TasksAt(b)') + finished'[b] <= MaxSessions
  BY <1>1, <1>3, CountersNow, FiniteSessions, ManagerAssumption, SMTT(60)
<1> QED
  BY <1>4, <1>5, <1>6, OneBrokerChanges

\* Every step keeps the lease counters exact and the JoinSet within its limit.
LEMMA CountStep ==
    ASSUME IInv, [Next]_vars
    PROVE  LeasesCounted' /\ SessionsBounded'
<1> USE ManagerAssumption DEF IInv
<1> DEFINE Same(a) == /\ LeasedAt(a)' = LeasedAt(a) /\ count'[a] = count[a]
                      /\ TasksAt(a)' = TasksAt(a) /\ finished'[a] = finished[a]
<1>1. CASE UNCHANGED vars
  BY <1>1, SameSessions DEF vars
<1>2. ASSUME NEW c \in Clients,
             Start(c) \/ NoLockFile(c) \/ ProbeTakesLock(c) \/ ProbeUnlocks(c)
               \/ ProbeSeesHolder(c) \/ ReadEndpoint(c) \/ ConnectFails(c)
               \/ GetResponse(c) \/ GetEof(c) \/ Respawn(c) \/ LookAgain(c)
               \/ SpawnDelayOver(c) \/ Finish(c) \/ Quit(c)
      PROVE  LeasesCounted' /\ SessionsBounded'
  <2>1. UNCHANGED <<peer, stage, count, finished>>
    BY <1>2 DEF Start, NoLockFile, ProbeTakesLock, ProbeUnlocks,
       ProbeSeesHolder, ReadEndpoint, ConnectFails, GetResponse, GetEof, Respawn,
       LookAgain, SpawnDelayOver, Finish, Quit, sessionVars, brokerVars
  <2> QED
    BY <2>1, SameSessions
<1>3. ASSUME NEW b \in Brokers,
             OpenLock(b) \/ TakeLock(b) \/ LoseElection(b) \/ IdleTimePasses(b)
               \/ BeginIdleShutdown(b) \/ RemoveEndpoint(b)
      PROVE  LeasesCounted' /\ SessionsBounded'
  <2>1. UNCHANGED <<peer, stage, count, finished>>
    BY <1>3 DEF OpenLock, TakeLock, LoseElection, IdleTimePasses,
       BeginIdleShutdown, RemoveEndpoint, sessionVars
  <2> QED
    BY <2>1, SameSessions
<1>4. ASSUME NEW c \in Clients, Connect(c)
      PROVE  LeasesCounted' /\ SessionsBounded'
  <2>1. stage[c] = "none"
    BY <1>4 DEF Connect, Unconnected
  <2>2. \A a \in Brokers : Same(a)
    BY <1>4, <2>1, SMTT(60) DEF Connect, LeasedAt, TasksAt, Leased, Tasks, brokerVars, TypeOK
  <2> QED
    BY <2>2 DEF LeasesCounted, SessionsBounded, Sessions, LeasedAt, TasksAt
<1>5. ASSUME NEW b \in Brokers, DropListener(b)
      PROVE  LeasesCounted' /\ SessionsBounded'
  <2>1. \A a \in Brokers : Same(a)
    BY <1>5, SMTT(60) DEF DropListener, Disconnect, LeasedAt, TasksAt, Leased, Tasks, TypeOK
  <2> QED
    BY <2>1 DEF LeasesCounted, SessionsBounded, Sessions, LeasedAt, TasksAt
<1>6. ASSUME NEW b \in Brokers, Publish(b)
      PROVE  LeasesCounted' /\ SessionsBounded'
  <2>1. \A c \in Clients : stage[c] \in Tasks => peer[c] # b
    BY <1>6 DEF Publish, SessionsHosted
  <2>2. LeasedAt(b)' = {} /\ TasksAt(b)' = {}
    BY <1>6, <2>1 DEF Publish, LeasedAt, TasksAt, Leased, Tasks, sessionVars
  <2>3. count'[b] = 0 /\ finished'[b] = 0
    BY <1>6, SMTT(60) DEF Publish, FreshState, TypeOK
  <2>4. \A a \in Brokers \ {b} : Same(a)
    BY <1>6, SMTT(60) DEF Publish, FreshState, LeasedAt, TasksAt, sessionVars, TypeOK
  <2>5. /\ count'[b] = Cardinality(LeasedAt(b)')
        /\ Cardinality(TasksAt(b)') + finished'[b] <= MaxSessions
    BY <2>2, <2>3, FS_EmptySet, SMTT(60)
  <2> QED
    BY <2>4, <2>5, OneBrokerChanges
<1>7. ASSUME NEW b \in Brokers, Exit(b)
      PROVE  LeasesCounted' /\ SessionsBounded'
  <2>1. \A c \in Clients : stage[c] \in Tasks => peer[c] # b
    BY <1>7 DEF Exit, SessionsHosted
  <2>2. LeasedAt(b)' = {} /\ TasksAt(b)' = {}
    BY <1>7, <2>1, SMTT(60) DEF Exit, LeasedAt, TasksAt, Leased, Tasks, sessionVars
  <2>3. count'[b] = 0 /\ finished'[b] = 0
    BY <1>7, SMTT(60) DEF Exit, FreshState, TypeOK
  <2>4. \A a \in Brokers \ {b} : Same(a)
    BY <1>7, ZenonT(60) DEF Exit, FreshState, LeasedAt, TasksAt, sessionVars, TypeOK
  <2>5. /\ count'[b] = Cardinality(LeasedAt(b)')
        /\ Cardinality(TasksAt(b)') + finished'[b] <= MaxSessions
    BY <2>2, <2>3, FS_EmptySet, SMTT(60)
  <2> QED
    BY <2>4, <2>5, OneBrokerChanges
<1>8. ASSUME NEW b \in Brokers, Crash(b)
      PROVE  LeasesCounted' /\ SessionsBounded'
  <2>1. LeasedAt(b)' = {} /\ TasksAt(b)' = {}
    BY <1>8, SMTT(60) DEF Crash, Disconnect, LeasedAt, TasksAt, TypeOK, Leased, Tasks
  <2>2. count'[b] = 0 /\ finished'[b] = 0
    BY <1>8, ZenonT(60) DEF Crash, FreshState, TypeOK
  <2>3. \A a \in Brokers \ {b} : Same(a)
    BY <1>8, SMTT(60) DEF Crash, Disconnect, FreshState, LeasedAt, TasksAt, TypeOK
  <2>4. /\ count'[b] = Cardinality(LeasedAt(b)')
        /\ Cardinality(TasksAt(b)') + finished'[b] <= MaxSessions
    BY <2>1, <2>2, FS_EmptySet, SMTT(60)
  <2> QED
    BY <2>3, <2>4, OneBrokerChanges
<1>9. ASSUME NEW b \in Brokers, Drain(b)
      PROVE  LeasesCounted' /\ SessionsBounded'
  <2>1. LeasedAt(b) = {}
    BY <1>9, SMTT(60) DEF Drain, SessionsHosted, LeasedAt
  <2>2. LeasedAt(b)' = {} /\ TasksAt(b)' = {}
    BY <1>9, SMTT(60) DEF Drain, Disconnect, LeasedAt, TasksAt, TypeOK, Leased, Tasks
  <2>3. count[b] = 0
    BY <2>1, CountersNow, FS_EmptySet
  <2>4. count'[b] = 0 /\ finished'[b] = 0
    BY <1>9, <2>3, SMTT(60) DEF Drain, TypeOK
  <2>5. \A a \in Brokers \ {b} : Same(a)
    BY <1>9, SMTT(60) DEF Drain, Disconnect, LeasedAt, TasksAt, TypeOK
  <2>6. /\ count'[b] = Cardinality(LeasedAt(b)')
        /\ Cardinality(TasksAt(b)') + finished'[b] <= MaxSessions
    BY <2>2, <2>4, FS_EmptySet, SMTT(60)
  <2> QED
    BY <2>5, <2>6, OneBrokerChanges
<1>10. ASSUME NEW b \in Brokers, Reap(b)
      PROVE  LeasesCounted' /\ SessionsBounded'
  <2>1. \A a \in Brokers : LeasedAt(a)' = LeasedAt(a) /\ TasksAt(a)' = TasksAt(a)
    BY <1>10 DEF Reap, LeasedAt, TasksAt, sessionVars
  <2>2. UNCHANGED count /\ finished' = [finished EXCEPT ![b] = @ - 1]
    BY <1>10 DEF Reap
  <2>3. Cardinality(TasksAt(b)') + finished'[b] <= MaxSessions
    BY <2>1, <2>2, CountersNow, FiniteSessions, SMTT(60) DEF TypeOK
  <2> QED
    BY <2>1, <2>2, <2>3, CountersNow, OneBrokerChanges, SMTT(60) DEF TypeOK
<1>11. ASSUME NEW b \in Brokers, NEW c \in Clients, Accept(b, c)
      PROVE  LeasesCounted' /\ SessionsBounded'
  <2>1. CASE Disconnect({c})
    <3>1. \A a \in Brokers : Same(a)
      BY <1>11, <2>1, SMTT(60) DEF Accept, Disconnect, LeasedAt, TasksAt, Leased, Tasks,
         brokerVars, TypeOK
    <3> QED
      BY <3>1 DEF LeasesCounted, SessionsBounded, Sessions, LeasedAt, TasksAt
  <2>2. CASE ~(Sessions(b) >= MaxSessions)
    <3>1. UNCHANGED <<peer, count, finished>> /\ stage' = [stage EXCEPT ![c] = "receiving"]
      BY <1>11, <2>2 DEF Accept, brokerVars
    <3>2. TasksAt(b)' = TasksAt(b) \cup {c} /\ LeasedAt(b)' = LeasedAt(b) /\ c \notin TasksAt(b)
      BY <1>11, <3>1, SMTT(60) DEF Accept, LeasedAt, TasksAt, Leased, Tasks, TypeOK
    <3>3. Cardinality(TasksAt(b)') = Cardinality(TasksAt(b)) + 1
      BY <3>2, FiniteSessions, CountOne
    <3>4. Cardinality(TasksAt(b)') + finished'[b] <= MaxSessions
      BY <2>2, <3>1, <3>3, CountersNow, FiniteSessions, SMTT(60) DEF TypeOK
    <3>5. \A a \in Brokers \ {b} : Same(a)
      BY <1>11, <3>1, SMTT(60) DEF Accept, LeasedAt, TasksAt, TypeOK
    <3> QED
      BY <3>1, <3>2, <3>4, <3>5, CountersNow, OneBrokerChanges
  <2> QED
    BY <1>11, <2>1, <2>2 DEF Accept
<1>12. ASSUME NEW b \in Brokers, NEW c \in Clients, AcquireLease(b, c)
      PROVE  LeasesCounted' /\ SessionsBounded'
  <2>1. /\ UNCHANGED <<peer, finished>> /\ stage' = [stage EXCEPT ![c] = "leased"]
        /\ count' = [count EXCEPT ![b] = @ + 1]
    BY <1>12 DEF AcquireLease
  <2>2. LeasedAt(b)' = LeasedAt(b) \cup {c} /\ TasksAt(b)' = TasksAt(b) /\ c \notin LeasedAt(b)
    BY <1>12, <2>1, SMTT(60) DEF AcquireLease, LeasedAt, TasksAt, Leased, Tasks, TypeOK
  <2>3. Cardinality(LeasedAt(b)') = Cardinality(LeasedAt(b)) + 1
    BY <2>2, FiniteSessions, CountOne
  <2>4. \A a \in Brokers \ {b} : Same(a)
    BY <1>12, <2>1, SMTT(60) DEF AcquireLease, LeasedAt, TasksAt, TypeOK
  <2>5. count'[b] = Cardinality(LeasedAt(b)')
    BY <2>1, <2>3, CountersNow DEF TypeOK
  <2>6. Cardinality(TasksAt(b)') + finished'[b] <= MaxSessions
    BY <2>1, <2>2, CountersNow
  <2> QED
    BY <2>4, <2>5, <2>6, OneBrokerChanges
<1>13. ASSUME NEW b \in Brokers, NEW c \in Clients, Refuse(b, c)
      PROVE  LeasesCounted' /\ SessionsBounded'
  <2>1. TasksAt(b)' = TasksAt(b) \ {c} /\ LeasedAt(b)' = LeasedAt(b) /\ c \in TasksAt(b)
    BY <1>13 DEF Refuse, EndTask, Disconnect, LeasedAt, TasksAt, Leased, Tasks, TypeOK
  <2>2. Cardinality(TasksAt(b)') = Cardinality(TasksAt(b)) - 1
    BY <2>1, FiniteSessions, CountOne
  <2>3. UNCHANGED count /\ finished' = [finished EXCEPT ![b] = @ + 1]
    BY <1>13 DEF Refuse, EndTask
  <2>4. \A a \in Brokers \ {b} : Same(a)
    BY <1>13, SMTT(60) DEF Refuse, EndTask, Disconnect, LeasedAt, TasksAt, TypeOK
  <2>5. Cardinality(TasksAt(b)') + finished'[b] <= MaxSessions
    BY <2>2, <2>3, CountersNow, FiniteSessions, SMTT(60) DEF TypeOK
  <2> QED
    BY <2>1, <2>3, <2>4, <2>5, CountersNow, OneBrokerChanges
<1>14. ASSUME NEW b \in Brokers, NEW c \in Clients, RespondOk(b, c)
      PROVE  LeasesCounted' /\ SessionsBounded'
  <2>1. \A a \in Brokers : Same(a)
    BY <1>14, SMTT(60) DEF RespondOk, LeasedAt, TasksAt, Leased, Tasks, brokerVars, TypeOK
  <2> QED
    BY <2>1 DEF LeasesCounted, SessionsBounded, Sessions, LeasedAt, TasksAt
<1>15. ASSUME NEW b \in Brokers, NEW c \in Clients,
              RespondError(b, c) \/ CancelOpen(b, c) \/ CloseSession(b, c)
      PROVE  LeasesCounted' /\ SessionsBounded'
  BY <1>15, LeaseEnds DEF RespondError, CancelOpen, CloseSession, Leased
<1> QED
  BY <1>1, <1>2, <1>3, <1>4, <1>5, <1>6, <1>7, <1>8, <1>9, <1>10, <1>11, <1>12,
     <1>13, <1>14, <1>15
  DEF Next, ClientStep, BrokerStep, SessionStep

-----------------------------------------------------------------------------
(* The safety properties.                                                  *)

\* IInv holds in every reachable state.
THEOREM Invariance == Spec => []IInv
<1>1. Init => IInv
  <2> SUFFICES ASSUME Init PROVE IInv
    OBVIOUS
  <2> USE ManagerAssumption DEF Init
  <2>1. TypeOK
    BY DEF TypeOK, Phases, ClientPhases, Stages
  <2>2. Control
    BY DEF Control, LockOwned, EndpointOwned, Unconnected, SessionsHosted,
       StoppingKnown,
           Locked, Tasks, Leased
  <2>3. \A b \in Brokers : LeasedAt(b) = {} /\ TasksAt(b) = {}
    BY DEF LeasedAt, TasksAt
  <2>4. \A b \in Brokers : Cardinality(LeasedAt(b)) = 0 /\ Cardinality(TasksAt(b)) = 0
    BY <2>3, FS_EmptySet
  <2>5. LeasesCounted /\ SessionsBounded
    BY <2>4, SMTT(60) DEF LeasesCounted, SessionsBounded, Sessions, LeasedAt, TasksAt
  <2> QED
    BY <2>1, <2>2, <2>5 DEF IInv, Control
<1>2. IInv /\ [Next]_vars => IInv'
  BY TypeStep, ControlStep, CountStep DEF IInv, Control
<1> QED
  BY <1>1, <1>2, PTL DEF Spec

\* Every variable keeps its type; the lease counter in particular never goes
\* below zero (Drop for Lease).
THEOREM TypeCorrect == Spec => []TypeOK
<1>1. IInv => TypeOK
  BY DEF IInv
<1> QED
  BY <1>1, Invariance, PTL

\* At most one broker process is past the election (broker(), try_lock).
THEOREM Election == Spec => []OneManager
<1>1. IInv => OneManager
  BY DEF IInv, LockOwned, OneManager
<1> QED
  BY <1>1, Invariance, PTL

\* The endpoint file names the broker that serves (persist, remove_file).
THEOREM EndpointCurrent == Spec => []EndpointIsCurrent
<1>1. IInv => EndpointIsCurrent
  BY DEF IInv, EndpointOwned, EndpointIsCurrent
<1> QED
  BY <1>1, Invariance, PTL

\* The lease counter is exact and the session limit is kept (Lease, the accept
\* arm), and idle shutdown cuts no session with a lease (begin_idle_shutdown).
THEOREM Leases == Spec => [](LeasesCounted /\ SessionsBounded /\ ShutdownCutsNoSession)
<1>1. IInv => LeasesCounted /\ SessionsBounded /\ ShutdownCutsNoSession
  BY DEF IInv, SessionsHosted, ShutdownCutsNoSession
<1> QED
  BY <1>1, Invariance, PTL

-----------------------------------------------------------------------------
(* The manager implements SharedManager.                                   *)

\* The refinement mapping of Manager.
Owner == IF \E b \in Brokers : pc[b] = "serving"
           THEN CHOOSE b \in Brokers : pc[b] = "serving"
           ELSE Nobody
Holders == {c \in Clients : stage[c] \in Leased}

\* The owner is the broker that serves, if there is one.
LEMMA OwnerServes ==
    ASSUME OneManager
    PROVE  /\ \A b \in Brokers : pc[b] = "serving" => Owner = b
           /\ (\A b \in Brokers : pc[b] # "serving") => Owner = Nobody
<1>1. ASSUME NEW b \in Brokers, pc[b] = "serving"
      PROVE  Owner = b
  <2>1. \A a \in Brokers : pc[a] = "serving" <=> a = b
    BY <1>1 DEF OneManager, Locked
  <2> QED
    BY <1>1, <2>1 DEF Owner
<1> QED
  BY <1>1 DEF Owner

\* The same after a step.
LEMMA OwnerServesNext ==
    ASSUME OneManager'
    PROVE  /\ \A b \in Brokers : pc'[b] = "serving" => Owner' = b
           /\ (\A b \in Brokers : pc'[b] # "serving") => Owner' = Nobody
<1>1. ASSUME NEW b \in Brokers, pc'[b] = "serving"
      PROVE  Owner' = b
  <2>1. \A a \in Brokers : pc'[a] = "serving" <=> a = b
    BY <1>1 DEF OneManager, Locked
  <2> QED
    BY <1>1, <2>1 DEF Owner
<1> QED
  BY <1>1 DEF Owner

\* Every step of the manager is a step of SharedManager, or leaves its state.
LEMMA SharedStep ==
    ASSUME IInv, IInv', [Next]_vars
    PROVE  [Shared!SharedNext]_(Shared!sharedVars)
<1> DEFINE Goal == Shared!SharedNext \/ UNCHANGED Shared!sharedVars
           Kept == \A b \in Brokers : pc'[b] = "serving" <=> pc[b] = "serving"
<1> SUFFICES Goal
  OBVIOUS
<1> HIDE DEF Goal
<1> USE ManagerAssumption
<1>a. /\ OneManager /\ OneManager'
      /\ \A c \in Holders : peer[c] \in Brokers /\ pc[peer[c]] = "serving"
      /\ \A c \in Holders' : peer'[c] \in Brokers /\ pc'[peer'[c]] = "serving"
  BY ZenonT(60) DEF IInv, LockOwned, OneManager, SessionsHosted, Holders, Leased
<1>t. /\ pc \in [Brokers -> Phases] /\ stage \in [Clients -> Stages]
      /\ peer \in [Clients -> Brokers \cup {Nobody}]
  BY DEF IInv, TypeOK
<1>b. Kept => Owner' = Owner
  BY <1>a, OwnerServes, OwnerServesNext
<1>c. ASSUME Kept, Holders' = Holders, crashes' = crashes
      PROVE  Goal
  BY <1>b, <1>c DEF Goal, Shared!sharedVars, Owner, Holders
<1>1. CASE UNCHANGED vars
  BY <1>1, <1>c DEF vars, Holders
<1>2. ASSUME NEW c \in Clients, Start(c) \/ NoLockFile(c) \/ ProbeTakesLock(c)
               \/ ProbeUnlocks(c) \/ ProbeSeesHolder(c) \/ ReadEndpoint(c)
               \/ ConnectFails(c) \/ GetResponse(c) \/ GetEof(c) \/ LookAgain(c)
               \/ SpawnDelayOver(c) \/ Finish(c) \/ Quit(c)
      PROVE  Goal
  <2>1. UNCHANGED <<pc, stage, crashes>>
    BY <1>2 DEF Start, NoLockFile, ProbeTakesLock, ProbeUnlocks, ProbeSeesHolder,
                ReadEndpoint, ConnectFails, GetResponse, GetEof, LookAgain,
                SpawnDelayOver, Finish, Quit, brokerVars, sessionVars
  <2> QED
    BY <2>1, <1>c DEF Holders
<1>3. ASSUME NEW c \in Clients, Connect(c)
      PROVE  Goal
  <2>1. stage[c] = "none"
    BY <1>3 DEF Connect, IInv, Unconnected
  <2>2. UNCHANGED <<pc, crashes>> /\ stage' = [stage EXCEPT ![c] = "backlog"]
    BY <1>3 DEF Connect, brokerVars
  <2>3. Holders' = Holders
    BY <2>1, <2>2, <1>t DEF Holders, Leased
  <2> QED
    BY <2>2, <2>3, <1>c
<1>4. ASSUME NEW c \in Clients, Respawn(c)
      PROVE  Goal
  <2>1. UNCHANGED <<stage, crashes>> /\ Kept
    BY <1>4, <1>t DEF Respawn, sessionVars
  <2> QED
    BY <2>1, <1>c DEF Holders
<1>5. ASSUME NEW b \in Brokers, Publish(b)
      PROVE  Goal
  <2>1. \A a \in Brokers : pc[a] # "serving"
    BY <1>5, <1>a DEF Publish, OneManager, Locked
  <2>2. pc'[b] = "serving"
    BY <1>5, <1>t DEF Publish
  <2>3. Owner = Nobody /\ Owner' = b
    BY <2>1, <2>2, <1>a, OwnerServes, OwnerServesNext
  <2>4. Holders' = Holders /\ crashes' = crashes
    BY <1>5 DEF Publish, sessionVars, Holders
  <2>5. Shared!Elect(b)
    BY <2>3, <2>4 DEF Shared!Elect, Owner, Holders
  <2> QED
    BY <2>5 DEF Goal, Shared!SharedNext
<1>6. ASSUME NEW b \in Brokers, BeginIdleShutdown(b)
      PROVE  Goal
  <2>1. pc[b] = "serving" /\ \A a \in Brokers : pc'[a] # "serving"
    BY <1>6, <1>a, <1>t, SMTT(60) DEF BeginIdleShutdown, OneManager, Locked
  <2>2. Owner = b /\ Owner' = Nobody
    BY <2>1, <1>a, OwnerServes, OwnerServesNext
  <2>3. LeasedAt(b) = {}
    BY <1>6, NoLease DEF BeginIdleShutdown, IInv
  <2>4. Holders = {}
    BY <2>1, <2>3, <1>a, ZenonT(60) DEF LeasedAt, Holders, OneManager, Locked
  <2>5. Holders' = Holders /\ crashes' = crashes
    BY <1>6 DEF BeginIdleShutdown, sessionVars, Holders
  <2>6. Shared!Retire
    BY <2>2, <2>4, <2>5 DEF Shared!Retire, Owner, Holders
  <2> QED
    BY <2>6 DEF Goal, Shared!SharedNext
<1>7. ASSUME NEW b \in Brokers, Crash(b)
      PROVE  Goal
  <2>1. crashes' = crashes + 1
    BY <1>7 DEF Crash
  <2>2. CASE pc[b] = "serving"
    <3>1. \A a \in Brokers : pc'[a] # "serving"
      <4>1. pc' = [pc EXCEPT ![b] = "none"]
        BY <1>7 DEF Crash
      <4>2. \A a \in Brokers \ {b} : pc[a] # "serving"
        BY <2>2, <1>a DEF OneManager, Locked
      <4> QED
        BY <4>1, <4>2, <1>t
    <3>2. Owner' = Nobody /\ Holders' = {}
      BY ZenonT(60), <3>1, <1>a, OwnerServesNext
    <3> QED
      BY <2>1, <3>2 DEF Goal, Shared!Kill, Shared!SharedNext, Owner, Holders
  <2>3. CASE pc[b] # "serving"
    <3>1. Kept
      BY <1>7, <2>3, <1>t DEF Crash
    <3>2. Holders' = Holders
      <4>1. Disconnect({c \in Clients : peer[c] = b})
        BY <1>7 DEF Crash
      <4> QED
        BY <2>3, <4>1, <1>a, ZenonT(60) DEF Disconnect, Holders, Leased
    <3> QED
      BY <2>1, <3>1, <3>2, <1>b DEF Goal, Shared!Kill, Shared!SharedNext, Owner,
         Holders
  <2> QED
    BY <2>2, <2>3
<1>8. ASSUME NEW b \in Brokers, NEW c \in Clients, AcquireLease(b, c)
      PROVE  Goal
  <2>1. UNCHANGED <<pc, peer, crashes>> /\ peer[c] = b
    BY <1>8 DEF AcquireLease
  <2>2. c \notin Holders /\ Holders' = Holders \cup {c}
    BY <1>8, <1>t, SMTT(60) DEF AcquireLease, Holders, Leased
  <2>3. pc[b] = "serving"
    BY <2>1, <2>2, <1>a
  <2>4. Owner = b
    BY <2>3, <1>a, OwnerServes
  <2>5. Owner' = Owner /\ Owner # Nobody
    BY <2>1, <2>4, <1>b, ManagerAssumption
  <2>6. Shared!Grant(c)
    BY <2>1, <2>2, <2>5 DEF Shared!Grant, Owner, Holders
  <2> QED
    BY <2>6 DEF Goal, Shared!SharedNext
<1>9. ASSUME NEW b \in Brokers, NEW c \in Clients,
             RespondError(b, c) \/ CancelOpen(b, c) \/ CloseSession(b, c)
      PROVE  Goal
  <2>1. Kept /\ crashes' = crashes
    BY <1>9 DEF RespondError, CancelOpen, CloseSession
  <2>2. c \in Holders /\ Holders' = Holders \ {c}
    <3>1. stage[c] \in Leased /\ Disconnect({c})
      BY <1>9 DEF RespondError, CancelOpen, CloseSession, EndTask, Leased
    <3> QED
      BY <3>1 DEF Disconnect, Holders, Leased
  <2>3. Owner' = Owner
    BY <2>1, <1>b
  <2>4. Shared!Release(c)
    BY <2>1, <2>2, <2>3 DEF Shared!Release, Owner, Holders
  <2> QED
    BY <2>4 DEF Goal, Shared!SharedNext
<1>10. ASSUME NEW b \in Brokers, IdleTimePasses(b) \/ Reap(b)
      PROVE  Goal
  <2>1. UNCHANGED <<pc, stage, crashes>>
    BY <1>10 DEF IdleTimePasses, Reap, sessionVars
  <2> QED
    BY <2>1, <1>c DEF Holders
<1>11. ASSUME NEW b \in Brokers, OpenLock(b) \/ TakeLock(b) \/ LoseElection(b)
                                  \/ RemoveEndpoint(b) \/ Exit(b)
      PROVE  Goal
  <2>1. UNCHANGED <<stage, crashes>>
    BY <1>11 DEF OpenLock, TakeLock, LoseElection, RemoveEndpoint, Exit,
       sessionVars
  <2>2. Kept
    BY <1>11, <1>t DEF OpenLock, TakeLock, LoseElection, RemoveEndpoint, Exit
  <2> QED
    BY <2>1, <2>2, <1>c DEF Holders
<1>12. ASSUME NEW b \in Brokers, DropListener(b) \/ Drain(b)
      PROVE  Goal
  <2>1. Kept /\ crashes' = crashes
    BY <1>12, <1>t DEF DropListener, Drain
  <2>2. pc[b] # "serving"
    BY <1>12 DEF DropListener, Drain
  <2>3. \/ Disconnect({c \in Clients : peer[c] = b /\ stage[c] = "backlog"})
        \/ Disconnect({c \in Clients : peer[c] = b})
    BY <1>12 DEF DropListener, Drain
  <2>4. Holders' = Holders
    <3>1. PICK C \in SUBSET Clients : Disconnect(C) /\ \A c \in C : peer[c] = b
      <4>1. CASE Disconnect({c \in Clients : peer[c] = b /\ stage[c] = "backlog"})
        BY <4>1, SMTT(60)
      <4>2. CASE Disconnect({c \in Clients : peer[c] = b})
        BY <4>2, SMTT(60)
      <4> QED
        BY <2>3, <4>1, <4>2
    <3>2. \A c \in C : stage[c] \notin Leased
      BY <2>2, <3>1, <1>a DEF Holders
    <3>3. \A c \in Clients : stage'[c] = IF c \in C THEN "none" ELSE stage[c]
      BY <3>1 DEF Disconnect
    <3>4. \A c \in Clients : stage'[c] \in Leased <=> stage[c] \in Leased
      BY <3>2, <3>3 DEF Leased
    <3> QED
      BY <3>4 DEF Holders
  <2> QED
    BY <2>1, <2>4, <1>c
<1>13. ASSUME NEW b \in Brokers, NEW c \in Clients, Accept(b, c) \/ Refuse(b, c)
      PROVE  Goal
  <2>1. UNCHANGED <<pc, crashes>> /\ c \notin Holders
    BY <1>13 DEF Accept, Refuse, brokerVars, Holders, Leased
  <2>2. Disconnect({c}) \/ stage' = [stage EXCEPT ![c] = "receiving"]
    BY <1>13 DEF Accept, Refuse, EndTask
  <2>3. Holders' = Holders
    BY <2>1, <2>2, <1>t, SMTT(60) DEF Disconnect, Holders, Leased
  <2> QED
    BY <2>1, <2>3, <1>c
<1>14. ASSUME NEW b \in Brokers, NEW c \in Clients, RespondOk(b, c)
      PROVE  Goal
  <2>1. UNCHANGED <<pc, crashes>> /\ Holders' = Holders
    BY <1>14, <1>t DEF RespondOk, brokerVars, Holders, Leased
  <2> QED
    BY <2>1, <1>c
<1> QED
  BY <1>1, <1>2, <1>3, <1>4, <1>5, <1>6, <1>7, <1>8, <1>9,
     <1>10, <1>11, <1>12, <1>13, <1>14
  DEF Next, ClientStep, BrokerStep, SessionStep

\* The manager implements SharedManager: one owner at a time, which retires only
\* when no client holds a lease (broker(), serve() and acquire() together).
THEOREM Refinement == Spec => SharedManagerSpec
<1>1. Init => Shared!SharedInit
  BY SMTT(60) DEF Init, Shared!SharedInit, Leased
<1>2. IInv /\ IInv' /\ [Next]_vars => [Shared!SharedNext]_(Shared!sharedVars)
  BY SharedStep
<1> QED
  BY <1>1, <1>2, Invariance, PTL DEF Spec, SharedManagerSpec, Shared!SharedSpec
=============================================================================
