-------------------------- MODULE ForwardingProofs -------------------------
(***************************************************************************)
(* The safety properties of Forwarding, for any number of sessions, ports, *)
(* addresses and connector processes.  Sessions only read what the broker  *)
(* loop publishes, and the loop does not look at the sessions, so each     *)
(* half is stepped through on its own; what ties them is that a snapshot   *)
(* with the current generation was taken from the connector that runs.     *)
(***************************************************************************)
EXTENDS Forwarding, TLAPS

\* Every step is small; what the provers may need is time.
USE ZenonT(60)

-----------------------------------------------------------------------------
(* The invariant.                                                          *)

\* The types of the broker loop's state ...
BrokerShape ==
    /\ connector \in {"waiting", "active", "stopping", "ending"}
    /\ announcements \in [Addrs -> Ports \cup {NoPort}]
    /\ listeners \subseteq Addrs
    /\ ports \in [Ports -> Addrs \cup {NoAddr}]
    /\ generation \in Nat
    /\ spawned \in Nat
    /\ output \in Seq(Lines)

\* ... and of the sessions'.
SessionShape ==
    /\ stage \in [Clients -> Stages]
    /\ request \in [Clients -> Requests]
    /\ snap \in [Clients -> Snapshots]
    /\ dest \in [Clients -> Nat]

\* The stages in which a session goes by its snapshot.
Holding == {"dial", "relay", "check", "established"}

\* A snapshot of the current generation is one of the active connector, and a stream
\* that was opened under it leads there: before another connector is started the
\* generation moves on.
SnapshotsTrue ==
    \A c \in Clients :
        /\ stage[c] # "idle" => request[c].port \in Ports
        /\ snap[c].gen <= generation
        /\ stage[c] \in Holding /\ snap[c].gen = generation => connector = "active"
        /\ stage[c] \in {"check", "established"} /\ snap[c].gen = generation =>
              dest[c] = spawned

BrokerInv == BrokerShape /\ GenerationNamesProcess /\ PortsOfRunningConnector
IInv == BrokerInv /\ SessionShape /\ SnapshotsTrue

-----------------------------------------------------------------------------
(* The broker loop.                                                        *)

\* A tick selects addresses that are listened on or were there, and withdraws none.
LEMMA SelectedPort ==
    ASSUME BrokerShape, NEW p \in Ports
    PROVE  /\ Selected(p) = ports[p] \/ Selected(p) \in listeners
           /\ ports[p] # NoAddr \/ Ready(p) # {} => Selected(p) # NoAddr
<1>1. Ready(p) \subseteq listeners /\ listeners \subseteq Addrs
  BY DEF Ready, BrokerShape
<1>2. ASSUME NEW as \in SUBSET Addrs, as # {} PROVE Max(as) \in as /\ Min(as) \in as
  <2>1. \E a \in as : \A b \in as : a >= b
    BY <1>2, ForwardingAssumption
  <2>2. \E a \in as : \A b \in as : a <= b
    BY <1>2, ForwardingAssumption
  <2> QED
    BY <2>1, <2>2 DEF Max, Min
<1>3. CASE Ready(p) \cap IPv4 # {}
  <2>1. Max(Ready(p) \cap IPv4) \in Ready(p) \cap IPv4
    BY <1>1, <1>2, <1>3
  <2> QED
    BY <1>1, <1>3, <2>1, ForwardingAssumption DEF Selected
<1>4. CASE Ready(p) \cap IPv4 = {} /\ (ports[p] # NoAddr \/ Ready(p) = {})
  BY <1>4 DEF Selected
<1>5. CASE Ready(p) \cap IPv4 = {} /\ ports[p] = NoAddr /\ Ready(p) # {}
  <2>1. Min(Ready(p)) \in Ready(p)
    BY <1>1, <1>2, <1>5
  <2> QED
    BY <1>1, <1>5, <2>1, ForwardingAssumption DEF Selected
<1> QED
  BY <1>3, <1>4, <1>5

\* How the loop moves the generation: it counts up when a connector is stopped, and
\* only then may the next one be started.
Moves ==
    \/ UNCHANGED <<connector, generation, spawned>>
    \/ generation' = generation + 1
    \/ connector # "active" /\ UNCHANGED generation

\* Snapshots stay true under that.
LEMMA MovesKeep ==
    ASSUME IInv, Moves, UNCHANGED sessionVars
    PROVE  SessionShape' /\ SnapshotsTrue'
<1>1. SessionShape'
  BY DEF IInv, SessionShape, sessionVars
<1>2. \A c \in Clients : snap[c].gen \in Nat
  BY DEF IInv, SessionShape, Snapshots
<1>3. SnapshotsTrue'
  <2>1. UNCHANGED <<stage, request, snap, dest>> /\ generation \in Nat
    BY DEF sessionVars, IInv, BrokerInv, BrokerShape
  <2>2. CASE UNCHANGED <<connector, generation, spawned>>
    BY <2>1, <2>2 DEF IInv, SnapshotsTrue
  <2>3. CASE generation' = generation + 1
    BY <1>2, <2>1, <2>3, SMTT(60) DEF IInv, SnapshotsTrue
  <2>4. CASE connector # "active" /\ generation' = generation
    BY <2>1, <2>4 DEF IInv, SnapshotsTrue, Holding
  <2> QED
    BY <2>2, <2>3, <2>4 DEF Moves
<1> QED
  BY <1>1, <1>3

\* The steps of the loop, the CLI and the clock keep the loop's part of the invariant.
LEMMA BrokerSteps ==
    ASSUME BrokerInv,
           Broker \/ (\E line \in Lines : Emit(line)) \/ Die \/ RetryDue \/ StartupDeadline
    PROVE  BrokerInv' /\ Moves /\ UNCHANGED sessionVars
<1> USE DEF BrokerInv, Moves, connectorVars, processVars, requestVars
<1>1. ASSUME UNCHANGED <<connector, announcements, listeners, ports, generation, spawned>>,
             output' \in Seq(Lines)
      PROVE  BrokerInv' /\ Moves
  BY <1>1 DEF BrokerShape, GenerationNamesProcess, PortsOfRunningConnector
<1>2. CASE TakeRequest \/ StartConnectorFails \/ Die \/ RetryDue \/ StartupDeadline
  BY <1>1, <1>2
     DEF TakeRequest, StartConnectorFails, Die, RetryDue, StartupDeadline, BrokerShape
<1>3. ASSUME NEW line \in Lines, Emit(line) PROVE BrokerInv' /\ Moves /\ UNCHANGED sessionVars
  BY <1>1, <1>3, SMTT(60) DEF Emit, BrokerShape
<1>4. CASE StartConnector
  BY <1>4, SMTT(60) DEF StartConnector, BrokerShape, GenerationNamesProcess, PortsOfRunningConnector
<1>5. CASE AwaitRetry
  BY <1>5 DEF AwaitRetry, BrokerShape, GenerationNamesProcess, PortsOfRunningConnector
<1>6. CASE ConnectorExited
  BY <1>6 DEF ConnectorExited, Stop, BrokerShape, GenerationNamesProcess,
     PortsOfRunningConnector
<1>7. CASE ReadLine
  <2>1. /\ Head(output) \in Lines /\ output' \in Seq(Lines)
        /\ UNCHANGED sessionVars /\ UNCHANGED spawned
    BY <1>7, SMTT(60) DEF ReadLine, BrokerShape
  <2>2. CASE connector = "stopping"
    BY <1>1, <1>7, <2>1, <2>2 DEF ReadLine
  <2>3. CASE connector = "active" /\ Head(output).kind = "failure"
    BY <1>7, <2>1, <2>3
       DEF ReadLine, Stop, BrokerShape, GenerationNamesProcess, PortsOfRunningConnector
  <2>4. CASE connector = "active" /\ Head(output).kind = "forward"
    BY <1>7, <2>1, <2>4
       DEF ReadLine, Lines, BrokerShape, GenerationNamesProcess, PortsOfRunningConnector
  <2>5. CASE connector = "active" /\ Head(output).kind = "listen"
    BY <1>7, <2>1, <2>5
       DEF ReadLine, Lines, BrokerShape, GenerationNamesProcess, PortsOfRunningConnector
  <2> QED
    BY <1>7, <2>2, <2>3, <2>4, <2>5 DEF ReadLine
<1>8. CASE Tick
  <2>1. CASE Stop
    BY <1>8, <2>1
       DEF Tick, Stop, BrokerShape, GenerationNamesProcess, PortsOfRunningConnector
  <2>2. CASE ports' = [p \in Ports |-> Selected(p)] /\ UNCHANGED <<connector, generation>>
    <3>1. \A p \in Ports : ports'[p] = ports[p] \/ ports'[p] \in listeners
      BY <2>2, SelectedPort
    <3> QED
      BY <1>8, <2>2, <3>1
         DEF Tick, BrokerShape, GenerationNamesProcess, PortsOfRunningConnector
  <2> QED
    BY <1>8, <2>1, <2>2 DEF Tick
<1> QED
  BY <1>2, <1>3, <1>4, <1>5, <1>6, <1>7, <1>8 DEF Broker

-----------------------------------------------------------------------------
(* The sessions.                                                           *)

\* The steps of a session keep its part.
LEMMA SessionSteps ==
    ASSUME IInv, NEW c \in Clients, Session(c) \/ Begin(c) \/ ClientLeaves(c)
    PROVE  /\ UNCHANGED <<connectorVars, processVars>>
           /\ SessionShape' /\ SnapshotsTrue'
<1>1. UNCHANGED <<connectorVars, processVars>>
  BY DEF Session, RequestPort, Look, Wake, Watch, Dial, RelayAccept, RelayDial, DialFails,
     Check, TryAgain, GenerationCut, StreamEnds, Begin, ClientLeaves, End
<1>2. UNCHANGED <<connector, ports, generation, spawned>>
  BY <1>1 DEF connectorVars, processVars
<1> DEFINE Fine(d) ==
        /\ stage'[d] # "idle" => request'[d].port \in Ports
        /\ snap'[d].gen <= generation
        /\ stage'[d] \in Holding /\ snap'[d].gen = generation => connector = "active"
        /\ stage'[d] \in {"check", "established"} /\ snap'[d].gen = generation =>
              dest'[d] = spawned
<1>3. ASSUME SessionShape', Fine(c),
             \A d \in Clients \ {c} : /\ stage'[d] = stage[d] /\ request'[d] = request[d]
                                      /\ snap'[d] = snap[d] /\ dest'[d] = dest[d]
      PROVE  SnapshotsTrue'
  BY <1>2, <1>3 DEF IInv, SnapshotsTrue
<1> USE <1>2 DEF IInv, SessionShape, Goto, Stages, Opening
<1>4. CASE Begin(c)
  BY <1>3, <1>4, SMTT(60) DEF Begin, SnapshotsTrue, Holding, Requests
<1>5. CASE RequestPort(c) \/ TryAgain(c)
  BY <1>3, <1>5 DEF RequestPort, TryAgain, SnapshotsTrue, Holding
<1>6. CASE Wake(c) \/ Watch(c)
  BY <1>3, <1>6 DEF Wake, Watch, SnapshotsTrue, Holding, sessionVars
<1>7. CASE Dial(c) \/ RelayDial(c)
  BY <1>3, <1>7, ZenonT(60) DEF Dial, RelayDial, SnapshotsTrue, Holding, BrokerInv, BrokerShape
<1>8. CASE RelayAccept(c)
  BY <1>3, <1>8 DEF RelayAccept, SnapshotsTrue, Holding
<1>9. /\ NoSnapshot \in Snapshots /\ NoSnapshot.gen = 0
      /\ generation \in Nat /\ NoRequest \in Requests
  BY DEF NoSnapshot, Snapshots, BrokerInv, BrokerShape, NoRequest, Requests
<1>10. CASE DialFails(c)
  BY <1>3, <1>9, <1>10, SMTT(60) DEF DialFails, DropStream, SnapshotsTrue, Holding
<1>11. CASE Check(c)
  BY <1>3, <1>9, <1>11, SMTT(60) DEF Check, DropStream, SnapshotsTrue, Holding
<1>12. CASE ClientLeaves(c) \/ GenerationCut(c) \/ StreamEnds(c)
  <2>1. End(c)
    BY <1>12 DEF ClientLeaves, GenerationCut, StreamEnds
  <2> QED
    BY <1>3, <1>9, <2>1, SMTT(60) DEF End, DropStream, SnapshotsTrue, Holding
<1>13. CASE Look(c)
  <2>1. CASE Current(c).addr = NoAddr
    BY <1>3, <1>13, <2>1 DEF Look, SnapshotsTrue, Holding
  <2>2. CASE Current(c).addr # NoAddr
    <3>1. request[c].port \in Ports
      BY <1>13 DEF Look, SnapshotsTrue
    <3>2. ports[request[c].port] # NoAddr /\ connector = "active"
      BY <2>2, <3>1 DEF Current, BrokerInv, PortsOfRunningConnector
    <3>3. Current(c) \in Snapshots /\ Current(c).gen = generation /\ generation \in Nat
      BY <3>1 DEF Current, Snapshots, BrokerInv, BrokerShape
    <3>4. /\ snap' = [snap EXCEPT ![c] = Current(c)] /\ Goto(c, "dial")
          /\ UNCHANGED <<request, dest>>
      BY <1>13, <2>2 DEF Look
    <3>5. SessionShape'
      BY <3>3, <3>4
    <3>6. /\ stage'[c] = "dial" /\ snap'[c] = Current(c) /\ request'[c] = request[c]
          /\ \A d \in Clients \ {c} : /\ stage'[d] = stage[d] /\ request'[d] = request[d]
                                      /\ snap'[d] = snap[d] /\ dest'[d] = dest[d]
      BY <3>4
    <3>7. Fine(c)
      BY <3>1, <3>2, <3>3, <3>6, SMTT(60)
    <3> QED
      BY <1>1, <1>3, <3>5, <3>6, <3>7
  <2> QED
    BY <2>1, <2>2
<1> QED
  BY <1>1, <1>4, <1>5, <1>6, <1>7, <1>8, <1>10, <1>11, <1>12, <1>13 DEF Session

-----------------------------------------------------------------------------
(* The invariant is inductive.                                             *)

\* It holds in the beginning.
LEMMA InitHolds == Init => IInv
<1> SUFFICES ASSUME Init PROVE IInv
  OBVIOUS
<1>1. BrokerInv
  BY SMTT(60) DEF Init, BrokerInv, BrokerShape, GenerationNamesProcess, PortsOfRunningConnector
<1>2. SessionShape
  BY DEF Init, SessionShape, Stages, Requests, NoRequest, Snapshots, NoSnapshot
<1>3. SnapshotsTrue
  BY SMTT(60) DEF Init, SnapshotsTrue, Holding, NoSnapshot
<1> QED
  BY <1>1, <1>2, <1>3 DEF IInv

\* Every step preserves it.
LEMMA NextHolds == IInv /\ [Next]_vars => IInv'
<1> SUFFICES ASSUME IInv, [Next]_vars PROVE IInv'
  OBVIOUS
<1>1. CASE UNCHANGED vars
  BY <1>1 DEF vars, IInv, BrokerInv, BrokerShape, GenerationNamesProcess,
     PortsOfRunningConnector, SessionShape, SnapshotsTrue
<1>2. CASE Broker \/ (\E line \in Lines : Emit(line)) \/ Die \/ RetryDue \/ StartupDeadline
  BY <1>2, BrokerSteps, MovesKeep DEF IInv
<1>3. ASSUME NEW c \in Clients, Session(c) \/ Begin(c) \/ ClientLeaves(c) PROVE IInv'
  <2>1. UNCHANGED <<connectorVars, processVars>> /\ SessionShape' /\ SnapshotsTrue'
    BY <1>3, SessionSteps
  <2>2. BrokerInv'
    BY <2>1 DEF IInv, BrokerInv, BrokerShape, GenerationNamesProcess,
       PortsOfRunningConnector, connectorVars, processVars
  <2> QED
    BY <2>1, <2>2 DEF IInv
<1> QED
  BY <1>1, <1>2, <1>3 DEF Next, Environment

\* The invariant holds in every reachable state of the manager.
THEOREM Invariance == Spec => []IInv
  BY InitHolds, NextHolds, PTL DEF Spec

-----------------------------------------------------------------------------
(* The theorems.                                                           *)

\* The types of the variables of which the invariant says nothing.
RestShape ==
    /\ due \in BOOLEAN /\ published \in BOOLEAN /\ alive \in BOOLEAN
    /\ startup \in {"pending", "late", "over"}
    /\ startQueue \in Seq(Ports) /\ requested \subseteq Ports
    /\ live \subseteq Addrs
    /\ changed \in [Clients -> BOOLEAN]
    /\ relaySnap \in [Clients -> Snapshots]

\* The broker loop, the CLI and the clock keep them ...
LEMMA BrokerKeepsRest ==
    ASSUME BrokerShape, RestShape,
           Broker \/ (\E line \in Lines : Emit(line)) \/ Die \/ RetryDue \/ StartupDeadline
    PROVE  RestShape'
<1> USE DEF RestShape, connectorVars, processVars, requestVars, sessionVars
<1>1. ASSUME Publish PROVE changed' \in [Clients -> BOOLEAN] /\ published' \in BOOLEAN
  BY <1>1 DEF Publish
<1>2. CASE TakeRequest
  <2>1. Head(startQueue) \in Ports /\ Tail(startQueue) \in Seq(Ports)
    BY <1>2, SMTT(60) DEF TakeRequest
  <2> QED
    BY <1>2, <2>1 DEF TakeRequest
<1>3. CASE StartConnector \/ StartConnectorFails \/ AwaitRetry \/ Die \/ RetryDue \/ StartupDeadline
  BY <1>3 DEF StartConnector, StartConnectorFails, AwaitRetry, Die, RetryDue, StartupDeadline
<1>4. CASE ReadLine
  BY <1>1, <1>4 DEF ReadLine, Stop
<1>5. CASE ConnectorExited
  BY <1>1, <1>5 DEF ConnectorExited, Stop
<1>6. CASE Tick
  BY <1>1, <1>6 DEF Tick, Stop
<1>7. ASSUME NEW line \in Lines, Emit(line) PROVE RestShape'
  <2>1. line.kind = "listen" => line.addr \in Addrs
    BY DEF Lines
  <2> QED
    BY <1>7, <2>1 DEF Emit
<1> QED
  BY <1>2, <1>3, <1>4, <1>5, <1>6, <1>7 DEF Broker

\* ... and so do the sessions: only one that has begun asks for its port.
LEMMA SessionKeepsRest ==
    ASSUME IInv, RestShape, NEW c \in Clients, Session(c) \/ Begin(c) \/ ClientLeaves(c)
    PROVE  RestShape'
<1> USE DEF RestShape, connectorVars, processVars, requestVars, sessionVars
<1>1. NoSnapshot \in Snapshots
  BY DEF NoSnapshot, Snapshots
<1>2. stage[c] # "idle" => request[c].port \in Ports /\ Current(c) \in Snapshots
  BY DEF IInv, SnapshotsTrue, Current, Snapshots, BrokerInv, BrokerShape
<1>3. CASE Begin(c)
  BY <1>3 DEF Begin
<1>4. CASE RequestPort(c)
  BY <1>2, <1>4, SMTT(60) DEF RequestPort
<1>5. CASE Wake(c) \/ Watch(c)
  BY <1>5 DEF Wake, Watch
<1>6. CASE Look(c) \/ Dial(c) \/ RelayDial(c) \/ TryAgain(c)
  BY <1>6 DEF Look, Dial, RelayDial, TryAgain
<1>7. CASE RelayAccept(c)
  BY <1>2, <1>7 DEF RelayAccept
<1>8. CASE DialFails(c) \/ Check(c)
  BY <1>1, <1>8, SMTT(60) DEF DialFails, Check, DropStream
<1>9. CASE GenerationCut(c) \/ StreamEnds(c) \/ ClientLeaves(c)
  BY <1>1, <1>9, ZenonT(60) DEF GenerationCut, StreamEnds, ClientLeaves, End, DropStream
<1> QED
  BY <1>3, <1>4, <1>5, <1>6, <1>7, <1>8, <1>9 DEF Session

\* The variables of the broker loop, the connector process and the sessions keep their
\* types: what waits in the start channel is a remote port, and every snapshot is one
\* of the published record.
THEOREM TypeCorrect == Spec => []TypeOK
<1>1. Init => RestShape
  <2>1. NoSnapshot \in Snapshots
    BY DEF Snapshots, NoSnapshot
  <2>2. Init => changed \in [Clients -> BOOLEAN] /\ relaySnap \in [Clients -> Snapshots]
    BY <2>1, ZenonT(60) DEF Init
  <2>3. Init => due \in BOOLEAN /\ published \in BOOLEAN /\ alive \in BOOLEAN
    BY DEF Init
  <2>4. Init => /\ startup \in {"pending", "late", "over"}
                /\ startQueue \in Seq(Ports) /\ requested \subseteq Ports /\ live \subseteq Addrs
    BY SMTT(60) DEF Init
  <2> QED
    BY <2>2, <2>3, <2>4 DEF RestShape
<1>2. ASSUME IInv, RestShape, [Next]_vars PROVE RestShape'
  <2>1. CASE UNCHANGED vars
    BY <1>2, <2>1 DEF vars, RestShape
  <2>2. CASE Next
    BY <1>2, <2>2, BrokerKeepsRest, SessionKeepsRest DEF Next, Environment, IInv, BrokerInv
  <2> QED
    BY <1>2, <2>1, <2>2
<1>3. IInv /\ RestShape => TypeOK
  BY DEF IInv, BrokerInv, BrokerShape, SessionShape, RestShape, TypeOK
<1> QED
  BY <1>1, <1>2, <1>3, Invariance, PTL DEF Spec

\* Connector::stop counts the generation up once per connector process, and withdraws
\* the ports that it announced.
THEOREM Generations == Spec => [](GenerationNamesProcess /\ PortsOfRunningConnector)
<1>1. IInv => GenerationNamesProcess /\ PortsOfRunningConnector
  BY DEF IInv, BrokerInv
<1> QED
  BY <1>1, Invariance, PTL

\* A session that serve() has established under the current generation leads to the
\* connector process that runs now.
THEOREM CurrentSession == Spec => []SessionOnCurrentConnector
<1>1. IInv => SessionOnCurrentConnector
  BY DEF IInv, SnapshotsTrue, SessionOnCurrentConnector, Holding
<1> QED
  BY <1>1, Invariance, PTL

\* The startup deadline does not stop a connector that forwards a port or is about to:
\* a tick publishes what was announced before it looks at the deadline (broker).
THEOREM ConnectorKept == Spec => ForwardingConnectorKept
<1>1. ASSUME IInv, [Next]_vars, connector = "active", connector' = "stopping",
             NEW p \in Ports, ports[p] # NoAddr \/ Ready(p) # {}
      PROVE  output # <<>> /\ Head(output).kind = "failure"
  <2>1. ASSUME NEW c \in Clients PROVE ~(Session(c) \/ Begin(c) \/ ClientLeaves(c))
    BY <1>1, <2>1, SessionSteps DEF connectorVars
  <2>2. Selected(p) # NoAddr
    BY <1>1, SelectedPort DEF IInv, BrokerInv
  <2>3. ~Tick
    BY <1>1, <2>2 DEF Tick
  <2>4. ReadLine
    BY <1>1, <2>1, <2>3 DEF Next, vars, Broker, Environment, connectorVars, TakeRequest,
       StartConnector, StartConnectorFails, ConnectorExited, AwaitRetry, Emit, Die, RetryDue,
       StartupDeadline
  <2> QED
    BY <1>1, <2>4 DEF ReadLine
<1>2. IInv /\ [Next]_vars =>
        [connector = "active" /\ connector' = "stopping"
           /\ (\E p \in Ports : ports[p] # NoAddr \/ Ready(p) # {})
         => output # <<>> /\ Head(output).kind = "failure"]_vars
  BY <1>1
<1> QED
  BY <1>2, Invariance, PTL DEF Spec, ForwardingConnectorKept
=============================================================================
