----------------------------- MODULE Forwarding -----------------------------
(***************************************************************************)
(* Inside one tunnel manager (client.rs): the connector process            *)
(* (`devtunnel connect` under a guardian), the Forwarding record that the  *)
(* broker loop publishes through a watch channel, and the sessions that    *)
(* open and use streams to the forwarded addresses, directly or through a  *)
(* fixed-port relay.  The sessions run concurrently with the broker loop;  *)
(* only the generation in the record tells them which connector process an *)
(* address belongs to.                                                     *)
(***************************************************************************)
EXTENDS Integers, Sequences, FiniteSetsExt

CONSTANTS
    Clients,        \* sessions of the manager, reused when one ends
    Ports,          \* remote ports
    Addrs,          \* local addresses of the CLI, in the order of SocketAddr
    IPv4,           \* those that are IPv4 addresses
    OutputCapacity, \* unread lines of the connector (256 in the code)
    StartCapacity,  \* requests the broker has not taken up (32 in the code)
    MaxSpawns       \* bound: connector processes started

NoAddr == 0
NoPort == "no port"

ASSUME ForwardingAssumption ==
    /\ Addrs \subseteq Nat \ {NoAddr}
    /\ IPv4 \subseteq Addrs
    \* some addresses always have a first and a last one
    /\ \A as \in SUBSET Addrs : as # {} =>
          (\E a \in as : \A b \in as : a <= b) /\ (\E a \in as : \A b \in as : a >= b)
    /\ OutputCapacity \in Nat \ {0}
    /\ StartCapacity \in Nat \ {0}
    /\ MaxSpawns \in Nat
    /\ NoPort \notin Ports

VARIABLES
    connector,     \* Connector: "waiting", "active", "stopping"; "ending" while
                   \* the loop awaits process.shutdown()
    due,           \* waiting: the retry time, or an early retry, has come
    startup,       \* startup_deadline: "pending", "late" (passed), "over" (None)
    announcements, \* local address -> remote port, from "Forwarding from" lines
    listeners,     \* local addresses from "listening on" lines
    ports,         \* Forwarding.ports
    generation,    \* Forwarding.generation
    published,     \* has the watch channel ever been written?
    startQueue,    \* the start channel
    requested,     \* remote ports requested so far
    spawned,       \* number of connector processes started
    alive,         \* the newest connector process runs
    live,          \* addresses it listens on
    output,        \* its unread lines
    stage,         \* stage[c]: how far serve() has come
    request,       \* request[c]: the remote port, and is a fixed local port asked for?
    changed,       \* changed[c]: the watch channel was written since c looked
    snap,          \* snap[c]: generation and address in c's snapshot
    relaySnap,     \* relaySnap[c]: the same for the relay's stream
    dest           \* dest[c]: the connector process c's stream leads to

connectorVars == <<connector, due, startup, announcements, listeners, ports,
                   generation, published>>
processVars == <<spawned, alive, live, output>>
requestVars == <<startQueue, requested>>
sessionVars == <<stage, request, snap, relaySnap, dest>>
vars == <<connector, due, startup, announcements, listeners, ports, generation,
          published, startQueue, requested, spawned, alive, live, output,
          stage, request, changed, snap, relaySnap, dest>>

\* The stages of serve() while the `open` future runs.
Opening == {"start", "look", "wait", "dial", "relay", "check", "pause"}
Stages == {"idle"} \cup Opening \cup {"established"}
Lines == [kind : {"forward"}, addr : Addrs, port : Ports]
           \cup [kind : {"listen"}, addr : Addrs]
           \cup [kind : {"failure"}]

Snapshots == [gen : Nat, addr : Addrs \cup {NoAddr}]
NoSnapshot == [gen |-> 0, addr |-> NoAddr]
Requests == [port : Ports \cup {NoPort}, relay : BOOLEAN]
NoRequest == [port |-> NoPort, relay |-> FALSE]

Init ==
    /\ connector = "waiting"
    /\ due = TRUE
    /\ startup = "over"
    /\ announcements = [a \in Addrs |-> NoPort]
    /\ listeners = {}
    /\ ports = [p \in Ports |-> NoAddr]
    /\ generation = 0
    /\ published = FALSE
    /\ startQueue = <<>>
    /\ requested = {}
    /\ spawned = 0
    /\ alive = FALSE
    /\ live = {}
    /\ output = <<>>
    /\ stage = [c \in Clients |-> "idle"]
    /\ changed = [c \in Clients |-> FALSE]
    /\ request = [c \in Clients |-> NoRequest]
    /\ snap = [c \in Clients |-> NoSnapshot]
    /\ relaySnap = [c \in Clients |-> NoSnapshot]
    /\ dest = [c \in Clients |-> 0]

\* Mutant of Publish: nobody is woken.
PublishSilently ==
    /\ published' = TRUE
    /\ UNCHANGED changed

\* forward_tx.send_modify wakes every receiver.
Publish ==
    /\ published' = TRUE
    /\ changed' = [c \in Clients |-> TRUE]

-----------------------------------------------------------------------------
(* The connector process (external: the devtunnel CLI and its guardian).   *)

\* The CLI prints a line; it listens on an address when it says so, and it may
\* announce a forwarding before or after that.
Emit(line) ==
    /\ alive
    /\ Len(output) < OutputCapacity
    /\ output' = Append(output, line)
    /\ live' = IF line.kind = "listen" THEN live \cup {line.addr} ELSE live
    /\ UNCHANGED <<connectorVars, requestVars, spawned, alive, sessionVars, changed>>

\* The CLI ends, by itself or because the guardian killed it.
Die ==
    /\ alive
    /\ alive' = FALSE
    /\ live' = {}
    /\ UNCHANGED <<connectorVars, requestVars, spawned, output, sessionVars, changed>>

-----------------------------------------------------------------------------
(* The broker loop.  It handles one event at a time; while it awaits       *)
(* process.shutdown() it handles none.                                     *)

\* start_rx.recv()
TakeRequest ==
    /\ connector # "ending"
    /\ startQueue # <<>>
    /\ requested' = requested \cup {Head(startQueue)}
    /\ startQueue' = Tail(startQueue)
    /\ UNCHANGED <<connectorVars, processVars, sessionVars, changed>>

\* The retry time comes, or the network changed (module Backoff).
RetryDue ==
    /\ connector = "waiting"
    /\ ~due
    /\ due' = TRUE
    /\ UNCHANGED <<connector, startup, announcements, listeners, ports, generation,
                   published, requestVars, processVars, sessionVars, changed>>

\* The retry arm: start a connector process.
StartConnector ==
    /\ connector = "waiting"
    /\ requested # {}
    /\ due
    /\ spawned < MaxSpawns
    /\ connector' = "active"
    /\ startup' = "pending"
    /\ announcements' = [a \in Addrs |-> NoPort]
    /\ listeners' = {}
    /\ spawned' = spawned + 1
    /\ alive' = TRUE
    /\ live' = {}
    /\ output' = <<>>
    /\ UNCHANGED <<due, ports, generation, published, requestVars, sessionVars, changed>>

\* The retry arm: the process cannot be started.
StartConnectorFails ==
    /\ connector = "waiting"
    /\ requested # {}
    /\ due
    /\ due' = FALSE
    /\ UNCHANGED <<connector, startup, announcements, listeners, ports, generation,
                   published, requestVars, processVars, sessionVars, changed>>

\* Mutant of Stop: the ports stay.
StopKeepsPorts ==
    /\ generation' = generation + 1
    /\ UNCHANGED ports
    /\ Publish

\* Mutant of Stop: the generation stays.
StopKeepsGeneration ==
    /\ ports' = [p \in Ports |-> NoAddr]
    /\ UNCHANGED generation
    /\ Publish

\* Connector::stop on an active connector: withdraw its ports, move on to the
\* next generation, let the guardian kill the process.
Stop ==
    /\ ports' = [p \in Ports |-> NoAddr]
    /\ generation' = generation + 1
    /\ Publish

\* A line of the connector: a forwarding failure stops it, the other two kinds
\* are recorded; a stopping connector's lines are ignored.
ReadLine ==
    /\ connector \in {"active", "stopping"}
    /\ output # <<>>
    /\ output' = Tail(output)
    /\ LET line == Head(output) IN
         \/ /\ connector = "stopping"
            /\ UNCHANGED <<connectorVars, changed>>
         \/ /\ connector = "active"
            /\ line.kind = "failure"
            /\ Stop
            /\ connector' = "stopping"
            /\ UNCHANGED <<due, startup, announcements, listeners>>
         \/ /\ connector = "active"
            /\ line.kind = "forward"
            /\ announcements' = [announcements EXCEPT ![line.addr] = line.port]
            /\ UNCHANGED <<connector, due, startup, listeners, ports, generation,
                           published, changed>>
         \/ /\ connector = "active"
            /\ line.kind = "listen"
            /\ listeners' = listeners \cup {line.addr}
            /\ UNCHANGED <<connector, due, startup, announcements, ports, generation,
                           published, changed>>
    /\ UNCHANGED <<spawned, alive, live, requestVars, sessionVars>>

\* Mutant of ConnectorExited: only an active connector is expected to exit.
ConnectorExitedActive ==
    /\ connector = "active"
    /\ ~alive
    /\ output = <<>>
    /\ Stop
    /\ connector' = "ending"
    /\ UNCHANGED <<due, startup, announcements, listeners, processVars, requestVars,
                   sessionVars>>

\* The connector's output has ended and it has exited: withdraw its ports if
\* that has not happened, then await process.shutdown().
ConnectorExited ==
    /\ connector \in {"active", "stopping"}
    /\ ~alive
    /\ output = <<>>
    /\ \/ connector = "active" /\ Stop
       \/ connector = "stopping" /\ UNCHANGED <<ports, generation, published, changed>>
    /\ connector' = "ending"
    /\ UNCHANGED <<due, startup, announcements, listeners, processVars, requestVars,
                   sessionVars>>

\* process.shutdown() returns; wait for the next retry.
AwaitRetry ==
    /\ connector = "ending"
    /\ connector' = "waiting"
    /\ due' = FALSE
    /\ UNCHANGED <<startup, announcements, listeners, ports, generation, published,
                   requestVars, processVars, sessionVars, changed>>

\* Thirty seconds have passed since the connector was started.
StartupDeadline ==
    /\ connector = "active"
    /\ startup = "pending"
    /\ startup' = "late"
    /\ UNCHANGED <<connector, due, announcements, listeners, ports, generation,
                   published, requestVars, processVars, sessionVars, changed>>

\* The addresses that are announced for port p and known to be listening.
Ready(p) == {a \in listeners : announcements[a] = p}

\* What the loop over the announcements leaves in Forwarding.ports[p]: the last
\* IPv4 address, else the address that was there, else the first one.
Selected(p) ==
    IF Ready(p) \cap IPv4 # {} THEN Max(Ready(p) \cap IPv4)
    ELSE IF ports[p] # NoAddr \/ Ready(p) = {} THEN ports[p]
    ELSE Min(Ready(p))

\* Mutant of Tick: the deadline is looked at first and never cleared.
TickDeadlineFirst ==
    /\ connector = "active"
    /\ \/ /\ startup # "late"
          /\ \E p \in Ports : Selected(p) # NoAddr
          /\ ports' = [p \in Ports |-> Selected(p)]
          /\ Publish
          /\ UNCHANGED <<connector, generation, startup>>
       \/ /\ startup = "late"
          /\ Stop
          /\ connector' = "stopping"
          /\ UNCHANGED startup
    /\ UNCHANGED <<due, announcements, listeners, requestVars, processVars, sessionVars>>

\* idle_check.tick() with an active connector.
Tick ==
    /\ connector = "active"
    /\ LET newPorts == [p \in Ports |-> Selected(p)]
           empty == \A p \in Ports : newPorts[p] = NoAddr IN
         \/ /\ ~empty
            /\ ports' = newPorts
            /\ Publish
            /\ startup' = "over"
            /\ UNCHANGED <<connector, generation>>
         \/ /\ empty
            /\ startup = "late"
            /\ Stop
            /\ connector' = "stopping"
            /\ UNCHANGED startup
    /\ UNCHANGED <<due, announcements, listeners, requestVars, processVars, sessionVars>>

-----------------------------------------------------------------------------
(* A session: serve() from its lease to its end.                           *)

Goto(c, s) == stage' = [stage EXCEPT ![c] = s]

\* The Forwarding record as a session that wants client c's port sees it now.
Current(c) == [gen |-> generation, addr |-> ports[request[c].port]]

\* A stream that was opened or tried is dropped.
DropStream(c) ==
    /\ snap' = [snap EXCEPT ![c] = NoSnapshot]
    /\ relaySnap' = [relaySnap EXCEPT ![c] = NoSnapshot]
    /\ dest' = [dest EXCEPT ![c] = 0]

\* serve() has its lease (module Manager) and a receiver of the watch channel
\* that has seen none of its writes; a relay, if asked for, is bound.
Begin(c) ==
    /\ stage[c] = "idle"
    /\ \E p \in Ports, r \in BOOLEAN :
         request' = [request EXCEPT ![c] = [port |-> p, relay |-> r]]
    /\ changed' = [changed EXCEPT ![c] = published]
    /\ Goto(c, "start")
    /\ UNCHANGED <<connectorVars, processVars, requestVars, snap, relaySnap, dest>>

\* start.send(remote_port), which waits while the channel is full.
RequestPort(c) ==
    /\ stage[c] = "start"
    /\ Len(startQueue) < StartCapacity
    /\ startQueue' = Append(startQueue, request[c].port)
    /\ Goto(c, "look")
    /\ UNCHANGED <<connectorVars, processVars, requested, request, changed, snap,
                   relaySnap, dest>>

\* The top of the loop: take a snapshot; without an address wait for a change.
Look(c) ==
    /\ stage[c] = "look"
    /\ \/ /\ Current(c).addr = NoAddr
          /\ Goto(c, "wait")
          /\ UNCHANGED snap
       \/ /\ Current(c).addr # NoAddr
          /\ Goto(c, "dial")
          /\ snap' = [snap EXCEPT ![c] = Current(c)]
    /\ UNCHANGED <<connectorVars, processVars, requestVars, request, changed, relaySnap,
                   dest>>

\* state.changed() returns in the loop.
Wake(c) ==
    /\ stage[c] = "wait"
    /\ changed[c]
    /\ changed' = [changed EXCEPT ![c] = FALSE]
    /\ Goto(c, "look")
    /\ UNCHANGED <<connectorVars, processVars, requestVars, request, snap, relaySnap, dest>>

\* state.changed() returns in the loop beside the connection, and the generation
\* is still the snapshot's.
Watch(c) ==
    /\ stage[c] \in {"dial", "relay", "established"}
    /\ changed[c]
    /\ generation = snap[c].gen
    /\ changed' = [changed EXCEPT ![c] = FALSE]
    /\ UNCHANGED <<connectorVars, processVars, requestVars, sessionVars>>

\* Connect to the snapshot's address and read an SSH banner: whichever process
\* listens there now is the other end.
Dial(c) ==
    /\ stage[c] = "dial"
    /\ ~request[c].relay
    /\ snap[c].addr \in live
    /\ dest' = [dest EXCEPT ![c] = spawned]
    /\ Goto(c, "check")
    /\ UNCHANGED <<connectorVars, processVars, requestVars, request, changed, snap,
                   relaySnap>>

\* Through the relay: it accepts and takes a snapshot of its own.
RelayAccept(c) ==
    /\ stage[c] = "dial"
    /\ request[c].relay
    /\ Current(c).addr # NoAddr
    /\ relaySnap' = [relaySnap EXCEPT ![c] = Current(c)]
    /\ Goto(c, "relay")
    /\ UNCHANGED <<connectorVars, processVars, requestVars, request, changed, snap, dest>>

\* The relay connects; its biased select looks at the generation first.
RelayDial(c) ==
    /\ stage[c] = "relay"
    /\ generation = relaySnap[c].gen
    /\ relaySnap[c].addr \in live
    /\ dest' = [dest EXCEPT ![c] = spawned]
    /\ Goto(c, "check")
    /\ UNCHANGED <<connectorVars, processVars, requestVars, request, changed, snap,
                   relaySnap>>

\* The connection or its banner fails (refused, closed, no SSH server, dropped by
\* a relay whose port is not forwarded), or the generation changes meanwhile.
DialFails(c) ==
    /\ stage[c] \in {"dial", "relay"}
    /\ Goto(c, "pause")
    /\ DropStream(c)
    /\ UNCHANGED <<connectorVars, processVars, requestVars, request, changed>>

\* Mutant of Check: the generation is read after the stream was opened.
CheckReadsLate(c) ==
    /\ stage[c] = "check"
    /\ Goto(c, "established")
    /\ snap' = [snap EXCEPT ![c].gen = generation]
    /\ UNCHANGED <<connectorVars, processVars, requestVars, request, changed, relaySnap,
                   dest>>

\* Use the stream only if the generation is still the snapshot's: send success
\* and start copying.
Check(c) ==
    /\ stage[c] = "check"
    /\ \/ /\ generation = snap[c].gen
          /\ Goto(c, "established")
          /\ UNCHANGED <<snap, relaySnap, dest>>
       \/ /\ generation # snap[c].gen
          /\ Goto(c, "pause")
          /\ DropStream(c)
    /\ UNCHANGED <<connectorVars, processVars, requestVars, request, changed>>

\* The 100 ms sleep is over.
TryAgain(c) ==
    /\ stage[c] = "pause"
    /\ Goto(c, "look")
    /\ UNCHANGED <<connectorVars, processVars, requestVars, request, changed, snap,
                   relaySnap, dest>>

\* The task of c returns.
End(c) ==
    /\ Goto(c, "idle")
    /\ DropStream(c)
    /\ request' = [request EXCEPT ![c] = NoRequest]
    /\ changed' = [changed EXCEPT ![c] = FALSE]
    /\ UNCHANGED <<connectorVars, processVars, requestVars>>

\* The client goes away before the stream is open (peek), or ends its session.
ClientLeaves(c) ==
    /\ stage[c] # "idle"
    /\ End(c)

\* The watch beside the copy sees another generation.
GenerationCut(c) ==
    /\ stage[c] = "established"
    /\ generation # snap[c].gen
    /\ End(c)

\* The stream ends at the other side: the connector process is gone, or the
\* relay saw another generation.
StreamEnds(c) ==
    /\ stage[c] = "established"
    /\ \/ dest[c] # spawned \/ ~alive
       \/ request[c].relay /\ generation # relaySnap[c].gen
    /\ End(c)

-----------------------------------------------------------------------------
Broker ==
    \/ TakeRequest \/ StartConnector \/ StartConnectorFails \/ ReadLine
    \/ ConnectorExited \/ AwaitRetry \/ Tick

Session(c) ==
    \/ RequestPort(c) \/ Look(c) \/ Wake(c) \/ Watch(c) \/ Dial(c) \/ RelayAccept(c)
    \/ RelayDial(c) \/ DialFails(c) \/ Check(c) \/ TryAgain(c) \/ GenerationCut(c)
    \/ StreamEnds(c)

Environment ==
    \/ \E line \in Lines : Emit(line)
    \/ Die \/ RetryDue \/ StartupDeadline
    \/ \E c \in Clients : Begin(c) \/ ClientLeaves(c)

Next == Broker \/ (\E c \in Clients : Session(c)) \/ Environment

Spec == Init /\ [][Next]_vars

\* The broker loop and the session tasks are scheduled, a retry delay ends, and
\* the guardian kills a connector that is being stopped.  Starting the connector
\* and dialing succeed if they are possible again and again.  Nothing is assumed
\* of the CLI's output, of its failures, of clients or of broken connections.
Fairness ==
    /\ WF_vars(TakeRequest) /\ WF_vars(RetryDue) /\ WF_vars(ReadLine)
    /\ WF_vars(ConnectorExited) /\ WF_vars(AwaitRetry)
    /\ WF_vars(connector = "stopping" /\ Die)
    /\ SF_vars(StartConnector) /\ SF_vars(Tick)
    /\ \A c \in Clients :
         /\ WF_vars(RequestPort(c)) /\ WF_vars(Look(c)) /\ WF_vars(Wake(c))
         /\ WF_vars(Check(c)) /\ WF_vars(TryAgain(c)) /\ WF_vars(GenerationCut(c))
         /\ WF_vars(Dial(c) \/ RelayAccept(c) \/ RelayDial(c) \/ DialFails(c))
         /\ SF_vars(Dial(c)) /\ SF_vars(RelayAccept(c)) /\ SF_vars(RelayDial(c))

FairSpec == Spec /\ Fairness

-----------------------------------------------------------------------------
(* Properties                                                              *)

\* Every variable keeps its type.
TypeOK ==
    /\ connector \in {"waiting", "active", "stopping", "ending"}
    /\ due \in BOOLEAN
    /\ startup \in {"pending", "late", "over"}
    /\ announcements \in [Addrs -> Ports \cup {NoPort}]
    /\ listeners \subseteq Addrs
    /\ ports \in [Ports -> Addrs \cup {NoAddr}]
    /\ generation \in Nat
    /\ published \in BOOLEAN
    /\ startQueue \in Seq(Ports)
    /\ requested \subseteq Ports
    /\ spawned \in Nat
    /\ alive \in BOOLEAN
    /\ live \subseteq Addrs
    /\ output \in Seq(Lines)
    /\ stage \in [Clients -> Stages]
    /\ request \in [Clients -> Requests]
    /\ changed \in [Clients -> BOOLEAN]
    /\ snap \in [Clients -> Snapshots]
    /\ relaySnap \in [Clients -> Snapshots]
    /\ dest \in [Clients -> Nat]

\* Every connector process has a generation of its own: the generation moves on
\* exactly once between two starts, whichever way the first one ends.
GenerationNamesProcess ==
    spawned = IF connector = "active" THEN generation + 1 ELSE generation

\* Published addresses belong to the connector that runs now: none survives the
\* stop of the connector that announced it.
PortsOfRunningConnector ==
    \A p \in Ports : ports[p] # NoAddr => connector = "active" /\ ports[p] \in listeners

\* An established session whose generation is current leads to the connector
\* process that runs now; snapshots, dialing, relays and restarts may interleave
\* in any order before that.
SessionOnCurrentConnector ==
    \A c \in Clients :
        stage[c] = "established" /\ snap[c].gen = generation
          => connector = "active" /\ dest[c] = spawned

\* A connector that forwards a port, or has announced one that is not published yet,
\* is stopped only by a failure line or by its own exit, never by the startup
\* deadline, even if that passes in the same tick.
ForwardingConnectorKept ==
    [][connector = "active" /\ connector' = "stopping"
         /\ (\E p \in Ports : ports[p] # NoAddr \/ Ready(p) # {})
       => output # <<>> /\ Head(output).kind = "failure"]_vars

\* An established session that loses its connector closes, even if nothing on
\* its stream tells it so.
LostConnectorCloses ==
    \A c \in Clients :
        (stage[c] = "established" /\ (connector # "active" \/ ~alive))
          ~> stage[c] # "established"

\* When the connector keeps running with its ports forwarded, every open request
\* is answered: no wake-up of the watch channel is lost.
OpenRequestsServed ==
    <>[](connector = "active" /\ \A p \in Ports : ports[p] \in live)
      => \A c \in Clients :
            stage[c] \in Opening ~> stage[c] \in {"established", "idle"}

\* Once a port was requested, a connector that ended is replaced.
ConnectorReplaced ==
    (requested # {} /\ connector # "active") ~> (connector = "active" \/ spawned = MaxSpawns)
=============================================================================
