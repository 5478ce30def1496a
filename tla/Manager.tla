------------------------------ MODULE Manager ------------------------------
(***************************************************************************)
(* The local tunnel manager of `sshdt devtunnel proxy` (client.rs).        *)
(*                                                                         *)
(* Every proxy process (a client) looks for the manager (a broker process) *)
(* of its tunnel: it probes the manager's file lock, reads the endpoint    *)
(* file, connects, and spawns a new broker when that fails.  Brokers elect *)
(* themselves with the same lock, serve sessions under leases and retire   *)
(* after an idle period.  The tunnel behind a session (connector process,  *)
(* forwarded ports) is in module Forwarding: here a leased session is      *)
(* answered with success or with an error at any time.                     *)
(***************************************************************************)
EXTENDS Integers, FiniteSets

CONSTANTS
    Clients,     \* proxy processes, each runs once
    Brokers,     \* slots for broker processes, reused after a process exits
    MaxSessions, \* session tasks a broker keeps at a time (256 in the code)
    MaxCrashes,  \* bound: brokers that are killed
    Nobody,      \* no process
    Stale        \* an endpoint whose broker is gone

ASSUME ManagerAssumption ==
    /\ IsFiniteSet(Clients)
    /\ Clients \cap Brokers = {}
    /\ MaxSessions \in Nat \ {0}
    /\ MaxCrashes \in Nat
    /\ Nobody \notin Clients \cup Brokers \cup {Stale}
    /\ Stale \notin Clients \cup Brokers

VARIABLES
    lock,      \* holder of <tunnel>.lock
    lockFile,  \* has <tunnel>.lock been created?
    endpoint,  \* the broker that <tunnel>.json names
    pc,        \* pc[b]: phase of broker(), "none" when slot b has no process
    count,     \* LeaseState.count
    expired,   \* Instant::now() >= LeaseState.idle_until
    stopping,  \* LeaseState.stopping
    finished,  \* finished session tasks the JoinSet has not reaped
    cpc,       \* cpc[c]: phase of acquire() and of the session after it
    seen,      \* seen[c]: the endpoint client c read
    maySpawn,  \* maySpawn[c]: Instant::now() >= next_spawn
    peer,      \* peer[c]: the broker at the other end of c's connection
    stage,     \* stage[c]: how far that broker's serve() has come
    valid,     \* valid[c]: the token in c's hello is the peer's
    answer,    \* answer[c]: the response in flight to c
    crashes    \* brokers killed so far

brokerVars == <<pc, count, expired, stopping, finished>>
sessionVars == <<peer, stage, valid, answer>>
clientVars == <<cpc, seen, maySpawn>>
fileVars == <<lock, lockFile, endpoint>>
vars == <<lock, lockFile, endpoint, pc, count, expired, stopping, finished,
          cpc, seen, maySpawn, peer, stage, valid, answer, crashes>>

\* The lock is held from try_lock to the final drop(lock).
Locked == {"locked", "serving", "stopping", "closed", "unlinked", "drained"}
\* The listener accepts connections from bind to drop(listener).
Listening == {"serving", "stopping"}
Phases == {"none", "started", "opened"} \cup Locked

Searching == {"search", "unlock", "read", "connect", "await", "spawn"}
Settled == {"served", "failed", "done", "gone"}
ClientPhases == {"idle"} \cup Searching \cup Settled

Stages == {"none", "backlog", "receiving", "leased", "established"}
Tasks == {"receiving", "leased", "established"}
Leased == {"leased", "established"}

\* Entries of broker b's JoinSet: running session tasks and unreaped ones.
Sessions(b) == Cardinality({c \in Clients : peer[c] = b /\ stage[c] \in Tasks})
                 + finished[b]

\* The client's end of the connection is open.
ClientOpen(c) == cpc[c] \in {"await", "served"}

Init ==
    /\ lock = Nobody
    /\ lockFile = FALSE
    /\ endpoint = Nobody
    /\ pc = [b \in Brokers |-> "none"]
    /\ count = [b \in Brokers |-> 0]
    /\ expired = [b \in Brokers |-> FALSE]
    /\ stopping = [b \in Brokers |-> FALSE]
    /\ finished = [b \in Brokers |-> 0]
    /\ cpc = [c \in Clients |-> "idle"]
    /\ seen = [c \in Clients |-> Nobody]
    /\ maySpawn = [c \in Clients |-> TRUE]
    /\ peer = [c \in Clients |-> Nobody]
    /\ stage = [c \in Clients |-> "none"]
    /\ valid = [c \in Clients |-> FALSE]
    /\ answer = [c \in Clients |-> "none"]
    /\ crashes = 0

-----------------------------------------------------------------------------
(* The client: proxy() and acquire().                                      *)

Goto(c, phase) == cpc' = [cpc EXCEPT ![c] = phase]

\* proxy() starts acquire() under its timeout.
Start(c) ==
    /\ cpc[c] = "idle"
    /\ Goto(c, "search")
    /\ UNCHANGED <<fileVars, brokerVars, sessionVars, seen, maySpawn, crashes>>

\* The lock file does not exist yet: nobody to talk to.
NoLockFile(c) ==
    /\ cpc[c] = "search"
    /\ ~lockFile
    /\ Goto(c, "spawn")
    /\ UNCHANGED <<fileVars, brokerVars, sessionVars, seen, maySpawn, crashes>>

\* broker_lock_held: try_lock succeeds, so for a moment the probe is the
\* holder (at the top of the loop, or in broker_response while waiting).
ProbeTakesLock(c) ==
    /\ cpc[c] \in {"search", "await"}
    /\ lockFile
    /\ lock = Nobody
    /\ lock' = c
    /\ Goto(c, "unlock")
    /\ UNCHANGED <<lockFile, endpoint, brokerVars, sessionVars, seen, maySpawn,
                   crashes>>

\* broker_lock_held: unlock and report "not held"; a connection is dropped.
ProbeUnlocks(c) ==
    /\ cpc[c] = "unlock"
    /\ lock' = Nobody
    /\ Goto(c, "spawn")
    /\ UNCHANGED <<lockFile, endpoint, brokerVars, sessionVars, seen, maySpawn,
                   crashes>>

\* broker_lock_held: WouldBlock (a broker, or another client's probe).
ProbeSeesHolder(c) ==
    /\ cpc[c] = "search"
    /\ lockFile
    /\ lock # Nobody
    /\ Goto(c, "read")
    /\ UNCHANGED <<fileVars, brokerVars, sessionVars, seen, maySpawn, crashes>>

\* read_endpoint and the parse of what it returns.
ReadEndpoint(c) ==
    /\ cpc[c] = "read"
    /\ seen' = [seen EXCEPT ![c] = endpoint]
    /\ Goto(c, IF endpoint = Nobody THEN "spawn" ELSE "connect")
    /\ UNCHANGED <<fileVars, brokerVars, sessionVars, maySpawn, crashes>>

\* TcpStream::connect succeeds and the hello is sent.  A stale endpoint's port
\* may have been given to another broker, which then sees a foreign token.
Connect(c) ==
    /\ cpc[c] = "connect"
    /\ \E b \in Brokers :
         /\ pc[b] \in Listening
         /\ seen[c] \in {b, Stale}
         /\ peer' = [peer EXCEPT ![c] = b]
         /\ stage' = [stage EXCEPT ![c] = "backlog"]
         /\ valid' = [valid EXCEPT ![c] = (seen[c] = b)]
    /\ answer' = [answer EXCEPT ![c] = "none"]
    /\ seen' = [seen EXCEPT ![c] = Nobody]
    /\ Goto(c, "await")
    /\ UNCHANGED <<fileVars, brokerVars, maySpawn, crashes>>

\* The connection is refused or takes longer than 300 ms.
ConnectFails(c) ==
    /\ cpc[c] = "connect"
    /\ seen' = [seen EXCEPT ![c] = Nobody]
    /\ Goto(c, "spawn")
    /\ UNCHANGED <<fileVars, brokerVars, sessionVars, maySpawn, crashes>>

\* A response arrives: success ends acquire(), an error or an incompatible
\* version is reported to the user.
GetResponse(c) ==
    /\ cpc[c] = "await"
    /\ answer[c] # "none"
    /\ Goto(c, IF answer[c] = "ok" THEN "served" ELSE "failed")
    /\ answer' = [answer EXCEPT ![c] = "none"]
    /\ UNCHANGED <<fileVars, brokerVars, peer, stage, valid, seen, maySpawn, crashes>>

\* The broker closed the connection without a response.
GetEof(c) ==
    /\ cpc[c] = "await"
    /\ answer[c] = "none"
    /\ stage[c] = "none"
    /\ Goto(c, "spawn")
    /\ UNCHANGED <<fileVars, brokerVars, sessionVars, seen, maySpawn, crashes>>

\* Mutant of Respawn: only the very first broker is spawned.
RespawnFirst(c) ==
    /\ cpc[c] = "spawn"
    /\ maySpawn[c]
    /\ ~lockFile
    /\ \E b \in Brokers :
         /\ pc[b] = "none"
         /\ pc' = [pc EXCEPT ![b] = "started"]
    /\ maySpawn' = [maySpawn EXCEPT ![c] = FALSE]
    /\ Goto(c, "search")
    /\ UNCHANGED <<fileVars, count, expired, stopping, finished, sessionVars, seen,
                   crashes>>

\* The end of the loop: spawn a broker unless one was spawned within the last
\* second, sleep, look again.
Respawn(c) ==
    /\ cpc[c] = "spawn"
    /\ maySpawn[c]
    /\ \E b \in Brokers :
         /\ pc[b] = "none"
         /\ pc' = [pc EXCEPT ![b] = "started"]
    /\ maySpawn' = [maySpawn EXCEPT ![c] = FALSE]
    /\ Goto(c, "search")
    /\ UNCHANGED <<fileVars, count, expired, stopping, finished, sessionVars, seen,
                   crashes>>

LookAgain(c) ==
    /\ cpc[c] = "spawn"
    /\ ~maySpawn[c]
    /\ Goto(c, "search")
    /\ UNCHANGED <<fileVars, brokerVars, sessionVars, seen, maySpawn, crashes>>

\* A second has passed since the last spawn.
SpawnDelayOver(c) ==
    /\ cpc[c] \in Searching
    /\ ~maySpawn[c]
    /\ maySpawn' = [maySpawn EXCEPT ![c] = TRUE]
    /\ UNCHANGED <<fileVars, brokerVars, sessionVars, cpc, seen, crashes>>

\* The SSH session ends, on this side or because the broker closed it.
Finish(c) ==
    /\ cpc[c] = "served"
    /\ Goto(c, "done")
    /\ UNCHANGED <<fileVars, brokerVars, sessionVars, seen, maySpawn, crashes>>

\* The timeout around acquire() expires, or the process is killed; a lock
\* that its probe holds is released.
Quit(c) ==
    /\ cpc[c] \in Searching
    /\ Goto(c, "gone")
    /\ lock' = IF lock = c THEN Nobody ELSE lock
    /\ UNCHANGED <<lockFile, endpoint, brokerVars, sessionVars, seen, maySpawn,
                   crashes>>

-----------------------------------------------------------------------------
(* The broker process: broker() up to its loop, and the end of it.         *)

\* Create or open the lock file.
OpenLock(b) ==
    /\ pc[b] = "started"
    /\ lockFile' = TRUE
    /\ pc' = [pc EXCEPT ![b] = "opened"]
    /\ UNCHANGED <<lock, endpoint, count, expired, stopping, finished, sessionVars,
                   clientVars, crashes>>

\* Mutant of TakeLock: the lock is not tried, it is taken.
TakeLockAnyway(b) ==
    /\ pc[b] = "opened"
    /\ lock' = b
    /\ pc' = [pc EXCEPT ![b] = "locked"]
    /\ UNCHANGED <<lockFile, endpoint, count, expired, stopping, finished, sessionVars,
                   clientVars, crashes>>

\* try_lock succeeds: this process is the manager.
TakeLock(b) ==
    /\ pc[b] = "opened"
    /\ lock = Nobody
    /\ lock' = b
    /\ pc' = [pc EXCEPT ![b] = "locked"]
    /\ UNCHANGED <<lockFile, endpoint, count, expired, stopping, finished, sessionVars,
                   clientVars, crashes>>

\* try_lock would block (another broker, or a client's probe): exit.
LoseElection(b) ==
    /\ pc[b] = "opened"
    /\ lock # Nobody
    /\ pc' = [pc EXCEPT ![b] = "none"]
    /\ UNCHANGED <<fileVars, count, expired, stopping, finished, sessionVars,
                   clientVars, crashes>>

\* LeaseState::default() and an empty JoinSet: no lease, idle_until five seconds
\* ahead.  A slot without a process is kept in this state too.
FreshState(b) ==
    /\ count' = [count EXCEPT ![b] = 0]
    /\ expired' = [expired EXCEPT ![b] = FALSE]
    /\ stopping' = [stopping EXCEPT ![b] = FALSE]
    /\ finished' = [finished EXCEPT ![b] = 0]

\* Bind, write the endpoint to a temporary file and rename it into place, then
\* set up the loop.
Publish(b) ==
    /\ pc[b] = "locked"
    /\ endpoint' = b
    /\ pc' = [pc EXCEPT ![b] = "serving"]
    /\ FreshState(b)
    /\ UNCHANGED <<lock, lockFile, sessionVars, clientVars, crashes>>

\* Five seconds have passed since idle_until was last set.
IdleTimePasses(b) ==
    /\ pc[b] = "serving"
    /\ ~expired[b]
    /\ expired' = [expired EXCEPT ![b] = TRUE]
    /\ UNCHANGED <<fileVars, pc, count, stopping, finished, sessionVars, clientVars,
                   crashes>>

\* Mutant of BeginIdleShutdown: the leases are not counted.
BeginShutdownAnyway(b) ==
    /\ pc[b] = "serving"
    /\ expired[b]
    /\ stopping' = [stopping EXCEPT ![b] = TRUE]
    /\ pc' = [pc EXCEPT ![b] = "stopping"]
    /\ UNCHANGED <<fileVars, count, expired, finished, sessionVars, clientVars,
                   crashes>>

\* idle_check.tick(): begin_idle_shutdown says stop, and the loop is left.
BeginIdleShutdown(b) ==
    /\ pc[b] = "serving"
    /\ count[b] = 0
    /\ expired[b]
    /\ stopping' = [stopping EXCEPT ![b] = TRUE]
    /\ pc' = [pc EXCEPT ![b] = "stopping"]
    /\ UNCHANGED <<fileVars, count, expired, finished, sessionVars, clientVars,
                   crashes>>

\* The broker's ends of the connections of the clients in C are closed.
Disconnect(C) ==
    /\ stage' = [c \in Clients |-> IF c \in C THEN "none" ELSE stage[c]]
    /\ peer' = [c \in Clients |-> IF c \in C THEN Nobody ELSE peer[c]]
    /\ valid' = [c \in Clients |-> c \notin C /\ valid[c]]

\* Mutant of DropListener: the lock is given up with the listener.
DropListenerAndLock(b) ==
    /\ pc[b] = "stopping"
    /\ lock' = Nobody
    /\ pc' = [pc EXCEPT ![b] = "closed"]
    /\ Disconnect({c \in Clients : peer[c] = b /\ stage[c] = "backlog"})
    /\ UNCHANGED <<lockFile, endpoint, count, expired, stopping, finished, answer,
                   clientVars, crashes>>

\* drop(listener): connections nobody accepted are reset.
DropListener(b) ==
    /\ pc[b] = "stopping"
    /\ pc' = [pc EXCEPT ![b] = "closed"]
    /\ Disconnect({c \in Clients : peer[c] = b /\ stage[c] = "backlog"})
    /\ UNCHANGED <<fileVars, count, expired, stopping, finished, answer, clientVars,
                   crashes>>

\* remove_file(endpoint_path), still under the lock.
RemoveEndpoint(b) ==
    /\ pc[b] = "closed"
    /\ endpoint' = Nobody
    /\ pc' = [pc EXCEPT ![b] = "unlinked"]
    /\ UNCHANGED <<lock, lockFile, count, expired, stopping, finished, sessionVars,
                   clientVars, crashes>>

\* Wait up to a second for the session tasks, abort the rest, reap them all;
\* the relays are cleared and the connector process is shut down.
Drain(b) ==
    /\ pc[b] = "unlinked"
    /\ Disconnect({c \in Clients : peer[c] = b})
    /\ finished' = [finished EXCEPT ![b] = 0]
    /\ pc' = [pc EXCEPT ![b] = "drained"]
    /\ UNCHANGED <<fileVars, count, expired, stopping, answer, clientVars, crashes>>

\* What a client remembers of broker b's endpoint is of no use any more.
Forget(b) == seen' = [c \in Clients |-> IF seen[c] = b THEN Stale ELSE seen[c]]

\* drop(lock) and the end of the process.
Exit(b) ==
    /\ pc[b] = "drained"
    /\ lock' = Nobody
    /\ pc' = [pc EXCEPT ![b] = "none"]
    /\ FreshState(b)
    /\ Forget(b)
    /\ UNCHANGED <<lockFile, endpoint, sessionVars, cpc, maySpawn, crashes>>

\* The broker is killed, or leaves broker() through `?`: the lock and every
\* connection go with the process, the endpoint file stays behind, and
\* responses may be lost on the way.
Crash(b) ==
    /\ pc[b] # "none"
    /\ crashes < MaxCrashes
    /\ crashes' = crashes + 1
    /\ pc' = [pc EXCEPT ![b] = "none"]
    /\ lock' = IF lock = b THEN Nobody ELSE lock
    /\ endpoint' = IF endpoint = b THEN Stale ELSE endpoint
    /\ Disconnect({c \in Clients : peer[c] = b})
    /\ \E lost \in SUBSET {c \in Clients : peer[c] = b} :
         answer' = [c \in Clients |-> IF c \in lost THEN "none" ELSE answer[c]]
    /\ FreshState(b)
    /\ Forget(b)
    /\ UNCHANGED <<lockFile, cpc, maySpawn>>

-----------------------------------------------------------------------------
(* The broker's sessions: the accept arm of the loop, serve(), leases.     *)

\* Mutant of Accept: one session too many.
AcceptOneMore(b, c) ==
    /\ pc[b] = "serving"
    /\ peer[c] = b
    /\ stage[c] = "backlog"
    /\ IF Sessions(b) > MaxSessions
         THEN Disconnect({c})
         ELSE /\ stage' = [stage EXCEPT ![c] = "receiving"]
              /\ UNCHANGED <<peer, valid>>
    /\ UNCHANGED <<fileVars, brokerVars, answer, clientVars, crashes>>

\* The accept arm: over the limit the stream is dropped at once.
Accept(b, c) ==
    /\ pc[b] = "serving"
    /\ peer[c] = b
    /\ stage[c] = "backlog"
    /\ IF Sessions(b) >= MaxSessions
         THEN Disconnect({c})
         ELSE /\ stage' = [stage EXCEPT ![c] = "receiving"]
              /\ UNCHANGED <<peer, valid>>
    /\ UNCHANGED <<fileVars, brokerVars, answer, clientVars, crashes>>

\* sessions.join_next() in the loop.
Reap(b) ==
    /\ pc[b] = "serving"
    /\ finished[b] > 0
    /\ finished' = [finished EXCEPT ![b] = @ - 1]
    /\ UNCHANGED <<fileVars, pc, count, expired, stopping, sessionVars, clientVars,
                   crashes>>

\* The session task of c returns and its stream is closed.
EndTask(b, c) ==
    /\ Disconnect({c})
    /\ finished' = [finished EXCEPT ![b] = @ + 1]

\* Drop for Lease: the last one restarts the idle period.
DropLease(b) ==
    /\ count' = [count EXCEPT ![b] = @ - 1]
    /\ expired' = [expired EXCEPT ![b] = IF count[b] = 1 THEN FALSE ELSE @]

\* serve(): the request arrives with the right token and Lease::acquire
\* succeeds.  The mutex makes the test of stopping and the increment one step.
AcquireLease(b, c) ==
    /\ peer[c] = b
    /\ stage[c] = "receiving"
    /\ valid[c]
    /\ ~stopping[b]
    /\ count' = [count EXCEPT ![b] = @ + 1]
    /\ stage' = [stage EXCEPT ![c] = "leased"]
    /\ UNCHANGED <<fileVars, pc, expired, stopping, finished, peer, valid, answer,
                   clientVars, crashes>>

\* serve() returns before it has a lease: a foreign token, a manager that is
\* stopping, or no request within five seconds.
Refuse(b, c) ==
    /\ peer[c] = b
    /\ stage[c] = "receiving"
    /\ EndTask(b, c)
    /\ UNCHANGED <<fileVars, pc, count, expired, stopping, answer, clientVars, crashes>>

\* The tunnel is open: success is sent, then the SSH stream is copied.
RespondOk(b, c) ==
    /\ peer[c] = b
    /\ stage[c] = "leased"
    /\ stage' = [stage EXCEPT ![c] = "established"]
    /\ answer' = [answer EXCEPT ![c] = "ok"]
    /\ UNCHANGED <<fileVars, brokerVars, peer, valid, clientVars, crashes>>

\* Opening failed: the error is sent, and the task ends with its lease.
RespondError(b, c) ==
    /\ peer[c] = b
    /\ stage[c] = "leased"
    /\ answer' = [answer EXCEPT ![c] = "error"]
    /\ EndTask(b, c)
    /\ DropLease(b)
    /\ UNCHANGED <<fileVars, pc, stopping, clientVars, crashes>>

\* Mutant of CancelOpen: a cancelled session keeps its lease.
CancelKeepsLease(b, c) ==
    /\ peer[c] = b
    /\ stage[c] = "leased"
    /\ ~ClientOpen(c)
    /\ EndTask(b, c)
    /\ UNCHANGED <<fileVars, pc, count, expired, stopping, answer, clientVars, crashes>>

\* peek() sees that the client has gone before the tunnel was open.
CancelOpen(b, c) ==
    /\ peer[c] = b
    /\ stage[c] = "leased"
    /\ ~ClientOpen(c)
    /\ EndTask(b, c)
    /\ DropLease(b)
    /\ UNCHANGED <<fileVars, pc, stopping, answer, clientVars, crashes>>

\* The stream ends: either side closed it, or the connector was replaced.
CloseSession(b, c) ==
    /\ peer[c] = b
    /\ stage[c] = "established"
    /\ EndTask(b, c)
    /\ DropLease(b)
    /\ UNCHANGED <<fileVars, pc, stopping, answer, clientVars, crashes>>

-----------------------------------------------------------------------------
ClientStep(c) ==
    \/ NoLockFile(c) \/ ProbeTakesLock(c) \/ ProbeUnlocks(c) \/ ProbeSeesHolder(c)
    \/ ReadEndpoint(c) \/ Connect(c) \/ ConnectFails(c) \/ GetResponse(c)
    \/ GetEof(c) \/ Respawn(c) \/ LookAgain(c)

BrokerStep(b) ==
    \/ OpenLock(b) \/ TakeLock(b) \/ LoseElection(b) \/ Publish(b)
    \/ BeginIdleShutdown(b) \/ DropListener(b) \/ RemoveEndpoint(b) \/ Drain(b)
    \/ Exit(b) \/ Reap(b)

SessionStep(b, c) ==
    \/ Accept(b, c) \/ AcquireLease(b, c) \/ Refuse(b, c) \/ RespondOk(b, c)
    \/ RespondError(b, c) \/ CancelOpen(b, c) \/ CloseSession(b, c)

Next ==
    \/ \E c \in Clients : \/ Start(c) \/ ClientStep(c) \/ SpawnDelayOver(c)
                          \/ Finish(c) \/ Quit(c)
    \/ \E b \in Brokers : BrokerStep(b) \/ IdleTimePasses(b) \/ Crash(b)
    \/ \E b \in Brokers, c \in Clients : SessionStep(b, c)

Spec == Init /\ [][Next]_vars

\* A probe holds the lock for microseconds in every 50 ms, so it does not
\* coincide with the try_lock of every broker that is ever spawned: brokers that
\* get there again and again find, again and again, the lock free or held by a
\* broker.
ProbesDoNotStarve ==
    \/ <>[](\A b \in Brokers : pc[b] # "opened")
    \/ []<>(\E b \in Brokers : lock = b \/ (pc[b] = "opened" /\ lock = Nobody))

\* The runtime and the operating system run every enabled step of a broker, of
\* its session tasks and of a searching client; a second, and five seconds of
\* idleness, pass.  Nothing is assumed of Crash, Quit and Start, nor that a user
\* ends a healthy session.
Fairness ==
    /\ \A c \in Clients :
         /\ WF_vars(ClientStep(c))
         /\ WF_vars(SpawnDelayOver(c))
         /\ WF_vars(stage[c] = "none" /\ Finish(c))
    /\ \A b \in Brokers :
         /\ WF_vars(BrokerStep(b))
         /\ WF_vars(BeginIdleShutdown(b))
         /\ WF_vars(IdleTimePasses(b))
         /\ SF_vars(TakeLock(b))
    /\ \A b \in Brokers, c \in Clients :
         /\ WF_vars(Accept(b, c) \/ AcquireLease(b, c) \/ Refuse(b, c))
         /\ WF_vars(RespondOk(b, c) \/ RespondError(b, c) \/ CancelOpen(b, c))
         /\ WF_vars(~ClientOpen(c) /\ CloseSession(b, c))
    /\ ProbesDoNotStarve

FairSpec == Spec /\ Fairness

-----------------------------------------------------------------------------
(* Properties                                                              *)

\* Every variable keeps its type.
TypeOK ==
    /\ lock \in Clients \cup Brokers \cup {Nobody}
    /\ lockFile \in BOOLEAN
    /\ endpoint \in Brokers \cup {Nobody, Stale}
    /\ pc \in [Brokers -> Phases]
    /\ count \in [Brokers -> Nat]
    /\ expired \in [Brokers -> BOOLEAN]
    /\ stopping \in [Brokers -> BOOLEAN]
    /\ finished \in [Brokers -> Nat]
    /\ cpc \in [Clients -> ClientPhases]
    /\ seen \in [Clients -> Brokers \cup {Nobody, Stale}]
    /\ maySpawn \in [Clients -> BOOLEAN]
    /\ peer \in [Clients -> Brokers \cup {Nobody}]
    /\ stage \in [Clients -> Stages]
    /\ valid \in [Clients -> BOOLEAN]
    /\ answer \in [Clients -> {"none", "ok", "error"}]
    /\ crashes \in Nat

\* Two broker processes are never past the election at the same time, whatever
\* probes, crashes and retirements do to the lock in between (broker(), the lock
\* held from try_lock to drop(lock)).
OneManager ==
    \A a, b \in Brokers : pc[a] \in Locked /\ pc[b] \in Locked => a = b

\* While a broker serves, the endpoint file names it: a predecessor that retires
\* never removes its successor's file, because it removes the file before it
\* gives up the lock.
EndpointIsCurrent ==
    \A b \in Brokers : pc[b] = "serving" => endpoint = b

\* The lease counter is the number of sessions that hold a lease, on every path
\* out of serve() (error, cancelled, closed, aborted).
LeasesCounted ==
    \A b \in Brokers :
        count[b] = Cardinality({c \in Clients : peer[c] = b /\ stage[c] \in Leased})

\* A session with a lease belongs to a broker whose loop runs: idle shutdown
\* cuts off no session that was promised service, although sessions are
\* accepted concurrently with the idle check.
ShutdownCutsNoSession ==
    \A c \in Clients : stage[c] \in Leased => pc[peer[c]] = "serving"

\* The JoinSet never holds more than MaxSessions entries, finished tasks that
\* wait to be reaped included.
SessionsBounded ==
    \A b \in Brokers : Sessions(b) <= MaxSessions

\* The manager implements what it promises: one owner at a time, and it retires
\* only without lease holders (SharedManager).
Shared == INSTANCE SharedManager WITH
    owner <- IF \E b \in Brokers : pc[b] = "serving"
               THEN CHOOSE b \in Brokers : pc[b] = "serving"
               ELSE Nobody,
    holders <- {c \in Clients : stage[c] \in Leased}

SharedManagerSpec == Shared!SharedSpec

\* Once no proxy searches or is served, the broker processes go away and free
\* the lock, unless another proxy shows up ("stops its connector five seconds
\* after the last session closes").
ManagerRetires ==
    (\A c \in Clients : cpc[c] \notin Searching \cup {"served"})
      ~> \/ (\A b \in Brokers : pc[b] = "none") /\ lock = Nobody
         \/ \E c \in Clients : cpc[c] \in Searching \cup {"served"}

\* A searching proxy gets a manager: acquire()'s respawning makes some broker
\* serve, or the proxy is done one way or another.
SearchFindsManager ==
    \A c \in Clients :
        cpc[c] \in Searching
          ~> \/ \E b \in Brokers : pc[b] = "serving"
             \/ cpc[c] \in Settled
=============================================================================
