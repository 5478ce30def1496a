----------------------------- MODULE Admission -----------------------------
(***************************************************************************)
(* How the SSH server admits connections (server.rs, the auth methods of   *)
(* handler.rs, auth.rs): an accept loop, a task per connection that waits  *)
(* for a startup permit and watches the login grace time, and the          *)
(* connection's handler, which decides authentication attempts and gives   *)
(* the permit back.  russh (handshake, packet loop) is external: a session *)
(* future that is dropped closes its connection.                           *)
(***************************************************************************)
EXTENDS Integers, Sequences, FiniteSets

CONSTANTS
    Conns,        \* connections, reused after they close
    MaxStartups,  \* Config.max_startups
    GraceLimited, \* is login_grace_secs positive?
    Users,        \* user names
    NoUser,       \* the operating system does not tell the current user
    Configs       \* the configurations a server may be built from

Configurations ==
    [allowAnonymous : BOOLEAN, password : BOOLEAN, keyFiles : BOOLEAN, keys : BOOLEAN,
     hook : BOOLEAN, strict : BOOLEAN, allow : SUBSET Users, osUser : Users \cup {NoUser}]

ASSUME AdmissionAssumption ==
    /\ IsFiniteSet(Conns)
    /\ MaxStartups \in Nat
    /\ GraceLimited \in BOOLEAN
    /\ NoUser \notin Users
    /\ Configs \subseteq Configurations

VARIABLES
    config,     \* the configuration
    accepting,  \* the accept loop runs
    permits,    \* available permits of the semaphore
    waiting,    \* tasks that wait for a permit, in the semaphore's order
    phase,      \* phase[c]: how far c's task has come
    holds,      \* holds[c]: ConnectionHandler.startup_permit
    authed,     \* authed[c]: the flag shared by the handler and the task
    attempt,    \* attempt[c]: the authentication attempt under decision
    login       \* history: login[c], the attempt that was accepted

vars == <<config, accepting, permits, waiting, phase, holds, authed, attempt, login>>

Phases == {"idle", "queued", "handshake", "login", "expired", "open", "direct"}
Methods == {"none", "password", "wrong password", "key", "unknown key", "key offer"}
Attempts == [user : Users, method : Methods]
NoAttempt == [user |-> NoUser, method |-> "none"]

\* Semaphore::new(max_startups.max(1))
Cap == IF MaxStartups = 0 THEN 1 ELSE MaxStartups

-----------------------------------------------------------------------------
(* The configuration: build(), AuthConfig and decide().                    *)

\* Config::has_explicit_auth: configured, whether or not a key file has a key.
HasExplicitAuth == config.password \/ config.keyFiles

\* AuthConfig::from_config
Anonymous == config.allowAnonymous /\ ~HasExplicitAuth

\* build() refuses strict mode if there is nobody to be strict about.
Buildable(cfg) ==
    /\ cfg.keys => cfg.keyFiles
    /\ ~(cfg.strict /\ cfg.osUser = NoUser /\ cfg.allow = {})

\* The allowlist that build() resolves; user_allowed.
AllowedUsers ==
    config.allow \cup (IF config.strict THEN {config.osUser} \ {NoUser} ELSE {})
UserAllowed(user) == AllowedUsers = {} \/ user \in AllowedUsers

\* decide(): the answers it may give.  A hook decides everything but the user.
Decide(a) ==
    IF ~UserAllowed(a.user) THEN {"reject"}
    ELSE IF config.hook THEN {"accept", "partial", "reject"}
    ELSE IF \/ a.method = "none" /\ Anonymous
            \/ a.method = "password" /\ config.password
            \/ a.method = "key" /\ config.keys
         THEN {"accept"}
         ELSE {"reject"}

\* The SSH name of a method.
Kind(method) == CASE method = "none" -> "none"
                  [] method \in {"password", "wrong password"} -> "password"
                  [] OTHER -> "publickey"

\* Mutant of MethodSet: public keys are offered once a file is configured.
MethodSetOfFiles ==
    {k \in {"none", "password", "publickey"} :
        \/ config.hook
        \/ k = "none" /\ Anonymous
        \/ k = "publickey" /\ config.keyFiles
        \/ k = "password" /\ config.password}

\* AuthConfig::method_set, the methods that a rejection offers.
MethodSet ==
    {k \in {"none", "password", "publickey"} :
        \/ config.hook
        \/ k = "none" /\ Anonymous
        \/ k = "publickey" /\ config.keys
        \/ k = "password" /\ config.password}

ServerInit ==
    /\ accepting = TRUE
    /\ permits = Cap
    /\ waiting = <<>>
    /\ phase = [c \in Conns |-> "idle"]
    /\ holds = [c \in Conns |-> FALSE]
    /\ authed = [c \in Conns |-> FALSE]
    /\ attempt = [c \in Conns |-> NoAttempt]
    /\ login = [c \in Conns |-> NoAttempt]

Init ==
    /\ config \in {cfg \in Configs : Buildable(cfg)}
    /\ ServerInit

-----------------------------------------------------------------------------
(* The accept loop.                                                        *)

\* A connection is accepted, and its task queues for a permit.
Accept(c) ==
    /\ accepting
    /\ phase[c] = "idle"
    /\ phase' = [phase EXCEPT ![c] = "queued"]
    /\ waiting' = Append(waiting, c)
    /\ UNCHANGED <<config, accepting, permits, holds, authed, attempt, login>>

\* ServerHandle::shutdown: only the accept loop stops.
Shutdown ==
    /\ accepting
    /\ accepting' = FALSE
    /\ UNCHANGED <<config, permits, waiting, phase, holds, authed, attempt, login>>

\* serve_connection: a stream served without permit and grace time.
ServeConnection(c) ==
    /\ phase[c] = "idle"
    /\ phase' = [phase EXCEPT ![c] = "direct"]
    /\ UNCHANGED <<config, accepting, permits, waiting, holds, authed, attempt, login>>

-----------------------------------------------------------------------------
(* handle_connection, one task per connection.                             *)

\* acquire_owned: permits are given in the order of the queue.  The new handler
\* owns the permit, and run_stream starts the handshake.
TakePermit(c) ==
    /\ waiting # <<>> /\ Head(waiting) = c
    /\ permits > 0
    /\ waiting' = Tail(waiting)
    /\ permits' = permits - 1
    /\ holds' = [holds EXCEPT ![c] = TRUE]
    /\ phase' = [phase EXCEPT ![c] = "handshake"]
    /\ UNCHANGED <<config, accepting, authed, attempt, login>>

\* run_stream returns a session; the login grace time starts now.
HandshakeDone(c) ==
    /\ phase[c] = "handshake"
    /\ phase' = [phase EXCEPT ![c] = "login"]
    /\ UNCHANGED <<config, accepting, permits, waiting, holds, authed, attempt, login>>

\* The permit goes back, if the handler still has it.
ReleasePermit(c) ==
    /\ permits' = IF holds[c] THEN permits + 1 ELSE permits
    /\ holds' = [holds EXCEPT ![c] = FALSE]

\* Session and handler are dropped: the connection is closed.
Close(c) ==
    /\ ReleasePermit(c)
    /\ phase' = [phase EXCEPT ![c] = "idle"]
    /\ authed' = [authed EXCEPT ![c] = FALSE]
    /\ attempt' = [attempt EXCEPT ![c] = NoAttempt]
    /\ login' = [login EXCEPT ![c] = NoAttempt]
    /\ UNCHANGED <<config, accepting, waiting>>

\* The handshake fails, or the session ends by itself (client, network).
Disconnect(c) ==
    /\ phase[c] \in {"handshake", "login", "open", "direct"}
    /\ Close(c)

\* Mutant of GraceExpires: a pending decision holds the timer up.
GraceWaitsForHook(c) ==
    /\ GraceLimited
    /\ phase[c] = "login"
    /\ attempt[c] = NoAttempt
    /\ phase' = [phase EXCEPT ![c] = "expired"]
    /\ UNCHANGED <<config, accepting, permits, waiting, holds, authed, attempt, login>>

\* timeout(grace, session) elapses.
GraceExpires(c) ==
    /\ GraceLimited
    /\ phase[c] = "login"
    /\ phase' = [phase EXCEPT ![c] = "expired"]
    /\ UNCHANGED <<config, accepting, permits, waiting, holds, authed, attempt, login>>

\* After the timeout: an authenticated session runs on, any other is dropped.
CheckAuthed(c) ==
    /\ phase[c] = "expired"
    /\ \/ /\ authed[c]
          /\ phase' = [phase EXCEPT ![c] = "open"]
          /\ UNCHANGED <<config, accepting, permits, waiting, holds, authed, attempt, login>>
       \/ /\ ~authed[c]
          /\ Close(c)

-----------------------------------------------------------------------------
(* The connection's handler.                                               *)

\* An auth_* method is called; a hook may take its time to decide.
BeginAuth(c) ==
    /\ phase[c] \in {"login", "expired", "direct"}
    /\ ~authed[c]
    /\ attempt[c] = NoAttempt
    /\ \E a \in Attempts : attempt' = [attempt EXCEPT ![c] = a]
    /\ UNCHANGED <<config, accepting, permits, waiting, phase, holds, authed, login>>

\* Mutant of MarkAuthenticated: the permit stays with the handler.
MarkKeepsPermit(c) ==
    /\ authed' = [authed EXCEPT ![c] = TRUE]
    /\ login' = [login EXCEPT ![c] = attempt[c]]
    /\ UNCHANGED <<permits, holds>>

\* mark_authenticated
MarkAuthenticated(c) ==
    /\ authed' = [authed EXCEPT ![c] = TRUE]
    /\ login' = [login EXCEPT ![c] = attempt[c]]
    /\ ReleasePermit(c)

\* The decision is made.  An offered key is answered and authenticates nobody.
DecideAuth(c) ==
    /\ phase[c] \in {"login", "expired", "direct"}
    /\ attempt[c] # NoAttempt
    /\ attempt' = [attempt EXCEPT ![c] = NoAttempt]
    /\ \E answer \in Decide(attempt[c]) :
         \/ /\ answer = "accept" /\ attempt[c].method # "key offer"
            /\ MarkAuthenticated(c)
         \/ /\ answer # "accept" \/ attempt[c].method = "key offer"
            /\ UNCHANGED <<permits, holds, authed, login>>
    /\ UNCHANGED <<config, accepting, waiting, phase>>

-----------------------------------------------------------------------------
Task(c) == TakePermit(c) \/ CheckAuthed(c)

Next ==
    \/ Shutdown
    \/ \E c \in Conns :
         \/ Accept(c) \/ ServeConnection(c) \/ Task(c) \/ HandshakeDone(c)
         \/ GraceExpires(c) \/ Disconnect(c) \/ BeginAuth(c) \/ DecideAuth(c)

Spec == Init /\ [][Next]_vars

\* Tasks run and time passes.  Nothing is assumed of clients: they may never
\* finish a handshake, never authenticate and never leave.
Fairness == \A c \in Conns : WF_vars(Task(c)) /\ WF_vars(GraceExpires(c))

FairSpec == Spec /\ Fairness

-----------------------------------------------------------------------------
(* Properties                                                              *)

\* Every variable keeps its type.
TypeOK ==
    /\ config \in Configurations
    /\ accepting \in BOOLEAN
    /\ permits \in 0 .. Cap
    /\ waiting \in Seq(Conns)
    /\ phase \in [Conns -> Phases]
    /\ holds \in [Conns -> BOOLEAN]
    /\ authed \in [Conns -> BOOLEAN]
    /\ attempt \in [Conns -> Attempts \cup {NoAttempt}]
    /\ login \in [Conns -> Attempts \cup {NoAttempt}]

\* At most Cap connections of the accept loop are past the queue and not
\* authenticated ("Cap concurrent *unauthenticated* connections"), and exactly
\* these hold a permit: none is lost or given back twice on any way out.
StartupsBounded ==
    LET startups == {c \in Conns : ~authed[c]
                        /\ phase[c] \in {"handshake", "login", "expired", "open"}} IN
      /\ startups = {c \in Conns : holds[c]}
      /\ permits + Cardinality(startups) = Cap

\* Who is logged in was entitled to it by the configuration: the allowlist holds
\* even with a hook, strict mode never degrades to "everybody", and without a
\* hook anonymous logins exist only if no password and no key file is configured
\* at all.
LoginsEntitled ==
    \A c \in Conns : authed[c] =>
        /\ config.strict \/ config.allow # {} =>
             login[c].user \in config.allow
               \/ (config.strict /\ login[c].user = config.osUser)
        /\ ~config.hook =>
             CASE login[c].method = "none" ->
                    config.allowAnonymous /\ ~config.password /\ ~config.keyFiles
               [] login[c].method = "password" -> config.password
               [] login[c].method = "key" -> config.keys
               [] OTHER -> FALSE

\* The methods that are offered (method_set) and those that are accepted
\* (decide) agree: a client that follows the offer can get in, and no login uses
\* a method that is not offered.
OffersAgree ==
    /\ \A c \in Conns : authed[c] => Kind(login[c].method) \in MethodSet
    /\ \A k \in MethodSet, u \in Users :
         UserAllowed(u) => \E m \in Methods \ {"key offer"} :
            Kind(m) = k /\ "accept" \in Decide([user |-> u, method |-> m])

\* A connection past its handshake is authenticated or closed in the end, even
\* if the client does nothing and a hook never decides.
LoginEnds ==
    \A c \in Conns : phase[c] = "login" ~> (authed[c] \/ phase[c] = "idle")

\* If no handshake hangs, every accepted connection gets its turn, also after
\* shutdown.
QueueAdvances ==
    (\A c \in Conns : []<>(phase[c] # "handshake"))
      => \A c \in Conns : phase[c] = "queued" ~> phase[c] # "queued"

\* What LoginGate is in terms of this module.
Gate == INSTANCE LoginGate WITH
    Limit <- Cap,
    queue <- waiting,
    inside <- {c \in Conns : holds[c]},
    members <- {c \in Conns : authed[c]}

\* The accept loop, the connections' tasks and the handlers together implement the
\* gate that max_startups promises: first come, first served, at most Cap inside, and
\* one way out for each, whichever of login, grace time and disconnect comes first.
GateKept == Gate!GateSpec
=============================================================================
