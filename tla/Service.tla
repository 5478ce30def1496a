------------------------------ MODULE Service ------------------------------
(***************************************************************************)
(* The Windows launch-at-login process (service.rs, run_server of main.rs, *)
(* hostkey.rs): server processes that exclude each other with a named      *)
(* event, and `sshdt service ...` commands that start, stop and configure  *)
(* them.  They meet in three named events, which exist as long as some     *)
(* process has them open, in the registry and in the host key file.        *)
(***************************************************************************)
EXTENDS Naturals, FiniteSets

CONSTANTS
    Servers,      \* slots for `sshdt --service-run` processes
    Controllers,  \* `sshdt service` commands that run at the same time
    MaxEvents     \* bound on commands, sign-ins and interrupts

NoServer == "no server"
NoKey == "no key"     \* there is no host key file
Partial == "partial"  \* the file was created but not written
Events == {"running", "stop", "ready"}
Values == {"args", "executable", "run", "approved"}
Commands == {"enable", "disable", "uninstall", "status", "start", "stop", "restart"}

ASSUME ServiceAssumption ==
    /\ MaxEvents \in Nat
    /\ Servers # {} /\ Servers \cap Controllers = {}
    /\ {NoServer, NoKey, Partial} \cap Servers = {}

VARIABLES
    holders,    \* holders[e]: the processes that have event e open
    signalled,  \* signalled[e]: the state of event e, FALSE if it does not exist
    server,     \* server[s]: how far server process s has come
    listening,  \* the servers that hold the SSH port
    offered,    \* offered[s]: the host key of s, named after who generated it
    keyfile,    \* the host key file: a key, NoKey or Partial
    saved,      \* saved[v]: registry value v is there
    ctl,        \* ctl[c]: the command of controller c
    events,     \* the commands, sign-ins and interrupts so far
    killed      \* history: start() has killed a process

eventVars == <<holders, signalled>>
keyVars == <<offered, keyfile>>
vars == <<holders, signalled, server, listening, offered, keyfile, saved, ctl, events, killed>>

\* The phases in which a process has passed RunGuard::acquire and not yet
\* begun to drop the guard.
Guarded == {"guarded", "starting", "generating", "writing", "binding", "serving", "closing"}
ServerPhases == Guarded \cup {"spawned", "leaving", "dying", "exited"}
Places ==
    {"idle", "remove run", "remove approved", "remove settings", "status", "configured?",
     "running?", "spawn", "ready?", "clean up", "requested", "reap", "stop event",
     "any running?", "none running?", "signal", "stopping"} \cup Values

\* A command: what it is, where it is, the process that start() spawned, and
\* observed_running.
Command == [job : Commands, at : Places, child : Servers \cup {NoServer}, seen : BOOLEAN]
Idle == [job |-> "status", at |-> "idle", child |-> NoServer, seen |-> FALSE]

TypeOK ==
    /\ holders \in [Events -> SUBSET (Servers \cup Controllers)]
    /\ signalled \in [Events -> BOOLEAN]
    /\ server \in [Servers -> ServerPhases]
    /\ listening \subseteq Servers
    /\ offered \in [Servers -> Servers \cup {NoKey}]
    /\ keyfile \in Servers \cup {NoKey, Partial}
    /\ saved \in [Values -> BOOLEAN]
    /\ ctl \in [Controllers -> Command]
    /\ events \in Nat
    /\ killed \in BOOLEAN

\* A computer on which sshdt was never run, was only enabled, or is running.
Init ==
    /\ \E up \in {{}} \cup {{s} : s \in Servers}, enabled \in BOOLEAN :
        /\ up # {} => enabled
        /\ holders = [e \in Events |-> up]
        /\ signalled = [e \in Events |-> up # {} /\ e # "stop"]
        /\ server = [s \in Servers |-> IF s \in up THEN "serving" ELSE "exited"]
        /\ listening = up
        /\ offered = [s \in Servers |-> IF s \in up THEN s ELSE NoKey]
        /\ keyfile \in IF up = {} THEN {NoKey} ELSE up
        /\ saved = [v \in Values |-> enabled]
    /\ ctl = [c \in Controllers |-> Idle]
    /\ events = 0
    /\ killed = FALSE

-----------------------------------------------------------------------------
(* Named events: created by the first that opens them with CreateEventW,   *)
(* gone with the last handle.                                              *)

Exists(e) == holders[e] # {}

\* CreateEventW, for each of the events in es: one that exists is opened and keeps
\* its state.
Create(p, es, initially) ==
    /\ holders' = [e \in Events |-> IF e \in es THEN holders[e] \cup {p} ELSE holders[e]]
    /\ signalled' = [e \in Events |-> IF e \in es /\ ~Exists(e) THEN initially
                                      ELSE signalled[e]]

\* OpenEventW.
Open(p, e) ==
    /\ Exists(e)
    /\ holders' = [holders EXCEPT ![e] = @ \cup {p}]
    /\ UNCHANGED signalled

\* CloseHandle, for each of the events in es.
Close(p, es) ==
    /\ holders' = [e \in Events |-> IF e \in es THEN holders[e] \ {p} ELSE holders[e]]
    /\ signalled' = [e \in Events |-> signalled[e] /\ holders'[e] # {}]

Set(e) == signalled' = [signalled EXCEPT ![e] = TRUE] /\ UNCHANGED holders
Holds(p) == {e \in Events : p \in holders[e]}

-----------------------------------------------------------------------------
(* A server process: main() with --service-run.                            *)

\* Something happens that the model bounds.
Happens == events < MaxEvents /\ events' = events + 1

Move(s, to) == server' = [server EXCEPT ![s] = to]

\* Mutant of Acquire: ERROR_ALREADY_EXISTS is not looked at.
AcquireAnyway(s) ==
    /\ server[s] = "spawned" /\ saved["args"]
    /\ Create(s, {"running"}, TRUE)
    /\ Move(s, "guarded")
    /\ UNCHANGED <<listening, keyVars, saved, ctl, events, killed>>

\* RunGuard::acquire, the running event; "sshdt is already running" if it exists.
Acquire(s) ==
    /\ server[s] = "spawned" /\ saved["args"]
    /\ Create(s, {"running"}, TRUE)
    /\ Move(s, IF Exists("running") THEN "leaving" ELSE "guarded")
    /\ UNCHANGED <<listening, keyVars, saved, ctl, events, killed>>

\* saved_startup_args(): the options are gone.
NoOptions(s) ==
    /\ server[s] = "spawned" /\ ~saved["args"]
    /\ Move(s, "exited")
    /\ UNCHANGED <<eventVars, listening, keyVars, saved, ctl, events, killed>>

\* RunGuard::acquire, the other two events.
OpenEvents(s) ==
    /\ server[s] = "guarded"
    /\ Create(s, {"stop", "ready"}, FALSE)
    /\ Move(s, "starting")
    /\ UNCHANGED <<listening, keyVars, saved, ctl, events, killed>>

\* Mutant of LoadKey: mark_ready is called before the port is bound.
LoadKeyMarksReady(s) ==
    /\ server[s] = "starting" /\ keyfile \in Servers
    /\ offered' = [offered EXCEPT ![s] = keyfile]
    /\ Set("ready")
    /\ Move(s, "binding")
    /\ UNCHANGED <<listening, keyfile, saved, ctl, events, killed>>

\* load_or_generate_one: the key file exists and is whole.
LoadKey(s) ==
    /\ server[s] = "starting" /\ keyfile \in Servers
    /\ offered' = [offered EXCEPT ![s] = keyfile]
    /\ Move(s, "binding")
    /\ UNCHANGED <<eventVars, listening, keyfile, saved, ctl, events, killed>>

\* load_or_generate_one: there is no file; generate_and_persist makes a new key ...
GenerateKey(s) ==
    /\ server[s] = "starting" /\ keyfile = NoKey
    /\ offered' = [offered EXCEPT ![s] = s]
    /\ Move(s, "generating")
    /\ UNCHANGED <<eventVars, listening, keyfile, saved, ctl, events, killed>>

\* ... for which the file is created, or emptied ...
CreateKeyFile(s) ==
    /\ server[s] = "generating"
    /\ keyfile' = Partial
    /\ Move(s, "writing")
    /\ UNCHANGED <<eventVars, listening, offered, saved, ctl, events, killed>>

\* ... and written.
PersistKey(s) ==
    /\ server[s] = "writing"
    /\ keyfile' = offered[s]
    /\ Move(s, "binding")
    /\ UNCHANGED <<eventVars, listening, offered, saved, ctl, events, killed>>

\* Logging, the configuration, the key or the port fails.
StartupFails(s) ==
    /\ server[s] \in {"starting", "generating", "writing", "binding"}
    /\ Move(s, "leaving")
    /\ UNCHANGED <<eventVars, listening, keyVars, saved, ctl, events, killed>>

\* Server::serve binds the port; mark_ready.
Serve(s) ==
    /\ server[s] = "binding" /\ listening = {}
    /\ listening' = {s}
    /\ Set("ready")
    /\ Move(s, "serving")
    /\ UNCHANGED <<keyVars, saved, ctl, events, killed>>

\* Mutant of WaitForStop: the guard is dropped before the server is shut down.
WaitForStopLeaves(s) ==
    /\ server[s] = "serving" /\ signalled["stop"]
    /\ Move(s, "leaving")
    /\ UNCHANGED <<eventVars, listening, keyVars, saved, ctl, events, killed>>

\* wait_for_stop returns.
WaitForStop(s) ==
    /\ server[s] = "serving" /\ signalled["stop"]
    /\ Move(s, "closing")
    /\ UNCHANGED <<eventVars, listening, keyVars, saved, ctl, events, killed>>

\* tunnel.shutdown() and handle.shutdown(): the accept loop has ended.
ShutDown(s) ==
    /\ server[s] = "closing"
    /\ listening' = listening \ {s}
    /\ Move(s, "leaving")
    /\ UNCHANGED <<eventVars, keyVars, saved, ctl, events, killed>>

\* The process has exited.
Exit(s) == Move(s, "exited") /\ offered' = [offered EXCEPT ![s] = NoKey]

\* The RunGuard is dropped, its running event first; then the process exits.
DropGuard(s) ==
    /\ server[s] = "leaving"
    /\ \/ /\ s \in holders["running"]
          /\ Close(s, {"running"})
          /\ IF Holds(s) = {"running"} THEN Exit(s) ELSE UNCHANGED <<server, offered>>
       \/ /\ s \notin holders["running"]
          /\ Close(s, {"stop", "ready"})
          /\ Exit(s)
    /\ UNCHANGED <<listening, keyfile, saved, ctl, events, killed>>

\* A killed process loses its handles and its socket, one before the other.
Die(s) ==
    /\ server[s] = "dying"
    /\ \/ /\ s \in listening /\ listening' = listening \ {s}
          /\ UNCHANGED <<eventVars, server, offered>>
       \/ /\ Holds(s) # {} /\ Close(s, Events)
          /\ UNCHANGED <<listening, server, offered>>
       \/ /\ Holds(s) = {} /\ s \notin listening
          /\ Exit(s)
          /\ UNCHANGED <<listening, eventVars>>
    /\ UNCHANGED <<keyfile, saved, ctl, events, killed>>

ServerStep(s) ==
    \/ NoOptions(s) \/ Acquire(s) \/ OpenEvents(s)
    \/ LoadKey(s) \/ GenerateKey(s) \/ CreateKeyFile(s) \/ PersistKey(s) \/ StartupFails(s)
    \/ Serve(s) \/ WaitForStop(s) \/ ShutDown(s)
    \/ DropGuard(s) \/ Die(s)

\* The slots for new processes.
Free == {s \in Servers : server[s] = "exited" /\ \A c \in Controllers : ctl[c].child # s}

\* Windows runs the command of the Run entry at sign-in.
LaunchAtLogin ==
    /\ saved["run"] /\ Happens
    /\ \E s \in Free : Move(s, "spawned")
    /\ UNCHANGED <<eventVars, listening, keyVars, saved, ctl, killed>>

-----------------------------------------------------------------------------
(* The commands.  The handle of is_running() is closed in the next step of *)
(* the same command; acquire() may meet it.                                *)

At(c, place) == ctl[c].at = place

\* The command goes on at a place, or returns; a process it spawned stays.
Goto(c, to) == ctl' = [ctl EXCEPT ![c] = IF to = "idle" THEN Idle ELSE [@ EXCEPT !.at = to]]

FirstPlace ==
    [enable |-> "args", disable |-> "remove run", status |-> "status",
     start |-> "configured?", stop |-> "stop event", restart |-> "stop event",
     uninstall |-> "stop event"]

\* The commands that change the registry.
Editing == {"enable", "disable", "uninstall"}

\* manage(): a command is entered; two that edit are not run at the same time.
Manage(c, command) ==
    /\ At(c, "idle") /\ Happens
    /\ command \in Editing => \A d \in Controllers : ctl[d].job \notin Editing
    /\ ctl' = [ctl EXCEPT ![c] = [@ EXCEPT !.job = command, !.at = FirstPlace[command]]]
    /\ UNCHANGED <<eventVars, server, listening, keyVars, saved, killed>>

AfterValue == [args |-> "executable", executable |-> "run", run |-> "approved",
               approved |-> "idle"]

\* Mutant of Enable: the Run entry is written first.
EnableRunFirst(c) ==
    /\ ctl[c].at \in Values
    /\ saved' = [saved EXCEPT !["run"] = TRUE, ![ctl[c].at] = TRUE]
    /\ Goto(c, AfterValue[ctl[c].at])
    /\ UNCHANGED <<eventVars, server, listening, keyVars, events, killed>>

\* enable() writes its values one after the other; the last only if Windows keeps
\* such values.
Enable(c) ==
    /\ ctl[c].at \in Values
    /\ \/ saved' = [saved EXCEPT ![ctl[c].at] = TRUE]
       \/ At(c, "approved") /\ UNCHANGED saved
    /\ Goto(c, AfterValue[ctl[c].at])
    /\ UNCHANGED <<eventVars, server, listening, keyVars, events, killed>>

\* disable(), and uninstall() after its stop().
Remove(c) ==
    /\ \/ /\ At(c, "remove run")
          /\ saved' = [saved EXCEPT !["run"] = FALSE]
          /\ Goto(c, IF ctl[c].job = "uninstall" THEN "remove approved" ELSE "idle")
       \/ /\ At(c, "remove approved")
          /\ saved' = [saved EXCEPT !["approved"] = FALSE]
          /\ Goto(c, "remove settings")
       \/ /\ At(c, "remove settings")
          /\ saved' = [saved EXCEPT !["args"] = FALSE, !["executable"] = FALSE]
          /\ Goto(c, "idle")
    /\ UNCHANGED <<eventVars, server, listening, keyVars, events, killed>>

\* is_running(): the handle is opened, if there is an event, and closed again;
\* yes and no are what the command does next.
IsRunning(c, yes, no) ==
    \/ ~Exists("running") /\ no /\ UNCHANGED eventVars
    \/ c \notin holders["running"] /\ Open(c, "running") /\ UNCHANGED ctl
    \/ c \in holders["running"] /\ Close(c, {"running"}) /\ yes

Status(c) ==
    /\ At(c, "status")
    /\ IsRunning(c, Goto(c, "idle"), Goto(c, "idle"))
    /\ UNCHANGED <<server, listening, keyVars, saved, events, killed>>

\* start(): is_configured() and is_running().
CheckStart(c) ==
    /\ \/ /\ At(c, "configured?")
          /\ Goto(c, IF saved["args"] /\ saved["executable"] THEN "running?" ELSE "idle")
          /\ UNCHANGED eventVars
       \/ At(c, "running?") /\ IsRunning(c, Goto(c, "idle"), Goto(c, "spawn"))
    /\ UNCHANGED <<server, listening, keyVars, saved, events, killed>>

\* start(): the child is spawned, unless saved_executable() fails.
Spawn(c) ==
    /\ At(c, "spawn")
    /\ \/ /\ saved["executable"]
          /\ \E s \in Free :
               /\ Move(s, "spawned")
               /\ ctl' = [ctl EXCEPT ![c] = [@ EXCEPT !.at = "ready?", !.child = s]]
       \/ ~saved["executable"] /\ Goto(c, "idle") /\ UNCHANGED server
    /\ UNCHANGED <<eventVars, listening, keyVars, saved, events, killed>>

Child(c) == server[ctl[c].child]

\* wait_for_ready: ready is signalled; or it was not when it was looked at, and the
\* running event, which must not disappear once it was seen, and the child are.
AwaitReady(c) ==
    /\ At(c, "ready?")
    /\ \/ /\ c \notin holders["running"] /\ signalled["ready"]
          /\ Goto(c, "idle") /\ UNCHANGED eventVars
       \/ IsRunning(c,
              ctl' = [ctl EXCEPT ![c] = [@ EXCEPT
                  !.seen = TRUE, !.at = IF Child(c) = "exited" THEN "clean up" ELSE "ready?"]],
              Goto(c, IF ctl[c].seen \/ Child(c) = "exited" THEN "clean up" ELSE "ready?"))
    /\ UNCHANGED <<server, listening, keyVars, saved, events, killed>>

\* wait_for_ready: the ten seconds have passed since the last look, or a call fails.
NotReady(c) ==
    /\ At(c, "ready?")
    /\ Close(c, {"running"})
    /\ Goto(c, "clean up")
    /\ UNCHANGED <<server, listening, keyVars, saved, events, killed>>

\* cleanup_failed_start: one request to stop, to whoever has the event open.
RequestStop(c) ==
    /\ At(c, "clean up") /\ Child(c) # "exited"
    /\ Exists("stop") /\ Set("stop")
    /\ Goto(c, "requested")
    /\ UNCHANGED <<server, listening, keyVars, saved, events, killed>>

\* cleanup_failed_start: the child has not stopped within a second.
KillChild(c) ==
    /\ ctl[c].at \in {"clean up", "requested"} /\ Child(c) # "exited"
    /\ Move(ctl[c].child, "dying")
    /\ killed' = TRUE
    /\ Goto(c, "reap")
    /\ UNCHANGED <<eventVars, listening, keyVars, saved, events>>

\* cleanup_failed_start: try_wait() or wait() says that the child is gone.
CleanedUp(c) ==
    /\ ctl[c].at \in {"clean up", "requested", "reap"} /\ Child(c) = "exited"
    /\ Goto(c, "idle")
    /\ UNCHANGED <<eventVars, server, listening, keyVars, saved, events, killed>>

\* cleanup_failed_start: try_wait(), kill() or wait() fails; the child is left as it is.
CleanupFails(c) ==
    /\ ctl[c].at \in {"clean up", "requested", "reap"}
    /\ Goto(c, "idle")
    /\ UNCHANGED <<eventVars, server, listening, keyVars, saved, events, killed>>

AfterStop == [stop |-> "idle", restart |-> "configured?", uninstall |-> "remove run"]

\* stop_event(): the event, or the certainty that nothing runs.
StopEvent(c) ==
    /\ \/ /\ At(c, "stop event")
          /\ \/ Open(c, "stop") /\ Goto(c, "signal")
             \/ ~Exists("stop") /\ Goto(c, "any running?") /\ UNCHANGED eventVars
       \/ At(c, "any running?") /\ IsRunning(c, Goto(c, "stop event"), Goto(c, "none running?"))
       \/ At(c, "none running?") /\ IsRunning(c, Goto(c, "idle"), Goto(c, AfterStop[ctl[c].job]))
    /\ UNCHANGED <<server, listening, keyVars, saved, events, killed>>

\* stop_event(): a server has been running without the event for a second.
NoStopEvent(c) ==
    /\ ctl[c].at \in {"stop event", "any running?"}
    /\ Exists("running") /\ ~Exists("stop")
    /\ Close(c, {"running"})
    /\ Goto(c, "none running?")
    /\ UNCHANGED <<server, listening, keyVars, saved, events, killed>>

\* stop(): SetEvent.
SignalStop(c) ==
    /\ At(c, "signal") /\ Set("stop")
    /\ Goto(c, "stopping")
    /\ UNCHANGED <<server, listening, keyVars, saved, events, killed>>

\* wait_until_stopped, until the running event is gone; the stop handle stays open
\* until stop() returns.
AwaitStopped(c) ==
    /\ At(c, "stopping")
    /\ \/ ~Exists("running") /\ Close(c, {"stop"}) /\ Goto(c, AfterStop[ctl[c].job])
       \/ c \notin holders["running"] /\ Open(c, "running") /\ UNCHANGED ctl
       \/ c \in holders["running"] /\ Close(c, {"running"}) /\ UNCHANGED ctl
    /\ UNCHANGED <<server, listening, keyVars, saved, events, killed>>

\* wait_until_stopped: still running after ten seconds.
NotStopped(c) ==
    /\ At(c, "stopping") /\ Exists("running")
    /\ Close(c, {"running", "stop"})
    /\ Goto(c, "idle")
    /\ UNCHANGED <<server, listening, keyVars, saved, events, killed>>

ControllerStep(c) ==
    \/ Enable(c) \/ Remove(c) \/ Status(c)
    \/ CheckStart(c) \/ Spawn(c) \/ AwaitReady(c) \/ RequestStop(c)
    \/ CleanedUp(c) \/ CleanupFails(c)
    \/ StopEvent(c) \/ SignalStop(c) \/ AwaitStopped(c)

\* The deadline of a loop has passed.
TimeOut(c) == NotReady(c) \/ KillChild(c) \/ NoStopEvent(c) \/ NotStopped(c)

\* The command is interrupted; Windows closes its handles.
Interrupt(c) ==
    /\ ~At(c, "idle") /\ Happens
    /\ Goto(c, "idle")
    /\ Close(c, Events)
    /\ UNCHANGED <<server, listening, keyVars, saved, killed>>

Next ==
    \/ \E s \in Servers : ServerStep(s)
    \/ LaunchAtLogin
    \/ \E c \in Controllers : ControllerStep(c) \/ TimeOut(c) \/ Interrupt(c)
    \/ \E c \in Controllers, command \in Commands : Manage(c, command)

Spec == Init /\ [][Next]_vars

-----------------------------------------------------------------------------
(* Properties.                                                             *)

\* RunGuard: at most one launch-at-login process is between acquire() and the
\* drop of its guard, however many are launched at login or by start().
OneServer ==
    \A s, t \in Servers :
        server[s] \in Guarded /\ server[t] \in Guarded => s = t

\* When stop() returns without an error, so that restart or uninstall goes on, no
\* server is left between acquire() and the end of its shutdown, and the port is free,
\* unless a killed process is just losing it: the guard is dropped after
\* handle.shutdown() and not before.
StopMeansStopped ==
    [][\A c \in Controllers :
        At(c, "stopping") /\ ctl'[c].at \notin {"stopping", "idle"} =>
            \A s \in Servers : /\ server[s] \notin Guarded
                               /\ s \in listening => server[s] = "dying"]_vars

\* When start() returns without an error after it has spawned a process, a server can
\* be reached, or somebody has asked it to stop: the ready event is shared, and may be
\* that of another server or left by one that is shutting down, but it is set only
\* behind a bound port.  (Once a start has killed a process, the ready event may be
\* that of the dead one.)
StartMeansReady ==
    [][\A c \in Controllers :
        At(c, "ready?") /\ ctl'[c].at = "idle" /\ events' = events /\ ~killed =>
            (\E s \in Servers : server[s] = "serving") \/ signalled["stop"]]_vars

\* The Run entry is there only with the options and the executable it needs, also
\* when enable() or uninstall() is interrupted between two registry calls.
LaunchConfigured == saved["run"] => saved["args"] /\ saved["executable"]

\* hostkey.rs: a server that can be reached offers the key in the file, so that
\* the next one offers the same.
HostKeyStable ==
    \A s \in Servers : server[s] = "serving" => keyfile = offered[s]
=============================================================================
