-------------------------------- MODULE Host --------------------------------
(***************************************************************************)
(* The tunnel host task of an SSH server (host.rs): under a lock per       *)
(* tunnel it brings the tunnel into shape with a sequence of devtunnel     *)
(* commands, hosts it, and starts over after a failure.  Every command and *)
(* the host process are owned processes (module Guardian).  The tunnel     *)
(* service and the CLI are external, and others may change the tunnel.     *)
(* When to retry is in module Backoff: here a pause ends at any time.      *)
(***************************************************************************)
EXTENDS Integers, Guardian

CONSTANTS
    Servers,    \* server processes for the same tunnel, restarted under a new pid
    Nobody,     \* no server, no process
    MaxFaults   \* bound: shutdowns, crashes, timeouts, failures, foreign changes

ASSUME HostAssumption ==
    /\ Nobody \notin Servers \cup Procs
    /\ MaxFaults \in Nat

VARIABLES
    phase,      \* phase[s]: where start()'s task is, "off" if there is none
    step,       \* step[s]: the command of attempt() that comes next or runs
    held,       \* held[s]: the owned process of the task
    cancelled,  \* cancelled[s]: HostHandle.shutdown was called
    hostLock,   \* holder of devtunnel-host-<id>.lock
    shown,      \* shown[s]: the state in s's status shown, "none" if its instance
                \* lock is free (print_status)
    service,    \* external: the tunnel
    loggedIn,   \* external: the account is logged in
    autoCreate, \* DevTunnelConfig.auto_create
    disturbed,  \* history: others changed the tunnel since the attempt began
    faults      \* number of them so far

hostVars == <<phase, step, held, cancelled, hostLock, shown>>
serviceVars == <<service, loggedIn, autoCreate, disturbed>>
vars == <<guardianVars, hostVars, serviceVars, faults>>

Tunnels == [exists : BOOLEAN, port : {"none", "auto", "other"}, labels : BOOLEAN]
NoTunnel == [exists |-> FALSE, port |-> "none", labels |-> FALSE]
NewTunnel == [NoTunnel EXCEPT !.exists = TRUE]
Configured(t) == t.exists /\ t.port = "auto" /\ t.labels

Commands == {"user", "show", "create", "reshow", "port create", "port show",
             "update", "label show"}
Outputs ==
    [kind : {"silent", "ok", "login", "not found", "error", "ready"}]
      \cup [kind : {"ok"}, view : Tunnels]
Said(k) == [kind |-> k]

Phases == {"off", "skipped", "attempt", "abort", "ready", "stopping", "pause"}

Init ==
    /\ GuardianInit
    /\ phase = [s \in Servers |-> "off"]
    /\ step = [s \in Servers |-> "user"]
    /\ held = [s \in Servers |-> Nobody]
    /\ cancelled = [s \in Servers |-> FALSE]
    /\ hostLock = Nobody
    /\ shown = [s \in Servers |-> "none"]
    /\ service \in {NoTunnel, [NewTunnel EXCEPT !.port = "auto"]}
    /\ loggedIn = TRUE
    /\ autoCreate \in BOOLEAN
    /\ disturbed = FALSE
    /\ faults = 0

Goto(s, p) == phase' = [phase EXCEPT ![s] = p]
Status(s, state) == shown' = [shown EXCEPT ![s] = state]

\* The task drops its process, if it has one.
Release(s) ==
    /\ held' = [held EXCEPT ![s] = Nobody]
    /\ IF held[s] = Nobody THEN UNCHANGED guardianVars ELSE DropOwned(held[s])

\* One of the faults (or shutdowns) that the bound admits.
Fault ==
    /\ faults < MaxFaults
    /\ faults' = faults + 1

-----------------------------------------------------------------------------
(* The devtunnel CLI and the tunnel service (external).                    *)

\* What a command does to the tunnel when the service is reached.
Effect(j) ==
    CASE j = "create" /\ loggedIn /\ ~service.exists -> NewTunnel
      [] j = "port create" /\ loggedIn /\ service.exists /\ service.port = "none"
           -> [service EXCEPT !.port = "auto"]
      [] j = "update" /\ loggedIn /\ service.exists -> [service EXCEPT !.labels = TRUE]
      [] OTHER -> service

\* What it then writes.
Answer(j) ==
    IF ~loggedIn THEN Said("login")
    ELSE IF j = "create" THEN Said(IF service.exists THEN "error" ELSE "ok")
    ELSE IF j # "user" /\ ~service.exists THEN Said("not found")
    ELSE CASE j \in {"user", "update"} -> Said("ok")
           [] j = "port create" -> Said(IF service.port = "none" THEN "ok" ELSE "error")
           [] j = "host" -> Said("ready")
           [] OTHER -> [kind |-> "ok", view |-> service]

\* The CLI does its work; commands exit then, and so does a failed host.
CliWorks(p) ==
    /\ cli[p] = "running" /\ out[p].kind = "silent"
    /\ service' = Effect(job[p])
    /\ out' = [out EXCEPT ![p] = Answer(job[p])]
    /\ cli' = [cli EXCEPT ![p] = IF out'[p].kind = "ready" THEN "running" ELSE "zombie"]
    /\ UNCHANGED <<guard, kids, owner, job, hostVars, loggedIn, autoCreate, disturbed, faults>>

\* The CLI fails, before or after the service has done what it was asked for; a
\* running host process ends.
CliFails(p) ==
    /\ Fault
    /\ cli[p] = "running"
    /\ service' \in {service, IF out[p].kind = "silent" THEN Effect(job[p]) ELSE service}
    /\ out' = [out EXCEPT ![p] = IF @.kind = "silent" THEN Said("error") ELSE @]
    /\ cli' = [cli EXCEPT ![p] = "zombie"]
    /\ UNCHANGED <<guard, kids, owner, job, hostVars, loggedIn, autoCreate, disturbed>>

\* Somebody else creates, changes or deletes the tunnel, or logs in or out.
Foreign ==
    /\ Fault
    /\ \/ /\ service' \in {t \in Tunnels : t.exists \/ t = NoTunnel} \ {service}
          /\ UNCHANGED loggedIn
       \/ /\ loggedIn' = ~loggedIn
          /\ UNCHANGED service
    /\ disturbed' = TRUE
    /\ UNCHANGED <<guardianVars, hostVars, autoCreate>>

-----------------------------------------------------------------------------
(* The task: start().                                                      *)

\* The head of the loop: the first command of attempt() comes next.
BeginAttempt(s) ==
    /\ Goto(s, "attempt") /\ Status(s, "starting")
    /\ disturbed' = FALSE
    /\ UNCHANGED <<service, loggedIn, autoCreate>>

\* Mutant of Boot: the host lock is not tried.
BootUnlocked(s) ==
    /\ phase[s] = "off"
    /\ hostLock' = s
    /\ BeginAttempt(s)
    /\ UNCHANGED <<guardianVars, step, held, cancelled, faults>>

\* A server starts.  The task is skipped when the settings do not allow hosting
\* or another server has the lock; it then waits for the shutdown, so that its
\* status is shown.
Boot(s) ==
    /\ phase[s] = "off"
    /\ \/ /\ hostLock = Nobody
          /\ hostLock' = s
          /\ BeginAttempt(s)
       \/ /\ Goto(s, "skipped") /\ Status(s, "skipped")
          /\ UNCHANGED <<hostLock, serviceVars>>
    /\ UNCHANGED <<guardianVars, step, held, cancelled, faults>>

\* The attempt has failed; the error decides what the status says.
Fail(s, permanent) ==
    /\ Goto(s, "pause")
    /\ Status(s, IF permanent THEN "skipped" ELSE "retrying")
    /\ step' = [step EXCEPT ![s] = "user"]
    /\ Release(s)

\* The pause is over.
Retry(s) ==
    /\ phase[s] = "pause"
    /\ BeginAttempt(s)
    /\ UNCHANGED <<guardianVars, step, held, cancelled, hostLock, faults>>

-----------------------------------------------------------------------------
(* attempt() and command().                                                *)

\* spawn_owned for the command or the host process that comes next.
Launch(s, p) ==
    /\ phase[s] = "attempt" /\ held[s] = Nobody
    /\ SpawnOwned(p, step[s])
    /\ held' = [held EXCEPT ![s] = p]
    /\ UNCHANGED <<phase, step, cancelled, hostLock, shown, serviceVars, faults>>

\* The guardian cannot be started.
LaunchFails(s) ==
    /\ Fault
    /\ phase[s] = "attempt" /\ held[s] = Nobody
    /\ Fail(s, FALSE)
    /\ UNCHANGED <<cancelled, hostLock, serviceVars>>

\* Mutant of AfterLabels: the labels are not looked at.
HostAtOnce(t) == "host"

\* missing_labels: the labels are added before the tunnel is hosted.
AfterLabels(t) == IF t.labels THEN "host" ELSE "update"

\* Mutant of AfterPort: auto_create is negated.
AfterPortSwapped(t) ==
    IF t.port = "auto" THEN AfterLabels(t)
    ELSE IF t.port = "other" \/ autoCreate THEN "permanent" ELSE "port create"

\* The check of the port in the tunnel's details.
AfterPort(t) ==
    IF t.port = "auto" THEN AfterLabels(t)
    ELSE IF t.port = "other" \/ ~autoCreate THEN "permanent" ELSE "port create"

\* What a command that did not succeed makes of the attempt; it was silent if the
\* CLI could not be started ("No such file").
Failure(r) ==
    IF r.kind \in {"login", "not found", "silent"} THEN "permanent" ELSE "transient"

\* The command after c when c has written r, "host", or how the attempt fails.
\* Creating may fail because somebody else was faster, so that only the
\* details read afterwards count.
After(c, r) ==
    IF c = "create" THEN "reshow"
    ELSE IF c = "port create" THEN "port show"
    ELSE IF c = "show" /\ r.kind = "not found" /\ autoCreate THEN "create"
    ELSE IF r.kind # "ok" THEN Failure(r)
    ELSE CASE c = "user" -> "show"
           [] c = "update" -> "label show"
           [] c = "label show" -> IF r.view.labels THEN "host" ELSE "transient"
           [] c = "port show" -> IF r.view.port = "auto" THEN AfterLabels(r.view) ELSE "permanent"
           [] OTHER -> AfterPort(r.view)

\* command() returns the output of a command that has exited.
Collect(s) ==
    /\ phase[s] = "attempt" /\ held[s] # Nobody /\ step[s] \in Commands
    /\ Exited(held[s])
    /\ LET next == After(step[s], out[held[s]])
       IN  IF next \in {"permanent", "transient"}
             THEN Fail(s, next = "permanent")
             ELSE /\ step' = [step EXCEPT ![s] = next]
                  /\ Release(s)
                  /\ UNCHANGED <<phase, shown>>
    /\ UNCHANGED <<cancelled, hostLock, serviceVars, faults>>

\* The deadline, or the limit on the output: the command is stopped.
TimeOut(s) ==
    /\ Fault
    /\ phase[s] = "attempt" /\ held[s] # Nobody /\ step[s] \in Commands
    /\ Goto(s, "abort")
    /\ StopOwned(held[s])
    /\ UNCHANGED <<step, held, cancelled, hostLock, shown, serviceVars>>

\* shutdown_logged is over, and the attempt with it.
Aborted(s) ==
    /\ phase[s] = "abort"
    /\ Exited(held[s])
    /\ Fail(s, FALSE)
    /\ UNCHANGED <<cancelled, hostLock, serviceVars, faults>>

\* The host process says that it is ready.
HostReady(s) ==
    /\ phase[s] = "attempt" /\ held[s] # Nobody /\ step[s] = "host"
    /\ out[held[s]].kind = "ready"
    /\ Goto(s, "ready") /\ Status(s, "connected")
    /\ UNCHANGED <<guardianVars, step, held, cancelled, hostLock, serviceVars, faults>>

\* It exits before.
HostEndsEarly(s) ==
    /\ phase[s] = "attempt" /\ held[s] # Nobody /\ step[s] = "host"
    /\ Exited(held[s]) /\ out[held[s]].kind # "ready"
    /\ Fail(s, FALSE)
    /\ UNCHANGED <<cancelled, hostLock, serviceVars, faults>>

\* The deadline: the host process is dropped and not waited for.
HostTimesOut(s) ==
    /\ Fault
    /\ phase[s] = "attempt" /\ held[s] # Nobody /\ step[s] = "host"
    /\ Fail(s, FALSE)
    /\ UNCHANGED <<cancelled, hostLock, serviceVars>>

-----------------------------------------------------------------------------
(* Hosting, and the end of the task.                                       *)

\* Mutant of HostExits: the exit is noticed only at the shutdown.
HostExitLogged(s) ==
    /\ phase[s] = "ready" /\ cancelled[s]
    /\ Exited(held[s])
    /\ Fail(s, FALSE)
    /\ UNCHANGED <<cancelled, hostLock, serviceVars, faults>>

\* The host process exits: the status says so, and there is nothing left to
\* shut down.
HostExits(s) ==
    /\ phase[s] = "ready"
    /\ Exited(held[s])
    /\ Fail(s, FALSE)
    /\ UNCHANGED <<cancelled, hostLock, serviceVars, faults>>

\* HostHandle.shutdown, or the drop of the handle.
Cancel(s) ==
    /\ Fault
    /\ phase[s] # "off" /\ ~cancelled[s]
    /\ cancelled' = [cancelled EXCEPT ![s] = TRUE]
    /\ UNCHANGED <<guardianVars, phase, step, held, hostLock, shown, serviceVars>>

\* The task is over: its locks are released, so that its status is not
\* shown any more, and its process is dropped.
End(s) ==
    /\ Goto(s, "off") /\ Status(s, "none")
    /\ cancelled' = [cancelled EXCEPT ![s] = FALSE]
    /\ hostLock' = IF hostLock = s THEN Nobody ELSE hostLock
    /\ step' = [step EXCEPT ![s] = "user"]
    /\ Release(s)
    /\ UNCHANGED serviceVars

\* Without a tunnel that is hosted, the cancellation ends the task at once,
\* whatever it waits for.
CancelSeen(s) ==
    /\ cancelled[s]
    /\ phase[s] \in {"skipped", "attempt", "abort", "pause"}
    /\ End(s)
    /\ UNCHANGED faults

\* A hosted tunnel is shut down first.
CancelHosting(s) ==
    /\ cancelled[s]
    /\ phase[s] = "ready"
    /\ Goto(s, "stopping")
    /\ StopOwned(held[s])
    /\ UNCHANGED <<step, held, cancelled, hostLock, shown, serviceVars, faults>>

Stopped(s) ==
    /\ phase[s] = "stopping"
    /\ Exited(held[s])
    /\ End(s)
    /\ UNCHANGED faults

\* shutdown_logged gives up after ten seconds; the process is dropped.
ShutdownTimesOut(s) ==
    /\ phase[s] \in {"abort", "stopping"} /\ ~Exited(held[s])
    /\ \/ /\ phase[s] = "abort" /\ Fail(s, FALSE)
          /\ UNCHANGED <<cancelled, hostLock, serviceVars>>
       \/ phase[s] = "stopping" /\ End(s)
    /\ UNCHANGED faults

\* The server is killed.
Crash(s) ==
    /\ Fault
    /\ phase[s] # "off"
    /\ End(s)

-----------------------------------------------------------------------------
\* The steps of the task that need no fault and no decision from outside.
TaskStep(s) ==
    \/ Retry(s) \/ Collect(s) \/ Aborted(s) \/ HostReady(s)
    \/ HostEndsEarly(s) \/ HostExits(s) \/ CancelHosting(s) \/ Stopped(s)
    \/ \E p \in Procs : Launch(s, p)

Next ==
    \/ \E s \in Servers :
         \/ TaskStep(s) \/ CancelSeen(s)
         \/ Boot(s) \/ Cancel(s) \/ Crash(s)
         \/ LaunchFails(s) \/ TimeOut(s) \/ HostTimesOut(s) \/ ShutdownTimesOut(s)
    \/ \E p \in Procs :
         \/ CliWorks(p) \/ CliFails(p)
         \/ GuardianStep(p) /\ UNCHANGED <<hostVars, serviceVars, faults>>
         \/ Fault /\ StartFails(p) /\ UNCHANGED <<hostVars, serviceVars>>
    \/ Foreign

Spec == Init /\ [][Next]_vars

\* Tasks, guardians and the CLI go on; servers are started, stopped and killed at
\* will, and faults end.
Fairness ==
    /\ \A s \in Servers : WF_vars(TaskStep(s)) /\ WF_vars(CancelSeen(s))
    /\ \A p \in Procs :
         /\ WF_vars(GuardianStep(p) /\ UNCHANGED <<hostVars, serviceVars, faults>>)
         /\ WF_vars(CliWorks(p))

FairSpec == Spec /\ Fairness

-----------------------------------------------------------------------------
TypeOK ==
    /\ GuardianTypeOK
    /\ phase \in [Servers -> Phases]
    /\ step \in [Servers -> Commands \cup {"host"}]
    /\ held \in [Servers -> Procs \cup {Nobody}]
    /\ cancelled \in [Servers -> BOOLEAN]
    /\ hostLock \in Servers \cup {Nobody}
    /\ shown \in [Servers -> {"none", "skipped", "starting", "retrying", "connected"}]
    /\ job \in [Procs -> Commands \cup {"host", NoJob}]
    /\ out \in [Procs -> Outputs]
    /\ service \in Tunnels
    /\ loggedIn \in BOOLEAN /\ autoCreate \in BOOLEAN /\ disturbed \in BOOLEAN
    /\ faults \in 0 .. MaxFaults
    /\ \A s \in Servers : phase[s] \in {"abort", "ready", "stopping"} => held[s] # Nobody

\* At most one host process is owned by a task, although an abandoned one may
\* run until its guardian has noticed ("another sshdt process already hosts
\* this tunnel").
OneOwnedHost ==
    \A p, q \in Procs :
        (\A r \in {p, q} : job[r] = "host" /\ owner[r] = "holds") => p = q

\* When the owner hears of an exit, nothing of the process group runs any more,
\* so that a successor never meets a process that its predecessor left; and the
\* group is killed while its leader is not reaped ("so its ID cannot be reused").
ExitMeansGone ==
    \A p \in Procs :
        /\ Exited(p) => cli[p] # "running" /\ ~kids[p]
        /\ guard[p] = "killing" => cli[p] # "reaped"

\* A tunnel that is connected has the SSH port and the configured labels, unless
\* others changed it since the attempt began ("sshdt adds missing labels to new
\* and existing tunnels before it starts hosting").
HostedIsConfigured ==
    \A s \in Servers : phase[s] = "ready" /\ ~disturbed => Configured(service)

\* A process that lost its owner, by a stop, a dropped task or a crash of the
\* server at any moment, is ended with its descendants.
OrphansDie ==
    \A p \in Procs : owner[p] # "holds" ~> cli[p] # "running" /\ ~kids[p]

\* A task that may create what is missing hosts its tunnel in the end, whatever
\* earlier attempts and others left behind, unless the account is logged out, the
\* port has another protocol, or the server stops.
HostConverges ==
    \A s \in Servers :
        (phase[s] \notin {"off", "skipped"} /\ autoCreate)
          ~> \/ phase[s] \in {"ready", "off"} \/ cancelled[s]
             \/ ~loggedIn \/ service.port = "other"

\* A tunnel whose host process has ended does not stay connected in the status,
\* even if descendants of the process hold its output open.
StatusFollowsProcess ==
    \A s \in Servers :
        (shown[s] = "connected" /\ cli[held[s]] # "running") ~> shown[s] # "connected"
=============================================================================
