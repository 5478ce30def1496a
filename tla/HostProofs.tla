----------------------------- MODULE HostProofs -----------------------------
(***************************************************************************)
(* The tunnel host and its owned processes, for any number of servers,     *)
(* process slots and faults: one host process is owned at a time, an exit  *)
(* that the owner hears of means that the process group is gone, and a     *)
(* connected tunnel is configured.                                         *)
(*                                                                         *)
(* ProcInv is about locks and processes: whoever owns a process has the    *)
(* host lock, and the guardian's phase tells what may still run.           *)
(* ConfigInv is about knowledge: what the output of a command said of the  *)
(* tunnel, and what attempt() concluded from it by coming to a later       *)
(* command, still holds, since commands only add to the tunnel.            *)
(***************************************************************************)
EXTENDS Host, Backoff, TLAPS

\* Every step is small; what the provers may need is time.
USE ZenonT(60)

\* The variables of the processes have their types as far as the proofs need them.
Shape ==
    /\ guard \in [Procs -> GuardPhases]
    /\ cli \in [Procs -> {"none", "running", "zombie", "reaped"}]
    /\ kids \in [Procs -> BOOLEAN]
    /\ owner \in [Procs -> {"holds", "waits", "gone"}]
    /\ job = [p \in Procs |-> job[p]]
    /\ out = [p \in Procs |-> out[p]]

\* The same for the variables of the tasks.
TaskShape ==
    /\ phase \in [Servers -> Phases]
    /\ step \in [Servers -> Commands \cup {"host"}]
    /\ held \in [Servers -> Procs \cup {Nobody}]
    /\ hostLock \in Servers \cup {Nobody}

\* What the phase of the guardian says of its process group.
GroupOf ==
    \A p \in Procs :
        /\ guard[p] = "free" => cli[p] = "none" /\ owner[p] = "gone" /\ out[p] = Silent
        /\ guard[p] = "starting" => cli[p] = "none" /\ out[p] = Silent
        /\ guard[p] \in {"watching", "killing"} => cli[p] \in {"running", "zombie"}
        /\ guard[p] \in {"free", "starting", "reaping", "gone"} => cli[p] # "running" /\ ~kids[p]

\* The phases of a task that has the host lock.
Locked == {"attempt", "abort", "ready", "stopping", "pause"}

\* A task in one of these phases has the lock, only the task with the lock owns a
\* process, and every process with an owner is the one it holds.
Owned ==
    /\ \A s \in Servers :
        /\ phase[s] \in Locked => hostLock = s
        /\ held[s] # Nobody => phase[s] \in Locked \ {"pause"} /\ owner[held[s]] # "gone"
        /\ phase[s] \in {"abort", "ready", "stopping"} => held[s] # Nobody
    /\ \A p \in Procs : owner[p] # "gone" => hostLock \in Servers /\ held[hostLock] = p

ProcInv == Shape /\ TaskShape /\ GroupOf /\ Owned

\* A slot that is vacated is as good as new (the end of an OwnedProcess and of its
\* guardian).
LEMMA VacateStep ==
    ASSUME Shape, GroupOf, NEW p \in Procs, ~kids[p], Vacate(p)
    PROVE  /\ Shape' /\ GroupOf' /\ owner'[p] = "gone"
           /\ \A q \in Procs \ {p} : owner'[q] = owner[q]
  BY DEF Shape, GroupOf, Vacate, GuardPhases

\* Dropping an OwnedProcess takes its owner away and nothing from the others.
LEMMA DropStep ==
    ASSUME Shape, GroupOf, NEW p \in Procs, DropOwned(p)
    PROVE  /\ Shape' /\ GroupOf' /\ owner'[p] = "gone"
           /\ \A q \in Procs \ {p} : owner'[q] = owner[q]
<1>1. CASE guard[p] = "gone" /\ Vacate(p)
  BY <1>1, VacateStep DEF GroupOf
<1>2. CASE guard[p] # "gone"
  BY <1>2, SMTT(60) DEF DropOwned, Shape, GroupOf, GuardPhases
<1> QED
  BY <1>1, <1>2 DEF DropOwned

\* The same for a task that drops the process it may have.
LEMMA ReleaseStep ==
    ASSUME ProcInv, NEW s \in Servers, Release(s)
    PROVE  /\ Shape' /\ GroupOf' /\ held' = [held EXCEPT ![s] = Nobody]
           /\ \A q \in Procs : owner'[q] = IF q = held[s] THEN "gone" ELSE owner[q]
<1>1. CASE held[s] = Nobody
  <2>1. UNCHANGED guardianVars
    BY <1>1 DEF Release
  <2> QED
    BY <1>1, <2>1, HostAssumption DEF guardianVars, ProcInv, Shape, GroupOf, Release
<1>2. CASE held[s] # Nobody
  <2>1. held[s] \in Procs /\ DropOwned(held[s])
    BY <1>2 DEF Release, ProcInv, TaskShape
  <2> QED
    BY <1>2, <2>1, DropStep DEF ProcInv, Release
<1> QED
  BY <1>1, <1>2

\* A guardian that exits leaves nothing of its group behind.
LEMMA LeaveStep ==
    ASSUME Shape, GroupOf, NEW p \in Procs, guard[p] \in {"starting", "reaping"}, Leave(p)
    PROVE  Shape' /\ GroupOf' /\ \A q \in Procs : owner'[q] = owner[q]
<1>1. ~kids[p]
  BY DEF GroupOf
<1>2. CASE owner[p] = "gone" /\ Vacate(p)
  BY <1>1, <1>2, VacateStep
<1>3. CASE owner[p] # "gone"
  BY <1>1, <1>3, SMTT(60) DEF Leave, Shape, GroupOf, GuardPhases
<1> QED
  BY <1>2, <1>3 DEF Leave

\* The steps of a guardian (guardian, run_unix_child) keep what its phase says.
LEMMA GuardianKeeps ==
    ASSUME Shape, GroupOf, NEW p \in Procs, GuardianStep(p) \/ StartFails(p)
    PROVE  Shape' /\ GroupOf' /\ \A q \in Procs : owner'[q] = owner[q]
<1>1. CASE QuitAtOnce(p) \/ StartFails(p) \/ Reap(p)
  BY <1>1, LeaveStep DEF QuitAtOnce, StartFails, Reap
<1>2. CASE StartCli(p)
  BY <1>2 DEF StartCli, Shape, GroupOf, GuardPhases
<1>3. CASE OwnerLost(p) \/ ExitSeen(p)
  BY <1>3, SMTT(60) DEF OwnerLost, ExitSeen, Shape, GroupOf, GuardPhases
<1>4. CASE KillGroup(p)
  BY <1>4, SMTT(60) DEF KillGroup, Shape, GroupOf, GuardPhases
<1> QED
  BY <1>1, <1>2, <1>3, <1>4 DEF GuardianStep

\* So do those of the CLI.
LEMMA CliKeeps ==
    ASSUME Shape, GroupOf, NEW p \in Procs, CliWorks(p) \/ CliFails(p)
    PROVE  Shape' /\ GroupOf' /\ UNCHANGED owner
<1>1. guard[p] \in {"watching", "killing"}
  BY DEF CliWorks, CliFails, GroupOf, Shape, GuardPhases
<1>2. /\ cli' \in [Procs -> {"none", "running", "zombie", "reaped"}]
      /\ cli'[p] \in {"running", "zombie"} /\ out' = [q \in Procs |-> out'[q]]
      /\ \A q \in Procs \ {p} : cli'[q] = cli[q] /\ out'[q] = out[q]
      /\ UNCHANGED <<guard, kids, owner, job>>
  BY DEF CliWorks, CliFails, Shape
<1> QED
  BY <1>1, <1>2, SMTT(60) DEF Shape, GroupOf

-----------------------------------------------------------------------------
\* attempt() goes on with a command or with hosting, or fails.
LEMMA AfterType ==
    ASSUME NEW c \in Commands, NEW r
    PROVE  After(c, r) \in Commands \cup {"host", "permanent", "transient"}
  BY DEF After, Failure, AfterPort, AfterLabels, Commands

\* A failed attempt keeps the host lock and has no process any more.
LEMMA FailKeeps ==
    ASSUME ProcInv, NEW s \in Servers, NEW b, phase[s] \in Locked,
           Fail(s, b), UNCHANGED hostLock
    PROVE  ProcInv'
<1>1. /\ Shape' /\ GroupOf' /\ held' = [held EXCEPT ![s] = Nobody]
      /\ \A q \in Procs : owner'[q] = IF q = held[s] THEN "gone" ELSE owner[q]
  BY ReleaseStep DEF Fail
<1>2. TaskShape'
  BY <1>1 DEF ProcInv, TaskShape, Fail, Goto, Phases, Commands
<1>3. Owned'
  BY <1>1, <1>2, HostAssumption, SMTT(60) DEF ProcInv, Owned, TaskShape, Fail, Goto, Locked
<1> QED
  BY <1>1, <1>2, <1>3 DEF ProcInv

\* The end of a task, and a crash of its server, free its lock and its process.
LEMMA EndKeeps ==
    ASSUME ProcInv, NEW s \in Servers, End(s)
    PROVE  ProcInv'
<1>1. /\ Shape' /\ GroupOf' /\ held' = [held EXCEPT ![s] = Nobody]
      /\ \A q \in Procs : owner'[q] = IF q = held[s] THEN "gone" ELSE owner[q]
  BY ReleaseStep DEF End
<1>2. TaskShape'
  BY <1>1 DEF ProcInv, TaskShape, End, Goto, Phases, Commands
<1>3. Owned'
  BY <1>1, <1>2, HostAssumption, SMTT(60) DEF ProcInv, Owned, TaskShape, End, Goto, Locked
<1> QED
  BY <1>1, <1>2, <1>3 DEF ProcInv

\* command() that returns drops its process.
LEMMA CollectKeeps ==
    ASSUME ProcInv, NEW s \in Servers, Collect(s)
    PROVE  ProcInv'
<1> DEFINE next == After(step[s], out[held[s]])
<1>1. CASE next \in {"permanent", "transient"}
  <2>1. Fail(s, next = "permanent") /\ UNCHANGED hostLock /\ phase[s] \in Locked
    BY <1>1 DEF Collect, Locked
  <2> QED
    BY <2>1, FailKeeps
<1>2. CASE next \notin {"permanent", "transient"}
  <2>1. /\ step[s] \in Commands /\ phase[s] = "attempt" /\ Release(s)
        /\ step' = [step EXCEPT ![s] = next] /\ UNCHANGED <<phase, shown, hostLock>>
    BY <1>2 DEF Collect
  <2>2. next \in Commands \cup {"host"}
    BY <1>2, <2>1, AfterType
  <2>3. /\ Shape' /\ GroupOf' /\ held' = [held EXCEPT ![s] = Nobody]
        /\ \A q \in Procs : owner'[q] = IF q = held[s] THEN "gone" ELSE owner[q]
    BY <2>1, ReleaseStep
  <2> HIDE DEF next
  <2>4. TaskShape'
    BY <2>1, <2>2, <2>3 DEF ProcInv, TaskShape
  <2>5. Owned'
    BY <2>1, <2>3, <2>4, HostAssumption, SMTT(60) DEF ProcInv, Owned, TaskShape, Locked
  <2> QED
    BY <2>3, <2>4, <2>5 DEF ProcInv
<1> QED
  BY <1>1, <1>2

\* spawn_owned by the task with the lock, which has no other process.
LEMMA LaunchKeeps ==
    ASSUME ProcInv, NEW s \in Servers, NEW p \in Procs, Launch(s, p)
    PROVE  ProcInv'
<1>1. Shape' /\ TaskShape'
  BY DEF ProcInv, Shape, TaskShape, Launch, SpawnOwned, GuardPhases
<1>2. GroupOf'
  BY SMTT(60) DEF ProcInv, Shape, GroupOf, Launch, SpawnOwned
<1>3. /\ hostLock = s /\ hostLock' = s /\ phase' = phase
      /\ held' = [held EXCEPT ![s] = p] /\ held \in [Servers -> Procs \cup {Nobody}]
      /\ owner' = [owner EXCEPT ![p] = "holds"]
      /\ owner \in [Procs -> {"holds", "waits", "gone"}]
  BY DEF ProcInv, Shape, TaskShape, Owned, Locked, Launch, SpawnOwned
<1>4. held[s] = Nobody /\ phase[s] = "attempt" /\ \A q \in Procs : owner[q] = "gone"
  BY <1>3, HostAssumption DEF ProcInv, Owned, Launch
<1>5. \A t \in Servers \ {s} : held[t] = Nobody
  BY <1>3, HostAssumption DEF ProcInv, Owned, Locked
<1>6. Owned'
  BY <1>3, <1>4, <1>5, HostAssumption DEF ProcInv, Owned, Locked
<1> QED
  BY <1>1, <1>2, <1>6 DEF ProcInv

\* stop() keeps the process until it has exited.
LEMMA StopKeeps ==
    ASSUME ProcInv, NEW s \in Servers, TimeOut(s) \/ CancelHosting(s)
    PROVE  ProcInv'
<1>1. /\ held[s] \in Procs /\ owner[held[s]] # "gone"
      /\ phase[s] \in Locked /\ StopOwned(held[s])
  BY DEF ProcInv, TaskShape, Owned, TimeOut, CancelHosting, Locked
<1>2. Shape' /\ GroupOf'
  BY <1>1 DEF ProcInv, Shape, GroupOf, StopOwned
<1>3. TaskShape'
  BY DEF ProcInv, TaskShape, TimeOut, CancelHosting, Goto, Phases
<1>4. Owned'
  BY <1>1, <1>3, HostAssumption, SMTT(60)
     DEF ProcInv, Shape, TaskShape, Owned, Locked, TimeOut, CancelHosting, Goto, StopOwned
<1> QED
  BY <1>2, <1>3, <1>4 DEF ProcInv

\* The steps that start, stop or own no process.
LEMMA WalkKeeps ==
    ASSUME ProcInv, NEW s \in Servers,
           Retry(s) \/ HostReady(s) \/ Boot(s) \/ Cancel(s)
    PROVE  ProcInv'
<1>1. UNCHANGED guardianVars /\ UNCHANGED held
  BY DEF Retry, HostReady, Boot, Cancel
<1>2. Shape' /\ GroupOf'
  BY <1>1 DEF ProcInv, Shape, GroupOf, guardianVars
<1>3. TaskShape'
  BY DEF ProcInv, TaskShape, Retry, HostReady, Boot, BeginAttempt, Cancel, Goto, Phases
<1>4. Owned'
  <2>1. CASE Retry(s) \/ HostReady(s)
    BY <1>1, <2>1, HostAssumption, SMTT(60)
       DEF ProcInv, TaskShape, Owned, Locked, Retry, HostReady, BeginAttempt, Goto, guardianVars
  <2>2. CASE Boot(s)
    BY <1>1, <2>2, HostAssumption, SMTT(60)
       DEF ProcInv, TaskShape, Owned, Locked, Boot, BeginAttempt, Goto, guardianVars
  <2>3. CASE Cancel(s)
    BY <1>1, <2>3 DEF ProcInv, TaskShape, Owned, Cancel, guardianVars
  <2> QED
    BY <2>1, <2>2, <2>3
<1> QED
  BY <1>2, <1>3, <1>4 DEF ProcInv

\* Every step keeps the invariant of locks and processes.
LEMMA ProcKept ==
    ASSUME ProcInv, [Next]_vars
    PROVE  ProcInv'
<1>1. ASSUME NEW s \in Servers,
             \/ Aborted(s) \/ HostEndsEarly(s) \/ HostExits(s) \/ LaunchFails(s)
             \/ HostTimesOut(s) \/ (ShutdownTimesOut(s) /\ phase[s] = "abort")
      PROVE  ProcInv'
  <2>1. Fail(s, FALSE) /\ UNCHANGED hostLock /\ phase[s] \in Locked
    BY <1>1 DEF Aborted, HostEndsEarly, HostExits, LaunchFails, HostTimesOut,
                ShutdownTimesOut, Locked
  <2> QED
    BY <2>1, FailKeeps
<1>2. ASSUME NEW s \in Servers,
             \/ CancelSeen(s) \/ Stopped(s) \/ Crash(s)
             \/ (ShutdownTimesOut(s) /\ phase[s] # "abort")
      PROVE  ProcInv'
  BY <1>2, EndKeeps DEF CancelSeen, Stopped, Crash, ShutdownTimesOut
<1>3. ASSUME NEW s \in Servers, TaskStep(s)
      PROVE  ProcInv'
  BY <1>1, <1>2, <1>3, CollectKeeps, LaunchKeeps, StopKeeps, WalkKeeps DEF TaskStep
<1>4. ASSUME NEW p \in Procs, CliWorks(p) \/ CliFails(p)
      PROVE  ProcInv'
  <2>1. Shape' /\ GroupOf' /\ UNCHANGED owner
    BY <1>4, CliKeeps DEF ProcInv
  <2>2. UNCHANGED hostVars
    BY <1>4 DEF CliWorks, CliFails, hostVars
  <2> QED
    BY <2>1, <2>2 DEF ProcInv, TaskShape, Owned, hostVars
<1>5. ASSUME NEW p \in Procs, GuardianStep(p) \/ StartFails(p), UNCHANGED hostVars
      PROVE  ProcInv'
  <2>1. Shape' /\ GroupOf' /\ \A q \in Procs : owner'[q] = owner[q]
    BY <1>5, GuardianKeeps DEF ProcInv
  <2>2. TaskShape'
    BY <1>5 DEF ProcInv, TaskShape, hostVars
  <2>3. Owned'
    BY <1>5, <2>1, HostAssumption, SMTT(60) DEF ProcInv, TaskShape, Owned, hostVars
  <2> QED
    BY <2>1, <2>2, <2>3 DEF ProcInv
<1>6. CASE Foreign \/ UNCHANGED vars
  <2>1. UNCHANGED guardianVars /\ UNCHANGED hostVars
    BY <1>6 DEF Foreign, vars
  <2> QED
    BY <2>1, SMTT(60) DEF ProcInv, Shape, TaskShape, GroupOf, Owned, guardianVars, hostVars
<1> QED
  BY <1>1, <1>2, <1>3, <1>4, <1>5, <1>6, StopKeeps, WalkKeeps DEF Next

-----------------------------------------------------------------------------
\* What the command that s runs has written is still true of the tunnel: what it
\* saw is there, and an update that succeeded has set the labels.
Heard(s) ==
    out[held[s]].kind = "ok" =>
        /\ step[s] \in {"show", "reshow", "port show", "label show"} =>
             /\ service.exists
             /\ out[held[s]].view.port = "auto" => service.port = "auto"
             /\ out[held[s]].view.labels => service.labels
        /\ step[s] = "update" => service.exists /\ service.labels

\* What s has found out, by the command it has come to, is true of the tunnel.
Known(s) ==
    /\ phase[s] = "attempt" /\ step[s] \in {"update", "label show"} =>
         service.exists /\ service.port = "auto"
    /\ phase[s] \in {"attempt", "ready"} /\ step[s] = "host" => Configured(service)
    /\ phase[s] = "attempt" /\ held[s] # Nobody => Heard(s)

\* The process of s runs the command that s has come to, a tunnel is ready only
\* while it is hosted, and an attempt begins with the first command.
Placed(s) ==
    /\ phase[s] = "attempt" /\ held[s] # Nobody => job[held[s]] = step[s]
    /\ phase[s] = "ready" => step[s] = "host"
    /\ phase[s] \in {"off", "skipped", "pause"} => step[s] = "user"

\* Everybody knows the tunnel, as long as nobody else has changed it.
ConfigInv ==
    /\ service \in Tunnels
    /\ \A s \in Servers : Placed(s) /\ (~disturbed => Known(s))

\* No command takes anything from a tunnel that exists.
LEMMA EffectGrows ==
    ASSUME service \in Tunnels, NEW j, service' = Effect(j)
    PROVE  /\ service' \in Tunnels
           /\ service.exists => service'.exists
           /\ service.exists /\ service.port = "auto" => service'.port = "auto"
           /\ service.exists /\ service.labels => service'.labels
  BY DEF Effect, Tunnels, NewTunnel, NoTunnel

\* The fields of the CLI's outputs.
LEMMA SaidKind ==
    /\ \A k : Said(k).kind = k
    /\ Silent.kind = "silent"
  BY DEF Said, Silent

\* The details that a successful command shows are those of the tunnel, and after
\* a successful update the labels are set.
LEMMA AnswerTrue ==
    ASSUME service \in Tunnels, NEW j, service' = Effect(j), Answer(j).kind = "ok"
    PROVE  /\ j \in {"show", "reshow", "port show", "label show"} =>
                service' = service /\ service.exists /\ Answer(j).view = service
           /\ j = "update" => service'.exists /\ service'.labels
<1>1. ASSUME j \in {"show", "reshow", "port show", "label show"}
      PROVE  service' = service /\ service.exists /\ Answer(j).view = service
  <2>1. service' = service
    BY <1>1 DEF Effect
  <2>2. \/ Answer(j) = Said("login") \/ Answer(j) = Said("not found")
        \/ service.exists /\ Answer(j) = [kind |-> "ok", view |-> service]
    BY <1>1 DEF Answer
  <2>3. Said("login").kind # "ok" /\ Said("not found").kind # "ok"
    BY SaidKind
  <2>4. service.exists /\ Answer(j) = [kind |-> "ok", view |-> service]
    BY <2>2, <2>3
  <2> QED
    BY <2>1, <2>4, SMTT(60)
<1>2. ASSUME j = "update"
      PROVE  service'.exists /\ service'.labels
  <2>1. Answer(j) = Said("login") \/ Answer(j) = Said("not found") \/ (loggedIn /\ service.exists)
    BY <1>2 DEF Answer
  <2>2. loggedIn /\ service.exists
    BY <2>1, SaidKind
  <2> QED
    BY <1>2, <2>2 DEF Effect, Tunnels
<1> QED
  BY <1>1, <1>2

\* A step of the CLI, of the process of a task or of one that was abandoned,
\* makes nothing false that any task knows.
LEMMA CliTells ==
    ASSUME ProcInv, ConfigInv, NEW p \in Procs, CliWorks(p) \/ CliFails(p)
    PROVE  ConfigInv'
<1>1. /\ UNCHANGED <<job, phase, step, held, disturbed>>
      /\ \A q \in Procs \ {p} : out'[q] = out[q]
      /\ held \in [Servers -> Procs \cup {Nobody}] /\ out = [q \in Procs |-> out[q]]
  BY DEF CliWorks, CliFails, hostVars, ProcInv, Shape, TaskShape
<1>2. /\ service' \in Tunnels
      /\ service.exists => service'.exists
      /\ service.exists /\ service.port = "auto" => service'.port = "auto"
      /\ service.exists /\ service.labels => service'.labels
  <2>1. CASE service' = service
    BY <2>1 DEF ConfigInv
  <2>2. CASE service' = Effect(job[p])
    BY <2>2, EffectGrows DEF ConfigInv
  <2> QED
    BY <2>1, <2>2 DEF CliWorks, CliFails
<1>3. ASSUME NEW s \in Servers
      PROVE  Placed(s)'
  BY <1>1 DEF ConfigInv, Placed
<1>4. ASSUME NEW s \in Servers, ~disturbed, phase[s] = "attempt", held[s] # Nobody
      PROVE  Heard(s)'
  <2>1. Heard(s) /\ held[s] \in Procs /\ job[held[s]] = step[s] /\ held'[s] = held[s]
    BY <1>1, <1>4, ZenonT(60) DEF ConfigInv, Known, Placed
  <2>2. CASE out'[held[s]] = out[held[s]]
    BY <1>1, <1>2, <2>1, <2>2 DEF Heard
  <2>3. CASE held[s] = p /\ CliWorks(p)
    <3>1. out'[p] = Answer(job[p]) /\ service' = Effect(job[p]) /\ service \in Tunnels
      BY <1>1, <2>3 DEF CliWorks, ConfigInv
    <3>2. Answer(job[p]).kind = "ok" =>
            /\ job[p] \in {"show", "reshow", "port show", "label show"} =>
                service' = service /\ service.exists /\ Answer(job[p]).view = service
            /\ job[p] = "update" => service'.exists /\ service'.labels
      BY <3>1, AnswerTrue
    <3> QED
      BY <1>1, <2>1, <2>3, <3>1, <3>2, ZenonT(60) DEF Heard
  <2>4. CASE held[s] = p /\ CliFails(p)
    <3>1. out'[p] = out[p] \/ out'[p] = Said("error")
      BY <1>1, <2>4 DEF CliFails
    <3>2. CASE out'[p] = Said("error")
      BY <1>1, <2>4, <3>2, SaidKind, ZenonT(60) DEF Heard
    <3> QED
      BY <2>2, <2>4, <3>1, <3>2
  <2> QED
    BY <1>1, <2>1, <2>2, <2>3, <2>4
<1>5. ASSUME NEW s \in Servers, ~disturbed
      PROVE  Known(s)'
  <2>1. Known(s)
    BY <1>5 DEF ConfigInv
  <2> QED
    BY <1>1, <1>2, <1>4, <1>5, <2>1 DEF Known, Configured
<1> QED
  BY <1>1, <1>2, <1>3, <1>5 DEF ConfigInv

\* Guardians do not touch the output of a process that has an owner.
LEMMA GuardianTells ==
    ASSUME ProcInv, ConfigInv, NEW p \in Procs, GuardianStep(p) \/ StartFails(p),
           UNCHANGED <<hostVars, serviceVars>>
    PROVE  ConfigInv'
<1>1. \A q \in Procs : owner[q] # "gone" => out'[q] = out[q] /\ job'[q] = job[q]
  BY DEF GuardianStep, StartFails, QuitAtOnce, StartCli, OwnerLost, ExitSeen, KillGroup, Reap,
         Leave, Vacate, ProcInv, Shape
<1>2. ASSUME NEW s \in Servers, held[s] # Nobody
      PROVE  out'[held[s]] = out[held[s]] /\ job'[held[s]] = job[held[s]]
  BY <1>1, <1>2, SMTT(60) DEF ProcInv, TaskShape, Owned
<1> QED
  BY <1>2, ZenonT(60) DEF ConfigInv, Placed, Known, Heard, hostVars, serviceVars

\* Dropping a process changes nothing for the other tasks.
LEMMA OthersKept ==
    ASSUME ProcInv, NEW s \in Servers, Release(s), NEW t \in Servers \ {s},
           Placed(t), ~disturbed => Known(t),
           phase'[t] = phase[t], step'[t] = step[t], UNCHANGED <<service, disturbed>>
    PROVE  Placed(t)' /\ (~disturbed' => Known(t)')
<1>1. held'[t] = held[t]
  BY DEF Release, ProcInv, TaskShape
<1>2. held[t] # Nobody => UNCHANGED guardianVars
  BY DEF Release, ProcInv, Owned, Locked
<1> QED
  BY <1>1, <1>2 DEF Placed, Known, Heard, guardianVars

\* After a failed attempt, or the end of the task, nothing is claimed.
LEMMA FailTells ==
    ASSUME ProcInv, ConfigInv, NEW s \in Servers,
           Release(s), UNCHANGED <<service, disturbed>>,
           \E ph \in {"pause", "off"} : Goto(s, ph),
           step' = [step EXCEPT ![s] = "user"]
    PROVE  ConfigInv'
<1>1. Placed(s)' /\ Known(s)'
  BY DEF Goto, ProcInv, TaskShape, Placed, Known
<1>2. ASSUME NEW t \in Servers \ {s}
      PROVE  Placed(t)' /\ (~disturbed' => Known(t)')
  <2>1. phase'[t] = phase[t] /\ step'[t] = step[t]
    BY DEF Goto, ProcInv, TaskShape
  <2> QED
    BY <2>1, OthersKept DEF ConfigInv
<1> QED
  BY <1>1, <1>2 DEF ConfigInv

\* The conclusions that attempt() draws from the output of a command are right.
LEMMA CollectTells ==
    ASSUME ProcInv, ConfigInv, NEW s \in Servers, Collect(s)
    PROVE  ConfigInv'
<1> DEFINE next == After(step[s], out[held[s]])
<1>1. CASE next \in {"permanent", "transient"}
  <2>1. Fail(s, next = "permanent") /\ UNCHANGED <<service, disturbed>>
    BY <1>1 DEF Collect, serviceVars
  <2> QED
    BY <2>1, FailTells DEF Fail
<1>2. CASE next \notin {"permanent", "transient"}
  <2>1. /\ step[s] \in Commands /\ phase[s] = "attempt" /\ held[s] # Nobody /\ Release(s)
        /\ step' = [step EXCEPT ![s] = next]
        /\ UNCHANGED <<phase, service, disturbed>>
    BY <1>2 DEF Collect, serviceVars
  <2>2. ~disturbed =>
          /\ next \in {"update", "label show"} => service.exists /\ service.port = "auto"
          /\ next = "host" => Configured(service)
    <3>1. SUFFICES ASSUME ~disturbed
                   PROVE  /\ next \in {"update", "label show"} =>
                                service.exists /\ service.port = "auto"
                          /\ next = "host" => Configured(service)
      OBVIOUS
    <3>2. Heard(s) /\ Known(s)
      BY <2>1, <3>1 DEF ConfigInv, Known
    <3>3. CASE step[s] \in {"create", "port create", "user"} \/ out[held[s]].kind # "ok"
      BY <2>1, <3>3 DEF After, Failure, Commands
    <3>4. CASE step[s] \in {"show", "reshow"} /\ out[held[s]].kind = "ok"
      BY <2>1, <3>2, <3>4 DEF Heard, After, AfterPort, AfterLabels, Configured
    <3>5. CASE step[s] = "port show" /\ out[held[s]].kind = "ok"
      BY <2>1, <3>2, <3>5 DEF Heard, After, AfterLabels, Configured
    <3>6. CASE step[s] \in {"update", "label show"} /\ out[held[s]].kind = "ok"
      BY <2>1, <3>2, <3>6 DEF Heard, Known, After, Configured
    <3> QED
      BY <2>1, <3>3, <3>4, <3>5, <3>6 DEF Commands
  <2> HIDE DEF next
  <2>3. step'[s] = next /\ phase'[s] = "attempt" /\ held'[s] = Nobody
    BY <2>1 DEF ProcInv, TaskShape, Release
  <2>4. Placed(s)' /\ (~disturbed' => Known(s)')
    BY <2>1, <2>2, <2>3 DEF Placed, Known
  <2>5. ASSUME NEW t \in Servers \ {s}
        PROVE  Placed(t)' /\ (~disturbed' => Known(t)')
    <3>1. phase'[t] = phase[t] /\ step'[t] = step[t]
      BY <2>1 DEF ProcInv, TaskShape
    <3> QED
      BY <2>1, <3>1, OthersKept DEF ConfigInv
  <2> QED
    BY <2>1, <2>4, <2>5 DEF ConfigInv
<1> QED
  BY <1>1, <1>2

\* A process that was just started has said nothing yet.
LEMMA LaunchTells ==
    ASSUME ProcInv, ConfigInv, NEW s \in Servers, NEW p \in Procs, Launch(s, p)
    PROVE  ConfigInv'
<1>1. /\ UNCHANGED <<phase, step, out, service, disturbed>>
      /\ held'[s] = p /\ job'[p] = step[s] /\ out[p] = Silent
      /\ \A t \in Servers \ {s} : held'[t] = held[t]
  BY DEF Launch, SpawnOwned, serviceVars, ProcInv, Shape, TaskShape, GroupOf
<1>2. \A t \in Servers \ {s} : phase[t] \notin Locked
  BY DEF Launch, ProcInv, Owned, Locked
<1>3. Placed(s)' /\ (~disturbed' => Known(s)')
  BY <1>1, SaidKind, ZenonT(60) DEF Launch, ConfigInv, Placed, Known, Heard
<1>4. ASSUME NEW t \in Servers \ {s}
      PROVE  Placed(t)' /\ (~disturbed' => Known(t)')
  BY <1>1, <1>2 DEF ConfigInv, Placed, Known, Locked
<1> QED
  BY <1>1, <1>3, <1>4 DEF ConfigInv

\* The steps that leave processes and the tunnel alone.
LEMMA WalkTells ==
    ASSUME ProcInv, ConfigInv, NEW s \in Servers,
           \/ Retry(s) \/ HostReady(s) \/ Boot(s) \/ Cancel(s)
           \/ TimeOut(s) \/ CancelHosting(s)
    PROVE  ConfigInv'
<1>1. UNCHANGED <<job, out, step, held, service>>
  BY DEF Retry, HostReady, Boot, BeginAttempt, Cancel, TimeOut, CancelHosting, StopOwned,
         guardianVars, serviceVars
<1>2. CASE Retry(s) \/ (Boot(s) /\ phase'[s] = "attempt")
  <2>1. /\ phase' = [phase EXCEPT ![s] = "attempt"] /\ held[s] = Nobody /\ step[s] = "user"
        /\ \A t \in Servers \ {s} : phase[t] \notin Locked
    <3>1. /\ phase' = [phase EXCEPT ![s] = "attempt"]
          /\ phase[s] = "pause" \/ (phase[s] = "off" /\ hostLock = Nobody)
      BY <1>2 DEF Retry, Boot, BeginAttempt, Goto, ProcInv, TaskShape
    <3>2. held[s] = Nobody
      BY <3>1 DEF ProcInv, Owned, Locked
    <3>3. step[s] = "user"
      BY <3>1 DEF ConfigInv, Placed
    <3>4. hostLock \in {s, Nobody}
      BY <3>1 DEF ProcInv, Owned, Locked
    <3>5. \A t \in Servers \ {s} : phase[t] \notin Locked
      BY <3>4, HostAssumption DEF ProcInv, Owned
    <3> QED
      BY <3>1, <3>2, <3>3, <3>5
  <2> QED
    BY <1>1, <2>1, ZenonT(60) DEF ConfigInv, Placed, Known, ProcInv, TaskShape, Locked
<1>3. CASE Boot(s) /\ phase'[s] # "attempt"
  <2>1. phase' = [phase EXCEPT ![s] = "skipped"] /\ phase[s] = "off" /\ UNCHANGED disturbed
    BY <1>3 DEF Boot, BeginAttempt, Goto, ProcInv, TaskShape, serviceVars
  <2> QED
    BY <1>1, <2>1, ZenonT(60) DEF ConfigInv, Placed, Known, Heard, ProcInv, TaskShape
<1>4. CASE HostReady(s)
  <2>1. phase' = [phase EXCEPT ![s] = "ready"] /\ phase[s] = "attempt" /\ step[s] = "host"
        /\ UNCHANGED disturbed
    BY <1>4 DEF HostReady, Goto, serviceVars
  <2> QED
    BY <1>1, <2>1, ZenonT(60) DEF ConfigInv, Placed, Known, Heard, ProcInv, TaskShape
<1>5. CASE Cancel(s)
  <2>1. UNCHANGED <<phase, disturbed>>
    BY <1>5 DEF Cancel, serviceVars
  <2>2. ASSUME NEW t \in Servers
        PROVE  Placed(t)' <=> Placed(t)
    BY <1>1, <2>1 DEF Placed
  <2>3. ASSUME NEW t \in Servers
        PROVE  Known(t)' <=> Known(t)
    <3>1. Heard(t)' <=> Heard(t)
      BY <1>1 DEF Heard
    <3> QED
      BY <1>1, <2>1, <3>1 DEF Known
  <2> QED
    BY <1>1, <2>1, <2>2, <2>3 DEF ConfigInv
<1>6. CASE TimeOut(s) \/ CancelHosting(s)
  <2>1. PICK ph \in {"abort", "stopping"} : phase' = [phase EXCEPT ![s] = ph]
    BY <1>6 DEF TimeOut, CancelHosting, Goto
  <2>2. UNCHANGED disturbed
    BY <1>6 DEF TimeOut, CancelHosting, serviceVars
  <2> QED
    BY <1>1, <2>1, <2>2, ZenonT(60) DEF ConfigInv, Placed, Known, Heard, ProcInv, TaskShape
<1> QED
  BY <1>2, <1>3, <1>4, <1>5, <1>6

-----------------------------------------------------------------------------
\* The inductive invariant.
IInv == ProcInv /\ ConfigInv

\* Every step keeps what the tasks know.
LEMMA ConfigKept ==
    ASSUME IInv, [Next]_vars
    PROVE  ConfigInv'
<1> USE DEF IInv
<1>1. ASSUME NEW s \in Servers,
             \/ Aborted(s) \/ HostEndsEarly(s) \/ HostExits(s) \/ LaunchFails(s)
             \/ HostTimesOut(s) \/ (ShutdownTimesOut(s) /\ phase[s] = "abort")
      PROVE  ConfigInv'
  <2>1. Fail(s, FALSE) /\ UNCHANGED <<service, disturbed>>
    BY <1>1 DEF Aborted, HostEndsEarly, HostExits, LaunchFails, HostTimesOut,
                ShutdownTimesOut, serviceVars
  <2> QED
    BY <2>1, FailTells DEF Fail
<1>2. ASSUME NEW s \in Servers,
             \/ CancelSeen(s) \/ Stopped(s) \/ Crash(s)
             \/ (ShutdownTimesOut(s) /\ phase[s] # "abort")
      PROVE  ConfigInv'
  <2>1. End(s) /\ UNCHANGED <<service, disturbed>>
    BY <1>2 DEF CancelSeen, Stopped, Crash, ShutdownTimesOut, End, serviceVars
  <2> QED
    BY <2>1, FailTells DEF End
<1>3. ASSUME NEW s \in Servers, TaskStep(s)
      PROVE  ConfigInv'
  BY <1>1, <1>2, <1>3, CollectTells, LaunchTells, WalkTells DEF TaskStep
<1>4. ASSUME NEW p \in Procs, CliWorks(p) \/ CliFails(p)
      PROVE  ConfigInv'
  BY <1>4, CliTells
<1>5. ASSUME NEW p \in Procs, GuardianStep(p) \/ StartFails(p),
             UNCHANGED <<hostVars, serviceVars>>
      PROVE  ConfigInv'
  BY <1>5, GuardianTells
<1>6. CASE Foreign
  <2>1. service' \in Tunnels /\ disturbed' /\ UNCHANGED <<job, phase, step, held>>
    BY <1>6 DEF Foreign, guardianVars, hostVars, ConfigInv
  <2> QED
    BY <2>1 DEF ConfigInv, Placed
<1>7. CASE UNCHANGED vars
  BY <1>7, ZenonT(60) DEF vars, guardianVars, hostVars, serviceVars, ConfigInv, Placed, Known, Heard
<1> QED
  BY <1>1, <1>2, <1>3, <1>4, <1>5, <1>6, <1>7, WalkTells DEF Next

\* The inductive invariant holds always.
THEOREM Invariance == Spec => []IInv
<1>1. Init => IInv
  <2>1. SUFFICES ASSUME Init PROVE IInv
    OBVIOUS
  <2>2. Shape /\ TaskShape /\ GroupOf
    BY <2>1 DEF Init, GuardianInit, Shape, TaskShape, GroupOf, GuardPhases, Phases, Commands
  <2>3. Owned
    BY <2>1 DEF Init, GuardianInit, Owned, Locked
  <2>4. service \in Tunnels
    <3>1. NoTunnel \in Tunnels
      BY DEF Tunnels, NoTunnel
    <3>2. NewTunnel \in Tunnels
      BY <3>1 DEF Tunnels, NewTunnel
    <3>3. [NewTunnel EXCEPT !.port = "auto"] \in Tunnels
      BY <3>2 DEF Tunnels
    <3> QED
      BY <2>1, <3>1, <3>3 DEF Init
  <2>5. \A s \in Servers : Placed(s) /\ Known(s)
    BY <2>1 DEF Init, Placed, Known
  <2> QED
    BY <2>2, <2>3, <2>4, <2>5 DEF IInv, ProcInv, ConfigInv
<1>2. IInv /\ [Next]_vars => IInv'
  BY ProcKept, ConfigKept DEF IInv
<1> QED
  BY <1>1, <1>2, PTL DEF Spec

\* The types of what the processes were started for and what they wrote ...
Records ==
    /\ job \in [Procs -> Commands \cup {"host", NoJob}]
    /\ out \in [Procs -> Outputs]

\* ... and of the flags and statuses of the tasks.
Marks ==
    /\ cancelled \in [Servers -> BOOLEAN]
    /\ shown \in [Servers -> {"none", "skipped", "starting", "retrying", "connected"}]
    /\ loggedIn \in BOOLEAN /\ autoCreate \in BOOLEAN /\ disturbed \in BOOLEAN
    /\ faults \in 0 .. MaxFaults

\* What the CLI writes.
LEMMA AnswerIs ==
    ASSUME service \in Tunnels, NEW j
    PROVE  Answer(j) \in Outputs
<1>1. \A k \in {"silent", "ok", "login", "not found", "error", "ready"} : Said(k) \in Outputs
  BY DEF Said, Outputs
<1>2. [kind |-> "ok", view |-> service] \in Outputs
  BY DEF Outputs
<1> HIDE DEF Said
<1> QED
  BY <1>1, <1>2 DEF Answer

\* A process that is dropped, or whose guardian exits, leaves no record.
LEMMA VacateRecords ==
    ASSUME Records, NEW p, Vacate(p) \/ DropOwned(p) \/ Leave(p)
    PROVE  Records'
<1>1. Silent \in Outputs
  BY DEF Silent, Outputs
<1> QED
  BY <1>1 DEF Records, Vacate, DropOwned, Leave

\* Every step keeps the records: a process is started for the command that comes next.
LEMMA RecordsKept ==
    ASSUME IInv, Records, [Next]_vars
    PROVE  Records'
<1>1. ASSUME NEW s \in Servers, Release(s) PROVE Records'
  BY <1>1, VacateRecords DEF Release, guardianVars, Records
<1>2. ASSUME NEW s \in Servers, NEW p \in Procs, Launch(s, p) PROVE Records'
  <2>1. step[s] \in Commands \cup {"host"}
    BY DEF IInv, ProcInv, TaskShape
  <2> QED
    BY <1>2, <2>1 DEF Launch, SpawnOwned, Records
<1>3. ASSUME NEW p \in Procs, CliWorks(p) \/ CliFails(p) PROVE Records'
  <2>1. Answer(job[p]) \in Outputs /\ Said("error") \in Outputs
    <3>1. Said("error") \in Outputs
      BY DEF Said, Outputs
    <3> QED
      BY <3>1, AnswerIs DEF IInv, ConfigInv
  <2> QED
    BY <1>3, <2>1, SMTT(60) DEF CliWorks, CliFails, Records
<1>4. ASSUME NEW p \in Procs, GuardianStep(p) \/ StartFails(p) PROVE Records'
  <2>1. Leave(p) \/ UNCHANGED <<job, out>>
    BY <1>4 DEF GuardianStep, StartFails, QuitAtOnce, StartCli, OwnerLost, ExitSeen, KillGroup, Reap
  <2> QED
    BY <2>1, VacateRecords DEF Records
<1>5. CASE UNCHANGED <<job, out>>
  BY <1>5 DEF Records
<1>6. ASSUME NEW s \in Servers, TaskStep(s)
      PROVE  Release(s) \/ UNCHANGED <<job, out>> \/ \E p \in Procs : Launch(s, p)
  BY <1>6 DEF TaskStep, Retry, Collect, Aborted, HostReady, HostEndsEarly, HostExits, CancelHosting,
     Stopped, Fail, End, StopOwned, guardianVars
<1>7. ASSUME NEW s \in Servers,
             \/ CancelSeen(s) \/ Boot(s) \/ Cancel(s) \/ Crash(s)
             \/ LaunchFails(s) \/ TimeOut(s) \/ HostTimesOut(s) \/ ShutdownTimesOut(s)
      PROVE  Release(s) \/ UNCHANGED <<job, out>>
  BY <1>7 DEF CancelSeen, Boot, Cancel, Crash, LaunchFails, TimeOut, HostTimesOut,
     ShutdownTimesOut, Fail, End, StopOwned, guardianVars
<1>8. Foreign \/ UNCHANGED vars => UNCHANGED <<job, out>>
  BY DEF Foreign, vars, guardianVars
<1> QED
  BY <1>1, <1>2, <1>3, <1>4, <1>5, <1>6, <1>7, <1>8 DEF Next

\* Every step keeps flags and statuses.
LEMMA MarksKept ==
    ASSUME Marks, [Next]_vars
    PROVE  Marks'
<1> USE DEF Marks, serviceVars, hostVars
<1>1. Fault => faults' \in 0 .. MaxFaults
  BY HostAssumption, SMTT(60) DEF Fault
<1>2. ASSUME NEW s \in Servers, TaskStep(s) PROVE Marks'
  <2>1. CASE Retry(s) \/ HostReady(s)
    BY <2>1 DEF Retry, BeginAttempt, HostReady, Status
  <2>2. CASE Collect(s)
    BY <2>2 DEF Collect, Fail, Status
  <2>3. CASE Aborted(s) \/ HostEndsEarly(s) \/ HostExits(s)
    BY <2>3 DEF Aborted, HostEndsEarly, HostExits, Fail, Status
  <2>4. CASE CancelHosting(s) \/ \E p \in Procs : Launch(s, p)
    BY <2>4 DEF CancelHosting, Launch
  <2>5. CASE Stopped(s)
    BY <2>5 DEF Stopped, End, Status
  <2> QED
    BY <1>2, <2>1, <2>2, <2>3, <2>4, <2>5 DEF TaskStep
<1>3. ASSUME NEW s \in Servers, LaunchFails(s) \/ TimeOut(s) \/ HostTimesOut(s) PROVE Marks'
  BY <1>1, <1>3 DEF LaunchFails, TimeOut, HostTimesOut, Fail, Status
<1>4. ASSUME NEW s \in Servers, CancelSeen(s) \/ Crash(s) PROVE Marks'
  BY <1>1, <1>4 DEF CancelSeen, Crash, End, Status
<1>5. ASSUME NEW s \in Servers, Boot(s) PROVE Marks'
  BY <1>5 DEF Boot, BeginAttempt, Status
<1>6. ASSUME NEW s \in Servers, Cancel(s) PROVE Marks'
  BY <1>1, <1>6 DEF Cancel
<1>7. ASSUME NEW s \in Servers, ShutdownTimesOut(s) PROVE Marks'
  BY <1>7 DEF ShutdownTimesOut, Fail, End, Status
<1>8. ASSUME NEW p \in Procs, CliWorks(p) \/ CliFails(p) PROVE Marks'
  BY <1>1, <1>8 DEF CliWorks, CliFails
<1>9. CASE Foreign
  BY <1>1, <1>9 DEF Foreign
<1>10. CASE UNCHANGED <<hostVars, serviceVars>> /\ (Fault \/ UNCHANGED faults)
  BY <1>1, <1>10
<1>11. CASE UNCHANGED vars
  BY <1>11 DEF vars
<1> QED
  BY <1>2, <1>3, <1>4, <1>5, <1>6, <1>7, <1>8, <1>9, <1>10, <1>11 DEF Next

\* The variables of tasks, guardians, processes and the tunnel keep their types; a task
\* that hosts, or waits for a process to end, has one.
THEOREM TypeCorrect == Spec => []TypeOK
<1>1. Init => Records /\ Marks
  <2>1. Init => Records
    BY SMTT(60) DEF Init, GuardianInit, Records, Outputs, Silent
  <2>2. Init => cancelled \in [Servers -> BOOLEAN]
    BY DEF Init
  <2>3. Init => loggedIn \in BOOLEAN /\ autoCreate \in BOOLEAN /\ disturbed \in BOOLEAN
    BY DEF Init
  <2>4. Init => /\ shown \in [Servers -> {"none", "skipped", "starting", "retrying", "connected"}]
                /\ faults \in 0 .. MaxFaults
    BY HostAssumption, SMTT(60) DEF Init
  <2> QED
    BY <2>1, <2>2, <2>3, <2>4 DEF Marks
<1>2. IInv /\ Records /\ Marks /\ [Next]_vars => Records' /\ Marks'
  BY RecordsKept, MarksKept
<1>3. IInv /\ Records /\ Marks => TypeOK
  BY DEF IInv, ProcInv, ConfigInv, Shape, TaskShape, Owned, Records, Marks, TypeOK, GuardianTypeOK
<1> QED
  BY <1>1, <1>2, <1>3, Invariance, PTL DEF Spec

\* At most one host process is owned by a task of start(), whichever servers are
\* started, stopped and killed: the host lock is taken before the first command and
\* freed only with the process.
THEOREM OwnedOnce == Spec => []OneOwnedHost
<1>1. IInv => OneOwnedHost
  BY DEF IInv, ProcInv, Owned, OneOwnedHost
<1> QED
  BY <1>1, Invariance, PTL

\* When next_event() reports an exit, the guardian has killed the whole process
\* group and reaped its leader; and it never signals a group whose leader was reaped.
THEOREM GroupGone == Spec => []ExitMeansGone
<1>1. IInv => ExitMeansGone
  BY DEF IInv, ProcInv, GroupOf, ExitMeansGone, Exited
<1> QED
  BY <1>1, Invariance, PTL

\* A connected tunnel exists with the SSH port and the labels unless others changed
\* it since the attempt began, although commands of abandoned attempts may take
\* effect late and failed ones may have taken effect.
THEOREM Hosted == Spec => []HostedIsConfigured
<1>1. IInv => HostedIsConfigured
  BY DEF IInv, ConfigInv, Placed, Known, HostedIsConfigured
<1> QED
  BY <1>1, Invariance, PTL

-----------------------------------------------------------------------------
(* The delays of the same loop (module Backoff), for any delays and with no *)
(* bound on time.  RetryInv relates the timers of Retry and NetworkChanges  *)
(* to what has happened: when attempts were started, and which change is    *)
(* pending.                                                                 *)

\* The attempts are in the past and in order; one of two in a row is either
\* early or comes a full delay after the other.
StartsOrdered ==
    /\ lastStart <= now
    /\ lastEarly <= lastStart
    /\ prevStart # NoTime =>
         /\ prevStart <= lastStart
         /\ lastEarly = lastStart \/ lastStart - prevStart >= FirstDelay

\* A timed retry is due no sooner than the first delay after the last attempt.
DeadlineAhead ==
    retryPhase \in {"waiting", "sleeping"} => deadline >= lastStart + FirstDelay

\* next_allowed remembers the last early retry.
IntervalKept ==
    lastEarly # NoTime => nextAllowed = lastEarly + EarlyInterval

\* A change that is pending or unseen is the last one or an older one, and came
\* after begin_wait.
ChangesWatched ==
    /\ event <= now /\ watchedFrom <= now
    /\ unseen \/ pending # NoTime => event >= watchedFrom
    /\ pending # NoTime /\ ~unseen => pending = event

RetryInv ==
    BackoffTypeOK /\ StartsOrdered /\ DeadlineAhead /\ IntervalKept /\ ChangesWatched

\* The delay that failed() returns is between the first and the largest one.
LEMMA FailedDelayBounds ==
    ASSUME BackoffTypeOK
    PROVE  FailedDelay \in FirstDelay .. MaxDelay
  BY BackoffAssumption, SMTT(60) DEF BackoffTypeOK, FailedDelay

\* failed() keeps the type of Retry.
LEMMA FailedType ==
    ASSUME BackoffTypeOK, Failed
    PROVE  delay' \in FirstDelay .. MaxDelay /\ readySince' \in Instants
  BY FailedDelayBounds, BackoffAssumption, SMTT(60)
  DEF BackoffTypeOK, Failed, Smaller, Instants, NoTime

\* begin_wait leaves no unseen change.
LEMMA Forgotten ==
    ASSUME BeginWait
    PROVE  ~unseen' /\ unseen' \in BOOLEAN
  BY DEF BeginWait

-----------------------------------------------------------------------------
\* Every step keeps IInv.
LEMMA RetryStep ==
    ASSUME RetryInv, [BackoffNext]_backoffVars
    PROVE  RetryInv'
<1> USE BackoffAssumption DEF RetryInv, BackoffTypeOK, StartsOrdered, DeadlineAhead,
                             IntervalKept, ChangesWatched, Instants, NoTime, retryVars, networkVars,
                             historyVars
<1>1. CASE UNCHANGED backoffVars
  BY <1>1, SMTT(60) DEF backoffVars
<1>2. ASSUME NEW permanent \in BOOLEAN, AttemptFails(permanent)
      PROVE  RetryInv'
  <2>1. delay' \in FirstDelay .. MaxDelay /\ readySince' \in Instants
    BY <1>2, FailedType DEF AttemptFails
  <2>2. deadline' \in Nat /\ deadline' >= now + FirstDelay
    BY <1>2, FailedDelayBounds, SMTT(60) DEF AttemptFails, Larger
  <2> QED
    BY <1>2, <2>1, <2>2, SMTT(60) DEF AttemptFails
<1>3. CASE BecomesReady
  BY <1>3 DEF BecomesReady
<1>4. CASE ProcessEnds
  <2>1. ~unseen' /\ unseen' \in BOOLEAN
    BY <1>4, Forgotten DEF ProcessEnds
  <2>2. BackoffTypeOK' /\ ChangesWatched'
    BY <1>4, <2>1, SMTT(60) DEF ProcessEnds, BeginWait
  <2> QED
    BY <1>4, <2>2 DEF ProcessEnds, BeginWait
<1>5. CASE Closed
  <2>1. delay' \in FirstDelay .. MaxDelay /\ readySince' \in Instants
    BY <1>5, FailedType DEF Closed
  <2>2. deadline' \in Nat /\ deadline' >= now + FirstDelay
    BY <1>5, FailedDelayBounds, SMTT(60) DEF Closed
  <2> QED
    BY <1>5, <2>1, <2>2, SMTT(60) DEF Closed
<1>6. CASE NetworkChange
  BY <1>6, SMTT(60) DEF NetworkChange
<1>7. CASE TimedRetry
  <2>1. ~unseen' /\ unseen' \in BOOLEAN
    BY <1>7, Forgotten DEF TimedRetry, StartAttempt
  <2>2. BackoffTypeOK' /\ ChangesWatched'
    BY <1>7, <2>1, SMTT(60) DEF TimedRetry, StartAttempt, BeginWait
  <2> QED
    BY <1>7, <2>2, SMTT(60) DEF TimedRetry, StartAttempt, BeginWait
<1>8. CASE SeeChange
  <2>1. unseen /\ ~unseen' /\ unseen' \in BOOLEAN
    BY <1>8 DEF SeeChange
  <2>2. BackoffTypeOK' /\ ChangesWatched'
    BY <1>8, <2>1 DEF SeeChange
  <2> QED
    BY <1>8, <2>2 DEF SeeChange
<1>9. CASE EarlyRetry
  <2>1. ~unseen' /\ unseen' \in BOOLEAN
    BY <1>9, Forgotten DEF EarlyRetry, StartAttempt
  <2>2. BackoffTypeOK' /\ ChangesWatched'
    BY <1>9, <2>1, SMTT(60) DEF EarlyRetry, StartAttempt, BeginWait
  <2> QED
    BY <1>9, <2>2 DEF EarlyRetry, StartAttempt, BeginWait, Larger
<1>10. CASE CancelRetries
  BY <1>10 DEF CancelRetries
<1>11. CASE Tick
  BY <1>11, SMTT(60) DEF Tick
<1> QED
  BY <1>1, <1>2, <1>3, <1>4, <1>5, <1>6, <1>7, <1>8, <1>9, <1>10, <1>11 DEF BackoffNext

\* IInv holds in every reachable state.
THEOREM RetryInvariance == BackoffSpec => []RetryInv
<1>1. BackoffInit => RetryInv
  <2>1. BackoffInit => ~unseen /\ unseen \in BOOLEAN
    BY DEF BackoffInit
  <2> QED
    BY <2>1, BackoffAssumption, SMTT(60)
    DEF BackoffInit, RetryInv, BackoffTypeOK, StartsOrdered, DeadlineAhead, IntervalKept,
        ChangesWatched, Instants, NoTime
<1>2. RetryInv /\ [BackoffNext]_backoffVars => RetryInv'
  BY RetryStep
<1> QED
  BY <1>1, <1>2, PTL DEF BackoffSpec

\* Types are kept; the delay is always between FirstDelay and MaxDelay (failed()).
THEOREM RetryTypes == BackoffSpec => []BackoffTypeOK
<1>1. RetryInv => BackoffTypeOK
  BY DEF RetryInv
<1> QED
  BY <1>1, RetryInvariance, PTL

\* Three attempts in a row take at least the smaller of FirstDelay and
\* EarlyInterval (failed(), wait_until and begin_wait together).
THEOREM NoStorm == BackoffSpec => NoRetryStorm
<1>1. ASSUME RetryInv, [BackoffNext]_backoffVars,
             retryPhase # "attempt", retryPhase' = "attempt", prevStart # NoTime
      PROVE  now - prevStart >= Smaller(FirstDelay, EarlyInterval)
  <2>1. CASE TimedRetry
    BY <1>1, <2>1, BackoffAssumption, SMTT(60)
    DEF TimedRetry, RetryInv, BackoffTypeOK, StartsOrdered, DeadlineAhead, Smaller, Instants
  <2>2. CASE EarlyRetry
    BY <1>1, <2>2, BackoffAssumption, SMTT(60)
    DEF EarlyRetry, RetryInv, BackoffTypeOK, StartsOrdered, IntervalKept, Smaller, Larger,
        Instants, NoTime
  <2>3. TimedRetry \/ EarlyRetry
    BY <1>1 DEF BackoffNext, backoffVars, AttemptFails, BecomesReady, ProcessEnds, Closed,
                NetworkChange, SeeChange, CancelRetries, Tick
  <2> QED
    BY <2>1, <2>2, <2>3
<1>2. RetryInv /\ [BackoffNext]_backoffVars =>
        [retryPhase # "attempt" /\ retryPhase' = "attempt" /\ prevStart # NoTime
           => now - prevStart >= Smaller(FirstDelay, EarlyInterval)]_backoffVars
  BY <1>1
<1> QED
  BY <1>2, RetryInvariance, PTL DEF BackoffSpec, NoRetryStorm

\* Early retries keep their interval and wait for the network to settle
\* (wait_until, next_allowed, SETTLE_TIME).
THEOREM EarlyRetries == BackoffSpec => EarlyRetriesSpaced
<1>1. ASSUME RetryInv, [BackoffNext]_backoffVars, lastEarly' # lastEarly
      PROVE  /\ lastEarly # NoTime => now - lastEarly >= EarlyInterval
             /\ now >= event + SettleTime /\ event >= watchedFrom
  <2>1. EarlyRetry
    BY <1>1 DEF BackoffNext, backoffVars, historyVars, AttemptFails, BecomesReady,
                ProcessEnds, Closed, NetworkChange, TimedRetry, SeeChange, CancelRetries, Tick
  <2> QED
    BY <1>1, <2>1, BackoffAssumption, SMTT(60)
    DEF EarlyRetry, RetryInv, BackoffTypeOK, IntervalKept, ChangesWatched, Larger, Instants,
        NoTime
<1>2. RetryInv /\ [BackoffNext]_backoffVars =>
        [lastEarly' # lastEarly =>
           /\ lastEarly # NoTime => now - lastEarly >= EarlyInterval
           /\ now >= event + SettleTime /\ event >= watchedFrom]_backoffVars
  BY <1>1
<1> QED
  BY <1>2, RetryInvariance, PTL DEF BackoffSpec, EarlyRetriesSpaced

\* The delay shrinks only after StableTime of readiness (failed(), ready()).
THEOREM Reset == BackoffSpec => ResetNeedsStableTime
<1>1. ASSUME RetryInv, [BackoffNext]_backoffVars, delay' < delay
      PROVE  readySince # NoTime /\ now - readySince >= StableTime
  <2>1. delay' # delay
    BY <1>1, SMTT(60) DEF RetryInv, BackoffTypeOK
  <2>2. Failed
    BY <1>1, <2>1 DEF BackoffNext, backoffVars, retryVars, AttemptFails, BecomesReady,
                      ProcessEnds, Closed, NetworkChange, TimedRetry, StartAttempt, SeeChange,
                      EarlyRetry, CancelRetries, Tick
  <2> QED
    BY <1>1, <2>2, BackoffAssumption, SMTT(60)
    DEF Failed, FailedDelay, Smaller, RetryInv, BackoffTypeOK
<1>2. RetryInv /\ [BackoffNext]_backoffVars =>
        [delay' < delay => readySince # NoTime /\ now - readySince >= StableTime]_backoffVars
  BY <1>1
<1> QED
  BY <1>2, RetryInvariance, PTL DEF BackoffSpec, ResetNeedsStableTime
=============================================================================
