--------------------------- MODULE ServiceProofs ---------------------------
(***************************************************************************)
(* The properties of Service, for any number of processes and commands.    *)
(* Servers and commands touch each other's state little, so the inductive  *)
(* invariant has two halves: ServerInv, which a command preserves because  *)
(* all it does to a server is to launch or kill it (Spares), and           *)
(* RegistryInv, which the servers do not touch at all.  ReadyInv, about    *)
(* the events that they share, rests on both.                              *)
(***************************************************************************)
EXTENDS Service, TLAPS

\* Every step is small; what the provers may need is time.
USE ZenonT(60)

-----------------------------------------------------------------------------
(* The invariant.                                                          *)

\* The commands that call stop().
StoppingJobs == {"stop", "restart", "uninstall"}

\* What uninstall() removes after the Run entry.
LateRemovals == {"remove approved", "remove settings"}

\* The commands that come to a place.
JobAt(job, place) ==
    /\ place \in Values => job = "enable"
    /\ place = "remove run" => job \in {"disable", "uninstall"}
    /\ place \in LateRemovals => job = "uninstall"
    /\ place \in {"stop event", "any running?", "none running?", "signal", "stopping"} =>
          job \in StoppingJobs

\* The types that the proofs use.
Shape ==
    /\ holders \in [Events -> SUBSET (Servers \cup Controllers)]
    /\ server \in [Servers -> ServerPhases]
    /\ listening \subseteq Servers
    /\ offered \in [Servers -> Servers \cup {NoKey}]
    /\ keyfile \in Servers \cup {NoKey, Partial}
    /\ saved \in [Values -> BOOLEAN]
    /\ ctl \in [Controllers -> Command]

\* RunGuard: the running event is open as long as the guard is there.
GuardHeld == \A s \in Servers : server[s] \in Guarded => s \in holders["running"]

\* The port is let go before the guard is dropped, except by a process that was killed.
ListenerGuarded == \A s \in listening : server[s] \in {"serving", "closing", "dying"}

\* From the key's generation or loading on, nobody else writes the file.
KeyKept ==
    \A s \in Servers :
        /\ server[s] \in {"generating", "writing"} => offered[s] = s
        /\ server[s] \in {"binding", "serving", "closing"} => keyfile = offered[s]

\* Of the commands that edit the registry, one runs at a time.
OneEditor ==
    \A c, d \in Controllers : ctl[c].job \in Editing /\ ctl[d].job \in Editing => c = d

\* What a command has written before it comes to a place is still there.
InOrder ==
    \A c \in Controllers :
        /\ JobAt(ctl[c].job, ctl[c].at)
        /\ ctl[c].at \in {"executable", "run"} => saved["args"]
        /\ ctl[c].at = "run" => saved["executable"]
        /\ ctl[c].at \in LateRemovals => ~saved["run"]

ServerInv == GuardHeld /\ OneServer /\ ListenerGuarded /\ KeyKept
RegistryInv == OneEditor /\ InOrder /\ LaunchConfigured
IInv == Shape /\ ServerInv /\ RegistryInv

-----------------------------------------------------------------------------
(* Lemmas about the operators.                                             *)

\* A new process takes a slot in which none runs.
LEMMA SlotIsFree == \A s \in Free : s \in Servers /\ server[s] = "exited"
  BY DEF Free

\* Goto changes the place of one command.
LEMMA GotoShape ==
    ASSUME Shape, NEW c \in Controllers, NEW to \in Places, Goto(c, to)
    PROVE  /\ ctl' \in [Controllers -> Command]
           /\ ctl'[c] = IF to = "idle" THEN Idle ELSE [ctl[c] EXCEPT !.at = to]
           /\ \A d \in Controllers \ {c} : ctl'[d] = ctl[d]
<1>1. Idle \in Command
  BY DEF Idle, Command, Places, Commands
<1>2. [ctl[c] EXCEPT !.at = to] \in Command
  BY SMTT(60) DEF Shape, Command
<1> QED
  BY <1>1, <1>2 DEF Shape, Goto

\* The operations on events open or close a handle of one process only.
LEMMA EventSteps ==
    ASSUME Shape, NEW p \in Servers \cup Controllers, NEW e \in Events, NEW es, NEW initially,
           Create(p, es, initially) \/ Open(p, e) \/ Close(p, es) \/ Set(e) \/ UNCHANGED eventVars
    PROVE  /\ holders' \in [Events -> SUBSET (Servers \cup Controllers)]
           /\ \A q \in (Servers \cup Controllers) \ {p}, f \in Events :
                 q \in holders'[f] <=> q \in holders[f]
  BY SMTT(60) DEF Shape, Create, Open, Close, Set, eventVars

-----------------------------------------------------------------------------
(* The steps of a server.                                                  *)

\* A server's step preserves the types.
LEMMA ServerShape ==
    ASSUME Shape, NEW s \in Servers, ServerStep(s)
    PROVE  Shape'
<1> USE DEF Shape, Move, Exit, ServerPhases, Guarded, keyVars, eventVars
<1>1. ASSUME NoOptions(s) \/ StartupFails(s) \/ WaitForStop(s) \/ ShutDown(s) PROVE Shape'
  BY <1>1 DEF NoOptions, StartupFails, WaitForStop, ShutDown
<1>2. ASSUME LoadKey(s) \/ GenerateKey(s) PROVE Shape'
  BY <1>2, SMTT(60) DEF LoadKey, GenerateKey
<1>3. ASSUME CreateKeyFile(s) PROVE Shape'
  BY <1>3 DEF CreateKeyFile
<1>4. ASSUME PersistKey(s) PROVE Shape'
  BY <1>4 DEF PersistKey
<1>5. ASSUME Acquire(s) PROVE Shape'
  BY <1>5 DEF Acquire, Create
<1>6. ASSUME OpenEvents(s) PROVE Shape'
  BY <1>6 DEF OpenEvents, Create
<1>7. ASSUME Serve(s) PROVE Shape'
  BY <1>7 DEF Serve, Set
<1>8. ASSUME DropGuard(s) PROVE Shape'
  BY <1>8, SMTT(60) DEF DropGuard, Close
<1>9. ASSUME Die(s) PROVE Shape'
  BY <1>9, SMTT(60) DEF Die, Close
<1> QED
  BY <1>1, <1>2, <1>3, <1>4, <1>5, <1>6, <1>7, <1>8, <1>9 DEF ServerStep

\* A server's step preserves what is said of the servers: only one that finds no running
\* event goes on past acquire().
LEMMA ServerKeepsInv ==
    ASSUME Shape, ServerInv, NEW s \in Servers, ServerStep(s)
    PROVE  ServerInv'
<1> USE DEF Shape, ServerInv, GuardHeld, OneServer, ListenerGuarded, KeyKept, Move,
   Exit, Guarded, keyVars, eventVars, Events
<1>1. ASSUME NoOptions(s) \/ StartupFails(s) \/ WaitForStop(s) PROVE ServerInv'
  BY <1>1, SMTT(60) DEF NoOptions, StartupFails, WaitForStop
<1>2. ASSUME ShutDown(s) PROVE ServerInv'
  BY <1>2, SMTT(60) DEF ShutDown
<1>3. ASSUME LoadKey(s) PROVE ServerInv'
  BY <1>3, SMTT(60) DEF LoadKey
<1>4. ASSUME GenerateKey(s) PROVE ServerInv'
  BY <1>4, SMTT(60) DEF GenerateKey
<1>5. ASSUME CreateKeyFile(s) PROVE ServerInv'
  BY <1>5, SMTT(60) DEF CreateKeyFile
<1>6. ASSUME PersistKey(s) PROVE ServerInv'
  BY <1>6, SMTT(60) DEF PersistKey
<1>7. ASSUME Acquire(s) PROVE ServerInv'
  BY <1>7, SMTT(60) DEF Acquire, Create, Exists
<1>8. ASSUME OpenEvents(s) PROVE ServerInv'
  BY <1>8, SMTT(60) DEF OpenEvents, Create
<1>9. ASSUME Serve(s) PROVE ServerInv'
  BY <1>9, SMTT(60) DEF Serve, Set
<1>10. ASSUME DropGuard(s) PROVE ServerInv'
  BY <1>10, SMTT(60) DEF DropGuard, Close
<1>11. ASSUME Die(s) PROVE ServerInv'
  BY <1>11, SMTT(60) DEF Die, Close
<1> QED
  BY <1>1, <1>2, <1>3, <1>4, <1>5, <1>6, <1>7, <1>8, <1>9, <1>10, <1>11 DEF ServerStep

-----------------------------------------------------------------------------
(* The steps of a command.                                                 *)

\* What a command and Windows do to the servers: they launch one or kill one, and
\* leave the handles, the port and the key alone.
Spares ==
    /\ UNCHANGED <<listening, offered, keyfile>>
    /\ \A s \in Servers :
        /\ s \in holders'["running"] <=> s \in holders["running"]
        /\ \/ server'[s] = server[s]
           \/ server'[s] = "dying"
           \/ server[s] = "exited" /\ server'[s] = "spawned"

\* That much preserves what is said of the servers.
LEMMA SparedInv ==
    ASSUME Shape, ServerInv, Spares
    PROVE  ServerInv'
<1> QED
  BY SMTT(60) DEF Shape, ServerInv, GuardHeld, OneServer, ListenerGuarded, KeyKept, Spares,
     Guarded

\* What a command does to the events: it opens or closes a handle of its own, but never
\* of the ready event, or signals the stop event.
LEMMA CommandEvents ==
    ASSUME NEW c \in Controllers, ControllerStep(c) \/ TimeOut(c) \/ Interrupt(c),
           ~(Spawn(c) \/ KillChild(c))
    PROVE  /\ UNCHANGED <<server, listening, offered, keyfile, killed>>
           /\ \E e \in {"running", "stop"} : \E es :
                  Open(c, e) \/ Close(c, es) \/ Set("stop") \/ UNCHANGED eventVars
<1>1. CASE Enable(c)
  BY <1>1 DEF Enable, keyVars
<1>2. CASE Remove(c)
  BY <1>2 DEF Remove, keyVars
<1>3. CASE Status(c)
  BY <1>3 DEF Status, keyVars, IsRunning
<1>4. CASE CheckStart(c)
  BY <1>4 DEF CheckStart, keyVars, IsRunning
<1>5. CASE AwaitReady(c)
  BY <1>5 DEF AwaitReady, keyVars, IsRunning
<1>6. CASE RequestStop(c)
  BY <1>6 DEF RequestStop, keyVars
<1>7. CASE CleanedUp(c) \/ CleanupFails(c)
  BY <1>7 DEF CleanedUp, CleanupFails, keyVars
<1>8. CASE StopEvent(c)
  BY <1>8 DEF StopEvent, keyVars, IsRunning
<1>9. CASE SignalStop(c)
  BY <1>9 DEF SignalStop, keyVars
<1>10. CASE AwaitStopped(c)
  BY <1>10 DEF AwaitStopped, keyVars
<1>11. CASE NotReady(c)
  BY <1>11 DEF NotReady, keyVars
<1>12. CASE NoStopEvent(c)
  BY <1>12 DEF NoStopEvent, keyVars
<1>13. CASE NotStopped(c)
  BY <1>13 DEF NotStopped, keyVars
<1>14. CASE Interrupt(c)
  BY <1>14 DEF Interrupt, keyVars
<1> QED
  BY <1>1, <1>2, <1>3, <1>4, <1>5, <1>6, <1>7, <1>8, <1>9, <1>10, <1>11, <1>12, <1>13,
     <1>14 DEF ControllerStep, TimeOut

\* No command does more.
LEMMA CommandSpares ==
    ASSUME Shape, NEW c \in Controllers, ControllerStep(c) \/ TimeOut(c) \/ Interrupt(c)
    PROVE  /\ Spares
           /\ holders' \in [Events -> SUBSET (Servers \cup Controllers)]
           /\ server' \in [Servers -> ServerPhases]
<1> DEFINE Kept == /\ holders' \in [Events -> SUBSET (Servers \cup Controllers)]
                   /\ \A s \in Servers : s \in holders'["running"] <=> s \in holders["running"]
<1>1. ASSUME NEW e \in Events, NEW es,
             Open(c, e) \/ Close(c, es) \/ Set(e) \/ UNCHANGED eventVars
      PROVE  Kept
  BY <1>1, EventSteps, ServiceAssumption, SMTT(60) DEF Events
<1>2. ASSUME Spawn(c) \/ KillChild(c)
      PROVE  /\ UNCHANGED <<holders, listening, offered, keyfile>>
             /\ server' \in [Servers -> ServerPhases]
             /\ \A s \in Servers : \/ server'[s] = server[s]
                                   \/ server'[s] = "dying"
                                   \/ server[s] = "exited" /\ server'[s] = "spawned"
  BY <1>2, SlotIsFree DEF Spawn, KillChild, Shape, Move, eventVars, keyVars,
     ServerPhases
<1>3. ASSUME ~(Spawn(c) \/ KillChild(c))
      PROVE  /\ UNCHANGED <<server, listening, offered, keyfile>>
             /\ \E e \in Events : \E es :
                    Open(c, e) \/ Close(c, es) \/ Set(e) \/ UNCHANGED eventVars
  BY <1>3, CommandEvents DEF Events
<1>4. CASE Spawn(c) \/ KillChild(c)
  BY <1>2, <1>4 DEF Spares, Shape
<1>5. CASE ~(Spawn(c) \/ KillChild(c))
  BY <1>1, <1>3, <1>5 DEF Spares, Shape
<1> QED
  BY <1>4, <1>5

\* The places of which InOrder says nothing about the registry.
Plain == Places \ (Values \cup LateRemovals)

\* The step of a command that leaves the registry alone.
Quiet(c) ==
    /\ UNCHANGED saved
    /\ ctl' \in [Controllers -> Command]
    /\ \A d \in Controllers \ {c} : ctl'[d] = ctl[d]
    /\ ctl'[c].job \in {ctl[c].job, "status"} /\ ctl'[c].at \in Plain
    /\ JobAt(ctl'[c].job, ctl'[c].at)

\* Such a step preserves what is said of the registry.
LEMMA QuietKeeps ==
    ASSUME Shape, RegistryInv, NEW c \in Controllers, Quiet(c)
    PROVE  RegistryInv'
<1>1. OneEditor'
  BY DEF RegistryInv, OneEditor, Quiet, Editing
<1>2. InOrder'
  BY DEF RegistryInv, InOrder, Quiet, Plain, Values
<1>3. LaunchConfigured'
  BY DEF RegistryInv, LaunchConfigured, Quiet
<1> QED
  BY <1>1, <1>2, <1>3 DEF RegistryInv

\* Going on to a place that the command may come to is such a step ...
LEMMA QuietGoto ==
    ASSUME Shape, NEW c \in Controllers, NEW to \in Plain, Goto(c, to),
           JobAt(ctl[c].job, to), UNCHANGED saved
    PROVE  Quiet(c)
<1>1. to \in Places
  BY DEF Plain
<1>2. /\ ctl' \in [Controllers -> Command]
      /\ ctl'[c] = IF to = "idle" THEN Idle ELSE [ctl[c] EXCEPT !.at = to]
      /\ \A d \in Controllers \ {c} : ctl'[d] = ctl[d]
  BY <1>1, GotoShape
<1>3. CASE to = "idle"
  BY <1>2, <1>3, SMTT(60) DEF Quiet, Idle, Plain, Places, Values, LateRemovals, JobAt
<1>4. CASE to # "idle"
  <2>1. ctl'[c].job = ctl[c].job /\ ctl'[c].at = to
    BY <1>2, <1>4 DEF Shape, Command
  <2> QED
    BY <1>2, <2>1 DEF Quiet
<1> QED
  BY <1>3, <1>4

\* ... and so is staying where it is.
LEMMA UnchangedQuiet ==
    ASSUME Shape, RegistryInv, NEW c \in Controllers, UNCHANGED <<saved, ctl>>,
           ctl[c].at \in Plain
    PROVE  Quiet(c)
  BY DEF Shape, RegistryInv, InOrder, Quiet

\* stop() is followed by the rest of restart or uninstall, or by nothing.
LEMMA AfterStopIs ==
    ASSUME NEW job \in StoppingJobs
    PROVE  \/ AfterStop[job] \in {"idle", "configured?"}
           \/ job = "uninstall" /\ AfterStop[job] = "remove run"
<1>1. CASE job = "stop"
  BY <1>1 DEF AfterStop
<1>2. CASE job = "restart"
  BY <1>2 DEF AfterStop
<1>3. CASE job = "uninstall"
  BY <1>3 DEF AfterStop
<1> QED
  BY <1>1, <1>2, <1>3 DEF StoppingJobs

\* Only enable() and the removals touch the registry.
LEMMA QuietSteps ==
    ASSUME Shape, RegistryInv, NEW c \in Controllers,
           ControllerStep(c) \/ TimeOut(c) \/ Interrupt(c), ~Enable(c), ~Remove(c)
    PROVE  Quiet(c)
<1> DEFINE Starting == {"idle", "status", "configured?", "running?", "spawn", "ready?",
                        "clean up", "requested", "reap"}
           Stopping == {"stop event", "any running?", "none running?", "signal", "stopping"}
           job == ctl[c].job
<1>1. JobAt(job, ctl[c].at) /\ ctl[c] \in Command
  BY DEF RegistryInv, InOrder, Shape
<1>2. ASSUME NEW to \in Starting, Goto(c, to), UNCHANGED saved PROVE Quiet(c)
  <2>1. to \in Plain /\ JobAt(job, to)
    BY DEF Plain, Places, Values, LateRemovals, JobAt
  <2> QED
    BY <1>2, <2>1, QuietGoto
<1>3. ASSUME NEW to \in Stopping, ctl[c].at \in Stopping, Goto(c, to), UNCHANGED saved
      PROVE  Quiet(c)
  <2>1. to \in Plain /\ JobAt(job, to)
    BY <1>1, <1>3 DEF Plain, Places, Values, LateRemovals, JobAt
  <2> QED
    BY <1>3, <2>1, QuietGoto
<1>4. ASSUME ctl[c].at \in Stopping, Goto(c, AfterStop[job]), UNCHANGED saved PROVE Quiet(c)
  <2>1. job \in StoppingJobs
    BY <1>1, <1>4 DEF JobAt
  <2>2. \/ AfterStop[job] \in {"idle", "configured?"}
        \/ job = "uninstall" /\ AfterStop[job] = "remove run"
    BY <2>1, AfterStopIs
  <2>3. AfterStop[job] \in Plain /\ JobAt(job, AfterStop[job])
    BY <2>2 DEF Plain, Places, Values, LateRemovals, JobAt
  <2> QED
    BY <1>4, <2>3, QuietGoto
<1>5. ASSUME ctl[c].at \in Starting \cup Stopping, UNCHANGED <<saved, ctl>> PROVE Quiet(c)
  <2>1. ctl[c].at \in Plain
    BY <1>5 DEF Plain, Places, Values, LateRemovals
  <2> QED
    BY <1>5, <2>1, UnchangedQuiet
<1> USE DEF At
<1>6. CASE Status(c)
  BY <1>2, <1>3, <1>4, <1>5, <1>6 DEF Status, IsRunning
<1>7. CASE CheckStart(c)
  BY <1>2, <1>3, <1>4, <1>5, <1>7 DEF CheckStart, IsRunning
<1>8. CASE RequestStop(c)
  BY <1>2, <1>3, <1>4, <1>5, <1>8 DEF RequestStop
<1>9. CASE CleanedUp(c) \/ CleanupFails(c)
  BY <1>2, <1>3, <1>4, <1>5, <1>9 DEF CleanedUp, CleanupFails
<1>10. CASE StopEvent(c)
  BY <1>2, <1>3, <1>4, <1>5, <1>10 DEF StopEvent, IsRunning
<1>11. CASE SignalStop(c)
  BY <1>2, <1>3, <1>4, <1>5, <1>11 DEF SignalStop
<1>12. CASE AwaitStopped(c)
  BY <1>2, <1>3, <1>4, <1>5, <1>12 DEF AwaitStopped
<1>13. CASE KillChild(c)
  BY <1>2, <1>3, <1>4, <1>5, <1>13 DEF KillChild
<1>14. CASE NotReady(c)
  BY <1>2, <1>3, <1>4, <1>5, <1>14 DEF NotReady
<1>15. CASE NoStopEvent(c)
  BY <1>2, <1>3, <1>4, <1>5, <1>15 DEF NoStopEvent
<1>16. CASE NotStopped(c)
  BY <1>2, <1>3, <1>4, <1>5, <1>16 DEF NotStopped
<1>17. CASE Interrupt(c)
  BY <1>2, <1>3, <1>4, <1>5, <1>17 DEF Interrupt
<1>18. CASE Spawn(c)
  <2>1. CASE Goto(c, "idle")
    BY <1>2, <1>18, <2>1 DEF Spawn
  <2>2. ASSUME NEW s \in Free,
               ctl' = [ctl EXCEPT ![c] = [@ EXCEPT !.at = "ready?", !.child = s]]
        PROVE  Quiet(c)
    <3>1. ctl'[c] \in Command /\ ctl'[c].at = "ready?" /\ ctl'[c].job = job
      BY <1>1, <2>2, SlotIsFree DEF Command, Places, Shape
    <3>2. ctl' \in [Controllers -> Command] /\ \A d \in Controllers \ {c} : ctl'[d] = ctl[d]
      BY <2>2, <3>1 DEF Shape
    <3> QED
      BY <1>18, <3>1, <3>2 DEF Quiet, Spawn, Plain, Places, Values, LateRemovals, JobAt
  <2> QED
    BY <1>18, <2>1, <2>2 DEF Spawn
<1>19. CASE AwaitReady(c)
  <2>1. CASE ctl' = [ctl EXCEPT ![c] = [@ EXCEPT
                !.seen = TRUE, !.at = IF Child(c) = "exited" THEN "clean up" ELSE "ready?"]]
    <3>1. ctl'[c] \in Command /\ ctl'[c].job = job /\ ctl'[c].at \in {"ready?", "clean up"}
      BY <1>1, <2>1 DEF Command, Places, Shape
    <3>2. ctl' \in [Controllers -> Command] /\ \A d \in Controllers \ {c} : ctl'[d] = ctl[d]
      BY <2>1, <3>1 DEF Shape
    <3> QED
      BY <1>19, <3>1, <3>2 DEF Quiet, AwaitReady, Plain, Places, Values, LateRemovals, JobAt
  <2>2. CASE Goto(c, "idle") \/ Goto(c, "clean up") \/ Goto(c, "ready?") \/ UNCHANGED ctl
    BY <1>2, <1>5, <1>19, <2>2 DEF AwaitReady
  <2> QED
    BY <1>19, <2>1, <2>2 DEF AwaitReady, IsRunning
<1> QED
  BY <1>6, <1>7, <1>8, <1>9, <1>10, <1>11, <1>12, <1>13, <1>14, <1>15, <1>16, <1>17,
     <1>18, <1>19
     DEF ControllerStep, TimeOut

\* enable() writes the options, the executable, the Run entry and the approval, in this
\* order.
LEMMA AfterValueIs ==
    /\ AfterValue["args"] = "executable"
    /\ AfterValue["executable"] = "run"
    /\ AfterValue["run"] = "approved"
    /\ AfterValue["approved"] = "idle"
  BY DEF AfterValue

\* enable(), disable() and uninstall() preserve what is said of the registry, because
\* no other command edits it meanwhile.
LEMMA EditSteps ==
    ASSUME Shape, RegistryInv, NEW c \in Controllers, Enable(c) \/ Remove(c)
    PROVE  /\ saved' \in [Values -> BOOLEAN]
           /\ ctl' \in [Controllers -> Command]
           /\ RegistryInv'
<1>1. JobAt(ctl[c].job, ctl[c].at) /\ ctl[c] \in Command
  BY DEF RegistryInv, InOrder, Shape
<1>2. ctl[c].job \in Editing
  BY <1>1 DEF Enable, Remove, At, JobAt, Editing, LateRemovals
<1>3. \A d \in Controllers \ {c} : /\ ctl[d].job \notin Editing
                                   /\ ctl[d].at \notin Values \cup LateRemovals
  BY <1>2 DEF RegistryInv, OneEditor, InOrder, JobAt, Editing
<1>4. ASSUME NEW to \in Places, Goto(c, to), JobAt(ctl[c].job, to),
             saved' \in [Values -> BOOLEAN], LaunchConfigured',
             to \in {"executable", "run"} => saved'["args"],
             to = "run" => saved'["executable"],
             to \in LateRemovals => ~saved'["run"]
      PROVE  ctl' \in [Controllers -> Command] /\ RegistryInv'
  <2>1. /\ ctl' \in [Controllers -> Command]
        /\ ctl'[c] = IF to = "idle" THEN Idle ELSE [ctl[c] EXCEPT !.at = to]
        /\ \A d \in Controllers \ {c} : ctl'[d] = ctl[d]
    BY <1>4, GotoShape
  <2>2. /\ to = "idle" => ctl'[c].job = "status" /\ ctl'[c].at = "idle"
        /\ to # "idle" => ctl'[c].job = ctl[c].job /\ ctl'[c].at = to
    BY <1>1, <2>1, SMTT(60) DEF Idle, Command
  <2>3. OneEditor'
    BY <1>3, <2>1, <2>2 DEF OneEditor, Editing
  <2>4. \A d \in Controllers \ {c} : JobAt(ctl[d].job, ctl[d].at)
    BY DEF RegistryInv, InOrder
  <2>5. JobAt(ctl'[c].job, ctl'[c].at)
    BY <1>4, <2>2 DEF JobAt, Values, LateRemovals
  <2>6. ctl'[c].at = to
    BY <2>2
  <2>7. InOrder'
    <3> SUFFICES ASSUME NEW d \in Controllers
                 PROVE  /\ JobAt(ctl'[d].job, ctl'[d].at)
                        /\ ctl'[d].at \in {"executable", "run"} => saved'["args"]
                        /\ ctl'[d].at = "run" => saved'["executable"]
                        /\ ctl'[d].at \in LateRemovals => ~saved'["run"]
      BY DEF InOrder
    <3>1. CASE d = c
      BY <1>4, <2>5, <2>6, <3>1
    <3>2. CASE d # c
      BY <1>3, <2>1, <2>4, <3>2 DEF Values
    <3> QED
      BY <3>1, <3>2
  <2> QED
    BY <1>4, <2>1, <2>3, <2>7 DEF RegistryInv
<1> USE DEF RegistryInv, LaunchConfigured, InOrder, Shape, Values, LateRemovals
<1>5. CASE Enable(c)
  <2>0. ctl[c].job = "enable"
    BY <1>1, <1>5 DEF Enable, JobAt
  <2>1. CASE ctl[c].at = "args"
    <3>1. saved' = [saved EXCEPT !["args"] = TRUE] /\ Goto(c, "executable")
      BY <1>5, <2>1, AfterValueIs DEF Enable, At
    <3>2. "executable" \in Places /\ JobAt("enable", "executable")
      BY DEF Places, JobAt
    <3>3. /\ saved' \in [Values -> BOOLEAN] /\ LaunchConfigured'
          /\ "executable" \in {"executable", "run"} => saved'["args"]
          /\ "executable" = "run" => saved'["executable"]
      BY <2>1, <3>1
    <3> QED
      BY <1>4, <2>0, <3>1, <3>2, <3>3
  <2>2. CASE ctl[c].at = "executable"
    <3>1. saved' = [saved EXCEPT !["executable"] = TRUE] /\ Goto(c, "run")
      BY <1>5, <2>2, AfterValueIs DEF Enable, At
    <3>2. "run" \in Places /\ JobAt("enable", "run")
      BY DEF Places, JobAt
    <3>3. /\ saved' \in [Values -> BOOLEAN] /\ LaunchConfigured'
          /\ "run" \in {"executable", "run"} => saved'["args"]
          /\ "run" = "run" => saved'["executable"]
      BY <2>2, <3>1
    <3> QED
      BY <1>4, <2>0, <3>1, <3>2, <3>3
  <2>3. CASE ctl[c].at = "run"
    <3>1. saved' = [saved EXCEPT !["run"] = TRUE] /\ Goto(c, "approved")
      BY <1>5, <2>3, AfterValueIs DEF Enable, At
    <3>2. "approved" \in Places /\ JobAt("enable", "approved")
      BY DEF Places, JobAt
    <3>3. /\ saved' \in [Values -> BOOLEAN] /\ LaunchConfigured'
          /\ "approved" \in {"executable", "run"} => saved'["args"]
          /\ "approved" = "run" => saved'["executable"]
      BY <2>3, <3>1
    <3> QED
      BY <1>4, <2>0, <3>1, <3>2, <3>3
  <2>4. CASE ctl[c].at = "approved"
    <3>1. /\ saved' = [saved EXCEPT !["approved"] = TRUE] \/ saved' = saved
          /\ Goto(c, "idle")
      BY <1>5, <2>4, AfterValueIs DEF Enable
    <3>2. "idle" \in Places /\ JobAt("enable", "idle")
      BY DEF Places, JobAt
    <3>3. /\ saved' \in [Values -> BOOLEAN] /\ LaunchConfigured'
          /\ "idle" \in {"executable", "run"} => saved'["args"]
          /\ "idle" = "run" => saved'["executable"]
      BY <3>1
    <3> QED
      BY <1>4, <2>0, <3>1, <3>2, <3>3
  <2> QED
    BY <1>5, <2>1, <2>2, <2>3, <2>4 DEF Enable
<1>6. CASE Remove(c)
  <2>1. CASE At(c, "remove run")
    <3>1. saved' = [saved EXCEPT !["run"] = FALSE]
      BY <1>6, <2>1 DEF Remove, At
    <3>2. saved' \in [Values -> BOOLEAN] /\ ~saved'["run"]
      BY <3>1
    <3>3. CASE ctl[c].job = "uninstall"
      <4>1. Goto(c, "remove approved")
        BY <1>6, <2>1, <3>3 DEF Remove, At
      <4>2. "remove approved" \in Places /\ JobAt("uninstall", "remove approved")
        BY DEF Places, JobAt
      <4> QED
        BY <1>4, <3>2, <3>3, <4>1, <4>2
    <3>4. CASE ctl[c].job # "uninstall"
      <4>1. Goto(c, "idle")
        BY <1>6, <2>1, <3>4 DEF Remove, At
      <4>2. "idle" \in Places /\ JobAt(ctl[c].job, "idle")
        BY DEF Places, JobAt
      <4> QED
        BY <1>4, <3>2, <4>1, <4>2
    <3> QED
      BY <3>3, <3>4
  <2>3. CASE At(c, "remove approved")
    <3>1. saved' = [saved EXCEPT !["approved"] = FALSE] /\ Goto(c, "remove settings")
      BY <1>6, <2>3 DEF Remove, At
    <3>2. saved' \in [Values -> BOOLEAN] /\ ~saved'["run"] /\ ctl[c].job = "uninstall"
      BY <1>1, <2>3, <3>1 DEF At, JobAt
    <3>3. "remove settings" \in Places /\ JobAt("uninstall", "remove settings")
      BY DEF Places, JobAt
    <3> QED
      BY <1>4, <3>1, <3>2, <3>3
  <2>2. CASE At(c, "remove settings")
    <3>1. /\ saved' = [saved EXCEPT !["args"] = FALSE, !["executable"] = FALSE]
          /\ Goto(c, "idle")
      BY <1>6, <2>2 DEF Remove, At
    <3>2. saved' \in [Values -> BOOLEAN] /\ ~saved'["run"]
      BY <2>2, <3>1 DEF At
    <3>3. "idle" \in Places /\ JobAt(ctl[c].job, "idle")
      BY DEF Places, JobAt
    <3> QED
      BY <1>4, <3>1, <3>2, <3>3
  <2> QED
    BY <1>6, <2>1, <2>2, <2>3 DEF Remove
<1> QED
  BY <1>5, <1>6

\* Where the commands begin.
LEMMA FirstPlaceIs ==
    ASSUME NEW command \in Commands
    PROVE  /\ FirstPlace[command] \in Places \ ({"idle", "executable", "run"} \cup LateRemovals)
           /\ JobAt(command, FirstPlace[command])
<1>1. /\ FirstPlace["enable"] = "args" /\ FirstPlace["disable"] = "remove run"
      /\ FirstPlace["uninstall"] = "stop event" /\ FirstPlace["status"] = "status"
      /\ FirstPlace["start"] = "configured?" /\ FirstPlace["stop"] = "stop event"
      /\ FirstPlace["restart"] = "stop event"
  BY DEF FirstPlace
<1> QED
  BY <1>1, ZenonT(60) DEF Commands, Places, Values, LateRemovals, JobAt, StoppingJobs

\* A new command preserves what is said of the registry.
LEMMA ManageStep ==
    ASSUME Shape, RegistryInv, NEW c \in Controllers, NEW command \in Commands,
           Manage(c, command)
    PROVE  ctl' \in [Controllers -> Command] /\ RegistryInv'
<1>1. /\ FirstPlace[command] \in Places \ ({"idle", "executable", "run"} \cup LateRemovals)
      /\ JobAt(command, FirstPlace[command])
  BY FirstPlaceIs
<1>2. /\ ctl'[c] \in Command /\ ctl'[c].job = command /\ ctl'[c].at = FirstPlace[command]
      /\ ctl' \in [Controllers -> Command]
      /\ \A d \in Controllers \ {c} : ctl'[d] = ctl[d]
  BY <1>1, ZenonT(60) DEF Manage, Shape, Command
<1>3. OneEditor'
  BY <1>2, SMTT(60) DEF Manage, RegistryInv, OneEditor
<1>4. InOrder'
  BY <1>1, <1>2, ZenonT(60) DEF Manage, RegistryInv, InOrder
<1>5. LaunchConfigured'
  BY DEF Manage, RegistryInv, LaunchConfigured
<1> QED
  BY <1>2, <1>3, <1>4, <1>5 DEF RegistryInv

-----------------------------------------------------------------------------
(* The invariant is inductive.                                             *)

\* It holds in the beginning, whether or not a server is running.
LEMMA InitHolds == Init => IInv
<1> SUFFICES ASSUME Init PROVE IInv
  OBVIOUS
<1>2. PICK up \in {{}} \cup {{s} : s \in Servers}, enabled \in BOOLEAN :
        /\ holders = [e \in Events |-> up]
        /\ server = [s \in Servers |-> IF s \in up THEN "serving" ELSE "exited"]
        /\ listening = up
        /\ offered = [s \in Servers |-> IF s \in up THEN s ELSE NoKey]
        /\ keyfile \in IF up = {} THEN {NoKey} ELSE up
        /\ saved = [v \in Values |-> enabled]
  BY DEF Init
<1>3. up \subseteq Servers /\ \A s, t \in up : s = t
  BY <1>2
<1>4. Idle \in Command /\ ctl = [c \in Controllers |-> Idle]
  BY DEF Idle, Command, Places, Commands, Init
<1>5. Shape
  BY <1>2, <1>3, <1>4 DEF Shape, ServerPhases, Guarded
<1>6. ServerInv
  BY <1>2, <1>3 DEF ServerInv, GuardHeld, OneServer, ListenerGuarded, KeyKept,
     Guarded, Events
<1>7. RegistryInv
  BY <1>2, <1>4 DEF RegistryInv, OneEditor, InOrder, LaunchConfigured, JobAt, Idle,
     Editing, Values, LateRemovals
<1> QED
  BY <1>5, <1>6, <1>7 DEF IInv

\* A step of a command preserves it, and is a step of that command alone.
LEMMA CommandStep ==
    ASSUME IInv, NEW c \in Controllers, ControllerStep(c) \/ TimeOut(c) \/ Interrupt(c)
    PROVE  IInv' /\ \A d \in Controllers \ {c} : ctl'[d] = ctl[d]
<1>1. /\ Spares
      /\ holders' \in [Events -> SUBSET (Servers \cup Controllers)]
      /\ server' \in [Servers -> ServerPhases]
  BY CommandSpares DEF IInv
<1>2. /\ saved' \in [Values -> BOOLEAN] /\ ctl' \in [Controllers -> Command]
      /\ RegistryInv' /\ \A d \in Controllers \ {c} : ctl'[d] = ctl[d]
  <2>1. CASE Enable(c) \/ Remove(c)
    <3>1. \A d \in Controllers \ {c} : ctl'[d] = ctl[d]
      BY <2>1 DEF Enable, Remove, Goto, IInv, Shape
    <3> QED
      BY <2>1, <3>1, EditSteps DEF IInv
  <2>2. CASE ~Enable(c) /\ ~Remove(c)
    <3>1. Quiet(c)
      BY <2>2, QuietSteps DEF IInv
    <3> QED
      BY <3>1, QuietKeeps DEF IInv, Quiet, Shape
  <2> QED
    BY <2>1, <2>2
<1>3. ServerInv'
  BY <1>1, SparedInv DEF IInv
<1>4. Shape'
  BY <1>1, <1>2 DEF IInv, Shape, Spares
<1> QED
  BY <1>2, <1>3, <1>4 DEF IInv

\* Every step preserves it.
LEMMA NextHolds == IInv /\ [Next]_vars => IInv'
<1> SUFFICES ASSUME IInv, [Next]_vars PROVE IInv'
  OBVIOUS
<1>1. CASE UNCHANGED vars
  BY <1>1 DEF vars, IInv, Shape, ServerInv, RegistryInv, GuardHeld, OneServer,
     ListenerGuarded,
     KeyKept, OneEditor, InOrder, LaunchConfigured
<1>2. ASSUME NEW s \in Servers, ServerStep(s) PROVE IInv'
  <2>1. UNCHANGED <<saved, ctl>>
    BY <1>2 DEF ServerStep, NoOptions, Acquire, OpenEvents, LoadKey, GenerateKey,
       CreateKeyFile,
       PersistKey, StartupFails, Serve, WaitForStop, ShutDown, DropGuard, Die
  <2>2. RegistryInv'
    BY <2>1 DEF IInv, RegistryInv, OneEditor, InOrder, LaunchConfigured
  <2> QED
    BY <1>2, <2>2, ServerShape, ServerKeepsInv DEF IInv
<1>3. ASSUME LaunchAtLogin PROVE IInv'
  <2>1. Shape'
    BY <1>3, SlotIsFree DEF LaunchAtLogin, Move, IInv, Shape, ServerPhases,
       eventVars, keyVars
  <2>2. ServerInv'
    <3>1. Spares
      BY <1>3, SlotIsFree DEF LaunchAtLogin, Move, IInv, Shape, Spares,
         eventVars, keyVars
    <3> QED
      BY <3>1, SparedInv DEF IInv
  <2>3. RegistryInv'
    BY <1>3 DEF LaunchAtLogin, IInv, RegistryInv, OneEditor, InOrder, LaunchConfigured
  <2> QED
    BY <2>1, <2>2, <2>3 DEF IInv
<1>4. ASSUME NEW c \in Controllers, ControllerStep(c) \/ TimeOut(c) \/ Interrupt(c) PROVE IInv'
  BY <1>4, CommandStep
<1>5. ASSUME NEW c \in Controllers, NEW command \in Commands, Manage(c, command) PROVE IInv'
  <2>1. ctl' \in [Controllers -> Command] /\ RegistryInv'
    BY <1>5, ManageStep DEF IInv
  <2>2. UNCHANGED <<holders, server, listening, offered, keyfile, saved>>
    BY <1>5 DEF Manage, eventVars, keyVars
  <2> QED
    BY <2>1, <2>2 DEF IInv, Shape, ServerInv, GuardHeld, OneServer,
       ListenerGuarded, KeyKept
<1> QED
  BY <1>1, <1>2, <1>3, <1>4, <1>5 DEF Next

\* The invariant holds in every reachable state of servers, commands and registry.
THEOREM Invariance == Spec => []IInv
  BY InitHolds, NextHolds, PTL DEF Spec

-----------------------------------------------------------------------------
(* The theorems.                                                           *)

\* CreateEventW, OpenEventW, CloseHandle, SetEvent, or none of them.
EventOperation ==
    \/ UNCHANGED eventVars
    \/ \E p, es : Close(p, es) \/ \E initially \in BOOLEAN : Create(p, es, initially)
    \/ \E p, e : Open(p, e) \/ Set(e)

\* An event is signalled or it is not, whatever is done to it ...
LEMMA EventsSignalled ==
    ASSUME signalled \in [Events -> BOOLEAN], EventOperation
    PROVE  signalled' \in [Events -> BOOLEAN]
<1>1. CASE UNCHANGED eventVars \/ \E p, e : Open(p, e)
  BY <1>1 DEF Open, eventVars
<1>2. ASSUME NEW p, NEW es, NEW initially \in BOOLEAN, Create(p, es, initially)
      PROVE  signalled' \in [Events -> BOOLEAN]
  BY <1>2 DEF Create
<1>3. ASSUME NEW p, NEW es, Close(p, es)
      PROVE  signalled' \in [Events -> BOOLEAN]
  BY <1>3 DEF Close
<1>4. ASSUME NEW e, Set(e)
      PROVE  signalled' \in [Events -> BOOLEAN]
  BY <1>4 DEF Set
<1> QED
  BY <1>1, <1>2, <1>3, <1>4 DEF EventOperation

\* ... and nobody does anything else to the events.
LEMMA EventOperations ==
    ASSUME Next
    PROVE  /\ EventOperation /\ (events' = events \/ events' = events + 1)
           /\ killed' = killed \/ killed' = TRUE
<1> USE DEF EventOperation
<1>1. ASSUME NEW s \in Servers, ServerStep(s)
      PROVE  EventOperation /\ UNCHANGED <<events, killed>>
  <2>1. CASE NoOptions(s) \/ LoadKey(s) \/ GenerateKey(s) \/ CreateKeyFile(s) \/ PersistKey(s)
    BY <2>1 DEF NoOptions, LoadKey, GenerateKey, CreateKeyFile, PersistKey
  <2>2. CASE StartupFails(s) \/ WaitForStop(s) \/ ShutDown(s)
    BY <2>2 DEF StartupFails, WaitForStop, ShutDown
  <2>3. CASE Acquire(s) \/ OpenEvents(s)
    BY <2>3 DEF Acquire, OpenEvents
  <2>4. CASE Serve(s) \/ DropGuard(s)
    BY <2>4 DEF Serve, DropGuard
  <2>5. CASE Die(s)
    BY <2>5 DEF Die
  <2> QED
    BY <1>1, <2>1, <2>2, <2>3, <2>4, <2>5 DEF ServerStep
<1>2. ASSUME NEW c \in Controllers, ControllerStep(c)
      PROVE  EventOperation /\ UNCHANGED <<events, killed>>
  <2>1. CASE Enable(c) \/ Remove(c) \/ Spawn(c) \/ CleanedUp(c) \/ CleanupFails(c)
    BY <2>1 DEF Enable, Remove, Spawn, CleanedUp, CleanupFails
  <2>2. CASE Status(c) \/ CheckStart(c)
    BY <2>2 DEF Status, CheckStart, IsRunning
  <2>3. CASE AwaitReady(c)
    BY <2>3 DEF AwaitReady, IsRunning
  <2>4. CASE StopEvent(c)
    BY <2>4 DEF StopEvent, IsRunning
  <2>5. CASE RequestStop(c) \/ SignalStop(c) \/ AwaitStopped(c)
    BY <2>5 DEF RequestStop, SignalStop, AwaitStopped
  <2> QED
    BY <1>2, <2>1, <2>2, <2>3, <2>4, <2>5 DEF ControllerStep
<1>3. ASSUME NEW c \in Controllers, TimeOut(c) \/ Interrupt(c)
      PROVE  /\ EventOperation /\ (events' = events \/ events' = events + 1)
             /\ killed' = killed \/ killed' = TRUE
  BY <1>3 DEF TimeOut, NotReady, KillChild, NoStopEvent, NotStopped, Interrupt, Happens
<1>4. ASSUME LaunchAtLogin \/ \E c \in Controllers, command \in Commands : Manage(c, command)
      PROVE  EventOperation /\ events' = events + 1 /\ UNCHANGED killed
  BY <1>4 DEF LaunchAtLogin, Manage, Happens
<1> QED
  BY <1>1, <1>2, <1>3, <1>4 DEF Next

\* The variables of servers, events, registry and commands keep their types.
THEOREM TypeCorrect == Spec => []TypeOK
<1> DEFINE Rest == signalled \in [Events -> BOOLEAN] /\ events \in Nat /\ killed \in BOOLEAN
<1>1. Init => Rest
  <2>1. Init => \E up : signalled = [e \in Events |-> up # {} /\ e # "stop"]
    BY ZenonT(60) DEF Init
  <2>2. \A up : [e \in Events |-> up # {} /\ e # "stop"] \in [Events -> BOOLEAN]
    OBVIOUS
  <2>3. Init => signalled \in [Events -> BOOLEAN]
    BY <2>1, <2>2
  <2>4. Init => killed \in BOOLEAN
    BY DEF Init
  <2>5. Init => events \in Nat
    <3>1. Init => events = 0
      BY DEF Init
    <3> QED
      BY <3>1, SMTT(60)
  <2> QED
    BY <2>3, <2>4, <2>5
<1>2. ASSUME Rest, [Next]_vars PROVE Rest'
  <2>1. CASE UNCHANGED vars
    BY <1>2, <2>1 DEF vars
  <2>2. CASE Next
    <3>1. signalled' \in [Events -> BOOLEAN] /\ killed' \in BOOLEAN
      BY <1>2, <2>2, EventOperations, EventsSignalled
    <3>2. events' \in Nat
      BY <1>2, <2>2, EventOperations, SMTT(60)
    <3> QED
      BY <3>1, <3>2
  <2> QED
    BY <1>2, <2>1, <2>2
<1>3. IInv /\ Rest => TypeOK
  BY DEF IInv, Shape, TypeOK
<1> QED
  BY <1>1, <1>2, <1>3, Invariance, PTL DEF Spec

\* RunGuard::acquire lets one server past at a time.
THEOREM Exclusion == Spec => []OneServer
<1>1. IInv => OneServer
  BY DEF IInv, ServerInv
<1> QED
  BY <1>1, Invariance, PTL

\* A server that serves offers the key in the host key file (hostkey.rs).
THEOREM KeyStable == Spec => []HostKeyStable
<1>1. IInv => HostKeyStable
  BY DEF IInv, ServerInv, KeyKept, HostKeyStable
<1> QED
  BY <1>1, Invariance, PTL

\* enable() and uninstall(), interrupted anywhere, leave no Run entry without its
\* options and executable.
THEOREM Configured == Spec => []LaunchConfigured
<1>1. IInv => LaunchConfigured
  BY DEF IInv, RegistryInv
<1> QED
  BY <1>1, Invariance, PTL

\* A command that is under way is moved on by its own steps.
LEMMA OwnCommand ==
    ASSUME IInv, [Next]_vars, NEW c \in Controllers, ctl[c].at # "idle", ctl'[c] # ctl[c]
    PROVE  ControllerStep(c) \/ TimeOut(c) \/ Interrupt(c)
<1>1. ASSUME NEW s \in Servers, ServerStep(s) PROVE UNCHANGED ctl
  BY <1>1 DEF ServerStep, NoOptions, Acquire, OpenEvents, LoadKey, GenerateKey,
     CreateKeyFile,
     PersistKey, StartupFails, Serve, WaitForStop, ShutDown, DropGuard, Die
<1>2. ASSUME NEW d \in Controllers, NEW command \in Commands, Manage(d, command)
      PROVE  ctl'[c] = ctl[c]
  BY <1>2 DEF Manage, At, IInv, Shape
<1> QED
  BY <1>1, <1>2, CommandStep DEF Next, vars, LaunchAtLogin

\* When stop() has returned Ok, so that restart or uninstall goes on, no server is
\* guarded and the port is free, unless a killed process is still losing it.
THEOREM Stopped == Spec => StopMeansStopped
<1>1. ASSUME IInv, [Next]_vars, NEW c \in Controllers,
             At(c, "stopping"), ctl'[c].at \notin {"stopping", "idle"}, NEW s \in Servers
      PROVE  server[s] \notin Guarded /\ (s \in listening => server[s] = "dying")
  <2>1. ControllerStep(c) \/ TimeOut(c) \/ Interrupt(c)
    BY <1>1, OwnCommand DEF At
  <2>2. ~Goto(c, "idle")
    BY <1>1, SMTT(60) DEF Goto, Idle, IInv, Shape
  <2>3. AwaitStopped(c)
    BY <1>1, <2>1, <2>2 DEF ControllerStep, TimeOut, Interrupt, At, Enable,
       Values, Remove, Status,
       CheckStart, Spawn, AwaitReady, RequestStop, CleanedUp, CleanupFails, StopEvent, SignalStop,
       NotReady, KillChild, NoStopEvent, NotStopped
  <2>4. ~Exists("running")
    BY <1>1, <2>3 DEF AwaitStopped, At
  <2> QED
    BY <1>1, <2>4 DEF Exists, IInv, ServerInv, GuardHeld, ListenerGuarded, Guarded
<1>2. IInv /\ [Next]_vars =>
        [\A c \in Controllers :
            At(c, "stopping") /\ ctl'[c].at \notin {"stopping", "idle"} =>
                \A s \in Servers : /\ server[s] \notin Guarded
                                   /\ s \in listening => server[s] = "dying"]_vars
  BY <1>1
<1> QED
  BY <1>2, Invariance, PTL DEF Spec, StopMeansStopped

-----------------------------------------------------------------------------
(* start() and the events it shares with the servers.                      *)

\* A server has the ready and the stop event open or neither, no command opens the ready
\* event, a dying process was killed, and ready is set behind a bound port, or by a server
\* that was asked to stop.
ReadyInv ==
    /\ signalled \in [Events -> BOOLEAN]
    /\ holders["ready"] \subseteq Servers
    /\ \A s \in Servers : s \in holders["ready"] <=> s \in holders["stop"]
    /\ \A s \in Servers : server[s] = "dying" => killed
    /\ ~killed /\ signalled["ready"] =>
           (\E s \in Servers : server[s] = "serving") \/ signalled["stop"]

\* Handles of the two events are opened and closed together, and the stop event does not
\* lose its signal while ready has one.
SharesEvents ==
    /\ signalled' \in [Events -> BOOLEAN]
    /\ holders'["ready"] \subseteq Servers
    /\ \A s \in Servers : s \in holders'["ready"] <=> s \in holders'["stop"]
    /\ signalled'["ready"] => signalled["ready"] /\ (signalled["stop"] => signalled'["stop"])

LEMMA EventNames == "ready" \in Events /\ "stop" \in Events /\ "running" \in Events
  BY DEF Events

\* A step that does no more than that to the events, and no more to the servers than to
\* end one that was asked to stop, keeps ReadyInv.
LEMMA SharingKeeps ==
    ASSUME ReadyInv, SharesEvents, killed => killed',
           \A s \in Servers : server'[s] = "dying" => server[s] = "dying" \/ killed',
           \/ \A s \in Servers : server[s] = "serving" => server'[s] = "serving"
           \/ signalled["stop"]
           \/ killed'
    PROVE  ReadyInv'
<1>1. ASSUME ~killed', signalled'["ready"]
      PROVE  (\E s \in Servers : server'[s] = "serving") \/ signalled'["stop"]
  BY <1>1 DEF SharesEvents, ReadyInv
<1>2. \A s \in Servers : server'[s] = "dying" => killed'
  BY DEF ReadyInv
<1> QED
  BY <1>1, <1>2 DEF ReadyInv, SharesEvents

\* Neither event is touched.
LEMMA EventsLeft ==
    ASSUME ReadyInv, UNCHANGED eventVars
    PROVE  SharesEvents
  BY DEF ReadyInv, SharesEvents, eventVars

\* A process closes both, or neither, or one that no server has open.
LEMMA ClosingShares ==
    ASSUME ReadyInv, NEW p, NEW es, Close(p, es),
           p \in Servers => ("ready" \in es <=> "stop" \in es)
    PROVE  SharesEvents
<1> USE EventNames
<1>1. \A e \in Events : holders'[e] = IF e \in es THEN holders[e] \ {p} ELSE holders[e]
  BY DEF Close
<1>2. \A e \in Events : signalled'[e] = (signalled[e] /\ holders'[e] # {})
  BY DEF Close
<1>3. signalled' \in [Events -> BOOLEAN]
  BY DEF Close
<1>4. holders'["ready"] \subseteq Servers
  BY <1>1 DEF ReadyInv
<1>5. \A s \in Servers : s \in holders'["ready"] <=> s \in holders'["stop"]
  BY <1>1 DEF ReadyInv
<1>6. signalled'["ready"] => signalled["ready"] /\ holders'["ready"] # {}
  BY <1>2
<1>7. holders'["ready"] # {} => holders'["stop"] # {}
  BY <1>4, <1>5
<1>8. holders'["stop"] # {} /\ signalled["stop"] => signalled'["stop"]
  BY <1>2
<1> QED
  BY <1>3, <1>4, <1>5, <1>6, <1>7, <1>8 DEF SharesEvents

\* What a command does to the events.
LEMMA CommandShares ==
    ASSUME IInv, ReadyInv, NEW c \in Controllers, NEW e \in {"running", "stop"}, NEW es,
           Open(c, e) \/ Close(c, es) \/ Set("stop") \/ UNCHANGED eventVars
    PROVE  SharesEvents
<1> USE EventNames
<1>1. c \notin Servers /\ holders \in [Events -> SUBSET (Servers \cup Controllers)]
  BY ServiceAssumption DEF IInv, Shape
<1>2. CASE Open(c, e)
  BY <1>1, <1>2 DEF Open, ReadyInv, SharesEvents
<1>3. CASE Close(c, es)
  BY <1>1, <1>3, ClosingShares
<1>4. CASE Set("stop")
  BY <1>4 DEF Set, ReadyInv, SharesEvents
<1> QED
  BY <1>2, <1>3, <1>4, EventsLeft

\* A server creates both, or only the running event.
LEMMA CreatingShares ==
    ASSUME IInv, ReadyInv, NEW s \in Servers,
           Create(s, {"stop", "ready"}, FALSE) \/ Create(s, {"running"}, TRUE)
    PROVE  SharesEvents
<1> USE EventNames
<1>1. CASE Create(s, {"running"}, TRUE)
  <2>1. signalled' \in [Events -> BOOLEAN]
    BY <1>1 DEF Create, ReadyInv
  <2>2. \A e \in {"ready", "stop"} : holders'[e] = holders[e] /\ signalled'[e] = signalled[e]
    BY <1>1 DEF Create, Events
  <2> QED
    BY <2>1, <2>2 DEF ReadyInv, SharesEvents
<1>2. CASE Create(s, {"stop", "ready"}, FALSE)
  <2>1. signalled' \in [Events -> BOOLEAN]
    BY <1>2 DEF Create, ReadyInv
  <2>2. \A e \in {"ready", "stop"} : /\ holders'[e] = holders[e] \cup {s}
                                     /\ signalled'[e] = IF Exists(e) THEN signalled[e] ELSE FALSE
    BY <1>2 DEF Create, Events
  <2>3. Exists("ready") => Exists("stop")
    BY DEF Exists, ReadyInv
  <2> QED
    BY <2>1, <2>2, <2>3 DEF ReadyInv, SharesEvents
<1> QED
  BY <1>1, <1>2

\* The steps of a server keep ReadyInv.
LEMMA ServerReady ==
    ASSUME IInv, ReadyInv, NEW s \in Servers, ServerStep(s)
    PROVE  ReadyInv'
<1>0. server \in [Servers -> ServerPhases] /\ UNCHANGED killed
  BY DEF IInv, Shape, ServerStep, NoOptions, Acquire, OpenEvents, LoadKey, GenerateKey,
     CreateKeyFile, PersistKey, StartupFails, Serve, WaitForStop, ShutDown, DropGuard, Die
<1>1. ASSUME NEW to, to \notin {"dying"}, Move(s, to), server[s] # "serving" \/ signalled["stop"],
             SharesEvents
      PROVE  ReadyInv'
  <2>1. \A t \in Servers : server'[t] = IF t = s THEN to ELSE server[t]
    BY <1>0, <1>1 DEF Move
  <2> QED
    BY <1>0, <1>1, <2>1, SharingKeeps
<1>2. ASSUME UNCHANGED server, SharesEvents PROVE ReadyInv'
  BY <1>0, <1>2, SharingKeeps
<1>3. CASE NoOptions(s) \/ LoadKey(s) \/ GenerateKey(s) \/ CreateKeyFile(s) \/ PersistKey(s)
  BY <1>1, <1>3, EventsLeft DEF NoOptions, LoadKey, GenerateKey, CreateKeyFile, PersistKey
<1>4. CASE StartupFails(s) \/ WaitForStop(s) \/ ShutDown(s)
  BY <1>1, <1>4, EventsLeft DEF StartupFails, WaitForStop, ShutDown
<1>5. CASE Acquire(s) \/ OpenEvents(s)
  BY <1>1, <1>5, CreatingShares DEF Acquire, OpenEvents
<1>6. CASE DropGuard(s)
  <2>1. SharesEvents
    BY <1>6, ClosingShares DEF DropGuard
  <2> QED
    BY <1>1, <1>2, <1>6, <2>1 DEF DropGuard, Exit
<1>7. CASE Die(s)
  <2>1. SharesEvents
    BY <1>7, ClosingShares, EventsLeft, EventNames DEF Die
  <2> QED
    BY <1>1, <1>2, <1>7, <2>1 DEF Die, Exit
<1>8. CASE Serve(s)
  <2>1. server' = [server EXCEPT ![s] = "serving"] /\ UNCHANGED holders
    BY <1>8 DEF Serve, Move, Set
  <2>2. server'[s] = "serving" /\ \A t \in Servers : t # s => server'[t] = server[t]
    BY <1>0, <2>1
  <2>3. signalled' \in [Events -> BOOLEAN]
    BY <1>8 DEF Serve, Set, ReadyInv
  <2> QED
    BY <1>0, <2>1, <2>2, <2>3 DEF ReadyInv
<1> QED
  BY <1>3, <1>4, <1>5, <1>6, <1>7, <1>8 DEF ServerStep

\* The steps of a command keep ReadyInv.
LEMMA CommandReady ==
    ASSUME IInv, ReadyInv, NEW c \in Controllers, ControllerStep(c) \/ TimeOut(c) \/ Interrupt(c)
    PROVE  ReadyInv'
<1>0. server \in [Servers -> ServerPhases]
  BY DEF IInv, Shape
<1>1. CASE Spawn(c)
  <2>1. UNCHANGED <<eventVars, killed>> /\ (UNCHANGED server \/ \E s \in Free : Move(s, "spawned"))
    BY <1>1 DEF Spawn
  <2>2. \A s \in Servers : /\ server[s] = "serving" => server'[s] = "serving"
                           /\ server'[s] = "dying" => server[s] = "dying"
    BY <1>0, <2>1, SlotIsFree DEF Move
  <2> QED
    BY <2>1, <2>2, EventsLeft, SharingKeeps
<1>2. CASE KillChild(c)
  BY <1>2, EventsLeft, SharingKeeps DEF KillChild
<1>3. CASE ~(Spawn(c) \/ KillChild(c))
  <2>1. SharesEvents /\ UNCHANGED <<server, killed>>
    BY <1>3, CommandEvents, CommandShares
  <2> QED
    BY <2>1, SharingKeeps
<1> QED
  BY <1>1, <1>2, <1>3

\* ReadyInv holds in every reachable state of servers, commands and events.
THEOREM ReadyInvariance == Spec => []ReadyInv
<1>1. Init => ReadyInv
  <2> SUFFICES ASSUME Init PROVE ReadyInv
    OBVIOUS
  <2>1. PICK up \in {{}} \cup {{s} : s \in Servers} :
           /\ holders = [e \in Events |-> up]
           /\ signalled = [e \in Events |-> up # {} /\ e # "stop"]
           /\ server = [s \in Servers |-> IF s \in up THEN "serving" ELSE "exited"]
    BY DEF Init
  <2>2. up \subseteq Servers
    BY <2>1
  <2>3. /\ holders["ready"] = up /\ holders["stop"] = up
        /\ signalled["ready"] = (up # {})
    BY <2>1, EventNames
  <2>4. signalled \in [Events -> BOOLEAN]
    BY <2>1
  <2>5. \A s \in Servers : /\ server[s] # "dying"
                           /\ s \in up => server[s] = "serving"
    BY <2>1
  <2> QED
    BY <2>2, <2>3, <2>4, <2>5 DEF ReadyInv
<1>2. ASSUME IInv, ReadyInv, [Next]_vars PROVE ReadyInv'
  <2>1. CASE UNCHANGED vars
    BY <1>2, <2>1 DEF vars, ReadyInv
  <2>2. ASSUME NEW s \in Servers, ServerStep(s) PROVE ReadyInv'
    BY <1>2, <2>2, ServerReady
  <2>3. ASSUME NEW c \in Controllers, ControllerStep(c) \/ TimeOut(c) \/ Interrupt(c)
        PROVE  ReadyInv'
    BY <1>2, <2>3, CommandReady
  <2>4. CASE LaunchAtLogin
    <3>0. server \in [Servers -> ServerPhases]
      BY <1>2 DEF IInv, Shape
    <3>1. UNCHANGED <<eventVars, killed>> /\ \E s \in Free : Move(s, "spawned")
      BY <2>4 DEF LaunchAtLogin
    <3>2. \A s \in Servers : /\ server[s] = "serving" => server'[s] = "serving"
                             /\ server'[s] = "dying" => server[s] = "dying"
      BY <3>0, <3>1, SlotIsFree DEF Move
    <3> QED
      BY <1>2, <3>1, <3>2, EventsLeft, SharingKeeps
  <2>5. ASSUME NEW c \in Controllers, NEW command \in Commands, Manage(c, command) PROVE ReadyInv'
    BY <1>2, <2>5, EventsLeft, SharingKeeps DEF Manage
  <2> QED
    BY <1>2, <2>1, <2>2, <2>3, <2>4, <2>5 DEF Next
<1> QED
  BY <1>1, <1>2, Invariance, PTL DEF Spec

\* When start() returns Ok after it has spawned a process, a server can be reached or was
\* asked to stop, as long as no start has killed a process: mark_ready comes after the port
\* is bound, and the ready event is gone before the stop event's signal.
THEOREM StartReady == Spec => StartMeansReady
<1>1. ASSUME IInv, TypeOK, ReadyInv, [Next]_vars, NEW c \in Controllers,
             At(c, "ready?"), ctl'[c].at = "idle", events' = events, ~killed
      PROVE  (\E s \in Servers : server[s] = "serving") \/ signalled["stop"]
  <2>1. ControllerStep(c) \/ TimeOut(c) \/ Interrupt(c)
    BY <1>1, OwnCommand DEF At
  <2>2. ~Interrupt(c)
    <3>1. events + 1 # events
      BY <1>1, SMTT(60) DEF TypeOK
    <3> QED
      BY <1>1, <3>1 DEF Interrupt, Happens
  <2>3. \A to : to # "idle" => ~Goto(c, to)
    BY <1>1, SMTT(60) DEF Goto, IInv, Shape, Command
  <2>4. AwaitReady(c)
    BY <1>1, <2>1, <2>2, <2>3 DEF ControllerStep, TimeOut, At, Enable, Values, Remove, Status,
       CheckStart, Spawn, RequestStop, CleanedUp, CleanupFails, StopEvent, SignalStop,
       AwaitStopped, NotReady, KillChild, NoStopEvent, NotStopped
  <2>5. signalled["ready"]
    <3>1. ctl'[c].at # ctl[c].at
      BY <1>1 DEF At
    <3>2. ASSUME NEW at \in {"clean up", "ready?"},
                 ctl' = [ctl EXCEPT ![c] = [@ EXCEPT !.seen = TRUE, !.at = at]]
          PROVE  FALSE
      <4>1. ctl'[c].at = at
        BY <1>1, <3>2 DEF IInv, Shape, Command
      <4> QED
        BY <1>1, <3>2, <4>1
    <3> QED
      BY <2>3, <2>4, <3>1, <3>2 DEF AwaitReady, IsRunning
  <2> QED
    BY <1>1, <2>5 DEF ReadyInv
<1>2. IInv /\ TypeOK /\ ReadyInv /\ [Next]_vars =>
        [\A c \in Controllers :
            At(c, "ready?") /\ ctl'[c].at = "idle" /\ events' = events /\ ~killed =>
                (\E s \in Servers : server[s] = "serving") \/ signalled["stop"]]_vars
  BY <1>1
<1> QED
  BY <1>2, Invariance, TypeCorrect, ReadyInvariance, PTL DEF Spec, StartMeansReady
=============================================================================
