----------------------------- MODULE Guardian ------------------------------
(***************************************************************************)
(* Owned processes (process.rs): a devtunnel CLI process runs under a      *)
(* guardian process, which ends it, with all its descendants, when the     *)
(* owner closes the guardian's input or is gone, and which outlives them.  *)
(* The guardian and the CLI hold the pipes that the owner reads, so the    *)
(* owner sees the exit only when the guardian is gone.                     *)
(***************************************************************************)
CONSTANT Procs  \* slots for owned processes

VARIABLES
    guard,  \* guard[p]: how far the guardian has come, "free" if there is none
    cli,    \* cli[p]: "none", "running", "zombie" (not reaped), "reaped"
    kids,   \* kids[p]: descendants of the CLI run in its process group
    owner,  \* owner[p]: "holds" the guardian's input (OwnedProcess.liveness),
            \* "waits" for the exit after a stop, or is "gone"
    job,    \* job[p]: the command that p was started for
    out     \* out[p]: what the CLI has written, Silent if nothing

guardianVars == <<guard, cli, kids, owner, job, out>>

NoJob == "none"
Silent == [kind |-> "silent"]
GuardPhases == {"free", "starting", "watching", "killing", "reaping", "gone"}

GuardianInit ==
    /\ guard = [p \in Procs |-> "free"]
    /\ cli = [p \in Procs |-> "none"]
    /\ kids = [p \in Procs |-> FALSE]
    /\ owner = [p \in Procs |-> "gone"]
    /\ job = [p \in Procs |-> NoJob]
    /\ out = [p \in Procs |-> Silent]

\* spawn_owned
SpawnOwned(p, j) ==
    /\ guard[p] = "free"
    /\ guard' = [guard EXCEPT ![p] = "starting"]
    /\ owner' = [owner EXCEPT ![p] = "holds"]
    /\ job' = [job EXCEPT ![p] = j]
    /\ UNCHANGED <<cli, kids, out>>

\* stop(): the owner goes on reading events.
StopOwned(p) ==
    /\ owner' = [owner EXCEPT ![p] = "waits"]
    /\ UNCHANGED <<guard, cli, kids, job, out>>

\* The slot of a process that is gone and that nobody waits for is free.
Vacate(p) ==
    /\ guard' = [guard EXCEPT ![p] = "free"]
    /\ cli' = [cli EXCEPT ![p] = "none"]
    /\ owner' = [owner EXCEPT ![p] = "gone"]
    /\ job' = [job EXCEPT ![p] = NoJob]
    /\ out' = [out EXCEPT ![p] = Silent]
    /\ UNCHANGED kids

\* The drop of the OwnedProcess.
DropOwned(p) ==
    \/ guard[p] = "gone" /\ Vacate(p)
    \/ /\ guard[p] # "gone"
       /\ owner' = [owner EXCEPT ![p] = "gone"]
       /\ UNCHANGED <<guard, cli, kids, job, out>>

\* next_event() returns Exited: both pipes are at their end and the guardian
\* has been waited for.
Exited(p) == guard[p] = "gone"

-----------------------------------------------------------------------------
\* The guardian exits.
Leave(p) ==
    \/ owner[p] = "gone" /\ Vacate(p)
    \/ /\ owner[p] # "gone"
       /\ guard' = [guard EXCEPT ![p] = "gone"]
       /\ cli' = [cli EXCEPT ![p] = "reaped"]
       /\ UNCHANGED <<kids, owner, job, out>>

\* guardian(): the owner is already known to be gone.
QuitAtOnce(p) ==
    /\ guard[p] = "starting" /\ owner[p] # "holds"
    /\ Leave(p)

\* run_unix_child starts the CLI; the thread that reads the input may not have
\* seen its end yet.
StartCli(p) ==
    /\ guard[p] = "starting"
    /\ guard' = [guard EXCEPT ![p] = "watching"]
    /\ cli' = [cli EXCEPT ![p] = "running"]
    /\ kids' = [kids EXCEPT ![p] = TRUE]
    /\ UNCHANGED <<owner, job, out>>

\* The CLI cannot be started.
StartFails(p) ==
    /\ guard[p] = "starting"
    /\ Leave(p)

\* Mutant of OwnerLost: the owner is looked at only before the CLI is started.
OwnerIgnored(p) ==
    /\ guard[p] = "watching" /\ owner[p] # "holds" /\ cli[p] = "zombie"
    /\ guard' = [guard EXCEPT ![p] = "killing"]
    /\ UNCHANGED <<cli, kids, owner, job, out>>

\* recv_timeout: the input was closed.
OwnerLost(p) ==
    /\ guard[p] = "watching" /\ owner[p] # "holds"
    /\ guard' = [guard EXCEPT ![p] = "killing"]
    /\ UNCHANGED <<cli, kids, owner, job, out>>

\* waitid: the CLI has exited; it stays a zombie.
ExitSeen(p) ==
    /\ guard[p] = "watching" /\ cli[p] = "zombie"
    /\ guard' = [guard EXCEPT ![p] = "killing"]
    /\ UNCHANGED <<cli, kids, owner, job, out>>

\* Mutant of KillGroup: the signal is sent to the process, not to its group.
KillLeader(p) ==
    /\ guard[p] = "killing"
    /\ guard' = [guard EXCEPT ![p] = "reaping"]
    /\ cli' = [cli EXCEPT ![p] = IF @ = "running" THEN "zombie" ELSE @]
    /\ UNCHANGED <<kids, owner, job, out>>

\* kill(-pid, SIGKILL)
KillGroup(p) ==
    /\ guard[p] = "killing"
    /\ guard' = [guard EXCEPT ![p] = "reaping"]
    /\ cli' = [cli EXCEPT ![p] = IF @ = "running" THEN "zombie" ELSE @]
    /\ kids' = [kids EXCEPT ![p] = FALSE]
    /\ UNCHANGED <<owner, job, out>>

\* child.wait(), and the guardian exits.
Reap(p) ==
    /\ guard[p] = "reaping"
    /\ Leave(p)

\* One step of a guardian that needs no fault.
GuardianStep(p) ==
    \/ QuitAtOnce(p) \/ StartCli(p) \/ OwnerLost(p) \/ ExitSeen(p)
    \/ KillGroup(p) \/ Reap(p)

GuardianTypeOK ==
    /\ guard \in [Procs -> GuardPhases]
    /\ cli \in [Procs -> {"none", "running", "zombie", "reaped"}]
    /\ kids \in [Procs -> BOOLEAN]
    /\ owner \in [Procs -> {"holds", "waits", "gone"}]
=============================================================================
