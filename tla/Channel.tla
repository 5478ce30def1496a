------------------------------ MODULE Channel ------------------------------
(***************************************************************************)
(* One SSH session channel of an authenticated connection: the requests    *)
(* that handler.rs accumulates, and the task of session.rs that runs the   *)
(* session: a child process on pipes, on a pseudo-terminal, or a custom    *)
(* in-process handler.  The client, the child process and russh are        *)
(* external: russh sends nothing on a channel the server has closed, and   *)
(* what it sends is the sequence `wire`.  Data is counted in chunks.       *)
(*                                                                         *)
(* SSH flow control is not modelled: a client that is there keeps its      *)
(* window open, so that sending a chunk never waits.  What is said of the  *)
(* end of a session is said of such clients and of those that are gone.    *)
(***************************************************************************)
EXTENDS Integers, Sequences, FiniteSets

CONSTANTS
    CustomHandlers, \* is a SessionHandler installed? the cases considered
    WantsPty,       \* does the client ask for a terminal?
    LateSubsystem,  \* does the client ask for a subsystem on a started channel?
    Widths,         \* widths in pty-req and window-change requests (u32)
    MaxChunks,      \* bound: chunks of output per stream
    MaxResizes      \* bound: window-change requests

ASSUME ChannelAssumption ==
    /\ CustomHandlers \subseteq BOOLEAN /\ WantsPty \in BOOLEAN /\ LateSubsystem \in BOOLEAN
    /\ Widths \subseteq Nat
    /\ MaxChunks \in Nat /\ MaxResizes \in Nat

VARIABLES
    entry,     \* the handler's channel map has the channel
    channel,   \* ChannelState.channel is Some
    pty,       \* ChannelState.pty: a width, or NoPty
    resize,    \* unbounded resize queue into the session
    sftp,      \* ChannelState.sftp
    starts,    \* sessions and subsystems started on the channel
    mode,      \* "none", "pipe", "pty", "custom", "sftp"
    pc,        \* how far run_session has come
    width,     \* width of the session's terminal, asked for and then real
    asked,     \* history: the width the client asked for last
    resizes,   \* number of window-change requests
    child,     \* "none", "running", "exited"
    status,    \* how it exited
    hup,       \* it was sent SIGHUP
    stdin,     \* the child's standard input is open
    pipe,      \* pipe[s]: unread chunks of stream s
    open,      \* open[s]: somebody can still write to stream s
    made,      \* made[s]: chunks written to stream s so far
    pumping,   \* pumping[s]: the copying task, or the reader thread, runs
    queue,     \* chunks the terminal's reader thread has passed on
    forward,   \* run_custom_handler still forwards client input
    wire,      \* what was sent to the client
    eof,       \* the client has sent EOF
    closed     \* the client has closed the channel, or is gone

handlerVars == <<entry, channel, pty, sftp, starts>>
terminalVars == <<resize, width, asked, resizes>>
childVars == <<child, status, hup, stdin, open, made>>
clientVars == <<eof, closed>>
vars == <<entry, channel, pty, resize, sftp, starts, mode, pc, width, asked, resizes,
          child, status, hup, stdin, pipe, open, made, pumping, queue, forward, wire,
          eof, closed>>

Streams == {"out", "err"}
NoPty == -1
NoStatus == [kind |-> "none", n |-> 0]
\* std::process::ExitStatus and a failed wait (a Windows code keeps its 32 bits
\* as a u32); a custom handler may return a negative code.
Statuses == [kind : {"code"}, n : {0, 3}] \cup [kind : {"signal"}, n : {1}]
              \cup [kind : {"lost"}, n : {0}]
HandlerCodes == [kind : {"code"}, n : {0, 3, -1}]
Exits == {[msg |-> "exit", n |-> n] : n \in {0, 1, 3, 127, 129}}
Plain(m) == [msg |-> m, n |-> 0]
Messages == Exits \cup {Plain(m) : m \in Streams \cup {"eof", "close"}}

\* `as u16`
AsU16(w) == w % 2^16

\* .max(1) when a terminal gets the size.
AtLeastOne(w) == IF w = 0 THEN 1 ELSE w

\* exit_code_of: the code, 128 + signal, or 1 if wait failed.
ExitCodeOf(s) == CASE s.kind = "code" -> s.n
                   [] s.kind = "signal" -> 128 + s.n
                   [] OTHER -> 1

Sent(m) == \E i \in 1 .. Len(wire) : wire[i].msg = m

\* russh: nothing is sent on a channel that one side has closed.
Writable == ~closed /\ ~Sent("close")
Send(msgs) == wire' = IF Writable THEN wire \o msgs ELSE wire

Init ==
    /\ entry = FALSE
    /\ channel = FALSE
    /\ pty = NoPty
    /\ resize = <<>>
    /\ sftp = FALSE
    /\ starts = 0
    /\ mode = "none"
    /\ pc = "none"
    /\ width = NoPty
    /\ asked = NoPty
    /\ resizes = 0
    /\ child = "none"
    /\ status = NoStatus
    /\ hup = FALSE
    /\ stdin = FALSE
    /\ pipe = [s \in Streams |-> 0]
    /\ open = [s \in Streams |-> FALSE]
    /\ made = [s \in Streams |-> 0]
    /\ pumping = [s \in Streams |-> FALSE]
    /\ queue = 0
    /\ forward = FALSE
    /\ wire = <<>>
    /\ eof = FALSE
    /\ closed = FALSE

runnerVars == <<mode, pc, pipe, pumping, queue, forward, wire>>

-----------------------------------------------------------------------------
(* The connection's handler: requests of the client.                       *)

ChannelOpenSession ==
    /\ ~entry /\ ~closed
    /\ entry' = TRUE
    /\ channel' = TRUE
    /\ UNCHANGED <<pty, sftp, starts, terminalVars, childVars, runnerVars, clientVars>>

\* pty_request: remembered even if the session has started without it.
PtyRequest(w) ==
    /\ entry /\ ~closed
    /\ WantsPty
    /\ pty' = AsU16(w)
    /\ asked' = IF channel THEN w ELSE asked
    /\ UNCHANGED <<entry, channel, sftp, starts, resize, width, resizes, childVars,
                   runnerVars, clientVars>>

\* Mutant of WindowChange: the queue holds one size.
WindowChangeLimited(w) ==
    /\ entry /\ ~closed
    /\ resizes < MaxResizes
    /\ resizes' = resizes + 1
    /\ resize' = IF mode \in {"none", "sftp"} \/ Len(resize) >= 1 THEN resize
                 ELSE Append(resize, AsU16(w))
    /\ asked' = IF mode \in {"none", "sftp"} THEN asked ELSE w
    /\ UNCHANGED <<handlerVars, width, childVars, runnerVars, clientVars>>

\* window_change_request: sent to a session that has started, else dropped.
WindowChange(w) ==
    /\ entry /\ ~closed
    /\ resizes < MaxResizes
    /\ resizes' = resizes + 1
    /\ resize' = IF mode \in {"none", "sftp"} THEN resize ELSE Append(resize, AsU16(w))
    /\ asked' = IF mode \in {"none", "sftp"} THEN asked ELSE w
    /\ UNCHANGED <<handlerVars, width, childVars, runnerVars, clientVars>>

\* shell_request and exec_request: start_session takes the channel and spawns
\* run_session, once.
StartSession ==
    /\ entry /\ ~closed
    /\ channel
    /\ channel' = FALSE
    /\ starts' = starts + 1
    /\ \E custom \in CustomHandlers :
         mode' = IF custom THEN "custom" ELSE IF pty # NoPty THEN "pty" ELSE "pipe"
    /\ pc' = "spawn"
    /\ width' = pty
    /\ UNCHANGED <<entry, pty, sftp, resize, asked, resizes, childVars, pipe, pumping, queue,
                   forward, wire, clientVars>>

\* subsystem_request("sftp"): the flag is set first, then the channel is taken
\* if it is still there.
SubsystemRequest ==
    /\ entry /\ ~closed
    /\ channel \/ LateSubsystem
    /\ ~sftp
    /\ sftp' = TRUE
    /\ channel' = FALSE
    /\ IF channel THEN starts' = starts + 1 /\ mode' = "sftp"
                  ELSE UNCHANGED <<starts, mode>>
    /\ UNCHANGED <<entry, pty, terminalVars, childVars, pc, pipe, pumping, queue, forward,
                   wire, clientVars>>

\* channel_eof: a channel marked as SFTP is answered and closed by the handler.
ChannelEof ==
    /\ entry /\ ~closed
    /\ ~eof
    /\ eof' = TRUE
    /\ IF sftp THEN Send(<<[msg |-> "exit", n |-> 0], Plain("eof"), Plain("close")>>)
               ELSE UNCHANGED wire
    /\ UNCHANGED <<handlerVars, terminalVars, childVars, mode, pc, pipe, pumping, queue,
                   forward, closed>>

\* channel_close, or the connection is lost and the handler is dropped: the
\* senders of the resize queue and the map entry go away.
ChannelClose ==
    /\ entry /\ ~closed
    /\ closed' = TRUE
    /\ entry' = FALSE
    /\ channel' = FALSE
    /\ UNCHANGED <<pty, sftp, starts, terminalVars, childVars, runnerVars, eof>>

-----------------------------------------------------------------------------
(* External: the child process and its descendants, or the custom handler, *)
(* and the SFTP server.                                                    *)

\* Output is written to a pipe or a terminal (whose one stream is "out").
ChildWrites(s) ==
    /\ child = "running" \/ (child = "exited" /\ mode # "custom")
    /\ open[s] /\ made[s] < MaxChunks
    /\ made' = [made EXCEPT ![s] = @ + 1]
    /\ IF mode = "custom" THEN Send(<<Plain(s)>>) /\ UNCHANGED pipe
       ELSE /\ pipe' = [pipe EXCEPT ![s] = IF pumping[s] THEN @ + 1 ELSE @]
            /\ UNCHANGED wire
    /\ UNCHANGED <<handlerVars, terminalVars, child, status, hup, stdin, open, mode, pc,
                   pumping, queue, forward, clientVars>>

\* The child, then the last descendant that shares the stream, closes it.
ChildCloses(s) ==
    /\ open[s]
    /\ mode # "custom"
    /\ open' = [open EXCEPT ![s] = FALSE]
    /\ UNCHANGED <<handlerVars, terminalVars, child, status, hup, stdin, made, runnerVars,
                   clientVars>>

\* The child exits (descendants may keep its streams open); the custom handler
\* returns, and drops its ends.
ChildExits ==
    /\ child = "running"
    /\ child' = "exited"
    /\ IF pc \in {"pump", "reap"}
         THEN status' \in (IF mode = "custom" THEN HandlerCodes ELSE Statuses)
         ELSE UNCHANGED status
    /\ open' = IF mode = "custom" THEN [s \in Streams |-> FALSE] ELSE open
    /\ UNCHANGED <<handlerVars, terminalVars, hup, stdin, made, runnerVars, clientVars>>

\* The SFTP server answers a request.
SftpWrites ==
    /\ mode = "sftp"
    /\ made["out"] < MaxChunks
    /\ made' = [made EXCEPT !["out"] = @ + 1]
    /\ Send(<<Plain("out")>>)
    /\ UNCHANGED <<handlerVars, terminalVars, child, status, hup, stdin, open, mode, pc,
                   pipe, pumping, queue, forward, clientVars>>

-----------------------------------------------------------------------------
(* run_session.                                                            *)

\* The child is started, in the start directory or else in sshdt's own; the
\* pumps run.  A terminal has one stream.
Spawn ==
    /\ pc = "spawn"
    /\ pc' = "pump"
    /\ child' = "running"
    /\ open' = [s \in Streams |-> s = "out" \/ mode # "pty"]
    /\ pumping' = [s \in Streams |-> mode = "pipe" \/ (mode = "pty" /\ s = "out")]
    /\ stdin' = TRUE
    /\ forward' = (mode = "custom")
    /\ width' = IF mode = "pty" THEN AtLeastOne(width) ELSE width
    /\ UNCHANGED <<handlerVars, resize, asked, resizes, status, hup, made, mode, pipe,
                   queue, wire, clientVars>>

\* Both attempts to start it fail: 127, with a message if there is no terminal.
SpawnFails ==
    /\ pc = "spawn"
    /\ mode \in {"pipe", "pty"}
    /\ pc' = "exit"
    /\ status' = [kind |-> "code", n |-> 127]
    /\ IF mode = "pipe" THEN Send(<<Plain("err")>>) ELSE UNCHANGED wire
    /\ UNCHANGED <<handlerVars, terminalVars, child, hup, stdin, open, made, mode, pipe,
                   pumping, queue, forward, clientVars>>

\* run_pty: the terminal cannot be cloned for the threads; the child, already
\* started, is left alone.
PtySetupFails ==
    /\ pc = "spawn"
    /\ mode = "pty"
    /\ pc' = "exit"
    /\ child' = "running"
    /\ status' = [kind |-> "lost", n |-> 0]
    /\ UNCHANGED <<handlerVars, terminalVars, hup, stdin, open, made, mode, pipe, pumping,
                   queue, forward, wire, clientVars>>

\* run_pipe: stdout_task or stderr_task copies a chunk; it ends when the client
\* is gone.
PumpCopies(s) ==
    /\ mode = "pipe" /\ pumping[s]
    /\ pipe[s] > 0
    /\ Send(<<Plain(s)>>)
    /\ pipe' = [pipe EXCEPT ![s] = IF Writable THEN @ - 1 ELSE 0]
    /\ pumping' = [pumping EXCEPT ![s] = Writable]
    /\ UNCHANGED <<handlerVars, terminalVars, childVars, mode, pc, queue, forward,
                   clientVars>>

\* ... or at the end of the stream.
PumpEnds(s) ==
    /\ mode = "pipe" /\ pumping[s]
    /\ pipe[s] = 0 /\ ~open[s]
    /\ pumping' = [pumping EXCEPT ![s] = FALSE]
    /\ UNCHANGED <<handlerVars, terminalVars, childVars, mode, pc, pipe, queue, forward,
                   wire, clientVars>>

\* Mutant of StdinPumpEnds: the pump keeps the child's input.
StdinKept ==
    /\ mode = "pipe" /\ pc = "pump"
    /\ stdin
    /\ eof \/ closed
    /\ UNCHANGED vars

\* run_pipe: the client's EOF, or its end, closes the child's input.
StdinPumpEnds ==
    /\ mode = "pipe" /\ pc = "pump"
    /\ stdin
    /\ eof \/ closed
    /\ stdin' = FALSE
    /\ UNCHANGED <<handlerVars, terminalVars, child, status, hup, open, made, runnerVars,
                   clientVars>>

\* Mutant of PipeChildDone: the input pump is awaited too.
PipeWaitsForInput ==
    /\ mode = "pipe" /\ pc = "pump"
    /\ child = "exited"
    /\ ~stdin
    /\ pc' = "drain"
    /\ UNCHANGED <<handlerVars, terminalVars, childVars, mode, pipe, pumping, queue,
                   forward, wire, clientVars>>

\* run_pipe: child.wait() returns in either arm of the select; the input pump is
\* dropped.
PipeChildDone ==
    /\ mode = "pipe" /\ pc = "pump"
    /\ child = "exited"
    /\ stdin' = FALSE
    /\ pc' = "drain"
    /\ UNCHANGED <<handlerVars, terminalVars, child, status, hup, open, made, mode, pipe,
                   pumping, queue, forward, wire, clientVars>>

\* Mutant of PipeDrained: only the first task is awaited.
PipeDrainedOut ==
    /\ mode = "pipe" /\ pc = "drain"
    /\ ~pumping["out"]
    /\ pc' = "exit"
    /\ UNCHANGED <<handlerVars, terminalVars, childVars, mode, pipe, pumping, queue,
                   forward, wire, clientVars>>

\* run_pipe: both output tasks are awaited.
PipeDrained ==
    /\ mode = "pipe" /\ pc = "drain"
    /\ \A s \in Streams : ~pumping[s]
    /\ pc' = "exit"
    /\ UNCHANGED <<handlerVars, terminalVars, childVars, mode, pipe, pumping, queue,
                   forward, wire, clientVars>>

\* run_pty: the reader thread passes a chunk on, or ends with the terminal or
\* when nobody receives any more.
PtyRead ==
    /\ mode = "pty" /\ pumping["out"]
    /\ \/ /\ pipe["out"] > 0 /\ pc \in {"pump", "reap", "drain"}
          /\ pipe' = [pipe EXCEPT !["out"] = @ - 1]
          /\ queue' = queue + 1
          /\ UNCHANGED pumping
       \/ /\ pipe["out"] > 0 /\ pc \notin {"pump", "reap", "drain"}
          /\ pipe' = [pipe EXCEPT !["out"] = 0]
          /\ pumping' = [pumping EXCEPT !["out"] = FALSE]
          /\ UNCHANGED queue
       \/ /\ pipe["out"] = 0 /\ ~open["out"]
          /\ pumping' = [pumping EXCEPT !["out"] = FALSE]
          /\ UNCHANGED <<pipe, queue>>
    /\ UNCHANGED <<handlerVars, terminalVars, childVars, mode, pc, forward, wire, clientVars>>

\* run_pty, the loop: output goes to the client; if it is gone the child is hung
\* up, and waited for.
PtyForwards ==
    /\ mode = "pty" /\ pc = "pump"
    /\ queue > 0
    /\ queue' = queue - 1
    /\ Send(<<Plain("out")>>)
    /\ hup' = (hup \/ ~Writable)
    /\ pc' = IF Writable THEN "pump" ELSE "reap"
    /\ UNCHANGED <<handlerVars, terminalVars, child, status, stdin, open, made, mode, pipe,
                   pumping, forward, clientVars>>

\* run_pty, the loop: the reader has ended, so the child is waited for.
PtyOutputEnds ==
    /\ mode = "pty" /\ pc = "pump"
    /\ queue = 0 /\ ~pumping["out"]
    /\ pc' = "reap"
    /\ UNCHANGED <<handlerVars, terminalVars, childVars, mode, pipe, pumping, queue,
                   forward, wire, clientVars>>

\* run_pty, the loop: a new size.
PtyResizes ==
    /\ mode = "pty" /\ pc = "pump"
    /\ resize # <<>>
    /\ width' = AtLeastOne(Head(resize))
    /\ resize' = Tail(resize)
    /\ UNCHANGED <<handlerVars, asked, resizes, childVars, runnerVars, clientVars>>

\* run_pty: child.wait() returns, or the poll of the loop finds that it exited.
PtyChildDone ==
    /\ mode = "pty" /\ pc \in {"pump", "reap"}
    /\ child = "exited"
    /\ pc' = "drain"
    /\ UNCHANGED <<handlerVars, terminalVars, childVars, mode, pipe, pumping, queue,
                   forward, wire, clientVars>>

\* run_pty: what is left is flushed ...
PtyFlushes ==
    /\ mode = "pty" /\ pc = "drain"
    /\ queue > 0
    /\ queue' = queue - 1
    /\ Send(<<Plain("out")>>)
    /\ pc' = IF Writable THEN "drain" ELSE "exit"
    /\ UNCHANGED <<handlerVars, terminalVars, childVars, mode, pipe, pumping, forward,
                   clientVars>>

\* ... until the reader ends.
PtyDrained ==
    /\ mode = "pty" /\ pc = "drain"
    /\ queue = 0 /\ ~pumping["out"]
    /\ pc' = "exit"
    /\ UNCHANGED <<handlerVars, terminalVars, childVars, mode, pipe, pumping, queue,
                   forward, wire, clientVars>>

\* ... or for two seconds.
PtyDrainTimesOut ==
    /\ mode = "pty" /\ pc = "drain"
    /\ pc' = "exit"
    /\ UNCHANGED <<handlerVars, terminalVars, childVars, mode, pipe, pumping, queue,
                   forward, wire, clientVars>>

\* run_custom_handler: forwarding ends with the client's input.  If the handler
\* has returned, it also ends with the next chunk of input.
ForwardEnds ==
    /\ forward
    /\ eof \/ closed
    /\ forward' = FALSE
    /\ UNCHANGED <<handlerVars, terminalVars, childVars, mode, pc, pipe, pumping, queue,
                   wire, clientVars>>

ClientTypes ==
    /\ forward /\ child = "exited"
    /\ ~eof /\ ~closed
    /\ forward' = FALSE
    /\ UNCHANGED <<handlerVars, terminalVars, childVars, mode, pc, pipe, pumping, queue,
                   wire, clientVars>>

\* run_custom_handler: join!(handler.run(..), forward)
CustomDone ==
    /\ mode = "custom" /\ pc = "pump"
    /\ child = "exited"
    /\ ~forward
    /\ pc' = "exit"
    /\ UNCHANGED <<handlerVars, terminalVars, childVars, mode, pipe, pumping, queue,
                   forward, wire, clientVars>>

\* What finish_channel sends at each of its three steps; a custom handler's code
\* is raised to zero.
FinalMessage(step) ==
    CASE step = "exit" ->
           [msg |-> "exit", n |-> IF mode = "custom" /\ status.n < 0 THEN 0
                                  ELSE ExitCodeOf(status)]
      [] OTHER -> Plain(step)

\* Mutant of FinishChannel: EOF comes first.
FinishEofFirst ==
    \E step \in {<<"exit", "eof", "eof">>, <<"eof", "close", "exit">>,
                  <<"close", "done", "close">>} :
        /\ pc = step[1]
        /\ pc' = step[2]
        /\ Send(<<FinalMessage(step[3])>>)
        /\ UNCHANGED <<handlerVars, terminalVars, childVars, mode, pipe, pumping, queue,
                       forward, clientVars>>

\* finish_channel: exit-status, EOF, close.
FinishChannel ==
    \E step \in {<<"exit", "eof">>, <<"eof", "close">>, <<"close", "done">>} :
        /\ pc = step[1]
        /\ pc' = step[2]
        /\ Send(<<FinalMessage(step[1])>>)
        /\ UNCHANGED <<handlerVars, terminalVars, childVars, mode, pipe, pumping, queue,
                       forward, clientVars>>

-----------------------------------------------------------------------------
Handler ==
    \/ ChannelOpenSession \/ StartSession \/ SubsystemRequest \/ ChannelEof \/ ChannelClose
    \/ \E w \in Widths : PtyRequest(w) \/ WindowChange(w)

Runner ==
    \/ Spawn \/ SpawnFails \/ PtySetupFails
    \/ StdinPumpEnds \/ PipeChildDone \/ PipeDrained
    \/ PtyForwards \/ PtyOutputEnds \/ PtyResizes \/ PtyChildDone \/ PtyFlushes
    \/ PtyDrained \/ PtyDrainTimesOut
    \/ ForwardEnds \/ CustomDone \/ FinishChannel

Pump(s) == PumpCopies(s) \/ PumpEnds(s)

Next ==
    \/ Handler \/ Runner \/ PtyRead \/ ChildExits \/ SftpWrites \/ ClientTypes
    \/ \E s \in Streams : Pump(s) \/ ChildWrites(s) \/ ChildCloses(s)

Spec == Init /\ [][Next]_vars

\* The server's tasks and threads run.  A child ends when it is hung up, its
\* input is closed or it has let go of its terminal, and its descendants end with
\* it; a custom handler returns at the end of its input; russh's send of a chunk
\* returns (the client's window is open).  Nothing else is assumed of children and
\* clients.
Fairness ==
    /\ WF_vars(Runner) /\ WF_vars(PtyRead)
    /\ \A s \in Streams : /\ WF_vars(Pump(s))
                          /\ WF_vars(child = "exited" /\ ChildCloses(s))
    /\ WF_vars(/\ \/ hup \/ ~stdin
                  \/ mode = "custom" /\ ~forward
                  \/ mode = "pty" /\ ~open["out"]
               /\ ChildExits)

FairSpec == Spec /\ Fairness

-----------------------------------------------------------------------------
(* Properties                                                              *)

\* Every variable keeps its type; a terminal is never without columns.
TypeOK ==
    /\ entry \in BOOLEAN /\ channel \in BOOLEAN /\ sftp \in BOOLEAN
    /\ pty \in -1 .. 2^16 - 1
    /\ resize \in Seq(0 .. 2^16 - 1)
    /\ starts \in 0 .. 1
    /\ mode \in {"none", "pipe", "pty", "custom", "sftp"}
    /\ pc \in {"none", "spawn", "pump", "reap", "drain", "exit", "eof", "close", "done"}
    /\ mode = "pty" /\ pc = "pump" => width \in 1 .. 2^16 - 1
    /\ asked \in Widths \cup {NoPty}
    /\ resizes \in 0 .. MaxResizes
    /\ child \in {"none", "running", "exited"}
    /\ status \in Statuses \cup HandlerCodes
                    \cup {NoStatus, [kind |-> "code", n |-> 127]}
    /\ hup \in BOOLEAN /\ stdin \in BOOLEAN /\ forward \in BOOLEAN
    /\ pipe \in [Streams -> 0 .. MaxChunks]
    /\ open \in [Streams -> BOOLEAN]
    /\ made \in [Streams -> 0 .. MaxChunks]
    /\ pumping \in [Streams -> BOOLEAN]
    /\ queue \in 0 .. MaxChunks
    /\ wire \in Seq(Messages)
    /\ eof \in BOOLEAN /\ closed \in BOOLEAN

\* What the client receives is data, then one exit-status, one EOF and one
\* close, in this order, although several tasks and the handler write to the
\* channel (tests exec_sends_one_eof_after_exit_status and
\* exec_spawn_failure_sends_one_eof_after_exit_status).
WireOrdered ==
    LET rank(m) == CASE m.msg \in Streams -> 0 [] m.msg = "exit" -> 1
                     [] m.msg = "eof" -> 2 [] OTHER -> 3 IN
      \A i, j \in 1 .. Len(wire) : i < j =>
        /\ rank(wire[i]) <= rank(wire[j])
        /\ rank(wire[i]) = rank(wire[j]) => wire[i].msg \in Streams

\* On pipes, all output of the child is on the wire before its exit-status,
\* whichever of its streams ends last and whether or not the child exits before
\* them ("Drain any remaining output before reporting exit status").
OutputBeforeStatus ==
    mode = "pipe" /\ Sent("exit") /\ child = "exited" =>
        \A s \in Streams :
            /\ ~open[s] /\ pipe[s] = 0
            /\ ~closed => Cardinality({i \in 1 .. Len(wire) : wire[i].msg = s}) = made[s]

\* On a terminal, while run_pty runs and the client is there, every chunk of output is on
\* the wire, with the loop or not yet read, once; and the reader thread ends only
\* when all is read and nobody can write any more.  So output is cut off only by the
\* time limit at the end ("bounded so a stuck reader can't hang us").
TerminalOutputKept ==
    mode = "pty" /\ pc \in {"pump", "reap", "drain"} /\ ~closed =>
        /\ Cardinality({i \in 1 .. Len(wire) : wire[i].msg = "out"}) + queue + pipe["out"]
             = made["out"]
        /\ ~pumping["out"] => pipe["out"] = 0 /\ ~open["out"]

\* A terminal always has at least one column, whatever the 16 bits of a size make
\* of the client's 32, and when it has taken up all sizes, it has the last one the
\* client asked for, in the pty request or after the session was started.
TerminalFollowsClient ==
    mode = "pty" /\ pc = "pump"
      => /\ width \in 1 .. 2^16 - 1
         /\ resize = <<>> => width = AtLeastOne(AsU16(asked))

\* The end of a session on a process channel is announced by finish_channel
\* alone ("This is the sole owner of outbound channel EOF").
FinishSendsEof ==
    mode \in {"pipe", "pty", "custom"} /\ Sent("eof") => pc \in {"close", "done"}

\* A session whose child has exited is reported and closed; the client need not send
\* anything for it, only keep its window open or go away; on pipes also the child's
\* descendants have to let go of the streams.
StatusReported ==
    (/\ mode \in {"pipe", "pty"} /\ child = "exited"
     /\ mode = "pipe" => \A s \in Streams : ~open[s])
      ~> (Sent("close") \/ closed)

\* When the client is gone, a session on pipes or with a custom handler ends
\* ("winds down on its own").
WindsDown ==
    (mode \in {"pipe", "custom"} /\ closed) ~> pc = "done"

\* The same for a session on a terminal.
TerminalWindsDown ==
    (mode = "pty" /\ closed) ~> pc = "done"
=============================================================================
