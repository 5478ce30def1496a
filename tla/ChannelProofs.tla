--------------------------- MODULE ChannelProofs ----------------------------
(***************************************************************************)
(* The session channel, for all widths, any number of chunks of output and *)
(* of window changes: the order of what the client receives, that all      *)
(* output of a process on pipes is sent before its status, and that a      *)
(* terminal has the size its client asked for last.                        *)
(*                                                                         *)
(* The order needs to know which tasks can still write at each place of    *)
(* run_session (CtlInv) and which messages the wire can hold there         *)
(* (WireInv); that nothing is lost needs a balance of chunks written, in   *)
(* the pipe and on the wire (PumpInv).  Both need that no subsystem is     *)
(* asked for on a channel that has started (~LateSubsystem): otherwise the *)
(* run channel_subsystem shows that they fail.                             *)
(***************************************************************************)
EXTENDS Channel, FiniteSetTheorems, TLAPS

\* Every step is small; what the provers may need is time.
USE ZenonT(60)

\* The sizes that 16 bits hold.
Sizes == 0 .. 2^16 - 1

\* `as u16` gives 16 bits.
LEMMA U16 == \A w \in Nat : AsU16(w) \in Sizes
<1>1. 2^16 = 65536
  BY SMTT(60)
<1> QED
  BY <1>1, SMTT(60) DEF AsU16, Sizes

\* A terminal gets at least one column.
LEMMA Columns ==
    \A w \in Sizes : /\ AtLeastOne(w) \in Sizes /\ AtLeastOne(w) # 0
                     /\ AtLeastOne(AtLeastOne(w)) = AtLeastOne(w)
<1>1. 2^16 = 65536
  BY SMTT(60)
<1> QED
  BY <1>1, SMTT(60) DEF AtLeastOne, Sizes

\* A terminal session is at c.
Running(c) == mode = "pty" /\ pc = c

\* What only the requests of the client, the start and resizes change.
Idle == <<entry, channel, closed, pty, mode, resize, asked, width>>

\* What the client asked for last is the newest size in the queue or, if that is
\* empty, what the terminal has or will get when the child is started.
TermInv ==
    /\ ~entry /\ ~closed => mode = "none" /\ pty = NoPty /\ ~channel
    /\ channel => mode = "none"
    /\ mode = "none" => resize = <<>>
    /\ asked \in Nat \cup {NoPty} /\ pty \in Sizes \cup {NoPty} /\ resize \in Seq(Sizes)
    /\ channel /\ pty # NoPty => asked \in Nat /\ pty = AsU16(asked)
    /\ Running("spawn") \/ Running("pump") =>
         /\ width \in Sizes /\ asked \in Nat
         /\ resize = <<>> => AtLeastOne(width) = AtLeastOne(AsU16(asked))
         /\ resize # <<>> => resize[Len(resize)] = AsU16(asked)
    /\ Running("pump") => width # 0

\* The steps that have nothing to do with the size of the terminal.
LEMMA OtherSteps ==
    ASSUME \/ SpawnFails \/ PtySetupFails \/ StdinPumpEnds \/ PipeChildDone \/ PipeDrained
           \/ PtyForwards \/ PtyOutputEnds \/ PtyChildDone \/ PtyFlushes \/ PtyDrained
           \/ PtyDrainTimesOut \/ ForwardEnds \/ CustomDone \/ FinishChannel
           \/ PtyRead \/ ChildExits \/ SftpWrites \/ ClientTypes \/ ChannelEof
           \/ \E s \in Streams : Pump(s) \/ ChildWrites(s) \/ ChildCloses(s)
    PROVE  UNCHANGED Idle /\ (pc' \in {"spawn", "pump"} => pc' = pc)
<1> USE DEF Idle, handlerVars, terminalVars, clientVars, runnerVars
<1>1. CASE SpawnFails \/ PtySetupFails \/ StdinPumpEnds \/ PipeChildDone \/ PipeDrained
  BY <1>1 DEF SpawnFails, PtySetupFails, StdinPumpEnds, PipeChildDone, PipeDrained
<1>2. CASE PtyForwards \/ PtyOutputEnds \/ PtyChildDone \/ PtyFlushes \/ PtyDrained
  BY <1>2 DEF PtyForwards, PtyOutputEnds, PtyChildDone, PtyFlushes, PtyDrained
<1>3. CASE PtyDrainTimesOut \/ ForwardEnds \/ CustomDone \/ FinishChannel
  BY <1>3, SMTT(60) DEF PtyDrainTimesOut, ForwardEnds, CustomDone, FinishChannel
<1>4. CASE PtyRead \/ ChildExits \/ SftpWrites \/ ClientTypes \/ ChannelEof
  BY <1>4 DEF PtyRead, ChildExits, SftpWrites, ClientTypes, ChannelEof
<1>5. CASE \E s \in Streams : Pump(s) \/ ChildWrites(s) \/ ChildCloses(s)
  BY <1>5 DEF Pump, PumpCopies, PumpEnds, ChildWrites, ChildCloses
<1> QED
  BY <1>1, <1>2, <1>3, <1>4, <1>5

\* Every step keeps what is known of the size, also pty requests that come too
\* late and window changes that are queued before the child is started.
LEMMA TermKept ==
    ASSUME TermInv, [Next]_vars
    PROVE  TermInv'
<1> USE DEF Running
<1>1. CASE ChannelOpenSession
  BY <1>1 DEF ChannelOpenSession, TermInv, terminalVars, runnerVars, clientVars
<1>2. ASSUME NEW w \in Widths, PtyRequest(w)
      PROVE  TermInv'
  <2>1. w \in Nat /\ AsU16(w) \in Sizes
    BY ChannelAssumption, U16
  <2> QED
    BY <1>2, <2>1 DEF PtyRequest, TermInv, runnerVars, clientVars
<1>3. ASSUME NEW w \in Widths, WindowChange(w)
      PROVE  TermInv'
  <2>1. w \in Nat /\ AsU16(w) \in Sizes
    BY ChannelAssumption, U16
  <2>2. UNCHANGED <<entry, channel, closed, pty, mode, pc, width>>
    BY <1>3 DEF WindowChange, handlerVars, runnerVars, clientVars
  <2>3. CASE mode \in {"none", "sftp"}
    BY <1>3, <2>2, <2>3 DEF WindowChange, TermInv
  <2>4. CASE mode \notin {"none", "sftp"}
    <3>1. resize' = Append(resize, AsU16(w)) /\ asked' = w
      BY <1>3, <2>4 DEF WindowChange
    <3>2. /\ resize' \in Seq(Sizes) /\ resize' # <<>>
          /\ resize'[Len(resize')] = AsU16(w)
      BY <2>1, <3>1, SMTT(60) DEF TermInv
    <3> QED
      BY <2>1, <2>2, <2>4, <3>1, <3>2 DEF TermInv
  <2> QED
    BY <2>3, <2>4
<1>4. CASE StartSession
  BY <1>4 DEF StartSession, TermInv, clientVars, NoPty
<1>5. CASE SubsystemRequest
  BY <1>5 DEF SubsystemRequest, TermInv, terminalVars, clientVars
<1>6. CASE ChannelClose
  BY <1>6 DEF ChannelClose, TermInv, terminalVars, runnerVars
<1>7. CASE Spawn
  BY <1>7, Columns DEF Spawn, TermInv, handlerVars, clientVars
<1>8. CASE PtyResizes
  <2>1. /\ resize # <<>> /\ resize \in Seq(Sizes) /\ resize' = Tail(resize)
        /\ width' = AtLeastOne(Head(resize)) /\ asked' = asked
        /\ Running("pump") /\ UNCHANGED <<entry, channel, closed, pty, mode, pc>>
    BY <1>8 DEF PtyResizes, TermInv, handlerVars, clientVars, runnerVars
  <2>2. /\ Head(resize) \in Sizes /\ resize' \in Seq(Sizes)
        /\ resize' = <<>> => Head(resize) = resize[Len(resize)]
        /\ resize' # <<>> => resize'[Len(resize')] = resize[Len(resize)]
    BY <2>1, SMTT(60)
  <2>3. width' \in Sizes /\ width' # 0 /\ AtLeastOne(width') = width'
    BY <2>1, <2>2, Columns
  <2> QED
    BY <2>1, <2>2, <2>3 DEF TermInv
<1>9. CASE UNCHANGED Idle /\ (pc' \in {"spawn", "pump"} => pc' = pc)
  BY <1>9 DEF Idle, TermInv
<1>10. CASE UNCHANGED vars
  BY <1>9, <1>10 DEF vars, Idle
<1> QED
  BY <1>1, <1>2, <1>3, <1>4, <1>5, <1>6, <1>7, <1>8, <1>9, <1>10, OtherSteps
     DEF Next, Handler, Runner

-----------------------------------------------------------------------------
\* The messages, and in which order they are to come.
Notes == [msg : Streams \cup {"exit", "eof", "close"}, n : Int]
Rank(m) == CASE m.msg \in Streams -> 0 [] m.msg = "exit" -> 1
             [] m.msg = "eof" -> 2 [] OTHER -> 3
\* Nothing on w comes later than k.
Below(w, k) == \A i \in 1 .. Len(w) : Rank(w[i]) <= k
Ordered(w) ==
    \A i, j \in 1 .. Len(w) : i < j =>
        /\ Rank(w[i]) <= Rank(w[j])
        /\ Rank(w[i]) = Rank(w[j]) => w[i].msg \in Streams
Has(w, m) == \E i \in 1 .. Len(w) : w[i].msg = m
Count(w, s) == Cardinality({i \in 1 .. Len(w) : w[i].msg = s})

\* The order of the messages.
LEMMA Ranks ==
    ASSUME NEW m \in Notes
    PROVE  /\ Rank(m) \in 0 .. 3
           /\ Rank(m) = 0 <=> m.msg \in Streams
           /\ m.msg = "exit" => Rank(m) = 1
           /\ m.msg = "eof" => Rank(m) = 2
           /\ m.msg = "close" => Rank(m) = 3
  BY SMTT(60) DEF Notes, Rank, Streams

\* On a wire on which nothing comes later than the data, neither the status nor the
\* close has been sent.
LEMMA NotYet ==
    ASSUME NEW w \in Seq(Notes), Below(w, 0), NEW m \in {"exit", "close"}
    PROVE  ~Has(w, m)
<1>1. SUFFICES ASSUME NEW i \in 1 .. Len(w), w[i].msg = m
               PROVE  FALSE
  BY DEF Has
<1>2. w[i] \in Notes
  BY SMTT(60)
<1>3. m \notin Streams
  BY DEF Streams
<1>4. Rank(w[i]) \in 0 .. 3 /\ Rank(w[i]) # 0
  BY <1>1, <1>2, <1>3, Ranks
<1>5. Rank(w[i]) <= 0
  BY DEF Below
<1> QED
  BY <1>4, <1>5, SMTT(60)

\* A message that is sent is the last one.
LEMMA OneMore ==
    ASSUME NEW w \in Seq(Notes), NEW m \in Notes
    PROVE  /\ w \o <<m>> \in Seq(Notes)
           /\ Len(w \o <<m>>) = Len(w) + 1
           /\ \A i \in 1 .. Len(w) : (w \o <<m>>)[i] = w[i]
           /\ (w \o <<m>>)[Len(w) + 1] = m
  BY SMTT(60)

\* Order is kept by one message after all others, or by data after data.
LEMMA OrderedMore ==
    ASSUME NEW w \in Seq(Notes), NEW m \in Notes, NEW k \in 0 .. 3, Ordered(w), Below(w, k),
           Rank(m) > k \/ (k = 0 /\ Rank(m) = 0)
    PROVE  /\ Ordered(w \o <<m>>) /\ Below(w \o <<m>>, Rank(m))
           /\ \A s : m.msg # s => (Has(w \o <<m>>, s) <=> Has(w, s))
<1> DEFINE v == w \o <<m>>
<1>1. /\ v \in Seq(Notes) /\ Len(v) = Len(w) + 1 /\ Len(w) \in Nat
      /\ \A i \in 1 .. Len(w) : v[i] = w[i]
      /\ v[Len(w) + 1] = m
  BY OneMore, SMTT(60)
<1> HIDE DEF v
<1>2. \A i \in 1 .. Len(w) : Rank(w[i]) \in 0 .. k /\ w[i] \in Notes
  <2>1. \A i \in 1 .. Len(w) : w[i] \in Notes
    BY SMTT(60)
  <2> QED
    BY <2>1, Ranks, SMTT(60) DEF Below
<1>3. Rank(m) \in 0 .. 3
  BY Ranks
<1>4. Below(v, Rank(m))
  BY <1>1, <1>2, <1>3, SMTT(60) DEF Below
<1>5. ASSUME NEW i \in 1 .. Len(v), NEW j \in 1 .. Len(v), i < j
      PROVE  Rank(v[i]) <= Rank(v[j]) /\ (Rank(v[i]) = Rank(v[j]) => v[i].msg \in Streams)
  <2>1. CASE j <= Len(w)
    BY <1>1, <1>5, <2>1, SMTT(60) DEF Ordered
  <2>2. CASE j = Len(w) + 1
    BY <1>1, <1>2, <1>3, <1>5, <2>2, Ranks, SMTT(60)
  <2> QED
    BY <1>1, <2>1, <2>2, SMTT(60)
<1>6. Ordered(v)
  BY <1>5 DEF Ordered
<1>7. \A s : m.msg # s => (Has(v, s) <=> Has(w, s))
  BY <1>1, SMTT(60) DEF Has
<1> QED
  BY <1>4, <1>6, <1>7 DEF v

\* How many chunks of a stream are on the wire.
LEMMA CountMore ==
    ASSUME NEW w \in Seq(Notes), NEW m \in Notes, NEW s
    PROVE  /\ Count(w, s) \in Nat
           /\ Count(w \o <<m>>, s) = IF m.msg = s THEN Count(w, s) + 1 ELSE Count(w, s)
<1> DEFINE v == w \o <<m>>
           I == {i \in 1 .. Len(w) : w[i].msg = s}
           J == {i \in 1 .. Len(v) : v[i].msg = s}
<1>1. /\ Len(v) = Len(w) + 1 /\ Len(w) \in Nat
      /\ \A i \in 1 .. Len(w) : v[i] = w[i]
      /\ v[Len(w) + 1] = m
  BY OneMore, SMTT(60)
<1>2. IsFiniteSet(I) /\ Cardinality(I) \in Nat
  <2>1. IsFiniteSet(1 .. Len(w))
    BY <1>1, FS_Interval, SMTT(60)
  <2>2. IsFiniteSet(I)
    BY <2>1, FS_Subset
  <2> QED
    BY <2>2, FS_CardinalityType
<1>3. J = IF m.msg = s THEN I \cup {Len(w) + 1} ELSE I
  <2> HIDE DEF v
  <2> QED
    BY <1>1, SMTT(60)
<1>4. Len(w) + 1 \notin I
  BY <1>1, SMTT(60)
<1>5. Cardinality(I \cup {Len(w) + 1}) = Cardinality(I) + 1
  BY <1>2, <1>4, FS_AddElement
<1> QED
  BY <1>2, <1>3, <1>5 DEF Count

-----------------------------------------------------------------------------
\* The exit statuses of the model, with any number.
Results == [kind : {"none", "code", "signal", "lost"}, n : Int]
Places == {"none", "spawn", "pump", "reap", "drain", "exit", "eof", "close", "done"}
\* finish_channel has been called.
Ended == {"exit", "eof", "close", "done"}

\* Types, as far as the proofs need them.
Ctl ==
    /\ mode \in {"none", "pipe", "pty", "custom", "sftp"} /\ pc \in Places
    /\ child \in {"none", "running", "exited"} /\ status \in Results
    /\ pipe \in [Streams -> Nat] /\ made \in [Streams -> Nat]
    /\ open = [s \in Streams |-> open[s]] /\ pumping = [s \in Streams |-> pumping[s]]

\* Which tasks exist at which place of run_session.
CtlInv ==
    /\ Ctl
    /\ mode \in {"none", "sftp"} <=> pc = "none"
    /\ pc \in {"none", "spawn"} => child = "none"
    /\ mode = "custom" /\ child = "running" => pc = "pump"
    /\ sftp => mode = "sftp"
    /\ \A s \in Streams :
        /\ mode = "pipe" /\ pumping[s] => pc \in {"pump", "drain"}
        /\ mode = "none" \/ pc = "spawn" => ~pumping[s] /\ made[s] = 0 /\ pipe[s] = 0

\* Every step keeps the places of the tasks.
LEMMA CtlKept ==
    ASSUME TermInv, CtlInv, ~LateSubsystem, [Next]_vars
    PROVE  CtlInv'
<1> USE DEF CtlInv, Ctl, Places, Streams
<1>1. CASE Handler
  <2>1. CASE ChannelOpenSession \/ ChannelEof \/ ChannelClose
    BY <1>1, <2>1, SMTT(60) DEF ChannelOpenSession, ChannelEof, ChannelClose, handlerVars, childVars,
                      runnerVars
  <2>2. CASE \E w \in Widths : PtyRequest(w) \/ WindowChange(w)
    BY <2>2, SMTT(60) DEF PtyRequest, WindowChange, handlerVars, childVars, runnerVars
  <2>3. CASE StartSession
    BY <2>3 DEF StartSession, childVars, TermInv
  <2>4. CASE SubsystemRequest
    BY <2>4 DEF SubsystemRequest, childVars, TermInv
  <2> QED
    BY <1>1, <2>1, <2>2, <2>3, <2>4 DEF Handler
<1>2. CASE Runner
  <2>1. CASE Spawn
    BY <2>1 DEF Spawn, handlerVars
  <2>2. CASE SpawnFails \/ PtySetupFails
    BY <2>2, SMTT(60) DEF SpawnFails, PtySetupFails, handlerVars, Results
  <2>3. CASE StdinPumpEnds \/ PipeChildDone
    BY <2>3, SMTT(60) DEF StdinPumpEnds, PipeChildDone, handlerVars, runnerVars
  <2>4. CASE PipeDrained \/ PtyOutputEnds \/ PtyChildDone \/ PtyDrained \/ PtyDrainTimesOut
    BY <2>4, SMTT(60) DEF PipeDrained, PtyOutputEnds, PtyChildDone, PtyDrained, PtyDrainTimesOut,
                handlerVars, childVars
  <2>5. CASE PtyForwards \/ PtyFlushes
    BY <2>5, SMTT(60) DEF PtyForwards, PtyFlushes, handlerVars, childVars
  <2>6. CASE PtyResizes \/ ForwardEnds \/ CustomDone
    BY <2>6, SMTT(60) DEF PtyResizes, ForwardEnds, CustomDone, handlerVars, childVars, runnerVars
  <2>7. CASE FinishChannel
    BY <2>7, SMTT(60) DEF FinishChannel, handlerVars, childVars
  <2> QED
    BY <1>2, <2>1, <2>2, <2>3, <2>4, <2>5, <2>6, <2>7 DEF Runner
<1>3. CASE PtyRead
  BY <1>3, SMTT(60) DEF PtyRead, handlerVars, childVars
<1>4. CASE ChildExits
  <2>1. status' \in Results
    BY <1>4, SMTT(60) DEF ChildExits, Statuses, HandlerCodes, Results
  <2> QED
    BY <1>4, <2>1 DEF ChildExits, handlerVars, runnerVars
<1>5. CASE SftpWrites
  BY <1>5, SMTT(60) DEF SftpWrites, handlerVars
<1>6. CASE ClientTypes
  BY <1>6 DEF ClientTypes, handlerVars, childVars
<1>7. ASSUME NEW s \in Streams, Pump(s)
      PROVE  CtlInv'
  BY <1>7, SMTT(60) DEF Pump, PumpCopies, PumpEnds, handlerVars, childVars
<1>8. ASSUME NEW s \in Streams, ChildWrites(s)
      PROVE  CtlInv'
  BY <1>8, SMTT(60) DEF ChildWrites, handlerVars
<1>9. ASSUME NEW s \in Streams, ChildCloses(s)
      PROVE  CtlInv'
  BY <1>9 DEF ChildCloses, handlerVars, runnerVars
<1>10. CASE UNCHANGED vars
  BY <1>10 DEF vars
<1> QED
  BY <1>1, <1>2, <1>3, <1>4, <1>5, <1>6, <1>7, <1>8, <1>9, <1>10 DEF Next

-----------------------------------------------------------------------------
\* The latest message that has been sent when run_session is at c.
Reach(c) == IF c = "eof" THEN 1 ELSE IF c = "close" THEN 2 ELSE IF c = "done" THEN 3 ELSE 0

\* The wire is in order, and holds no more than the place of run_session, or the
\* answer to the EOF of an SFTP client, accounts for.
WireInv ==
    /\ wire \in Seq(Notes) /\ Ordered(wire)
    /\ mode # "sftp" => Below(wire, Reach(pc))
    /\ mode = "sftp" => Below(wire, 0) \/ Has(wire, "close")
    /\ mode = "none" \/ pc = "spawn" => wire = <<>>

\* On pipes, every chunk is in the pipe or on the wire unless the client is gone,
\* and a pump ends with its stream or because the client is gone.
PumpInv ==
    mode = "pipe" /\ child # "none" =>
        \A s \in Streams :
            /\ ~pumping[s] => pipe[s] = 0 /\ (closed \/ ~open[s])
            /\ ~closed => Count(wire, s) + pipe[s] = made[s]
            /\ Has(wire, "exit") => ~open[s]
            /\ pc \in Ended => ~pumping[s]

\* Data that is sent before the status keeps the order; it is lost only if the
\* client is gone.
LEMMA DataSent ==
    ASSUME wire \in Seq(Notes), Ordered(wire), Below(wire, 0),
           NEW s \in Streams, Send(<<Plain(s)>>)
    PROVE  /\ wire' \in Seq(Notes) /\ Ordered(wire') /\ Below(wire', 0)
           /\ Writable <=> ~closed
           /\ \A m \in {"exit", "close"} : ~Has(wire, m) /\ ~Has(wire', m)
           /\ \A t \in Streams :
                /\ Count(wire, t) \in Nat
                /\ ~closed => Count(wire', t) = IF t = s THEN Count(wire, t) + 1 ELSE Count(wire, t)
<1>1. Plain(s) \in Notes /\ Plain(s).msg = s
  BY SMTT(60) DEF Plain, Notes
<1>2. Rank(Plain(s)) = 0
  BY <1>1, Ranks
<1>3. ASSUME NEW w \in Seq(Notes), Below(w, 0), NEW m \in {"exit", "close"}
      PROVE  ~Has(w, m)
  BY <1>3, NotYet
<1>4. Writable <=> ~closed
  BY <1>3 DEF Writable, Sent, Has
<1>5. CASE closed
  <2>1. wire' = wire
    BY <1>4, <1>5 DEF Send
  <2>2. \A t \in Streams : Count(wire, t) \in Nat
    BY <1>1, CountMore
  <2> QED
    BY <1>3, <1>4, <1>5, <2>1, <2>2
<1>6. CASE ~closed
  <2>1. wire' = wire \o <<Plain(s)>>
    BY <1>4, <1>6 DEF Send
  <2>2. wire' \in Seq(Notes)
    BY <1>1, <2>1, OneMore
  <2>3. Ordered(wire') /\ Below(wire', 0)
    BY <1>1, <1>2, <2>1, OrderedMore, SMTT(60)
  <2>4. \A t \in Streams :
          /\ Count(wire, t) \in Nat
          /\ Count(wire', t) = IF t = s THEN Count(wire, t) + 1 ELSE Count(wire, t)
    BY <1>1, <2>1, CountMore
  <2> QED
    BY <1>3, <1>4, <1>6, <2>2, <2>3, <2>4
<1> QED
  BY <1>5, <1>6

\* finish_channel sends each of its messages after all others and adds no data.
LEMMA FinalSent ==
    ASSUME CtlInv, wire \in Seq(Notes), Ordered(wire), Below(wire, Reach(pc)), FinishChannel
    PROVE  /\ wire' \in Seq(Notes) /\ Ordered(wire') /\ Below(wire', Reach(pc'))
           /\ \A t \in Streams : Count(wire', t) = Count(wire, t)
           /\ Has(wire', "exit") => Has(wire, "exit") \/ ~closed
<1>1. PICK c \in {<<"exit", "eof">>, <<"eof", "close">>, <<"close", "done">>} :
          pc = c[1] /\ pc' = c[2] /\ Send(<<FinalMessage(c[1])>>)
  BY DEF FinishChannel
<1> DEFINE m == FinalMessage(pc)
<1>2. pc \in {"exit", "eof", "close"} /\ Reach(pc') = Reach(pc) + 1 /\ Reach(pc) \in 0 .. 2
  BY <1>1, SMTT(60) DEF Reach
<1>3. m \in Notes /\ m.msg = pc
  <2>1. CASE pc = "exit"
    <3>1. ExitCodeOf(status) \in Int /\ status.n \in Int
      BY SMTT(60) DEF CtlInv, Ctl, Results, ExitCodeOf
    <3>2. m = [msg |-> "exit", n |-> IF mode = "custom" /\ status.n < 0 THEN 0
                                     ELSE ExitCodeOf(status)]
      BY <2>1 DEF FinalMessage
    <3> QED
      BY <2>1, <3>1, <3>2, SMTT(60) DEF Notes
  <2>2. CASE pc \in {"eof", "close"}
    BY <2>2, SMTT(60) DEF FinalMessage, Plain, Notes
  <2> QED
    BY <1>2, <2>1, <2>2
<1>4. Rank(m) = Reach(pc')
  BY <1>2, <1>3, Ranks, SMTT(60) DEF Reach
<1> HIDE DEF m
<1>5. CASE ~Writable
  <2>1. wire' = wire
    BY <1>1, <1>5 DEF Send
  <2>2. Below(wire', Reach(pc'))
    <3>1. \A i \in 1 .. Len(wire) : Rank(wire[i]) \in 0 .. 3
      BY Ranks, SMTT(60)
    <3> QED
      BY <1>2, <2>1, <3>1, SMTT(60) DEF Below
  <2> QED
    BY <2>1, <2>2
<1>6. CASE Writable
  <2>1. wire' = wire \o <<m>> /\ ~closed
    BY <1>1, <1>6 DEF Send, Writable, m
  <2>2. wire' \in Seq(Notes)
    BY <1>3, <2>1, OneMore
  <2>3. Ordered(wire') /\ Below(wire', Reach(pc'))
    BY <1>2, <1>3, <1>4, <2>1, OrderedMore, SMTT(60)
  <2>4. \A t \in Streams : Count(wire', t) = Count(wire, t)
    BY <1>2, <1>3, <2>1, CountMore DEF Streams
  <2> QED
    BY <2>1, <2>2, <2>3, <2>4
<1> QED
  BY <1>5, <1>6

\* The three messages with which channel_eof answers.
LEMMA ThreeMore ==
    ASSUME NEW w \in Seq(Notes), NEW a \in Notes, NEW b \in Notes, NEW c \in Notes,
           Ordered(w), Below(w, 0), a.msg = "exit", b.msg = "eof", c.msg = "close"
    PROVE  /\ w \o <<a, b, c>> \in Seq(Notes) /\ Ordered(w \o <<a, b, c>>)
           /\ Has(w \o <<a, b, c>>, "close")
<1> DEFINE v == w \o <<a, b, c>>
           n == Len(w)
<1>1. /\ v \in Seq(Notes) /\ Len(v) = n + 3 /\ n \in Nat
      /\ \A i \in 1 .. n : v[i] = w[i] /\ w[i] \in Notes
      /\ v[n + 1] = a /\ v[n + 2] = b /\ v[n + 3] = c
  BY SMTT(60)
<1> HIDE DEF v, n
<1>2. Rank(a) = 1 /\ Rank(b) = 2 /\ Rank(c) = 3
  BY Ranks
<1>3. \A i \in 1 .. n : Rank(v[i]) = 0
  BY <1>1, Ranks, SMTT(60) DEF Below, n
<1>4. ASSUME NEW i \in 1 .. Len(v), NEW j \in 1 .. Len(v), i < j
      PROVE  Rank(v[i]) <= Rank(v[j]) /\ (Rank(v[i]) = Rank(v[j]) => v[i].msg \in Streams)
  <2>1. CASE j <= n
    <3>1. v[i] = w[i] /\ v[i] \in Notes /\ Rank(v[i]) = 0 /\ Rank(v[j]) = 0
      BY <1>1, <1>3, <1>4, <2>1, SMTT(60)
    <3> QED
      BY <3>1, Ranks, SMTT(60)
  <2>2. CASE i <= n /\ j > n
    <3>1. Rank(v[i]) = 0 /\ Rank(v[j]) \in 1 .. 3
      BY <1>1, <1>2, <1>3, <2>2, SMTT(60)
    <3> QED
      BY <3>1, SMTT(60)
  <2>3. CASE i > n
    <3>1. i \in Nat /\ j \in Nat /\ n \in Nat /\ n < i /\ i < j /\ j <= n + 3
      BY <1>1, <1>4, <2>3, SMTT(60)
    <3>2. (i = n + 1 /\ j \in {n + 2, n + 3}) \/ (i = n + 2 /\ j = n + 3)
      BY <3>1, SMTT(60)
    <3>3. CASE i = n + 1 /\ j \in {n + 2, n + 3}
      <4>1. Rank(v[i]) = 1 /\ Rank(v[j]) \in {2, 3}
        BY <1>1, <1>2, <3>3
      <4> QED
        BY <4>1, SMTT(60)
    <3>4. CASE i = n + 2 /\ j = n + 3
      <4>1. Rank(v[i]) = 2 /\ Rank(v[j]) = 3
        BY <1>1, <1>2, <3>4
      <4> QED
        BY <4>1, SMTT(60)
    <3> QED
      BY <3>2, <3>3, <3>4
  <2> QED
    BY <1>1, <1>4, <2>1, <2>2, <2>3, SMTT(60)
<1>5. Ordered(v)
  BY <1>4 DEF Ordered
<1>6. Has(v, "close")
  BY <1>1, SMTT(60) DEF Has
<1> QED
  BY <1>1, <1>5, <1>6 DEF v

\* An SFTP channel is closed once; afterwards nothing is sent on it.
LEMMA SftpClosed ==
    ASSUME wire \in Seq(Notes), Ordered(wire), Below(wire, 0) \/ Has(wire, "close"), ~closed,
           Send(<<[msg |-> "exit", n |-> 0], Plain("eof"), Plain("close")>>)
    PROVE  wire' \in Seq(Notes) /\ Ordered(wire') /\ Has(wire', "close")
<1>1. CASE Has(wire, "close")
  BY <1>1 DEF Send, Writable, Sent, Has
<1>2. CASE ~Has(wire, "close")
  <2> DEFINE a == [msg |-> "exit", n |-> 0]
             b == Plain("eof")
             c == Plain("close")
  <2>1. /\ a \in Notes /\ b \in Notes /\ c \in Notes
        /\ a.msg = "exit" /\ b.msg = "eof" /\ c.msg = "close"
    BY SMTT(60) DEF Plain, Notes
  <2>2. wire' = wire \o <<a, b, c>>
    BY <1>2 DEF Send, Writable, Sent, Has
  <2> HIDE DEF a, b, c
  <2> QED
    BY <1>2, <2>1, <2>2, ThreeMore
<1> QED
  BY <1>1, <1>2

\* Every step keeps the order of the wire.
LEMMA WireKept ==
    ASSUME TermInv, CtlInv, WireInv, ~LateSubsystem, [Next]_vars
    PROVE  WireInv'
<1> DEFINE Still == /\ UNCHANGED <<wire, mode>> /\ Reach(pc') = Reach(pc)
                    /\ pc' = "spawn" => pc = "spawn"
<1>1. CASE Still
  BY <1>1 DEF WireInv
<1>2. ASSUME NEW s \in Streams, Send(<<Plain(s)>>), UNCHANGED mode, Reach(pc) = 0,
             Reach(pc') = 0, mode \notin {"none", "sftp"}, pc' # "spawn"
      PROVE  WireInv'
  BY <1>2, DataSent DEF WireInv
<1>3. CASE Handler
  <2>1. CASE StartSession \/ SubsystemRequest
    <3>1. /\ wire = <<>> /\ wire' = <<>> /\ mode' # "none" /\ (mode' = "sftp" => pc' = pc)
      BY <1>3, <2>1 DEF StartSession, SubsystemRequest, TermInv, WireInv
    <3>2. Ordered(<<>>) /\ Below(<<>>, 0) /\ Below(<<>>, Reach(pc')) /\ <<>> \in Seq(Notes)
      BY SMTT(60) DEF Ordered, Below
    <3> QED
      BY <3>1, <3>2 DEF WireInv
  <2>2. CASE ChannelEof
    <3>1. UNCHANGED <<mode, pc>> /\ ~closed
      BY <2>2 DEF ChannelEof
    <3>2. CASE sftp
      <4>1. mode = "sftp" /\ pc = "none"
        BY <3>2 DEF CtlInv
      <4>2. wire' \in Seq(Notes) /\ Ordered(wire') /\ Has(wire', "close")
        BY <2>2, <3>1, <3>2, <4>1, SftpClosed DEF ChannelEof, WireInv
      <4> QED
        BY <3>1, <4>1, <4>2 DEF WireInv
    <3>3. CASE ~sftp
      BY <1>1, <2>2, <3>1, <3>3 DEF ChannelEof
    <3> QED
      BY <3>2, <3>3
  <2>3. CASE ChannelOpenSession \/ ChannelClose \/ \E w \in Widths : PtyRequest(w) \/ WindowChange(w)
    BY <1>1, <2>3 DEF ChannelOpenSession, ChannelClose, PtyRequest, WindowChange, runnerVars
  <2> QED
    BY <1>3, <2>1, <2>2, <2>3 DEF Handler
<1>4. CASE Runner
  <2>1. CASE Spawn \/ PtySetupFails \/ StdinPumpEnds \/ PipeChildDone \/ PipeDrained
    BY <1>1, <2>1 DEF Spawn, PtySetupFails, StdinPumpEnds, PipeChildDone, PipeDrained,
                      runnerVars, Reach
  <2>2. CASE PtyOutputEnds \/ PtyResizes \/ PtyChildDone \/ PtyDrained \/ PtyDrainTimesOut
    BY <1>1, <2>2 DEF PtyOutputEnds, PtyResizes, PtyChildDone, PtyDrained, PtyDrainTimesOut,
                      runnerVars, Reach
  <2>3. CASE ForwardEnds \/ CustomDone
    BY <1>1, <2>3 DEF ForwardEnds, CustomDone, Reach
  <2>4. CASE PtyForwards \/ PtyFlushes
    <3>1. "out" \in Streams
      BY DEF Streams
    <3> QED
      BY <1>2, <2>4, <3>1 DEF PtyForwards, PtyFlushes, Reach
  <2>5. CASE SpawnFails
    <3>1. "err" \in Streams
      BY DEF Streams
    <3> QED
      BY <1>1, <1>2, <2>5, <3>1 DEF SpawnFails, Reach
  <2>6. CASE FinishChannel
    <3>1. /\ UNCHANGED mode /\ mode \notin {"none", "sftp"}
          /\ pc' \in {"eof", "close", "done"}
      BY <2>6, SMTT(60) DEF FinishChannel, CtlInv
    <3>2. wire' \in Seq(Notes) /\ Ordered(wire') /\ Below(wire', Reach(pc'))
      BY <2>6, <3>1, FinalSent DEF WireInv
    <3> QED
      BY <3>1, <3>2 DEF WireInv
  <2> QED
    BY <1>4, <2>1, <2>2, <2>3, <2>4, <2>5, <2>6 DEF Runner
<1>5. CASE SftpWrites
  <2>1. mode = "sftp" /\ UNCHANGED <<mode, pc>> /\ pc = "none" /\ "out" \in Streams
    BY <1>5 DEF SftpWrites, CtlInv, Streams
  <2>2. CASE Below(wire, 0)
    BY <1>5, <2>1, <2>2, DataSent DEF SftpWrites, WireInv
  <2>3. CASE Has(wire, "close")
    BY <1>5, <2>1, <2>3 DEF SftpWrites, WireInv, Send, Writable, Sent, Has
  <2> QED
    BY <2>1, <2>2, <2>3 DEF WireInv
<1>6. CASE PtyRead \/ ChildExits \/ ClientTypes \/ UNCHANGED vars
  BY <1>1, <1>6 DEF PtyRead, ChildExits, ClientTypes, vars, runnerVars
<1>7. ASSUME NEW s \in Streams, PumpCopies(s)
      PROVE  WireInv'
  BY <1>2, <1>7 DEF PumpCopies, CtlInv, Reach
<1>8. ASSUME NEW s \in Streams, ChildWrites(s)
      PROVE  WireInv'
  BY <1>1, <1>2, <1>8 DEF ChildWrites, CtlInv, Reach
<1>9. ASSUME NEW s \in Streams, PumpEnds(s) \/ ChildCloses(s)
      PROVE  WireInv'
  BY <1>1, <1>9 DEF PumpEnds, ChildCloses, runnerVars
<1> QED
  BY <1>3, <1>4, <1>5, <1>6, <1>7, <1>8, <1>9 DEF Next, Pump

\* Every step keeps the balance of the chunks.
LEMMA PumpKept ==
    ASSUME TermInv, CtlInv, WireInv, PumpInv, ~LateSubsystem, [Next]_vars
    PROVE  PumpInv'
<1> DEFINE Still ==
        /\ UNCHANGED <<mode, child, pumping, pipe, open, made, wire>>
        /\ closed => closed'
        /\ pc' \in Ended => pc \in Ended \/ \A s \in Streams : ~pumping[s]
<1>1. CASE Still
  BY <1>1 DEF PumpInv
<1>2. CASE mode' # "pipe" \/ child' = "none"
  BY <1>2 DEF PumpInv
<1>3. CASE Handler
  <2>1. CASE StartSession \/ SubsystemRequest
    BY <1>2, <2>1 DEF StartSession, SubsystemRequest, CtlInv, TermInv, childVars
  <2>2. CASE ChannelEof
    BY <1>1, <1>2, <2>2 DEF ChannelEof, CtlInv, childVars
  <2>3. CASE ChannelOpenSession \/ ChannelClose \/ \E w \in Widths : PtyRequest(w) \/ WindowChange(w)
    BY <1>1, <2>3 DEF ChannelOpenSession, ChannelClose, PtyRequest, WindowChange, runnerVars,
                      childVars, clientVars
  <2> QED
    BY <1>3, <2>1, <2>2, <2>3 DEF Handler
<1>4. CASE Runner
  <2>1. CASE Spawn
    <3>1. CASE mode = "pipe"
      <4>1. /\ wire' = <<>> /\ pc' = "pump"
            /\ \A s \in Streams : pumping'[s] /\ pipe'[s] = 0 /\ made'[s] = 0
        BY <2>1, <3>1 DEF Spawn, CtlInv, WireInv
      <4>2. \A s \in Streams : Count(<<>>, s) = 0 /\ ~Has(<<>>, "exit")
        BY FS_EmptySet, SMTT(60) DEF Count, Has
      <4>3. ~(pc' \in Ended) /\ \A s \in Streams : Count(wire', s) + pipe'[s] = made'[s]
        BY <4>1, <4>2, SMTT(60) DEF Ended
      <4>4. ~Has(wire', "exit") /\ \A s \in Streams : pumping'[s]
        BY <4>1, <4>2, SMTT(60) DEF Has
      <4> QED
        BY <4>3, <4>4 DEF PumpInv
    <3> QED
      BY <1>2, <2>1, <3>1 DEF Spawn
  <2>2. CASE SpawnFails \/ PtySetupFails
    BY <1>2, <2>2 DEF SpawnFails, PtySetupFails, CtlInv
  <2>3. CASE StdinPumpEnds \/ PipeChildDone \/ PipeDrained
    BY <1>1, <2>3 DEF StdinPumpEnds, PipeChildDone, PipeDrained, runnerVars, childVars,
                      clientVars, Ended
  <2>4. CASE \/ PtyOutputEnds \/ PtyResizes \/ PtyChildDone \/ PtyDrained \/ PtyDrainTimesOut
             \/ PtyForwards \/ PtyFlushes \/ CustomDone
    BY <1>2, <2>4 DEF PtyOutputEnds, PtyResizes, PtyChildDone, PtyDrained, PtyDrainTimesOut,
                      PtyForwards, PtyFlushes, CustomDone, runnerVars
  <2>5. CASE ForwardEnds
    BY <1>1, <2>5 DEF ForwardEnds, childVars, clientVars
  <2>6. CASE FinishChannel
    <3>1. CASE mode = "pipe" /\ child # "none"
      <4>1. /\ UNCHANGED <<mode, child, pumping, pipe, open, made, closed>>
            /\ pc \in Ended
        BY <2>6, SMTT(60) DEF FinishChannel, childVars, clientVars, Ended
      <4>2. /\ \A t \in Streams : Count(wire', t) = Count(wire, t)
            /\ Has(wire', "exit") => Has(wire, "exit") \/ ~closed
        BY <2>6, <3>1, FinalSent DEF WireInv
      <4> QED
        BY <3>1, <4>1, <4>2 DEF PumpInv
    <3> QED
      BY <1>2, <2>6, <3>1 DEF FinishChannel, childVars
  <2> QED
    BY <1>4, <2>1, <2>2, <2>3, <2>4, <2>5, <2>6 DEF Runner
<1>5. CASE SftpWrites \/ PtyRead
  BY <1>2, <1>5 DEF SftpWrites, PtyRead
<1>6. CASE ClientTypes \/ UNCHANGED vars
  BY <1>1, <1>6, SMTT(60) DEF ClientTypes, vars, childVars, clientVars
<1>7. CASE ChildExits
  <2>1. CASE mode = "pipe"
    BY <1>7, <2>1 DEF ChildExits, PumpInv, runnerVars, clientVars
  <2> QED
    BY <1>2, <1>7, <2>1 DEF ChildExits, runnerVars
<1>8. ASSUME NEW s \in Streams, PumpCopies(s)
      PROVE  PumpInv'
  <2>1. /\ mode = "pipe" /\ pumping[s] /\ pc \in {"pump", "drain"} /\ pipe[s] > 0
        /\ UNCHANGED <<mode, pc, child, open, made, closed>>
        /\ Below(wire, 0) /\ wire \in Seq(Notes) /\ Ordered(wire) /\ Send(<<Plain(s)>>)
    BY <1>8 DEF PumpCopies, CtlInv, WireInv, Reach, childVars, clientVars
  <2>2. /\ Writable <=> ~closed
        /\ ~Has(wire', "exit")
        /\ \A t \in Streams :
             /\ Count(wire, t) \in Nat
             /\ ~closed => Count(wire', t) = IF t = s THEN Count(wire, t) + 1 ELSE Count(wire, t)
    BY <2>1, DataSent
  <2>3. \A t \in Streams : /\ pipe[t] \in Nat /\ made[t] \in Nat
                           /\ t # s => pipe'[t] = pipe[t] /\ pumping'[t] = pumping[t]
    BY <1>8 DEF PumpCopies, CtlInv, Ctl
  <2>4. CASE closed
    <3>1. pipe'[s] = 0
      BY <1>8, <2>2, <2>4 DEF PumpCopies, CtlInv, Ctl
    <3> QED
      BY <2>1, <2>2, <2>3, <2>4, <3>1 DEF PumpInv, Ended
  <2>5. CASE ~closed
    <3>1. pipe'[s] = pipe[s] - 1 /\ pumping'[s]
      BY <1>8, <2>2, <2>5 DEF PumpCopies, CtlInv, Ctl
    <3>2. ~(pc' \in Ended) /\ UNCHANGED <<mode, child, closed, open, made>>
      BY <2>1 DEF Ended
    <3>3. ASSUME NEW t \in Streams \ {s}, mode = "pipe", child # "none"
          PROVE  /\ ~pumping'[t] => pipe'[t] = 0 /\ ~open[t]
                 /\ Count(wire', t) + pipe'[t] = made[t]
      BY <2>2, <2>3, <2>5, <3>3 DEF PumpInv
    <3>4. ASSUME mode = "pipe", child # "none"
          PROVE  Count(wire', s) + pipe'[s] = made[s]
      <4>1. Count(wire, s) + pipe[s] = made[s]
        BY <2>5, <3>4 DEF PumpInv
      <4>2. Count(wire, s) \in Nat /\ Count(wire', s) = Count(wire, s) + 1
        BY <2>2, <2>5
      <4>3. pipe[s] \in Nat /\ made[s] \in Nat /\ pipe'[s] = pipe[s] - 1
        BY <2>3, <3>1
      <4> QED
        BY <4>1, <4>2, <4>3, SMTT(60)
    <3> QED
      BY <2>2, <3>1, <3>2, <3>3, <3>4 DEF PumpInv
  <2> QED
    BY <2>4, <2>5
<1>9. ASSUME NEW s \in Streams, PumpEnds(s)
      PROVE  PumpInv'
  BY <1>9 DEF PumpEnds, PumpInv, CtlInv, Ctl, childVars, clientVars
<1>10. ASSUME NEW s \in Streams, ChildWrites(s)
       PROVE  PumpInv'
  <2>1. CASE mode = "pipe"
    <3>1. /\ UNCHANGED <<mode, pc, child, open, pumping, wire, closed>>
          /\ made' = [made EXCEPT ![s] = @ + 1] /\ open[s]
          /\ pipe' = [pipe EXCEPT ![s] = IF pumping[s] THEN @ + 1 ELSE @]
      BY <1>10, <2>1 DEF ChildWrites, clientVars
    <3>2. /\ pipe \in [Streams -> Nat] /\ made \in [Streams -> Nat]
          /\ wire \in Seq(Notes) /\ Plain(s) \in Notes
      BY SMTT(60) DEF CtlInv, Ctl, WireInv, Plain, Notes
    <3>3. \A t \in Streams : Count(wire, t) \in Nat
      BY <3>2, CountMore
    <3>4. CASE pumping[s]
      <4>1. pipe'[s] = pipe[s] + 1 /\ made'[s] = made[s] + 1
        BY <3>1, <3>2, <3>4
      <4>2. \A t \in Streams \ {s} : pipe'[t] = pipe[t] /\ made'[t] = made[t]
        BY <3>1, <3>2
      <4>3. ASSUME NEW t \in Streams, child # "none"
            PROVE  /\ ~pumping'[t] => pipe'[t] = 0 /\ (closed' \/ ~open'[t])
                   /\ ~closed' => Count(wire, t) + pipe'[t] = made'[t]
                   /\ Has(wire, "exit") => ~open'[t]
                   /\ pc' \in Ended => ~pumping'[t]
        <5>1. CASE t = s
          <6>1. /\ ~closed => Count(wire, s) + pipe[s] = made[s]
                /\ Has(wire, "exit") => ~open[s]
                /\ pc \in Ended => ~pumping[s]
            BY <2>1, <4>3 DEF PumpInv
          <6>2. ~closed => Count(wire, s) + pipe'[s] = made'[s]
            BY <3>2, <3>3, <4>1, <6>1, SMTT(60)
          <6> QED
            BY <3>1, <3>4, <5>1, <6>1, <6>2
        <5>2. CASE t # s
          BY <2>1, <3>1, <4>2, <4>3, <5>2 DEF PumpInv
        <5> QED
          BY <5>1, <5>2
      <4>4. wire' = wire /\ child' = child
        BY <3>1
      <4> QED
        BY <4>3, <4>4 DEF PumpInv
    <3>5. CASE ~pumping[s]
      <4>1. pipe' = pipe
        BY <3>1, <3>2, <3>5
      <4>2. \A t \in Streams \ {s} : made'[t] = made[t]
        BY <3>1, <3>2
      <4> QED
        BY <3>1, <3>2, <3>5, <4>1, <4>2 DEF PumpInv
    <3> QED
      BY <3>4, <3>5
  <2> QED
    BY <1>2, <1>10, <2>1 DEF ChildWrites
<1>11. ASSUME NEW s \in Streams, ChildCloses(s)
       PROVE  PumpInv'
  BY <1>11 DEF ChildCloses, PumpInv, CtlInv, Ctl, runnerVars, clientVars
<1> QED
  BY <1>3, <1>4, <1>5, <1>6, <1>7, <1>8, <1>9, <1>10, <1>11 DEF Next, Pump

-----------------------------------------------------------------------------
(* The types, with or without late subsystems.                             *)

\* A request of the client changes nothing of session and child but what starts it ...
LEMMA HandlerApart ==
    ASSUME Handler
    PROVE  UNCHANGED <<childVars, pipe, pumping, queue, forward>>
  BY DEF Handler, ChannelOpenSession, StartSession, SubsystemRequest, ChannelEof,
     ChannelClose, PtyRequest, WindowChange, runnerVars

\* ... and no other step changes what the requests have left.
LEMMA SessionApart ==
    ASSUME [Next]_vars, ~Handler
    PROVE  UNCHANGED <<handlerVars, asked, resizes, clientVars>>
<1> USE DEF terminalVars
<1>1. CASE Runner
  BY <1>1 DEF Runner, Spawn, SpawnFails, PtySetupFails, StdinPumpEnds, PipeChildDone,
     PipeDrained, PtyForwards, PtyOutputEnds, PtyResizes, PtyChildDone, PtyFlushes, PtyDrained,
     PtyDrainTimesOut, ForwardEnds, CustomDone, FinishChannel
<1>2. CASE PtyRead \/ ChildExits \/ SftpWrites \/ ClientTypes
  BY <1>2 DEF PtyRead, ChildExits, SftpWrites, ClientTypes
<1>3. CASE \E s \in Streams : Pump(s) \/ ChildWrites(s) \/ ChildCloses(s)
  BY <1>3 DEF Pump, PumpCopies, PumpEnds, ChildWrites, ChildCloses
<1>4. CASE UNCHANGED vars
  BY <1>4 DEF vars, handlerVars, clientVars
<1> QED
  BY <1>1, <1>2, <1>3, <1>4 DEF Next

\* The flags of handler and client, and those of session and child.
RequestFlags ==
    /\ entry \in BOOLEAN /\ channel \in BOOLEAN /\ sftp \in BOOLEAN
    /\ eof \in BOOLEAN /\ closed \in BOOLEAN

SessionFlags ==
    /\ hup \in BOOLEAN /\ stdin \in BOOLEAN /\ forward \in BOOLEAN
    /\ open \in [Streams -> BOOLEAN] /\ pumping \in [Streams -> BOOLEAN]

\* Every step keeps them.
LEMMA FlagsKept ==
    ASSUME RequestFlags, SessionFlags, [Next]_vars
    PROVE  RequestFlags' /\ SessionFlags'
<1>1. CASE Handler
  <2>1. RequestFlags'
    BY <1>1 DEF RequestFlags, Handler, ChannelOpenSession, StartSession,
       SubsystemRequest, ChannelEof, ChannelClose, PtyRequest, WindowChange, handlerVars,
       clientVars
  <2>2. SessionFlags'
    BY <1>1, HandlerApart DEF SessionFlags, childVars
  <2> QED
    BY <2>1, <2>2
<1>2. CASE ~Handler
  <2> USE DEF childVars, runnerVars
  <2>1. RequestFlags'
    BY <1>2, SessionApart DEF RequestFlags, handlerVars, clientVars
  <2> SUFFICES SessionFlags'
    BY <2>1
  <2>2. CASE UNCHANGED <<hup, stdin, forward, open, pumping>>
    BY <2>2 DEF SessionFlags
  <2>3. CASE Spawn
    BY <2>3 DEF Spawn, SessionFlags
  <2>4. CASE StdinPumpEnds \/ PipeChildDone \/ PtyForwards \/ ForwardEnds \/ ClientTypes
    BY <2>4 DEF StdinPumpEnds, PipeChildDone, PtyForwards, ForwardEnds, ClientTypes,
       Writable, SessionFlags
  <2>5. CASE \/ SpawnFails \/ PtySetupFails \/ PipeDrained \/ PtyFlushes \/ PtyOutputEnds
             \/ PtyResizes \/ PtyChildDone \/ PtyDrained \/ PtyDrainTimesOut
             \/ CustomDone \/ FinishChannel \/ SftpWrites
    BY <2>2, <2>5 DEF SpawnFails, PtySetupFails, PipeDrained, PtyFlushes, PtyOutputEnds,
       PtyResizes, PtyChildDone, PtyDrained, PtyDrainTimesOut, CustomDone, FinishChannel,
       SftpWrites
  <2>6. CASE PtyRead
    BY <2>6 DEF PtyRead, SessionFlags
  <2>7. CASE ChildExits
    BY <2>7 DEF ChildExits, SessionFlags
  <2>8. CASE \E s \in Streams : Pump(s) \/ ChildWrites(s) \/ ChildCloses(s)
    BY <2>8 DEF Pump, PumpCopies, PumpEnds, ChildWrites, ChildCloses, Writable,
       SessionFlags
  <2>9. CASE UNCHANGED vars
    BY <2>2, <2>9 DEF vars
  <2> QED
    BY <1>2, <2>3, <2>4, <2>5, <2>6, <2>7, <2>8, <2>9 DEF Next, Runner
<1> QED
  BY <1>1, <1>2

\* One session or subsystem is started on a channel: start_session takes it out of the
\* ChannelState, and only a new channel has one.
Started ==
    /\ starts \in 0 .. 1 /\ resizes \in 0 .. MaxResizes
    /\ channel \/ (~entry /\ ~closed) => starts = 0
    /\ asked \in Widths \cup {NoPty}

\* Every step keeps that.
LEMMA StartedKept ==
    ASSUME Started, [Next]_vars
    PROVE  Started'
<1>1. CASE Handler
  <2> USE DEF Started, handlerVars, terminalVars, clientVars
  <2>1. CASE ChannelOpenSession \/ ChannelEof \/ ChannelClose
    BY <2>1, SMTT(60) DEF ChannelOpenSession, ChannelEof, ChannelClose
  <2>2. CASE StartSession \/ SubsystemRequest
    BY <2>2, SMTT(60) DEF StartSession, SubsystemRequest
  <2>3. CASE \E w \in Widths : PtyRequest(w) \/ WindowChange(w)
    BY <2>3, ChannelAssumption, SMTT(60) DEF PtyRequest, WindowChange
  <2> QED
    BY <1>1, <2>1, <2>2, <2>3 DEF Handler
<1>2. CASE ~Handler
  BY <1>2, SessionApart, SMTT(60) DEF Started, handlerVars, clientVars
<1> QED
  BY <1>1, <1>2

\* Of each stream no more chunks are in flight than were written.
Chunks ==
    /\ made \in [Streams -> 0 .. MaxChunks] /\ pipe \in [Streams -> Nat] /\ queue \in Nat
    /\ pipe["err"] <= made["err"] /\ pipe["out"] + queue <= made["out"]

\* Every step keeps that.
LEMMA ChunksKept ==
    ASSUME Chunks, [Next]_vars
    PROVE  Chunks'
<1> USE DEF Chunks, childVars, runnerVars
<1>1. CASE UNCHANGED <<made, pipe, queue>>
  BY <1>1
<1>2. CASE Handler
  BY <1>1, <1>2, HandlerApart
<1>3. CASE PtyForwards \/ PtyFlushes
  BY <1>3, ChannelAssumption, SMTT(60) DEF PtyForwards, PtyFlushes, Streams
<1>4. CASE Runner /\ ~PtyForwards /\ ~PtyFlushes
  BY <1>1, <1>4 DEF Runner, Spawn, SpawnFails, PtySetupFails, StdinPumpEnds,
     PipeChildDone, PipeDrained, PtyOutputEnds, PtyResizes, PtyChildDone, PtyDrained,
     PtyDrainTimesOut, ForwardEnds, CustomDone, FinishChannel
<1>5. CASE PtyRead
  BY <1>5, ChannelAssumption, SMTT(60) DEF PtyRead, Streams
<1>6. CASE SftpWrites
  BY <1>6, ChannelAssumption, SMTT(60) DEF SftpWrites, Streams
<1>7. CASE ChildExits \/ ClientTypes \/ \E s \in Streams : ChildCloses(s)
  BY <1>1, <1>7 DEF ChildExits, ClientTypes, ChildCloses
<1>8. CASE \E s \in Streams : Pump(s)
  BY <1>8, ChannelAssumption, SMTT(60) DEF Pump, PumpCopies, PumpEnds, Streams
<1>9. CASE \E s \in Streams : ChildWrites(s)
  BY <1>9, ChannelAssumption, SMTT(60) DEF ChildWrites, Streams
<1>10. CASE UNCHANGED vars
  BY <1>1, <1>10 DEF vars
<1> QED
  BY <1>2, <1>3, <1>4, <1>5, <1>6, <1>7, <1>8, <1>9, <1>10 DEF Next

\* What the model's sessions end with; a negative code comes from a custom handler.
Outcomes == Statuses \cup HandlerCodes \cup {NoStatus, [kind |-> "code", n |-> 127]}

Codes ==
    /\ mode \in {"none", "pipe", "pty", "custom", "sftp"} /\ pc \in Places
    /\ child \in {"none", "running", "exited"}
    /\ status \in Outcomes
    /\ mode # "custom" => status.n # -1

\* The statuses are records with a kind and a number.
LEMMA OutcomeIs ==
    /\ \A s \in Statuses : s \in Outcomes /\ s.n # -1
    /\ \A s \in HandlerCodes : s \in Outcomes
    /\ NoStatus \in Outcomes /\ NoStatus.n # -1
    /\ [kind |-> "code", n |-> 127] \in Outcomes
    /\ [kind |-> "lost", n |-> 0] \in Outcomes
  BY SMTT(60) DEF Outcomes, Statuses, HandlerCodes, NoStatus

\* The mode is chosen once, so a custom handler's code stays with it.
LEMMA CodesKept ==
    ASSUME TermInv, Codes, [Next]_vars
    PROVE  Codes'
<1> USE DEF Codes, Places, handlerVars, terminalVars, childVars, clientVars, runnerVars
<1>1. CASE ChannelOpenSession \/ ChannelEof \/ ChannelClose
  BY <1>1 DEF ChannelOpenSession, ChannelEof, ChannelClose
<1>2. CASE StartSession
  BY <1>2 DEF StartSession, TermInv
<1>3. CASE SubsystemRequest
  BY <1>3 DEF SubsystemRequest, TermInv
<1>4. CASE \E w \in Widths : PtyRequest(w) \/ WindowChange(w)
  BY <1>4 DEF PtyRequest, WindowChange
<1>5. CASE Spawn
  BY <1>5 DEF Spawn
<1>6. CASE SpawnFails \/ PtySetupFails
  BY <1>6, OutcomeIs, SMTT(60) DEF SpawnFails, PtySetupFails
<1>7. CASE StdinPumpEnds \/ PipeChildDone \/ PipeDrained \/ PtyForwards \/ PtyFlushes
  BY <1>7 DEF StdinPumpEnds, PipeChildDone, PipeDrained, PtyForwards, PtyFlushes
<1>8. CASE PtyOutputEnds \/ PtyResizes \/ PtyChildDone \/ PtyDrained \/ PtyDrainTimesOut
  BY <1>8 DEF PtyOutputEnds, PtyResizes, PtyChildDone, PtyDrained, PtyDrainTimesOut
<1>9. CASE ForwardEnds \/ CustomDone \/ ClientTypes \/ FinishChannel
  BY <1>9, SMTT(60) DEF ForwardEnds, CustomDone, ClientTypes, FinishChannel
<1>10. CASE ChildExits
  BY <1>10, OutcomeIs DEF ChildExits
<1>11. CASE PtyRead \/ SftpWrites
  BY <1>11 DEF PtyRead, SftpWrites
<1>12. CASE \E s \in Streams : Pump(s) \/ ChildWrites(s) \/ ChildCloses(s)
  BY <1>12 DEF Pump, PumpCopies, PumpEnds, ChildWrites, ChildCloses
<1>13. CASE UNCHANGED vars
  BY <1>13 DEF vars
<1>14. CASE Handler
  BY <1>1, <1>2, <1>3, <1>4, <1>14 DEF Handler
<1>15. CASE Runner
  BY <1>5, <1>6, <1>7, <1>8, <1>9, <1>15 DEF Runner
<1> QED
  BY <1>9, <1>10, <1>11, <1>12, <1>13, <1>14, <1>15 DEF Next

\* finish_channel reports one of the exit codes that the client can be told.
LEMMA FinalIs ==
    ASSUME Codes, NEW step \in {"exit", "eof", "close"}
    PROVE  FinalMessage(step) \in Messages
<1>1. CASE step # "exit"
  BY <1>1 DEF FinalMessage, Messages
<1>2. CASE step = "exit"
  <2> DEFINE n == IF mode = "custom" /\ status.n < 0 THEN 0 ELSE ExitCodeOf(status)
  <2>1. n \in {0, 1, 3, 127, 129}
    <3>1. CASE status = NoStatus \/ status = [kind |-> "code", n |-> 127]
      BY <3>1, SMTT(60) DEF ExitCodeOf, NoStatus
    <3>2. CASE status \in Statuses
      BY <3>2, SMTT(60) DEF ExitCodeOf, Statuses
    <3>3. CASE status \in HandlerCodes
      BY <3>3, SMTT(60) DEF ExitCodeOf, HandlerCodes, Codes
    <3> QED
      BY <3>1, <3>2, <3>3 DEF Codes, Outcomes
  <2>2. FinalMessage(step) = [msg |-> "exit", n |-> n]
    BY <1>2 DEF FinalMessage
  <2> HIDE DEF n
  <2> QED
    BY <2>1, <2>2, SMTT(60) DEF Messages, Exits
<1> QED
  BY <1>1, <1>2

\* Whoever sends, sends messages.
LEMMA MessagesSent ==
    ASSUME Codes, wire \in Seq(Messages), [Next]_vars
    PROVE  wire' \in Seq(Messages)
<1> USE DEF handlerVars, terminalVars, childVars, clientVars, runnerVars
<1>1. \A s \in Streams \cup {"eof", "close"} : Plain(s) \in Messages
  BY DEF Messages
<1>2. ASSUME NEW m \in Messages, Send(<<m>>) PROVE wire' \in Seq(Messages)
  BY <1>2, SMTT(60) DEF Send
<1>3. CASE UNCHANGED wire
  BY <1>3
<1>4. CASE ChannelEof
  <2>1. [msg |-> "exit", n |-> 0] \in Messages
    BY DEF Messages, Exits
  <2>2. Plain("eof") \in Messages /\ Plain("close") \in Messages
    BY <1>1
  <2>3. <<[msg |-> "exit", n |-> 0], Plain("eof"), Plain("close")>> \in Seq(Messages)
    <3> HIDE DEF Plain
    <3> QED
      BY <2>1, <2>2, SMTT(60)
  <2> DEFINE answer == <<[msg |-> "exit", n |-> 0], Plain("eof"), Plain("close")>>
  <2>4. wire' = wire \/ wire' = wire \o answer
    BY <1>4 DEF ChannelEof, Send
  <2> HIDE DEF answer
  <2>5. wire \o answer \in Seq(Messages)
    BY <2>3, SMTT(60) DEF answer
  <2> QED
    BY <2>4, <2>5
<1>5. CASE FinishChannel
  <2>1. PICK step \in {"exit", "eof", "close"} : Send(<<FinalMessage(step)>>)
    BY <1>5, SMTT(60) DEF FinishChannel
  <2>2. FinalMessage(step) \in Messages
    BY FinalIs
  <2> QED
    BY <1>2, <2>1, <2>2
<1>6. CASE \E s \in Streams : Send(<<Plain(s)>>)
  BY <1>1, <1>2, <1>6
<1>7. CASE Handler /\ ~ChannelEof
  BY <1>7 DEF Handler, ChannelOpenSession, StartSession, SubsystemRequest, ChannelClose,
     PtyRequest, WindowChange
<1>8. CASE Runner /\ ~FinishChannel
  BY <1>6, <1>8 DEF Runner, Streams, Spawn, SpawnFails, PtySetupFails, StdinPumpEnds,
     PipeChildDone, PipeDrained, PtyForwards, PtyOutputEnds, PtyResizes, PtyChildDone,
     PtyFlushes, PtyDrained, PtyDrainTimesOut, ForwardEnds, CustomDone
<1>9. CASE PtyRead \/ ChildExits \/ SftpWrites \/ ClientTypes
  BY <1>6, <1>9 DEF PtyRead, ChildExits, SftpWrites, ClientTypes, Streams
<1>10. CASE \E s \in Streams : Pump(s) \/ ChildWrites(s) \/ ChildCloses(s)
  BY <1>6, <1>10 DEF Pump, PumpCopies, PumpEnds, ChildWrites, ChildCloses
<1> QED
  BY <1>3, <1>4, <1>5, <1>7, <1>8, <1>9, <1>10 DEF Next, vars

\* The variables of channel, session, child and client keep their types, whatever the
\* client asks for and when: one session is started, no more chunks are in flight than
\* were written, and finish_channel reports no other code than exit_code_of gives.
THEOREM TypeCorrect == Spec => []TypeOK
<1> DEFINE TypeInv == /\ TermInv /\ RequestFlags /\ SessionFlags /\ Started /\ Chunks /\ Codes
                      /\ wire \in Seq(Messages)
<1>1. Init => TypeInv
  <2> SUFFICES ASSUME Init PROVE TypeInv
    OBVIOUS
  <2>1. TermInv
    BY SMTT(60) DEF Init, TermInv, Running, NoPty
  <2>2. RequestFlags /\ SessionFlags
    BY DEF Init, RequestFlags, SessionFlags
  <2>3. Started /\ Chunks
    BY ChannelAssumption, SMTT(60) DEF Init, Started, Chunks, Streams
  <2>4. Codes /\ wire \in Seq(Messages)
    BY OutcomeIs, SMTT(60) DEF Init, Codes, Places
  <2> QED
    BY <2>1, <2>2, <2>3, <2>4
<1>2. TypeInv /\ [Next]_vars => TypeInv'
  BY TermKept, FlagsKept, StartedKept, ChunksKept, CodesKept, MessagesSent
<1>3. TypeInv => TypeOK
  <2> SUFFICES ASSUME TypeInv PROVE TypeOK
    OBVIOUS
  <2>0. /\ TermInv /\ RequestFlags /\ SessionFlags /\ Started /\ Chunks /\ Codes
        /\ wire \in Seq(Messages)
    OBVIOUS
  <2> HIDE DEF TypeInv
  <2>1. /\ pty \in -1 .. 2^16 - 1 /\ resize \in Seq(0 .. 2^16 - 1)
        /\ mode = "pty" /\ pc = "pump" => width \in 1 .. 2^16 - 1
    <3>1. 2^16 = 65536
      BY SMTT(60)
    <3>2. pty \in Sizes \cup {NoPty} /\ resize \in Seq(Sizes)
      BY <2>0 DEF TermInv
    <3>3. mode = "pty" /\ pc = "pump" => width \in Sizes /\ width # 0
      BY <2>0 DEF TermInv, Running
    <3>4. resize \in Seq(0 .. 2^16 - 1)
      BY <3>2 DEF Sizes
    <3>5. pty \in -1 .. 2^16 - 1
      <4>1. PICK n \in Nat : n = 2^16 - 1
        BY <3>1, SMTT(60)
      <4>2. pty \in 0 .. n \/ pty = -1
        BY <3>2, <4>1 DEF Sizes, NoPty
      <4>3. pty \in -1 .. n
        BY <4>2, SMTT(60)
      <4> QED
        BY <4>1, <4>3
    <3>6. mode = "pty" /\ pc = "pump" => width \in 1 .. 2^16 - 1
      BY <3>1, <3>3, SMTT(60) DEF Sizes
    <3> QED
      BY <3>4, <3>5, <3>6
  <2>2. pipe \in [Streams -> 0 .. MaxChunks] /\ queue \in 0 .. MaxChunks
    BY <2>0, ChannelAssumption, SMTT(60) DEF Chunks, Streams
  <2> QED
    BY <2>0, <2>1, <2>2 DEF TypeOK, RequestFlags, SessionFlags, Started, Chunks,
        Codes, Places, Outcomes
<1> QED
  BY <1>1, <1>2, <1>3, PTL DEF Spec

-----------------------------------------------------------------------------
\* The inductive invariant.
IInv == TermInv /\ CtlInv /\ WireInv /\ PumpInv

\* The inductive invariant holds always.
THEOREM Invariance == ~LateSubsystem /\ Spec => []IInv
<1> SUFFICES ASSUME ~LateSubsystem
             PROVE  Spec => []IInv
  OBVIOUS
<1>1. Init => IInv
  <2>1. SUFFICES ASSUME Init PROVE IInv
    OBVIOUS
  <2>2. TermInv
    BY <2>1, SMTT(60) DEF Init, TermInv, Running, NoPty
  <2>3. CtlInv
    BY <2>1, SMTT(60) DEF Init, CtlInv, Ctl, Places, Results, NoStatus
  <2>4. WireInv /\ PumpInv
    BY <2>1, SMTT(60) DEF Init, WireInv, PumpInv, Ordered, Below
  <2> QED
    BY <2>2, <2>3, <2>4 DEF IInv
<1>2. IInv /\ [Next]_vars => IInv'
  BY TermKept, CtlKept, WireKept, PumpKept DEF IInv
<1> QED
  BY <1>1, <1>2, PTL DEF Spec

\* The client receives data, then exit-status, EOF and close, each at most once,
\* from processes on pipes and terminals, custom handlers and SFTP alike.
THEOREM InOrder == ~LateSubsystem /\ Spec => []WireOrdered
<1>1. IInv => WireOrdered
  BY DEF IInv, WireInv, WireOrdered, Ordered, Rank
<1> QED
  BY <1>1, Invariance, PTL

\* On pipes, when the status of a child that has exited is on the wire, both streams
\* have ended and every chunk that the child or a descendant wrote was sent before
\* (the output tasks are awaited in run_pipe).
THEOREM OutputFirst == ~LateSubsystem /\ Spec => []OutputBeforeStatus
<1>1. IInv => OutputBeforeStatus
  <2>1. SUFFICES ASSUME IInv, mode = "pipe", Sent("exit"), child = "exited",
                        NEW s \in Streams
                 PROVE  /\ ~open[s] /\ pipe[s] = 0
                        /\ ~closed => Count(wire, s) = made[s]
    BY DEF OutputBeforeStatus, Count
  <2>2. Has(wire, "exit") /\ wire \in Seq(Notes)
    BY <2>1 DEF Sent, Has, IInv, WireInv
  <2>3. pc \in Ended
    <3>1. ~Below(wire, 0)
      BY <2>2, NotYet
    <3> QED
      BY <2>1, <3>1 DEF IInv, WireInv, Reach, Ended
  <2>4. Plain(s) \in Notes
    BY SMTT(60) DEF Plain, Notes
  <2>5. Count(wire, s) \in Nat
    BY <2>2, <2>4, CountMore
  <2> QED
    BY <2>1, <2>2, <2>3, <2>5, SMTT(60) DEF IInv, PumpInv, CtlInv, Ctl
<1> QED
  BY <1>1, Invariance, PTL

\* A terminal has between 1 and 65535 columns, and when all window changes have been
\* taken up, those of the last request (max(1) in run_pty).
THEOREM TerminalSize == Spec => []TerminalFollowsClient
<1>1. Init => TermInv
  BY SMTT(60) DEF Init, TermInv, Running, NoPty
<1>2. TermInv /\ [Next]_vars => TermInv'
  BY TermKept
<1>3. TermInv => TerminalFollowsClient
  <2>1. SUFFICES ASSUME TermInv, Running("pump")
                 PROVE  /\ width \in 1 .. 2^16 - 1
                        /\ resize = <<>> => width = AtLeastOne(AsU16(asked))
    BY DEF TerminalFollowsClient, Running
  <2>2. width \in Sizes /\ width # 0 /\ 2^16 = 65536
    BY <2>1, SMTT(60) DEF TermInv
  <2>3. AtLeastOne(width) = width
    BY <2>2, SMTT(60) DEF AtLeastOne
  <2>4. width \in 1 .. 2^16 - 1
    BY <2>2, SMTT(60) DEF Sizes
  <2> QED
    BY <2>1, <2>3, <2>4 DEF TermInv
<1> QED
  BY <1>1, <1>2, <1>3, PTL DEF Spec

-----------------------------------------------------------------------------
(* The output of a terminal.                                               *)

\* run_pty has started the child and still receives from the reader thread.
Receiving == mode = "pty" /\ pc \in {"pump", "reap", "drain"}

\* Every chunk is on the wire, in the queue or in the terminal, unless the client is gone,
\* and the reader ends with the terminal.
PtyInv ==
    Receiving =>
        /\ ~closed => Count(wire, "out") + queue + pipe["out"] = made["out"]
        /\ ~pumping["out"] => pipe["out"] = 0 /\ ~open["out"]

\* A chunk that goes from the queue to the client is counted once.
LEMMA PtySent ==
    ASSUME CtlInv, WireInv, Chunks, PtyInv, PtyForwards \/ PtyFlushes
    PROVE  PtyInv'
<1>1. /\ Receiving /\ queue > 0 /\ queue' = queue - 1
      /\ Send(<<Plain("out")>>) /\ UNCHANGED <<pipe, made, pumping, open, closed>>
      /\ Below(wire, 0) /\ wire \in Seq(Notes) /\ Ordered(wire)
  BY DEF PtyForwards, PtyFlushes, Receiving, WireInv, Reach, childVars, clientVars
<1>2. "out" \in Streams
  BY DEF Streams
<1>3. /\ Count(wire, "out") \in Nat
      /\ ~closed => Count(wire', "out") = Count(wire, "out") + 1
  BY <1>1, <1>2, DataSent
<1>4. queue \in Nat /\ pipe["out"] \in Nat /\ made["out"] \in Nat
  BY <1>2, SMTT(60) DEF Chunks
<1>5. ~closed => Count(wire, "out") + queue + pipe["out"] = made["out"]
  BY <1>1 DEF PtyInv
<1>6. ~closed => Count(wire', "out") + queue' + pipe["out"] = made["out"]
  BY <1>1, <1>3, <1>4, <1>5, SMTT(60)
<1> QED
  BY <1>1, <1>6 DEF PtyInv

\* The reader thread takes a chunk from the terminal to the queue, or ends.
LEMMA PtyReads ==
    ASSUME CtlInv, WireInv, Chunks, PtyInv, PtyRead
    PROVE  PtyInv'
<1>1. /\ UNCHANGED <<mode, pc, wire, made, open, closed>> /\ "out" \in Streams
      /\ queue \in Nat /\ pipe \in [Streams -> Nat] /\ made["out"] \in Nat
  BY SMTT(60) DEF PtyRead, Chunks, childVars, clientVars, Streams
<1>2. Count(wire, "out") \in Nat
  <2>1. Plain("out") \in Notes
    BY <1>1, SMTT(60) DEF Plain, Notes
  <2> QED
    BY <2>1, CountMore DEF WireInv
<1> SUFFICES ASSUME Receiving
             PROVE  /\ ~closed => Count(wire, "out") + queue' + pipe'["out"] = made["out"]
                    /\ ~pumping'["out"] => pipe'["out"] = 0 /\ ~open["out"]
  BY <1>1 DEF PtyInv, Receiving
<1>3. ~closed => Count(wire, "out") + queue + pipe["out"] = made["out"]
  BY DEF PtyInv
<1>4. CASE /\ pipe["out"] > 0 /\ pumping' = pumping /\ pumping["out"]
           /\ queue' = queue + 1 /\ pipe' = [pipe EXCEPT !["out"] = @ - 1]
  BY <1>1, <1>2, <1>3, <1>4, SMTT(60)
<1>5. CASE pipe["out"] = 0 /\ ~open["out"] /\ UNCHANGED <<pipe, queue>>
  BY <1>3, <1>5
<1> QED
  BY <1>4, <1>5 DEF PtyRead, Receiving

\* What is written goes to the terminal while somebody reads there.
LEMMA PtyWritten ==
    ASSUME CtlInv, WireInv, Chunks, PtyInv, NEW s \in Streams, ChildWrites(s)
    PROVE  PtyInv'
<1>1. /\ UNCHANGED <<mode, pc, queue, pumping, open, closed>> /\ "out" \in Streams /\ open[s]
      /\ queue \in Nat /\ pipe \in [Streams -> Nat] /\ made \in [Streams -> Nat]
  BY DEF ChildWrites, CtlInv, Ctl, Chunks, clientVars, Streams
<1>2. Count(wire, "out") \in Nat
  <2>1. Plain("out") \in Notes
    BY <1>1, SMTT(60) DEF Plain, Notes
  <2> QED
    BY <2>1, CountMore DEF WireInv
<1> SUFFICES ASSUME Receiving
             PROVE  /\ ~closed => Count(wire', "out") + queue + pipe'["out"] = made'["out"]
                    /\ ~pumping["out"] => pipe'["out"] = 0 /\ ~open["out"]
  BY <1>1 DEF PtyInv, Receiving
<1>3. /\ wire' = wire /\ made' = [made EXCEPT ![s] = @ + 1]
      /\ pipe' = [pipe EXCEPT ![s] = IF pumping[s] THEN @ + 1 ELSE @]
  BY DEF ChildWrites, Receiving
<1>4. /\ ~closed => Count(wire, "out") + queue + pipe["out"] = made["out"]
      /\ ~pumping["out"] => pipe["out"] = 0 /\ ~open["out"]
  BY DEF PtyInv
<1>5. CASE s = "out"
  BY <1>1, <1>2, <1>3, <1>4, <1>5, SMTT(60)
<1>6. CASE s # "out"
  BY <1>1, <1>3, <1>4, <1>6
<1> QED
  BY <1>5, <1>6

\* Every step keeps the terminal's balance.
LEMMA PtyKept ==
    ASSUME IInv, Chunks, PtyInv, ~LateSubsystem, [Next]_vars
    PROVE  PtyInv'
<1> USE DEF IInv
<1> DEFINE Still ==
        /\ UNCHANGED <<mode, queue, pumping, pipe, open, made, wire>>
        /\ closed => closed'
        /\ Receiving' => Receiving
<1>1. CASE Still
  BY <1>1 DEF PtyInv
<1>2. CASE ~Receiving'
  BY <1>2 DEF PtyInv
<1>3. CASE Handler
  <2>1. CASE StartSession \/ SubsystemRequest
    BY <1>2, <2>1 DEF StartSession, SubsystemRequest, CtlInv, TermInv, Receiving
  <2>2. CASE ChannelEof
    BY <1>1, <1>2, <2>2 DEF ChannelEof, CtlInv, Receiving, childVars
  <2>3. CASE \/ ChannelOpenSession \/ ChannelClose
             \/ \E w \in Widths : PtyRequest(w) \/ WindowChange(w)
    BY <1>1, <2>3 DEF ChannelOpenSession, ChannelClose, PtyRequest, WindowChange, runnerVars,
                      childVars, clientVars, Receiving
  <2> QED
    BY <1>3, <2>1, <2>2, <2>3 DEF Handler
<1>4. CASE Spawn
  <2>1. CASE mode = "pty"
    <3>1. /\ wire' = <<>> /\ queue' = queue /\ pumping'["out"]
          /\ pipe'["out"] = 0 /\ made'["out"] = 0 /\ made["out"] = 0 /\ pipe["out"] = 0
      BY <1>4, <2>1 DEF Spawn, CtlInv, WireInv, Streams
    <3>2. queue = 0
      BY <3>1, SMTT(60) DEF Chunks
    <3>3. Count(<<>>, "out") = 0
      BY FS_EmptySet, SMTT(60) DEF Count
    <3>4. Count(wire', "out") + queue' + pipe'["out"] = made'["out"]
      BY <3>1, <3>2, <3>3, SMTT(60)
    <3> QED
      BY <3>1, <3>4 DEF PtyInv
  <2>2. CASE mode # "pty"
    BY <1>2, <1>4, <2>2 DEF Spawn, Receiving
  <2> QED
    BY <2>1, <2>2
<1>5. CASE \/ SpawnFails \/ PtySetupFails \/ StdinPumpEnds \/ PipeChildDone \/ PipeDrained
           \/ PtyDrained \/ PtyDrainTimesOut \/ CustomDone \/ SftpWrites
  BY <1>2, <1>5 DEF SpawnFails, PtySetupFails, StdinPumpEnds, PipeChildDone, PipeDrained,
     PtyDrained, PtyDrainTimesOut, CustomDone, SftpWrites, Receiving, runnerVars
<1>6. CASE FinishChannel
  BY <1>2, <1>6, SMTT(60) DEF FinishChannel, Receiving
<1>7. CASE PtyOutputEnds \/ PtyResizes \/ PtyChildDone \/ ForwardEnds \/ ClientTypes
  BY <1>1, <1>7 DEF PtyOutputEnds, PtyResizes, PtyChildDone, ForwardEnds, ClientTypes,
     Receiving, runnerVars, childVars, clientVars
<1>8. CASE Runner
  BY <1>4, <1>5, <1>6, <1>7, <1>8, PtySent DEF Runner
<1>9. CASE ChildExits
  BY <1>1, <1>2, <1>9 DEF ChildExits, Receiving, runnerVars, clientVars
<1>10. CASE \E s \in Streams : Pump(s)
  BY <1>2, <1>10 DEF Pump, PumpCopies, PumpEnds, Receiving
<1>11. ASSUME NEW s \in Streams, ChildCloses(s)
       PROVE  PtyInv'
  <2>1. /\ UNCHANGED <<mode, pc, queue, pumping, pipe, made, wire, closed>>
        /\ open'["out"] => open["out"]
    BY <1>11 DEF ChildCloses, runnerVars, clientVars, CtlInv, Ctl, Streams
  <2> QED
    BY <2>1 DEF PtyInv, Receiving
<1>12. CASE UNCHANGED vars
  BY <1>1, <1>12 DEF vars, Receiving
<1> QED
  BY <1>3, <1>5, <1>7, <1>8, <1>9, <1>10, <1>11, <1>12, PtyReads, PtyWritten DEF Next

\* On a terminal no output is lost or sent twice between the child and the client
\* while run_pty receives: when the flush ends with the reader, all of it is on the wire.
THEOREM TerminalOutput == ~LateSubsystem /\ Spec => []TerminalOutputKept
<1> SUFFICES ASSUME ~LateSubsystem
             PROVE  Spec => []TerminalOutputKept
  OBVIOUS
<1>1. Init => Chunks /\ PtyInv
  BY ChannelAssumption, SMTT(60) DEF Init, Chunks, Streams, PtyInv, Receiving
<1>2. IInv /\ Chunks /\ PtyInv /\ [Next]_vars => Chunks' /\ PtyInv'
  BY ChunksKept, PtyKept
<1>3. PtyInv => TerminalOutputKept
  BY DEF PtyInv, TerminalOutputKept, Receiving, Count
<1> QED
  BY <1>1, <1>2, <1>3, Invariance, PTL DEF Spec
=============================================================================
