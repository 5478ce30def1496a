# A TLA+ verification of sshdt

sshdt is a portable SSH server with an optional Microsoft Dev Tunnels transport.
This directory models its concurrent parts in TLA+, checks the models with TLC on
small instances, and proves the properties that matter most with TLAPS.
`PROJECT.json` maps every definition to the lines it stands for.

## 1. The system

| Part | Source (`src/src/`) | State | Operations | Talks to |
|---|---|---|---|---|
| Tunnel manager | `devtunnel/client.rs`, `ipc.rs` | lock file, endpoint file, lease count, idle time, session tasks | search, probe, spawn, elect, publish, lease, retire | proxies, other managers |
| Connector and forwarding | `devtunnel/client.rs` | connector, announcements, published ports and generation, request queue | start, read a line, tick, stop, exit; per session: wait, dial, check, cut | devtunnel CLI, sessions |
| Retry and network changes | `devtunnel/retry.rs`, `network.rs`, loop of `host.rs` | delay, ready time, pending change, next early retry | attempt, fail, ready, wait, early retry, cancel | clock, Windows notifications |
| Tunnel host | `devtunnel/host.rs` | host lock, status file, account/tunnel/port/labels of the service | attempt, shutdown, status | devtunnel CLI |
| Process guardian | `devtunnel/process.rs` | owner pipe, child, event queue | spawn, drain, stop, kill | connector, host |
| Logs | `devtunnel/logs.rs`, `show_logs` of `service.rs` | lock file, daily files | append, prune, show, follow | all processes that log |
| Admission and authentication | `server.rs`, `auth.rs`, auth part of `handler.rs`, `config.rs` | permits, connection tasks, authenticated flags | accept, permit, handshake, decide, expire, shut down | russh |
| Session channel | `handler.rs`, `session.rs` | channel map, terminal size, runner, child streams | pty/shell/exec/subsystem requests, resize, EOF, close; pumps, exit, finish | russh, child process |
| SFTP | `sftp.rs` | handle table | file and directory requests | file system |
| direct-tcpip | `forward.rs` | none | dial and copy | |
| Launch at login (Windows) | `service.rs`, `run_server` of `main.rs` | three named events, registry values | enable, disable, uninstall, status, start, stop, restart; per server: guard, load key, bind, serve, close | Windows, host keys |
| Host keys | `hostkey.rs` | key file | load, generate, write | launched servers |
| Configuration and command line | `sshd_config.rs`, `config.rs`, `main.rs` | file, options, saved options | parse a line, apply options, validate, build | admission |

What is hard in it, and hard to test: the election of the manager races with the
probes of the proxies and with the end of the previous manager; a session's
connector can be replaced between its reading the address and its use of the stream;
lines of a stopped connector arrive late; network events can shorten waits again and
again; the grace timer races with authentication; five tasks write to or read from one
channel while its client may go away at any point; a guardian learns late that its owner
is gone; `start` and `stop` meet servers that are just coming or going and know them only
by events that exist while somebody has them open; a log is followed while it rotates;
and whom a server lets in depends on lines and options in any order. `PROJECT.json` lists
these hazards with their lines and with the properties that cover them.

## 2. The modules

**Manager** (with `SharedManager`, `MCManager`, `ManagerProofs`). `cpc[c]` is the place
of a proxy in `acquire()`, `pc[b]` the place of a manager process in `broker()`, and
`stage[c]` that of its `serve()` task for `c`. One action is one step between two
awaits or system calls, so the probe `try_lock`/`unlock` is two actions, as are closing
the listener, removing the endpoint file and releasing the lock. Killing a manager
is an action of its own; it leaves the endpoint file behind. `SharedManager` is what the
manager promises to the proxies: one owner, leases granted by it, and retirement
without a lease outstanding. Whether a leased session gets its tunnel is
nondeterministic here; that is Forwarding's matter.

**Forwarding** is the inside of one manager: the loop's connector (`connector`,
`startup`, `due`), the CLI's process (`alive`, `live`, `output`: external), the watch
channel (`ports`, `generation`, `changed`) and the sessions (`stage`, `snap`, `dest`),
with and without a fixed-port relay. An address may be reused by the next connector, so
`dest` records which process a stream really leads to. The retry delay is left to
Backoff: here a retry just becomes due.

**Backoff** has a clock. `host.rs`'s loop drives `Retry` and
`NetworkChanges`; timers fire late but never early. History variables remember when
attempts were started. The connector loop in `client.rs` uses the same two types in the
same order.

**Admission** (with `MCAdmission`, `LoginGate`) has a task per connection (`phase`), the semaphore
with its queue, and the handler's decisions under a chosen `config`. A hook
decides some time after it was called, and the timer may fire in between. `LoginGate` is
what `max_startups` promises, without tasks, timers and permits: a queue, at most so many
connections inside, and one way out for each. Its order is the one in which the tasks joined
the semaphore's queue; the tasks are spawned, so that need not be the order of `accept`.

**Config** is the way to a configuration: the options of the command line, or those that
`service enable` saved and `from_args` reads back in another working directory; the file,
one action per line; then the options over it, and validation. A configuration is a
partial function from field names to values, and a value is a representative of what the
code tells apart (valid, invalid, empty, zero, a duration that overflows, a relative path).
The options have the types of `Args` (`from_arg_str`): `--login-grace` is a number of seconds,
while `LoginGraceTime` of the file is a duration (`parse_time`). Without a home directory
(`home`) there is no default file, and a relative `AuthorizedKeysFile` is an error
(`Resolvable`). `validate_dev_tunnel` is applied to the file and again to the result; it limits
the number of different labels to `MaxLabels`.
What is saved is a sequence of tokens: the pushes of each option in the order of
`startup_args` (`Pushed`), joined (`Joined`), without the empty strings (`Picked`).
`WantedList`, `WantedScalar` and `Flawless` say, without the order of steps, what the
file and the options describe. They do not use the operators that parse: `Meant` and
`MeantByOption` say which values a text stands for (`Seconds` has the seconds of a duration),
and `parse_u64`, `Scaled`, `parse_time` and `from_arg_str` follow the code. The durations are
four representatives; any other text is an invalid one.

**Startup** (with `MCStartup`) composes the two: `Config` builds, `build()` makes
`AuthConfig` and the allowlist, and `Admission` serves with the result. `granted` remembers
what the text said of logins.

**Channel** is one session channel: the handler's `ChannelState`, `run_session` with its
four kinds of runner, the child's streams and the sequence `wire` of what was sent.
Data is counted in chunks; window sizes keep their 32 and 16 bits. SSH flow control is not
modelled: sending a chunk never waits. So what is said of the end of a session holds of clients
that keep their SSH window open or go away; for a client that stays and lets its window run full,
`channel.data` waits, and the session with it.

**Host** and **Guardian** are composed: `Guardian` has the owned processes (`guard`, `cli`,
`kids`, and `owner`, the pipe whose end tells the guardian that its owner is gone), `Host`
the task of `start()` in each of several servers for the same tunnel (`phase`), the command
of `attempt()` it has come to (`step`) and the process it owns (`held`). A cancelled or
killed server drops its process and its locks in one step, while the guardian
notices later. The tunnel is a record of what `attempt()` looks at; a command that fails
may or may not have reached the service. The status file and the instance lock appear
as `shown`, what `print_status` would list. The guardian is the Unix one.

**Service** has the `--service-run` processes (`server[s]`: guard, host key, listener,
shutdown) and the `sshdt service` commands (`ctl[c]`), each a sequence of system calls with
an action for each. They share the named events: `holders[e]` are the processes that have
event `e` open; it keeps its state (`signalled`) as long as there is one. A failed start
kills its server wherever that is, also while it writes the host key, or fails to do so
(`CleanupFails`); commands are interrupted between any two calls, and sign-ins launch further
servers. `killed` remembers that a start has killed a process.

**Logs** is one daily log: writers in `append()` (lock, read the time, write, prune) and a
reader (look for the newest file, read it from the offset). `kind` chooses between the
tunnel log of `logs.rs` and the service log, whose reader opens the file that it has just
listed (`OpenService`), and fails if that was removed meanwhile. A removed
file keeps its lines in `files`, as it does for whoever has it open. The clock does not go back.
`Journal` is what the log promises, without locks and processes: lines in the order of
their times, and files that expire from the oldest on.

External, and modelled from their use: the devtunnel CLI and the tunnel service, child processes, the clock, the
Windows notification, and russh, of which the models assume that it sends nothing on
a channel the server closed, that its sends of data return (the client's window is open), and
that dropping the session future closes the connection (as the comment in `server.rs` says).

## 3. The runs

| Run | Instance | Distinct states | Checks |
|---|---|---|---|
| `manager` | 2 proxies, 2 manager slots, cap 2, 1 kill | 252 k | one manager; the endpoint names the serving manager; session cap; implements `SharedManager`: only a kill takes a lease away |
| `manager_live` | 2 proxies, 1 slot, cap 1, 1 kill | 124 k | an unused manager retires; a search ends or finds a serving manager |
| `forwarding` | 1 session, 1 port, 2 addresses, queues of 1, 2 connectors | 123 k | published ports belong to the running connector; an established current session leads to the current process; a connector that forwards a port, or has announced one, is not stopped by the deadline, also not in the tick that publishes it; lost sessions close; requests are served; connectors are replaced |
| `backoff` | delays 3..7, settle 1, interval 3, horizon 14 | 2.2 M | no retry storm; early retries spaced and settled; reset only after stability |
| `admission` | 3 connections, 1 permit, password and hook | 145 k | startups bounded; logins end; the queue advances |
| `startup` | every file of up to 2 of 17 lines, up to 2 of 19 options, with and without a home directory, foreground and saved | 1.2 M | the configuration is the described one; logins are as described; offered methods agree with decisions |
| `channel` | with and without a custom handler, 1 chunk per stream, widths 80 and 65536, 2 resizes | 345 k | data, status, EOF, close once and in order; output before status; the terminal has the last size and at least a column; exits are reported; a session without client winds down |
| `host` | 2 servers, 2 processes, 1 fault | 56 k | one owned host process; an exit means that the group is gone; a connected tunnel is configured; orphans die; hosting converges; the status follows the process |
| `service` | 2 servers, 2 commands, 3 events (symmetric in both) | 1.9 M | one guarded server; the Run entry is usable; the offered key is the one in the file; a stop that succeeds has stopped the server; a start that succeeds has made one reachable |
| `logs` | 2 writers, 3 days of 2 ticks, 2 files kept, 4 lines, 1 kill | 310 k | an appended line is kept; what is shown is a prefix of each file, in order; a follower catches up |
| `channel_terminal`, `channel_subsystem` | | | violated, see below |

`TypeOK` of each module that has one documents its variables. No run spends time on it: it is proved
(`TypeCorrect`, `RetryTypes` for Backoff, `ServerTypes` for Admission).

Every property of a passing run is accompanied by a mutant: an operator before the
definition it changes, the way a plausible mistake would, with which TLC finds the
property violated.

Bounds. Two proxies and two managers are the least with which a successor can meet a
predecessor that is retiring and a proxy that probes; one kill suffices for a stale
endpoint. Two connectors let a session hold a snapshot of the first while the second uses
the same address (the theorems have no such bound); queues of one make every sender wait.
In Backoff
the constants keep the order of the real ones where it matters (settle < interval
= first delay < largest delay; the permanent pause lies between), and the horizon holds
three attempts with an early retry between them. Three connections on one permit
make a queue of two, and 65536 is the width that becomes 0 in 16 bits. In Host, two
servers compete for the lock, or one follows the other while the process of the first is
still there; the one fault is a shutdown, kill, timeout, failed command or foreign change at
any point (giving up a shutdown after ten seconds is not counted). In Service an event is a
command, a sign-in or an interrupt: three allow a restart beside another command
and a sign-in. Three days and two kept files make pruning remove a file that a
reader may have listed. Two lines suffice for every order of a line that adds and one that
disables or overrides; `MaxSeconds` lies just below an hour, so that "1h" overflows and
"1m" does not, and with `MaxLabels` = 1 two labels are one too many. Deadlock is not
checked: each of these systems may come to rest (all proxies done, server shut down,
channel closed, tunnel hosted, command done, clock at its horizon).

Fairness. Tasks, threads and processes that can run are run (weak fairness of their
steps), and timers fire. No fairness is assumed of clients, networks, kills or, except
after a stop, a hang-up or the end of its input, of child processes. Stronger
assumptions, each in its module:
- Manager: `SF(TakeLock)` and `ProbesDoNotStarve`: proxies hold the lock for the instant
  between two system calls every 50 ms, so not every new manager meets one of them.
- Forwarding: strong fairness of starting a connector, of the manager's tick and of
  dialling: `select!` chooses randomly among ready branches, and a dial to
  a listening address that is possible again and again succeeds once.
- Admission: `QueueAdvances` assumes `run_stream` returns.
- Channel: a child exits when hung up or when its input has ended, and then lets go of
  its streams; a custom handler returns when its input has ended.
- Host: the CLI answers a command unless a fault makes it fail, pauses end (Backoff has
  their length), and the guardian is not killed itself.
- Logs: a writer in `append()` and a reader go on; nobody has to log or to look. A reader
  whose file was removed may end with an error, as in the code.

Service has no liveness property: its waits end by timeouts of the commands, and a server
that hangs is killed by the failed start or by nobody.

## 4. What the code does differently from what it says

- `channel_terminal`: a client that goes away is noticed by `run_pty` only when a write
  fails; a silent terminal child is never hung up.
- `channel_subsystem`: `subsystem_request` marks the channel as SFTP even when it refuses
  the request, so the client's EOF then closes a channel on which a process runs.

Met while modelling, and kept in the models as the code has it:

- `run_custom_handler` joins the handler with the forwarding of client input, so the status
  of a handler that returned waits for the client to end its input (`CustomDone`).
- `try_saved_args` drops empty arguments (`service.rs:352`), so an option with an empty value
  loses it at the next sign-in and takes the next option for its value. `ConfigAsDescribed`
  and `LoginsAsDescribed` exclude such saved options (`NoEmptyValue`).
- "Command-line flags override config values" (the repository's `README.md:347`) does not hold of
  `--authorized-keys`, `--pubkey` and `--allow-user`: they add to the values of the file
  (`ExtendingLists`), as the comment at `main.rs:541` says ("additive on top of any from a
  file"). `ConfigAsDescribed` has it as the comment says.
- A relative `HostKey` of the file is looked up in the working directory, which is another
  one at sign-in; `--host-key` is made absolute when it is saved.
- `--follow` prints new entries "across log rotation", but not the lines that were written to
  a file between its last look and the change to the next file: `ShownIsPrefix` says prefix.
- A stop event that somebody still has open is found signalled by the next server, which
  then stops at once, so `StartMeansReady` allows for a stop that is pending; an incomplete host
  key file, left by a server that was killed while writing it, is not repaired.
- The ready event stays signalled while somebody has it open, also when the server that set it
  was killed by a start that gave it up; a later start may then take it for its own server's.
  `StartMeansReady` is about the time before the first such kill.

## 5. The proofs

All theorems hold for every value of the constants that the named assumption of the module
admits: any number of processes, connections, sessions or faults. `IInv`
(`RetryInv` for Backoff, `StartupInv` for Startup) is the inductive invariant, `Invariance`
shows it, and the other theorems follow. None of
the properties is inductive as it stands; what has to be added is the argument.

`ManagerProofs` (`ManagerAssumption`: finitely many proxies, names distinct, at least one
session). That the endpoint names the serving manager depends on who
holds the lock through all phases of the shutdown, and that shutdown cuts nobody depends
on the count. `IInv` adds that the lock belongs to the manager past its election or to a
probe (`LockOwned`), that an endpoint stays until its owner removes it
(`EndpointOwned`), in which phases of a manager a session can be at which stage
(`Unconnected`, `SessionsHosted`), and that the shutdown phases follow `stopping`.
Counting uses the cardinality lemmas of FiniteSetTheorems. From `Invariance` follow
`TypeCorrect`, `Election`, `EndpointCurrent` and `Leases`; `Refinement` maps the owner
to the manager in its serving phase and the holders to the leased
sessions, and has a step per action.

`ForwardingProofs` (`ForwardingAssumption`; any nonempty set of addresses has a first and a last
one). Sessions only read what the loop publishes and the loop does not look at sessions, so
each half is stepped through on its own. What ties them (`SnapshotsTrue`): a snapshot with
the current generation was taken from the connector that runs, and a stream that was opened
under it leads there, because the generation moves on before the next process is started
(`GenerationNamesProcess`). Theorems `Generations`, `CurrentSession`, `ConnectorKept`, and
`TypeCorrect`, for which `RestShape` adds what the others do not look at. `ConnectorKept` includes
the tick in which the deadline has passed and the first port is just published (`SelectedPort`).

`ConfigProofs` and `StartupProofs` (`ConfigAssumption`: the texts are sequences of lines and the
command lines have options and values of their kinds; `AdmissionAssumption`: finitely many
connections) go from the text to the logins.

- Both parsers are loops over sequences, and what they are to find is defined by recursion over
  the same sequences. The first lemmas give the values of such a recursion (`Computation`) and an
  induction over the natural numbers with a set in the place of a predicate (`SetInduction`, from
  the well-foundedness of the numbers), then what `Joined` and `Picked` do with one more
  element, with two sequences, and with a prefix.
- Saved options: each push is one token or two, and no token is empty if no value is
  (`NoEmptyValue`), so `try_saved_args` drops nothing. `Position(n)` says that the tokens left are
  those of the pushes after the n-th and that an option has the values typed among
  the first n; at the end `SameOptions` holds: the options are the ones that were typed, and
  their paths name the same files in whatever directory the process runs.
- The file: `Parsed(n)` says that after n lines every list has the values that those lines say, every
  other field what the last of them says, and what was disabled or closed; `FileRead` is the
  same for the whole file after the trailing steps of `parse` and `parse_for_user`.
- The merge: `MergedLists`, `MergedScalars` and `MergedLabels` compare `build_config`'s result with
  `WantedList` and `WantedScalar`; each field is set by one flag (`FlagsApart`). That a text is
  read as what it means is shown first, from the definitions on both sides (`ParsesNumber`,
  `ParsesTime`, `ReadMeant`, `OptionMeant`); `IllTyped` has the options that argh refuses.
- `ConfigInv` puts these together stage by stage; in a failed process it says that there is a
  flaw, which gives `Described`.
- The server: exactly the tasks past the queue that are not yet authenticated hold a permit
  (`PermitsHeld`), each waits once (`Queued`), and the permits are counted (`PermitsCounted`), which
  gives `Startups` and, since a task takes a permit only if there is one, `ServerTypes`. That a login was acceptable to `decide()` when it was made (`Granted`) gives
  `Entitlement` (`LoginsEntitled`, which no run checks: `LoginsAsDescribed` is its counterpart
  from the text on) and, with lemmas about `MethodSet` and `Decide`, `Agreement`.
- `ServedAs` remembers in the server what it was built from, as `granted` has it
  (`BuiltAsGranted`). With it the theorems about Admission hold in every server that comes out of a
  file and options: `Logins`, `OffersOfServer`, `StartupsOfServer`.
- `Gated` and `GateOfServer`: the server implements `LoginGate` (`GateKept`), with the holders of permits inside
  and the authenticated connections as members. A permit is free only if fewer than `Cap` are inside
  (`PermitsCounted`); the handshake, the timer and a login that is refused leave the gate as it
  is; and the end of a connection is a departure or, for a stream that an application handed over
  and that never logged in, nothing.

`ChannelProofs` (`ChannelAssumption`). `CtlInv` says which tasks can still write at each place of
`run_session`, `WireInv` which messages the wire can hold there, `PumpInv` that the chunks
written are those in the pipe and on the wire, `TermInv` that the size asked for last is the newest
one in the queue or, if that is empty, what the terminal has. `InOrder` and `OutputFirst` assume
`~LateSubsystem`: with a late subsystem request they fail, as `channel_subsystem` shows.
So does `TerminalOutput` (`TerminalOutputKept`), the counterpart of `OutputFirst` on a terminal: `PtyInv` balances the
chunks on the wire, in the queue of the reader thread and in the terminal against those written. There the status may
come first, since the final flush has a time limit; but nothing is lost before it, and nothing at all
if the flush ends with the reader.
`TerminalSize` needs no such assumption, nor does `TypeCorrect`, which is shown from
a few facts of its own: no more chunks are on their way than were written (`Chunks`), and a session ends with
a status of the process, a code of its handler or 127 (`Codes`).

`HostProofs` (`HostAssumption`). `ProcInv`: whoever owns a process has the host lock, and the
guardian's phase tells what of the process group may still run. `ConfigInv`: what the output of
a command said of the tunnel, and what `attempt()` concluded from it by coming to a later command,
still holds, since commands only add to the tunnel. Theorems `OwnedOnce`, `GroupGone`, `Hosted` and
`TypeCorrect`.
The second part is about the delays of the same loop, in Backoff (no bound on time;
`BackoffAssumption`: positive first delay not above the largest, positive intervals). `RetryInv`
relates the timers to what happened: attempts in order and one of two in a row early or a full
delay later, a deadline ahead of the last start, `next_allowed` remembering the last early retry,
and a pending change that came after `begin_wait`. From it follow `NoStorm`, `EarlyRetries`,
`Reset` and `RetryTypes`.

`ServiceProofs` (`ServiceAssumption`). `ServerInv`: a guarded process has the running event open, lets
the port go before the guard, and from the generation or loading of the key on nobody else writes
the file; commands preserve it because all they do to a server is to launch or kill it.
`RegistryInv`: one editing command at a time, and what it has written before it comes to a
place is still there. `ReadyInv`: while ready is signalled and nothing was killed, a server is
serving, or stop is signalled and whoever has ready open has stop open, too, so that
stop cannot be forgotten before ready is. Theorems `Exclusion`, `KeyStable`, `Configured`, `Stopped`,
`StartReady` (with `ReadyInvariance`),
and `TypeCorrect`, whose events follow the operation that signals them (`EventsSignalled`).

`LogsProofs` (`LogsAssumption`). For the writers: whoever is in `append()` holds the lock, so no line and no
file is later than the time it has read (`TurnInv`), and a file with lines that is gone
has a newer one (`FilesInv`); hence no removed file is ever created again, and pruning, of which
`KeptNewest` shows that it keeps the newest and at most `Keep` files, spares the line just written
(`Written`). The same two invariants show that the writers implement `Journal` (`Journalled`, of `JournalKept`): writing is
`Record`, pruning is `Expire` or removes nothing, and a process that dies leaves a journal. For the reader: what is printed ends where it stands (`UpTo`), and the newest file is never
older than the current one, since a step of a writer lets files only grow and removes one only if
as new a one is left (`Grows`); this gives `Prefix`. `TypeCorrect` adds that a printed line is
one of a file (`PrintedLines`).

Every safety invariant and action property of a passing run is proved, and so are the refinements
of `SharedManager`, `LoginGate` and `Journal`; `GateKept`, `JournalKept` and
`TerminalOutputKept` are in no run: like `TypeOK` they are proved. Only model-checked: the
liveness properties, since fairness and ENABLED are outside the prover, and the violated
properties of section 4, which fail.

## 6. Not modelled

- The table of weak relays and the binding of fixed local ports (`ensure_relay`): a relay
  appears in Forwarding only as a second snapshot. A session that comes while an
  aborted relay still has the port is refused.
- The handle table and the file-system calls of SFTP; in Channel SFTP is a writer.
- SSH flow control (see Channel), and a client that stops reading without going away.
- direct-tcpip, environment variables and the command resolver: no state beyond a request.
- Framing and tokens of `ipc.rs`, splitting of words (`util.rs`), log formatting, byte-wise
  copying, cryptography.
- The Windows variants of the guardian (a job object) and of the network notification.
- Kills of a guardian itself, two commands of one user that edit the registry at the same
  time, and servers in the foreground that share a host key file (they have no guard).
