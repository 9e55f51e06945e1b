# TLA+ models of crl.interactivesessions

`crl.interactivesessions` runs commands in (remote) terminals. A local process
drives a terminal, starts a Python interpreter at its other end, loads a server
into it, and then calls Python over messages sent through the terminal; on top of
that it keeps pools of terminals and runs foreground and background executions.
This directory holds the TLA+ models of its protocols and resource handling, their
TLC configurations and the TLAPS proofs.

Source paths below are relative to `src/crl/interactivesessions/`.

## 1. Inventory

| Component | State | Operations | Interacts with | Correct when |
|---|---|---|---|---|
| **Messaging of the Python shell** (`shells/msgpythonshell.py`, `shells/terminalclient.py`, `shells/remotemodules/{servers,msgcaches,msghandlers,msgs,msgmanager}.py`) | client: try and phase of the running call, two message counters, `_fatalerror`; server: cached replies with their tries, removed uids, the handler running | `exec_command`, `send_command`, `get_prompt_from_terminal`, `exit`; `serve`, `handle_next_msg`, `send_expired` | the byte streams of the terminal, PythonCmdline | a command runs at most once and in order; a call returns the output of its own command; losses are masked by retries; calls end |
| **ConsecutiveSet** (`msgcaches.py`) | an interval and its missing numbers | `add`, `in` | MsgCaches | it is the set of what was added |
| **Tokens** (`shells/remotemodules/tokenreader.py`) | a matcher for each place of a gap | `read_until_token` | chunks and the file copier above, the terminal below | the token is found where it ends, and nothing behind it is read |
| **Chunks** (`shells/remotemodules/{chunkcomm,servercomm,commbase}.py`) | buffers, `_chunk_ack_reading` | `write` with acknowledgements, `read_until_size` | Messaging above, tokens below | what is read is what was written; both sides never wait for each other |
| **PythonCmdline** | the pending multi-line command | `exec_command` | server handlers | an error leaves nothing pending |
| **Terminal pools and executions** (`_pool.py`, `_terminalpools.py`, `_process.py`, `_runnerintarget.py`, `pythonterminal.py`) | free and used terminals, shared counters, cleanups, limits; the process of each execution | `get`, `put`, `put_incr_shared`, `decr_shared`, `remove`, `close`; run, wait, kill | RemoteRunner, recovering terminals, proxies | a terminal in use has one user; background executions keep theirs; limits hold; nothing leaks |
| **Recovering terminals** (`autorecoveringterminal.py`, `autorunnerterminal.py`) | session, verify proxy, callbacks, tries | `initialize_terminal`, `initialize_if_needed`, `auto_close`, `close` | InteractiveSession, proxies | a broken session is closed once and replaced, one that works is kept |
| **Remote proxies, RunnerTerminal** (`remoteproxies.py`, `runnerterminal.py`, `garbagemanager.py`, `_remoterunnerproxies.py`, `remoteimporter.py`) | handle, owner, session id of each proxy; garbage | access, deletion, `set_from_remote_proxy`, asynchronous responses | RunnerHandler, recovering terminals | a remote object lives as long as its owner, and no handle crosses sessions |
| **RunnerHandler** (`RunnerHandler.py`) | stored responses, threads, file handles | `run`, `get_response`, `FileHandle` | proxies, through Messaging | a response is kept until it is fetched, and given once |
| **InteractiveSession** (`InteractiveSession.py`, `shells/shellstack.py`) | stack of shells | `spawn`, `push`, `pop`, `pop_until`, `close_terminal` | shells, terminal | the top of the stack is the shell that runs |
| **Shells** (`shells/*shell.py`, ...) | prompts, start commands | `start`, `exit`, `exec_command`, `get_status_code` | InteractiveSession, terminal | a command gets its own output |
| **Self repairing sessions** (`SelfRepairingSession.py`, `ShellSubprocess.py`) | sessions, run id, backup of the last result | `run` with retries in new sessions, `close` | InteractiveSession, PythonShell | a result belongs to its run; no session is left behind |
| **File copier** (`_filecopier.py`, the copy keywords) | remote and local file handles | copies in blocks, in both directions and between targets | pools, proxies, raw terminal | the copy is exact or an error; files are closed |
| **ParamikoSpawn** (`shells/paramikospawn.py`) | queue of the reading thread, buffer, EOF flag | `read_nonblocking`, `send` | paramiko channel | nothing received is lost before EOF |
| **Keywords** (`remoterunner.py`, `InteractiveSessions.py`, `daemonizer.py`, executors) | targets, background executions | Robot Framework keywords | all of the above | |

Almost everything is single threaded on each side; the exceptions are the thread of
ParamikoSpawn and those of RunnerHandler. What is concurrent is the pair of
processes at the ends of a terminal, and the remote processes of the executions.
The hard behaviours are therefore the order of messages, timers and retries of
Messaging, calls that fail half way with resources in hand (pools, recovery,
repair, copies), what a call that timed out leaves in the terminal for the next one,
and state of one session used in the next. `PROJECT.json` lists each
hazard at its line, with the properties that cover it or the reason why none does.

## 2. Modules

| Module | What it is |
|---|---|
| `RemoteCall` | the promise of `MsgPythonShell` to its user, without messages: commands are run at most once, a call returns its own output or fails |
| `Messaging` | the protocol; `RemoteCallSpec` states that it implements `RemoteCall` |
| `MessagingInv` | its inductive invariant, in named parts |
| `Messaging_proofs` | theorems about `Messaging`: types, at most once, own output, refinement; then what depends on the order in its streams: the order of the commands, what an Ack tells, and the masking of losses when timers are longer than delays |
| `MCMessaging` | TLC instance, runs `safety`, `prompt`, `ack` |
| `IntegerSet` | a set to which each call adds its argument |
| `ConsecutiveSet` | `ConsecutiveSet` of `msgcaches.py`; `IsIntegerSet` states that it implements `IntegerSet` |
| `ConsecutiveSet_proofs`, `MCConsecutiveSet` | its theorems, and its run `consecutive` |
| `TokenReader`, `TokenReader_proofs`, `MCTokenReader` | the search for a token in what is printed; run `token` |
| `TerminalPools`, `TerminalPools_proofs`, `MCTerminalPools` | pools, executions, user terminals and the keywords of RemoteRunner that use them; run `pools` |
| `RunnerTerminal`, `RunnerTerminal_proofs`, `MCRunnerTerminal` | a recovering terminal with its proxies, garbage and responses; runs `recovery`, `unusable` |
| `ShellStack`, `ShellStack_proofs`, `MCShellStack` | InteractiveSession and its shells against the programs that run; run `stack` |
| `SelfRepairing`, `SelfRepairing_proofs`, `MCSelfRepairing` | runs in sessions that are replaced, with their backups; runs `repair`, `twice` |
| `FileCopy`, `FileCopy_proofs`, `MCFileCopy` | the copy keywords down to the raw terminal; run `copy` |

How they fit together. `Messaging` uses a set for `MsgCaches._removed`; `ConsecutiveSet`
justifies it. `RunnerTerminal` and `FileCopy` take from `Messaging` that a remote call is
answered, answered late or not at all, and that a broken connection is noticed; `FileCopy`
takes from `RunnerTerminal` that a call which is not answered leaves no session, and from
`TokenReader` that what comes before a token is skipped. `TerminalPools` takes from
`RunnerTerminal` that a terminal recovers and that what ran in its earlier session is
lost. `ShellStack` and `SelfRepairing` model the other, older way to run commands, without
Messaging.

### Messaging

The client is one thread. `phase` is where it stands in `send_and_receive`:
`attempt` (in `_received_msgs_for_msg`, with `left` more tries), `reply` (after an
Ack, `_try_to_receive_until_reply`), `final` (after the last try,
`_final_try_to_receive_until_reply`), `idle` outside of a call and `start` before the
first `ServerIdReply`. Each action is one iteration of a receive loop, an expiry of a
timer or a call of the user, from the message taken to the messages sent.

The server is one thread too: `ServerComm._read` sends the expired replies before it returns
bytes, and nothing else runs meanwhile. `due` holds the caches that the running `send_expired` has
found expired and not visited yet; a message is read only when it is empty (`Idle`). A handler
takes its request (`TakeRequest`) and ends in a later step, because commands may run for long and
the client goes on meanwhile. `_send_reply_via_cache` pushes a reply whose timeout is 0, so that
the following `send_expired` sends it at once; it uses up the first of the tries. `cache` and
`removed` are the two halves of `MsgCaches`.

Two counters number the requests of the client: `TerminalClient._uid_iter`
(`nextuid`) overwrites the uid of requests passed to `send_and_receive`, all others
keep the uid of `MsgBase._uid_iter` (`created`).

A call after a fatal error returns the text of that error at once (`_fatalerror`); such calls are
left out, as they exchange no message.

Abstractions: a command is its position in the order of creation; an output is the
position of the command in `log`, which tells two runs of one command apart; the
tokens of StrComm turn corruption into the loss of a message, and noise without
loss is dropped below; the chunks are not there, so messages are those of one
chunk (see section 7). A timer may expire in any state; with `Prompt`, only when
everything sent is delivered and handled. `Duplicate` and the two `Lose` actions are
the faults the tests inject (`DuplicateClient`, `LostStrComm`).

### TerminalPools

A job is one execution (`run`, the same with `progress_log`: `async`, `background`,
`nohup`), one copy or one terminal given to the user. Its `state` follows
`_ProcessBase.run`; `active` is the job whose run occupies the thread, so that no other call
happens between its `get` and its return. `free`, `inuse` and `maxsize` are the pools by
their key; a pool that does not exist is an empty one, and `shared`, `open` and `cleanup`
belong to the terminals; `backgrounds` are the names of the background executions. `get` is
one action with everything it does: `set_maxsize` and its removals, the cleaning of all pools,
and the pop of a free terminal or the creation of a new one. Sets are iterated in any
order, so which terminals are removed is chosen freely.

Abstractions: a signal kills, what may fail is to get the response of the killed
process; `Ends` is the environment. When the session of a terminal breaks the terminal
recovers, but the background executions in it can neither be waited for nor killed any more
(`lost`); their shared counts remain. A copy holds one terminal here (`FileCopy` has two).
Only tests call `set_is_persistent`.

### ConsecutiveSet

`add` is one action per integer. `IntegerSet` remembers the argument of the last call, so that
`IsIntegerSet` ties each `add(i)` to an abstract step that adds this `i`: an addition which is
lost, or which adds another number, is no such step.

### RunnerTerminal

One thread calls, so the state is that of the objects and a stack: `frames` are the
`initialize_terminal` under way, because the preparation of a session uses proxies, whose
calls initialize again what broke meanwhile. `pc` is the step of the innermost one. Between
any two steps the connection may break (`Break`) and a proxy be deleted (`Delete`).
`initialized` and `sid` are what the session and RunnerTerminal believe, `alive` the connections
that work. A proxy carries the id of its session, and the session its handle was
really made in, which only the properties look at.

A call through a proxy verifies the terminal, initializes it again if need be, and compares the
session of the proxy (`Check`); then the same for a proxy among the arguments
(`get_proxy_handle`), after which the first one is not compared again. A method that an earlier
access kept in the `__dict__` of its proxy (`CallMethod`, `remoteproxies.py:292`) does nothing of
this: its handle runs in whatever session there is. A proxy the user made before there was a
session (`CallEarly`, `'uninitialized'`) is a name and passes every comparison. `ran` records
whether the handle was compared just before its run, and whether it named an object of that
session.

A run first cleans the garbage if there is enough of it for this session, then runs the call; each
of the two may find the connection broken, or its answer late: a server that works but whose
answer outlasts the prompt timeout is taken for a broken one (`AnswerSlow`), as is one whose
answer cannot be pickled (`RunUnpicklable`). A call may time out; its response then is kept by the
RunnerHandler and fetched later, again with a timeout. `close_terminal` may raise, which a
recovery swallows: the connection is then left as it is (`unclosed`).

Abstractions: the call itself is a number, its result a value, a timeout or an exception;
attributes of attributes are calls; the modules that are imported are one step of the preparation;
handles are random, so that one of an earlier session names nothing in a later one. A broken
connection is noticed by the next use of it. The id of a session is its number: that CPython gives
the id of a freed session to a later one is left out.

### ShellStack

`shells` is the stack of the client, `programs` what runs in the terminal, and `input` and
`output` the text between them, of which the client only tells prompts, outputs, status codes and
the marker of the prompt detection apart. A step of the client is one send, or one read that finds
its prompt, times out or meets the end of the file. Programs are external: they read their input,
print, take as long as they like with `Slow`, may fail to start and may drop.

A shell whose start is checked is pushed in the steps of `_common_start`: its first prompt
(`Started`), the status of the ssh command (`Confirmed`, `NotConfirmed`), a read that must find
something (`SetPrompt`), the new prompt and the search for it (`DetectPrompt`, `Detected`).
Without an answer in time each of them fails. A `ShellStartError` sets back the prompt of the
current shell; a Python has no `set_prompt`, so nothing is sent and an `AttributeError` leaves the
call (`StartError`).

Abstractions: a prompt that is set is that of its shell, a new one the same for all
(`fresh`), and that of Python the same for all Pythons; passwords and second prompts are
part of the start; the terminal echoes nothing. The prompt that is detected is the one just
set, since one program reads both lines, so that the error 'Could not detect prompt' does not
occur.

### SelfRepairing

`session`, `sessions`, the shell of the runner and the retry count are those of the code; `typed`,
`running`, `started` and `finished` are the Pythons of the sessions and `backup` the file that
they share. `gone` are the sessions that were open when `close` removed the work directory, which
a `close` that fails leaves open: they write no backup any more, and what they store or read of it
raises an error. A run is numbered by `_run_id`; the numbers of the calls tell what a run is of. A
connection may hang and come back, so that what was typed is started late; it may die, and the
host may restart. `_run_with_backup` and what it calls are one step per exchange with a session,
in the order of the code. The second try is always typed in a new session.

`old` is `_old_workdir`. It is set from the output of the import command and not from the
directory: any output but none, also that of something else, stands for a missing module
(`CreateGarbled`), and `garbled` remembers that it did so wrongly. A session may die while it is
prepared (`CreateDies`) and then stays in `_session`; a shell that is busy may raise in the stop
that comes before the close (`CloseBusy`), and a run that is interrupted stores what was left of
its result (`Terminated`).

Abstractions: a result is its run; reading garbled output is one outcome of the read;
`Ctrl-C` interrupts a run that has not ended.

### FileCopy

A keyword is the list of what it does with its files (`todo`); a file is copied block by
block. The raw terminal is `in` and `out` of each remote Python, where a block is written
and read between messages: `blocked` says that the Python reads bytes from its standard input, and
then takes whatever comes. All that comes before what is awaited is skipped, as `expect` and the
token do. `leftover` are files nobody closed, whose buffers may be written at any time.

A source directory that `os.walk` cannot list is skipped without an error (`PartTasks`: its
subdirectory; `MakeTasks`: all of it). The proxies of a directory are made before its files are
copied and used after them for its mode; when the session was renewed in between they are `stale`
and raise `InvalidProxySession` (`ChmodRefused`). Local files, and those of a remote Python, may
fail in every operation (`LocalFails`, `OpenFails`, `FileFails`, `CloseFails`): a read or write
that raises in the remote Python prints no token, so that the client times out.

Abstractions: a block is its number and whose it is; a directory holds one file and one
directory with a file; what a closed session still has queued is lost with it; the size that is read
of a block is compared with the maximum as one choice (`DataRefused`). A call that outlives its
own timeout in a session that works (`RemoteTimeout`) is left out.

### TokenReader

`Find` is `SingleGapMatcher.find`, byte by byte, for a matcher per place of the gap. The
property compares it with the definition of a token with at most one gap. All bytes of the
token differ, as the comment at `tokenreader.py:114` demands.

## 3. Runs

| Run | Bounds | Question |
|---|---|---|
| `safety` | 2 tries, 2 messages of the user, 1 loss or 1 request repeated after its call, any delay | types, order, at most once, acknowledgements, numbering, own output, refinement of RemoteCall |
| `prompt` | 3 tries, 2 messages, 2 losses, timers longer than delays | fewer losses than tries are masked; every call ends, every reply is forgotten |
| `ack` | 2 tries, 2 messages, no fault | **violated**: see section 6 |
| `consecutive` | the integers -1 .. 7 (uids start with -1) | canonical form, refinement of IntegerSet |
| `token` | a token of four bytes, one other byte, texts of up to 8 bytes | the token is found where it ends |
| `pools` | 1 target on 1 host (2 pools), 3 jobs, 3 terminals, totals and limits of 1 and 2, 2 names | exclusive use, shared counters, names, bounds, cleaning, busy only when full |
| `recovery` | 2 tries, 3 calls, 2 faults, garbage cleaned above 1 | handles and sessions, connections, garbage, remote objects, prepared proxies, calls end |
| `unusable` | 1 try, 3 calls, 2 faults | **violated**: see section 6 |
| `stack` | a local shell, one whose start is checked, one whose start is not, 2 Pythons; 4 calls, 1 drop, slow commands | stack and programs in step, own output, own status, calls end |
| `repair` | 2 calls, 3 retries, 3 faults | own result, no session left behind, backups found but after a garbled import, calls end |
| `twice` | 1 call, 3 retries, 2 faults | **violated**: see section 6 |
| `copy` | 2 keywords, files of up to 2 blocks, 1 fault | exact copies of what could be listed, closed files, modes last, keywords end |

Why these bounds are enough to meet the interesting cases. Two messages let a reply, an Ack or a
retry of the first arrive during the second call; two tries give each side a first send, a repeat
and an end of the tries. In `safety` one fault, a loss or a repetition, is enough for every
message of either direction (`OneFault`: the states with both are too many), and in `prompt` two
losses can take the request and its reply. In `pools` three terminals and a total of one or two
make every kind of cleaning and refusal happen, and three jobs let two share a terminal while a
third needs room; two pools are as different as any, since a pool knows nothing of another but the
total size. In `recovery` two faults break a call and the initialization that follows, or one
within its preparation, and the last call sees what is left, through a proxy of the first session
if one is kept. In `stack` the second call meets what the first left unread and the third and
fourth leave again. In `repair` three faults take a session, the one that replaces it and the
host, with a second call to find the backup of the first. In `copy` one fault, of a connection or
of a file on either side, leaves something for the second keyword; the directories that cannot be
listed are kinds of keywords and no faults. Terminals, jobs, hosts and names are interchangeable
in `pools`, so symmetry is used there, with safety properties only.

Deadlock is checked in no run but `consecutive`: a user who stops calling, jobs
that are all done, and the end of a text are legitimate ends, and the other runs bound the
number of calls.

## 4. Fairness

All of it is weak: the condition stays until the thread runs. The user, the garbage
collection and the faults have no fairness.

- Messaging (`prompt`): the client's thread takes what arrives (`ClientReceive`), its
  timers expire (`ClientTimer`; every receive has a timeout), the server's thread handles what
  arrives (`Server`), and `select` returns at the timeout of the caches (`Expire`). `Server`
  includes the end of a running handler; `CallsEnd` does not depend on it when timers may expire at
  any time.
- RunnerTerminal (`recovery`): the thread of the caller goes on (`Client`). Each of its steps is an
  answer or a timeout of Messaging.
- ShellStack (`stack`): the client goes on, and so do the programs (`Programs`): a command ends, or
  outlasts the timeout of the client, which then goes on without it.
- SelfRepairing (`repair`): the client goes on, with an answer or a timeout, and the remote Pythons
  run what is typed.
- FileCopy (`copy`): the client goes on, and so does each remote Python whose connection works.

## 5. Theorems

All for every value of the constants. Where the property is named as the theorem states it, a run
checks it on a small instance too.

| Theorem | Property | States |
|---|---|---|
| **Messaging_proofs** | | |
| `TypeCorrect` | `TypeOK` | types, together with `CallInv`, the inductive part for the client |
| `RunAtMostOnce` | `AtMostOnce` | no command runs twice |
| `ReturnsOwnOutput` | `OwnOutput` | a call returns only the output of its own command (an action property) |
| `ImplementsRemoteCall` | `RemoteCallSpec` | Messaging implements RemoteCall |
| `SendCommandNotMistaken` | `SendCommandIsNew` | the two counters of uids never meet in the server |
| `RunsInOrder` | `InOrder` | commands run in the order of their calls, unless a request is repeated after its call |
| `TimeoutMeansTaken` | `AckMeansTaken` | a Timeout that is not fatal is that of a command the server runs or has run |
| `RemovedStaysUnrequested` | `RemovedNotRequested` | with prompt timers and fewer losses than tries, the server forgets only what is not requested again |
| `LossMasked` | `LossIsMasked` | and no call fails as long as the server lives |
| **ConsecutiveSet_proofs** | | |
| `StaysCanonical` | `Canonical` | the representation stays canonical |
| `ImplementsIntegerSet` | `IsIntegerSet` | each `add(i)` is the step of a set of integers that adds `i` |
| **TerminalPools_proofs** | | |
| `PoolsTypeCorrect` | `TypeOK` | types of pools, terminals and jobs |
| `TerminalsExclusive` | `Exclusive` | a terminal in use has one job and is neither handed out nor cleaned away |
| `CountersExact` | `SharedCounts` | a shared counter is the number of background executions in its terminal |
| `NamesUnique` | `EachHasItsName` | a name stands for one background execution |
| `NewJobsHarmNone` | `NewJobHarmsNone` | cleaning for a new job closes no shared terminal and kills no process |
| `BusyWhenFull` | `BusyOnlyWhenFull` | `TerminalPoolsBusy` is raised only at a maximum |
| `WithinMax` | `GrowsWithinMax` | pools grow only up to their maximum |
| **RunnerTerminal_proofs** | | |
| `TerminalTypeCorrect` | (`TypeOK`) | types of session, proxies, garbage, frames and calls |
| `HandlesStayInSession` | `HandleInItsSession` | a handle that is checked is used in its own session, one that is not meets no object of another |
| `ConnectionsClosed` | `OneConnection` | at most one connection is open, but for those whose close raised |
| `DeletesWhatIs` | `GarbageDeletable` | the garbage cleaning deletes objects that exist |
| `NoObjectForgotten` | `ObjectsAccountedFor` | every remote object is referred to, waits for its deletion or fetch, or was given away |
| `ProxiesFollowSession` | `PreparedFollow` | prepared proxies are those of the session that is initialized |
| `HealthySessionKept` | `HealthyKept` | a connection that works is given up only for the reasons the code has |
| **ShellStack_proofs** | | |
| `StackTypeCorrect` | (`TypeOK`) | types of the stack, the programs and the text between them |
| `ExecReturnsOwnOutput` | `OwnOutput` | `exec_command` returns the output of its command |
| `CallsKeepStackMatching` | `StackMatches` | `push`, `pop` and `pop_until` leave the stack in step with the programs |
| `StatusIsOfCommand` | `StatusOwn` | a status is that of the command before it |
| **SelfRepairing_proofs** | | |
| `RepairTypeCorrect` | (`TypeOK`) | types; no call makes more sessions or starts more runs than `MaxRetries + 2` |
| `ReturnsOwnResult` | `OwnResult` | `run` returns the result of a run of its own command |
| `CloseClosesAll` | `ClosedByClose` | every open session is known, and `close` leaves none |
| `StoredRunNotRepeated` | `StoredNotRepeated` | a run that has its backup is taken for one that was not started only without a new session or after a garbled import |
| **FileCopy_proofs** | | |
| `CopyTypeCorrect` | (`TypeInv`, `HandleInv`) | types of messages, files and keywords; a read or write that runs is that of an open file |
| `FilesAreClosed` | `FilesClosed` | a keyword that ends has closed its remote files, but for those whose prompt or close failed |
| `CopyIsExact` | `CopyExact` | a keyword that returns has copied the files it could list exactly, with their modes |
| `DirModeIsLast` | `DirModeLast` | a directory gets its mode after all that could be listed in it |
| **TokenReader_proofs** | | |
| `ReaderTypeCorrect` | (`TypeOK`) | types; what is asked for is never negative |
| `ReadUpToToken` | `ReadsUpToToken` | the reading ends with the first byte that ends a token, and returns what comes before it |

Assumptions: `ConstantsAssumption` of each module. They are as weak as the code allows: bounds are
natural numbers; `Tries` of Messaging and `MaxTries` of RunnerTerminal are positive, as the code
loops over them at least once; the totals and limits of TerminalPools are positive, its terminals
are finite in number (they are counted) while its jobs need not be. The bytes of the token of
TokenReader all differ (`tokenreader.py:114`). Nothing is assumed of timers, delays, faults or the
number of repeated requests; the three conditions of `LossMasked` and `RemovedStaysUnrequested`
are part of the properties, which hold of runs that satisfy them.

The bounds that the modules have for TLC (`MaxLoss`, `MaxFaults`, `MaxCalls` and the like) are
constants as well, so the theorems hold for every one of them.

### Messaging

The invariants are in `MessagingInv`.

`RunAtMostOnce`. That no command is twice in `log` says nothing about the
requests still to be run, so it is strengthened to `RunInv`. Every request on the way
carries a number and a command already given out, and two of the same number or the same
command are the same request (`NumberInv`); an ExecCommandRequest whose command was run has a
number the server knows (cached or removed), while the request being handled is unknown
(`KnownInv`); and a SendCommandRequest, which has no number of its own there but is
never repeated, is in one place only (`SendOnceInv`). A request is handled only when its
number is unknown, so its command is not in `log`, and is known afterwards.

`ReturnsOwnOutput`: each reply in the cache or on its way is the output of
the command with its number (`ReplyInv`), and the client compares numbers. The
refinement of RemoteCall follows from these two and from `OutcomeInv`, which
ties the outcome of a command to the running call. `SendCommandNotMistaken` needs
the order in the stream of the requests that the client does not number (`SendOrderInv`): the
counter of all messages is never below that of the client.

`TimeoutMeansTaken`: the client waits for a reply after an Ack of its uid. So every Ack on its way
must belong to a request that was taken (`AckInv`), which in turn needs that a known uid is that
of a command that was run, and that an ExitRequest, which shares its uid with others, comes last.
`RunsInOrder`: what is on its way to the server is in the order of the calls, behind what is being
handled and what was run (`OrderInv`); a request is sent again only while it is the latest one.

`LossMasked`: the number of copies of the running request that have been sent exceeds that of the
lost messages by at most one, the last copy (`RequestLossInv`), and so do its replies
(`ReplyLossInv`). Fewer losses than tries therefore leave a try to both sides. The counting works
because at most one copy, or one Ack for it, is on its way at a time (`CopyInv`), which is what
prompt timers give. `RemovedStaysUnrequested`: the requests arrive in the order of their uids
(`UidOrderInv`), the running call has the last one (`LastUidInv`), so an Ack from the client, or a
reply that was sent in all its tries, comes after the last copy of its request (`RemovedInv`).
`SourceInv` says where replies and Acks come from.

### TerminalPools

`Exclusive` is inductive only with what the pools are: what they hold is open, nothing open is
forgotten by them, and a job with a terminal knows its pool (`PoolInv`, `JobInv`). `CountersExact`
is about cardinalities: the background executions are finitely many (`SharedInv`), each step adds
or removes one, and a terminal that was never created counts none. `NamesUnique` needs that a name
whose execution was not waited for stands for one that is still in the background (`NameInv`).
`NewJobsHarmNone` needs to know what the cleanup of a terminal would kill (`CleanupInv`): the
process of a job that has the terminal or shares it, or one that failed and took the terminal
along; so no process behind a terminal that is free and not shared.

### RunnerTerminal

`HandlesStayInSession` rests on `ProxyInv`: the id of the session that a proxy carries is that of
the session its handle was made in; `SessionInv` ties the ids to the session in use, and
`CheckInv` says that what was compared last stays valid until it is run. A handle that was not
compared is that of a proxy the user has, so `HandleInv` tells that no object of another session
is found under it. The objects need `HandleInv`: a handle of the present session is in one place
only (a proxy, the garbage, the stored responses), and numbers are not used twice (`NumberInv`).
While garbage is cleaned, nothing else runs (`CleaningInv`). The initializations nest, because the
calls within the preparation initialize again what broke: `FrameInv` says that every outer one
stands in `importmodule`, so that an inner one that succeeds leaves the outer ones proxies of the
session in use. `FollowInv` extends `PreparedFollow` to the steps of the preparation, where only
some of the proxies are those of the session yet. `CallInv` says what the running call may be.

### ShellStack

The programs may take as long as they like, so what a call finds in the terminal is what every
earlier one left there. The three properties are about calls that found it quiet and lost no
connection; each needs the stages through which the text goes meanwhile.

`ExecReturnsOwnOutput` rests on `ExecInv`: the command is still to be read, or runs, or its
output and the prompt behind it are all there is to read. `StatusIsOfCommand` continues it with
`ReadyInv`: until the next call changes something, the topmost program remembers the
status of that command.

`CallsKeepStackMatching` is by far the longest. While a call runs, stack and programs differ in
ways that depend on its step, and `SoundInv` says in which. In a push (`PushSound`) the start is
to be read, has failed or has its program, whose prompt is then set and detected; a failed start
cannot be taken for a success, since the shells have different prompts and above a Python nothing
starts (`NameInv`). In a pop (`PopSound`) the lines sent are empty but for one exit at most, that
of the program above; as long as it is to be read, none of the prompts to be read is that of a
shell below (`NoneOf`), so that the prompt of the shell below is seen only when the program above
has gone, and that no second exit is sent before the first one worked. Such a pop also never gives
up waiting. `ReturnedInv` is what remains after the call: empty lines at most, which change no
program, so that the next call begins with both in step.

### SelfRepairing

The types are not obvious: sessions and runs are numbered, and that the numbers stay within
`MaxCalls * (MaxRetries + 2)` is the statement that each turn of a call makes one session and
types its command once at most (`CountInv`). `ReturnsOwnResult` follows from `RunInv`: once the
command of the call is typed, the last run is one of the call; a result that was found is that of
a run that ended, and so is a backup that is complete. `CloseClosesAll`: `close` has the sessions
that are open among those it still has to do, and what is not open runs nothing (`OpenInv`).
`StoredRunNotRepeated` is subtle after a `close` that fails half way, when the sessions that
remain are in a directory which was removed: without the module there is no backup, and one can be
written only in a session made after it (`BackupInv`). When the import was taken for a failed one
with the module there, none of this holds, and the run is typed again although it has its backup:
the property names this case (`garbled`) and allows it in no other. A session that died in its
preparation is in `_session` without being that of the shell, which `OpenInv` has to tell apart.

### FileCopy

`FilesAreClosed`: the file of a keyword is open from the reply to its `open` to that to its
`close`, except where the prompt or the close failed (`OpenInv`). This depends on what a call that
timed out leaves in the terminal. `CallInv` says that every call but that of a prompt, or its
answer, is on its way only while it is awaited, and that there is one at most: a later step cannot
meet it, since a session is closed when its call times out. `OpInv` says which step the keyword
may be in. `HandleInv`, that bytes are read and written only by a Python that has a file open,
makes the model itself defined in all its states. The lemma `LeastIndex`, that a set of places of
a text has a least one, gives what `expect` finds first.

`CopyIsExact` is about all steps of a copy and all that earlier keywords may have left, so
`ContentInv` has a part for each. `PlanInv`: what is to be done is a rest of the tasks of the
keyword, and the step is one of the first of them. `ExchangeInv`: in a terminal whose session this
keyword has verified there is nothing but the message that the step awaits, whatever is left in
others; it needs that the answer of a call is the last thing printed (`LastInv`), so that reading
it leaves nothing behind it. `SourceInv` and `TargetInv` follow the blocks: what was read from the
source, what is on its way, and what the target holds between its disk and the buffer of its file
make a prefix of the source without gap or repetition. `DiskInv` and `CloseInv` say which files
may still be written to: the one that is open, and the leftovers of sessions that were closed.
`PastInv`: what a task did is not undone by a later one, since no file that is open or left over
has anything to write to it. `ReturnedInv` is what remains when the keyword has ended.
`DirModeIsLast` follows from `PlanInv` and `PastInv`: the tasks before the one that sets the mode
of a directory are those of what could be listed in it.

### TokenReader

`MatcherInv` says what the matcher of one gap knows of the bytes read. Until it has the part
before the gap (`Seeking`), it has matched the beginning of the token that ends the bytes. Since
the bytes of the token differ, there is one such beginning at most, so a mismatch may start again
from nothing or from that one byte. Then (`Found`) it has the first place of that part, and as
much of the other part as ends the bytes that follow. `ByteScanned` shows that one byte keeps this
and lets a matcher pass one more at most. As no more bytes are read than the best matcher lacks,
none is full before the last of them (`ScanRight`, by the least number at which it would be
wrong): a token cannot end earlier, and what is full at the end is a token. The matchers left
alone when that of a larger gap has matched may be behind, but then nothing more is read. `FindIn`
is a recursive function, whose values exist by the same argument (`ScanExists`).

### Model-checked only

- Liveness (each `CallsEnd`, and `RepliesForgotten`): out of the prover's reach, as is ENABLED.
  Every other property of a passing run is a theorem.

## 6. Disagreements found

Each of the first three has a run that shows it.

- **Ack taken for a reply** (run `ack`). `TerminalClient._is_reply` tests the class of the
  request instead of that of the received message. When the Ack of a request arrives while
  its reply is awaited, `exec_command` gets an `Ack`, swallows the `AttributeError`, stops
  the server and returns the text of the error as the output. A server busy for
  longer than all tries is enough.
- **Terminal that stays unusable** (run `unusable`). When all tries to initialize fail, the last
  session stays; if only the preparation of the proxies failed, the verification with it
  succeeds from then on, nothing is initialized again, and prepared proxies raise
  `InvalidProxySession` for ever.
- **A run executed twice** (run `twice`). A run whose trigger is not seen within a second is typed
  again, though the first one may start late; the session it was typed into is not closed,
  since `_session_close` closes `self._session` whatever its argument.

Those below were met while modelling; they need one plain sequence of calls, and no run
states them.

- **A directory that is skipped** (`_filecopier.py:400`). `os.walk` lists nothing of a directory
  that is missing or may not be read, and `_copy_directory` passes over the `StopIteration`: the
  keyword "Copies contents of local source directory to remote destination directory"
  (`remoterunner.py:734`) and returns the status 0 without having done so; a subdirectory that was
  skipped has no mode. `CopyExact` and `DirModeLast` are about what could be listed.
- **Methods that are not checked** (`remoteproxies.py:292`). A method kept on its proxy is called
  with neither initialization nor comparison of sessions, though `autorunnerterminal.py:75` says
  that after finalization `InvalidProxySession` "will be raised in case the remote object is
  accessed via proxies": what is raised is an error of the new session, which does not know the
  name of the object. `HandleInItsSession` states what holds.
- **A backup that is not looked for** (`SelfRepairingSession.py:422`). Any unexpected output of
  the import sets `_old_workdir` to False, and the run is taken for one that was not started.
- **A second kill** (`_process.py:230`) of one background execution ends the remote Python, and
  with it the other executions that share the terminal.

- **Leaked terminals** (`_process.py:72`). An execution that raises between `get` and
  `_communicate_with_cleanup` leaves its terminal in use for ever. With `progress_log` this is
  what every timeout does.
- **Pools above their maximum** (`_pool.py:79`). After `max_processes_in_target` is lowered,
  `set_maxsize` ignores the terminals in use when it removes free ones, and `_get_item` hands out
  a free terminal without a look at the maximum. `GrowsWithinMax` states what holds.
- **Process limit** (`_terminalpools.py:130`). `max_processes_in_target` limits each of two pools,
  and background executions share terminals; it does not limit processes in a target.
- **close does not kill all** (`_terminalpools.py:43`). A terminal has one cleanup; of the
  background executions that share it only the last is killed.
- **pop_until is deceived by equal prompts** (`InteractiveSession.py:272`). It compares the prompt
  only: a shell whose start failed unnoticed (`BashShell`, `NamespaceShell`) is on the stack
  without a program, and `pop_until` it, or one below, returns in an unknown state. A Python
  pushed above a Python that does not start seems to have started, as the prompt of the one below
  is taken for its own. `Checked` keeps these pushes out of `StackMatches`.
- **A file that stays open** (`_filecopier.py:154`). `close` first asks for the prompt; when that
  times out the remote file stays open, and what it buffers may be written over a later copy.
  `CopyExact` excludes such files (`spoilt`).
- **A chunk acknowledged by a message** (`chunkcomm.py:170`). After an `exec_command` that timed
  out and whose output is longer than a chunk, the server awaits an acknowledgement while the next
  call sends its request; the first bytes of it are taken for the acknowledgement and the server
  ends.

## 7. Plan

What would come next is `Chunks`: two writers on one pair of streams, with acknowledgements; as its
abstract specification, the FIFO with losses that Messaging assumes, for messages of one chunk.

### Not modelled

Chunks beyond the first and PythonCmdline (each with its hazards, see `PROJECT.json`);
ParamikoSpawn, whose queue and end of file are read by one thread and written by another, in
order; the command lines, prompt patterns, passwords and terminal settings of the single shells
(text without state of their own); the executors and the Robot Framework keywords that only pass
calls on; the parsing of shell definitions; the processes of the daemonizer; the formatting of
results, log levels, exceptions and compatibility with Python 2.
