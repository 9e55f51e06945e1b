------------------------------ MODULE Messaging ------------------------------
(****************************************************************************)
(* The request/reply protocol between MsgPythonShell (with its              *)
(* TerminalClient) on the local side and PythonServer (with its MsgCaches)  *)
(* on the remote side of a terminal.                                        *)
(*                                                                          *)
(* The terminal is a pair of FIFO byte streams.  StrComm resynchronises on  *)
(* its token, so that what is corrupted on the way is a whole message that  *)
(* never arrives: the streams are sequences of messages whose head may be   *)
(* lost.  Time is not represented: a timer that runs may expire in any      *)
(* state, or, when Prompt is TRUE, only once everything sent has been       *)
(* delivered and handled.                                                   *)
(****************************************************************************)
EXTENDS Integers, Sequences, FiniteSets

CONSTANTS Tries,     \* Retry.tries, the same on both sides
          MaxCmds,   \* bound on the messages the user of the shell causes
          MaxLoss,   \* bound on the number of messages lost on the way
          MaxDup,    \* bound on the number of requests sent once too often
          Prompt     \* TRUE: timers are longer than any delay

ASSUME ConstantsAssumption ==
    /\ Tries \in Nat \ {0}
    /\ MaxCmds \in Nat
    /\ MaxLoss \in Nat
    /\ MaxDup \in Nat
    /\ Prompt \in BOOLEAN

VARIABLES
    phase,     \* where the thread of the client is, see Phases
    left,      \* tries not used yet by the running send_and_receive
    nextuid,   \* TerminalClient._uid_iter
    created,   \* MsgBase._uid_iter, shared by all the messages created locally
    request,   \* the last request passed to send_and_receive
    fatal,     \* MsgPythonShell._fatalerror
    outcome,   \* how the call of each command ended
    value,     \* what the call of each command returned
    serving,   \* the server is in the loop of ServerBase.serve
    handling,  \* the requests taken by the server and not handled: none or one
    cache,     \* MsgCaches._msgcaches: uid -> reply and tries left
    removed,   \* MsgCaches._removed
    due,       \* caches the running send_expired has found expired
    log,       \* the commands run by PythonCmdline, in their order
    c2s, s2c,  \* messages on their way to the server and to the client
    lost, dup  \* messages lost, requests duplicated

clientVars == <<phase, left, nextuid, created, request, fatal, outcome, value>>
serverVars == <<serving, handling, cache, removed, due, log>>
faultVars  == <<lost, dup>>
vars == <<clientVars, serverVars, c2s, s2c, faultVars>>

-----------------------------------------------------------------------------
Cmds == 0 .. MaxCmds - 1

Phases == {"start", "idle", "attempt", "reply", "final"}

\* The messages of msgs.py.  cmd stands for the command text of a request and
\* is different for each of them; val for the output in a reply, which is the
\* position of the command in log: a command that ran twice is told from one
\* that ran once, and the output of one command from that of another.
RequestTypes == {"ExecCommandRequest", "ServerIdRequest", "SendCommandRequest",
                 "ExitRequest"}
ToServer == [type : RequestTypes \cup {"Ack"}, uid : Int, cmd : Nat]
ToClient == [type : {"Ack", "Reply", "FatalPythonErrorReply"}, uid : Int, val : Nat]

Request(t, u, c) == [type |-> t, uid |-> u, cmd |-> c]
ClientAck(u) == [type |-> "Ack", uid |-> u, cmd |-> 0]
ServerAck(u) == [type |-> "Ack", uid |-> u, val |-> 0]
Reply(u, v) == [type |-> "Reply", uid |-> u, val |-> v]
FatalPythonErrorReply == [type |-> "FatalPythonErrorReply", uid |-> 0, val |-> 0]

\* The uid of the ServerIdReply the server starts with.
StartUid == -1

Uids == StartUid .. MaxCmds - 1

\* All the requests but SendCommandRequest are acknowledged.
IsResponseExpected(m) == m.type # "SendCommandRequest"

-----------------------------------------------------------------------------
\* The timers.

Receiving == phase # "idle"

\* Nothing is on its way to somebody who reads it, and the server is waiting.
Settled == /\ c2s = <<>>
           /\ Receiving => s2c = <<>>
           /\ handling = {} /\ due = {}

TimerMayExpire == Prompt => Settled

\* The client waits for a reply longer than the server repeats it.
ReplyTimerOfServer(u) == serving /\ u \in DOMAIN cache  \* mutant: only a live server ends it
ReplyTimerMayExpire(u) ==
    Prompt => /\ Settled
              /\ u \in DOMAIN cache => cache[u].left = 0

-----------------------------------------------------------------------------
\* The client.

Init ==
    /\ phase = "start" /\ left = 0 /\ nextuid = 0 /\ created = 0
    /\ request = Request("ExitRequest", 0, 0)
    /\ fatal = "NotStarted"
    /\ outcome = [c \in Cmds |-> "none"]
    /\ value = [c \in Cmds |-> 0]
    /\ serving = TRUE /\ handling = {} /\ removed = {} /\ log = <<>>
    /\ cache = [u \in {StartUid} |-> [val |-> 0, left |-> Tries]]
    /\ due = {StartUid}
    /\ c2s = <<>> /\ s2c = <<>>
    /\ lost = 0 /\ dup = 0

\* MsgPythonShell._serve: the first message is taken, acknowledged and ends
\* the start.
ServerIdReceived ==
    /\ phase = "start" /\ s2c # <<>>
    /\ phase' = "idle" /\ fatal' = "none"
    /\ c2s' = Append(c2s, ClientAck(Head(s2c).uid))
    /\ s2c' = Tail(s2c)
    /\ UNCHANGED <<left, nextuid, created, request, outcome, value>>
    /\ UNCHANGED <<serverVars, faultVars>>

\* start raises, the shell keeps its initial _fatalerror.
StartTimeout ==
    /\ phase = "start" /\ ReplyTimerMayExpire(StartUid)
    /\ phase' = "idle"
    /\ UNCHANGED <<left, nextuid, created, request, fatal, outcome, value>>
    /\ UNCHANGED <<serverVars, c2s, s2c, faultVars>>

Usable == fatal = "none"

\* exec_command and get_prompt_from_terminal up to the first send of
\* send_and_receive.  With a fatal error they send nothing.
Call(t) ==
    /\ phase = "idle" /\ Usable /\ created < MaxCmds
    /\ request' = Request(t, nextuid, created)
    /\ outcome' = [outcome EXCEPT ![created] = "running"]
    /\ created' = created + 1
    /\ nextuid' = nextuid + 1
    /\ left' = Tries - 1
    /\ phase' = "attempt"
    /\ c2s' = Append(c2s, request')
    /\ UNCHANGED <<fatal, value, serverVars, s2c, faultVars>>

ExecCommand == Call("ExecCommandRequest")
GetServerId == Call("ServerIdRequest")

\* No Ack and no reply within the interval: _received_msgs_for_msg sends again.
ResendIn(phases) ==
    /\ phase \in phases /\ left > 0 /\ TimerMayExpire
    /\ left' = left - 1
    /\ c2s' = Append(c2s, request)
    /\ UNCHANGED <<phase, nextuid, created, request, fatal, outcome, value>>
    /\ UNCHANGED <<serverVars, s2c, faultVars>>

ResendAfterCall == ResendIn({"attempt", "idle"})  \* mutant: not stopped by the reply
Resend == ResendIn({"attempt"})

\* All the tries are used: _final_try_to_receive_until_reply.
LastTry ==
    /\ phase = "attempt" /\ left = 0 /\ TimerMayExpire
    /\ phase' = "final"
    /\ UNCHANGED <<left, nextuid, created, request, fatal, outcome, value>>
    /\ UNCHANGED <<serverVars, c2s, s2c, faultVars>>

\* The running call ends.  _fatalerror_handling is around exec_command only,
\* so that a call of get_prompt_from_terminal leaves _fatalerror alone.
EndCall(how, error) ==
    /\ phase' = "idle"
    /\ outcome' = [outcome EXCEPT ![request.cmd] = how]
    /\ fatal' = IF error # "none" /\ request.type = "ExecCommandRequest"
                THEN error ELSE fatal

\* TerminalClientError('Timeout'): not fatal, the server is alive.
ReplyTimeout ==
    /\ phase = "reply" /\ ReplyTimerMayExpire(request.uid)
    /\ EndCall("timeout", "none")
    /\ UNCHANGED <<left, nextuid, created, request, value>>
    /\ UNCHANGED <<serverVars, c2s, s2c, faultVars>>

\* TerminalClientFatalError('Connection broken').
FinalTimeout ==
    /\ phase = "final" /\ ReplyTimerMayExpire(request.uid)
    /\ EndCall("broken", "Broken")
    /\ UNCHANGED <<left, nextuid, created, request, value>>
    /\ UNCHANGED <<serverVars, c2s, s2c, faultVars>>

\* The uid of a message made by MsgBase.create and not numbered by the client.
LastClientUid == request.uid  \* mutant: the counter of the client
CreatedUid == created

\* _receive_until_condition takes the head of s2c.
Received == Head(s2c)

Receive ==
    /\ phase \in {"attempt", "reply", "final"}
    /\ s2c # <<>>
    /\ s2c' = Tail(s2c)
    /\ UNCHANGED <<left, nextuid, request, serverVars, faultVars>>

\* _is_reply_or_ack: an Ack or a reply belongs to the request of the same uid.
AnswersAny(m) == TRUE  \* mutant: whatever comes is for the request
Answers(m) == m.uid = request.uid

\* The server has failed: the deserialization raises FatalPythonError.
ReceiveFatal ==
    /\ Receive
    /\ Received.type = "FatalPythonErrorReply"
    /\ EndCall("fatal", "FatalPython")
    /\ UNCHANGED <<created, value, c2s>>

\* An Ack or a reply of an earlier request: dropped, a reply is acknowledged.
ReceiveOther ==
    /\ Receive
    /\ Received.type # "FatalPythonErrorReply" /\ ~Answers(Received)
    /\ c2s' = IF Received.type = "Ack" THEN c2s
              ELSE Append(c2s, ClientAck(Received.uid))
    /\ UNCHANGED <<phase, created, fatal, outcome, value>>

\* The Ack of the request: the server is alive, no more tries.
ReceiveAck ==
    /\ Receive
    /\ Received.type = "Ack" /\ Answers(Received)
    /\ phase = "attempt"
    /\ phase' = "reply"
    /\ UNCHANGED <<created, fatal, outcome, value, c2s>>

\* An Ack of the request while its reply is expected: _is_reply looks at the
\* class of the request in place of the class of the reply, and the Ack is
\* returned as the reply.  Its attribute out (server_id) does not exist.
\* exec_command swallows the AttributeError, asks the server to exit and
\* returns the text of the error; get_prompt_from_terminal lets it out.
ReceiveAckAsReply ==
    /\ Receive
    /\ Received.type = "Ack" /\ Answers(Received)
    /\ phase \in {"reply", "final"}
    /\ EndCall("unexpected", "Unexpected")
    /\ IF request.type = "ExecCommandRequest"
       THEN /\ c2s' = Append(c2s, Request("ExitRequest", CreatedUid, created))
            /\ created' = created + 1
       ELSE UNCHANGED <<c2s, created>>
    /\ UNCHANGED value

ReceiveReply ==
    /\ Receive
    /\ Received.type = "Reply" /\ Answers(Received)
    /\ EndCall("returned", "none")
    /\ value' = [value EXCEPT ![request.cmd] = Received.val]
    /\ c2s' = Append(c2s, ClientAck(Received.uid))
    /\ UNCHANGED created

\* send_command: no response, and a fatal error does not matter.  A shell whose
\* start raised is not used.
SendCommand ==
    /\ phase = "idle" /\ fatal # "NotStarted" /\ created < MaxCmds
    /\ outcome' = [outcome EXCEPT ![created] = "sent"]
    /\ c2s' = Append(c2s, Request("SendCommandRequest", CreatedUid, created))
    /\ created' = created + 1
    /\ UNCHANGED <<phase, left, nextuid, request, fatal, value>>
    /\ UNCHANGED <<serverVars, s2c, faultVars>>

\* exit of a shell without fatal error.
Exit ==
    /\ phase = "idle" /\ Usable
    /\ c2s' = Append(c2s, Request("ExitRequest", CreatedUid, created))
    /\ created' = created + 1
    /\ fatal' = "Stopped"
    /\ UNCHANGED <<phase, left, nextuid, request, outcome, value>>
    /\ UNCHANGED <<serverVars, s2c, faultVars>>

-----------------------------------------------------------------------------
\* The server.  It is single threaded: a message is read only after the
\* previous one is handled, and no cache is found expired meanwhile.

ReadsWhileSending == serving /\ handling = {}  \* mutant: send_expired does not block
Idle == serving /\ handling = {} /\ due = {}

\* MsgCaches._remove
Remove(u) ==
    /\ cache' = [v \in DOMAIN cache \ {u} |-> cache[v]]
    /\ removed' = removed \cup {u}

\* The message read_str returns.
Read == Head(c2s)

\* The client acknowledges a reply.
HandleAck ==
    /\ Idle /\ c2s # <<>> /\ Read.type = "Ack"
    /\ c2s' = Tail(c2s)
    /\ IF Read.uid \in DOMAIN cache
       THEN Remove(Read.uid)
       ELSE UNCHANGED <<cache, removed>>
    /\ UNCHANGED <<serving, handling, due, log, s2c, clientVars, faultVars>>

\* The three outcomes of MsgCaches.get_msg: the reply, MsgCachesAlreadyRemoved and
\* MsgCachesNotFound.
Never(u) == FALSE  \* mutant: the reply of a request is not kept, or not remembered
IsCached(u) == u \in DOMAIN cache
IsRemoved(u) == u \notin DOMAIN cache /\ u \in removed
IsNew(u) == ~IsCached(u) /\ ~IsRemoved(u)

\* handle_next_msg takes a request and acknowledges it before anything else.
Acked == IF IsResponseExpected(Read) THEN Append(s2c, ServerAck(Read.uid)) ELSE s2c

ReadRequest ==
    /\ Idle /\ c2s # <<>> /\ Read.type # "Ack"
    /\ c2s' = Tail(c2s)
    /\ UNCHANGED <<cache, removed, due, log, clientVars, faultVars>>

\* A request sent again: the reply is sent from the cache.
ReplyCached ==
    /\ ReadRequest
    /\ IsCached(Read.uid)
    /\ s2c' = Append(Acked, Reply(Read.uid, cache[Read.uid].val))
    /\ UNCHANGED <<serving, handling>>

\* handle_next_msg tells the client of the exception and leaves the loop.  It
\* does so for MsgCachesAlreadyRemoved and also for the ExitFromServe raised by
\* the handler of ExitRequest.
FailRequest ==
    /\ ReadRequest
    /\ \/ IsRemoved(Read.uid)
       \/ IsNew(Read.uid) /\ Read.type = "ExitRequest"
    /\ s2c' = Append(Acked, FatalPythonErrorReply)
    /\ serving' = FALSE
    /\ UNCHANGED handling

\* A new request: its handler starts, it may run for long.
TakeRequest ==
    /\ ReadRequest
    /\ IsNew(Read.uid)
    /\ Read.type # "ExitRequest"
    /\ handling' = {Read}
    /\ s2c' = Acked
    /\ UNCHANGED serving

\* A new MsgCache.
SentOnce(v) == [val |-> v, left |-> 1]  \* mutant: the replies are not repeated
FreshCache(v) == [val |-> v, left |-> Tries]

\* _send_reply_via_cache: the reply is pushed with a timeout of 0, so that the
\* send_expired which follows finds it expired, as others may be.
PushReply(u, v) ==
    /\ cache' = [w \in DOMAIN cache \cup {u} |->
                    IF w = u THEN FreshCache(v) ELSE cache[w]]
    /\ \E expired \in SUBSET DOMAIN cache : due' = expired \cup {u}

\* The command, failed or not, has been run; the reply carries its output.
HandleExecCommand ==
    \E m \in handling :
        /\ m.type = "ExecCommandRequest"
        /\ handling' = {}
        /\ log' = Append(log, m.cmd)
        /\ PushReply(m.uid, Len(log'))
        /\ UNCHANGED <<serving, removed, c2s, s2c, clientVars, faultVars>>

HandleServerId ==
    \E m \in handling :
        /\ m.type = "ServerIdRequest"
        /\ handling' = {}
        /\ PushReply(m.uid, 0)
        /\ UNCHANGED <<serving, removed, log, c2s, s2c, clientVars, faultVars>>

\* The command of a SendCommandRequest has no reply: when it fails its
\* exception ends the server.
HandleSendCommand ==
    \E m \in handling, ok \in BOOLEAN :
        /\ m.type = "SendCommandRequest"
        /\ handling' = {}
        /\ log' = Append(log, m.cmd)
        /\ serving' = ok
        /\ s2c' = IF ok THEN s2c ELSE Append(s2c, FatalPythonErrorReply)
        /\ UNCHANGED <<cache, removed, due, c2s, clientVars, faultVars>>

\* send_expired of ServerComm._read.
Expire ==
    /\ Idle
    /\ TimerMayExpire
    /\ \E expired \in SUBSET DOMAIN cache : expired # {} /\ due' = expired
    /\ UNCHANGED <<serving, handling, cache, removed, log, c2s, s2c>>
    /\ UNCHANGED <<clientVars, faultVars>>

\* Infinite(): the timeouts are used up.
Keep(u) == UNCHANGED <<cache, removed>>  \* mutant: nobody removes the cache
GiveUp(u) == Remove(u)

\* MsgCache.send_expired of the expired cache of u: the reply is sent, or,
\* after Tries sends, removed.
SendExpired ==
    \E u \in due :
        /\ due' = due \ {u}
        /\ IF cache[u].left > 0
           THEN /\ s2c' = Append(s2c, Reply(u, cache[u].val))
                /\ cache' = [cache EXCEPT ![u].left = @ - 1]
                /\ UNCHANGED removed
           ELSE /\ GiveUp(u)
                /\ UNCHANGED s2c
        /\ UNCHANGED <<serving, handling, log, c2s, clientVars, faultVars>>

\* The terminal is left to the interactive Python, which makes nothing of the
\* messages.
ReadByInterpreter ==
    /\ ~serving /\ c2s # <<>>
    /\ c2s' = Tail(c2s)
    /\ UNCHANGED <<serverVars, s2c, clientVars, faultVars>>

-----------------------------------------------------------------------------
\* The environment.

LoseToServer ==
    /\ lost < MaxLoss /\ c2s # <<>>
    /\ c2s' = Tail(c2s) /\ lost' = lost + 1
    /\ UNCHANGED <<clientVars, serverVars, s2c, dup>>

LoseToClient ==
    /\ lost < MaxLoss /\ s2c # <<>>
    /\ s2c' = Tail(s2c) /\ lost' = lost + 1
    /\ UNCHANGED <<clientVars, serverVars, c2s, dup>>

\* The last request is sent once more after its call, as DuplicateClient of the
\* tests does.
Duplicate ==
    /\ dup < MaxDup /\ phase = "idle" /\ nextuid > 0
    /\ c2s' = Append(c2s, request) /\ dup' = dup + 1
    /\ UNCHANGED <<clientVars, serverVars, s2c, lost>>

-----------------------------------------------------------------------------
ClientTimer == StartTimeout \/ Resend \/ LastTry \/ ReplyTimeout \/ FinalTimeout
ClientReceive == \/ ServerIdReceived \/ ReceiveFatal \/ ReceiveOther
                 \/ ReceiveAck \/ ReceiveAckAsReply \/ ReceiveReply
Server == \/ HandleAck \/ ReplyCached \/ FailRequest \/ TakeRequest
          \/ HandleExecCommand \/ HandleServerId \/ HandleSendCommand
          \/ SendExpired \/ ReadByInterpreter
User == ExecCommand \/ GetServerId \/ SendCommand \/ Exit
Environment == LoseToServer \/ LoseToClient \/ Duplicate

Next == User \/ ClientTimer \/ ClientReceive \/ Server \/ Expire \/ Environment

Spec == Init /\ [][Next]_vars

\* The threads of the client and of the server run and their timers expire.
\* The user and the faults of the terminal owe nothing.
Fairness == /\ WF_vars(ClientTimer)
            /\ WF_vars(ClientReceive)
            /\ WF_vars(Server)
            /\ WF_vars(Expire)

FairSpec == Spec /\ Fairness

-----------------------------------------------------------------------------
\* Properties.

ServerRequest == [type : RequestTypes, uid : Int, cmd : Nat]

Outcomes == {"none", "running", "returned", "timeout", "broken", "fatal",
             "unexpected", "sent"}

Errors == {"NotStarted", "none", "FatalPython", "Broken", "Unexpected", "Stopped"}

\* The types of the state of TerminalClient, MsgPythonShell, ServerBase and
\* MsgCaches; send_expired only visits caches that exist, and the server
\* handles one request at a time.
TypeOK ==
    /\ phase \in Phases
    /\ left \in 0 .. Tries - 1
    /\ nextuid \in 0 .. MaxCmds
    /\ created \in nextuid .. MaxCmds + 1
    /\ request \in ServerRequest
    /\ fatal \in Errors
    /\ outcome \in [Cmds -> Outcomes]
    /\ value \in [Cmds -> Nat]
    /\ serving \in BOOLEAN
    /\ handling \subseteq ServerRequest
    /\ \A m, n \in handling : m = n
    /\ DOMAIN cache \subseteq Int
    /\ cache \in [DOMAIN cache -> [val : Nat, left : 0 .. Tries]]
    /\ removed \subseteq Int
    /\ due \subseteq DOMAIN cache
    /\ log \in Seq(Nat)
    /\ c2s \in Seq(ToServer)
    /\ s2c \in Seq(ToClient)
    /\ lost \in 0 .. MaxLoss
    /\ dup \in 0 .. MaxDup

RangeOf(s) == {s[i] : i \in 1 .. Len(s)}

\* No command is run twice, however often its request is sent: the reply of a
\* request sent again comes from the cache, or the server fails
\* (_reply_cached_or_handle_msg).
AtMostOnce == \A i, j \in 1 .. Len(log) : log[i] = log[j] => i = j

\* As long as nobody sends a request after its call, the commands are run in
\* the order of the calls, also the ones of calls that timed out.
InOrder == dup = 0 => \A i, j \in 1 .. Len(log) : i < j => log[i] < log[j]

\* What exec_command returns is the output of its own command, never that of
\* an earlier one whose reply came late (_is_reply_or_ack compares the uids).
OwnOutput ==
    [][\A c \in Cmds :
         outcome[c] = "running" /\ outcome'[c] = "returned" =>
            IF request.type = "ExecCommandRequest"
            THEN value'[c] \in 1 .. Len(log) /\ log[value'[c]] = c
            ELSE value'[c] = 0]_vars

\* exec_command raises a Timeout that is not fatal only for a command the
\* server runs or has run: _try_to_receive_until_reply follows an Ack.
AckMeansTaken ==
    phase = "reply" /\ request.type = "ExecCommandRequest" =>
        request.cmd \in RangeOf(log) \cup {m.cmd : m \in handling}

\* The uid of a SendCommandRequest, from the counter of all the messages, is
\* none the server knows from the counter of the client: the command is neither
\* answered from the cache nor taken for one already removed.
SendCommandIsNew ==
    \A i \in 1 .. Len(c2s) :
        c2s[i].type = "SendCommandRequest" =>
            c2s[i].uid \notin DOMAIN cache \cup removed

\* The server fails only after it was asked to or after a reply or a request
\* could not be delivered in all the tries: with timers longer than any delay
\* and fewer messages lost than there are tries, nothing that MsgCaches has
\* removed is requested again.
RemovedNotRequested ==
    Prompt /\ MaxLoss < Tries /\ dup = 0 =>
        \A i \in 1 .. Len(c2s) : c2s[i].type # "Ack" => c2s[i].uid \notin removed

\* With timers longer than any delay and fewer messages lost than there are
\* tries, a call returns as long as the server lives: no Timeout, no
\* 'Connection broken', no Ack taken for a reply.
LossIsMasked ==
    Prompt /\ MaxLoss < Tries /\ dup = 0 /\ serving =>
        \A c \in Cmds : outcome[c] \notin {"timeout", "broken", "fatal", "unexpected"}

\* What exec_command returns is the output of its command and never, in its
\* place, the text of an internal error.
ReturnsOnlyOutput ==
    request.type = "ExecCommandRequest" => outcome[request.cmd] # "unexpected"

\* Every call ends, whatever is lost and whether the server answers or not.
CallsEnd == (phase # "idle") ~> (phase = "idle")

\* Every reply is acknowledged or given up: MsgCaches holds nothing for ever.
RepliesForgotten ==
    \A u \in Uids : (u \in DOMAIN cache) ~> (u \notin DOMAIN cache \/ ~serving)

\* What the user of the shell is promised, see RemoteCall.
Status == [c \in Cmds |->
    CASE outcome[c] \in {"none", "running", "sent", "returned"} -> outcome[c]
      [] OTHER -> "failed"]

RC == INSTANCE RemoteCall WITH status <- Status
RemoteCallSpec == RC!Spec
=============================================================================
