----------------------------- MODULE MessagingInv ----------------------------
(****************************************************************************)
(* The inductive invariants behind the properties of Messaging, proved in   *)
(* Messaging_proofs.                                                        *)
(****************************************************************************)
EXTENDS Messaging

\* Requests numbered by TerminalClient.send_and_receive, which alone are sent
\* again and alone have replies.
ClientRequests == {"ExecCommandRequest", "ServerIdRequest"}

IsClientRequest(m) == m.type \in ClientRequests

\* While a call runs its request is known and nothing fatal has happened; an
\* ExitRequest is the last message numbered above MaxCmds.
CallInv ==
    /\ phase \notin {"start", "idle"} =>
          /\ fatal = "none"
          /\ request.type \in ClientRequests
          /\ request.cmd \in Cmds
    /\ phase = "start" => fatal = "NotStarted"
    /\ fatal \in {"none", "NotStarted"} => created <= MaxCmds
    /\ nextuid > 0 => request.type \in ClientRequests

TypeInv == TypeOK /\ CallInv

\* Every request that is, or could still be, on its way or in the server.
Requests ==
    {m \in RangeOf(c2s) : m.type # "Ack"} \cup handling
        \cup {m \in {request} : IsClientRequest(m)}

\* The uids MsgCaches has, or has had.
Known == DOMAIN cache \cup removed

\* The numbers in use have been given out, and identify the requests.
NumberInv ==
    /\ \A m \in Requests : /\ m.cmd < created
                           /\ IsClientRequest(m) => m.uid \in 0 .. nextuid - 1
    /\ \A m, n \in Requests : m.cmd = n.cmd => m = n
    /\ \A m, n \in Requests :
          IsClientRequest(m) /\ IsClientRequest(n) /\ m.uid = n.uid => m = n
    /\ \A i \in 1 .. Len(log) : log[i] < created
    /\ \A u \in Known : u < nextuid

\* A client request whose command has run is known to MsgCaches, and one being
\* handled is not.
KnownInv ==
    /\ \A m \in Requests :
          m.type = "ExecCommandRequest" /\ m.cmd \in RangeOf(log) =>
              m.uid \in Known
    /\ \A m \in handling : m.uid \notin Known
    /\ handling # {} => due = {}

\* A SendCommandRequest is in one place only, and has not run there.
SendOnceInv ==
    /\ \A i \in 1 .. Len(c2s) :
          c2s[i].type = "SendCommandRequest" =>
              /\ c2s[i].cmd \notin RangeOf(log)
              /\ c2s[i] \notin handling
              /\ \A j \in 1 .. Len(c2s) : c2s[j] = c2s[i] => j = i
    /\ \A m \in handling :
          m.type = "SendCommandRequest" => m.cmd \notin RangeOf(log)

\* With the commands of l run, v is what the reply to m carries.
IsOutputOf(m, v, l) ==
    IF m.type = "ExecCommandRequest"
    THEN v \in 1 .. Len(l) /\ l[v] = m.cmd
    ELSE v = 0

\* Each reply, stored or sent, is the one of the request of its uid.
ReplyInv ==
    \A m \in Requests : IsClientRequest(m) =>
        /\ m.uid \in DOMAIN cache => IsOutputOf(m, cache[m.uid].val, log)
        /\ \A r \in RangeOf(s2c) :
              r.type = "Reply" /\ r.uid = m.uid => IsOutputOf(m, r.val, log)

\* Replies on their way carry uids given out.
ReplyNumberInv == \A r \in RangeOf(s2c) : r.type = "Reply" => r.uid < nextuid

RunInv == /\ NumberInv /\ KnownInv /\ SendOnceInv /\ AtMostOnce
          /\ ReplyInv /\ ReplyNumberInv

\* In front of a request numbered by the counter of all the messages come only
\* client requests with smaller uids, and the ones the server knows are smaller
\* as well.
OtherRequests == {"SendCommandRequest", "ExitRequest"}
SendOrderInv ==
    \A i \in 1 .. Len(c2s) : c2s[i].type \in OtherRequests =>
        /\ \A u \in Known : u < c2s[i].uid
        /\ \A m \in handling : IsClientRequest(m) => m.uid < c2s[i].uid
        /\ \A j \in 1 .. i - 1 : IsClientRequest(c2s[j]) => c2s[j].uid < c2s[i].uid

\* The state of the call of a request agrees with where the request is.
OutcomeInv ==
    /\ phase \notin {"start", "idle"} => outcome[request.cmd] = "running"
    /\ \A c \in Cmds : outcome[c] = "running" =>
          phase \notin {"start", "idle"} /\ request.cmd = c
    /\ \A c \in Cmds : c >= created => outcome[c] = "none"
    /\ \A m \in Requests : m.type # "ExitRequest" =>
          m.cmd \in Cmds /\ outcome[m.cmd] # "none"

\* The server has the request m: it handles it, or has run its command.
Taken(m) == m.cmd \in RangeOf(log) \cup {n.cmd : n \in handling}

\* An Ack tells that the request of its uid was taken, as long as no request
\* has a uid of the other counter but a SendCommandRequest, which has no Ack; a
\* request whose reply MsgCaches has, or has had, has been run.
AckInv ==
    /\ fatal \in {"none", "NotStarted"} =>
          /\ \A m \in Requests : m.type # "ExitRequest"
          /\ \A r \in RangeOf(s2c) : r.type = "Ack" => r.uid < nextuid
          /\ \A r \in RangeOf(s2c), m \in Requests :
                r.type = "Ack" /\ m.type = "ExecCommandRequest" /\ m.uid = r.uid => Taken(m)
    /\ \A m \in Requests :
          m.type = "ExecCommandRequest" /\ m.uid \in Known => m.cmd \in RangeOf(log)
    /\ AckMeansTaken

\* What is on its way to the server is in the order of the calls, and behind what
\* is being handled and what has been run.
StreamOrder ==
    /\ \A i, j \in 1 .. Len(c2s) :
          i < j /\ c2s[i].type # "Ack" /\ c2s[j].type # "Ack" => c2s[i].cmd <= c2s[j].cmd
    /\ \A m \in handling, j \in 1 .. Len(c2s) : c2s[j].type # "Ack" => m.cmd <= c2s[j].cmd
    /\ \A i \in 1 .. Len(log), j \in 1 .. Len(c2s) :
          c2s[j].type # "Ack" => log[i] <= c2s[j].cmd
    /\ \A i \in 1 .. Len(log), m \in handling :
          m.type # "ServerIdRequest" => log[i] < m.cmd

OrderInv ==
    /\ phase \notin {"start", "idle"} => created = request.cmd + 1
    /\ dup = 0 => StreamOrder
    /\ InOrder

-----------------------------------------------------------------------------
(* With timers longer than any delay.                                       *)

Calling == phase \notin {"start", "idle"}

\* The uids of client requests on their way are in order, behind what is being
\* handled and what MsgCaches knows, and behind the Acks in front of them.
UidOrderInv ==
    /\ \A i, j \in 1 .. Len(c2s) :
          i < j /\ IsClientRequest(c2s[i]) /\ IsClientRequest(c2s[j]) => c2s[i].uid <= c2s[j].uid
    /\ \A i, j \in 1 .. Len(c2s) :
          i < j /\ c2s[i].type = "Ack" /\ IsClientRequest(c2s[j]) => c2s[i].uid < c2s[j].uid
    /\ \A h \in handling, m \in RangeOf(c2s) :
          IsClientRequest(h) /\ IsClientRequest(m) => h.uid <= m.uid
    /\ \A u \in Known, m \in RangeOf(c2s) : IsClientRequest(m) => u <= m.uid
    /\ \A u \in Known, h \in handling : IsClientRequest(h) => u < h.uid

\* The running call has the last uid, and its reply has not been acknowledged.
LastUidInv ==
    /\ \A m \in RangeOf(c2s) : m.type = "Ack" => m.uid < nextuid
    /\ Calling =>
          /\ request.uid = nextuid - 1
          /\ \A m \in RangeOf(c2s) : m.type = "Ack" => m.uid < request.uid

\* A reply comes from MsgCaches, and an Ack from a request that was taken; before
\* the server is known nothing is sent to it.
SourceInv ==
    /\ phase = "start" => c2s = <<>> /\ handling = {} /\ serving
    /\ handling # {} => serving
    /\ \A r \in RangeOf(s2c) : r.type = "Reply" => r.uid \in Known
    /\ fatal \in {"none", "NotStarted"} =>
          \A r \in RangeOf(s2c) : r.type = "Ack" =>
              r.uid \in Known \cup {h.uid : h \in {n \in handling : IsClientRequest(n)}}
    /\ phase = "reply" =>
          request.uid \in Known \cup {h.uid : h \in {n \in handling : IsClientRequest(n)}}
    /\ \A r \in RangeOf(s2c) : r.type = "FatalPythonErrorReply" => ~serving

\* Of the running request there is one copy at most on its way, or one Ack, and
\* neither once an Ack has come or the tries are used up.
AcksOf(m) == [type : {"Ack"}, uid : {m.uid}, val : Nat]
OnceAtMost(s, set) == \A i, j \in 1 .. Len(s) : s[i] \in set /\ s[j] \in set => i = j
CopyInv ==
    Calling =>
        /\ OnceAtMost(c2s, {request}) /\ OnceAtMost(s2c, AcksOf(request))
        /\ request \in RangeOf(c2s) => RangeOf(s2c) \cap AcksOf(request) = {}
        /\ phase # "attempt" => /\ request \notin RangeOf(c2s)
                                /\ RangeOf(s2c) \cap AcksOf(request) = {}

\* No more of its copies have been sent than were lost, but the last one.
RequestLossInv ==
    /\ phase = "final" => left = 0
    /\ Calling /\ serving /\ request.uid \notin Known /\ request \notin handling =>
          /\ Tries - left <= lost + 1
          /\ request \notin RangeOf(c2s) => Tries - left <= lost

\* No more of its replies have been sent than were lost, but the last one.
RepliesOf(m) == [type : {"Reply"}, uid : {m.uid}, val : Nat]
ReplyLossInv ==
    Calling /\ request.uid \in DOMAIN cache =>
        /\ Tries - cache[request.uid].left <= lost + 1
        /\ RangeOf(s2c) \cap RepliesOf(request) = {} => Tries - cache[request.uid].left <= lost
        /\ request.uid \in due => RangeOf(s2c) \cap RepliesOf(request) = {}

\* What is removed is not requested any more; what is about to be removed is not
\* either.
RemovedInv ==
    /\ \A m \in RangeOf(c2s) : IsClientRequest(m) => m.uid \notin removed
    /\ Calling => request.uid \notin removed
    /\ \A u \in due, m \in RangeOf(c2s) :
          cache[u].left < Tries /\ IsClientRequest(m) => m.uid # u

PromptInv ==
    Prompt /\ MaxLoss < Tries /\ dup = 0 =>
        /\ UidOrderInv /\ LastUidInv /\ CopyInv /\ RequestLossInv /\ ReplyLossInv
        /\ RemovedInv /\ LossIsMasked
=============================================================================
