--------------------------- MODULE Messaging_proofs --------------------------
(****************************************************************************)
(* Proofs about Messaging, for every number of tries, of commands and of    *)
(* faults: its types, and what the user of MsgPythonShell relies on; then   *)
(* what depends on the order of the messages in its streams: what an Ack    *)
(* tells the client, the order in which the commands are run, and, when     *)
(* timers are longer than any delay and fewer messages are lost than there  *)
(* are tries, that no loss is noticed.                                      *)
(****************************************************************************)
EXTENDS MessagingInv, TLAPS

-----------------------------------------------------------------------------
(* Types.                                                                   *)

\* The messages have their types, and every request is a message to the server.
LEMMA MessageTypes ==
  /\ \A u \in Int : ClientAck(u) \in ToServer /\ ServerAck(u) \in ToClient
  /\ \A u \in Int, v \in Nat : Reply(u, v) \in ToClient
  /\ FatalPythonErrorReply \in ToClient
  /\ \A t \in RequestTypes, u \in Int, c \in Nat : Request(t, u, c) \in ServerRequest
  /\ \A m \in ServerRequest : m \in ToServer /\ m.type \in RequestTypes
  /\ \A m \in ToServer : m.type # "Ack" => m \in ServerRequest
  /\ \A m \in ToServer \cup ServerRequest : m.uid \in Int /\ m.cmd \in Nat
  /\ \A m \in ToClient : m.uid \in Int /\ m.val \in Nat
  BY DEF ClientAck, ServerAck, Reply, FatalPythonErrorReply, Request, ToServer, ToClient,
     ServerRequest, RequestTypes

LEMMA TypeInit == Init => TypeInv
  BY ConstantsAssumption DEF ConstantsAssumption, Init, TypeInv, TypeOK, CallInv, Phases, Errors, Outcomes,
     ServerRequest, RequestTypes, Request, StartUid, ToServer, ToClient, ClientRequests, Cmds

LEMMA TypeNext == TypeInv /\ [Next]_vars => TypeInv'
  <1> SUFFICES ASSUME TypeInv, [Next]_vars PROVE TypeInv'
    OBVIOUS
  <1> USE ConstantsAssumption, MessageTypes
  <1> USE DEF ConstantsAssumption, TypeInv, TypeOK, CallInv, Usable
  <1>a. \A m \in ToServer : Append(c2s, m) \in Seq(ToServer)
    OBVIOUS
  <1>b. \A m \in ToClient : Append(s2c, m) \in Seq(ToClient)
    OBVIOUS
  <1>c. c2s # <<>> => Read \in ToServer /\ Tail(c2s) \in Seq(ToServer)
    BY DEF Read
  <1>d. s2c # <<>> => Received \in ToClient /\ Tail(s2c) \in Seq(ToClient)
    BY DEF Received
  <1>e. "ExitRequest" \in RequestTypes /\ "SendCommandRequest" \in RequestTypes
        /\ ClientRequests \subseteq RequestTypes
    BY DEF RequestTypes, ClientRequests
  <1>f. c2s # <<>> => Acked \in Seq(ToClient)
    BY <1>b, <1>c DEF Acked
  <1>1. CASE UNCHANGED vars
    BY <1>1 DEF vars, clientVars, serverVars, faultVars
  <1>2. CASE ServerIdReceived
    <2>1. c2s' \in Seq(ToServer) /\ s2c' \in Seq(ToClient)
      BY <1>2, <1>a, <1>d DEF ServerIdReceived, Received
    <2>2. QED
      BY <1>2, <2>1 DEF ServerIdReceived, serverVars, faultVars, Phases, Errors
  <1>3. CASE StartTimeout
    BY <1>3 DEF StartTimeout, serverVars, faultVars, Phases, Errors
  <1>4. ASSUME NEW t \in ClientRequests, Call(t) PROVE TypeInv'
    <2>1. request' \in ServerRequest /\ request'.type = t /\ request'.cmd = created
      BY SMTT(60), <1>4, <1>e DEF Call, Request
    <2>2. c2s' \in Seq(ToServer)
      BY <1>4, <1>a, <2>1 DEF Call
    <2>3. /\ nextuid' \in 0 .. MaxCmds /\ created' \in nextuid' .. MaxCmds + 1
          /\ created' <= MaxCmds /\ created \in Cmds /\ left' \in 0 .. Tries - 1
      <3>1. /\ nextuid' = nextuid + 1 /\ created' = created + 1 /\ left' = Tries - 1
            /\ created < MaxCmds /\ created \in nextuid .. MaxCmds + 1
            /\ nextuid \in 0 .. MaxCmds /\ MaxCmds \in Nat /\ Tries \in Nat \ {0}
        BY <1>4 DEF Call
      <3> HIDE MessageTypes DEF TypeInv
      <3>2. QED
        BY <3>1 DEF Cmds
    <2>4. phase' = "attempt" /\ phase' \in Phases
      BY <1>4 DEF Call, Phases
    <2>5. outcome' \in [Cmds -> Outcomes]
      BY <1>4 DEF Call, Outcomes
    <2>6. QED
      BY <1>4, <2>1, <2>2, <2>3, <2>4, <2>5 DEF Call, serverVars, faultVars
  <1>5. CASE Resend
    <2>1. c2s' \in Seq(ToServer)
      BY <1>5, <1>a DEF Resend, ResendIn
    <2>2. left' \in 0 .. Tries - 1
      <3>1. left' = left - 1 /\ left > 0 /\ left \in 0 .. Tries - 1 /\ Tries \in Nat
        BY <1>5 DEF Resend, ResendIn
      <3> HIDE MessageTypes DEF TypeInv
      <3>2. QED
        BY <3>1
    <2>3. QED
      BY <1>5, <2>1, <2>2 DEF Resend, ResendIn, serverVars, faultVars
  <1>6. CASE LastTry
    BY <1>6 DEF LastTry, serverVars, faultVars, Phases
  <1>7. CASE ReplyTimeout
    BY <1>7 DEF ReplyTimeout, EndCall, serverVars, faultVars, Phases, Errors, Outcomes
  <1>8. CASE FinalTimeout
    BY <1>8 DEF FinalTimeout, EndCall, serverVars, faultVars, Phases, Errors, Outcomes
  <1>g. ASSUME Receive, c2s' \in Seq(ToServer), phase' \in Phases,
               fatal' \in Errors, outcome' \in [Cmds -> Outcomes],
               value' \in [Cmds -> Nat], created' \in nextuid .. MaxCmds + 1,
               phase' # "idle" => fatal' = fatal /\ phase' # "start",
               fatal' \in {"none", "NotStarted"} => created' <= MaxCmds
        PROVE  TypeInv'
    <2>1. s2c' \in Seq(ToClient)
      BY <1>g, <1>d DEF Receive
    <2>2. UNCHANGED <<left, nextuid, request, serving, handling, cache, removed, due,
                      log, lost, dup>>
      BY <1>g DEF Receive, serverVars, faultVars
    <2>3. phase \notin {"start", "idle"}
      BY <1>g DEF Receive
    <2>4. QED
      BY <1>g, <2>1, <2>2, <2>3
  <1>h. ASSUME Receive, NEW how \in Outcomes, NEW error \in Errors \ {"NotStarted"},
               EndCall(how, error)
        PROVE  /\ phase' = "idle" /\ phase' \in Phases
               /\ fatal' \in Errors \ {"NotStarted"}
               /\ outcome' \in [Cmds -> Outcomes]
               /\ fatal' = "none" => fatal = "none"
    BY <1>h DEF Receive, EndCall, Phases, Errors, Outcomes
  <1>9. CASE ReceiveFatal
    <2>1. "fatal" \in Outcomes /\ "FatalPython" \in Errors \ {"NotStarted"}
      BY DEF Outcomes, Errors
    <2>2. QED
      BY <1>9, <1>g, <1>h, <2>1 DEF ReceiveFatal
  <1>11. CASE ReceiveOther
    <2>1. c2s' \in Seq(ToServer)
      BY <1>11, <1>a, <1>d DEF ReceiveOther, Receive
    <2>2. phase' \in Phases /\ phase # "start"
      BY <1>11 DEF ReceiveOther, Receive, Phases
    <2>3. QED
      BY <1>11, <1>g, <2>1, <2>2 DEF ReceiveOther
  <1>12. CASE ReceiveAck
    <2>1. phase' \in Phases /\ phase' # "start"
      BY <1>12 DEF ReceiveAck, Phases
    <2>2. QED
      BY <1>12, <1>g, <2>1 DEF ReceiveAck
  <1>13. CASE ReceiveAckAsReply
    <2>1. "unexpected" \in Outcomes /\ "Unexpected" \in Errors \ {"NotStarted"}
      BY DEF Outcomes, Errors
    <2>2. c2s' \in Seq(ToServer)
      <3>1. Request("ExitRequest", created, created) \in ToServer
        BY SMTT(60), <1>e
      <3>2. QED
        BY <1>13, <1>a, <3>1 DEF ReceiveAckAsReply, CreatedUid
    <2>3. fatal = "none" /\ created <= MaxCmds
      BY <1>13 DEF ReceiveAckAsReply, Receive
    <2>4. /\ created' \in nextuid .. MaxCmds + 1
          /\ fatal' = "none" => created' <= MaxCmds
      <3>1. CASE request.type = "ExecCommandRequest"
        <4>1. /\ created' = created + 1 /\ created \in nextuid .. MaxCmds + 1
              /\ created <= MaxCmds /\ nextuid \in Nat /\ MaxCmds \in Nat
              /\ fatal' = "Unexpected"
          BY <1>13, <2>3, <3>1 DEF ReceiveAckAsReply, EndCall
        <4> HIDE MessageTypes DEF TypeInv
        <4>2. QED
          BY <4>1
      <3>2. CASE request.type # "ExecCommandRequest"
        BY <1>13, <2>3, <3>2 DEF ReceiveAckAsReply
      <3>3. QED
        BY <3>1, <3>2
    <2>5. QED
      BY <1>13, <1>g, <1>h, <2>1, <2>2, <2>4 DEF ReceiveAckAsReply
  <1>14. CASE ReceiveReply
    <2>1. "returned" \in Outcomes /\ "none" \in Errors \ {"NotStarted"}
      BY DEF Outcomes, Errors
    <2>2. c2s' \in Seq(ToServer) /\ value' \in [Cmds -> Nat]
      BY <1>14, <1>a, <1>d DEF ReceiveReply, Receive
    <2>3. QED
      BY <1>14, <1>g, <1>h, <2>1, <2>2 DEF ReceiveReply
  <1>15. CASE SendCommand
    <2>1. c2s' \in Seq(ToServer)
      BY SMTT(60), <1>15, <1>a, <1>e DEF SendCommand, CreatedUid
    <2>2. created' \in nextuid' .. MaxCmds + 1 /\ created' <= MaxCmds
      BY SMTT(60), <1>15 DEF SendCommand
    <2>3. outcome' \in [Cmds -> Outcomes]
      BY <1>15 DEF SendCommand, Outcomes
    <2>4. QED
      BY <1>15, <2>1, <2>2, <2>3 DEF SendCommand, serverVars, faultVars
  <1>16. CASE Exit
    <2>1. c2s' \in Seq(ToServer)
      BY SMTT(60), <1>16, <1>a, <1>e DEF Exit, CreatedUid
    <2>2. /\ created' \in nextuid' .. MaxCmds + 1
          /\ fatal' \in Errors \ {"none", "NotStarted"}
      BY SMTT(60), <1>16 DEF Exit, Errors
    <2>3. QED
      BY <1>16, <2>1, <2>2 DEF Exit, serverVars, faultVars
  <1>17. CASE HandleAck
    <2>1. c2s' \in Seq(ToServer) /\ due = {} /\ Read.uid \in Int
      BY <1>17, <1>c DEF HandleAck, Idle
    <2>2. /\ DOMAIN cache' \subseteq Int /\ removed' \subseteq Int
          /\ cache' \in [DOMAIN cache' -> [val : Nat, left : 0 .. Tries]]
      <3>1. /\ DOMAIN cache \subseteq Int /\ removed \subseteq Int
            /\ cache \in [DOMAIN cache -> [val : Nat, left : 0 .. Tries]]
        OBVIOUS
      <3>2. \/ /\ cache' = [v \in DOMAIN cache \ {Read.uid} |-> cache[v]]
               /\ removed' = removed \cup {Read.uid}
            \/ cache' = cache /\ removed' = removed
        BY <1>17 DEF HandleAck, Remove
      <3> HIDE MessageTypes DEF TypeInv
      <3>3. QED
        BY SMTT(60), <2>1, <3>1, <3>2
    <2>3. QED
      BY <1>17, <2>1, <2>2 DEF HandleAck, clientVars, faultVars
  <1>i. ASSUME ReadRequest, s2c' \in Seq(ToClient), serving' \in BOOLEAN,
               handling' \subseteq ServerRequest, \A m, n \in handling' : m = n
        PROVE  TypeInv'
    <2>1. c2s' \in Seq(ToServer)
      BY <1>i, <1>c DEF ReadRequest
    <2>2. QED
      BY <1>i, <2>1 DEF ReadRequest, clientVars, faultVars
  <1>20. CASE ReplyCached
    <2>1. c2s # <<>> /\ Read.uid \in DOMAIN cache
      BY <1>20 DEF ReplyCached, ReadRequest, IsCached
    <2>2. Reply(Read.uid, cache[Read.uid].val) \in ToClient
      BY <2>1
    <2>3. s2c' \in Seq(ToClient)
      BY <1>20, <1>f, <2>1, <2>2 DEF ReplyCached
    <2>4. QED
      BY <1>20, <1>i, <2>3 DEF ReplyCached
  <1>21. CASE FailRequest
    <2>1. s2c' \in Seq(ToClient)
      BY <1>21, <1>f DEF FailRequest, ReadRequest
    <2>2. QED
      BY <1>21, <1>i, <2>1 DEF FailRequest
  <1>22. CASE TakeRequest
    <2>1. c2s # <<>> /\ Read \in ServerRequest
      BY <1>22, <1>c DEF TakeRequest, ReadRequest
    <2>2. QED
      BY <1>22, <1>f, <1>i, <2>1 DEF TakeRequest
  <1>23. ASSUME NEW u \in Int, NEW v \in Nat, PushReply(u, v)
         PROVE  /\ DOMAIN cache' \subseteq Int
                /\ cache' \in [DOMAIN cache' -> [val : Nat, left : 0 .. Tries]]
                /\ due' \subseteq DOMAIN cache'
    BY SMTT(60), <1>23 DEF PushReply, FreshCache
  <1>24. CASE HandleExecCommand
    <2>1. PICK m \in handling : HandleExecCommand!(m)
      BY <1>24 DEF HandleExecCommand
    <2>2. m.uid \in Int /\ m.cmd \in Nat
      OBVIOUS
    <2>3. log' \in Seq(Nat) /\ Len(log') \in Nat
      BY <2>1, <2>2
    <2>4. QED
      BY <1>23, <2>1, <2>2, <2>3 DEF clientVars, faultVars
  <1>25. CASE HandleServerId
    <2>1. PICK m \in handling : HandleServerId!(m)
      BY <1>25 DEF HandleServerId
    <2>2. m.uid \in Int
      OBVIOUS
    <2>3. QED
      BY <1>23, <2>1, <2>2 DEF clientVars, faultVars
  <1>26. CASE HandleSendCommand
    <2>1. PICK m \in handling, ok \in BOOLEAN : HandleSendCommand!(m, ok)
      BY <1>26 DEF HandleSendCommand
    <2>2. log' \in Seq(Nat) /\ s2c' \in Seq(ToClient)
      BY <1>b, <2>1
    <2>3. QED
      BY <2>1, <2>2 DEF clientVars, faultVars
  <1>27. CASE Expire
    BY <1>27 DEF Expire, clientVars, faultVars
  <1>28. CASE SendExpired
    <2>1. PICK u \in due : SendExpired!(u)
      BY <1>28 DEF SendExpired
    <2>2. CASE cache[u].left > 0
      <3>1. s2c' \in Seq(ToClient)
        BY <1>b, <2>1, <2>2
      <3>2. /\ cache' \in [DOMAIN cache -> [val : Nat, left : 0 .. Tries]]
            /\ DOMAIN cache' = DOMAIN cache
        <4>1. /\ cache \in [DOMAIN cache -> [val : Nat, left : 0 .. Tries]]
              /\ u \in DOMAIN cache /\ cache[u].left > 0 /\ Tries \in Nat
              /\ cache' = [cache EXCEPT ![u].left = @ - 1]
          BY <2>1, <2>2
        <4> HIDE MessageTypes DEF TypeInv
        <4>2. cache[u].left - 1 \in 0 .. Tries
          BY <4>1
        <4>3. QED
          BY <4>1, <4>2
      <3>3. QED
        BY <2>1, <2>2, <3>1, <3>2 DEF clientVars, faultVars
    <2>3. CASE ~(cache[u].left > 0)
      <3>1. /\ DOMAIN cache' \subseteq Int /\ removed' \subseteq Int
            /\ cache' \in [DOMAIN cache' -> [val : Nat, left : 0 .. Tries]]
            /\ due' \subseteq DOMAIN cache'
        <4>1. /\ DOMAIN cache \subseteq Int /\ removed \subseteq Int
              /\ cache \in [DOMAIN cache -> [val : Nat, left : 0 .. Tries]]
              /\ due \subseteq DOMAIN cache
          OBVIOUS
        <4>2. /\ cache' = [v \in DOMAIN cache \ {u} |-> cache[v]]
              /\ removed' = removed \cup {u}
              /\ due' = due \ {u}
          BY <2>1, <2>3 DEF GiveUp, Remove
        <4> HIDE MessageTypes DEF TypeInv
        <4>3. QED
          BY SMTT(60), <4>1, <4>2
      <3>2. QED
        BY <2>1, <2>3, <3>1 DEF GiveUp, clientVars, faultVars
    <2>4. QED
      BY <2>2, <2>3
  <1>29. CASE ReadByInterpreter
    BY <1>c, <1>29 DEF ReadByInterpreter, serverVars, clientVars, faultVars
  <1>30. CASE LoseToServer
    <2>1. lost' \in 0 .. MaxLoss
      BY SMTT(60), <1>30 DEF LoseToServer
    <2>2. c2s' \in Seq(ToServer)
      BY <1>c, <1>30 DEF LoseToServer
    <2>3. QED
      BY <1>30, <2>1, <2>2 DEF LoseToServer, serverVars, clientVars
  <1>31. CASE LoseToClient
    <2>1. lost' \in 0 .. MaxLoss
      BY SMTT(60), <1>31 DEF LoseToClient
    <2>2. s2c' \in Seq(ToClient)
      BY <1>d, <1>31 DEF LoseToClient
    <2>3. QED
      BY <1>31, <2>1, <2>2 DEF LoseToClient, serverVars, clientVars
  <1>32. CASE Duplicate
    <2>1. c2s' \in Seq(ToServer)
      BY <1>a, <1>32 DEF Duplicate
    <2>2. dup' \in 0 .. MaxDup
      BY SMTT(60), <1>32 DEF Duplicate
    <2>3. QED
      BY <1>32, <2>1, <2>2 DEF Duplicate, serverVars, clientVars
  <1>33. QED
    BY <1>1, <1>2, <1>3, <1>4, <1>5, <1>6, <1>7, <1>8, <1>9, <1>11, <1>12, <1>13, <1>14,
       <1>15, <1>16, <1>17, <1>20, <1>21, <1>22, <1>24, <1>25, <1>26, <1>27, <1>28,
       <1>29, <1>30, <1>31, <1>32
       DEF Next, User, ExecCommand, GetServerId, ClientTimer, ClientReceive, Server,
           Environment, ClientRequests

\* Every state of the protocol has the types of TypeOK, whatever is lost and
\* whatever timer expires.
THEOREM TypeCorrect == Spec => []TypeOK
  <1>1. Spec => []TypeInv
    BY TypeInit, TypeNext, PTL DEF Spec
  <1>2. TypeInv => TypeOK
    BY DEF TypeInv
  <1>3. QED
    BY <1>1, <1>2, PTL

-----------------------------------------------------------------------------
(* Commands run once, and calls return their own output.                    *)

\* What Append and Tail do to the members of a sequence.
LEMMA RangeAppend ==
  ASSUME NEW S, NEW s \in Seq(S), NEW x \in S
  PROVE  RangeOf(Append(s, x)) = RangeOf(s) \cup {x}
  <1>1. /\ Len(Append(s, x)) = Len(s) + 1
        /\ \A i \in 1 .. Len(s) : Append(s, x)[i] = s[i]
        /\ Append(s, x)[Len(s) + 1] = x
        /\ Len(s) \in Nat
    OBVIOUS
  <1>2. ASSUME NEW y \in RangeOf(Append(s, x)) PROVE y \in RangeOf(s) \cup {x}
    <2>1. PICK i \in 1 .. Len(s) + 1 : y = Append(s, x)[i]
      BY <1>1, <1>2 DEF RangeOf
    <2>2. CASE i = Len(s) + 1
      BY <1>1, <2>1, <2>2
    <2>3. CASE i \in 1 .. Len(s)
      BY <1>1, <2>1, <2>3 DEF RangeOf
    <2>4. QED
      BY <1>1, <2>1, <2>2, <2>3
  <1>3. ASSUME NEW y \in RangeOf(s) PROVE y \in RangeOf(Append(s, x))
    <2>1. PICK i \in 1 .. Len(s) : y = s[i]
      BY <1>3 DEF RangeOf
    <2>2. i \in 1 .. Len(s) + 1 /\ y = Append(s, x)[i]
      BY <1>1, <2>1
    <2>3. QED
      BY <1>1, <2>2 DEF RangeOf
  <1>4. x \in RangeOf(Append(s, x))
    <2>1. Len(s) + 1 \in 1 .. Len(Append(s, x))
      BY <1>1
    <2>2. QED
      BY <1>1, <2>1 DEF RangeOf
  <1>5. QED
    BY <1>2, <1>3, <1>4

LEMMA RangeTail ==
  ASSUME NEW S, NEW s \in Seq(S), s # <<>>
  PROVE  /\ Head(s) \in RangeOf(s)
         /\ RangeOf(Tail(s)) \subseteq RangeOf(s)
  <1>1. /\ Len(s) \in Nat \ {0} /\ Head(s) = s[1]
        /\ Len(Tail(s)) = Len(s) - 1
        /\ \A i \in 1 .. Len(s) - 1 : Tail(s)[i] = s[i + 1]
    OBVIOUS
  <1>2. Head(s) \in RangeOf(s)
    BY <1>1 DEF RangeOf
  <1>3. ASSUME NEW y \in RangeOf(Tail(s)) PROVE y \in RangeOf(s)
    <2>1. PICK i \in 1 .. Len(s) - 1 : y = s[i + 1]
      BY <1>1, <1>3 DEF RangeOf
    <2>2. i + 1 \in 1 .. Len(s)
      BY <1>1, <2>1
    <2>3. QED
      BY <2>1, <2>2 DEF RangeOf
  <1>4. QED
    BY <1>2, <1>3

\* A step that runs nothing and gives out no number keeps RunInv: the requests,
\* the replies and what MsgCaches knows stay what they are.
LEMMA QuietStep ==
  ASSUME TypeInv, TypeInv', RunInv, SendOnceInv',
         created' >= created, nextuid' = nextuid, Requests' \subseteq Requests,
         log' = log, Known' = Known,
         \A u \in DOMAIN cache' : u \in DOMAIN cache /\ cache'[u].val = cache[u].val,
         \A r \in RangeOf(s2c') : r.type = "Reply" =>
             r \in RangeOf(s2c) \/ (r.uid \in DOMAIN cache /\ r.val = cache[r.uid].val),
         handling' # {} => due' = {},
         \A m \in handling' : m.uid \notin Known
  PROVE  RunInv'
  <1>1. NumberInv'
    <2>1. created \in Int /\ created' \in Int
      BY DEF TypeInv, TypeOK
    <2>2. \A m \in Requests : m.cmd \in Int
      BY SMTT(60), MessageTypes DEF TypeInv, TypeOK, Requests, RangeOf
    <2>3. \A i \in 1 .. Len(log) : log[i] \in Int
      BY SMTT(60) DEF TypeInv, TypeOK
    <2>4. QED
      BY <2>1, <2>2, <2>3 DEF RunInv, NumberInv, Known, IsClientRequest
  <1>2. KnownInv'
    BY DEF RunInv, KnownInv, Known, RangeOf
  <1>3. AtMostOnce'
    BY DEF RunInv, AtMostOnce
  <1>5. ReplyInv'
    <2> SUFFICES ASSUME NEW m \in Requests', IsClientRequest(m)
                 PROVE  /\ m.uid \in DOMAIN cache' => IsOutputOf(m, cache'[m.uid].val, log')
                        /\ \A r \in RangeOf(s2c') : r.type = "Reply" /\ r.uid = m.uid =>
                              IsOutputOf(m, r.val, log')
      BY DEF ReplyInv, IsClientRequest
    <2>1. m \in Requests
      OBVIOUS
    <2>2. m.uid \in DOMAIN cache => IsOutputOf(m, cache[m.uid].val, log)
      BY <2>1 DEF RunInv, ReplyInv
    <2>3. \A r \in RangeOf(s2c) : r.type = "Reply" /\ r.uid = m.uid => IsOutputOf(m, r.val, log)
      BY <2>1 DEF RunInv, ReplyInv
    <2>4. QED
      BY <2>2, <2>3
  <1>6. ReplyNumberInv'
    <2>1. \A u \in DOMAIN cache : u < nextuid
      BY DEF RunInv, NumberInv, Known
    <2>2. QED
      BY <2>1 DEF RunInv, ReplyNumberInv
  <1>7. QED
    BY <1>1, <1>2, <1>3, <1>5, <1>6 DEF RunInv

\* What the requests are after a message is put behind the others, or the first
\* one is taken.
LEMMA RequestsAppend ==
  ASSUME TypeInv, NEW m \in ToServer, c2s' = Append(c2s, m),
         UNCHANGED <<handling, request>>
  PROVE  Requests' = Requests \cup {n \in {m} : n.type # "Ack"}
  <1>1. RangeOf(c2s') = RangeOf(c2s) \cup {m}
    BY RangeAppend DEF TypeInv, TypeOK
  <1>2. QED
    BY <1>1 DEF Requests, IsClientRequest, RangeOf

LEMMA RequestsTail ==
  ASSUME TypeInv, c2s # <<>>, c2s' = Tail(c2s), request' = request,
         \A m \in handling' : m \in handling \/ (m = Read /\ Read.type # "Ack")
  PROVE  Requests' \subseteq Requests
  <1>1. RangeOf(c2s') \subseteq RangeOf(c2s) /\ Read \in RangeOf(c2s)
    BY RangeTail DEF TypeInv, TypeOK, Read
  <1>2. QED
    BY <1>1 DEF Requests, IsClientRequest, RangeOf

\* A SendCommandRequest stays where it is, or is taken by the server.
LEMMA SendOnceTail ==
  ASSUME TypeInv, SendOnceInv, c2s # <<>>, c2s' = Tail(c2s), log' = log,
         \A m \in handling' : m \in handling \/ m = Read
  PROVE  SendOnceInv'
  <1>1. /\ Len(c2s) \in Nat \ {0} /\ Read = c2s[1]
        /\ Len(c2s') = Len(c2s) - 1
        /\ \A i \in 1 .. Len(c2s) - 1 : c2s'[i] = c2s[i + 1]
    BY DEF TypeInv, TypeOK, Read
  <1>2. ASSUME NEW i \in 1 .. Len(c2s'), c2s'[i].type = "SendCommandRequest"
        PROVE  /\ c2s'[i].cmd \notin RangeOf(log')
               /\ c2s'[i] \notin handling'
               /\ \A j \in 1 .. Len(c2s') : c2s'[j] = c2s'[i] => j = i
    <2>1. i + 1 \in 1 .. Len(c2s) /\ c2s'[i] = c2s[i + 1]
      BY <1>1
    <2>2. /\ c2s[i + 1].cmd \notin RangeOf(log)
          /\ c2s[i + 1] \notin handling
          /\ \A j \in 1 .. Len(c2s) : c2s[j] = c2s[i + 1] => j = i + 1
      BY <1>2, <2>1 DEF SendOnceInv
    <2>3. c2s[i + 1] # Read
      BY <1>1, <2>1, <2>2
    <2>4. ASSUME NEW j \in 1 .. Len(c2s'), c2s'[j] = c2s'[i] PROVE j = i
      <3>1. j + 1 \in 1 .. Len(c2s) /\ c2s'[j] = c2s[j + 1]
        BY <1>1
      <3>2. j + 1 = i + 1
        BY <2>1, <2>2, <2>4, <3>1
      <3>3. QED
        BY <3>2
    <2>5. QED
      BY <2>1, <2>2, <2>3, <2>4
  <1>3. 1 \in 1 .. Len(c2s)
    BY <1>1
  <1>4. \A m \in handling' : m.type = "SendCommandRequest" => m.cmd \notin RangeOf(log)
    BY <1>1, <1>3 DEF SendOnceInv
  <1>5. QED
    BY <1>2, <1>4 DEF SendOnceInv, RangeOf

LEMMA SendOnceAppend ==
  ASSUME TypeInv, SendOnceInv, NEW m \in ToServer, m.type # "SendCommandRequest",
         c2s' = Append(c2s, m), UNCHANGED <<handling, log>>
  PROVE  SendOnceInv'
  <1>1. /\ Len(c2s) \in Nat
        /\ Len(c2s') = Len(c2s) + 1
        /\ \A i \in 1 .. Len(c2s) : c2s'[i] = c2s[i]
        /\ c2s'[Len(c2s) + 1] = m
    BY DEF TypeInv, TypeOK
  <1>2. ASSUME NEW i \in 1 .. Len(c2s'), c2s'[i].type = "SendCommandRequest"
        PROVE  i \in 1 .. Len(c2s) /\ c2s'[i] = c2s[i]
    <2>1. i # Len(c2s) + 1
      BY <1>1, <1>2
    <2>2. QED
      BY <1>1, <2>1
  <1>3. QED
    BY <1>1, <1>2 DEF SendOnceInv, RangeOf

\* Nothing moves.
LEMMA SendOnceSame ==
  ASSUME SendOnceInv, UNCHANGED <<c2s, log>>, handling' \subseteq handling
  PROVE  SendOnceInv'
  BY DEF SendOnceInv, RangeOf

\* The client numbers a message and sends it.
LEMMA NewRequest ==
  ASSUME TypeInv, TypeInv', RunInv, NEW m \in ServerRequest,
         m.cmd = created, created' = created + 1, c2s' = Append(c2s, m),
         IF IsClientRequest(m)
         THEN m.uid = nextuid /\ nextuid' = nextuid + 1 /\ request' = m
         ELSE nextuid' = nextuid /\ request' = request,
         RangeOf(s2c') \subseteq RangeOf(s2c),
         UNCHANGED <<handling, cache, removed, due, log>>
  PROVE  RunInv'
  <1>1. m \in ToServer /\ m.type # "Ack"
    BY DEF ServerRequest, ToServer, RequestTypes
  <1>2. Requests' \subseteq Requests \cup {m}
    <2>1. RangeOf(c2s') = RangeOf(c2s) \cup {m}
      BY <1>1, RangeAppend DEF TypeInv, TypeOK
    <2>2. QED
      BY <2>1 DEF Requests, IsClientRequest, RangeOf
  <1>3. created \in Nat /\ nextuid \in Nat
    BY DEF TypeInv, TypeOK
  <1>4. \A n \in Requests : n \in ServerRequest /\ n.uid \in Int /\ n.cmd \in Nat
    BY SMTT(60), MessageTypes DEF TypeInv, TypeOK, Requests, RangeOf
  <1>5. /\ \A n \in Requests : n.cmd < created
        /\ \A n \in Requests : IsClientRequest(n) => n.uid < nextuid /\ n.uid >= 0
        /\ \A i \in 1 .. Len(log) : log[i] < created
        /\ \A u \in Known : u < nextuid
    BY <1>3, <1>4 DEF RunInv, NumberInv
  <1>6. \A i \in 1 .. Len(log) : log[i] \in Int
    <2>1. log \in Seq(Nat)
      BY DEF TypeInv, TypeOK
    <2>2. QED
      BY <2>1
  <1>7. Known' = Known /\ \A u \in Known : u \in Int
    BY DEF Known, TypeInv, TypeOK
  <1>8. nextuid' \in {nextuid, nextuid + 1}
    OBVIOUS
  <1>9. NumberInv'
    <2>1. \A n \in Requests' : /\ n.cmd < created'
                               /\ IsClientRequest(n) => n.uid \in 0 .. nextuid' - 1
      <3>1. \A n \in Requests : /\ n.cmd < created + 1
                                /\ IsClientRequest(n) => n.uid \in 0 .. nextuid' - 1
        BY <1>3, <1>4, <1>5, <1>8
      <3>2. m.cmd < created + 1 /\ (IsClientRequest(m) => m.uid \in 0 .. nextuid' - 1)
        BY <1>3
      <3>3. QED
        BY <1>2, <3>1, <3>2
    <2>2. \A n \in Requests : n.cmd # m.cmd
      BY <1>3, <1>4, <1>5
    <2>3. \A n \in Requests : IsClientRequest(n) /\ IsClientRequest(m) => n.uid # m.uid
      BY <1>3, <1>4, <1>5
    <2>4. \A n, o \in Requests' : n.cmd = o.cmd => n = o
      BY <1>2, <2>2 DEF RunInv, NumberInv
    <2>5. \A n, o \in Requests' :
             IsClientRequest(n) /\ IsClientRequest(o) /\ n.uid = o.uid => n = o
      BY <1>2, <2>3 DEF RunInv, NumberInv
    <2>6. \A i \in 1 .. Len(log') : log'[i] < created'
      BY <1>3, <1>5, <1>6
    <2>7. \A u \in Known' : u < nextuid'
      BY <1>3, <1>5, <1>7, <1>8
    <2>8. QED
      BY <2>1, <2>4, <2>5, <2>6, <2>7 DEF NumberInv, IsClientRequest
  <1>10. m.cmd \notin RangeOf(log)
    BY <1>3, <1>5, <1>6 DEF RangeOf
  <1>11. KnownInv'
    <2>1. \A n \in Requests' :
             n.type = "ExecCommandRequest" /\ n.cmd \in RangeOf(log) => n.uid \in Known
      BY <1>2, <1>10 DEF RunInv, KnownInv
    <2>2. QED
      BY <1>7, <2>1 DEF RunInv, KnownInv, RangeOf
  <1>12. SendOnceInv'
    <2>1. /\ Len(c2s) \in Nat
          /\ Len(c2s') = Len(c2s) + 1
          /\ \A i \in 1 .. Len(c2s) : c2s'[i] = c2s[i]
          /\ c2s'[Len(c2s) + 1] = m
      BY SMTT(60), <1>1 DEF TypeInv, TypeOK
    <2>2. m \notin RangeOf(c2s) /\ m \notin handling
      BY <1>1, <1>3, <1>5 DEF Requests
    <2>3. ASSUME NEW i \in 1 .. Len(c2s'), c2s'[i].type = "SendCommandRequest"
          PROVE  /\ c2s'[i].cmd \notin RangeOf(log)
                 /\ c2s'[i] \notin handling
                 /\ \A j \in 1 .. Len(c2s') : c2s'[j] = c2s'[i] => j = i
      <3>1. CASE i = Len(c2s) + 1
        BY <1>10, <2>1, <2>2, <3>1 DEF RangeOf
      <3>2. CASE i \in 1 .. Len(c2s)
        <4>1. c2s'[i] = c2s[i] /\ c2s[i] # m
          BY <2>1, <2>2, <3>2 DEF RangeOf
        <4>2. QED
          BY <2>1, <2>3, <3>2, <4>1 DEF RunInv, SendOnceInv
      <3>3. QED
        BY <2>1, <3>1, <3>2
    <2>4. QED
      BY <2>3 DEF RunInv, SendOnceInv, RangeOf
  <1>13. AtMostOnce'
    BY DEF RunInv, AtMostOnce
  <1>14. IsClientRequest(m) => m.uid \notin DOMAIN cache /\
            \A r \in RangeOf(s2c) : r.type = "Reply" => r.uid # m.uid
    <2>1. \A r \in RangeOf(s2c) : r.uid \in Int
      BY SMTT(60), MessageTypes DEF TypeInv, TypeOK, RangeOf
    <2>2. \A r \in RangeOf(s2c) : r.type = "Reply" => r.uid < nextuid
      BY DEF RunInv, ReplyNumberInv
    <2>3. IsClientRequest(m) => m.uid \notin Known
      BY <1>3, <1>5, <1>7
    <2>4. QED
      BY <1>3, <2>1, <2>2, <2>3 DEF Known
  <1>15. ReplyInv'
    <2> SUFFICES ASSUME NEW n \in Requests', IsClientRequest(n)
                 PROVE  /\ n.uid \in DOMAIN cache => IsOutputOf(n, cache[n.uid].val, log)
                        /\ \A r \in RangeOf(s2c) : r.type = "Reply" /\ r.uid = n.uid =>
                              IsOutputOf(n, r.val, log)
      BY DEF ReplyInv, IsClientRequest
    <2>1. CASE n = m
      BY <1>14, <2>1
    <2>2. CASE n \in Requests
      BY <2>2 DEF RunInv, ReplyInv
    <2>3. QED
      BY <1>2, <2>1, <2>2
  <1>16. ReplyNumberInv'
    <2>1. \A r \in RangeOf(s2c) : r.uid \in Int
      BY SMTT(60), MessageTypes DEF TypeInv, TypeOK, RangeOf
    <2>2. \A r \in RangeOf(s2c) : r.type = "Reply" => r.uid < nextuid'
      BY <1>3, <1>8, <2>1 DEF RunInv, ReplyNumberInv
    <2>3. QED
      BY <2>2 DEF ReplyNumberInv
  <1>17. QED
    BY <1>9, <1>11, <1>12, <1>13, <1>15, <1>16 DEF RunInv

\* Running a command keeps the outputs of the others where they are.
LEMMA OutputStable ==
  ASSUME NEW l \in Seq(Nat), NEW c \in Nat, NEW m, NEW v, IsOutputOf(m, v, l)
  PROVE  IsOutputOf(m, v, Append(l, c))
  <1>1. /\ Len(Append(l, c)) = Len(l) + 1
        /\ \A i \in 1 .. Len(l) : Append(l, c)[i] = l[i]
        /\ Len(l) \in Nat
    OBVIOUS
  <1>2. QED
    BY <1>1 DEF IsOutputOf

\* The server handles the request m: its command has not been run before.
LEMMA HandleStep ==
  ASSUME TypeInv, TypeInv', RunInv, NEW m \in handling, handling' = {},
         m.type \in {"ExecCommandRequest", "ServerIdRequest", "SendCommandRequest"},
         log' = IF m.type = "ServerIdRequest" THEN log ELSE Append(log, m.cmd),
         IF IsClientRequest(m)
         THEN /\ DOMAIN cache' = DOMAIN cache \cup {m.uid}
              /\ IsOutputOf(m, cache'[m.uid].val, log')
              /\ \A u \in DOMAIN cache \ {m.uid} : cache'[u] = cache[u]
         ELSE cache' = cache,
         \A r \in RangeOf(s2c') : r.type = "Reply" => r \in RangeOf(s2c),
         UNCHANGED <<removed, c2s, created, nextuid, request>>
  PROVE  RunInv'
  <1>1. m \in Requests /\ Requests' \subseteq Requests
    BY DEF Requests, IsClientRequest, RangeOf
  <1>2. m.cmd \in Nat /\ m.uid \in Int /\ log \in Seq(Nat) /\ created \in Nat /\ nextuid \in Nat
    BY MessageTypes DEF TypeInv, TypeOK
  <1>3. Known' = IF IsClientRequest(m) THEN Known \cup {m.uid} ELSE Known
    BY DEF Known
  <1>4. m.uid \notin Known
    BY DEF RunInv, KnownInv
  <1>5. m.type # "ServerIdRequest" => m.cmd \notin RangeOf(log)
    BY <1>1, <1>4 DEF RunInv, KnownInv, SendOnceInv
  <1>6. m.type # "ServerIdRequest" => RangeOf(log') = RangeOf(log) \cup {m.cmd}
    BY <1>2, RangeAppend
  <1>7. m.type = "ServerIdRequest" => log' = log
    OBVIOUS
  <1>8. \A n \in Requests : n.cmd = m.cmd => n = m
    BY <1>1 DEF RunInv, NumberInv
  <1>9. NumberInv'
    <2>1. m.cmd < created /\ (IsClientRequest(m) => m.uid < nextuid)
      BY <1>1, <1>2 DEF RunInv, NumberInv
    <2>2. \A c \in RangeOf(log') : c < created
      BY <1>6, <1>7, <2>1 DEF RunInv, NumberInv, RangeOf
    <2>3. \A i \in 1 .. Len(log') : log'[i] < created'
      BY <2>2 DEF RangeOf
    <2>4. \A u \in Known' : u < nextuid'
      BY <1>3, <2>1 DEF RunInv, NumberInv
    <2>5. QED
      BY <1>1, <2>3, <2>4 DEF RunInv, NumberInv, IsClientRequest
  <1>10. KnownInv'
    <2>1. ASSUME NEW n \in Requests', n.type = "ExecCommandRequest", n.cmd \in RangeOf(log')
          PROVE  n.uid \in Known'
      <3>1. CASE n.cmd = m.cmd
        BY <1>1, <1>3, <1>8, <2>1, <3>1 DEF IsClientRequest, ClientRequests
      <3>2. CASE n.cmd \in RangeOf(log)
        BY <1>1, <1>3, <2>1, <3>2 DEF RunInv, KnownInv
      <3>3. QED
        BY <1>6, <1>7, <2>1, <3>1, <3>2
    <2>2. QED
      BY <2>1 DEF KnownInv
  <1>11. SendOnceInv'
    <2>1. ASSUME NEW i \in 1 .. Len(c2s), c2s[i].type = "SendCommandRequest"
          PROVE  c2s[i].cmd \notin RangeOf(log')
      <3>1. c2s[i] \in Requests
        BY <2>1 DEF Requests, RangeOf
      <3>2. c2s[i] # m /\ c2s[i].cmd \notin RangeOf(log)
        BY <2>1 DEF RunInv, SendOnceInv
      <3>3. QED
        BY <1>6, <1>7, <1>8, <3>1, <3>2
    <2>2. QED
      BY <2>1 DEF RunInv, SendOnceInv, RangeOf
  <1>12. AtMostOnce'
    <2>1. CASE m.type = "ServerIdRequest"
      BY <1>7, <2>1 DEF RunInv, AtMostOnce
    <2>2. CASE m.type # "ServerIdRequest"
      <3>1. /\ Len(log') = Len(log) + 1
            /\ \A i \in 1 .. Len(log) : log'[i] = log[i] /\ log[i] # m.cmd
            /\ log'[Len(log) + 1] = m.cmd
            /\ Len(log) \in Nat
        BY <1>2, <1>5, <2>2 DEF RangeOf
      <3>2. ASSUME NEW i \in 1 .. Len(log'), NEW j \in 1 .. Len(log'), log'[i] = log'[j]
            PROVE  i = j
        <4>1. CASE i \in 1 .. Len(log) /\ j \in 1 .. Len(log)
          BY <3>1, <3>2, <4>1 DEF RunInv, AtMostOnce
        <4>2. CASE i = Len(log) + 1 \/ j = Len(log) + 1
          BY <3>1, <3>2, <4>2
        <4>3. QED
          BY <3>1, <4>1, <4>2
      <3>3. QED
        BY <3>2 DEF AtMostOnce
    <2>3. QED
      BY <2>1, <2>2
  <1>13. ReplyInv'
    <2>1. \A n, v : IsOutputOf(n, v, log) => IsOutputOf(n, v, log')
      BY <1>2, OutputStable
    <2> SUFFICES ASSUME NEW n \in Requests', IsClientRequest(n)
                 PROVE  /\ n.uid \in DOMAIN cache' => IsOutputOf(n, cache'[n.uid].val, log')
                        /\ \A r \in RangeOf(s2c') : r.type = "Reply" /\ r.uid = n.uid =>
                              IsOutputOf(n, r.val, log')
      BY DEF ReplyInv, IsClientRequest
    <2>2. n \in Requests
      BY <1>1
    <2>3. \A r \in RangeOf(s2c') : r.type = "Reply" /\ r.uid = n.uid =>
             IsOutputOf(n, r.val, log')
      BY <2>1, <2>2 DEF RunInv, ReplyInv
    <2>4. n.uid \in DOMAIN cache => IsOutputOf(n, cache[n.uid].val, log')
      BY <2>1, <2>2 DEF RunInv, ReplyInv
    <2>5. CASE IsClientRequest(m) /\ n.uid = m.uid
      <3>1. n = m
        BY <1>1, <2>2, <2>5 DEF RunInv, NumberInv
      <3>2. QED
        BY <2>3, <2>5, <3>1
    <2>6. CASE ~(IsClientRequest(m) /\ n.uid = m.uid)
      BY <2>3, <2>4, <2>6
    <2>7. QED
      BY <2>5, <2>6
  <1>14. ReplyNumberInv'
    BY DEF RunInv, ReplyNumberInv
  <1>15. QED
    BY <1>9, <1>10, <1>11, <1>12, <1>13, <1>14 DEF RunInv

LEMMA RunInit == Init => RunInv
  BY DEF Init, RunInv, NumberInv, KnownInv, SendOnceInv, AtMostOnce, ReplyInv,
     ReplyNumberInv, Requests, Known, IsClientRequest, ClientRequests, Request,
     RangeOf, StartUid, IsOutputOf

\* A step of the client other than a new call, of a timer or of the
\* environment: a message, if any, is put behind the others, one of s2c is
\* taken.
LEMMA QuietAppend ==
  ASSUME TypeInv, TypeInv', RunInv, NEW m \in ToServer, c2s' \in {c2s, Append(c2s, m)},
         m.type = "Ack" \/ (m = request /\ IsClientRequest(m)),
         RangeOf(s2c') \subseteq RangeOf(s2c),
         UNCHANGED <<created, nextuid, request, handling, cache, removed, due, log>>
  PROVE  RunInv'
  <1>1. m.type # "SendCommandRequest"
    BY DEF IsClientRequest, ClientRequests
  <1>2. SendOnceInv'
    BY <1>1, SendOnceAppend, SendOnceSame DEF RunInv
  <1>3. Requests' \subseteq Requests
    <2>1. CASE c2s' = c2s
      BY <2>1 DEF Requests, IsClientRequest, RangeOf
    <2>2. CASE c2s' = Append(c2s, m)
      <3>1. m.type # "Ack" => m \in Requests
        BY DEF Requests
      <3>2. QED
        BY <2>2, <3>1, RequestsAppend
    <2>3. QED
      BY <2>1, <2>2
  <1>4. created' >= created
    BY DEF TypeInv, TypeOK
  <1>5. Known' = Known
    BY DEF Known
  <1>6. /\ handling' # {} => due' = {}
        /\ \A n \in handling' : n.uid \notin Known
    BY DEF RunInv, KnownInv
  <1>7. QED
    BY <1>2, <1>3, <1>4, <1>5, <1>6, QuietStep

\* A step that takes a message of c2s, or nothing, and runs no command.
LEMMA QuietTail ==
  ASSUME TypeInv, TypeInv', RunInv,
         c2s' = c2s \/ (c2s # <<>> /\ c2s' = Tail(c2s)),
         \/ handling' = handling
         \/ handling' = {Read} /\ due' = {} /\ Read.uid \notin Known /\ Read.type # "Ack"
            /\ c2s' # c2s,
         handling # {} => due' = {},
         Known' = Known,
         \A u \in DOMAIN cache' : u \in DOMAIN cache /\ cache'[u].val = cache[u].val,
         \A r \in RangeOf(s2c') : r.type = "Reply" =>
             r \in RangeOf(s2c) \/ (r.uid \in DOMAIN cache /\ r.val = cache[r.uid].val),
         UNCHANGED <<created, nextuid, request, log>>
  PROVE  RunInv'
  <1>1. Requests' \subseteq Requests /\ SendOnceInv'
    <2>1. CASE c2s' = c2s
      BY <2>1, SendOnceSame DEF RunInv, Requests, IsClientRequest, RangeOf
    <2>2. CASE c2s # <<>> /\ c2s' = Tail(c2s)
      BY <2>2, RequestsTail, SendOnceTail DEF RunInv
    <2>3. QED
      BY <2>1, <2>2
  <1>2. created' >= created
    BY DEF TypeInv, TypeOK
  <1>3. /\ handling' # {} => due' = {}
        /\ \A n \in handling' : n.uid \notin Known
    BY DEF RunInv, KnownInv
  <1>4. QED
    BY <1>1, <1>2, <1>3, QuietStep

LEMMA RunNext == TypeInv /\ TypeInv' /\ RunInv /\ [Next]_vars => RunInv'
  <1> SUFFICES ASSUME TypeInv, TypeInv', RunInv, [Next]_vars PROVE RunInv'
    OBVIOUS
  <1>a. \A u \in Int : ClientAck(u) \in ToServer /\ ClientAck(u).type = "Ack"
    BY MessageTypes DEF ClientAck
  <1>b. s2c # <<>> => /\ Received \in ToClient /\ Received.uid \in Int
                      /\ RangeOf(Tail(s2c)) \subseteq RangeOf(s2c)
    BY SMTT(60), RangeTail, MessageTypes DEF TypeInv, TypeOK, Received
  <1>c. request \in ToServer /\ request \in ServerRequest
    BY MessageTypes DEF TypeInv, TypeOK
  <1>d. phase \notin {"start", "idle"} \/ nextuid > 0 => IsClientRequest(request)
    BY DEF TypeInv, CallInv, IsClientRequest
  <1>e. handling # {} => due = {}
    BY DEF RunInv, KnownInv
  \* The client, its timers and the environment.
  <1>f. ASSUME UNCHANGED <<c2s, created, nextuid, request, handling, cache, removed, due, log>>,
               RangeOf(s2c') \subseteq RangeOf(s2c)
        PROVE  RunInv'
    BY <1>a, <1>f, QuietAppend
  <1>g. ASSUME NEW u \in Int, c2s' = Append(c2s, ClientAck(u)), RangeOf(s2c') \subseteq RangeOf(s2c),
               UNCHANGED <<created, nextuid, request, handling, cache, removed, due, log>>
        PROVE  RunInv'
    BY <1>a, <1>g, QuietAppend
  <1>h. ASSUME IsClientRequest(request), c2s' = Append(c2s, request), s2c' = s2c,
               UNCHANGED <<created, nextuid, request, handling, cache, removed, due, log>>
        PROVE  RunInv'
    BY <1>c, <1>h, QuietAppend DEF RangeOf
  <1>1. CASE UNCHANGED vars
    BY <1>1, <1>f DEF vars, clientVars, serverVars, faultVars, RangeOf
  <1>2. CASE ServerIdReceived
    BY <1>2, <1>b, <1>g DEF ServerIdReceived, Received, serverVars
  <1>3. CASE StartTimeout \/ LastTry \/ ReplyTimeout \/ FinalTimeout
    BY <1>3, <1>f DEF StartTimeout, LastTry, ReplyTimeout, FinalTimeout, serverVars, RangeOf
  <1>4. ASSUME NEW t \in ClientRequests, Call(t) PROVE RunInv'
    <2>1. /\ request' = Request(t, nextuid, created) /\ request' \in ServerRequest
          /\ request'.cmd = created /\ request'.uid = nextuid /\ IsClientRequest(request')
      <3>1. nextuid \in Int /\ created \in Nat /\ t \in RequestTypes
        BY SMTT(60) DEF TypeInv, TypeOK, ClientRequests, RequestTypes
      <3>2. QED
        BY <1>4, <3>1, MessageTypes DEF Call, Request, IsClientRequest
    <2>2. QED
      BY <1>4, <2>1, NewRequest DEF Call, serverVars, RangeOf
  <1>5. CASE Resend
    BY <1>5, <1>d, <1>h DEF Resend, ResendIn, serverVars
  <1>6. CASE ReceiveFatal \/ ReceiveAck
    BY <1>6, <1>b, <1>f DEF ReceiveFatal, ReceiveAck, Receive, serverVars
  <1>7. CASE ReceiveOther
    BY <1>7, <1>b, <1>f, <1>g DEF ReceiveOther, Receive, serverVars
  <1>8. ASSUME NEW t \in {"SendCommandRequest", "ExitRequest"}, created' = created + 1,
               c2s' = Append(c2s, Request(t, CreatedUid, created)),
               RangeOf(s2c') \subseteq RangeOf(s2c),
               UNCHANGED <<nextuid, request, handling, cache, removed, due, log>>
        PROVE  RunInv'
    <2>1. /\ Request(t, CreatedUid, created) \in ServerRequest
          /\ Request(t, CreatedUid, created).cmd = created
          /\ ~IsClientRequest(Request(t, CreatedUid, created))
      <3>1. created \in Nat /\ t \in RequestTypes
        BY SMTT(60) DEF TypeInv, TypeOK, RequestTypes
      <3>2. QED
        BY <3>1, MessageTypes DEF Request, CreatedUid, IsClientRequest, ClientRequests
    <2>2. QED
      BY <1>8, <2>1, NewRequest
  <1>9. CASE ReceiveAckAsReply
    BY <1>9, <1>8, <1>b, <1>f DEF ReceiveAckAsReply, Receive, serverVars
  <1>10. CASE ReceiveReply
    BY <1>10, <1>b, <1>g DEF ReceiveReply, Receive, serverVars
  <1>11. CASE SendCommand \/ Exit
    BY <1>11, <1>8 DEF SendCommand, Exit, serverVars, RangeOf
  <1>12. CASE LoseToClient
    BY <1>12, <1>b, <1>f DEF LoseToClient, serverVars, clientVars
  <1>13. CASE Duplicate
    BY <1>13, <1>d, <1>h DEF Duplicate, serverVars, clientVars
  \* The server.
  <1>14. CASE LoseToServer \/ ReadByInterpreter
    BY <1>14, <1>e, QuietTail DEF LoseToServer, ReadByInterpreter, serverVars, clientVars, Known
  <1>15. CASE HandleAck
    <2>1. /\ Known' = Known
          /\ \A u \in DOMAIN cache' : u \in DOMAIN cache /\ cache'[u] = cache[u]
      BY <1>15 DEF HandleAck, Remove, Known
    <2>2. QED
      BY <1>15, <1>e, <2>1, QuietTail DEF HandleAck, clientVars
  <1>i. c2s # <<>> => \A r \in RangeOf(Acked) : r.type = "Reply" => r \in RangeOf(s2c)
    <2> SUFFICES ASSUME c2s # <<>>
                 PROVE  \A r \in RangeOf(Acked) : r.type = "Reply" => r \in RangeOf(s2c)
      OBVIOUS
    <2>1. Read.uid \in Int
      BY SMTT(60), MessageTypes DEF TypeInv, TypeOK, Read
    <2>2. ServerAck(Read.uid) \in ToClient /\ ServerAck(Read.uid).type = "Ack"
      BY <2>1, MessageTypes DEF ServerAck
    <2>3. QED
      BY SMTT(60), <2>2, RangeAppend DEF TypeInv, TypeOK, Acked
  <1>j. c2s # <<>> => Acked \in Seq(ToClient)
    <2>1. c2s # <<>> => ServerAck(Read.uid) \in ToClient
      BY SMTT(60), MessageTypes DEF TypeInv, TypeOK, Read
    <2>2. QED
      BY <2>1 DEF TypeInv, TypeOK, Acked
  <1>k. ASSUME ReadRequest,
               \A r \in RangeOf(s2c') : r.type = "Reply" =>
                  r \in RangeOf(s2c) \/ (r.uid \in DOMAIN cache /\ r.val = cache[r.uid].val),
               handling' = handling \/ (handling' = {Read} /\ Read.uid \notin Known)
        PROVE  RunInv'
    <2>1. /\ c2s # <<>> /\ c2s' = Tail(c2s) /\ due' = {} /\ Read.type # "Ack"
          /\ Known' = Known /\ cache' = cache
          /\ UNCHANGED <<created, nextuid, request, log>>
      BY <1>k DEF ReadRequest, Idle, Known, clientVars
    <2>2. c2s' # c2s
      <3>1. Len(c2s') = Len(c2s) - 1 /\ Len(c2s) \in Nat
        BY <2>1 DEF TypeInv, TypeOK
      <3>2. QED
        BY <3>1
    <2>3. QED
      BY <1>k, <2>1, <2>2, QuietTail
  <1>16. CASE ReplyCached
    <2>1. c2s # <<>> /\ Read.uid \in DOMAIN cache
      BY <1>16 DEF ReplyCached, ReadRequest, IsCached
    <2>2. DEFINE r == Reply(Read.uid, cache[Read.uid].val)
    <2>3. r \in ToClient /\ r.uid = Read.uid /\ r.val = cache[Read.uid].val
      BY <2>1, MessageTypes DEF TypeInv, TypeOK, Reply
    <2>4. RangeOf(s2c') = RangeOf(Acked) \cup {r}
      BY <1>16, <1>j, <2>1, <2>3, RangeAppend DEF ReplyCached
    <2>5. QED
      BY <1>16, <1>i, <1>k, <2>1, <2>3, <2>4 DEF ReplyCached
  <1>l. FatalPythonErrorReply \in ToClient /\ FatalPythonErrorReply.type # "Reply"
    BY MessageTypes DEF FatalPythonErrorReply
  <1>17. CASE FailRequest
    <2>1. c2s # <<>>
      BY <1>17 DEF FailRequest, ReadRequest
    <2>2. RangeOf(s2c') = RangeOf(Acked) \cup {FatalPythonErrorReply}
      BY <1>17, <1>j, <1>l, <2>1, RangeAppend DEF FailRequest
    <2>3. QED
      BY <1>17, <1>i, <1>k, <1>l, <2>1, <2>2 DEF FailRequest
  <1>18. CASE TakeRequest
    <2>1. c2s # <<>> /\ Read.uid \notin Known
      BY <1>18 DEF TakeRequest, ReadRequest, IsNew, IsCached, IsRemoved, Known
    <2>2. QED
      BY <1>18, <1>i, <1>k, <2>1 DEF TakeRequest
  <1>m. ASSUME NEW m \in handling, NEW v, PushReply(m.uid, v)
        PROVE  /\ DOMAIN cache' = DOMAIN cache \cup {m.uid}
               /\ cache'[m.uid].val = v
               /\ \A u \in DOMAIN cache \ {m.uid} : cache'[u] = cache[u]
    BY <1>m DEF PushReply, FreshCache
  <1>19. CASE HandleExecCommand
    <2>1. PICK m \in handling : HandleExecCommand!(m)
      BY <1>19 DEF HandleExecCommand
    <2>2. m.cmd \in Nat /\ log \in Seq(Nat)
      BY MessageTypes DEF TypeInv, TypeOK
    <2>3. IsOutputOf(m, Len(log'), log')
      BY <2>1, <2>2 DEF IsOutputOf
    <2>4. IsClientRequest(m)
      BY <2>1 DEF IsClientRequest, ClientRequests
    <2>5. QED
      BY <1>m, <2>1, <2>3, <2>4, HandleStep DEF clientVars, RangeOf
  <1>20. CASE HandleServerId
    <2>1. PICK m \in handling : HandleServerId!(m)
      BY <1>20 DEF HandleServerId
    <2>2. IsOutputOf(m, 0, log')
      BY <2>1 DEF IsOutputOf
    <2>3. IsClientRequest(m)
      BY <2>1 DEF IsClientRequest, ClientRequests
    <2>4. QED
      BY <1>m, <2>1, <2>2, <2>3, HandleStep DEF clientVars, RangeOf
  <1>21. CASE HandleSendCommand
    <2>1. PICK m \in handling, ok \in BOOLEAN : HandleSendCommand!(m, ok)
      BY <1>21 DEF HandleSendCommand
    <2>2. ~IsClientRequest(m)
      BY <2>1 DEF IsClientRequest, ClientRequests
    <2>3. \A r \in RangeOf(s2c') : r.type = "Reply" => r \in RangeOf(s2c)
      BY <1>l, <2>1, RangeAppend DEF TypeInv, TypeOK
    <2>4. QED
      BY <2>1, <2>2, <2>3, HandleStep DEF clientVars
  <1>22. CASE Expire
    <2>1. handling = {}
      BY <1>22 DEF Expire, Idle
    <2>2. QED
      BY <1>22, <2>1, QuietTail DEF Expire, clientVars, Known, RangeOf
  <1>23. CASE SendExpired
    <2>1. PICK u \in due : SendExpired!(u)
      BY <1>23 DEF SendExpired
    <2>2. handling = {}
      BY <1>e
    <2>3. u \in DOMAIN cache
      BY DEF TypeInv, TypeOK
    <2>4. CASE cache[u].left > 0
      <3>1. /\ DOMAIN cache' = DOMAIN cache
            /\ \A w \in DOMAIN cache : cache'[w].val = cache[w].val
        <4>1. cache' = [cache EXCEPT ![u].left = @ - 1]
          BY SMTT(60), <2>1, <2>4
        <4>2. cache \in [DOMAIN cache -> [val : Nat, left : 0 .. Tries]]
          BY SMTT(60) DEF TypeInv, TypeOK
        <4>3. QED
          BY SMTT(60), <2>3, <4>1, <4>2
      <3>2. DEFINE r == Reply(u, cache[u].val)
      <3>3. r \in ToClient /\ r.uid = u /\ r.val = cache[u].val
        BY <2>3, MessageTypes DEF TypeInv, TypeOK, Reply
      <3>4. RangeOf(s2c') = RangeOf(s2c) \cup {r}
        <4>1. s2c' = Append(s2c, r) /\ s2c \in Seq(ToClient)
          BY <2>1, <2>4 DEF TypeInv, TypeOK
        <4> HIDE DEF r
        <4>2. QED
          BY <3>3, <4>1, RangeAppend
      <3>5. QED
        BY <2>1, <2>2, <2>3, <2>4, <3>1, <3>3, <3>4, QuietTail DEF clientVars, Known
    <2>5. CASE ~(cache[u].left > 0)
      <3>1. /\ Known' = Known
            /\ \A w \in DOMAIN cache' : w \in DOMAIN cache /\ cache'[w] = cache[w]
        BY <2>1, <2>3, <2>5 DEF GiveUp, Remove, Known
      <3>2. QED
        BY <2>1, <2>2, <2>5, <3>1, QuietTail DEF clientVars, RangeOf
    <2>6. QED
      BY <2>4, <2>5
  <1>24. QED
    BY <1>1, <1>2, <1>3, <1>4, <1>5, <1>6, <1>7, <1>9, <1>10, <1>11, <1>12, <1>13, <1>14,
       <1>15, <1>16, <1>17, <1>18, <1>19, <1>20, <1>21, <1>22, <1>23
       DEF Next, User, ExecCommand, GetServerId, ClientTimer, ClientReceive, Server,
           Environment, ClientRequests

\* In every reachable state the commands, the requests and the replies agree.
LEMMA RunCorrect == Spec => [](TypeInv /\ RunInv)
  <1>1. Init => TypeInv /\ RunInv
    BY TypeInit, RunInit
  <1>2. TypeInv /\ RunInv /\ [Next]_vars => TypeInv' /\ RunInv'
    BY TypeNext, RunNext
  <1>3. QED
    BY <1>1, <1>2, PTL DEF Spec

\* No command is run twice: MsgCaches answers a request sent again, or fails
\* the server, whatever is lost, repeated or sent again by the user.
THEOREM RunAtMostOnce == Spec => []AtMostOnce
  <1>1. RunInv => AtMostOnce
    BY DEF RunInv
  <1>2. QED
    BY <1>1, RunCorrect, PTL

-----------------------------------------------------------------------------
(* The calls.                                                               *)

\* Which requests a step can add.
LEMMA StepRequests ==
  ASSUME TypeInv, [Next]_vars
  PROVE  \A m \in Requests' :
            \/ m \in Requests
            \/ m.type = "ExitRequest"
            \/ m.cmd = created /\ created \in Cmds /\ outcome'[created] \in {"running", "sent"}
  <1> DEFINE Old(m) == \/ m \in Requests
                       \/ m.type = "ExitRequest"
                       \/ m.cmd = created /\ created \in Cmds
                             /\ outcome'[created] \in {"running", "sent"}
  <1> SUFFICES \A m \in Requests' : Old(m)
    OBVIOUS
  <1>a. \A u \in Int : ClientAck(u) \in ToServer /\ ClientAck(u).type = "Ack"
    BY MessageTypes DEF ClientAck
  <1>b. ASSUME UNCHANGED <<c2s, request>>, handling' \subseteq handling
        PROVE  Requests' \subseteq Requests
    BY <1>b DEF Requests, IsClientRequest, RangeOf
  <1>c. ASSUME NEW u \in Int, c2s' = Append(c2s, ClientAck(u)), UNCHANGED <<handling, request>>
        PROVE  Requests' \subseteq Requests
    BY <1>a, <1>c, RequestsAppend
  <1>d. ASSUME c2s' = Append(c2s, request), UNCHANGED <<handling, request>>,
               IsClientRequest(request)
        PROVE  Requests' \subseteq Requests
    BY <1>d, MessageTypes, RequestsAppend DEF TypeInv, TypeOK, Requests
  <1>e. s2c # <<>> => Received.uid \in Int
    BY MessageTypes DEF TypeInv, TypeOK, Received
  <1>f. phase \notin {"start", "idle"} \/ nextuid > 0 => IsClientRequest(request)
    BY DEF TypeInv, CallInv, IsClientRequest
  <1>g. created \in Nat /\ nextuid \in Nat
    BY DEF TypeInv, TypeOK
  <1>h. ASSUME created < MaxCmds PROVE created \in Cmds
    BY <1>g, <1>h, ConstantsAssumption DEF ConstantsAssumption, Cmds
  <1>1. CASE UNCHANGED vars
    BY <1>1, <1>b DEF vars, clientVars, serverVars
  <1>2. CASE ServerIdReceived
    BY <1>2, <1>c, <1>e DEF ServerIdReceived, Received, serverVars
  <1>3. CASE StartTimeout \/ LastTry \/ ReplyTimeout \/ FinalTimeout
    BY <1>3, <1>b DEF StartTimeout, LastTry, ReplyTimeout, FinalTimeout, serverVars
  <1>4. ASSUME NEW t \in ClientRequests, Call(t) PROVE \A m \in Requests' : Old(m)
    <2>1. request' \in ToServer /\ request'.cmd = created /\ created \in Cmds
      BY <1>4, <1>g, <1>h, MessageTypes DEF Call, Request, ClientRequests, RequestTypes
    <2>2. outcome'[created] = "running"
      BY <1>4, <2>1 DEF Call, TypeInv, TypeOK
    <2>3. RangeOf(c2s') = RangeOf(c2s) \cup {request'} /\ handling' = handling
      BY <1>4, <2>1, RangeAppend DEF Call, TypeInv, TypeOK, serverVars
    <2>4. Requests' \subseteq Requests \cup {request'}
      BY <2>3 DEF Requests, IsClientRequest, RangeOf
    <2>5. QED
      BY <2>1, <2>2, <2>4
  <1>5. CASE Resend
    BY <1>5, <1>d, <1>f DEF Resend, ResendIn, serverVars
  <1>6. CASE ReceiveFatal \/ ReceiveAck
    BY <1>6, <1>b DEF ReceiveFatal, ReceiveAck, Receive, serverVars
  <1>7. CASE ReceiveOther
    BY <1>7, <1>b, <1>c, <1>e DEF ReceiveOther, Receive, serverVars
  <1>8. ASSUME NEW t \in {"SendCommandRequest", "ExitRequest"},
               c2s' = Append(c2s, Request(t, CreatedUid, created)),
               t = "SendCommandRequest" =>
                  created \in Cmds /\ outcome'[created] \in {"running", "sent"},
               UNCHANGED <<request, handling>>
        PROVE  \A m \in Requests' : Old(m)
    <2> DEFINE m == Request(t, CreatedUid, created)
    <2>1. m \in ToServer /\ m.cmd = created /\ m.type = t
      BY <1>g, MessageTypes DEF Request, CreatedUid, RequestTypes
    <2>2. Requests' \subseteq Requests \cup {m}
      BY <1>8, <2>1, RequestsAppend
    <2>3. Old(m)
      BY <1>8, <2>1
    <2> HIDE DEF m
    <2>4. QED
      BY <2>2, <2>3
  <1>9. CASE ReceiveAckAsReply
    BY <1>9, <1>b, <1>8 DEF ReceiveAckAsReply, Receive, serverVars
  <1>10. CASE ReceiveReply
    BY <1>10, <1>c, <1>e DEF ReceiveReply, Receive, serverVars
  <1>11. CASE SendCommand
    <2>1. created \in Cmds /\ outcome'[created] = "sent"
      BY <1>11, <1>h DEF SendCommand, TypeInv, TypeOK
    <2>2. QED
      BY <1>11, <1>8, <2>1 DEF SendCommand, serverVars
  <1>12. CASE Exit
    BY <1>12, <1>8 DEF Exit, serverVars
  <1>13. CASE LoseToClient
    BY <1>13, <1>b DEF LoseToClient, serverVars, clientVars
  <1>14. CASE Duplicate
    BY <1>14, <1>d, <1>f DEF Duplicate, serverVars, clientVars
  <1>15. CASE LoseToServer \/ ReadByInterpreter \/ HandleAck
    BY <1>15, RequestsTail DEF LoseToServer, ReadByInterpreter, HandleAck, serverVars, clientVars
  <1>16. CASE ReplyCached \/ FailRequest \/ TakeRequest
    BY <1>16, RequestsTail DEF ReplyCached, FailRequest, TakeRequest, ReadRequest, clientVars
  <1>17. CASE HandleExecCommand \/ HandleServerId \/ HandleSendCommand
    BY <1>17, <1>b DEF HandleExecCommand, HandleServerId, HandleSendCommand, clientVars
  <1>18. CASE Expire \/ SendExpired
    BY <1>18, <1>b DEF Expire, SendExpired, clientVars
  <1>19. QED
    BY <1>1, <1>2, <1>3, <1>4, <1>5, <1>6, <1>7, <1>9, <1>10, <1>11, <1>12, <1>13, <1>14,
       <1>15, <1>16, <1>17, <1>18
       DEF Next, User, ExecCommand, GetServerId, ClientTimer, ClientReceive, Server,
           Environment, ClientRequests

\* How a step changes the calls: it starts one, ends one, or leaves them alone.
Starts(how) ==
    /\ phase = "idle" /\ created \in Cmds
    /\ outcome' = [outcome EXCEPT ![created] = how]
    /\ created' = created + 1
    /\ how = "running" => phase' = "attempt" /\ request'.cmd = created
    /\ how = "sent" => UNCHANGED <<phase, request>>
    /\ UNCHANGED <<value, log>>

Ends(how) ==
    /\ Calling /\ phase' = "idle"
    /\ outcome' = [outcome EXCEPT ![request.cmd] = how]
    /\ created' \in {created, created + 1}
    /\ UNCHANGED <<request, log>>
    /\ how # "returned" => UNCHANGED value

Waits ==
    /\ Calling' = Calling
    /\ created' \in {created, created + 1}
    /\ UNCHANGED <<request, outcome, value>>

LEMMA StepCalls ==
  ASSUME TypeInv, [Next]_vars
  PROVE  \/ Starts("running") \/ Starts("sent")
         \/ \E how \in {"timeout", "broken", "fatal", "unexpected"} : Ends(how)
         \/ Ends("returned") /\ ReceiveReply
         \/ Waits /\ log' = log
         \/ Waits /\ (HandleExecCommand \/ HandleSendCommand)
  <1>a. created < MaxCmds => created \in Cmds
    BY SMTT(60), ConstantsAssumption DEF ConstantsAssumption, Cmds, TypeInv, TypeOK
  <1>1. CASE UNCHANGED vars
    BY <1>1 DEF vars, clientVars, serverVars, Waits, Calling
  <1>2. CASE ServerIdReceived \/ StartTimeout \/ Resend \/ LastTry
    BY <1>2 DEF ServerIdReceived, StartTimeout, Resend, ResendIn, LastTry, serverVars, Waits,
       Calling
  <1>3. ASSUME NEW t \in ClientRequests, Call(t) PROVE Starts("running")
    BY <1>3, <1>a DEF Call, Request, Starts, serverVars
  <1>4. CASE SendCommand
    BY <1>4, <1>a DEF SendCommand, Starts, serverVars
  <1>5. CASE ReplyTimeout
    BY <1>5 DEF ReplyTimeout, EndCall, Ends, Calling, serverVars
  <1>6. CASE FinalTimeout
    BY <1>6 DEF FinalTimeout, EndCall, Ends, Calling, serverVars
  <1>7. CASE ReceiveFatal
    BY <1>7 DEF ReceiveFatal, Receive, EndCall, Ends, Calling, serverVars
  <1>8. CASE ReceiveAckAsReply
    BY <1>8 DEF ReceiveAckAsReply, Receive, EndCall, Ends, Calling, serverVars
  <1>9. CASE ReceiveReply
    BY <1>9 DEF ReceiveReply, Receive, EndCall, Ends, Calling, serverVars
  <1>10. CASE ReceiveOther \/ ReceiveAck \/ Exit
    BY <1>10 DEF ReceiveOther, ReceiveAck, Receive, Exit, Waits, Calling, serverVars
  <1>11. CASE \/ LoseToServer \/ LoseToClient \/ Duplicate \/ ReadByInterpreter \/ HandleAck
              \/ ReplyCached \/ FailRequest \/ TakeRequest
    BY <1>11 DEF LoseToServer, LoseToClient, Duplicate, ReadByInterpreter, HandleAck,
       ReplyCached, FailRequest, TakeRequest, ReadRequest, Waits, Calling, clientVars, serverVars
  <1>12. CASE HandleServerId \/ Expire \/ SendExpired
    BY <1>12 DEF HandleServerId, Expire, SendExpired, Waits, Calling, clientVars
  <1>13. CASE HandleExecCommand \/ HandleSendCommand
    BY <1>13 DEF HandleExecCommand, HandleSendCommand, Waits, Calling, clientVars
  <1>14. QED
    BY <1>1, <1>2, <1>3, <1>4, <1>5, <1>6, <1>7, <1>8, <1>9, <1>10, <1>11, <1>12, <1>13
       DEF Next, User, ExecCommand, GetServerId, ClientTimer, ClientReceive, Server,
           Environment, ClientRequests

LEMMA OutcomeInit == Init => OutcomeInv
  BY DEF Init, OutcomeInv, Requests, IsClientRequest, ClientRequests, Request, RangeOf

LEMMA OutcomeNext == TypeInv /\ TypeInv' /\ RunInv /\ OutcomeInv /\ [Next]_vars => OutcomeInv'
  <1> SUFFICES ASSUME TypeInv, TypeInv', RunInv, OutcomeInv, [Next]_vars PROVE OutcomeInv'
    OBVIOUS
  <1>a. /\ created \in Nat /\ outcome \in [Cmds -> Outcomes]
        /\ \A c \in Cmds : c \in Int
        /\ Calling => request.cmd \in Cmds
    BY DEF TypeInv, TypeOK, CallInv, Cmds, Calling
  <1>b. /\ Calling => outcome[request.cmd] = "running"
        /\ \A c \in Cmds : outcome[c] = "running" => Calling /\ request.cmd = c
        /\ \A c \in Cmds : c >= created => outcome[c] = "none"
        /\ \A m \in Requests : m.type # "ExitRequest" => m.cmd \in Cmds /\ outcome[m.cmd] # "none"
    BY DEF OutcomeInv, Calling
  \* It is enough that no call is forgotten.
  <1>c. ASSUME Calling' => outcome'[request'.cmd] = "running",
               \A c \in Cmds : outcome'[c] = "running" => Calling' /\ request'.cmd = c,
               \A c \in Cmds : c >= created' => outcome'[c] = "none",
               \A c \in Cmds : outcome[c] # "none" => outcome'[c] # "none"
        PROVE  OutcomeInv'
    <2>1. ASSUME NEW m \in Requests', m.type # "ExitRequest"
          PROVE  m.cmd \in Cmds /\ outcome'[m.cmd] # "none"
      <3>1. CASE m \in Requests
        BY <1>b, <1>c, <2>1, <3>1
      <3>2. CASE m.cmd = created /\ created \in Cmds /\ outcome'[created] \in {"running", "sent"}
        BY <3>2
      <3>3. QED
        BY <2>1, <3>1, <3>2, StepRequests
    <2>2. QED
      BY <1>c, <2>1 DEF OutcomeInv, Calling
  <1>1. CASE Starts("running")
    <2>1. /\ outcome'[created] = "running" /\ created' = created + 1 /\ ~Calling /\ Calling'
          /\ request'.cmd = created /\ created \in Cmds
          /\ \A c \in Cmds \ {created} : outcome'[c] = outcome[c]
      BY <1>1, <1>a DEF Starts, Calling
    <2>2. QED
      BY <1>a, <1>b, <1>c, <2>1
  <1>2. CASE Starts("sent")
    <2>1. /\ outcome'[created] = "sent" /\ created' = created + 1 /\ ~Calling /\ ~Calling'
          /\ created \in Cmds
          /\ \A c \in Cmds \ {created} : outcome'[c] = outcome[c]
      BY <1>2, <1>a DEF Starts, Calling
    <2>2. QED
      BY <1>a, <1>b, <1>c, <2>1
  <1>3. ASSUME NEW how \in {"timeout", "broken", "fatal", "unexpected", "returned"}, Ends(how)
        PROVE  OutcomeInv'
    <2>1. /\ outcome'[request.cmd] = how /\ Calling /\ ~Calling'
          /\ created' \in {created, created + 1}
          /\ \A c \in Cmds \ {request.cmd} : outcome'[c] = outcome[c]
      BY <1>3, <1>a DEF Ends, Calling
    <2>2. \A c \in Cmds : outcome'[c] # "running"
      BY <1>b, <2>1
    <2>3. \A c \in Cmds : c >= created' => outcome'[c] = "none"
      <3>1. ~(request.cmd >= created)
        BY <1>a, <1>b, <2>1
      <3>2. QED
        BY <1>a, <1>b, <2>1, <3>1
    <2>4. \A c \in Cmds : outcome[c] # "none" => outcome'[c] # "none"
      BY <2>1
    <2>5. QED
      BY <1>c, <2>1, <2>2, <2>3, <2>4
  <1>4. CASE Waits
    <2>1. /\ Calling' = Calling /\ UNCHANGED <<request, outcome>>
          /\ created' \in {created, created + 1}
      BY <1>4 DEF Waits
    <2>2. \A c \in Cmds : c >= created' => c >= created
      BY <1>a, <2>1
    <2>3. QED
      BY <1>b, <1>c, <2>1, <2>2
  <1>5. QED
    BY <1>1, <1>2, <1>3, <1>4, StepCalls

LEMMA OutcomeCorrect == Spec => [](TypeInv /\ RunInv /\ OutcomeInv)
  <1>1. Init => TypeInv /\ RunInv /\ OutcomeInv
    BY TypeInit, RunInit, OutcomeInit
  <1>2. TypeInv /\ RunInv /\ OutcomeInv /\ [Next]_vars => TypeInv' /\ RunInv' /\ OutcomeInv'
    BY TypeNext, RunNext, OutcomeNext
  <1>3. QED
    BY <1>1, <1>2, PTL DEF Spec

\* The reply that ends a call carries the output of the command of the call.
LEMMA ReturnedValue ==
  ASSUME TypeInv, RunInv, ReceiveReply
  PROVE  /\ request.cmd \in Cmds /\ Calling
         /\ value' = [value EXCEPT ![request.cmd] = Received.val]
         /\ IsOutputOf(request, Received.val, log)
         /\ log' = log /\ request' = request
  <1>1. /\ Calling /\ s2c # <<>> /\ Received.type = "Reply" /\ Received.uid = request.uid
        /\ value' = [value EXCEPT ![request.cmd] = Received.val]
        /\ log' = log /\ request' = request
    BY DEF ReceiveReply, Receive, Answers, Calling, serverVars
  <1>2. request.cmd \in Cmds /\ IsClientRequest(request)
    BY <1>1 DEF TypeInv, CallInv, Calling, IsClientRequest
  <1>3. request \in Requests /\ Received \in RangeOf(s2c)
    BY <1>1, <1>2, RangeTail DEF Requests, Received, TypeInv, TypeOK
  <1>4. QED
    BY <1>1, <1>2, <1>3 DEF RunInv, ReplyInv

\* exec_command returns the output of its own command only.
THEOREM ReturnsOwnOutput == Spec => OwnOutput
  <1> DEFINE Own == \A c \in Cmds :
         outcome[c] = "running" /\ outcome'[c] = "returned" =>
            IF request.type = "ExecCommandRequest"
            THEN value'[c] \in 1 .. Len(log) /\ log[value'[c]] = c
            ELSE value'[c] = 0
  <1>1. TypeInv /\ RunInv /\ OutcomeInv /\ [Next]_vars => [Own]_vars
    <2> SUFFICES ASSUME TypeInv, RunInv, OutcomeInv, [Next]_vars,
                        NEW c \in Cmds, outcome[c] = "running", outcome'[c] = "returned"
                 PROVE  IF request.type = "ExecCommandRequest"
                        THEN value'[c] \in 1 .. Len(log) /\ log[value'[c]] = c
                        ELSE value'[c] = 0
      OBVIOUS
    <2>1. c = request.cmd /\ outcome \in [Cmds -> Outcomes] /\ value \in [Cmds -> Nat]
      BY DEF OutcomeInv, TypeInv, TypeOK
    <2>2. ReceiveReply
      BY <2>1, StepCalls DEF Starts, Ends, Waits
    <2>3. QED
      BY <2>1, <2>2, ReturnedValue DEF IsOutputOf
  <1>2. QED
    BY <1>1, OutcomeCorrect, PTL DEF Spec, OwnOutput

LEMMA CallsRefine ==
  ASSUME TypeInv, TypeInv', RunInv, RunInv', OutcomeInv, [Next]_vars
  PROVE  [RC!Next]_RC!vars
  <1>a. /\ outcome \in [Cmds -> Outcomes] /\ outcome' \in [Cmds -> Outcomes]
        /\ value \in [Cmds -> Nat] /\ log \in Seq(Nat) /\ RC!Cmds = Cmds
    BY DEF TypeInv, TypeOK, RC!Cmds, Cmds
  <1>b. ASSUME NEW c \in Cmds, outcome' = [outcome EXCEPT ![c] = outcome'[c]]
        PROVE  Status' = [Status EXCEPT ![c] = Status'[c]]
    <2>1. \A d \in Cmds \ {c} : outcome'[d] = outcome[d]
      BY <1>a, <1>b
    <2>2. \A d \in Cmds \ {c} : Status'[d] = Status[d]
      BY <2>1 DEF Status
    <2>3. QED
      BY <2>2 DEF Status
  <1>1. ASSUME NEW how \in {"running", "sent"}, Starts(how) PROVE RC!Next
    <2>1. /\ created \in Cmds /\ outcome[created] = "none" /\ outcome'[created] = how
          /\ outcome' = [outcome EXCEPT ![created] = outcome'[created]]
      BY <1>1, <1>a DEF Starts, OutcomeInv, Cmds
    <2>2. Status[created] = "none" /\ Status'[created] = how
      BY <2>1 DEF Status
    <2>3. Status' = [Status EXCEPT ![created] = how]
      BY <1>b, <2>1, <2>2
    <2>4. RC!Start(created, how)
      BY <1>1, <2>2, <2>3 DEF Starts, RC!Start
    <2>5. QED
      BY <1>a, <2>1, <2>4 DEF RC!Next
  <1>2. ASSUME NEW how \in {"timeout", "broken", "fatal", "unexpected"}, Ends(how)
        PROVE  RC!Next
    <2> DEFINE c == request.cmd
    <2>1. c \in Cmds /\ outcome[c] = "running"
      BY <1>2 DEF Ends, Calling, TypeInv, CallInv, OutcomeInv
    <2>2. outcome'[c] = how /\ outcome' = [outcome EXCEPT ![c] = outcome'[c]]
      BY <1>2, <1>a, <2>1 DEF Ends
    <2>3. Status[c] = "running" /\ Status'[c] = "failed"
      BY <2>1, <2>2 DEF Status
    <2>4. Status' = [Status EXCEPT ![c] = "failed"]
      BY <1>b, <2>1, <2>2, <2>3
    <2>5. RC!Fail(c)
      BY <1>2, <2>3, <2>4 DEF Ends, RC!Fail
    <2>6. QED
      BY <1>a, <2>1, <2>5 DEF RC!Next
  <1>3. ASSUME Ends("returned"), ReceiveReply PROVE RC!Next
    <2> DEFINE c == request.cmd
               v == Received.val
    <2>1. /\ c \in Cmds /\ outcome[c] = "running"
          /\ value' = [value EXCEPT ![c] = v] /\ log' = log
          /\ IsOutputOf(request, v, log)
      BY <1>3, ReturnedValue DEF Calling, OutcomeInv
    <2>2. outcome'[c] = "returned" /\ outcome' = [outcome EXCEPT ![c] = outcome'[c]]
      BY <1>3, <1>a, <2>1 DEF Ends
    <2>3. Status[c] = "running" /\ Status'[c] = "returned"
      BY <2>1, <2>2 DEF Status
    <2>4. Status' = [Status EXCEPT ![c] = "returned"]
      BY <1>b, <2>1, <2>2, <2>3
    <2>5. v \in 0 .. Len(log) /\ (v # 0 => log[v] = c)
      BY <1>a, <2>1 DEF IsOutputOf
    <2> HIDE DEF c, v
    <2>6. RC!Return(c)
      BY <2>1, <2>3, <2>4, <2>5 DEF RC!Return
    <2>7. QED
      BY <1>a, <2>1, <2>6 DEF RC!Next
  <1>c. ASSUME Waits PROVE Status' = Status /\ value' = value
    BY <1>c DEF Waits, Status
  <1>4. ASSUME Waits, log' = log PROVE UNCHANGED RC!vars
    BY <1>4, <1>c DEF RC!vars
  <1>5. ASSUME Waits, HandleExecCommand \/ HandleSendCommand PROVE RC!Next
    <2>1. PICK m \in handling : m.type # "ServerIdRequest" /\ m.type # "ExitRequest"
                                /\ log' = Append(log, m.cmd)
      BY <1>5 DEF HandleExecCommand, HandleSendCommand
    <2>2. m \in Requests
      BY DEF Requests
    <2>3. m.cmd \in Cmds /\ outcome[m.cmd] # "none"
      BY <2>1, <2>2 DEF OutcomeInv
    <2>4. Status[m.cmd] # "none"
      BY <1>a, <2>3 DEF Status, Outcomes
    <2>5. \A i \in 1 .. Len(log) : log[i] # m.cmd
      <3>1. /\ Len(log') = Len(log) + 1 /\ log'[Len(log) + 1] = m.cmd
            /\ \A i \in 1 .. Len(log) : log'[i] = log[i]
            /\ Len(log) \in Nat
        BY <1>a, <2>1, <2>3 DEF Cmds
      <3>2. \A i \in 1 .. Len(log') : log'[i] = log'[Len(log) + 1] => i = Len(log) + 1
        BY <3>1 DEF RunInv, AtMostOnce
      <3>3. QED
        BY <3>1, <3>2
    <2>6. RC!Run(m.cmd)
      BY <1>5, <1>c, <2>1, <2>4, <2>5 DEF RC!Run
    <2>7. QED
      BY <1>a, <2>3, <2>6 DEF RC!Next
  <1>6. QED
    BY <1>1, <1>2, <1>3, <1>4, <1>5, StepCalls

\* The protocol keeps what RemoteCall promises to the user of the shell.
THEOREM ImplementsRemoteCall == Spec => RemoteCallSpec
  <1>1. Init => RC!Init
    BY DEF Init, RC!Init, RC!Cmds, Cmds, Status
  <1>2. TypeInv /\ RunInv /\ OutcomeInv /\ TypeInv' /\ RunInv' /\ OutcomeInv' /\ [Next]_vars
           => [RC!Next]_RC!vars
    BY CallsRefine
  <1>3. QED
    BY <1>1, <1>2, OutcomeCorrect, PTL DEF Spec, RemoteCallSpec, RC!Spec

-----------------------------------------------------------------------------
(* The uids of SendCommandRequest.                                          *)

\* What a step does with the messages to the server.
Sends == \E m \in ToServer :
    /\ c2s' = Append(c2s, m)
    /\ m.type \in OtherRequests => m.uid = created
    /\ handling' = handling /\ Known' = Known

Takes == /\ c2s # <<>> /\ c2s' = Tail(c2s)
         /\ handling' \in {handling, {Read}} /\ Known' = Known

Stays == /\ c2s' = c2s /\ handling' \subseteq handling
         /\ Known' \subseteq Known \cup {m.uid : m \in {n \in handling : IsClientRequest(n)}}

LEMMA StepStream ==
  ASSUME TypeInv, [Next]_vars
  PROVE  Sends \/ Takes \/ Stays
  <1>a. /\ \A u \in Int : ClientAck(u) \in ToServer /\ ClientAck(u).type = "Ack"
        /\ \A t \in RequestTypes, u \in Int, c \in Nat :
              /\ Request(t, u, c) \in ToServer
              /\ Request(t, u, c).type = t /\ Request(t, u, c).uid = u
    BY MessageTypes DEF ClientAck, Request
  <1>b. s2c # <<>> => Received.uid \in Int
    BY MessageTypes DEF TypeInv, TypeOK, Received
  <1>c. created \in Nat /\ nextuid \in Nat /\ request \in ToServer
    BY MessageTypes DEF TypeInv, TypeOK
  <1>d. phase \notin {"start", "idle"} \/ nextuid > 0 => request.type \notin OtherRequests
    BY DEF TypeInv, CallInv, ClientRequests, OtherRequests
  <1>e. UNCHANGED <<c2s, handling, cache, removed>> => Stays
    BY DEF Stays, Known
  <1>f. ASSUME NEW u \in Int, c2s' = Append(c2s, ClientAck(u)),
               UNCHANGED <<handling, cache, removed>>
        PROVE  Sends
    BY <1>a, <1>f DEF Sends, Known, OtherRequests
  <1>g. ASSUME NEW t \in OtherRequests,
               c2s' = Append(c2s, Request(t, CreatedUid, created)),
               UNCHANGED <<handling, cache, removed>>
        PROVE  Sends
    <2>1. /\ Request(t, created, created) \in ToServer
          /\ Request(t, created, created).uid = created
      BY <1>a, <1>c DEF RequestTypes, OtherRequests
    <2>2. QED
      BY <1>g, <2>1 DEF Sends, Known, CreatedUid
  <1>1. CASE UNCHANGED vars
    BY <1>1, <1>e DEF vars, serverVars
  <1>2. CASE ServerIdReceived
    BY <1>2, <1>b, <1>f DEF ServerIdReceived, Received, serverVars
  <1>3. CASE StartTimeout \/ LastTry \/ ReplyTimeout \/ FinalTimeout
    BY <1>3, <1>e DEF StartTimeout, LastTry, ReplyTimeout, FinalTimeout, serverVars
  <1>4. ASSUME NEW t \in ClientRequests, Call(t) PROVE Sends
    <2>1. request' \in ToServer /\ request'.type \notin OtherRequests
      BY <1>4, <1>a, <1>c DEF Call, ClientRequests, RequestTypes, OtherRequests
    <2>2. QED
      BY <1>4, <2>1 DEF Call, Sends, Known, serverVars
  <1>5. CASE Resend \/ Duplicate
    BY <1>5, <1>c, <1>d DEF Resend, ResendIn, Duplicate, Sends, Known, serverVars
  <1>6. CASE ReceiveFatal \/ ReceiveAck
    BY <1>6, <1>e DEF ReceiveFatal, ReceiveAck, Receive, serverVars
  <1>7. CASE ReceiveOther
    BY <1>7, <1>b, <1>e, <1>f DEF ReceiveOther, Receive, serverVars
  <1>8. CASE ReceiveAckAsReply
    BY <1>8, <1>e, <1>g DEF ReceiveAckAsReply, Receive, serverVars, OtherRequests
  <1>9. CASE ReceiveReply
    BY <1>9, <1>b, <1>f DEF ReceiveReply, Receive, serverVars
  <1>10. CASE SendCommand \/ Exit
    BY <1>10, <1>g DEF SendCommand, Exit, serverVars, OtherRequests
  <1>11. CASE LoseToServer \/ ReadByInterpreter
    BY <1>11 DEF LoseToServer, ReadByInterpreter, Takes, Known, serverVars
  <1>12. CASE HandleAck
    BY <1>12 DEF HandleAck, Remove, Takes, Known
  <1>13. CASE ReplyCached \/ FailRequest \/ TakeRequest
    BY <1>13 DEF ReplyCached, FailRequest, TakeRequest, ReadRequest, Takes, Known
  <1>14. CASE HandleExecCommand \/ HandleServerId
    <2>1. PICK m \in handling : /\ IsClientRequest(m) /\ handling' = {}
                                /\ \E v \in Nat : PushReply(m.uid, v)
                                /\ UNCHANGED <<c2s, removed>>
      <3>1. CASE HandleExecCommand
        <4>1. log \in Seq(Nat) /\ \A m \in handling : m.cmd \in Nat
          BY MessageTypes DEF TypeInv, TypeOK
        <4>2. PICK m \in handling : HandleExecCommand!(m)
          BY <3>1 DEF HandleExecCommand
        <4>3. Len(log') \in Nat
          BY <4>1, <4>2
        <4>4. QED
          BY <4>2, <4>3 DEF IsClientRequest, ClientRequests
      <3>2. CASE HandleServerId
        BY <3>2 DEF HandleServerId, IsClientRequest, ClientRequests
      <3>3. QED
        BY <1>14, <3>1, <3>2
    <2>2. DOMAIN cache' = DOMAIN cache \cup {m.uid}
      BY <2>1 DEF PushReply
    <2>3. QED
      BY <2>1, <2>2 DEF Stays, Known
  <1>15. CASE HandleSendCommand
    BY <1>15 DEF HandleSendCommand, Stays, Known
  <1>16. CASE Expire
    BY <1>16, <1>e DEF Expire
  <1>17. CASE SendExpired
    <2>1. PICK u \in due : SendExpired!(u)
      BY <1>17 DEF SendExpired
    <2>2. Known' = Known
      BY <2>1 DEF GiveUp, Remove, Known, TypeInv, TypeOK
    <2>3. QED
      BY <2>1, <2>2 DEF Stays, clientVars
  <1>18. CASE LoseToClient
    BY <1>18, <1>e DEF LoseToClient, serverVars
  <1>19. QED
    BY <1>1, <1>2, <1>3, <1>4, <1>5, <1>6, <1>7, <1>8, <1>9, <1>10, <1>11, <1>12, <1>13,
       <1>14, <1>15, <1>16, <1>17, <1>18
       DEF Next, User, ExecCommand, GetServerId, ClientTimer, ClientReceive, Server,
           Environment, ClientRequests

LEMMA SendOrderNext ==
  TypeInv /\ RunInv /\ SendOrderInv /\ [Next]_vars => SendOrderInv'
  <1> SUFFICES ASSUME TypeInv, RunInv, SendOrderInv, [Next]_vars PROVE SendOrderInv'
    OBVIOUS
  <1>a. /\ Len(c2s) \in Nat /\ created \in Nat /\ nextuid \in Nat /\ created >= nextuid
        /\ c2s \in Seq(ToServer)
    BY DEF TypeInv, TypeOK
  <1> DEFINE Smaller(u, s, i, h, k) ==
         /\ \A v \in k : v < u
         /\ \A m \in h : IsClientRequest(m) => m.uid < u
         /\ \A j \in 1 .. i - 1 : IsClientRequest(s[j]) => s[j].uid < u
  <1>b. \A i \in 1 .. Len(c2s) :
           c2s[i].type \in OtherRequests => Smaller(c2s[i].uid, c2s, i, handling, Known)
    BY DEF SendOrderInv
  <1>c. SUFFICES ASSUME NEW i \in 1 .. Len(c2s'), c2s'[i].type \in OtherRequests
                 PROVE  Smaller(c2s'[i].uid, c2s', i, handling', Known')
    BY DEF SendOrderInv, IsClientRequest
  <1>1. CASE Sends
    <2>1. PICK m \in ToServer : Sends!(m)
      BY <1>1 DEF Sends
    <2>2. /\ Len(c2s') = Len(c2s) + 1
          /\ \A j \in 1 .. Len(c2s) : c2s'[j] = c2s[j]
          /\ c2s'[Len(c2s) + 1] = m
      BY <1>a, <2>1
    <2>3. CASE i \in 1 .. Len(c2s)
      <3>1. c2s'[i] = c2s[i] /\ \A j \in 1 .. i - 1 : c2s'[j] = c2s[j]
        BY <1>a, <2>2, <2>3
      <3>2. QED
        BY <1>b, <1>c, <2>1, <2>3, <3>1
    <2>4. CASE i = Len(c2s) + 1
      <3>1. c2s'[i].uid = created /\ \A j \in 1 .. i - 1 : c2s'[j] = c2s[j] /\ c2s[j] \in RangeOf(c2s)
        BY <1>a, <1>c, <2>1, <2>2, <2>4 DEF RangeOf
      <3>2. \A v \in Known : v \in Int /\ v < nextuid
        BY DEF RunInv, NumberInv, Known, TypeInv, TypeOK
      <3>3. \A n \in Requests : IsClientRequest(n) => n.uid \in Int /\ n.uid < nextuid
        BY <1>a DEF RunInv, NumberInv
      <3>4. \A n \in handling : n \in Requests
        BY DEF Requests
      <3>5. \A n \in RangeOf(c2s) : IsClientRequest(n) => n \in Requests
        BY DEF Requests, IsClientRequest, ClientRequests
      <3>6. \A v \in Int : v < nextuid => v < created
        BY <1>a
      <3>7. QED
        BY <2>1, <3>1, <3>2, <3>3, <3>4, <3>5, <3>6
    <2>5. QED
      BY <1>a, <2>2, <2>3, <2>4
  <1>2. CASE Takes
    <2>1. /\ c2s # <<>> /\ Len(c2s) # 0 /\ Read = c2s[1] /\ Len(c2s') = Len(c2s) - 1
          /\ \A j \in 1 .. Len(c2s) - 1 : c2s'[j] = c2s[j + 1]
          /\ handling' \in {handling, {Read}} /\ Known' = Known
      BY <1>2, <1>a DEF Takes, Read
    <2>2. c2s'[i] = c2s[i + 1] /\ i + 1 \in 1 .. Len(c2s) /\ 1 \in 1 .. (i + 1) - 1
      BY <1>a, <2>1
    <2>3. Smaller(c2s'[i].uid, c2s, i + 1, handling, Known)
      BY <1>b, <1>c, <2>2
    <2>4. ASSUME NEW j \in 1 .. i - 1, IsClientRequest(c2s'[j]) PROVE c2s'[j].uid < c2s'[i].uid
      <3>1. c2s'[j] = c2s[j + 1] /\ j + 1 \in 1 .. (i + 1) - 1
        BY <1>a, <2>1
      <3>2. QED
        BY <2>3, <2>4, <3>1
    <2>5. \A m \in handling' : IsClientRequest(m) => m.uid < c2s'[i].uid
      BY <2>1, <2>2, <2>3
    <2>6. QED
      BY <2>1, <2>3, <2>4, <2>5
  <1>3. CASE Stays
    BY <1>3, <1>b, <1>c DEF Stays
  <1>4. QED
    BY <1>1, <1>2, <1>3, StepStream

\* The server never takes a SendCommandRequest, numbered by the counter of all
\* the messages, for one of the client requests it has answered.
THEOREM SendCommandNotMistaken == Spec => []SendCommandIsNew
  <1>1. Init => TypeInv /\ RunInv /\ SendOrderInv
    <2>1. Init => SendOrderInv
      BY DEF Init, SendOrderInv
    <2>2. QED
      BY <2>1, TypeInit, RunInit
  <1>2. TypeInv /\ RunInv /\ SendOrderInv /\ [Next]_vars =>
           TypeInv' /\ RunInv' /\ SendOrderInv'
    BY TypeNext, RunNext, SendOrderNext
  <1>3. TypeInv /\ SendOrderInv => SendCommandIsNew
    <2> SUFFICES ASSUME TypeInv, SendOrderInv, NEW i \in 1 .. Len(c2s),
                        c2s[i].type = "SendCommandRequest"
                 PROVE  c2s[i].uid \notin Known
      BY DEF SendCommandIsNew, Known
    <2>1. c2s[i].uid \in Int /\ ~(c2s[i].uid < c2s[i].uid)
      BY MessageTypes DEF TypeInv, TypeOK
    <2>2. QED
      BY <2>1 DEF SendOrderInv, OtherRequests
  <1>4. QED
    BY <1>1, <1>2, <1>3, PTL DEF Spec

-----------------------------------------------------------------------------
(* The Acks.                                                                *)

Fine == fatal \in {"none", "NotStarted"}

\* A step that takes no request and runs none.
QuietAcks ==
    /\ UNCHANGED <<log, handling, nextuid>> /\ Known' = Known
    /\ \A m \in Requests' : \/ m \in Requests \/ m.type = "SendCommandRequest"
                            \/ m.type = "ExitRequest" /\ ~Fine'
    /\ \A r \in RangeOf(s2c') : r.type = "Ack" => r \in RangeOf(s2c)
    /\ Fine' => Fine
    /\ phase' = "reply" =>
          /\ request' = request
          /\ phase = "reply" \/ \E r \in RangeOf(s2c) : r.type = "Ack" /\ r.uid = request.uid

\* The steps of the client, of the timers and of the environment which send
\* nothing to the client.
LEMMA QuietClient ==
  ASSUME TypeInv,
         UNCHANGED <<log, handling, nextuid, cache, removed, request>>,
         \/ c2s' = c2s
         \/ c2s # <<>> /\ c2s' = Tail(c2s)
         \/ \E u \in Int : c2s' = Append(c2s, ClientAck(u))
         \/ IsClientRequest(request) /\ c2s' = Append(c2s, request)
         \/ \E t \in {"SendCommandRequest", "ExitRequest"} :
               /\ c2s' = Append(c2s, Request(t, CreatedUid, created))
               /\ t = "ExitRequest" => ~Fine',
         s2c' = s2c \/ (s2c # <<>> /\ s2c' = Tail(s2c)),
         Fine' => Fine,
         phase' = "reply" => \/ phase = "reply"
                             \/ s2c # <<>> /\ Received.type = "Ack" /\ Received.uid = request.uid
  PROVE  QuietAcks
  <1>1. Known' = Known
    BY DEF Known
  <1>2. RangeOf(s2c') \subseteq RangeOf(s2c) /\ (s2c # <<>> => Received \in RangeOf(s2c))
    BY RangeTail DEF TypeInv, TypeOK, Received
  <1>3. ASSUME NEW m \in Requests'
        PROVE  \/ m \in Requests \/ m.type = "SendCommandRequest"
               \/ m.type = "ExitRequest" /\ ~Fine'
    <2>1. CASE c2s' = c2s
      BY <1>3, <2>1 DEF Requests, IsClientRequest, RangeOf
    <2>2. CASE c2s # <<>> /\ c2s' = Tail(c2s)
      BY <1>3, <2>2, RequestsTail
    <2>3. ASSUME NEW u \in Int, c2s' = Append(c2s, ClientAck(u)) PROVE m \in Requests
      <3>1. ClientAck(u) \in ToServer /\ ClientAck(u).type = "Ack"
        BY MessageTypes DEF ClientAck
      <3>2. QED
        BY <1>3, <2>3, <3>1, RequestsAppend
    <2>4. CASE IsClientRequest(request) /\ c2s' = Append(c2s, request)
      <3>1. request \in ToServer /\ request \in Requests
        BY <2>4, MessageTypes DEF TypeInv, TypeOK, Requests
      <3>2. QED
        BY <1>3, <2>4, <3>1, RequestsAppend
    <2>5. ASSUME NEW t \in {"SendCommandRequest", "ExitRequest"},
                 c2s' = Append(c2s, Request(t, CreatedUid, created)),
                 t = "ExitRequest" => ~Fine'
          PROVE  m \in Requests \/ m.type = "SendCommandRequest"
                    \/ (m.type = "ExitRequest" /\ ~Fine')
      <3> DEFINE n == Request(t, CreatedUid, created)
      <3>1. n \in ToServer /\ n.type = t
        BY MessageTypes DEF TypeInv, TypeOK, Request, CreatedUid, RequestTypes
      <3> HIDE DEF n
      <3>2. m \in Requests \/ m = n
        BY <1>3, <2>5, <3>1, RequestsAppend DEF n
      <3>3. QED
        BY <2>5, <3>1, <3>2
    <2>6. QED
      BY <2>1, <2>2, <2>3, <2>4, <2>5
  <1>4. QED
    BY <1>1, <1>2, <1>3 DEF QuietAcks

Reads == ReplyCached \/ FailRequest \/ TakeRequest
Handles == HandleExecCommand \/ HandleServerId \/ HandleSendCommand
Calls == \E t \in ClientRequests : Call(t)

LEMMA StepAcks ==
  ASSUME TypeInv, [Next]_vars
  PROVE  QuietAcks \/ Calls \/ Reads \/ Handles
  <1>a. s2c # <<>> => Received.uid \in Int /\ Received = Head(s2c)
    BY MessageTypes DEF TypeInv, TypeOK, Received
  <1>b. phase \notin {"start", "idle"} \/ nextuid > 0 => IsClientRequest(request)
    BY DEF TypeInv, CallInv, IsClientRequest
  <1>c. phase \notin {"start", "idle"} => fatal = "none"
    BY DEF TypeInv, CallInv
  <1>1. CASE UNCHANGED vars
    BY <1>1, QuietClient DEF vars, clientVars, serverVars, Fine
  <1>2. CASE ServerIdReceived
    BY <1>2, <1>a, QuietClient DEF ServerIdReceived, Received, serverVars, Fine, TypeInv, CallInv
  <1>3. CASE StartTimeout \/ Resend \/ LastTry \/ ReplyTimeout \/ FinalTimeout
    <2>1. CASE StartTimeout \/ LastTry
      BY <2>1, QuietClient DEF StartTimeout, LastTry, serverVars, Fine
    <2>2. CASE Resend
      BY <1>b, <2>2, QuietClient DEF Resend, ResendIn, serverVars, Fine
    <2>3. CASE ReplyTimeout \/ FinalTimeout
      BY <1>c, <2>3, QuietClient DEF ReplyTimeout, FinalTimeout, EndCall, serverVars, Fine
    <2>4. QED
      BY <1>3, <2>1, <2>2, <2>3
  <1>4. CASE ReceiveFatal \/ ReceiveAck
    BY <1>4, <1>c, QuietClient DEF ReceiveFatal, ReceiveAck, Receive, EndCall, Answers, serverVars, Fine
  <1>5. CASE ReceiveOther \/ ReceiveReply
    BY <1>5, <1>a, <1>c, QuietClient
       DEF ReceiveOther, ReceiveReply, Receive, EndCall, serverVars, Fine
  <1>6. CASE ReceiveAckAsReply
    BY <1>6, <1>c, QuietClient DEF ReceiveAckAsReply, Receive, EndCall, serverVars, Fine
  <1>7. CASE SendCommand \/ Exit
    BY <1>7, QuietClient DEF SendCommand, Exit, Usable, serverVars, Fine
  <1>8. CASE LoseToServer \/ LoseToClient \/ Duplicate \/ ReadByInterpreter
    BY <1>8, <1>b, QuietClient
       DEF LoseToServer, LoseToClient, Duplicate, ReadByInterpreter, clientVars, serverVars, Fine
  <1>9. CASE HandleAck \/ Expire \/ SendExpired
    <2>1. UNCHANGED <<log, handling, clientVars>>
      BY <1>9 DEF HandleAck, Expire, SendExpired
    <2>2. c2s' = c2s \/ (c2s # <<>> /\ c2s' = Tail(c2s))
      BY <1>9 DEF HandleAck, Expire, SendExpired
    <2>3. Requests' \subseteq Requests
      <3>1. CASE c2s' = c2s
        BY <2>1, <3>1 DEF Requests, IsClientRequest, RangeOf, clientVars
      <3>2. CASE c2s # <<>> /\ c2s' = Tail(c2s)
        BY <2>1, <3>2, RequestsTail DEF clientVars
      <3>3. QED
        BY <2>2, <3>1, <3>2
    <2>4. Known' = Known
      BY <1>9 DEF HandleAck, Expire, SendExpired, GiveUp, Remove, Known, TypeInv, TypeOK
    <2>5. \A r \in RangeOf(s2c') : r.type = "Ack" => r \in RangeOf(s2c)
      <3>1. s2c' = s2c \/ \E u \in due : s2c' = Append(s2c, Reply(u, cache[u].val))
        BY <1>9 DEF HandleAck, Expire, SendExpired
      <3>2. ASSUME NEW u \in due, s2c' = Append(s2c, Reply(u, cache[u].val))
            PROVE  \A r \in RangeOf(s2c') : r.type = "Ack" => r \in RangeOf(s2c)
        <4>1. Reply(u, cache[u].val) \in ToClient /\ Reply(u, cache[u].val).type = "Reply"
          BY MessageTypes DEF TypeInv, TypeOK, Reply
        <4>2. RangeOf(s2c') = RangeOf(s2c) \cup {Reply(u, cache[u].val)}
          BY <3>2, <4>1, RangeAppend DEF TypeInv, TypeOK
        <4>3. QED
          BY <4>1, <4>2
      <3>3. QED
        BY <3>1, <3>2 DEF RangeOf
    <2>6. QED
      BY <2>1, <2>3, <2>4, <2>5 DEF QuietAcks, clientVars, Fine
  <1>10. QED
    BY <1>1, <1>2, <1>3, <1>4, <1>5, <1>6, <1>7, <1>8, <1>9
       DEF Next, User, ExecCommand, GetServerId, ClientTimer, ClientReceive, Server,
           Environment, Reads, Handles, Calls, ClientRequests

\* What was taken stays taken.
LEMMA TakenStays ==
  ASSUME TypeInv, RunInv, Handles, NEW m \in Requests, m.type = "ExecCommandRequest"
  PROVE  /\ Taken(m) => Taken(m)'
         /\ m.cmd \in RangeOf(log) => m.cmd \in RangeOf(log)'
  <1>1. PICK h \in handling : /\ log' = log \/ log' = Append(log, h.cmd)
                              /\ h.type = "ServerIdRequest" \/ log' = Append(log, h.cmd)
    BY DEF Handles, HandleExecCommand, HandleServerId, HandleSendCommand
  <1>2. log \in Seq(Nat) /\ h.cmd \in Nat /\ h \in Requests
    BY MessageTypes DEF TypeInv, TypeOK, Requests
  <1>3. /\ RangeOf(log) \subseteq RangeOf(log')
        /\ log' = Append(log, h.cmd) => h.cmd \in RangeOf(log')
    <2>1. RangeOf(Append(log, h.cmd)) = RangeOf(log) \cup {h.cmd}
      BY <1>2, RangeAppend
    <2>2. QED
      BY <1>1, <2>1 DEF RangeOf
  <1>4. \A n \in handling : n = h
    BY DEF TypeInv, TypeOK
  <1>5. m.cmd = h.cmd => m = h
    BY <1>2 DEF RunInv, NumberInv
  <1>6. RangeOf(log)' = RangeOf(log')
    BY DEF RangeOf
  <1>7. QED
    BY <1>1, <1>3, <1>4, <1>5, <1>6 DEF Taken

\* The server takes a request: the Ack is that of the request, whose reply it
\* has, had or is going to make.
LEMMA ReadAcks ==
  ASSUME TypeInv, RunInv, AckInv, Reads
  PROVE  AckInv'
  <1>1. /\ c2s # <<>> /\ c2s' = Tail(c2s) /\ Read.type # "Ack" /\ handling = {}
        /\ UNCHANGED <<cache, removed, log, clientVars>>
        /\ handling' = handling \/ handling' = {Read}
    BY DEF Reads, ReplyCached, FailRequest, TakeRequest, ReadRequest, Idle
  <1>2. Read \in Requests /\ Read \in ToServer /\ Read.uid \in Int
    BY <1>1, RangeTail, MessageTypes DEF TypeInv, TypeOK, Requests, Read
  <1>3. Requests' \subseteq Requests
    BY <1>1, RequestsTail DEF clientVars
  <1>4. Known' = Known /\ Fine' = Fine /\ UNCHANGED <<request, phase, nextuid>>
    BY <1>1 DEF Known, Fine, clientVars
  <1>5. \A m \in Requests : Taken(m) => Taken(m)'
    BY <1>1 DEF Taken, RangeOf
  <1>6. ASSUME NEW r \in RangeOf(s2c'), r.type = "Ack"
        PROVE  r \in RangeOf(s2c) \/ (IsResponseExpected(Read) /\ r.uid = Read.uid)
    <2>1. ServerAck(Read.uid) \in ToClient /\ ServerAck(Read.uid).uid = Read.uid
      BY <1>2, MessageTypes DEF ServerAck
    <2>2. Acked \in Seq(ToClient)
      BY <2>1 DEF Acked, TypeInv, TypeOK
    <2>3. ASSUME r \in RangeOf(Acked)
          PROVE  r \in RangeOf(s2c) \/ (IsResponseExpected(Read) /\ r.uid = Read.uid)
      BY <2>1, <2>3, RangeAppend DEF Acked, TypeInv, TypeOK
    <2>4. CASE ReplyCached
      <3>1. /\ Reply(Read.uid, cache[Read.uid].val) \in ToClient
            /\ Reply(Read.uid, cache[Read.uid].val).type = "Reply"
        BY <1>2, <2>4, MessageTypes DEF ReplyCached, IsCached, TypeInv, TypeOK, Reply
      <3>2. r \in RangeOf(Acked)
        BY <1>6, <2>2, <2>4, <3>1, RangeAppend DEF ReplyCached
      <3>3. QED
        BY <2>3, <3>2
    <2>5. CASE FailRequest
      <3>1. r \in RangeOf(Acked)
        BY <1>6, <2>2, <2>5, MessageTypes, RangeAppend DEF FailRequest, FatalPythonErrorReply
      <3>2. QED
        BY <2>3, <3>1
    <2>6. CASE TakeRequest
      BY <1>6, <2>3, <2>6 DEF TakeRequest
    <2>7. QED
      BY <2>4, <2>5, <2>6 DEF Reads
  <1>7. ASSUME Fine, IsResponseExpected(Read) PROVE IsClientRequest(Read)
    BY <1>1, <1>2, <1>7 DEF AckInv, Fine, IsResponseExpected, IsClientRequest, ClientRequests,
       ToServer, RequestTypes
  <1>8. ASSUME Fine, IsResponseExpected(Read), NEW m \in Requests,
               m.type = "ExecCommandRequest", m.uid = Read.uid
        PROVE  Taken(m)'
    <2>1. m = Read
      BY <1>2, <1>7, <1>8 DEF RunInv, NumberInv, IsClientRequest, ClientRequests
    <2>2. CASE Read.uid \in Known
      BY <1>1, <1>8, <2>2 DEF AckInv, Taken, RangeOf
    <2>3. CASE Read.uid \notin Known
      <3>1. handling' = {Read}
        BY <1>8, <2>1, <2>3
           DEF Reads, ReplyCached, FailRequest, TakeRequest, IsCached, IsRemoved, Known
      <3>2. QED
        BY <2>1, <3>1 DEF Taken
    <2>4. QED
      BY <2>2, <2>3
  <1>9. ASSUME Fine
        PROVE  /\ \A m \in Requests' : m.type # "ExitRequest"
               /\ \A r \in RangeOf(s2c') : r.type = "Ack" => r.uid < nextuid'
               /\ \A r \in RangeOf(s2c'), m \in Requests' :
                    r.type = "Ack" /\ m.type = "ExecCommandRequest" /\ m.uid = r.uid => Taken(m)'
    <2>1. IsResponseExpected(Read) => Read.uid < nextuid
      BY <1>2, <1>7, <1>9 DEF RunInv, NumberInv, TypeInv, TypeOK
    <2>2. \A r \in RangeOf(s2c') : r.type = "Ack" => r.uid < nextuid'
      BY <1>4, <1>6, <1>9, <2>1 DEF AckInv, Fine
    <2>3. ASSUME NEW r \in RangeOf(s2c'), NEW m \in Requests',
                 r.type = "Ack", m.type = "ExecCommandRequest", m.uid = r.uid
          PROVE  Taken(m)'
      BY <1>3, <1>5, <1>6, <1>8, <1>9, <2>3 DEF AckInv, Fine
    <2>4. QED
      BY <1>3, <1>9, <2>2, <2>3 DEF AckInv, Fine
  <1>10. \A m \in Requests' :
           m.type = "ExecCommandRequest" /\ m.uid \in Known' => m.cmd \in RangeOf(log')
    BY <1>1, <1>3, <1>4 DEF AckInv
  <1>11. AckMeansTaken'
    BY <1>1, <1>4 DEF AckInv, AckMeansTaken, RangeOf
  <1>12. QED
    BY <1>4, <1>9, <1>10, <1>11 DEF AckInv, Fine, RangeOf, Taken

\* The server runs a command, or tells its id.
LEMMA HandleAcks ==
  ASSUME TypeInv, RunInv, AckInv, Handles
  PROVE  AckInv'
  <1>1. UNCHANGED <<c2s, removed, clientVars>> /\ handling' = {}
    BY DEF Handles, HandleExecCommand, HandleServerId, HandleSendCommand
  <1>2. Requests' \subseteq Requests
    BY <1>1 DEF Requests, IsClientRequest, RangeOf, clientVars
  <1>3. Fine' = Fine /\ UNCHANGED <<request, phase, nextuid>>
    BY <1>1 DEF Fine, clientVars
  <1>4. \A r \in RangeOf(s2c') : r.type = "Ack" => r \in RangeOf(s2c)
    <2>1. s2c' = s2c \/ s2c' = Append(s2c, FatalPythonErrorReply)
      BY DEF Handles, HandleExecCommand, HandleServerId, HandleSendCommand
    <2>2. FatalPythonErrorReply \in ToClient /\ FatalPythonErrorReply.type # "Ack"
      BY MessageTypes DEF FatalPythonErrorReply
    <2>3. QED
      BY <2>1, <2>2, RangeAppend DEF TypeInv, TypeOK, RangeOf
  <1>5. ASSUME NEW m \in Requests', m.type = "ExecCommandRequest", m.uid \in Known'
        PROVE  m.cmd \in RangeOf(log')
    <2>1. m \in Requests
      BY <1>2
    <2>2. CASE m.uid \in Known
      <3>1. m.cmd \in RangeOf(log)
        BY <1>5, <2>1, <2>2 DEF AckInv
      <3>2. m.cmd \in RangeOf(log)'
        BY <1>5, <2>1, <3>1, TakenStays
      <3>3. QED
        BY <3>2 DEF RangeOf
    <2>3. CASE m.uid \notin Known
      <3>1. PICK h \in handling : /\ DOMAIN cache' \subseteq DOMAIN cache \cup {h.uid}
                                  /\ IsClientRequest(h)
                                  /\ h.type = "ServerIdRequest" \/ log' = Append(log, h.cmd)
        BY <1>1, <1>5, <2>3 DEF Handles, HandleExecCommand, HandleServerId, HandleSendCommand,
           PushReply, Known, IsClientRequest, ClientRequests
      <3>2. m.uid = h.uid
        BY <1>1, <1>5, <2>3, <3>1 DEF Known
      <3>3. h \in Requests
        BY DEF Requests
      <3>4. h = m
        BY <1>5, <2>1, <3>1, <3>2, <3>3 DEF RunInv, NumberInv, IsClientRequest, ClientRequests
      <3>5. log' = Append(log, m.cmd) /\ log \in Seq(Nat) /\ m.cmd \in Nat
        BY <1>5, <3>1, <3>3, <3>4, MessageTypes DEF TypeInv, TypeOK
      <3>6. QED
        BY <3>5, RangeAppend
    <2>4. QED
      BY <2>2, <2>3
  <1>6. \A m \in Requests' : m.type = "ExecCommandRequest" /\ Taken(m) => Taken(m)'
    BY <1>2, TakenStays
  <1>7. AckMeansTaken'
    <2>1. SUFFICES ASSUME phase = "reply", request.type = "ExecCommandRequest"
                   PROVE  Taken(request)'
      BY <1>3 DEF AckMeansTaken, Taken
    <2>2. request \in Requests /\ Taken(request)
      BY <2>1 DEF Requests, IsClientRequest, ClientRequests, AckInv, AckMeansTaken, Taken
    <2>3. QED
      BY <1>3, <2>1, <2>2, TakenStays DEF Taken
  <1>8. ASSUME Fine'
        PROVE  /\ \A m \in Requests' : m.type # "ExitRequest"
               /\ \A r \in RangeOf(s2c') : r.type = "Ack" => r.uid < nextuid'
               /\ \A r \in RangeOf(s2c'), m \in Requests' :
                    r.type = "Ack" /\ m.type = "ExecCommandRequest" /\ m.uid = r.uid => Taken(m)'
    BY <1>2, <1>3, <1>4, <1>6, <1>8 DEF AckInv, Fine
  <1>9. QED
    BY <1>5, <1>7, <1>8 DEF AckInv, Fine, RangeOf, Taken

LEMMA QuietKeepsAcks ==
  ASSUME TypeInv', AckInv, QuietAcks
  PROVE  AckInv'
  <1>1. \A m \in Requests' : m.type = "ExecCommandRequest" => m \in Requests
    BY DEF QuietAcks
  <1>2. \A m : Taken(m) => Taken(m)'
    BY DEF QuietAcks, Taken, RangeOf
  <1>3. ASSUME Fine'
        PROVE  /\ \A m \in Requests' : m.type # "ExitRequest"
               /\ \A r \in RangeOf(s2c') : r.type = "Ack" => r.uid < nextuid'
               /\ \A r \in RangeOf(s2c'), m \in Requests' :
                    r.type = "Ack" /\ m.type = "ExecCommandRequest" /\ m.uid = r.uid => Taken(m)'
    <2>1. Fine
      BY <1>3 DEF QuietAcks
    <2>2. \A m \in Requests' : m.type # "ExitRequest"
      BY <1>3, <2>1 DEF QuietAcks, AckInv, Fine
    <2>3. \A r \in RangeOf(s2c') : r.type = "Ack" => r.uid < nextuid'
      BY <2>1 DEF QuietAcks, AckInv, Fine
    <2>4. ASSUME NEW r \in RangeOf(s2c'), NEW m \in Requests',
                 r.type = "Ack", m.type = "ExecCommandRequest", m.uid = r.uid
          PROVE  Taken(m)'
      <3>1. r \in RangeOf(s2c) /\ m \in Requests
        BY <1>1, <2>4 DEF QuietAcks
      <3>2. Taken(m)
        BY <2>1, <2>4, <3>1 DEF AckInv, Fine
      <3>3. QED
        BY <1>2, <3>2
    <2>5. QED
      BY <2>2, <2>3, <2>4
  <1>4. \A m \in Requests' :
           m.type = "ExecCommandRequest" /\ m.uid \in Known' => m.cmd \in RangeOf(log')
    BY <1>1 DEF QuietAcks, AckInv
  <1>5. AckMeansTaken'
    <2>1. SUFFICES ASSUME phase' = "reply", request'.type = "ExecCommandRequest"
                   PROVE  Taken(request)'
      BY DEF AckMeansTaken, Taken
    <2>2. request' = request
      BY <2>1 DEF QuietAcks
    <2>3. CASE phase = "reply"
      <3>1. Taken(request)
        BY <2>1, <2>2, <2>3 DEF AckInv, AckMeansTaken, Taken
      <3>2. QED
        BY <2>2, <3>1 DEF QuietAcks, Taken, RangeOf
    <2>4. ASSUME NEW r \in RangeOf(s2c), r.type = "Ack", r.uid = request.uid, phase # "reply"
          PROVE  Taken(request)'
      <3>1. request \in Requests
        BY <2>1, <2>2 DEF Requests, IsClientRequest, ClientRequests
      <3>2. Fine
        <4>1. Fine'
          BY <2>1 DEF Fine, TypeInv, CallInv
        <4>2. QED
          BY <4>1 DEF QuietAcks
      <3>3. Taken(request)
        BY <2>1, <2>2, <2>4, <3>1, <3>2 DEF AckInv, Fine
      <3>4. QED
        BY <2>2, <3>3 DEF QuietAcks, Taken, RangeOf
    <2>5. QED
      BY <2>1, <2>3, <2>4 DEF QuietAcks
  <1>6. QED
    BY <1>3, <1>4, <1>5 DEF AckInv, Fine, RangeOf, Taken

\* A call numbers its request: no Ack has this number, and MsgCaches has not
\* seen it.
LEMMA CallKeepsAcks ==
  ASSUME TypeInv, RunInv, AckInv, Calls
  PROVE  AckInv'
  <1>1. /\ request' \in ToServer /\ request'.uid = nextuid /\ request'.type \in ClientRequests
        /\ c2s' = Append(c2s, request') /\ fatal = "none" /\ nextuid' = nextuid + 1
        /\ phase' = "attempt" /\ UNCHANGED <<fatal, handling, log, cache, removed, s2c>>
    BY MessageTypes DEF Calls, Call, Request, Usable, TypeInv, TypeOK, ClientRequests,
       RequestTypes, serverVars
  <1>2. RangeOf(c2s') = RangeOf(c2s) \cup {request'}
    BY <1>1, RangeAppend DEF TypeInv, TypeOK
  <1>3. Requests' \subseteq Requests \cup {request'}
    BY <1>1, <1>2 DEF Requests, IsClientRequest, RangeOf
  <1>4. \A u \in Known : u \in Int /\ u < nextuid
    BY DEF RunInv, NumberInv, Known, TypeInv, TypeOK
  <1>5. nextuid \in Nat /\ \A r \in RangeOf(s2c) : r.uid \in Int
    BY MessageTypes DEF TypeInv, TypeOK, RangeOf
  <1>6. Known' = Known /\ \A m : Taken(m) => Taken(m)'
    BY <1>1 DEF Known, Taken, RangeOf
  <1>7. \A m \in Requests' : m.type # "ExitRequest"
    BY <1>1, <1>3 DEF AckInv, ClientRequests
  <1>8. \A r \in RangeOf(s2c') : r.type = "Ack" => r.uid < nextuid /\ r.uid < nextuid'
    BY <1>1, <1>5 DEF AckInv, RangeOf
  <1>9. ASSUME NEW r \in RangeOf(s2c'), NEW m \in Requests',
               r.type = "Ack", m.type = "ExecCommandRequest", m.uid = r.uid
        PROVE  Taken(m)'
    <2>1. r \in RangeOf(s2c) /\ r.uid < nextuid
      BY <1>1, <1>8, <1>9 DEF RangeOf
    <2>2. m # request'
      BY <1>1, <1>5, <1>9, <2>1
    <2>3. Taken(m)
      BY <1>1, <1>3, <1>9, <2>1, <2>2 DEF AckInv
    <2>4. QED
      BY <1>6, <2>3
  <1>10. ASSUME NEW m \in Requests', m.type = "ExecCommandRequest", m.uid \in Known'
         PROVE  m.cmd \in RangeOf(log')
    <2>1. m # request'
      BY <1>1, <1>4, <1>5, <1>6, <1>10
    <2>2. QED
      BY <1>1, <1>3, <1>6, <1>10, <2>1 DEF AckInv
  <1>11. QED
    BY <1>1, <1>7, <1>8, <1>9, <1>10 DEF AckInv, AckMeansTaken, RangeOf, Taken

LEMMA AckNext == TypeInv /\ TypeInv' /\ RunInv /\ AckInv /\ [Next]_vars => AckInv'
  BY StepAcks, QuietKeepsAcks, CallKeepsAcks, ReadAcks, HandleAcks

LEMMA AckInit == Init => AckInv
  BY DEF Init, AckInv, AckMeansTaken, Requests, Request, IsClientRequest, ClientRequests, RangeOf

\* A Timeout of exec_command that is not fatal comes after an Ack only, which the
\* server sends for a command that it runs or has run, whatever was lost or sent
\* again (_try_to_receive_until_reply, handle_next_msg).
THEOREM TimeoutMeansTaken == Spec => []AckMeansTaken
  <1>1. Init => TypeInv /\ RunInv /\ AckInv
    BY TypeInit, RunInit, AckInit
  <1>2. TypeInv /\ RunInv /\ AckInv /\ [Next]_vars => TypeInv' /\ RunInv' /\ AckInv'
    BY TypeNext, RunNext, AckNext
  <1>3. AckInv => AckMeansTaken
    BY DEF AckInv
  <1>4. QED
    BY <1>1, <1>2, <1>3, PTL DEF Spec

-----------------------------------------------------------------------------
(* The order of the commands.                                               *)

\* How a step changes what is on its way to the server and in it.
SendsLast == \E m \in ToServer :
    /\ c2s' = Append(c2s, m) /\ UNCHANGED <<handling, log>>
    /\ m.type # "Ack" => dup' # 0 \/ m.cmd = created \/ (Calling /\ m = request)

TakesFirst ==
    /\ c2s # <<>> /\ c2s' = Tail(c2s) /\ log' = log
    /\ \/ handling' = handling
       \/ /\ handling' = {Read} /\ Read.type \notin {"Ack", "ExitRequest"}
          /\ Read.uid \notin Known

Rests == UNCHANGED <<c2s, handling, log>>

LEMMA StepOrder ==
  ASSUME TypeInv, [Next]_vars
  PROVE  /\ SendsLast \/ TakesFirst \/ Rests \/ Handles
         /\ dup' = 0 => dup = 0
         /\ Calling' => \/ Calling /\ UNCHANGED <<created, request>>
                        \/ created' = request'.cmd + 1
  <1> DEFINE Goal == /\ SendsLast \/ TakesFirst \/ Rests \/ Handles
                     /\ dup' = 0 => dup = 0
                     /\ Calling' => \/ Calling /\ UNCHANGED <<created, request>>
                                    \/ created' = request'.cmd + 1
  <1>a. ASSUME NEW u \in Int, c2s' = Append(c2s, ClientAck(u)), UNCHANGED <<handling, log>>
        PROVE  SendsLast
    BY <1>a, MessageTypes DEF SendsLast, ClientAck
  <1>b. ASSUME NEW t \in {"SendCommandRequest", "ExitRequest"},
               c2s' = Append(c2s, Request(t, CreatedUid, created)), UNCHANGED <<handling, log>>
        PROVE  SendsLast
    <2>1. /\ Request(t, CreatedUid, created) \in ToServer
          /\ Request(t, CreatedUid, created).cmd = created
      BY MessageTypes DEF TypeInv, TypeOK, Request, CreatedUid, RequestTypes
    <2>2. QED
      BY <1>b, <2>1 DEF SendsLast
  <1>c. request \in ToServer /\ created \in Nat /\ dup \in Nat
    BY MessageTypes DEF TypeInv, TypeOK
  <1>d. s2c # <<>> => Received.uid \in Int /\ Received = Head(s2c)
    BY MessageTypes DEF TypeInv, TypeOK, Received
  <1>1. CASE UNCHANGED vars
    BY <1>1 DEF vars, clientVars, serverVars, faultVars, Rests, Calling
  <1>2. CASE ServerIdReceived
    BY <1>2, <1>a, <1>d DEF ServerIdReceived, Received, serverVars, faultVars, Calling
  <1>3. CASE StartTimeout \/ LastTry
    BY <1>3 DEF StartTimeout, LastTry, serverVars, faultVars, Rests, Calling
  <1>4. CASE ReplyTimeout \/ FinalTimeout
    BY <1>4 DEF ReplyTimeout, FinalTimeout, EndCall, serverVars, faultVars, Rests, Calling
  <1>5. ASSUME NEW t \in ClientRequests, Call(t) PROVE Goal
    <2>1. /\ request' \in ToServer /\ request'.cmd = created
          /\ c2s' = Append(c2s, request') /\ created' = created + 1
          /\ UNCHANGED <<handling, log, dup>>
      BY <1>5, <1>c, MessageTypes DEF Call, Request, ClientRequests, RequestTypes, serverVars,
         faultVars, TypeInv, TypeOK
    <2>2. QED
      BY <2>1 DEF SendsLast
  <1>6. CASE Resend
    BY <1>6, <1>c DEF Resend, ResendIn, serverVars, faultVars, SendsLast, Calling
  <1>7. CASE ReceiveFatal \/ ReceiveAck
    BY <1>7 DEF ReceiveFatal, ReceiveAck, Receive, EndCall, serverVars, faultVars, Rests, Calling
  <1>8. CASE ReceiveOther
    BY <1>8, <1>a, <1>d DEF ReceiveOther, Receive, serverVars, faultVars, Rests, Calling
  <1>9. CASE ReceiveAckAsReply
    BY <1>9, <1>b DEF ReceiveAckAsReply, Receive, EndCall, serverVars, faultVars, Rests, Calling
  <1>10. CASE ReceiveReply
    BY <1>10, <1>a, <1>d DEF ReceiveReply, Receive, EndCall, serverVars, faultVars, Calling
  <1>11. CASE SendCommand \/ Exit
    BY <1>11, <1>b DEF SendCommand, Exit, serverVars, faultVars, Calling
  <1>12. CASE LoseToServer \/ ReadByInterpreter
    BY <1>12 DEF LoseToServer, ReadByInterpreter, clientVars, serverVars, faultVars, TakesFirst,
       Calling
  <1>13. CASE HandleAck
    BY <1>13 DEF HandleAck, clientVars, faultVars, TakesFirst, Calling
  <1>14. CASE ReplyCached \/ FailRequest
    BY <1>14 DEF ReplyCached, FailRequest, ReadRequest, clientVars, faultVars, TakesFirst, Calling
  <1>15. CASE TakeRequest
    BY <1>15 DEF TakeRequest, ReadRequest, IsNew, IsCached, IsRemoved, Known, clientVars,
       faultVars, TakesFirst, Calling
  <1>16. CASE Handles
    BY <1>16 DEF Handles, HandleExecCommand, HandleServerId, HandleSendCommand, clientVars,
       faultVars, Calling
  <1>17. CASE LoseToClient \/ Expire \/ SendExpired
    BY <1>17 DEF LoseToClient, Expire, SendExpired, clientVars, serverVars, faultVars, Rests,
       Calling
  <1>18. CASE Duplicate
    BY <1>18, <1>c DEF Duplicate, clientVars, serverVars, SendsLast, Calling
  <1>19. QED
    BY <1>1, <1>2, <1>3, <1>4, <1>5, <1>6, <1>7, <1>8, <1>9, <1>10, <1>11, <1>12, <1>13,
       <1>14, <1>15, <1>16, <1>17, <1>18
       DEF Next, User, ExecCommand, GetServerId, ClientTimer, ClientReceive, Server,
           Environment, ClientRequests, Handles

LEMMA OrderSends ==
  ASSUME TypeInv, RunInv, OrderInv, StreamOrder, SendsLast, dup' = 0
  PROVE  StreamOrder'
  <1>1. PICK m \in ToServer :
          /\ c2s' = Append(c2s, m) /\ UNCHANGED <<handling, log>>
          /\ m.type # "Ack" => m.cmd = created \/ (Calling /\ m = request)
    BY DEF SendsLast
  <1>2. /\ Len(c2s) \in Nat /\ Len(c2s') = Len(c2s) + 1
        /\ \A i \in 1 .. Len(c2s) : c2s'[i] = c2s[i] /\ c2s[i] \in RangeOf(c2s)
        /\ c2s'[Len(c2s) + 1] = m
    BY <1>1 DEF TypeInv, TypeOK, RangeOf
  <1>3. /\ created \in Nat /\ m.cmd \in Nat /\ \A n \in Requests : n.cmd \in Nat
        /\ \A i \in 1 .. Len(log) : log[i] \in Nat
    BY MessageTypes DEF TypeInv, TypeOK, Requests, RangeOf
  <1>4. m.type # "Ack" => created - 1 <= m.cmd
    BY <1>1, <1>3 DEF OrderInv, Calling
  <1>5. ASSUME m.type # "Ack", NEW c \in Nat, c < created PROVE c <= m.cmd
    BY <1>3, <1>4, <1>5
  <1>6. \A n \in Requests : m.type # "Ack" => n.cmd <= m.cmd
    BY <1>3, <1>5 DEF RunInv, NumberInv
  <1>7. \A i \in 1 .. Len(log) : m.type # "Ack" => log[i] <= m.cmd
    BY <1>3, <1>5 DEF RunInv, NumberInv
  <1>8. ASSUME NEW i \in 1 .. Len(c2s'), NEW j \in 1 .. Len(c2s'), i < j,
               c2s'[i].type # "Ack", c2s'[j].type # "Ack"
        PROVE  c2s'[i].cmd <= c2s'[j].cmd
    <2>1. i \in 1 .. Len(c2s) /\ c2s'[i] = c2s[i] /\ c2s[i] \in RangeOf(c2s)
      BY <1>2, <1>8
    <2>2. CASE j \in 1 .. Len(c2s)
      BY <1>2, <1>8, <2>1, <2>2 DEF StreamOrder
    <2>3. CASE j = Len(c2s) + 1
      <3>1. c2s[i] \in Requests
        BY <1>8, <2>1 DEF Requests
      <3>2. QED
        BY <1>2, <1>6, <1>8, <2>1, <2>3, <3>1
    <2>4. QED
      BY <1>2, <2>2, <2>3
  <1>9. ASSUME NEW j \in 1 .. Len(c2s'), c2s'[j].type # "Ack"
        PROVE  /\ \A n \in handling : n.cmd <= c2s'[j].cmd
               /\ \A i \in 1 .. Len(log) : log[i] <= c2s'[j].cmd
    <2>1. CASE j \in 1 .. Len(c2s)
      BY <1>2, <1>9, <2>1 DEF StreamOrder
    <2>2. CASE j = Len(c2s) + 1
      <3>1. \A n \in handling : n \in Requests
        BY DEF Requests
      <3>2. QED
        BY <1>2, <1>6, <1>7, <1>9, <2>2, <3>1
    <2>3. QED
      BY <1>2, <2>1, <2>2
  <1>10. QED
    BY <1>1, <1>8, <1>9 DEF StreamOrder

\* The request the server takes is behind all that has been run: it is either
\* new or a SendCommandRequest, of which there is only one.
LEMMA OrderTakes ==
  ASSUME TypeInv, RunInv, StreamOrder, TakesFirst
  PROVE  StreamOrder'
  <1>1. /\ Len(c2s) \in Nat \ {0} /\ Read = c2s[1] /\ Len(c2s') = Len(c2s) - 1
        /\ \A i \in 1 .. Len(c2s) - 1 : c2s'[i] = c2s[i + 1]
        /\ 1 \in 1 .. Len(c2s) /\ Read \in ToServer /\ Read \in RangeOf(c2s)
    BY RangeTail DEF TakesFirst, Read, TypeInv, TypeOK
  <1>2. \A i \in 1 .. Len(c2s') : i + 1 \in 1 .. Len(c2s) /\ c2s'[i] = c2s[i + 1]
    BY <1>1
  <1>3. ASSUME NEW i \in 1 .. Len(c2s'), NEW j \in 1 .. Len(c2s'), i < j,
               c2s'[i].type # "Ack", c2s'[j].type # "Ack"
        PROVE  c2s'[i].cmd <= c2s'[j].cmd
    <2>1. i + 1 < j + 1
      BY <1>3
    <2>2. QED
      BY <1>2, <1>3, <2>1 DEF StreamOrder
  <1>4. \A i \in 1 .. Len(log'), j \in 1 .. Len(c2s') :
          c2s'[j].type # "Ack" => log'[i] <= c2s'[j].cmd
    BY <1>2 DEF StreamOrder, TakesFirst
  <1>5. CASE handling' = handling
    BY <1>2, <1>3, <1>4, <1>5 DEF StreamOrder, TakesFirst
  <1>6. CASE /\ handling' = {Read} /\ Read.type \notin {"Ack", "ExitRequest"}
             /\ Read.uid \notin Known
    <2>1. \A j \in 1 .. Len(c2s') : c2s'[j].type # "Ack" => Read.cmd <= c2s'[j].cmd
      <3>1. \A j \in 1 .. Len(c2s') : 1 < j + 1
        OBVIOUS
      <3>2. QED
        BY <1>1, <1>2, <1>6, <3>1 DEF StreamOrder
    <2>2. ASSUME Read.type # "ServerIdRequest", NEW i \in 1 .. Len(log)
          PROVE  log[i] < Read.cmd
      <3>1. log[i] <= Read.cmd
        BY <1>1, <1>6 DEF StreamOrder
      <3>2. log[i] \in RangeOf(log) /\ log[i] \in Nat /\ Read.cmd \in Nat
        BY <1>1, MessageTypes DEF RangeOf, TypeInv, TypeOK
      <3>3. Read.cmd \notin RangeOf(log)
        <4>1. Read \in Requests
          BY <1>1, <1>6 DEF Requests
        <4>2. CASE Read.type = "ExecCommandRequest"
          BY <1>6, <4>1, <4>2 DEF RunInv, KnownInv
        <4>3. CASE Read.type = "SendCommandRequest"
          BY <1>1, <4>3 DEF RunInv, SendOnceInv
        <4>4. QED
          BY <1>1, <1>6, <2>2, <4>2, <4>3 DEF ToServer, RequestTypes
      <3>4. QED
        BY <3>1, <3>2, <3>3
    <2>3. QED
      BY <1>3, <1>4, <1>6, <2>1, <2>2 DEF StreamOrder, TakesFirst
  <1>7. QED
    BY <1>5, <1>6 DEF TakesFirst

LEMMA OrderHandles ==
  ASSUME TypeInv, StreamOrder, Handles,
         \A i, j \in 1 .. Len(log) : i < j => log[i] < log[j]
  PROVE  /\ StreamOrder'
         /\ \A i, j \in 1 .. Len(log') : i < j => log'[i] < log'[j]
  <1>1. PICK m \in handling : /\ handling' = {} /\ c2s' = c2s
                              /\ \/ log' = log
                                 \/ log' = Append(log, m.cmd) /\ m.type # "ServerIdRequest"
    BY DEF Handles, HandleExecCommand, HandleServerId, HandleSendCommand
  <1>2. log \in Seq(Nat) /\ m.cmd \in Nat
    BY MessageTypes DEF TypeInv, TypeOK
  <1>3. CASE log' = log
    BY <1>1, <1>3 DEF StreamOrder
  <1>4. CASE log' = Append(log, m.cmd) /\ m.type # "ServerIdRequest"
    <2>1. /\ Len(log) \in Nat /\ Len(log') = Len(log) + 1
          /\ \A i \in 1 .. Len(log) : log'[i] = log[i]
          /\ log'[Len(log) + 1] = m.cmd
      BY <1>2, <1>4
    <2>2. ASSUME NEW i \in 1 .. Len(log'), NEW j \in 1 .. Len(log'), i < j
          PROVE  log'[i] < log'[j]
      <3>1. i \in 1 .. Len(log) /\ log'[i] = log[i]
        BY <2>1, <2>2
      <3>2. CASE j \in 1 .. Len(log)
        BY <2>1, <2>2, <3>1, <3>2
      <3>3. CASE j = Len(log) + 1
        BY <1>4, <2>1, <3>1, <3>3 DEF StreamOrder
      <3>4. QED
        BY <2>1, <3>2, <3>3
    <2>3. ASSUME NEW i \in 1 .. Len(log'), NEW j \in 1 .. Len(c2s), c2s[j].type # "Ack"
          PROVE  log'[i] <= c2s[j].cmd
      <3>1. CASE i \in 1 .. Len(log)
        BY <2>1, <2>3, <3>1 DEF StreamOrder
      <3>2. CASE i = Len(log) + 1
        BY <2>1, <2>3, <3>2 DEF StreamOrder
      <3>3. QED
        BY <2>1, <3>1, <3>2
    <2>4. QED
      BY <1>1, <2>2, <2>3 DEF StreamOrder
  <1>5. QED
    BY <1>1, <1>3, <1>4

LEMMA OrderNext == TypeInv /\ RunInv /\ OrderInv /\ [Next]_vars => OrderInv'
  <1> SUFFICES ASSUME TypeInv, RunInv, OrderInv, [Next]_vars PROVE OrderInv'
    OBVIOUS
  <1>1. Calling' => created' = request'.cmd + 1
    BY StepOrder DEF OrderInv, Calling
  <1>2. ASSUME dup' = 0
        PROVE  /\ StreamOrder'
               /\ \A i, j \in 1 .. Len(log') : i < j => log'[i] < log'[j]
    <2>1. StreamOrder /\ \A i, j \in 1 .. Len(log) : i < j => log[i] < log[j]
      BY <1>2, StepOrder DEF OrderInv, InOrder
    <2>2. SendsLast \/ TakesFirst \/ Rests => log' = log
      BY DEF SendsLast, TakesFirst, Rests
    <2>3. Rests => StreamOrder'
      BY <2>1 DEF Rests, StreamOrder
    <2>4. QED
      BY <1>2, <2>1, <2>2, <2>3, StepOrder, OrderSends, OrderTakes, OrderHandles
  <1>3. QED
    BY <1>1, <1>2 DEF OrderInv, InOrder, Calling

\* Unless a request is sent after its call, the commands run in the order of their
\* calls: a request is sent again only while no later one exists, and one that
\* comes late is answered from MsgCaches (send_and_receive, handle_next_msg).
THEOREM RunsInOrder == Spec => []InOrder
  <1>1. Init => TypeInv /\ RunInv /\ OrderInv
    <2>1. Init => OrderInv
      BY DEF Init, OrderInv, StreamOrder, InOrder
    <2>2. QED
      BY <2>1, TypeInit, RunInit
  <1>2. TypeInv /\ RunInv /\ OrderInv /\ [Next]_vars => TypeInv' /\ RunInv' /\ OrderInv'
    BY TypeNext, RunNext, OrderNext
  <1>3. OrderInv => InOrder
    BY DEF OrderInv
  <1>4. QED
    BY <1>1, <1>2, <1>3, PTL DEF Spec

-----------------------------------------------------------------------------
(* What the steps do to the streams.                                        *)

\* The uids and the messages have their types, and the uids are below the next one.
LEMMA StreamTypes ==
  ASSUME TypeInv, RunInv
  PROVE  /\ nextuid \in Nat /\ c2s \in Seq(ToServer) /\ s2c \in Seq(ToClient)
         /\ Len(c2s) \in Nat /\ Len(s2c) \in Nat
         /\ \A m \in RangeOf(c2s) : m \in ToServer /\ m.uid \in Int
         /\ \A i \in 1 .. Len(c2s) : c2s[i] \in RangeOf(c2s)
         /\ \A i \in 1 .. Len(s2c) : s2c[i] \in RangeOf(s2c)
         /\ \A r \in RangeOf(s2c) : r \in ToClient /\ r.uid \in Int
         /\ \A m \in RangeOf(c2s) : m.type # "Ack" => m \in Requests
         /\ \A h \in handling : h \in Requests /\ h.uid \in Int
         /\ \A u \in Known : u \in Int /\ u < nextuid
         /\ \A m \in Requests : IsClientRequest(m) => m.uid \in Int /\ m.uid < nextuid
         /\ request \in ToServer /\ request.uid \in Int
         /\ Calling => IsClientRequest(request) /\ request \in Requests /\ fatal = "none"
  <1>1. /\ nextuid \in Nat /\ c2s \in Seq(ToServer) /\ s2c \in Seq(ToClient)
        /\ Len(c2s) \in Nat /\ Len(s2c) \in Nat
        /\ \A i \in 1 .. Len(c2s) : c2s[i] \in RangeOf(c2s)
        /\ \A i \in 1 .. Len(s2c) : s2c[i] \in RangeOf(s2c)
    BY DEF TypeInv, TypeOK, RangeOf
  <1>2. /\ \A m \in RangeOf(c2s) : m \in ToServer /\ m.uid \in Int
        /\ \A r \in RangeOf(s2c) : r \in ToClient /\ r.uid \in Int
        /\ request \in ToServer /\ request.uid \in Int
    BY MessageTypes DEF TypeInv, TypeOK, RangeOf
  <1>3. \A m \in RangeOf(c2s) : m.type # "Ack" => m \in Requests
    BY DEF Requests
  <1>4. \A h \in handling : h \in Requests /\ h.uid \in Int
    BY MessageTypes DEF Requests, TypeInv, TypeOK
  <1>5. \A u \in Known : u \in Int /\ u < nextuid
    BY DEF RunInv, NumberInv, Known, TypeInv, TypeOK
  <1>6. \A m \in Requests : IsClientRequest(m) => m.uid \in Int /\ m.uid < nextuid
    BY <1>1 DEF RunInv, NumberInv
  <1>7. Calling => IsClientRequest(request) /\ request \in Requests /\ fatal = "none"
    BY DEF Calling, TypeInv, CallInv, IsClientRequest, Requests
  <1>8. QED
    BY <1>1, <1>2, <1>3, <1>4, <1>5, <1>6, <1>7

\* What a step puts behind the messages to the server.
Puts == \E m \in ToServer :
    /\ c2s' = Append(c2s, m) /\ UNCHANGED <<handling, cache, removed, due>>
    /\ IsClientRequest(m) => \/ m.uid = nextuid /\ Calls /\ m = request'
                             \/ Calling /\ m = request /\ Resend
    /\ m.type = "Ack" =>
          /\ s2c # <<>> /\ m.uid = Received.uid
          /\ phase = "start" \/ Received.type = "Reply"
          /\ Calling' => Received.uid # request.uid

Takes1 == TakesFirst /\ Known' = Known
Rests1 == Rests /\ Known' = Known

LEMMA StepUids ==
  ASSUME TypeInv, [Next]_vars, dup' = 0
  PROVE  Puts \/ Takes1 \/ Rests1 \/ Handles
  <1>a. ASSUME NEW u \in Int, c2s' = Append(c2s, ClientAck(u)),
               UNCHANGED <<handling, cache, removed, due>>,
               s2c # <<>>, u = Received.uid, phase = "start" \/ Received.type = "Reply",
               Calling' => u # request.uid
        PROVE  Puts
    <2>1. /\ ClientAck(u) \in ToServer /\ ClientAck(u).uid = u
          /\ ~IsClientRequest(ClientAck(u))
      BY MessageTypes DEF ClientAck, IsClientRequest, ClientRequests
    <2>2. QED
      BY <1>a, <2>1 DEF Puts
  <1>b. ASSUME NEW t \in OtherRequests, c2s' = Append(c2s, Request(t, CreatedUid, created)),
               UNCHANGED <<handling, cache, removed, due>>
        PROVE  Puts
    <2> DEFINE m == Request(t, CreatedUid, created)
    <2>1. m \in ToServer /\ ~IsClientRequest(m) /\ m.type # "Ack"
      BY MessageTypes DEF TypeInv, TypeOK, Request, CreatedUid, RequestTypes, IsClientRequest,
         ClientRequests, OtherRequests
    <2>2. c2s' = Append(c2s, m)
      BY <1>b
    <2> HIDE DEF m
    <2>3. QED
      BY <1>b, <2>1, <2>2 DEF Puts
  <1>c. request \in ToServer /\ created \in Nat /\ dup \in Nat /\ request.type # "Ack"
    BY MessageTypes DEF TypeInv, TypeOK, ServerRequest, RequestTypes
  <1>d. s2c # <<>> => /\ Received.uid \in Int /\ Received = Head(s2c)
                      /\ Received.type \in {"Ack", "Reply", "FatalPythonErrorReply"}
    <2>1. s2c # <<>> => Head(s2c) \in ToClient
      BY DEF TypeInv, TypeOK
    <2>2. QED
      BY <2>1, MessageTypes DEF Received, ToClient
  <1>e. UNCHANGED <<c2s, handling, log, cache, removed>> => Rests1
    BY DEF Rests1, Rests, Known
  <1>1. CASE UNCHANGED vars
    BY <1>1, <1>e DEF vars, serverVars
  <1>2. CASE ServerIdReceived
    BY <1>2, <1>a, <1>d DEF ServerIdReceived, Received, serverVars, Calling
  <1>3. CASE StartTimeout \/ LastTry \/ ReplyTimeout \/ FinalTimeout
    BY <1>3, <1>e DEF StartTimeout, LastTry, ReplyTimeout, FinalTimeout, serverVars
  <1>4. ASSUME NEW t \in ClientRequests, Call(t) PROVE Puts
    <2>1. /\ request' \in ToServer /\ request'.uid = nextuid /\ request'.type = t
          /\ c2s' = Append(c2s, request') /\ UNCHANGED <<handling, cache, removed, due>>
      BY <1>4, <1>c, MessageTypes DEF Call, Request, ClientRequests, RequestTypes, serverVars,
         TypeInv, TypeOK
    <2>2. Calls /\ t # "Ack"
      BY <1>4 DEF Calls, ClientRequests
    <2>3. QED
      BY <2>1, <2>2 DEF Puts
  <1>5. CASE Resend
    BY <1>5, <1>c DEF Resend, ResendIn, serverVars, Puts, Calling
  <1>6. CASE ReceiveFatal \/ ReceiveAck
    BY <1>6, <1>e DEF ReceiveFatal, ReceiveAck, Receive, serverVars
  <1>7. CASE ReceiveOther
    BY <1>7, <1>a, <1>d, <1>e DEF ReceiveOther, Receive, Answers, serverVars
  <1>8. CASE ReceiveAckAsReply
    BY <1>8, <1>b, <1>e DEF ReceiveAckAsReply, Receive, serverVars, OtherRequests
  <1>9. CASE ReceiveReply
    BY <1>9, <1>a, <1>d DEF ReceiveReply, Receive, EndCall, serverVars, Calling
  <1>10. CASE SendCommand \/ Exit
    BY <1>10, <1>b DEF SendCommand, Exit, serverVars, OtherRequests
  <1>11. CASE \/ LoseToServer \/ ReadByInterpreter \/ HandleAck \/ ReplyCached \/ FailRequest
              \/ TakeRequest
    <2>1. TakesFirst
      BY <1>11 DEF LoseToServer, ReadByInterpreter, HandleAck, ReplyCached, FailRequest,
         TakeRequest, ReadRequest, IsNew, IsCached, IsRemoved, Known, clientVars, serverVars,
         TakesFirst
    <2>2. Known' = Known
      BY <1>11 DEF LoseToServer, ReadByInterpreter, HandleAck, Remove, ReplyCached, FailRequest,
         TakeRequest, ReadRequest, serverVars, Known
    <2>3. QED
      BY <2>1, <2>2 DEF Takes1
  <1>12. CASE LoseToClient \/ Expire
    BY <1>12, <1>e DEF LoseToClient, Expire, serverVars
  <1>13. CASE SendExpired
    <2>1. Known' = Known
      BY <1>13 DEF SendExpired, GiveUp, Remove, Known, TypeInv, TypeOK
    <2>2. QED
      BY <1>13, <2>1 DEF SendExpired, Rests1, Rests
  <1>14. CASE Handles
    BY <1>14
  <1>15. ~Duplicate
    BY <1>c DEF Duplicate
  <1>16. QED
    BY <1>1, <1>2, <1>3, <1>4, <1>5, <1>6, <1>7, <1>8, <1>9, <1>10, <1>11, <1>12, <1>13,
       <1>14, <1>15
       DEF Next, User, ExecCommand, GetServerId, ClientTimer, ClientReceive, Server,
           Environment, ClientRequests, Handles

-----------------------------------------------------------------------------
(* The order of the uids.                                                   *)

LEMMA UidsPut ==
  ASSUME TypeInv, RunInv, LastUidInv, UidOrderInv, Puts
  PROVE  UidOrderInv'
  <1>0. PICK m \in ToServer :
          /\ c2s' = Append(c2s, m) /\ UNCHANGED <<handling, cache, removed, due>>
          /\ IsClientRequest(m) => m.uid = nextuid \/ (Calling /\ m = request)
    BY DEF Puts
  <1>1. /\ Len(c2s) \in Nat /\ Len(c2s') = Len(c2s) + 1
        /\ \A i \in 1 .. Len(c2s) : c2s'[i] = c2s[i] /\ c2s[i] \in RangeOf(c2s)
        /\ c2s'[Len(c2s) + 1] = m /\ RangeOf(c2s') = RangeOf(c2s) \cup {m}
        /\ m.uid \in Int
    BY <1>0, StreamTypes, RangeAppend, MessageTypes
  <1>2. /\ nextuid \in Nat /\ Known' = Known
        /\ \A n \in RangeOf(c2s) \cup handling : n.uid \in Int
        /\ \A u \in Known : u \in Int
    BY <1>0, StreamTypes DEF Known
  <1>3. \A n \in RangeOf(c2s) : IsClientRequest(n) => n.uid < nextuid
    BY StreamTypes DEF IsClientRequest, ClientRequests
  <1>4. \A n \in handling : IsClientRequest(n) => n.uid < nextuid
    BY StreamTypes
  <1>5. \A u \in Known : u < nextuid
    BY StreamTypes
  <1>6. \A u \in Int : IsClientRequest(m) /\ u < nextuid => u <= m.uid
    BY <1>0, <1>1, <1>2 DEF LastUidInv
  <1>7. \A n \in RangeOf(c2s) : IsClientRequest(m) /\ n.type = "Ack" => n.uid < m.uid
    BY <1>0, <1>1, <1>2 DEF LastUidInv
  <1>8. ASSUME NEW i \in 1 .. Len(c2s'), NEW j \in 1 .. Len(c2s'), i < j, IsClientRequest(c2s'[j])
        PROVE  /\ IsClientRequest(c2s'[i]) => c2s'[i].uid <= c2s'[j].uid
               /\ c2s'[i].type = "Ack" => c2s'[i].uid < c2s'[j].uid
    <2>1. i \in 1 .. Len(c2s) /\ c2s'[i] = c2s[i] /\ c2s[i] \in RangeOf(c2s)
      BY <1>1, <1>8
    <2>2. CASE j \in 1 .. Len(c2s)
      BY <1>1, <1>8, <2>1, <2>2 DEF UidOrderInv
    <2>3. CASE j = Len(c2s) + 1
      BY <1>1, <1>2, <1>3, <1>6, <1>7, <1>8, <2>1, <2>3
    <2>4. QED
      BY <1>1, <2>2, <2>3
  <1>9. \A h \in handling', n \in RangeOf(c2s') :
          IsClientRequest(h) /\ IsClientRequest(n) => h.uid <= n.uid
    BY <1>0, <1>1, <1>2, <1>4, <1>6 DEF UidOrderInv
  <1>10. \A u \in Known', n \in RangeOf(c2s') : IsClientRequest(n) => u <= n.uid
    BY <1>1, <1>2, <1>5, <1>6 DEF UidOrderInv
  <1>11. \A u \in Known', h \in handling' : IsClientRequest(h) => u < h.uid
    BY <1>0, <1>2 DEF UidOrderInv
  <1>12. QED
    BY <1>8, <1>9, <1>10, <1>11 DEF UidOrderInv, RangeOf, IsClientRequest

LEMMA UidsTaken ==
  ASSUME TypeInv, RunInv, UidOrderInv, Takes1
  PROVE  UidOrderInv'
  <1>1. /\ Len(c2s) \in Nat \ {0} /\ Read = c2s[1] /\ Len(c2s') = Len(c2s) - 1
        /\ \A i \in 1 .. Len(c2s') : i + 1 \in 1 .. Len(c2s) /\ c2s'[i] = c2s[i + 1]
        /\ 1 \in 1 .. Len(c2s) /\ Read \in RangeOf(c2s)
        /\ RangeOf(c2s') \subseteq RangeOf(c2s) /\ Known' = Known
    BY StreamTypes, RangeTail DEF Takes1, TakesFirst, Read
  <1>2. ASSUME NEW i \in 1 .. Len(c2s'), NEW j \in 1 .. Len(c2s'), i < j, IsClientRequest(c2s'[j])
        PROVE  /\ IsClientRequest(c2s'[i]) => c2s'[i].uid <= c2s'[j].uid
               /\ c2s'[i].type = "Ack" => c2s'[i].uid < c2s'[j].uid
    <2>1. i + 1 < j + 1
      BY <1>2
    <2>2. QED
      BY <1>1, <1>2, <2>1 DEF UidOrderInv
  <1>3. \A n \in RangeOf(c2s') :
          IsClientRequest(Read) /\ IsClientRequest(n) => Read.uid <= n.uid
    <2>1. SUFFICES ASSUME NEW j \in 1 .. Len(c2s'), IsClientRequest(Read),
                          IsClientRequest(c2s'[j])
                   PROVE  Read.uid <= c2s'[j].uid
      BY DEF RangeOf
    <2>2. 1 < j + 1
      BY <1>1
    <2>3. QED
      BY <1>1, <2>1, <2>2 DEF UidOrderInv
  <1>4. \A u \in Known : IsClientRequest(Read) /\ Read.uid \notin Known => u < Read.uid
    <2>1. \A u \in Known : IsClientRequest(Read) => u <= Read.uid
      BY <1>1 DEF UidOrderInv
    <2>2. Read.uid \in Int /\ \A u \in Known : u \in Int
      BY <1>1, StreamTypes
    <2>3. QED
      BY <2>1, <2>2
  <1>5. handling' = handling \/ (handling' = {Read} /\ Read.uid \notin Known)
    BY DEF Takes1, TakesFirst
  <1>6. \A h \in handling', n \in RangeOf(c2s') :
          IsClientRequest(h) /\ IsClientRequest(n) => h.uid <= n.uid
    BY <1>1, <1>3, <1>5 DEF UidOrderInv
  <1>7. \A u \in Known', n \in RangeOf(c2s') : IsClientRequest(n) => u <= n.uid
    BY <1>1 DEF UidOrderInv
  <1>8. \A u \in Known', h \in handling' : IsClientRequest(h) => u < h.uid
    BY <1>1, <1>4, <1>5 DEF UidOrderInv
  <1>9. QED
    BY <1>2, <1>6, <1>7, <1>8 DEF UidOrderInv, RangeOf, IsClientRequest

\* What MsgCaches learns from the handling of a request.
LEMMA HandlesKnown ==
  ASSUME TypeInv, Handles
  PROVE  /\ UNCHANGED <<c2s, removed, clientVars, faultVars>> /\ handling' = {}
         /\ \E h \in handling :
              /\ handling = {h}
              /\ IF IsClientRequest(h)
                 THEN /\ \E v \in Nat : PushReply(h.uid, v)
                      /\ Known' = Known \cup {h.uid} /\ s2c' = s2c /\ serving' = serving
                 ELSE UNCHANGED <<cache, due>> /\ Known' = Known
  <1>1. UNCHANGED <<c2s, removed, clientVars, faultVars>> /\ handling' = {}
    BY DEF Handles, HandleExecCommand, HandleServerId, HandleSendCommand
  <1>2. PICK h \in handling :
           IF IsClientRequest(h)
           THEN /\ \E v \in Nat : PushReply(h.uid, v)
                /\ s2c' = s2c /\ serving' = serving
           ELSE UNCHANGED <<cache, due>>
    <2>1. CASE HandleExecCommand
      <3>1. PICK h \in handling : HandleExecCommand!(h)
        BY <2>1 DEF HandleExecCommand
      <3>2. Len(log') \in Nat
        BY <3>1, MessageTypes DEF TypeInv, TypeOK
      <3>3. QED
        BY <3>1, <3>2 DEF IsClientRequest, ClientRequests
    <2>2. CASE HandleServerId
      BY <2>2 DEF HandleServerId, IsClientRequest, ClientRequests
    <2>3. CASE HandleSendCommand
      BY <2>3 DEF HandleSendCommand, IsClientRequest, ClientRequests
    <2>4. QED
      BY <2>1, <2>2, <2>3 DEF Handles
  <1>3. handling = {h}
    BY DEF TypeInv, TypeOK
  <1>4. IF IsClientRequest(h) THEN Known' = Known \cup {h.uid} ELSE Known' = Known
    BY <1>1, <1>2 DEF PushReply, Known
  <1>5. QED
    BY <1>1, <1>2, <1>3, <1>4

LEMMA UidOrderNext ==
  TypeInv /\ RunInv /\ LastUidInv /\ UidOrderInv /\ [Next]_vars /\ dup' = 0 => UidOrderInv'
  <1> SUFFICES ASSUME TypeInv, RunInv, LastUidInv, UidOrderInv, [Next]_vars, dup' = 0
               PROVE  UidOrderInv'
    OBVIOUS
  <1>1. CASE Rests1
    BY <1>1 DEF Rests1, Rests, UidOrderInv, RangeOf, IsClientRequest
  <1>2. CASE Handles
    <2>1. PICK h \in handling : Known' \subseteq Known \cup {h.uid} /\ (~IsClientRequest(h) => Known' = Known)
      BY <1>2, HandlesKnown
    <2>2. c2s' = c2s /\ handling' = {}
      BY <1>2, HandlesKnown
    <2>3. \A u \in Known', m \in RangeOf(c2s) : IsClientRequest(m) => u <= m.uid
      BY <2>1 DEF UidOrderInv
    <2>4. QED
      BY <2>2, <2>3 DEF UidOrderInv, RangeOf, IsClientRequest
  <1>3. QED
    BY <1>1, <1>2, StepUids, UidsPut, UidsTaken

LEMMA StepCalling ==
  ASSUME TypeInv, [Next]_vars
  PROVE  \/ Calls /\ nextuid' = nextuid + 1 /\ request'.uid = nextuid
         \/ nextuid' = nextuid /\ request' = request /\ (Calling' => Calling)
  <1>1. CASE Calls
    BY <1>1, MessageTypes DEF Calls, Call, Request, TypeInv, TypeOK
  <1>2. CASE ServerIdReceived \/ StartTimeout \/ Resend \/ LastTry \/ ReplyTimeout \/ FinalTimeout
    BY <1>2 DEF ServerIdReceived, StartTimeout, Resend, ResendIn, LastTry, ReplyTimeout,
       FinalTimeout, EndCall, Calling
  <1>3. CASE ReceiveFatal \/ ReceiveAck \/ ReceiveOther \/ ReceiveAckAsReply \/ ReceiveReply
    BY <1>3 DEF ReceiveFatal, ReceiveAck, ReceiveOther, ReceiveAckAsReply, ReceiveReply, Receive,
       EndCall, Calling
  <1>4. CASE SendCommand \/ Exit
    BY <1>4 DEF SendCommand, Exit, Calling
  <1>5. CASE \/ UNCHANGED vars \/ HandleAck \/ ReplyCached \/ FailRequest \/ TakeRequest
             \/ HandleExecCommand \/ HandleServerId \/ HandleSendCommand \/ SendExpired
             \/ ReadByInterpreter \/ Expire \/ Environment
    BY <1>5 DEF vars, HandleAck, ReplyCached, FailRequest, TakeRequest, ReadRequest,
       HandleExecCommand, HandleServerId, HandleSendCommand, SendExpired, ReadByInterpreter,
       Expire, Environment, LoseToServer, LoseToClient, Duplicate, clientVars, Calling
  <1>6. QED
    BY <1>1, <1>2, <1>3, <1>4, <1>5
       DEF Next, User, ExecCommand, GetServerId, ClientTimer, ClientReceive, Server, Calls,
           ClientRequests

LEMMA LastUidNext ==
  ASSUME TypeInv, RunInv, AckInv, SourceInv, LastUidInv, [Next]_vars, dup' = 0
  PROVE  LastUidInv'
  <1>1. ASSUME s2c # <<>>, phase = "start" \/ Received.type = "Reply"
        PROVE  Received.uid \in Int /\ Received.uid < nextuid
    <2>1. Received \in RangeOf(s2c) /\ Received \in ToClient
      BY <1>1, RangeTail, StreamTypes DEF Received
    <2>2. Received.type = "Reply" => Received.uid < nextuid
      BY <2>1 DEF RunInv, ReplyNumberInv
    <2>3. phase = "start" => fatal = "NotStarted" /\ Received.type # "FatalPythonErrorReply"
      BY <2>1 DEF TypeInv, CallInv, SourceInv
    <2>4. Received.type = "Ack" /\ phase = "start" => Received.uid < nextuid
      BY <2>1, <2>3 DEF AckInv
    <2>5. QED
      BY <1>1, <2>1, <2>2, <2>3, <2>4, StreamTypes DEF ToClient
  <1>2. \A m \in RangeOf(c2s') : m.type = "Ack" =>
           /\ m.uid \in Int /\ m.uid < nextuid
           /\ m \in RangeOf(c2s) \/ (m.uid = Received.uid /\ (Calling' => m.uid # request.uid))
    <2>1. \A m \in RangeOf(c2s) : m.type = "Ack" => m.uid \in Int /\ m.uid < nextuid
      BY StreamTypes DEF LastUidInv
    <2>2. CASE RangeOf(c2s') \subseteq RangeOf(c2s)
      BY <2>1, <2>2
    <2>3. CASE Puts
      <3>1. PICK m \in ToServer : Puts!(m)
        BY <2>3 DEF Puts
      <3>2. RangeOf(c2s') = RangeOf(c2s) \cup {m}
        BY <3>1, StreamTypes, RangeAppend
      <3>3. m.type = "Ack" => /\ m.uid = Received.uid /\ m.uid \in Int /\ m.uid < nextuid
                              /\ Calling' => m.uid # request.uid
        BY <1>1, <3>1
      <3>4. QED
        BY <2>1, <3>2, <3>3
    <2>4. Takes1 => RangeOf(c2s') \subseteq RangeOf(c2s)
      BY StreamTypes, RangeTail DEF Takes1, TakesFirst
    <2>5. Rests1 \/ Handles => RangeOf(c2s') \subseteq RangeOf(c2s)
      BY HandlesKnown DEF Rests1, Rests, RangeOf
    <2>6. QED
      BY <2>2, <2>3, <2>4, <2>5, StepUids
  <1>3. nextuid \in Nat
    BY StreamTypes
  <1>4. CASE nextuid' = nextuid /\ request' = request /\ (Calling' => Calling)
    <2>1. Calling' => /\ request'.uid = nextuid' - 1
                      /\ \A m \in RangeOf(c2s') : m.type = "Ack" => m.uid < request'.uid
      BY <1>2, <1>3, <1>4 DEF LastUidInv
    <2>2. QED
      BY <1>2, <1>4, <2>1 DEF LastUidInv, RangeOf, Calling
  <1>5. CASE nextuid' = nextuid + 1 /\ request'.uid = nextuid
    <2>1. \A m \in RangeOf(c2s') : m.type = "Ack" => m.uid < nextuid' /\ m.uid < request'.uid
      BY <1>2, <1>3, <1>5
    <2>2. QED
      BY <1>3, <1>5, <2>1 DEF LastUidInv, RangeOf
  <1>6. QED
    BY <1>4, <1>5, StepCalling

-----------------------------------------------------------------------------
(* What comes from the server.                                              *)

\* What a step adds to the messages to the client.
Old(r) == r \in RangeOf(s2c)
Repeated(r) == \/ r.type = "Reply" /\ ReplyCached /\ r.uid = Read.uid
               \/ \E u \in due : /\ r.type = "Reply" /\ SendExpired!(u) /\ r.uid = u
                                 /\ cache[u].left > 0
Acknowledged(r) == r.type = "Ack" /\ r.uid = Read.uid /\ Reads /\ IsResponseExpected(Read)
Fatal(r) == r.type = "FatalPythonErrorReply" /\ ~serving'

LEMMA StepReplies ==
  ASSUME TypeInv, SourceInv, [Next]_vars
  PROVE  /\ \A r \in RangeOf(s2c') : Old(r) \/ Repeated(r) \/ Acknowledged(r) \/ Fatal(r)
         /\ serving' => serving
  <1> DEFINE Goal == /\ \A r \in RangeOf(s2c') : Old(r) \/ Repeated(r) \/ Acknowledged(r) \/ Fatal(r)
                     /\ serving' => serving
  <1>a. s2c \in Seq(ToClient)
    BY DEF TypeInv, TypeOK
  <1>b. ASSUME s2c' = s2c \/ (s2c # <<>> /\ s2c' = Tail(s2c)), serving' = serving
        PROVE  Goal
    <2>1. RangeOf(s2c') \subseteq RangeOf(s2c)
      BY <1>a, <1>b, RangeTail
    <2>2. QED
      BY <1>b, <2>1 DEF Old
  <1>c. c2s # <<>> => Read.uid \in Int
    BY MessageTypes DEF TypeInv, TypeOK, Read
  <1>d. ASSUME c2s # <<>>
        PROVE  /\ Acked \in Seq(ToClient)
               /\ \A r \in RangeOf(Acked) :
                     \/ Old(r)
                     \/ r.type = "Ack" /\ r.uid = Read.uid /\ IsResponseExpected(Read)
    <2>1. /\ ServerAck(Read.uid) \in ToClient /\ ServerAck(Read.uid).uid = Read.uid
          /\ ServerAck(Read.uid).type = "Ack"
      BY <1>c, <1>d, MessageTypes DEF ServerAck
    <2>2. RangeOf(Append(s2c, ServerAck(Read.uid))) = RangeOf(s2c) \cup {ServerAck(Read.uid)}
      BY <1>a, <2>1, RangeAppend
    <2>3. QED
      BY <1>a, <2>1, <2>2 DEF Acked, Old
  <1>e. FatalPythonErrorReply \in ToClient /\ FatalPythonErrorReply.type = "FatalPythonErrorReply"
    BY MessageTypes DEF FatalPythonErrorReply
  <1>1. CASE UNCHANGED vars
    BY <1>1, <1>b DEF vars, serverVars
  <1>2. CASE ServerIdReceived \/ StartTimeout \/ Resend \/ LastTry \/ ReplyTimeout \/ FinalTimeout
    BY <1>2, <1>b DEF ServerIdReceived, StartTimeout, Resend, ResendIn, LastTry, ReplyTimeout,
       FinalTimeout, serverVars
  <1>3. CASE ReceiveFatal \/ ReceiveAck \/ ReceiveOther \/ ReceiveAckAsReply \/ ReceiveReply
    BY <1>3, <1>b DEF ReceiveFatal, ReceiveAck, ReceiveOther, ReceiveAckAsReply, ReceiveReply,
       Receive, serverVars
  <1>4. CASE SendCommand \/ Exit \/ Calls
    BY <1>4, <1>b DEF SendCommand, Exit, Calls, Call, serverVars
  <1>5. CASE \/ HandleAck \/ HandleExecCommand \/ HandleServerId \/ ReadByInterpreter \/ Expire
             \/ Environment
    BY <1>5, <1>b DEF HandleAck, HandleExecCommand, HandleServerId, ReadByInterpreter, Expire,
       Environment, LoseToServer, LoseToClient, Duplicate, serverVars
  <1>6. CASE ReplyCached
    <2>1. /\ c2s # <<>> /\ serving' = serving
          /\ s2c' = Append(Acked, Reply(Read.uid, cache[Read.uid].val))
      BY <1>6 DEF ReplyCached, ReadRequest
    <2>2. /\ Reply(Read.uid, cache[Read.uid].val) \in ToClient
          /\ Reply(Read.uid, cache[Read.uid].val).type = "Reply"
          /\ Reply(Read.uid, cache[Read.uid].val).uid = Read.uid
      BY <1>6, <1>c, <2>1, MessageTypes DEF ReplyCached, IsCached, TypeInv, TypeOK, Reply
    <2>3. RangeOf(s2c') = RangeOf(Acked) \cup {Reply(Read.uid, cache[Read.uid].val)}
      BY <1>d, <2>1, <2>2, RangeAppend
    <2>4. QED
      BY <1>6, <1>d, <2>1, <2>2, <2>3 DEF Repeated, Acknowledged, Reads
  <1>7. CASE FailRequest
    <2>1. c2s # <<>> /\ serving' = FALSE /\ s2c' = Append(Acked, FatalPythonErrorReply)
      BY <1>7 DEF FailRequest, ReadRequest
    <2>2. RangeOf(s2c') = RangeOf(Acked) \cup {FatalPythonErrorReply}
      BY <1>d, <1>e, <2>1, RangeAppend
    <2>3. QED
      BY <1>7, <1>d, <1>e, <2>1, <2>2 DEF Acknowledged, Fatal, Reads
  <1>8. CASE TakeRequest
    BY <1>8, <1>d DEF TakeRequest, ReadRequest, Acknowledged, Reads
  <1>9. CASE HandleSendCommand
    <2>1. /\ s2c' = s2c \/ (s2c' = Append(s2c, FatalPythonErrorReply) /\ ~serving')
          /\ serving' => serving
      BY <1>9 DEF HandleSendCommand, SourceInv
    <2>2. RangeOf(Append(s2c, FatalPythonErrorReply)) = RangeOf(s2c) \cup {FatalPythonErrorReply}
      BY <1>a, <1>e, RangeAppend
    <2>3. QED
      BY <1>e, <2>1, <2>2 DEF Old, Fatal
  <1>10. CASE SendExpired
    <2>1. PICK u \in due : SendExpired!(u)
      BY <1>10 DEF SendExpired
    <2>2. u \in DOMAIN cache /\ serving' = serving
      BY <2>1 DEF TypeInv, TypeOK
    <2>3. /\ Reply(u, cache[u].val) \in ToClient /\ Reply(u, cache[u].val).type = "Reply"
          /\ Reply(u, cache[u].val).uid = u
      BY <2>2, MessageTypes DEF TypeInv, TypeOK, Reply
    <2>4. CASE s2c' = s2c
      BY <1>b, <2>2, <2>4
    <2>5. CASE s2c' = Append(s2c, Reply(u, cache[u].val)) /\ cache[u].left > 0
      <3>1. RangeOf(s2c') = RangeOf(s2c) \cup {Reply(u, cache[u].val)}
        BY <1>a, <2>3, <2>5, RangeAppend
      <3>2. QED
        BY <2>1, <2>2, <2>3, <2>5, <3>1 DEF Old, Repeated
    <2>6. QED
      BY <2>1, <2>4, <2>5
  <1>11. QED
    BY <1>1, <1>2, <1>3, <1>4, <1>5, <1>6, <1>7, <1>8, <1>9, <1>10
       DEF Next, User, ExecCommand, GetServerId, ClientTimer, ClientReceive, Server, Calls,
           ClientRequests

\* The uids of requests that the server has taken.
TakenUids == Known \cup {h.uid : h \in {n \in handling : IsClientRequest(n)}}

LEMMA TakenUidsStay ==
  ASSUME TypeInv, RunInv, [Next]_vars
  PROVE  TakenUids \subseteq TakenUids' /\ Known \subseteq Known'
  <1>1. CASE QuietAcks
    BY <1>1 DEF QuietAcks, TakenUids, IsClientRequest
  <1>2. CASE Calls
    BY <1>2 DEF Calls, Call, serverVars, TakenUids, Known, IsClientRequest
  <1>3. CASE Reads
    <2>1. Known' = Known /\ handling = {}
      BY <1>3 DEF Reads, ReplyCached, FailRequest, TakeRequest, ReadRequest, Idle, Known
    <2>2. QED
      BY <2>1 DEF TakenUids, IsClientRequest
  <1>4. CASE Handles
    <2>1. PICK h \in handling : /\ handling = {h}
                                /\ IF IsClientRequest(h) THEN Known' = Known \cup {h.uid}
                                   ELSE Known' = Known
      BY <1>4, HandlesKnown
    <2>2. QED
      BY <2>1 DEF TakenUids, IsClientRequest
  <1>5. QED
    BY <1>1, <1>2, <1>3, <1>4, StepAcks

LEMMA SourceNext ==
  ASSUME TypeInv, TypeInv', RunInv, AckInv, SourceInv, [Next]_vars
  PROVE  SourceInv'
  <1>1. phase' = "start" => c2s' = <<>> /\ handling' = {} /\ serving'
    <2>1. SUFFICES ASSUME phase' = "start" PROVE c2s' = <<>> /\ handling' = {} /\ serving'
      OBVIOUS
    <2>2. phase = "start" /\ c2s = <<>> /\ handling = {} /\ serving => c2s' = <<>> /\ handling' = {} /\ serving'
      <3> SUFFICES ASSUME phase = "start", c2s = <<>>, handling = {}, serving
                   PROVE  c2s' = <<>> /\ handling' = {} /\ serving'
        OBVIOUS
      <3>1. ~Calls /\ ~SendCommand /\ ~Exit /\ ~Resend /\ ~LastTry /\ ~ReplyTimeout /\ ~FinalTimeout
        BY DEF Calls, Call, SendCommand, Exit, Resend, ResendIn, LastTry, ReplyTimeout, FinalTimeout
      <3>2. /\ ~ReceiveFatal /\ ~ReceiveOther /\ ~ReceiveAck /\ ~ReceiveAckAsReply /\ ~ReceiveReply
            /\ ~Duplicate
        BY DEF ReceiveFatal, ReceiveOther, ReceiveAck, ReceiveAckAsReply, ReceiveReply, Receive,
           Duplicate
      <3>3. ~HandleAck /\ ~Reads /\ ~Handles /\ ~ReadByInterpreter /\ ~LoseToServer
        BY DEF HandleAck, Reads, ReplyCached, FailRequest, TakeRequest, ReadRequest, Handles,
           HandleExecCommand, HandleServerId, HandleSendCommand, ReadByInterpreter, LoseToServer
      <3>4. ~ServerIdReceived /\ ~StartTimeout
        BY <2>1 DEF ServerIdReceived, StartTimeout
      <3>5. Expire \/ SendExpired \/ LoseToClient \/ UNCHANGED vars
        BY <3>1, <3>2, <3>3, <3>4 DEF Next, User, ExecCommand, GetServerId, ClientTimer,
           ClientReceive, Server, Environment, Calls, ClientRequests, Reads, Handles
      <3>6. QED
        BY <3>5 DEF Expire, SendExpired, LoseToClient, vars, serverVars, clientVars
    <2>3. phase = "start"
      <3>1. CASE Calls
        BY <2>1, <3>1 DEF Calls, Call
      <3>2. CASE ServerIdReceived \/ StartTimeout \/ Resend \/ LastTry \/ ReplyTimeout \/ FinalTimeout
        BY <2>1, <3>2 DEF ServerIdReceived, StartTimeout, Resend, ResendIn, LastTry, ReplyTimeout,
           FinalTimeout, EndCall
      <3>3. CASE ReceiveFatal \/ ReceiveAck \/ ReceiveOther \/ ReceiveAckAsReply \/ ReceiveReply
        BY <2>1, <3>3 DEF ReceiveFatal, ReceiveAck, ReceiveOther, ReceiveAckAsReply, ReceiveReply,
           Receive, EndCall
      <3>4. CASE SendCommand \/ Exit
        BY <2>1, <3>4 DEF SendCommand, Exit
      <3>5. CASE \/ UNCHANGED vars \/ HandleAck \/ Reads \/ Handles \/ SendExpired
                 \/ ReadByInterpreter \/ Expire \/ Environment
        BY <2>1, <3>5 DEF vars, HandleAck, Reads, ReplyCached, FailRequest, TakeRequest,
           ReadRequest, Handles, HandleExecCommand, HandleServerId, HandleSendCommand, SendExpired,
           ReadByInterpreter, Expire, Environment, LoseToServer, LoseToClient, Duplicate, clientVars
      <3>6. QED
        BY <3>1, <3>2, <3>3, <3>4, <3>5
           DEF Next, User, ExecCommand, GetServerId, ClientTimer, ClientReceive, Server, Calls,
               ClientRequests, Reads, Handles
    <2>4. QED
      BY <2>2, <2>3 DEF SourceInv
  <1>2. handling' # {} => serving'
    <2>1. CASE Handles
      BY <2>1, HandlesKnown
    <2>2. CASE Reads
      BY <2>2 DEF Reads, ReplyCached, FailRequest, TakeRequest, ReadRequest, Idle
    <2>3. CASE Calls
      BY <2>3 DEF Calls, Call, serverVars, SourceInv
    <2>4. CASE QuietAcks /\ ~Reads /\ ~Handles
      <3>1. handling' = handling
        BY <2>4 DEF QuietAcks
      <3>2. serving' = serving
        BY <2>4 DEF Next, vars, User, ExecCommand, GetServerId, SendCommand, Exit, Call,
           ClientTimer, StartTimeout, Resend, ResendIn, LastTry, ReplyTimeout, FinalTimeout,
           ClientReceive, ServerIdReceived, ReceiveFatal, ReceiveOther, ReceiveAck,
           ReceiveAckAsReply, ReceiveReply, Receive, Server, Reads, Handles, HandleAck,
           SendExpired, ReadByInterpreter, Expire, Environment, LoseToServer, LoseToClient,
           Duplicate, serverVars
      <3>3. QED
        BY <3>1, <3>2 DEF SourceInv
    <2>5. QED
      BY <2>1, <2>2, <2>3, <2>4, StepAcks
  <1>3. \A r \in RangeOf(s2c') : r.type = "Reply" => r.uid \in Known'
    <2>1. \A r \in RangeOf(s2c) : r.type = "Reply" => r.uid \in Known
      BY DEF SourceInv
    <2>2. \A r : Repeated(r) => r.uid \in Known
      BY DEF Repeated, ReplyCached, IsCached, Known, TypeInv, TypeOK
    <2>3. QED
      BY <2>1, <2>2, StepReplies, TakenUidsStay DEF Old, Acknowledged, Fatal
  <1>4. \A r \in RangeOf(s2c') : r.type = "FatalPythonErrorReply" => ~serving'
    BY StepReplies DEF Old, Repeated, Acknowledged, Fatal, SourceInv
  <1>5. Fine' => Fine
    BY StepAcks DEF QuietAcks, Calls, Call, Usable, Reads, ReplyCached, FailRequest, TakeRequest,
       ReadRequest, Handles, HandleExecCommand, HandleServerId, HandleSendCommand, clientVars, Fine
  <1>6. ASSUME Fine, Reads, IsResponseExpected(Read) PROVE Read.uid \in TakenUids'
    <2>1. /\ c2s # <<>> /\ Read.type # "Ack" /\ Known' = Known
          /\ Read.uid \in Known \/ Read.type = "ExitRequest" \/ handling' = {Read}
      BY <1>6 DEF Reads, ReplyCached, FailRequest, TakeRequest, ReadRequest, IsCached, IsRemoved, Known
    <2>2. Read \in Requests /\ Read \in ToServer
      BY <2>1, StreamTypes, RangeTail DEF Read
    <2>3. Read.type # "ExitRequest"
      BY <1>6, <2>2 DEF AckInv, Fine
    <2>4. IsClientRequest(Read)
      BY <1>6, <2>1, <2>2, <2>3 DEF IsClientRequest, ClientRequests, IsResponseExpected, ToServer, RequestTypes
    <2>5. QED
      BY <2>1, <2>3, <2>4 DEF TakenUids, IsClientRequest
  <1>7. Fine' => \A r \in RangeOf(s2c') : r.type = "Ack" => r.uid \in TakenUids'
    <2>1. Fine => \A r \in RangeOf(s2c) : r.type = "Ack" => r.uid \in TakenUids
      BY DEF SourceInv, Fine, TakenUids
    <2>2. QED
      BY <1>5, <1>6, <2>1, StepReplies, TakenUidsStay DEF Old, Repeated, Acknowledged, Fatal
  <1>8. phase' = "reply" => request'.uid \in TakenUids'
    <2>1. SUFFICES ASSUME phase' = "reply" PROVE request'.uid \in TakenUids'
      OBVIOUS
    <2>2. Fine
      <3>1. Fine'
        BY <2>1 DEF TypeInv, CallInv, Fine
      <3>2. QED
        BY <1>5, <3>1
    <2>3. request' = request
      BY <2>1, StepAcks DEF QuietAcks, Calls, Call, Reads, ReplyCached, FailRequest, TakeRequest,
         ReadRequest, Handles, HandleExecCommand, HandleServerId, HandleSendCommand, clientVars
    <2>4. \/ phase = "reply"
          \/ \E r \in RangeOf(s2c) : r.type = "Ack" /\ r.uid = request.uid
      BY <2>1, StepAcks DEF QuietAcks, Calls, Call, Reads, ReplyCached, FailRequest, TakeRequest,
         ReadRequest, Handles, HandleExecCommand, HandleServerId, HandleSendCommand, clientVars
    <2>5. request.uid \in TakenUids
      BY <2>2, <2>4 DEF SourceInv, Fine, TakenUids
    <2>6. QED
      BY <2>3, <2>5, TakenUidsStay
  <1>9. QED
    BY <1>1, <1>2, <1>3, <1>4, <1>7, <1>8 DEF SourceInv, Fine, TakenUids, RangeOf, IsClientRequest

-----------------------------------------------------------------------------
(* The copies of the running request.                                       *)

LEMMA OnceTail ==
  ASSUME NEW S, NEW s \in Seq(S), s # <<>>, NEW set, OnceAtMost(s, set)
  PROVE  /\ OnceAtMost(Tail(s), set)
         /\ Head(s) \in set => RangeOf(Tail(s)) \cap set = {}
  <1>1. /\ Len(s) \in Nat \ {0} /\ Head(s) = s[1]
        /\ Len(Tail(s)) = Len(s) - 1
        /\ \A i \in 1 .. Len(s) - 1 : Tail(s)[i] = s[i + 1]
    OBVIOUS
  <1>2. OnceAtMost(Tail(s), set)
    <2>1. SUFFICES ASSUME NEW i \in 1 .. Len(s) - 1, NEW j \in 1 .. Len(s) - 1,
                          s[i + 1] \in set, s[j + 1] \in set
                   PROVE  i = j
      BY <1>1 DEF OnceAtMost
    <2>2. i + 1 \in 1 .. Len(s) /\ j + 1 \in 1 .. Len(s)
      BY <1>1
    <2>3. i + 1 = j + 1
      BY <2>1, <2>2 DEF OnceAtMost
    <2>4. QED
      BY <2>3
  <1>3. ASSUME Head(s) \in set, NEW x \in RangeOf(Tail(s)), x \in set PROVE FALSE
    <2>1. PICK i \in 1 .. Len(s) - 1 : x = s[i + 1]
      BY <1>1, <1>3 DEF RangeOf
    <2>2. i + 1 \in 1 .. Len(s) /\ 1 \in 1 .. Len(s) /\ i + 1 # 1
      BY <1>1
    <2>3. QED
      BY <1>1, <1>3, <2>1, <2>2 DEF OnceAtMost
  <1>4. QED
    BY <1>2, <1>3

LEMMA OnceAppend ==
  ASSUME NEW S, NEW s \in Seq(S), NEW x \in S, NEW set, OnceAtMost(s, set),
         x \notin set \/ RangeOf(s) \cap set = {}
  PROVE  OnceAtMost(Append(s, x), set)
  <1>1. /\ Len(Append(s, x)) = Len(s) + 1 /\ Len(s) \in Nat
        /\ \A i \in 1 .. Len(s) : Append(s, x)[i] = s[i] /\ s[i] \in RangeOf(s)
        /\ Append(s, x)[Len(s) + 1] = x
    BY DEF RangeOf
  <1>2. SUFFICES ASSUME NEW i \in 1 .. Len(s) + 1, NEW j \in 1 .. Len(s) + 1,
                        Append(s, x)[i] \in set, Append(s, x)[j] \in set
                 PROVE  i = j
    BY <1>1 DEF OnceAtMost
  <1>3. CASE i \in 1 .. Len(s) /\ j \in 1 .. Len(s)
    BY <1>1, <1>2, <1>3 DEF OnceAtMost
  <1>4. CASE i = Len(s) + 1 \/ j = Len(s) + 1
    BY <1>1, <1>2, <1>4
  <1>5. QED
    BY <1>1, <1>3, <1>4

\* The messages to the server while a call runs.
LEMMA CopiesToServer ==
  ASSUME TypeInv, RunInv, Calling, OnceAtMost(c2s, {request}), [Next]_vars, dup' = 0,
         Calling', request' = request, ~Resend, ~Calls
  PROVE  /\ OnceAtMost(c2s', {request})
         /\ request \in RangeOf(c2s') => request \in RangeOf(c2s)
         /\ Reads /\ Read = request => request \notin RangeOf(c2s')
  <1>0. c2s \in Seq(ToServer) /\ IsClientRequest(request)
    BY StreamTypes
  <1>1. CASE Puts
    <2>1. PICK m \in ToServer : Puts!(m)
      BY <1>1 DEF Puts
    <2>2. m # request
      BY <1>0, <2>1
    <2>3. RangeOf(c2s') = RangeOf(c2s) \cup {m}
      BY <1>0, <2>1, RangeAppend
    <2>4. OnceAtMost(c2s', {request})
      BY <1>0, <2>1, <2>2, OnceAppend
    <2>5. ~Reads
      <3>1. Len(c2s') = Len(c2s) + 1 /\ Len(c2s) \in Nat
        BY <1>0, <2>1
      <3>2. Reads => c2s # <<>> /\ c2s' = Tail(c2s)
        BY DEF Reads, ReplyCached, FailRequest, TakeRequest, ReadRequest
      <3>3. Reads => Len(c2s') = Len(c2s) - 1
        BY <1>0, <3>2
      <3>4. QED
        BY <3>1, <3>3
    <2>6. QED
      BY <2>2, <2>3, <2>4, <2>5
  <1>2. CASE Takes1
    BY <1>0, <1>2, OnceTail, RangeTail DEF Takes1, TakesFirst, Read
  <1>3. CASE c2s' = c2s
    <2>1. ~Reads
      <3>1. Reads => c2s # <<>> /\ c2s' = Tail(c2s)
        BY DEF Reads, ReplyCached, FailRequest, TakeRequest, ReadRequest
      <3>2. Reads => Len(c2s') = Len(c2s) - 1 /\ Len(c2s) \in Nat
        BY <1>0, <3>1
      <3>3. QED
        BY <1>3, <3>2
    <2>2. QED
      BY <1>3, <2>1 DEF OnceAtMost, RangeOf
  <1>4. QED
    BY <1>1, <1>2, <1>3, StepUids, HandlesKnown DEF Rests1, Rests

\* A step puts at most an Ack of the request it reads, and then at most one more message,
\* behind what is on its way to the client, or takes the first message.
LEMMA StepToClient ==
  ASSUME TypeInv, [Next]_vars
  PROVE  \/ s2c' = s2c
         \/ s2c # <<>> /\ s2c' = Tail(s2c) /\ (LoseToClient \/ ClientReceive)
         \/ ~Reads /\ \E r \in ToClient : r.type # "Ack" /\ s2c' = Append(s2c, r)
         \/ Reads /\ (s2c' = Acked \/ \E r \in ToClient : r.type # "Ack" /\ s2c' = Append(Acked, r))
  <1>a. ~Reads \/ (Reads /\ c2s # <<>> /\ Read.uid \in Int)
    BY MessageTypes DEF TypeInv, TypeOK, Reads, ReplyCached, FailRequest, TakeRequest, ReadRequest,
       Read
  <1>b. FatalPythonErrorReply \in ToClient /\ FatalPythonErrorReply.type # "Ack"
    BY MessageTypes DEF FatalPythonErrorReply
  <1>c. \A u \in Int, v \in Nat : Reply(u, v) \in ToClient /\ Reply(u, v).type # "Ack"
    BY MessageTypes DEF Reply
  <1>1. CASE UNCHANGED vars
    BY <1>1 DEF vars, serverVars
  <1>2. CASE StartTimeout \/ Resend \/ LastTry \/ ReplyTimeout \/ FinalTimeout
    BY <1>2 DEF StartTimeout, Resend, ResendIn, LastTry, ReplyTimeout, FinalTimeout, serverVars
  <1>3. CASE ClientReceive
    BY <1>3 DEF ClientReceive, ServerIdReceived, ReceiveFatal, ReceiveAck, ReceiveOther,
       ReceiveAckAsReply, ReceiveReply, Receive
  <1>4. CASE SendCommand \/ Exit \/ Calls
    BY <1>4 DEF SendCommand, Exit, Calls, Call
  <1>5. CASE \/ HandleAck \/ HandleExecCommand \/ HandleServerId \/ ReadByInterpreter \/ Expire
             \/ Environment
    BY <1>5 DEF HandleAck, HandleExecCommand, HandleServerId, ReadByInterpreter, Expire,
       Environment, LoseToServer, LoseToClient, Duplicate
  <1>6. CASE ReplyCached
    <2>1. cache[Read.uid].val \in Nat
      BY <1>6 DEF ReplyCached, IsCached, TypeInv, TypeOK
    <2>2. QED
      BY <1>6, <1>a, <1>c, <2>1 DEF ReplyCached, Reads
  <1>7. CASE FailRequest \/ TakeRequest
    BY <1>7, <1>b DEF FailRequest, TakeRequest, Reads
  <1>8. CASE HandleSendCommand
    <2>1. ~Reads
      BY <1>8 DEF HandleSendCommand, Reads, ReplyCached, FailRequest, TakeRequest, ReadRequest, Idle
    <2>2. QED
      BY <1>8, <1>b, <2>1 DEF HandleSendCommand
  <1>9. CASE SendExpired
    <2>1. PICK u \in due : SendExpired!(u)
      BY <1>9 DEF SendExpired
    <2>2. u \in Int /\ cache[u].val \in Nat
      BY DEF TypeInv, TypeOK
    <2>3. ~Reads
      BY DEF Reads, ReplyCached, FailRequest, TakeRequest, ReadRequest, Idle
    <2>4. QED
      BY <1>c, <2>1, <2>2, <2>3
  <1>10. QED
    BY <1>1, <1>2, <1>3, <1>4, <1>5, <1>6, <1>7, <1>8, <1>9
       DEF Next, User, ExecCommand, GetServerId, ClientTimer, Server, Calls, ClientRequests

\* The Acks on their way while a call runs.
LEMMA AcksToClient ==
  ASSUME TypeInv, RunInv, AckInv, Calling, CopyInv, [Next]_vars
  PROVE  /\ OnceAtMost(s2c', AcksOf(request))
         /\ \/ RangeOf(s2c') \cap AcksOf(request) = {}
            \/ RangeOf(s2c) \cap AcksOf(request) # {}
            \/ Reads /\ Read = request
  <1>0. /\ s2c \in Seq(ToClient) /\ request \in Requests /\ IsClientRequest(request) /\ Fine
        /\ OnceAtMost(s2c, AcksOf(request)) /\ request.uid \in Int
        /\ request \in RangeOf(c2s) => RangeOf(s2c) \cap AcksOf(request) = {}
    BY StreamTypes DEF CopyInv, Fine
  <1>1. \A r : r.type # "Ack" => r \notin AcksOf(request)
    BY DEF AcksOf
  <1>2. CASE s2c' = s2c
    BY <1>0, <1>2 DEF RangeOf, OnceAtMost
  <1>3. CASE s2c # <<>> /\ s2c' = Tail(s2c)
    BY <1>0, <1>3, RangeTail, OnceTail
  <1>4. ASSUME NEW r \in ToClient, r.type # "Ack", s2c' = Append(s2c, r)
        PROVE  /\ OnceAtMost(s2c', AcksOf(request))
               /\ RangeOf(s2c') \cap AcksOf(request) = RangeOf(s2c) \cap AcksOf(request)
    BY <1>0, <1>1, <1>4, RangeAppend, OnceAppend
  <1>5. ASSUME Reads
        PROVE  /\ Acked \in Seq(ToClient) /\ OnceAtMost(Acked, AcksOf(request))
               /\ \/ RangeOf(Acked) \cap AcksOf(request) \subseteq RangeOf(s2c)
                  \/ Read = request
    <2>1. c2s # <<>> /\ Read.type # "Ack"
      BY <1>5 DEF Reads, ReplyCached, FailRequest, TakeRequest, ReadRequest
    <2>2. Read \in RangeOf(c2s) /\ Read \in ToServer /\ Read \in Requests /\ Read.uid \in Int
      BY <2>1, StreamTypes, RangeTail DEF Read
    <2>3. Acked = s2c => /\ Acked \in Seq(ToClient) /\ OnceAtMost(Acked, AcksOf(request))
                         /\ RangeOf(Acked) \cap AcksOf(request) \subseteq RangeOf(s2c)
      BY <1>0
    <2>4. ASSUME IsResponseExpected(Read), Acked = Append(s2c, ServerAck(Read.uid))
          PROVE  /\ Acked \in Seq(ToClient) /\ OnceAtMost(Acked, AcksOf(request))
                 /\ \/ RangeOf(Acked) \cap AcksOf(request) \subseteq RangeOf(s2c)
                    \/ Read = request
      <3>1. ServerAck(Read.uid) \in ToClient /\ ServerAck(Read.uid).uid = Read.uid
        BY <2>2, MessageTypes DEF ServerAck
      <3>2. IsClientRequest(Read)
        BY <1>0, <2>1, <2>2, <2>4 DEF AckInv, Fine, IsClientRequest, ClientRequests,
           IsResponseExpected, ToServer, RequestTypes
      <3>3. Read.uid = request.uid => Read = request
        BY <1>0, <2>2, <3>2 DEF RunInv, NumberInv
      <3>4. ServerAck(Read.uid) \in AcksOf(request) => Read = request
        BY <3>1, <3>3 DEF AcksOf
      <3>5. RangeOf(Acked) = RangeOf(s2c) \cup {ServerAck(Read.uid)} /\ Acked \in Seq(ToClient)
        BY <1>0, <2>4, <3>1, RangeAppend
      <3>6. OnceAtMost(Acked, AcksOf(request))
        BY <1>0, <2>2, <2>4, <3>1, <3>4, OnceAppend
      <3>7. QED
        BY <3>4, <3>5, <3>6
    <2>5. QED
      BY <2>3, <2>4 DEF Acked
  <1>6. ASSUME Reads, NEW r \in ToClient, r.type # "Ack", s2c' = Append(Acked, r)
        PROVE  /\ OnceAtMost(s2c', AcksOf(request))
               /\ RangeOf(s2c') \cap AcksOf(request) = RangeOf(Acked) \cap AcksOf(request)
    BY <1>1, <1>5, <1>6, RangeAppend, OnceAppend
  <1>7. CASE Reads /\ s2c' = Acked
    <2>1. OnceAtMost(s2c', AcksOf(request)) /\ RangeOf(s2c') = RangeOf(Acked)
      BY <1>5, <1>7
    <2>2. QED
      BY <1>5, <1>7, <2>1
  <1>8. CASE Reads /\ \E r \in ToClient : r.type # "Ack" /\ s2c' = Append(Acked, r)
    BY <1>5, <1>6, <1>8
  <1>9. QED
    BY <1>2, <1>3, <1>4, <1>7, <1>8, StepToClient

\* A timer expires only once everything sent has been delivered and handled.
LEMMA PromptTimers ==
  ASSUME Prompt, TypeInv
  PROVE  /\ Resend => /\ Calling /\ c2s = <<>> /\ s2c = <<>> /\ handling = {} /\ due = {}
                      /\ UNCHANGED <<phase, request, s2c, serverVars, faultVars>>
                      /\ c2s' = <<request>> /\ left \in Nat \ {0} /\ left' = left - 1
         /\ LastTry => /\ c2s = <<>> /\ s2c = <<>> /\ UNCHANGED <<c2s, s2c>>
         /\ Expire /\ Calling => c2s = <<>> /\ s2c = <<>>
         /\ Expire => c2s = <<>> /\ due = {}
         /\ ReplyTimeout \/ FinalTimeout =>
               /\ c2s = <<>> /\ s2c = <<>> /\ handling = {}
               /\ request.uid \in DOMAIN cache => cache[request.uid].left = 0
  <1>1. Resend => /\ Calling /\ Settled /\ s2c = <<>> /\ left > 0 /\ left' = left - 1
                  /\ UNCHANGED <<phase, request, s2c, serverVars, faultVars>>
                  /\ c2s' = Append(c2s, request)
    BY DEF Resend, ResendIn, TimerMayExpire, Settled, Receiving, Calling
  <1>2. left \in Nat
    BY ConstantsAssumption DEF ConstantsAssumption, TypeInv, TypeOK
  <1>3. Append(<<>>, request) = <<request>>
    OBVIOUS
  <1>4. Resend => /\ Calling /\ c2s = <<>> /\ s2c = <<>> /\ handling = {} /\ due = {}
                  /\ UNCHANGED <<phase, request, s2c, serverVars, faultVars>>
                  /\ c2s' = <<request>> /\ left \in Nat \ {0} /\ left' = left - 1
    BY <1>1, <1>2, <1>3 DEF Settled
  <1>5. LastTry => c2s = <<>> /\ s2c = <<>> /\ UNCHANGED <<c2s, s2c>>
    BY DEF LastTry, TimerMayExpire, Settled, Receiving
  <1>6. Expire => c2s = <<>> /\ due = {} /\ (Calling => s2c = <<>>)
    BY DEF Expire, TimerMayExpire, Settled, Receiving, Calling
  <1>7. ReplyTimeout \/ FinalTimeout =>
          /\ c2s = <<>> /\ s2c = <<>> /\ handling = {}
          /\ request.uid \in DOMAIN cache => cache[request.uid].left = 0
    BY DEF ReplyTimeout, FinalTimeout, ReplyTimerMayExpire, Settled, Receiving
  <1>8. QED
    BY <1>4, <1>5, <1>6, <1>7

\* Where a running call goes.
LEMMA StepPhase ==
  ASSUME TypeInv, Calling', ~Calls, [Next]_vars
  PROVE  phase' = phase \/ ReceiveAck \/ LastTry
  <1>1. CASE ServerIdReceived \/ StartTimeout \/ ReplyTimeout \/ FinalTimeout
    BY <1>1 DEF ServerIdReceived, StartTimeout, ReplyTimeout, FinalTimeout, EndCall, Calling
  <1>2. CASE ReceiveFatal \/ ReceiveOther \/ ReceiveAckAsReply \/ ReceiveReply
    BY <1>2 DEF ReceiveFatal, ReceiveOther, ReceiveAckAsReply, ReceiveReply, EndCall, Calling
  <1>3. CASE Resend \/ SendCommand \/ Exit
    BY <1>3 DEF Resend, ResendIn, SendCommand, Exit
  <1>4. CASE \/ UNCHANGED vars \/ HandleAck \/ ReplyCached \/ FailRequest \/ TakeRequest
             \/ HandleExecCommand \/ HandleServerId \/ HandleSendCommand \/ SendExpired
             \/ ReadByInterpreter \/ Expire \/ Environment
    BY <1>4 DEF vars, HandleAck, ReplyCached, FailRequest, TakeRequest, ReadRequest,
       HandleExecCommand, HandleServerId, HandleSendCommand, SendExpired, ReadByInterpreter,
       Expire, Environment, LoseToServer, LoseToClient, Duplicate, clientVars
  <1>5. QED
    BY <1>1, <1>2, <1>3, <1>4
       DEF Next, User, ExecCommand, GetServerId, ClientTimer, ClientReceive, Server, Calls,
           ClientRequests

\* No request on its way has the uid of the next call.
LEMMA CallIsNew ==
  ASSUME TypeInv, RunInv, AckInv, Calls
  PROVE  /\ request'.uid = nextuid /\ IsClientRequest(request') /\ request' \in ToServer
         /\ c2s' = Append(c2s, request') /\ phase' = "attempt" /\ left' = Tries - 1
         /\ RangeOf(c2s') = RangeOf(c2s) \cup {request'}
         /\ UNCHANGED <<serverVars, s2c, faultVars>> /\ nextuid \notin Known
         /\ request' \notin RangeOf(c2s) /\ RangeOf(s2c) \cap AcksOf(request') = {}
  <1>1. PICK t \in ClientRequests : Call(t)
    BY DEF Calls
  <1>2. /\ request' \in ToServer /\ request'.uid = nextuid /\ request'.type = t
        /\ c2s' = Append(c2s, request') /\ phase' = "attempt" /\ left' = Tries - 1
        /\ UNCHANGED <<serverVars, s2c, faultVars>> /\ fatal = "none"
    BY <1>1, MessageTypes DEF Call, Usable, Request, ClientRequests, RequestTypes, TypeInv, TypeOK
  <1>3. nextuid \notin Known /\ nextuid \in Nat /\ RangeOf(c2s') = RangeOf(c2s) \cup {request'}
    BY <1>2, StreamTypes, RangeAppend
  <1>4. request' \notin RangeOf(c2s)
    <2>1. \A m \in RangeOf(c2s) : IsClientRequest(m) => m.uid # nextuid
      BY <1>3, StreamTypes DEF IsClientRequest, ClientRequests
    <2>2. QED
      BY <1>2, <2>1 DEF IsClientRequest
  <1>5. RangeOf(s2c) \cap AcksOf(request') = {}
    <2>1. \A r \in RangeOf(s2c) : r.type = "Ack" => r.uid < nextuid
      BY <1>2 DEF AckInv
    <2>2. \A r \in RangeOf(s2c) : r.type = "Ack" => r.uid # nextuid
      BY <1>3, <2>1
    <2>3. QED
      BY <1>2, <2>2 DEF AcksOf
  <1>6. QED
    BY <1>2, <1>3, <1>4, <1>5 DEF IsClientRequest

LEMMA CopyNext ==
  ASSUME Prompt, TypeInv, RunInv, AckInv, CopyInv, [Next]_vars, dup' = 0
  PROVE  CopyInv'
  <1>0. c2s \in Seq(ToServer) /\ s2c \in Seq(ToClient)
    BY StreamTypes
  <1>a. /\ RangeOf(c2s)' = RangeOf(c2s') /\ RangeOf(s2c)' = RangeOf(s2c')
        /\ AcksOf(request)' = AcksOf(request')
        /\ OnceAtMost(c2s, {request})' = OnceAtMost(c2s', {request'})
        /\ OnceAtMost(s2c, AcksOf(request))' = OnceAtMost(s2c', AcksOf(request'))
    BY DEF RangeOf, AcksOf, OnceAtMost
  <1>1. CASE Calls
    <2>1. OnceAtMost(c2s, {request'}) /\ OnceAtMost(s2c, AcksOf(request'))
      BY <1>0, <1>1, CallIsNew DEF OnceAtMost, RangeOf
    <2>2. OnceAtMost(c2s', {request'})
      <3>1. /\ request' \in ToServer /\ c2s' = Append(c2s, request')
            /\ RangeOf(c2s) \cap {request'} = {}
        BY <1>1, CallIsNew
      <3>2. QED
        BY <1>0, <2>1, <3>1, OnceAppend
    <2>3. s2c' = s2c /\ RangeOf(s2c) \cap AcksOf(request') = {} /\ phase' = "attempt"
      BY <1>1, CallIsNew
    <2>4. QED
      BY <1>a, <2>1, <2>2, <2>3 DEF CopyInv
  <1>2. CASE Resend
    <2>1. /\ Len(c2s') = 1 /\ Len(s2c') = 0 /\ request' = request /\ phase' = phase
          /\ phase = "attempt"
      BY <1>2, PromptTimers DEF Resend, ResendIn
    <2>2. OnceAtMost(c2s', {request'}) /\ OnceAtMost(s2c', AcksOf(request')) /\ RangeOf(s2c') = {}
      BY <2>1 DEF OnceAtMost, RangeOf
    <2>3. QED
      BY <1>a, <2>1, <2>2 DEF CopyInv
  <1>3. CASE ~Calls /\ ~Resend /\ Calling'
    <2>1. Calling /\ request' = request
      BY <1>3, StepCalling
    <2>2. /\ OnceAtMost(c2s, {request}) /\ OnceAtMost(s2c, AcksOf(request))
          /\ request \in RangeOf(c2s) => RangeOf(s2c) \cap AcksOf(request) = {}
          /\ phase # "attempt" => request \notin RangeOf(c2s) /\ RangeOf(s2c) \cap AcksOf(request) = {}
      BY <2>1 DEF CopyInv
    <2>3. /\ OnceAtMost(c2s', {request})
          /\ request \in RangeOf(c2s') => request \in RangeOf(c2s)
          /\ Reads /\ Read = request => request \notin RangeOf(c2s')
      BY <1>3, <2>1, <2>2, CopiesToServer
    <2>4. /\ OnceAtMost(s2c', AcksOf(request))
          /\ \/ RangeOf(s2c') \cap AcksOf(request) = {}
             \/ RangeOf(s2c) \cap AcksOf(request) # {}
             \/ Reads /\ Read = request
      BY <2>1, AcksToClient
    <2>5. Reads => Read \in RangeOf(c2s)
      BY <1>0, RangeTail DEF Reads, ReplyCached, FailRequest, TakeRequest, ReadRequest, Read
    <2>6. ASSUME phase' # "attempt"
          PROVE  request \notin RangeOf(c2s') /\ RangeOf(s2c') \cap AcksOf(request) = {}
      <3>1. CASE phase' = phase
        BY <2>2, <2>3, <2>4, <2>5, <2>6, <3>1
      <3>2. CASE ReceiveAck
        <4>1. /\ s2c # <<>> /\ s2c' = Tail(s2c) /\ Received.type = "Ack" /\ c2s' = c2s
              /\ Received.uid = request.uid
          BY <3>2 DEF ReceiveAck, Receive, Answers
        <4>2. Received \in RangeOf(s2c) /\ Received \in ToClient
          BY <1>0, <4>1, StreamTypes, RangeTail DEF Received
        <4>3. Received \in AcksOf(request)
          BY <4>1, <4>2 DEF AcksOf, ToClient
        <4>4. request \notin RangeOf(c2s)
          BY <2>2, <4>2, <4>3
        <4>5. RangeOf(s2c') \cap AcksOf(request) = {}
          BY <1>0, <2>2, <4>1, <4>3, OnceTail DEF Received
        <4>6. QED
          BY <4>1, <4>4, <4>5
      <3>3. CASE LastTry
        <4>1. c2s' = <<>> /\ s2c' = <<>>
          BY <3>3, PromptTimers
        <4>2. QED
          BY <4>1 DEF RangeOf
      <3>4. QED
        BY <1>3, <3>1, <3>2, <3>3, StepPhase
    <2>7. request \in RangeOf(c2s') => RangeOf(s2c') \cap AcksOf(request) = {}
      BY <2>2, <2>3, <2>4
    <2>8. QED
      BY <1>a, <2>1, <2>3, <2>4, <2>6, <2>7 DEF CopyInv
  <1>4. CASE ~Calling'
    BY <1>4 DEF CopyInv, Calling
  <1>5. QED
    BY <1>1, <1>2, <1>3, <1>4

-----------------------------------------------------------------------------
(* The tries of the client.                                                 *)

\* Who takes a message that was on its way to the server.
LEMMA StepTakes ==
  ASSUME TypeInv, [Next]_vars, dup' = 0, NEW m \in RangeOf(c2s), m \notin RangeOf(c2s')
  PROVE  /\ m = Read /\ c2s' = Tail(c2s)
         /\ LoseToServer \/ HandleAck \/ Reads \/ ReadByInterpreter
  <1>0. c2s \in Seq(ToServer)
    BY DEF TypeInv, TypeOK
  <1>1. ~Puts
    <2>1. ASSUME NEW n \in ToServer, c2s' = Append(c2s, n) PROVE FALSE
      BY <1>0, <2>1, RangeAppend
    <2>2. QED
      BY <2>1 DEF Puts
  <1>2. ~Rests1 /\ ~Handles
    BY HandlesKnown DEF Rests1, Rests, RangeOf
  <1>3. c2s # <<>> /\ c2s' = Tail(c2s)
    BY <1>1, <1>2, StepUids DEF Takes1, TakesFirst
  <1>4. m = Read
    <2>1. PICK i \in 1 .. Len(c2s) : m = c2s[i]
      BY DEF RangeOf
    <2>2. /\ Len(c2s) \in Nat \ {0} /\ Read = c2s[1] /\ Len(c2s') = Len(c2s) - 1
          /\ \A j \in 1 .. Len(c2s) - 1 : c2s'[j] = c2s[j + 1]
      BY <1>0, <1>3 DEF Read
    <2>3. CASE i # 1
      <3>1. i - 1 \in 1 .. Len(c2s') /\ c2s'[i - 1] = c2s[i]
        BY <2>2, <2>3
      <3>2. QED
        BY <2>1, <3>1 DEF RangeOf
    <2>4. QED
      BY <2>1, <2>2, <2>3
  <1>5. Len(c2s') # Len(c2s)
    BY <1>0, <1>3
  <1>6. c2s' # c2s
    BY <1>5
  <1>7. ASSUME NEW n \in ToServer PROVE c2s' # Append(c2s, n)
    BY <1>1, <1>3, <1>7, <1>0
  <1>8. CASE UNCHANGED vars \/ Handles \/ Expire \/ SendExpired \/ LoseToClient
    BY <1>2, <1>6, <1>8 DEF vars, Expire, SendExpired, LoseToClient
  <1>9. CASE \/ StartTimeout \/ LastTry \/ ReplyTimeout \/ FinalTimeout \/ ReceiveFatal \/ ReceiveAck
    BY <1>6, <1>9 DEF StartTimeout, LastTry, ReplyTimeout, FinalTimeout, ReceiveFatal, ReceiveAck
  <1>a. \A u \in Int : ClientAck(u) \in ToServer
    BY MessageTypes
  <1>b. s2c # <<>> => Received.uid \in Int /\ Received = Head(s2c)
    BY MessageTypes DEF TypeInv, TypeOK, Received
  <1>c. \A t \in OtherRequests : Request(t, CreatedUid, created) \in ToServer
    BY MessageTypes DEF TypeInv, TypeOK, CreatedUid, RequestTypes, OtherRequests
  <1>10. CASE ServerIdReceived \/ ReceiveOther \/ ReceiveReply
    BY <1>6, <1>7, <1>10, <1>a, <1>b DEF ServerIdReceived, ReceiveOther, ReceiveReply, Receive
  <1>11. CASE SendCommand \/ Exit \/ ReceiveAckAsReply
    BY <1>6, <1>7, <1>11, <1>c DEF SendCommand, Exit, ReceiveAckAsReply, Receive, OtherRequests
  <1>12. CASE Resend \/ Calls
    <2>1. request \in ToServer /\ (Calls => request' \in ToServer)
      BY MessageTypes DEF TypeInv, TypeOK, Calls, Call, Request, ClientRequests, RequestTypes
    <2>2. QED
      BY <1>7, <1>12, <2>1 DEF Resend, ResendIn, Calls, Call
  <1>13. ~Duplicate
    BY DEF Duplicate, TypeInv, TypeOK
  <1>14. QED
    BY <1>3, <1>4, <1>8, <1>9, <1>10, <1>11, <1>12, <1>13
       DEF Next, User, ExecCommand, GetServerId, ClientTimer, ClientReceive, Server, Environment,
           Calls, ClientRequests, Reads, Handles

\* Only a call and a resend count the tries.
LEMMA StepTries ==
  ASSUME TypeInv, [Next]_vars
  PROVE  /\ Calls \/ Resend \/ left' = left
         /\ lost \in Nat /\ lost' \in Nat /\ lost' >= lost
         /\ LoseToServer \/ LoseToClient => lost' = lost + 1
  <1>1. lost \in Nat
    BY ConstantsAssumption DEF ConstantsAssumption, TypeInv, TypeOK
  <1>2. CASE ServerIdReceived \/ StartTimeout \/ LastTry \/ ReplyTimeout \/ FinalTimeout
    BY <1>1, <1>2 DEF ServerIdReceived, StartTimeout, LastTry, ReplyTimeout, FinalTimeout, faultVars,
       LoseToServer, LoseToClient
  <1>3. CASE ReceiveFatal \/ ReceiveAck \/ ReceiveOther \/ ReceiveAckAsReply \/ ReceiveReply
    BY <1>1, <1>3 DEF ReceiveFatal, ReceiveAck, ReceiveOther, ReceiveAckAsReply, ReceiveReply,
       Receive, faultVars, LoseToServer, LoseToClient
  <1>4. CASE SendCommand \/ Exit \/ UNCHANGED vars
    BY <1>1, <1>4 DEF SendCommand, Exit, vars, clientVars, faultVars, LoseToServer, LoseToClient
  <1>5. CASE \/ HandleAck \/ ReplyCached \/ FailRequest \/ TakeRequest
             \/ HandleExecCommand \/ HandleServerId \/ HandleSendCommand \/ SendExpired
             \/ ReadByInterpreter \/ Expire
    BY <1>1, <1>5 DEF HandleAck, ReplyCached, FailRequest, TakeRequest, ReadRequest,
       HandleExecCommand, HandleServerId, HandleSendCommand, SendExpired, ReadByInterpreter,
       Expire, clientVars, faultVars, LoseToServer, LoseToClient
  <1>6. CASE Environment
    BY <1>1, <1>6 DEF Environment, LoseToServer, LoseToClient, Duplicate, clientVars
  <1>7. CASE Calls \/ Resend
    BY <1>1, <1>7 DEF Calls, Call, Resend, ResendIn, faultVars, LoseToServer, LoseToClient
  <1>8. QED
    BY <1>2, <1>3, <1>4, <1>5, <1>6, <1>7
       DEF Next, User, ExecCommand, GetServerId, ClientTimer, ClientReceive, Server, Calls,
           ClientRequests

LEMMA RequestLossNext ==
  ASSUME Prompt, TypeInv, TypeInv', RunInv, RunInv', AckInv, SourceInv, RequestLossInv,
         [Next]_vars, dup' = 0
  PROVE  RequestLossInv'
  <1>0. Tries \in Nat \ {0} /\ left \in Nat /\ left' \in Nat
    BY ConstantsAssumption DEF ConstantsAssumption, TypeInv, TypeOK
  <1>1. phase' = "final" => left' = 0
    <2>1. SUFFICES ASSUME phase' = "final" PROVE left' = 0
      OBVIOUS
    <2>2. ~Calls /\ Calling'
      BY <2>1 DEF Calls, Call, Calling
    <2>3. CASE phase' = phase
      <3>1. ~Resend
        BY <2>1, <2>3 DEF Resend, ResendIn
      <3>2. QED
        BY <2>1, <2>2, <2>3, <3>1, StepTries DEF RequestLossInv
    <2>4. CASE LastTry
      BY <2>4 DEF LastTry
    <2>5. ~ReceiveAck
      BY <2>1 DEF ReceiveAck
    <2>6. QED
      BY <2>2, <2>3, <2>4, <2>5, StepPhase
  <1>2. ASSUME Calling', serving', request'.uid \notin Known', request' \notin handling'
        PROVE  /\ Tries - left' <= lost' + 1
               /\ request' \notin RangeOf(c2s') => Tries - left' <= lost'
    <2>1. CASE Calls
      <3>1. left' = Tries - 1 /\ request' \in RangeOf(c2s')
        BY <2>1, CallIsNew
      <3>2. QED
        BY <1>0, <3>1, StepTries
    <2>2. CASE Resend
      <3>1. /\ Calling /\ serving' = serving /\ request' = request /\ handling' = handling
            /\ Known' = Known /\ c2s = <<>> /\ c2s' = <<request>> /\ left' = left - 1 /\ lost' = lost
        BY <2>2, PromptTimers DEF serverVars, faultVars, Known
      <3>2. request \notin RangeOf(c2s) /\ request \in RangeOf(c2s')
        BY <3>1 DEF RangeOf
      <3>3. Tries - left <= lost
        BY <1>2, <3>1, <3>2 DEF RequestLossInv
      <3>4. QED
        BY <1>0, <3>1, <3>2, <3>3, StepTries
    <2>3. CASE ~Calls /\ ~Resend
      <3>1. Calling /\ request' = request /\ left' = left
        BY <1>2, <2>3, StepCalling, StepTries
      <3>2. serving
        BY <1>2, StepReplies
      <3>3. request.uid \notin Known /\ request \notin handling
        <4>1. request \in Requests' /\ IsClientRequest(request)
          BY <1>2, <3>1, StreamTypes DEF Requests
        <4>2. \A h \in handling' : h \in Requests'
          BY DEF Requests
        <4>3. \A h \in handling' : IsClientRequest(h) /\ h.uid = request.uid => h = request
          BY <4>1, <4>2 DEF RunInv, NumberInv, IsClientRequest
        <4>4. request.uid \notin TakenUids'
          BY <1>2, <3>1, <4>3 DEF TakenUids, IsClientRequest
        <4>5. request.uid \notin TakenUids
          BY <4>4, TakenUidsStay
        <4>6. QED
          BY <4>1, <4>5 DEF TakenUids
      <3>4. Tries - left <= lost + 1 /\ (request \notin RangeOf(c2s) => Tries - left <= lost)
        BY <3>1, <3>2, <3>3 DEF RequestLossInv
      <3>5. ASSUME request \notin RangeOf(c2s'), request \in RangeOf(c2s)
            PROVE  lost' = lost + 1
        <4>1. /\ request = Read
              /\ LoseToServer \/ HandleAck \/ Reads \/ ReadByInterpreter
          BY <3>5, StepTakes
        <4>2. ~ReadByInterpreter
          BY <3>2 DEF ReadByInterpreter
        <4>3. ~HandleAck
          BY <3>1, <4>1, StreamTypes DEF HandleAck, IsClientRequest, ClientRequests
        <4>4. ~Reads
          <5>1. ~FailRequest
            BY <1>2 DEF FailRequest
          <5>2. ~ReplyCached
            BY <3>3, <4>1 DEF ReplyCached, IsCached, Known
          <5>3. ~TakeRequest
            BY <1>2, <3>1, <4>1 DEF TakeRequest
          <5>4. QED
            BY <5>1, <5>2, <5>3 DEF Reads
        <4>5. QED
          BY <4>1, <4>2, <4>3, <4>4, StepTries
      <3>6. /\ lost \in Nat /\ lost' \in Nat /\ lost' >= lost
        BY StepTries
      <3>a. left' = left /\ Tries - left <= lost + 1
        BY <3>1, <3>4
      <3>7. Tries - left' <= lost' + 1
        <4>1. \A t, l, n, m \in Int : t - l <= n + 1 /\ m >= n => t - l <= m + 1
          OBVIOUS
        <4>2. Tries \in Int /\ left \in Int /\ lost \in Int /\ lost' \in Int
          BY <1>0, <3>6
        <4>3. Tries - left <= lost' + 1
          BY <3>6, <3>a, <4>1, <4>2
        <4>4. QED
          BY <3>a, <4>3
      <3>8. ASSUME request \notin RangeOf(c2s') PROVE Tries - left' <= lost'
        <4>1. CASE request \in RangeOf(c2s)
          <5>1. lost' = lost + 1
            BY <3>5, <3>8, <4>1
          <5>2. QED
            BY <1>0, <3>a, <3>6, <5>1
        <4>2. CASE request \notin RangeOf(c2s)
          <5>1. Tries - left <= lost
            BY <3>4, <4>2
          <5>2. QED
            BY <1>0, <3>a, <3>6, <5>1
        <4>3. QED
          BY <4>1, <4>2
      <3>9. QED
        BY <3>1, <3>7, <3>8
    <2>4. QED
      BY <2>1, <2>2, <2>3
  <1>3. QED
    BY <1>1, <1>2 DEF RequestLossInv, Calling, Known, RangeOf

-----------------------------------------------------------------------------
(* The tries of the server.                                                 *)

\* What a step does to the replies MsgCaches has.
LEMMA StepCache ==
  ASSUME TypeInv, [Next]_vars
  PROVE  \/ UNCHANGED <<cache, removed, due>>
         \/ Handles /\ UNCHANGED <<removed, c2s>>
         \/ HandleAck
         \/ SendExpired
         \/ Expire
  <1>1. CASE ServerIdReceived \/ StartTimeout \/ Resend \/ LastTry \/ ReplyTimeout \/ FinalTimeout
    BY <1>1 DEF ServerIdReceived, StartTimeout, Resend, ResendIn, LastTry, ReplyTimeout,
       FinalTimeout, serverVars
  <1>2. CASE ReceiveFatal \/ ReceiveAck \/ ReceiveOther \/ ReceiveAckAsReply \/ ReceiveReply
    BY <1>2 DEF ReceiveFatal, ReceiveAck, ReceiveOther, ReceiveAckAsReply, ReceiveReply,
       Receive, serverVars
  <1>3. CASE SendCommand \/ Exit \/ Calls \/ UNCHANGED vars
    BY <1>3 DEF SendCommand, Exit, Calls, Call, vars, serverVars
  <1>4. CASE ReplyCached \/ FailRequest \/ TakeRequest \/ ReadByInterpreter \/ Environment
    BY <1>4 DEF ReplyCached, FailRequest, TakeRequest, ReadRequest, ReadByInterpreter, Environment,
       LoseToServer, LoseToClient, Duplicate, serverVars
  <1>5. Handles => UNCHANGED <<removed, c2s>>
    BY HandlesKnown
  <1>6. QED
    BY <1>1, <1>2, <1>3, <1>4, <1>5
       DEF Next, User, ExecCommand, GetServerId, ClientTimer, ClientReceive, Server, Calls,
           ClientRequests, Handles

LEMMA HeadOrTail ==
  ASSUME NEW S, NEW s \in Seq(S), s # <<>>
  PROVE  RangeOf(s) \subseteq {Head(s)} \cup RangeOf(Tail(s))
  <1>1. /\ Len(s) \in Nat \ {0} /\ Head(s) = s[1] /\ Len(Tail(s)) = Len(s) - 1
        /\ \A i \in 1 .. Len(s) - 1 : Tail(s)[i] = s[i + 1]
    OBVIOUS
  <1>2. SUFFICES ASSUME NEW i \in 1 .. Len(s), i # 1 PROVE s[i] \in RangeOf(Tail(s))
    BY <1>1 DEF RangeOf
  <1>3. i - 1 \in 1 .. Len(Tail(s)) /\ Tail(s)[i - 1] = s[i]
    BY <1>1, <1>2
  <1>4. QED
    BY <1>3 DEF RangeOf

\* The replies to the running request stay on their way until one of them is lost:
\* the client that receives one ends the call.
LEMMA RepliesStay ==
  ASSUME TypeInv, Calling, Calling', [Next]_vars
  PROVE  \/ LoseToClient
         \/ RangeOf(s2c) \cap RepliesOf(request) \subseteq RangeOf(s2c')
  <1>0. s2c \in Seq(ToClient)
    BY DEF TypeInv, TypeOK
  <1>1. ASSUME ClientReceive, s2c # <<>>, s2c' = Tail(s2c)
        PROVE  RangeOf(s2c) \cap RepliesOf(request) \subseteq RangeOf(s2c')
    <2>1. ASSUME Received.type = "Reply", Received.uid = request.uid PROVE FALSE
      BY <1>1, <2>1 DEF ClientReceive, ServerIdReceived, ReceiveFatal, ReceiveOther, ReceiveAck,
         ReceiveAckAsReply, ReceiveReply, Answers, EndCall, Calling
    <2>2. Received \notin RepliesOf(request)
      BY <2>1 DEF RepliesOf
    <2>3. QED
      BY <1>0, <1>1, <2>2, HeadOrTail DEF Received
  <1>2. ASSUME NEW s \in Seq(ToClient), NEW r \in ToClient, RangeOf(s2c) \subseteq RangeOf(s),
               s2c' = Append(s, r)
        PROVE  RangeOf(s2c) \subseteq RangeOf(s2c')
    BY <1>2, RangeAppend
  <1>3. ASSUME Reads
        PROVE  Acked \in Seq(ToClient) /\ RangeOf(s2c) \subseteq RangeOf(Acked)
    <2>1. c2s # <<>>
      BY <1>3 DEF Reads, ReplyCached, FailRequest, TakeRequest, ReadRequest
    <2>2. Read \in ToServer
      BY <2>1 DEF Read, TypeInv, TypeOK
    <2>3. ServerAck(Read.uid) \in ToClient
      BY <2>2, MessageTypes
    <2>4. QED
      BY <1>0, <2>3, RangeAppend DEF Acked
  <1>4. QED
    BY <1>0, <1>1, <1>2, <1>3, StepToClient

\* What the handling of the running request, or of another, does to its replies.
LEMMA HandlesReplies ==
  ASSUME TypeInv, RunInv, SourceInv, UidOrderInv, LastUidInv, ReplyLossInv, Handles, Calling,
         request.uid \in DOMAIN cache'
  PROVE  \/ /\ cache'[request.uid].left = Tries
            /\ RangeOf(s2c') \cap RepliesOf(request) = {}
         \/ /\ UNCHANGED <<cache, due>>
            /\ RangeOf(s2c') \cap RepliesOf(request) = RangeOf(s2c) \cap RepliesOf(request)
  <1>1. PICK h \in handling :
          IF IsClientRequest(h)
          THEN /\ \E v \in Nat : PushReply(h.uid, v)
               /\ s2c' = s2c
          ELSE UNCHANGED <<cache, due>>
    BY HandlesKnown
  <1>2. CASE IsClientRequest(h)
    <2>1. h \in Requests /\ h.uid < nextuid /\ request.uid = nextuid - 1 /\ h.uid \in Int
      BY <1>2, StreamTypes DEF LastUidInv
    <2>2. \A u \in Known : u < h.uid
      BY <1>2 DEF UidOrderInv
    <2>3. request.uid \notin DOMAIN cache
      <3>1. request.uid \in Known => request.uid < h.uid
        BY <2>2
      <3>2. QED
        BY <2>1, <3>1, StreamTypes DEF Known
    <2>4. request.uid = h.uid /\ cache'[request.uid].left = Tries
      BY <1>1, <1>2, <2>3 DEF PushReply, FreshCache
    <2>5. h.uid \notin Known
      BY <2>1, <2>2
    <2>6. RangeOf(s2c) \cap RepliesOf(request) = {}
      BY <2>4, <2>5 DEF SourceInv, RepliesOf
    <2>7. QED
      BY <1>1, <1>2, <2>4, <2>6
  <1>3. CASE ~IsClientRequest(h)
    <2>1. s2c' = s2c \/ s2c' = Append(s2c, FatalPythonErrorReply)
      BY DEF Handles, HandleExecCommand, HandleServerId, HandleSendCommand
    <2>2. /\ FatalPythonErrorReply \in ToClient /\ s2c \in Seq(ToClient)
          /\ FatalPythonErrorReply \notin RepliesOf(request)
      BY MessageTypes DEF TypeInv, TypeOK, FatalPythonErrorReply, RepliesOf
    <2>3. RangeOf(Append(s2c, FatalPythonErrorReply)) = RangeOf(s2c) \cup {FatalPythonErrorReply}
      BY <2>2, RangeAppend
    <2>4. RangeOf(s2c') \cap RepliesOf(request) = RangeOf(s2c) \cap RepliesOf(request)
      BY <2>1, <2>2, <2>3
    <2>5. QED
      BY <1>1, <1>3, <2>4
  <1>4. QED
    BY <1>2, <1>3

LEMMA ReplyLossNext ==
  ASSUME Prompt, TypeInv, TypeInv', RunInv, AckInv, SourceInv, UidOrderInv, LastUidInv,
         ReplyLossInv, [Next]_vars
  PROVE  ReplyLossInv'
  <1> DEFINE uid == request.uid
  <1>0. /\ Tries \in Nat \ {0} /\ lost \in Nat /\ lost' \in Nat /\ lost' >= lost
        /\ \A u \in DOMAIN cache : cache[u].left \in Nat
        /\ \A u \in DOMAIN cache' : cache'[u].left \in Nat
    <2>1. Tries \in Nat \ {0}
      BY ConstantsAssumption DEF ConstantsAssumption
    <2>2. lost \in Nat /\ lost' \in Nat /\ lost' >= lost
      BY StepTries
    <2>3. \A u \in DOMAIN cache : cache[u].left \in Nat
      BY <2>1 DEF TypeInv, TypeOK
    <2>4. \A u \in DOMAIN cache' : cache'[u].left \in Nat
      BY <2>1 DEF TypeInv, TypeOK
    <2>5. QED
      BY <2>1, <2>2, <2>3, <2>4
  <1>1. SUFFICES ASSUME Calling', request'.uid \in DOMAIN cache'
                 PROVE  /\ Tries - cache'[request'.uid].left <= lost' + 1
                        /\ RangeOf(s2c') \cap RepliesOf(request') = {} =>
                              Tries - cache'[request'.uid].left <= lost'
                        /\ request'.uid \in due' => RangeOf(s2c') \cap RepliesOf(request') = {}
    BY DEF ReplyLossInv, Calling, RepliesOf, RangeOf
  <1>2. ~Calls
    BY <1>1, CallIsNew DEF serverVars, Known
  <1>3. Calling /\ request' = request
    BY <1>1, <1>2, StepCalling
  <1>4. ASSUME uid \in DOMAIN cache
        PROVE  /\ Tries - cache[uid].left <= lost + 1
               /\ RangeOf(s2c) \cap RepliesOf(request) = {} => Tries - cache[uid].left <= lost
               /\ uid \in due => RangeOf(s2c) \cap RepliesOf(request) = {}
    BY <1>3, <1>4 DEF ReplyLossInv
  \* The replies that are new are sent by ReplyCached, with nothing due, or by SendExpired.
  <1>5. ASSUME uid \in due', ~SendExpired, NEW r \in RangeOf(s2c') \cap RepliesOf(request)
        PROVE  r \in RangeOf(s2c)
    <2>1. ~ReplyCached
      <3>1. ReplyCached => due' = {}
        BY DEF ReplyCached, ReadRequest, Idle
      <3>2. QED
        BY <1>5, <3>1
    <2>2. r.type = "Reply"
      BY <1>5 DEF RepliesOf
    <2>3. QED
      BY <1>5, <2>1, <2>2, StepReplies DEF Old, Repeated, Acknowledged, Fatal, SendExpired
  \* The same number of tries left, and a reply less only when it is lost.
  <1>6. ASSUME uid \in DOMAIN cache, cache'[uid].left = cache[uid].left
        PROVE  /\ Tries - cache'[uid].left <= lost' + 1
               /\ RangeOf(s2c') \cap RepliesOf(request) = {} => Tries - cache'[uid].left <= lost'
    <2>1. Tries - cache[uid].left <= lost + 1 /\ cache[uid].left \in Nat
      BY <1>0, <1>4, <1>6
    <2>2. CASE LoseToClient
      BY <1>0, <1>6, <2>1, <2>2, StepTries
    <2>3. CASE RangeOf(s2c) \cap RepliesOf(request) \subseteq RangeOf(s2c')
      <3>1. ASSUME RangeOf(s2c') \cap RepliesOf(request) = {}
            PROVE  Tries - cache[uid].left <= lost
        BY <1>4, <1>6, <2>3, <3>1
      <3>2. QED
        BY <1>0, <1>6, <2>1, <3>1
    <2>4. QED
      BY <1>1, <1>3, <2>2, <2>3, RepliesStay
  <1>7. CASE UNCHANGED <<cache, removed, due>>
    <2>1. ~SendExpired
      <3>1. SendExpired => \E u \in due : due' = due \ {u}
        BY DEF SendExpired
      <3>2. QED
        BY <1>7, <3>1
    <2>2. uid \in DOMAIN cache /\ cache'[uid].left = cache[uid].left
      BY <1>1, <1>3, <1>7
    <2>3. uid \in due' => RangeOf(s2c') \cap RepliesOf(request) = {}
      BY <1>4, <1>5, <1>7, <2>1, <2>2
    <2>4. QED
      BY <1>3, <1>6, <2>2, <2>3
  <1>8. CASE Handles
    <2>1. CASE /\ cache'[uid].left = Tries
               /\ RangeOf(s2c') \cap RepliesOf(request) = {}
      BY <1>0, <1>3, <2>1
    <2>2. CASE /\ UNCHANGED <<cache, due>>
               /\ RangeOf(s2c') \cap RepliesOf(request) = RangeOf(s2c) \cap RepliesOf(request)
      BY <1>1, <1>3, <1>4, <1>6, <2>2
    <2>3. QED
      BY <1>1, <1>3, <1>8, <2>1, <2>2, HandlesReplies
  <1>9. CASE HandleAck
    <2>1. due' = {} /\ uid \in DOMAIN cache /\ cache'[uid] = cache[uid]
      BY <1>1, <1>3, <1>9 DEF HandleAck, Idle, Remove
    <2>2. QED
      BY <1>3, <1>6, <2>1
  <1>10. CASE Expire
    <2>1. cache' = cache /\ s2c' = s2c /\ s2c = <<>>
      BY <1>3, <1>10, PromptTimers DEF Expire
    <2>2. RangeOf(s2c') = {}
      BY <2>1 DEF RangeOf
    <2>3. QED
      BY <1>1, <1>3, <1>6, <2>1, <2>2
  <1>11. CASE SendExpired
    <2>1. PICK u \in due : SendExpired!(u)
      BY <1>11 DEF SendExpired
    <2>2. u \in DOMAIN cache /\ u \in Int /\ cache[u].val \in Nat /\ s2c \in Seq(ToClient)
      BY DEF TypeInv, TypeOK
    <2>3. CASE cache[u].left > 0
      <3>1. /\ Reply(u, cache[u].val) \in ToClient /\ Reply(u, cache[u].val).uid = u
            /\ Reply(u, cache[u].val).type = "Reply" /\ Reply(u, cache[u].val).val \in Nat
        BY <2>2, MessageTypes DEF Reply
      <3>a. s2c' = Append(s2c, Reply(u, cache[u].val)) /\ due' = due \ {u}
        BY <2>1, <2>3
      <3>2. RangeOf(s2c') = RangeOf(s2c) \cup {Reply(u, cache[u].val)} /\ due' = due \ {u}
        BY <2>2, <3>1, <3>a, RangeAppend
      <3>3. CASE u = uid
        <4>1. Reply(u, cache[u].val) \in RepliesOf(request)
          BY <3>1, <3>3 DEF RepliesOf, Reply
        <4>2. Tries - cache[uid].left <= lost
          BY <1>4, <2>2, <3>3
        <4>3. cache'[uid].left = cache[uid].left - 1
          BY <2>1, <2>2, <2>3, <3>3 DEF TypeInv, TypeOK
        <4>4. Tries - cache'[uid].left <= lost' + 1
          BY <1>0, <2>2, <3>3, <4>2, <4>3
        <4>5. QED
          BY <1>3, <3>2, <3>3, <4>1, <4>4
      <3>4. CASE u # uid
        <4>1. uid \in DOMAIN cache /\ cache'[uid] = cache[uid]
          BY <1>1, <1>3, <2>1, <2>3, <3>4
        <4>2. RangeOf(s2c') \cap RepliesOf(request) = RangeOf(s2c) \cap RepliesOf(request)
          BY <3>1, <3>2, <3>4 DEF RepliesOf
        <4>3. QED
          BY <1>3, <1>4, <1>6, <3>2, <4>1, <4>2
      <3>5. QED
        BY <3>3, <3>4
    <2>4. CASE ~(cache[u].left > 0)
      <3>1. s2c' = s2c /\ uid \in DOMAIN cache /\ cache'[uid] = cache[uid] /\ due' \subseteq due
        BY <1>1, <1>3, <2>1, <2>4 DEF GiveUp, Remove
      <3>2. QED
        BY <1>3, <1>4, <1>6, <3>1
    <2>5. QED
      BY <2>3, <2>4
  <1>12. QED
    BY <1>7, <1>8, <1>9, <1>10, <1>11, StepCache

-----------------------------------------------------------------------------
(* What MsgCaches has removed.                                              *)

\* A reply MsgCaches is about to give up is none of the running request: more
\* replies of it would have been lost than messages can be.
LEMMA RunningIsKept ==
  ASSUME MaxLoss < Tries, TypeInv, ReplyLossInv, Calling, request.uid \in DOMAIN cache,
         cache[request.uid].left = 0
  PROVE  RangeOf(s2c) \cap RepliesOf(request) # {} /\ request.uid \notin due
  <1>1. Tries \in Nat /\ MaxLoss \in Nat /\ lost \in 0 .. MaxLoss
    BY ConstantsAssumption DEF ConstantsAssumption, TypeInv, TypeOK
  <1>2. ~(Tries - cache[request.uid].left <= lost)
    BY <1>1
  <1>3. QED
    BY <1>2 DEF ReplyLossInv

LEMMA RemovedNext ==
  ASSUME Prompt, MaxLoss < Tries, TypeInv, TypeInv', RunInv, AckInv, SourceInv, UidOrderInv,
         LastUidInv, ReplyLossInv, RemovedInv, [Next]_vars, dup' = 0
  PROVE  RemovedInv'
  <1>0. /\ \A m \in RangeOf(c2s) : IsClientRequest(m) => m.uid \notin removed
        /\ Calling => request.uid \notin removed
        /\ \A u \in due, m \in RangeOf(c2s) :
              cache[u].left < Tries /\ IsClientRequest(m) => m.uid # u
        /\ c2s \in Seq(ToServer) /\ due \subseteq DOMAIN cache
    BY DEF RemovedInv, TypeInv, TypeOK
  \* What is new on its way to the server is the request of the running call.
  <1>1. ASSUME NEW m \in RangeOf(c2s'), IsClientRequest(m)
        PROVE  m \in RangeOf(c2s) \/ (Calls /\ m.uid = nextuid) \/ (Resend /\ m = request)
    <2>1. CASE Puts
      <3>1. PICK n \in ToServer : Puts!(n)
        BY <2>1 DEF Puts
      <3>2. RangeOf(c2s') = RangeOf(c2s) \cup {n}
        BY <1>0, <3>1, RangeAppend
      <3>3. QED
        BY <1>1, <3>1, <3>2
    <2>2. CASE Takes1
      BY <1>0, <1>1, <2>2, RangeTail DEF Takes1, TakesFirst
    <2>3. CASE Rests1 \/ Handles
      BY <1>1, <2>3, HandlesKnown DEF Rests1, Rests, RangeOf
    <2>4. QED
      BY <2>1, <2>2, <2>3, StepUids
  \* Nothing requested any more, nor still on its way, is removed.
  <1>2. ASSUME NEW u \in removed', u \notin removed
        PROVE  /\ \A m \in RangeOf(c2s') : IsClientRequest(m) => m.uid # u
               /\ Calling' => Calling /\ request' = request /\ request.uid # u
    <2>1. CASE HandleAck
      <3>1. /\ c2s # <<>> /\ c2s' = Tail(c2s) /\ Read.type = "Ack" /\ u = Read.uid
            /\ UNCHANGED <<phase, request>>
        BY <1>2, <2>1 DEF HandleAck, Remove, clientVars
      <3>2. Read \in RangeOf(c2s) /\ u \in Int
        BY <1>0, <3>1, RangeTail, StreamTypes DEF Read
      <3>3. Calling => request.uid # u
        BY <3>1, <3>2, StreamTypes DEF LastUidInv
      <3>4. ASSUME NEW m \in RangeOf(c2s'), IsClientRequest(m) PROVE m.uid # u
        <4>1. /\ Len(c2s) \in Nat \ {0} /\ Read = c2s[1] /\ Len(c2s') = Len(c2s) - 1
              /\ \A j \in 1 .. Len(c2s) - 1 : c2s'[j] = c2s[j + 1]
          BY <1>0, <3>1 DEF Read
        <4>2. PICK j \in 1 .. Len(c2s) - 1 : m = c2s[j + 1]
          BY <4>1 DEF RangeOf
        <4>3. 1 \in 1 .. Len(c2s) /\ j + 1 \in 1 .. Len(c2s) /\ 1 < j + 1
          BY <4>1
        <4>4. c2s[1].uid < c2s[j + 1].uid
          BY <3>1, <3>4, <4>1, <4>2, <4>3 DEF UidOrderInv
        <4>5. QED
          BY <3>1, <3>2, <4>1, <4>2, <4>4
      <3>5. QED
        BY <3>1, <3>3, <3>4 DEF Calling
    <2>2. CASE SendExpired
      <3>1. /\ u \in due /\ cache[u].left = 0 /\ UNCHANGED <<c2s, phase, request>>
        <4>1. PICK w \in due : SendExpired!(w)
          BY <2>2 DEF SendExpired
        <4>2. u = w /\ ~(cache[w].left > 0)
          BY <1>2, <4>1 DEF GiveUp, Remove
        <4>3. cache[w].left \in 0 .. Tries
          BY <1>0 DEF TypeInv, TypeOK
        <4>4. QED
          BY <4>1, <4>2, <4>3, ConstantsAssumption DEF ConstantsAssumption, clientVars
      <3>2. \A m \in RangeOf(c2s) : IsClientRequest(m) => m.uid # u
        <4>1. cache[u].left < Tries
          BY <3>1, ConstantsAssumption DEF ConstantsAssumption
        <4>2. QED
          BY <1>0, <3>1, <4>1
      <3>3. Calling => request.uid # u
        BY <1>0, <3>1, RunningIsKept
      <3>4. QED
        BY <3>1, <3>2, <3>3 DEF RangeOf, Calling
    <2>3. CASE \/ UNCHANGED <<cache, removed, due>>
               \/ Handles /\ UNCHANGED <<removed, c2s>>
               \/ Expire
      BY <1>2, <2>3 DEF Expire
    <2>4. QED
      BY <2>1, <2>2, <2>3, StepCache
  <1>3. Calls => /\ UNCHANGED <<removed, cache, due>> /\ nextuid \notin Known
                 /\ request'.uid = nextuid
    BY CallIsNew DEF serverVars
  <1>4. \A m \in RangeOf(c2s') : IsClientRequest(m) => m.uid \notin removed'
    <2>1. SUFFICES ASSUME NEW m \in RangeOf(c2s'), IsClientRequest(m), m.uid \in removed'
                   PROVE  FALSE
      OBVIOUS
    <2>2. m.uid \in removed
      BY <1>2, <2>1
    <2>3. CASE Calls /\ m.uid = nextuid
      BY <1>3, <2>2, <2>3 DEF Known
    <2>4. CASE Resend /\ m = request
      BY <1>0, <2>2, <2>4, PromptTimers
    <2>5. QED
      BY <1>0, <1>1, <2>1, <2>2, <2>3, <2>4
  <1>5. Calling' => request'.uid \notin removed'
    <2>1. SUFFICES ASSUME Calling', request'.uid \in removed' PROVE FALSE
      OBVIOUS
    <2>2. CASE Calls
      BY <1>3, <2>1, <2>2 DEF Known
    <2>3. CASE ~Calls
      <3>1. Calling /\ request' = request
        BY <2>1, <2>3, StepCalling
      <3>2. QED
        BY <1>0, <1>2, <2>1, <3>1
    <2>4. QED
      BY <2>2, <2>3
  <1>6. ASSUME NEW u \in due', NEW m \in RangeOf(c2s'), cache'[u].left < Tries,
               IsClientRequest(m)
        PROVE  m.uid # u
    <2>1. CASE UNCHANGED <<cache, removed, due>>
      <3>1. CASE m \in RangeOf(c2s)
        BY <1>0, <1>6, <2>1, <3>1
      <3>2. CASE Calls /\ m.uid = nextuid
        BY <1>0, <1>3, <1>6, <2>1, <3>2 DEF Known
      <3>3. CASE Resend
        BY <1>6, <2>1, <3>3, PromptTimers
      <3>4. QED
        BY <1>1, <1>6, <3>1, <3>2, <3>3
    <2>2. CASE Handles
      <3>1. PICK h \in handling :
              /\ IF IsClientRequest(h)
                 THEN \E v \in Nat : PushReply(h.uid, v)
                 ELSE UNCHANGED <<cache, due>>
        BY <2>2, HandlesKnown
      <3>2. c2s' = c2s
        BY <2>2, HandlesKnown
      <3>3. CASE ~IsClientRequest(h)
        BY <1>0, <1>6, <3>1, <3>2, <3>3 DEF RangeOf
      <3>4. CASE IsClientRequest(h)
        <4>1. m \in RangeOf(c2s) /\ h.uid <= m.uid /\ h.uid \in Int /\ m.uid \in Int
          BY <1>6, <3>2, <3>4, StreamTypes DEF UidOrderInv, RangeOf
        <4>2. CASE u = h.uid
          <5>1. cache'[u].left = Tries /\ Tries \in Int
            BY <1>0, <3>1, <3>4, <4>2, ConstantsAssumption
               DEF PushReply, FreshCache, ConstantsAssumption
          <5>2. QED
            BY <1>6, <5>1
        <4>3. CASE u # h.uid
          <5>1. u \in Known
            BY <1>6, <3>1, <3>4, <4>3 DEF PushReply, Known
          <5>2. u < h.uid /\ u \in Int
            BY <3>4, <5>1, StreamTypes DEF UidOrderInv
          <5>3. QED
            BY <4>1, <5>2
        <4>4. QED
          BY <4>2, <4>3
      <3>5. QED
        BY <3>3, <3>4
    <2>3. CASE HandleAck
      BY <1>6, <2>3 DEF HandleAck, Idle
    <2>4. CASE SendExpired
      <3>1. PICK w \in due : SendExpired!(w)
        BY <2>4 DEF SendExpired
      <3>2. u \in due /\ u # w /\ c2s' = c2s
        BY <1>6, <3>1
      <3>3. cache'[u] = cache[u]
        <4>1. u \in DOMAIN cache
          BY <1>0, <3>2
        <4>2. QED
          BY <3>1, <3>2, <4>1 DEF GiveUp, Remove
      <3>4. QED
        BY <1>0, <1>6, <3>2, <3>3 DEF RangeOf
    <2>5. CASE Expire
      <3>1. c2s' = <<>>
        BY <2>5, PromptTimers DEF Expire
      <3>2. QED
        BY <1>6, <3>1 DEF RangeOf
    <2>6. QED
      BY <2>1, <2>2, <2>3, <2>4, <2>5, StepCache
  <1>7. QED
    BY <1>4, <1>5, <1>6 DEF RemovedInv, Calling, RangeOf, IsClientRequest

-----------------------------------------------------------------------------
(* No loss is noticed.                                                      *)

\* How a call can fail.
Failures == {"timeout", "broken", "fatal", "unexpected"}

LEMMA StepFailures ==
  ASSUME TypeInv, [Next]_vars, ~ReplyTimeout, ~FinalTimeout, ~ReceiveFatal, ~ReceiveAckAsReply
  PROVE  \A c \in Cmds : outcome'[c] \in Failures => outcome[c] \in Failures
  <1>a. outcome \in [Cmds -> Outcomes]
    BY DEF TypeInv, TypeOK
  <1>1. CASE UNCHANGED outcome
    BY <1>1
  <1>2. ASSUME NEW c, NEW how \in {"running", "returned", "sent"},
               outcome' = [outcome EXCEPT ![c] = how]
        PROVE  \A d \in Cmds : outcome'[d] \in Failures => outcome[d] \in Failures
    BY <1>a, <1>2 DEF Failures
  <1>3. CASE Calls \/ SendCommand \/ ReceiveReply
    BY <1>2, <1>3 DEF Calls, Call, SendCommand, ReceiveReply, EndCall
  <1>4. CASE ServerIdReceived \/ StartTimeout \/ Resend \/ LastTry \/ ReceiveOther \/ ReceiveAck \/ Exit
    BY <1>1, <1>4 DEF ServerIdReceived, StartTimeout, Resend, ResendIn, LastTry, ReceiveOther,
       ReceiveAck, Exit
  <1>5. CASE \/ UNCHANGED vars \/ HandleAck \/ ReplyCached \/ FailRequest \/ TakeRequest
             \/ HandleExecCommand \/ HandleServerId \/ HandleSendCommand \/ SendExpired
             \/ ReadByInterpreter \/ Expire \/ Environment
    BY <1>1, <1>5 DEF vars, HandleAck, ReplyCached, FailRequest, TakeRequest, ReadRequest,
       HandleExecCommand, HandleServerId, HandleSendCommand, SendExpired, ReadByInterpreter,
       Expire, Environment, LoseToServer, LoseToClient, Duplicate, clientVars
  <1>6. QED
    BY <1>3, <1>4, <1>5
       DEF Next, User, ExecCommand, GetServerId, ClientTimer, ClientReceive, Server, Calls,
           ClientRequests

LEMMA MaskedNext ==
  ASSUME Prompt, MaxLoss < Tries, TypeInv, SourceInv, CopyInv, RequestLossInv, ReplyLossInv,
         RemovedInv, dup = 0, LossIsMasked, [Next]_vars
  PROVE  LossIsMasked'
  <1>0. /\ Tries \in Nat /\ MaxLoss \in Nat /\ lost \in 0 .. MaxLoss
        /\ s2c \in Seq(ToClient) /\ \A r \in ToClient : r.val \in Nat
    BY ConstantsAssumption, MessageTypes DEF ConstantsAssumption, TypeInv, TypeOK
  <1>1. SUFFICES ASSUME serving'
                 PROVE  \A c \in Cmds : outcome'[c] \notin Failures
    BY DEF LossIsMasked, Failures
  <1>2. serving
    BY <1>1, StepReplies
  \* A running request that was taken has its reply in MsgCaches, with tries left.
  <1>3. ASSUME Calling, c2s = <<>>, s2c = <<>>, request.uid \in Known,
               request.uid \in DOMAIN cache => cache[request.uid].left = 0
        PROVE  FALSE
    <2>1. request.uid \in DOMAIN cache
      BY <1>3 DEF RemovedInv, Known
    <2>2. RangeOf(s2c) = {}
      BY <1>3 DEF RangeOf
    <2>3. QED
      BY <1>3, <2>1, <2>2, RunningIsKept
  <1>4. ~ReplyTimeout
    <2>1. SUFFICES ASSUME ReplyTimeout PROVE FALSE
      OBVIOUS
    <2>2. phase = "reply" /\ Calling
      BY <2>1 DEF ReplyTimeout, Calling
    <2>3. /\ c2s = <<>> /\ s2c = <<>> /\ handling = {}
          /\ request.uid \in DOMAIN cache => cache[request.uid].left = 0
      BY <2>1, PromptTimers
    <2>4. request.uid \in Known
      BY <2>2, <2>3 DEF SourceInv
    <2>5. QED
      BY <1>3, <2>2, <2>3, <2>4
  <1>5. ~FinalTimeout
    <2>1. SUFFICES ASSUME FinalTimeout PROVE FALSE
      OBVIOUS
    <2>2. phase = "final" /\ Calling
      BY <2>1 DEF FinalTimeout, Calling
    <2>3. /\ c2s = <<>> /\ s2c = <<>> /\ handling = {}
          /\ request.uid \in DOMAIN cache => cache[request.uid].left = 0
      BY <2>1, PromptTimers
    <2>4. request \notin RangeOf(c2s)
      BY <2>3 DEF RangeOf
    <2>5. left = 0 /\ (request.uid \notin Known => Tries - left <= lost)
      BY <1>2, <2>2, <2>3, <2>4 DEF RequestLossInv
    <2>6. request.uid \in Known
      BY <1>0, <2>5
    <2>7. QED
      BY <1>3, <2>2, <2>3, <2>6
  <1>6. ~ReceiveFatal
    <2>1. s2c # <<>> => Received \in RangeOf(s2c)
      BY <1>0, RangeTail DEF Received
    <2>2. QED
      BY <1>2, <2>1 DEF ReceiveFatal, Receive, SourceInv
  <1>7. ~ReceiveAckAsReply
    <2>1. SUFFICES ASSUME ReceiveAckAsReply PROVE FALSE
      OBVIOUS
    <2>2. /\ Calling /\ phase # "attempt" /\ s2c # <<>> /\ Received.type = "Ack"
          /\ Received.uid = request.uid
      BY <2>1 DEF ReceiveAckAsReply, Receive, Answers, Calling
    <2>3. Received \in RangeOf(s2c) /\ Received \in ToClient
      BY <1>0, <2>2, RangeTail DEF Received
    <2>4. Received \in AcksOf(request)
      BY <2>2, <2>3 DEF AcksOf, ToClient
    <2>5. QED
      BY <2>2, <2>3, <2>4 DEF CopyInv
  <1>8. \A c \in Cmds : outcome[c] \notin Failures
    BY <1>2 DEF LossIsMasked, Failures
  <1>9. QED
    BY <1>4, <1>5, <1>6, <1>7, <1>8, StepFailures

LEMMA PromptInit == Init => SourceInv /\ PromptInv
  <1> SUFFICES ASSUME Init PROVE SourceInv /\ PromptInv
    OBVIOUS
  <1>1. /\ c2s = <<>> /\ s2c = <<>> /\ handling = {} /\ removed = {} /\ serving /\ ~Calling
        /\ phase = "start" /\ \A c \in Cmds : outcome[c] = "none"
    BY DEF Init, Calling
  <1>2. RangeOf(c2s) = {} /\ RangeOf(s2c) = {} /\ Len(c2s) = 0
    BY <1>1 DEF RangeOf
  <1>3. SourceInv
    BY <1>1, <1>2 DEF SourceInv
  <1>4. UidOrderInv /\ LastUidInv /\ CopyInv
    BY <1>1, <1>2 DEF UidOrderInv, LastUidInv, CopyInv
  <1>5. RequestLossInv /\ ReplyLossInv /\ RemovedInv /\ LossIsMasked
    BY <1>1, <1>2 DEF RequestLossInv, ReplyLossInv, RemovedInv, LossIsMasked
  <1>6. QED
    BY <1>3, <1>4, <1>5 DEF PromptInv

\* Everything the two theorems rest on.
LossInv == TypeInv /\ RunInv /\ AckInv /\ SendOrderInv /\ SourceInv /\ PromptInv

LEMMA LossNext == LossInv /\ [Next]_vars => LossInv'
  <1> SUFFICES ASSUME LossInv, [Next]_vars PROVE LossInv'
    OBVIOUS
  <1>1. TypeInv /\ RunInv /\ AckInv /\ SendOrderInv /\ SourceInv /\ PromptInv
    BY DEF LossInv
  <1>2. TypeInv' /\ RunInv' /\ AckInv' /\ SendOrderInv'
    BY <1>1, TypeNext, RunNext, AckNext, SendOrderNext
  <1>3. SourceInv'
    BY <1>1, <1>2, SourceNext
  <1>4. ASSUME Prompt, MaxLoss < Tries, dup' = 0
        PROVE  /\ UidOrderInv' /\ LastUidInv' /\ CopyInv' /\ RequestLossInv' /\ ReplyLossInv'
               /\ RemovedInv' /\ LossIsMasked'
    <2>1. dup = 0
      BY <1>1, <1>4, StepOrder
    <2>2. /\ UidOrderInv /\ LastUidInv /\ CopyInv /\ RequestLossInv /\ ReplyLossInv
          /\ RemovedInv /\ LossIsMasked
      BY <1>1, <1>4, <2>1 DEF PromptInv
    <2>3. UidOrderInv' /\ LastUidInv'
      BY <1>1, <1>4, <2>2, UidOrderNext, LastUidNext
    <2>4. CopyInv' /\ RequestLossInv'
      BY <1>1, <1>2, <1>4, <2>2, CopyNext, RequestLossNext
    <2>5. ReplyLossInv' /\ RemovedInv'
      BY <1>1, <1>2, <1>4, <2>2, ReplyLossNext, RemovedNext
    <2>6. LossIsMasked'
      BY <1>1, <1>4, <2>1, <2>2, MaskedNext
    <2>7. QED
      BY <2>3, <2>4, <2>5, <2>6
  <1>5. PromptInv'
    BY <1>4 DEF PromptInv
  <1>6. QED
    BY <1>2, <1>3, <1>5 DEF LossInv

LEMMA LossCorrect == Spec => []LossInv
  <1>1. Init => LossInv
    <2>1. Init => SendOrderInv
      BY DEF Init, SendOrderInv
    <2>2. QED
      BY <2>1, TypeInit, RunInit, AckInit, PromptInit DEF LossInv
  <1>2. QED
    BY <1>1, LossNext, PTL DEF Spec

\* With timers longer than any delay and fewer messages lost than there are tries,
\* nothing that MsgCaches has removed is requested again, and so MsgCachesAlreadyRemoved
\* does not end the server.
THEOREM RemovedStaysUnrequested == Spec => []RemovedNotRequested
  <1>1. LossInv => RemovedNotRequested
    <2> SUFFICES ASSUME LossInv, Prompt, MaxLoss < Tries, dup = 0,
                        NEW i \in 1 .. Len(c2s), c2s[i].type # "Ack"
                 PROVE  c2s[i].uid \notin removed
      BY DEF RemovedNotRequested
    <2>1. TypeInv /\ RunInv /\ SendOrderInv /\ RemovedInv
      BY DEF LossInv, PromptInv
    <2>2. c2s[i] \in RangeOf(c2s) /\ c2s[i] \in ToServer /\ c2s[i].uid \in Int
      BY <2>1, StreamTypes
    <2>3. CASE IsClientRequest(c2s[i])
      BY <2>1, <2>2, <2>3 DEF RemovedInv
    <2>4. CASE c2s[i].type \in OtherRequests
      <3>1. c2s[i].uid \in Known => c2s[i].uid < c2s[i].uid
        BY <2>1, <2>4 DEF SendOrderInv
      <3>2. QED
        BY <2>2, <3>1 DEF Known
    <2>5. QED
      BY <2>2, <2>3, <2>4 DEF ToServer, RequestTypes, IsClientRequest, ClientRequests, OtherRequests
  <1>2. QED
    BY <1>1, LossCorrect, PTL

\* With timers longer than any delay and fewer messages lost than there are tries, a
\* call returns as long as the server lives: the tries of send_and_receive and of
\* send_expired are enough, whatever the interleaving of the losses.
THEOREM LossMasked == Spec => []LossIsMasked
  <1>1. LossInv => LossIsMasked
    BY DEF LossInv, PromptInv, LossIsMasked
  <1>2. QED
    BY <1>1, LossCorrect, PTL
=============================================================================
