--------------------------- MODULE FileCopy_proofs ---------------------------
(****************************************************************************)
(* Proofs about FileCopy, for every number of keywords, of blocks and of    *)
(* faults: a file that a keyword opened is closed when it returns, but for  *)
(* the failures that are known; a keyword that returned has copied its      *)
(* files; and a directory has its mode after what is in it.                 *)
(****************************************************************************)
EXTENDS FileCopy, FiniteSetTheorems, SequenceTheorems, TLAPS

\* What the messages, the open files and the keywords are made of.
Sites == {"local"} \cup Terminals
Blocks == Nat \X Paths \X Nat
Whats == {"verify", "mkdir", "chmod", "open", "handle", "prompt", "close"}
Requests == [k : {"call"}, what : Whats, n : Nat, path : Paths, write : BOOLEAN, size : Nat,
             left : Nat]
Raising == {"open", "mkdir", "chmod", "close"}
Replies == [k : {"reply"}, what : Whats, n : Nat, path : Paths, write : BOOLEAN, size : Nat,
            left : Nat]
           \cup [k : {"raised"}, what : Raising, n : Nat, path : Paths,
                 write : BOOLEAN, size : Nat, left : Nat]
Data == [k : {"data"}, block : Blocks]
Inputs == Requests \cup Data \cup [k : {"read", "write"}]
Outputs == Replies \cup Data \cup [k : {"start", "stop"}]
Files == [n : Nat, place : Places, size : Nat, write : BOOLEAN, offset : Nat,
          buffer : Seq(Blocks)]
Tasks == [do : {"init", "mkdir", "file", "chmod"}, at : Sites, path : Paths]
Names == {"to", "from", "between", "directory", "partly", "missing", "create"}
Ops == [name : Names \cup {"none"}, n : Nat, from : Sites, to : Sites, size : Nat,
        todo : Seq(Tasks), block : Blocks, read : Nat, stale : SUBSET Paths,
        unclean : SUBSET Sites, error : Results]
Steps == CallSteps \cup {"idle", "task", "read", "data", "write", "start", "stop"}

TypeInv ==
    /\ line \in [Terminals -> {"none", "up", "hung", "dead"}]
    /\ in \in [Terminals -> Seq(Inputs)] /\ out \in [Terminals -> Seq(Outputs)]
    /\ handle \in [Terminals -> {NoFile} \cup Files]
    /\ op \in Ops /\ outcome \in Ops /\ pc \in Steps /\ sent \in BOOLEAN /\ copies \in Nat
    /\ blocked \in [Terminals -> BOOLEAN]

\* What the step tells of the keyword.
OpInv ==
    /\ pc = "idle" => op = NoOp
    /\ pc # "idle" => op.n = copies /\ copies > 0 /\ op.from # op.to
    /\ pc \notin {"idle", "task"} => op.todo # <<>>
    /\ sent => pc \in CallSteps /\ At \in Terminals
    /\ pc \in {"handlefrom", "data"} => op.from # "local"
    /\ pc \in {"handleto", "start", "stop"} => op.to # "local"
    /\ outcome.n <= copies

\* The calls that end the session when they are not answered, which are all but the prompts:
\* such a call, or its answer, is on its way only while it is awaited, and there is one of them
\* at most.
SessionCall(m) == m.k \in {"call", "reply", "raised"} /\ m.what # "prompt"
SessionCalls(s) == {i \in 1 .. Len(s) : SessionCall(s[i])}
Awaited(t, m) == sent /\ t = At /\ m \in {Call(t, What)} \cup Answers(Call(t, What))
CallInvOf(t) ==
    /\ \A i \in SessionCalls(in[t]) : in[t][i].k = "call" /\ Awaited(t, in[t][i]) /\ i = Len(in[t])
    /\ \A i \in SessionCalls(out[t]) : out[t][i].k # "call" /\ Awaited(t, out[t][i])
    /\ \A i, j \in SessionCalls(out[t]) : i = j
    /\ SessionCalls(in[t]) = {} \/ SessionCalls(out[t]) = {}
CallInv == \A t \in Terminals : CallInvOf(t)

\* A file that the keyword opened is open from the reply to its open to that to its close.
Replied(t) ==
    \E i \in SessionCalls(out[t]) : out[t][i].k = "reply" /\ out[t][i].what \in {"open", "close"}
Copying == {"handlefrom", "read", "data", "handleto", "write", "start", "stop"}
MayBeOpen(t) ==
    \/ /\ t = op.from
       /\ \/ pc \in Copying \cup {"opento", "promptto", "closeto", "promptfrom"}
          \/ pc = "openfrom" /\ Replied(t)
          \/ pc = "closefrom" /\ ~Replied(t)
    \/ /\ t = op.to
       /\ \/ pc \in Copying \cup {"promptto"}
          \/ pc = "opento" /\ Replied(t)
          \/ pc = "closeto" /\ ~Replied(t)
OpenInv ==
    pc # "idle" => \A t \in Terminals :
        handle[t] # NoFile /\ handle[t].n = op.n => t \in op.unclean \/ MayBeOpen(t)

\* What is read and written, and what the keyword copies, is a file that the remote Python
\* has opened.
Opened(t) ==
    \/ t = op.from /\ (pc \in Copying \cup {"opento"} \/ (pc = "openfrom" /\ Replied(t)))
    \/ t = op.to /\ (pc \in Copying \/ (pc = "opento" /\ Replied(t)))
Accesses(t) == {i \in 1 .. Len(in[t]) : in[t][i].k \in {"read", "write"}}
HandleInv ==
    \A t \in Terminals :
        /\ (Opened(t) \/ blocked[t] \/ Accesses(t) # {}) => handle[t] # NoFile
        /\ handle[t] # NoFile => handle[t].n \in 1 .. copies

Inv == TypeInv /\ OpInv /\ CallInv /\ HandleInv /\ OpenInv /\ FilesClosed

-----------------------------------------------------------------------------
(* What is searched for in what was printed.                                *)

LEMMA LeastIndex ==
  ASSUME NEW n \in Nat, NEW I, I \subseteq 1 .. n, I # {}
  PROVE  \E i \in I : \A j \in I : i <= j
  <1> DEFINE R == StrictSubsetOrdering(1 .. n)
             T == {1 .. i : i \in I}
  <1>1. IsFiniteSet(1 .. n)
    BY FS_Interval
  <1>2. IsWellFoundedOn(R, SUBSET (1 .. n))
    BY <1>1, FS_StrictSubsetOrderingWellFounded, FS_FiniteSubsetsOfFinite
  <1>3. T \subseteq SUBSET (1 .. n) /\ T # {}
    <2>1. \A i \in I : 1 .. i \subseteq 1 .. n
      OBVIOUS
    <2>2. QED
      BY <2>1
  <1>4. PICK x \in T : \A y \in T : ~(<<y, x>> \in R)
    <2> HIDE DEF R, T
    <2> QED
      BY <1>2, <1>3, WFMin
  <1>5. PICK i \in I : x = 1 .. i
    BY <1>4
  <1>6. ASSUME NEW j \in I, j < i
        PROVE  FALSE
    <2>1. 1 .. j \subseteq 1 .. i /\ 1 .. j # 1 .. i
      <3>1. i \in 1 .. i /\ i \notin 1 .. j
        BY <1>6
      <3>2. QED
        BY <1>6, <3>1
    <2>2. <<1 .. j, 1 .. i>> \in R
      BY <2>1 DEF StrictSubsetOrdering
    <2>3. QED
      BY <1>4, <1>5, <2>2
  <1>7. QED
    BY <1>6

LEMMA FirstIsAwaited ==
  ASSUME NEW S, NEW t, out[t] \in Seq(S), NEW awaited, Received(t, awaited) # {}
  PROVE  FirstOf(t, awaited) \in 1 .. Len(out[t]) /\ out[t][FirstOf(t, awaited)] \in awaited
  <1> DEFINE I == {i \in 1 .. Len(out[t]) : out[t][i] \in awaited}
  <1>1. I # {}
    BY DEF Received, Range
  <1>2. PICK i \in I : \A j \in I : i <= j
    BY <1>1, LeastIndex, Len(out[t]) \in Nat
  <1>3. \A j \in 1 .. i - 1 : out[t][j] \notin awaited
    BY <1>2
  <1>4. \E k \in 1 .. Len(out[t]) :
            out[t][k] \in awaited /\ \A j \in 1 .. k - 1 : out[t][j] \notin awaited
    BY <1>2, <1>3
  <1>5. QED
    BY <1>4 DEF FirstOf
-----------------------------------------------------------------------------
(* What a step does with the keyword.                                       *)

\* A step of the keyword leaves what it copies, and the files that were not closed.
Keeps ==
    /\ op' \in Ops /\ op'.n = op.n /\ op'.from = op.from /\ op'.to = op.to
    /\ op.unclean \subseteq op'.unclean
    /\ pc' # "task" => op'.todo = op.todo
    /\ sent' = FALSE /\ outcome' = outcome

LEMMA OpFields ==
  ASSUME op \in Ops
  PROVE  /\ \A error \in Results : [op EXCEPT !.error = error] \in Ops
         /\ \A error \in Results : [op EXCEPT !.todo = <<>>, !.error = error] \in Ops
         /\ op.todo # <<>> =>
               /\ [op EXCEPT !.todo = Tail(@), !.read = 0] \in Ops
               /\ [op EXCEPT !.todo = Tail(@), !.read = 0, !.stale = @ \cup Made] \in Ops
         /\ \A error \in Results, at \in Sites :
               /\ [op EXCEPT !.unclean = @ \cup {at}, !.error = error] \in Ops
               /\ [[op EXCEPT !.unclean = @ \cup {at}, !.error = error]
                      EXCEPT !.todo = <<>>] \in Ops
         /\ \A block \in Blocks, read \in Nat :
               [op EXCEPT !.block = block, !.read = read] \in Ops
  <1>1. <<>> \in Seq(Tasks) /\ (op.todo # <<>> => Tail(op.todo) \in Seq(Tasks))
    BY DEF Ops
  <1>2. \A at \in Sites : op.unclean \cup {at} \in SUBSET Sites
    BY DEF Ops
  <1>3. \A error \in Results : [op EXCEPT !.error = error] \in Ops
    BY DEF Ops
  <1>4. \A error \in Results : [op EXCEPT !.todo = <<>>, !.error = error] \in Ops
    BY <1>1 DEF Ops
  <1>5. op.todo # <<>> =>
           /\ [op EXCEPT !.todo = Tail(@), !.read = 0] \in Ops
           /\ [op EXCEPT !.todo = Tail(@), !.read = 0, !.stale = @ \cup Made] \in Ops
    <2>1. op.stale \cup Made \in SUBSET Paths
      BY DEF Ops, Made, Paths
    <2>2. QED
      BY <1>1, <2>1 DEF Ops
  <1>6. \A error \in Results, at \in Sites :
           [op EXCEPT !.unclean = @ \cup {at}, !.error = error] \in Ops
    BY <1>2 DEF Ops
  <1>7. \A error \in Results, at \in Sites :
           [[op EXCEPT !.unclean = @ \cup {at}, !.error = error] EXCEPT !.todo = <<>>] \in Ops
    BY <1>1, <1>2 DEF Ops
  <1>8. \A block \in Blocks, read \in Nat : [op EXCEPT !.block = block, !.read = read] \in Ops
    BY DEF Ops
  <1>9. QED
    BY <1>3, <1>4, <1>5, <1>6, <1>7, <1>8

LEMMA PlacesOf ==
  ASSUME op \in Ops, pc \in CallSteps, op.todo # <<>>
  PROVE  At \in Sites /\ This \in Tasks /\ op.from \in Sites /\ op.to \in Sites
         /\ What \in Whats
  <1>1. Head(op.todo) \in Tasks /\ op.from \in Sites /\ op.to \in Sites
    BY DEF Ops
  <1>2. This \in Tasks /\ This.at \in Sites
    BY <1>1 DEF This, Tasks
  <1>3. At \in Sites
    BY <1>1, <1>2 DEF At
  <1>4. What \in Whats
    BY DEF What, Whats, CallSteps
  <1>5. QED
    BY <1>1, <1>2, <1>3, <1>4

LEMMA SucceedsSteps ==
  ASSUME op \in Ops, OpInv, pc \in CallSteps, Succeeds
  PROVE  /\ Keeps
         /\ \/ pc \in {"verify", "mkdir", "chmod"} /\ pc' = "task"
            \/ pc = "openfrom" /\ pc' = "opento"
            \/ pc = "opento" /\ pc' = (IF op.from = "local" THEN "read" ELSE "handlefrom")
            \/ pc = "handlefrom" /\ pc' = "read"
            \/ pc = "handleto" /\ pc' = "write"
            \/ pc = "promptto" /\ pc' = "closeto"
            \/ pc = "closeto" /\ pc' = "promptfrom"
            \/ pc = "promptfrom" /\ pc' = "closefrom"
            \/ pc = "closefrom" /\ pc' \in {"task", "chmod"}
  <1>a. op.todo # <<>> /\ op.error \in Results
    BY DEF OpInv, CallSteps, Ops
  <1>1. ASSUME NEW to, GoOn(to)
        PROVE  Keeps /\ pc' = to
    BY <1>1 DEF GoOn, Step, Keeps
  <1>2. ASSUME TaskDone
        PROVE  Keeps /\ pc' = "task"
    BY <1>2, <1>a, OpFields DEF TaskDone, Step, Keeps, Ops
  <1>3. ASSUME NEW error \in Results, GiveUp(error)
        PROVE  Keeps /\ pc' = "task"
    BY <1>3, <1>a, OpFields DEF GiveUp, Step, Keeps, Ops
  <1>4. CASE pc \in {"verify", "mkdir", "chmod"}
    BY <1>2, <1>4 DEF Succeeds
  <1>5. CASE pc \in {"openfrom", "opento", "handlefrom", "handleto", "promptto", "closeto",
                     "promptfrom"}
    BY <1>1, <1>5 DEF Succeeds
  <1>6. CASE pc = "closefrom"
    BY <1>a, <1>1, <1>2, <1>3, <1>6 DEF Succeeds
  <1>7. QED
    BY <1>4, <1>5, <1>6 DEF CallSteps

\* Where a step may fail: the file it could not close is noted.
FailSteps == (CallSteps \ {"verify"}) \cup {"read", "write", "data", "start", "stop"}
LEMMA FailsSteps ==
  ASSUME op \in Ops, OpInv, pc \in FailSteps, NEW error \in Results, Fails(error)
  PROVE  /\ Keeps
         /\ \/ pc \in {"mkdir", "chmod", "openfrom"} /\ pc' = "task"
            \/ pc = "opento" /\ pc' = "promptfrom"
            \/ /\ pc \in {"handlefrom", "handleto", "read", "write", "data", "start", "stop"}
               /\ pc' = "promptto"
            \/ pc \in {"promptto", "closeto"} /\ pc' = "promptfrom" /\ At \in op'.unclean
            \/ pc \in {"promptfrom", "closefrom"} /\ pc' = "task" /\ At \in op'.unclean
  <1>a. op.todo # <<>>
    BY DEF OpInv, CallSteps, FailSteps
  <1>1. ASSUME GiveUp(error)
        PROVE  Keeps /\ pc' = "task"
    BY <1>1, OpFields DEF GiveUp, Step, Keeps, Ops
  <1>2. ASSUME NEW to, GoOnWith(to, error)
        PROVE  Keeps /\ pc' = to
    BY <1>2, OpFields DEF GoOnWith, Step, Keeps, Ops
  <1>3. CASE pc \in {"mkdir", "chmod", "openfrom"}
    BY <1>1, <1>3 DEF Fails
  <1>4. CASE pc \in {"opento", "handlefrom", "handleto", "read", "write", "data", "start", "stop"}
    BY <1>2, <1>4 DEF Fails
  <1>5. CASE pc \in {"promptto", "closeto"}
    <2>1. Step("promptfrom", [op EXCEPT !.unclean = @ \cup {At}, !.error = error])
      BY <1>5 DEF Fails
    <2>2. At \in Sites
      BY <1>a, <1>5, PlacesOf DEF CallSteps
    <2>3. QED
      BY <1>5, <2>1, <2>2, OpFields DEF Step, Keeps, Ops
  <1>6. CASE pc \in {"promptfrom", "closefrom"}
    <2>1. Step("task", [[op EXCEPT !.unclean = @ \cup {At}, !.error = error]
                           EXCEPT !.todo = <<>>])
      BY <1>6 DEF Fails
    <2>2. At \in Sites
      BY <1>a, <1>6, PlacesOf DEF CallSteps
    <2>3. QED
      BY <1>6, <2>1, <2>2, OpFields DEF Step, Keeps, Ops
  <1>7. QED
    BY <1>3, <1>4, <1>5, <1>6 DEF CallSteps, FailSteps

-----------------------------------------------------------------------------
(* The queues.                                                              *)

LEMMA AppendOf ==
  ASSUME NEW S, NEW s \in Seq(S), NEW m \in S
  PROVE  /\ Append(s, m) \in Seq(S) /\ s \o <<m>> = Append(s, m)
         /\ Len(Append(s, m)) = Len(s) + 1 /\ Append(s, m)[Len(s) + 1] = m
         /\ \A i \in 1 .. Len(s) : Append(s, m)[i] = s[i]
  <1>1. Append(s, m) \in Seq(S) /\ Len(Append(s, m)) = Len(s) + 1
    OBVIOUS
  <1>2. Append(s, m)[Len(s) + 1] = m /\ \A i \in 1 .. Len(s) : Append(s, m)[i] = s[i]
    OBVIOUS
  <1>3. s \o <<m>> = Append(s, m)
    BY AppendIsConcat
  <1>4. QED
    BY <1>1, <1>2, <1>3

LEMMA TailOf ==
  ASSUME NEW S, NEW s \in Seq(S), s # <<>>
  PROVE  /\ Tail(s) \in Seq(S) /\ Len(s) \in Nat /\ Len(s) > 0 /\ Len(Tail(s)) = Len(s) - 1
         /\ Head(s) = s[1] /\ s[1] \in S
         /\ \A i \in 1 .. Len(s) - 1 : Tail(s)[i] = s[i + 1]
  OBVIOUS

LEMMA SkippedOf ==
  ASSUME NEW S, NEW t, out[t] \in Seq(S), NEW awaited, Received(t, awaited) # {}
  PROVE  /\ Skipped(t, awaited) \in Seq(S)
         /\ \A i \in 1 .. Len(Skipped(t, awaited)) :
               \E j \in 1 .. Len(out[t]) :
                   j # FirstOf(t, awaited) /\ Skipped(t, awaited)[i] = out[t][j]
  <1> DEFINE f == FirstOf(t, awaited)
             s == out[t]
             r == SubSeq(s, f + 1, Len(s))
  <1>1. f \in 1 .. Len(s) /\ s \in Seq(S) /\ Len(s) \in Nat
    BY FirstIsAwaited
  <1>2. r \in Seq(S) /\ Len(r) = Len(s) - f /\ \A i \in 1 .. Len(r) : r[i] = s[f + i]
    <2> HIDE DEF f, s
    <2> QED
      BY <1>1
  <1>3. \A i \in 1 .. Len(r) : f + i \in 1 .. Len(s) /\ f + i # f
    <2> HIDE DEF f, s, r
    <2> QED
      BY <1>1, <1>2
  <1>4. QED
    BY <1>2, <1>3 DEF Skipped

LEMMA SendType ==
  ASSUME TypeInv, NEW t \in Terminals, NEW m \in Inputs, Send(t, m)
  PROVE  in' \in [Terminals -> Seq(Inputs)]
  BY AppendOf DEF TypeInv, Send

LEMMA TakeType ==
  ASSUME TypeInv, NEW t \in Terminals, NEW awaited, Take(t, awaited)
  PROVE  out' \in [Terminals -> Seq(Outputs)]
  <1>1. out[t] \in Seq(Outputs)
    BY DEF TypeInv
  <1>2. Skipped(t, awaited) \in Seq(Outputs)
    BY <1>1, SkippedOf DEF Take
  <1>3. QED
    BY <1>2 DEF TypeInv, Take

\* What a remote Python reads and prints.
LEMMA ReadType ==
  ASSUME TypeInv, NEW t \in Terminals, in[t] # <<>>, in' = [in EXCEPT ![t] = Tail(@)]
  PROVE  in' \in [Terminals -> Seq(Inputs)] /\ Head(in[t]) \in Inputs
  <1>1. in[t] \in Seq(Inputs)
    BY DEF TypeInv
  <1>2. Tail(in[t]) \in Seq(Inputs) /\ Head(in[t]) \in Inputs
    BY <1>1, TailOf
  <1>3. QED
    BY <1>2 DEF TypeInv

LEMMA PrintType ==
  ASSUME TypeInv, NEW t \in Terminals, NEW m \in Outputs, Write(t, <<m>>)
  PROVE  out' \in [Terminals -> Seq(Outputs)]
  <1>1. out[t] \in Seq(Outputs)
    BY DEF TypeInv
  <1>2. out[t] \o <<m>> \in Seq(Outputs)
    BY <1>1, AppendOf
  <1>3. QED
    BY <1>2 DEF TypeInv, Write

LEMMA MessageTypes ==
  /\ \A m \in Inputs : /\ m.k = "call" => m \in Requests
                       /\ m.k = "data" => m \in Data
  /\ \A m \in Requests : [m EXCEPT !.k = "reply"] \in Replies
  /\ \A m \in Requests : m.what \in Raising => [m EXCEPT !.k = "raised"] \in Replies
  <1>1. \A m \in Inputs : m.k = "call" => m \in Requests
    BY DEF Inputs, Requests, Data
  <1>2. \A m \in Inputs : m.k = "data" => m \in Data
    BY DEF Inputs, Requests, Data
  <1>3. \A m \in Requests : [m EXCEPT !.k = "reply"] \in Replies
    BY DEF Requests, Replies
  <1>4. \A m \in Requests : m.what \in Raising => [m EXCEPT !.k = "raised"] \in Replies
    BY DEF Requests, Replies
  <1>5. QED
    BY <1>1, <1>2, <1>3, <1>4

LEMMA CallType ==
  ASSUME op \in Ops, pc \in CallSteps, op.todo # <<>>, NEW t \in Terminals
  PROVE  Call(t, What) \in Requests
  <1>1. This \in Tasks /\ What \in Whats
    BY PlacesOf
  <1>2. This.path \in Paths
    BY <1>1 DEF Tasks
  <1>3. op.n \in Nat /\ op.size \in Nat /\ Len(op.todo) \in Nat
    BY DEF Ops
  <1>4. QED
    BY <1>1, <1>2, <1>3 DEF Call, Requests

-----------------------------------------------------------------------------
(* Types.                                                                   *)

\* What the remote Pythons do: the keyword is left alone.
LinesInv ==
    /\ line \in [Terminals -> {"none", "up", "hung", "dead"}]
    /\ in \in [Terminals -> Seq(Inputs)] /\ out \in [Terminals -> Seq(Outputs)]
    /\ handle \in [Terminals -> {NoFile} \cup Files]
    /\ blocked \in [Terminals -> BOOLEAN]
KeywordInv == op \in Ops /\ outcome \in Ops /\ pc \in Steps /\ sent \in BOOLEAN /\ copies \in Nat

\* The first of what is still to be read is taken, and something may be printed: the answer
\* of a call or something else.
Answering(t, m) == \E k \in {"reply", "raised"} :
                       m = [Head(in[t]) EXCEPT !.k = k] /\ Head(in[t]).k = "call"
Takes(t) ==
    /\ in[t] # <<>> /\ in' = [in EXCEPT ![t] = Tail(@)]
    /\ UNCHANGED <<op, pc, sent>>
    /\ \/ out' = out
       \/ \E m \in Outputs : Write(t, <<m>>) /\ (Answering(t, m) \/ ~SessionCall(m))
Prints(t) == \/ out' = out
             \/ \E m \in Outputs : /\ Write(t, <<m>>)
                              /\ ~(m.k = "reply" /\ m.what \in {"open", "close"})

\* The same files stay open.
SameFiles == \A r \in Terminals : /\ handle'[r] = NoFile <=> handle[r] = NoFile
                                  /\ handle'[r].n = handle[r].n

LEMMA FileFields ==
  /\ NoFile \notin Files
  /\ \A f \in Files : /\ f.n \in Nat /\ f.place \in Places /\ f.place[2] \in Paths
                      /\ f.offset \in Nat /\ f.buffer \in Seq(Blocks)
                      /\ \A b \in Seq(Blocks) : [f EXCEPT !.buffer = b] \in Files
                      /\ \A i \in Nat : [f EXCEPT !.offset = i] \in Files
                      /\ Emptied(f) \in Files /\ Emptied(f).n = f.n
  <1>1. NoFile \notin Files
    BY DEF NoFile, Files
  <1>2. \A f \in Files : /\ f.n \in Nat /\ f.place \in Places
                         /\ f.offset \in Nat /\ f.buffer \in Seq(Blocks)
    BY DEF Files
  <1>3. \A f \in Files : f.place[2] \in Paths
    BY <1>2 DEF Places
  <1>4. \A f \in Files, b \in Seq(Blocks) : [f EXCEPT !.buffer = b] \in Files
    BY DEF Files
  <1>5. \A f \in Files, i \in Nat : [f EXCEPT !.offset = i] \in Files
    BY DEF Files
  <1>6. \A f \in Files : Emptied(f) \in Files /\ Emptied(f).n = f.n
    <2>1. \A f \in Files : f.offset + Len(f.buffer) \in Nat /\ <<>> \in Seq(Blocks)
      BY <1>2
    <2>2. QED
      BY <2>1 DEF Emptied, Files
  <1>7. QED
    BY <1>1, <1>2, <1>3, <1>4, <1>5, <1>6

LEMMA ChangedFile ==
  ASSUME TypeInv, NEW t \in Terminals, handle[t] # NoFile, NEW f \in Files, f.n = handle[t].n,
         handle' = [handle EXCEPT ![t] = f]
  PROVE  SameFiles
  BY FileFields DEF TypeInv, SameFiles

LEMMA ReplyType ==
  ASSUME TypeInv, NEW t \in Terminals, NEW k \in {"reply", "raised"},
         Reads(t, "call"), k = "raised" => NextCall(t).what \in Raising, Reply(t, k)
  PROVE  /\ in' \in [Terminals -> Seq(Inputs)] /\ out' \in [Terminals -> Seq(Outputs)]
         /\ NextCall(t) \in Requests /\ UNCHANGED <<line, blocked>>
  <1>1. in[t] # <<>> /\ NextCall(t).k = "call"
    BY DEF Reads, NextCall
  <1>2. in' \in [Terminals -> Seq(Inputs)] /\ NextCall(t) \in Inputs
    BY <1>1, ReadType DEF Reply, NextCall
  <1>3. NextCall(t) \in Requests
    BY <1>1, <1>2, MessageTypes
  <1>4. [NextCall(t) EXCEPT !.k = k] \in Outputs
    BY <1>3, MessageTypes DEF Outputs
  <1>5. out' \in [Terminals -> Seq(Outputs)]
    BY <1>4, PrintType DEF Reply
  <1>6. QED
    BY <1>2, <1>3, <1>5 DEF Reply

LEMMA RunOpenType ==
  ASSUME TypeInv, NEW t \in Terminals, RunOpen(t)
  PROVE  LinesInv'
  <1>1. NextCall(t) \in Requests /\ in' \in [Terminals -> Seq(Inputs)]
        /\ out' \in [Terminals -> Seq(Outputs)] /\ UNCHANGED <<line, blocked>>
    BY ReplyType DEF RunOpen
  <1> DEFINE c == NextCall(t)
             f == [n |-> c.n, place |-> <<t, c.path>>, size |-> c.size, write |-> c.write,
                   offset |-> 0, buffer |-> <<>>]
  <1>2. c.n \in Nat /\ c.path \in Paths /\ c.size \in Nat /\ c.write \in BOOLEAN
    BY <1>1 DEF Requests
  <1>3. <<t, c.path>> \in Places /\ <<>> \in Seq(Blocks)
    BY <1>2 DEF Places
  <1>4. f \in Files
    <2> HIDE DEF c
    <2> QED
      BY <1>2, <1>3 DEF Files
  <1>5. handle' = [handle EXCEPT ![t] = f]
    BY DEF RunOpen
  <1>6. handle' \in [Terminals -> {NoFile} \cup Files]
    <2> HIDE DEF f
    <2> QED
      BY <1>4, <1>5 DEF TypeInv
  <1>7. QED
    BY <1>1, <1>6 DEF TypeInv, LinesInv

LEMMA RunCallType ==
  ASSUME TypeInv, NEW t \in Terminals,
         RunClose(t) \/ RunChmod(t) \/ RunOther(t) \/ OpenFails(t) \/ CloseFails(t)
  PROVE  LinesInv'
  <1>1. handle' \in [Terminals -> {NoFile} \cup Files]
    BY DEF TypeInv, RunClose, RunChmod, RunOther, OpenFails, CloseFails
  <1>2. CASE OpenFails(t) \/ CloseFails(t)
    <2>1. Reads(t, "call") /\ Reply(t, "raised") /\ NextCall(t).what \in Raising
      BY <1>2 DEF OpenFails, CloseFails, Raising
    <2>2. QED
      BY <1>1, <2>1, ReplyType DEF TypeInv, LinesInv
  <1>3. CASE RunClose(t) \/ RunChmod(t) \/ RunOther(t)
    <2>1. Reads(t, "call") /\ Reply(t, "reply")
      BY <1>3 DEF RunClose, RunChmod, RunOther
    <2>2. QED
      BY <1>1, <2>1, ReplyType DEF TypeInv, LinesInv
  <1>4. QED
    BY <1>2, <1>3

\* The reads and writes of the file that is open.
LEMMA RunReadType ==
  ASSUME TypeInv, NEW t \in Terminals, handle[t] # NoFile, RunRead(t)
  PROVE  LinesInv' /\ SameFiles /\ Takes(t) /\ Prints(t)
  <1> DEFINE f == handle[t]
             block == IF f.offset = f.size THEN EndOfFile
                      ELSE Block(f.n, f.place[2], f.offset + 1)
  <1>1. f \in Files
    BY DEF TypeInv
  <1>2. f.n \in Nat /\ f.place[2] \in Paths /\ f.offset + 1 \in Nat
    BY <1>1, FileFields
  <1>3. block \in Blocks
    <2>1. EndOfFile \in Blocks
      BY DEF EndOfFile, Blocks, Paths
    <2>2. Block(f.n, f.place[2], f.offset + 1) \in Blocks
      BY <1>2 DEF Block, Blocks
    <2>3. QED
      BY <2>1, <2>2
  <1>4. [k |-> "data", block |-> block] \in Outputs
    <2> HIDE DEF block
    <2> QED
      BY <1>3 DEF Outputs, Data
  <1>5. out' \in [Terminals -> Seq(Outputs)]
    BY <1>4, PrintType DEF RunRead
  <1>6. in' \in [Terminals -> Seq(Inputs)]
    BY ReadType DEF RunRead, Reads
  <1>7. [f EXCEPT !.offset = @ + 1] \in Files
    BY <1>1, <1>2, FileFields
  <1>8. handle' = handle \/ handle' = [handle EXCEPT ![t] = [f EXCEPT !.offset = @ + 1]]
    BY DEF RunRead, TypeInv
  <1>9. handle' \in [Terminals -> {NoFile} \cup Files]
    BY <1>7, <1>8 DEF TypeInv
  <1>10. SameFiles
    <2>1. [f EXCEPT !.offset = @ + 1].n = handle[t].n
      BY <1>1 DEF Files
    <2>2. QED
      BY <1>7, <1>8, <2>1, ChangedFile DEF SameFiles
  <1>11. Takes(t) /\ Prints(t)
    <2>1. ~SessionCall([k |-> "data", block |-> block])
      BY DEF SessionCall
    <2>2. Write(t, <<[k |-> "data", block |-> block]>>)
      BY DEF RunRead
    <2>3. QED
      <3> HIDE DEF block
      <3> QED
        BY <1>4, <2>1, <2>2 DEF RunRead, Reads, control, Takes, Prints
  <1>12. QED
    BY <1>5, <1>6, <1>9, <1>10, <1>11 DEF RunRead, TypeInv, LinesInv

LEMMA RunWriteType ==
  ASSUME TypeInv, NEW t \in Terminals, RunWrite(t)
  PROVE  LinesInv' /\ Takes(t) /\ Prints(t)
  <1>1. [k |-> "start"] \in Outputs
    BY DEF Outputs
  <1>2. out' \in [Terminals -> Seq(Outputs)] /\ in' \in [Terminals -> Seq(Inputs)]
    BY <1>1, PrintType, ReadType DEF RunWrite, Reads
  <1>3. ~SessionCall([k |-> "start"])
    BY DEF SessionCall
  <1>4. Takes(t) /\ Prints(t)
    BY <1>1, <1>3 DEF RunWrite, Reads, control, Takes, Prints
  <1>5. QED
    BY <1>2, <1>4 DEF RunWrite, TypeInv, LinesInv

LEMMA TakeBytesType ==
  ASSUME TypeInv, NEW t \in Terminals, blocked[t] => handle[t] # NoFile,
         WriteBlock(t) \/ TakeMessage(t)
  PROVE  LinesInv' /\ SameFiles /\ Takes(t) /\ Prints(t)
  <1>1. in' \in [Terminals -> Seq(Inputs)] /\ Head(in[t]) \in Inputs
    BY ReadType DEF WriteBlock, TakeMessage
  <1>2. [k |-> "stop"] \in Outputs
    BY DEF Outputs
  <1>3. out' \in [Terminals -> Seq(Outputs)]
    <2>1. out' = out \/ Write(t, <<[k |-> "stop"]>>)
      BY DEF WriteBlock, TakeMessage
    <2>2. QED
      BY <1>2, <2>1, PrintType DEF TypeInv
  <1>4. handle[t] \in Files /\ handle[t].buffer \in Seq(Blocks)
    BY FileFields DEF TypeInv, WriteBlock, TakeMessage
  <1>5. ASSUME NEW b \in Blocks, handle' = [handle EXCEPT ![t].buffer = Append(@, b)]
        PROVE  handle' \in [Terminals -> {NoFile} \cup Files] /\ SameFiles
    <2>1. Append(handle[t].buffer, b) \in Seq(Blocks)
      BY <1>4, AppendOf
    <2>2. [handle[t] EXCEPT !.buffer = Append(@, b)] \in Files
      BY <1>4, <2>1, FileFields
    <2>3. handle' = [handle EXCEPT ![t] = [handle[t] EXCEPT !.buffer = Append(@, b)]]
      BY <1>5 DEF TypeInv
    <2>4. [handle[t] EXCEPT !.buffer = Append(@, b)].n = handle[t].n
      BY <1>4 DEF Files
    <2>5. SameFiles
      <3>1. handle[t] # NoFile
        BY <1>4, FileFields
      <3>2. QED
        BY <2>2, <2>3, <2>4, <3>1, ChangedFile
    <2>6. QED
      BY <2>2, <2>3, <2>5 DEF TypeInv
  <1>6. handle' \in [Terminals -> {NoFile} \cup Files] /\ SameFiles
    <2>1. CASE WriteBlock(t)
      <3>1. Head(in[t]) \in Data
        BY <1>1, <2>1, MessageTypes DEF WriteBlock
      <3>2. Head(in[t]).block \in Blocks
        BY <3>1 DEF Data
      <3>3. QED
        BY <1>5, <2>1, <3>2 DEF WriteBlock
    <2>2. CASE TakeMessage(t)
      <3>1. Garbled \in Blocks
        BY DEF Garbled, Blocks, Paths
      <3>2. handle' = handle \/ handle' = [handle EXCEPT ![t].buffer = Append(@, Garbled)]
        BY <2>2 DEF TakeMessage
      <3>3. QED
        BY <1>5, <3>1, <3>2 DEF TypeInv, SameFiles
    <2>3. QED
      BY <2>1, <2>2
  <1>7. line' = line /\ blocked' \in [Terminals -> BOOLEAN]
    BY DEF WriteBlock, TakeMessage, TypeInv
  <1>8. Takes(t) /\ Prints(t)
    <2>1. ~SessionCall([k |-> "stop"])
      BY DEF SessionCall
    <2>2. out' = out \/ Write(t, <<[k |-> "stop"]>>)
      BY DEF WriteBlock, TakeMessage
    <2>3. in[t] # <<>> /\ in' = [in EXCEPT ![t] = Tail(@)] /\ UNCHANGED <<op, pc, sent>>
      BY DEF WriteBlock, TakeMessage, control
    <2>4. QED
      BY <1>2, <2>1, <2>2, <2>3 DEF Takes, Prints
  <1>9. QED
    BY <1>1, <1>3, <1>6, <1>7, <1>8 DEF LinesInv, TypeInv

LEMMA FileFailsType ==
  ASSUME TypeInv, NEW t \in Terminals, FileFails(t)
  PROVE  LinesInv' /\ SameFiles /\ Takes(t) /\ Prints(t)
  <1>1. in' \in [Terminals -> Seq(Inputs)]
    BY ReadType DEF FileFails
  <1>2. blocked' \in [Terminals -> BOOLEAN]
    BY DEF TypeInv, FileFails
  <1>3. UNCHANGED <<line, out, handle, op, pc, sent>> /\ in[t] # <<>>
        /\ in' = [in EXCEPT ![t] = Tail(@)]
    BY DEF FileFails, control
  <1>4. SameFiles /\ Takes(t) /\ Prints(t)
    BY <1>3 DEF SameFiles, Takes, Prints
  <1>5. QED
    BY <1>1, <1>2, <1>3, <1>4 DEF LinesInv, TypeInv

\* Files that are written and closed, and lines that break, on their own.
LEMMA EnvironmentType ==
  ASSUME TypeInv,
         \/ Collect
         \/ \E t \in Terminals : Flush(t) \/ Hang(t) \/ Revive(t) \/ Die(t)
  PROVE  LinesInv'
  <1>1. CASE Collect
    BY <1>1 DEF Collect, TypeInv, LinesInv
  <1>2. ASSUME NEW t \in Terminals, Flush(t)
        PROVE  LinesInv'
    <2>1. handle[t] \in Files
      BY <1>2 DEF Flush, TypeInv
    <2>2. handle' \in [Terminals -> {NoFile} \cup Files]
      BY <1>2, <2>1, FileFields DEF Flush, TypeInv
    <2>3. QED
      BY <1>2, <2>2 DEF Flush, TypeInv, LinesInv
  <1>3. ASSUME NEW t \in Terminals, Hang(t) \/ Revive(t) \/ Die(t)
        PROVE  LinesInv'
    BY <1>3 DEF Hang, Revive, Die, Breaks, TypeInv, LinesInv
  <1>4. QED
    BY <1>1, <1>2, <1>3

LEMMA SessionEndsType ==
  ASSUME TypeInv, NEW t \in Terminals, NEW how \in {"none", "up"}, SessionEnds(t, how)
  PROVE  LinesInv'
  <1>1. <<>> \in Seq(Inputs) /\ <<>> \in Seq(Outputs)
    OBVIOUS
  <1>2. QED
    BY <1>1 DEF SessionEnds, TypeInv, LinesInv

-----------------------------------------------------------------------------
(* The steps of the keyword.                                                *)

LEMMA ReadSteps ==
  ASSUME op \in Ops, NEW block \in Blocks, Read(block)
  PROVE  /\ Keeps
         /\ pc' \in {"promptto", "handleto", "write"}
         /\ pc' = "handleto" => op.to # "local"
  <1>1. op.read + 1 \in Nat /\ op.read \in Nat
    BY DEF Ops
  <1> DEFINE read == IF block = EndOfFile THEN op.read ELSE op.read + 1
             new == [op EXCEPT !.block = block, !.read = read]
  <1>2. op' = new /\ new \in Ops
    <2>1. read \in Nat
      BY <1>1
    <2>2. op' = new
      BY DEF Read, Step
    <2>3. QED
      BY <2>1, <2>2, OpFields
  <1>3. new.n = op.n /\ new.from = op.from /\ new.to = op.to /\ new.unclean = op.unclean
        /\ new.todo = op.todo
    <2> HIDE DEF read
    <2> QED
      BY DEF Ops
  <1>4. sent' = FALSE /\ outcome' = outcome
    BY DEF Read, Step
  <1>5. pc' = IF block = EndOfFile THEN "promptto"
              ELSE IF op.read = 0 /\ op.to # "local" THEN "handleto" ELSE "write"
    BY DEF Read, Step
  <1>6. Keeps
    <2> HIDE DEF new
    <2> QED
      BY <1>2, <1>3, <1>4 DEF Keeps
  <1>7. QED
    BY <1>5, <1>6

LEMMA GoOnSteps ==
  ASSUME op \in Ops, NEW to, GoOn(to)
  PROVE  Keeps /\ pc' = to /\ op' = op
  BY DEF GoOn, Step, Keeps

LEMMA TaskEnds ==
  ASSUME op \in Ops, op.todo # <<>>,
         TaskDone \/ Renewed \/ \E error \in Results : GiveUp(error)
  PROVE  Keeps /\ pc' = "task"
  <1>1. CASE TaskDone \/ Renewed
    BY <1>1, OpFields DEF TaskDone, Renewed, Step, Keeps, Ops
  <1>2. ASSUME NEW error \in Results, GiveUp(error)
        PROVE  Keeps /\ pc' = "task"
    BY <1>2, OpFields DEF GiveUp, Step, Keeps, Ops
  <1>3. QED
    BY <1>1, <1>2

\* Such a step keeps what is known of the keyword.
LEMMA KeepsOp ==
  ASSUME KeywordInv, OpInv, Keeps, UNCHANGED copies, pc # "idle", pc' \in Steps \ {"idle"},
         pc' # "task" => op.todo # <<>>,
         pc' \in {"handlefrom", "data"} => op.from # "local",
         pc' \in {"handleto", "start", "stop"} => op.to # "local"
  PROVE  KeywordInv' /\ OpInv'
  <1>1. KeywordInv'
    BY DEF KeywordInv, Keeps
  <1>2. OpInv'
    BY DEF OpInv, Keeps, KeywordInv
  <1>3. QED
    BY <1>1, <1>2

LEMMA TodoTypes ==
  ASSUME NEW at \in Sites, NEW from \in Sites
  PROVE  /\ CopyTasks(from, at) \in Seq(Tasks) /\ DirTasks(at) \in Seq(Tasks)
         /\ PartTasks(at) \in Seq(Tasks) /\ MakeTasks(at) \in Seq(Tasks)
  <1>1. \A do \in {"init", "mkdir", "file", "chmod"}, site \in Sites, path \in Paths :
           Task(do, site, path) \in Tasks
    BY DEF Task, Tasks
  <1>2. {"f", "g", "dir", "sub"} \subseteq Paths
    BY DEF Paths
  <1>3. InitTask(from) \in Seq(Tasks) /\ InitTask(at) \in Seq(Tasks)
    BY <1>1, <1>2 DEF InitTask
  <1>4. <<Task("mkdir", at, "f"), Task("file", at, "f")>> \in Seq(Tasks)
    BY <1>1, <1>2
  <1>5. CopyTasks(from, at) \in Seq(Tasks)
    BY <1>3, <1>4 DEF CopyTasks
  <1>6. DirTasks(at) \in Seq(Tasks)
    BY <1>1, <1>2 DEF DirTasks
  <1>7. PartTasks(at) \in Seq(Tasks) /\ MakeTasks(at) \in Seq(Tasks)
    BY <1>1, <1>2 DEF PartTasks, MakeTasks
  <1>8. QED
    BY <1>5, <1>6, <1>7

LEMMA BeginSteps ==
  ASSUME KeywordInv, OpInv, MaxBlocks \in Nat,
         NEW name \in Names,
         NEW from \in Sites, NEW to \in Sites, from # to, NEW todo \in Seq(Tasks),
         Begin(name, from, to, todo)
  PROVE  KeywordInv' /\ OpInv'
  <1>1. PICK size \in 0 .. MaxBlocks :
            op' = [NoOp EXCEPT !.name = name, !.n = copies + 1, !.from = from, !.to = to,
                               !.size = size, !.todo = todo]
    BY DEF Begin
  <1>2. op' = [name |-> name, n |-> copies + 1, from |-> from, to |-> to, size |-> size,
               todo |-> todo, block |-> EndOfFile, read |-> 0,
               stale |-> {}, unclean |-> {}, error |-> "none"]
    BY <1>1 DEF NoOp
  <1>3. copies + 1 \in Nat /\ size \in Nat /\ EndOfFile \in Blocks /\ "none" \in Results
        /\ {} \in SUBSET Sites /\ {} \in SUBSET Paths /\ name \in Names
    BY DEF KeywordInv, EndOfFile, Blocks, Paths, Results
  <1>4. op' \in Ops
    BY <1>2, <1>3 DEF Ops
  <1>5. pc' = "task" /\ sent' = sent /\ outcome' = outcome /\ copies' = copies + 1 /\ pc = "idle"
    BY DEF Begin, files
  <1>6. ~sent
    BY <1>5 DEF OpInv, CallSteps
  <1>7. op'.n = copies' /\ op'.from # op'.to
    BY <1>2, <1>5
  <1>8. KeywordInv'
    BY <1>3, <1>4, <1>5 DEF KeywordInv, Steps
  <1>9. OpInv'
    BY <1>5, <1>6, <1>7 DEF OpInv, KeywordInv, Ops
  <1>10. QED
    BY <1>8, <1>9

LEMMA UserSteps ==
  ASSUME KeywordInv, OpInv, MaxBlocks \in Nat, User
  PROVE  KeywordInv' /\ OpInv'
  <1>1. {"local", "T1", "T2"} \subseteq Sites
        /\ {"to", "from", "between", "directory", "partly", "missing", "create"} \subseteq Names
    BY DEF Sites, Terminals, Names
  <1>2. CASE CopyFileToTarget
    BY <1>1, <1>2, BeginSteps, TodoTypes DEF CopyFileToTarget
  <1>3. CASE CopyFileFromTarget
    BY <1>1, <1>3, BeginSteps, TodoTypes DEF CopyFileFromTarget
  <1>4. CASE CopyFileBetweenTargets
    BY <1>1, <1>4, BeginSteps, TodoTypes DEF CopyFileBetweenTargets
  <1>5. CASE CopyDirectoryToTarget
    BY <1>1, <1>5, BeginSteps, TodoTypes DEF CopyDirectoryToTarget
  <1>6. CASE CreateDirectoryInTarget
    BY <1>1, <1>6, BeginSteps, TodoTypes DEF CreateDirectoryInTarget
  <1>7. CASE CopyDirectoryPartly
    BY <1>1, <1>7, BeginSteps, TodoTypes DEF CopyDirectoryPartly
  <1>8. CASE CopyDirectoryMissing
    BY <1>1, <1>8, BeginSteps, TodoTypes DEF CopyDirectoryMissing
  <1>9. QED
    BY <1>2, <1>3, <1>4, <1>5, <1>6, <1>7, <1>8 DEF User

\* The block that is read is one that was printed.
LEMMA DataType ==
  ASSUME TypeInv, OpInv, pc = "data", Take(op.from, Printed(op.from, "data"))
  PROVE  out[op.from][FirstOf(op.from, Printed(op.from, "data"))].block \in Blocks
  <1> DEFINE t == op.from
             m == out[t][FirstOf(t, Printed(t, "data"))]
  <1>1. t \in Terminals
    BY DEF OpInv, TypeInv, Ops, Sites
  <1>2. out[t] \in Seq(Outputs)
    BY <1>1 DEF TypeInv
  <1>3. FirstOf(t, Printed(t, "data")) \in 1 .. Len(out[t]) /\ m \in Printed(t, "data")
    BY <1>2, FirstIsAwaited DEF Take
  <1>4. m \in Outputs /\ m.k = "data"
    <2>1. m \in Outputs
      BY <1>2, <1>3
    <2>2. m.k = "data"
      <3> HIDE DEF m
      <3> QED
        BY <1>3 DEF Printed
    <2>3. QED
      BY <2>1, <2>2
  <1>5. m \in Data
    BY <1>4 DEF Outputs, Replies, Data
  <1>6. QED
    BY <1>5 DEF Data

\* Only the calls that may raise are answered so.
LEMMA AnswerOf ==
  ASSUME TypeInv, OpInv, pc \in CallSteps, sent, Answered(At, What)
  PROVE  LET m == Answer(At, What)
             i == FirstOf(At, Answers(Call(At, What)))
         IN /\ i \in 1 .. Len(out[At]) /\ m = out[At][i] /\ m \in Answers(Call(At, What))
            /\ m.what = What /\ m.k \in {"reply", "raised"}
            /\ m.k = "raised" => What \in Raising
  <1> DEFINE c == Call(At, What)
             m == Answer(At, What)
             i == FirstOf(At, Answers(c))
  <1>1. At \in Terminals
    BY DEF OpInv
  <1>2. out[At] \in Seq(Outputs)
    BY <1>1 DEF TypeInv
  <1>3. i \in 1 .. Len(out[At]) /\ m = out[At][i] /\ m \in Answers(c)
    BY <1>2, FirstIsAwaited DEF Answered, Take, Answer
  <1>4. m \in Outputs
    BY <1>2, <1>3
  <1>5. m.what = What /\ m.k \in {"reply", "raised"}
    <2>1. PICK k \in {"reply", "raised"} : m = [c EXCEPT !.k = k]
      BY <1>3 DEF Answers
    <2>2. m.what = What /\ m.k = k
      <3> HIDE DEF m
      <3> QED
        BY <2>1 DEF Call
    <2>3. QED
      BY <2>2
  <1>6. m.k = "raised" => m.what \in Raising
    <2> HIDE DEF m
    <2> QED
      BY <1>4 DEF Outputs, Replies, Data
  <1>7. QED
    BY <1>3, <1>5, <1>6

LEMMA ErrorTypes ==
  /\ \A t : Error(t) \in Results
  /\ {"OSError", "SessionBroken", "AttributeError", "SessionInitializationFailed",
      "InvalidProxySession", "RemoteFileReadingFailed"} \subseteq Results
  BY DEF Error, Results

\* Where a step of a copy is: there is a task, and the terminals are those of its files.
LEMMA StepPlaces ==
  ASSUME KeywordInv, OpInv
  PROVE  /\ pc \notin {"idle", "task"} => op.todo # <<>>
         /\ pc \in CallSteps =>
               At \in Sites /\ This \in Tasks /\ What \in Whats /\ pc \notin {"idle", "task"}
         /\ op.from \in Sites /\ op.to \in Sites
         /\ op.from # "local" => op.from \in Terminals
         /\ op.to # "local" => op.to \in Terminals
  <1>1. op.from \in Sites /\ op.to \in Sites
    BY DEF KeywordInv, Ops
  <1>2. pc \in CallSteps => pc \notin {"idle", "task"}
    BY DEF CallSteps
  <1>3. pc \notin {"idle", "task"} => op.todo # <<>>
    BY DEF OpInv
  <1>4. pc \in CallSteps => At \in Sites /\ This \in Tasks /\ What \in Whats
    BY <1>2, <1>3, PlacesOf DEF KeywordInv
  <1>5. QED
    BY <1>1, <1>2, <1>3, <1>4 DEF Sites

\* The steps of a keyword but for its start, its end and a call of a terminal.
Moves ==
    \/ StartTask \/ CallLocal \/ CallReturns \/ CallBreaks \/ PromptFails \/ PromptWithout
    \/ Initialize \/ InitializeFails \/ ReadLocal \/ ReadRemote \/ DataRead \/ DataExpires
    \/ WriteLocal \/ WriteRemote \/ Started \/ Stopped \/ WriteExpires
    \/ LocalFails \/ ChmodRefused \/ DataRefused

LEMMA SucceedsOp ==
  ASSUME KeywordInv, OpInv, pc \in CallSteps, Succeeds, UNCHANGED copies
  PROVE  Keeps /\ KeywordInv' /\ OpInv'
  <1>1. pc \notin {"idle", "task"} /\ op.todo # <<>> /\ op \in Ops
    BY StepPlaces DEF KeywordInv
  <1>2. Keeps /\ pc' \in Steps \ {"idle"}
        /\ pc' \notin {"data", "handleto", "start", "stop"}
        /\ (pc' = "handlefrom" => op.from # "local")
    BY <1>1, SucceedsSteps DEF Steps, CallSteps
  <1>3. QED
    BY <1>1, <1>2, KeepsOp

LEMMA FailsOp ==
  ASSUME KeywordInv, OpInv, pc \in FailSteps, NEW error \in Results, Fails(error),
         UNCHANGED copies
  PROVE  Keeps /\ KeywordInv' /\ OpInv'
  <1>1. pc \notin {"idle", "task"} /\ op.todo # <<>> /\ op \in Ops
    BY DEF KeywordInv, OpInv, CallSteps, FailSteps
  <1>2. Keeps /\ pc' \in {"task", "promptfrom", "promptto"}
    BY <1>1, FailsSteps
  <1>3. QED
    BY <1>1, <1>2, KeepsOp DEF Steps, CallSteps

LEMMA GoOnOp ==
  ASSUME KeywordInv, OpInv, pc # "idle", op.todo # <<>>, UNCHANGED copies,
         NEW to \in Steps \ {"idle"}, GoOn(to),
         to \in {"handlefrom", "data"} => op.from # "local",
         to \in {"handleto", "start", "stop"} => op.to # "local"
  PROVE  Keeps /\ KeywordInv' /\ OpInv'
  <1>1. Keeps /\ pc' = to
    BY GoOnSteps DEF KeywordInv
  <1>2. QED
    BY <1>1, KeepsOp

LEMMA TaskEndsOp ==
  ASSUME KeywordInv, OpInv, pc # "idle", op.todo # <<>>, UNCHANGED copies,
         TaskDone \/ Renewed \/ \E error \in Results : GiveUp(error)
  PROVE  Keeps /\ KeywordInv' /\ OpInv'
  <1>1. Keeps /\ pc' = "task"
    BY TaskEnds DEF KeywordInv
  <1>2. QED
    BY <1>1, KeepsOp DEF Steps, CallSteps

LEMMA ReadOp ==
  ASSUME KeywordInv, OpInv, pc # "idle", op.todo # <<>>, UNCHANGED copies,
         NEW block \in Blocks, Read(block)
  PROVE  Keeps /\ KeywordInv' /\ OpInv'
  <1>1. Keeps /\ pc' \in {"promptto", "handleto", "write"}
        /\ (pc' = "handleto" => op.to # "local")
    BY ReadSteps DEF KeywordInv
  <1>2. QED
    BY <1>1, KeepsOp DEF Steps, CallSteps

LEMMA MovesOp ==
  ASSUME TypeInv, KeywordInv, OpInv, Moves
  PROVE  Keeps /\ KeywordInv' /\ OpInv' /\ pc # "idle" /\ UNCHANGED copies
  <1>a. CASE StartTask
    <2>1. This \in Tasks
      <3>1. op.todo \in Seq(Tasks) /\ op.todo # <<>>
        BY <1>a DEF StartTask, KeywordInv, Ops
      <3>2. QED
        BY <3>1, TailOf DEF This
    <2>2. PICK to \in {"verify", "openfrom", "mkdir", "chmod"} : GoOn(to)
      BY <1>a, <2>1 DEF StartTask, Tasks
    <2>3. QED
      BY <1>a, <2>2, GoOnOp DEF StartTask, Steps, CallSteps
  <1>b. CASE CallLocal
    BY <1>b, SucceedsOp, StepPlaces DEF CallLocal
  <1>c. CASE CallReturns
    <2>1. CASE Succeeds
      BY <1>c, <2>1, SucceedsOp, StepPlaces DEF CallReturns
    <2>2. CASE ~Succeeds
      <3>1. Fails("OSError") /\ pc # "verify"
        BY <1>c, <2>2, AnswerOf, StepPlaces DEF CallReturns, KeywordInv, What, Raising
      <3>2. QED
        BY <1>c, <3>1, FailsOp, StepPlaces, ErrorTypes DEF CallReturns, FailSteps
    <2>3. QED
      BY <2>1, <2>2
  <1>d. CASE CallBreaks
    BY <1>d, FailsOp, StepPlaces, ErrorTypes DEF CallBreaks, FailSteps
  <1>e. CASE PromptFails
    BY <1>e, FailsOp, ErrorTypes DEF PromptFails, CallSteps, FailSteps
  <1>f. CASE PromptWithout
    BY <1>f, FailsOp, ErrorTypes DEF PromptWithout, CallSteps, FailSteps
  <1>g. CASE Initialize
    BY <1>g, TaskEndsOp, StepPlaces DEF Initialize, CallSteps
  <1>h. CASE InitializeFails
    BY <1>h, TaskEndsOp, StepPlaces, ErrorTypes DEF InitializeFails, CallSteps
  <1>i. CASE ReadLocal
    <2>1. op.n \in Nat /\ op.read + 1 \in Nat /\ This.path \in Paths
      <3>1. op.todo # <<>> /\ op.todo \in Seq(Tasks)
        BY <1>i, StepPlaces DEF ReadLocal, KeywordInv, Ops
      <3>2. This \in Tasks
        BY <3>1, TailOf DEF This
      <3>3. QED
        BY <3>2 DEF KeywordInv, Ops, Tasks
    <2>2. Block(op.n, This.path, op.read + 1) \in Blocks /\ EndOfFile \in Blocks
      BY <2>1 DEF Block, EndOfFile, Blocks, Paths
    <2>3. PICK block \in Blocks : Read(block)
      BY <1>i, <2>2 DEF ReadLocal
    <2>4. QED
      BY <1>i, <2>3, ReadOp, StepPlaces DEF ReadLocal
  <1>j. CASE ReadRemote
    BY <1>j, GoOnOp, StepPlaces DEF ReadRemote, Steps
  <1>k. CASE DataRead
    <2>1. PICK block \in Blocks : Read(block)
      BY <1>k, DataType DEF DataRead
    <2>2. QED
      BY <1>k, <2>1, ReadOp, StepPlaces DEF DataRead
  <1>l. CASE DataExpires
    BY <1>l, FailsOp, ErrorTypes DEF DataExpires, ReadFails, FailSteps
  <1>m. CASE WriteLocal
    BY <1>m, GoOnOp, StepPlaces DEF WriteLocal, Steps
  <1>n. CASE WriteRemote
    BY <1>n, GoOnOp, StepPlaces DEF WriteRemote, Steps
  <1>o. CASE Started
    <2>1. op.to # "local"
      BY <1>o DEF Started, OpInv
    <2>2. QED
      BY <1>o, <2>1, GoOnOp, StepPlaces DEF Started, Steps
  <1>p. CASE Stopped
    BY <1>p, GoOnOp, StepPlaces DEF Stopped, Steps
  <1>q. CASE WriteExpires
    BY <1>q, FailsOp, ErrorTypes DEF WriteExpires, FailSteps
  <1>s. CASE LocalFails
    BY <1>s, FailsOp, ErrorTypes DEF LocalFails, CallSteps, FailSteps
  <1>t. CASE ChmodRefused
    BY <1>t, FailsOp, ErrorTypes DEF ChmodRefused, IsStale, CallSteps, FailSteps
  <1>u. CASE DataRefused
    BY <1>u, FailsOp, ErrorTypes DEF DataRefused, FailSteps
  <1>r. QED
    BY <1>a, <1>b, <1>c, <1>d, <1>e, <1>f, <1>g, <1>h, <1>i, <1>j, <1>k, <1>l, <1>m, <1>n,
       <1>o, <1>p, <1>q, <1>s, <1>t, <1>u DEF Moves

-----------------------------------------------------------------------------
(* The calls that end the session when they are not answered.               *)

Quiet == \A t \in Terminals : SessionCalls(in[t]) = {} /\ SessionCalls(out[t]) = {}

LEMMA NotAwaited ==
  ASSUME CallInv, ~sent \/ What = "prompt"
  PROVE  Quiet
  <1>1. ASSUME NEW t \in Terminals, NEW m, SessionCall(m), Awaited(t, m)
        PROVE  FALSE
    <2>1. m.what = What
      <3>1. \A k : [Call(t, What) EXCEPT !.k = k].what = What
        BY DEF Call
      <3>2. Call(t, What).what = What
        BY DEF Call
      <3>3. QED
        BY <1>1, <3>1, <3>2 DEF Awaited, Answers
    <2>2. QED
      BY <1>1, <2>1 DEF SessionCall, Awaited
  <1>2. ASSUME NEW t \in Terminals, NEW i \in SessionCalls(in[t])
        PROVE  FALSE
    <2>1. SessionCall(in[t][i]) /\ Awaited(t, in[t][i])
      BY <1>2 DEF SessionCalls, CallInv, CallInvOf
    <2>2. QED
      BY <1>1, <2>1
  <1>3. ASSUME NEW t \in Terminals, NEW i \in SessionCalls(out[t])
        PROVE  FALSE
    <2>1. SessionCall(out[t][i]) /\ Awaited(t, out[t][i])
      BY <1>3 DEF SessionCalls, CallInv, CallInvOf
    <2>2. QED
      BY <1>1, <2>1
  <1>4. QED
    BY <1>2, <1>3 DEF Quiet

\* What is added to a queue, and what is left of it.
LEMMA AddedCalls ==
  ASSUME NEW S, NEW s \in Seq(S), NEW m \in S
  PROVE  SessionCalls(Append(s, m)) =
             SessionCalls(s) \cup (IF SessionCall(m) THEN {Len(s) + 1} ELSE {})
  <1> DEFINE r == Append(s, m)
  <1>1. Len(s) \in Nat /\ Len(r) = Len(s) + 1 /\ r[Len(s) + 1] = m
        /\ \A i \in 1 .. Len(s) : r[i] = s[i]
    BY AppendOf
  <1>2. 1 .. Len(r) = 1 .. Len(s) \cup {Len(s) + 1} /\ Len(s) + 1 \notin 1 .. Len(s)
    BY <1>1
  <1>3. QED
    <2> HIDE DEF r
    <2> QED
      BY <1>1, <1>2 DEF SessionCalls

LEMMA RestCalls ==
  ASSUME NEW S, NEW s \in Seq(S), s # <<>>
  PROVE  \A i \in SessionCalls(Tail(s)) :
             i \in Nat /\ i + 1 \in SessionCalls(s) /\ Tail(s)[i] = s[i + 1]
  <1> DEFINE r == Tail(s)
  <1>1. Len(s) \in Nat /\ Len(r) = Len(s) - 1 /\ \A i \in 1 .. Len(s) - 1 : r[i] = s[i + 1]
    BY TailOf
  <1>2. QED
    <2> HIDE DEF r
    <2> QED
      BY <1>1 DEF SessionCalls

LEMMA SkippedCalls ==
  ASSUME NEW S, NEW t, out[t] \in Seq(S), NEW awaited, Received(t, awaited) # {},
         SessionCalls(out[t]) \subseteq {FirstOf(t, awaited)}
  PROVE  SessionCalls(Skipped(t, awaited)) = {}
  <1>1. ASSUME NEW i \in SessionCalls(Skipped(t, awaited))
        PROVE  FALSE
    <2>1. i \in 1 .. Len(Skipped(t, awaited)) /\ SessionCall(Skipped(t, awaited)[i])
      BY <1>1 DEF SessionCalls
    <2>2. PICK j \in 1 .. Len(out[t]) :
              j # FirstOf(t, awaited) /\ Skipped(t, awaited)[i] = out[t][j]
      BY <2>1, SkippedOf
    <2>3. j \in SessionCalls(out[t])
      BY <2>1, <2>2 DEF SessionCalls
    <2>4. QED
      BY <2>2, <2>3
  <1>2. QED
    BY <1>1

\* The keyword sends something else, or takes what it awaits.
LEMMA QuietSend ==
  ASSUME TypeInv, Quiet, NEW t \in Terminals, NEW m \in Inputs, ~SessionCall(m), Send(t, m)
  PROVE  \A r \in Terminals : SessionCalls(in[r])' = {}
  <1>1. in[t] \in Seq(Inputs) /\ SessionCalls(in[t]) = {}
    BY DEF TypeInv, Quiet
  <1>2. SessionCalls(Append(in[t], m)) = {}
    BY <1>1, AddedCalls
  <1>3. \A r \in Terminals : in'[r] = IF r = t THEN Append(in[t], m) ELSE in[r]
    BY DEF TypeInv, Send
  <1>4. ASSUME NEW r \in Terminals
        PROVE  SessionCalls(in'[r]) = {}
    BY <1>2, <1>3 DEF Quiet
  <1>5. QED
    BY <1>4

LEMMA QuietTake ==
  ASSUME TypeInv, NEW t \in Terminals, NEW awaited, Take(t, awaited),
         SessionCalls(out[t]) \subseteq {FirstOf(t, awaited)},
         \A r \in Terminals \ {t} : SessionCalls(out[r]) = {}
  PROVE  \A r \in Terminals : SessionCalls(out[r])' = {}
  <1>1. out[t] \in Seq(Outputs)
    BY DEF TypeInv
  <1>2. SessionCalls(Skipped(t, awaited)) = {}
    BY <1>1, SkippedCalls DEF Take
  <1>3. \A r \in Terminals : out'[r] = IF r = t THEN Skipped(t, awaited) ELSE out[r]
    BY DEF TypeInv, Take
  <1>4. ASSUME NEW r \in Terminals
        PROVE  SessionCalls(out'[r]) = {}
    BY <1>2, <1>3
  <1>5. QED
    BY <1>4

LEMMA SessionEndsCalls ==
  ASSUME TypeInv, NEW t \in Terminals, NEW how, SessionEnds(t, how),
         \A r \in Terminals \ {t} : SessionCalls(in[r]) = {} /\ SessionCalls(out[r]) = {}
  PROVE  Quiet'
  <1>1. SessionCalls(<<>>) = {}
    BY DEF SessionCalls
  <1>2. \A r \in Terminals : /\ in'[r] = IF r = t THEN <<>> ELSE in[r]
                             /\ out'[r] = IF r = t THEN <<>> ELSE out[r]
    BY DEF TypeInv, SessionEnds
  <1>3. ASSUME NEW r \in Terminals
        PROVE  SessionCalls(in'[r]) = {} /\ SessionCalls(out'[r]) = {}
    BY <1>1, <1>2
  <1>4. QED
    BY <1>3 DEF Quiet

\* Nothing is awaited of the other terminals.
LEMMA OthersQuiet ==
  ASSUME CallInv
  PROVE  \A r \in Terminals : r # At => SessionCalls(in[r]) = {} /\ SessionCalls(out[r]) = {}
  BY DEF CallInv, CallInvOf, Awaited

-----------------------------------------------------------------------------
(* What a step of the keyword does to the terminals.                        *)

\* Every file that is written and read is open.
AccessInv == \A t \in Terminals : (blocked[t] \/ Accesses(t) # {}) => handle[t] # NoFile

LEMMA AddedAccesses ==
  ASSUME TypeInv, NEW t \in Terminals, NEW m \in Inputs, Send(t, m),
         AccessInv, m.k \in {"read", "write"} => handle[t] # NoFile
  PROVE  \A r \in Terminals : Accesses(r)' # {} => handle[r] # NoFile
  <1>1. in[t] \in Seq(Inputs)
    BY DEF TypeInv
  <1>2. \A r \in Terminals : in'[r] = IF r = t THEN Append(in[t], m) ELSE in[r]
    BY DEF TypeInv, Send
  <1>3. Len(in[t]) \in Nat /\ Len(Append(in[t], m)) = Len(in[t]) + 1
        /\ Append(in[t], m)[Len(in[t]) + 1] = m
        /\ \A i \in 1 .. Len(in[t]) : Append(in[t], m)[i] = in[t][i]
    BY <1>1, AppendOf
  <1>4. ASSUME NEW r \in Terminals, NEW i \in 1 .. Len(in'[r]), in'[r][i].k \in {"read", "write"}
        PROVE  handle[r] # NoFile
    <2>1. CASE r = t /\ i = Len(in[t]) + 1
      BY <1>2, <1>3, <1>4, <2>1
    <2>2. CASE ~(r = t /\ i = Len(in[t]) + 1)
      <3>1. CASE r = t
        <4>1. in'[r] = Append(in[t], m) /\ i # Len(in[t]) + 1
          BY <1>2, <2>2, <3>1
        <4>2. i \in 1 .. Len(in[t]) + 1
          BY <1>3, <1>4, <4>1
        <4>3. i \in 1 .. Len(in[t])
          BY <1>3, <4>1, <4>2
        <4>4. in[r][i].k \in {"read", "write"}
          BY <1>3, <1>4, <3>1, <4>1, <4>3
        <4>5. QED
          BY <3>1, <4>3, <4>4 DEF AccessInv, Accesses
      <3>2. CASE r # t
        BY <1>2, <1>4, <3>2 DEF AccessInv, Accesses
      <3>3. QED
        BY <3>1, <3>2
    <2>3. QED
      BY <2>1, <2>2
  <1>5. QED
    BY <1>4 DEF Accesses

LEMMA EndsLines ==
  ASSUME TypeInv, AccessInv, NEW t \in Terminals, NEW how \in {"none", "up"}, SessionEnds(t, how)
  PROVE  LinesInv' /\ AccessInv' /\ \A r \in Terminals : handle'[r] \in {handle[r], NoFile}
  <1>1. LinesInv'
    BY SessionEndsType
  <1>2. \A r \in Terminals : /\ handle'[r] = IF r = t THEN NoFile ELSE handle[r]
                             /\ in'[r] = IF r = t THEN <<>> ELSE in[r]
                             /\ blocked'[r] = IF r = t THEN FALSE ELSE blocked[r]
    BY DEF TypeInv, SessionEnds
  <1>3. ASSUME NEW r \in Terminals
        PROVE  (blocked'[r] \/ Accesses(r)' # {}) => handle'[r] # NoFile
    <2>1. CASE r = t
      <3>1. in'[r] = <<>> /\ Len(<<>>) = 0
        BY <1>2, <2>1
      <3>2. Accesses(r)' = {}
        BY <3>1 DEF Accesses
      <3>3. QED
        BY <1>2, <2>1, <3>2
    <2>2. CASE r # t
      <3>1. Accesses(r)' = Accesses(r)
        BY <1>2, <2>2 DEF Accesses
      <3>2. QED
        BY <1>2, <2>2, <3>1 DEF AccessInv
    <2>3. QED
      BY <2>1, <2>2
  <1>4. QED
    BY <1>1, <1>2, <1>3 DEF AccessInv

\* Otherwise it only reads what was printed, and asks for a block or sends one.
Asks(t, m) == /\ Send(t, m) /\ m \in Inputs /\ ~SessionCall(m)
              /\ m.k \in {"read", "write"} => handle[t] # NoFile
Talks ==
    /\ UNCHANGED <<line, blocked, handle, leftover>>
    /\ out' = out \/ \E t \in Terminals : \E awaited : Take(t, awaited)
    /\ in' = in \/ \E t \in Terminals : \E m : Asks(t, m)

LEMMA TalksLines ==
  ASSUME TypeInv, AccessInv, Talks
  PROVE  LinesInv' /\ AccessInv' /\ handle' = handle
  <1>1. out' \in [Terminals -> Seq(Outputs)]
    BY TakeType DEF Talks, TypeInv
  <1>2. in' \in [Terminals -> Seq(Inputs)]
    BY SendType DEF Talks, Asks, TypeInv
  <1>3. LinesInv'
    BY <1>1, <1>2 DEF Talks, TypeInv, LinesInv
  <1>4. \A r \in Terminals : Accesses(r)' # {} => handle[r] # NoFile
    <2>1. CASE in' = in
      BY <2>1 DEF AccessInv, Accesses
    <2>2. ASSUME NEW t \in Terminals, NEW m, Asks(t, m)
          PROVE  \A r \in Terminals : Accesses(r)' # {} => handle[r] # NoFile
      BY <2>2, AddedAccesses DEF Asks
    <2>3. QED
      BY <2>1, <2>2 DEF Talks
  <1>5. QED
    BY <1>3, <1>4 DEF Talks, AccessInv

LEMMA AsksOf ==
  ASSUME NEW block \in Blocks
  PROVE  /\ [k |-> "data", block |-> block] \in Inputs
         /\ ~SessionCall([k |-> "data", block |-> block])
         /\ \A k \in {"read", "write"} : [k |-> k] \in Inputs /\ ~SessionCall([k |-> k])
  BY DEF Inputs, Data, SessionCall

LEMMA MovesTalk ==
  ASSUME TypeInv, KeywordInv, OpInv, HandleInv, Moves,
         ~(CallBreaks \/ Initialize \/ InitializeFails)
  PROVE  Talks
  <1>1. CASE StartTask \/ CallLocal \/ PromptFails \/ PromptWithout \/ ReadLocal \/ DataExpires
             \/ WriteLocal \/ WriteExpires \/ LocalFails \/ ChmodRefused
    BY <1>1 DEF StartTask, CallLocal, PromptFails, PromptWithout, ReadLocal, DataExpires,
       LocalFails, DataRefused, ChmodRefused, WriteLocal, WriteExpires, remote, Talks
  <1>2. CASE CallReturns
    BY <1>2 DEF CallReturns, Answered, Talks, OpInv
  <1>3. CASE DataRead \/ DataRefused
    <2>1. op.from \in Terminals
      BY <1>3, StepPlaces DEF DataRead, DataRefused, OpInv
    <2>2. QED
      BY <1>3, <2>1 DEF DataRead, DataRefused, Talks
  <1>4. CASE Stopped
    <2>1. op.to \in Terminals
      BY <1>4, StepPlaces DEF Stopped, OpInv
    <2>2. QED
      BY <1>4, <2>1 DEF Stopped, Talks
  <1>5. CASE Started
    <2>1. op.to \in Terminals
      BY <1>5, StepPlaces DEF Started, OpInv
    <2>2. op.block \in Blocks
      BY DEF KeywordInv, Ops
    <2>3. Asks(op.to, [k |-> "data", block |-> op.block])
      BY <1>5, <2>2, AsksOf DEF Started, Asks
    <2>4. QED
      BY <1>5, <2>1, <2>3 DEF Started, Talks
  <1>6. EndOfFile \in Blocks
    BY DEF EndOfFile, Blocks, Paths
  <1>7. CASE ReadRemote
    <2>1. op.from \in Terminals
      BY <1>7, StepPlaces DEF ReadRemote
    <2>2. handle[op.from] # NoFile
      BY <1>7, <2>1 DEF ReadRemote, HandleInv, Opened, Copying
    <2>3. Asks(op.from, [k |-> "read"])
      BY <1>6, <1>7, <2>2, AsksOf DEF ReadRemote, Asks
    <2>4. QED
      BY <1>7, <2>1, <2>3 DEF ReadRemote, Talks
  <1>8. CASE WriteRemote
    <2>1. op.to \in Terminals
      BY <1>8, StepPlaces DEF WriteRemote
    <2>2. handle[op.to] # NoFile
      BY <1>8, <2>1 DEF WriteRemote, HandleInv, Opened, Copying
    <2>3. Asks(op.to, [k |-> "write"])
      BY <1>6, <1>8, <2>2, AsksOf DEF WriteRemote, Asks
    <2>4. QED
      BY <1>8, <2>1, <2>3 DEF WriteRemote, Talks
  <1>9. QED
    BY <1>1, <1>2, <1>3, <1>4, <1>5, <1>7, <1>8 DEF Moves

LEMMA TalksQuiet ==
  ASSUME TypeInv, Quiet, Talks
  PROVE  Quiet'
  <1>1. \A r \in Terminals : SessionCalls(in[r])' = {}
    <2>1. CASE in' = in
      BY <2>1 DEF Quiet
    <2>2. ASSUME NEW t \in Terminals, NEW m, Asks(t, m)
          PROVE  \A r \in Terminals : SessionCalls(in[r])' = {}
      BY <2>2, QuietSend DEF Asks
    <2>3. QED
      BY <2>1, <2>2 DEF Talks
  <1>2. \A r \in Terminals : SessionCalls(out[r])' = {}
    <2>1. CASE out' = out
      BY <2>1 DEF Quiet
    <2>2. ASSUME NEW t \in Terminals, NEW awaited, Take(t, awaited)
          PROVE  \A r \in Terminals : SessionCalls(out[r])' = {}
      BY <2>2, QuietTake DEF Quiet
    <2>3. QED
      BY <2>1, <2>2 DEF Talks
  <1>3. QED
    BY <1>1, <1>2 DEF Quiet

LEMMA ReturnsQuiet ==
  ASSUME TypeInv, KeywordInv, OpInv, CallInv, CallReturns
  PROVE  Quiet'
  <1> DEFINE t == At
             c == Call(At, What)
             i == FirstOf(t, Answers(c))
             m == out[t][i]
  <1>1. t \in Terminals
    BY DEF OpInv, CallReturns
  <1>2. i \in 1 .. Len(out[t]) /\ m \in Answers(c) /\ m.what = What
        /\ m.k \in {"reply", "raised"}
    BY AnswerOf DEF CallReturns
  <1>3. CASE What # "prompt"
    <2>1. i \in SessionCalls(out[t])
      BY <1>2, <1>3 DEF SessionCalls, SessionCall
    <2>2. SessionCalls(out[t]) \subseteq {i} /\ SessionCalls(in[t]) = {}
      <3> HIDE DEF i, t
      <3> QED
        BY <1>1, <2>1 DEF CallInv, CallInvOf
    <2>3. \A r \in Terminals \ {t} : SessionCalls(out[r]) = {}
      BY OthersQuiet
    <2>4. Take(t, Answers(c)) /\ in' = in
      BY DEF CallReturns, Answered
    <2>5. \A r \in Terminals : SessionCalls(out[r])' = {}
      BY <1>1, <2>2, <2>3, <2>4, QuietTake
    <2>6. \A r \in Terminals : SessionCalls(in[r])' = {}
      BY <2>2, <2>4, OthersQuiet
    <2>7. QED
      BY <2>5, <2>6 DEF Quiet
  <1>4. CASE What = "prompt"
    <2>1. Talks
      BY <1>1 DEF CallReturns, Answered, Talks
    <2>2. QED
      BY <1>4, <2>1, NotAwaited, TalksQuiet
  <1>5. QED
    BY <1>3, <1>4

LEMMA MovesQuiet ==
  ASSUME TypeInv, KeywordInv, OpInv, CallInv, HandleInv, Moves
  PROVE  Quiet' /\ CallInv' /\ \A t \in Terminals : ~Replied(t)'
  <1>1. Quiet'
    <2>1. CASE CallReturns
      BY <2>1, ReturnsQuiet
    <2>2. CASE CallBreaks \/ Initialize \/ InitializeFails
      <3>1. PICK how \in {"none", "up"} : SessionEnds(At, how)
        BY <2>2 DEF CallBreaks, Initialize, InitializeFails
      <3>2. CASE At \in Terminals
        BY <3>1, <3>2, OthersQuiet, SessionEndsCalls
      <3>3. CASE At \notin Terminals
        <4>1. ~sent
          BY <3>3 DEF OpInv
        <4>2. Quiet
          BY <4>1, NotAwaited
        <4>3. in' = in /\ out' = out
          BY <3>1, <3>3 DEF SessionEnds, TypeInv
        <4>4. QED
          BY <4>2, <4>3 DEF Quiet
      <3>4. QED
        BY <3>2, <3>3
    <2>3. CASE ~(CallReturns \/ CallBreaks \/ Initialize \/ InitializeFails)
      <3>1. Talks
        BY <2>3, MovesTalk
      <3>2. ~sent \/ What = "prompt"
        <4>1. CASE CallLocal \/ LocalFails \/ ChmodRefused
          <5>1. CASE CallLocal \/ (LocalFails /\ pc \in CallSteps)
            BY <5>1 DEF CallLocal, LocalFails, OpInv, CallSteps, Terminals
          <5>2. CASE ChmodRefused \/ pc \notin CallSteps
            BY <5>2 DEF ChmodRefused, OpInv
          <5>3. QED
            BY <4>1, <5>1, <5>2 DEF CallLocal
        <4>2. CASE PromptFails \/ PromptWithout
          BY <4>2 DEF PromptFails, PromptWithout, What
        <4>3. CASE ~(CallLocal \/ LocalFails \/ ChmodRefused \/ PromptFails \/ PromptWithout)
          <5>1. pc \in {"task", "read", "data", "write", "start", "stop"}
            BY <2>3, <4>3 DEF Moves, StartTask, ReadLocal, ReadRemote, DataRead, DataExpires,
               LocalFails, DataRefused, ChmodRefused, WriteLocal, WriteRemote, Started, Stopped,
               WriteExpires
          <5>2. QED
            BY <5>1 DEF OpInv, CallSteps
        <4>4. QED
          BY <4>1, <4>2, <4>3
      <3>3. QED
        BY <3>1, <3>2, NotAwaited, TalksQuiet
    <2>4. QED
      BY <2>1, <2>2, <2>3
  <1>2. Quiet' => CallInv' /\ \A t \in Terminals : ~Replied(t)'
    BY DEF Quiet, CallInv, CallInvOf, Replied
  <1>3. QED
    BY <1>1, <1>2

\* The session that ends is that of a terminal.
LEMMA EndsAt ==
  ASSUME TypeInv, KeywordInv, OpInv, CallBreaks \/ Initialize \/ InitializeFails
  PROVE  \E how \in {"none", "up"} : SessionEnds(At, how)
  BY DEF CallBreaks, Initialize, InitializeFails

LEMMA MovesLines ==
  ASSUME TypeInv, KeywordInv, OpInv, HandleInv, Moves
  PROVE  /\ LinesInv' /\ AccessInv'
         /\ \A t \in Terminals : handle'[t] \in {handle[t], NoFile}
         /\ handle' = handle \/ pc' \in {"task", "promptfrom", "promptto"}
  <1>a. AccessInv
    BY DEF HandleInv, AccessInv
  <1>1. CASE CallBreaks \/ Initialize \/ InitializeFails
    <2>1. PICK how \in {"none", "up"} : SessionEnds(At, how)
      BY <1>1, EndsAt
    <2>2. pc' \in {"task", "promptfrom", "promptto"}
      <3>1. pc \notin {"idle", "task"} /\ op.todo # <<>> /\ op \in Ops
        BY <1>1, StepPlaces DEF CallBreaks, Initialize, InitializeFails, KeywordInv, CallSteps
      <3>2. CASE CallBreaks
        BY <3>1, <3>2, FailsSteps, ErrorTypes DEF CallBreaks, FailSteps
      <3>3. CASE Initialize \/ InitializeFails
        BY <3>1, <3>3, TaskEnds, ErrorTypes DEF Initialize, InitializeFails
      <3>4. QED
        BY <1>1, <3>2, <3>3
    <2>3. CASE At \in Terminals
      BY <1>a, <2>1, <2>2, <2>3, EndsLines
    <2>4. CASE At \notin Terminals
      <3>1. UNCHANGED <<in, out, blocked, handle>> /\ line' = line
        BY <2>1, <2>4 DEF SessionEnds, TypeInv
      <3>2. QED
        BY <1>a, <2>2, <3>1 DEF TypeInv, LinesInv, AccessInv, Accesses
    <2>5. QED
      BY <2>3, <2>4
  <1>2. CASE ~(CallBreaks \/ Initialize \/ InitializeFails)
    <2>1. Talks
      BY <1>2, MovesTalk
    <2>2. QED
      BY <1>a, <2>1, TalksLines
  <1>3. QED
    BY <1>1, <1>2

-----------------------------------------------------------------------------
(* How the keyword goes from step to step, and what it then knows of its    *)
(* files.                                                                   *)

Done(t) == t \in Terminals => Replied(t)
NotDone(t) == t \in Terminals => ~Replied(t) \/ handle'[t] = NoFile
Flow ==
    \/ pc \in {"task", "verify", "mkdir", "chmod"}
       /\ pc' \in {"task", "verify", "mkdir", "chmod", "openfrom"}
    \/ pc = "openfrom" /\ pc' = "opento" /\ Done(op.from)
    \/ pc = "openfrom" /\ pc' = "task" /\ NotDone(op.from)
    \/ pc = "opento" /\ pc' \in Copying /\ Done(op.to)
    \/ pc = "opento" /\ pc' = "promptfrom" /\ NotDone(op.to)
    \/ pc \in Copying /\ pc' \in Copying \cup {"promptto"}
    \/ pc = "promptto" /\ pc' = "closeto"
    \/ pc = "closeto" /\ pc' = "promptfrom" /\ Done(op.to)
    \/ pc = "promptfrom" /\ pc' = "closefrom"
    \/ pc = "closefrom" /\ pc' \in {"task", "chmod"} /\ Done(op.from)
    \/ pc \in {"promptto", "closeto"} /\ pc' = "promptfrom" /\ op.to \in op'.unclean
    \/ pc \in {"promptfrom", "closefrom"} /\ pc' = "task" /\ op.from \in op'.unclean

LEMMA ReturnsReplied ==
  ASSUME TypeInv, KeywordInv, OpInv, CallInv, CallReturns, What \in {"open", "close"}
  PROVE  Replied(At) <=> Answer(At, What).k = "reply"
  <1> DEFINE t == At
             i == FirstOf(t, Answers(Call(At, What)))
  <1>1. t \in Terminals
    BY DEF OpInv, CallReturns
  <1>2. /\ i \in 1 .. Len(out[t]) /\ Answer(t, What) = out[t][i] /\ out[t][i].what = What
        /\ out[t][i].k \in {"reply", "raised"}
    BY AnswerOf DEF CallReturns
  <1>3. i \in SessionCalls(out[t])
    BY <1>2 DEF SessionCalls, SessionCall
  <1>4. \A j \in SessionCalls(out[t]) : j = i
    <2> HIDE DEF i, t
    <2> QED
      BY <1>1, <1>3 DEF CallInv, CallInvOf
  <1>5. QED
    BY <1>2, <1>3, <1>4 DEF Replied

\* The terminals of the steps.
LEMMA StepAt ==
  /\ pc \in {"openfrom", "handlefrom", "promptfrom", "closefrom"} => At = op.from
  /\ pc \in {"opento", "handleto", "promptto", "closeto"} => At = op.to
  /\ pc \in {"openfrom", "opento"} => What = "open"
  /\ pc \in {"closefrom", "closeto"} => What = "close"
  BY DEF At, What

LEMMA SucceedsFlow ==
  ASSUME KeywordInv, OpInv, pc \in CallSteps, Succeeds,
         pc \in {"openfrom", "opento", "closefrom", "closeto"} => Done(At)
  PROVE  Flow
  <1>1. op \in Ops
    BY DEF KeywordInv
  <1>2. QED
    BY <1>1, SucceedsSteps, StepAt DEF Flow, Copying

LEMMA FailsFlow ==
  ASSUME KeywordInv, OpInv, pc \in FailSteps, NEW error \in Results, Fails(error),
         pc \in {"openfrom", "opento"} => NotDone(At)
  PROVE  Flow
  <1>1. op \in Ops
    BY DEF KeywordInv
  <1>2. QED
    BY <1>1, FailsSteps, StepAt DEF Flow, Copying

LEMMA CallFlow ==
  ASSUME TypeInv, KeywordInv, OpInv, CallInv,
         CallLocal \/ CallReturns \/ CallBreaks \/ PromptFails \/ PromptWithout
  PROVE  Flow
  <1>1. CASE CallLocal
    BY <1>1, SucceedsFlow DEF CallLocal, Done, Terminals
  <1>2. CASE CallReturns
    <2>1. CASE Answer(At, What).k = "reply"
      <3>1. Succeeds /\ pc \in CallSteps
        BY <1>2, <2>1 DEF CallReturns
      <3>2. pc \in {"openfrom", "opento", "closefrom", "closeto"} => Done(At)
        BY <1>2, <2>1, ReturnsReplied, StepAt DEF Done
      <3>3. QED
        BY <3>1, <3>2, SucceedsFlow
    <2>2. CASE Answer(At, What).k # "reply"
      <3>1. Fails("OSError") /\ pc \in CallSteps /\ What \in Raising
        BY <1>2, <2>2, AnswerOf DEF CallReturns
      <3>2. pc \in FailSteps
        BY <3>1 DEF What, Raising, FailSteps
      <3>3. pc \in {"openfrom", "opento"} => NotDone(At)
        BY <1>2, <2>2, ReturnsReplied, StepAt DEF NotDone
      <3>4. QED
        BY <3>1, <3>2, <3>3, FailsFlow, ErrorTypes
    <2>3. QED
      BY <2>1, <2>2
  <1>3. CASE CallBreaks
    <2>1. NotDone(At)
      BY <1>3 DEF CallBreaks, SessionEnds, TypeInv, NotDone
    <2>2. QED
      BY <1>3, <2>1, FailsFlow, ErrorTypes DEF CallBreaks, FailSteps
  <1>4. CASE PromptFails \/ PromptWithout
    <2>1. pc \in {"promptfrom", "promptto"} /\ \E error \in Results : Fails(error)
      BY <1>4, ErrorTypes DEF PromptFails, PromptWithout
    <2>2. QED
      BY <2>1, FailsFlow DEF CallSteps, FailSteps
  <1>5. QED
    BY <1>1, <1>2, <1>3, <1>4

LEMMA MovesFlow ==
  ASSUME TypeInv, KeywordInv, OpInv, CallInv, Moves
  PROVE  Flow
  <1>1. CASE CallLocal \/ CallReturns \/ CallBreaks \/ PromptFails \/ PromptWithout
    BY <1>1, CallFlow
  <1>2. CASE StartTask
    <2>1. This \in Tasks
      <3>1. op.todo \in Seq(Tasks) /\ op.todo # <<>>
        BY <1>2 DEF StartTask, KeywordInv, Ops
      <3>2. QED
        BY <3>1, TailOf DEF This
    <2>2. pc = "task" /\ \E to \in {"verify", "openfrom", "mkdir", "chmod"} : GoOn(to)
      BY <1>2, <2>1 DEF StartTask, Tasks
    <2>3. QED
      BY <2>2 DEF GoOn, Step, Flow
  <1>3. CASE Initialize \/ InitializeFails
    BY <1>3 DEF Initialize, InitializeFails, Renewed, GiveUp, Step, Flow
  <1>4. CASE DataExpires \/ WriteExpires \/ LocalFails \/ ChmodRefused \/ DataRefused
    <2>1. pc \in FailSteps /\ \E error \in Results : Fails(error)
      BY <1>4, ErrorTypes DEF DataExpires, LocalFails, DataRefused, ChmodRefused, IsStale,
         ReadFails, WriteExpires, FailSteps, CallSteps
    <2>2. pc \in {"openfrom", "opento"} => NotDone(At)
      BY <1>4 DEF DataExpires, LocalFails, DataRefused, ChmodRefused, IsStale, WriteExpires,
         NotDone, Terminals
    <2>3. QED
      BY <2>1, <2>2, FailsFlow
  <1>5. CASE ReadLocal \/ DataRead
    <2>1. pc \in Copying /\ pc' \in Copying \cup {"promptto"}
      BY <1>5 DEF ReadLocal, DataRead, Read, Step, Copying
    <2>2. QED
      BY <2>1 DEF Flow
  <1>6. CASE ReadRemote \/ WriteLocal \/ WriteRemote \/ Started \/ Stopped
    <2>1. pc \in Copying /\ pc' \in Copying
      BY <1>6 DEF ReadRemote, WriteLocal, WriteRemote, Started, Stopped, GoOn, Step, Copying
    <2>2. QED
      BY <2>1 DEF Flow
  <1>7. QED
    BY <1>1, <1>2, <1>3, <1>4, <1>5, <1>6 DEF Moves

LEMMA MovesHandles ==
  ASSUME TypeInv, KeywordInv, OpInv, CallInv, HandleInv, Moves
  PROVE  HandleInv'
  <1>1. Flow /\ Keeps /\ copies' = copies /\ \A t \in Terminals : ~Replied(t)'
    BY MovesFlow, MovesOp, MovesQuiet
  <1>2. /\ AccessInv' /\ \A t \in Terminals : handle'[t] \in {handle[t], NoFile}
        /\ handle' = handle \/ pc' \in {"task", "promptfrom", "promptto"}
    BY MovesLines
  <1>3. ASSUME NEW t \in Terminals, Opened(t)'
        PROVE  handle'[t] # NoFile
    <2>1. \/ t = op.from /\ pc' \in Copying \cup {"opento"}
          \/ t = op.to /\ pc' \in Copying
      BY <1>1, <1>3 DEF Opened, Keeps, Copying
    <2>2. handle' = handle
      BY <1>2, <2>1 DEF Copying
    <2>3. \/ t = op.from /\ (pc \in Copying \cup {"opento"} \/ (pc = "openfrom" /\ Replied(t)))
          \/ t = op.to /\ (pc \in Copying \/ (pc = "opento" /\ Replied(t)))
      BY <1>1, <2>1 DEF Flow, Copying, Done
    <2>4. QED
      BY <2>2, <2>3 DEF HandleInv, Opened
  <1>4. ASSUME NEW t \in Terminals
        PROVE  handle'[t] # NoFile => handle'[t].n \in 1 .. copies'
    BY <1>1, <1>2 DEF HandleInv
  <1>5. QED
    BY <1>2, <1>3, <1>4 DEF HandleInv, AccessInv

\* A file that the keyword opened and did not close is known to be open, or to be unclean.
LEMMA MovesOpen ==
  ASSUME TypeInv, KeywordInv, OpInv, CallInv, HandleInv, OpenInv, Moves
  PROVE  OpenInv'
  <1>1. /\ Flow /\ Keeps /\ copies' = copies /\ pc # "idle"
        /\ \A t \in Terminals : ~Replied(t)'
    BY MovesFlow, MovesOp, MovesQuiet
  <1>2. \A t \in Terminals : handle'[t] \in {handle[t], NoFile}
    BY MovesLines
  <1>3. ASSUME NEW t \in Terminals, handle'[t] # NoFile, handle'[t].n = op'.n
        PROVE  t \in op'.unclean \/ MayBeOpen(t)'
    <2>1. handle'[t] = handle[t] /\ handle[t].n = op.n
      BY <1>1, <1>2, <1>3 DEF Keeps
    <2>2. t \in op.unclean \/ MayBeOpen(t)
      BY <1>1, <1>3, <2>1 DEF OpenInv
    <2>3. op'.from = op.from /\ op'.to = op.to /\ op.unclean \subseteq op'.unclean
      BY <1>1 DEF Keeps
    <2>4. CASE MayBeOpen(t)
      BY <1>1, <1>3, <2>3, <2>4 DEF MayBeOpen, Flow, Copying, Done, NotDone
    <2>5. QED
      BY <2>2, <2>3, <2>4
  <1>4. QED
    BY <1>3 DEF OpenInv

-----------------------------------------------------------------------------
(* A call of a terminal.                                                    *)

LEMMA CallRemoteSteps ==
  ASSUME TypeInv, KeywordInv, OpInv, CallInv, HandleInv, OpenInv, CallRemote
  PROVE  KeywordInv' /\ OpInv' /\ LinesInv' /\ CallInv' /\ HandleInv' /\ OpenInv'
  <1>a. PICK t, c : t = At /\ c = Call(t, What)
    OBVIOUS
  <1>1. /\ pc \in CallSteps /\ t \in Terminals /\ ~sent /\ sent' /\ op.todo # <<>> /\ op \in Ops
        /\ UNCHANGED <<pc, op, outcome, copies>>
    BY <1>a, StepPlaces DEF CallRemote, KeywordInv, Sites
  <1>2. c \in Requests /\ c \in Inputs /\ c.k = "call"
    BY <1>a, <1>1, CallType DEF Inputs, Call
  <1>3. Send(t, c) /\ UNCHANGED <<line, out, blocked, handle, leftover>>
    BY <1>a DEF CallRemote, Ask
  <1>4. KeywordInv' /\ OpInv'
    <2>1. sent' \in BOOLEAN
      BY DEF CallRemote
    <2>2. At' = At
      BY <1>1 DEF At, This
    <2>3. QED
      BY <1>a, <1>1, <2>1, <2>2 DEF KeywordInv, OpInv
  <1>5. LinesInv'
    BY <1>1, <1>2, <1>3, SendType DEF TypeInv, LinesInv
  <1>6. Quiet
    BY <1>1, NotAwaited
  <1>7. CallInv'
    <2>1. in[t] \in Seq(Inputs) /\ SessionCalls(in[t]) = {}
      BY <1>1, <1>6 DEF TypeInv, Quiet
    <2>2. SessionCalls(Append(in[t], c)) \subseteq {Len(in[t]) + 1}
          /\ Append(in[t], c)[Len(in[t]) + 1] = c
          /\ Len(Append(in[t], c)) = Len(in[t]) + 1
      BY <1>2, <2>1, AddedCalls, AppendOf
    <2>3. \A r \in Terminals : in'[r] = IF r = t THEN Append(in[t], c) ELSE in[r]
      BY <1>3 DEF TypeInv, Send
    <2>4. At' = t /\ What' = What /\ Call(t, What)' = c
      <3>1. At' = At /\ What' = What
        BY <1>1 DEF At, This, What
      <3>2. QED
        BY <1>a, <1>1, <3>1 DEF Call, This
    <2>5. ASSUME NEW r \in Terminals
          PROVE  /\ SessionCalls(out'[r]) = {}
                 /\ \A i \in SessionCalls(in'[r]) : in'[r][i] = c /\ r = t /\ i = Len(in'[r])
      <3>1. SessionCalls(out'[r]) = {}
        BY <1>3, <1>6 DEF Quiet
      <3>2. CASE r = t
        BY <2>2, <2>3, <3>1, <3>2
      <3>3. CASE r # t
        BY <1>6, <2>3, <3>1, <3>3 DEF Quiet
      <3>4. QED
        BY <3>2, <3>3
    <2>6. ASSUME NEW r \in Terminals, r = t
          PROVE  Awaited(r, c)'
      BY <1>1, <2>4, <2>6 DEF Awaited
    <2>7. ASSUME NEW r \in Terminals
          PROVE  CallInvOf(r)'
      BY <1>2, <2>5, <2>6 DEF CallInvOf
    <2>8. QED
      BY <2>7 DEF CallInv
  <1>8. \A r \in Terminals : Replied(r)' <=> Replied(r)
    BY <1>3 DEF Replied
  <1>9. HandleInv'
    <2>1. AccessInv
      BY DEF HandleInv, AccessInv
    <2>2. \A r \in Terminals : Accesses(r)' # {} => handle[r] # NoFile
      BY <1>1, <1>2, <1>3, <2>1, AddedAccesses
    <2>3. \A r \in Terminals : Opened(r)' <=> Opened(r)
      BY <1>1, <1>8 DEF Opened
    <2>4. QED
      BY <1>1, <1>3, <2>2, <2>3 DEF HandleInv
  <1>10. OpenInv'
    <2>1. \A r \in Terminals : MayBeOpen(r)' <=> MayBeOpen(r)
      BY <1>1, <1>8 DEF MayBeOpen
    <2>2. QED
      BY <1>1, <1>3, <2>1 DEF OpenInv
  <1>11. QED
    BY <1>4, <1>5, <1>7, <1>9, <1>10

-----------------------------------------------------------------------------
(* What the remote Pythons do while the keyword waits.                      *)

LEMMA SameAwaited ==
  ASSUME UNCHANGED <<op, pc, sent>>
  PROVE  \A t, m : Awaited(t, m)' <=> Awaited(t, m)
  <1>1. At' = At /\ What' = What
    BY DEF At, This, What
  <1>2. \A t : Call(t, What)' = Call(t, What)
    BY <1>1 DEF Call, This
  <1>3. QED
    BY <1>1, <1>2 DEF Awaited, Answers

\* What is awaited is the call of the step, and its answer.
LEMMA AwaitedCall ==
  ASSUME NEW t, NEW m, Awaited(t, m), m.k = "call"
  PROVE  /\ m = Call(t, What) /\ m.what = What /\ m.n = op.n /\ t = At /\ sent
         /\ \A k \in {"reply", "raised"} : /\ Awaited(t, [m EXCEPT !.k = k])
                                           /\ [m EXCEPT !.k = k].what = What
                                           /\ [m EXCEPT !.k = k].k = k
  <1> DEFINE c == Call(t, What)
  <1>1. m = c
    <2>1. \A k : [c EXCEPT !.k = k].k = k
      BY DEF Call
    <2>2. QED
      BY <2>1 DEF Awaited, Answers
  <1>2. c.what = What /\ c.n = op.n
        /\ \A k \in {"reply", "raised"} : /\ [c EXCEPT !.k = k].what = What
                                          /\ [c EXCEPT !.k = k].k = k
    BY DEF Call
  <1>3. \A k \in {"reply", "raised"} : [c EXCEPT !.k = k] \in Answers(c)
    BY DEF Answers
  <1>4. t = At /\ sent
    BY DEF Awaited
  <1>5. \A k \in {"reply", "raised"} : Awaited(t, [c EXCEPT !.k = k])
    BY <1>3, <1>4 DEF Awaited
  <1>6. QED
    BY <1>1, <1>2, <1>4, <1>5

LEMMA TakesHead ==
  ASSUME TypeInv, CallInv, NEW t \in Terminals, in[t] # <<>>, SessionCall(Head(in[t]))
  PROVE  /\ Tail(in[t]) = <<>> /\ SessionCalls(out[t]) = {}
         /\ Head(in[t]).k = "call" /\ Awaited(t, Head(in[t]))
  <1>1. in[t] \in Seq(Inputs)
    BY DEF TypeInv
  <1>2. Len(in[t]) \in Nat /\ Len(in[t]) > 0 /\ Head(in[t]) = in[t][1]
        /\ Tail(in[t]) \in Seq(Inputs) /\ Len(Tail(in[t])) = Len(in[t]) - 1
    BY <1>1, TailOf
  <1>3. 1 \in SessionCalls(in[t])
    BY <1>2 DEF SessionCalls
  <1>4. Len(in[t]) = 1 /\ SessionCalls(out[t]) = {} /\ Head(in[t]).k = "call"
        /\ Awaited(t, Head(in[t]))
    <2>1. CallInvOf(t)
      BY DEF CallInv
    <2>2. 1 = Len(in[t]) /\ SessionCalls(out[t]) = {}
      BY <1>3, <2>1 DEF CallInvOf
    <2>3. in[t][1].k = "call" /\ Awaited(t, in[t][1])
      BY <1>3, <2>1 DEF CallInvOf
    <2>4. QED
      BY <1>2, <2>2, <2>3
  <1>5. Tail(in[t]) = <<>>
    <2>1. Len(Tail(in[t])) = 0
      BY <1>2, <1>4
    <2>2. QED
      BY <1>2, <2>1, EmptySeq
  <1>6. QED
    BY <1>4, <1>5

LEMMA TakesCalls ==
  ASSUME TypeInv, CallInv, NEW t \in Terminals, Takes(t)
  PROVE  CallInv'
  <1>1. in[t] \in Seq(Inputs) /\ out[t] \in Seq(Outputs)
    BY DEF TypeInv
  <1>2. /\ \A r \in Terminals : in'[r] = IF r = t THEN Tail(in[t]) ELSE in[r]
        /\ \A r \in Terminals : r # t => out'[r] = out[r]
    BY DEF Takes, TypeInv, Write
  <1>3. \A r, m : Awaited(r, m)' <=> Awaited(r, m)
    BY SameAwaited DEF Takes
  <1>4. \A i \in SessionCalls(in'[t]) : in'[t][i].k = "call" /\ Awaited(t, in'[t][i])
                                     /\ i = Len(in'[t]) /\ SessionCalls(in[t]) # {}
    <2>1. Len(Tail(in[t])) = Len(in[t]) - 1 /\ Len(in[t]) \in Nat
      BY <1>1, TailOf DEF Takes
    <2>2. \A i \in SessionCalls(Tail(in[t])) :
              i \in Nat /\ i + 1 \in SessionCalls(in[t]) /\ Tail(in[t])[i] = in[t][i + 1]
      BY <1>1, RestCalls DEF Takes
    <2>3. in'[t] = Tail(in[t])
      BY <1>2
    <2>4. CallInvOf(t)
      BY DEF CallInv
    <2>5. ASSUME NEW i \in SessionCalls(Tail(in[t]))
          PROVE  /\ Tail(in[t])[i].k = "call" /\ Awaited(t, Tail(in[t])[i])
                 /\ i = Len(Tail(in[t])) /\ SessionCalls(in[t]) # {}
      <3>1. i \in Nat /\ i + 1 \in SessionCalls(in[t]) /\ Tail(in[t])[i] = in[t][i + 1]
        BY <2>2
      <3>2. in[t][i + 1].k = "call" /\ Awaited(t, in[t][i + 1]) /\ i + 1 = Len(in[t])
        BY <2>4, <3>1 DEF CallInvOf
      <3>3. i = Len(Tail(in[t]))
        BY <2>1, <3>1, <3>2
      <3>4. QED
        BY <3>1, <3>2, <3>3
    <2>6. QED
      BY <2>3, <2>5
  <1>5. ASSUME SessionCall(Head(in[t]))
        PROVE  SessionCalls(in'[t]) = {} /\ SessionCalls(out[t]) = {}
               /\ Head(in[t]).k = "call" /\ Awaited(t, Head(in[t]))
    <2>1. SessionCalls(<<>>) = {}
      BY DEF SessionCalls
    <2>2. QED
      BY <1>2, <1>5, <2>1, TakesHead DEF Takes
  <1>6. /\ \A i \in SessionCalls(out'[t]) : out'[t][i].k # "call" /\ Awaited(t, out'[t][i])
        /\ \A i, j \in SessionCalls(out'[t]) : i = j
        /\ SessionCalls(in'[t]) = {} \/ SessionCalls(out'[t]) = {}
    <2>1. CASE out' = out
      BY <1>4, <2>1 DEF CallInv, CallInvOf
    <2>2. ASSUME NEW m \in Outputs, Write(t, <<m>>), ~SessionCall(m)
          PROVE  <1>6!:
      <3>1. out'[t] = Append(out[t], m)
        BY <1>1, <2>2, AppendOf DEF Write, TypeInv
      <3>2. SessionCalls(out'[t]) = SessionCalls(out[t])
        <4>1. SessionCalls(Append(out[t], m)) = SessionCalls(out[t]) \cup {}
          BY <1>1, <2>2, AddedCalls
        <4>2. QED
          BY <3>1, <4>1
      <3>3. \A i \in SessionCalls(out[t]) : out'[t][i] = out[t][i]
        BY <1>1, <3>1, AppendOf DEF SessionCalls
      <3>4. QED
        BY <1>4, <3>2, <3>3 DEF CallInv, CallInvOf
    <2>3. ASSUME NEW m \in Outputs, Write(t, <<m>>), SessionCall(m), Answering(t, m)
          PROVE  <1>6!:
      <3>1. PICK k \in {"reply", "raised"} :
                m = [Head(in[t]) EXCEPT !.k = k] /\ Head(in[t]).k = "call"
        BY <2>3 DEF Answering
      <3>2. Head(in[t]) \in Requests
        BY <1>1, <3>1, TailOf, MessageTypes DEF Takes
      <3>3. m.what = Head(in[t]).what /\ m.k = k
        BY <3>1, <3>2 DEF Requests
      <3>4. SessionCall(Head(in[t]))
        BY <2>3, <3>1, <3>3 DEF SessionCall
      <3>5. Awaited(t, m)
        BY <1>5, <3>1, <3>4, AwaitedCall
      <3>6. out'[t] = Append(out[t], m)
        BY <1>1, <2>3, AppendOf DEF Write, TypeInv
      <3>7. SessionCalls(out'[t]) = {Len(out[t]) + 1} /\ out'[t][Len(out[t]) + 1] = m
        <4>1. out[t] \in Seq(Outputs) /\ SessionCalls(out[t]) = {}
          BY <1>1, <1>5, <3>4
        <4>2. SessionCalls(Append(out[t], m)) = SessionCalls(out[t]) \cup {Len(out[t]) + 1}
          BY <2>3, <4>1, AddedCalls
        <4>3. Append(out[t], m)[Len(out[t]) + 1] = m
          BY <4>1, AppendOf
        <4>4. QED
          BY <3>6, <4>1, <4>2, <4>3
      <3>8. QED
        BY <1>5, <3>3, <3>4, <3>5, <3>7
    <2>4. QED
      BY <2>1, <2>2, <2>3 DEF Takes
  <1>7. ASSUME NEW r \in Terminals, r # t
        PROVE  in'[r] = in[r] /\ out'[r] = out[r]
    BY <1>2, <1>7
  <1>8. CallInvOf(t)'
    BY <1>3, <1>4, <1>6 DEF CallInvOf
  <1>9. ASSUME NEW r \in Terminals, r # t
        PROVE  CallInvOf(r)'
    <2>1. CallInvOf(r)
      BY DEF CallInv
    <2>2. QED
      BY <1>3, <1>7, <1>9, <2>1 DEF CallInvOf
  <1>10. QED
    BY <1>8, <1>9 DEF CallInv

\* The remote actions are such steps.
LEMMA ReplyTakes ==
  ASSUME TypeInv, NEW t \in Terminals, NEW k \in {"reply", "raised"},
         Reads(t, "call"), k = "raised" => NextCall(t).what \in Raising, Reply(t, k),
         UNCHANGED <<op, pc, sent>>
  PROVE  /\ Takes(t)
         /\ (k = "raised" \/ NextCall(t).what \notin {"open", "close"}) => Prints(t)
  <1> DEFINE m == [NextCall(t) EXCEPT !.k = k]
  <1>1. NextCall(t) \in Requests /\ NextCall(t) = Head(in[t]) /\ NextCall(t).k = "call"
    BY ReplyType DEF NextCall, Reads
  <1>2. m \in Outputs /\ m.what = NextCall(t).what /\ m.k = k
    <2>1. m \in Replies
      BY <1>1, MessageTypes
    <2>2. m.what = NextCall(t).what /\ m.k = k
      BY <1>1 DEF Requests
    <2>3. QED
      BY <2>1, <2>2 DEF Outputs
  <1>3. Write(t, <<m>>) /\ Answering(t, m)
    BY <1>1 DEF Reply, Answering
  <1>4. Takes(t)
    <2> HIDE DEF m
    <2> QED
      BY <1>2, <1>3 DEF Takes, Reply, Reads
  <1>5. (k = "raised" \/ NextCall(t).what \notin {"open", "close"}) => Prints(t)
    <2> HIDE DEF m
    <2> QED
      BY <1>2, <1>3 DEF Prints, SessionCall
  <1>6. QED
    BY <1>4, <1>5

LEMMA TakesReplied ==
  ASSUME TypeInv, NEW t \in Terminals, Prints(t)
  PROVE  \A r \in Terminals : Replied(r)' <=> Replied(r)
  <1>1. CASE out' = out
    BY <1>1 DEF Replied
  <1>2. ASSUME NEW m \in Outputs, Write(t, <<m>>),
               ~(m.k = "reply" /\ m.what \in {"open", "close"})
        PROVE  \A r \in Terminals : Replied(r)' <=> Replied(r)
    <2>1. out[t] \in Seq(Outputs)
      BY DEF TypeInv
    <2>2. \A r \in Terminals : out'[r] = IF r = t THEN Append(out[t], m) ELSE out[r]
      <3>1. out[t] \o <<m>> = Append(out[t], m)
        BY <2>1, AppendOf
      <3>2. QED
        BY <1>2, <3>1 DEF TypeInv, Write
    <2> DEFINE s == Append(out[t], m)
               n == Len(out[t]) + 1
    <2>3. SessionCalls(s) = SessionCalls(out[t]) \cup (IF SessionCall(m) THEN {n} ELSE {})
      BY <2>1, AddedCalls
    <2>4. s[n] = m /\ \A i \in SessionCalls(out[t]) : s[i] = out[t][i]
      BY <2>1, AppendOf DEF SessionCalls
    <2>5. (\E i \in SessionCalls(s) : s[i].k = "reply" /\ s[i].what \in {"open", "close"})
          <=> (\E i \in SessionCalls(out[t]) : /\ out[t][i].k = "reply"
                                             /\ out[t][i].what \in {"open", "close"})
      <3> HIDE DEF s, n
      <3> QED
        BY <1>2, <2>3, <2>4
    <2>6. ASSUME NEW r \in Terminals
          PROVE  Replied(r)' <=> Replied(r)
      <3>1. CASE r = t
        <4>1. out'[r] = s
          BY <2>2, <3>1
        <4>2. QED
          <5> HIDE DEF s, n
          <5> QED
            BY <2>5, <3>1, <4>1 DEF Replied
      <3>2. CASE r # t
        BY <2>2, <3>2 DEF Replied
      <3>3. QED
        BY <3>1, <3>2
    <2>7. QED
      BY <2>6
  <1>3. QED
    BY <1>1, <1>2 DEF Prints

LEMMA TakesAccesses ==
  ASSUME TypeInv, NEW t \in Terminals, Takes(t)
  PROVE  \A r \in Terminals : Accesses(r)' # {} => Accesses(r) # {}
  <1>1. in[t] \in Seq(Inputs)
    BY DEF TypeInv
  <1>2. Len(in[t]) \in Nat /\ Len(Tail(in[t])) = Len(in[t]) - 1
        /\ \A i \in 1 .. Len(in[t]) - 1 : Tail(in[t])[i] = in[t][i + 1]
    BY <1>1, TailOf DEF Takes
  <1>3. \A r \in Terminals : in'[r] = IF r = t THEN Tail(in[t]) ELSE in[r]
    BY DEF Takes, TypeInv
  <1>4. ASSUME NEW r \in Terminals, NEW i \in 1 .. Len(in'[r]), in'[r][i].k \in {"read", "write"}
        PROVE  Accesses(r) # {}
    <2>1. CASE r = t
      <3>1. in'[r] = Tail(in[t])
        BY <1>3, <2>1
      <3>2. i \in 1 .. Len(in[t]) - 1
        BY <1>2, <1>4, <3>1
      <3>3. i + 1 \in 1 .. Len(in[t]) /\ in[t][i + 1].k \in {"read", "write"}
        BY <1>2, <1>4, <3>1, <3>2
      <3>4. QED
        BY <2>1, <3>3 DEF Accesses
    <2>2. CASE r # t
      BY <1>3, <1>4, <2>2 DEF Accesses
    <2>3. QED
      BY <2>1, <2>2
  <1>5. QED
    BY <1>4 DEF Accesses

LEMMA AccessHead ==
  ASSUME TypeInv, HandleInv, NEW t \in Terminals, Reads(t, "read") \/ Reads(t, "write")
  PROVE  handle[t] # NoFile
  <1>1. in[t] \in Seq(Inputs) /\ in[t] # <<>> /\ Head(in[t]).k \in {"read", "write"}
    BY DEF TypeInv, Reads
  <1>2. Len(in[t]) \in Nat /\ Len(in[t]) > 0 /\ Head(in[t]) = in[t][1]
    BY <1>1, TailOf
  <1>3. 1 \in Accesses(t)
    BY <1>1, <1>2 DEF Accesses
  <1>4. QED
    BY <1>3 DEF HandleInv

\* But for the calls that open and close files, the same files stay open.
Others(t) == \/ RunChmod(t) \/ RunOther(t) \/ OpenFails(t)
             \/ RunRead(t) \/ RunWrite(t) \/ WriteBlock(t) \/ TakeMessage(t) \/ FileFails(t)

LEMMA OthersKeep ==
  ASSUME TypeInv, HandleInv, NEW t \in Terminals, Others(t)
  PROVE  /\ LinesInv' /\ SameFiles /\ Takes(t) /\ Prints(t)
         /\ \A r \in Terminals : blocked'[r] => blocked[r] \/ handle[r] # NoFile
         /\ UNCHANGED <<control, copies>>
  <1>1. UNCHANGED <<control, copies>>
    BY DEF Others, RunChmod, RunOther, OpenFails, Raises, CloseFails, FileFails, RunRead,
       RunWrite, WriteBlock, TakeMessage
  <1>2. UNCHANGED <<op, pc, sent>>
    BY <1>1 DEF control
  <1>3. CASE RunChmod(t) \/ RunOther(t)
    <2>1. Reads(t, "call") /\ Reply(t, "reply") /\ NextCall(t).what \notin {"open", "close"}
          /\ handle' = handle
      BY <1>3 DEF RunChmod, RunOther
    <2>2. Takes(t) /\ Prints(t)
      BY <1>2, <2>1, ReplyTakes
    <2>3. LinesInv'
      BY <1>3, RunCallType
    <2>4. QED
      BY <1>1, <2>1, <2>2, <2>3 DEF SameFiles, Reply
  <1>4. CASE OpenFails(t)
    <2>1. Reads(t, "call") /\ Reply(t, "raised") /\ NextCall(t).what \in Raising
          /\ handle' = handle
      BY <1>4 DEF OpenFails, Raising
    <2>2. Takes(t) /\ Prints(t)
      BY <1>2, <2>1, ReplyTakes
    <2>3. LinesInv'
      BY <1>4, RunCallType
    <2>4. QED
      BY <1>1, <2>1, <2>2, <2>3 DEF SameFiles, Reply
  <1>5. CASE RunRead(t)
    <2>1. handle[t] # NoFile
      BY <1>5, AccessHead DEF RunRead
    <2>2. QED
      BY <1>1, <1>5, <2>1, RunReadType DEF RunRead
  <1>6. CASE RunWrite(t)
    <2>1. handle[t] # NoFile
      BY <1>6, AccessHead DEF RunWrite
    <2>2. \A r \in Terminals : blocked'[r] => blocked[r] \/ r = t
      BY <1>6 DEF RunWrite, TypeInv
    <2>3. SameFiles
      BY <1>6 DEF RunWrite, SameFiles
    <2>4. QED
      BY <1>1, <1>6, <2>1, <2>2, <2>3, RunWriteType
  <1>7. CASE WriteBlock(t) \/ TakeMessage(t)
    <2>1. blocked[t] /\ handle[t] # NoFile
      BY <1>7 DEF WriteBlock, TakeMessage, HandleInv
    <2>2. \A r \in Terminals : blocked'[r] => blocked[r]
      BY <1>7 DEF WriteBlock, TakeMessage, TypeInv
    <2>3. QED
      BY <1>1, <1>7, <2>1, <2>2, TakeBytesType
  <1>8. CASE FileFails(t)
    <2>1. \A r \in Terminals : blocked'[r] => blocked[r]
      BY <1>8 DEF FileFails, TypeInv
    <2>2. QED
      BY <1>1, <1>8, <2>1, FileFailsType
  <1>9. QED
    BY <1>3, <1>4, <1>5, <1>6, <1>7, <1>8 DEF Others

\* A file that the keyword knows to be open is still, and what it does not know is the same.
LEMMA SameOpen ==
  ASSUME HandleInv, OpenInv, SameFiles, UNCHANGED <<control, copies>>,
         \A r \in Terminals : Replied(r)' <=> Replied(r),
         \A r \in Terminals : Accesses(r)' # {} => Accesses(r) # {},
         \A r \in Terminals : blocked'[r] => blocked[r] \/ handle[r] # NoFile
  PROVE  HandleInv' /\ OpenInv'
  <1>1. UNCHANGED <<op, pc, sent>>
    BY DEF control
  <1>2. \A r \in Terminals : (Opened(r)' <=> Opened(r)) /\ (MayBeOpen(r)' <=> MayBeOpen(r))
    BY <1>1 DEF Opened, MayBeOpen
  <1>3. HandleInv'
    BY <1>2 DEF HandleInv, SameFiles
  <1>4. OpenInv'
    BY <1>1, <1>2 DEF OpenInv, SameFiles
  <1>5. QED
    BY <1>3, <1>4

LEMMA OthersSteps ==
  ASSUME TypeInv, CallInv, HandleInv, OpenInv, NEW t \in Terminals, Others(t)
  PROVE  /\ LinesInv' /\ CallInv' /\ HandleInv' /\ OpenInv' /\ SameFiles
         /\ UNCHANGED <<control, copies>>
  <1>1. /\ LinesInv' /\ SameFiles /\ Takes(t) /\ Prints(t)
        /\ \A r \in Terminals : blocked'[r] => blocked[r] \/ handle[r] # NoFile
        /\ UNCHANGED <<control, copies>>
    BY OthersKeep
  <1>2. CallInv'
    BY <1>1, TakesCalls
  <1>3. \A r \in Terminals : Replied(r)' <=> Replied(r)
    BY <1>1, TakesReplied
  <1>4. \A r \in Terminals : Accesses(r)' # {} => Accesses(r) # {}
    BY <1>1, TakesAccesses
  <1>5. HandleInv' /\ OpenInv'
    BY <1>1, <1>3, <1>4, SameOpen
  <1>6. QED
    BY <1>1, <1>2, <1>5

\* The call that is run, if not a prompt, is the one that is awaited.
LEMMA SessionCallHead ==
  ASSUME TypeInv, CallInv, NEW t \in Terminals, NEW k \in {"reply", "raised"},
         Reads(t, "call"), Reply(t, k), NextCall(t).what # "prompt",
         k = "raised" => NextCall(t).what \in Raising,
         UNCHANGED <<op, pc, sent>>
  PROVE  /\ Takes(t) /\ in'[t] = <<>> /\ ~blocked'[t]
         /\ t = At /\ sent /\ NextCall(t).what = What /\ NextCall(t).n = op.n
         /\ NextCall(t) = Call(t, What) /\ SessionCalls(out[t]) = {}
         /\ \A r \in Terminals : r # t => Replied(r)' = Replied(r)
         /\ \A r \in Terminals : r # t => Accesses(r)' = Accesses(r) /\ blocked'[r] = blocked[r]
  <1>2. Takes(t)
    BY ReplyTakes
  <1>3. /\ in[t] # <<>> /\ Head(in[t]).k = "call"
        /\ SessionCall(Head(in[t])) /\ NextCall(t) = Head(in[t])
    BY DEF Reads, SessionCall, NextCall
  <1>4. Tail(in[t]) = <<>> /\ SessionCalls(out[t]) = {} /\ Awaited(t, Head(in[t]))
    BY <1>3, TakesHead
  <1>5. /\ t = At /\ sent /\ NextCall(t).what = What /\ NextCall(t).n = op.n
        /\ NextCall(t) = Call(t, What)
    <2>1. /\ Head(in[t]).what = What /\ Head(in[t]).n = op.n /\ t = At /\ sent
          /\ Head(in[t]) = Call(t, What)
      BY <1>3, <1>4, AwaitedCall
    <2>2. QED
      BY <1>3, <2>1
  <1>6. in'[t] = <<>>
    BY <1>2, <1>4 DEF TypeInv, Takes
  <1>7. blocked' = blocked /\ ~blocked[t]
    BY DEF Reads, Reply
  <1>8. \A r \in Terminals : r # t => in'[r] = in[r] /\ out'[r] = out[r]
    BY DEF Reply, Write, TypeInv
  <1>9. QED
    BY <1>2, <1>4, <1>5, <1>6, <1>7, <1>8 DEF Replied, Accesses

LEMMA RunOpenSteps ==
  ASSUME TypeInv, OpInv, CallInv, HandleInv, OpenInv, NEW t \in Terminals, RunOpen(t)
  PROVE  LinesInv' /\ CallInv' /\ HandleInv' /\ OpenInv' /\ sent
  <1>1. /\ Takes(t) /\ t = At /\ sent /\ What = "open" /\ NextCall(t).n = op.n
        /\ \A r \in Terminals : r # t => Replied(r)' = Replied(r)
        /\ \A r \in Terminals : r # t => Accesses(r)' = Accesses(r) /\ blocked'[r] = blocked[r]
        /\ UNCHANGED <<op, pc, sent, copies>>
    BY SessionCallHead DEF RunOpen, control
  <1>2. LinesInv' /\ CallInv'
    BY <1>1, RunOpenType, TakesCalls
  <1>3. /\ handle'[t] # NoFile /\ handle'[t].n = op.n
        /\ \A r \in Terminals : r # t => handle'[r] = handle[r]
    <2> DEFINE c == NextCall(t)
               f == [n |-> c.n, place |-> <<t, c.path>>, size |-> c.size, write |-> c.write,
                     offset |-> 0, buffer |-> <<>>]
    <2>1. handle' = [handle EXCEPT ![t] = f]
      BY DEF RunOpen
    <2>2. f # NoFile
      BY DEF NoFile
    <2>3. f.n = op.n
      BY <1>1
    <2>4. QED
      <3> HIDE DEF f
      <3> QED
        BY <2>1, <2>2, <2>3 DEF TypeInv
  <1>4. pc \in {"openfrom", "opento"}
    <2>1. pc \in CallSteps
      BY <1>1 DEF OpInv
    <2>2. QED
      BY <1>1, <2>1 DEF What, CallSteps
  <1>5. Replied(t)'
    <2>1. in[t] \in Seq(Inputs) /\ out[t] \in Seq(Outputs)
      BY DEF TypeInv
    <2> DEFINE m == [NextCall(t) EXCEPT !.k = "reply"]
    <2>2. NextCall(t) \in Requests /\ NextCall(t).what = "open"
      BY ReplyType DEF RunOpen
    <2>3. m \in Outputs /\ SessionCall(m) /\ m.k = "reply" /\ m.what = "open"
      <3>1. m \in Outputs
        BY <2>2, MessageTypes DEF Outputs
      <3>2. m.k = "reply" /\ m.what = "open"
        BY <2>2 DEF Requests
      <3>3. QED
        BY <3>1, <3>2 DEF SessionCall
    <2>4. out'[t] = out[t] \o <<m>>
      BY DEF RunOpen, Reply, Write, TypeInv
    <2>5. /\ out'[t] = Append(out[t], m) /\ Len(out'[t]) = Len(out[t]) + 1
          /\ out'[t][Len(out[t]) + 1] = m /\ Len(out[t]) \in Nat
      <3> HIDE DEF m
      <3> QED
        BY <2>1, <2>3, <2>4, AppendOf
    <2>6. Len(out[t]) + 1 \in SessionCalls(out'[t])
      <3> HIDE DEF m
      <3> QED
        BY <2>3, <2>5 DEF SessionCalls
    <2>7. QED
      <3> HIDE DEF m
      <3> QED
        BY <2>3, <2>5, <2>6 DEF Replied
  <1>6. op.from # op.to /\ op.n = copies /\ copies > 0
    BY <1>4 DEF OpInv
  <1>7. At = (IF pc = "openfrom" THEN op.from ELSE op.to)
    BY <1>4, StepAt
  <1>8. HandleInv'
    <2>1. ASSUME NEW r \in Terminals, r # t
          PROVE  Opened(r)' <=> Opened(r)
      BY <1>1, <2>1 DEF Opened
    <2>2. op.n \in 1 .. copies'
      BY <1>1, <1>6 DEF TypeInv
    <2>3. QED
      BY <1>1, <1>3, <2>1, <2>2 DEF HandleInv
  <1>9. OpenInv'
    <2>1. ASSUME NEW r \in Terminals, r # t
          PROVE  MayBeOpen(r)' <=> MayBeOpen(r)
      BY <1>1, <2>1 DEF MayBeOpen
    <2>2. MayBeOpen(t)'
      BY <1>1, <1>4, <1>5, <1>7 DEF MayBeOpen
    <2>3. QED
      BY <1>1, <1>3, <2>1, <2>2 DEF OpenInv
  <1>10. QED
    BY <1>1, <1>2, <1>8, <1>9

LEMMA RunCloseSteps ==
  ASSUME TypeInv, OpInv, CallInv, HandleInv, OpenInv, NEW t \in Terminals,
         RunClose(t) \/ CloseFails(t)
  PROVE  LinesInv' /\ CallInv' /\ HandleInv' /\ OpenInv' /\ sent
  <1>1. /\ Takes(t) /\ t = At /\ sent /\ What = "close" /\ in'[t] = <<>> /\ ~blocked'[t]
        /\ \A r \in Terminals : r # t => Replied(r)' = Replied(r)
        /\ \A r \in Terminals : r # t => Accesses(r)' = Accesses(r) /\ blocked'[r] = blocked[r]
        /\ UNCHANGED <<op, pc, sent, copies>>
    <2>1. PICK k \in {"reply", "raised"} : Reads(t, "call") /\ Reply(t, k)
      BY DEF RunClose, CloseFails
    <2>2. NextCall(t).what = "close" /\ "close" \in Raising /\ UNCHANGED <<op, pc, sent, copies>>
      BY DEF RunClose, CloseFails, control, Raising
    <2>3. QED
      BY <2>1, <2>2, SessionCallHead
  <1>2. LinesInv' /\ CallInv'
    BY <1>1, RunCallType, TakesCalls
  <1>3. handle'[t] = NoFile /\ \A r \in Terminals : r # t => handle'[r] = handle[r]
    BY DEF RunClose, CloseFails, TypeInv
  <1>4. pc \in {"closefrom", "closeto"}
    <2>1. pc \in CallSteps
      BY <1>1 DEF OpInv
    <2>2. QED
      BY <1>1, <2>1 DEF What, CallSteps
  <1>5. ~Opened(t)' /\ Accesses(t)' = {}
    <2>1. ~Opened(t)'
      BY <1>1, <1>4 DEF Opened, Copying
    <2>2. Len(<<>>) = 0
      OBVIOUS
    <2>3. QED
      BY <1>1, <2>1, <2>2 DEF Accesses
  <1>6. HandleInv'
    <2>1. ASSUME NEW r \in Terminals, r # t
          PROVE  Opened(r)' <=> Opened(r)
      BY <1>1, <2>1 DEF Opened
    <2>2. QED
      BY <1>1, <1>3, <1>5, <2>1 DEF HandleInv
  <1>7. OpenInv'
    <2>1. ASSUME NEW r \in Terminals, r # t
          PROVE  MayBeOpen(r)' <=> MayBeOpen(r)
      BY <1>1, <2>1 DEF MayBeOpen
    <2>2. QED
      BY <1>1, <1>3, <2>1 DEF OpenInv
  <1>8. QED
    BY <1>1, <1>2, <1>6, <1>7

\* What happens on its own.
LEMMA EnvironmentSteps ==
  ASSUME TypeInv, CallInv, HandleInv, OpenInv,
         \/ Collect
         \/ \E t \in Terminals : Flush(t) \/ Hang(t) \/ Revive(t) \/ Die(t)
  PROVE  /\ LinesInv' /\ CallInv' /\ HandleInv' /\ OpenInv' /\ SameFiles
         /\ UNCHANGED <<control, copies>>
  <1>1. UNCHANGED <<in, out, blocked, control, copies>>
    BY DEF Collect, Flush, Hang, Revive, Die, Breaks
  <1>2. SameFiles
    <2>1. CASE handle' = handle
      BY <2>1 DEF SameFiles
    <2>2. ASSUME NEW t \in Terminals, Flush(t)
          PROVE  SameFiles
      <3>1. handle[t] \in Files /\ handle[t] # NoFile
        BY <2>2 DEF Flush, TypeInv
      <3>2. Emptied(handle[t]) \in Files /\ Emptied(handle[t]).n = handle[t].n
        BY <3>1, FileFields
      <3>3. QED
        BY <2>2, <3>1, <3>2, ChangedFile DEF Flush
    <2>3. QED
      BY <2>1, <2>2 DEF Collect, Hang, Revive, Die, Breaks
  <1>3. CallInv'
    <2>1. \A r, m : Awaited(r, m)' <=> Awaited(r, m)
      BY <1>1, SameAwaited DEF control
    <2>2. QED
      BY <1>1, <2>1 DEF CallInv, CallInvOf
  <1>4. HandleInv' /\ OpenInv'
    BY <1>1, <1>2, SameOpen DEF Replied, Accesses
  <1>5. QED
    BY <1>1, <1>2, <1>3, <1>4, EnvironmentType

-----------------------------------------------------------------------------
(* The invariant.                                                           *)

LEMMA InitInv == Init => Inv
  <1> SUFFICES ASSUME Init PROVE Inv
    OBVIOUS
  <1>1. NoOp \in Ops /\ NoOp.n = 0
    BY DEF NoOp, Ops, Sites, EndOfFile, Blocks, Paths, Results
  <1>2. TypeInv
    <2>1. <<>> \in Seq(Inputs) /\ <<>> \in Seq(Outputs)
      OBVIOUS
    <2>2. in \in [Terminals -> Seq(Inputs)] /\ out \in [Terminals -> Seq(Outputs)]
      BY <2>1 DEF Init
    <2>3. line \in [Terminals -> {"none", "up", "hung", "dead"}]
          /\ handle \in [Terminals -> {NoFile} \cup Files] /\ blocked \in [Terminals -> BOOLEAN]
      BY DEF Init
    <2>4. op \in Ops /\ outcome \in Ops /\ pc \in Steps /\ sent \in BOOLEAN /\ copies \in Nat
      BY <1>1 DEF Init, Steps
    <2>5. QED
      BY <2>2, <2>3, <2>4 DEF TypeInv
  <1>3. OpInv
    BY <1>1 DEF Init, OpInv, CallSteps
  <1>4. \A t \in Terminals : in[t] = <<>> /\ out[t] = <<>> /\ handle[t] = NoFile /\ ~blocked[t]
    BY DEF Init
  <1>5. SessionCalls(<<>>) = {} /\ Len(<<>>) = 0
    BY DEF SessionCalls
  <1>6. CallInv
    BY <1>4, <1>5 DEF CallInv, CallInvOf
  <1>7. HandleInv
    <2>1. \A t \in Terminals : ~Opened(t) /\ Accesses(t) = {}
      BY <1>4, <1>5 DEF Init, Opened, Copying, Accesses
    <2>2. QED
      BY <1>4, <2>1 DEF HandleInv
  <1>8. OpenInv /\ FilesClosed
    BY <1>4 DEF OpenInv, FilesClosed
  <1>9. QED
    BY <1>2, <1>3, <1>6, <1>7, <1>8 DEF Inv

LEMMA TypeParts == /\ TypeInv <=> LinesInv /\ KeywordInv
                   /\ TypeInv' <=> LinesInv' /\ KeywordInv'
  BY DEF TypeInv, LinesInv, KeywordInv

\* A keyword that has begun has no file open.
LEMMA UserInv ==
  ASSUME Inv, MaxBlocks \in Nat, User
  PROVE  Inv'
  <1>1. UNCHANGED <<line, in, out, blocked, handle, sent>> /\ pc = "idle" /\ pc' = "task"
        /\ copies' = copies + 1
    BY DEF User, Begin, remote, CopyFileToTarget, CopyFileFromTarget, CopyFileBetweenTargets,
       CopyDirectoryToTarget, CopyDirectoryPartly, CopyDirectoryMissing, CreateDirectoryInTarget
  <1>2. KeywordInv' /\ OpInv'
    BY TypeParts, UserSteps DEF Inv
  <1>3. LinesInv'
    BY <1>1 DEF Inv, TypeInv, LinesInv
  <1>4. ~sent /\ Quiet
    BY <1>1, NotAwaited DEF Inv, OpInv, CallSteps
  <1>5. CallInv' /\ \A t \in Terminals : ~Replied(t)'
    BY <1>1, <1>4 DEF Quiet, CallInv, CallInvOf, Replied
  <1>6. copies \in Nat
    BY DEF Inv, TypeInv
  <1>7. HandleInv'
    <2>1. \A t \in Terminals : ~Opened(t)'
      BY <1>1 DEF Opened, Copying
    <2>2. QED
      BY <1>1, <1>6, <2>1 DEF Inv, HandleInv, Accesses
  <1>8. OpenInv'
    <2>1. op'.n = copies + 1
      BY <1>1, <1>2 DEF OpInv
    <2>2. ASSUME NEW t \in Terminals, handle[t] # NoFile
          PROVE  handle[t].n # copies + 1
      BY <1>6, <2>2 DEF Inv, HandleInv
    <2>3. QED
      BY <1>1, <2>1, <2>2 DEF OpenInv
  <1>9. FilesClosed'
    BY <1>1 DEF FilesClosed
  <1>10. QED
    BY <1>2, <1>3, <1>5, <1>7, <1>8, <1>9, TypeParts DEF Inv

\* A keyword returns with no file open but for the ones it knows.
LEMMA ReturnInv ==
  ASSUME Inv, Return
  PROVE  Inv'
  <1>1. /\ UNCHANGED <<line, in, out, blocked, handle, sent, copies>>
        /\ pc = "task" /\ pc' = "idle" /\ op' = NoOp /\ outcome' = op
    BY DEF Return, remote
  <1>2. ~sent /\ Quiet
    BY <1>1, NotAwaited DEF Inv, OpInv, CallSteps
  <1>3. NoOp \in Ops
    BY DEF NoOp, Ops, Sites, EndOfFile, Blocks, Paths, Results
  <1>4. TypeInv'
    BY <1>1, <1>3 DEF Inv, TypeInv, Steps
  <1>5. OpInv'
    <2>1. outcome'.n <= copies' /\ ~sent'
      BY <1>1, <1>2 DEF Inv, OpInv, TypeInv
    <2>2. QED
      BY <1>1, <2>1 DEF OpInv
  <1>6. CallInv'
    BY <1>1, <1>2 DEF Quiet, CallInv, CallInvOf
  <1>7. HandleInv'
    <2>1. \A t \in Terminals : ~Opened(t)'
      BY <1>1 DEF Opened, Copying
    <2>2. QED
      BY <1>1, <2>1 DEF Inv, HandleInv, Accesses
  <1>8. OpenInv'
    BY <1>1 DEF OpenInv
  <1>9. FilesClosed'
    <2>1. \A t \in Terminals : ~MayBeOpen(t)
      BY <1>1 DEF MayBeOpen, Copying
    <2>2. QED
      BY <1>1, <2>1 DEF Inv, OpenInv, FilesClosed
  <1>10. QED
    BY <1>4, <1>5, <1>6, <1>7, <1>8, <1>9 DEF Inv

LEMMA MovesInv ==
  ASSUME Inv, Moves
  PROVE  Inv'
  <1>1. TypeInv /\ KeywordInv /\ OpInv /\ CallInv /\ HandleInv /\ OpenInv
    BY TypeParts DEF Inv
  <1>2. Keeps /\ KeywordInv' /\ OpInv' /\ LinesInv' /\ CallInv' /\ HandleInv' /\ OpenInv'
    BY <1>1, MovesOp, MovesLines, MovesQuiet, MovesHandles, MovesOpen
  <1>3. pc' # "idle"
    <2>1. Flow
      BY <1>1, MovesFlow
    <2>2. QED
      BY <2>1 DEF Flow, Copying
  <1>4. QED
    BY <1>2, <1>3, TypeParts DEF Inv, FilesClosed

LEMMA CallRemoteInv ==
  ASSUME Inv, CallRemote
  PROVE  Inv'
  <1>1. TypeInv /\ KeywordInv /\ OpInv /\ CallInv /\ HandleInv /\ OpenInv
    BY TypeParts DEF Inv
  <1>2. KeywordInv' /\ OpInv' /\ LinesInv' /\ CallInv' /\ HandleInv' /\ OpenInv'
    BY <1>1, CallRemoteSteps
  <1>3. pc' # "idle"
    BY DEF CallRemote, CallSteps
  <1>4. QED
    BY <1>2, <1>3, TypeParts DEF Inv, FilesClosed

\* The terminals go on whether a keyword runs or not.
LEMMA RemoteInv ==
  ASSUME Inv,
         \/ Collect
         \/ \E t \in Terminals : Remote(t) \/ Raises(t) \/ Flush(t) \/ Hang(t) \/ Revive(t)
                                 \/ Die(t)
  PROVE  Inv'
  <1>1. TypeInv /\ KeywordInv /\ OpInv /\ CallInv /\ HandleInv /\ OpenInv /\ FilesClosed
    BY TypeParts DEF Inv
  <1>2. ASSUME LinesInv' /\ CallInv' /\ HandleInv' /\ OpenInv', FilesClosed',
               UNCHANGED <<control, copies>>
        PROVE  Inv'
    <2>1. KeywordInv' /\ OpInv'
      <3>1. At' = At
        BY <1>2 DEF control, At, This
      <3>2. QED
        BY <1>1, <1>2, <3>1 DEF control, KeywordInv, OpInv
    <2>2. QED
      BY <1>2, <2>1, TypeParts DEF Inv
  <1>3. ASSUME SameFiles, UNCHANGED <<control, copies>>
        PROVE  FilesClosed'
    BY <1>1, <1>3 DEF SameFiles, control, FilesClosed
  <1>4. ASSUME sent, UNCHANGED <<control, copies>>
        PROVE  FilesClosed'
    BY <1>1, <1>4 DEF OpInv, CallSteps, control, FilesClosed
  <1>5. ASSUME NEW t \in Terminals, RunOpen(t)
        PROVE  Inv'
    <2>1. LinesInv' /\ CallInv' /\ HandleInv' /\ OpenInv' /\ sent
      BY <1>1, <1>5, RunOpenSteps
    <2>2. UNCHANGED <<control, copies>>
      BY <1>5 DEF RunOpen
    <2>3. QED
      BY <1>2, <1>4, <2>1, <2>2
  <1>6. ASSUME NEW t \in Terminals, RunClose(t) \/ CloseFails(t)
        PROVE  Inv'
    <2>1. LinesInv' /\ CallInv' /\ HandleInv' /\ OpenInv' /\ sent
      BY <1>1, <1>6, RunCloseSteps
    <2>2. UNCHANGED <<control, copies>>
      BY <1>6 DEF RunClose, CloseFails
    <2>3. QED
      BY <1>2, <1>4, <2>1, <2>2
  <1>7. ASSUME NEW t \in Terminals, Others(t)
        PROVE  Inv'
    <2>1. /\ LinesInv' /\ CallInv' /\ HandleInv' /\ OpenInv' /\ SameFiles
          /\ UNCHANGED <<control, copies>>
      BY <1>1, <1>7, OthersSteps
    <2>2. QED
      BY <1>2, <1>3, <2>1
  <1>8. CASE \/ Collect
             \/ \E t \in Terminals : Flush(t) \/ Hang(t) \/ Revive(t) \/ Die(t)
    <2>1. /\ LinesInv' /\ CallInv' /\ HandleInv' /\ OpenInv' /\ SameFiles
          /\ UNCHANGED <<control, copies>>
      BY <1>1, <1>8, EnvironmentSteps
    <2>2. QED
      BY <1>2, <1>3, <2>1
  <1>9. QED
    BY <1>5, <1>6, <1>7, <1>8 DEF Remote, Raises, Others

LEMMA StutterInv ==
  ASSUME Inv, UNCHANGED vars
  PROVE  Inv'
  <1>1. UNCHANGED <<line, in, out, blocked, handle, op, pc, sent, outcome, copies>>
    BY DEF vars, remote, control
  <1>2. At' = At /\ \A t, m : Awaited(t, m)' <=> Awaited(t, m)
    BY <1>1, SameAwaited DEF At, This
  <1>3. TypeInv' /\ OpInv'
    BY <1>1, <1>2 DEF Inv, TypeInv, OpInv
  <1>4. CallInv'
    BY <1>1, <1>2 DEF Inv, CallInv, CallInvOf
  <1>5. HandleInv' /\ OpenInv' /\ FilesClosed'
    BY <1>1 DEF Inv, HandleInv, Opened, Accesses, Replied, OpenInv, MayBeOpen, FilesClosed
  <1>6. QED
    BY <1>3, <1>4, <1>5 DEF Inv

LEMMA NextInv == Inv /\ [Next]_vars => Inv'
  <1> SUFFICES ASSUME Inv, [Next]_vars PROVE Inv'
    OBVIOUS
  <1>1. MaxBlocks \in Nat
    BY ConstantsAssumption
  <1>2. CASE User
    BY <1>1, <1>2, UserInv
  <1>3. CASE Client
    BY <1>3, ReturnInv, CallRemoteInv, MovesInv DEF Client, Moves
  <1>4. CASE \E t \in Terminals : Remote(t)
    BY <1>4, RemoteInv
  <1>5. CASE Environment
    <2>1. CASE InitializeFails \/ LocalFails \/ DataRefused
      BY <2>1, MovesInv DEF Moves
    <2>2. CASE ~(InitializeFails \/ LocalFails \/ DataRefused)
      BY <1>5, <2>2, RemoteInv DEF Environment
    <2>3. QED
      BY <2>1, <2>2
  <1>6. CASE UNCHANGED vars
    BY <1>6, StutterInv
  <1>7. QED
    BY <1>2, <1>3, <1>4, <1>5, <1>6 DEF Next

\* What is sent and printed, the open files, and the keyword have their types: a read or a
\* write that a remote Python runs is always that of a file which it has opened
\* (_RemoteFileProxy), whatever timed out before.
THEOREM CopyTypeCorrect == Spec => [](TypeInv /\ HandleInv)
  <1>1. Inv => TypeInv /\ HandleInv
    BY DEF Inv
  <1>2. QED
    BY InitInv, NextInv, <1>1, PTL DEF Spec

\* A keyword leaves a remote file open only where the prompt asked for before its close, or
\* the close, failed: _FileCopier closes both files whatever happens in between.
THEOREM FilesAreClosed == Spec => []FilesClosed
  <1>1. Inv => FilesClosed
    BY DEF Inv
  <1>2. QED
    BY InitInv, NextInv, <1>1, PTL DEF Spec

-----------------------------------------------------------------------------
(* The contents of the files: what a keyword does, what is on its way and   *)
(* what its files hold at each step.                                        *)

\* What a keyword does, and what of it has been done.
TasksOf(o) ==
    CASE o.name = "directory" -> DirTasks(o.to)
      [] o.name = "partly" -> PartTasks(o.to)
      [] o.name \in {"create", "missing"} -> MakeTasks(o.to)
      [] o.name \in {"to", "from", "between"} -> CopyTasks(o.from, o.to)
      [] OTHER -> <<>>
Keywords == {<<"to", "local", "T1">>, <<"from", "T1", "local">>, <<"between", "T1", "T2">>,
             <<"directory", "local", "T1">>, <<"partly", "local", "T1">>,
             <<"missing", "local", "T1">>, <<"create", "local", "T1">>}
Position == Len(TasksOf(op)) - Len(op.todo)
Past == {TasksOf(op)[i] : i \in 1 .. Position}

\* A keyword that has not failed.
Fine == pc # "idle" /\ op.error = "none"
Early == {"task", "verify", "mkdir", "openfrom", "opento", "handlefrom"}
FileSteps == {"openfrom", "opento", "handlefrom", "read", "data", "handleto", "write",
              "start", "stop", "promptto", "closeto", "promptfrom", "closefrom"}
Closing == {"promptto", "closeto", "promptfrom", "closefrom"}
PlanInv ==
    /\ Fine =>
        /\ <<op.name, op.from, op.to>> \in Keywords
        /\ Len(op.todo) <= Len(TasksOf(op))
        /\ \A i \in 1 .. Len(op.todo) : op.todo[i] = TasksOf(op)[Position + i]
        /\ pc = "verify" => This.do = "init"
        /\ pc = "mkdir" => This.do = "mkdir"
        /\ pc = "chmod" => This.do \in {"chmod", "file"}
        /\ pc \in FileSteps => This.do = "file"
        /\ pc \in Early => op.read = 0
    /\ op.error # "none" => pc \in Closing \/ (pc = "task" /\ op.todo = <<>>)

\* The answer of such a call is the last that is printed.
LastInv ==
    \A t \in Terminals : \A i \in SessionCalls(out[t]) :
        in[t] = <<>> /\ ~blocked[t] /\ i = Len(out[t])

\* A terminal whose session was verified by the keyword has nothing on its way but what
\* the step waits for.
Verified(t) == \E path \in Paths : Task("init", t, path) \in Past
Silence(t) == in[t] = <<>> /\ out[t] = <<>> /\ ~blocked[t]
Asking(t) ==
    /\ ~blocked[t]
    /\ \/ in[t] = <<Call(t, What)>> /\ out[t] = <<>>
       \/ in[t] = <<>> /\ \E a \in Answers(Call(t, What)) : out[t] = <<a>>
Reading(t) ==
    /\ ~blocked[t]
    /\ \/ in[t] = <<[k |-> "read"]>> /\ out[t] = <<>>
       \/ in[t] = <<>> /\ \E b \in Blocks : out[t] = <<[k |-> "data", block |-> b]>>
       \/ in[t] = <<>> /\ out[t] = <<>>
Starting(t) ==
    \/ in[t] = <<[k |-> "write"]>> /\ out[t] = <<>> /\ ~blocked[t]
    \/ in[t] = <<>> /\ out[t] = <<[k |-> "start"]>> /\ blocked[t]
Writing(t) ==
    \/ in[t] = <<[k |-> "data", block |-> op.block]>> /\ out[t] = <<>> /\ blocked[t]
    \/ in[t] = <<>> /\ out[t] \in {<<>>, <<[k |-> "stop"]>>} /\ ~blocked[t]
Waiting(t) == \/ sent /\ At = t
              \/ pc = "data" /\ t = op.from
              \/ pc \in {"start", "stop"} /\ t = op.to
Exchange(t) ==
    /\ sent /\ At = t => Asking(t)
    /\ pc = "data" /\ t = op.from => Reading(t)
    /\ pc = "start" /\ t = op.to => Starting(t)
    /\ pc = "stop" /\ t = op.to => Writing(t)
    /\ ~Waiting(t) => Silence(t)
ExchangeInv == Fine => \A t \in Terminals : Verified(t) => Exchange(t)

\* Files, and who may still write to them.
DiskInv ==
    /\ disk \in [Places -> Seq(Blocks)] /\ mode \in [Places -> Nat]
    /\ leftover \subseteq Files /\ spoilt \subseteq Places
    /\ \A f \in leftover : f.place[1] \in Terminals
    /\ \A t \in Terminals : handle[t] # NoFile => handle[t].place[1] = t

\* A file that is to be closed is open, if there still is a session.
ToClose(t) ==
    \/ t = op.from /\ pc \in {"promptto", "closeto", "promptfrom"}
    \/ t = op.from /\ pc = "closefrom" /\ SessionCalls(out[t]) = {}
    \/ t = op.to /\ pc = "promptto"
    \/ t = op.to /\ pc = "closeto" /\ SessionCalls(out[t]) = {}
CloseInv == \A t \in Terminals : ToClose(t) => line[t] = "none" \/ handle[t] # NoFile

\* Nothing is going to be written to a file: what it holds stays.
Closed(place) == \A t \in Terminals : handle[t] # NoFile => handle[t].place # place
Alone(place) == \A f \in leftover : f.place = place => f.buffer = <<>>
Rests(place, contents) ==
    Closed(place) /\ (place \in spoilt \/ (disk[place] = contents /\ Alone(place)))
Stored(o, path) == Rests(<<o.to, path>>, Source(o.n, path, o.size))
HasMode(o, path) == o.to # "local" => mode[<<o.to, path>>] = o.n
Settled(o, path) == Stored(o, path) /\ HasMode(o, path)

\* What was done is done.
PastInv ==
    Fine => /\ \A path \in {"f", "g"} : Task("file", op.to, path) \in Past => Settled(op, path)
            /\ Task("chmod", op.to, "sub") \in Past => mode[<<op.to, "sub">>] = op.n

\* The source of the file that is being copied.
SourceAt(k) ==
    LET h == handle[op.from]
    IN /\ h.n = op.n /\ h.place = <<op.from, This.path>> /\ h.size = op.size
       /\ ~h.write /\ h.offset = k /\ h.buffer = <<>>
SourceInv ==
    Fine /\ op.from # "local" =>
        /\ pc = "openfrom" /\ Replied(op.from) => SourceAt(0)
        /\ pc \in {"opento", "handlefrom", "read", "handleto", "write", "start", "stop"} =>
                SourceAt(op.read)
        /\ pc = "data" =>
            \/ out[op.from] = <<>> /\ SourceAt(op.read)
            \/ /\ out[op.from] = <<[k |-> "data", block |-> EndOfFile]>>
               /\ op.read = op.size
            \/ /\ out[op.from] = <<[k |-> "data", block |-> Block(op.n, This.path, op.read + 1)]>>
               /\ SourceAt(op.read + 1)

\* The target, of which the first k blocks have been written.
Holds(k) ==
    IF op.to = "local" THEN disk[Place] = Source(op.n, This.path, k)
    ELSE LET h == handle[op.to]
         IN /\ h.place = Place /\ h.write
            /\ Place \in spoilt \/
                  /\ disk[Place] = Source(op.n, This.path, h.offset) /\ Alone(Place)
                  /\ h.offset + Len(h.buffer) = k
                  /\ \A i \in 1 .. Len(h.buffer) :
                        h.buffer[i] = Block(op.n, This.path, h.offset + i)
Copied == IF pc \in {"handleto", "write", "start"} \/ (pc = "stop" /\ out[op.to] = <<>>)
          THEN op.read - 1 ELSE op.read
IsDone(t) == t \in Terminals /\ Replied(t)
IsAnswered(t) == t \in Terminals /\ SessionCalls(out[t]) # {}
Confirmed(t) == \E i \in SessionCalls(out[t]) : out[t][i].k = "reply"
TargetInv ==
    Fine =>
        /\ pc = "opento" /\ IsDone(op.to) => Holds(0)
        /\ pc \in Copying => Holds(Copied)
        /\ pc \in {"handleto", "write", "start", "stop"} =>
              op.block = Block(op.n, This.path, op.read) /\ op.read > 0
        /\ pc = "promptto" => Holds(op.size)
        /\ pc = "closeto" => /\ IsDone(op.to) => Stored(op, This.path)
                             /\ IsAnswered(op.to) \/ Holds(op.size)
        /\ pc \in {"promptfrom", "closefrom"} => Stored(op, This.path)
        /\ pc = "chmod" => /\ This.do = "file" => Stored(op, This.path)
                           /\ op.to # "local" /\ Confirmed(op.to) => HasMode(op, This.path)

ReturnedInv ==
    pc = "idle" /\ Returned(outcome) => \A path \in FilesOf(outcome) : Settled(outcome, path)

ContentInv == PlanInv /\ LastInv /\ ExchangeInv /\ DiskInv /\ CloseInv /\ PastInv /\ SourceInv
              /\ TargetInv /\ ReturnedInv

-----------------------------------------------------------------------------
(* The tasks of a keyword.                                                  *)

LEMMA TaskFields ==
  ASSUME NEW do, NEW at, NEW path
  PROVE  Task(do, at, path).do = do /\ Task(do, at, path).at = at
         /\ Task(do, at, path).path = path
  BY DEF Task

LEMMA ConcatPairs ==
  ASSUME NEW S, NEW r \in Seq(S), NEW p \in Seq(S), Len(r) = 2, Len(p) = 2
  PROVE  /\ r \o p \in Seq(S) /\ Len(r \o p) = 4
         /\ \A i \in 1 .. 4 : (r \o p)[i] = IF i <= 2 THEN r[i] ELSE p[i - 2]
  <1> DEFINE s == r \o p
  <1>1. /\ s \in Seq(S) /\ Len(s) = Len(r) + Len(p)
        /\ \A i \in 1 .. Len(r) + Len(p) : s[i] = IF i <= Len(r) THEN r[i] ELSE p[i - Len(r)]
    BY ConcatProperties, Zenon
  <1> HIDE DEF s
  <1>2. \A i \in 1 .. 4 : s[i] = IF i <= 2 THEN r[i] ELSE p[i - 2]
    BY <1>1
  <1>3. QED
    BY <1>1, <1>2 DEF s

LEMMA ConcatTuples ==
  ASSUME NEW a, NEW b, NEW c, NEW d
  PROVE  /\ <<>> \o <<a>> \o <<b, c>> = <<a, b, c>>
         /\ <<a>> \o <<>> \o <<b, c>> = <<a, b, c>>
         /\ <<a>> \o <<b>> \o <<c, d>> = <<a, b, c, d>>
  <1> DEFINE S == {a, b, c, d}
  <1>1. /\ <<a>> \in Seq(S) /\ Len(<<a>>) = 1 /\ <<a>>[1] = a
        /\ <<b>> \in Seq(S) /\ Len(<<b>>) = 1 /\ <<b>>[1] = b
        /\ <<b, c>> \in Seq(S) /\ Len(<<b, c>>) = 2 /\ <<b, c>>[1] = b /\ <<b, c>>[2] = c
        /\ <<c, d>> \in Seq(S) /\ Len(<<c, d>>) = 2 /\ <<c, d>>[1] = c /\ <<c, d>>[2] = d
    OBVIOUS
  <1>2. <<>> \o <<a>> = <<a>> /\ <<a>> \o <<>> = <<a>>
    BY <1>1, ConcatEmptySeq
  <1>3. <<a>> \o <<b, c>> = <<a, b, c>>
    <2> DEFINE s == <<a>> \o <<b, c>>
               u == <<a, b, c>>
    <2>1. s \in Seq(S) /\ Len(s) = 3 /\ s[1] = a /\ s[2] = b /\ s[3] = c
      BY <1>1, ConcatProperties
    <2>2. u \in Seq(S) /\ Len(u) = 3 /\ u[1] = a /\ u[2] = b /\ u[3] = c
      OBVIOUS
    <2> HIDE DEF s, u, S
    <2>3. \A i \in 1 .. Len(s) : s[i] = u[i]
      <3>1. \A i \in 1 .. 3 : i = 1 \/ i = 2 \/ i = 3
        OBVIOUS
      <3>2. QED
        BY <2>1, <2>2, <3>1
    <2>4. s = u
      BY <2>1, <2>2, <2>3, SeqEqual
    <2>5. QED
      BY <2>4 DEF s, u
  <1>4. <<a>> \o <<b>> \o <<c, d>> = <<a, b, c, d>>
    <2> DEFINE r == <<a>> \o <<b>>
               p == <<c, d>>
               s == r \o p
               u == <<a, b, c, d>>
    <2>1. r \in Seq(S) /\ Len(r) = 2 /\ r[1] = a /\ r[2] = b
      BY <1>1, ConcatProperties
    <2>2. p \in Seq(S) /\ Len(p) = 2 /\ p[1] = c /\ p[2] = d
      BY <1>1
    <2>3. s \in Seq(S) /\ Len(s) = 4 /\ s[1] = a /\ s[2] = b /\ s[3] = c /\ s[4] = d
      <3> HIDE DEF r, p, S
      <3>1. s \in Seq(S) /\ Len(s) = 4 /\ \A i \in 1 .. 4 :
                s[i] = IF i <= 2 THEN r[i] ELSE p[i - 2]
        BY <2>1, <2>2, ConcatPairs
      <3> HIDE DEF s
      <3>2. QED
        BY <2>1, <2>2, <3>1
    <2>4. u \in Seq(S) /\ Len(u) = 4 /\ u[1] = a /\ u[2] = b /\ u[3] = c /\ u[4] = d
      OBVIOUS
    <2>5. s = u
      <3> HIDE DEF s, u, S
      <3>1. \A i \in 1 .. 4 : i = 1 \/ i = 2 \/ i = 3 \/ i = 4
        OBVIOUS
      <3>2. \A i \in 1 .. Len(s) : s[i] = u[i]
        BY <2>3, <2>4, <3>1
      <3>3. QED
        BY <2>3, <2>4, <3>2, SeqEqual
    <2>6. QED
      BY <2>5 DEF s, u, r, p
  <1>5. QED
    BY <1>2, <1>3, <1>4

\* The lists, written out.
LEMMA Lists ==
  ASSUME NEW o, <<o.name, o.from, o.to>> \in Keywords
  PROVE  \/ /\ o.name = "to" /\ o.from = "local" /\ o.to = "T1"
            /\ TasksOf(o) = <<Task("init", "T1", "f"), Task("mkdir", "T1", "f"),
                              Task("file", "T1", "f")>>
         \/ /\ o.name = "from" /\ o.from = "T1" /\ o.to = "local"
            /\ TasksOf(o) = <<Task("init", "T1", "f"), Task("mkdir", "local", "f"),
                              Task("file", "local", "f")>>
         \/ /\ o.name = "between" /\ o.from = "T1" /\ o.to = "T2"
            /\ TasksOf(o) = <<Task("init", "T1", "f"), Task("init", "T2", "f"),
                              Task("mkdir", "T2", "f"), Task("file", "T2", "f")>>
         \/ /\ o.name = "directory" /\ o.from = "local" /\ o.to = "T1"
            /\ TasksOf(o) =
                  <<Task("init", "T1", "dir"), Task("mkdir", "T1", "dir"),
                    Task("init", "T1", "f"), Task("file", "T1", "f"),
                    Task("init", "T1", "sub"), Task("mkdir", "T1", "sub"),
                    Task("init", "T1", "g"), Task("file", "T1", "g"),
                    Task("chmod", "T1", "sub"), Task("chmod", "T1", "dir")>>
         \/ /\ o.name = "partly" /\ o.from = "local" /\ o.to = "T1"
            /\ TasksOf(o) =
                  <<Task("init", "T1", "dir"), Task("mkdir", "T1", "dir"),
                    Task("init", "T1", "f"), Task("file", "T1", "f"),
                    Task("init", "T1", "sub"), Task("mkdir", "T1", "sub"),
                    Task("chmod", "T1", "dir")>>
         \/ /\ o.name \in {"create", "missing"} /\ o.from = "local" /\ o.to = "T1"
            /\ TasksOf(o) = <<Task("init", "T1", "dir"), Task("mkdir", "T1", "dir")>>
  <1>1. \A a, b, c, d : /\ <<>> \o <<a>> \o <<b, c>> = <<a, b, c>>
                        /\ <<a>> \o <<>> \o <<b, c>> = <<a, b, c>>
                        /\ <<a>> \o <<b>> \o <<c, d>> = <<a, b, c, d>>
    BY ConcatTuples
  <1>2. CASE o.name = "to"
    <2>1. o.from = "local" /\ o.to = "T1"
      BY <1>2 DEF Keywords
    <2>2. TasksOf(o) = CopyTasks("local", "T1")
      BY <1>2, <2>1 DEF TasksOf
    <2>3. QED
      BY <1>1, <1>2, <2>1, <2>2 DEF CopyTasks, InitTask
  <1>3. CASE o.name = "from"
    <2>1. o.from = "T1" /\ o.to = "local"
      BY <1>3 DEF Keywords
    <2>2. TasksOf(o) = CopyTasks("T1", "local")
      BY <1>3, <2>1 DEF TasksOf
    <2>3. QED
      BY <1>1, <1>3, <2>1, <2>2 DEF CopyTasks, InitTask
  <1>4. CASE o.name = "between"
    <2>1. o.from = "T1" /\ o.to = "T2"
      BY <1>4 DEF Keywords
    <2>2. TasksOf(o) = CopyTasks("T1", "T2")
      BY <1>4, <2>1 DEF TasksOf
    <2>3. QED
      BY <1>1, <1>4, <2>1, <2>2 DEF CopyTasks, InitTask
  <1>5. CASE o.name = "directory"
    BY <1>5 DEF Keywords, TasksOf, DirTasks
  <1>6. CASE o.name \in {"create", "missing"}
    BY <1>6 DEF Keywords, TasksOf, MakeTasks
  <1>7. CASE o.name = "partly"
    BY <1>7 DEF Keywords, TasksOf, PartTasks
  <1>8. QED
    BY <1>2, <1>3, <1>4, <1>5, <1>6, <1>7 DEF Keywords

\* What is known of the tasks by their places in the list.
Before(list, i, task) == \E j \in 1 .. i - 1 : list[j] = task
Orderly(o) ==
    LET list == TasksOf(o)
    IN /\ list \in Seq(Tasks)
       /\ \A i, j \in 1 .. Len(list) : list[i] = list[j] => i = j
       /\ \A i \in 1 .. Len(list) :
             /\ list[i] = Task(list[i].do, list[i].at, list[i].path)
             /\ list[i].do = "init" => list[i].at \in Terminals
             /\ list[i].do = "file" => list[i].path \in {"f", "g"}
             /\ list[i].do = "chmod" => list[i].path \in {"dir", "sub"} /\ o.to # "local"
             /\ list[i].do # "init" => list[i].at = o.to
       /\ \A i \in 1 .. Len(list) : list[i].do # "init" =>
             \A t \in {o.from, o.to} \cap Terminals :
                 \E path \in Paths : Before(list, i, Task("init", t, path))
       /\ \A i \in 1 .. Len(list) : list[i].do = "chmod" /\ list[i].path = "dir" =>
             /\ \A path \in FilesOf(o) : Before(list, i, Task("file", o.to, path))
             /\ o.name = "directory" => Before(list, i, Task("chmod", o.to, "sub"))
       /\ \A path \in FilesOf(o) : path \in {"f", "g"} /\
             \E i \in 1 .. Len(list) : list[i] = Task("file", o.to, path)

\* The lists are in order.
LEMMA KeywordTasks ==
  ASSUME NEW o, <<o.name, o.from, o.to>> \in Keywords
  PROVE  Orderly(o)
  <1> DEFINE list == TasksOf(o)
  <1> USE DEF Terminals, Paths
  <1>1. CASE o.name = "to"
    <2>1. /\ o.from = "local" /\ o.to = "T1" /\ Len(list) = 3
          /\ list[1] = Task("init", "T1", "f")
          /\ list[2] = Task("mkdir", "T1", "f")
          /\ list[3] = Task("file", "T1", "f")
      BY <1>1, Lists
    <2>2. list \in Seq(Tasks)
      BY <1>1, <2>1, TodoTypes DEF TasksOf, Sites
    <2> HIDE DEF list
    <2>3. \A i \in 1 .. Len(list) : i = 1 \/ i = 2 \/ i = 3
      BY <2>1
    <2>4. /\ list[1].do = "init" /\ list[1].at = "T1" /\ list[1].path = "f"
          /\ list[2].do = "mkdir" /\ list[2].at = "T1" /\ list[2].path = "f"
          /\ list[3].do = "file" /\ list[3].at = "T1" /\ list[3].path = "f"
      BY <2>1, TaskFields
    <2>5. \A i, j \in 1 .. Len(list) : list[i] = list[j] => i = j
      BY <2>3, <2>4
    <2>6. \A i \in 1 .. Len(list) :
             /\ list[i] = Task(list[i].do, list[i].at, list[i].path)
             /\ list[i].do = "init" => list[i].at \in Terminals
             /\ list[i].do = "file" => list[i].path \in {"f", "g"}
             /\ list[i].do = "chmod" => list[i].path \in {"dir", "sub"} /\ o.to # "local"
             /\ list[i].do # "init" => list[i].at = o.to
      BY <2>1, <2>3, <2>4
    <2>7. \A i \in 1 .. Len(list) : list[i].do # "init" =>
             \A t \in {o.from, o.to} \cap Terminals :
                 \E path \in Paths : Before(list, i, Task("init", t, path))
      BY <2>1, <2>3, <2>4 DEF Before
    <2>8. \A i \in 1 .. Len(list) : list[i].do = "chmod" /\ list[i].path = "dir" =>
             /\ \A path \in FilesOf(o) : Before(list, i, Task("file", o.to, path))
             /\ o.name = "directory" => Before(list, i, Task("chmod", o.to, "sub"))
      BY <2>1, <2>3, <2>4 DEF Before
    <2>9. \A path \in FilesOf(o) : path \in {"f", "g"} /\
             \E i \in 1 .. Len(list) : list[i] = Task("file", o.to, path)
      BY <1>1, <2>1 DEF FilesOf
    <2>10. QED
      BY <2>2, <2>5, <2>6, <2>7, <2>8, <2>9, Zenon DEF Orderly, list
  <1>2. CASE o.name = "from"
    <2>1. /\ o.from = "T1" /\ o.to = "local" /\ Len(list) = 3
          /\ list[1] = Task("init", "T1", "f")
          /\ list[2] = Task("mkdir", "local", "f")
          /\ list[3] = Task("file", "local", "f")
      BY <1>2, Lists
    <2>2. list \in Seq(Tasks)
      BY <1>2, <2>1, TodoTypes DEF TasksOf, Sites
    <2> HIDE DEF list
    <2>3. \A i \in 1 .. Len(list) : i = 1 \/ i = 2 \/ i = 3
      BY <2>1
    <2>4. /\ list[1].do = "init" /\ list[1].at = "T1" /\ list[1].path = "f"
          /\ list[2].do = "mkdir" /\ list[2].at = "local" /\ list[2].path = "f"
          /\ list[3].do = "file" /\ list[3].at = "local" /\ list[3].path = "f"
      BY <2>1, TaskFields
    <2>5. \A i, j \in 1 .. Len(list) : list[i] = list[j] => i = j
      BY <2>3, <2>4
    <2>6. \A i \in 1 .. Len(list) :
             /\ list[i] = Task(list[i].do, list[i].at, list[i].path)
             /\ list[i].do = "init" => list[i].at \in Terminals
             /\ list[i].do = "file" => list[i].path \in {"f", "g"}
             /\ list[i].do = "chmod" => list[i].path \in {"dir", "sub"} /\ o.to # "local"
             /\ list[i].do # "init" => list[i].at = o.to
      BY <2>1, <2>3, <2>4
    <2>7. \A i \in 1 .. Len(list) : list[i].do # "init" =>
             \A t \in {o.from, o.to} \cap Terminals :
                 \E path \in Paths : Before(list, i, Task("init", t, path))
      BY <2>1, <2>3, <2>4 DEF Before
    <2>8. \A i \in 1 .. Len(list) : list[i].do = "chmod" /\ list[i].path = "dir" =>
             /\ \A path \in FilesOf(o) : Before(list, i, Task("file", o.to, path))
             /\ o.name = "directory" => Before(list, i, Task("chmod", o.to, "sub"))
      BY <2>1, <2>3, <2>4 DEF Before
    <2>9. \A path \in FilesOf(o) : path \in {"f", "g"} /\
             \E i \in 1 .. Len(list) : list[i] = Task("file", o.to, path)
      BY <1>2, <2>1 DEF FilesOf
    <2>10. QED
      BY <2>2, <2>5, <2>6, <2>7, <2>8, <2>9, Zenon DEF Orderly, list
  <1>3. CASE o.name = "between"
    <2>1. /\ o.from = "T1" /\ o.to = "T2" /\ Len(list) = 4
          /\ list[1] = Task("init", "T1", "f")
          /\ list[2] = Task("init", "T2", "f")
          /\ list[3] = Task("mkdir", "T2", "f")
          /\ list[4] = Task("file", "T2", "f")
      BY <1>3, Lists
    <2>2. list \in Seq(Tasks)
      BY <1>3, <2>1, TodoTypes DEF TasksOf, Sites
    <2> HIDE DEF list
    <2>3. \A i \in 1 .. Len(list) : i = 1 \/ i = 2 \/ i = 3 \/ i = 4
      BY <2>1
    <2>4. /\ list[1].do = "init" /\ list[1].at = "T1" /\ list[1].path = "f"
          /\ list[2].do = "init" /\ list[2].at = "T2" /\ list[2].path = "f"
          /\ list[3].do = "mkdir" /\ list[3].at = "T2" /\ list[3].path = "f"
          /\ list[4].do = "file" /\ list[4].at = "T2" /\ list[4].path = "f"
      BY <2>1, TaskFields
    <2>5. \A i, j \in 1 .. Len(list) : list[i] = list[j] => i = j
      BY <2>3, <2>4
    <2>6. \A i \in 1 .. Len(list) :
             /\ list[i] = Task(list[i].do, list[i].at, list[i].path)
             /\ list[i].do = "init" => list[i].at \in Terminals
             /\ list[i].do = "file" => list[i].path \in {"f", "g"}
             /\ list[i].do = "chmod" => list[i].path \in {"dir", "sub"} /\ o.to # "local"
             /\ list[i].do # "init" => list[i].at = o.to
      BY <2>1, <2>3, <2>4
    <2>7. \A i \in 1 .. Len(list) : list[i].do # "init" =>
             \A t \in {o.from, o.to} \cap Terminals :
                 \E path \in Paths : Before(list, i, Task("init", t, path))
      BY <2>1, <2>3, <2>4 DEF Before
    <2>8. \A i \in 1 .. Len(list) : list[i].do = "chmod" /\ list[i].path = "dir" =>
             /\ \A path \in FilesOf(o) : Before(list, i, Task("file", o.to, path))
             /\ o.name = "directory" => Before(list, i, Task("chmod", o.to, "sub"))
      BY <2>1, <2>3, <2>4 DEF Before
    <2>9. \A path \in FilesOf(o) : path \in {"f", "g"} /\
             \E i \in 1 .. Len(list) : list[i] = Task("file", o.to, path)
      BY <1>3, <2>1 DEF FilesOf
    <2>10. QED
      BY <2>2, <2>5, <2>6, <2>7, <2>8, <2>9, Zenon DEF Orderly, list
  <1>4. CASE o.name = "directory"
    <2>1. /\ o.from = "local" /\ o.to = "T1" /\ Len(list) = 10
          /\ list[1] = Task("init", "T1", "dir")
          /\ list[2] = Task("mkdir", "T1", "dir")
          /\ list[3] = Task("init", "T1", "f")
          /\ list[4] = Task("file", "T1", "f")
          /\ list[5] = Task("init", "T1", "sub")
          /\ list[6] = Task("mkdir", "T1", "sub")
          /\ list[7] = Task("init", "T1", "g")
          /\ list[8] = Task("file", "T1", "g")
          /\ list[9] = Task("chmod", "T1", "sub")
          /\ list[10] = Task("chmod", "T1", "dir")
      BY <1>4, Lists
    <2>2. list \in Seq(Tasks)
      BY <1>4, <2>1, TodoTypes DEF TasksOf, Sites
    <2> HIDE DEF list
    <2>3. \A i \in 1 .. Len(list) :
            i = 1 \/ i = 2 \/ i = 3 \/ i = 4 \/ i = 5 \/ i = 6 \/ i = 7 \/ i = 8 \/ i = 9 \/ i = 10
      BY <2>1
    <2>4. /\ list[1].do = "init" /\ list[1].at = "T1" /\ list[1].path = "dir"
          /\ list[2].do = "mkdir" /\ list[2].at = "T1" /\ list[2].path = "dir"
          /\ list[3].do = "init" /\ list[3].at = "T1" /\ list[3].path = "f"
          /\ list[4].do = "file" /\ list[4].at = "T1" /\ list[4].path = "f"
          /\ list[5].do = "init" /\ list[5].at = "T1" /\ list[5].path = "sub"
          /\ list[6].do = "mkdir" /\ list[6].at = "T1" /\ list[6].path = "sub"
          /\ list[7].do = "init" /\ list[7].at = "T1" /\ list[7].path = "g"
          /\ list[8].do = "file" /\ list[8].at = "T1" /\ list[8].path = "g"
          /\ list[9].do = "chmod" /\ list[9].at = "T1" /\ list[9].path = "sub"
          /\ list[10].do = "chmod" /\ list[10].at = "T1" /\ list[10].path = "dir"
      BY <2>1, TaskFields
    <2>5. \A i, j \in 1 .. Len(list) : list[i] = list[j] => i = j
      <3> DEFINE PlaceOf(task) ==
                   CASE task.do = "init" ->
                          (IF task.path = "dir" THEN 1 ELSE IF task.path = "f" THEN 3
                           ELSE IF task.path = "sub" THEN 5 ELSE 7)
                     [] task.do = "mkdir" -> (IF task.path = "dir" THEN 2 ELSE 6)
                     [] task.do = "file" -> (IF task.path = "f" THEN 4 ELSE 8)
                     [] OTHER -> (IF task.path = "sub" THEN 9 ELSE 10)
      <3>1. /\ PlaceOf(list[1]) = 1 /\ PlaceOf(list[2]) = 2 /\ PlaceOf(list[3]) = 3
            /\ PlaceOf(list[4]) = 4 /\ PlaceOf(list[5]) = 5
        BY <2>4
      <3>2. /\ PlaceOf(list[6]) = 6 /\ PlaceOf(list[7]) = 7 /\ PlaceOf(list[8]) = 8
            /\ PlaceOf(list[9]) = 9 /\ PlaceOf(list[10]) = 10
        BY <2>4
      <3> HIDE DEF PlaceOf
      <3>3. \A i \in 1 .. Len(list) : PlaceOf(list[i]) = i
        BY <2>3, <3>1, <3>2
      <3>4. QED
        BY <3>3
    <2>6. \A i \in 1 .. Len(list) :
             /\ list[i] = Task(list[i].do, list[i].at, list[i].path)
             /\ list[i].do = "init" => list[i].at \in Terminals
             /\ list[i].do = "file" => list[i].path \in {"f", "g"}
             /\ list[i].do = "chmod" => list[i].path \in {"dir", "sub"} /\ o.to # "local"
             /\ list[i].do # "init" => list[i].at = o.to
      BY <2>1, <2>3, <2>4
    <2>7. \A i \in 1 .. Len(list) : list[i].do # "init" =>
             \A t \in {o.from, o.to} \cap Terminals :
                 \E path \in Paths : Before(list, i, Task("init", t, path))
      BY <2>1, <2>3, <2>4 DEF Before
    <2>8. \A i \in 1 .. Len(list) : list[i].do = "chmod" /\ list[i].path = "dir" =>
             /\ \A path \in FilesOf(o) : Before(list, i, Task("file", o.to, path))
             /\ o.name = "directory" => Before(list, i, Task("chmod", o.to, "sub"))
      BY <1>4, <2>1, <2>3, <2>4 DEF Before, FilesOf
    <2>9. \A path \in FilesOf(o) : path \in {"f", "g"} /\
             \E i \in 1 .. Len(list) : list[i] = Task("file", o.to, path)
      BY <1>4, <2>1 DEF FilesOf
    <2>10. QED
      BY <2>2, <2>5, <2>6, <2>7, <2>8, <2>9, Zenon DEF Orderly, list
  <1>5. CASE o.name \in {"create", "missing"}
    <2>1. /\ o.from = "local" /\ o.to = "T1" /\ Len(list) = 2
          /\ list[1] = Task("init", "T1", "dir")
          /\ list[2] = Task("mkdir", "T1", "dir")
      BY <1>5, Lists
    <2>2. list \in Seq(Tasks)
      BY <1>5, <2>1, TodoTypes DEF TasksOf, Sites
    <2> HIDE DEF list
    <2>3. \A i \in 1 .. Len(list) : i = 1 \/ i = 2
      BY <2>1
    <2>4. /\ list[1].do = "init" /\ list[1].at = "T1" /\ list[1].path = "dir"
          /\ list[2].do = "mkdir" /\ list[2].at = "T1" /\ list[2].path = "dir"
      BY <2>1, TaskFields
    <2>5. \A i, j \in 1 .. Len(list) : list[i] = list[j] => i = j
      BY <2>3, <2>4
    <2>6. \A i \in 1 .. Len(list) :
             /\ list[i] = Task(list[i].do, list[i].at, list[i].path)
             /\ list[i].do = "init" => list[i].at \in Terminals
             /\ list[i].do = "file" => list[i].path \in {"f", "g"}
             /\ list[i].do = "chmod" => list[i].path \in {"dir", "sub"} /\ o.to # "local"
             /\ list[i].do # "init" => list[i].at = o.to
      BY <2>1, <2>3, <2>4
    <2>7. \A i \in 1 .. Len(list) : list[i].do # "init" =>
             \A t \in {o.from, o.to} \cap Terminals :
                 \E path \in Paths : Before(list, i, Task("init", t, path))
      BY <2>1, <2>3, <2>4 DEF Before
    <2>8. \A i \in 1 .. Len(list) : list[i].do = "chmod" /\ list[i].path = "dir" =>
             /\ \A path \in FilesOf(o) : Before(list, i, Task("file", o.to, path))
             /\ o.name = "directory" => Before(list, i, Task("chmod", o.to, "sub"))
      BY <2>1, <2>3, <2>4 DEF Before
    <2>9. \A path \in FilesOf(o) : path \in {"f", "g"} /\
             \E i \in 1 .. Len(list) : list[i] = Task("file", o.to, path)
      BY <1>5, <2>1 DEF FilesOf
    <2>10. QED
      BY <2>2, <2>5, <2>6, <2>7, <2>8, <2>9, Zenon DEF Orderly, list
  <1>6. CASE o.name = "partly"
    <2>1. /\ o.from = "local" /\ o.to = "T1" /\ Len(list) = 7
          /\ list[1] = Task("init", "T1", "dir")
          /\ list[2] = Task("mkdir", "T1", "dir")
          /\ list[3] = Task("init", "T1", "f")
          /\ list[4] = Task("file", "T1", "f")
          /\ list[5] = Task("init", "T1", "sub")
          /\ list[6] = Task("mkdir", "T1", "sub")
          /\ list[7] = Task("chmod", "T1", "dir")
      BY <1>6, Lists
    <2>2. list \in Seq(Tasks)
      BY <1>6, <2>1, TodoTypes DEF TasksOf, Sites
    <2> HIDE DEF list
    <2>3. \A i \in 1 .. Len(list) : i = 1 \/ i = 2 \/ i = 3 \/ i = 4 \/ i = 5 \/ i = 6 \/ i = 7
      BY <2>1
    <2>4. /\ list[1].do = "init" /\ list[1].at = "T1" /\ list[1].path = "dir"
          /\ list[2].do = "mkdir" /\ list[2].at = "T1" /\ list[2].path = "dir"
          /\ list[3].do = "init" /\ list[3].at = "T1" /\ list[3].path = "f"
          /\ list[4].do = "file" /\ list[4].at = "T1" /\ list[4].path = "f"
          /\ list[5].do = "init" /\ list[5].at = "T1" /\ list[5].path = "sub"
          /\ list[6].do = "mkdir" /\ list[6].at = "T1" /\ list[6].path = "sub"
          /\ list[7].do = "chmod" /\ list[7].at = "T1" /\ list[7].path = "dir"
      BY <2>1, TaskFields
    <2>5. \A i, j \in 1 .. Len(list) : list[i] = list[j] => i = j
      BY <2>3, <2>4
    <2>6. \A i \in 1 .. Len(list) :
             /\ list[i] = Task(list[i].do, list[i].at, list[i].path)
             /\ list[i].do = "init" => list[i].at \in Terminals
             /\ list[i].do = "file" => list[i].path \in {"f", "g"}
             /\ list[i].do = "chmod" => list[i].path \in {"dir", "sub"} /\ o.to # "local"
             /\ list[i].do # "init" => list[i].at = o.to
      BY <2>1, <2>3, <2>4
    <2>7. \A i \in 1 .. Len(list) : list[i].do # "init" =>
             \A t \in {o.from, o.to} \cap Terminals :
                 \E path \in Paths : Before(list, i, Task("init", t, path))
      BY <2>1, <2>3, <2>4 DEF Before
    <2>8. \A i \in 1 .. Len(list) : list[i].do = "chmod" /\ list[i].path = "dir" =>
             /\ \A path \in FilesOf(o) : Before(list, i, Task("file", o.to, path))
             /\ o.name = "directory" => Before(list, i, Task("chmod", o.to, "sub"))
      BY <1>6, <2>1, <2>3, <2>4 DEF Before, FilesOf
    <2>9. \A path \in FilesOf(o) : path \in {"f", "g"} /\
             \E i \in 1 .. Len(list) : list[i] = Task("file", o.to, path)
      BY <1>6, <2>1 DEF FilesOf
    <2>10. QED
      BY <2>2, <2>5, <2>6, <2>7, <2>8, <2>9, Zenon DEF Orderly, list
  <1>7. QED
    BY <1>1, <1>2, <1>3, <1>4, <1>5, <1>6 DEF Keywords

\* What is known of the task under way, and of what was done before it.
TaskFacts ==
    /\ This = Task(This.do, This.at, This.path) /\ This \in Tasks /\ This \notin Past
    /\ This.do = "init" => This.at \in Terminals
    /\ This.do # "init" =>
          /\ This.at = op.to
          /\ \A t \in Terminals : t \in {op.from, op.to} => Verified(t)
    /\ This.do = "file" => This.path \in {"f", "g"}
    /\ This.do = "chmod" => This.path \in {"dir", "sub"} /\ op.to # "local"
    /\ This.do = "chmod" /\ This.path = "dir" =>
          /\ \A path \in FilesOf(op) : Task("file", op.to, path) \in Past
          /\ op.name = "directory" => Task("chmod", op.to, "sub") \in Past

LEMMA Positions ==
  ASSUME TypeInv, PlanInv, Fine
  PROVE  /\ Orderly(op) /\ Position \in Nat /\ Position + Len(op.todo) = Len(TasksOf(op))
         /\ Len(TasksOf(op)) \in Nat /\ Len(op.todo) \in Nat
         /\ op.todo # <<>> => /\ Position + 1 \in 1 .. Len(TasksOf(op))
                              /\ This = TasksOf(op)[Position + 1]
         /\ op.todo = <<>> => Position = Len(TasksOf(op))
  <1>1. Orderly(op)
    BY KeywordTasks DEF PlanInv
  <1>2. Len(TasksOf(op)) \in Nat
    BY <1>1, Len(TasksOf(op)) \in Nat DEF Orderly
  <1>3. op.todo \in Seq(Tasks) /\ Len(op.todo) \in Nat
    BY DEF TypeInv, Ops
  <1>4. /\ Len(op.todo) <= Len(TasksOf(op))
        /\ \A i \in 1 .. Len(op.todo) : op.todo[i] = TasksOf(op)[Position + i]
    BY DEF PlanInv
  <1>5. Position \in Nat /\ Position + Len(op.todo) = Len(TasksOf(op))
    BY <1>2, <1>3, <1>4 DEF Position
  <1>6. ASSUME op.todo # <<>>
        PROVE  /\ Position + 1 \in 1 .. Len(TasksOf(op))
               /\ This = TasksOf(op)[Position + 1]
    <2>1. Len(op.todo) > 0 /\ This = op.todo[1]
      BY <1>3, <1>6, TailOf DEF This
    <2>2. QED
      BY <1>2, <1>3, <1>4, <1>5, <2>1
  <1>7. op.todo = <<>> => Len(op.todo) = 0
    OBVIOUS
  <1>8. QED
    BY <1>1, <1>2, <1>3, <1>5, <1>6, <1>7

LEMMA ThisTask ==
  ASSUME TypeInv, PlanInv, Fine, op.todo # <<>>
  PROVE  TaskFacts
  <1> DEFINE list == TasksOf(op)
             p == Position
  <1>1. /\ Orderly(op) /\ p \in Nat /\ p + 1 \in 1 .. Len(list) /\ This = list[p + 1]
        /\ Len(list) \in Nat
    BY Positions
  <1>2. Past = {list[i] : i \in 1 .. p}
    BY DEF Past
  <1>3. /\ list \in Seq(Tasks)
        /\ \A i, j \in 1 .. Len(list) : list[i] = list[j] => i = j
    BY <1>1 DEF Orderly
  <1> HIDE DEF p
  <1>4. /\ This = Task(This.do, This.at, This.path)
        /\ This.do = "init" => This.at \in Terminals
        /\ This.do = "file" => This.path \in {"f", "g"}
        /\ This.do = "chmod" => This.path \in {"dir", "sub"} /\ op.to # "local"
        /\ This.do # "init" => This.at = op.to
        /\ This.do # "init" => \A t \in {op.from, op.to} \cap Terminals :
              \E path \in Paths : Before(list, p + 1, Task("init", t, path))
        /\ This.do = "chmod" /\ This.path = "dir" =>
              /\ \A path \in FilesOf(op) : Before(list, p + 1, Task("file", op.to, path))
              /\ op.name = "directory" => Before(list, p + 1, Task("chmod", op.to, "sub"))
    <2>1. /\ \A i \in 1 .. Len(list) :
                /\ list[i] = Task(list[i].do, list[i].at, list[i].path)
                /\ list[i].do = "init" => list[i].at \in Terminals
                /\ list[i].do = "file" => list[i].path \in {"f", "g"}
                /\ list[i].do = "chmod" => list[i].path \in {"dir", "sub"} /\ op.to # "local"
                /\ list[i].do # "init" => list[i].at = op.to
          /\ \A i \in 1 .. Len(list) : list[i].do # "init" =>
                \A t \in {op.from, op.to} \cap Terminals :
                    \E path \in Paths : Before(list, i, Task("init", t, path))
          /\ \A i \in 1 .. Len(list) : list[i].do = "chmod" /\ list[i].path = "dir" =>
                /\ \A path \in FilesOf(op) : Before(list, i, Task("file", op.to, path))
                /\ op.name = "directory" => Before(list, i, Task("chmod", op.to, "sub"))
      BY <1>1, Zenon DEF Orderly
    <2> HIDE DEF list
    <2>2. QED
      BY <1>1, <2>1
  <1> HIDE DEF p, list
  <1>5. p + 1 - 1 = p /\ \A i \in 1 .. p : i \in 1 .. Len(list) /\ i # p + 1
    BY <1>1
  <1>6. This \notin Past
    <2>1. \A i \in 1 .. p : list[i] # list[p + 1]
      BY <1>1, <1>3, <1>5
    <2>2. QED
      BY <1>1, <1>2, <2>1
  <1>7. This \in Tasks
    BY <1>1, <1>3
  <1>8. \A task : Before(list, p + 1, task) => task \in Past
    <2>1. SUFFICES ASSUME NEW task, Before(list, p + 1, task)
                   PROVE  task \in Past
      OBVIOUS
    <2>2. PICK j \in 1 .. p : list[j] = task
      BY <1>1, <2>1 DEF Before
    <2>3. QED
      BY <1>2, <2>2
  <1>9. This.do # "init" => \A t \in Terminals : t \in {op.from, op.to} => Verified(t)
    BY <1>4, <1>8 DEF Verified
  <1>10. This.do = "chmod" /\ This.path = "dir" =>
            /\ \A path \in FilesOf(op) : Task("file", op.to, path) \in Past
            /\ op.name = "directory" => Task("chmod", op.to, "sub") \in Past
    BY <1>4, <1>8
  <1>11. QED
    BY <1>4, <1>6, <1>7, <1>9, <1>10 DEF TaskFacts

\* A step that does not end the task leaves the list as it is, and another takes the next one.
SameKeyword == /\ op'.name = op.name /\ op'.n = op.n /\ op'.from = op.from
               /\ op'.to = op.to /\ op'.size = op.size
LEMMA TasksStay ==
  ASSUME SameKeyword, op'.todo = op.todo
  PROVE  Past' = Past /\ TasksOf(op)' = TasksOf(op) /\ Position' = Position
         /\ \A t : Verified(t)' <=> Verified(t)
  <1>1. TasksOf(op)' = TasksOf(op)
    BY DEF SameKeyword, TasksOf
  <1>2. Position' = Position
    BY <1>1 DEF Position
  <1>3. Past' = Past
    BY <1>1, <1>2 DEF Past
  <1>4. QED
    BY <1>1, <1>2, <1>3 DEF Verified

LEMMA TasksGoOn ==
  ASSUME TypeInv, PlanInv, Fine, op.todo # <<>>, SameKeyword, op'.todo = Tail(op.todo)
  PROVE  /\ Past' = Past \cup {This} /\ TasksOf(op)' = TasksOf(op)
         /\ Len(op'.todo) <= Len(TasksOf(op))
         /\ Position' = Position + 1
         /\ \A i \in 1 .. Len(op'.todo) : op'.todo[i] = TasksOf(op)[Position' + i]
  <1>1. TasksOf(op)' = TasksOf(op)
    BY DEF SameKeyword, TasksOf
  <1>2. /\ op.todo \in Seq(Tasks) /\ Len(op.todo) \in Nat /\ Len(op.todo) > 0
        /\ Len(op'.todo) = Len(op.todo) - 1
        /\ \A i \in 1 .. Len(op.todo) - 1 : op'.todo[i] = op.todo[i + 1]
    <2>1. op.todo \in Seq(Tasks)
      BY DEF TypeInv, Ops
    <2>2. QED
      BY <2>1, TailOf
  <1>3. /\ Position \in Nat /\ Position + Len(op.todo) = Len(TasksOf(op))
        /\ Len(TasksOf(op)) \in Nat
        /\ Position + 1 \in 1 .. Len(TasksOf(op)) /\ This = TasksOf(op)[Position + 1]
    BY Positions
  <1>4. \A i \in 1 .. Len(op.todo) : op.todo[i] = TasksOf(op)[Position + i]
    BY DEF PlanInv
  <1>5. Position' = Position + 1
    <2>1. \A a, b \in Nat : a - (b - 1) = a - b + 1
      OBVIOUS
    <2>2. Position' = Len(TasksOf(op)) - (Len(op.todo) - 1)
      BY <1>1, <1>2, Zenon DEF Position
    <2>3. QED
      BY <1>2, <1>3, <2>1, <2>2, Zenon DEF Position
  <1>6. Past' = Past \cup {This}
    <2>1. Past' = {TasksOf(op)[i] : i \in 1 .. Position + 1}
      BY <1>1, <1>5 DEF Past
    <2>2. \A i : i \in 1 .. Position + 1 <=> i \in 1 .. Position \/ i = Position + 1
      BY <1>3
    <2>3. QED
      BY <1>3, <2>1, <2>2 DEF Past
  <1>7. \A i \in 1 .. Len(op'.todo) : op'.todo[i] = TasksOf(op)[Position' + i]
    <2>1. SUFFICES ASSUME NEW i \in 1 .. Len(op'.todo)
                   PROVE  op'.todo[i] = TasksOf(op)[Position' + i]
      OBVIOUS
    <2>2. i + 1 \in 1 .. Len(op.todo) /\ Position' + i = Position + (i + 1)
      BY <1>2, <1>3, <1>5
    <2>3. op'.todo[i] = op.todo[i + 1]
      BY <1>2
    <2>4. QED
      BY <1>4, <2>2, <2>3
  <1>8. Len(op'.todo) <= Len(TasksOf(op))
    BY <1>2, <1>3
  <1>9. QED
    BY <1>1, <1>5, <1>6, <1>7, <1>8, Zenon

\* With nothing left to do, every file is copied.
LEMMA AllDone ==
  ASSUME TypeInv, PlanInv, Fine, op.todo = <<>>
  PROVE  \A path \in FilesOf(op) : path \in {"f", "g"} /\ Task("file", op.to, path) \in Past
  <1>1. Orderly(op) /\ Position = Len(TasksOf(op))
    BY Positions
  <1>2. QED
    BY <1>1 DEF Orderly, Past

-----------------------------------------------------------------------------
(* How the keyword goes on while nothing has failed.                        *)

LEMMA StepFields ==
  ASSUME op \in Ops
  PROVE  /\ \A next : GoOn(next) => op' = op /\ pc' = next /\ ~sent'
         /\ \A next, error : GoOnWith(next, error) =>
               SameKeyword /\ pc' = next /\ op'.todo = op.todo /\ op'.error = error
         /\ \A error : GiveUp(error) =>
               SameKeyword /\ pc' = "task" /\ op'.todo = <<>> /\ op'.error = error
         /\ TaskDone \/ Renewed =>
               /\ SameKeyword /\ pc' = "task" /\ op'.todo = Tail(op.todo)
               /\ op'.error = op.error /\ op'.read = 0 /\ ~sent'
  <1>1. \A error : /\ [op EXCEPT !.error = error].error = error
                   /\ [op EXCEPT !.error = error].todo = op.todo
                   /\ [op EXCEPT !.todo = <<>>, !.error = error].error = error
                   /\ [op EXCEPT !.todo = <<>>, !.error = error].todo = <<>>
    BY DEF Ops
  <1>2. \A next : GoOn(next) => op' = op /\ pc' = next /\ ~sent'
    BY DEF GoOn, Step
  <1>3. ASSUME NEW next, NEW error, GoOnWith(next, error)
        PROVE  SameKeyword /\ pc' = next /\ op'.todo = op.todo /\ op'.error = error
    BY <1>1, <1>3 DEF GoOnWith, Step, SameKeyword
  <1>4. ASSUME NEW error, GiveUp(error)
        PROVE  SameKeyword /\ pc' = "task" /\ op'.todo = <<>> /\ op'.error = error
    BY <1>1, <1>4 DEF GiveUp, Step, SameKeyword
  <1>5. ASSUME TaskDone \/ Renewed
        PROVE  /\ SameKeyword /\ pc' = "task" /\ op'.todo = Tail(op.todo)
               /\ op'.error = op.error /\ op'.read = 0 /\ ~sent'
    <2> DEFINE ended == [op EXCEPT !.todo = Tail(@), !.read = 0]
               renewed == [op EXCEPT !.todo = Tail(@), !.read = 0, !.stale = @ \cup Made]
    <2>1. op' \in {ended, renewed} /\ pc' = "task" /\ ~sent'
      BY <1>5 DEF TaskDone, Renewed, Step
    <2>2. \A o \in {ended, renewed} :
             /\ o.todo = Tail(op.todo) /\ o.read = 0 /\ o.error = op.error
             /\ o.name = op.name /\ o.n = op.n /\ o.from = op.from /\ o.to = op.to
             /\ o.size = op.size
      BY DEF Ops
    <2> HIDE DEF ended, renewed
    <2>3. QED
      BY <2>1, <2>2 DEF SameKeyword
  <1>6. QED
    BY <1>2, <1>3, <1>4, <1>5

LEMMA ReadFields ==
  ASSUME op \in Ops, NEW block \in Blocks, Read(block)
  PROVE  /\ SameKeyword /\ op'.todo = op.todo /\ op'.error = op.error /\ ~sent'
         /\ op'.block = block
         /\ op'.read = IF block = EndOfFile THEN op.read ELSE op.read + 1
         /\ pc' = IF block = EndOfFile THEN "promptto"
                  ELSE IF op.read = 0 /\ op.to # "local" THEN "handleto" ELSE "write"
  <1> DEFINE read == IF block = EndOfFile THEN op.read ELSE op.read + 1
             o == [op EXCEPT !.block = block, !.read = read]
  <1>1. op' = o /\ ~sent'
        /\ pc' = IF block = EndOfFile THEN "promptto"
                 ELSE IF op.read = 0 /\ op.to # "local" THEN "handleto" ELSE "write"
    BY DEF Read, Step
  <1>2. o.block = block /\ o.read = read /\ o.todo = op.todo /\ o.error = op.error
        /\ o.name = op.name /\ o.n = op.n /\ o.from = op.from /\ o.to = op.to /\ o.size = op.size
    BY DEF Ops
  <1> HIDE DEF o
  <1>3. QED
    BY <1>1, <1>2 DEF SameKeyword

\* A keyword that has failed only closes its files.
Failed == op.error # "none" /\ (pc \in Closing \/ (pc = "task" /\ op.todo = <<>>))
LEMMA FailsFields ==
  ASSUME op \in Ops, pc \in FailSteps, NEW error, error # "none", Fails(error)
  PROVE  Failed'
  <1>1. CASE pc \in {"mkdir", "chmod", "openfrom"}
    <2>1. GiveUp(error)
      BY <1>1 DEF Fails
    <2>2. QED
      BY <2>1, StepFields DEF Failed
  <1>2. CASE pc = "opento"
    <2>1. GoOnWith("promptfrom", error)
      BY <1>2 DEF Fails
    <2>2. QED
      BY <2>1, StepFields DEF Failed, Closing
  <1>3. CASE pc \in {"handlefrom", "handleto", "read", "write", "data", "start", "stop"}
    <2>1. GoOnWith("promptto", error)
      BY <1>3 DEF Fails
    <2>2. QED
      BY <2>1, StepFields DEF Failed, Closing
  <1>4. CASE pc \in {"promptto", "closeto"}
    <2> DEFINE o == [op EXCEPT !.unclean = @ \cup {At}, !.error = error]
    <2>1. pc' = "promptfrom" /\ op' = o
      BY <1>4 DEF Fails, Step
    <2>2. o.error = error
      BY DEF Ops
    <2> HIDE DEF o
    <2>3. QED
      BY <2>1, <2>2 DEF Failed, Closing
  <1>5. CASE pc \in {"promptfrom", "closefrom"}
    <2> DEFINE o == [op EXCEPT !.unclean = @ \cup {At}, !.error = error]
               p == [o EXCEPT !.todo = <<>>]
    <2>1. pc' = "task" /\ op' = p
      BY <1>5 DEF Fails, Step
    <2>2. p.error = error /\ p.todo = <<>>
      BY DEF Ops
    <2> HIDE DEF p
    <2>3. QED
      BY <2>1, <2>2 DEF Failed
  <1>6. QED
    BY <1>1, <1>2, <1>3, <1>4, <1>5 DEF CallSteps, FailSteps

\* What a step of a keyword does when it does not fail.
Succeeded == CallLocal \/ (CallReturns /\ Succeeds /\ Answer(At, What).k = "reply")
Progress ==
    \/ StartTask \/ Succeeded \/ Initialize \/ ReadLocal \/ ReadRemote \/ DataRead
    \/ WriteLocal \/ WriteRemote \/ Started \/ Stopped

LEMMA ClosingSucceeds ==
  ASSUME op \in Ops, pc \in Closing, op.error # "none", Succeeds
  PROVE  Failed'
  <1>1. CASE pc \in {"promptto", "closeto", "promptfrom"}
    <2>1. \E next \in Closing : GoOn(next)
      BY <1>1 DEF Succeeds, Closing
    <2>2. QED
      BY <2>1, StepFields DEF Failed
  <1>2. CASE pc = "closefrom"
    <2>1. GiveUp(op.error)
      BY <1>2 DEF Succeeds
    <2>2. QED
      BY <2>1, StepFields DEF Failed
  <1>3. QED
    BY <1>1, <1>2 DEF Closing

LEMMA MovesFine ==
  ASSUME Inv, PlanInv, Moves
  PROVE  Failed' \/ (Fine /\ Progress)
  <1>1. TypeInv /\ KeywordInv /\ OpInv /\ op \in Ops
    BY TypeParts DEF Inv, KeywordInv
  <1>2. pc # "idle"
    BY <1>1, MovesOp
  <1>3. CASE CallBreaks \/ PromptFails \/ PromptWithout \/ InitializeFails \/ DataExpires
             \/ WriteExpires \/ LocalFails \/ ChmodRefused \/ DataRefused
    <2>1. \A t : Error(t) # "none"
      BY DEF Error
    <2>2. CASE InitializeFails
      BY <1>1, <2>2, StepFields DEF InitializeFails, Failed
    <2>3. CASE CallBreaks
      BY <1>1, <2>3, FailsFields DEF CallBreaks, FailSteps
    <2>4. CASE PromptFails
      BY <1>1, <2>1, <2>4, FailsFields DEF PromptFails, CallSteps, FailSteps
    <2>5. CASE PromptWithout
      BY <1>1, <2>5, FailsFields DEF PromptWithout, CallSteps, FailSteps
    <2>6. CASE DataExpires
      BY <1>1, <2>1, <2>6, FailsFields DEF DataExpires, ReadFails, FailSteps
    <2>7. CASE WriteExpires
      BY <1>1, <2>1, <2>7, FailsFields DEF WriteExpires, FailSteps
    <2>8. CASE LocalFails
      BY <1>1, <2>8, FailsFields DEF LocalFails, CallSteps, FailSteps
    <2>9. CASE ChmodRefused
      BY <1>1, <2>9, FailsFields DEF ChmodRefused, IsStale, CallSteps, FailSteps
    <2>10. CASE DataRefused
      BY <1>1, <2>10, FailsFields DEF DataRefused, FailSteps
    <2>11. QED
      BY <1>3, <2>2, <2>3, <2>4, <2>5, <2>6, <2>7, <2>8, <2>9, <2>10
  <1>4. CASE CallReturns /\ ~Succeeded
    <2>1. Answer(At, What).k # "reply" /\ Fails("OSError")
      BY <1>4 DEF CallReturns, Succeeded
    <2>2. pc \in FailSteps
      BY <1>1, <1>4, <2>1, AnswerOf DEF CallReturns, What, Raising, FailSteps
    <2>3. QED
      BY <1>1, <1>4, <2>1, <2>2, FailsFields DEF CallReturns
  <1>5. CASE Succeeded /\ op.error # "none"
    <2>1. pc \in Closing /\ Succeeds
      BY <1>5 DEF Succeeded, CallLocal, CallReturns, CallSteps, PlanInv
    <2>2. QED
      BY <1>1, <1>5, <2>1, ClosingSucceeds
  <1>6. CASE op.error # "none" /\ Progress /\ ~Succeeded
    <2>1. pc \in Closing \/ (pc = "task" /\ op.todo = <<>>)
      BY <1>6 DEF PlanInv
    <2>2. QED
      BY <1>6, <2>1 DEF Progress, StartTask, Initialize, ReadLocal, ReadRemote, DataRead,
         WriteLocal, WriteRemote, Started, Stopped, Closing
  <1>7. QED
    BY <1>2, <1>3, <1>4, <1>5, <1>6 DEF Moves, Progress, Fine, Succeeded

\* A task begins, or ends, or its file is copied.
Begins == pc = "task" /\ op' = op /\ pc' = (CASE This.do = "init" -> "verify"
                                              [] This.do = "file" -> "openfrom"
                                              [] OTHER -> This.do)
Ends == /\ TaskDone \/ Renewed
        /\ pc \in {"verify", "mkdir", "chmod", "closefrom"}
        /\ pc = "closefrom" => op.to = "local"
GoesOn == /\ op'.todo = op.todo /\ pc \in FileSteps /\ pc' \in FileSteps \cup {"chmod"}
          /\ pc' = "chmod" => pc = "closefrom" /\ op.to # "local"
          /\ pc' \in Early => pc \in Early /\ op'.read = op.read

LEMMA SucceedsGoesOn ==
  ASSUME op \in Ops, Fine, Succeeds, pc \in CallSteps
  PROVE  Ends \/ (GoesOn /\ op' = op /\ ~sent')
  <1>1. CASE pc \in {"verify", "mkdir", "chmod"}
    BY <1>1 DEF Succeeds, Ends
  <1>2. CASE pc = "closefrom"
    <2>1. IF op.to = "local" THEN TaskDone ELSE GoOn("chmod")
      BY <1>2 DEF Succeeds, Fine
    <2>2. QED
      BY <1>2, <2>1, StepFields DEF Ends, GoesOn, FileSteps, Early
  <1>3. CASE pc = "opento"
    <2>1. PICK next \in {"read", "handlefrom"} : GoOn(next)
      BY <1>3 DEF Succeeds
    <2>2. QED
      BY <1>3, <2>1, StepFields DEF GoesOn, FileSteps, Early
  <1>4. CASE pc \in {"openfrom", "handlefrom", "handleto", "promptto", "closeto", "promptfrom"}
    <2>1. PICK next \in {"opento", "read", "write", "closeto", "promptfrom", "closefrom"} :
              GoOn(next) /\ (next = "opento" => pc = "openfrom")
      BY <1>4 DEF Succeeds
    <2>2. QED
      BY <1>4, <2>1, StepFields DEF GoesOn, FileSteps, Early
  <1>5. QED
    BY <1>1, <1>2, <1>3, <1>4 DEF CallSteps

LEMMA FineSteps ==
  ASSUME Inv, PlanInv, Fine, Progress
  PROVE  /\ op'.error = "none" /\ SameKeyword /\ ~sent' /\ op.todo # <<>>
         /\ Begins \/ Ends \/ GoesOn
  <1>1. TypeInv /\ KeywordInv /\ OpInv /\ op \in Ops
    BY TypeParts DEF Inv, KeywordInv
  <1>2. op.todo # <<>>
    <2>1. pc \notin {"idle", "task"} \/ StartTask
      BY DEF Progress, Succeeded, CallLocal, CallReturns, CallSteps, Initialize, ReadLocal,
             ReadRemote, DataRead, WriteLocal, WriteRemote, Started, Stopped
    <2>2. QED
      BY <1>1, <2>1 DEF OpInv, StartTask
  <1>3. CASE StartTask
    BY <1>1, <1>2, <1>3, StepFields DEF StartTask, Begins, SameKeyword, Fine
  <1>4. CASE Succeeded
    <2>1. Ends \/ (GoesOn /\ op' = op /\ ~sent')
      BY <1>1, <1>4, SucceedsGoesOn DEF Succeeded, CallLocal, CallReturns
    <2>2. QED
      BY <1>1, <1>2, <2>1, StepFields DEF Ends, SameKeyword, Fine
  <1>5. CASE Initialize
    BY <1>1, <1>2, <1>5, StepFields DEF Initialize, Ends, Fine
  <1>6. CASE ReadRemote \/ WriteLocal \/ WriteRemote \/ Started \/ Stopped
    <2>1. PICK next \in {"data", "read", "start", "stop"} : GoOn(next)
      BY <1>6 DEF ReadRemote, WriteLocal, WriteRemote, Started, Stopped
    <2>2. pc \in {"read", "write", "start", "stop"}
      BY <1>6 DEF ReadRemote, WriteLocal, WriteRemote, Started, Stopped
    <2>3. QED
      BY <1>1, <1>2, <2>1, <2>2, StepFields DEF GoesOn, SameKeyword, Fine, FileSteps, Early
  <1>7. CASE ReadLocal \/ DataRead
    <2>1. PICK block \in Blocks : Read(block)
      <3>1. CASE DataRead
        BY <1>1, <3>1, DataType DEF DataRead
      <3>2. CASE ReadLocal
        <4>1. This \in Tasks
          BY <1>1, <1>2, TailOf DEF This, Ops
        <4>2. op.n \in Nat /\ op.read + 1 \in Nat /\ This.path \in Paths
          BY <1>1, <4>1 DEF Ops, Tasks
        <4>3. Block(op.n, This.path, op.read + 1) \in Blocks /\ EndOfFile \in Blocks
          BY <4>2 DEF Block, EndOfFile, Blocks, Paths
        <4>4. QED
          BY <3>2, <4>3 DEF ReadLocal
      <3>3. QED
        BY <1>7, <3>1, <3>2
    <2>2. pc \in {"read", "data"}
      BY <1>7 DEF ReadLocal, DataRead
    <2>3. /\ SameKeyword /\ op'.todo = op.todo /\ op'.error = op.error /\ ~sent'
          /\ pc' \in {"promptto", "handleto", "write"}
      BY <1>1, <2>1, ReadFields
    <2>4. QED
      BY <1>2, <2>2, <2>3 DEF GoesOn, Fine, FileSteps, Early
  <1>8. QED
    BY <1>3, <1>4, <1>5, <1>6, <1>7 DEF Progress

LEMMA ProgressPlan ==
  ASSUME Inv, PlanInv, Fine, Progress
  PROVE  PlanInv'
  <1>1. TypeInv /\ op \in Ops /\ pc \in Steps
    BY DEF Inv, TypeInv
  <1>2. /\ op'.error = "none" /\ SameKeyword /\ ~sent' /\ op.todo # <<>>
        /\ Begins \/ Ends \/ GoesOn
    BY FineSteps
  <1>3. <<op'.name, op'.from, op'.to>> \in Keywords
    BY <1>2 DEF SameKeyword, PlanInv
  <1>4. CASE Ends
    <2>1. pc' = "task" /\ op'.todo = Tail(op.todo) /\ op'.read = 0
      BY <1>1, <1>4, StepFields DEF Ends
    <2>2. /\ TasksOf(op)' = TasksOf(op) /\ Len(op'.todo) <= Len(TasksOf(op))
          /\ \A i \in 1 .. Len(op'.todo) : op'.todo[i] = TasksOf(op)[Position' + i]
      BY <1>1, <1>2, <2>1, TasksGoOn
    <2>3. QED
      BY <1>2, <1>3, <2>1, <2>2 DEF PlanInv, FileSteps
  <1>5. CASE Begins \/ GoesOn
    <2>1. op'.todo = op.todo /\ This' = This
      BY <1>5 DEF Begins, GoesOn, This
    <2>2. TasksOf(op)' = TasksOf(op) /\ Position' = Position
      BY <1>2, <2>1, TasksStay
    <2>3. /\ Len(op.todo) <= Len(TasksOf(op))
          /\ \A i \in 1 .. Len(op.todo) : op.todo[i] = TasksOf(op)[Position + i]
      BY DEF PlanInv
    <2>4. /\ pc' = "verify" => This.do = "init"
          /\ pc' = "mkdir" => This.do = "mkdir"
          /\ pc' = "chmod" => This.do \in {"chmod", "file"}
          /\ pc' \in FileSteps => This.do = "file"
          /\ pc' \in Early => op'.read = 0
      <3>1. CASE Begins
        <4>1. TaskFacts
          BY <1>1, <1>2, ThisTask
        <4>2. This.do \in {"init", "mkdir", "file", "chmod"}
          BY <4>1 DEF TaskFacts, Tasks
        <4>3. QED
          BY <3>1, <4>2 DEF Begins, PlanInv, Fine, FileSteps, Early
      <3>2. CASE GoesOn
        BY <3>2 DEF GoesOn, PlanInv, Fine, FileSteps, Early
      <3>3. QED
        BY <1>5, <3>1, <3>2
    <2>5. QED
      BY <1>2, <1>3, <2>1, <2>2, <2>3, <2>4 DEF PlanInv
  <1>6. QED
    BY <1>2, <1>4, <1>5

-----------------------------------------------------------------------------
(* Queues of one message.                                                   *)

LEMMA Singles ==
  ASSUME NEW x
  PROVE  /\ Head(<<x>>) = x /\ Tail(<<x>>) = <<>> /\ <<x>> # <<>> /\ Len(<<x>>) = 1
         /\ <<>> \o <<x>> = <<x>> /\ Append(<<>>, x) = <<x>>
  <1>1. <<x>> \in Seq({x}) /\ <<>> \in Seq({x}) /\ Len(<<x>>) = 1 /\ <<x>> # <<>>
        /\ Head(<<x>>) = x
    OBVIOUS
  <1>2. Tail(<<x>>) = <<>>
    <2>1. Tail(<<x>>) \in Seq({x}) /\ Len(Tail(<<x>>)) = 0
      BY <1>1, TailOf
    <2>2. QED
      BY <2>1, EmptySeq
  <1>3. <<>> \o <<x>> = <<x>>
    BY <1>1, ConcatEmptySeq
  <1>4. Append(<<>>, x) = <<x>>
    OBVIOUS
  <1>5. QED
    BY <1>1, <1>2, <1>3, <1>4

LEMMA OnlyTaken ==
  ASSUME TypeInv, NEW t \in Terminals, NEW m, out[t] = <<m>>, NEW awaited, Take(t, awaited)
  PROVE  /\ m \in awaited /\ out'[t] = <<>> /\ out[t][FirstOf(t, awaited)] = m
         /\ \A r \in Terminals : r # t => out'[r] = out[r]
  <1>1. /\ out \in [Terminals -> Seq(Outputs)] /\ out[t] \in Seq(Outputs)
        /\ Len(out[t]) = 1 /\ out[t][1] = m
    <2>1. <<m>>[1] = m
      OBVIOUS
    <2>2. QED
      BY <2>1, Singles DEF TypeInv
  <1>2. FirstOf(t, awaited) \in 1 .. Len(out[t]) /\ out[t][FirstOf(t, awaited)] \in awaited
    BY <1>1, FirstIsAwaited DEF Take
  <1>3. FirstOf(t, awaited) = 1
    BY <1>1, <1>2
  <1>4. out'[t] = SubSeq(out[t], 2, 1) /\ \A r \in Terminals : r # t => out'[r] = out[r]
    BY <1>1, <1>3 DEF Take, Skipped
  <1>5. SubSeq(out[t], 2, 1) = <<>>
    <2>1. SubSeq(out[t], 2, 1) \in Seq(Outputs) /\ Len(SubSeq(out[t], 2, 1)) = 0
      BY <1>1, SubSeqProperties
    <2>2. QED
      BY <2>1, EmptySeq
  <1>6. QED
    BY <1>1, <1>2, <1>3, <1>4, <1>5

\* What is sent to and printed by one terminal.
LEMMA OneTerminal ==
  ASSUME TypeInv, NEW t \in Terminals
  PROVE  /\ \A m : Send(t, m) => /\ in'[t] = Append(in[t], m)
                                 /\ \A r \in Terminals : r # t => in'[r] = in[r]
         /\ in' = [in EXCEPT ![t] = Tail(@)] =>
               in'[t] = Tail(in[t]) /\ \A r \in Terminals : r # t => in'[r] = in[r]
         /\ \A m : Write(t, <<m>>) => /\ out'[t] = out[t] \o <<m>>
                                      /\ \A r \in Terminals : r # t => out'[r] = out[r]
         /\ \A awaited : Take(t, awaited) => /\ Received(t, awaited) # {}
                                             /\ \A r \in Terminals : r # t => out'[r] = out[r]
         /\ \A how : SessionEnds(t, how) =>
               /\ in'[t] = <<>> /\ out'[t] = <<>> /\ ~blocked'[t] /\ handle'[t] = NoFile
               /\ \A r \in Terminals : r # t =>
                     /\ in'[r] = in[r] /\ out'[r] = out[r] /\ blocked'[r] = blocked[r]
                     /\ handle'[r] = handle[r]
  BY DEF TypeInv, Send, Write, Take, SessionEnds

-----------------------------------------------------------------------------
(* The answer of such a call is the last that is printed.                   *)

LEMMA LastAdded ==
  ASSUME TypeInv, LastInv, NEW t \in Terminals, in[t] # <<>>,
         \A r \in Terminals : r # t => UNCHANGED <<in[r], out[r], blocked[r]>>,
         \/ out'[t] = out[t]
         \/ \E m \in Outputs : /\ out'[t] = out[t] \o <<m>>
                               /\ SessionCall(m) => in'[t] = <<>> /\ ~blocked'[t]
  PROVE  LastInv'
  <1>1. SessionCalls(out[t]) = {}
    BY DEF LastInv
  <1>2. ASSUME NEW m \in Outputs, out'[t] = out[t] \o <<m>>,
               SessionCall(m) => in'[t] = <<>> /\ ~blocked'[t], NEW i \in SessionCalls(out'[t])
        PROVE  in'[t] = <<>> /\ ~blocked'[t] /\ i = Len(out'[t])
    <2>1. out[t] \in Seq(Outputs)
      BY DEF TypeInv
    <2>2. out'[t] = Append(out[t], m) /\ Len(out'[t]) = Len(out[t]) + 1
      BY <1>2, <2>1, AppendOf
    <2>3. SessionCalls(out'[t]) = SessionCalls(out[t])
                \cup (IF SessionCall(m) THEN {Len(out[t]) + 1} ELSE {})
      BY <2>1, <2>2, AddedCalls
    <2>4. SessionCall(m) /\ i = Len(out[t]) + 1
      BY <1>1, <1>2, <2>3
    <2>5. QED
      BY <1>2, <2>2, <2>4
  <1>3. \A i \in SessionCalls(out'[t]) : in'[t] = <<>> /\ ~blocked'[t] /\ i = Len(out'[t])
    BY <1>1, <1>2
  <1>4. \A r \in Terminals : r # t => \A i \in SessionCalls(out'[r]) :
            in'[r] = <<>> /\ ~blocked'[r] /\ i = Len(out'[r])
    BY DEF LastInv
  <1>5. QED
    BY <1>3, <1>4 DEF LastInv

LEMMA ReplyLast ==
  ASSUME TypeInv, CallInv, LastInv, NEW t \in Terminals, NEW k \in {"reply", "raised"},
         Reads(t, "call"), k = "raised" => NextCall(t).what \in Raising, Reply(t, k)
  PROVE  LastInv'
  <1> DEFINE m == [NextCall(t) EXCEPT !.k = k]
  <1>1. in[t] # <<>> /\ ~blocked[t] /\ NextCall(t) \in Requests /\ NextCall(t).k = "call"
    BY ReplyType DEF Reads, NextCall
  <1>2. m \in Outputs /\ m.what = NextCall(t).what
    BY <1>1, MessageTypes DEF Outputs, Requests
  <1> HIDE DEF m
  <1>3. /\ out'[t] = out[t] \o <<m>> /\ in'[t] = Tail(in[t]) /\ blocked' = blocked
        /\ \A r \in Terminals : r # t => in'[r] = in[r] /\ out'[r] = out[r]
    BY OneTerminal DEF Reply, m
  <1>4. SessionCall(m) => in'[t] = <<>>
    <2>1. SessionCall(m) => SessionCall(NextCall(t))
      BY <1>1, <1>2 DEF SessionCall
    <2>2. QED
      BY <1>1, <1>3, <2>1, TakesHead DEF NextCall
  <1>5. QED
    BY <1>1, <1>2, <1>3, <1>4, LastAdded

LEMMA PrintLast ==
  ASSUME TypeInv, LastInv, NEW t \in Terminals,
         RunRead(t) \/ RunWrite(t) \/ WriteBlock(t) \/ TakeMessage(t), HandleInv
  PROVE  LastInv'
  <1>1. /\ in[t] # <<>> /\ \A r \in Terminals : r # t => in'[r] = in[r]
        /\ \A r \in Terminals : r # t => blocked'[r] = blocked[r]
    BY OneTerminal DEF RunRead, RunWrite, WriteBlock, TakeMessage, Reads, TypeInv
  <1>2. out' = out \/ \E m \in Outputs : Write(t, <<m>>) /\ ~SessionCall(m)
    <2>1. CASE RunRead(t)
      <3>1. handle[t] # NoFile
        BY <2>1, AccessHead DEF RunRead
      <3>2. RunRead(t) => \E b : Write(t, <<[k |-> "data", block |-> b]>>)
        BY DEF RunRead
      <3>3. Takes(t)
        BY <2>1, <3>1, RunReadType
      <3>4. QED
        BY <2>1, <3>2, <3>3 DEF Takes, Answering, Reads, RunRead
    <2>2. CASE RunWrite(t) \/ WriteBlock(t) \/ TakeMessage(t)
      <3>1. /\ [k |-> "start"] \in Outputs /\ [k |-> "stop"] \in Outputs
            /\ ~SessionCall([k |-> "start"]) /\ ~SessionCall([k |-> "stop"])
        BY DEF Outputs, SessionCall
      <3>2. QED
        BY <2>2, <3>1 DEF RunWrite, WriteBlock, TakeMessage
    <2>3. QED
      BY <2>1, <2>2
  <1>3. CASE out' = out
    BY <1>1, <1>3, LastAdded
  <1>4. ASSUME NEW m \in Outputs, Write(t, <<m>>), ~SessionCall(m)
        PROVE  LastInv'
    <2>1. out'[t] = out[t] \o <<m>> /\ \A r \in Terminals : r # t => out'[r] = out[r]
      BY <1>4, OneTerminal
    <2>2. QED
      BY <1>1, <1>4, <2>1, LastAdded
  <1>5. QED
    BY <1>2, <1>3, <1>4

LEMMA LastNext ==
  ASSUME Inv, Inv', LastInv, Next
  PROVE  LastInv'
  <1>1. TypeInv /\ KeywordInv /\ OpInv /\ CallInv /\ HandleInv
    BY TypeParts DEF Inv
  <1>2. CASE Moves
    <2>1. Quiet'
      BY <1>1, <1>2, MovesQuiet
    <2>2. QED
      BY <2>1 DEF Quiet, LastInv
  <1>3. CASE User \/ Return \/ CallRemote
    <2>1. out' = out /\ ~sent
      <3>1. User => remote' = remote /\ pc = "idle"
        BY DEF User, Begin, CopyFileToTarget, CopyFileFromTarget, CopyFileBetweenTargets,
           CopyDirectoryToTarget, CopyDirectoryPartly, CopyDirectoryMissing,
           CreateDirectoryInTarget
      <3>2. QED
        BY <1>1, <1>3, <3>1 DEF Return, CallRemote, Ask, remote, OpInv, CallSteps
    <2>2. Quiet
      BY <1>1, <2>1, NotAwaited
    <2>3. QED
      BY <2>1, <2>2 DEF Quiet, LastInv
  <1>4. CASE \E t \in Terminals : Remote(t) \/ Raises(t)
    <2>1. PICK t \in Terminals : Remote(t) \/ Raises(t)
      BY <1>4
    <2>2. CASE RunRead(t) \/ RunWrite(t) \/ WriteBlock(t) \/ TakeMessage(t)
      BY <1>1, <2>2, PrintLast
    <2>3. CASE OpenFails(t) \/ CloseFails(t)
      <3>1. Reads(t, "call") /\ Reply(t, "raised") /\ NextCall(t).what \in Raising
        BY <2>3 DEF OpenFails, CloseFails, Raising
      <3>2. QED
        BY <1>1, <3>1, ReplyLast
    <2>4. CASE RunOpen(t) \/ RunClose(t) \/ RunChmod(t) \/ RunOther(t)
      <3>1. Reads(t, "call") /\ Reply(t, "reply")
        BY <2>4 DEF RunOpen, RunClose, RunChmod, RunOther
      <3>2. QED
        BY <1>1, <3>1, ReplyLast
    <2>5. CASE FileFails(t)
      <3>1. /\ in[t] # <<>> /\ out' = out
            /\ \A r \in Terminals : r # t => in'[r] = in[r] /\ blocked'[r] = blocked[r]
        BY <1>1, <2>5, OneTerminal DEF FileFails, TypeInv
      <3>2. QED
        BY <1>1, <3>1, LastAdded
    <2>6. QED
      BY <2>1, <2>2, <2>3, <2>4, <2>5 DEF Remote, Raises
  <1>5. CASE \/ Collect
             \/ \E t \in Terminals : Flush(t) \/ Hang(t) \/ Revive(t) \/ Die(t)
    <2>1. UNCHANGED <<in, out, blocked>>
      BY <1>5 DEF Collect, Flush, Hang, Revive, Die, Breaks
    <2>2. QED
      BY <2>1 DEF LastInv
  <1>6. QED
    BY <1>2, <1>3, <1>4, <1>5 DEF Next, Client, Environment, Moves

-----------------------------------------------------------------------------
(* A terminal that the keyword has verified has nothing on its way but what *)
(* the step waits for.                                                      *)

\* The terminals of the file that is copied, and of a directory, have been verified.
LEMMA StepTerminals ==
  ASSUME Inv, PlanInv, Fine
  PROVE  /\ pc \in FileSteps \cup {"mkdir", "chmod"} =>
               /\ TaskFacts /\ This.at = op.to
               /\ \A t \in Terminals : t \in {op.from, op.to} => Verified(t)
         /\ pc \in FileSteps => This = Task("file", op.to, This.path)
         /\ pc = "verify" => TaskFacts /\ At = This.at /\ At \in Terminals
         /\ pc # "verify" => At \in {op.from, op.to}
         /\ sent /\ pc # "verify" => Verified(At)
         /\ op.from # op.to /\ op.from \in Sites /\ op.to \in Sites
  <1>1. TypeInv /\ OpInv /\ op \in Ops
    BY DEF Inv, TypeInv
  <1>2. pc # "task" => op.todo # <<>>
    BY <1>1 DEF OpInv, Fine
  <1>3. pc # "task" => TaskFacts
    BY <1>1, <1>2, ThisTask
  <1>4. /\ pc = "verify" => This.do = "init"
        /\ pc \in FileSteps \cup {"mkdir", "chmod"} => This.do # "init"
        /\ pc \in FileSteps => This.do = "file"
    BY DEF PlanInv, FileSteps
  <1>5. /\ pc \in FileSteps \cup {"mkdir", "chmod"} =>
              /\ TaskFacts /\ This.at = op.to
              /\ \A t \in Terminals : t \in {op.from, op.to} => Verified(t)
        /\ pc \in FileSteps => This = Task("file", op.to, This.path)
    BY <1>3, <1>4 DEF TaskFacts, FileSteps
  <1>6. pc = "verify" => TaskFacts /\ At = This.at /\ At \in Terminals
    BY <1>3, <1>4 DEF TaskFacts, At
  <1>7. pc # "verify" => At \in {op.from, op.to}
    BY DEF At
  <1>8. sent /\ pc # "verify" => Verified(At)
    BY <1>1, <1>5, <1>7 DEF OpInv, CallSteps, FileSteps
  <1>9. QED
    BY <1>1, <1>5, <1>6, <1>7, <1>8 DEF OpInv, Fine, Ops

\* It runs the call, the read or the write that is awaited.
LEMMA RunsAwaited ==
  ASSUME Inv, NEW t \in Terminals, Exchange(t), in[t] # <<>>
  PROVE  /\ Waiting(t)
         /\ out[t] = <<>> /\ Tail(in[t]) = <<>>
         /\ ~blocked[t] /\ Head(in[t]).k = "call" =>
               sent /\ At = t /\ Head(in[t]) = Call(t, What)
         /\ ~blocked[t] /\ Head(in[t]).k = "read" => pc = "data" /\ t = op.from
         /\ ~blocked[t] /\ Head(in[t]).k = "write" => pc = "start" /\ t = op.to
         /\ blocked[t] => /\ pc = "stop" /\ t = op.to
                          /\ Head(in[t]) = [k |-> "data", block |-> op.block]
  <1>1. OpInv
    BY DEF Inv
  <1>2. Waiting(t)
    BY DEF Exchange, Silence
  <1>3. CASE sent /\ At = t
    <2>1. in[t] = <<Call(t, What)>> /\ out[t] = <<>> /\ ~blocked[t]
      BY <1>3 DEF Exchange, Asking
    <2>2. Call(t, What).k = "call"
      BY DEF Call
    <2>3. QED
      BY <1>2, <1>3, <2>1, <2>2, Singles
  <1>4. CASE pc = "data" /\ t = op.from
    <2>1. in[t] = <<[k |-> "read"]>> /\ out[t] = <<>> /\ ~blocked[t]
      BY <1>4 DEF Exchange, Reading
    <2>2. QED
      BY <1>2, <1>4, <2>1, Singles
  <1>5. CASE pc = "start" /\ t = op.to
    <2>1. in[t] = <<[k |-> "write"]>> /\ out[t] = <<>> /\ ~blocked[t]
      BY <1>5 DEF Exchange, Starting
    <2>2. QED
      BY <1>2, <1>5, <2>1, Singles
  <1>6. CASE pc = "stop" /\ t = op.to
    <2>1. in[t] = <<[k |-> "data", block |-> op.block]>> /\ out[t] = <<>> /\ blocked[t]
      BY <1>6 DEF Exchange, Writing
    <2>2. QED
      BY <1>2, <1>6, <2>1, Singles
  <1>7. QED
    BY <1>2, <1>3, <1>4, <1>5, <1>6 DEF Waiting

\* What is awaited of it is all that it has printed.
LEMMA HasAwaited ==
  ASSUME Inv, NEW t \in Terminals, Exchange(t), out[t] # <<>>
  PROVE  /\ in[t] = <<>>
         /\ ~blocked[t] \/ (pc = "start" /\ t = op.to)
         /\ \E m : out[t] = <<m>>
         /\ Waiting(t)
  BY DEF Exchange, Silence, Asking, Reading, Starting, Writing, Waiting

LEMMA TakesAwaited ==
  ASSUME Inv, NEW t \in Terminals, Exchange(t), NEW awaited, Take(t, awaited)
  PROVE  /\ in[t] = <<>> /\ (~blocked[t] \/ (pc = "start" /\ t = op.to))
         /\ out'[t] = <<>> /\ \A r \in Terminals : r # t => out'[r] = out[r]
         /\ \E m \in awaited : out[t] = <<m>> /\ out[t][FirstOf(t, awaited)] = m
  <1>1. TypeInv
    BY DEF Inv
  <1>2. out[t] # <<>>
    <2>1. Range(<<>>) = {}
      BY DEF Range
    <2>2. QED
      BY <1>1, <2>1, OneTerminal DEF Received
  <1>3. /\ in[t] = <<>> /\ (~blocked[t] \/ (pc = "start" /\ t = op.to))
        /\ \E m : out[t] = <<m>>
    BY <1>2, HasAwaited
  <1>4. PICK m : out[t] = <<m>>
    BY <1>3
  <1>5. QED
    BY <1>1, <1>3, <1>4, OnlyTaken

\* A remote Python that does something leaves such a terminal as the step expects it.
LEMMA SameStep ==
  ASSUME UNCHANGED <<op, pc, sent>>
  PROVE  /\ At' = At /\ What' = What /\ This' = This /\ Fine' = Fine
         /\ \A t : /\ Verified(t)' <=> Verified(t)
                   /\ Waiting(t)' <=> Waiting(t)
                   /\ Call(t, What)' = Call(t, What)
  BY DEF At, What, This, Fine, Verified, Past, Position, TasksOf, Waiting, Call

LEMMA ExchangeSame ==
  ASSUME UNCHANGED <<op, pc, sent>>, NEW t, UNCHANGED <<in[t], out[t], blocked[t]>>, Exchange(t)
  PROVE  Exchange(t)'
  <1>1. /\ At' = At /\ What' = What /\ (Waiting(t)' <=> Waiting(t))
        /\ Call(t, What)' = Call(t, What)
    BY SameStep
  <1>2. Asking(t)' <=> Asking(t)
    BY <1>1 DEF Asking
  <1>3. /\ Reading(t)' <=> Reading(t)
        /\ Starting(t)' <=> Starting(t)
        /\ Writing(t)' <=> Writing(t)
        /\ Silence(t)' <=> Silence(t)
    BY DEF Reading, Starting, Writing, Silence
  <1>4. QED
    BY <1>1, <1>2, <1>3 DEF Exchange

LEMMA ReplyExchange ==
  ASSUME Inv, NEW t \in Terminals, Exchange(t), NEW k \in {"reply", "raised"},
         Reads(t, "call"), Reply(t, k), UNCHANGED <<op, pc, sent>>
  PROVE  Exchange(t)' /\ sent /\ At = t /\ NextCall(t) = Call(t, What)
  <1>1. TypeInv /\ OpInv
    BY DEF Inv
  <1>2. in[t] # <<>> /\ ~blocked[t] /\ Head(in[t]).k = "call"
    BY DEF Reads
  <1>3. /\ out[t] = <<>> /\ Tail(in[t]) = <<>> /\ sent /\ At = t
        /\ Head(in[t]) = Call(t, What)
    BY <1>2, RunsAwaited
  <1>4. in'[t] = <<>> /\ blocked' = blocked
    BY <1>1, <1>3, OneTerminal DEF Reply
  <1>5. out'[t] = <<[Call(t, What) EXCEPT !.k = k]>>
    <2> DEFINE m == [NextCall(t) EXCEPT !.k = k]
    <2>1. Write(t, <<m>>)
      BY DEF Reply
    <2>2. m = [Call(t, What) EXCEPT !.k = k]
      BY <1>3 DEF NextCall
    <2> HIDE DEF m
    <2>3. out'[t] = <<m>>
      BY <1>1, <1>3, <2>1, OneTerminal, Singles
    <2>4. QED
      BY <2>2, <2>3
  <1>6. Asking(t)'
    <2>1. Call(t, What)' = Call(t, What)
      BY SameStep
    <2>2. [Call(t, What) EXCEPT !.k = k] \in Answers(Call(t, What))
      BY DEF Answers
    <2>3. \E a \in Answers(Call(t, What)') : out'[t] = <<a>>
      BY <1>5, <2>1, <2>2, Zenon
    <2>4. QED
      BY <1>2, <1>4, <2>3 DEF Asking
  <1>7. At' = At /\ Waiting(t)' /\ sent' /\ pc' = pc /\ pc \in CallSteps
    BY <1>1, <1>3, SameStep DEF OpInv, Waiting
  <1>8. QED
    BY <1>3, <1>6, <1>7 DEF Exchange, NextCall, CallSteps

LEMMA RunExchange ==
  ASSUME Inv, Inv', NEW t \in Terminals, Exchange(t), Remote(t) \/ Raises(t)
  PROVE  Exchange(t)'
  <1>1. TypeInv /\ OpInv /\ UNCHANGED <<op, pc, sent>>
    BY DEF Inv, Remote, RunOpen, RunClose, RunChmod, RunOther, OpenFails, Raises, CloseFails,
       FileFails, RunRead, RunWrite, WriteBlock, TakeMessage, control
  <1>2. CASE \/ RunOpen(t) \/ RunClose(t) \/ RunChmod(t) \/ RunOther(t)
             \/ OpenFails(t) \/ CloseFails(t)
    <2>1. PICK k \in {"reply", "raised"} : Reads(t, "call") /\ Reply(t, k)
      BY <1>2 DEF RunOpen, RunClose, RunChmod, RunOther, OpenFails, CloseFails
    <2>2. QED
      BY <1>1, <2>1, ReplyExchange
  <1>3. CASE RunRead(t)
    <2>1. in[t] # <<>> /\ ~blocked[t] /\ Head(in[t]).k = "read"
      BY <1>3 DEF RunRead, Reads
    <2>2. /\ out[t] = <<>> /\ Tail(in[t]) = <<>>
          /\ pc = "data" /\ t = op.from /\ Waiting(t)
      BY <2>1, RunsAwaited
    <2>3. blocked' = blocked /\ in'[t] = <<>>
      BY <1>1, <1>3, <2>2, OneTerminal DEF RunRead
    <2>4. PICK b \in Blocks : out'[t] = <<[k |-> "data", block |-> b]>>
      <3>1. PICK b : Write(t, <<[k |-> "data", block |-> b]>>)
        BY <1>3 DEF RunRead
      <3>2. out'[t] = <<[k |-> "data", block |-> b]>>
        BY <1>1, <2>2, <3>1, OneTerminal, Singles
      <3>3. out'[t] \in Seq(Outputs)
        BY DEF Inv, TypeInv
      <3>4. QED
        BY <3>2, <3>3 DEF Outputs, Replies, Data
    <2>5. Reading(t)'
      BY <2>1, <2>3, <2>4 DEF Reading
    <2>6. At' = At /\ Waiting(t)' /\ ~sent'
      BY <1>1, <2>2, SameStep DEF OpInv, CallSteps
    <2>7. QED
      BY <1>1, <2>2, <2>5, <2>6 DEF Exchange
  <1>4. CASE RunWrite(t)
    <2>1. in[t] # <<>> /\ ~blocked[t] /\ Head(in[t]).k = "write"
      BY <1>4 DEF RunWrite, Reads
    <2>2. /\ out[t] = <<>> /\ Tail(in[t]) = <<>>
          /\ pc = "start" /\ t = op.to /\ Waiting(t)
      BY <2>1, RunsAwaited
    <2>3. blocked'[t] /\ in'[t] = <<>> /\ out'[t] = <<[k |-> "start"]>>
      <3> DEFINE m == [k |-> "start"]
      <3>1. Write(t, <<m>>)
        BY <1>4 DEF RunWrite
      <3>2. in' = [in EXCEPT ![t] = Tail(@)] /\ blocked'[t]
        BY <1>1, <1>4 DEF RunWrite, TypeInv
      <3> HIDE DEF m
      <3>3. out'[t] = <<m>>
        BY <1>1, <2>2, <3>1, OneTerminal, Singles
      <3>4. in'[t] = <<>>
        BY <1>1, <2>2, <3>2, OneTerminal
      <3>5. QED
        BY <3>2, <3>3, <3>4 DEF m
    <2>4. Starting(t)'
      BY <2>3 DEF Starting
    <2>5. At' = At /\ Waiting(t)' /\ ~sent'
      BY <1>1, <2>2, SameStep DEF OpInv, CallSteps
    <2>6. QED
      BY <1>1, <2>2, <2>4, <2>5 DEF Exchange
  <1>5. CASE WriteBlock(t)
    <2>1. in[t] # <<>> /\ blocked[t]
      BY <1>5 DEF WriteBlock
    <2>2. /\ out[t] = <<>> /\ Tail(in[t]) = <<>>
          /\ pc = "stop" /\ t = op.to /\ Waiting(t)
      BY <2>1, RunsAwaited
    <2>3. ~blocked'[t] /\ in'[t] = <<>> /\ out'[t] = <<[k |-> "stop"]>>
      <3> DEFINE m == [k |-> "stop"]
      <3>1. Write(t, <<m>>)
        BY <1>5 DEF WriteBlock
      <3>2. in' = [in EXCEPT ![t] = Tail(@)] /\ ~blocked'[t]
        BY <1>1, <1>5 DEF WriteBlock, TypeInv
      <3> HIDE DEF m
      <3>3. out'[t] = <<m>>
        BY <1>1, <2>2, <3>1, OneTerminal, Singles
      <3>4. in'[t] = <<>>
        BY <1>1, <2>2, <3>2, OneTerminal
      <3>5. QED
        BY <3>2, <3>3, <3>4 DEF m
    <2>4. Writing(t)'
      BY <2>3 DEF Writing
    <2>5. At' = At /\ Waiting(t)' /\ ~sent'
      BY <1>1, <2>2, SameStep DEF OpInv, CallSteps
    <2>6. QED
      BY <1>1, <2>2, <2>4, <2>5 DEF Exchange
  <1>6. CASE TakeMessage(t)
    <2>1. in[t] # <<>> /\ blocked[t] /\ Head(in[t]).k # "data"
      BY <1>6 DEF TakeMessage
    <2>2. Head(in[t]) = [k |-> "data", block |-> op.block]
      BY <2>1, RunsAwaited
    <2>3. QED
      BY <2>1, <2>2
  <1>7. CASE FileFails(t)
    <2>1. in[t] # <<>> /\ Head(in[t]).k = (IF blocked[t] THEN "data" ELSE "read")
      BY <1>7 DEF FileFails
    <2>2. /\ out[t] = <<>> /\ Tail(in[t]) = <<>> /\ Waiting(t)
          /\ (pc = "data" /\ t = op.from) \/ (pc = "stop" /\ t = op.to)
      BY <2>1, RunsAwaited
    <2>3. ~blocked'[t] /\ in'[t] = <<>> /\ out'[t] = <<>>
      BY <1>1, <1>7, <2>2, OneTerminal DEF FileFails, TypeInv
    <2>4. Reading(t)' /\ Writing(t)'
      BY <2>3 DEF Reading, Writing
    <2>5. At' = At /\ Waiting(t)' /\ ~sent'
      BY <1>1, <2>2, SameStep DEF OpInv, CallSteps
    <2>6. QED
      BY <1>1, <2>2, <2>4, <2>5 DEF Exchange
  <1>8. QED
    BY <1>2, <1>3, <1>4, <1>5, <1>6, <1>7 DEF Remote, Raises

LEMMA RemoteExchange ==
  ASSUME Inv, Inv', ExchangeInv, NEW t \in Terminals, Remote(t) \/ Raises(t)
  PROVE  ExchangeInv'
  <1>1. TypeInv /\ UNCHANGED <<op, pc, sent>>
    BY DEF Inv, Remote, RunOpen, RunClose, RunChmod, RunOther, OpenFails, Raises, CloseFails,
       FileFails, RunRead, RunWrite, WriteBlock, TakeMessage, control
  <1>2. \A r \in Terminals : r # t => UNCHANGED <<in[r], out[r], blocked[r]>>
    BY <1>1, OneTerminal DEF Remote, RunOpen, RunClose, RunChmod, RunOther, OpenFails, Raises,
       CloseFails, FileFails, RunRead, RunWrite, WriteBlock, TakeMessage, Reply, TypeInv
  <1>3. (Fine' <=> Fine) /\ \A r : Verified(r)' <=> Verified(r)
    BY <1>1, SameStep
  <1>4. \A r \in Terminals : Exchange(r) => Exchange(r)'
    BY <1>1, <1>2, RunExchange, ExchangeSame
  <1>5. QED
    BY <1>3, <1>4 DEF ExchangeInv

\* Nothing is awaited before such a step of the keyword, or after it.
LEMMA SilentStep ==
  ASSUME NEW t
  PROVE  /\ Exchange(t) /\ ~Waiting(t) => Silence(t)
         /\ ~sent' /\ pc' \notin {"data", "start", "stop"} /\ Silence(t)' => Exchange(t)'
         /\ UNCHANGED <<in[t], out[t], blocked[t]>> => (Silence(t)' <=> Silence(t))
  BY DEF Exchange, Waiting, Silence

\* What has been verified is what the keyword initializes.
LEMMA VerifiedNext ==
  ASSUME Inv, PlanInv, Fine, Progress, NEW t, Verified(t)'
  PROVE  Verified(t) \/ (pc = "verify" /\ t = At /\ Ends)
  <1>1. TypeInv /\ op \in Ops
    BY DEF Inv, TypeInv
  <1>2. SameKeyword /\ op.todo # <<>> /\ (Begins \/ Ends \/ GoesOn)
    BY FineSteps
  <1>3. CASE Begins \/ GoesOn
    <2>1. op'.todo = op.todo
      BY <1>3 DEF Begins, GoesOn
    <2>2. QED
      BY <1>2, <2>1, TasksStay
  <1>4. CASE Ends
    <2>1. Past' = Past \cup {This} /\ TaskFacts
      BY <1>1, <1>2, <1>4, StepFields, TasksGoOn, ThisTask DEF Ends
    <2>2. PICK path \in Paths : Task("init", t, path) \in Past \cup {This}
      BY <2>1 DEF Verified
    <2>3. CASE Task("init", t, path) \in Past
      BY <2>3 DEF Verified
    <2>4. CASE Task("init", t, path) = This
      <3>1. This.do = "init" /\ This.at = t
        BY <2>4, TaskFields
      <3>2. pc = "verify"
        BY <1>4, <3>1 DEF PlanInv, Ends, FileSteps
      <3>3. QED
        BY <1>4, <3>1, <3>2 DEF At
    <2>5. QED
      BY <2>2, <2>3, <2>4
  <1>5. QED
    BY <1>2, <1>3, <1>4

\* A call that returns has been answered: nothing more is on its way.
LEMMA ReturnsSilent ==
  ASSUME Inv, LastInv, ExchangeInv, Fine, CallReturns, What # "prompt" \/ Verified(At)
  PROVE  /\ At \in Terminals /\ \A t : t = At => Silence(t)'
         /\ \A t \in Terminals : t # At => UNCHANGED <<in[t], out[t], blocked[t]>>
  <1>1. TypeInv /\ OpInv
    BY DEF Inv
  <1>2. pc \in CallSteps /\ sent /\ Answered(At, What) /\ At \in Terminals
    BY <1>1 DEF CallReturns, OpInv
  <1>3. Take(At, Answers(Call(At, What))) /\ UNCHANGED <<in, blocked>>
    BY <1>2 DEF Answered
  <1>4. \A t \in Terminals : t # At => UNCHANGED <<in[t], out[t], blocked[t]>>
    BY <1>1, <1>2, <1>3, OneTerminal
  <1>5. CASE What # "prompt"
    <2> DEFINE i == FirstOf(At, Answers(Call(At, What)))
    <2>1. /\ i \in 1 .. Len(out[At]) /\ Answer(At, What) = out[At][i]
          /\ Answer(At, What).what = What /\ Answer(At, What).k \in {"reply", "raised"}
      BY <1>1, <1>2, AnswerOf
    <2> HIDE DEF i
    <2>2. i \in SessionCalls(out[At])
      BY <1>5, <2>1 DEF SessionCalls, SessionCall
    <2>3. in[At] = <<>> /\ ~blocked[At] /\ i = Len(out[At])
      BY <1>2, <2>2 DEF LastInv
    <2>4. out'[At] = SubSeq(out[At], i + 1, Len(out[At]))
      BY <1>1, <1>2, <1>3 DEF Take, Skipped, i, TypeInv
    <2>5. out'[At] = <<>>
      <3>1. out[At] \in Seq(Outputs) /\ Len(out[At]) \in Nat
        BY <1>1, <1>2 DEF TypeInv
      <3>2. SubSeq(out[At], i + 1, Len(out[At])) \in Seq(Outputs)
            /\ Len(SubSeq(out[At], i + 1, Len(out[At]))) = 0
        BY <2>1, <2>3, <3>1, SubSeqProperties
      <3>3. QED
        BY <2>4, <3>2, EmptySeq
    <2>6. QED
      BY <1>2, <1>3, <1>4, <2>3, <2>5 DEF Silence
  <1>6. CASE Verified(At)
    <2>1. Exchange(At)
      BY <1>2, <1>6 DEF ExchangeInv
    <2>2. in[At] = <<>> /\ ~blocked[At] /\ out'[At] = <<>>
      BY <1>2, <1>3, <2>1, TakesAwaited DEF CallSteps
    <2>3. QED
      BY <1>2, <1>3, <1>4, <2>2 DEF Silence
  <1>7. QED
    BY <1>5, <1>6

LEMMA CallsExchange ==
  ASSUME Inv, PlanInv, LastInv, ExchangeInv, Fine, Progress,
         StartTask \/ Succeeded \/ Initialize
  PROVE  ExchangeInv'
  <1>1. TypeInv /\ OpInv /\ op \in Ops
    BY DEF Inv, TypeInv
  <1>2. ~sent' /\ pc' \notin {"data", "start", "stop"} /\ pc \in CallSteps \cup {"task"}
    <2>1. ~sent' /\ (Begins \/ Ends \/ GoesOn)
      BY FineSteps
    <2>2. CASE StartTask
      <3>1. This \in Tasks
        BY <1>1, <2>2, TailOf DEF StartTask, This, Ops
      <3>2. QED
        BY <1>1, <2>1, <2>2, <3>1, StepFields DEF StartTask, Tasks
    <2>3. CASE Succeeded
      <3>1. Succeeds /\ pc \in CallSteps
        BY <2>3 DEF Succeeded, CallLocal, CallReturns
      <3>2. \/ TaskDone
            \/ \E next \in {"opento", "read", "handlefrom", "write", "closeto", "promptfrom",
                            "closefrom", "chmod"} : GoOn(next)
        BY <3>1 DEF Succeeds, CallSteps, Fine
      <3>3. QED
        BY <1>1, <2>1, <3>1, <3>2, StepFields
    <2>4. CASE Initialize
      BY <1>1, <2>1, <2>4, StepFields DEF Initialize, CallSteps
    <2>5. QED
      BY <2>2, <2>3, <2>4
  <1>3. SUFFICES ASSUME NEW t \in Terminals, Verified(t)'
                 PROVE  Silence(t)'
    BY <1>2, SilentStep DEF ExchangeInv
  <1>4. Verified(t) \/ (pc = "verify" /\ t = At)
    BY <1>3, VerifiedNext
  <1>5. Verified(t) /\ (~sent \/ t # At) => Silence(t)
    BY <1>2, <1>3, SilentStep DEF ExchangeInv, Waiting, CallSteps
  <1>6. CASE StartTask \/ CallLocal
    <2>1. UNCHANGED <<in, out, blocked>> /\ ~sent /\ pc # "verify"
      <3>1. CASE StartTask
        BY <1>1, <3>1 DEF StartTask, remote, OpInv, CallSteps
      <3>2. CASE CallLocal
        <4>1. At \notin Terminals
          BY <3>2 DEF CallLocal, Terminals
        <4>2. QED
          BY <1>1, <3>2, <4>1, StepTerminals DEF CallLocal, remote, OpInv
      <3>3. QED
        BY <1>6, <3>1, <3>2
    <2>2. QED
      BY <1>4, <1>5, <2>1, SilentStep
  <1>7. CASE CallReturns
    <2>1. What # "prompt" \/ Verified(At)
      <3>1. sent
        BY <1>7 DEF CallReturns
      <3>2. QED
        BY <3>1, StepTerminals DEF What
    <2>2. /\ \A r : r = At => Silence(r)'
          /\ \A r \in Terminals : r # At => UNCHANGED <<in[r], out[r], blocked[r]>>
      BY <1>7, <2>1, ReturnsSilent
    <2>3. QED
      BY <1>4, <1>5, <2>2, SilentStep
  <1>8. CASE Initialize
    <2>1. At \in Terminals /\ SessionEnds(At, "up")
      BY <1>1, <1>8, StepTerminals DEF Initialize
    <2>2. /\ \A r : r = At => Silence(r)'
          /\ \A r \in Terminals : r # At => UNCHANGED <<in[r], out[r], blocked[r]>>
      BY <1>1, <2>1, OneTerminal DEF Silence
    <2>3. QED
      BY <1>4, <1>5, <2>2, SilentStep
  <1>9. QED
    BY <1>6, <1>7, <1>8 DEF Succeeded

\* What the steps of a copy send and read: the place of each terminal after the step.
LEMMA CopiesExchange ==
  ASSUME Inv, PlanInv, ExchangeInv, Fine, Progress,
         \/ ReadLocal \/ ReadRemote \/ DataRead \/ WriteLocal \/ WriteRemote
         \/ Started \/ Stopped
  PROVE  ExchangeInv'
  <1>1. TypeInv /\ OpInv /\ op \in Ops
    BY DEF Inv, TypeInv
  <1>2. /\ ~sent /\ ~sent' /\ pc \in {"read", "data", "write", "start", "stop"}
        /\ op'.from = op.from /\ op'.to = op.to /\ op.from # op.to
        /\ op.from \in Sites /\ op.to \in Sites
    BY <1>1, FineSteps, StepTerminals
       DEF ReadLocal, ReadRemote, DataRead, WriteLocal, WriteRemote, Started, Stopped,
           OpInv, CallSteps, SameKeyword
  <1>3. SUFFICES ASSUME NEW t \in Terminals, Verified(t)'
                 PROVE  Exchange(t)'
    BY DEF ExchangeInv
  <1>4. Exchange(t)
    BY <1>2, <1>3, VerifiedNext DEF ExchangeInv
  <1>5. CASE ReadLocal \/ WriteLocal
    <2>1. UNCHANGED <<in, out, blocked>> /\ pc \in {"read", "write"}
      BY <1>5 DEF ReadLocal, WriteLocal, remote
    <2>2. pc' \notin {"data", "start", "stop"}
      BY <1>5 DEF ReadLocal, Read, WriteLocal, GoOn, Step
    <2>3. QED
      BY <1>2, <1>4, <2>1, <2>2, SilentStep DEF Waiting
  <1>6. CASE ReadRemote
    <2>1. /\ pc' = "data" /\ op.from \in Terminals /\ UNCHANGED <<out, blocked>>
          /\ pc = "read" /\ Send(op.from, [k |-> "read"])
      BY <1>1, <1>2, <1>6, StepFields DEF ReadRemote, Sites
    <2>2. Silence(t)
      BY <1>2, <1>4, <2>1, SilentStep DEF Waiting
    <2>3. CASE t = op.from
      <3>1. in'[t] = <<[k |-> "read"]>>
        BY <1>1, <2>1, <2>2, <2>3, OneTerminal, Singles DEF Silence
      <3>2. Reading(t)'
        BY <2>1, <2>2, <3>1 DEF Reading, Silence
      <3>3. QED
        BY <1>2, <2>1, <2>3, <3>2 DEF Exchange, Waiting
    <2>4. CASE t # op.from
      <3>1. Silence(t)'
        BY <1>1, <2>1, <2>2, <2>4, OneTerminal DEF Silence
      <3>2. QED
        BY <1>2, <2>1, <2>4, <3>1 DEF Exchange, Waiting
    <2>5. QED
      BY <2>3, <2>4
  <1>7. CASE DataRead \/ Stopped
    <2>1. PICK r \in Terminals :
              /\ \E awaited : Take(r, awaited)
              /\ UNCHANGED <<in, blocked>>
              /\ (pc = "data" /\ r = op.from) \/ (pc = "stop" /\ r = op.to)
      BY <1>1, <1>2, <1>7 DEF DataRead, Stopped, OpInv, Sites
    <2>2. pc' \notin {"data", "start", "stop"}
      BY <1>7 DEF DataRead, Read, Stopped, GoOn, Step
    <2>3. Silence(t)'
      <3>1. CASE t = r
        BY <1>4, <2>1, <3>1, TakesAwaited DEF Silence
      <3>2. CASE t # r
        <4>1. Silence(t) /\ out'[t] = out[t]
          BY <1>1, <1>2, <1>4, <2>1, <3>2, SilentStep, OneTerminal DEF Waiting
        <4>2. QED
          BY <2>1, <4>1 DEF Silence
      <3>3. QED
        BY <3>1, <3>2
    <2>4. QED
      BY <1>2, <2>2, <2>3, SilentStep
  <1>8. CASE WriteRemote
    <2>1. /\ pc' = "start" /\ op.to \in Terminals /\ UNCHANGED <<out, blocked>>
          /\ pc = "write" /\ Send(op.to, [k |-> "write"])
      BY <1>1, <1>2, <1>8, StepFields DEF WriteRemote, Sites
    <2>2. Silence(t)
      BY <1>2, <1>4, <2>1, SilentStep DEF Waiting
    <2>3. CASE t = op.to
      <3>1. in'[t] = <<[k |-> "write"]>>
        BY <1>1, <2>1, <2>2, <2>3, OneTerminal, Singles DEF Silence
      <3>2. Starting(t)'
        BY <2>1, <2>2, <3>1 DEF Starting, Silence
      <3>3. QED
        BY <1>2, <2>1, <2>3, <3>2 DEF Exchange, Waiting
    <2>4. CASE t # op.to
      <3>1. Silence(t)'
        BY <1>1, <2>1, <2>2, <2>4, OneTerminal DEF Silence
      <3>2. QED
        BY <1>2, <2>1, <2>4, <3>1 DEF Exchange, Waiting
    <2>5. QED
      BY <2>3, <2>4
  <1>9. CASE Started
    <2> DEFINE m == [k |-> "data", block |-> op.block]
    <2>1. /\ pc' = "stop" /\ op' = op /\ op.to \in Terminals /\ blocked' = blocked
          /\ pc = "start" /\ Take(op.to, Printed(op.to, "start")) /\ Send(op.to, m)
      BY <1>1, <1>2, <1>9, StepFields DEF Started, OpInv, Sites
    <2> HIDE DEF m
    <2>2. CASE t = op.to
      <3>1. in[t] = <<>> /\ out'[t] = <<>> /\ out[t] # <<>>
        BY <1>4, <2>1, <2>2, TakesAwaited, Singles
      <3>2. blocked[t]
        BY <1>4, <2>1, <2>2, <3>1 DEF Exchange, Starting
      <3>3. in'[t] = <<m>>
        BY <1>1, <2>1, <2>2, <3>1, OneTerminal, Singles
      <3>4. Writing(t)'
        BY <2>1, <3>1, <3>2, <3>3 DEF Writing, m
      <3>5. QED
        BY <1>2, <2>1, <2>2, <3>4 DEF Exchange, Waiting
    <2>3. CASE t # op.to
      <3>1. Silence(t)
        BY <1>2, <1>4, <2>1, <2>3, SilentStep DEF Waiting
      <3>2. Silence(t)'
        BY <1>1, <2>1, <2>3, <3>1, OneTerminal DEF Silence
      <3>3. QED
        BY <1>2, <2>1, <2>3, <3>2 DEF Exchange, Waiting
    <2>4. QED
      BY <2>2, <2>3
  <1>10. QED
    BY <1>5, <1>6, <1>7, <1>8, <1>9

LEMMA AskExchange ==
  ASSUME Inv, PlanInv, ExchangeInv, CallRemote
  PROVE  ExchangeInv'
  <1>1. TypeInv /\ OpInv /\ op \in Ops
    BY DEF Inv, TypeInv
  <1>2. /\ UNCHANGED <<op, pc>> /\ sent' /\ ~sent /\ pc \in CallSteps /\ At # "local"
        /\ Send(At, Call(At, What)) /\ UNCHANGED <<out, blocked>>
    BY DEF CallRemote, Ask
  <1>3. SUFFICES ASSUME Fine, NEW t \in Terminals, Verified(t)
                 PROVE  Exchange(t)'
    <2>1. SameKeyword /\ op'.todo = op.todo
      BY <1>2 DEF SameKeyword
    <2>2. \A t : Verified(t)' <=> Verified(t)
      BY <2>1, TasksStay
    <2>3. Fine' => Fine
      BY <1>2 DEF Fine
    <2>4. QED
      BY <2>2, <2>3 DEF ExchangeInv
  <1>4. Silence(t)
    BY <1>2, <1>3, SilentStep DEF ExchangeInv, Waiting, CallSteps
  <1>5. At \in Terminals
    <2>1. At \in Sites
      BY <1>3, StepTerminals DEF Sites
    <2>2. QED
      BY <1>2, <2>1 DEF Sites
  <1>6. At' = At /\ What' = What /\ Call(t, What)' = Call(t, What)
    BY <1>2 DEF At, What, This, Call
  <1>7. CASE t = At
    <2>1. in'[t] = <<Call(t, What)>>
      BY <1>1, <1>2, <1>4, <1>5, <1>7, OneTerminal, Singles DEF Silence
    <2>2. in'[t] = <<Call(t, What)'>> /\ out'[t] = <<>> /\ ~blocked'[t]
      BY <1>2, <1>4, <1>6, <2>1 DEF Silence
    <2>3. Asking(t)'
      BY <2>2 DEF Asking
    <2>4. QED
      BY <1>2, <1>6, <1>7, <2>3 DEF Exchange, Waiting, CallSteps
  <1>8. CASE t # At
    <2>1. Silence(t)'
      BY <1>1, <1>2, <1>4, <1>5, <1>8, OneTerminal DEF Silence
    <2>2. QED
      BY <1>2, <1>6, <1>8, <2>1 DEF Exchange, Waiting, CallSteps
  <1>9. QED
    BY <1>7, <1>8

\* A keyword begins with nothing done.
LEMMA BeginsPlan ==
  ASSUME Inv, User
  PROVE  /\ PlanInv' /\ op'.error = "none" /\ op'.read = 0 /\ ~sent' /\ pc' = "task"
         /\ Past' = {} /\ \A t : ~Verified(t)'
         /\ UNCHANGED <<remote, files, outcome>> /\ pc = "idle"
  <1>1. PICK name \in Names,
             from \in Sites, to \in Sites, todo \in Seq(Tasks) :
            /\ Begin(name, from, to, todo) /\ <<name, from, to>> \in Keywords
            /\ \A o : o.name = name /\ o.from = from /\ o.to = to => TasksOf(o) = todo
    <2>1. /\ CopyTasks("local", "T1") \in Seq(Tasks) /\ CopyTasks("T1", "local") \in Seq(Tasks)
          /\ CopyTasks("T1", "T2") \in Seq(Tasks) /\ DirTasks("T1") \in Seq(Tasks)
          /\ PartTasks("T1") \in Seq(Tasks) /\ MakeTasks("T1") \in Seq(Tasks)
      BY TodoTypes DEF Sites, Terminals
    <2>2. CASE CopyFileToTarget
      BY <2>1, <2>2 DEF CopyFileToTarget, Sites, Terminals, Keywords, TasksOf, Names
    <2>3. CASE CopyFileFromTarget
      BY <2>1, <2>3 DEF CopyFileFromTarget, Sites, Terminals, Keywords, TasksOf, Names
    <2>4. CASE CopyFileBetweenTargets
      BY <2>1, <2>4 DEF CopyFileBetweenTargets, Sites, Terminals, Keywords, TasksOf, Names
    <2>5. CASE CopyDirectoryToTarget
      <3>1. \A o : o.name = "directory" /\ o.to = "T1" => TasksOf(o) = DirTasks("T1")
        BY DEF TasksOf
      <3>2. /\ <<"directory", "local", "T1">> \in Keywords /\ "directory" \in Names
            /\ "local" \in Sites /\ "T1" \in Sites
        BY DEF Keywords, Names, Sites, Terminals
      <3> DEFINE todo == DirTasks("T1")
      <3>3. Begin("directory", "local", "T1", todo) /\ todo \in Seq(Tasks)
        BY <2>1, <2>5 DEF CopyDirectoryToTarget
      <3>4. \A o : o.name = "directory" /\ o.from = "local" /\ o.to = "T1" => TasksOf(o) = todo
        BY <3>1
      <3> HIDE DEF todo
      <3> USE <3>2, <3>3
      <3> WITNESS "directory" \in Names, "local" \in Sites, "T1" \in Sites, todo \in Seq(Tasks)
      <3>5. QED
        BY <3>2, <3>3, <3>4
    <2>6. CASE CopyDirectoryPartly
      BY <2>1, <2>6 DEF CopyDirectoryPartly, Sites, Terminals, Keywords, TasksOf, Names
    <2>7. CASE CopyDirectoryMissing
      <3>1. \A o : o.name = "missing" /\ o.to = "T1" => TasksOf(o) = MakeTasks("T1")
        BY DEF TasksOf
      <3>2. /\ <<"missing", "local", "T1">> \in Keywords /\ "missing" \in Names
            /\ "local" \in Sites /\ "T1" \in Sites
        BY DEF Keywords, Names, Sites, Terminals
      <3> DEFINE todo == MakeTasks("T1")
      <3>3. Begin("missing", "local", "T1", todo) /\ todo \in Seq(Tasks)
        BY <2>1, <2>7 DEF CopyDirectoryMissing
      <3>4. \A o : o.name = "missing" /\ o.from = "local" /\ o.to = "T1" => TasksOf(o) = todo
        BY <3>1
      <3> HIDE DEF todo
      <3> USE <3>2, <3>3
      <3> WITNESS "missing" \in Names, "local" \in Sites, "T1" \in Sites, todo \in Seq(Tasks)
      <3>5. QED
        BY <3>2, <3>3, <3>4
    <2>8. CASE CreateDirectoryInTarget
      <3>1. \A o : o.name = "create" /\ o.to = "T1" => TasksOf(o) = MakeTasks("T1")
        BY DEF TasksOf
      <3>2. /\ <<"create", "local", "T1">> \in Keywords /\ "create" \in Names
            /\ "local" \in Sites /\ "T1" \in Sites
        BY DEF Keywords, Names, Sites, Terminals
      <3> DEFINE todo == MakeTasks("T1")
      <3>3. Begin("create", "local", "T1", todo) /\ todo \in Seq(Tasks)
        BY <2>1, <2>8 DEF CreateDirectoryInTarget
      <3>4. \A o : o.name = "create" /\ o.from = "local" /\ o.to = "T1" => TasksOf(o) = todo
        BY <3>1
      <3> HIDE DEF todo
      <3> USE <3>2, <3>3
      <3> WITNESS "create" \in Names, "local" \in Sites, "T1" \in Sites, todo \in Seq(Tasks)
      <3>5. QED
        BY <3>2, <3>3, <3>4
    <2>9. QED
      BY <2>2, <2>3, <2>4, <2>5, <2>6, <2>7, <2>8 DEF User
  <1>2. PICK size \in 0 .. MaxBlocks :
            op' = [NoOp EXCEPT !.name = name, !.n = copies + 1, !.from = from, !.to = to,
                               !.size = size, !.todo = todo]
    BY <1>1 DEF Begin
  <1>3. /\ op'.name = name /\ op'.from = from /\ op'.to = to /\ op'.todo = todo
        /\ op'.error = "none" /\ op'.read = 0
    BY <1>2 DEF NoOp
  <1>4. pc' = "task" /\ pc = "idle" /\ ~sent' /\ UNCHANGED <<remote, files, outcome>>
    BY <1>1 DEF Begin, Inv, OpInv, CallSteps
  <1>5. TasksOf(op)' = todo /\ op'.todo = todo /\ Len(todo) \in Nat
    BY <1>1, <1>3
  <1>6. Position' = 0
    BY <1>5 DEF Position
  <1>7. Past' = {}
    <2>1. 1 .. 0 = {}
      OBVIOUS
    <2>2. QED
      BY <1>6, <2>1 DEF Past
  <1>8. PlanInv'
    <2>1. \A i \in 1 .. Len(todo) : Position' + i = i
      BY <1>6
    <2>2. \A i \in 1 .. Len(op'.todo) : op'.todo[i] = TasksOf(op)'[Position' + i]
      BY <1>5, <2>1
    <2>3. QED
      BY <1>1, <1>3, <1>4, <1>5, <2>2 DEF PlanInv, FileSteps
  <1>9. \A t : ~Verified(t)'
    BY <1>7 DEF Verified
  <1>10. QED
    BY <1>3, <1>4, <1>7, <1>8, <1>9

-----------------------------------------------------------------------------
(* A file that is closed is open.                                           *)

\* A call that opens, closes or changes a file is the one that is awaited.
LEMMA RunsCall ==
  ASSUME Inv, NEW t \in Terminals, RunOpen(t) \/ RunClose(t) \/ RunChmod(t)
  PROVE  /\ t = At /\ sent /\ NextCall(t) = Call(t, What) /\ NextCall(t).what = What
         /\ UNCHANGED <<op, pc, sent>> /\ What \in {"open", "close", "chmod"}
         /\ ~Replied(t) /\ SessionCalls(out[t]) = {}
         /\ \A r \in Terminals : r # t => (Replied(r)' <=> Replied(r)) /\ out'[r] = out[r]
         /\ What \in {"open", "close"} => Replied(t)' /\ SessionCalls(out[t])' # {}
         /\ Reads(t, "call") /\ Reply(t, "reply") /\ line[t] = "up"
  <1>1. TypeInv /\ CallInv
    BY DEF Inv
  <1>2. /\ Reads(t, "call") /\ Reply(t, "reply") /\ UNCHANGED <<op, pc, sent>> /\ line[t] = "up"
        /\ NextCall(t).what \in {"open", "close", "chmod"}
    BY DEF RunOpen, RunClose, RunChmod, control, Reads
  <1>3. /\ t = At /\ sent /\ NextCall(t) = Call(t, What) /\ NextCall(t).what = What
        /\ SessionCalls(out[t]) = {} /\ \A r \in Terminals : r # t => Replied(r)' = Replied(r)
    BY <1>1, <1>2, SessionCallHead
  <1>7. \A r \in Terminals : r # t => out'[r] = out[r]
    BY <1>1, <1>2, OneTerminal DEF Reply
  <1>4. ~Replied(t)
    BY <1>3 DEF Replied
  <1>5. ASSUME What \in {"open", "close"}
        PROVE  Replied(t)' /\ SessionCalls(out[t])' # {}
    <2> DEFINE m == [NextCall(t) EXCEPT !.k = "reply"]
    <2>1. NextCall(t) \in Requests
      BY <1>1, <1>2, ReplyType
    <2>2. m \in Outputs /\ m.k = "reply" /\ m.what = What
      BY <1>3, <2>1, MessageTypes DEF Outputs, Requests
    <2>3. Write(t, <<m>>)
      BY <1>2 DEF Reply
    <2> HIDE DEF m
    <2>4. out'[t] = out[t] \o <<m>> /\ out[t] \in Seq(Outputs)
      BY <1>1, <2>3, OneTerminal DEF TypeInv
    <2>5. /\ out'[t] = Append(out[t], m) /\ Len(out'[t]) = Len(out[t]) + 1
          /\ out'[t][Len(out[t]) + 1] = m /\ Len(out[t]) \in Nat
      BY <2>2, <2>4, AppendOf
    <2>6. PICK i \in Nat : i = Len(out[t]) + 1
      BY <2>5
    <2>7. i \in SessionCalls(out[t])' /\ out'[t][i] = m
      BY <1>5, <2>2, <2>5, <2>6 DEF SessionCalls, SessionCall
    <2>8. QED
      BY <1>5, <2>2, <2>7 DEF Replied
  <1>6. QED
    BY <1>2, <1>3, <1>4, <1>5, <1>7

\* A close that raises.
LEMMA CloseFailsCall ==
  ASSUME Inv, NEW t \in Terminals, CloseFails(t)
  PROVE  /\ t = At /\ sent /\ What = "close" /\ pc \in {"closefrom", "closeto"}
         /\ UNCHANGED <<op, pc, sent, outcome, line, leftover, files>> /\ line[t] = "up"
         /\ SessionCalls(out[t]) = {} /\ SessionCalls(out[t])' # {} /\ ~Replied(t)
         /\ \A r \in Terminals : Replied(r)' <=> Replied(r)
         /\ \A r \in Terminals : r # t => out'[r] = out[r] /\ handle'[r] = handle[r]
         /\ handle'[t] = NoFile
  <1>1. TypeInv /\ CallInv /\ OpInv
    BY DEF Inv
  <1>2. /\ Reads(t, "call") /\ Reply(t, "raised") /\ NextCall(t).what = "close"
        /\ UNCHANGED <<op, pc, sent, outcome, line, leftover, files>> /\ line[t] = "up"
        /\ handle'[t] = NoFile /\ \A r \in Terminals : r # t => handle'[r] = handle[r]
    BY <1>1 DEF CloseFails, control, Reads, Reply, TypeInv
  <1>3. /\ t = At /\ sent /\ NextCall(t).what = What /\ SessionCalls(out[t]) = {}
        /\ \A r \in Terminals : r # t => Replied(r)' = Replied(r)
    BY <1>1, <1>2, SessionCallHead DEF Raising
  <1>4. pc \in {"closefrom", "closeto"}
    BY <1>1, <1>2, <1>3 DEF What, OpInv, CallSteps
  <1> DEFINE m == [NextCall(t) EXCEPT !.k = "raised"]
  <1>5. m \in Outputs /\ m.k = "raised" /\ m.what = "close"
    <2>1. NextCall(t).what \in Raising
      BY <1>2 DEF Raising
    <2>2. NextCall(t) \in Requests
      BY <1>1, <1>2, <2>1, ReplyType
    <2>3. m \in Replies
      BY <2>1, <2>2, MessageTypes
    <2>4. m.k = "raised" /\ m.what = NextCall(t).what
      BY <2>2 DEF Requests
    <2>5. QED
      BY <1>2, <2>3, <2>4 DEF Outputs
  <1>6. Write(t, <<m>>)
    BY <1>2 DEF Reply
  <1> HIDE DEF m
  <1>7. out'[t] = Append(out[t], m) /\ \A r \in Terminals : r # t => out'[r] = out[r]
    <2>1. out'[t] = out[t] \o <<m>> /\ out[t] \in Seq(Outputs)
      BY <1>1, <1>6, OneTerminal DEF TypeInv
    <2>2. QED
      BY <1>1, <1>5, <1>6, <2>1, AppendOf, OneTerminal
  <1>8. SessionCalls(out'[t]) = {Len(out[t]) + 1} /\ out'[t][Len(out[t]) + 1] = m
    <2>1. out[t] \in Seq(Outputs) /\ SessionCall(m)
      BY <1>1, <1>5 DEF TypeInv, SessionCall
    <2>2. QED
      BY <1>3, <1>5, <1>7, <2>1, AddedCalls, AppendOf
  <1>9. ~Replied(t) /\ ~Replied(t)'
    BY <1>3, <1>5, <1>8 DEF Replied
  <1>10. QED
    BY <1>2, <1>3, <1>4, <1>7, <1>8, <1>9

\* The actions of a remote Python but for those calls.
Neutral(t) == \/ RunOther(t) \/ OpenFails(t) \/ FileFails(t) \/ RunRead(t) \/ RunWrite(t)
              \/ WriteBlock(t) \/ TakeMessage(t)
LEMMA NeutralSteps ==
  ASSUME Inv, NEW t \in Terminals, Neutral(t) \/ RunChmod(t)
  PROVE  /\ UNCHANGED <<op, pc, sent, outcome, line, leftover, disk, spoilt>>
         /\ SameFiles /\ \A r \in Terminals : Replied(r)' <=> Replied(r)
         /\ \A r \in Terminals : r # t => handle'[r] = handle[r]
         /\ handle'[t] # NoFile => handle'[t].place = handle[t].place
         /\ Neutral(t) => mode' = mode
         /\ \A r \in Terminals : SessionCalls(out[r])' = {} => SessionCalls(out[r]) = {}
  <1>1. TypeInv /\ HandleInv /\ Others(t)
    BY DEF Inv, Neutral, Others
  <1>2. /\ UNCHANGED <<op, pc, sent, outcome, line, leftover, disk, spoilt>>
        /\ Neutral(t) => mode' = mode
    BY DEF Neutral, RunOther, OpenFails, FileFails, RunRead, RunWrite, WriteBlock, TakeMessage,
       RunChmod, Reply, control, files
  <1>3. SameFiles /\ \A r \in Terminals : Replied(r)' <=> Replied(r)
    BY <1>1, OthersKeep, TakesReplied
  <1>4. /\ \A r \in Terminals : r # t => handle'[r] = handle[r]
        /\ handle'[t] # NoFile => handle'[t].place = handle[t].place
    <2>1. CASE RunChmod(t) \/ RunOther(t) \/ OpenFails(t) \/ FileFails(t) \/ RunWrite(t)
      BY <2>1 DEF RunChmod, RunOther, OpenFails, FileFails, RunWrite
    <2>2. CASE RunRead(t) \/ WriteBlock(t) \/ TakeMessage(t)
      <3>1. \/ handle' = handle
            \/ \E x : handle' = [handle EXCEPT ![t] = [@ EXCEPT !.offset = x]]
            \/ \E x : handle' = [handle EXCEPT ![t] = [@ EXCEPT !.buffer = x]]
        BY <2>2 DEF RunRead, WriteBlock, TakeMessage
      <3>2. handle[t] \in {NoFile} \cup Files /\ handle \in [Terminals -> {NoFile} \cup Files]
        BY <1>1 DEF TypeInv
      <3>3. handle[t] # NoFile
        <4>1. RunRead(t) => handle[t] # NoFile
          BY <1>1, AccessHead DEF RunRead
        <4>2. QED
          BY <1>1, <2>2, <4>1 DEF WriteBlock, TakeMessage, HandleInv
      <3>4. QED
        BY <3>1, <3>2, <3>3 DEF Files
    <2>3. QED
      BY <2>1, <2>2 DEF Neutral
  <1>5. \A r \in Terminals : SessionCalls(out[r])' = {} => SessionCalls(out[r]) = {}
    <2>1. Prints(t)
      BY <1>1, OthersKeep
    <2>2. ASSUME NEW m \in Outputs, Write(t, <<m>>), NEW r \in Terminals,
                 SessionCalls(out'[r]) = {}
          PROVE  SessionCalls(out[r]) = {}
      <3>1. out[t] \in Seq(Outputs) /\ out'[t] = out[t] \o <<m>> /\ (r # t => out'[r] = out[r])
        BY <1>1, <2>2, OneTerminal DEF TypeInv
      <3>2. out'[t] = Append(out[t], m)
        BY <3>1, AppendOf
      <3>3. SessionCalls(out[t]) \subseteq SessionCalls(out'[t])
        <4>1. SessionCalls(out'[t]) =
                  SessionCalls(out[t]) \cup (IF SessionCall(m) THEN {Len(out[t]) + 1} ELSE {})
          <5>1. m \in Outputs /\ out[t] \in Seq(Outputs)
            BY <2>2, <3>1
          <5> HIDE DEF Outputs
          <5>2. SessionCalls(Append(out[t], m)) =
                    SessionCalls(out[t]) \cup (IF SessionCall(m) THEN {Len(out[t]) + 1} ELSE {})
            BY <5>1, AddedCalls
          <5>3. QED
            BY <3>2, <5>2
        <4>2. QED
          BY <4>1
      <3>4. QED
        BY <2>2, <3>1, <3>3
    <2>3. QED
      BY <2>1, <2>2 DEF Prints
  <1>6. QED
    BY <1>2, <1>3, <1>4, <1>5

LEMMA CloseMoves ==
  ASSUME Inv, CloseInv, Moves
  PROVE  CloseInv'
  <1>1. TypeInv /\ KeywordInv /\ OpInv /\ CallInv /\ HandleInv
    BY TypeParts DEF Inv
  <1>2. Flow /\ op'.from = op.from /\ op'.to = op.to
    BY <1>1, MovesOp, MovesFlow DEF Keeps
  <1>3. \A t \in Terminals : ToClose(t)' => ToClose(t) \/ Opened(t)
    BY <1>2 DEF Flow, ToClose, Opened, Copying
  <1>4. \A t \in Terminals : ToClose(t)' => line[t] = "none" \/ handle[t] # NoFile
    BY <1>1, <1>3 DEF CloseInv, HandleInv
  <1>5. CASE CallBreaks
    <2>1. SessionEnds(At, "none") /\ At \in Terminals
      BY <1>1, <1>5 DEF CallBreaks, OpInv
    <2>2. \A t \in Terminals : line'[t] = "none" \/ (line'[t] = line[t] /\ handle'[t] = handle[t])
      BY <1>1, <2>1 DEF SessionEnds, TypeInv
    <2>3. QED
      BY <1>4, <2>2 DEF CloseInv
  <1>6. CASE Initialize \/ InitializeFails
    <2>1. pc' = "task"
      BY <1>1, <1>6, StepFields DEF Initialize, InitializeFails, TypeInv
    <2>2. QED
      BY <2>1 DEF CloseInv, ToClose
  <1>7. CASE ~(CallBreaks \/ Initialize \/ InitializeFails)
    <2>1. UNCHANGED <<line, handle>>
      BY <1>1, <1>7, MovesTalk DEF Talks
    <2>2. QED
      BY <1>4, <2>1 DEF CloseInv
  <1>8. QED
    BY <1>5, <1>6, <1>7

LEMMA CloseNext ==
  ASSUME Inv, CloseInv, Next
  PROVE  CloseInv'
  <1>1. TypeInv /\ OpInv
    BY DEF Inv
  <1>2. CASE Moves
    BY <1>2, CloseMoves
  <1>3. CASE User \/ Return
    <2>1. pc' \in {"idle", "task"}
      BY <1>3 DEF Return, User, Begin, CopyFileToTarget, CopyFileFromTarget,
         CopyFileBetweenTargets, CopyDirectoryToTarget, CopyDirectoryPartly,
         CopyDirectoryMissing, CreateDirectoryInTarget
    <2>2. QED
      BY <2>1 DEF CloseInv, ToClose
  <1>4. CASE CallRemote
    <2>1. UNCHANGED <<op, pc, line, handle, out>>
      BY <1>4 DEF CallRemote, Ask
    <2>2. QED
      BY <2>1 DEF CloseInv, ToClose
  <1>5. ASSUME NEW t \in Terminals, RunOpen(t)
        PROVE  CloseInv'
    <2>1. /\ t = At /\ sent /\ UNCHANGED <<op, pc, sent>> /\ What = "open" /\ UNCHANGED line
          /\ NextCall(t).what = What
      BY <1>5, RunsCall DEF RunOpen, Reply
    <2>2. pc \in {"openfrom", "opento"}
      BY <1>1, <2>1 DEF What, OpInv, CallSteps
    <2>3. QED
      BY <2>1, <2>2 DEF CloseInv, ToClose
  <1>6. ASSUME NEW t \in Terminals, RunClose(t) \/ CloseFails(t)
        PROVE  CloseInv'
    <2>1. /\ t = At /\ sent /\ UNCHANGED <<op, pc, sent>> /\ What = "close" /\ UNCHANGED line
          /\ \A r \in Terminals : r # t => out'[r] = out[r]
          /\ SessionCalls(out[t])' # {} /\ handle' = [handle EXCEPT ![t] = NoFile]
      <3>1. CASE RunClose(t)
        BY <3>1, RunsCall DEF RunClose, Reply
      <3>2. CASE CloseFails(t)
        BY <3>2, CloseFailsCall DEF CloseFails
      <3>3. QED
        BY <1>6, <3>1, <3>2
    <2>2. pc \in {"closefrom", "closeto"}
      BY <1>1, <2>1 DEF What, OpInv, CallSteps
    <2>3. /\ op.from # op.to
          /\ \A r \in Terminals : r # t => handle'[r] = handle[r]
      BY <1>1, <2>1, <2>2 DEF TypeInv, OpInv
    <2>4. ~ToClose(t)'
      BY <2>1, <2>2, <2>3, StepAt DEF ToClose
    <2>5. QED
      BY <2>1, <2>3, <2>4 DEF CloseInv, ToClose
  <1>7. ASSUME NEW t \in Terminals, Neutral(t) \/ RunChmod(t)
        PROVE  CloseInv'
    <2>1. /\ UNCHANGED <<op, pc, line>> /\ SameFiles
          /\ \A r \in Terminals : SessionCalls(out[r])' = {} => SessionCalls(out[r]) = {}
      BY <1>7, NeutralSteps
    <2>2. QED
      BY <2>1 DEF CloseInv, ToClose, SameFiles
  <1>8. CASE \/ Collect
             \/ \E t \in Terminals : Flush(t) \/ Hang(t) \/ Revive(t) \/ Die(t)
    <2>1. SameFiles /\ UNCHANGED <<op, pc, out>>
      <3>1. SameFiles
        BY <1>8, EnvironmentSteps DEF Inv
      <3>2. QED
        BY <1>8, <3>1 DEF Collect, Flush, Hang, Revive, Die, Breaks, control
    <2>2. \A t \in Terminals : line[t] = "none" => line'[t] = "none"
      BY <1>1, <1>8 DEF Collect, Flush, Hang, Revive, Die, Breaks, TypeInv
    <2>3. QED
      BY <2>1, <2>2 DEF CloseInv, ToClose, SameFiles
  <1>9. QED
    BY <1>2, <1>3, <1>4, <1>5, <1>6, <1>7, <1>8 DEF Next, Client, Environment, Moves, Remote,
       Neutral, Raises

-----------------------------------------------------------------------------
(* The files.                                                               *)

LEMMA MaxOfTwo ==
  ASSUME NEW a \in Nat, NEW b \in Nat
  PROVE  Max({a, b}) = IF a >= b THEN a ELSE b
  <1> DEFINE m == IF a >= b THEN a ELSE b
  <1>1. m \in {a, b} /\ \A y \in {a, b} : m >= y
    OBVIOUS
  <1>2. \A x \in {a, b} : (\A y \in {a, b} : x >= y) => x = m
    OBVIOUS
  <1> HIDE DEF m
  <1>3. QED
    BY <1>1, <1>2 DEF Max, m

LEMMA WrittenOf ==
  ASSUME NEW contents \in Seq(Blocks), NEW offset \in Nat, NEW blocks \in Seq(Blocks)
  PROVE  /\ Written(contents, offset, blocks) \in Seq(Blocks)
         /\ offset = Len(contents) =>
               /\ Len(Written(contents, offset, blocks)) = offset + Len(blocks)
               /\ \A i \in 1 .. offset + Len(blocks) :
                     Written(contents, offset, blocks)[i] =
                         IF i <= offset THEN contents[i] ELSE blocks[i - offset]
  <1> DEFINE m == Max({Len(contents), offset + Len(blocks)})
             w == Written(contents, offset, blocks)
             Cell(i) == IF i > offset /\ i <= offset + Len(blocks) THEN blocks[i - offset]
                        ELSE IF i <= Len(contents) THEN contents[i] ELSE Hole
  <1>1. Len(contents) \in Nat /\ Len(blocks) \in Nat
    OBVIOUS
  <1>2. m = IF Len(contents) >= offset + Len(blocks) THEN Len(contents)
            ELSE offset + Len(blocks)
    BY <1>1, MaxOfTwo
  <1>3. w = [i \in 1 .. m |-> Cell(i)]
    BY DEF Written
  <1> HIDE DEF m, w
  <1>4. m \in Nat
    BY <1>1, <1>2
  <1>5. Hole \in Blocks
    BY DEF Hole, Blocks, Paths
  <1>6. \A i \in 1 .. m : Cell(i) \in Blocks
    BY <1>1, <1>4, <1>5
  <1>7. w \in Seq(Blocks) /\ Len(w) = m
    <2> HIDE DEF Cell
    <2>1. w \in [1 .. m -> Blocks]
      BY <1>3, <1>6
    <2>2. QED
      BY <1>4, <2>1
  <1>8. ASSUME offset = Len(contents)
        PROVE  /\ m = offset + Len(blocks)
               /\ \A i \in 1 .. m : Cell(i) = IF i <= offset THEN contents[i] ELSE blocks[i - offset]
    BY <1>1, <1>2, <1>8
  <1>9. \A i \in 1 .. m : w[i] = Cell(i)
    BY <1>3
  <1> HIDE DEF Cell
  <1>10. QED
    BY <1>7, <1>8, <1>9 DEF w

LEMMA FlushedOf ==
  ASSUME disk \in [Places -> Seq(Blocks)], NEW f \in Files
  PROVE  /\ Flushed(f) \in [Places -> Seq(Blocks)]
         /\ \A p \in Places : p # f.place => Flushed(f)[p] = disk[p]
         /\ f.buffer = <<>> => Flushed(f) = disk
         /\ f.buffer # <<>> =>
               Flushed(f)[f.place] = Written(disk[f.place], f.offset, f.buffer)
  <1>1. f.place \in Places /\ f.offset \in Nat /\ f.buffer \in Seq(Blocks)
    BY FileFields
  <1>2. Written(disk[f.place], f.offset, f.buffer) \in Seq(Blocks)
    BY <1>1, WrittenOf
  <1>3. QED
    BY <1>1, <1>2 DEF Flushed

LEMMA LeftOf ==
  ASSUME Inv, DiskInv, NEW t \in Terminals
  PROVE  /\ Left(t) \subseteq Files /\ \A f \in Left(t) : f = handle[t] /\ handle[t] # NoFile
         /\ \A f \in Left(t) : f.place[1] \in Terminals
  <1>1. handle[t] \in {NoFile} \cup Files
    BY DEF Inv, TypeInv
  <1>2. QED
    BY <1>1 DEF Left, DiskInv

LEMMA OwnHandles ==
  ASSUME DiskInv, NEW t \in Terminals, \A r \in Terminals : r # t => handle'[r] = handle[r],
         handle'[t] # NoFile => handle'[t].place[1] = t
  PROVE  \A r \in Terminals : handle'[r] # NoFile => handle'[r].place[1] = r
  BY DEF DiskInv

LEMMA RunDisk ==
  ASSUME Inv, Inv', DiskInv, CloseInv, NEW t \in Terminals, Remote(t) \/ Raises(t)
  PROVE  DiskInv'
  <1>1. TypeInv /\ OpInv /\ TypeInv'
    BY DEF Inv
  <1>2. disk \in [Places -> Seq(Blocks)] /\ mode \in [Places -> Nat] /\ leftover \subseteq Files
        /\ spoilt \subseteq Places
    BY DEF DiskInv
  <1>3. CASE Neutral(t) \/ RunChmod(t)
    <2>1. /\ UNCHANGED <<leftover, disk, spoilt>> /\ SameFiles
          /\ \A r \in Terminals : r # t => handle'[r] = handle[r]
          /\ handle'[t] # NoFile => handle'[t].place = handle[t].place
          /\ Neutral(t) => mode' = mode
      BY <1>3, NeutralSteps
    <2>2. handle'[t] # NoFile => handle'[t].place[1] = t
      BY <2>1 DEF SameFiles, DiskInv
    <2>3. mode' \in [Places -> Nat]
      <3>1. CASE Neutral(t)
        BY <1>2, <2>1, <3>1
      <3>2. CASE RunChmod(t)
        <4>1. NextCall(t).n \in Nat
          <5>1. NextCall(t) \in Requests
            BY <1>1, <3>2, RunsCall, ReplyType
          <5>2. QED
            BY <5>1 DEF Requests
        <4>2. QED
          BY <1>2, <3>2, <4>1 DEF RunChmod
      <3>3. QED
        BY <1>3, <3>1, <3>2
    <2>4. QED
      BY <1>2, <2>1, <2>2, <2>3, OwnHandles DEF DiskInv
  <1>4. CASE RunClose(t)
    <2>1. /\ t = At /\ sent /\ What = "close" /\ SessionCalls(out[t]) = {} /\ line[t] = "up"
      BY <1>4, RunsCall DEF RunClose
    <2>2. ToClose(t)
      BY <1>1, <2>1, StepAt DEF What, OpInv, CallSteps, ToClose
    <2>3. handle[t] \in Files
      BY <1>1, <2>1, <2>2 DEF CloseInv, TypeInv
    <2>4. disk' \in [Places -> Seq(Blocks)]
      BY <1>2, <1>4, <2>3, FlushedOf DEF RunClose
    <2>5. /\ UNCHANGED <<leftover, mode, spoilt>> /\ handle'[t] = NoFile
          /\ \A r \in Terminals : r # t => handle'[r] = handle[r]
      BY <1>1, <1>4 DEF RunClose, TypeInv
    <2>6. QED
      BY <1>2, <2>4, <2>5, OwnHandles DEF DiskInv
  <1>5. CASE RunOpen(t)
    <2> DEFINE c == NextCall(t)
               place == <<t, c.path>>
               h == [n |-> c.n, place |-> place, size |-> c.size, write |-> c.write,
                     offset |-> 0, buffer |-> <<>>]
    <2>1. c \in Requests
      BY <1>1, <1>5, RunsCall, ReplyType
    <2>2. place \in Places
      BY <2>1 DEF Requests, Places
    <2>3. /\ handle' = [handle EXCEPT ![t] = h] /\ leftover' = leftover \cup Left(t)
          /\ mode' = mode /\ spoilt' \subseteq spoilt \cup {place}
          /\ disk' = disk \/ disk' = [disk EXCEPT ![place] = <<>>]
      BY <1>5 DEF RunOpen
    <2>4. h.place = place
      OBVIOUS
    <2> HIDE DEF h
    <2>5. disk' \in [Places -> Seq(Blocks)]
      <3>1. <<>> \in Seq(Blocks)
        OBVIOUS
      <3>2. QED
        BY <1>2, <2>2, <2>3, <3>1
    <2>6. leftover' \subseteq Files /\ \A f \in leftover' : f.place[1] \in Terminals
      BY <1>2, <2>3, LeftOf DEF DiskInv
    <2>7. /\ handle'[t].place[1] = t
          /\ \A r \in Terminals : r # t => handle'[r] = handle[r]
      <3>1. handle'[t] = h
        BY <1>1, <2>3 DEF TypeInv
      <3>2. h.place[1] = t
        BY <2>4
      <3>3. QED
        BY <1>1, <2>3, <3>1, <3>2 DEF TypeInv
    <2>8. QED
      BY <1>2, <2>2, <2>3, <2>5, <2>6, <2>7, OwnHandles DEF DiskInv
  <1>6. CASE CloseFails(t)
    <2>1. /\ UNCHANGED <<leftover, disk, mode, spoilt>> /\ handle'[t] = NoFile
          /\ \A r \in Terminals : r # t => handle'[r] = handle[r]
      BY <1>6, CloseFailsCall DEF files
    <2>2. QED
      BY <1>2, <2>1, OwnHandles DEF DiskInv
  <1>7. QED
    BY <1>3, <1>4, <1>5, <1>6 DEF Remote, Neutral, Raises

\* A session that ends is that of a terminal.
LEMMA EndsOf ==
  ASSUME Inv, PlanInv, CallBreaks \/ Initialize \/ InitializeFails
  PROVE  At \in Terminals
  <1>1. CASE CallBreaks
    BY <1>1 DEF CallBreaks, Inv, OpInv
  <1>2. CASE Initialize \/ InitializeFails
    <2>1. pc = "verify"
      BY <1>2 DEF Initialize, InitializeFails
    <2>2. Fine
      BY <2>1 DEF PlanInv, Closing, Fine
    <2>3. QED
      BY <2>1, <2>2, StepTerminals
  <1>3. QED
    BY <1>1, <1>2

LEMMA DiskNext ==
  ASSUME Inv, Inv', PlanInv, DiskInv, CloseInv, Next
  PROVE  DiskInv'
  <1>1. TypeInv /\ KeywordInv /\ OpInv /\ HandleInv /\ op \in Ops
    BY TypeParts DEF Inv, KeywordInv
  <1>2. disk \in [Places -> Seq(Blocks)] /\ mode \in [Places -> Nat] /\ leftover \subseteq Files
        /\ spoilt \subseteq Places
    BY DEF DiskInv
  <1>3. CASE User \/ Return \/ CallRemote
    <2>1. UNCHANGED <<disk, mode, spoilt, handle, leftover>>
      BY <1>3 DEF Return, CallRemote, Ask, User, Begin, CopyFileToTarget, CopyFileFromTarget,
         CopyFileBetweenTargets, CopyDirectoryToTarget, CopyDirectoryPartly,
         CopyDirectoryMissing, CreateDirectoryInTarget, remote, files
    <2>2. QED
      BY <2>1 DEF DiskInv
  <1>4. CASE Moves
    <2>1. \A t \in Terminals : handle'[t] # NoFile => handle'[t].place[1] = t
      BY <1>1, <1>4, MovesLines DEF DiskInv
    <2>2. leftover' \subseteq Files /\ \A f \in leftover' : f.place[1] \in Terminals
      <3>1. CASE CallBreaks \/ Initialize \/ InitializeFails
        <4>1. leftover' = leftover \cup Left(At)
          BY <3>1 DEF CallBreaks, Initialize, InitializeFails, SessionEnds
        <4>2. At \in Terminals
          BY <3>1, EndsOf
        <4>3. QED
          BY <1>2, <4>1, <4>2, LeftOf DEF DiskInv
      <3>2. CASE ~(CallBreaks \/ Initialize \/ InitializeFails)
        <4>1. leftover' = leftover
          BY <1>1, <1>4, <3>2, MovesTalk DEF Talks
        <4>2. QED
          BY <1>2, <4>1 DEF DiskInv
      <3>3. QED
        BY <3>1, <3>2
    <2>3. mode' = mode /\ spoilt' = spoilt
      BY <1>4 DEF Moves, StartTask, CallLocal, CallReturns, CallBreaks, PromptFails,
         PromptWithout, Initialize, InitializeFails, ReadLocal, ReadRemote, DataRead,
         DataExpires, LocalFails, DataRefused, ChmodRefused, WriteLocal, WriteRemote, Started,
         Stopped, WriteExpires, files
    <2>4. disk' \in [Places -> Seq(Blocks)]
      <3>1. \/ disk' = disk
            \/ disk' = [disk EXCEPT ![Place] = <<>>]
            \/ disk' = [disk EXCEPT ![Place] = Append(@, op.block)]
        BY <1>4 DEF Moves, StartTask, CallLocal, CallReturns, CallBreaks, PromptFails,
           PromptWithout, Initialize, InitializeFails, ReadLocal, ReadRemote, DataRead,
           DataExpires, LocalFails, DataRefused, ChmodRefused, WriteLocal, WriteRemote, Started,
           Stopped, WriteExpires, files
      <3>2. op.block \in Blocks /\ <<>> \in Seq(Blocks)
        BY <1>1 DEF Ops
      <3>3. \A s \in Seq(Blocks) : Append(s, op.block) \in Seq(Blocks)
        BY <3>2
      <3>4. QED
        BY <1>2, <3>1, <3>2, <3>3
    <2>5. QED
      BY <1>2, <2>1, <2>2, <2>3, <2>4 DEF DiskInv
  <1>5. CASE \E t \in Terminals : Remote(t) \/ Raises(t)
    BY <1>5, RunDisk
  <1>6. CASE Collect
    <2>1. PICK f \in leftover : leftover' = leftover \ {f} /\ disk' = Flushed(f)
      BY <1>6 DEF Collect
    <2>2. disk' \in [Places -> Seq(Blocks)]
      BY <1>2, <2>1, FlushedOf
    <2>3. UNCHANGED <<handle, mode, spoilt>>
      BY <1>6 DEF Collect
    <2>4. QED
      BY <2>1, <2>2, <2>3 DEF DiskInv
  <1>7. ASSUME NEW t \in Terminals, Flush(t)
        PROVE  DiskInv'
    <2>1. handle[t] \in Files
      BY <1>1, <1>7 DEF Flush, TypeInv
    <2>2. disk' \in [Places -> Seq(Blocks)]
      BY <1>2, <1>7, <2>1, FlushedOf DEF Flush
    <2>3. /\ UNCHANGED <<leftover, mode, spoilt>>
          /\ \A r \in Terminals : r # t => handle'[r] = handle[r]
          /\ handle'[t] = Emptied(handle[t]) /\ Emptied(handle[t]).place = handle[t].place
      BY <1>1, <1>7, <2>1 DEF Flush, TypeInv, Emptied, Files
    <2>4. handle'[t].place[1] = t
      BY <1>7, <2>3 DEF DiskInv, Flush
    <2>5. QED
      BY <1>2, <2>2, <2>3, <2>4, OwnHandles DEF DiskInv
  <1>8. CASE \E t \in Terminals : Hang(t) \/ Revive(t) \/ Die(t)
    <2>1. UNCHANGED <<disk, mode, spoilt, handle, leftover>>
      BY <1>8 DEF Hang, Revive, Die, Breaks, files
    <2>2. QED
      BY <2>1 DEF DiskInv
  <1>9. QED
    BY <1>3, <1>4, <1>5, <1>6, <1>7, <1>8 DEF Next, Client, Environment, Moves

-----------------------------------------------------------------------------
(* A file to which nothing is written any more.                             *)

LEMMA RestsOn ==
  ASSUME NEW place, NEW contents, Rests(place, contents), Closed(place)',
         \A f \in leftover' : f \in leftover \/ f.buffer = <<>>
                              \/ \E t \in Terminals : f = handle[t] /\ handle[t] # NoFile,
         place \in spoilt \/ disk'[place] = disk[place],
         place \in spoilt => place \in spoilt'
  PROVE  Rests(place, contents)'
  <1>1. Alone(place) => Alone(place)'
    BY DEF Alone, Rests, Closed
  <1>2. QED
    BY <1>1 DEF Rests

LEMMA RestsRun ==
  ASSUME Inv, DiskInv, CloseInv, NEW t \in Terminals, Remote(t) \/ Raises(t),
         NEW place \in Places, NEW contents, Rests(place, contents),
         RunOpen(t) => <<t, NextCall(t).path>> # place
  PROVE  Rests(place, contents)'
  <1>1. TypeInv /\ OpInv /\ Closed(place)
    BY DEF Inv, Rests
  <1>2. CASE Neutral(t) \/ RunChmod(t)
    <2>1. /\ UNCHANGED <<leftover, disk, spoilt>> /\ SameFiles
          /\ \A r \in Terminals : r # t => handle'[r] = handle[r]
          /\ handle'[t] # NoFile => handle'[t].place = handle[t].place
      BY <1>2, NeutralSteps
    <2>2. Closed(place)'
      BY <1>1, <2>1 DEF Closed, SameFiles
    <2>3. QED
      BY <2>1, <2>2, RestsOn
  <1>3. CASE RunClose(t)
    <2>1. /\ t = At /\ sent /\ What = "close" /\ SessionCalls(out[t]) = {} /\ line[t] = "up"
      BY <1>3, RunsCall DEF RunClose
    <2>2. ToClose(t)
      BY <1>1, <2>1, StepAt DEF What, OpInv, CallSteps, ToClose
    <2>3. handle[t] \in Files /\ handle[t] # NoFile
      BY <1>1, <2>1, <2>2 DEF CloseInv, TypeInv
    <2>4. disk'[place] = disk[place]
      BY <1>1, <1>3, <2>3, FlushedOf DEF RunClose, Closed, DiskInv
    <2>5. /\ UNCHANGED <<leftover, spoilt>> /\ handle'[t] = NoFile
          /\ \A r \in Terminals : r # t => handle'[r] = handle[r]
      BY <1>1, <1>3 DEF RunClose, TypeInv
    <2>6. Closed(place)'
      BY <1>1, <2>5 DEF Closed
    <2>7. QED
      BY <2>4, <2>5, <2>6, RestsOn
  <1>4. CASE RunOpen(t)
    <2> DEFINE c == NextCall(t)
               p == <<t, c.path>>
               h == [n |-> c.n, place |-> p, size |-> c.size, write |-> c.write,
                     offset |-> 0, buffer |-> <<>>]
    <2>1. /\ handle' = [handle EXCEPT ![t] = h] /\ leftover' = leftover \cup Left(t)
          /\ spoilt' = spoilt \cup {p} \/ spoilt' = spoilt \ {p} \/ spoilt' = spoilt
          /\ disk' = disk \/ disk' = [disk EXCEPT ![p] = <<>>]
      BY <1>4 DEF RunOpen
    <2>2. h.place = p /\ p # place
      BY <1>4
    <2> HIDE DEF h, p
    <2>3. disk'[place] = disk[place] /\ (place \in spoilt => place \in spoilt')
      BY <2>1, <2>2 DEF DiskInv
    <2>4. Closed(place)'
      BY <1>1, <2>1, <2>2 DEF Closed, TypeInv
    <2>5. \A f \in leftover' : f \in leftover \/ (f = handle[t] /\ handle[t] # NoFile)
      BY <2>1, LeftOf
    <2>6. QED
      BY <2>3, <2>4, <2>5, RestsOn
  <1>5. CASE CloseFails(t)
    <2>1. /\ UNCHANGED <<leftover, disk, spoilt>> /\ handle'[t] = NoFile
          /\ \A r \in Terminals : r # t => handle'[r] = handle[r]
      BY <1>5, CloseFailsCall DEF files
    <2>2. Closed(place)'
      BY <1>1, <2>1 DEF Closed
    <2>3. QED
      BY <2>1, <2>2, RestsOn
  <1>6. QED
    BY <1>2, <1>3, <1>4, <1>5 DEF Remote, Neutral, Raises

LEMMA RestsAlone ==
  ASSUME Inv, DiskInv, NEW place \in Places, NEW contents, Rests(place, contents),
         \/ Collect
         \/ \E t \in Terminals : Flush(t) \/ Hang(t) \/ Revive(t) \/ Die(t)
  PROVE  Rests(place, contents)'
  <1>1. TypeInv /\ Closed(place) /\ leftover \subseteq Files /\ disk \in [Places -> Seq(Blocks)]
    BY DEF Inv, Rests, DiskInv
  <1>2. CASE Collect
    <2>1. PICK f \in leftover : leftover' = leftover \ {f} /\ disk' = Flushed(f)
      BY <1>2 DEF Collect
    <2>2. place \in spoilt \/ disk'[place] = disk[place]
      BY <1>1, <2>1, FlushedOf DEF Rests, Alone
    <2>3. UNCHANGED <<handle, spoilt>>
      BY <1>2 DEF Collect
    <2>4. Closed(place)'
      BY <1>1, <2>3 DEF Closed
    <2>5. QED
      BY <2>1, <2>2, <2>3, <2>4, RestsOn
  <1>3. ASSUME NEW t \in Terminals, Flush(t)
        PROVE  Rests(place, contents)'
    <2>1. handle[t] \in Files /\ handle[t] # NoFile
      BY <1>1, <1>3 DEF Flush, TypeInv
    <2>2. disk'[place] = disk[place]
      BY <1>1, <1>3, <2>1, FlushedOf DEF Flush, Closed
    <2>3. /\ UNCHANGED <<leftover, spoilt>>
          /\ \A r \in Terminals : r # t => handle'[r] = handle[r]
          /\ handle'[t].place = handle[t].place
      BY <1>1, <1>3, <2>1 DEF Flush, TypeInv, Emptied, Files
    <2>4. Closed(place)'
      BY <1>1, <2>1, <2>3 DEF Closed
    <2>5. QED
      BY <2>2, <2>3, <2>4, RestsOn
  <1>4. CASE \E t \in Terminals : Hang(t) \/ Revive(t) \/ Die(t)
    <2>1. UNCHANGED <<disk, spoilt, handle, leftover>>
      BY <1>4 DEF Hang, Revive, Die, Breaks, files
    <2>2. QED
      BY <1>1, <2>1, RestsOn DEF Closed
  <1>5. QED
    BY <1>2, <1>3, <1>4

\* A step of the keyword which does not write to the file.
LEMMA RestsMoves ==
  ASSUME Inv, PlanInv, DiskInv, NEW place \in Places, NEW contents, Rests(place, contents), Moves,
         (CallLocal /\ pc = "opento") \/ WriteLocal => Place # place
  PROVE  Rests(place, contents)'
  <1>1. TypeInv /\ KeywordInv /\ OpInv /\ HandleInv /\ Closed(place)
    BY TypeParts DEF Inv, Rests
  <1>2. Closed(place)'
    BY <1>1, MovesLines DEF Closed
  <1>3. \A f \in leftover' : f \in leftover
                             \/ \E t \in Terminals : f = handle[t] /\ handle[t] # NoFile
    <2>1. CASE CallBreaks \/ Initialize \/ InitializeFails
      <3>1. leftover' = leftover \cup Left(At) /\ At \in Terminals
        BY <2>1, EndsOf DEF CallBreaks, Initialize, InitializeFails, SessionEnds
      <3>2. QED
        BY <3>1, LeftOf
    <2>2. CASE ~(CallBreaks \/ Initialize \/ InitializeFails)
      BY <1>1, <2>2, MovesTalk DEF Talks
    <2>3. QED
      BY <2>1, <2>2
  <1>4. spoilt' = spoilt
    BY DEF Moves, StartTask, CallLocal, CallReturns, CallBreaks, PromptFails, PromptWithout,
       Initialize, InitializeFails, ReadLocal, ReadRemote, DataRead, DataExpires, LocalFails,
       DataRefused, ChmodRefused, WriteLocal, WriteRemote, Started, Stopped, WriteExpires, files
  <1>5. disk'[place] = disk[place]
    <2>1. CASE (CallLocal /\ pc = "opento") \/ WriteLocal
      BY <2>1 DEF CallLocal, WriteLocal, DiskInv
    <2>2. CASE ~((CallLocal /\ pc = "opento") \/ WriteLocal)
      BY <2>2 DEF Moves, StartTask, CallLocal, CallReturns, CallBreaks, PromptFails,
         PromptWithout, Initialize, InitializeFails, ReadLocal, ReadRemote, DataRead,
         DataExpires, LocalFails, DataRefused, ChmodRefused, WriteLocal, WriteRemote, Started,
         Stopped, WriteExpires, files
    <2>3. QED
      BY <2>1, <2>2
  <1>6. QED
    BY <1>2, <1>3, <1>4, <1>5, RestsOn

\* The mode of a file is set by the keyword that is under way.
LEMMA ModeSteps ==
  ASSUME Inv, Next
  PROVE  mode' = mode \/ \E t \in Terminals :
             /\ RunChmod(t) /\ t = At /\ sent /\ What = "chmod"
             /\ mode' = [mode EXCEPT ![<<t, This.path>>] = op.n]
  <1>1. ASSUME NEW t \in Terminals, RunChmod(t)
        PROVE  /\ t = At /\ sent /\ What = "chmod"
               /\ mode' = [mode EXCEPT ![<<t, This.path>>] = op.n]
    <2>1. /\ t = At /\ sent /\ NextCall(t) = Call(t, What) /\ NextCall(t).what = What
          /\ NextCall(t).what = "chmod"
      BY <1>1, RunsCall DEF RunChmod
    <2>2. Call(t, What).path = This.path /\ Call(t, What).n = op.n
      BY DEF Call
    <2>3. QED
      BY <1>1, <2>1, <2>2 DEF RunChmod
  <1>2. ASSUME NEW t \in Terminals, Remote(t) \/ Raises(t), ~RunChmod(t)
        PROVE  mode' = mode
    BY <1>2 DEF Remote, RunOpen, RunClose, OpenFails, Raises, CloseFails, FileFails, RunOther,
       RunRead, RunWrite, WriteBlock, TakeMessage, files
  <1>3. CASE \/ User \/ Client \/ InitializeFails \/ LocalFails \/ DataRefused \/ Collect
             \/ \E t \in Terminals : Flush(t) \/ Hang(t) \/ Revive(t) \/ Die(t)
    BY <1>3 DEF User, Begin, CopyFileToTarget, CopyFileFromTarget, CopyFileBetweenTargets,
       CopyDirectoryToTarget, CopyDirectoryPartly, CopyDirectoryMissing,
       CreateDirectoryInTarget, Client, StartTask, Return, CallLocal, CallRemote, CallReturns,
       CallBreaks, PromptFails, PromptWithout, Initialize, InitializeFails, ReadLocal,
       ReadRemote, DataRead, DataExpires, LocalFails, DataRefused, ChmodRefused, WriteLocal,
       WriteRemote, Started, Stopped, WriteExpires, Collect, Flush, Hang, Revive, Die, Breaks,
       files
  <1>4. QED
    BY <1>1, <1>2, <1>3 DEF Next, Environment

-----------------------------------------------------------------------------
(* The source of the copy.                                                  *)

\* What is run by the remote Python of a terminal which the step waits for.
LEMMA RunsWhat ==
  ASSUME Inv, NEW t \in Terminals, Exchange(t), Remote(t) \/ Raises(t)
  PROVE  /\ UNCHANGED <<op, pc, sent, outcome>> /\ Waiting(t) /\ out[t] = <<>>
         /\ \A r \in Terminals : r # t => UNCHANGED <<in[r], out[r], blocked[r], handle[r]>>
         /\ sent /\ t = At =>
               /\ What = "open" => RunOpen(t) \/ OpenFails(t)
               /\ What \in {"handle", "prompt"} => RunOther(t)
               /\ What = "close" => RunClose(t) \/ CloseFails(t)
               /\ What = "chmod" => RunChmod(t) \/ OpenFails(t)
               /\ NextCall(t) = Call(t, What)
         /\ pc = "data" => t = op.from /\ (RunRead(t) \/ FileFails(t))
         /\ pc = "start" => t = op.to /\ RunWrite(t)
         /\ pc = "stop" => /\ t = op.to /\ (WriteBlock(t) \/ FileFails(t))
                           /\ Head(in[t]).block = op.block
  <1>1. TypeInv /\ OpInv /\ UNCHANGED <<op, pc, sent, outcome>>
    BY DEF Inv, Remote, RunOpen, RunClose, RunChmod, RunOther, OpenFails, Raises, CloseFails,
       FileFails, RunRead, RunWrite, WriteBlock, TakeMessage, control
  <1>2. in[t] # <<>>
    BY DEF Remote, RunOpen, RunClose, RunChmod, RunOther, OpenFails, Raises, CloseFails,
       FileFails, RunRead, RunWrite, WriteBlock, TakeMessage, Reads
  <1>3. \A r \in Terminals : r # t => UNCHANGED <<in[r], out[r], blocked[r], handle[r]>>
    <2>1. \A r \in Terminals : r # t => UNCHANGED <<in[r], out[r], blocked[r]>>
      BY <1>1, OneTerminal DEF Remote, RunOpen, RunClose, RunChmod, RunOther, OpenFails, Raises,
         CloseFails, FileFails, RunRead, RunWrite, WriteBlock, TakeMessage, Reply, TypeInv
    <2>2. \A r \in Terminals : r # t => handle'[r] = handle[r]
      BY <1>1 DEF Remote, RunOpen, RunClose, RunChmod, RunOther, OpenFails, Raises, CloseFails,
         FileFails, RunRead, RunWrite, WriteBlock, TakeMessage, TypeInv
    <2>3. QED
      BY <2>1, <2>2
  <1>4. /\ Waiting(t) /\ out[t] = <<>>
        /\ ~blocked[t] /\ Head(in[t]).k = "call" =>
              sent /\ At = t /\ Head(in[t]) = Call(t, What)
        /\ ~blocked[t] /\ Head(in[t]).k = "read" => pc = "data" /\ t = op.from
        /\ ~blocked[t] /\ Head(in[t]).k = "write" => pc = "start" /\ t = op.to
        /\ blocked[t] => /\ pc = "stop" /\ t = op.to
                         /\ Head(in[t]) = [k |-> "data", block |-> op.block]
    BY <1>2, RunsAwaited
  <1>5. sent => pc \notin {"data", "start", "stop"}
    BY <1>1 DEF OpInv, CallSteps
  <1>6. Call(t, What).what = What
    BY DEF Call
  <1>7. CASE \/ RunOpen(t) \/ RunClose(t) \/ RunChmod(t) \/ RunOther(t)
             \/ OpenFails(t) \/ CloseFails(t)
    <2>1. ~blocked[t] /\ Head(in[t]).k = "call"
      BY <1>7 DEF RunOpen, RunClose, RunChmod, RunOther, OpenFails, CloseFails, Reads
    <2>2. sent /\ At = t /\ NextCall(t) = Call(t, What)
      BY <1>4, <2>1 DEF NextCall
    <2>3. /\ RunOpen(t) => What = "open"
          /\ RunClose(t) => What = "close"
          /\ RunChmod(t) => What = "chmod"
          /\ RunOther(t) => What \notin {"open", "close", "chmod"}
          /\ OpenFails(t) => What \in {"open", "mkdir", "chmod"}
          /\ CloseFails(t) => What = "close"
      BY <1>6, <2>2 DEF RunOpen, RunClose, RunChmod, RunOther, OpenFails, CloseFails
    <2>4. QED
      BY <1>1, <1>3, <1>4, <1>5, <1>7, <2>2, <2>3
  <1>8. CASE RunRead(t)
    <2>1. pc = "data" /\ t = op.from
      BY <1>4, <1>8 DEF RunRead, Reads
    <2>2. QED
      BY <1>1, <1>3, <1>4, <1>5, <1>8, <2>1
  <1>9. CASE RunWrite(t)
    <2>1. pc = "start" /\ t = op.to
      BY <1>4, <1>9 DEF RunWrite, Reads
    <2>2. QED
      BY <1>1, <1>3, <1>4, <1>5, <1>9, <2>1
  <1>10. CASE WriteBlock(t) \/ TakeMessage(t)
    <2>1. pc = "stop" /\ t = op.to /\ Head(in[t]) = [k |-> "data", block |-> op.block]
      BY <1>4, <1>10 DEF WriteBlock, TakeMessage
    <2>2. WriteBlock(t) /\ Head(in[t]).block = op.block
      BY <1>10, <2>1 DEF TakeMessage
    <2>3. QED
      BY <1>1, <1>3, <1>4, <1>5, <2>1, <2>2
  <1>11. CASE FileFails(t)
    <2>1. Head(in[t]).k = (IF blocked[t] THEN "data" ELSE "read")
      BY <1>11 DEF FileFails
    <2>2. \/ pc = "data" /\ t = op.from
          \/ pc = "stop" /\ t = op.to /\ Head(in[t]) = [k |-> "data", block |-> op.block]
      BY <1>4, <2>1
    <2>3. QED
      BY <1>1, <1>3, <1>4, <1>5, <1>11, <2>2
  <1>12. QED
    BY <1>7, <1>8, <1>9, <1>10, <1>11 DEF Remote, Raises

LEMMA SourceStays ==
  ASSUME SameKeyword, This' = This, handle'[op.from] = handle[op.from]
  PROVE  \A k : SourceAt(k) => SourceAt(k)'
  BY DEF SameKeyword, SourceAt

Sourced == {"opento", "handlefrom", "read", "handleto", "write", "start", "stop"}

\* What goes on in the other terminal, and what does not touch the source.
LEMMA SourceSame ==
  ASSUME SourceInv, UNCHANGED <<op, pc>>, op.from # "local" => UNCHANGED out[op.from],
         op.from # "local" => handle'[op.from] = handle[op.from]
  PROVE  SourceInv'
  <1>1. SUFFICES ASSUME Fine', op.from # "local" PROVE SourceInv'
    BY DEF SourceInv
  <1>2. Fine /\ (Replied(op.from)' <=> Replied(op.from))
    BY <1>1 DEF Fine, Replied
  <1>3. SameKeyword /\ This' = This
    BY DEF SameKeyword, This
  <1>4. \A k : SourceAt(k) => SourceAt(k)'
    BY <1>1, <1>3, SourceStays
  <1>5. SourceAt(0) => SourceAt(0)'
    BY <1>4
  <1>6. PICK k : k = op.read
    OBVIOUS
  <1>7. (SourceAt(op.read) => SourceAt(k)') /\ (SourceAt(op.read + 1) => SourceAt(k + 1)')
    BY <1>4, <1>6
  <1>8. op'.read = k
    BY <1>6
  <1>9. QED
    BY <1>1, <1>2, <1>3, <1>5, <1>7, <1>8 DEF SourceInv, SourceAt

LEMMA SourceRun ==
  ASSUME Inv, PlanInv, ExchangeInv, SourceInv, NEW t \in Terminals, Remote(t) \/ Raises(t)
  PROVE  SourceInv'
  <1>1. TypeInv /\ OpInv /\ HandleInv /\ op \in Ops /\ UNCHANGED <<op, pc, sent>>
    BY DEF Inv, TypeInv, Remote, RunOpen, RunClose, RunChmod, RunOther, OpenFails, Raises,
       CloseFails, FileFails, RunRead, RunWrite, WriteBlock, TakeMessage, control
  <1>2. SUFFICES ASSUME Fine, op.from # "local", pc \in Sourced \cup {"openfrom", "data"}
                 PROVE  SourceInv'
    BY <1>1 DEF SourceInv, Sourced, Fine
  <1>3. op.from \in Terminals /\ op.from # op.to
    BY <1>1, <1>2 DEF Ops, Sites, OpInv, Fine
  <1>4. Exchange(op.from)
    BY <1>2, <1>3, StepTerminals DEF ExchangeInv, Sourced, FileSteps
  <1>5. CASE t # op.from
    <2>1. out'[op.from] = out[op.from] /\ handle'[op.from] = handle[op.from]
      <3>1. out'[op.from] = out[op.from]
        BY <1>1, <1>3, <1>5, OneTerminal DEF Remote, RunOpen, RunClose, RunChmod, RunOther,
           OpenFails, Raises, CloseFails, FileFails, RunRead, RunWrite, WriteBlock, TakeMessage,
           Reply
      <3>2. handle'[op.from] = handle[op.from]
        BY <1>1, <1>3, <1>5 DEF Remote, RunOpen, RunClose, RunChmod, RunOther, OpenFails,
           Raises, CloseFails, FileFails, RunRead, RunWrite, WriteBlock, TakeMessage, TypeInv
      <3>3. QED
        BY <3>1, <3>2
    <2>2. QED
      BY <1>1, <2>1, SourceSame
  <1>6. CASE t = op.from
    <2>1. /\ Waiting(t) /\ out[t] = <<>>
          /\ sent /\ t = At =>
               /\ What = "open" => RunOpen(t) \/ OpenFails(t)
               /\ What = "handle" => RunOther(t)
               /\ NextCall(t) = Call(t, What)
          /\ pc = "data" => t = op.from /\ (RunRead(t) \/ FileFails(t))
          /\ pc = "start" => t = op.to
          /\ pc = "stop" => t = op.to
      BY <1>3, <1>4, <1>6, RunsWhat
    <2>2. pc \in {"openfrom", "handlefrom", "data"}
      BY <1>2, <1>3, <1>6, <2>1 DEF Waiting, Sourced, At
    <2>3. CASE pc = "openfrom"
      <3>1. sent /\ t = At /\ What = "open"
        BY <1>3, <1>6, <2>1, <2>3, StepAt DEF Waiting
      <3>2. CASE OpenFails(t)
        <4>1. (Replied(t)' <=> Replied(t)) /\ ~Replied(t)
          BY <2>1, <3>2, NeutralSteps DEF Neutral, Replied, SessionCalls
        <4>2. QED
          BY <1>1, <1>6, <2>3, <4>1 DEF SourceInv
      <3>3. CASE RunOpen(t)
        <4> DEFINE c == Call(t, What)
                   h == [n |-> c.n, place |-> <<t, c.path>>, size |-> c.size,
                         write |-> c.write, offset |-> 0, buffer |-> <<>>]
        <4>1. handle'[t] = h
          BY <1>1, <2>1, <3>1, <3>3 DEF RunOpen, TypeInv
        <4>2. /\ c.n = op.n /\ c.path = This.path /\ c.size = op.size
              /\ ~c.write
          BY <1>3, <1>6 DEF Call
        <4>3. /\ h.n = op.n /\ h.place = <<op.from, This.path>> /\ h.size = op.size
              /\ ~h.write /\ h.offset = 0 /\ h.buffer = <<>>
          BY <1>6, <4>2
        <4>4. SourceAt(0)'
          <5> HIDE DEF h
          <5>1. QED
            BY <1>1, <1>6, <4>1, <4>3 DEF SourceAt, This
        <4>5. QED
          BY <1>1, <2>3, <4>4 DEF SourceInv
      <3>4. QED
        BY <2>1, <3>1, <3>2, <3>3
    <2>4. CASE pc = "handlefrom"
      <3>1. sent /\ t = At /\ What = "handle"
        BY <1>3, <1>6, <2>1, <2>4, StepAt DEF Waiting, What
      <3>2. handle' = handle
        BY <2>1, <3>1 DEF RunOther
      <3>3. SourceAt(op.read)
        BY <1>2, <2>4 DEF SourceInv
      <3>4. QED
        BY <1>1, <2>4, <3>2, <3>3 DEF SourceInv, SourceAt, This
    <2>6. CASE pc = "data" /\ FileFails(t)
      <3>1. out' = out /\ handle' = handle
        BY <2>6 DEF FileFails
      <3>2. SourceAt(op.read)
        BY <1>2, <1>6, <2>1, <2>6 DEF SourceInv, Singles
      <3>3. SourceAt(op.read)'
        BY <1>1, <3>1, <3>2 DEF SourceAt, This
      <3>4. QED
        BY <1>1, <1>6, <2>1, <2>6, <3>1, <3>3 DEF SourceInv
    <2>5. CASE pc = "data" /\ RunRead(t)
      <3> DEFINE f == handle[t]
                 b == IF f.offset = f.size THEN EndOfFile
                      ELSE Block(f.n, f.place[2], f.offset + 1)
      <3>1. SourceAt(op.read)
        BY <1>2, <1>6, <2>1, <2>5 DEF SourceInv, Singles
      <3>2. /\ Write(t, <<[k |-> "data", block |-> b]>>)
            /\ handle' = IF b = EndOfFile THEN handle
                         ELSE [handle EXCEPT ![t].offset = @ + 1]
        BY <2>1, <2>5 DEF RunRead
      <3>3. b = IF op.read = op.size THEN EndOfFile ELSE Block(op.n, This.path, op.read + 1)
        BY <1>6, <3>1 DEF SourceAt
      <3>4. out'[t] = <<[k |-> "data", block |-> b]>>
        <4> DEFINE m == [k |-> "data", block |-> b]
        <4>1. Write(t, <<m>>)
          BY <3>2
        <4> HIDE DEF m
        <4>2. out'[t] = <<m>>
          BY <1>1, <2>1, <4>1, OneTerminal, Singles
        <4>3. QED
          BY <4>2 DEF m
      <3>5. op.n > 0 /\ op.n \in Nat
        BY <1>1, <1>2 DEF OpInv, Fine, Ops, TypeInv
      <3>6. CASE op.read = op.size
        BY <1>1, <1>6, <2>5, <3>3, <3>4, <3>6 DEF SourceInv
      <3>7. CASE op.read # op.size
        <4>1. b # EndOfFile
          BY <3>3, <3>5, <3>7 DEF Block, EndOfFile
        <4>2. f # NoFile /\ f \in Files
          <5>1. Opened(t)
            BY <1>6, <2>5 DEF Opened, Copying
          <5>2. QED
            BY <1>1, <5>1 DEF HandleInv, TypeInv
        <4>3. handle'[t] = [f EXCEPT !.offset = @ + 1]
          BY <1>1, <3>2, <4>1 DEF TypeInv
        <4>4. SourceAt(op.read + 1)'
          BY <1>1, <1>6, <3>1, <4>2, <4>3 DEF SourceAt, This, Files
        <4>5. QED
          BY <1>1, <1>6, <2>5, <3>3, <3>4, <3>7, <4>4 DEF SourceInv, This
      <3>8. QED
        BY <3>6, <3>7
    <2>7. QED
      BY <2>1, <2>2, <2>3, <2>4, <2>5, <2>6
  <1>7. QED
    BY <1>5, <1>6

LEMMA SourceAlone ==
  ASSUME Inv, SourceInv,
         \/ Collect
         \/ \E t \in Terminals : Flush(t) \/ Hang(t) \/ Revive(t) \/ Die(t)
  PROVE  SourceInv'
  <1>1. TypeInv /\ UNCHANGED <<op, pc, sent, out>>
    BY DEF Inv, Collect, Flush, Hang, Revive, Die, Breaks, control
  <1>2. CASE op.from # "local" => handle'[op.from] = handle[op.from]
    BY <1>1, <1>2, SourceSame
  <1>3. CASE op.from # "local" /\ handle'[op.from] # handle[op.from]
    <2>1. PICK t \in Terminals : Flush(t)
      BY <1>3 DEF Collect, Hang, Revive, Die, Breaks
    <2>2. handle[op.from].buffer # <<>>
      <3>1. op.from = t
        BY <1>1, <1>3, <2>1 DEF Flush, TypeInv, Ops, Sites
      <3>2. QED
        BY <2>1, <3>1 DEF Flush
    <2>3. \A k : ~SourceAt(k)
      BY <2>2 DEF SourceAt
    <2>4. QED
      BY <1>1, <1>3, <2>3 DEF SourceInv, Fine, Replied
  <1>4. QED
    BY <1>2, <1>3

\* A call of the keyword that succeeds.
LEMMA SucceededHandles ==
  ASSUME Inv, PlanInv, Fine, Progress, ~Initialize
  PROVE  UNCHANGED <<line, blocked, handle, leftover>>
  <1>1. TypeInv /\ KeywordInv /\ OpInv /\ HandleInv
    BY TypeParts DEF Inv
  <1>2. Moves /\ ~(CallBreaks \/ Initialize \/ InitializeFails)
    <2>1. Moves
      BY DEF Progress, Succeeded, Moves
    <2>2. op'.error = "none"
      BY FineSteps
    <2>3. op \in Ops
      BY <1>1 DEF TypeInv
    <2>4. ~CallBreaks
      <3>1. SUFFICES ASSUME CallBreaks PROVE FALSE
        OBVIOUS
      <3>2. Fails("SessionBroken") /\ pc \in FailSteps
        BY <3>1 DEF CallBreaks, FailSteps
      <3>3. Failed'
        BY <2>3, <3>2, FailsFields
      <3>4. QED
        BY <2>2, <3>3 DEF Failed
    <2>5. ~InitializeFails
      BY <2>2, <2>3, StepFields DEF InitializeFails
    <2>6. QED
      BY <2>1, <2>4, <2>5
  <1>3. QED
    BY <1>1, <1>2, MovesTalk DEF Talks

LEMMA SourceProgress ==
  ASSUME Inv, PlanInv, LastInv, ExchangeInv, SourceInv, Fine, Progress
  PROVE  SourceInv'
  <1>1. TypeInv /\ KeywordInv /\ OpInv /\ CallInv /\ HandleInv /\ op \in Ops
    BY TypeParts DEF Inv, KeywordInv
  <1>2. /\ op'.error = "none" /\ SameKeyword /\ ~sent' /\ op.todo # <<>>
        /\ Begins \/ Ends \/ GoesOn
    BY FineSteps
  <1>3. SUFFICES ASSUME op.from # "local", pc' \in Sourced \cup {"openfrom", "data"}
                 PROVE  SourceInv'
    BY <1>2 DEF SourceInv, Sourced, SameKeyword
  <1>4. op.from \in Terminals /\ op.from # op.to
    BY <1>1, <1>3 DEF Ops, Sites, OpInv, Fine
  <1>5. CASE StartTask \/ Initialize
    <2>1. pc' = "openfrom"
      <3>1. This.do \in {"init", "mkdir", "file", "chmod"}
        BY <1>1, <1>2, ThisTask DEF TaskFacts, Tasks
      <3>2. StartTask
        BY <1>1, <1>3, <1>5, StepFields DEF Initialize, Sourced
      <3>3. QED
        BY <1>3, <3>1, <3>2 DEF StartTask, GoOn, Step, Sourced
    <2>2. ~Replied(op.from)'
      <3>1. \A t \in Terminals : ~Replied(t)'
        BY <1>1, MovesQuiet DEF Progress, Succeeded, Moves
      <3>2. op'.from = op.from
        BY <1>2 DEF SameKeyword
      <3>3. PICK r \in Terminals : r = op.from
        BY <1>4
      <3>4. ~Replied(r)' /\ op'.from = r
        BY <3>1, <3>2, <3>3
      <3>5. QED
        BY <3>4 DEF Replied
    <2>3. QED
      BY <2>1, <2>2 DEF SourceInv
  <1>6. CASE ~StartTask /\ ~Initialize
    <2>1. handle' = handle
      BY <1>6, SucceededHandles
    <2>2. GoesOn /\ pc' # "openfrom" /\ pc \in FileSteps
      <3>1. pc # "task"
        BY <1>6 DEF Progress, Succeeded, CallLocal, CallReturns, CallSteps, ReadLocal,
           ReadRemote, DataRead, WriteLocal, WriteRemote, Started, Stopped
      <3>2. ~Ends
        BY <1>1, <1>3, StepFields DEF Ends, Sourced
      <3>3. GoesOn
        BY <1>2, <3>1, <3>2 DEF Begins
      <3>4. pc' # "openfrom"
        BY <1>1, <3>3, MovesFlow DEF Progress, Succeeded, Moves, Flow, GoesOn, FileSteps,
           Copying
      <3>5. QED
        BY <3>3, <3>4 DEF GoesOn
    <2>3. This' = This
      BY <2>2 DEF GoesOn, This
    <2>4. \A k : SourceAt(k) => SourceAt(k)'
      BY <1>2, <2>1, <2>3, SourceStays
    <2>5. ASSUME SourceAt(op.read), op'.read = op.read, pc' \in Sourced
          PROVE  SourceInv'
      <3>1. PICK k : k = op.read
        OBVIOUS
      <3>2. SourceAt(k)' /\ op'.read = k
        BY <2>4, <2>5, <3>1
      <3>3. QED
        BY <2>5, <3>2 DEF SourceInv, Sourced, SourceAt
    <2>6. CASE Succeeded
      <3>1. pc \in CallSteps /\ Succeeds
        BY <2>6 DEF Succeeded, CallLocal, CallReturns
      <3>2. op' = op
        BY <1>1, <1>3, <3>1, SucceedsGoesOn, StepFields DEF Ends, Sourced
      <3>3. \/ pc = "openfrom" /\ pc' = "opento"
            \/ pc \in {"opento", "handlefrom", "handleto"} /\ pc' \in Sourced
        BY <1>1, <1>3, <3>1, SucceedsSteps DEF Sourced
      <3>4. CASE pc = "openfrom"
        <4>1. At = op.from /\ What = "open"
          BY <3>4, StepAt
        <4>2. CallReturns /\ Answer(At, What).k = "reply"
          BY <1>4, <2>6, <4>1 DEF Succeeded, CallLocal, Terminals
        <4>3. Replied(op.from)
          BY <1>1, <4>1, <4>2, ReturnsReplied
        <4>4. op.read = 0
          BY <3>4 DEF PlanInv, Early
        <4>5. SourceAt(op.read)
          BY <1>3, <3>4, <4>3, <4>4 DEF SourceInv
        <4>6. QED
          BY <2>5, <3>2, <3>3, <3>4, <4>5 DEF Sourced
      <3>5. CASE pc \in {"opento", "handlefrom", "handleto"}
        <4>1. SourceAt(op.read)
          BY <1>3, <3>5 DEF SourceInv
        <4>2. QED
          BY <2>5, <3>2, <3>3, <3>5, <4>1
      <3>6. QED
        BY <3>3, <3>4, <3>5
    <2>7. CASE WriteLocal \/ WriteRemote \/ Started \/ Stopped
      <3>1. op' = op /\ pc \in Sourced /\ pc' \in Sourced
        BY <1>1, <2>7, StepFields DEF WriteLocal, WriteRemote, Started, Stopped, Sourced
      <3>2. SourceAt(op.read)
        BY <1>3, <3>1 DEF SourceInv, Sourced
      <3>3. QED
        BY <2>5, <3>1, <3>2
    <2>8. CASE ReadRemote
      <3>1. op' = op /\ pc = "read" /\ pc' = "data" /\ out' = out
        BY <1>1, <2>8, StepFields DEF ReadRemote
      <3>2. SourceAt(op.read)
        BY <1>3, <3>1 DEF SourceInv
      <3>3. out[op.from] = <<>>
        <4>1. Exchange(op.from)
          BY <1>4, <3>1, StepTerminals DEF ExchangeInv, FileSteps
        <4>2. ~Waiting(op.from)
          BY <1>1, <3>1 DEF Waiting, OpInv, CallSteps
        <4>3. QED
          BY <4>1, <4>2, SilentStep DEF Silence
      <3>4. PICK k : k = op.read
        OBVIOUS
      <3>5. SourceAt(k)' /\ op'.read = k
        BY <2>4, <3>1, <3>2, <3>4
      <3>6. QED
        BY <3>1, <3>3, <3>5 DEF SourceInv, SourceAt
    <2>9. CASE DataRead
      <3> DEFINE awaited == Printed(op.from, "data")
      <3>1. pc = "data" /\ Take(op.from, awaited)
            /\ Read(out[op.from][FirstOf(op.from, awaited)].block)
        BY <2>9 DEF DataRead
      <3>2. Exchange(op.from)
        BY <1>4, <3>1, StepTerminals DEF ExchangeInv, FileSteps
      <3>3. PICK m : out[op.from] = <<m>> /\ out[op.from][FirstOf(op.from, awaited)] = m
        BY <1>4, <3>1, <3>2, TakesAwaited
      <3>4. m.block \in Blocks /\ Read(m.block)
        <4>1. Read(m.block)
          BY <3>1, <3>3
        <4>2. m.block \in Blocks
          BY <1>1, <2>9, <3>3, DataType DEF DataRead
        <4>3. QED
          BY <4>1, <4>2
      <3>5. /\ op'.read = IF m.block = EndOfFile THEN op.read ELSE op.read + 1
            /\ pc' = IF m.block = EndOfFile THEN "promptto"
                     ELSE IF op.read = 0 /\ op.to # "local" THEN "handleto" ELSE "write"
        BY <1>1, <3>4, ReadFields
      <3>6. m.block # EndOfFile /\ op'.read = op.read + 1 /\ pc' \in Sourced
        BY <1>3, <3>5 DEF Sourced
      <3>7. SourceAt(op.read + 1)
        BY <1>3, <3>1, <3>3, <3>6, Singles DEF SourceInv
      <3>8. PICK k : k = op.read + 1
        OBVIOUS
      <3>9. SourceAt(k)' /\ op'.read = k
        BY <2>4, <3>6, <3>7, <3>8
      <3>10. QED
        BY <3>6, <3>9 DEF SourceInv, SourceAt, Sourced
    <2>10. QED
      BY <1>3, <1>6, <2>6, <2>7, <2>8, <2>9 DEF Progress, ReadLocal
  <1>7. QED
    BY <1>5, <1>6

LEMMA SourceNext ==
  ASSUME Inv, PlanInv, LastInv, ExchangeInv, SourceInv, Next
  PROVE  SourceInv'
  <1>1. CASE User \/ Return
    <2>1. pc' \in {"task", "idle"}
      BY <1>1, BeginsPlan DEF Return
    <2>2. QED
      BY <2>1 DEF SourceInv
  <1>2. CASE CallRemote
    <2>1. UNCHANGED <<op, pc, handle, out>>
      BY <1>2 DEF CallRemote, Ask
    <2>2. QED
      BY <2>1, SourceSame
  <1>3. CASE Moves
    <2>1. CASE Failed'
      BY <2>1 DEF SourceInv, Fine, Failed
    <2>2. QED
      BY <1>3, <2>1, MovesFine, SourceProgress
  <1>4. QED
    BY <1>1, <1>2, <1>3, SourceRun, SourceAlone DEF Next, Client, Environment, Moves

-----------------------------------------------------------------------------
(* The target of the copy.                                                  *)

LEMMA SourceFacts ==
  ASSUME NEW n \in Nat, NEW path \in Paths
  PROVE  /\ Source(n, path, 0) = <<>>
         /\ \A k \in Nat :
               /\ Source(n, path, k) \in Seq(Blocks) /\ Len(Source(n, path, k)) = k
               /\ \A i \in 1 .. k : Source(n, path, k)[i] = Block(n, path, i)
               /\ Append(Source(n, path, k), Block(n, path, k + 1)) = Source(n, path, k + 1)
  <1>1. \A k \in Nat : /\ Source(n, path, k) \in Seq(Blocks) /\ Len(Source(n, path, k)) = k
                       /\ \A i \in 1 .. k : Source(n, path, k)[i] = Block(n, path, i)
    <2> SUFFICES ASSUME NEW k \in Nat
                 PROVE  /\ Source(n, path, k) \in Seq(Blocks) /\ Len(Source(n, path, k)) = k
                        /\ \A i \in 1 .. k : Source(n, path, k)[i] = Block(n, path, i)
      OBVIOUS
    <2>1. \A i \in 1 .. k : Block(n, path, i) \in Blocks
      BY DEF Block, Blocks
    <2>2. Source(n, path, k) \in [1 .. k -> Blocks]
      BY <2>1 DEF Source
    <2>3. Source(n, path, k) \in Seq(Blocks) /\ DOMAIN Source(n, path, k) = 1 .. k
      BY <2>2
    <2>4. Len(Source(n, path, k)) = k
      BY <2>3
    <2>5. QED
      BY <2>3, <2>4 DEF Source
  <1>2. Source(n, path, 0) = <<>>
    <2>1. Source(n, path, 0) \in Seq(Blocks) /\ Len(Source(n, path, 0)) = 0
      BY <1>1
    <2>2. QED
      BY <2>1
  <1>3. ASSUME NEW k \in Nat
        PROVE  Append(Source(n, path, k), Block(n, path, k + 1)) = Source(n, path, k + 1)
    <2> DEFINE s == Source(n, path, k)
               b == Block(n, path, k + 1)
               r == Source(n, path, k + 1)
    <2>1. /\ s \in Seq(Blocks) /\ Len(s) = k /\ r \in Seq(Blocks) /\ Len(r) = k + 1
          /\ \A i \in 1 .. k : s[i] = Block(n, path, i)
          /\ \A i \in 1 .. k + 1 : r[i] = Block(n, path, i)
      BY <1>1
    <2>2. b \in Blocks
      BY DEF Block, Blocks
    <2> HIDE DEF s, r
    <2>3. /\ Append(s, b) \in Seq(Blocks) /\ Len(Append(s, b)) = k + 1
          /\ \A i \in 1 .. k + 1 : Append(s, b)[i] = r[i]
      <3> HIDE DEF b
      <3>1. \A i \in 1 .. k : Append(s, b)[i] = s[i] /\ i \in 1 .. k + 1
        BY <2>1, <2>2
      <3>2. Append(s, b)[k + 1] = b /\ r[k + 1] = b
        BY <2>1, <2>2 DEF b
      <3>3. \A i \in 1 .. k + 1 : i \in 1 .. k \/ i = k + 1
        OBVIOUS
      <3>4. QED
        BY <2>1, <2>2, <3>1, <3>2, <3>3
    <2>4. Append(s, b) = r
      BY <2>1, <2>3, SeqEqual
    <2>5. QED
      BY <2>4 DEF s, r
  <1>4. QED
    BY <1>1, <1>2, <1>3

\* Nothing is done with the target.
LEMMA HoldsKept ==
  ASSUME SameKeyword, This' = This,
         disk'[Place] = disk[Place] \/ (op.to # "local" /\ Place \in spoilt),
         Place \in spoilt => Place \in spoilt',
         op.to # "local" => handle'[op.to] = handle[op.to],
         \A f \in leftover' : f \in leftover \/ f.buffer = <<>> \/ f.place # Place
  PROVE  \A k : Holds(k) => Holds(k)'
  <1>1. Place' = Place /\ op'.to = op.to /\ op'.n = op.n
    BY DEF Place, SameKeyword
  <1>2. Alone(Place) => Alone(Place)'
    BY <1>1 DEF Alone
  <1>3. QED
    BY <1>1, <1>2 DEF Holds

LEMMA FlushHolds ==
  ASSUME Inv, DiskInv, op.to # "local", handle[op.to] \in Files, This.path \in Paths,
         Place \notin spoilt, NEW k \in Nat, Holds(k)
  PROVE  Flushed(handle[op.to])[Place] = Source(op.n, This.path, k)
  <1> DEFINE h == handle[op.to]
             path == This.path
             n == op.n
  <1>1. /\ h.place = Place /\ disk[Place] = Source(n, path, h.offset)
        /\ h.offset + Len(h.buffer) = k
        /\ \A i \in 1 .. Len(h.buffer) : h.buffer[i] = Block(n, path, h.offset + i)
    BY DEF Holds
  <1>2. /\ h \in Files /\ h.offset \in Nat /\ h.buffer \in Seq(Blocks) /\ Len(h.buffer) \in Nat
        /\ n \in Nat /\ path \in Paths
    BY FileFields DEF Inv, TypeInv, Ops
  <1>3. disk \in [Places -> Seq(Blocks)]
    BY DEF DiskInv
  <1> HIDE DEF h, path, n
  <1>4. /\ Source(n, path, h.offset) \in Seq(Blocks) /\ Len(Source(n, path, h.offset)) = h.offset
        /\ \A i \in 1 .. h.offset : Source(n, path, h.offset)[i] = Block(n, path, i)
    BY <1>2, SourceFacts
  <1>5. /\ Source(n, path, k) \in Seq(Blocks) /\ Len(Source(n, path, k)) = k
        /\ \A i \in 1 .. k : Source(n, path, k)[i] = Block(n, path, i)
    BY <1>2, SourceFacts
  <1>6. CASE h.buffer = <<>>
    <2>1. k = h.offset /\ Flushed(h) = disk
      BY <1>1, <1>2, <1>3, <1>6, FlushedOf
    <2>2. QED
      BY <1>1, <2>1 DEF h, n, path
  <1>7. CASE h.buffer # <<>>
    <2> DEFINE w == Written(disk[Place], h.offset, h.buffer)
    <2>1. Flushed(h)[Place] = w
      BY <1>1, <1>2, <1>3, <1>7, FlushedOf
    <2>2. /\ w \in Seq(Blocks) /\ Len(w) = h.offset + Len(h.buffer)
          /\ \A i \in 1 .. h.offset + Len(h.buffer) :
                w[i] = IF i <= h.offset THEN disk[Place][i] ELSE h.buffer[i - h.offset]
      <3> DEFINE c == disk[Place]
      <3>1. c \in Seq(Blocks) /\ h.offset = Len(c)
        BY <1>1, <1>4
      <3> HIDE DEF c
      <3>2. /\ Written(c, h.offset, h.buffer) \in Seq(Blocks)
            /\ Len(Written(c, h.offset, h.buffer)) = h.offset + Len(h.buffer)
            /\ \A i \in 1 .. h.offset + Len(h.buffer) :
                  Written(c, h.offset, h.buffer)[i] =
                      IF i <= h.offset THEN c[i] ELSE h.buffer[i - h.offset]
        BY <1>2, <3>1, WrittenOf
      <3>3. QED
        BY <3>2 DEF c
    <2> HIDE DEF w
    <2>3. ASSUME NEW i \in 1 .. k
          PROVE  w[i] = Block(n, path, i)
      <3>1. CASE i <= h.offset
        <4>1. w[i] = disk[Place][i] /\ i \in 1 .. h.offset
          BY <1>1, <1>2, <2>2, <2>3, <3>1
        <4>2. QED
          BY <1>1, <1>4, <4>1
      <3>2. CASE ~(i <= h.offset)
        <4>1. w[i] = h.buffer[i - h.offset]
          BY <1>1, <2>2, <2>3, <3>2
        <4>2. i - h.offset \in 1 .. Len(h.buffer) /\ h.offset + (i - h.offset) = i
          BY <1>1, <1>2, <2>3, <3>2
        <4>3. h.buffer[i - h.offset] = Block(n, path, h.offset + (i - h.offset))
          BY <1>1, <4>2
        <4>4. QED
          BY <4>1, <4>2, <4>3
      <3>3. QED
        BY <3>1, <3>2
    <2>4. w = Source(n, path, k)
      <3>1. /\ Len(w) = k /\ Len(Source(n, path, k)) = k
            /\ \A i \in 1 .. k : w[i] = Source(n, path, k)[i]
        BY <1>1, <1>5, <2>2, <2>3
      <3>2. QED
        BY <1>5, <2>2, <3>1, SeqEqual
    <2>5. QED
      BY <2>1, <2>4 DEF h, n, path
  <1>8. QED
    BY <1>6, <1>7

LEMMA TargetSame ==
  ASSUME TargetInv, OpInv, UNCHANGED <<op, pc>>,
         \A k : Holds(k) => Holds(k)',
         Stored(op, This.path) => Stored(op, This.path)',
         pc = "chmod" /\ HasMode(op, This.path) => HasMode(op, This.path)',
         pc \in {"opento", "closeto", "stop", "chmod"} /\ op.to # "local" =>
             out'[op.to] = out[op.to]
  PROVE  TargetInv'
  <1>1. SUFFICES ASSUME Fine PROVE TargetInv'
    BY DEF TargetInv, Fine
  <1>2. This' = This /\ Copied' = Copied /\ op' = op /\ pc' = pc
    BY DEF This, Copied, OpInv
  <1>8. pc \in {"opento", "closeto"} =>
            /\ IsDone(op.to)' <=> IsDone(op.to)
            /\ IsAnswered(op.to)' <=> IsAnswered(op.to)
    <2>1. CASE op.to = "local"
      BY <1>2, <2>1 DEF IsDone, IsAnswered, Terminals
    <2>2. CASE op.to # "local"
      BY <1>2, <2>2 DEF IsDone, IsAnswered, Replied
    <2>3. QED
      BY <2>1, <2>2
  <1>9. pc = "chmod" /\ op.to # "local" => (Confirmed(op.to)' <=> Confirmed(op.to))
    BY <1>2 DEF Confirmed
  <1>3. /\ pc = "opento" /\ IsDone(op.to) => Holds(0)
        /\ pc \in Copying => Holds(Copied)
        /\ pc \in {"handleto", "write", "start", "stop"} =>
              op.block = Block(op.n, This.path, op.read) /\ op.read > 0
        /\ pc = "promptto" => Holds(op.size)
        /\ pc = "closeto" => /\ IsDone(op.to) => Stored(op, This.path)
                             /\ IsAnswered(op.to) \/ Holds(op.size)
        /\ pc \in {"promptfrom", "closefrom"} => Stored(op, This.path)
        /\ pc = "chmod" => /\ This.do = "file" => Stored(op, This.path)
                           /\ op.to # "local" /\ Confirmed(op.to) => HasMode(op, This.path)
    BY <1>1 DEF TargetInv
  <1>4. PICK k, z, s : k = Copied /\ z = 0 /\ s = op.size
    OBVIOUS
  <1>5. /\ Holds(Copied) => Holds(k)'
        /\ Holds(0) => Holds(z)'
        /\ Holds(op.size) => Holds(s)'
    BY <1>4
  <1>6. /\ Holds(k)' => Holds(Copied)'
        /\ Holds(z)' => Holds(0)'
        /\ Holds(s)' => Holds(op.size)'
    BY <1>2, <1>4 DEF Holds
  <1>7. QED
    BY <1>2, <1>3, <1>5, <1>6, <1>8, <1>9 DEF TargetInv

\* The step is one of a copy, or sets the mode.
Targeted == {"opento", "promptto", "closeto", "promptfrom", "closefrom", "chmod"} \cup Copying

\* What the other terminals do.
LEMMA TargetOther ==
  ASSUME Inv, PlanInv, DiskInv, CloseInv, TargetInv, Fine, pc \in Targeted,
         NEW t \in Terminals, t # op.to, Remote(t) \/ Raises(t)
  PROVE  TargetInv'
  <1>1. TypeInv /\ OpInv /\ HandleInv /\ op \in Ops /\ UNCHANGED <<op, pc, sent>>
    BY DEF Inv, TypeInv, Remote, RunOpen, RunClose, RunChmod, RunOther, OpenFails, Raises,
       CloseFails, FileFails, RunRead, RunWrite, WriteBlock, TakeMessage, control
  <1>2. This.path \in Paths /\ Place \in Places /\ op.to \in Sites
    <2>1. This \in Tasks
      BY <1>1, StepTerminals DEF Targeted, FileSteps, Copying, TaskFacts
    <2>2. QED
      BY <1>1, <2>1 DEF Tasks, Place, Places, Sites, Ops
  <1>3. op.to # "local" => /\ op.to \in Terminals
                           /\ UNCHANGED <<in[op.to], out[op.to], handle[op.to]>>
    <2>1. SUFFICES ASSUME op.to \in Terminals
                   PROVE  UNCHANGED <<in[op.to], out[op.to], handle[op.to]>>
      BY <1>2 DEF Sites
    <2>2. UNCHANGED <<in[op.to], out[op.to]>>
      BY <1>1, <2>1, OneTerminal DEF Remote, RunOpen, RunClose, RunChmod, RunOther, OpenFails,
         Raises, CloseFails, FileFails, RunRead, RunWrite, WriteBlock, TakeMessage, Reply
    <2>3. handle'[op.to] = handle[op.to]
      BY <1>1, <2>1 DEF Remote, RunOpen, RunClose, RunChmod, RunOther, OpenFails, Raises,
         CloseFails, FileFails, RunRead, RunWrite, WriteBlock, TakeMessage, TypeInv
    <2>4. QED
      BY <1>1, <2>2, <2>3
  <1>4. Stored(op, This.path) => Stored(op, This.path)'
    <2> DEFINE place == <<op.to, This.path>>
               contents == Source(op.n, This.path, op.size)
    <2>1. PICK p, c : p = place /\ c = contents
      OBVIOUS
    <2>2. p' = place' /\ c' = contents' /\ p \in Places /\ <<t, NextCall(t).path>> # p
      BY <1>1, <1>2, <2>1 DEF This, Place
    <2>3. Rests(p, c) => Rests(p, c)'
      BY <2>2, RestsRun
    <2>4. Rests(p, c)' => Rests(place, contents)'
      BY <2>2 DEF Rests, Closed, Alone
    <2>5. QED
      BY <2>1, <2>3, <2>4 DEF Stored
  <1>5. HasMode(op, This.path) => HasMode(op, This.path)'
    <2>1. mode' = mode \/ \E x, y : mode' = [mode EXCEPT ![<<t, x>>] = y]
      BY DEF Remote, RunOpen, RunClose, RunChmod, RunOther, OpenFails, Raises, CloseFails,
         FileFails, RunRead, RunWrite, WriteBlock, TakeMessage, files
    <2>2. op.to # "local" => mode'[Place] = mode[Place]
      BY <1>2, <2>1 DEF DiskInv, Place
    <2>3. This' = This /\ op' = op
      BY <1>1 DEF This
    <2>4. QED
      BY <2>2, <2>3 DEF HasMode, Place
  <1>6. \A k : Holds(k) => Holds(k)'
    <2>1. /\ disk'[Place] = disk[Place]
          /\ Place \in spoilt => Place \in spoilt'
          /\ \A f \in leftover' : f \in leftover \/ f.buffer = <<>> \/ f.place # Place
      <3>1. CASE Neutral(t) \/ RunChmod(t)
        BY <3>1, NeutralSteps
      <3>2. CASE RunClose(t)
        <4>1. /\ t = At /\ sent /\ What = "close" /\ SessionCalls(out[t]) = {}
              /\ line[t] = "up"
          BY <3>2, RunsCall DEF RunClose
        <4>2. ToClose(t)
          BY <1>1, <4>1, StepAt DEF What, OpInv, CallSteps, ToClose
        <4>3. handle[t] \in Files /\ handle[t].place[1] = t
          BY <1>1, <4>1, <4>2 DEF CloseInv, TypeInv, DiskInv
        <4>4. Place # handle[t].place
          BY <4>3 DEF Place
        <4>5. disk'[Place] = disk[Place]
          BY <1>2, <3>2, <4>3, <4>4, FlushedOf DEF RunClose, DiskInv
        <4>6. QED
          BY <3>2, <4>5 DEF RunClose
      <3>3. CASE RunOpen(t)
        <4> DEFINE p == <<t, NextCall(t).path>>
        <4>1. p # Place
          BY DEF Place
        <4> HIDE DEF p
        <4>2. /\ leftover' = leftover \cup Left(t)
              /\ spoilt' = spoilt \cup {p} \/ spoilt' = spoilt \ {p} \/ spoilt' = spoilt
              /\ disk' = disk \/ disk' = [disk EXCEPT ![p] = <<>>]
          BY <3>3 DEF RunOpen, p
        <4>3. \A f \in Left(t) : f.place # Place
          BY LeftOf DEF DiskInv, Place
        <4>4. disk'[Place] = disk[Place] /\ (Place \in spoilt => Place \in spoilt')
          BY <1>2, <4>1, <4>2 DEF DiskInv
        <4>5. QED
          BY <4>2, <4>3, <4>4
      <3>4. CASE CloseFails(t)
        BY <3>4, CloseFailsCall DEF files
      <3>5. QED
        BY <3>1, <3>2, <3>3, <3>4 DEF Remote, Neutral, Raises
    <2>2. SameKeyword /\ This' = This
      BY <1>1 DEF SameKeyword, This
    <2>3. QED
      BY <1>1, <1>3, <2>1, <2>2, HoldsKept
  <1>7. pc = "stop" => op.to # "local"
    BY <1>1 DEF OpInv
  <1>8. QED
    BY <1>1, <1>3, <1>4, <1>5, <1>6, <1>7, TargetSame

LEMMA OpensTarget ==
  ASSUME Inv, DiskInv, Fine, NEW t \in Terminals, t = op.to, pc = "opento",
         This.path \in Paths, NextCall(t) = Call(t, What), RunOpen(t)
  PROVE  Holds(0)'
  <1>1. TypeInv /\ op \in Ops /\ UNCHANGED <<op, pc, sent>>
    BY DEF Inv, TypeInv, RunOpen, control
  <1> DEFINE c == NextCall(t)
             h == [n |-> c.n, place |-> <<t, c.path>>, size |-> c.size,
                   write |-> c.write, offset |-> 0, buffer |-> <<>>]
  <1>2. c.n = op.n /\ c.path = This.path /\ c.write
    <2>1. /\ Call(t, What).n = op.n /\ Call(t, What).path = This.path
          /\ Call(t, What).write
      BY DEF Call
    <2>2. QED
      BY <2>1
  <1>3. h.place = Place /\ h.write /\ h.offset = 0 /\ h.buffer = <<>>
    BY <1>2 DEF Place
  <1>4. /\ handle'[t] = h /\ <<t, c.path>> = Place
    BY <1>1, <1>2 DEF RunOpen, TypeInv, Place
  <1>5. /\ disk' = [disk EXCEPT ![Place] = <<>>]
        /\ spoilt' = IF \E f \in leftover' : f.place = Place /\ f.buffer # <<>>
                     THEN spoilt \cup {Place} ELSE spoilt \ {Place}
    BY <1>2, <1>4 DEF RunOpen
  <1> HIDE DEF h, c
  <1>6. Place \in Places /\ op.n \in Nat
    BY <1>1 DEF Place, Places, Ops, Sites
  <1>7. disk'[Place] = Source(op.n, This.path, 0)
    <2>1. disk'[Place] = <<>>
      BY <1>5, <1>6 DEF DiskInv
    <2>2. QED
      BY <1>6, <2>1, SourceFacts
  <1>8. Place' = Place /\ This' = This
    BY <1>1 DEF Place, This
  <1>9. Place \in spoilt' \/ Alone(Place)'
    BY <1>5, <1>8 DEF Alone
  <1>10. t # "local"
    BY DEF Terminals
  <1>11. /\ handle'[op'.to] = h /\ Len(<<>>) = 0 /\ 1 .. 0 = {} /\ 0 + 0 = 0
    BY <1>1, <1>4
  <1>12. Len(h.buffer) = 0 /\ h.offset + Len(h.buffer) = 0
         /\ 1 .. Len(h.buffer) = {}
    BY <1>3, <1>11
  <1>13. QED
    BY <1>1, <1>3, <1>7, <1>8, <1>9, <1>10, <1>11, <1>12 DEF Holds

LEMMA ClosesTarget ==
  ASSUME Inv, DiskInv, CloseInv, Fine, NEW t \in Terminals, t = op.to, pc = "closeto",
         This.path \in Paths, RunClose(t), Holds(op.size)
  PROVE  Stored(op, This.path)'
  <1>1. TypeInv /\ op \in Ops /\ UNCHANGED <<op, pc, sent, leftover, spoilt>>
    BY DEF Inv, TypeInv, RunClose, control
  <1>2. SessionCalls(out[t]) = {} /\ line[t] = "up"
    BY <1>1, RunsCall DEF RunClose
  <1>3. handle[t] \in Files /\ handle[t] # NoFile /\ t # "local"
    <2>1. ToClose(t)
      BY <1>2 DEF ToClose
    <2>2. QED
      BY <1>1, <1>2, <2>1 DEF CloseInv, TypeInv, Terminals
  <1>4. /\ disk' = Flushed(handle[t]) /\ handle'[t] = NoFile
        /\ \A r \in Terminals : r # t => handle'[r] = handle[r]
    BY <1>1 DEF RunClose, TypeInv
  <1>5. op.size \in Nat
    BY <1>1 DEF Ops
  <1>6. Place \in spoilt \/ disk'[Place] = Source(op.n, This.path, op.size)
    BY <1>3, <1>4, <1>5, FlushHolds
  <1>7. Place \in spoilt \/ Alone(Place)
    BY <1>3 DEF Holds
  <1>8. \A r \in Terminals : handle'[r] # NoFile => handle'[r].place # Place
    <2>1. \A r \in Terminals : handle'[r] # NoFile => r # t /\ handle[r].place[1] = r
      BY <1>4 DEF DiskInv
    <2>2. QED
      BY <1>4, <2>1 DEF Place
  <1>9. PICK p : p = Place
    OBVIOUS
  <1>10. Closed(p)' /\ (p \in spoilt' \/ (disk'[p] = Source(op.n, This.path, op.size) /\ Alone(p)'))
    BY <1>1, <1>6, <1>7, <1>8, <1>9 DEF Closed, Alone
  <1>11. <<op'.to, This'.path>> = p /\ op' = op /\ This' = This
    BY <1>1, <1>9 DEF Place, This
  <1>12. QED
    BY <1>10, <1>11 DEF Stored, Rests, Closed, Alone

\* A block is added to the buffer of the target.
LEMMA WritesTarget ==
  ASSUME Inv, DiskInv, Fine, NEW t \in Terminals, t = op.to, pc = "stop",
         WriteBlock(t), Head(in[t]).block = Block(op.n, This.path, op.read), This.path \in Paths,
         op.read > 0, handle[t] \in Files, Holds(op.read - 1)
  PROVE  \A k : k = op.read => Holds(k)'
  <1>1. TypeInv /\ op \in Ops /\ UNCHANGED <<op, pc, sent, leftover, spoilt, disk>>
    BY DEF Inv, TypeInv, WriteBlock, control, files
  <1> DEFINE h == handle[t]
             b == Head(in[t]).block
             g == [h EXCEPT !.buffer = Append(@, b)]
  <1>2. handle'[t] = g
    BY <1>1 DEF WriteBlock, TypeInv
  <1>3. h.buffer \in Seq(Blocks) /\ h.offset \in Nat /\ Len(h.buffer) \in Nat
    BY FileFields
  <1>4. op.read \in Nat /\ op.n \in Nat
    BY <1>1 DEF Ops
  <1>5. b \in Blocks
    <2>1. Block(op.n, This.path, op.read) \in Blocks
      BY <1>4 DEF Block, Blocks
    <2>2. QED
      BY <2>1
  <1>6. g.place = h.place /\ g.write = h.write /\ g.offset = h.offset
        /\ g.buffer = Append(h.buffer, b)
    BY DEF Files
  <1>7. b = Block(op.n, This.path, op.read) /\ t # "local"
    BY DEF Terminals
  <1>8. Holds(op.read - 1) <=>
            /\ h.place = Place /\ h.write
            /\ Place \in spoilt \/
                  /\ disk[Place] = Source(op.n, This.path, h.offset) /\ Alone(Place)
                  /\ h.offset + Len(h.buffer) = op.read - 1
                  /\ \A i \in 1 .. Len(h.buffer) :
                        h.buffer[i] = Block(op.n, This.path, h.offset + i)
    BY <1>7 DEF Holds
  <1> HIDE DEF h, b, g
  <1>9. /\ Len(g.buffer) = Len(h.buffer) + 1 /\ g.buffer[Len(h.buffer) + 1] = b
        /\ \A i \in 1 .. Len(h.buffer) : g.buffer[i] = h.buffer[i]
    BY <1>3, <1>5, <1>6, AppendOf
  <1>10. Place' = Place /\ This' = This /\ Alone(Place)' = Alone(Place)
    BY <1>1 DEF Place, This, Alone
  <1>11. ASSUME h.offset + Len(h.buffer) = op.read - 1,
                \A i \in 1 .. Len(h.buffer) : h.buffer[i] = Block(op.n, This.path, h.offset + i)
         PROVE  /\ g.offset + Len(g.buffer) = op.read
                /\ \A i \in 1 .. Len(g.buffer) : g.buffer[i] = Block(op.n, This.path, g.offset + i)
    <2>a. PICK l \in Nat, m \in Nat, r \in Nat, o \in Nat :
              l = Len(h.buffer) /\ m = Len(g.buffer) /\ r = op.read /\ o = h.offset
      <3>1. Len(h.buffer) \in Nat /\ op.read \in Nat /\ h.offset \in Nat
        BY <1>3, <1>4
      <3>2. Len(g.buffer) \in Nat
        BY <1>9, <3>1
      <3>3. QED
        BY <3>1, <3>2
    <2>b. m = l + 1 /\ o + l = r - 1 /\ g.offset = o
      BY <1>6, <1>9, <1>11, <2>a
    <2>1. g.offset + Len(g.buffer) = op.read
      <3>1. o + m = r
        BY <2>b
      <3>2. QED
        BY <2>a, <2>b, <3>1
    <2>2. ASSUME NEW i \in 1 .. Len(g.buffer)
          PROVE  g.buffer[i] = Block(op.n, This.path, g.offset + i)
      <3>1. CASE i \in 1 .. Len(h.buffer)
        BY <1>6, <1>9, <1>11, <3>1
      <3>2. CASE i \notin 1 .. Len(h.buffer)
        <4>1. i = Len(h.buffer) + 1 /\ g.offset + i = op.read
          <5>1. i \in 1 .. m /\ i \notin 1 .. l
            BY <2>2, <2>a, <3>2
          <5>2. i = l + 1 /\ o + i = r
            BY <2>b, <5>1
          <5>3. QED
            BY <2>a, <2>b, <5>2
        <4>2. QED
          BY <1>7, <1>9, <4>1
      <3>3. QED
        BY <3>1, <3>2
    <2>3. QED
      BY <2>1, <2>2
  <1>12. /\ g.place = Place /\ g.write
         /\ Place \in spoilt \/
               /\ disk[Place] = Source(op.n, This.path, g.offset) /\ Alone(Place)
               /\ g.offset + Len(g.buffer) = op.read
               /\ \A i \in 1 .. Len(g.buffer) :
                     g.buffer[i] = Block(op.n, This.path, g.offset + i)
    BY <1>6, <1>8, <1>11
  <1>13. op' = op /\ handle'[op'.to] = g /\ op'.to # "local"
    BY <1>1, <1>2, <1>7
  <1>14. QED
    BY <1>1, <1>10, <1>12, <1>13 DEF Holds

\* The contents that rest, where the keyword goes on with the same task.
LEMMA StoredKept ==
  ASSUME SameKeyword, This' = This, Stored(op, This.path),
         \A p, c : p = Place /\ Rests(p, c) => Rests(p, c)'
  PROVE  Stored(op, This.path)'
  <1> DEFINE contents == Source(op.n, This.path, op.size)
  <1>1. PICK p, c : p = Place /\ c = contents
    OBVIOUS
  <1>2. p = Place' /\ c = contents'
    BY <1>1 DEF SameKeyword, Place
  <1>3. Rests(p, c)
    BY <1>1 DEF Stored, Place
  <1>4. Rests(p, c)'
    BY <1>1, <1>3
  <1>5. QED
    BY <1>2, <1>4 DEF Stored, Place, Rests, Closed, Alone

LEMMA PlaceType ==
  ASSUME Inv, PlanInv, Fine, pc \in Targeted
  PROVE  /\ This.path \in Paths /\ Place \in Places /\ op.to \in Sites /\ op.n \in Nat
         /\ op.n > 0 /\ op.read \in Nat /\ op.size \in Nat /\ op.from # op.to
         /\ op.to # "local" => op.to \in Terminals /\ Verified(op.to)
  <1>1. TypeInv /\ op \in Ops /\ OpInv
    BY DEF Inv, TypeInv
  <1>2. This \in Tasks /\ \A t \in Terminals : t \in {op.from, op.to} => Verified(t)
    BY StepTerminals DEF Targeted, FileSteps, Copying, TaskFacts
  <1>3. op.n = copies /\ copies > 0 /\ op.from # op.to
    BY <1>1 DEF OpInv, Fine
  <1>4. QED
    BY <1>1, <1>2, <1>3 DEF Tasks, Place, Places, Sites, Ops

LEMMA TargetOwn ==
  ASSUME Inv, PlanInv, ExchangeInv, DiskInv, CloseInv, TargetInv, Fine, pc \in Targeted,
         NEW t \in Terminals, t = op.to, Remote(t) \/ Raises(t)
  PROVE  TargetInv'
  <1>1. TypeInv /\ OpInv /\ HandleInv /\ op \in Ops
    BY DEF Inv, TypeInv
  <1>2. /\ This.path \in Paths /\ Place \in Places /\ op.n \in Nat /\ op.n > 0
        /\ op.read \in Nat /\ op.size \in Nat /\ op.from # op.to /\ Exchange(t)
    <2>1. op.to # "local"
      BY DEF Terminals
    <2>2. QED
      BY <2>1, PlaceType DEF ExchangeInv
  <1>3. /\ UNCHANGED <<op, pc, sent, outcome>> /\ Waiting(t) /\ out[t] = <<>>
        /\ sent /\ t = At =>
               /\ What = "open" => RunOpen(t) \/ OpenFails(t)
               /\ What \in {"handle", "prompt"} => RunOther(t)
               /\ What = "close" => RunClose(t) \/ CloseFails(t)
               /\ What = "chmod" => RunChmod(t) \/ OpenFails(t)
               /\ NextCall(t) = Call(t, What)
        /\ pc = "data" => t = op.from
        /\ pc = "start" => RunWrite(t)
        /\ pc = "stop" => /\ WriteBlock(t) \/ FileFails(t)
                          /\ Head(in[t]).block = op.block
    BY <1>2, RunsWhat
  <1>4. /\ pc \in {"opento", "handleto", "promptto", "closeto", "chmod", "start", "stop"}
        /\ pc \notin {"start", "stop"} => sent /\ t = At
    <2>1. CASE sent /\ At = t
      <3>1. pc \in CallSteps
        BY <1>1, <2>1 DEF OpInv
      <3>2. pc \notin {"openfrom", "handlefrom", "promptfrom", "closefrom"}
        BY <1>2, <2>1, StepAt
      <3>3. QED
        BY <2>1, <3>1, <3>2 DEF CallSteps, Targeted, Copying
    <2>2. CASE ~(sent /\ At = t)
      BY <1>2, <1>3, <2>2 DEF Waiting
    <2>3. QED
      BY <2>1, <2>2
  <1>5. SameKeyword /\ This' = This /\ Place' = Place /\ op' = op /\ pc' = pc
    BY <1>3 DEF SameKeyword, This, Place
  <1>6. ~RunOpen(t) /\ Stored(op, This.path) => Stored(op, This.path)'
    BY <1>2, <1>5, RestsRun, StoredKept
  <1>7. CASE pc = "opento"
    <2>1. RunOpen(t) \/ OpenFails(t)
      BY <1>3, <1>4, <1>7, StepAt
    <2>2. RunOpen(t) => Holds(0)'
      BY <1>2, <1>3, <1>4, <1>7, OpensTarget
    <2>3. OpenFails(t) => ~IsDone(op.to)'
      <3>1. SUFFICES ASSUME OpenFails(t) PROVE ~IsDone(op.to)'
        OBVIOUS
      <3>2. (Replied(t)' <=> Replied(t)) /\ ~Replied(t)
        BY <1>3, <3>1, NeutralSteps DEF Neutral, Replied, SessionCalls
      <3>3. op'.to = t
        BY <1>5
      <3>4. QED
        BY <3>2, <3>3 DEF IsDone, Replied
    <2>4. QED
      BY <1>5, <1>7, <2>1, <2>2, <2>3 DEF TargetInv, Copying
  <1>8. CASE pc \in {"handleto", "promptto", "start"}
    <2>1. RunOther(t) \/ RunWrite(t)
      BY <1>3, <1>4, <1>8 DEF What
    <2>2. UNCHANGED <<handle, leftover, disk, spoilt>>
      BY <2>1 DEF RunOther, RunWrite, files
    <2>3. \A k : Holds(k) => Holds(k)'
      BY <1>5, <2>2, HoldsKept
    <2>4. ~RunOpen(t)
      <3>1. RunOther(t) => ~RunOpen(t)
        BY DEF RunOther, RunOpen
      <3>2. RunWrite(t) => ~RunOpen(t)
        BY DEF RunWrite, RunOpen, Reads
      <3>3. QED
        BY <2>1, <3>1, <3>2
    <2>5. QED
      BY <1>1, <1>3, <1>6, <1>8, <2>3, <2>4, TargetSame
  <1>9. CASE pc = "closeto" /\ CloseFails(t)
    <2>1. SessionCalls(out[t])' # {} /\ ~Replied(t)'
      BY <1>9, CloseFailsCall
    <2>2. IsAnswered(op.to)' /\ ~IsDone(op.to)'
      <3>1. op'.to = t
        BY <1>5
      <3>2. QED
        BY <2>1, <3>1 DEF IsAnswered, IsDone, Replied
    <2>3. QED
      BY <1>5, <1>9, <2>2 DEF TargetInv, Copying
  <1>13. CASE pc = "closeto" /\ ~CloseFails(t)
    <2>1. RunClose(t)
      BY <1>3, <1>4, <1>13, StepAt
    <2>2. Holds(op.size)
      <3>1. SessionCalls(out[t]) = {}
        BY <1>3 DEF SessionCalls
      <3>2. QED
        BY <1>13, <3>1 DEF TargetInv, IsAnswered
    <2>3. Stored(op, This.path)' /\ Replied(t)'
      <3>1. Stored(op, This.path)'
        BY <1>2, <1>13, <2>1, <2>2, ClosesTarget
      <3>2. What = "close"
        BY <1>13, StepAt
      <3>3. Replied(t)'
        BY <2>1, <3>2, RunsCall
      <3>4. QED
        BY <3>1, <3>3
    <2>4. IsDone(op.to)' /\ IsAnswered(op.to)'
      <3>1. op'.to = t
        BY <1>5
      <3>2. QED
        BY <2>3, <3>1 DEF IsDone, IsAnswered, Replied
    <2>5. QED
      BY <1>5, <1>13, <2>3, <2>4 DEF TargetInv, Copying
  <1>14. CASE pc = "chmod" /\ OpenFails(t)
    <2> DEFINE m == [NextCall(t) EXCEPT !.k = "raised"]
    <2>1. NextCall(t) \in Requests /\ Write(t, <<m>>)
      <3>1. Reads(t, "call") /\ Reply(t, "raised") /\ NextCall(t).what \in Raising
        BY <1>14 DEF OpenFails, Raising
      <3>2. QED
        BY <1>1, <3>1, ReplyType DEF Reply
    <2>2. m.k = "raised"
      BY <2>1 DEF Requests
    <2> HIDE DEF m
    <2>3. out'[t] = <<m>>
      BY <1>1, <1>3, <2>1, OneTerminal, Singles
    <2>4. ~Confirmed(op.to)'
      <3>1. op'.to = t /\ Len(<<m>>) = 1 /\ <<m>>[1] = m
        BY <1>5
      <3>2. \A i \in SessionCalls(out'[t]) : out'[t][i] = m
        BY <2>3, <3>1 DEF SessionCalls
      <3>3. QED
        BY <2>2, <3>1, <3>2 DEF Confirmed
    <2>5. ~RunOpen(t)
      BY <1>14 DEF OpenFails, RunOpen, Reply, Write, Raises
    <2>6. This.do = "file" => Stored(op, This.path)'
      BY <1>6, <1>14, <2>5 DEF TargetInv
    <2>7. QED
      BY <1>5, <1>14, <2>4, <2>6 DEF TargetInv, Copying
  <1>10. CASE pc = "chmod" /\ RunChmod(t)
    <2>1. RunChmod(t)
      BY <1>10
    <2>2. NextCall(t).path = This.path /\ NextCall(t).n = op.n
      <3>1. Call(t, What).path = This.path /\ Call(t, What).n = op.n
        BY DEF Call
      <3>2. QED
        BY <1>3, <1>4, <1>10, <3>1
    <2>3. mode'[Place] = op.n
      BY <1>2, <2>1, <2>2 DEF RunChmod, Place, DiskInv
    <2>4. HasMode(op, This.path)'
      BY <1>5, <2>3 DEF HasMode, Place
    <2>5. This.do = "file" => Stored(op, This.path)
      BY <1>10 DEF TargetInv
    <2>6. ~RunOpen(t)
      BY <2>1 DEF RunChmod, RunOpen
    <2>7. This.do = "file" => Stored(op, This.path)'
      BY <1>6, <2>5, <2>6
    <2>8. QED
      BY <1>5, <1>10, <2>4, <2>7 DEF TargetInv, Copying
  <1>15. CASE pc = "stop" /\ FileFails(t)
    <2>1. UNCHANGED <<out, handle, leftover, disk, spoilt>> /\ ~RunOpen(t)
      <3>1. UNCHANGED <<out, handle, leftover, disk, spoilt>>
        BY <1>15 DEF FileFails, files
      <3>2. in[t] # <<>> /\ Head(in[t]).k # "call"
        BY <1>15 DEF FileFails
      <3>3. QED
        BY <3>1, <3>2 DEF RunOpen, Reads
    <2>2. \A k : Holds(k) => Holds(k)'
      BY <1>5, <2>1, HoldsKept
    <2>3. QED
      BY <1>1, <1>3, <1>5, <1>6, <1>15, <2>1, <2>2, TargetSame
  <1>11. CASE pc = "stop" /\ WriteBlock(t)
    <2>1. WriteBlock(t) /\ Head(in[t]).block = op.block /\ in[t] # <<>> /\ Tail(in[t]) = <<>>
      <3>1. WriteBlock(t) /\ in[t] # <<>>
        BY <1>3, <1>11 DEF WriteBlock
      <3>2. QED
        BY <1>2, <1>3, <1>11, <3>1, RunsAwaited
    <2>2. /\ op.block = Block(op.n, This.path, op.read) /\ op.read > 0
          /\ Holds(op.read - 1)
      BY <1>3, <1>11, <2>1 DEF TargetInv, Copying, Copied
    <2>3. handle[t] \in Files
      <3>1. Opened(t)
        BY <1>11 DEF Opened, Copying
      <3>2. QED
        BY <1>1, <3>1 DEF HandleInv, TypeInv
    <2>4. \A k : k = op.read => Holds(k)'
      BY <1>2, <1>11, <2>1, <2>2, <2>3, WritesTarget
    <2>5. out'[t] # <<>>
      <3> DEFINE m == [k |-> "stop"]
      <3>1. Write(t, <<m>>)
        BY <2>1 DEF WriteBlock
      <3> HIDE DEF m
      <3>2. QED
        BY <1>1, <1>3, <3>1, OneTerminal, Singles
    <2>6. Copied' = op.read
      BY <1>5, <1>11, <2>5 DEF Copied
    <2>7. PICK k : k = op.read
      OBVIOUS
    <2>8. Holds(k)' /\ Copied' = k
      BY <2>4, <2>6, <2>7
    <2>9. Holds(Copied)'
      BY <2>8 DEF Holds
    <2>10. QED
      BY <1>5, <1>11, <2>2, <2>9 DEF TargetInv, Copying
  <1>12. QED
    <2>1. pc = "chmod" => RunChmod(t) \/ OpenFails(t)
      BY <1>3, <1>4 DEF What
    <2>2. QED
      BY <1>3, <1>4, <1>7, <1>8, <1>9, <1>13, <1>10, <1>14, <1>11, <1>15, <2>1

LEMMA TargetRun ==
  ASSUME Inv, PlanInv, ExchangeInv, DiskInv, CloseInv, TargetInv,
         NEW t \in Terminals, Remote(t) \/ Raises(t)
  PROVE  TargetInv'
  <1>1. UNCHANGED <<op, pc, sent>>
    BY DEF Remote, RunOpen, RunClose, RunChmod, RunOther, OpenFails, Raises, CloseFails,
       FileFails, RunRead, RunWrite, WriteBlock, TakeMessage, control
  <1>2. CASE Fine /\ pc \in Targeted
    BY <1>2, TargetOwn, TargetOther
  <1>3. CASE ~(Fine /\ pc \in Targeted)
    BY <1>1, <1>3 DEF TargetInv, Fine, Targeted, Copying
  <1>4. QED
    BY <1>2, <1>3

\* The buffer of the target is written to its file.
LEMMA FlushesTarget ==
  ASSUME Inv, PlanInv, DiskInv, Fine, pc \in Targeted, NEW t \in Terminals, t = op.to, Flush(t),
         NEW k, Holds(k)
  PROVE  Holds(k)'
  <1>1. TypeInv /\ op \in Ops /\ UNCHANGED <<op, pc, sent, leftover, spoilt>>
    BY DEF Inv, TypeInv, Flush, control
  <1>2. This.path \in Paths /\ Place \in Places /\ op.n \in Nat /\ t # "local"
    BY PlaceType DEF Terminals
  <1> DEFINE h == handle[t]
             g == Emptied(h)
  <1>3. h \in Files /\ h # NoFile
    BY <1>1 DEF Flush, TypeInv
  <1>4. handle'[t] = g /\ disk' = Flushed(h)
    BY <1>1 DEF Flush, TypeInv
  <1>5. /\ g.place = h.place /\ g.write = h.write /\ g.buffer = <<>>
        /\ g.offset = h.offset + Len(h.buffer)
    BY <1>3 DEF Emptied, Files
  <1>6. /\ h.place = Place /\ h.write
        /\ Place \in spoilt \/ (Alone(Place) /\ h.offset + Len(h.buffer) = k)
    BY <1>2 DEF Holds
  <1>7. ASSUME Place \notin spoilt
        PROVE  disk'[Place] = Source(op.n, This.path, k) /\ g.offset = k
    <2>1. k = h.offset + Len(h.buffer)
      BY <1>6, <1>7
    <2>2. h.offset \in Nat /\ Len(h.buffer) \in Nat
      BY <1>3, FileFields
    <2>3. k \in Nat
      BY <2>1, <2>2
    <2>4. Flushed(handle[op.to])[Place] = Source(op.n, This.path, k)
      BY <1>2, <1>3, <1>7, <2>3, FlushHolds
    <2>5. QED
      BY <1>4, <1>5, <2>1, <2>4
  <1> HIDE DEF h, g
  <1>8. k = k + 0 \/ Place \in spoilt
    <2>1. Place \notin spoilt => k \in Nat
      <3>1. h.offset \in Nat /\ Len(h.buffer) \in Nat
        BY <1>3, FileFields
      <3>2. QED
        BY <1>6, <3>1
    <2>2. QED
      BY <2>1
  <1>9. Len(g.buffer) = 0 /\ 1 .. Len(g.buffer) = {}
    BY <1>5
  <1>10. Place' = Place /\ This' = This /\ op' = op /\ Alone(Place)' = Alone(Place)
    BY <1>1 DEF Place, This, Alone
  <1>11. /\ g.place = Place /\ g.write
         /\ Place \in spoilt \/
               /\ disk'[Place] = Source(op.n, This.path, g.offset) /\ Alone(Place)
               /\ g.offset + Len(g.buffer) = k
               /\ \A i \in 1 .. Len(g.buffer) :
                     g.buffer[i] = Block(op.n, This.path, g.offset + i)
    BY <1>5, <1>6, <1>7, <1>8, <1>9
  <1>12. handle'[op'.to] = g /\ op'.to # "local"
    BY <1>2, <1>4, <1>10
  <1>13. QED
    BY <1>1, <1>10, <1>11, <1>12 DEF Holds

LEMMA TargetAlone ==
  ASSUME Inv, PlanInv, DiskInv, TargetInv,
         \/ Collect
         \/ \E t \in Terminals : Flush(t) \/ Hang(t) \/ Revive(t) \/ Die(t)
  PROVE  TargetInv'
  <1>1. TypeInv /\ OpInv /\ op \in Ops /\ UNCHANGED <<op, pc, sent, in, out, mode, spoilt>>
    BY DEF Inv, TypeInv, Collect, Flush, Hang, Revive, Die, Breaks, control, files
  <1>2. SUFFICES ASSUME Fine, pc \in Targeted PROVE TargetInv'
    BY <1>1 DEF TargetInv, Fine, Targeted, Copying
  <1>3. /\ This.path \in Paths /\ Place \in Places /\ op.to \in Sites
        /\ op.to # "local" => op.to \in Terminals
    BY <1>2, PlaceType
  <1>4. SameKeyword /\ This' = This /\ op' = op
    BY <1>1 DEF SameKeyword, This
  <1>5. Stored(op, This.path) => Stored(op, This.path)'
    BY <1>3, <1>4, RestsAlone, StoredKept
  <1>6. HasMode(op, This.path) => HasMode(op, This.path)'
    BY <1>1, <1>4 DEF HasMode
  <1>7. ASSUME NEW k, Holds(k)
        PROVE  Holds(k)'
    <2>1. CASE Collect
      <3>1. PICK f \in leftover : leftover' = leftover \ {f} /\ disk' = Flushed(f)
        BY <2>1 DEF Collect
      <3>2. f \in Files /\ f.place[1] \in Terminals /\ handle' = handle
        BY <2>1 DEF DiskInv, Collect
      <3>3. CASE f.place = Place
        <4>1. op.to # "local"
          BY <3>2, <3>3 DEF Place, Terminals
        <4>2. Place \in spoilt \/ f.buffer = <<>>
          BY <1>7, <3>3, <4>1 DEF Holds, Alone
        <4>3. Place \in spoilt \/ disk' = disk
          BY <3>1, <3>2, <4>2, FlushedOf DEF DiskInv
        <4>4. QED
          BY <1>1, <1>4, <1>7, <3>1, <3>2, <4>1, <4>3, HoldsKept
      <3>4. CASE f.place # Place
        <4>1. disk'[Place] = disk[Place]
          BY <1>3, <3>1, <3>2, <3>4, FlushedOf DEF DiskInv
        <4>2. QED
          BY <1>1, <1>4, <1>7, <3>1, <3>2, <4>1, HoldsKept
      <3>5. QED
        BY <3>3, <3>4
    <2>2. ASSUME NEW t \in Terminals, Flush(t)
          PROVE  Holds(k)'
      <3>1. CASE t = op.to
        BY <1>2, <1>7, <2>2, <3>1, FlushesTarget
      <3>2. CASE t # op.to
        <4>1. handle[t] \in Files /\ handle[t].place[1] = t
          BY <1>1, <2>2 DEF Flush, TypeInv, DiskInv
        <4>2. disk'[Place] = disk[Place]
          BY <1>3, <2>2, <3>2, <4>1, FlushedOf DEF Flush, Place, DiskInv
        <4>3. op.to # "local" => handle'[op.to] = handle[op.to]
          BY <1>1, <1>3, <2>2, <3>2 DEF Flush, TypeInv
        <4>4. leftover' = leftover
          BY <2>2 DEF Flush
        <4>5. QED
          BY <1>1, <1>4, <1>7, <4>2, <4>3, <4>4, HoldsKept
      <3>3. QED
        BY <3>1, <3>2
    <2>3. CASE \E t \in Terminals : Hang(t) \/ Revive(t) \/ Die(t)
      <3>1. UNCHANGED <<disk, handle, leftover>>
        BY <2>3 DEF Hang, Revive, Die, Breaks, files
      <3>2. QED
        BY <1>1, <1>4, <1>7, <3>1, HoldsKept
    <2>4. QED
      BY <2>1, <2>2, <2>3
  <1>8. QED
    BY <1>1, <1>4, <1>5, <1>6, <1>7, TargetSame

\* Once the file is closed.
LEMMA LocalStored ==
  ASSUME DiskInv, op.to = "local", Holds(op.size)
  PROVE  Stored(op, This.path)
  <1>1. disk[Place] = Source(op.n, This.path, op.size)
    BY DEF Holds
  <1>2. Closed(Place)
    BY DEF Closed, DiskInv, Place, Terminals
  <1>3. Alone(Place)
    BY DEF Alone, DiskInv, Place, Terminals
  <1>4. QED
    BY <1>1, <1>2, <1>3 DEF Stored, Rests, Place

\* What a step of the copy leaves as it is.
LEMMA TargetKept ==
  ASSUME Inv, PlanInv, DiskInv, Fine, Progress, ~Initialize, This' = This, pc \in Targeted
  PROVE  /\ UNCHANGED <<handle, leftover, spoilt>> /\ SameKeyword /\ Place' = Place
         /\ ~(CallLocal /\ pc = "opento") /\ ~WriteLocal =>
               /\ \A k : Holds(k) => Holds(k)'
               /\ Stored(op, This.path) => Stored(op, This.path)'
  <1>1. UNCHANGED <<handle, leftover>>
    BY SucceededHandles
  <1>2. SameKeyword
    BY FineSteps
  <1>3. spoilt' = spoilt
    BY DEF Progress, Succeeded, StartTask, CallLocal, CallReturns, ReadLocal, ReadRemote,
           DataRead, WriteLocal, WriteRemote, Started, Stopped, files
  <1>4. Place' = Place
    BY <1>2 DEF SameKeyword, Place
  <1>5. ASSUME ~(CallLocal /\ pc = "opento"), ~WriteLocal
        PROVE  /\ \A k : Holds(k) => Holds(k)'
               /\ Stored(op, This.path) => Stored(op, This.path)'
    <2>1. disk' = disk
      BY <1>5 DEF Progress, Succeeded, StartTask, CallLocal, CallReturns, ReadLocal,
         ReadRemote, DataRead, WriteLocal, WriteRemote, Started, Stopped, files
    <2>2. \A k : Holds(k) => Holds(k)'
      BY <1>1, <1>2, <1>3, <2>1, HoldsKept
    <2>3. Moves /\ Place \in Places
      BY PlaceType DEF Progress, Succeeded, Moves
    <2>4. Stored(op, This.path) => Stored(op, This.path)'
      BY <1>2, <1>5, <2>3, RestsMoves, StoredKept
    <2>5. QED
      BY <2>2, <2>4
  <1>6. QED
    BY <1>1, <1>2, <1>3, <1>4, <1>5

\* The blocks that the target holds when the copy goes on.
LEMMA TargetCopies ==
  ASSUME pc' \in Copying,
         \E k : k = Copied' /\ Holds(k)',
         pc' \in {"handleto", "write", "start", "stop"} =>
             op'.block = Block(op'.n, This'.path, op'.read) /\ op'.read > 0
  PROVE  TargetInv'
  <1>1. PICK k : k = Copied' /\ Holds(k)'
    OBVIOUS
  <1>2. Holds(Copied)'
    BY <1>1 DEF Holds
  <1>3. pc' \notin {"opento", "promptto", "closeto", "promptfrom", "closefrom", "chmod"}
    BY DEF Copying
  <1>4. QED
    BY <1>2, <1>3 DEF TargetInv

\* A call of the copy that succeeds.
LEMMA TargetCalls ==
  ASSUME Inv, PlanInv, LastInv, ExchangeInv, DiskInv, CloseInv, TargetInv, Fine, Progress,
         Succeeded, pc' \in Targeted
  PROVE  TargetInv'
  <1>1. TypeInv /\ KeywordInv /\ OpInv /\ CallInv /\ HandleInv /\ op \in Ops
    BY TypeParts DEF Inv, KeywordInv
  <1>2. pc \in CallSteps /\ Succeeds /\ ~Initialize /\ ~WriteLocal
    BY DEF Succeeded, CallLocal, CallReturns, Initialize, WriteLocal, CallSteps, Succeeds,
           TaskDone, Step, Targeted, Copying
  <1>3. op' = op /\ GoesOn /\ ~sent'
    BY <1>1, <1>2, SucceedsGoesOn, StepFields DEF Ends, Targeted, Copying
  <1>4. This' = This
    BY <1>3 DEF This
  <1>5. \/ pc = "openfrom" /\ pc' = "opento"
        \/ pc = "opento" /\ pc' \in {"read", "handlefrom"}
        \/ pc = "handlefrom" /\ pc' = "read"
        \/ pc = "handleto" /\ pc' = "write"
        \/ pc = "promptto" /\ pc' = "closeto"
        \/ pc = "closeto" /\ pc' = "promptfrom"
        \/ pc = "promptfrom" /\ pc' = "closefrom"
        \/ pc = "closefrom" /\ pc' = "chmod"
    BY <1>1, <1>2, SucceedsSteps DEF Targeted, Copying
  <1>6. \A t \in Terminals : ~Replied(t)'
    BY <1>1, MovesQuiet DEF Progress, Succeeded, Moves
  <1>7. ~IsDone(op.to)'
    <2>1. \A t : t = op.to /\ t \in Terminals => ~Replied(t)'
      BY <1>6
    <2>2. PICK t : t = op.to
      OBVIOUS
    <2>3. t \notin Terminals \/ ~Replied(t)'
      BY <2>1, <2>2
    <2>4. QED
      BY <1>3, <2>2, <2>3 DEF IsDone, Replied
  <1>8. CASE pc = "openfrom"
    BY <1>5, <1>7, <1>8 DEF TargetInv, Copying
  <1>9. ASSUME pc # "openfrom"
        PROVE  TargetInv'
    <2>1. pc \in Targeted
      BY <1>5, <1>9 DEF Targeted, Copying
    <2>2. /\ UNCHANGED <<handle, leftover, spoilt>> /\ Place' = Place
          /\ ~(CallLocal /\ pc = "opento") =>
               /\ \A k : Holds(k) => Holds(k)'
               /\ Stored(op, This.path) => Stored(op, This.path)'
      BY <1>2, <1>4, <2>1, TargetKept
    <2>3. /\ This.path \in Paths /\ Place \in Places /\ op.to \in Sites /\ op.n \in Nat
          /\ op.n > 0 /\ op.read \in Nat /\ op.size \in Nat /\ op.from # op.to
          /\ op.to # "local" => op.to \in Terminals /\ Verified(op.to)
      BY <2>1, PlaceType
    <2>4. CASE pc = "opento"
      <3>1. op.read = 0 /\ At = op.to /\ What = "open"
        BY <2>4, StepAt DEF PlanInv, Early
      <3>2. Copied' = 0
        BY <1>3, <1>5, <2>4, <3>1 DEF Copied
      <3>3. \A k : k = 0 => Holds(k)'
        <4>1. CASE CallLocal
          <5>1. op.to = "local" /\ disk' = [disk EXCEPT ![Place] = <<>>]
            BY <2>4, <3>1, <4>1 DEF CallLocal
          <5>2. disk'[Place] = Source(op.n, This.path, 0)
            BY <2>3, <5>1, SourceFacts DEF DiskInv
          <5>3. QED
            BY <1>3, <1>4, <2>2, <5>1, <5>2 DEF Holds
        <4>2. CASE CallReturns /\ Answer(At, What).k = "reply"
          <5>1. Replied(At) /\ At \in Terminals
            BY <1>1, <3>1, <4>2, ReturnsReplied DEF OpInv, CallReturns
          <5>2. Holds(0)
            BY <2>4, <3>1, <5>1 DEF TargetInv, IsDone
          <5>3. ~CallLocal
            BY <5>1 DEF CallLocal, Terminals
          <5>4. QED
            BY <2>2, <5>2, <5>3
        <4>3. QED
          BY <4>1, <4>2 DEF Succeeded
      <3>4. QED
        BY <1>5, <2>4, <3>2, <3>3, TargetCopies DEF Copying
    <2>5. CASE pc \in {"handlefrom", "handleto"}
      <3>1. Holds(Copied) /\ Copied' = Copied
        BY <1>3, <1>5, <2>5 DEF TargetInv, Copying, Copied
      <3>2. PICK k : k = Copied
        OBVIOUS
      <3>3. Holds(k)' /\ k = Copied'
        BY <2>2, <2>5, <3>1, <3>2
      <3>4. pc = "handleto" =>
               op'.block = Block(op'.n, This'.path, op'.read) /\ op'.read > 0
        BY <1>3, <1>4 DEF TargetInv
      <3>5. QED
        BY <1>5, <2>5, <3>3, <3>4, TargetCopies DEF Copying
    <2>6. CASE pc = "promptto"
      <3>1. Holds(op.size)
        BY <2>6 DEF TargetInv
      <3>2. PICK k : k = op.size
        OBVIOUS
      <3>3. Holds(k)' /\ k = op'.size
        BY <1>3, <2>2, <2>6, <3>1, <3>2
      <3>4. Holds(op.size)'
        BY <3>3 DEF Holds
      <3>5. QED
        BY <1>5, <1>7, <2>6, <3>4 DEF TargetInv, Copying
    <2>7. CASE pc = "closeto"
      <3>1. At = op.to /\ What = "close"
        BY <2>7, StepAt
      <3>2. Stored(op, This.path)
        <4>1. CASE CallLocal
          <5>1. op.to = "local"
            BY <3>1, <4>1 DEF CallLocal
          <5>2. ~IsAnswered(op.to)
            BY <5>1 DEF IsAnswered, Terminals
          <5>3. QED
            BY <2>7, <5>1, <5>2, LocalStored DEF TargetInv
        <4>2. CASE CallReturns /\ Answer(At, What).k = "reply"
          <5>1. Replied(At) /\ At \in Terminals
            BY <1>1, <3>1, <4>2, ReturnsReplied DEF OpInv, CallReturns
          <5>2. QED
            BY <2>7, <3>1, <5>1 DEF TargetInv, IsDone
        <4>3. QED
          BY <4>1, <4>2 DEF Succeeded
      <3>3. QED
        BY <1>5, <2>2, <2>7, <3>2 DEF TargetInv, Copying
    <2>8. CASE pc = "promptfrom"
      <3>1. Stored(op, This.path)
        BY <2>8 DEF TargetInv
      <3>2. QED
        BY <1>5, <2>2, <2>8, <3>1 DEF TargetInv, Copying
    <2>9. CASE pc = "closefrom"
      <3>1. Stored(op, This.path)
        BY <2>9 DEF TargetInv
      <3>2. op.to # "local" => out'[op.to] = <<>>
        <4>1. SUFFICES ASSUME op.to \in Terminals, Verified(op.to)
                       PROVE  out'[op.to] = <<>>
          BY <2>3
        <4>2. At = op.from
          BY <2>9, StepAt
        <4>3. Silence(op.to)
          <5>1. ~Waiting(op.to)
            BY <2>3, <2>9, <4>2 DEF Waiting
          <5>2. QED
            BY <4>1, <5>1, SilentStep DEF ExchangeInv
        <4>4. out'[op.to] = out[op.to]
          <5>1. CASE CallLocal
            BY <5>1 DEF CallLocal, remote
          <5>2. CASE CallReturns
            <6>1. At \in Terminals /\ \E awaited : Take(At, awaited)
              BY <1>1, <5>2 DEF CallReturns, Answered, OpInv
            <6>2. QED
              BY <1>1, <2>3, <4>1, <4>2, <6>1, OneTerminal
          <5>3. QED
            BY <5>1, <5>2 DEF Succeeded
        <4>5. QED
          BY <4>3, <4>4 DEF Silence
      <3>3. QED
        BY <1>3, <1>5, <2>2, <2>9, <3>1, <3>2 DEF TargetInv, Copying, Confirmed, SessionCalls
    <2>10. QED
      BY <1>5, <1>9, <2>4, <2>5, <2>6, <2>7, <2>8, <2>9
  <1>10. QED
    BY <1>8, <1>9

\* A block is read from the source.
LEMMA TargetReads ==
  ASSUME Inv, PlanInv, ExchangeInv, DiskInv, SourceInv, TargetInv, Fine, Progress,
         ReadLocal \/ DataRead
  PROVE  TargetInv'
  <1>1. TypeInv /\ OpInv /\ op \in Ops /\ pc \in {"read", "data"}
    BY DEF Inv, TypeInv, ReadLocal, DataRead
  <1>2. /\ This.path \in Paths /\ op.n \in Nat /\ op.n > 0 /\ op.read \in Nat
        /\ op.size \in Nat /\ pc \in Targeted
    BY <1>1, PlaceType DEF Targeted, Copying
  <1>3. PICK b : /\ b \in Blocks /\ Read(b)
                 /\ \/ b = EndOfFile /\ op.read = op.size
                    \/ b = Block(op.n, This.path, op.read + 1)
    <2>1. CASE ReadLocal
      <3>1. EndOfFile \in Blocks /\ Block(op.n, This.path, op.read + 1) \in Blocks
        BY <1>2 DEF Block, EndOfFile, Blocks, Paths
      <3>2. QED
        BY <2>1, <3>1 DEF ReadLocal
    <2>2. CASE DataRead
      <3> DEFINE awaited == Printed(op.from, "data")
      <3>1. pc = "data" /\ Take(op.from, awaited)
            /\ Read(out[op.from][FirstOf(op.from, awaited)].block)
        BY <2>2 DEF DataRead
      <3>2. op.from \in Terminals /\ op.from # "local"
        BY <1>1, <3>1 DEF OpInv, Ops, Sites
      <3>3. Exchange(op.from)
        BY <3>1, <3>2, StepTerminals DEF ExchangeInv, FileSteps
      <3>4. PICK m : out[op.from] = <<m>> /\ out[op.from][FirstOf(op.from, awaited)] = m
        BY <3>1, <3>2, <3>3, TakesAwaited
      <3>5. m.block \in Blocks /\ Read(m.block)
        <4>1. Read(m.block)
          BY <3>1, <3>4
        <4>2. m.block \in Blocks
          BY <1>1, <2>2, <3>4, DataType DEF DataRead
        <4>3. QED
          BY <4>1, <4>2
      <3>6. \/ m = [k |-> "data", block |-> EndOfFile] /\ op.read = op.size
            \/ m = [k |-> "data", block |-> Block(op.n, This.path, op.read + 1)]
        BY <3>1, <3>2, <3>4, Singles DEF SourceInv
      <3>7. \/ m.block = EndOfFile /\ op.read = op.size
            \/ m.block = Block(op.n, This.path, op.read + 1)
        BY <3>6
      <3>8. QED
        BY <3>5, <3>7
    <2>3. QED
      BY <2>1, <2>2
  <1>4. /\ SameKeyword /\ op'.todo = op.todo /\ op'.block = b
        /\ op'.read = IF b = EndOfFile THEN op.read ELSE op.read + 1
        /\ pc' = IF b = EndOfFile THEN "promptto"
                 ELSE IF op.read = 0 /\ op.to # "local" THEN "handleto" ELSE "write"
    BY <1>1, <1>3, ReadFields
  <1>5. This' = This
    BY <1>4 DEF This
  <1>6. \A k : Holds(k) => Holds(k)'
    <2>1. ~(CallLocal /\ pc = "opento") /\ ~WriteLocal /\ ~Initialize
      BY <1>1 DEF WriteLocal, Initialize
    <2>2. QED
      BY <1>2, <1>5, <2>1, TargetKept
  <1>7. Holds(op.read)
    BY <1>1 DEF TargetInv, Copying, Copied
  <1>8. PICK k : k = op.read
    OBVIOUS
  <1>9. Holds(k)'
    BY <1>6, <1>7, <1>8
  <1>10. CASE b = EndOfFile
    <2>1. op.read = op.size /\ pc' = "promptto"
      <3>1. Block(op.n, This.path, op.read + 1) # EndOfFile
        BY <1>2 DEF Block, EndOfFile
      <3>2. QED
        BY <1>3, <1>4, <1>10, <3>1
    <2>2. k = op'.size
      BY <1>4, <1>8, <2>1 DEF SameKeyword
    <2>3. Holds(op.size)'
      BY <1>9, <2>2 DEF Holds
    <2>4. QED
      BY <2>1, <2>3 DEF TargetInv, Copying
  <1>11. CASE b # EndOfFile
    <2>1. /\ pc' \in {"handleto", "write"} /\ op'.read = op.read + 1
          /\ op'.block = Block(op.n, This.path, op.read + 1)
      BY <1>3, <1>4, <1>11
    <2>2. Copied' = op.read
      BY <1>2, <2>1 DEF Copied
    <2>3. op'.block = Block(op'.n, This'.path, op'.read) /\ op'.read > 0
      BY <1>2, <1>4, <1>5, <2>1 DEF SameKeyword
    <2>4. QED
      BY <1>8, <1>9, <2>1, <2>2, <2>3, TargetCopies DEF Copying
  <1>12. QED
    BY <1>10, <1>11

\* The steps that send a block to the target and wait for it.
LEMMA TargetWrites ==
  ASSUME Inv, PlanInv, ExchangeInv, DiskInv, TargetInv, Fine, Progress,
         ReadRemote \/ WriteLocal \/ WriteRemote \/ Started \/ Stopped
  PROVE  TargetInv'
  <1>1. TypeInv /\ OpInv /\ op \in Ops /\ pc \in {"read", "write", "start", "stop"}
    BY DEF Inv, TypeInv, ReadRemote, WriteLocal, WriteRemote, Started, Stopped
  <1>2. /\ This.path \in Paths /\ op.n \in Nat /\ op.read \in Nat /\ pc \in Targeted
        /\ Place \in Places /\ op.to \in Sites
        /\ op.to # "local" => op.to \in Terminals /\ Verified(op.to)
    BY <1>1, PlaceType DEF Targeted, Copying
  <1>3. /\ op' = op
        /\ \/ ReadRemote /\ pc = "read" /\ pc' = "data"
           \/ WriteLocal /\ pc = "write" /\ pc' = "read"
           \/ WriteRemote /\ pc = "write" /\ pc' = "start"
           \/ Started /\ pc = "start" /\ pc' = "stop"
           \/ Stopped /\ pc = "stop" /\ pc' = "read"
    BY <1>1, StepFields DEF ReadRemote, WriteLocal, WriteRemote, Started, Stopped
  <1>4. This' = This
    BY <1>3 DEF This
  <1>5. Holds(Copied)
    BY <1>1 DEF TargetInv, Copying
  <1>6. pc \in {"write", "start", "stop"} =>
            op.block = Block(op.n, This.path, op.read) /\ op.read > 0
    BY DEF TargetInv
  <1>7. /\ UNCHANGED <<handle, leftover, spoilt>> /\ Place' = Place
        /\ ~WriteLocal => \A k : Holds(k) => Holds(k)'
    <2>1. ~(CallLocal /\ pc = "opento") /\ ~Initialize
      BY <1>1 DEF Initialize
    <2>2. QED
      BY <1>2, <1>4, <2>1, TargetKept
  <1>8. CASE WriteLocal
    <2>1. /\ op.to = "local" /\ pc = "write" /\ pc' = "read"
          /\ disk' = [disk EXCEPT ![Place] = Append(@, op.block)]
      BY <1>3, <1>8 DEF WriteLocal, ReadRemote, WriteRemote, Started, Stopped
    <2>2. disk[Place] = Source(op.n, This.path, op.read - 1)
      BY <1>5, <2>1 DEF Holds, Copied
    <2>3. op.read - 1 \in Nat /\ (op.read - 1) + 1 = op.read
      BY <1>2, <1>6, <2>1
    <2>4. Append(disk[Place], op.block) = Source(op.n, This.path, op.read)
      <3>1. PICK j \in Nat : j = op.read - 1 /\ j + 1 = op.read
        BY <2>3
      <3>2. Append(Source(op.n, This.path, j), Block(op.n, This.path, j + 1))
                = Source(op.n, This.path, j + 1)
        BY <1>2, SourceFacts
      <3>3. QED
        BY <1>6, <2>1, <2>2, <3>1, <3>2
    <2>5. disk'[Place] = Source(op.n, This.path, op.read)
      BY <1>2, <2>1, <2>4 DEF DiskInv
    <2>6. \A k : k = op.read => Holds(k)'
      BY <1>3, <1>4, <1>7, <2>1, <2>5 DEF Holds
    <2>7. Copied' = op.read
      BY <1>3, <2>1 DEF Copied
    <2>8. QED
      BY <2>1, <2>6, <2>7, TargetCopies DEF Copying
  <1>9. CASE ~WriteLocal
    <2>1. Copied' = Copied
      <3>1. CASE ReadRemote \/ WriteRemote
        <4>1. (pc = "read" /\ pc' = "data") \/ (pc = "write" /\ pc' = "start")
          BY <1>3, <1>9, <3>1 DEF ReadRemote, WriteRemote, Started, Stopped
        <4>2. QED
          BY <1>3, <4>1 DEF Copied
      <3>2. CASE Started
        <4>1. pc = "start" /\ pc' = "stop" /\ op.to \in Terminals
          BY <1>1, <1>2, <1>3, <3>2 DEF ReadRemote, WriteRemote, Started, Stopped, OpInv
        <4>2. out'[op.to] = <<>>
          <5>1. Exchange(op.to) /\ \E awaited : Take(op.to, awaited)
            BY <1>2, <3>2, <4>1 DEF ExchangeInv, Started, Terminals
          <5>2. QED
            BY <4>1, <5>1, TakesAwaited
        <4>3. QED
          BY <1>3, <4>1, <4>2 DEF Copied
      <3>3. CASE Stopped
        <4>1. pc = "stop" /\ pc' = "read" /\ op.to \in Terminals /\ Verified(op.to)
          BY <1>1, <1>2, <1>3, <3>3 DEF ReadRemote, WriteRemote, Started, Stopped, OpInv
        <4>2. out[op.to] # <<>>
          <5>1. Exchange(op.to) /\ \E awaited : Take(op.to, awaited)
            BY <3>3, <4>1 DEF ExchangeInv, Stopped
          <5>2. QED
            BY <4>1, <5>1, TakesAwaited
        <4>3. QED
          BY <1>3, <4>1, <4>2 DEF Copied
      <3>4. QED
        BY <1>9, <3>1, <3>2, <3>3
    <2>2. PICK k : k = Copied
      OBVIOUS
    <2>3. Holds(k)' /\ k = Copied'
      BY <1>5, <1>7, <1>9, <2>1, <2>2
    <2>4. pc' \in Copying
      BY <1>3 DEF Copying
    <2>5. pc' \in {"handleto", "write", "start", "stop"} =>
              op'.block = Block(op'.n, This'.path, op'.read) /\ op'.read > 0
      BY <1>3, <1>4, <1>6, <1>9
    <2>6. QED
      BY <2>3, <2>4, <2>5, TargetCopies
  <1>10. QED
    BY <1>8, <1>9

\* A task begins.
LEMMA TargetBegins ==
  ASSUME Inv, PlanInv, ExchangeInv, Fine, StartTask
  PROVE  TargetInv'
  <1>1. TypeInv /\ OpInv /\ op \in Ops /\ pc = "task" /\ op.todo # <<>>
    BY DEF Inv, TypeInv, StartTask
  <1>2. TaskFacts /\ This.do \in {"init", "mkdir", "file", "chmod"}
    BY <1>1, ThisTask DEF TaskFacts, Tasks
  <1>3. /\ op' = op /\ UNCHANGED <<in, out>>
        /\ pc' = CASE This.do = "init" -> "verify"
                   [] This.do = "file" -> "openfrom"
                   [] OTHER -> This.do
    BY <1>1, StepFields DEF StartTask, remote
  <1>4. This' = This
    BY <1>3 DEF This
  <1>5. pc' \in {"verify", "openfrom", "mkdir", "chmod"}
    BY <1>2, <1>3
  <1>6. CASE pc' = "chmod"
    <2>1. This.do = "chmod" /\ op.to \in Terminals
      BY <1>1, <1>2, <1>3, <1>6 DEF TaskFacts, Ops, Sites
    <2>2. Silence(op.to)
      <3>1. ~Waiting(op.to) /\ Verified(op.to)
        BY <1>1, <1>2, <2>1 DEF Waiting, OpInv, CallSteps, TaskFacts
      <3>2. QED
        BY <2>1, <3>1, SilentStep DEF ExchangeInv
    <2>3. QED
      BY <1>3, <1>4, <1>6, <2>1, <2>2
         DEF TargetInv, Copying, Silence, Confirmed, SessionCalls
  <1>7. CASE pc' # "chmod"
    BY <1>5, <1>7 DEF TargetInv, Copying
  <1>8. QED
    BY <1>6, <1>7

LEMMA TargetNext ==
  ASSUME Inv, PlanInv, LastInv, ExchangeInv, DiskInv, CloseInv, SourceInv, TargetInv, Next
  PROVE  TargetInv'
  <1>1. op \in Ops
    BY DEF Inv, TypeInv
  <1>2. CASE User \/ Return
    <2>1. pc' \in {"task", "idle"}
      BY <1>2, BeginsPlan DEF Return
    <2>2. QED
      BY <2>1 DEF TargetInv, Copying
  <1>3. CASE CallRemote
    <2>1. /\ UNCHANGED <<op, pc, out, handle, leftover, files>> /\ pc \in CallSteps
          /\ OpInv
      BY <1>3 DEF CallRemote, Ask, Inv
    <2>2. SameKeyword /\ This' = This
      BY <2>1 DEF SameKeyword, This
    <2>3. \A k : Holds(k) => Holds(k)'
      BY <2>1, <2>2, HoldsKept DEF files
    <2>4. Stored(op, This.path) => Stored(op, This.path)'
      BY <2>1, <2>2 DEF Stored, Rests, Closed, Alone, files
    <2>5. HasMode(op, This.path) => HasMode(op, This.path)'
      BY <2>1, <2>2 DEF HasMode, files
    <2>6. QED
      BY <2>1, <2>3, <2>4, <2>5, TargetSame
  <1>4. CASE Moves
    <2>1. CASE Failed'
      BY <2>1 DEF TargetInv, Fine, Failed
    <2>2. CASE Fine /\ Progress
      <3>1. CASE Initialize
        <4>1. pc' = "task"
          BY <1>1, <3>1, StepFields DEF Initialize
        <4>2. QED
          BY <4>1 DEF TargetInv, Copying
      <3>2. CASE Succeeded
        <4>1. CASE pc' \in Targeted
          BY <2>2, <3>2, <4>1, TargetCalls
        <4>2. CASE pc' \notin Targeted
          BY <4>2 DEF TargetInv, Targeted, Copying
        <4>3. QED
          BY <4>1, <4>2
      <3>3. QED
        BY <2>2, <3>1, <3>2, TargetBegins, TargetReads, TargetWrites DEF Progress
    <2>3. QED
      BY <1>4, <2>1, <2>2, MovesFine
  <1>5. QED
    BY <1>2, <1>3, <1>4, TargetRun, TargetAlone DEF Next, Client, Environment, Moves

-----------------------------------------------------------------------------
(* What the keyword has done.                                               *)

LEMMA SettledStays ==
  ASSUME NEW o, NEW path, Settled(o, path),
         \A p, c : p = <<o.to, path>> /\ Rests(p, c) => Rests(p, c)',
         o.to # "local" => mode'[<<o.to, path>>] \in {mode[<<o.to, path>>], o.n}
  PROVE  Settled(o, path)'
  <1>1. PICK p, c : p = <<o.to, path>> /\ c = Source(o.n, path, o.size)
    OBVIOUS
  <1>2. Rests(p, c)'
    BY <1>1 DEF Settled, Stored
  <1>3. Stored(o, path)'
    BY <1>1, <1>2 DEF Stored, Rests
  <1>4. HasMode(o, path)'
    BY DEF Settled, HasMode
  <1>5. QED
    BY <1>3, <1>4 DEF Settled

LEMMA SettledSame ==
  ASSUME SameKeyword, NEW o, o = op, NEW path
  PROVE  /\ Settled(op, path) => Settled(o, path)
         /\ Settled(o, path)' => Settled(op, path)'
  <1>1. o.n = op'.n /\ o.to = op'.to /\ o.size = op'.size
    BY DEF SameKeyword
  <1>2. Settled(o, path)' => Settled(op, path)'
    BY <1>1 DEF Settled, Stored, HasMode, Rests, Closed, Alone
  <1>3. QED
    BY <1>2

\* What the remote Pythons do while a file of the keyword rests.
LEMMA PastRun ==
  ASSUME Inv, PlanInv, DiskInv, CloseInv, PastInv, Fine,
         NEW t \in Terminals, Remote(t) \/ Raises(t), Next
  PROVE  PastInv'
  <1>1. TypeInv /\ OpInv /\ op \in Ops /\ UNCHANGED <<op, pc, sent>>
    BY DEF Inv, TypeInv, Remote, RunOpen, RunClose, RunChmod, RunOther, OpenFails, Raises,
       CloseFails, FileFails, RunRead, RunWrite, WriteBlock, TakeMessage, control
  <1>2. SameKeyword /\ Past' = Past /\ op' = op
    BY <1>1, TasksStay DEF SameKeyword
  <1>3. \A p \in Places : mode'[p] \in {mode[p], op.n}
    BY ModeSteps DEF DiskInv
  <1>4. op.to \in Sites /\ op.from # op.to
    BY <1>1 DEF Ops, OpInv, Fine
  <1>5. ASSUME NEW path \in {"f", "g"}, Task("file", op.to, path) \in Past
        PROVE  Settled(op, path)'
    <2>1. PICK o : o = op
      OBVIOUS
    <2>2. Settled(o, path)
      BY <1>5, <2>1 DEF PastInv
    <2>3. <<o.to, path>> \in Places
      BY <1>4, <2>1 DEF Places, Sites, Paths
    <2>4. RunOpen(t) => <<t, NextCall(t).path>> # <<o.to, path>>
      <3>1. SUFFICES ASSUME RunOpen(t), t = op.to PROVE NextCall(t).path # path
        BY <2>1
      <3>2. t = At /\ sent /\ NextCall(t) = Call(t, What) /\ What = "open"
        BY <3>1, RunsCall DEF RunOpen
      <3>3. pc = "opento"
        <4>1. pc \in {"openfrom", "opento"}
          BY <1>1, <3>2 DEF What, OpInv, CallSteps
        <4>2. QED
          BY <1>4, <3>1, <3>2, <4>1, StepAt
      <3>4. This = Task("file", op.to, This.path) /\ This \notin Past
        BY <3>3, StepTerminals DEF FileSteps, TaskFacts
      <3>5. This.path # path
        BY <1>5, <3>4
      <3>6. Call(t, What).path = This.path
        BY DEF Call
      <3>7. QED
        BY <3>2, <3>5, <3>6
    <2>5. \A p, c : p = <<o.to, path>> /\ Rests(p, c) => Rests(p, c)'
      BY <2>3, <2>4, RestsRun
    <2>6. Settled(o, path)'
      BY <1>3, <2>1, <2>2, <2>3, <2>5, SettledStays
    <2>7. QED
      BY <1>2, <2>1, <2>6, SettledSame
  <1>6. ASSUME Task("chmod", op.to, "sub") \in Past
        PROVE  mode'[<<op.to, "sub">>] = op.n
    <2>1. mode[<<op.to, "sub">>] = op.n /\ <<op.to, "sub">> \in Places
      BY <1>4, <1>6 DEF PastInv, Places, Sites, Paths
    <2>2. QED
      BY <1>3, <2>1
  <1>7. QED
    BY <1>2, <1>5, <1>6 DEF PastInv

LEMMA PastAlone ==
  ASSUME Inv, DiskInv, PastInv,
         \/ Collect
         \/ \E t \in Terminals : Flush(t) \/ Hang(t) \/ Revive(t) \/ Die(t)
  PROVE  PastInv'
  <1>1. TypeInv /\ op \in Ops /\ UNCHANGED <<op, pc, sent, mode>>
    BY DEF Inv, TypeInv, Collect, Flush, Hang, Revive, Die, Breaks, control, files
  <1>2. SameKeyword /\ Past' = Past /\ op' = op /\ (Fine' <=> Fine)
    BY <1>1, TasksStay DEF SameKeyword, Fine
  <1>3. ASSUME Fine, NEW path \in {"f", "g"}, Task("file", op.to, path) \in Past
        PROVE  Settled(op, path)'
    <2>1. PICK o : o = op
      OBVIOUS
    <2>2. Settled(o, path)
      BY <1>3, <2>1 DEF PastInv
    <2>3. <<o.to, path>> \in Places
      BY <1>1, <2>1 DEF Places, Sites, Paths, Ops
    <2>4. \A p, c : p = <<o.to, path>> /\ Rests(p, c) => Rests(p, c)'
      BY <2>3, RestsAlone
    <2>5. Settled(o, path)'
      BY <1>1, <2>2, <2>4, SettledStays
    <2>6. QED
      BY <1>2, <2>1, <2>5, SettledSame
  <1>4. QED
    BY <1>1, <1>2, <1>3 DEF PastInv

\* The task that ends has been done.
LEMMA EndsSettled ==
  ASSUME Inv, PlanInv, TargetInv, Fine, Progress, Ends
  PROVE  /\ \A path \in {"f", "g"} : This = Task("file", op.to, path) => Settled(op, path)
         /\ This = Task("chmod", op.to, "sub") => mode[<<op.to, "sub">>] = op.n
  <1>1. TypeInv /\ OpInv /\ op \in Ops /\ pc \in {"verify", "mkdir", "chmod", "closefrom"}
    BY DEF Inv, TypeInv, Ends
  <1>2. /\ pc = "verify" => This.do = "init"
        /\ pc = "mkdir" => This.do = "mkdir"
        /\ pc = "closefrom" => This.do = "file" /\ op.to = "local"
    BY DEF PlanInv, FileSteps, Ends
  <1>3. pc = "chmod" => HasMode(op, This.path)
    <2>1. SUFFICES ASSUME pc = "chmod", op.to # "local" PROVE HasMode(op, This.path)
      BY DEF HasMode
    <2>2. CallReturns /\ At = op.to
      BY <2>1 DEF At, Progress, Succeeded, CallLocal, StartTask, Initialize, ReadLocal,
         ReadRemote, DataRead, WriteLocal, WriteRemote, Started, Stopped
    <2>3. Confirmed(op.to)
      <3> DEFINE i == FirstOf(At, Answers(Call(At, What)))
                 m == Answer(At, What)
      <3>1. m.k = "reply" /\ Answered(At, What) /\ sent /\ pc \in CallSteps
        BY <2>1, <2>2 DEF CallReturns, Progress, Succeeded, StartTask, Initialize, ReadLocal,
           ReadRemote, DataRead, WriteLocal, WriteRemote, Started, Stopped, CallLocal
      <3>2. i \in 1 .. Len(out[At]) /\ m = out[At][i] /\ m.what = What
        BY <1>1, <3>1, AnswerOf
      <3>3. m.what = "chmod"
        BY <2>1, <3>2 DEF What
      <3> HIDE DEF i, m
      <3>4. SessionCall(out[At][i])
        BY <3>1, <3>2, <3>3 DEF SessionCall
      <3>5. QED
        BY <2>2, <3>1, <3>2, <3>4 DEF Confirmed, SessionCalls
    <2>4. QED
      BY <2>1, <2>3 DEF TargetInv
  <1>4. ASSUME NEW path \in {"f", "g"}, This = Task("file", op.to, path)
        PROVE  Settled(op, path)
    <2>1. This.do = "file" /\ This.path = path
      BY <1>4, TaskFields
    <2>2. pc \in {"chmod", "closefrom"}
      BY <1>1, <1>2, <2>1
    <2>3. Stored(op, path)
      BY <2>1, <2>2 DEF TargetInv
    <2>4. HasMode(op, path)
      BY <1>2, <1>3, <2>1, <2>2 DEF HasMode
    <2>5. QED
      BY <2>3, <2>4 DEF Settled
  <1>5. ASSUME This = Task("chmod", op.to, "sub")
        PROVE  mode[<<op.to, "sub">>] = op.n
    <2>1. This.do = "chmod" /\ This.path = "sub"
      BY <1>5, TaskFields
    <2>2. pc = "chmod"
      BY <1>1, <1>2, <2>1
    <2>3. op.to # "local"
      BY <2>1, <2>2, StepTerminals DEF TaskFacts
    <2>4. QED
      BY <1>3, <2>1, <2>2, <2>3 DEF HasMode
  <1>6. QED
    BY <1>4, <1>5

LEMMA PastProgress ==
  ASSUME Inv, PlanInv, DiskInv, TargetInv, PastInv, Fine, Progress
  PROVE  PastInv'
  <1>1. TypeInv /\ OpInv /\ op \in Ops
    BY DEF Inv, TypeInv
  <1>2. /\ SameKeyword /\ op.todo # <<>> /\ (Begins \/ Ends \/ GoesOn)
    BY FineSteps
  <1>3. Moves /\ mode' = mode
    <2>1. Moves
      BY DEF Progress, Succeeded, Moves
    <2>2. mode' = mode
      BY DEF Progress, Succeeded, StartTask, CallLocal, CallReturns, Initialize, ReadLocal,
             ReadRemote, DataRead, WriteLocal, WriteRemote, Started, Stopped, files
    <2>3. QED
      BY <2>1, <2>2
  <1>4. op'.to = op.to /\ op'.n = op.n
    BY <1>2 DEF SameKeyword
  <1>5. \A task \in Past' : task \in Past \/ (Ends /\ task = This)
    <2>1. CASE Begins \/ GoesOn
      BY <1>2, <2>1, TasksStay DEF Begins, GoesOn
    <2>2. CASE Ends
      <3>1. op'.todo = Tail(op.todo)
        BY <1>1, <2>2, StepFields DEF Ends
      <3>2. QED
        BY <1>1, <1>2, <2>2, <3>1, TasksGoOn
    <2>3. QED
      BY <1>2, <2>1, <2>2
  <1>6. ASSUME NEW path \in {"f", "g"}, Task("file", op.to, path) \in Past'
        PROVE  Settled(op, path)'
    <2>1. PICK o : o = op
      OBVIOUS
    <2>2. Settled(o, path)
      <3>1. CASE Task("file", op.to, path) \in Past
        BY <2>1, <3>1 DEF PastInv
      <3>2. CASE Ends /\ Task("file", op.to, path) = This
        BY <2>1, <3>2, EndsSettled
      <3>3. QED
        BY <1>5, <1>6, <3>1, <3>2
    <2>3. <<o.to, path>> \in Places
      BY <1>1, <2>1 DEF Places, Sites, Paths, Ops
    <2>4. (CallLocal /\ pc = "opento") \/ WriteLocal => Place # <<o.to, path>>
      <3>1. SUFFICES ASSUME pc \in {"opento", "write"} PROVE Place # <<o.to, path>>
        BY DEF WriteLocal
      <3>2. ~Ends
        BY <3>1 DEF Ends
      <3>3. This = Task("file", op.to, This.path) /\ This \notin Past
        BY <3>1, StepTerminals DEF FileSteps, TaskFacts
      <3>4. This.path # path
        BY <1>5, <1>6, <3>2, <3>3
      <3>5. QED
        BY <3>4 DEF Place
    <2>5. \A p, c : p = <<o.to, path>> /\ Rests(p, c) => Rests(p, c)'
      BY <1>3, <2>3, <2>4, RestsMoves
    <2>6. Settled(o, path)'
      BY <1>3, <2>2, <2>5, SettledStays
    <2>7. QED
      BY <1>2, <2>1, <2>6, SettledSame
  <1>7. ASSUME Task("chmod", op.to, "sub") \in Past'
        PROVE  mode'[<<op.to, "sub">>] = op.n
    BY <1>3, <1>5, <1>7, EndsSettled DEF PastInv
  <1>8. QED
    BY <1>4, <1>6, <1>7 DEF PastInv

LEMMA PastNext ==
  ASSUME Inv, PlanInv, DiskInv, CloseInv, TargetInv, PastInv, Next
  PROVE  PastInv'
  <1>1. CASE User
    <2>1. Past' = {}
      BY <1>1, BeginsPlan
    <2>2. QED
      BY <2>1 DEF PastInv
  <1>2. CASE Return
    BY <1>2 DEF Return, PastInv, Fine
  <1>3. CASE CallRemote
    <2>1. UNCHANGED <<op, pc, handle, leftover, files>>
      BY <1>3 DEF CallRemote, Ask
    <2>2. SameKeyword /\ Past' = Past /\ op' = op
      BY <2>1, TasksStay DEF SameKeyword
    <2>3. \A o, path : Settled(o, path) => Settled(o, path)'
      BY <2>1 DEF Settled, Stored, HasMode, Rests, Closed, Alone, files
    <2>4. ASSUME NEW path, Settled(op, path)
          PROVE  Settled(op, path)'
      <3>1. PICK o : o = op
        OBVIOUS
      <3>2. QED
        BY <2>2, <2>3, <2>4, <3>1, SettledSame
    <2>5. QED
      BY <2>1, <2>2, <2>4 DEF PastInv, Fine, files
  <1>4. CASE Moves
    <2>1. CASE Failed'
      BY <2>1 DEF PastInv, Fine, Failed
    <2>2. QED
      BY <1>4, <2>1, MovesFine, PastProgress
  <1>5. ASSUME NEW t \in Terminals, Remote(t) \/ Raises(t)
        PROVE  PastInv'
    <2>1. UNCHANGED <<op, pc>>
      BY <1>5 DEF Remote, RunOpen, RunClose, RunChmod, RunOther, OpenFails, Raises, CloseFails,
         FileFails, RunRead, RunWrite, WriteBlock, TakeMessage, control
    <2>2. CASE Fine
      BY <1>5, <2>2, PastRun
    <2>3. CASE ~Fine
      BY <2>1, <2>3 DEF PastInv, Fine
    <2>4. QED
      BY <2>2, <2>3
  <1>6. QED
    BY <1>1, <1>2, <1>3, <1>4, <1>5, PastAlone DEF Next, Client, Environment, Moves

\* While no keyword is under way, nothing is done to its files.
LEMMA ReturnedNext ==
  ASSUME Inv, PlanInv, DiskInv, CloseInv, PastInv, ReturnedInv, Next
  PROVE  ReturnedInv'
  <1>1. TypeInv /\ KeywordInv /\ OpInv /\ CallInv /\ op \in Ops /\ outcome \in Ops
    BY TypeParts DEF Inv, KeywordInv
  <1>2. CASE User
    BY <1>2, BeginsPlan DEF ReturnedInv
  <1>3. CASE CallRemote
    BY <1>3 DEF CallRemote, CallSteps, ReturnedInv
  <1>4. CASE Moves
    <2>1. pc' # "idle"
      BY <1>1, <1>4, MovesFlow DEF Flow, Copying
    <2>2. QED
      BY <2>1 DEF ReturnedInv
  <1>5. CASE Return
    <2>1. /\ pc = "task" /\ op.todo = <<>> /\ outcome' = op
          /\ UNCHANGED <<handle, leftover, disk, mode, spoilt>>
      BY <1>5 DEF Return, remote, files
    <2>2. PICK o : o = op
      OBVIOUS
    <2>3. ASSUME Returned(o), NEW path \in FilesOf(o)
          PROVE  Settled(o, path)'
      <3>1. Fine
        BY <2>1, <2>2, <2>3 DEF Fine, Returned
      <3>2. path \in {"f", "g"} /\ Task("file", op.to, path) \in Past
        BY <1>1, <2>1, <2>2, <2>3, <3>1, AllDone
      <3>3. Settled(o, path)
        BY <2>2, <3>1, <3>2 DEF PastInv
      <3>4. QED
        BY <2>1, <3>3 DEF Settled, Stored, HasMode, Rests, Closed, Alone
    <2>4. outcome' = o
      BY <2>1, <2>2
    <2>5. QED
      BY <2>3, <2>4 DEF ReturnedInv, Settled, Stored, HasMode, Rests, Closed, Alone
  <1>6. CASE \/ Collect
             \/ \E t \in Terminals : Remote(t) \/ Raises(t) \/ Flush(t) \/ Hang(t)
                                     \/ Revive(t) \/ Die(t)
    <2>1. UNCHANGED <<op, pc, sent, outcome>>
      BY <1>6 DEF Collect, Flush, Hang, Revive, Die, Breaks, Remote, RunOpen, RunClose,
         RunChmod, RunOther, OpenFails, Raises, CloseFails, FileFails, RunRead, RunWrite,
         WriteBlock, TakeMessage, control
    <2>2. SUFFICES ASSUME pc = "idle" PROVE ReturnedInv'
      BY <2>1 DEF ReturnedInv
    <2>3. ~sent
      BY <1>1, <2>2 DEF OpInv, CallSteps
    <2>4. mode' = mode /\ \A t \in Terminals : ~RunOpen(t)
      BY <2>3, ModeSteps, RunsCall
    <2>5. PICK o : o = outcome
      OBVIOUS
    <2>6. ASSUME Returned(o), NEW path \in FilesOf(o)
          PROVE  Settled(o, path)'
      <3>1. Settled(o, path)
        BY <2>2, <2>5, <2>6 DEF ReturnedInv
      <3>2. <<o.to, path>> \in Places
        BY <1>1, <2>5, <2>6 DEF FilesOf, Places, Sites, Paths, Ops
      <3>3. \A p, c : p = <<o.to, path>> /\ Rests(p, c) => Rests(p, c)'
        BY <1>6, <2>4, <3>2, RestsRun, RestsAlone
      <3>4. QED
        BY <2>4, <3>1, <3>3, SettledStays
    <2>7. outcome' = o
      BY <2>1, <2>5
    <2>8. QED
      BY <2>6, <2>7 DEF ReturnedInv, Settled, Stored, HasMode, Rests, Closed, Alone
  <1>7. QED
    BY <1>2, <1>3, <1>4, <1>5, <1>6 DEF Next, Client, Environment, Moves

-----------------------------------------------------------------------------
(* All of it together.                                                      *)

LEMMA PlanSame ==
  ASSUME PlanInv, UNCHANGED <<op, pc>>
  PROVE  PlanInv'
  BY DEF PlanInv, Fine, TasksOf, Position, This, Keywords

LEMMA PlanNext ==
  ASSUME Inv, PlanInv, Next
  PROVE  PlanInv'
  <1>1. CASE User
    BY <1>1, BeginsPlan
  <1>2. CASE Return
    <2>1. pc' = "idle" /\ op'.error = "none"
      BY <1>2 DEF Return, NoOp
    <2>2. QED
      BY <2>1 DEF PlanInv, Fine
  <1>3. CASE Moves
    <2>1. CASE Failed'
      BY <2>1 DEF PlanInv, Fine, Failed
    <2>2. QED
      BY <1>3, <2>1, MovesFine, ProgressPlan
  <1>4. CASE ~(User \/ Return \/ Moves)
    <2>1. UNCHANGED <<op, pc>>
      BY <1>4 DEF Next, Client, Environment, Moves, CallRemote, Collect, Flush, Hang, Revive,
         Die, Breaks, Remote, RunOpen, RunClose, RunChmod, RunOther, OpenFails, Raises,
         CloseFails, FileFails, RunRead, RunWrite, WriteBlock, TakeMessage, control
    <2>2. QED
      BY <2>1, PlanSame
  <1>5. QED
    BY <1>1, <1>2, <1>3, <1>4

LEMMA ExchangeNext ==
  ASSUME Inv, Inv', PlanInv, LastInv, ExchangeInv, Next
  PROVE  ExchangeInv'
  <1>1. CASE User
    BY <1>1, BeginsPlan DEF ExchangeInv
  <1>2. CASE Return
    BY <1>2 DEF Return, ExchangeInv, Fine
  <1>3. CASE Moves
    <2>1. CASE Failed'
      BY <2>1 DEF ExchangeInv, Fine, Failed
    <2>2. QED
      BY <1>3, <2>1, MovesFine, CallsExchange, CopiesExchange DEF Progress
  <1>4. CASE \/ Collect
             \/ \E t \in Terminals : Flush(t) \/ Hang(t) \/ Revive(t) \/ Die(t)
    <2>1. UNCHANGED <<op, pc, sent, in, out, blocked>>
      BY <1>4 DEF Collect, Flush, Hang, Revive, Die, Breaks, control
    <2>2. (Fine' <=> Fine) /\ \A t \in Terminals : Verified(t)' <=> Verified(t)
      BY <2>1, SameStep
    <2>3. \A t \in Terminals : Exchange(t) => Exchange(t)'
      BY <2>1, ExchangeSame
    <2>4. QED
      BY <2>2, <2>3 DEF ExchangeInv
  <1>5. QED
    BY <1>1, <1>2, <1>3, <1>4, AskExchange, RemoteExchange
       DEF Next, Client, Environment, Moves

LEMMA InitContent == Init => ContentInv
  <1> SUFFICES ASSUME Init PROVE ContentInv
    OBVIOUS
  <1>1. pc = "idle" /\ op = NoOp /\ outcome = NoOp /\ ~sent
    BY DEF Init
  <1>2. NoOp.error = "none" /\ NoOp.n = 0
    BY DEF NoOp
  <1>3. \A t \in Terminals : out[t] = <<>> /\ SessionCalls(out[t]) = {}
    BY DEF Init, SessionCalls
  <1>4. DiskInv
    BY DEF Init, DiskInv, Places
  <1>5. CloseInv
    BY <1>1 DEF CloseInv, ToClose
  <1>6. PlanInv /\ ExchangeInv /\ PastInv /\ SourceInv /\ TargetInv
    BY <1>1, <1>2 DEF PlanInv, ExchangeInv, PastInv, SourceInv, TargetInv, Fine
  <1>7. LastInv
    BY <1>3 DEF LastInv
  <1>8. ReturnedInv
    BY <1>1, <1>2 DEF ReturnedInv, Returned
  <1>9. QED
    BY <1>4, <1>5, <1>6, <1>7, <1>8 DEF ContentInv

LEMMA StutterContent ==
  ASSUME ContentInv, UNCHANGED vars
  PROVE  ContentInv'
  <1>1. UNCHANGED <<line, in, out, blocked, handle, leftover, disk, mode, spoilt, op, pc,
                    sent, outcome, copies, faults>>
    BY DEF vars, remote, files, control
  <1>2. PlanInv'
    BY <1>1, PlanSame DEF ContentInv
  <1>3. LastInv' /\ DiskInv' /\ CloseInv'
    <2>1. \A t : Replied(t)' <=> Replied(t)
      BY <1>1 DEF Replied
    <2>2. \A t : ToClose(t)' <=> ToClose(t)
      BY <1>1, <2>1 DEF ToClose
    <2>3. QED
      BY <1>1, <2>2 DEF ContentInv, LastInv, DiskInv, CloseInv
  <1>4. ExchangeInv'
    <2>1. (Fine' <=> Fine) /\ \A t \in Terminals : Verified(t)' <=> Verified(t)
      BY <1>1, SameStep
    <2>2. \A t \in Terminals : Exchange(t) => Exchange(t)'
      BY <1>1, ExchangeSame
    <2>3. QED
      BY <2>1, <2>2 DEF ContentInv, ExchangeInv
  <1>5. SourceInv'
    BY <1>1, SourceSame DEF ContentInv
  <1>6. PastInv' /\ TargetInv' /\ ReturnedInv'
    <2>1. SameKeyword /\ Past' = Past /\ This' = This
      BY <1>1, TasksStay DEF SameKeyword, This
    <2>2. \A o, path : Settled(o, path)' <=> Settled(o, path)
      BY <1>1 DEF Settled, Stored, HasMode, Rests, Closed, Alone
    <2>3. PastInv'
      <3>1. PICK o : o = op
        OBVIOUS
      <3>2. \A path : Settled(op, path) => Settled(op, path)'
        BY <2>1, <2>2, <3>1, SettledSame
      <3>3. QED
        BY <1>1, <2>1, <3>2 DEF ContentInv, PastInv, Fine
    <2>4. ReturnedInv'
      <3>1. PICK o : o = outcome
        OBVIOUS
      <3>2. o = outcome'
        BY <1>1, <3>1
      <3>3. \A path : Settled(outcome, path) => Settled(outcome, path)'
        <4> TAKE path
        <4>1. Settled(outcome, path) => Settled(o, path)
          BY <3>1
        <4>2. Settled(o, path) => Settled(o, path)'
          BY <2>2
        <4>3. Settled(o, path)' => Settled(outcome, path)'
          BY <3>2 DEF Settled, Stored, HasMode, Rests, Closed, Alone
        <4>4. QED
          BY <4>1, <4>2, <4>3
      <3>4. QED
        BY <1>1, <3>3 DEF ContentInv, ReturnedInv
    <2>5. TargetInv'
      BY <1>1 DEF ContentInv, TargetInv, Fine, Holds, Copied, IsDone, Stored, HasMode, Rests,
         Closed, Alone, Replied, This, Place, IsAnswered, Confirmed
    <2>6. QED
      BY <2>3, <2>4, <2>5
  <1>7. QED
    BY <1>2, <1>3, <1>4, <1>5, <1>6 DEF ContentInv

LEMMA NextContent == Inv /\ ContentInv /\ [Next]_vars => Inv' /\ ContentInv'
  <1> SUFFICES ASSUME Inv, ContentInv, [Next]_vars PROVE Inv' /\ ContentInv'
    OBVIOUS
  <1>1. Inv'
    BY NextInv
  <1>2. CASE Next
    <2>1. PlanInv' /\ LastInv' /\ ExchangeInv' /\ DiskInv' /\ CloseInv'
      BY <1>1, <1>2, PlanNext, LastNext, ExchangeNext, DiskNext, CloseNext DEF ContentInv
    <2>2. SourceInv' /\ TargetInv'
      BY <1>2, SourceNext, TargetNext DEF ContentInv
    <2>3. PastInv' /\ ReturnedInv'
      BY <1>2, PastNext, ReturnedNext DEF ContentInv
    <2>4. QED
      BY <1>1, <2>1, <2>2, <2>3 DEF ContentInv
  <1>3. CASE UNCHANGED vars
    BY <1>1, <1>3, StutterContent
  <1>4. QED
    BY <1>2, <1>3

\* A keyword that returned without an error has copied each of its files that could be listed,
\* all of it and nothing else, and set its mode, whatever an earlier keyword left in the
\* terminals: what a raw read or write left there is skipped or lost with the session that the
\* keyword's first call verifies (initialize_if_needed), and the file that it closes is the one
\* it wrote.  Not so where an earlier keyword left the file open with something to write to it.
THEOREM CopyIsExact == Spec => []CopyExact
  <1>1. ContentInv => CopyExact
    <2>1. SUFFICES ASSUME ReturnedInv PROVE CopyExact
      BY DEF ContentInv
    <2>2. QED
      BY <2>1 DEF ReturnedInv, CopyExact, Settled, Stored, Rests, HasMode, IsCopied
  <1>2. QED
    BY InitInv, InitContent, NextContent, <1>1, PTL DEF Spec

LEMMA DirModeStep ==
  ASSUME Inv, ContentInv, Next, NEW t \in Terminals, mode'[<<t, "dir">>] # mode[<<t, "dir">>]
  PROVE  /\ op.name = "directory" => mode[<<t, "sub">>] = op.n
         /\ \A path \in FilesOf(op) : IsCopied(op, path) \/ <<t, path>> \in spoilt
  <1>1. TypeInv /\ OpInv /\ PlanInv /\ PastInv /\ DiskInv
    BY DEF Inv, ContentInv
  <1>2. /\ t = At /\ sent /\ What = "chmod" /\ This.path = "dir"
    <2>1. PICK r \in Terminals :
              /\ r = At /\ sent /\ What = "chmod"
              /\ mode' = [mode EXCEPT ![<<r, This.path>>] = op.n]
      BY ModeSteps
    <2>2. <<r, This.path>> = <<t, "dir">>
      BY <1>1, <2>1 DEF DiskInv
    <2>3. QED
      BY <2>1, <2>2
  <1>3. pc = "chmod"
    BY <1>2 DEF What
  <1>4. Fine
    BY <1>1, <1>3 DEF PlanInv, Fine, Closing
  <1>5. TaskFacts /\ At = op.to
    BY <1>1, <1>3, <1>4, StepTerminals DEF At
  <1>6. This.do = "chmod"
    BY <1>1, <1>2, <1>3, <1>4, <1>5 DEF PlanInv, TaskFacts
  <1>7. /\ \A path \in FilesOf(op) : Task("file", op.to, path) \in Past
        /\ op.name = "directory" => Task("chmod", op.to, "sub") \in Past
    BY <1>2, <1>5, <1>6 DEF TaskFacts
  <1>8. /\ op.name = "directory" => mode[<<op.to, "sub">>] = op.n
        /\ \A path \in FilesOf(op) : Settled(op, path)
    BY <1>1, <1>4, <1>7 DEF PastInv, FilesOf
  <1>9. QED
    BY <1>2, <1>5, <1>8 DEF Settled, Stored, Rests, HasMode, IsCopied

\* The mode of a directory, which may forbid to write to it, is set when all that the keyword
\* could list in it is there and has its mode (_LocalDirCopier sets the modes from the leaves to
\* the root): no step of any keyword, remote Python or fault sets it earlier.
THEOREM DirModeIsLast == Spec => DirModeLast
  <1>1. Inv /\ ContentInv /\ [Next]_vars =>
            [\A t \in Terminals :
                mode'[<<t, "dir">>] # mode[<<t, "dir">>] =>
                    /\ op.name = "directory" => mode[<<t, "sub">>] = op.n
                    /\ \A path \in FilesOf(op) : IsCopied(op, path) \/ <<t, path>> \in spoilt]_vars
    BY DirModeStep
  <1>2. QED
    BY InitInv, InitContent, NextContent, <1>1, PTL DEF Spec, DirModeLast
=============================================================================
