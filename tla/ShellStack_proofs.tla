-------------------------- MODULE ShellStack_proofs --------------------------
(****************************************************************************)
(* Proofs about ShellStack, for every number of shells, of calls and of     *)
(* connections that drop, and whatever the programs do.                     *)
(****************************************************************************)
EXTENDS ShellStack, FiniteSetTheorems, SequenceTheorems, TLAPS

\* Prompts tell the shells of the session apart, but for Pythons; above a Python nothing
\* starts.
NameInv ==
    /\ \A i, j \in 1 .. Len(shells) : shells[i] = shells[j] => i = j
    /\ \A i \in 1 .. Len(programs) - 1 : programs[i].prompt # "python"

\* What the step tells of the call.
PushSteps == {"started", "imported", "check", "setprompt", "detect", "detected", "failed"}
PopSteps == {"ask", "asked", "askagain", "askedagain"}
Pops == {"pop", "pop_until", "close"}
CallInv ==
    /\ pc \in {"idle", "await", "close"} \cup PushSteps \cup PopSteps
    /\ pc = "idle" <=> op.name = "none"
    /\ pc \in PushSteps <=> op.name = "push"
    /\ pc \in PopSteps => op.name \in Pops
    /\ pc = "await" => op.name \in {"exec", "status", "pop"}
    /\ pc = "close" => op.name = "close" /\ shells = <<>>
    /\ pc \notin {"idle", "close"} => shells # <<>>
    /\ op.name # "none" => op.n = calls /\ calls > 0
    /\ op.name \in {"pop", "close"} => op.popping
    /\ op.name = "pop_until" => op.shell \in ToSet(shells)
    /\ op.name = "push" => op.shell \in Pushed \ ToSet(shells)
    /\ op.name = "status" => Current \notin PythonShells
    /\ op.drops <= drops /\ outcome.op.drops <= drops
    /\ running # 0 => programs # <<>>

\* A call in a terminal that was quiet, and of whose connections none was lost since.
Undisturbed == op.quiet /\ op.drops = drops

\* The command of the call is to be read, runs, or has its output and its prompt printed.
Answers(token) ==
    /\ input = <<>> /\ running = 0 /\ programs # <<>>
    /\ output = <<token, Prompt(TopProgram.prompt)>>
ExecInv ==
    op.name = "exec" /\ Undisturbed =>
        \/ input = <<Line("command", op.n)>> /\ running = 0 /\ output = <<>>
        \/ input = <<>> /\ running = op.n /\ output = <<>>
        \/ Answers([type |-> "output", of |-> op.n]) /\ TopProgram.last = op.n

\* The last call was an exec_command that returned undisturbed, and nothing has
\* happened since but the request for its status.
Remembers == programs # <<>> /\ TopProgram.last = ready
ReadyInv ==
    ready # 0 =>
        /\ pc = "idle" => Idle /\ Remembers
        /\ pc = "await" /\ op.name = "status" =>
              /\ running = 0 /\ Remembers
              /\ \/ input = <<Line("status", 0)>> /\ output = <<>>
                 \/ Answers([type |-> "status", of |-> ready])
                 \/ input = <<>> /\ output = <<Prompt("python")>>

\* A call that began with the shells and the programs in step.
Sound == Undisturbed /\ op.sound

\* The programs are those of the shells, and above them one that is being started or left.
Above ==
    /\ Len(programs) = Len(shells) + 1
    /\ \A i \in 1 .. Len(shells) : Same(programs[i], shells[i])
Starting(prompt) == Above /\ TopProgram.name = op.shell /\ TopProgram.prompt = prompt

\* exec_command and get_status_code leave the programs as they are.
CommandSound ==
    op.name \in {"exec", "status"} =>
        /\ Matches
        /\ op.name = "status" =>
            /\ running = 0
            /\ input = <<>> \/ (input = <<Line("status", 0)>> /\ output = <<>>)

\* push: the start is to be read, has failed, or has its program, whose status is then asked
\* for twice, and whose prompt is set and detected.
Printed(p) == output = <<Prompt(p)>>
FirstPrompt == IF op.shell \in PythonShells THEN "python" ELSE "fresh"
StartSound ==
    \/ input = <<Line("start", op.shell)>> /\ output = <<>> /\ Matches
    \/ input = <<>> /\ Starting(FirstPrompt) /\ Printed(FirstPrompt)
    \/ input = <<>> /\ Matches /\ Printed(PromptOf(Current))
CheckSound == /\ Starting("fresh")
              /\ input = <<>> \/ (input = <<Line("status", 0)>> /\ output = <<>>)
DetectSound ==
    \/ /\ input = <<Line("setprompt", op.shell), Line("detect", 0)>>
       /\ output = <<>> /\ Starting("fresh")
    \/ input = <<Line("detect", 0)>> /\ Starting(op.shell) /\ Printed(op.shell)
    \/ /\ input = <<>> /\ Starting(op.shell)
       /\ output = <<Prompt(op.shell), [type |-> "marker", of |-> op.shell], Prompt(op.shell)>>
PushSound ==
    op.name = "push" =>
        /\ pc # "failed" => running = 0 /\ Checked(op.shell)
        /\ pc = "started" => StartSound
        /\ pc = "imported" =>
              /\ op.shell \in PythonShells /\ Starting("python")
              /\ \/ input = <<Line("empty", 0)>> /\ output = <<>>
                 \/ input = <<>> /\ Printed("python")
        /\ pc \in {"check", "setprompt", "detect", "detected"} => op.shell \notin PythonShells
        /\ pc \in {"check", "setprompt"} => CheckSound
        /\ pc = "detect" => DetectSound
        /\ pc = "detected" => input = <<>> /\ Starting(op.shell) /\ Printed(op.shell)

\* pop and pop_until: of the lines that were sent all are empty but for one exit at most,
\* that of the program above; the prompt of the current shell is printed only when the
\* one above it has gone.
Empty == Line("empty", 0)
Settled == Matches /\ \A i \in 1 .. Len(input) : input[i] = Empty
ExitAt(k) ==
    /\ input[k] = Line("exit", TopProgram.prompt = "python")
    /\ \A i \in 1 .. Len(input) : i # k => input[i] = Empty
Leaving ==
    /\ Above /\ \E k \in 1 .. Len(input) : ExitAt(k)
    /\ \A j \in 1 .. Len(shells) : PromptOf(shells[j]) # TopProgram.prompt
NoneOf(n) ==
    \A i \in 1 .. Len(output), j \in 1 .. n : output[i] # Prompt(PromptOf(shells[j]))
PopSound ==
    op.name \in {"pop", "pop_until"} =>
        /\ pc \notin {"askagain", "askedagain"} /\ running = 0
        /\ \/ Settled /\ (pc # "ask" => NoneOf(Len(shells) - 1))
           \/ Leaving /\ (pc # "ask" => NoneOf(Len(shells)))
        /\ pc = "asked" => Found(Waiting) \/ (input # <<>> /\ Last(input) = Empty)

SoundInv == Sound => CommandSound /\ PushSound /\ PopSound

\* After such a call: what is still sent changes no program.
ReturnedInv ==
    pc = "idle" /\ shells # <<>> /\ outcome.op.quiet /\ outcome.op.sound
      /\ outcome.op.drops = drops /\ outcome.result \in {"none", "returned"}
        => /\ Settled /\ running = 0
           /\ outcome.op.name = "pop_until" => Current = outcome.op.shell

TypeInv == TypeOK /\ CallInv
Inv == /\ TypeInv /\ NameInv /\ ExecInv /\ OwnOutput /\ ReadyInv
       /\ SoundInv /\ ReturnedInv

-----------------------------------------------------------------------------
(* Sequences, and what is searched for in the output.                       *)

\* A set of places in a text has a least one.
LEMMA LeastPlace ==
  ASSUME NEW n \in Nat, NEW I, I \subseteq 1 .. n, I # {}
  PROVE  \E i \in I : \A j \in I : i <= j
  <1> DEFINE R == StrictSubsetOrdering(1 .. n)
             T == {1 .. i : i \in I}
  <1>1. IsFiniteSet(1 .. n)
    BY FS_Interval
  <1>2. IsWellFoundedOn(R, SUBSET (1 .. n))
    BY <1>1, FS_StrictSubsetOrderingWellFounded, FS_FiniteSubsetsOfFinite
  <1>3. T \subseteq SUBSET (1 .. n) /\ T # {}
    <2>1. \A i \in I : 1 .. i \subseteq 1 .. n
      OBVIOUS
    <2>2. QED
      BY <2>1
  <1>4. PICK x \in T : \A y \in T : ~(<<y, x>> \in R)
    <2> HIDE DEF R, T
    <2> QED
      BY <1>2, <1>3, WFMin
  <1>5. PICK i \in I : x = 1 .. i
    BY <1>4
  <1>6. ASSUME NEW j \in I, j < i
        PROVE  FALSE
    <2>1. 1 .. j \subseteq 1 .. i /\ 1 .. j # 1 .. i
      <3>1. i \in 1 .. i /\ i \notin 1 .. j
        BY <1>6
      <3>2. QED
        BY <1>6, <3>1
    <2>2. <<1 .. j, 1 .. i>> \in R
      BY <2>1 DEF StrictSubsetOrdering
    <2>3. QED
      BY <1>4, <1>5, <2>2
  <1>7. QED
    BY <1>6

\* The text up to the first of the tokens, and that after it.
LEMMA Search ==
  ASSUME NEW S, output \in Seq(S), NEW tokens, Found(tokens)
  PROVE  /\ First(tokens) \in 1 .. Len(output) /\ output[First(tokens)] \in tokens
         /\ Before(tokens) \in Seq(S) /\ Len(Before(tokens)) = First(tokens) - 1
         /\ \A i \in 1 .. First(tokens) - 1 :
               Before(tokens)[i] = output[i] /\ output[i] \notin tokens
         /\ After(tokens) \in Seq(S) /\ Len(After(tokens)) = Len(output) - First(tokens)
         /\ \A i \in 1 .. Len(After(tokens)) : After(tokens)[i] = output[First(tokens) + i]
  <1>1. Len(output) \in Nat
    OBVIOUS
  <1>2. \E i \in Positions(tokens) : \A j \in Positions(tokens) : i <= j
    BY <1>1, LeastPlace DEF Found, Positions
  <1> DEFINE f == First(tokens)
  <1>3. f \in Positions(tokens) /\ \A j \in Positions(tokens) : f <= j
    BY <1>2 DEF First
  <1>4. f \in 1 .. Len(output) /\ output[f] \in tokens
    BY <1>3 DEF Positions
  <1>5. \A i \in 1 .. f - 1 : output[i] \notin tokens
    BY <1>1, <1>3, <1>4 DEF Positions
  <1> HIDE DEF f
  <1>6. /\ SubSeq(output, 1, f - 1) \in Seq(S) /\ Len(SubSeq(output, 1, f - 1)) = f - 1
        /\ \A i \in 1 .. f - 1 : SubSeq(output, 1, f - 1)[i] = output[i]
    BY <1>1, <1>4
  <1>7. /\ SubSeq(output, f + 1, Len(output)) \in Seq(S)
        /\ Len(SubSeq(output, f + 1, Len(output))) = Len(output) - f
        /\ \A i \in 1 .. Len(output) - f : SubSeq(output, f + 1, Len(output))[i] = output[f + i]
    BY <1>1, <1>4
  <1>8. QED
    BY <1>1, <1>4, <1>5, <1>6, <1>7 DEF f, Before, After

LEMMA AppendOf ==
  ASSUME NEW S, NEW s \in Seq(S), NEW m \in S
  PROVE  /\ Append(s, m) \in Seq(S) /\ s \o <<m>> = Append(s, m)
         /\ Len(Append(s, m)) = Len(s) + 1 /\ Append(s, m)[Len(s) + 1] = m
         /\ Append(s, m) # <<>> /\ Last(Append(s, m)) = m
         /\ \A i \in 1 .. Len(s) : Append(s, m)[i] = s[i]
  <1>1. Append(s, m) \in Seq(S) /\ Len(Append(s, m)) = Len(s) + 1 /\ Append(s, m) # <<>>
    <2>1. Append(s, m) \in Seq(S)
      OBVIOUS
    <2>2. Len(Append(s, m)) = Len(s) + 1 /\ Len(s) \in Nat
      OBVIOUS
    <2>3. Append(s, m) # <<>>
      OBVIOUS
    <2>4. QED
      BY <2>1, <2>2, <2>3
  <1>2. Append(s, m)[Len(s) + 1] = m /\ \A i \in 1 .. Len(s) : Append(s, m)[i] = s[i]
    OBVIOUS
  <1>3. s \o <<m>> = Append(s, m)
    BY AppendIsConcat
  <1>4. QED
    BY <1>1, <1>2, <1>3 DEF Last

LEMMA TailOf ==
  ASSUME NEW S, NEW s \in Seq(S), s # <<>>
  PROVE  /\ Tail(s) \in Seq(S) /\ Len(s) \in Nat /\ Len(s) > 0 /\ Len(Tail(s)) = Len(s) - 1
         /\ Head(s) = s[1] /\ s[1] \in S
         /\ \A i \in 1 .. Len(s) - 1 : Tail(s)[i] = s[i + 1]
  OBVIOUS

LEMMA FrontOf ==
  ASSUME NEW S, NEW s \in Seq(S), s # <<>>
  PROVE  /\ Front(s) \in Seq(S) /\ Len(s) \in Nat /\ Len(s) > 0 /\ Len(Front(s)) = Len(s) - 1
         /\ Last(s) = s[Len(s)] /\ Last(s) \in S
         /\ \A i \in 1 .. Len(s) - 1 : Front(s)[i] = s[i]
  <1>1. Len(s) \in Nat /\ Len(s) > 0
    OBVIOUS
  <1> DEFINE n == Len(s) - 1
  <1>2. n \in Nat /\ n <= Len(s) /\ n = Len(s) - 1
    BY <1>1
  <1> HIDE DEF n
  <1>3. /\ SubSeq(s, 1, n) \in Seq(S) /\ Len(SubSeq(s, 1, n)) = n
        /\ \A i \in 1 .. n : SubSeq(s, 1, n)[i] = s[i]
    BY <1>1, <1>2
  <1>4. QED
    BY <1>1, <1>2, <1>3 DEF Front, Last

-----------------------------------------------------------------------------
(* Types.                                                                   *)

Names == Shells \cup {"fresh", "python"}
ProgramsOf == [name : Shells, prompt : Names, last : 0 .. MaxCalls]
TerminalType ==
    /\ programs \in Seq(ProgramsOf) /\ running \in 0 .. MaxCalls
    /\ input \in Seq(Lines) /\ output \in Seq(Texts)
ControlType ==
    /\ shells \in Seq(Shells) /\ closed \in BOOLEAN
    /\ op \in Ops /\ ready \in 0 .. MaxCalls
    /\ outcome.op \in Ops /\ outcome.text \in Seq(Texts)
    /\ calls \in 0 .. MaxCalls /\ drops \in 0 .. MaxDrops

LEMMA TypeParts == TypeOK <=> TerminalType /\ ControlType
  BY DEF TypeOK, TerminalType, ControlType, Names, ProgramsOf

LEMMA NameTypes ==
  /\ \A s \in Shells : s \in Names /\ PromptOf(s) \in Names /\ s # "fresh" /\ s # "python"
                       /\ PromptOf(s) # "fresh" /\ (PromptOf(s) = "python" <=> s \in PythonShells)
                       /\ (s \notin PythonShells => PromptOf(s) = s)
  /\ Local \in Shells /\ Local \notin PythonShells /\ Pushed \subseteq Shells
  /\ PythonShells \subseteq Shells
  BY ConstantsAssumption DEF Names, PromptOf, Shells, Pushed

LEMMA TokenTypes ==
  /\ \A p \in Names : Prompt(p) \in Texts /\ [type |-> "marker", of |-> p] \in Texts
  /\ \A n \in 0 .. MaxCalls : /\ [type |-> "output", of |-> n] \in Texts
                              /\ [type |-> "status", of |-> n] \in Texts
  BY DEF Texts, Prompt, Names

LEMMA LineTypes ==
  /\ \A n \in 0 .. MaxCalls : Line("command", n) \in Lines /\ Line("status", n) \in Lines
  /\ Empty \in Lines /\ Line("empty", 0) \in Lines /\ Line("detect", 0) \in Lines
  /\ \A s \in Shells : Line("start", s) \in Lines /\ Line("setprompt", s) \in Lines
  /\ \A b \in BOOLEAN : Line("exit", b) \in Lines
  /\ \A l \in Lines :
        /\ l = Line(l.type, l.of)
        /\ l.type \in {"command", "status", "empty", "detect", "start", "setprompt", "exit"}
        /\ l.type \in {"command", "status"} => l.of \in 0 .. MaxCalls
        /\ l.type \in {"start", "setprompt"} => l.of \in Shells
        /\ l.type \in {"empty", "detect"} => l.of = 0
        /\ l.type = "exit" => l.of \in BOOLEAN
  <1>1. \A s \in Shells : Line("start", s) \in Lines /\ Line("setprompt", s) \in Lines
    BY DEF Line, Lines
  <1>2. \A n \in 0 .. MaxCalls : Line("command", n) \in Lines /\ Line("status", n) \in Lines
    BY DEF Line, Lines
  <1>3. \A b \in BOOLEAN : Line("exit", b) \in Lines
    BY DEF Line, Lines
  <1>4. Empty \in Lines /\ Line("empty", 0) \in Lines /\ Line("detect", 0) \in Lines
    BY DEF Line, Lines, Empty
  <1>5. ASSUME NEW l \in Lines
        PROVE  /\ l = Line(l.type, l.of)
               /\ l.type \in {"command", "status", "empty", "detect", "start", "setprompt",
                              "exit"}
               /\ l.type \in {"command", "status"} => l.of \in 0 .. MaxCalls
               /\ l.type \in {"start", "setprompt"} => l.of \in Shells
               /\ l.type \in {"empty", "detect"} => l.of = 0
               /\ l.type = "exit" => l.of \in BOOLEAN
    BY DEF Lines, Line
  <1>6. QED
    BY <1>1, <1>2, <1>3, <1>4, <1>5

\* The current shell and the topmost program, where there are some.
LEMMA CurrentType ==
  ASSUME ControlType, shells # <<>>
  PROVE  /\ Current \in Shells /\ Current = shells[Len(shells)] /\ Len(shells) \in Nat
         /\ Len(shells) > 0 /\ Remaining \in Seq(Shells) /\ Len(Remaining) = Len(shells) - 1
         /\ \A i \in 1 .. Len(shells) - 1 : Remaining[i] = shells[i]
  BY FrontOf DEF ControlType, Current, Remaining

LEMMA TopType ==
  ASSUME TerminalType, programs # <<>>
  PROVE  /\ TopProgram \in ProgramsOf /\ TopProgram = programs[Len(programs)]
         /\ Len(programs) \in Nat /\ Len(programs) > 0
         /\ TopProgram.prompt \in Names /\ Prompt(TopProgram.prompt) \in Texts
  <1>1. /\ TopProgram \in ProgramsOf /\ TopProgram = programs[Len(programs)]
        /\ Len(programs) \in Nat /\ Len(programs) > 0
    BY FrontOf DEF TerminalType, TopProgram
  <1>2. QED
    BY <1>1, TokenTypes DEF ProgramsOf

LEMMA WithTopType ==
  ASSUME TerminalType, programs # <<>>, NEW p \in ProgramsOf
  PROVE  /\ WithTop(p) \in Seq(ProgramsOf) /\ Len(WithTop(p)) = Len(programs)
         /\ WithTop(p) # <<>> /\ Last(WithTop(p)) = p
         /\ \A i \in 1 .. Len(programs) - 1 : WithTop(p)[i] = programs[i]
  <1>1. Len(programs) \in Nat /\ Len(programs) > 0
    BY TopType
  <1>2. programs \in Seq(ProgramsOf) /\ Len(programs) \in 1 .. Len(programs)
    BY <1>1 DEF TerminalType
  <1>3. /\ WithTop(p) \in Seq(ProgramsOf) /\ Len(WithTop(p)) = Len(programs)
        /\ \A j \in 1 .. Len(programs) :
              WithTop(p)[j] = IF j = Len(programs) THEN p ELSE programs[j]
    BY <1>2, ExceptSeq DEF WithTop
  <1>4. QED
    BY <1>1, <1>3 DEF Last

\* What is printed is added to the output.
LEMMA ShowType ==
  ASSUME output \in Seq(Texts), NEW tokens \in Seq(Texts), Show(tokens)
  PROVE  /\ output' \in Seq(Texts) /\ Len(output') = Len(output) + Len(tokens)
         /\ \A i \in 1 .. Len(output) : output'[i] = output[i]
         /\ \A i \in 1 .. Len(tokens) : output'[Len(output) + i] = tokens[i]
         /\ output = <<>> => output' = tokens
  BY ConcatProperties, ConcatEmptySeq DEF Show

LEMMA AnswerType ==
  ASSUME TerminalType, programs # <<>>, NEW tokens \in Seq(Texts), Answer(tokens)
  PROVE  /\ output' \in Seq(Texts) /\ Show(Append(tokens, Prompt(TopProgram.prompt)))
         /\ Append(tokens, Prompt(TopProgram.prompt)) \in Seq(Texts)
         /\ output = <<>> => output' = Append(tokens, Prompt(TopProgram.prompt))
  <1>1. Append(tokens, Prompt(TopProgram.prompt)) \in Seq(Texts)
    BY TopType, AppendOf
  <1>2. output \in Seq(Texts) /\ Show(Append(tokens, Prompt(TopProgram.prompt)))
    BY DEF TerminalType, Answer
  <1>3. QED
    BY <1>1, <1>2, ShowType

-----------------------------------------------------------------------------
(* What the programs do with what they read.                                *)

LEMMA EmptyTokens == <<>> \in Seq(Texts)
  OBVIOUS

LEMMA OneToken ==
  ASSUME NEW t \in Texts
  PROVE  <<t>> \in Seq(Texts) /\ Len(<<t>>) = 1 /\ <<t>>[1] = t
  OBVIOUS

\* A line that is read leaves the terminal in its types; only a command runs.
LEMMA ReadStartType ==
  ASSUME TerminalType, programs # <<>>, NEW line \in Lines, ReadStart(line), running = 0,
         input' \in Seq(Lines), calls \in 0 .. MaxCalls
  PROVE  TerminalType' /\ running' = 0
  <1> DEFINE q == [TopProgram EXCEPT !.last = calls]
  <1>1. line.of \in Shells /\ running' = 0
    BY LineTypes DEF ReadStart
  <1>2. CASE Answer(<<>>) /\ programs' = WithTop(q)
    <2>1. q \in ProgramsOf
      BY TopType DEF ProgramsOf
    <2>2. output' \in Seq(Texts)
      BY <1>2, AnswerType, EmptyTokens
    <2> HIDE DEF q
    <2>3. QED
      BY <1>1, <1>2, <2>1, <2>2, WithTopType DEF TerminalType
  <1>3. CASE ~(Answer(<<>>) /\ programs' = WithTop(q))
    <2> DEFINE prompt == IF line.of \in PythonShells THEN "python" ELSE "fresh"
               p == [name |-> line.of, prompt |-> prompt, last |-> 0]
    <2>1. prompt \in Names /\ p \in ProgramsOf
      BY <1>1, ConstantsAssumption DEF Names, ProgramsOf
    <2>2. programs' = Append(programs, p) /\ Show(<<Prompt(prompt)>>)
      BY <1>3 DEF ReadStart
    <2>3. <<Prompt(prompt)>> \in Seq(Texts)
      BY <2>1, TokenTypes, OneToken
    <2> HIDE DEF p, prompt
    <2>4. output' \in Seq(Texts)
      BY <2>2, <2>3, ShowType DEF TerminalType
    <2>5. QED
      BY <1>1, <2>1, <2>2, <2>4, AppendOf DEF TerminalType
  <1>4. QED
    BY <1>2, <1>3

LEMMA ReadSetPromptType ==
  ASSUME TerminalType, programs # <<>>, NEW line \in Lines, ReadSetPrompt(line), running = 0,
         input' \in Seq(Lines)
  PROVE  /\ TerminalType' /\ running' = 0
         /\ [TopProgram EXCEPT !.prompt = line.of, !.last = 0] \in ProgramsOf
  <1>1. line.of \in Shells /\ running' = 0 /\ TopProgram \in ProgramsOf
    BY LineTypes, TopType DEF ReadSetPrompt
  <1>2. [TopProgram EXCEPT !.prompt = line.of, !.last = 0] \in ProgramsOf
    <2>1. 0 \in 0 .. MaxCalls /\ line.of \in Names
      BY <1>1, ConstantsAssumption, NameTypes
    <2>2. QED
      BY <1>1, <2>1 DEF ProgramsOf
  <1>3. programs' \in Seq(ProgramsOf)
    BY <1>2, WithTopType DEF ReadSetPrompt
  <1>4. <<Prompt(line.of)>> \in Seq(Texts)
    <2>1. Prompt(line.of) \in Texts
      BY <1>1, TokenTypes, NameTypes
    <2>2. QED
      BY <2>1, OneToken
  <1>5. output' \in Seq(Texts)
    BY <1>4, ShowType DEF ReadSetPrompt, TerminalType
  <1>6. QED
    BY <1>1, <1>2, <1>3, <1>5 DEF TerminalType

LEMMA FrontTokens ==
  ASSUME TerminalType, programs # <<>>, Len(programs) # 1
  PROVE  <<Prompt(programs[Len(programs) - 1].prompt)>> \in Seq(Texts)
  <1>1. Len(programs) - 1 \in 1 .. Len(programs)
    <2>1. Len(programs) \in Nat /\ Len(programs) > 0
      BY TopType
    <2>2. QED
      BY <2>1
  <1>2. programs[Len(programs) - 1] \in ProgramsOf
    BY <1>1, ElementOfSeq DEF TerminalType
  <1>3. Prompt(programs[Len(programs) - 1].prompt) \in Texts
    BY <1>2, TokenTypes DEF ProgramsOf
  <1>4. QED
    BY <1>3, OneToken

LEMMA ReadExitType ==
  ASSUME TerminalType, programs # <<>>, NEW line \in Lines, ReadExit(line), running = 0,
         input' \in Seq(Lines)
  PROVE  TerminalType' /\ running' = 0
  <1>1. programs' \in Seq(ProgramsOf)
    BY FrontOf DEF ReadExit, TerminalType
  <1>2. output' \in Seq(Texts)
    <2>1. CASE Len(programs) = 1
      BY <2>1, ShowType, EmptyTokens DEF ReadExit, TerminalType
    <2>2. CASE Len(programs) # 1
      BY <2>2, ShowType, FrontTokens DEF ReadExit, TerminalType
    <2>3. QED
      BY <2>1, <2>2
  <1>3. QED
    BY <1>1, <1>2 DEF ReadExit, TerminalType

LEMMA ReadAnswerType ==
  ASSUME TerminalType, programs # <<>>, NEW line \in Lines, running = 0,
         ReadOther(line) \/ ReadStatus(line) \/ ReadDetect(line), input' \in Seq(Lines)
  PROVE  TerminalType' /\ running' = 0 /\ programs' = programs
  <1>1. TopProgram \in ProgramsOf /\ running' = 0 /\ programs' = programs
    BY TopType DEF ReadOther, ReadStatus, ReadDetect
  <1>2. /\ <<[type |-> "status", of |-> TopProgram.last]>> \in Seq(Texts)
        /\ <<[type |-> "marker", of |-> TopProgram.prompt]>> \in Seq(Texts)
    <2>1. /\ [type |-> "status", of |-> TopProgram.last] \in Texts
          /\ [type |-> "marker", of |-> TopProgram.prompt] \in Texts
      BY <1>1, TokenTypes DEF ProgramsOf
    <2>2. QED
      BY <2>1, OneToken
  <1>3. output' \in Seq(Texts)
    BY <1>2, EmptyTokens, AnswerType DEF ReadOther, ReadStatus, ReadDetect
  <1>4. QED
    BY <1>1, <1>3 DEF TerminalType

LEMMA ProgramReadsType ==
  ASSUME TerminalType, ProgramReads, calls \in 0 .. MaxCalls
  PROVE  /\ TerminalType' /\ (running' # 0 => programs' # <<>>)
         /\ input # <<>> /\ programs # <<>> /\ running = 0 /\ Head(input) \in Lines
         /\ input' = Tail(input) /\ UNCHANGED <<stack, control, drops>>
  <1>1. /\ input # <<>> /\ programs # <<>> /\ running = 0
        /\ input' = Tail(input) /\ UNCHANGED <<stack, control, drops>>
    BY DEF ProgramReads
  <1>2. Head(input) \in Lines /\ input' \in Seq(Lines)
    BY <1>1, TailOf DEF TerminalType
  <1>3. CASE ReadCommand(Head(input))
    BY <1>1, <1>2, <1>3, LineTypes DEF ReadCommand, TerminalType
  <1>4. CASE ~ReadCommand(Head(input))
    <2>1. TerminalType' /\ running' = 0
      BY <1>1, <1>2, <1>4, ReadAnswerType, ReadStartType, ReadSetPromptType, ReadExitType
         DEF ProgramReads
    <2>2. QED
      BY <1>1, <1>2, <2>1
  <1>5. QED
    BY <1>1, <1>2, <1>3, <1>4

LEMMA CommandEndsType ==
  ASSUME TerminalType, CommandEnds, programs # <<>>
  PROVE  /\ TerminalType' /\ running' = 0 /\ running # 0
         /\ [TopProgram EXCEPT !.last = running] \in ProgramsOf
         /\ UNCHANGED <<stack, input, control, drops>>
  <1>1. TopProgram \in ProgramsOf /\ running \in 0 .. MaxCalls
    BY TopType DEF TerminalType
  <1>2. [TopProgram EXCEPT !.last = running] \in ProgramsOf
    BY <1>1 DEF ProgramsOf
  <1>3. <<[type |-> "output", of |-> running]>> \in Seq(Texts)
    BY <1>1, TokenTypes, OneToken
  <1>4. output' \in Seq(Texts) /\ programs' \in Seq(ProgramsOf)
    BY <1>2, <1>3, AnswerType, WithTopType DEF CommandEnds
  <1>5. 0 \in 0 .. MaxCalls
    BY ConstantsAssumption
  <1>6. QED
    BY <1>2, <1>4, <1>5 DEF CommandEnds, TerminalType

LEMMA DropType ==
  ASSUME TerminalType, drops \in 0 .. MaxDrops, Drop
  PROVE  /\ TerminalType' /\ running' = 0 /\ drops' = drops + 1 /\ drops' \in 0 .. MaxDrops
         /\ UNCHANGED <<stack, op, pc, outcome, calls>> /\ ready' = 0
  <1>1. programs # <<>> /\ Len(programs) # 1
    <2>1. Len(programs) > 1 /\ Len(programs) \in Nat
      BY DEF Drop, TerminalType
    <2>2. Len(programs) # 1
      BY <2>1
    <2>3. programs # <<>>
      <3>1. SUFFICES ASSUME programs = <<>> PROVE FALSE
        OBVIOUS
      <3>2. Len(programs) = 0
        BY <3>1
      <3>3. QED
        BY <2>1, <3>2
    <2>4. QED
      BY <2>2, <2>3
  <1>2. programs' \in Seq(ProgramsOf)
    BY <1>1, FrontOf DEF Drop, TerminalType
  <1>3. output' \in Seq(Texts)
    BY <1>1, ShowType, FrontTokens DEF Drop, TerminalType
  <1>4. 0 \in 0 .. MaxCalls /\ <<>> \in Seq(Lines) /\ MaxDrops \in Nat
    BY ConstantsAssumption
  <1>5. QED
    BY <1>2, <1>3, <1>4 DEF Drop, TerminalType

-----------------------------------------------------------------------------
(* What the client does.                                                    *)

LEMMA SendType ==
  ASSUME input \in Seq(Lines), NEW l \in Lines
  PROVE  /\ Send(<<l>>) => input' = Append(input, l) /\ input' \in Seq(Lines)
         /\ input = <<>> /\ Send(<<l>>) => input' = <<l>>
         /\ \A m \in Lines :
               /\ Send(<<l, m>>) => input' = Append(Append(input, l), m) /\ input' \in Seq(Lines)
               /\ input = <<>> /\ Send(<<l, m>>) => input' = <<l, m>>
  <1>1. Append(input, l) \in Seq(Lines) /\ input \o <<l>> = Append(input, l)
    BY AppendOf
  <1>2. input = <<>> => Append(input, l) = <<l>>
    OBVIOUS
  <1>3. ASSUME NEW m \in Lines
        PROVE  /\ input \o <<l, m>> = Append(Append(input, l), m)
               /\ Append(Append(input, l), m) \in Seq(Lines)
               /\ input = <<>> => Append(Append(input, l), m) = <<l, m>>
    <2>1. <<l>> \in Seq(Lines) /\ <<m>> \in Seq(Lines) /\ <<l, m>> = <<l>> \o <<m>>
      OBVIOUS
    <2>2. input \o (<<l>> \o <<m>>) = (input \o <<l>>) \o <<m>>
      BY <2>1, ConcatAssociative
    <2>3. Append(input, l) \o <<m>> = Append(Append(input, l), m)
      BY <1>1, AppendOf
    <2>4. Append(Append(input, l), m) \in Seq(Lines)
      BY <1>1, AppendOf
    <2>5. input = <<>> => Append(Append(input, l), m) = <<l, m>>
      <3>1. Append(<<l>>, m) = <<l, m>>
        <4>1. <<l>> \o <<m>> = Append(<<l>>, m)
          BY <2>1, AppendOf
        <4>2. QED
          BY <2>1, <4>1
      <3>2. QED
        BY <1>2, <3>1
    <2>6. QED
      BY <1>1, <2>1, <2>2, <2>3, <2>4, <2>5
  <1>4. QED
    BY <1>1, <1>2, <1>3 DEF Send

\* What stays in order when a call goes on in the step next.
FitsStep(next, left) ==
    \/ next \in PushSteps /\ op.name = "push" /\ left = shells
    \/ next \in PopSteps /\ op.name \in {"pop", "close"} /\ left # <<>>
    \/ next \in PopSteps /\ op.name = "pop_until" /\ op.shell \in ToSet(left) /\ left # <<>>
    \/ next = "await" /\ op.name = "pop" /\ left # <<>>
    \/ next = "close" /\ op.name = "close" /\ left = <<>>

LEMMA GoOnCall ==
  ASSUME TypeInv, NEW next, GoOn(next), FitsStep(next, shells'), shells' \in Seq(Shells),
         TerminalType', running' # 0 => programs' # <<>>, UNCHANGED <<closed, calls, drops>>
  PROVE  TypeInv'
  <1>1. ControlType'
    BY TypeParts DEF GoOn, TypeInv, ControlType
  <1>2. CallInv'
    BY DEF TypeInv, CallInv, GoOn, FitsStep, PushSteps, PopSteps, Pops, Current
  <1>3. QED
    BY <1>1, <1>2, TypeParts DEF TypeInv, TypeOK, TerminalType, ControlType, Names, ProgramsOf

LEMMA AskAboutCall ==
  ASSUME TypeInv, NEW popping \in BOOLEAN, AskAbout(popping), op.name = "pop_until",
         op.shell \in ToSet(shells'), shells' # <<>>, shells' \in Seq(Shells),
         TerminalType', running' # 0 => programs' # <<>>, UNCHANGED <<closed, calls, drops>>
  PROVE  TypeInv' /\ op' = [op EXCEPT !.popping = popping] /\ op' \in Ops
  <1>1. op \in Ops /\ op' = [op EXCEPT !.popping = popping]
    BY DEF AskAbout, TypeInv, TypeOK
  <1>2. op' \in Ops
    BY <1>1 DEF Ops
  <1>3. ControlType'
    BY <1>2, TypeParts DEF AskAbout, TypeInv, ControlType
  <1>4. op'.name = op.name /\ op'.shell = op.shell /\ op'.n = op.n /\ op'.drops = op.drops
    BY <1>1 DEF Ops
  <1>5. CallInv'
    BY <1>4 DEF TypeInv, CallInv, AskAbout, PushSteps, PopSteps, Pops
  <1>6. QED
    BY <1>1, <1>2, <1>3, <1>5, TypeParts
       DEF TypeInv, TypeOK, TerminalType, ControlType, Names, ProgramsOf

LEMMA NoOpType ==
  NoOp \in Ops /\ NoOp.name = "none" /\ NoOp.drops = 0 /\ NoOp.n = 0
  BY ConstantsAssumption DEF NoOp, Ops, Shells

LEMMA ReturnCall ==
  ASSUME TypeInv, NEW result, NEW text \in Seq(Texts), Return(result, text),
         shells' \in Seq(Shells), closed' \in BOOLEAN,
         TerminalType', running' # 0 => programs' # <<>>, UNCHANGED <<calls, drops>>
  PROVE  /\ TypeInv' /\ pc' = "idle" /\ op' = NoOp
         /\ outcome'.op = op /\ outcome'.result = result /\ outcome'.text = text
         /\ ready' # 0 => op.name = "exec" /\ result = "returned" /\ Undisturbed /\ ready' = op.n
  <1>1. /\ pc' = "idle" /\ op' = NoOp
        /\ outcome'.op = op /\ outcome'.result = result /\ outcome'.text = text
        /\ ready' # 0 => op.name = "exec" /\ result = "returned" /\ Undisturbed /\ ready' = op.n
    BY DEF Return, Undisturbed
  <1>2. op \in Ops /\ op.n \in 0 .. MaxCalls /\ 0 \in 0 .. MaxCalls
    BY ConstantsAssumption DEF TypeInv, TypeOK, Ops
  <1>3. ready' \in 0 .. MaxCalls
    BY <1>2 DEF Return
  <1>4. ControlType'
    BY <1>1, <1>2, <1>3, NoOpType DEF TypeInv, TypeOK, ControlType
  <1>5. 0 <= drops
    BY DEF TypeInv, TypeOK
  <1>6. CallInv'
    BY <1>1, <1>5, NoOpType DEF TypeInv, CallInv, PushSteps, PopSteps
  <1>7. QED
    BY <1>1, <1>4, <1>6, TypeParts
       DEF TypeInv, TypeOK, TerminalType, ControlType, Names, ProgramsOf

\* The call that begins.
LEMMA BeginCall ==
  ASSUME TypeInv, NEW name \in {"exec", "status", "push", "pop", "pop_until", "close"},
         NEW shell \in Shells, NEW next, Begin(name, shell, next)
  PROVE  /\ ControlType' /\ pc = "idle" /\ pc' = next /\ op' \in Ops
         /\ op'.name = name /\ op'.n = calls + 1 /\ op'.shell = shell /\ op'.drops = drops
         /\ op'.quiet = Idle /\ op'.popping = (name # "pop_until")
         /\ op'.sound = (Matches /\ (name = "push" => output = <<>> /\ Checked(shell)))
         /\ calls' = calls + 1 /\ calls' \in 0 .. MaxCalls /\ calls' > 0
         /\ UNCHANGED <<stack, programs, running, ready, outcome, drops>>
  <1>1. calls + 1 \in 0 .. MaxCalls /\ calls + 1 > 0 /\ drops \in 0 .. MaxDrops
    BY ConstantsAssumption DEF Begin, TypeInv, TypeOK
  <1>2. /\ Idle \in BOOLEAN /\ (name # "pop_until") \in BOOLEAN
        /\ (Matches /\ (name = "push" => output = <<>> /\ Checked(shell))) \in BOOLEAN
    BY DEF Idle, Matches, Checked
  <1> DEFINE o == [name |-> name, n |-> calls + 1, shell |-> shell, quiet |-> Idle,
                   sound |-> Matches /\ (name = "push" => output = <<>> /\ Checked(shell)),
                   drops |-> drops, popping |-> name # "pop_until"]
  <1>3. op' = o
    BY DEF Begin
  <1>4. o \in Ops
    BY <1>1, <1>2 DEF Ops
  <1>5. ControlType'
    BY <1>1, <1>3, <1>4 DEF Begin, TypeInv, TypeOK, ControlType, stack
  <1>6. QED
    BY <1>1, <1>3, <1>4, <1>5 DEF Begin


LEMMA TypeInvNext ==
  ASSUME TerminalType', ControlType', CallInv'
  PROVE  TypeInv'
  BY DEF TypeInv, TypeOK, TerminalType, ControlType, Names, ProgramsOf

\* The calls that may begin.
FitsCall(name, shell, next) ==
    \/ /\ name \in {"exec", "status"} /\ next = "await" /\ shells # <<>>
       /\ name = "status" => Current \notin PythonShells
    \/ /\ name = "push" /\ next \in {"started", "setprompt"} /\ shells # <<>>
       /\ shell \in Pushed \ ToSet(shells)
    \/ name = "pop" /\ next = "ask" /\ shells # <<>>
    \/ name = "pop_until" /\ next = "ask" /\ shells # <<>> /\ shell \in ToSet(shells)
    \/ name = "close" /\ next = "ask" /\ shells # <<>>
    \/ name = "close" /\ next = "close" /\ shells = <<>>

LEMMA BegunCall ==
  ASSUME TypeInv, NEW name \in {"exec", "status", "push", "pop", "pop_until", "close"},
         NEW shell \in Shells, NEW next, Begin(name, shell, next),
         FitsCall(name, shell, next), TerminalType'
  PROVE  TypeInv'
  <1>1. /\ ControlType' /\ pc = "idle" /\ pc' = next /\ op'.popping = (name # "pop_until")
        /\ op'.name = name /\ op'.n = calls + 1 /\ op'.shell = shell /\ op'.drops = drops
        /\ calls' = calls + 1 /\ calls' > 0
        /\ UNCHANGED <<stack, programs, running, ready, outcome, drops>>
    BY BeginCall
  <1>2. drops <= drops
    BY DEF TypeInv, TypeOK
  <1>3. CallInv'
    BY <1>1, <1>2
       DEF TypeInv, CallInv, FitsCall, PushSteps, PopSteps, Pops, Current, stack
  <1>4. QED
    BY <1>1, <1>3, TypeInvNext

LEMMA ExecType ==
  ASSUME TypeInv, ExecCommand \/ GetStatusCode
  PROVE  /\ TypeInv' /\ programs # <<>> /\ shells # <<>> /\ output' = <<>>
         /\ \E name \in {"exec", "status"}, l \in Lines :
               /\ Begin(name, Local, "await")
               /\ l = IF name = "exec" THEN Line("command", calls + 1) ELSE Line("status", 0)
               /\ name = "exec" <=> ExecCommand
               /\ input' \in Seq(Lines) /\ input' = Append(input, l)
               /\ input = <<>> => input' = <<l>>
  <1>1. PICK name \in {"exec", "status"} :
          /\ Exec(name, IF name = "exec" THEN "command" ELSE "status")
          /\ name = "exec" <=> ExecCommand
          /\ name = "status" => Current \notin PythonShells
    <2>1. CASE ExecCommand
      BY <2>1 DEF ExecCommand
    <2>2. CASE ~ExecCommand /\ GetStatusCode
      BY <2>2 DEF GetStatusCode
    <2>3. QED
      BY <2>1, <2>2
  <1> DEFINE l == IF name = "exec" THEN Line("command", calls + 1) ELSE Line("status", 0)
  <1>2. Begin(name, Local, "await") /\ shells # <<>> /\ programs # <<>> /\ output' = <<>>
    BY <1>1 DEF Exec, AtEnd, Drained
  <1>3. calls + 1 \in 0 .. MaxCalls /\ 0 \in 0 .. MaxCalls /\ UNCHANGED <<stack, programs, running>>
    BY <1>2, ConstantsAssumption, BeginCall, NameTypes DEF Begin
  <1>4. l \in Lines
    BY <1>3, LineTypes
  <1>5. Send(<<l>>)
    BY <1>1 DEF Exec
  <1>6. input' \in Seq(Lines) /\ input' = Append(input, l) /\ (input = <<>> => input' = <<l>>)
    BY <1>4, <1>5, SendType DEF TypeInv, TypeOK
  <1>7. TerminalType'
    BY <1>2, <1>3, <1>6, EmptyTokens, TypeParts DEF TypeInv, TerminalType
  <1>8. TypeInv'
    BY <1>1, <1>2, <1>7, BegunCall, NameTypes DEF FitsCall
  <1>9. QED
    BY <1>1, <1>2, <1>4, <1>6, <1>8

LEMMA PushType ==
  ASSUME TypeInv, Push
  PROVE  /\ TypeInv' /\ programs # <<>> /\ shells # <<>> /\ output' = output
         /\ \E s \in Pushed \ ToSet(shells) :
               /\ s \in Shells
               /\ Begin("push", s, IF s \in BashShells THEN "setprompt" ELSE "started")
               /\ Line("start", s) \in Lines
               /\ input' = Append(input, Line("start", s))
               /\ input = <<>> => input' = <<Line("start", s)>>
  <1>1. PICK s \in Pushed \ ToSet(shells) :
          /\ Begin("push", s, IF s \in BashShells THEN "setprompt" ELSE "started")
          /\ Send(<<Line("start", s)>>)
    BY DEF Push
  <1>2. programs # <<>> /\ shells # <<>> /\ output' = output
    BY DEF Push, AtEnd
  <1>3. s \in Shells /\ Line("start", s) \in Lines
    BY NameTypes, LineTypes
  <1>4. /\ input' \in Seq(Lines) /\ input' = Append(input, Line("start", s))
        /\ input = <<>> => input' = <<Line("start", s)>>
    BY <1>1, <1>3, SendType DEF TypeInv, TypeOK
  <1>5. TerminalType'
    BY <1>1, <1>2, <1>4, TypeParts DEF TypeInv, TerminalType, Begin
  <1>6. TypeInv'
    BY <1>1, <1>2, <1>3, <1>5, BegunCall DEF FitsCall
  <1>7. QED
    BY <1>1, <1>2, <1>3, <1>4, <1>6

LEMMA PopsType ==
  ASSUME TypeInv, Pop \/ PopUntil \/ CloseTerminal
  PROVE  /\ TypeInv' /\ UNCHANGED <<terminal, shells>>
         /\ \E name \in Pops, s \in Shells :
               Begin(name, s, IF name = "close" /\ shells = <<>> THEN "close" ELSE "ask")
  <1>1. PICK name \in Pops, s \in Shells :
          LET next == IF name = "close" /\ shells = <<>> THEN "close" ELSE "ask"
          IN Begin(name, s, next) /\ FitsCall(name, s, next)
    <2>1. CASE Pop
      BY <2>1, NameTypes DEF Pop, Pops, FitsCall
    <2>2. CASE PopUntil
      <3>1. PICK s \in ToSet(shells) : Begin("pop_until", s, "ask")
        BY <2>2 DEF PopUntil
      <3>2. s \in Shells /\ shells # <<>>
        BY DEF ToSet, TypeInv, TypeOK
      <3>3. QED
        BY <3>1, <3>2 DEF Pops, FitsCall
    <2>3. CASE CloseTerminal
      BY <2>3, NameTypes DEF CloseTerminal, Pops, FitsCall
    <2>4. QED
      BY <2>1, <2>2, <2>3
  <1>2. UNCHANGED <<terminal, shells>>
    BY <1>1 DEF Pop, PopUntil, CloseTerminal, Begin, terminal, stack
  <1>3. TerminalType'
    BY <1>2, TypeParts DEF TypeInv, TerminalType, terminal
  <1>4. TypeInv'
    BY <1>1, <1>3, BegunCall DEF Pops
  <1>5. QED
    BY <1>1, <1>2, <1>4

-----------------------------------------------------------------------------
(* Each step of a call keeps the types.                                     *)

LEMMA KeptTerminal ==
  ASSUME TypeInv, UNCHANGED <<programs, running>>, input' \in Seq(Lines), output' \in Seq(Texts)
  PROVE  TerminalType' /\ (running' # 0 => programs' # <<>>)
  BY TypeParts DEF TypeInv, TerminalType, CallInv

\* The text before and after what was found.
LEMMA SearchType ==
  ASSUME TypeInv, NEW tokens, Found(tokens)
  PROVE  Before(tokens) \in Seq(Texts) /\ After(tokens) \in Seq(Texts)
  BY Search DEF TypeInv, TypeOK

LEMMA AwaitType ==
  ASSUME TypeInv, AwaitFound \/ AwaitTimeout \/ AwaitEnd \/ PushFailed
  PROVE  TypeInv'
  <1> USE DEF stack, terminal
  <1>1. output' \in Seq(Texts) /\ input' = input /\ input \in Seq(Lines)
    BY SearchType DEF AwaitFound, AwaitTimeout, AwaitEnd, PushFailed, TypeInv, TypeOK
  <1>2. TerminalType' /\ (running' # 0 => programs' # <<>>)
    BY <1>1, KeptTerminal DEF AwaitFound, AwaitTimeout, AwaitEnd, PushFailed
  <1>3. PICK result \in {"returned", "timeout", "eof", "failed"}, text \in Seq(Texts) :
          Return(result, text)
    <2>1. CASE AwaitFound
      BY <2>1, SearchType DEF AwaitFound
    <2>2. CASE AwaitTimeout \/ AwaitEnd \/ PushFailed
      <3>1. \E result \in {"timeout", "eof", "failed"} : Return(result, <<>>)
        BY <2>2 DEF AwaitTimeout, AwaitEnd, PushFailed
      <3>2. QED
        BY <3>1, EmptyTokens
    <2>3. QED
      BY <2>1, <2>2
  <1>4. shells' \in Seq(Shells) /\ closed' \in BOOLEAN /\ UNCHANGED <<calls, drops>>
    BY DEF AwaitFound, AwaitTimeout, AwaitEnd, PushFailed, TypeInv, TypeOK
  <1>5. QED
    BY <1>2, <1>3, <1>4, ReturnCall

LEMMA PushStepsType ==
  ASSUME TypeInv, SetPrompt \/ DetectPrompt \/ NotDetected
  PROVE  TypeInv'
  <1> USE DEF stack, terminal
  <1>1. input' \in Seq(Lines) /\ output' \in Seq(Texts)
    <2>1. CASE SetPrompt
      <3>1. Line("setprompt", op.shell) \in Lines /\ Line("detect", 0) \in Lines
        BY LineTypes DEF TypeInv, TypeOK, Ops
      <3>2. QED
        BY <2>1, <3>1, SendType, EmptyTokens DEF SetPrompt, TypeInv, TypeOK, Drained
    <2>2. CASE DetectPrompt \/ NotDetected
      BY <2>2, SearchType DEF DetectPrompt, NotDetected, TypeInv, TypeOK
    <2>3. QED
      BY <2>1, <2>2
  <1>2. TerminalType' /\ (running' # 0 => programs' # <<>>)
    BY <1>1, KeptTerminal DEF SetPrompt, DetectPrompt, NotDetected
  <1>3. op.name = "push" /\ \E next \in PushSteps : GoOn(next)
    BY DEF SetPrompt, DetectPrompt, NotDetected, PushSteps, TypeInv, CallInv
  <1>4. /\ shells' = shells /\ shells' \in Seq(Shells)
        /\ UNCHANGED <<closed, calls, drops>>
    BY DEF SetPrompt, DetectPrompt, NotDetected, TypeInv, TypeOK
  <1>5. QED
    BY <1>2, <1>3, <1>4, GoOnCall DEF FitsStep

LEMMA StartedType ==
  ASSUME TypeInv, Started \/ NotStarted \/ Confirmed \/ NotConfirmed
  PROVE  TypeInv'
  <1> USE DEF stack, terminal
  <1>1. shells # <<>> /\ op.name = "push"
    BY DEF Started, NotStarted, Confirmed, NotConfirmed, TypeInv, CallInv, PushSteps
  <1>2. /\ Line("setprompt", Current) \in Lines /\ Line("empty", 0) \in Lines
        /\ Line("status", 0) \in Lines
    BY <1>1, CurrentType, LineTypes, TypeParts, ConstantsAssumption DEF TypeInv
  <1>3. input' \in Seq(Lines)
    BY <1>2, SendType
       DEF Started, NotStarted, Confirmed, NotConfirmed, StartError, TypeInv, TypeOK
  <1>4. output' \in Seq(Texts)
    BY SearchType, EmptyTokens
       DEF Started, NotStarted, Confirmed, NotConfirmed, Drained, TypeInv, TypeOK
  <1>5. TerminalType' /\ (running' # 0 => programs' # <<>>)
    BY <1>3, <1>4, KeptTerminal DEF Started, NotStarted, Confirmed, NotConfirmed
  <1>6. /\ shells' = shells /\ shells' \in Seq(Shells) /\ closed' \in BOOLEAN
        /\ UNCHANGED <<closed, calls, drops>>
    BY DEF Started, NotStarted, Confirmed, NotConfirmed, TypeInv, TypeOK
  <1>7. (\E next \in PushSteps : GoOn(next)) \/ Return("notstarted", <<>>)
    BY DEF Started, NotStarted, Confirmed, NotConfirmed, StartError, PushSteps
  <1>8. QED
    BY <1>1, <1>5, <1>6, <1>7, GoOnCall, ReturnCall, EmptyTokens DEF FitsStep

LEMMA PushedType ==
  ASSUME TypeInv, Imported \/ Detected
  PROVE  TypeInv'
  <1> USE DEF stack, terminal
  <1>1. shells # <<>> /\ op.name = "push" /\ op.shell \in Shells
    BY DEF Imported, Detected, TypeInv, CallInv, PushSteps, TypeOK, Ops
  <1>2. input' \in Seq(Lines) /\ output' \in Seq(Texts)
    BY SearchType DEF Imported, Detected, TypeInv, TypeOK
  <1>3. TerminalType' /\ (running' # 0 => programs' # <<>>)
    BY <1>2, KeptTerminal DEF Imported, Detected
  <1>4. /\ shells' \in Seq(Shells) /\ closed' \in BOOLEAN /\ UNCHANGED <<closed, calls, drops>>
    <2>1. shells \in Seq(Shells) /\ closed \in BOOLEAN
      BY DEF TypeInv, TypeOK
    <2>2. Append(shells, op.shell) \in Seq(Shells)
      BY <1>1, <2>1, AppendOf
    <2>3. shells' \in {shells, Append(shells, op.shell)} /\ UNCHANGED <<closed, calls, drops>>
      BY DEF Imported, Detected
    <2>4. QED
      BY <2>1, <2>2, <2>3
  <1>5. Return("returned", <<>>) \/ (GoOn("failed") /\ shells' = shells)
    BY DEF Imported, Detected
  <1>6. QED
    BY <1>1, <1>3, <1>4, <1>5, GoOnCall, ReturnCall, EmptyTokens DEF FitsStep, PushSteps

LEMMA AskType ==
  ASSUME TypeInv, Ask \/ Interrupt
  PROVE  TypeInv' /\ shells # <<>> /\ op.name \in Pops
  <1> USE DEF stack, terminal
  <1>1. shells # <<>> /\ op.name \in Pops
    BY DEF Ask, Interrupt, TypeInv, CallInv, PopSteps
  <1>2. TerminalType' /\ (running' # 0 => programs' # <<>>)
    <2>1. CASE Ask
      <3>1. input' \in Seq(Lines) /\ output' \in Seq(Texts)
        BY <2>1, LineTypes, SendType, EmptyTokens DEF Ask, TypeInv, TypeOK, Drained
      <3>2. QED
        BY <2>1, <3>1, KeptTerminal DEF Ask
    <2>2. CASE Interrupt
      <3>1. CASE UNCHANGED <<running, input, output>>
        BY <2>2, <3>1, KeptTerminal DEF Interrupt, TypeInv, TypeOK
      <3>2. CASE running # 0 /\ running' = 0 /\ Answer(<<>>) /\ (input' = input \/ input' = <<>>)
        <4>1. programs # <<>> /\ programs' = programs
          BY <2>2, <3>2 DEF Interrupt, TypeInv, CallInv
        <4>2. output' \in Seq(Texts)
          BY <3>2, <4>1, AnswerType, EmptyTokens, TypeParts DEF TypeInv
        <4>3. input' \in Seq(Lines) /\ 0 \in 0 .. MaxCalls
          <5>1. input \in Seq(Lines) /\ <<>> \in Seq(Lines)
            BY DEF TypeInv, TypeOK
          <5>2. 0 \in 0 .. MaxCalls
            BY ConstantsAssumption
          <5>3. QED
            BY <3>2, <5>1, <5>2
        <4>4. QED
          BY <3>2, <4>1, <4>2, <4>3, TypeParts DEF TypeInv, TerminalType
      <3>3. QED
        BY <2>2, <3>1, <3>2 DEF Interrupt
    <2>3. QED
      BY <2>1, <2>2
  <1>3. \E next \in PopSteps : GoOn(next)
    BY DEF Ask, Interrupt, PopSteps
  <1>4. shells' = shells /\ shells' \in Seq(Shells) /\ UNCHANGED <<closed, calls, drops>>
    BY DEF Ask, Interrupt, TypeInv, TypeOK
  <1>5. op.name = "pop_until" => op.shell \in ToSet(shells)
    BY DEF TypeInv, CallInv
  <1>6. QED
    BY <1>1, <1>2, <1>3, <1>4, <1>5, GoOnCall DEF FitsStep, Pops

\* The shells that remain.
LEMMA RemainingSet ==
  ASSUME TypeInv, shells # <<>>
  PROVE  Remaining \in Seq(Shells) /\ ToSet(Remaining) \subseteq ToSet(shells)
  <1>1. /\ Remaining \in Seq(Shells) /\ Len(Remaining) = Len(shells) - 1 /\ Len(shells) \in Nat
        /\ \A i \in 1 .. Len(shells) - 1 : Remaining[i] = shells[i]
    BY CurrentType, TypeParts DEF TypeInv
  <1>2. \A x \in ToSet(Remaining) : \E i \in 1 .. Len(Remaining) : x = Remaining[i]
    BY <1>1 DEF ToSet
  <1>3. \A i \in 1 .. Len(shells) : shells[i] \in ToSet(shells)
    BY DEF ToSet, TypeInv, TypeOK
  <1>4. QED
    BY <1>1, <1>2, <1>3

\* The client's step after _pop.
LEMMA AfterPopType ==
  ASSUME TypeInv, op.name \in Pops, AfterPop(shells'), shells' \in Seq(Shells),
         TerminalType', running' # 0 => programs' # <<>>, UNCHANGED <<closed, calls, drops>>
  PROVE  /\ TypeInv'
         /\ \/ op.name = "pop" /\ shells' # <<>> /\ pc' = "await" /\ UNCHANGED <<op, outcome>>
            \/ op.name = "pop" /\ shells' = <<>> /\ Return("returned", <<>>)
            \/ /\ op.name = "pop_until" /\ op.shell \in ToSet(shells') /\ AskAbout(FALSE)
               /\ shells' # <<>>
            \/ op.name = "pop_until" /\ Return("unknown", <<>>)
            \/ /\ op.name = "close" /\ pc' = (IF shells' = <<>> THEN "close" ELSE "ask")
               /\ UNCHANGED <<op, outcome>>
         /\ ready' # 0 => ready' = ready
  <1>1. CASE op.name = "pop" /\ shells' # <<>>
    <2>1. GoOn("await")
      BY <1>1 DEF AfterPop
    <2>2. FitsStep("await", shells')
      BY <1>1 DEF FitsStep
    <2>3. TypeInv'
      BY <2>1, <2>2, GoOnCall
    <2>4. QED
      BY <1>1, <2>1, <2>3 DEF GoOn
  <1>2. CASE op.name = "pop" /\ shells' = <<>>
    <2>1. Return("returned", <<>>)
      BY <1>2 DEF AfterPop
    <2>2. TypeInv' /\ ready' = 0
      BY <1>2, <2>1, ReturnCall, EmptyTokens DEF TypeInv, TypeOK
    <2>3. QED
      BY <1>2, <2>1, <2>2
  <1>3. CASE op.name = "pop_until"
    <2>1. CASE op.shell \in ToSet(shells')
      <3>1. AskAbout(FALSE)
        BY <1>3, <2>1 DEF AfterPop
      <3>2. shells' # <<>>
        BY <2>1 DEF ToSet
      <3>3. TypeInv'
        BY <1>3, <2>1, <3>1, <3>2, AskAboutCall
      <3>4. QED
        BY <1>3, <2>1, <3>1, <3>2, <3>3 DEF AskAbout
    <2>2. CASE op.shell \notin ToSet(shells')
      <3>1. Return("unknown", <<>>)
        BY <1>3, <2>2 DEF AfterPop
      <3>2. TypeInv' /\ ready' = 0
        BY <1>3, <3>1, ReturnCall, EmptyTokens DEF TypeInv, TypeOK
      <3>3. QED
        BY <1>3, <3>1, <3>2
    <2>3. QED
      BY <2>1, <2>2
  <1>4. CASE op.name = "close"
    <2>1. GoOn(IF shells' = <<>> THEN "close" ELSE "ask")
      BY <1>4 DEF AfterPop
    <2>2. FitsStep(IF shells' = <<>> THEN "close" ELSE "ask", shells')
      BY <1>4 DEF FitsStep, PopSteps
    <2>3. TypeInv'
      BY <2>1, <2>2, GoOnCall
    <2>4. QED
      BY <1>4, <2>1, <2>3 DEF GoOn
  <1>5. QED
    BY <1>1, <1>2, <1>3, <1>4 DEF Pops

LEMMA ConsumedType ==
  ASSUME TypeInv
  PROVE  Consumed \in Seq(Texts)
  BY SearchType DEF Consumed, TypeInv, TypeOK

LEMMA PopUntilAnsweredType ==
  ASSUME TypeInv, PopUntilAnswered
  PROVE  TypeInv' /\ op.name = "pop_until" /\ shells # <<>>
  <1> USE DEF stack
  <1>1. op.name = "pop_until" /\ shells # <<>> /\ op.shell \in ToSet(shells)
    BY DEF PopUntilAnswered, Answered, TypeInv, CallInv, PopSteps, Pops
  <1>2. TerminalType' /\ (running' # 0 => programs' # <<>>)
    BY ConsumedType, KeptTerminal DEF PopUntilAnswered, TypeInv, TypeOK
  <1>3. shells' = shells /\ shells' \in Seq(Shells) /\ closed' \in BOOLEAN
        /\ UNCHANGED <<closed, calls, drops>>
    BY DEF PopUntilAnswered, TypeInv, TypeOK
  <1>4. Return("returned", <<>>) \/ AskAbout(TRUE)
    BY DEF PopUntilAnswered
  <1>5. QED
    BY <1>1, <1>2, <1>3, <1>4, ReturnCall, AskAboutCall, EmptyTokens

LEMMA PopMatchingType ==
  ASSUME TypeInv, PopMatching
  PROVE  /\ TypeInv' /\ op.name \in Pops /\ shells # <<>> /\ ExitLine \in Lines
         /\ shells' = Remaining /\ AfterPop(shells')
  <1>1. op.name \in Pops /\ shells # <<>>
    BY DEF PopMatching, Answered, TypeInv, CallInv, PopSteps
  <1>2. ExitLine \in Lines
    <2>1. (Current \in PythonShells) \in BOOLEAN
      OBVIOUS
    <2>2. QED
      BY <2>1, LineTypes DEF ExitLine
  <1>3. TerminalType' /\ (running' # 0 => programs' # <<>>)
    BY <1>2, SendType, ConsumedType, KeptTerminal DEF PopMatching, TypeInv, TypeOK
  <1>4. /\ shells' = Remaining /\ shells' \in Seq(Shells) /\ AfterPop(shells')
        /\ UNCHANGED <<closed, calls, drops>>
    BY <1>1, RemainingSet DEF PopMatching
  <1>5. QED
    BY <1>1, <1>2, <1>3, <1>4, AfterPopType

LEMMA PopUnexpectedType ==
  ASSUME TypeInv, PopUnexpected
  PROVE  /\ TypeInv' /\ op.name \in Pops /\ shells # <<>> /\ shells' = Remaining
         /\ op.name = "close" => AfterPop(shells')
         /\ op.name # "close" => Return("unexpected", <<>>)
  <1> USE DEF stack
  <1>1. op.name \in Pops /\ shells # <<>>
    BY DEF PopUnexpected, Answered, TypeInv, CallInv, PopSteps
  <1>2. TerminalType' /\ (running' # 0 => programs' # <<>>)
    BY ConsumedType, KeptTerminal DEF PopUnexpected, TypeInv, TypeOK
  <1>3. /\ shells' = Remaining /\ shells' \in Seq(Shells) /\ closed' \in BOOLEAN
        /\ op.name = "close" => AfterPop(shells')
        /\ op.name # "close" => Return("unexpected", <<>>)
        /\ UNCHANGED <<closed, calls, drops>>
    BY <1>1, RemainingSet DEF PopUnexpected, TypeInv, TypeOK
  <1>4. QED
    BY <1>1, <1>2, <1>3, AfterPopType, ReturnCall, EmptyTokens

LEMMA EndsType ==
  ASSUME TypeInv, AskEnd \/ Close
  PROVE  TypeInv'
  <1>1. TerminalType' /\ (running' # 0 => programs' # <<>>)
    <2>1. CASE AskEnd
      BY <2>1, KeptTerminal DEF AskEnd, terminal, TypeInv, TypeOK
    <2>2. CASE Close
      <3>1. /\ <<>> \in Seq(ProgramsOf) /\ <<>> \in Seq(Lines) /\ <<>> \in Seq(Texts)
            /\ 0 \in 0 .. MaxCalls
        BY ConstantsAssumption
      <3>2. QED
        BY <2>2, <3>1 DEF Close, TerminalType
    <2>3. QED
      BY <2>1, <2>2
  <1>2. shells' \in Seq(Shells) /\ closed' \in BOOLEAN /\ UNCHANGED <<calls, drops>>
    <2>1. CASE AskEnd
      <3>1. shells # <<>>
        BY <2>1 DEF AskEnd, TypeInv, CallInv, PopSteps
      <3>2. QED
        BY <2>1, <3>1, RemainingSet DEF AskEnd, TypeInv, TypeOK
    <2>2. CASE Close
      BY <2>2 DEF Close, TypeInv, TypeOK
    <2>3. QED
      BY <2>1, <2>2
  <1>3. Return("eof", <<>>) \/ Return("returned", <<>>)
    BY DEF AskEnd, Close
  <1>4. QED
    BY <1>1, <1>2, <1>3, ReturnCall, EmptyTokens

LEMMA ClientType ==
  ASSUME TypeInv, Client
  PROVE  TypeInv'
  BY AwaitType, PushStepsType, StartedType, PushedType, AskType, PopUntilAnsweredType,
     PopMatchingType, PopUnexpectedType, EndsType DEF Client

LEMMA TypeStep ==
  ASSUME TypeInv, [Next]_vars
  PROVE  TypeInv'
  <1>1. CASE User
    BY <1>1, ExecType, PushType, PopsType DEF User
  <1>2. CASE Client
    BY <1>2, ClientType
  <1>3. CASE Programs \/ Drop
    <2>1. TerminalType /\ ControlType /\ CallInv
      BY TypeParts DEF TypeInv
    <2>2. CASE ProgramReads \/ CommandEnds
      <3>1. programs # <<>>
        BY <2>1, <2>2, ProgramReadsType DEF CommandEnds, CallInv, ControlType
      <3>2. /\ TerminalType' /\ (running' # 0 => programs' # <<>>)
            /\ UNCHANGED <<stack, control, drops>>
        <4>1. CASE ProgramReads
          BY <2>1, <4>1, ProgramReadsType DEF ControlType
        <4>2. CASE CommandEnds
          BY <2>1, <3>1, <4>2, CommandEndsType
        <4>3. QED
          BY <2>2, <4>1, <4>2
      <3>3. ControlType' /\ CallInv'
        BY <2>1, <3>2 DEF ControlType, CallInv, Current, stack, control
      <3>4. QED
        BY <3>2, <3>3, TypeInvNext
    <2>3. CASE Drop
      <3>1. /\ TerminalType' /\ running' = 0 /\ drops' = drops + 1 /\ drops' \in 0 .. MaxDrops
            /\ UNCHANGED <<stack, op, pc, outcome, calls>> /\ ready' = 0
        BY <2>1, <2>3, DropType DEF ControlType
      <3>2. ControlType'
        BY <2>1, <3>1, ConstantsAssumption DEF ControlType, stack
      <3>3. op.drops <= drops' /\ outcome.op.drops <= drops'
        <4>1. op.drops \in 0 .. MaxDrops /\ outcome.op.drops \in 0 .. MaxDrops /\ drops \in Nat
          BY <2>1 DEF ControlType, Ops
        <4>2. QED
          BY <2>1, <3>1, <4>1, ConstantsAssumption DEF CallInv
      <3>4. CallInv'
        BY <2>1, <3>1, <3>3 DEF CallInv, Current, stack
      <3>5. QED
        BY <3>1, <3>2, <3>4, TypeInvNext
    <2>4. QED
      BY <1>3, <2>2, <2>3 DEF Programs
  <1>4. CASE UNCHANGED vars
    <2>1. TerminalType /\ ControlType /\ CallInv
      BY TypeParts DEF TypeInv
    <2>2. TerminalType' /\ ControlType' /\ CallInv'
      BY <1>4, <2>1
         DEF vars, stack, terminal, control, TerminalType, ControlType, CallInv, Current
    <2>3. QED
      BY <2>2, TypeInvNext
  <1>5. QED
    BY <1>1, <1>2, <1>3, <1>4 DEF Next

-----------------------------------------------------------------------------
(* The names of the shells and the prompts of the programs.                 *)

LEMMA AppendedName ==
  ASSUME NameInv, TypeInv, shells # <<>>, op.name = "push", shells' = Append(shells, op.shell)
  PROVE  \A i, j \in 1 .. Len(shells') : shells'[i] = shells'[j] => i = j
  <1>1. op.shell \in Shells /\ op.shell \notin ToSet(shells) /\ shells \in Seq(Shells)
    BY DEF TypeInv, TypeOK, Ops, CallInv
  <1>2. /\ Len(shells') = Len(shells) + 1 /\ shells'[Len(shells) + 1] = op.shell
        /\ \A i \in 1 .. Len(shells) : shells'[i] = shells[i]
    BY <1>1, AppendOf
  <1>3. \A i \in 1 .. Len(shells) : shells[i] # op.shell
    BY <1>1 DEF ToSet
  <1>4. SUFFICES ASSUME NEW i \in 1 .. Len(shells) + 1, NEW j \in 1 .. Len(shells) + 1,
                        shells'[i] = shells'[j]
                 PROVE  i = j
    BY <1>2
  <1>5. Len(shells) \in Nat
    BY <1>1
  <1>6. CASE i = Len(shells) + 1 \/ j = Len(shells) + 1
    BY <1>2, <1>3, <1>4, <1>5, <1>6
  <1>7. CASE i \in 1 .. Len(shells) /\ j \in 1 .. Len(shells)
    BY <1>2, <1>4, <1>7 DEF NameInv
  <1>8. QED
    BY <1>5, <1>6, <1>7

LEMMA RemainingNames ==
  ASSUME NameInv, TypeInv, shells # <<>>, shells' = Remaining
  PROVE  \A i, j \in 1 .. Len(shells') : shells'[i] = shells'[j] => i = j
  BY CurrentType, TypeParts DEF NameInv, TypeInv

\* The shells stay apart.
LEMMA NamesApart ==
  ASSUME NameInv, TypeInv, [Next]_vars
  PROVE  \A i, j \in 1 .. Len(shells') : shells'[i] = shells'[j] => i = j
  <1> USE DEF stack
  <1>1. CASE User \/ Programs \/ Drop \/ UNCHANGED vars
    <2>1. shells' = shells
      BY <1>1 DEF User, ExecCommand, GetStatusCode, Exec, Push, Pop, PopUntil, CloseTerminal,
                  Begin, Programs, ProgramReads, CommandEnds, Drop, vars
    <2>2. QED
      BY <2>1 DEF NameInv
  <1>2. CASE Client
    <2>1. \/ shells' = shells
          \/ (Imported \/ Detected) /\ shells' = Append(shells, op.shell)
          \/ (PopMatching \/ PopUnexpected \/ AskEnd) /\ shells' = Remaining
      BY <1>2 DEF Client, AwaitFound, AwaitTimeout, AwaitEnd, Started, Imported, NotStarted,
                  Confirmed, NotConfirmed, SetPrompt, DetectPrompt, Detected, NotDetected, PushFailed, Ask, Interrupt,
                  PopUntilAnswered, PopMatching, PopUnexpected, AskEnd, Close
    <2>2. Imported \/ Detected => shells # <<>> /\ op.name = "push"
      BY DEF Imported, Detected, TypeInv, CallInv, PushSteps
    <2>3. PopMatching \/ PopUnexpected \/ AskEnd => shells # <<>>
      BY PopMatchingType, PopUnexpectedType DEF AskEnd, TypeInv, CallInv, PopSteps
    <2>4. QED
      BY <2>1, <2>2, <2>3, AppendedName, RemainingNames DEF NameInv
  <1>3. QED
    BY <1>1, <1>2 DEF Next

\* What happens to the programs: the topmost one changes or goes, or one is started from
\* one that is no Python.
ProgramsStep ==
    \/ programs' = programs
    \/ programs' = <<>>
    \/ programs # <<>> /\ programs' = Front(programs)
    \/ programs # <<>> /\ \E p \in ProgramsOf : programs' = WithTop(p)
    \/ programs # <<>> /\ ~IsPython /\ \E p \in ProgramsOf : programs' = Append(programs, p)

LEMMA ProgramsSteps ==
  ASSUME TypeInv, [Next]_vars
  PROVE  ProgramsStep
  <1> USE DEF ProgramsStep
  <1>0. TerminalType
    BY TypeParts DEF TypeInv
  <1>1. CASE User \/ UNCHANGED vars
    BY <1>1 DEF User, ExecCommand, GetStatusCode, Exec, Push, Pop, PopUntil, CloseTerminal,
                Begin, vars, terminal
  <1>2. CASE Client
    <2>1. programs' = programs \/ programs' = <<>>
      BY <1>2 DEF Client, AwaitFound, AwaitTimeout, AwaitEnd, Started, Imported, NotStarted,
                  Confirmed, NotConfirmed, SetPrompt, DetectPrompt, Detected, NotDetected, PushFailed, Ask, Interrupt,
                  PopUntilAnswered, PopMatching, PopUnexpected, AskEnd, Close, terminal
    <2>2. QED
      BY <2>1
  <1>3. CASE Drop
    <2>1. Len(programs) > 1 /\ programs' = Front(programs)
      BY <1>3 DEF Drop
    <2>2. programs # <<>>
      <3>1. SUFFICES ASSUME programs = <<>> PROVE FALSE
        OBVIOUS
      <3>2. Len(programs) = 0
        BY <3>1
      <3>3. QED
        BY <2>1, <3>2
    <2>3. QED
      BY <2>1, <2>2
  <1>4. CASE CommandEnds
    <2>1. programs # <<>> /\ programs' = WithTop([TopProgram EXCEPT !.last = running])
      BY <1>4 DEF CommandEnds, TypeInv, CallInv
    <2>2. [TopProgram EXCEPT !.last = running] \in ProgramsOf
      BY <1>0, <1>4, <2>1, CommandEndsType
    <2>3. QED
      BY <2>1, <2>2
  <1>5. CASE ProgramReads
    <2> DEFINE line == Head(input)
    <2>1. programs # <<>> /\ running = 0 /\ line \in Lines /\ input' \in Seq(Lines)
          /\ calls \in 0 .. MaxCalls
      BY <1>0, <1>5, ProgramReadsType DEF TerminalType, TypeInv, TypeOK
    <2>2. CASE ReadStart(line)
      <3>1. line.of \in Shells
        BY <2>1, <2>2, LineTypes DEF ReadStart
      <3> DEFINE p == [name |-> line.of, last |-> 0,
                       prompt |-> IF line.of \in PythonShells THEN "python" ELSE "fresh"]
      <3>2. p \in ProgramsOf
        BY <3>1, ConstantsAssumption DEF ProgramsOf, Names
      <3> DEFINE q == [TopProgram EXCEPT !.last = calls]
      <3>3. q \in ProgramsOf
        BY <1>0, <2>1, TopType DEF ProgramsOf
      <3>4. programs' = WithTop(q) \/ (~IsPython /\ programs' = Append(programs, p))
        BY <2>2 DEF ReadStart
      <3>5. QED
        BY <2>1, <3>2, <3>3, <3>4
    <2>3. CASE ReadSetPrompt(line)
      <3>1. [TopProgram EXCEPT !.prompt = line.of, !.last = 0] \in ProgramsOf
        BY <1>0, <2>1, <2>3, ReadSetPromptType
      <3>2. QED
        BY <2>1, <2>3, <3>1 DEF ReadSetPrompt
    <2>4. CASE ReadExit(line)
      BY <2>1, <2>4 DEF ReadExit
    <2>5. CASE ReadCommand(line) \/ ReadOther(line) \/ ReadStatus(line) \/ ReadDetect(line)
      BY <2>5 DEF ReadCommand, ReadOther, ReadStatus, ReadDetect
    <2>6. QED
      BY <1>5, <2>2, <2>3, <2>4, <2>5 DEF ProgramReads
  <1>6. QED
    BY <1>1, <1>2, <1>3, <1>4, <1>5 DEF Next, Programs

LEMMA NameStep ==
  ASSUME NameInv, TypeInv, [Next]_vars
  PROVE  NameInv'
  <1>0. TerminalType /\ ProgramsStep /\ Len(programs) \in Nat
    BY TypeParts, ProgramsSteps DEF TypeInv, TerminalType
  <1>1. \A i \in 1 .. Len(programs') - 1 : programs'[i].prompt # "python"
    <2>1. CASE programs' = programs
      BY <2>1 DEF NameInv
    <2>2. CASE programs' = <<>>
      <3>1. Len(programs') = 0
        BY <2>2
      <3>2. QED
        BY <3>1
    <2>3. CASE programs # <<>> /\ programs' = Front(programs)
      <3>1. /\ Len(programs') = Len(programs) - 1
            /\ \A i \in 1 .. Len(programs) - 1 : programs'[i] = programs[i]
        BY <1>0, <2>3, FrontOf DEF TerminalType
      <3>2. QED
        BY <1>0, <3>1 DEF NameInv
    <2>4. CASE programs # <<>> /\ \E p \in ProgramsOf : programs' = WithTop(p)
      <3>1. /\ Len(programs') = Len(programs)
            /\ \A i \in 1 .. Len(programs) - 1 : programs'[i] = programs[i]
        BY <1>0, <2>4, WithTopType
      <3>2. QED
        BY <3>1 DEF NameInv
    <2>5. CASE programs # <<>> /\ ~IsPython /\ \E p \in ProgramsOf : programs' = Append(programs, p)
      <3>1. /\ Len(programs') = Len(programs) + 1
            /\ \A i \in 1 .. Len(programs) : programs'[i] = programs[i]
        BY <1>0, <2>5, AppendOf DEF TerminalType
      <3>2. programs[Len(programs)].prompt # "python"
        BY <1>0, <2>5, TopType DEF IsPython
      <3>3. QED
        BY <1>0, <3>1, <3>2 DEF NameInv
    <2>6. QED
      BY <1>0, <2>1, <2>2, <2>3, <2>4, <2>5 DEF ProgramsStep
  <1>2. QED
    BY <1>1, NamesApart DEF NameInv

-----------------------------------------------------------------------------
(* What is in the output and what comes first in it.                        *)

\* The rest of the invariant, which tells of the calls.
Rest == ExecInv /\ OwnOutput /\ ReadyInv /\ SoundInv /\ ReturnedInv

LEMMA PromptFacts ==
  /\ \A p, q : Prompt(p) = Prompt(q) <=> p = q
  /\ \A p, n : /\ Prompt(p) # [type |-> "output", of |-> n]
               /\ Prompt(p) # [type |-> "status", of |-> n]
  /\ \A p, q : Prompt(p) # [type |-> "marker", of |-> q]
  BY DEF Prompt

LEMMA EmptyOutput ==
  ASSUME output = <<>>, NEW tokens
  PROVE  ~Found(tokens)
  BY DEF Found, Positions

LEMMA OneInOutput ==
  ASSUME NEW t, output = <<t>>, output \in Seq(Texts), NEW tokens, Found(tokens)
  PROVE  t \in tokens /\ Before(tokens) = <<>> /\ After(tokens) = <<>>
  <1>1. Len(output) = 1 /\ output[1] = t
    OBVIOUS
  <1>2. First(tokens) = 1 /\ t \in tokens
    BY <1>1, Search
  <1>3. Len(Before(tokens)) = 0 /\ Len(After(tokens)) = 0
        /\ Before(tokens) \in Seq(Texts) /\ After(tokens) \in Seq(Texts)
    BY <1>1, <1>2, Search
  <1>4. QED
    BY <1>2, <1>3

LEMMA TwoInOutput ==
  ASSUME NEW t \in Texts, NEW u, output = <<t, u>>, output \in Seq(Texts), NEW tokens,
         Found(tokens), t \notin tokens
  PROVE  u \in tokens /\ Before(tokens) = <<t>> /\ After(tokens) = <<>>
  <1>1. Len(output) = 2 /\ output[1] = t /\ output[2] = u
    OBVIOUS
  <1>2. First(tokens) = 2 /\ u \in tokens
    <2>1. First(tokens) \in 1 .. 2 /\ output[First(tokens)] \in tokens
      BY <1>1, Search
    <2>2. QED
      BY <1>1, <2>1
  <1>3. /\ Len(Before(tokens)) = 1 /\ Before(tokens)[1] = t /\ Before(tokens) \in Seq(Texts)
        /\ Len(After(tokens)) = 0 /\ After(tokens) \in Seq(Texts)
    <2>1. /\ Before(tokens) \in Seq(Texts) /\ Len(Before(tokens)) = First(tokens) - 1
          /\ \A i \in 1 .. First(tokens) - 1 : Before(tokens)[i] = output[i]
          /\ After(tokens) \in Seq(Texts) /\ Len(After(tokens)) = Len(output) - First(tokens)
      BY Search
    <2>2. QED
      BY <1>1, <1>2, <2>1
  <1>4. Before(tokens) = <<t>> /\ After(tokens) = <<>>
    <2>1. <<t>> \in Seq(Texts) /\ Len(<<t>>) = 1 /\ <<t>>[1] = t
      BY OneToken
    <2>2. Before(tokens) = <<t>>
      BY <1>3, <2>1, SeqEqual
    <2>3. QED
      BY <1>3, <2>2
  <1>5. QED
    BY <1>2, <1>4

LEMMA ThreeInOutput ==
  ASSUME NEW t \in Texts, NEW u \in Texts, output = <<t, u, t>>, NEW tokens,
         t \notin tokens, Found(tokens)
  PROVE  After(tokens) = <<t>>
  <1>1. Len(output) = 3 /\ output[1] = t /\ output[2] = u /\ output[3] = t
        /\ output \in Seq(Texts)
    OBVIOUS
  <1>2. First(tokens) = 2
    <2>1. First(tokens) \in 1 .. 3 /\ output[First(tokens)] \in tokens
      BY <1>1, Search
    <2>2. QED
      BY <1>1, <2>1
  <1>3. /\ After(tokens) \in Seq(Texts) /\ Len(After(tokens)) = 1 /\ After(tokens)[1] = t
    <2>1. /\ After(tokens) \in Seq(Texts) /\ Len(After(tokens)) = Len(output) - 2
          /\ \A i \in 1 .. Len(After(tokens)) : After(tokens)[i] = output[2 + i]
      BY <1>1, <1>2, Search
    <2>2. Len(After(tokens)) = 1
      BY <1>1, <2>1
    <2>3. QED
      BY <1>1, <2>1, <2>2
  <1>4. <<t>> \in Seq(Texts) /\ Len(<<t>>) = 1 /\ <<t>>[1] = t
    BY OneToken
  <1>5. QED
    BY <1>3, <1>4, SeqEqual

\* The answer to a command is found when its prompt is.
LEMMA AnswerFound ==
  ASSUME TypeInv, NEW token \in Texts, \A p : token # Prompt(p), Answers(token), Found(Waiting)
  PROVE  Before(Waiting) = <<token>> /\ After(Waiting) = <<>>
  <1>1. token \notin Waiting /\ output = <<token, Prompt(TopProgram.prompt)>>
    BY DEF Waiting, Answers
  <1>2. QED
    BY <1>1, TwoInOutput DEF TypeInv, TypeOK

\* When shells and programs are in step the topmost program has the prompt of the
\* current shell, and no other has.
LEMMA InStep ==
  ASSUME TypeInv, NameInv, Matches, shells # <<>>
  PROVE  /\ programs # <<>> /\ Len(programs) = Len(shells)
         /\ TopProgram = programs[Len(shells)] /\ TopProgram.prompt = PromptOf(Current)
         /\ \A j \in 1 .. Len(shells) - 1 : PromptOf(shells[j]) # PromptOf(Current)
  <1>1. /\ Current \in Shells /\ Current = shells[Len(shells)] /\ Len(shells) \in Nat
        /\ Len(shells) > 0
    BY CurrentType, TypeParts DEF TypeInv
  <1>2. Len(programs) = Len(shells) /\ programs # <<>>
    <2>1. Len(programs) = Len(shells)
      BY DEF Matches
    <2>2. QED
      BY <1>1, <2>1
  <1>3. TopProgram = programs[Len(shells)]
    BY <1>2, TopType, TypeParts DEF TypeInv
  <1>4. Same(programs[Len(shells)], shells[Len(shells)])
    BY <1>1 DEF Matches
  <1>5. ASSUME NEW j \in 1 .. Len(shells) - 1
        PROVE  PromptOf(shells[j]) # PromptOf(Current)
    <2>1. j \in 1 .. Len(shells) /\ j # Len(shells) /\ Len(shells) \in 1 .. Len(shells)
      BY <1>1
    <2>2. shells[j] \in Shells /\ shells[j] # Current
      BY <1>1, <2>1 DEF NameInv, TypeInv, TypeOK
    <2>3. Same(programs[j], shells[j]) /\ programs[j].prompt # "python"
      BY <1>2, <2>1 DEF Matches, NameInv
    <2>4. shells[j] \notin PythonShells /\ PromptOf(shells[j]) = shells[j]
      BY <2>2, <2>3, NameTypes DEF Same
    <2>5. QED
      BY <1>1, <2>2, <2>4, NameTypes DEF PromptOf
  <1>6. QED
    BY <1>1, <1>2, <1>3, <1>4, <1>5 DEF Same

-----------------------------------------------------------------------------
(* A call that returns or goes on.                                          *)

LEMMA ReturnRest ==
  ASSUME TypeInv, NEW result, NEW text, Return(result, text), UNCHANGED drops,
         op.name # "exec" \/ result # "returned",
         result # "returned" => result # "none",
         result = "returned" => ReturnedInv'
  PROVE  Rest'
  <1>1. /\ pc' = "idle" /\ op' = NoOp /\ NoOp.name = "none"
        /\ outcome'.op = op /\ outcome'.result = result /\ ready' = 0
    BY NoOpType DEF Return
  <1>2. ExecInv' /\ OwnOutput' /\ ReadyInv' /\ SoundInv'
    BY <1>1 DEF ExecInv, OwnOutput, ReadyInv, SoundInv, CommandSound, PushSound, PopSound
  <1>3. ReturnedInv'
    BY <1>1 DEF ReturnedInv
  <1>4. QED
    BY <1>2, <1>3 DEF Rest

\* The sound part of a call that goes on is all that has to be looked at.
LEMMA GoOnRest ==
  ASSUME TypeInv, OwnOutput, pc' # "idle", op'.name = op.name, op.name \notin {"exec", "status"},
         UNCHANGED <<ready, outcome, drops>>, Sound' => PushSound' /\ PopSound'
  PROVE  Rest'
  <1>1. ExecInv' /\ OwnOutput' /\ ReadyInv' /\ ReturnedInv'
    BY DEF ExecInv, OwnOutput, ReadyInv, ReturnedInv
  <1>2. SoundInv'
    BY DEF SoundInv, CommandSound
  <1>3. QED
    BY <1>1, <1>2 DEF Rest

-----------------------------------------------------------------------------
(* The steps of exec_command and of push.                                   *)


LEMMA AwaitExecRest ==
  ASSUME TypeInv, NameInv, Rest, AwaitFound, op.name = "exec"
  PROVE  Rest'
  <1> DEFINE token == [type |-> "output", of |-> op.n]
  <1>1. Return("returned", Before(Waiting)) /\ output' = After(Waiting) /\ Found(Waiting)
        /\ UNCHANGED <<stack, programs, running, input, drops>> /\ shells # <<>>
    BY DEF AwaitFound, TypeInv, CallInv
  <1>2. /\ pc' = "idle" /\ op' = NoOp /\ op'.name = "none"
        /\ outcome'.op = op /\ outcome'.text = Before(Waiting)
        /\ ready' = IF Undisturbed THEN op.n ELSE 0
    BY <1>1, NoOpType DEF Return, Undisturbed
  <1>3. Undisturbed => /\ input = <<>> /\ running = 0 /\ programs # <<>>
                       /\ TopProgram.last = op.n
                       /\ Before(Waiting) = <<token>> /\ After(Waiting) = <<>>
    <2>1. SUFFICES ASSUME Undisturbed
                   PROVE  Answers(token) /\ TopProgram.last = op.n /\ token \in Texts
                          /\ \A p : token # Prompt(p)
      BY <1>1, AnswerFound DEF Answers
    <2>2. Answers(token) /\ TopProgram.last = op.n
      BY <1>1, <2>1, EmptyOutput DEF Rest, ExecInv
    <2>3. token \in Texts
      BY TokenTypes DEF TypeInv, TypeOK, Ops
    <2>4. \A p : token # Prompt(p)
      BY PromptFacts
    <2>5. QED
      BY <2>2, <2>3, <2>4
  <1>4. OwnOutput'
    BY <1>1, <1>2, <1>3 DEF OwnOutput, Undisturbed
  <1>5. ExecInv' /\ SoundInv'
    BY <1>2 DEF ExecInv, SoundInv, CommandSound, PushSound, PopSound
  <1>6. ReadyInv'
    BY <1>1, <1>2, <1>3 DEF ReadyInv, Idle, Remembers, TopProgram
  <1>7. ReturnedInv'
    <2>1. op.quiet /\ op.sound /\ op.drops = drops => Matches /\ Undisturbed
      BY DEF Rest, SoundInv, Sound, Undisturbed, CommandSound
    <2>2. op.quiet /\ op.sound /\ op.drops = drops => Settled' /\ running' = 0
      BY <1>1, <1>3, <2>1 DEF Settled, Matches, stack
    <2>3. QED
      BY <1>1, <1>2, <2>2 DEF ReturnedInv
  <1>8. QED
    BY <1>4, <1>5, <1>6, <1>7 DEF Rest

LEMMA AwaitRest ==
  ASSUME TypeInv, NameInv, Rest, AwaitFound \/ AwaitTimeout \/ AwaitEnd \/ PushFailed
  PROVE  Rest'
  <1> USE DEF stack
  <1>1. CASE AwaitFound /\ op.name = "exec"
    BY <1>1, AwaitExecRest
  <1>2. CASE AwaitFound /\ op.name # "exec"
    <2>1. /\ Return("returned", Before(Waiting)) /\ output' = After(Waiting) /\ Found(Waiting)
          /\ UNCHANGED <<stack, programs, running, input, drops>> /\ shells # <<>>
          /\ op.name \in {"status", "pop"} /\ pc = "await"
      BY <1>2 DEF AwaitFound, TypeInv, CallInv
    <2>2. ASSUME Sound
          PROVE  Settled /\ running = 0
      <3>1. CASE op.name = "status"
        <4>1. Matches /\ running = 0 /\ input = <<>>
          BY <2>1, <2>2, <3>1, EmptyOutput DEF Rest, SoundInv, CommandSound
        <4>2. QED
          BY <4>1 DEF Settled
      <3>2. CASE op.name = "pop"
        <4>1. PopSound
          BY <2>2 DEF Rest, SoundInv
        <4>2. ~(Leaving /\ NoneOf(Len(shells)))
          <5>1. Current = shells[Len(shells)] /\ Len(shells) \in 1 .. Len(shells)
            BY <2>1, CurrentType, TypeParts DEF TypeInv
          <5>2. \E i \in 1 .. Len(output) : output[i] = Prompt(PromptOf(shells[Len(shells)]))
            BY <2>1, <5>1 DEF Found, Positions, Waiting
          <5>3. QED
            BY <5>1, <5>2 DEF NoneOf
        <4>3. QED
          BY <2>1, <3>2, <4>1, <4>2 DEF PopSound
      <3>3. QED
        BY <2>1, <3>1, <3>2
    <2>3. outcome'.op = op /\ op.name # "pop_until"
      BY <2>1 DEF Return
    <2>4. ReturnedInv'
      BY <2>1, <2>2, <2>3 DEF ReturnedInv, Settled, Matches, Sound, Undisturbed
    <2>5. QED
      BY <2>1, <2>4, ReturnRest
  <1>3. CASE ~AwaitFound
    <2>1. \E result \in {"timeout", "eof", "failed"} : Return(result, <<>>)
      BY <1>3 DEF AwaitTimeout, AwaitEnd, PushFailed
    <2>2. UNCHANGED drops
      BY <1>3 DEF AwaitTimeout, AwaitEnd, PushFailed
    <2>3. QED
      BY <2>1, <2>2, ReturnRest
  <1>4. QED
    BY <1>1, <1>2, <1>3

\* A push that goes on.
LEMMA PushGoesOn ==
  ASSUME TypeInv, Rest, op.name = "push", NEW next \in PushSteps, GoOn(next),
         UNCHANGED <<running, drops, shells>>,
         Sound /\ PushSound => PushSound'
  PROVE  Rest'
  <1>1. op' = op /\ pc' = next /\ UNCHANGED <<ready, outcome>>
    BY DEF GoOn
  <1>2. Sound' => Sound /\ PushSound
    BY <1>1 DEF Sound, Undisturbed, Rest, SoundInv
  <1>3. PopSound'
    BY <1>1 DEF PopSound
  <1>4. pc' # "idle" /\ OwnOutput
    BY <1>1 DEF PushSteps, Rest
  <1>5. QED
    BY <1>1, <1>2, <1>3, <1>4, GoOnRest

LEMMA StartedRest ==
  ASSUME TypeInv, NameInv, Rest, Started
  PROVE  Rest'
  <1> USE DEF stack
  <1>1. /\ op.name = "push" /\ op.shell \in Shells /\ shells # <<>> /\ pc = "started"
        /\ Current \in Shells /\ output \in Seq(Texts)
    BY CurrentType, TypeParts DEF Started, TypeInv, TypeOK, Ops, CallInv, PushSteps
  <1>2. /\ UNCHANGED <<stack, programs, running, drops>> /\ Found(Initial)
        /\ output' = After(Initial) /\ Initial = {Prompt(FirstPrompt)}
    BY DEF Started, Initial, FirstPrompt
  <1>3. ASSUME Sound, PushSound
        PROVE  /\ input = <<>> /\ Starting(FirstPrompt) /\ output' = <<>>
               /\ running = 0 /\ Checked(op.shell)
    <2>1. StartSound /\ running = 0 /\ Checked(op.shell)
      BY <1>1, <1>3 DEF PushSound
    <2>2. output # <<>>
      BY <1>2, EmptyOutput
    <2>3. ~(Matches /\ Printed(PromptOf(Current)))
      <3>1. SUFFICES ASSUME Printed(PromptOf(Current)) PROVE FALSE
        OBVIOUS
      <3>2. Prompt(PromptOf(Current)) = Prompt(FirstPrompt)
        BY <1>1, <1>2, <3>1, OneInOutput DEF Printed
      <3>3. PromptOf(Current) = FirstPrompt
        BY <3>2, PromptFacts
      <3>4. {op.shell, Current} \subseteq PythonShells
        BY <1>1, <3>3, NameTypes DEF FirstPrompt
      <3>5. QED
        BY <2>1, <3>4 DEF Checked
    <2>4. input = <<>> /\ Starting(FirstPrompt) /\ Printed(FirstPrompt)
      BY <2>1, <2>2, <2>3 DEF StartSound
    <2>5. output' = <<>>
      BY <1>1, <1>2, <2>4, OneInOutput DEF Printed
    <2>6. QED
      BY <2>1, <2>4, <2>5
  <1>4. CASE op.shell \in PythonShells
    <2>1. GoOn("imported") /\ Send(<<Line("empty", 0)>>)
      BY <1>4 DEF Started
    <2>2. ASSUME Sound, PushSound
          PROVE  PushSound'
      <3>1. input' = <<Line("empty", 0)>>
        BY <1>3, <2>1, <2>2, LineTypes, SendType DEF TypeInv, TypeOK
      <3>2. pc' = "imported" /\ op' = op
        BY <2>1 DEF GoOn
      <3>3. Starting("python")' /\ Checked(op.shell)'
        BY <1>2, <1>3, <1>4, <2>2, <3>2
           DEF Starting, Above, TopProgram, FirstPrompt, Checked, Current
      <3>4. QED
        BY <1>2, <1>3, <1>4, <2>2, <3>1, <3>2, <3>3 DEF PushSound
    <2>3. QED
      BY <1>1, <1>2, <2>1, <2>2, PushGoesOn DEF PushSteps
  <1>5. CASE op.shell \notin PythonShells
    <2>1. GoOn("check") /\ Send(<<Line("status", 0)>>)
      BY <1>5 DEF Started
    <2>2. ASSUME Sound, PushSound
          PROVE  PushSound'
      <3>1. pc' = "check" /\ op' = op
        BY <2>1 DEF GoOn
      <3>2. Starting("fresh")' /\ Checked(op.shell)'
        BY <1>2, <1>3, <1>5, <2>2, <3>1
           DEF Starting, Above, TopProgram, FirstPrompt, Checked, Current
      <3>3. input' = <<Line("status", 0)>> /\ output' = <<>>
        BY <1>3, <2>1, <2>2, LineTypes, SendType, ConstantsAssumption DEF TypeInv, TypeOK
      <3>4. CheckSound'
        BY <3>2, <3>3 DEF CheckSound
      <3>5. QED
        BY <1>2, <1>3, <1>5, <2>2, <3>1, <3>2, <3>4 DEF PushSound
    <2>3. QED
      BY <1>1, <1>2, <2>1, <2>2, PushGoesOn DEF PushSteps
  <1>6. QED
    BY <1>4, <1>5

LEMMA ConfirmedRest ==
  ASSUME TypeInv, NameInv, Rest, Confirmed
  PROVE  Rest'
  <1>1. op.name = "push" /\ pc = "check" /\ output # <<>> /\ input \in Seq(Lines)
    BY DEF Confirmed, StatusIsFirst, TypeInv, TypeOK, CallInv, PushSteps
  <1>2. /\ UNCHANGED <<shells, programs, running, drops>> /\ output' = <<>>
        /\ Send(<<Line("status", 0)>>) /\ GoOn("setprompt")
    BY DEF Confirmed, Drained, stack
  <1>3. op' = op /\ pc' = "setprompt"
    BY <1>2 DEF GoOn
  <1>4. ASSUME Sound, PushSound
        PROVE  PushSound'
    <2>1. /\ running = 0 /\ Checked(op.shell) /\ op.shell \notin PythonShells
          /\ input = <<>> /\ Starting("fresh")
      BY <1>1, <1>4 DEF PushSound, CheckSound
    <2>2. input' = <<Line("status", 0)>>
      BY <1>1, <1>2, <2>1, LineTypes, SendType, ConstantsAssumption
    <2>3. Starting("fresh")' /\ Checked(op.shell)'
      BY <1>2, <1>3, <2>1 DEF Starting, Above, TopProgram, Checked, Current
    <2>4. CheckSound'
      BY <1>2, <2>2, <2>3 DEF CheckSound
    <2>5. QED
      BY <1>2, <1>3, <2>1, <2>3, <2>4 DEF PushSound
  <1>5. QED
    BY <1>1, <1>2, <1>4, PushGoesOn DEF PushSteps

LEMMA SetPromptRest ==
  ASSUME TypeInv, NameInv, Rest, SetPrompt
  PROVE  Rest'
  <1>1. /\ op.name = "push" /\ op.shell \in Shells /\ pc = "setprompt"
        /\ input \in Seq(Lines)
    BY DEF SetPrompt, TypeInv, TypeOK, Ops, CallInv, PushSteps
  <1>2. /\ UNCHANGED <<shells, programs, running, drops>> /\ output' = <<>>
        /\ Send(<<Line("setprompt", op.shell), Line("detect", 0)>>) /\ GoOn("detect")
        /\ op.shell \in KeyShells => output # <<>>
    BY DEF SetPrompt, Drained, stack
  <1>3. op' = op /\ pc' = "detect"
    BY <1>2 DEF GoOn
  <1>4. ASSUME Sound, PushSound
        PROVE  PushSound'
    <2>1. /\ running = 0 /\ Checked(op.shell) /\ op.shell \notin PythonShells
          /\ input = <<>> /\ Starting("fresh")
      <3>1. running = 0 /\ Checked(op.shell) /\ op.shell \notin PythonShells /\ CheckSound
        BY <1>1, <1>4 DEF PushSound
      <3>2. op.shell \in KeyShells
        BY <1>1, <3>1 DEF Checked, Pushed, TypeInv, CallInv
      <3>3. QED
        BY <1>2, <3>1, <3>2 DEF CheckSound
    <2>2. input' = <<Line("setprompt", op.shell), Line("detect", 0)>>
      <3>1. Line("setprompt", op.shell) \in Lines /\ Line("detect", 0) \in Lines
        BY <1>1, LineTypes
      <3>2. QED
        BY <1>1, <1>2, <2>1, <3>1, SendType
    <2>3. Starting("fresh")' /\ Checked(op.shell)'
      BY <1>2, <1>3, <2>1 DEF Starting, Above, TopProgram, Checked, Current
    <2>4. DetectSound'
      BY <1>2, <1>3, <2>2, <2>3 DEF DetectSound
    <2>5. QED
      BY <1>2, <1>3, <2>1, <2>3, <2>4 DEF PushSound
  <1>5. QED
    BY <1>1, <1>2, <1>4, PushGoesOn DEF PushSteps

LEMMA DetectPromptRest ==
  ASSUME TypeInv, NameInv, Rest, DetectPrompt
  PROVE  Rest'
  <1>1. /\ op.name = "push" /\ op.shell \in Shells /\ pc = "detect" /\ output \in Seq(Texts)
    BY DEF DetectPrompt, TypeInv, TypeOK, Ops, CallInv, PushSteps
  <1>2. /\ UNCHANGED <<shells, programs, running, input, drops>> /\ Found(Marker)
        /\ output' = After(Marker) /\ GoOn("detected")
    BY DEF DetectPrompt, stack
  <1>3. op' = op /\ pc' = "detected"
    BY <1>2 DEF GoOn
  <1>4. ASSUME Sound, PushSound
        PROVE  PushSound'
    <2>1. running = 0 /\ Checked(op.shell) /\ op.shell \notin PythonShells /\ DetectSound
      BY <1>1, <1>4 DEF PushSound
    <2> DEFINE p == Prompt(op.shell)
               m == [type |-> "marker", of |-> op.shell]
    <2>2. p \in Texts /\ m \in Texts /\ p \notin Marker
      <3>1. op.shell \in Names
        BY <1>1, NameTypes
      <3>2. p \in Texts /\ m \in Texts
        BY <3>1, TokenTypes
      <3>3. p \notin Marker
        <4>1. \A x \in Marker : x.type = "marker"
          BY DEF Marker
        <4>2. p.type = "prompt"
          BY DEF Prompt
        <4>3. QED
          BY <4>1, <4>2
      <3>4. QED
        BY <3>2, <3>3
    <2>3. ~Printed(op.shell) /\ output # <<>>
      <3>1. ~Printed(op.shell)
        BY <1>1, <1>2, <2>2, OneInOutput DEF Printed
      <3>2. QED
        BY <1>2, <3>1, EmptyOutput
    <2>4. input = <<>> /\ Starting(op.shell) /\ output = <<p, m, p>>
      BY <2>1, <2>3 DEF DetectSound
    <2>5. output' = <<p>>
      BY <1>2, <2>2, <2>4, ThreeInOutput
    <2>6. Starting(op.shell)' /\ Checked(op.shell)' /\ Printed(op.shell)'
      BY <1>2, <1>3, <2>1, <2>4, <2>5 DEF Starting, Above, TopProgram, Checked, Current, Printed
    <2>7. QED
      BY <1>2, <1>3, <2>1, <2>4, <2>6 DEF PushSound
  <1>5. QED
    BY <1>1, <1>2, <1>4, PushGoesOn DEF PushSteps

\* Any failure of push.
LEMMA NotPushedRest ==
  ASSUME TypeInv, NameInv, Rest, NotStarted \/ NotConfirmed \/ NotDetected
  PROVE  Rest'
  <1>1. op.name = "push" /\ UNCHANGED <<shells, running, drops>>
    BY DEF NotStarted, NotConfirmed, NotDetected, TypeInv, CallInv, PushSteps, stack, terminal
  <1>2. GoOn("failed") \/ Return("notstarted", <<>>)
    BY DEF NotStarted, NotConfirmed, NotDetected, StartError
  <1>3. CASE GoOn("failed")
    <2>1. op' = op /\ pc' = "failed"
      BY <1>3 DEF GoOn
    <2>2. PushSound => PushSound'
      BY <1>1, <2>1 DEF PushSound, Checked, Current
    <2>3. QED
      BY <1>1, <1>3, <2>2, PushGoesOn DEF PushSteps
  <1>4. CASE Return("notstarted", <<>>)
    BY <1>1, <1>4, ReturnRest
  <1>5. QED
    BY <1>2, <1>3, <1>4

LEMMA PushedRest ==
  ASSUME TypeInv, NameInv, Rest, Imported \/ Detected
  PROVE  Rest'
  <1>1. /\ op.name = "push" /\ op.shell \in Shells /\ shells # <<>> /\ shells \in Seq(Shells)
        /\ output \in Seq(Texts)
    BY DEF Imported, Detected, TypeInv, TypeOK, Ops, CallInv, PushSteps
  <1>2. UNCHANGED <<programs, running, input, drops>>
    BY DEF Imported, Detected
  <1>3. CASE GoOn("failed") /\ shells' = shells
    <2>1. op' = op /\ pc' = "failed"
      BY <1>3 DEF GoOn
    <2>2. PushSound => PushSound'
      BY <1>1, <1>2, <1>3, <2>1 DEF PushSound, Checked, Current
    <2>3. QED
      BY <1>1, <1>2, <1>3, <2>2, PushGoesOn DEF PushSteps
  <1>4. CASE Return("returned", <<>>) /\ shells' = Append(shells, op.shell)
    <2>1. ASSUME Sound
          PROVE  /\ input = <<>> /\ running = 0 /\ Starting(PromptOf(op.shell))
      <3>1. PushSound
        BY <2>1 DEF Rest, SoundInv
      <3>2. CASE Imported
        <4>1. /\ op.shell \in PythonShells /\ Starting("python") /\ running = 0
              /\ input = <<>> \/ output = <<>>
          BY <1>1, <3>1, <3>2 DEF Imported, PushSound
        <4>2. output # <<>>
          BY <3>2, EmptyOutput DEF Imported
        <4>3. PromptOf(op.shell) = "python"
          BY <4>1 DEF PromptOf
        <4>4. QED
          BY <4>1, <4>2, <4>3
      <3>3. CASE Detected
        <4>1. op.shell \notin PythonShells /\ Starting(op.shell) /\ running = 0 /\ input = <<>>
          BY <1>1, <3>1, <3>3 DEF Detected, PushSound
        <4>2. QED
          BY <1>1, <4>1, NameTypes
      <3>4. QED
        BY <3>2, <3>3
    <2>2. ASSUME Sound
          PROVE  Settled' /\ running' = 0
      <3>1. /\ Len(shells') = Len(shells) + 1 /\ shells'[Len(shells) + 1] = op.shell
            /\ \A i \in 1 .. Len(shells) : shells'[i] = shells[i]
            /\ Len(shells) \in Nat
        BY <1>1, <1>4, AppendOf
      <3>2. /\ Len(programs) = Len(shells) + 1
            /\ \A i \in 1 .. Len(shells) : Same(programs[i], shells[i])
            /\ Same(TopProgram, op.shell)
        BY <2>1, <2>2 DEF Starting, Above, Same
      <3>3. TopProgram = programs[Len(shells) + 1]
        <4>1. programs # <<>>
          <5>1. SUFFICES ASSUME programs = <<>> PROVE FALSE
            OBVIOUS
          <5>2. Len(programs) = 0
            BY <5>1
          <5>3. QED
            BY <3>1, <3>2, <5>2
        <4>2. QED
          BY <3>2, <4>1, TopType, TypeParts DEF TypeInv
      <3>4. \A i \in 1 .. Len(shells') : Same(programs[i], shells'[i])
        BY <3>1, <3>2, <3>3
      <3>5. Matches'
        BY <1>2, <3>1, <3>2, <3>4 DEF Matches, Same, PromptOf
      <3>6. input' = <<>> /\ running' = 0
        BY <1>2, <2>1, <2>2
      <3>7. QED
        BY <3>5, <3>6 DEF Settled
    <2>3. outcome'.op = op
      BY <1>4 DEF Return
    <2>4. ReturnedInv'
      BY <1>1, <1>2, <2>2, <2>3 DEF ReturnedInv, Sound, Undisturbed
    <2>5. QED
      BY <1>1, <1>2, <1>4, <2>4, ReturnRest
  <1>5. QED
    BY <1>3, <1>4 DEF Imported, Detected

-----------------------------------------------------------------------------
(* The steps of pop, pop_until and close.                                   *)

\* A call that pops goes on.
LEMMA PopGoesOn ==
  ASSUME TypeInv, Rest, op.name \in Pops, pc' # "idle", op'.name = op.name, op'.drops = op.drops,
         op'.quiet = op.quiet, op'.sound = op.sound, UNCHANGED <<ready, outcome, drops>>,
         Sound /\ PopSound /\ op.name \in {"pop", "pop_until"} => PopSound'
  PROVE  Rest'
  <1>1. Sound' => Sound /\ PopSound
    BY DEF Sound, Undisturbed, Rest, SoundInv
  <1>2. PushSound' /\ (op.name = "close" => PopSound')
    BY DEF PushSound, PopSound, Pops
  <1>3. op.name \notin {"exec", "status"} /\ (op.name # "close" => op.name \in {"pop", "pop_until"})
    BY DEF Pops
  <1>4. OwnOutput
    BY DEF Rest
  <1>5. Sound' => PushSound' /\ PopSound'
    BY <1>1, <1>2, <1>3
  <1>6. QED
    BY <1>3, <1>4, <1>5, GoOnRest

LEMMA NoPrompts ==
  ASSUME output = <<>>, NEW n
  PROVE  NoneOf(n)
  <1>1. Len(output) = 0
    OBVIOUS
  <1>2. QED
    BY <1>1 DEF NoneOf

\* An empty line after the others.
LEMMA EmptySent ==
  ASSUME TypeInv, Send(<<Empty>>), UNCHANGED <<shells, programs>>
  PROVE  /\ input' # <<>> /\ Last(input') = Empty
         /\ Settled => Settled'
         /\ Leaving => Leaving'
  <1>1. Empty \in Lines /\ input \in Seq(Lines)
    BY LineTypes DEF TypeInv, TypeOK
  <1>2. input' = Append(input, Empty)
    BY <1>1, SendType
  <1>3. /\ Len(input') = Len(input) + 1 /\ input'[Len(input) + 1] = Empty
        /\ input' # <<>> /\ Last(input') = Empty /\ Len(input) \in Nat
        /\ \A i \in 1 .. Len(input) : input'[i] = input[i]
    BY <1>1, <1>2, AppendOf
  <1>4. Settled => Settled'
    BY <1>3 DEF Settled, Matches
  <1>5. ASSUME Leaving
        PROVE  Leaving'
    <2>1. PICK k \in 1 .. Len(input) : ExitAt(k)
      BY <1>5 DEF Leaving
    <2>2. k \in 1 .. Len(input') /\ ExitAt(k)'
      BY <1>3, <2>1 DEF ExitAt, TopProgram
    <2>3. QED
      BY <1>5, <2>2 DEF Leaving, Above, TopProgram
  <1>6. QED
    BY <1>3, <1>4, <1>5

LEMMA AskRest ==
  ASSUME TypeInv, NameInv, Rest, Ask
  PROVE  Rest'
  <1>1. /\ op.name \in Pops /\ UNCHANGED <<shells, programs, running, drops>>
        /\ output' = <<>> /\ Send(<<Empty>>) /\ pc \in {"ask", "askagain"}
        /\ GoOn(IF pc = "ask" THEN "asked" ELSE "askedagain")
    BY DEF Ask, TypeInv, CallInv, PopSteps, stack, Drained, Empty
  <1>2. op' = op /\ pc' # "idle" /\ UNCHANGED <<ready, outcome>>
        /\ (pc = "ask" => pc' = "asked")
    BY <1>1 DEF GoOn
  <1>3. ASSUME Sound, PopSound, op.name \in {"pop", "pop_until"}
        PROVE  PopSound'
    <2>1. pc' = "asked" /\ running' = 0 /\ (Settled \/ Leaving)
      BY <1>1, <1>2, <1>3 DEF PopSound
    <2>2. input' # <<>> /\ Last(input') = Empty /\ (Settled' \/ Leaving')
      BY <1>1, <2>1, EmptySent
    <2>3. NoneOf(Len(shells))' /\ NoneOf(Len(shells) - 1)'
      <3>1. Len(output') = 0
        BY <1>1
      <3>2. QED
        BY <3>1 DEF NoneOf
    <2>4. Empty' = Empty
      BY DEF Empty, Line
    <2>5. QED
      BY <1>1, <1>2, <2>1, <2>2, <2>3, <2>4 DEF PopSound
  <1>4. QED
    BY <1>1, <1>2, <1>3, PopGoesOn

\* In a sound call that pops, nothing is given up, and the prompt that is found is that
\* of the current shell and of the topmost program.
LEMMA AnsweredSound ==
  ASSUME TypeInv, NameInv, Rest, Sound, op.name \in {"pop", "pop_until"},
         pc = "asked" \/ pc = "askedagain"
  PROVE  /\ ~GivesUp(Waiting) /\ pc = "asked" /\ running = 0 /\ shells # <<>>
         /\ Answered => /\ Found(Waiting) /\ Settled /\ NoneOf(Len(shells) - 1)
                        /\ Received = Prompt(PromptOf(Current)) /\ Consumed = After(Waiting)
  <1>1. PopSound /\ shells # <<>>
    BY DEF Rest, SoundInv, TypeInv, CallInv
  <1>2. pc = "asked" /\ running = 0 /\ (Found(Waiting) \/ input # <<>>)
    BY <1>1 DEF PopSound
  <1>3. ~GivesUp(Waiting)
    BY <1>2 DEF GivesUp, Idle
  <1>4. ASSUME Answered
        PROVE  /\ Found(Waiting) /\ Settled /\ NoneOf(Len(shells) - 1)
               /\ Received = Prompt(PromptOf(Current)) /\ Consumed = After(Waiting)
    <2>1. Found(Waiting)
      BY <1>2, <1>3, <1>4 DEF Answered
    <2>2. ~NoneOf(Len(shells))
      <3>1. Current = shells[Len(shells)] /\ Len(shells) \in 1 .. Len(shells)
        BY <1>1, CurrentType, TypeParts DEF TypeInv
      <3>2. \E i \in 1 .. Len(output) : output[i] = Prompt(PromptOf(shells[Len(shells)]))
        BY <2>1, <3>1 DEF Found, Positions, Waiting
      <3>3. QED
        BY <3>1, <3>2 DEF NoneOf
    <2>3. Settled /\ NoneOf(Len(shells) - 1)
      BY <1>1, <1>2, <2>2 DEF PopSound
    <2>4. QED
      BY <2>1, <2>3 DEF Received, Consumed
  <1>5. QED
    BY <1>1, <1>2, <1>3, <1>4

LEMMA InterruptRest ==
  ASSUME TypeInv, NameInv, Rest, Interrupt
  PROVE  Rest'
  <1>1. op.name \in Pops /\ UNCHANGED drops /\ GoOn("askagain") /\ pc = "asked" /\ GivesUp(Waiting)
    BY DEF Interrupt, TypeInv, CallInv, PopSteps
  <1>2. op' = op /\ pc' # "idle" /\ UNCHANGED <<ready, outcome>>
    BY <1>1 DEF GoOn
  <1>3. ~(Sound /\ op.name \in {"pop", "pop_until"})
    BY <1>1, AnsweredSound
  <1>4. QED
    BY <1>1, <1>2, <1>3, PopGoesOn

LEMMA PopUntilAnsweredRest ==
  ASSUME TypeInv, NameInv, Rest, PopUntilAnswered
  PROVE  Rest'
  <1>1. /\ op.name = "pop_until" /\ op.shell \in ToSet(shells) /\ shells # <<>>
        /\ UNCHANGED <<shells, programs, running, input, drops>> /\ Answered
        /\ pc \in {"asked", "askedagain"}
    BY PopUntilAnsweredType DEF PopUntilAnswered, TypeInv, CallInv, stack, Answered
  <1>2. ASSUME Sound
        PROVE  /\ Settled /\ running = 0 /\ Found(Waiting) /\ pc = "asked"
               /\ Received = Prompt(PromptOf(Current))
    BY <1>1, <1>2, AnsweredSound
  <1>3. CASE Matching(op.shell) /\ Return("returned", <<>>)
    <2>1. Sound => Current = op.shell
      <3>1. SUFFICES ASSUME Sound PROVE Current = op.shell
        OBVIOUS
      <3>2. PromptOf(op.shell) = PromptOf(Current)
        BY <1>2, <1>3, <3>1, PromptFacts DEF Matching
      <3>3. /\ \A j \in 1 .. Len(shells) - 1 : PromptOf(shells[j]) # PromptOf(Current)
            /\ Current = shells[Len(shells)] /\ Len(shells) \in Nat
        BY <1>1, <1>2, <3>1, InStep, CurrentType, TypeParts DEF Settled, TypeInv
      <3>4. PICK j \in 1 .. Len(shells) : op.shell = shells[j]
        <4>1. shells \in Seq(Shells)
          BY DEF TypeInv, TypeOK
        <4>2. QED
          BY <1>1, <4>1 DEF ToSet
      <3>5. j = Len(shells)
        BY <3>2, <3>3, <3>4
      <3>6. QED
        BY <3>3, <3>4, <3>5
    <2>2. outcome'.op = op
      BY <1>3 DEF Return
    <2>3. Sound => Settled' /\ running' = 0
      BY <1>1, <1>2 DEF Settled, Matches
    <2>4. ReturnedInv'
      BY <1>1, <2>1, <2>2, <2>3 DEF ReturnedInv, Sound, Undisturbed, Current
    <2>5. QED
      BY <1>1, <1>3, <2>4, ReturnRest
  <1>4. CASE AskAbout(TRUE)
    <2>1. op'.name = op.name /\ op'.drops = op.drops /\ op'.quiet = op.quiet
          /\ op'.sound = op.sound /\ pc' = "ask" /\ UNCHANGED <<ready, outcome>>
      BY <1>4 DEF AskAbout, TypeInv, TypeOK, Ops
    <2>2. ASSUME Sound
          PROVE  PopSound'
      <3>1. Settled' /\ running' = 0
        BY <1>1, <1>2, <2>2 DEF Settled, Matches
      <3>2. QED
        BY <2>1, <3>1 DEF PopSound
    <2>3. QED
      BY <1>1, <2>1, <2>2, PopGoesOn DEF Pops
  <1>5. QED
    BY <1>3, <1>4 DEF PopUntilAnswered

\* The exit of the current shell makes it the one that is left.
LEMMA ExitSent ==
  ASSUME TypeInv, NameInv, Settled, shells # <<>>, Send(<<ExitLine>>), shells' = Remaining,
         programs' = programs, NoneOf(Len(shells) - 1), Found(Waiting), output' = After(Waiting)
  PROVE  Leaving' /\ NoneOf(Len(shells))'
  <1>1. /\ Len(shells') = Len(shells) - 1 /\ Len(shells) \in Nat /\ Len(shells) > 0
        /\ \A i \in 1 .. Len(shells) - 1 : shells'[i] = shells[i]
    BY CurrentType, TypeParts DEF TypeInv
  <1>2. /\ programs # <<>> /\ Len(programs) = Len(shells)
        /\ TopProgram.prompt = PromptOf(Current) /\ Current \in Shells
        /\ \A j \in 1 .. Len(shells) - 1 : PromptOf(shells[j]) # PromptOf(Current)
        /\ \A i \in 1 .. Len(shells) : Same(programs[i], shells[i])
    BY InStep, CurrentType, TypeParts DEF Settled, Matches, TypeInv
  <1>3. Above' /\ TopProgram' = TopProgram
    BY <1>1, <1>2 DEF Above, TopProgram, Same, PromptOf
  <1>4. ExitLine = Line("exit", TopProgram.prompt = "python")
    <2>1. (Current \in PythonShells) = (TopProgram.prompt = "python")
      <3>1. Current \in PythonShells <=> TopProgram.prompt = "python"
        BY <1>2, NameTypes
      <3>2. QED
        BY <3>1
    <2>2. QED
      BY <2>1 DEF ExitLine
  <1>5. ExitLine \in Lines /\ input \in Seq(Lines)
    <2>1. (Current \in PythonShells) \in BOOLEAN
      OBVIOUS
    <2>2. QED
      BY <2>1, LineTypes DEF ExitLine, TypeInv, TypeOK
  <1>6. input' = Append(input, ExitLine)
    BY <1>5, SendType
  <1>7. /\ Len(input') = Len(input) + 1 /\ input'[Len(input) + 1] = ExitLine
        /\ Len(input) \in Nat /\ \A i \in 1 .. Len(input) : input'[i] = input[i]
    BY <1>5, <1>6, AppendOf
  <1>8. \A i \in 1 .. Len(input) : input[i] = Empty
    BY DEF Settled
  <1>9. \E k \in 1 .. Len(input') : ExitAt(k)'
    <2>1. PICK k \in Nat : k = Len(input) + 1
      BY <1>7
    <2>2. k \in 1 .. Len(input') /\ input'[k] = Line("exit", TopProgram'.prompt = "python")
      BY <1>3, <1>4, <1>7, <2>1
    <2>3. \A i \in 1 .. Len(input') : i # k => input'[i] = Empty
      BY <1>7, <1>8, <2>1
    <2>4. ExitAt(k)'
      BY <2>2, <2>3 DEF ExitAt, Empty
    <2>5. QED
      BY <2>2, <2>4
  <1>10. \A j \in 1 .. Len(shells') : PromptOf(shells'[j]) # TopProgram'.prompt
    BY <1>1, <1>2, <1>3
  <1>11. NoneOf(Len(shells))'
    <2>1. /\ First(Waiting) \in 1 .. Len(output) /\ Len(output) \in Nat
          /\ Len(output') = Len(output) - First(Waiting)
          /\ \A i \in 1 .. Len(output') : output'[i] = output[First(Waiting) + i]
      <3>1. output \in Seq(Texts) /\ Len(output) \in Nat
        BY DEF TypeInv, TypeOK
      <3>2. QED
        BY <3>1, Search
    <2>2. ASSUME NEW i \in 1 .. Len(output'), NEW j \in 1 .. Len(shells')
          PROVE  output'[i] # Prompt(PromptOf(shells'[j]))
      <3>1. First(Waiting) + i \in 1 .. Len(output)
        BY <2>1
      <3>2. j \in 1 .. Len(shells) - 1 /\ shells'[j] = shells[j]
        BY <1>1
      <3>3. QED
        BY <2>1, <3>1, <3>2 DEF NoneOf
    <2>3. QED
      BY <2>2 DEF NoneOf
  <1>12. QED
    BY <1>3, <1>9, <1>10, <1>11 DEF Leaving

LEMMA PopMatchingRest ==
  ASSUME TypeInv, NameInv, Rest, PopMatching
  PROVE  Rest'
  <1>1. /\ op.name \in Pops /\ shells # <<>> /\ shells' = Remaining /\ AfterPop(shells')
        /\ UNCHANGED <<closed, programs, running, drops, calls>> /\ Answered
        /\ output' = Consumed /\ Send(<<ExitLine>>) /\ pc \in {"asked", "askedagain"} /\ TypeInv'
    BY PopMatchingType DEF PopMatching, Answered
  <1>2. ASSUME Sound, op.name \in {"pop", "pop_until"}
        PROVE  Leaving' /\ NoneOf(Len(shells))' /\ running' = 0
    <2>1. /\ running = 0 /\ Found(Waiting) /\ Settled /\ NoneOf(Len(shells) - 1)
          /\ output' = After(Waiting)
      BY <1>1, <1>2, AnsweredSound
    <2>2. QED
      BY <1>1, <2>1, ExitSent
  <1>3. shells' \in Seq(Shells) /\ TerminalType' /\ (running' # 0 => programs' # <<>>)
    BY <1>1 DEF TypeInv, TypeOK, CallInv, TerminalType, Names, ProgramsOf
  <1>4. \/ op.name = "pop" /\ shells' # <<>> /\ pc' = "await" /\ UNCHANGED <<op, outcome>>
        \/ op.name = "pop" /\ shells' = <<>> /\ Return("returned", <<>>)
        \/ op.name = "pop_until" /\ op.shell \in ToSet(shells') /\ AskAbout(FALSE)
        \/ op.name = "pop_until" /\ Return("unknown", <<>>)
        \/ /\ op.name = "close" /\ pc' = (IF shells' = <<>> THEN "close" ELSE "ask")
           /\ UNCHANGED <<op, outcome>>
    BY <1>1, <1>3, AfterPopType
  <1>5. CASE Return("returned", <<>>) /\ shells' = <<>> /\ op.name = "pop"
    <2>1. ReturnedInv'
      BY <1>5 DEF ReturnedInv
    <2>2. QED
      BY <1>1, <1>5, <2>1, ReturnRest
  <1>6. CASE Return("unknown", <<>>)
    BY <1>1, <1>6, ReturnRest
  <1>7. CASE /\ pc' \in {"await", "close", "ask"} /\ op'.name = op.name /\ op'.drops = op.drops
             /\ op'.quiet = op.quiet /\ op'.sound = op.sound /\ UNCHANGED <<ready, outcome>>
    <2>1. ASSUME Sound, op.name \in {"pop", "pop_until"}
          PROVE  PopSound'
      BY <1>2, <1>7, <2>1 DEF PopSound
    <2>2. QED
      BY <1>1, <1>7, <2>1, PopGoesOn
  <1>8. AskAbout(FALSE) => /\ pc' = "ask" /\ op'.name = op.name /\ op'.drops = op.drops
                           /\ op'.quiet = op.quiet /\ op'.sound = op.sound
                           /\ UNCHANGED <<ready, outcome>>
    BY DEF AskAbout, TypeInv, TypeOK, Ops
  <1>9. ready' = ready \/ ~UNCHANGED op \/ pc' = "idle"
    BY <1>1 DEF AfterPop, GoOn, Return, AskAbout, Pops
  <1>10. QED
    BY <1>4, <1>5, <1>6, <1>7, <1>8, <1>9

LEMMA PopUnexpectedRest ==
  ASSUME TypeInv, NameInv, Rest, PopUnexpected
  PROVE  Rest'
  <1>1. /\ op.name \in Pops /\ shells # <<>> /\ shells' = Remaining /\ Answered
        /\ op.name = "close" => AfterPop(shells')
        /\ op.name # "close" => Return("unexpected", <<>>)
        /\ UNCHANGED drops /\ ~Matching(Current)
    BY PopUnexpectedType DEF PopUnexpected
  <1>2. CASE op.name = "close"
    <2>1. GoOn(IF shells' = <<>> THEN "close" ELSE "ask")
      BY <1>1, <1>2 DEF AfterPop
    <2>2. op' = op /\ pc' # "idle" /\ UNCHANGED <<ready, outcome>>
      BY <2>1 DEF GoOn
    <2>3. QED
      BY <1>1, <1>2, <2>2, PopGoesOn
  <1>3. CASE op.name # "close"
    BY <1>1, <1>3, ReturnRest DEF Pops
  <1>4. QED
    BY <1>2, <1>3

LEMMA EndsRest ==
  ASSUME TypeInv, NameInv, Rest, AskEnd \/ Close
  PROVE  Rest'
  <1>1. CASE AskEnd
    <2>1. Return("eof", <<>>) /\ UNCHANGED drops
      BY <1>1 DEF AskEnd
    <2>2. QED
      BY <2>1, ReturnRest
  <1>2. CASE Close
    <2>1. /\ Return("returned", <<>>) /\ UNCHANGED <<drops, shells>>
          /\ op.name = "close" /\ shells = <<>>
      BY <1>2 DEF Close, TypeInv, CallInv
    <2>2. ReturnedInv'
      BY <2>1 DEF ReturnedInv
    <2>3. QED
      BY <2>1, <2>2, ReturnRest
  <1>3. QED
    BY <1>1, <1>2

LEMMA ClientRest ==
  ASSUME TypeInv, NameInv, Rest, Client
  PROVE  Rest'
  BY AwaitRest, StartedRest, ConfirmedRest, SetPromptRest, DetectPromptRest, NotPushedRest, PushedRest,
     AskRest, InterruptRest, PopUntilAnsweredRest, PopMatchingRest, PopUnexpectedRest, EndsRest
     DEF Client

-----------------------------------------------------------------------------
(* What a program that reads a line does to the calls.                      *)

LEMMA TextPairs ==
  ASSUME NEW t \in Texts, NEW u \in Texts
  PROVE  /\ <<t, u>> \in Seq(Texts) /\ Append(<<t>>, u) = <<t, u>>
         /\ \A v \in Texts : <<v>> \o <<t, u>> = <<v, t, u>>
  <1>1. /\ <<t>> \in Seq(Texts) /\ Len(<<t>>) = 1 /\ <<t>>[1] = t
        /\ <<u>> \in Seq(Texts) /\ Len(<<u>>) = 1 /\ <<u>>[1] = u
    BY OneToken
  <1>2. <<t, u>> \in Seq(Texts) /\ Len(<<t, u>>) = 2 /\ <<t, u>>[1] = t /\ <<t, u>>[2] = u
    OBVIOUS
  <1>3. Append(<<t>>, u) = <<t, u>>
    <2> DEFINE c == Append(<<t>>, u)
               d == <<t, u>>
    <2>1. c \in Seq(Texts) /\ Len(c) = 2 /\ c[1] = t /\ c[2] = u
      BY <1>1, AppendOf
    <2> HIDE DEF c, d
    <2>2. \A i \in 1 .. 2 : c[i] = d[i]
      <3>1. \A i \in 1 .. 2 : i = 1 \/ i = 2
        OBVIOUS
      <3>2. QED
        BY <1>2, <2>1, <3>1 DEF d
    <2>3. c = d
      BY <1>2, <2>1, <2>2, SeqEqual DEF d
    <2>4. QED
      BY <2>3 DEF c, d
  <1>4. ASSUME NEW v \in Texts
        PROVE  <<v>> \o <<t, u>> = <<v, t, u>>
    <2>1. <<v>> \in Seq(Texts) /\ Len(<<v>>) = 1 /\ <<v>>[1] = v
      BY OneToken
    <2>2. /\ <<v, t, u>> \in Seq(Texts) /\ Len(<<v, t, u>>) = 3
          /\ <<v, t, u>>[1] = v /\ <<v, t, u>>[2] = t /\ <<v, t, u>>[3] = u
      OBVIOUS
    <2> DEFINE c == <<v>> \o <<t, u>>
               d == <<v, t, u>>
    <2>3. /\ c \in Seq(Texts) /\ Len(c) = 3
          /\ c[1] = v /\ c[2] = t /\ c[3] = u
      BY <1>2, <2>1, ConcatProperties
    <2> HIDE DEF c, d
    <2>4. \A i \in 1 .. 3 : c[i] = d[i]
      <3>1. \A i \in 1 .. 3 : i = 1 \/ i = 2 \/ i = 3
        OBVIOUS
      <3>2. QED
        BY <2>2, <2>3, <3>1 DEF d
    <2>5. c = d
      BY <2>2, <2>3, <2>4, SeqEqual DEF d
    <2>6. QED
      BY <2>5 DEF c, d
  <1>5. QED
    BY <1>2, <1>3, <1>4

LEMMA AnswersEmpty ==
  ASSUME TypeInv, programs # <<>>, output = <<>>
  PROVE  /\ Answer(<<>>) => output' = <<Prompt(TopProgram.prompt)>>
         /\ \A t \in Texts : Answer(<<t>>) => output' = <<t, Prompt(TopProgram.prompt)>>
  <1>1. TerminalType /\ Prompt(TopProgram.prompt) \in Texts
    BY TopType, TypeParts DEF TypeInv
  <1>2. Answer(<<>>) => output' = <<Prompt(TopProgram.prompt)>>
    <2>1. Append(<<>>, Prompt(TopProgram.prompt)) = <<Prompt(TopProgram.prompt)>>
      OBVIOUS
    <2>2. QED
      BY <1>1, <2>1, AnswerType, EmptyTokens
  <1>3. ASSUME NEW t \in Texts, Answer(<<t>>)
        PROVE  output' = <<t, Prompt(TopProgram.prompt)>>
    <2>1. <<t>> \in Seq(Texts)
      BY OneToken
    <2>2. Append(<<t>>, Prompt(TopProgram.prompt)) = <<t, Prompt(TopProgram.prompt)>>
      BY <1>1, TextPairs
    <2>3. QED
      BY <1>1, <1>3, <2>1, <2>2, AnswerType
  <1>4. QED
    BY <1>2, <1>3

LEMMA Reads ==
  ASSUME ProgramReads
  PROVE  /\ input # <<>> /\ programs # <<>> /\ running = 0 /\ input' = Tail(input)
         /\ UNCHANGED <<shells, op, pc, ready, outcome, drops>>
  BY DEF ProgramReads, stack, control

\* What each line does.
LEMMA CommandRead ==
  ASSUME ProgramReads, NEW n, Head(input) = Line("command", n)
  PROVE  running' = n /\ UNCHANGED <<programs, output>>
  <1>1. Head(input).type = "command" /\ Head(input).of = n
    BY DEF Line
  <1>2. QED
    BY <1>1 DEF ProgramReads, ReadCommand, ReadOther, ReadStatus, ReadStart, ReadSetPrompt,
                ReadDetect, ReadExit

LEMMA EmptyRead ==
  ASSUME ProgramReads, Head(input) = Empty
  PROVE  running' = 0 /\ programs' = programs /\ Answer(<<>>)
  <1>1. Head(input).type = "empty"
    BY DEF Line, Empty
  <1>2. QED
    BY <1>1 DEF ProgramReads, ReadCommand, ReadOther, ReadStatus, ReadStart, ReadSetPrompt,
                ReadDetect, ReadExit

LEMMA StatusRead ==
  ASSUME ProgramReads, Head(input) = Line("status", 0)
  PROVE  /\ running' = 0 /\ programs' = programs
         /\ IF IsPython THEN Answer(<<>>)
            ELSE Answer(<<[type |-> "status", of |-> TopProgram.last]>>)
  <1>1. Head(input).type = "status"
    BY DEF Line
  <1>2. QED
    BY <1>1 DEF ProgramReads, ReadCommand, ReadOther, ReadStatus, ReadStart, ReadSetPrompt,
                ReadDetect, ReadExit

LEMMA StartRead ==
  ASSUME ProgramReads, NEW s, Head(input) = Line("start", s)
  PROVE  /\ running' = 0
         /\ \/ Answer(<<>>) /\ programs' = WithTop([TopProgram EXCEPT !.last = calls])
            \/ LET prompt == IF s \in PythonShells THEN "python" ELSE "fresh"
               IN /\ programs' = Append(programs, [name |-> s, prompt |-> prompt, last |-> 0])
                  /\ Show(<<Prompt(prompt)>>)
  <1>1. Head(input).type = "start" /\ Head(input).of = s
    BY DEF Line
  <1>2. QED
    BY <1>1 DEF ProgramReads, ReadCommand, ReadOther, ReadStatus, ReadStart, ReadSetPrompt,
                ReadDetect, ReadExit

LEMMA SetPromptRead ==
  ASSUME ProgramReads, NEW s, Head(input) = Line("setprompt", s), ~IsPython
  PROVE  /\ running' = 0 /\ Show(<<Prompt(s)>>)
         /\ programs' = WithTop([TopProgram EXCEPT !.prompt = s, !.last = 0])
  <1>1. Head(input).type = "setprompt" /\ Head(input).of = s
    BY DEF Line
  <1>2. QED
    BY <1>1 DEF ProgramReads, ReadCommand, ReadOther, ReadStatus, ReadStart, ReadSetPrompt,
                ReadDetect, ReadExit

LEMMA DetectRead ==
  ASSUME ProgramReads, Head(input) = Line("detect", 0), ~IsPython
  PROVE  /\ running' = 0 /\ programs' = programs
         /\ Answer(<<[type |-> "marker", of |-> TopProgram.prompt]>>)
  <1>1. Head(input).type = "detect"
    BY DEF Line
  <1>2. QED
    BY <1>1 DEF ProgramReads, ReadCommand, ReadOther, ReadStatus, ReadStart, ReadSetPrompt,
                ReadDetect, ReadExit

LEMMA ExitRead ==
  ASSUME ProgramReads, Head(input) = Line("exit", TopProgram.prompt = "python")
  PROVE  /\ running' = 0 /\ programs' = Front(programs)
         /\ Len(programs) # 1 => Show(<<Prompt(programs[Len(programs) - 1].prompt)>>)
  <1>1. Head(input).type = "exit" /\ Head(input).of = IsPython
    BY DEF Line, IsPython
  <1>2. QED
    BY <1>1 DEF ProgramReads, ReadCommand, ReadOther, ReadStatus, ReadStart, ReadSetPrompt,
                ReadDetect, ReadExit

LEMMA OneLine ==
  ASSUME NEW l, input = <<l>>
  PROVE  Head(input) = l /\ Tail(input) = <<>>
  OBVIOUS

LEMMA ReadsExec ==
  ASSUME TypeInv, Rest, ProgramReads
  PROVE  ExecInv' /\ OwnOutput'
  <1>1. /\ input # <<>> /\ input' = Tail(input) /\ running = 0
        /\ UNCHANGED <<shells, op, pc, ready, outcome, drops>>
    BY Reads
  <1>2. OwnOutput'
    BY <1>1 DEF Rest, OwnOutput
  <1>3. ASSUME op.name = "exec", Undisturbed
        PROVE  input' = <<>> /\ running' = op.n /\ output' = <<>>
    <2>1. input = <<Line("command", op.n)>> /\ output = <<>>
      BY <1>1, <1>3 DEF Rest, ExecInv, Answers
    <2>2. Head(input) = Line("command", op.n) /\ Tail(input) = <<>>
      BY <2>1, OneLine
    <2>3. running' = op.n /\ output' = output
      BY <2>2, CommandRead
    <2>4. QED
      BY <1>1, <2>1, <2>2, <2>3
  <1>4. ExecInv'
    BY <1>1, <1>3 DEF ExecInv, Undisturbed
  <1>5. QED
    BY <1>2, <1>4

\* A status that is asked for.
LEMMA ReadsStatus ==
  ASSUME TypeInv, ProgramReads, input = <<Line("status", 0)>>, output = <<>>
  PROVE  /\ input' = <<>> /\ running' = 0 /\ programs' = programs
         /\ \/ output' = <<Prompt("python")>>
            \/ output' = <<[type |-> "status", of |-> TopProgram.last], Prompt(TopProgram.prompt)>>
  <1>1. Head(input) = Line("status", 0) /\ Tail(input) = <<>>
    BY OneLine
  <1>2. /\ input' = <<>> /\ running' = 0 /\ programs' = programs /\ programs # <<>>
        /\ IF IsPython THEN Answer(<<>>)
           ELSE Answer(<<[type |-> "status", of |-> TopProgram.last]>>)
    BY <1>1, Reads, StatusRead
  <1>3. [type |-> "status", of |-> TopProgram.last] \in Texts
    BY <1>2, TopType, TokenTypes, TypeParts DEF TypeInv, ProgramsOf
  <1>4. QED
    BY <1>2, <1>3, AnswersEmpty DEF IsPython

LEMMA ReadsReady ==
  ASSUME TypeInv, Rest, ProgramReads
  PROVE  ReadyInv'
  <1>1. /\ input # <<>> /\ input' = Tail(input) /\ running = 0 /\ programs # <<>>
        /\ UNCHANGED <<shells, op, pc, ready, outcome, drops>>
    BY Reads
  <1>2. SUFFICES ASSUME ready # 0, pc = "await", op.name = "status"
                 PROVE  /\ running' = 0 /\ Remembers'
                        /\ \/ Answers([type |-> "status", of |-> ready])'
                           \/ input' = <<>> /\ output' = <<Prompt("python")>>
    BY <1>1 DEF Rest, ReadyInv, Idle
  <1>3. input = <<Line("status", 0)>> /\ output = <<>> /\ TopProgram.last = ready
    BY <1>1, <1>2 DEF Rest, ReadyInv, Answers, Remembers
  <1>4. /\ input' = <<>> /\ running' = 0 /\ programs' = programs
        /\ \/ output' = <<Prompt("python")>>
           \/ output' = <<[type |-> "status", of |-> TopProgram.last], Prompt(TopProgram.prompt)>>
    BY <1>3, ReadsStatus
  <1>5. QED
    BY <1>1, <1>3, <1>4 DEF Remembers, Answers, TopProgram

LEMMA ReadsCommand ==
  ASSUME TypeInv, Rest, ProgramReads, Sound
  PROVE  CommandSound'
  <1>1. /\ input # <<>> /\ input' = Tail(input) /\ running = 0
        /\ UNCHANGED <<shells, op, pc, ready, outcome, drops>> /\ CommandSound
    BY Reads DEF Rest, SoundInv
  <1>2. CASE op.name = "exec"
    <2>1. input = <<Line("command", op.n)>>
      BY <1>1, <1>2 DEF Rest, ExecInv, Answers, Sound
    <2>2. Head(input) = Line("command", op.n)
      BY <2>1, OneLine
    <2>3. programs' = programs
      BY <2>2, CommandRead
    <2>4. QED
      BY <1>1, <1>2, <2>3 DEF CommandSound, Matches
  <1>3. CASE op.name = "status"
    <2>1. input = <<Line("status", 0)>> /\ output = <<>>
      BY <1>1, <1>3 DEF CommandSound
    <2>2. input' = <<>> /\ running' = 0 /\ programs' = programs
      BY <2>1, ReadsStatus
    <2>3. QED
      BY <1>1, <1>3, <2>2 DEF CommandSound, Matches
  <1>4. QED
    BY <1>1, <1>2, <1>3 DEF CommandSound

\* A program whose last status is another one.
LEMMA TopKept ==
  ASSUME TypeInv, shells' = shells, programs # <<>>, NEW n \in 0 .. MaxCalls,
         programs' = WithTop([TopProgram EXCEPT !.last = n])
  PROVE  Matches => Matches'
  <1> DEFINE q == [TopProgram EXCEPT !.last = n]
  <1>1. /\ TerminalType /\ TopProgram \in ProgramsOf /\ TopProgram = programs[Len(programs)]
        /\ Len(programs) \in Nat
    BY TopType, TypeParts DEF TypeInv
  <1>2. q \in ProgramsOf /\ q.name = TopProgram.name /\ q.prompt = TopProgram.prompt
    BY <1>1 DEF ProgramsOf
  <1> HIDE DEF q
  <1>3. /\ Len(programs') = Len(programs) /\ programs'[Len(programs)] = q
        /\ \A i \in 1 .. Len(programs) - 1 : programs'[i] = programs[i]
    <2>1. programs' = WithTop(q)
      BY DEF q
    <2>2. /\ WithTop(q) # <<>> /\ Last(WithTop(q)) = q /\ Len(WithTop(q)) = Len(programs)
          /\ \A i \in 1 .. Len(programs) - 1 : WithTop(q)[i] = programs[i]
      BY <1>1, <1>2, WithTopType
    <2>3. WithTop(q)[Len(programs)] = q
      BY <2>2 DEF Last
    <2>4. QED
      BY <2>1, <2>2, <2>3
  <1>4. SUFFICES ASSUME Matches PROVE Matches'
    OBVIOUS
  <1>5. ASSUME NEW i \in 1 .. Len(shells)
        PROVE  Same(programs'[i], shells[i])
    <2>1. Same(programs[i], shells[i]) /\ i \in 1 .. Len(programs)
      BY <1>4 DEF Matches
    <2>2. i = Len(programs) \/ i \in 1 .. Len(programs) - 1
      BY <1>1, <2>1
    <2>3. QED
      BY <1>1, <1>2, <1>3, <2>1, <2>2 DEF Same
  <1>6. QED
    BY <1>3, <1>4, <1>5 DEF Matches, Same, PromptOf

\* The start of a shell.
LEMMA ReadsStart ==
  ASSUME TypeInv, NameInv, ProgramReads, StartSound, shells # <<>>, op.name = "push"
  PROVE  StartSound' /\ running' = 0
  <1>1. /\ input # <<>> /\ input' = Tail(input) /\ running = 0 /\ programs # <<>>
        /\ UNCHANGED <<shells, op>>
    BY Reads
  <1>2. input = <<Line("start", op.shell)>> /\ output = <<>> /\ Matches
    BY <1>1 DEF StartSound
  <1>3. Head(input) = Line("start", op.shell) /\ Tail(input) = <<>>
    BY <1>2, OneLine
  <1> DEFINE p == [name |-> op.shell, prompt |-> FirstPrompt, last |-> 0]
  <1>4. /\ running' = 0
        /\ \/ Answer(<<>>) /\ programs' = WithTop([TopProgram EXCEPT !.last = calls])
           \/ programs' = Append(programs, p) /\ Show(<<Prompt(FirstPrompt)>>)
    BY <1>3, StartRead DEF FirstPrompt
  <1>5. CASE Answer(<<>>) /\ programs' = WithTop([TopProgram EXCEPT !.last = calls])
    <2>1. output' = <<Prompt(TopProgram.prompt)>> /\ TopProgram.prompt = PromptOf(Current)
      BY <1>1, <1>2, <1>5, AnswersEmpty, InStep
    <2>2. Matches'
      BY <1>1, <1>2, <1>5, TopKept DEF TypeInv, TypeOK
    <2>3. Printed(PromptOf(Current))'
      BY <1>1, <2>1 DEF Printed, Current, PromptOf
    <2>4. QED
      BY <1>1, <1>3, <1>4, <2>2, <2>3 DEF StartSound
  <1>6. CASE programs' = Append(programs, p) /\ Show(<<Prompt(FirstPrompt)>>)
    <2>1. p \in ProgramsOf /\ FirstPrompt \in Names
      <3>1. op.shell \in Shells /\ FirstPrompt \in Names /\ 0 \in 0 .. MaxCalls
        BY ConstantsAssumption DEF TypeInv, TypeOK, Ops, FirstPrompt, Names
      <3>2. QED
        BY <3>1 DEF ProgramsOf
    <2>2. output' = <<Prompt(FirstPrompt)>>
      <3>1. <<Prompt(FirstPrompt)>> \in Seq(Texts)
        BY <2>1, TokenTypes, OneToken
      <3>2. QED
        BY <1>2, <1>6, <3>1, ShowType DEF TypeInv, TypeOK
    <2>3. /\ Len(programs') = Len(programs) + 1 /\ Last(programs') = p
          /\ \A i \in 1 .. Len(programs) : programs'[i] = programs[i]
      <3>1. programs \in Seq(ProgramsOf)
        BY TypeParts DEF TypeInv, TerminalType
      <3>2. QED
        BY <1>6, <2>1, <3>1, AppendOf
    <2>4. Above'
      BY <1>1, <1>2, <2>3 DEF Above, Matches, Same, PromptOf
    <2>5. TopProgram'.name = op.shell /\ TopProgram'.prompt = FirstPrompt
      BY <2>3 DEF TopProgram
    <2>6. FirstPrompt' = FirstPrompt
      BY <1>1 DEF FirstPrompt
    <2>7. Starting(FirstPrompt)' /\ Printed(FirstPrompt)'
      BY <1>1, <2>2, <2>4, <2>5, <2>6 DEF Starting, Printed
    <2>8. QED
      BY <1>1, <1>3, <1>4, <2>7 DEF StartSound
  <1>7. QED
    BY <1>4, <1>5, <1>6

LEMMA ReadsDetect ==
  ASSUME TypeInv, NameInv, ProgramReads, DetectSound
  PROVE  DetectSound' /\ running' = 0
  <1>1. /\ input # <<>> /\ input' = Tail(input) /\ running = 0 /\ programs # <<>>
        /\ UNCHANGED <<shells, op>> /\ op.shell \in Shells
        /\ TerminalType /\ TopProgram \in ProgramsOf
    BY Reads, TopType, TypeParts DEF TypeInv, TypeOK, Ops
  <1> DEFINE sp == Line("setprompt", op.shell)
             dt == Line("detect", 0)
             pr == Prompt(op.shell)
             m == [type |-> "marker", of |-> op.shell]
  <1>2. pr \in Texts /\ m \in Texts /\ op.shell # "python" /\ op.shell \in Names
    <2>1. op.shell \in Names /\ op.shell # "python"
      BY <1>1, NameTypes
    <2>2. QED
      BY <2>1, TokenTypes
  <1>3. CASE input = <<sp, dt>> /\ output = <<>> /\ Starting("fresh")
    <2>1. Head(input) = sp /\ Tail(input) = <<dt>>
      BY <1>3
    <2>2. ~IsPython
      BY <1>3 DEF IsPython, Starting
    <2> DEFINE q == [TopProgram EXCEPT !.prompt = op.shell, !.last = 0]
    <2>3. running' = 0 /\ programs' = WithTop(q) /\ Show(<<pr>>)
      BY <2>1, <2>2, SetPromptRead
    <2>4. q \in ProgramsOf
      <3>1. 0 \in 0 .. MaxCalls
        BY ConstantsAssumption
      <3>2. QED
        BY <1>1, <1>2, <3>1 DEF ProgramsOf
    <2>5. q.name = TopProgram.name /\ q.prompt = op.shell
      BY <1>1 DEF ProgramsOf
    <2>6. /\ Len(programs') = Len(programs) /\ Last(programs') = q
          /\ \A i \in 1 .. Len(programs) - 1 : programs'[i] = programs[i]
      <3> HIDE DEF q
      <3> QED
        BY <1>1, <2>3, <2>4, WithTopType
    <2>7. Above' /\ TopProgram' = q
      <3>1. Len(programs) = Len(shells) + 1 /\ Len(shells) \in Nat
        BY <1>3 DEF Starting, Above, TypeInv, TypeOK
      <3> HIDE DEF q
      <3>2. \A i \in 1 .. Len(shells) : programs'[i] = programs[i]
        BY <2>6, <3>1
      <3>3. QED
        BY <1>1, <1>3, <2>6, <3>1, <3>2 DEF Starting, Above, TopProgram, Same, PromptOf
    <2>8. output' = <<pr>>
      <3>1. <<pr>> \in Seq(Texts)
        BY <1>2, OneToken
      <3>2. QED
        BY <1>1, <1>3, <2>3, <3>1, ShowType DEF TerminalType
    <2>9. Starting(op.shell)' /\ Printed(op.shell)'
      BY <1>1, <1>3, <2>5, <2>7, <2>8 DEF Starting, Printed
    <2>10. QED
      BY <1>1, <2>1, <2>3, <2>9 DEF DetectSound
  <1>4. CASE input = <<dt>> /\ Starting(op.shell) /\ Printed(op.shell)
    <2>1. Head(input) = dt /\ Tail(input) = <<>>
      BY <1>4, OneLine
    <2>2. ~IsPython /\ TopProgram.prompt = op.shell
      BY <1>2, <1>4 DEF IsPython, Starting
    <2>3. running' = 0 /\ programs' = programs /\ Answer(<<m>>)
      BY <2>1, <2>2, DetectRead
    <2>4. output' = <<pr>> \o Append(<<m>>, pr)
      BY <1>4, <2>2, <2>3 DEF Answer, Show, Printed
    <2>5. <<pr>> \o Append(<<m>>, pr) = <<pr, m, pr>>
      <3> HIDE DEF pr, m
      <3> QED
        BY <1>2, TextPairs
    <2>6. Starting(op.shell)'
      BY <1>1, <1>4, <2>3 DEF Starting, Above, TopProgram
    <2>7. QED
      BY <1>1, <2>1, <2>3, <2>4, <2>5, <2>6 DEF DetectSound
  <1>5. QED
    BY <1>1, <1>3, <1>4 DEF DetectSound

LEMMA ReadsPush ==
  ASSUME TypeInv, NameInv, Rest, ProgramReads, Sound
  PROVE  PushSound'
  <1>1. /\ input # <<>> /\ input' = Tail(input) /\ programs # <<>> /\ PushSound
        /\ UNCHANGED <<shells, op, pc, ready, outcome, drops>>
    BY Reads DEF Rest, SoundInv
  <1>2. SUFFICES ASSUME op.name = "push", pc # "failed"
                 PROVE  PushSound'
    BY <1>1 DEF PushSound
  <1>3. /\ pc \in PushSteps /\ shells # <<>> /\ Checked(op.shell)
        /\ pc \in {"check", "setprompt", "detect", "detected"} => op.shell \notin PythonShells
    BY <1>1, <1>2 DEF TypeInv, CallInv, PushSteps, PushSound
  <1>4. Checked(op.shell)'
    BY <1>1, <1>3 DEF Checked, Current
  <1>5. CASE pc = "started"
    <2>1. StartSound' /\ running' = 0
      BY <1>1, <1>2, <1>3, <1>5, ReadsStart DEF PushSound
    <2>2. QED
      BY <1>1, <1>4, <1>5, <2>1 DEF PushSound
  <1>6. CASE pc = "imported"
    <2>1. op.shell \in PythonShells /\ Starting("python") /\ input = <<Empty>> /\ output = <<>>
      BY <1>1, <1>2, <1>6 DEF PushSound, Empty
    <2>2. Head(input) = Empty /\ Tail(input) = <<>>
      BY <2>1, OneLine
    <2>3. running' = 0 /\ programs' = programs /\ Answer(<<>>)
      BY <2>2, EmptyRead
    <2>4. output' = <<Prompt("python")>>
      BY <1>1, <2>1, <2>3, AnswersEmpty DEF Starting
    <2>5. Starting("python")'
      BY <1>1, <2>1, <2>3 DEF Starting, Above, TopProgram
    <2>6. QED
      BY <1>1, <1>4, <1>6, <2>1, <2>2, <2>3, <2>4, <2>5 DEF PushSound, Printed
  <1>7. CASE pc = "detect"
    <2>1. DetectSound' /\ running' = 0
      BY <1>1, <1>2, <1>7, ReadsDetect DEF PushSound
    <2>2. QED
      BY <1>1, <1>3, <1>4, <1>7, <2>1 DEF PushSound
  <1>8. CASE pc \in {"check", "setprompt"}
    <2>1. input = <<Line("status", 0)>> /\ output = <<>> /\ Starting("fresh")
      BY <1>1, <1>2, <1>8 DEF PushSound, CheckSound
    <2>2. input' = <<>> /\ running' = 0 /\ programs' = programs
      BY <2>1, ReadsStatus
    <2>3. CheckSound'
      BY <1>1, <2>1, <2>2 DEF CheckSound, Starting, Above, TopProgram
    <2>4. QED
      BY <1>1, <1>3, <1>4, <1>8, <2>2, <2>3 DEF PushSound
  <1>9. CASE pc = "detected"
    BY <1>1, <1>2, <1>9 DEF PushSound
  <1>10. QED
    BY <1>2, <1>3, <1>5, <1>6, <1>7, <1>8, <1>9 DEF PushSteps

\* Lines that are all empty but for one: what is left of them.
LEMMA TailLines ==
  ASSUME TypeInv, input # <<>>, input' = Tail(input)
  PROVE  /\ Len(input) \in Nat /\ Len(input) > 0 /\ Len(input') = Len(input) - 1
         /\ Head(input) = input[1] /\ Head(input) \in Lines
         /\ \A i \in 1 .. Len(input) - 1 : input'[i] = input[i + 1]
         /\ Last(input) = Empty /\ Len(input) > 1 => input' # <<>> /\ Last(input') = Empty
  <1>1. input \in Seq(Lines)
    BY DEF TypeInv, TypeOK
  <1>2. /\ Len(input) \in Nat /\ Len(input) > 0 /\ Len(input') = Len(input) - 1
        /\ Head(input) = input[1] /\ Head(input) \in Lines /\ input' \in Seq(Lines)
        /\ \A i \in 1 .. Len(input) - 1 : input'[i] = input[i + 1]
    BY <1>1, TailOf
  <1>3. ASSUME Last(input) = Empty, Len(input) > 1
        PROVE  input' # <<>> /\ Last(input') = Empty
    <2>1. Len(input') > 0 /\ Len(input) - 1 \in 1 .. Len(input) - 1
      BY <1>2, <1>3
    <2>2. input' # <<>>
      BY <2>1
    <2>3. input'[Len(input')] = input[Len(input)]
      BY <1>2, <2>1
    <2>4. QED
      BY <1>3, <2>2, <2>3 DEF Last
  <1>4. QED
    BY <1>2, <1>3

\* Settled terminals only print the prompt of the current shell.
LEMMA ReadsSettled ==
  ASSUME TypeInv, ProgramReads, Settled
  PROVE  Settled' /\ running' = 0 /\ programs' = programs /\ Answer(<<>>)
  <1>1. input # <<>> /\ input' = Tail(input) /\ shells' = shells
    BY Reads
  <1>2. /\ Len(input) \in Nat /\ Len(input) > 0 /\ Len(input') = Len(input) - 1
        /\ Head(input) = input[1]
        /\ \A i \in 1 .. Len(input) - 1 : input'[i] = input[i + 1]
    BY <1>1, TailLines
  <1>3. Head(input) = Empty
    BY <1>2 DEF Settled
  <1>4. running' = 0 /\ programs' = programs /\ Answer(<<>>)
    BY <1>3, EmptyRead
  <1>5. \A i \in 1 .. Len(input') : input'[i] = Empty
    BY <1>2 DEF Settled
  <1>6. QED
    BY <1>1, <1>4, <1>5 DEF Settled, Matches, Empty

\* A token after the others.
LEMMA ShowOne ==
  ASSUME TypeInv, NEW t \in Texts, Show(<<t>>)
  PROVE  /\ Len(output) \in Nat /\ Len(output') = Len(output) + 1 /\ output'[Len(output) + 1] = t
         /\ \A i \in 1 .. Len(output) : output'[i] = output[i]
  <1>1. <<t>> \in Seq(Texts) /\ Len(<<t>>) = 1 /\ <<t>>[1] = t
    BY OneToken
  <1>2. output \in Seq(Texts) /\ Len(output) \in Nat
    BY DEF TypeInv, TypeOK
  <1>3. /\ Len(output') = Len(output) + Len(<<t>>)
        /\ \A i \in 1 .. Len(output) : output'[i] = output[i]
        /\ \A i \in 1 .. Len(<<t>>) : output'[Len(output) + i] = <<t>>[i]
    BY <1>1, <1>2, ShowType
  <1>4. QED
    BY <1>1, <1>2, <1>3

LEMMA ShowNone ==
  ASSUME TypeInv, shells' = shells, NEW n \in Nat, n <= Len(shells), NoneOf(n),
         NEW p \in Names, Show(<<Prompt(p)>>), \A j \in 1 .. n : PromptOf(shells[j]) # p
  PROVE  /\ \A i \in 1 .. Len(output'), j \in 1 .. n :
               output'[i] # Prompt(PromptOf(shells'[j]))
         /\ p = PromptOf(Current) \/ Found(Waiting) => Found(Waiting)'
  <1>1. /\ Len(output) \in Nat /\ Len(output') = Len(output) + 1
        /\ output'[Len(output) + 1] = Prompt(p)
        /\ \A i \in 1 .. Len(output) : output'[i] = output[i]
    BY ShowOne, TokenTypes
  <1>2. \A i \in 1 .. Len(output') : i \in 1 .. Len(output) \/ i = Len(output) + 1
    BY <1>1
  <1>3. \A j \in 1 .. n : Prompt(p) # Prompt(PromptOf(shells[j]))
    BY PromptFacts
  <1>4. \A i \in 1 .. Len(output'), j \in 1 .. n : output'[i] # Prompt(PromptOf(shells'[j]))
    BY <1>1, <1>2, <1>3 DEF NoneOf
  <1>5. ASSUME p = PromptOf(Current) \/ Found(Waiting)
        PROVE  Found(Waiting)'
    <2>1. \E i \in 1 .. Len(output') : output'[i] \in Waiting
      <3>1. CASE p = PromptOf(Current)
        <4>1. Len(output) + 1 \in 1 .. Len(output')
          BY <1>1
        <4>2. QED
          BY <1>1, <3>1, <4>1 DEF Waiting
      <3>2. CASE Found(Waiting)
        <4>1. PICK i \in 1 .. Len(output) : output[i] \in Waiting
          BY <3>2 DEF Found, Positions
        <4>2. i \in 1 .. Len(output') /\ output'[i] = output[i]
          BY <1>1
        <4>3. QED
          BY <4>1, <4>2
      <3>3. QED
        BY <1>5, <3>1, <3>2
    <2>2. Waiting' = Waiting
      BY DEF Waiting, Current, PromptOf, Prompt
    <2>3. QED
      BY <2>1, <2>2 DEF Found, Positions
  <1>6. QED
    BY <1>4, <1>5

LEMMA ReadsPop ==
  ASSUME TypeInv, NameInv, Rest, ProgramReads, Sound
  PROVE  PopSound'
  <1>1. /\ input # <<>> /\ input' = Tail(input) /\ programs # <<>> /\ PopSound
        /\ UNCHANGED <<shells, op, pc, ready, outcome, drops>>
    BY Reads DEF Rest, SoundInv
  <1>2. SUFFICES ASSUME op.name \in {"pop", "pop_until"}
                 PROVE  PopSound'
    BY <1>1 DEF PopSound
  <1>3. /\ pc \notin {"askagain", "askedagain"} /\ shells # <<>>
        /\ Current = shells[Len(shells)] /\ Len(shells) \in Nat /\ Len(shells) > 0
        /\ TerminalType /\ programs \in Seq(ProgramsOf)
    BY <1>1, <1>2, CurrentType, TypeParts
       DEF TypeInv, CallInv, PushSteps, PopSteps, PopSound, TerminalType
  <1>4. /\ Len(input) \in Nat /\ Len(input) > 0 /\ Len(input') = Len(input) - 1
        /\ Head(input) = input[1]
        /\ \A i \in 1 .. Len(input) - 1 : input'[i] = input[i + 1]
        /\ Last(input) = Empty /\ Len(input) > 1 => input' # <<>> /\ Last(input') = Empty
    BY <1>1, TailLines
  <1>5. PromptOf(Current) \in Names
    BY <1>3, NameTypes, CurrentType, TypeParts DEF TypeInv
  <1>6. \A p : Show(Append(<<>>, Prompt(p))) => Show(<<Prompt(p)>>)
    <2>1. \A x : Append(<<>>, x) = <<x>>
      OBVIOUS
    <2>2. QED
      BY <2>1
  <1>7. CASE Settled /\ (pc # "ask" => NoneOf(Len(shells) - 1))
    <2>1. Settled' /\ running' = 0 /\ programs' = programs /\ Answer(<<>>)
      BY <1>7, ReadsSettled
    <2>2. /\ TopProgram.prompt = PromptOf(Current)
          /\ \A j \in 1 .. Len(shells) - 1 : PromptOf(shells[j]) # PromptOf(Current)
      BY <1>3, <1>7, InStep DEF Settled
    <2>3. Show(<<Prompt(PromptOf(Current))>>)
      BY <1>6, <2>1, <2>2 DEF Answer
    <2>4. pc # "ask" => NoneOf(Len(shells) - 1)' /\ Found(Waiting)'
      <3>1. Len(shells) - 1 \in Nat /\ Len(shells) - 1 <= Len(shells)
        BY <1>3
      <3>2. QED
        BY <1>1, <1>5, <1>7, <2>2, <2>3, <3>1, ShowNone DEF NoneOf
    <2>5. QED
      BY <1>1, <1>3, <2>1, <2>4 DEF PopSound
  <1>8. CASE Leaving /\ (pc # "ask" => NoneOf(Len(shells)))
    <2>1. PICK k \in 1 .. Len(input) : ExitAt(k)
      BY <1>8 DEF Leaving
    <2>2. /\ Len(programs) = Len(shells) + 1
          /\ \A i \in 1 .. Len(shells) : Same(programs[i], shells[i])
          /\ \A j \in 1 .. Len(shells) : PromptOf(shells[j]) # TopProgram.prompt
          /\ TopProgram.prompt \in Names
      BY <1>1, <1>3, <1>8, TopType DEF Leaving, Above
    <2>3. CASE k = 1
      <3>1. Head(input) = Line("exit", TopProgram.prompt = "python")
        BY <1>4, <2>1, <2>3 DEF ExitAt
      <3>2. Len(programs) # 1 /\ Len(programs) - 1 = Len(shells)
        BY <1>3, <2>2
      <3>3. /\ running' = 0 /\ programs' = Front(programs)
            /\ Show(<<Prompt(programs[Len(shells)].prompt)>>)
        BY <3>1, <3>2, ExitRead
      <3>4. Matches'
        <4>1. /\ Len(programs') = Len(programs) - 1
              /\ \A i \in 1 .. Len(programs) - 1 : programs'[i] = programs[i]
          BY <1>1, <1>3, <3>3, FrontOf
        <4>2. QED
          BY <1>1, <1>3, <2>2, <4>1 DEF Matches, Same, PromptOf
      <3>5. Settled'
        <4>1. \A i \in 1 .. Len(input') : input'[i] = Empty
          BY <1>4, <2>1, <2>3 DEF ExitAt
        <4>2. QED
          BY <3>4, <4>1 DEF Settled, Empty
      <3>6. programs[Len(shells)].prompt = PromptOf(Current)
        BY <1>3, <2>2 DEF Same
      <3>7. \A j \in 1 .. Len(shells) - 1 : PromptOf(shells[j]) # PromptOf(Current)
        <4>1. ASSUME NEW j \in 1 .. Len(shells)
              PROVE  shells[j] \in Shells /\ PromptOf(shells[j]) = shells[j]
          <5>1. Same(programs[j], shells[j]) /\ programs[j].prompt # "python"
            BY <1>3, <2>2 DEF NameInv
          <5>2. shells[j] \in Shells
            BY DEF TypeInv, TypeOK
          <5>3. QED
            BY <5>1, <5>2, NameTypes DEF Same
        <4>2. \A j \in 1 .. Len(shells) - 1 : shells[j] # shells[Len(shells)]
          <5>1. \A j \in 1 .. Len(shells) - 1 : j \in 1 .. Len(shells) /\ j # Len(shells)
            BY <1>3
          <5>2. QED
            BY <1>3, <5>1 DEF NameInv
        <4>3. QED
          BY <1>3, <4>1, <4>2
      <3>8. pc # "ask" => NoneOf(Len(shells) - 1)' /\ Found(Waiting)'
        <4>1. Len(shells) - 1 \in Nat /\ Len(shells) - 1 <= Len(shells)
          BY <1>3
        <4>2. NoneOf(Len(shells)) => NoneOf(Len(shells) - 1)
          BY <1>3 DEF NoneOf
        <4>3. QED
          BY <1>1, <1>5, <1>8, <3>3, <3>6, <3>7, <4>1, <4>2, ShowNone DEF NoneOf
      <3>9. QED
        BY <1>1, <1>3, <3>3, <3>5, <3>8 DEF PopSound
    <2>4. CASE k # 1
      <3>1. Head(input) = Empty
        BY <1>4, <2>1, <2>4 DEF ExitAt
      <3>2. running' = 0 /\ programs' = programs /\ Answer(<<>>)
        BY <3>1, EmptyRead
      <3>3. Show(<<Prompt(TopProgram.prompt)>>)
        BY <1>6, <3>2 DEF Answer
      <3>4. Leaving'
        <4>1. PICK m \in 1 .. Len(input') : m = k - 1
          BY <1>4, <2>1, <2>4
        <4>2. input'[m] = Line("exit", TopProgram.prompt = "python")
          BY <1>4, <2>1, <2>4, <4>1 DEF ExitAt
        <4>3. \A i \in 1 .. Len(input') : i # m => input'[i] = Empty
          BY <1>4, <2>1, <2>4, <4>1 DEF ExitAt
        <4>4. ExitAt(m)'
          BY <3>2, <4>2, <4>3 DEF ExitAt, TopProgram, Empty
        <4>5. QED
          BY <1>1, <1>8, <3>2, <4>4 DEF Leaving, Above, TopProgram
      <3>5. pc # "ask" => NoneOf(Len(shells))' /\ (Found(Waiting) => Found(Waiting)')
        <4>1. SUFFICES ASSUME pc # "ask"
                       PROVE  NoneOf(Len(shells))' /\ (Found(Waiting) => Found(Waiting)')
          OBVIOUS
        <4>2. NoneOf(Len(shells)) /\ Len(shells) <= Len(shells) /\ Len(shells') = Len(shells)
          BY <1>1, <1>3, <1>8, <4>1
        <4>3. /\ \A i \in 1 .. Len(output'), j \in 1 .. Len(shells) :
                    output'[i] # Prompt(PromptOf(shells'[j]))
              /\ Found(Waiting) => Found(Waiting)'
          BY <1>1, <1>3, <2>2, <3>3, <4>2, ShowNone
        <4>4. QED
          BY <4>2, <4>3 DEF NoneOf
      <3>6. pc = "asked" /\ ~Found(Waiting) => input' # <<>> /\ Last(input') = Empty
        <4>1. Len(input) > 1
          BY <1>4, <2>1, <2>4
        <4>2. QED
          BY <1>1, <1>2, <1>4, <4>1 DEF PopSound
      <3>7. QED
        BY <1>1, <1>3, <3>2, <3>4, <3>5, <3>6 DEF PopSound, Empty
    <2>5. QED
      BY <2>3, <2>4
  <1>9. QED
    BY <1>1, <1>2, <1>7, <1>8 DEF PopSound

LEMMA ReadsRest ==
  ASSUME TypeInv, NameInv, Rest, ProgramReads
  PROVE  Rest'
  <1>1. /\ input # <<>> /\ running = 0 /\ UNCHANGED <<shells, op, pc, ready, outcome, drops>>
    BY Reads
  <1>2. ExecInv' /\ OwnOutput' /\ ReadyInv'
    BY ReadsExec, ReadsReady
  <1>3. SoundInv'
    BY <1>1, ReadsCommand, ReadsPush, ReadsPop DEF SoundInv, Sound, Undisturbed
  <1>4. ReturnedInv'
    BY <1>1, ReadsSettled DEF Rest, ReturnedInv, Current
  <1>5. QED
    BY <1>2, <1>3, <1>4 DEF Rest

LEMMA CommandEndsRest ==
  ASSUME TypeInv, NameInv, Rest, CommandEnds
  PROVE  Rest'
  <1> DEFINE token == [type |-> "output", of |-> running]
             q == [TopProgram EXCEPT !.last = running]
  <1>1. /\ running # 0 /\ running' = 0 /\ programs # <<>> /\ programs' = WithTop(q)
        /\ Answer(<<token>>) /\ input' = input
        /\ UNCHANGED <<shells, op, pc, ready, outcome, drops>>
    BY DEF CommandEnds, TypeInv, CallInv, stack, control
  <1>2. /\ TerminalType /\ TopProgram \in ProgramsOf /\ q \in ProgramsOf /\ token \in Texts
        /\ Len(programs) \in Nat /\ TopProgram = programs[Len(programs)]
    BY <1>1, TopType, CommandEndsType, TokenTypes, TypeParts DEF TypeInv, TerminalType
  <1>3. q.name = TopProgram.name /\ q.prompt = TopProgram.prompt /\ q.last = running
    BY <1>2 DEF ProgramsOf
  <1>4. /\ Len(programs') = Len(programs) /\ TopProgram' = q /\ programs' # <<>>
        /\ \A i \in 1 .. Len(programs) - 1 : programs'[i] = programs[i]
        /\ programs'[Len(programs)] = q
    <2> HIDE DEF q
    <2> QED
      BY <1>1, <1>2, WithTopType DEF TopProgram, Last
  <1> HIDE DEF q
  <1>5. OwnOutput'
    BY <1>1 DEF Rest, OwnOutput
  <1>6. ExecInv'
    <2>1. SUFFICES ASSUME op.name = "exec", Undisturbed
                   PROVE  Answers([type |-> "output", of |-> op.n])' /\ TopProgram'.last = op.n
      BY <1>1 DEF ExecInv, Undisturbed
    <2>2. input = <<>> /\ running = op.n /\ output = <<>>
      BY <1>1, <2>1 DEF Rest, ExecInv, Answers
    <2>3. output' = <<token, Prompt(TopProgram.prompt)>>
      BY <1>1, <1>2, <2>2, AnswersEmpty
    <2>4. QED
      BY <1>1, <1>3, <1>4, <2>2, <2>3 DEF Answers
  <1>7. ReadyInv'
    BY <1>1 DEF Rest, ReadyInv, Idle
  <1>8. Matches => Matches'
    <2>1. SUFFICES ASSUME Matches PROVE Matches'
      OBVIOUS
    <2>2. ASSUME NEW i \in 1 .. Len(shells)
          PROVE  Same(programs'[i], shells[i])
      <3>1. Same(programs[i], shells[i]) /\ i \in 1 .. Len(programs)
        BY <2>1 DEF Matches
      <3>2. i = Len(programs) \/ i \in 1 .. Len(programs) - 1
        BY <1>2, <3>1
      <3>3. QED
        BY <1>2, <1>3, <1>4, <3>1, <3>2 DEF Same
    <2>3. QED
      BY <1>1, <1>4, <2>1, <2>2 DEF Matches, Same, PromptOf
  <1>9. SoundInv'
    <2>1. SUFFICES ASSUME Sound
                   PROVE  CommandSound' /\ PushSound' /\ PopSound'
      BY <1>1 DEF SoundInv, Sound, Undisturbed
    <2>2. CommandSound /\ PushSound /\ PopSound
      BY <2>1 DEF Rest, SoundInv
    <2>3. QED
      BY <1>1, <1>8, <2>2 DEF CommandSound, PushSound, PopSound
  <1>10. ReturnedInv'
    BY <1>1 DEF Rest, ReturnedInv
  <1>11. QED
    BY <1>5, <1>6, <1>7, <1>9, <1>10 DEF Rest

LEMMA DropRest ==
  ASSUME TypeInv, Rest, Drop
  PROVE  Rest'
  <1>1. /\ drops' = drops + 1 /\ ready' = 0 /\ UNCHANGED <<shells, op, pc, outcome>>
    BY DEF Drop, stack
  <1>2. op.drops # drops' /\ outcome.op.drops # drops'
    <2>1. /\ op.drops \in 0 .. MaxDrops /\ outcome.op.drops \in 0 .. MaxDrops /\ drops \in Nat
          /\ op.drops <= drops /\ outcome.op.drops <= drops
      BY DEF TypeInv, TypeOK, Ops, CallInv
    <2>2. QED
      BY <1>1, <2>1, ConstantsAssumption
  <1>3. QED
    BY <1>1, <1>2
       DEF Rest, ExecInv, OwnOutput, ReadyInv, SoundInv, ReturnedInv, Sound, Undisturbed

-----------------------------------------------------------------------------
(* A call that begins.                                                      *)

LEMMA ExecRest ==
  ASSUME TypeInv, NameInv, Rest, ExecCommand \/ GetStatusCode
  PROVE  Rest'
  <1>1. PICK name \in {"exec", "status"}, l \in Lines :
          /\ Begin(name, Local, "await")
          /\ l = IF name = "exec" THEN Line("command", calls + 1) ELSE Line("status", 0)
          /\ input = <<>> => input' = <<l>>
    BY ExecType
  <1>2. output' = <<>>
    BY ExecType
  <1>3. /\ pc = "idle" /\ pc' = "await" /\ op'.name = name /\ op'.n = calls + 1
        /\ op'.drops = drops /\ op'.quiet = Idle /\ op'.sound = (Matches /\ (name = "push" => output = <<>> /\ Checked(Local)))
        /\ UNCHANGED <<shells, programs, running, ready, outcome, drops>>
    BY <1>1, BeginCall, NameTypes DEF stack
  <1>4. Undisturbed' => Idle /\ input' = <<l>> /\ running' = 0
    BY <1>1, <1>3 DEF Undisturbed, Idle
  <1>5. OwnOutput' /\ ReturnedInv'
    BY <1>3 DEF Rest, OwnOutput, ReturnedInv
  <1>6. ExecInv'
    BY <1>1, <1>2, <1>3, <1>4 DEF ExecInv, Line
  <1>7. ReadyInv'
    BY <1>1, <1>2, <1>3 DEF Rest, ReadyInv, Idle, Remembers, TopProgram, Line
  <1>8. SoundInv'
    <2>1. SUFFICES ASSUME Sound'
                   PROVE  CommandSound' /\ PushSound' /\ PopSound'
      BY DEF SoundInv
    <2>2. Matches'
      BY <1>3, <2>1 DEF Sound, Matches
    <2>3. CommandSound'
      BY <1>1, <1>2, <1>3, <1>4, <2>1, <2>2 DEF CommandSound, Sound, Line
    <2>4. QED
      BY <1>3, <2>3 DEF PushSound, PopSound
  <1>9. QED
    BY <1>5, <1>6, <1>7, <1>8 DEF Rest

LEMMA BegunRest ==
  ASSUME TypeInv, Rest, NEW name \in {"push"} \cup Pops, NEW shell \in Shells,
         NEW next \in {"setprompt", "started", "ask", "close"}, Begin(name, shell, next),
         Sound' => PushSound' /\ PopSound'
  PROVE  Rest'
  <1>1. /\ pc = "idle" /\ pc' = next /\ op'.name = name
        /\ UNCHANGED <<ready, outcome, drops>>
    BY BeginCall DEF Pops
  <1>2. OwnOutput' /\ ReturnedInv' /\ ExecInv' /\ ReadyInv'
    BY <1>1 DEF Rest, OwnOutput, ReturnedInv, ExecInv, ReadyInv, Pops
  <1>3. SoundInv'
    BY <1>1 DEF SoundInv, CommandSound, Pops
  <1>4. QED
    BY <1>2, <1>3 DEF Rest

LEMMA PushRest ==
  ASSUME TypeInv, NameInv, Rest, Push
  PROVE  Rest'
  <1>1. PICK s \in Pushed \ ToSet(shells) :
          /\ s \in Shells
          /\ Begin("push", s, IF s \in BashShells THEN "setprompt" ELSE "started")
          /\ input = <<>> => input' = <<Line("start", s)>>
    BY PushType
  <1>2. output' = output
    BY PushType
  <1>3. /\ op'.name = "push" /\ op'.shell = s /\ op'.quiet = Idle
        /\ pc' = IF s \in BashShells THEN "setprompt" ELSE "started"
        /\ op'.sound = (Matches /\ ("push" = "push" => output = <<>> /\ Checked(s)))
        /\ UNCHANGED <<shells, programs, running, drops>>
    BY <1>1, BeginCall DEF stack
  <1>4. ASSUME Sound'
        PROVE  PushSound'
    <2>1. Idle /\ Matches /\ output = <<>> /\ Checked(s)
      BY <1>3, <1>4 DEF Sound, Undisturbed
    <2>2. pc' = "started" /\ input' = <<Line("start", op'.shell)>> /\ running' = 0
      BY <1>1, <1>3, <2>1 DEF Checked, Idle
    <2>3. Checked(op.shell)' /\ Matches'
      BY <1>3, <2>1 DEF Checked, Current, Matches
    <2>4. StartSound'
      BY <1>2, <2>1, <2>2, <2>3 DEF StartSound, Line
    <2>5. QED
      BY <2>2, <2>3, <2>4 DEF PushSound
  <1>5. PopSound'
    BY <1>3 DEF PopSound
  <1>6. QED
    BY <1>1, <1>4, <1>5, BegunRest

LEMMA PopsRest ==
  ASSUME TypeInv, NameInv, Rest, Pop \/ PopUntil \/ CloseTerminal
  PROVE  Rest'
  <1>1. PICK name \in Pops, s \in Shells :
          Begin(name, s, IF name = "close" /\ shells = <<>> THEN "close" ELSE "ask")
    BY PopsType
  <1>2. UNCHANGED <<terminal, shells>>
    BY PopsType
  <1>3. /\ op'.name = name /\ op'.quiet = Idle
        /\ pc' = IF name = "close" /\ shells = <<>> THEN "close" ELSE "ask"
        /\ op'.sound = (Matches /\ (name = "push" => output = <<>> /\ Checked(s)))
    BY <1>1, BeginCall DEF Pops
  <1>4. PushSound'
    BY <1>3 DEF PushSound, Pops
  <1>5. ASSUME Sound'
        PROVE  PopSound'
    <2>1. SUFFICES ASSUME name \in {"pop", "pop_until"}
                   PROVE  PopSound'
      BY <1>3 DEF PopSound
    <2>2. pc' = "ask" /\ Idle /\ Matches
      BY <1>3, <1>5, <2>1 DEF Sound, Undisturbed
    <2>3. running' = 0 /\ input' = <<>> /\ Matches'
      BY <1>2, <2>2 DEF Idle, Matches, terminal
    <2>4. Len(input') = 0
      BY <2>3
    <2>5. Settled'
      BY <2>3, <2>4 DEF Settled
    <2>6. QED
      BY <2>2, <2>3, <2>5 DEF PopSound
  <1>6. QED
    BY <1>1, <1>4, <1>5, BegunRest

LEMMA StutterRest ==
  ASSUME Rest, UNCHANGED vars
  PROVE  Rest'
  <1> USE DEF vars, stack, terminal, control
  <1>1. ExecInv' /\ OwnOutput' /\ ReadyInv'
    BY DEF Rest, ExecInv, OwnOutput, ReadyInv, Undisturbed, Answers, TopProgram, Idle, Remembers
  <1>2. CommandSound => CommandSound'
    BY DEF CommandSound, Matches
  <1>3. PushSound => PushSound'
    <2>1. StartSound => StartSound'
      BY DEF StartSound, Matches, Starting, Above, TopProgram, Printed, FirstPrompt, Current
    <2>2. DetectSound => DetectSound'
      BY DEF DetectSound, Starting, Above, TopProgram, Printed
    <2>3. CheckSound => CheckSound'
      BY DEF CheckSound, Starting, Above, TopProgram
    <2>4. QED
      BY <2>1, <2>2, <2>3
      DEF PushSound, Checked, Current, Starting, Above, TopProgram, Printed
  <1>4. Settled => Settled'
    BY DEF Settled, Matches
  <1>5. PopSound => PopSound'
    <2>1. Leaving => Leaving'
      BY DEF Leaving, Above, ExitAt, TopProgram
    <2>2. NoneOf(Len(shells) - 1) => NoneOf(Len(shells) - 1)'
      BY DEF NoneOf
    <2>3. NoneOf(Len(shells)) => NoneOf(Len(shells))'
      BY DEF NoneOf
    <2>4. Found(Waiting)' = Found(Waiting)
      BY DEF Found, Positions, Waiting, Current
    <2>5. QED
      BY <1>4, <2>1, <2>2, <2>3, <2>4 DEF PopSound
  <1>6. SoundInv'
    BY <1>2, <1>3, <1>5 DEF Rest, SoundInv, Sound, Undisturbed
  <1>7. ReturnedInv'
    BY <1>4 DEF Rest, ReturnedInv, Current
  <1>8. QED
    BY <1>1, <1>6, <1>7 DEF Rest

-----------------------------------------------------------------------------
(* The invariant.                                                           *)

LEMMA InvParts == Inv <=> TypeInv /\ NameInv /\ Rest
  BY DEF Inv, Rest

LEMMA InitInv == Init => Inv
  <1> SUFFICES ASSUME Init PROVE TypeInv /\ NameInv /\ Rest
    BY InvParts
  <1> USE DEF Init
  <1>1. /\ Len(shells) = 1 /\ shells[1] = Local /\ shells # <<>> /\ shells \in Seq(Shells)
        /\ Len(programs) = 1 /\ programs[1] = [name |-> Local, prompt |-> Local, last |-> 0]
        /\ programs # <<>> /\ programs \in Seq(ProgramsOf)
    <2>1. Local \in Shells /\ [name |-> Local, prompt |-> Local, last |-> 0] \in ProgramsOf
      <3>1. 0 \in 0 .. MaxCalls /\ Local \in Shells /\ Local \in Names
        BY ConstantsAssumption, NameTypes
      <3>2. QED
        BY <3>1 DEF ProgramsOf
    <2>2. QED
      BY <2>1
  <1>2. TypeInv
    <2>1. 0 \in 0 .. MaxCalls /\ 0 \in 0 .. MaxDrops
      BY ConstantsAssumption
    <2>2. <<>> \in Seq(Lines) /\ <<>> \in Seq(Texts)
      OBVIOUS
    <2>3. TerminalType /\ ControlType
      BY <1>1, <2>1, <2>2, NoOpType DEF TerminalType, ControlType
    <2>4. CallInv
      BY <1>1, NoOpType DEF CallInv, PushSteps, PopSteps
    <2>5. QED
      BY <2>3, <2>4, TypeParts DEF TypeInv
  <1>3. NameInv
    BY <1>1 DEF NameInv
  <1>4. ExecInv /\ OwnOutput /\ ReadyInv /\ SoundInv
    BY NoOpType DEF ExecInv, OwnOutput, ReadyInv, SoundInv, CommandSound, PushSound, PopSound
  <1>5. ReturnedInv
    <2>1. PromptOf(Local) = Local
      BY NameTypes
    <2>2. Matches
      BY <1>1, <2>1 DEF Matches, Same
    <2>3. Len(input) = 0
      OBVIOUS
    <2>4. Settled /\ running = 0
      BY <2>2, <2>3 DEF Settled
    <2>5. QED
      BY <2>4, NoOpType DEF ReturnedInv
  <1>6. QED
    BY <1>2, <1>3, <1>4, <1>5 DEF Rest

LEMMA InvStep ==
  ASSUME Inv, [Next]_vars
  PROVE  Inv'
  <1>1. TypeInv /\ NameInv /\ Rest
    BY InvParts
  <1>2. TypeInv' /\ NameInv'
    BY <1>1, TypeStep, NameStep
  <1>3. Rest'
    <2>1. CASE User
      BY <1>1, <2>1, ExecRest, PushRest, PopsRest DEF User
    <2>2. CASE Client
      BY <1>1, <2>2, ClientRest
    <2>3. CASE Programs \/ Drop
      BY <1>1, <2>3, ReadsRest, CommandEndsRest, DropRest DEF Programs
    <2>4. CASE UNCHANGED vars
      BY <1>1, <2>4, StutterRest
    <2>5. QED
      BY <2>1, <2>2, <2>3, <2>4 DEF Next
  <1>4. QED
    BY <1>2, <1>3 DEF Inv, Rest

LEMMA InvAlways == Spec => []Inv
  <1>1. Inv /\ [Next]_vars => Inv'
    BY InvStep
  <1>2. QED
    BY <1>1, InitInv, PTL DEF Spec

\* Whatever the programs do, the stack of the shells, the programs and the text between them
\* are of the kinds the module says (InteractiveSession, Shell).
THEOREM StackTypeCorrect == Spec => []TypeOK
  <1>1. Inv => TypeOK
    BY DEF Inv, TypeInv
  <1>2. QED
    BY <1>1, InvAlways, PTL

\* exec_command returns the output of its own command and nothing else if the terminal was
\* quiet and no connection was lost (Shell.exec_command).
THEOREM ExecReturnsOwnOutput == Spec => []OwnOutput
  <1>1. Inv => OwnOutput
    BY DEF Inv
  <1>2. QED
    BY <1>1, InvAlways, PTL

\* A call that returned leaves the shells of the session in step with the programs of its
\* terminal (InteractiveSession.push, pop, pop_until).
THEOREM CallsKeepStackMatching == Spec => []StackMatches
  <1>1. Inv => StackMatches
    BY DEF Inv, ReturnedInv, StackMatches, Settled
  <1>2. QED
    BY <1>1, InvAlways, PTL

\* The status that get_status_code returns is that of the command before it
\* (BashShell.get_status_code).
THEOREM StatusIsOfCommand == Spec => StatusOwn
  <1> DEFINE Own ==
        (/\ ready # 0 /\ op.name = "status" /\ pc = "await" /\ pc' = "idle"
         /\ outcome'.result = "returned" /\ op.quiet /\ op.drops = drops)
          => outcome'.text = <<[type |-> "status", of |-> ready]>>
  <1>1. Inv /\ [Next]_vars => [Own]_vars
    <2>1. SUFFICES ASSUME TypeInv, Rest, [Next]_vars, ready # 0, op.name = "status",
                          pc = "await", pc' = "idle", outcome'.result = "returned"
                   PROVE  outcome'.text = <<[type |-> "status", of |-> ready]>>
      BY InvParts
    <2>2. AwaitFound
      <3>1. Client
        BY <2>1 DEF Next, User, ExecCommand, GetStatusCode, Exec, Push, Pop, PopUntil,
                    CloseTerminal, Begin, Programs, ProgramReads, CommandEnds, Drop, vars,
                    control
      <3>2. AwaitFound \/ AwaitTimeout \/ AwaitEnd
        BY <2>1, <3>1 DEF Client, Started, Imported, NotStarted, Confirmed, NotConfirmed,
                          StartError, SetPrompt, DetectPrompt, Detected, NotDetected,
                          PushFailed, Ask, Interrupt, PopUntilAnswered, PopMatching,
                          PopUnexpected, AskEnd, Close, Answered
      <3>3. QED
        BY <2>1, <3>2 DEF AwaitTimeout, AwaitEnd, Return
    <2>3. Found(Waiting) /\ outcome'.text = Before(Waiting) /\ shells # <<>>
      BY <2>1, <2>2 DEF AwaitFound, Return, TypeInv, CallInv
    <2> DEFINE token == [type |-> "status", of |-> ready]
    <2>4. token \in Texts /\ \A p : token # Prompt(p)
      <3>1. token \in Texts
        <4>1. ready \in 0 .. MaxCalls
          BY <2>1 DEF TypeInv, TypeOK
        <4>2. QED
          BY <4>1, TokenTypes
      <3>2. \A p : token # Prompt(p)
        BY PromptFacts
      <3>3. QED
        BY <3>1, <3>2
    <2>5. Current \in Shells /\ Current \notin PythonShells
      BY <2>1, <2>3, CurrentType, TypeParts DEF TypeInv, CallInv
    <2>6. output # <<Prompt("python")>>
      <3>1. SUFFICES ASSUME output = <<Prompt("python")>> PROVE FALSE
        OBVIOUS
      <3>2. Prompt("python") = Prompt(PromptOf(Current))
        BY <2>1, <2>3, <3>1, OneInOutput DEF Waiting, TypeInv, TypeOK
      <3>3. PromptOf(Current) = "python"
        BY <3>2, PromptFacts
      <3>4. QED
        BY <2>5, <3>3, NameTypes
    <2>7. Answers(token)
      BY <2>1, <2>3, <2>6, EmptyOutput DEF Rest, ReadyInv
    <2>8. QED
      BY <2>1, <2>3, <2>4, <2>7, AnswerFound
  <1>2. QED
    BY <1>1, InvAlways, PTL DEF Spec, StatusOwn
=============================================================================
