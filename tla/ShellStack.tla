------------------------------ MODULE ShellStack ------------------------------
(****************************************************************************)
(* InteractiveSession and its shells: the stack of the shells that were     *)
(* pushed, the terminal with the programs that really run in it, and the    *)
(* text between them, in which the client looks for prompts.  Commands may  *)
(* outlast their timeout, shells may not start, connections may drop.       *)
(*                                                                          *)
(* The text is a sequence of what the client tells apart: the prompt of a   *)
(* program, the output of a command, a status code, the marker of the       *)
(* detection of the prompt.  The programs of the terminal are external.     *)
(****************************************************************************)
EXTENDS Integers, SequencesExt

CONSTANTS Local,         \* the shell which is spawned
          BashShells,    \* the shells whose start only sets the prompt (BashShell, NamespaceShell)
          KeyShells,     \* those which check that they were started (KeyAuthenticatedSshShell)
          PythonShells,  \* PythonShell: all have the same prompt
          MaxCalls,      \* bound on the calls of the user
          MaxDrops,      \* bound on the connections that drop
          Slow           \* commands may outlast their timeouts

Pushed == BashShells \cup KeyShells \cup PythonShells
Shells == Pushed \cup {Local}

ASSUME ConstantsAssumption ==
    /\ Local \notin Pushed
    /\ MaxCalls \in Nat /\ MaxDrops \in Nat /\ Slow \in BOOLEAN
    /\ "fresh" \notin Shells /\ "python" \notin Shells

VARIABLES
    shells,   \* InteractiveSession.shells
    closed,   \* terminal is None
    programs, \* the programs in the terminal: name, prompt, and the last command
    running,  \* the command of the topmost program, or 0
    input,    \* the lines sent and not yet read by a program
    output,   \* the text not yet read by the client
    op,       \* the call under way
    pc,       \* its step
    ready,    \* the call before it, if an exec_command that returned undisturbed, or 0
    outcome,  \* how the last call ended, with the text it read
    calls, drops

stack == <<shells, closed>>
terminal == <<programs, running, input, output>>
control == <<op, pc, ready, outcome, calls>>
vars == <<stack, terminal, control, drops>>

-----------------------------------------------------------------------------
\* Shell.get_prompt
PromptOf(s) == IF s \in PythonShells THEN "python" ELSE s
Prompt(p) == [type |-> "prompt", of |-> p]

Line(type, of) == [type |-> type, of |-> of]

\* The shells of the session are the programs of its terminal, with the prompts
\* the client looks for.
Same(program, shell) == program.name = shell /\ program.prompt = PromptOf(shell)
Matches ==
    /\ Len(shells) = Len(programs)
    /\ \A i \in 1 .. Len(shells) : Same(programs[i], shells[i])

\* InteractiveSession.current_shell
Current == Last(shells)

Idle == running = 0 /\ input = <<>>

\* Whether the start of a shell is told from its failure: the start of a BashShell is not
\* checked, and a Python that does not start is taken for the one below it.
Checked(s) == s \notin BashShells /\ ~({s, Current} \subseteq PythonShells)

NoOp == [name |-> "none", n |-> 0, shell |-> Local, quiet |-> TRUE,
         sound |-> TRUE, drops |-> 0, popping |-> FALSE]

-----------------------------------------------------------------------------
\* The programs of the terminal.

Show(tokens) == output' = output \o tokens
TopProgram == Last(programs)
WithTop(program) == [programs EXCEPT ![Len(programs)] = program]

\* Outputs and the prompt after them.
Answer(tokens) == Show(Append(tokens, Prompt(TopProgram.prompt)))

IsPython == TopProgram.prompt = "python"

ReadCommand(line) ==
    /\ line.type = "command"
    /\ running' = line.of
    /\ UNCHANGED <<programs, output>>

\* Empty lines, and lines a Python does not know.
ReadOther(line) ==
    /\ \/ line.type = "empty"
       \/ line.type \in {"status", "setprompt", "detect"} /\ IsPython
       \/ line.type = "exit" /\ line.of # IsPython
    /\ Answer(<<>>)
    /\ UNCHANGED <<programs, running>>

ReadStatus(line) ==
    /\ line.type = "status" /\ ~IsPython
    /\ Answer(<<[type |-> "status", of |-> TopProgram.last]>>)
    /\ UNCHANGED <<programs, running>>

\* The command which starts a shell, or fails to and has a status of its own.
ReadStart(line) ==
    /\ line.type = "start"
    /\ \/ /\ ~IsPython
          /\ LET prompt == IF line.of \in PythonShells THEN "python" ELSE "fresh"
             IN /\ programs' = Append(programs, [name |-> line.of, prompt |-> prompt, last |-> 0])
                /\ Show(<<Prompt(prompt)>>)
       \/ Answer(<<>>) /\ programs' = WithTop([TopProgram EXCEPT !.last = calls])
    /\ UNCHANGED running

ReadSetPrompt(line) ==
    /\ line.type = "setprompt" /\ ~IsPython
    /\ programs' = WithTop([TopProgram EXCEPT !.prompt = line.of, !.last = 0])
    /\ Show(<<Prompt(line.of)>>)
    /\ UNCHANGED running

ReadDetect(line) ==
    /\ line.type = "detect" /\ ~IsPython
    /\ Answer(<<[type |-> "marker", of |-> TopProgram.prompt]>>)
    /\ UNCHANGED <<programs, running>>

ReadExit(line) ==
    /\ line.type = "exit" /\ line.of = IsPython
    /\ programs' = Front(programs)
    /\ Show(IF Len(programs) = 1 THEN <<>>
            ELSE <<Prompt(programs[Len(programs) - 1].prompt)>>)
    /\ UNCHANGED running

ProgramReads ==
    /\ running = 0 /\ input # <<>> /\ programs # <<>>
    /\ input' = Tail(input)
    /\ \/ ReadCommand(Head(input)) \/ ReadOther(Head(input))
       \/ ReadStatus(Head(input)) \/ ReadStart(Head(input))
       \/ ReadSetPrompt(Head(input)) \/ ReadDetect(Head(input))
       \/ ReadExit(Head(input))
    /\ UNCHANGED <<stack, control, drops>>

CommandEnds ==
    /\ running # 0
    /\ Answer(<<[type |-> "output", of |-> running]>>)
    /\ programs' = WithTop([TopProgram EXCEPT !.last = running])
    /\ running' = 0
    /\ UNCHANGED <<stack, input, control, drops>>

\* The connection of a pushed shell is lost: its programs are gone.
Drop ==
    /\ drops < MaxDrops /\ drops' = drops + 1
    /\ Len(programs) > 1
    /\ programs' = Front(programs) /\ running' = 0 /\ input' = <<>>
    /\ Show(<<Prompt(programs[Len(programs) - 1].prompt)>>)
    /\ ready' = 0
    /\ UNCHANGED <<stack, op, pc, outcome, calls>>

-----------------------------------------------------------------------------
\* Reading and sending.

\* _exec_cmd, _send_input_line
Send(lines) == input' = input \o lines

\* _read_until_end: what has come so far is read.
Unread == output  \* mutant: nothing is read before the command
Drained == <<>>

\* pexpect.EOF
AtEnd == programs = <<>>

Positions(tokens) == {i \in 1 .. Len(output) : output[i] \in tokens}
Found(tokens) == Positions(tokens) # {}

\* _read_until: the text up to the first of the tokens.
First(tokens) == CHOOSE i \in Positions(tokens) :
                    \A j \in Positions(tokens) : i <= j
Before(tokens) == SubSeq(output, 1, First(tokens) - 1)
After(tokens) == SubSeq(output, First(tokens) + 1, Len(output))

\* A timeout: nothing will come any more or, if commands are slow, one is
\* still running.
GivesUp(tokens) ==
    /\ ~Found(tokens) /\ ~AtEnd
    /\ Idle \/ (Slow /\ running # 0)

Waiting == {Prompt(PromptOf(Current))}

Return(result, text) ==
    /\ pc' = "idle" /\ op' = NoOp
    /\ outcome' = [op |-> op, result |-> result, text |-> text]
    /\ ready' = IF /\ op.name = "exec" /\ result = "returned"
                   /\ op.quiet /\ op.drops = drops
                THEN op.n ELSE 0

GoOn(next) == pc' = next /\ UNCHANGED <<op, ready, outcome>>

-----------------------------------------------------------------------------
\* The calls of the user.

Begin(name, shell, next) ==
    /\ pc = "idle" /\ ~closed /\ calls < MaxCalls
    /\ calls' = calls + 1
    /\ op' = [name |-> name, n |-> calls + 1, shell |-> shell,
               quiet |-> Idle,
               sound |-> Matches /\ (name = "push" => output = <<>> /\ Checked(shell)),
               drops |-> drops, popping |-> name # "pop_until"]
    /\ pc' = next
    /\ UNCHANGED <<stack, programs, running, ready, outcome, drops>>

\* Shell.exec_command and BashShell.get_status_code: leftovers are read, the
\* command is sent.
Exec(name, type) ==
    /\ shells # <<>> /\ ~AtEnd
    /\ Begin(name, Local, "await")
    /\ output' = Drained
    /\ Send(<<Line(type, IF type = "command" THEN calls + 1 ELSE 0)>>)

ExecCommand == Exec("exec", "command")
GetStatusCode == shells # <<>> /\ Current \notin PythonShells /\ Exec("status", "status")

\* InteractiveSession.push
Push ==
    /\ shells # <<>> /\ ~AtEnd
    /\ \E s \in Pushed \ ToSet(shells) :
        /\ Begin("push", s, IF s \in BashShells THEN "setprompt" ELSE "started")
        /\ Send(<<Line("start", s)>>)
    /\ UNCHANGED output

\* pop, pop_until and close_terminal begin with the prompt of the terminal.
Pop == shells # <<>> /\ Begin("pop", Local, "ask") /\ UNCHANGED <<input, output>>
PopUntil ==
    /\ \E s \in ToSet(shells) : Begin("pop_until", s, "ask")
    /\ UNCHANGED <<input, output>>
CloseTerminal ==
    /\ Begin("close", Local, IF shells = <<>> THEN "close" ELSE "ask")
    /\ UNCHANGED <<input, output>>

User == ExecCommand \/ GetStatusCode \/ Push \/ Pop \/ PopUntil \/ CloseTerminal

-----------------------------------------------------------------------------
\* _read_until_prompt at the end of exec_command and pop.

AwaitFound ==
    /\ pc = "await" /\ Found(Waiting)
    /\ output' = After(Waiting)
    /\ Return("returned", Before(Waiting))
    /\ UNCHANGED <<stack, programs, running, input, calls, drops>>

AwaitTimeout ==
    /\ pc = "await" /\ GivesUp(Waiting)
    /\ Return("timeout", <<>>)
    /\ UNCHANGED <<stack, terminal, calls, drops>>

-----------------------------------------------------------------------------
\* The start of the shell being pushed.

Initial == {Prompt(IF op.shell \in PythonShells THEN "python" ELSE "fresh")}
Marker == {[type |-> "marker", of |-> p] : p \in Shells \cup {"fresh"}}

\* EOF, in a drain or when what is awaited has not come: the exception leaves
\* the call.
Awaited == CASE pc = "started" -> Initial
             [] pc = "detect" -> Marker
             [] pc \in {"detected", "imported"} -> {Prompt(PromptOf(op.shell))}
             [] pc \in {"check", "setprompt", "ask", "askagain"} -> {}
             [] OTHER -> Waiting
AwaitEnd ==
    /\ pc \in {"await", "started", "imported", "check", "setprompt", "detect",
              "detected", "failed"}
    /\ AtEnd /\ ~Found(Awaited)
    /\ Return("eof", <<>>)
    /\ UNCHANGED <<stack, terminal, calls, drops>>

\* PythonShellBase.start; wait_for_initial_prompt of KeyAuthenticatedSshShell, after which
\* a status is asked for.
Started ==
    /\ pc = "started" /\ Found(Initial)
    /\ output' = After(Initial)
    /\ IF op.shell \in PythonShells
       THEN GoOn("imported") /\ Send(<<Line("empty", 0)>>)
       ELSE GoOn("check") /\ Send(<<Line("status", 0)>>)
    /\ UNCHANGED <<stack, programs, running, calls, drops>>

\* check_start_success: the status comes first and is 0, and is asked for once more, for
\* MsgReader to have something to read.
StatusIsFirst == output # <<>> /\ Head(output).type = "status"
Confirmed ==
    /\ pc = "check" /\ StatusIsFirst /\ Head(output).of = 0
    /\ output' = Drained
    /\ Send(<<Line("status", 0)>>)
    /\ GoOn("setprompt")
    /\ UNCHANGED <<stack, programs, running, calls, drops>>

\* _import_modules: nothing but the prompt may follow.
Imported ==
    /\ pc = "imported" /\ Found(Awaited)
    /\ output' = After(Awaited)
    /\ IF Before(Awaited) = <<>>
       THEN shells' = Append(shells, op.shell) /\ Return("returned", <<>>)
       ELSE GoOn("failed") /\ UNCHANGED shells
    /\ UNCHANGED <<closed, programs, running, input, calls, drops>>

\* ShellStartError: the prompt of the current shell is set back, for which a Python has
\* no method.
StartError ==
    /\ IF Current \in PythonShells THEN UNCHANGED input ELSE Send(<<Line("setprompt", Current)>>)
    /\ Return("notstarted", <<>>)

\* The prompt, or any status, does not come.  A Python awaits the prompt of the current shell.
NotStarted ==
    /\ \/ pc = "started" /\ GivesUp(Initial)
       \/ pc = "check" /\ output = <<>> /\ GivesUp({})
    /\ IF op.shell \in PythonShells
       THEN GoOn("failed") /\ UNCHANGED input
       ELSE StartError
    /\ UNCHANGED <<stack, programs, running, output, calls, drops>>

\* The status is another one, or what comes first is none (an AttributeError).
NotConfirmed ==
    /\ pc = "check" /\ output # <<>>
    /\ \/ StatusIsFirst /\ Head(output).of # 0 /\ StartError
       \/ ~StatusIsFirst /\ GoOn("failed") /\ UNCHANGED input
    /\ output' = Drained
    /\ UNCHANGED <<stack, programs, running, calls, drops>>

\* MsgReader of the SshShells, _set_bash_environment and set_prompt, up to _detect_bash_prompt
SetPrompt ==
    /\ pc = "setprompt" /\ ~AtEnd
    /\ op.shell \in KeyShells => output # <<>>
    /\ output' = Drained
    /\ Send(<<Line("setprompt", op.shell), Line("detect", 0)>>)
    /\ GoOn("detect")
    /\ UNCHANGED <<stack, programs, running, calls, drops>>

DetectPrompt ==
    /\ pc = "detect" /\ Found(Marker)
    /\ output' = After(Marker)
    /\ GoOn("detected")
    /\ UNCHANGED <<stack, programs, running, input, calls, drops>>

\* The prompt that the marker follows is the one just set: one program reads both lines.
Detected ==
    /\ pc = "detected" /\ Found({Prompt(op.shell)})
    /\ output' = After({Prompt(op.shell)})
    /\ shells' = Append(shells, op.shell)
    /\ Return("returned", <<>>)
    /\ UNCHANGED <<closed, programs, running, input, calls, drops>>

NotDetected ==
    /\ \/ pc \in {"imported", "detect", "detected"} /\ GivesUp(Awaited)
       \/ pc = "setprompt" /\ op.shell \in KeyShells /\ output = <<>> /\ GivesUp({})
    /\ GoOn("failed")
    /\ UNCHANGED <<stack, terminal, calls, drops>>

\* Any other failure of push: the prompt of the current shell is awaited.
PushFailed ==
    /\ pc = "failed"
    /\ \/ Found(Waiting) /\ output' = After(Waiting)
       \/ GivesUp(Waiting) /\ UNCHANGED output
    /\ Return("failed", <<>>)
    /\ UNCHANGED <<stack, programs, running, input, calls, drops>>

-----------------------------------------------------------------------------
\* get_prompt_from_terminal, _prompt_should_match and what follows.

\* _get_prompt_from_terminal
Ask ==
    /\ pc \in {"ask", "askagain"} /\ ~AtEnd
    /\ output' = Drained
    /\ Send(<<Line("empty", 0)>>)
    /\ GoOn(IF pc = "ask" THEN "asked" ELSE "askedagain")
    /\ UNCHANGED <<stack, programs, running, calls, drops>>

\* Nothing came: the running command is interrupted, unless it ignores that,
\* with or without the lines typed ahead.
Interrupt ==
    /\ pc = "asked" /\ GivesUp(Waiting) /\ output = <<>>
    /\ \/ UNCHANGED <<running, input, output>>
       \/ /\ running # 0 /\ running' = 0
          /\ Answer(<<>>)
          /\ input' = input \/ input' = <<>>
    /\ GoOn("askagain")
    /\ UNCHANGED <<stack, programs, calls, drops>>

\* exit of the current shell; _pop removes it whatever happens.
ExitLine == Line("exit", Current \in PythonShells)
Kept == shells  \* mutant: only the shells that were left are removed
Remaining == Front(shells)

\* The loop of pop_until asks for the prompt, and once more in _pop.
AskAbout(popping) ==
    /\ pc' = "ask" /\ op' = [op EXCEPT !.popping = popping]
    /\ UNCHANGED <<ready, outcome>>

\* What comes next in pop, pop_until and close_terminal when _pop is done.
AfterPop(left) ==
    CASE op.name = "pop" /\ left # <<>> -> GoOn("await")
      [] op.name = "pop" /\ left = <<>> -> Return("returned", <<>>)
      [] op.name = "pop_until" ->
            IF op.shell \in ToSet(left) THEN AskAbout(FALSE)
            ELSE Return("unknown", <<>>)
      [] op.name = "close" -> GoOn(IF left = <<>> THEN "close" ELSE "ask")

\* is_terminal_prompt_matching(shell) for the prompt that was received
Received == IF Found(Waiting) THEN Prompt(PromptOf(Current))
            ELSE IF Len(output) = 1 THEN output[1]
            ELSE Line("other", 0)
Matching(s) == Received = Prompt(PromptOf(s))
Answered == \/ pc \in {"asked", "askedagain"} /\ Found(Waiting)
            \/ pc = "asked" /\ GivesUp(Waiting) /\ output # <<>>
            \/ pc = "askedagain" /\ GivesUp(Waiting)

Consumed == IF Found(Waiting) THEN After(Waiting) ELSE output

\* pop_until: the prompt is the one it looks for, or the current shell is popped.
PopUntilAnswered ==
    /\ ~op.popping /\ Answered
    /\ output' = Consumed
    /\ IF Matching(op.shell) THEN Return("returned", <<>>) ELSE AskAbout(TRUE)
    /\ UNCHANGED <<stack, programs, running, input, calls, drops>>

\* _pop with the expected prompt.
PopMatching ==
    /\ op.popping /\ Answered /\ Matching(Current)
    /\ output' = Consumed
    /\ Send(<<ExitLine>>)
    /\ shells' = Remaining
    /\ AfterPop(Remaining)
    /\ UNCHANGED <<closed, programs, running, calls, drops>>

\* UnexpectedPrompt: the shell is removed without its exit.
PopUnexpected ==
    /\ op.popping /\ Answered /\ ~Matching(Current)
    /\ output' = Consumed
    /\ shells' = Remaining
    /\ IF op.name = "close" THEN AfterPop(Remaining)
       ELSE Return("unexpected", <<>>)
    /\ UNCHANGED <<closed, programs, running, input, calls, drops>>

\* EOF in the question: in _pop the shell is removed, the exception leaves the call and
\* close_terminal does not reach the close of the terminal.
AskEnd ==
    /\ pc \in {"ask", "asked", "askagain", "askedagain"} /\ AtEnd /\ ~Found(Awaited)
    /\ shells' = IF op.popping THEN Remaining ELSE shells
    /\ Return("eof", <<>>)
    /\ UNCHANGED <<closed, terminal, calls, drops>>

\* terminal.close(force=True)
Close ==
    /\ pc = "close"
    /\ closed' = TRUE
    /\ programs' = <<>> /\ running' = 0 /\ input' = <<>> /\ output' = <<>>
    /\ Return("returned", <<>>)
    /\ UNCHANGED <<shells, calls, drops>>

-----------------------------------------------------------------------------
\* spawn of the local shell.
Init ==
    /\ shells = <<Local>> /\ closed = FALSE
    /\ programs = <<[name |-> Local, prompt |-> Local, last |-> 0]>>
    /\ running = 0 /\ input = <<>> /\ output = <<>>
    /\ op = NoOp /\ pc = "idle" /\ ready = 0
    /\ outcome = [op |-> NoOp, result |-> "none", text |-> <<>>]
    /\ calls = 0 /\ drops = 0

Client == \/ AwaitFound \/ AwaitTimeout \/ AwaitEnd
          \/ Started \/ Imported \/ NotStarted \/ Confirmed \/ NotConfirmed
          \/ SetPrompt \/ DetectPrompt \/ Detected
          \/ NotDetected \/ PushFailed
          \/ Ask \/ Interrupt \/ PopUntilAnswered \/ PopMatching \/ PopUnexpected
          \/ AskEnd \/ Close

Programs == ProgramReads \/ CommandEnds

Next == User \/ Client \/ Programs \/ Drop

Spec == Init /\ [][Next]_vars

\* The programs run on their own, and a command that runs ends or outlasts the
\* timeout of the client.
FairSpec == Spec /\ WF_vars(Client) /\ WF_vars(Programs)

-----------------------------------------------------------------------------
Texts == [type : {"prompt", "marker"}, of : Shells \cup {"fresh", "python"}]
         \cup [type : {"output", "status"}, of : 0 .. MaxCalls]
Lines == [type : {"command", "status"}, of : 0 .. MaxCalls]
         \cup [type : {"empty", "detect"}, of : {0}]
         \cup [type : {"start", "setprompt"}, of : Shells]
         \cup [type : {"exit"}, of : BOOLEAN]
Ops == [name : {"none", "exec", "status", "push", "pop", "pop_until", "close"},
        n : 0 .. MaxCalls, shell : Shells, quiet : BOOLEAN, sound : BOOLEAN,
        drops : 0 .. MaxDrops, popping : BOOLEAN]

\* The types of the stack, of the programs that run and of what they have still
\* to read and have printed (InteractiveSession, Shell).
TypeOK ==
    /\ shells \in Seq(Shells) /\ closed \in BOOLEAN
    /\ programs \in Seq([name : Shells, prompt : Shells \cup {"fresh", "python"},
                         last : 0 .. MaxCalls])
    /\ running \in 0 .. MaxCalls
    /\ input \in Seq(Lines) /\ output \in Seq(Texts)
    /\ op \in Ops /\ ready \in 0 .. MaxCalls
    /\ outcome.op \in Ops /\ outcome.text \in Seq(Texts)
    /\ calls \in 0 .. MaxCalls /\ drops \in 0 .. MaxDrops

\* A call that returned leaves the shells of the session in step with the
\* programs of its terminal if they were so before and the terminal was quiet
\* (push, which does not read them, also needs that no leftovers are unread, and a
\* start that is checked) and no connection was lost; only the exit of the last shell
\* is not waited for (InteractiveSession.push, pop).
StackMatches ==
    pc = "idle" /\ shells # <<>> /\ outcome.op.quiet /\ outcome.op.sound
      /\ outcome.op.drops = drops /\ outcome.result \in {"none", "returned"}
        => /\ Matches
           /\ outcome.op.name = "pop_until" => Current = outcome.op.shell

\* exec_command returns the output of its own command and nothing else if the
\* terminal was quiet when it was called and no connection was lost since,
\* whatever earlier calls left unread.
OwnOutput ==
    outcome.op.name = "exec" /\ outcome.result = "returned"
      /\ outcome.op.quiet /\ outcome.op.drops = drops
        => outcome.text = <<[type |-> "output", of |-> outcome.op.n]>>

\* get_status_code after a command that returned undisturbed is the status of that
\* command unless a connection was lost in between.
StatusOwn ==
    [][(/\ ready # 0 /\ op.name = "status" /\ pc = "await" /\ pc' = "idle"
        /\ outcome'.result = "returned" /\ op.quiet /\ op.drops = drops)
       => outcome'.text = <<[type |-> "status", of |-> ready]>>]_vars

\* Every call of InteractiveSession and of its shells ends, whatever runs in the
\* terminal: each of their reads has a timeout.
CallsEnd == pc # "idle" ~> pc = "idle"
=============================================================================
