------------------------------ MODULE RemoteCall -----------------------------
(****************************************************************************)
(* What MsgPythonShell promises to its user, whatever happens between it    *)
(* and the Python server: the commands run in log, each at most once and    *)
(* only when it was asked for, and a call that returns does so with the     *)
(* output of its own command.  A call that fails tells nothing about the    *)
(* command: it may have run, run later or never run.                        *)
(****************************************************************************)
EXTENDS Integers, Sequences

CONSTANT MaxCmds  \* bound on the number of commands

VARIABLES status,  \* the state of the call of each command
          log,     \* the commands run, in their order
          value    \* what each call returned: a position in log, or 0

vars == <<status, log, value>>

Cmds == 0 .. MaxCmds - 1

Init == /\ status = [c \in Cmds |-> "none"]
        /\ log = <<>>
        /\ value = [c \in Cmds |-> 0]

\* A command is called (its output is wanted) or sent (it is not).
Start(c, how) ==
    /\ status[c] = "none"
    /\ how \in {"running", "sent"}
    /\ status' = [status EXCEPT ![c] = how]
    /\ UNCHANGED <<log, value>>

Run(c) ==
    /\ status[c] # "none"
    /\ \A i \in 1 .. Len(log) : log[i] # c
    /\ log' = Append(log, c)
    /\ UNCHANGED <<status, value>>

\* The call of c returns the output of c, or the identity of the server.
Return(c) ==
    /\ status[c] = "running"
    /\ status' = [status EXCEPT ![c] = "returned"]
    /\ \E v \in 0 .. Len(log) :
        /\ v # 0 => log[v] = c
        /\ value' = [value EXCEPT ![c] = v]
    /\ UNCHANGED log

Fail(c) ==
    /\ status[c] = "running"
    /\ status' = [status EXCEPT ![c] = "failed"]
    /\ UNCHANGED <<log, value>>

Next == \E c \in Cmds : \/ Start(c, "running") \/ Start(c, "sent")
                        \/ Run(c) \/ Return(c) \/ Fail(c)

Spec == Init /\ [][Next]_vars
=============================================================================
