---------------------------- MODULE SelfRepairing ----------------------------
(****************************************************************************)
(* SelfRepairingSession: commands run in the Python of a session, which is  *)
(* replaced when it does not answer; the backup that the remote side keeps  *)
(* of the last run (ShellSubprocess) tells whether a run was started and    *)
(* what it returned.  Connections stall and come back, sessions die, the    *)
(* host restarts, output is garbled, sessions cannot be created.            *)
(****************************************************************************)
EXTENDS Integers, Sequences, FiniteSets

CONSTANTS MaxCalls,    \* bound on the calls of the user
          MaxRetries,  \* max_retries
          MaxFaults    \* bound on the faults

ASSUME ConstantsAssumption ==
    MaxCalls \in Nat /\ MaxRetries \in Nat /\ MaxFaults \in Nat

\* No call creates more sessions or starts more runs.
MaxSessions == MaxCalls * (MaxRetries + 2)
Ids == 1 .. MaxSessions

VARIABLES
    session,   \* _session, or 0
    sessions,  \* _sessions
    shell,     \* the session of _runner._shell, or 0
    old,       \* _old_workdir
    garbled,   \* the last import was taken for a failed one with the module there
    runs,      \* the call of each run: its length is _runner._run_id
    op, pc,    \* the call under way and its step
    outcome,   \* how the last call ended
    calls,
    line,      \* of each session: "none", "up", "hung", "dead" or "closed"
    typed,     \* the runs typed into its Python and not started; Stop is Ctrl-C
    running,   \* the run under way in its Python, or 0
    started, finished,
    module,    \* ShellSubprocess.py is in the work directory
    backup,    \* the file pickled_backup
    gone,      \* the sessions whose work directory was removed while they had it
    faults

client == <<session, sessions, shell, old, garbled, runs>>
control == <<op, pc, outcome, calls>>
processes == <<typed, running, started, finished>>
files == <<module, backup, gone>>
vars == <<client, control, line, processes, files, faults>>

Stop == 0
NoBackup == [id |-> 0, done |-> FALSE]
NoOp == [name |-> "none", n |-> 0, retry |-> 0, back |-> "none", original |-> 0,
         pending |-> "none", found |-> 0, todo |-> {}]

RunId == Len(runs)

-----------------------------------------------------------------------------
\* The remote Pythons.

\* RunShellSubprocess._run: the backup says first that there is no result yet.
\* In a directory that was removed _backup raises, and nothing is run.
Stored(id, done) == backup' = [id |-> id, done |-> done]
Start(s) ==
    /\ line[s] = "up" /\ running[s] = 0 /\ typed[s] # <<>> /\ Head(typed[s]) # Stop
    /\ typed' = [typed EXCEPT ![s] = Tail(@)]
    /\ started' = started \cup {Head(typed[s])}
    /\ IF s \in gone
       THEN /\ finished' = finished \cup {Head(typed[s])}
            /\ UNCHANGED <<running, backup>>
       ELSE /\ running' = [running EXCEPT ![s] = Head(typed[s])]
            /\ Stored(Head(typed[s]), FALSE)
            /\ UNCHANGED finished
    /\ UNCHANGED <<client, control, line, module, gone, faults>>

\* A run which is terminated after its timeout is printed but not stored.
Finish(s) ==
    /\ line[s] \in {"up", "hung"} /\ running[s] # 0
    /\ running' = [running EXCEPT ![s] = 0]
    /\ finished' = finished \cup {running[s]}
    /\ (s \notin gone /\ Stored(running[s], TRUE)) \/ UNCHANGED backup
    /\ UNCHANGED <<client, control, line, typed, started, module, gone, faults>>

\* _sigint_handler ends the process; _run goes on and stores what is left of it.
Terminated(s) ==
    /\ running[s] # 0
    /\ finished' = finished \cup {running[s]}
    /\ (s \notin gone /\ Stored(running[s], TRUE)) \/ UNCHANGED backup
Interrupted(s) ==
    /\ line[s] = "up" /\ typed[s] # <<>> /\ Head(typed[s]) = Stop
    /\ running' = [running EXCEPT ![s] = 0]
    /\ typed' = [typed EXCEPT ![s] = Tail(@)]
    /\ Terminated(s) \/ (running[s] = 0 /\ UNCHANGED <<finished, backup>>)
    /\ UNCHANGED <<client, control, line, started, module, gone, faults>>

Remote == \E s \in Ids : Start(s) \/ Finish(s) \/ Interrupted(s)

Fault == faults < MaxFaults /\ faults' = faults + 1

Hang(s) ==
    /\ Fault /\ line[s] = "up" /\ line' = [line EXCEPT ![s] = "hung"]
    /\ UNCHANGED <<client, control, processes, files>>

Revive(s) ==
    /\ line[s] = "hung" /\ line' = [line EXCEPT ![s] = "up"]
    /\ UNCHANGED <<client, control, processes, files, faults>>

Cut(ss, how) ==
    /\ line' = [s \in Ids |-> IF s \in ss THEN how ELSE line[s]]
    /\ typed' = [s \in Ids |-> IF s \in ss THEN <<>> ELSE typed[s]]
    /\ running' = [s \in Ids |-> IF s \in ss THEN 0 ELSE running[s]]
Ended(ss, how) == Cut(ss, how) /\ UNCHANGED <<started, finished>>

Die(s) ==
    /\ Fault /\ line[s] \in {"up", "hung"} /\ Ended({s}, "dead")
    /\ UNCHANGED <<client, control, files>>

Reboot ==
    /\ Fault
    /\ Ended({s \in Ids : line[s] \in {"up", "hung"}}, "dead")
    /\ module' = FALSE /\ backup' = NoBackup
    /\ UNCHANGED <<client, control, gone>>

Faults == Reboot \/ \E s \in Ids : Hang(s) \/ Revive(s) \/ Die(s)

-----------------------------------------------------------------------------
\* The calls: run_no_validate, reset and close.

Begin(name, next) ==
    /\ pc = "idle" /\ calls < MaxCalls /\ calls' = calls + 1
    /\ op' = [NoOp EXCEPT !.name = name, !.n = calls + 1,
              !.back = name, !.todo = IF name = "close" THEN sessions ELSE {}]
    /\ pc' = next
    /\ UNCHANGED <<client, outcome, line, processes, files, faults>>

Run == Begin("run", "attempt")
Reset == Begin("reset", "create")
Close == Begin("close", "closing")

GoOn(next) == pc' = next /\ UNCHANGED <<op, outcome, calls>>
GoBack(next, back) ==
    pc' = next /\ op' = [op EXCEPT !.back = back] /\ UNCHANGED <<outcome, calls>>

\* The end of the call; reset ignores exceptions.
Return(result, id) ==
    /\ pc' = "idle" /\ op' = NoOp /\ UNCHANGED calls
    /\ outcome' = [op |-> op.name, n |-> op.n, id |-> id,
                   result |-> IF op.name = "reset" THEN "returned" ELSE result]
Raise(exception) == Return(exception, 0)

\* _handle_run_exceptions: the next turn of the loop.
Again ==
    /\ pc' = "attempt" /\ op' = [op EXCEPT !.retry = @ + 1]
    /\ UNCHANGED <<outcome, calls>>

\* _verify_session and _handle_session_not_working
CanRetry == op.retry < MaxRetries
NotInitialized ==
    /\ pc = "attempt" /\ session = 0
    /\ IF CanRetry THEN GoBack("create", "run")
       ELSE Raise("FailedToCreateSession")
    /\ UNCHANGED <<client, line, processes, files, faults>>

\* LocalShellSubprocess.run: the command is typed under a new run id into the shell
\* of the session that was prepared last, if any.
Type ==
    /\ pc = "attempt" /\ session # 0
    /\ runs' = Append(runs, op.n)
    /\ typed' = IF shell # 0 /\ line[shell] \in {"up", "hung"}
                THEN [typed EXCEPT ![shell] = Append(@, RunId + 1)] ELSE typed
    /\ IF shell = 0 THEN Raise("AttributeError") ELSE GoOn("trigger")
    /\ UNCHANGED <<session, sessions, shell, old, garbled, line, running, started, finished,
                   files, faults>>

\* exec_single_with_trigger: the trigger comes within a second.
Triggered ==
    /\ pc = "trigger" /\ line[shell] = "up" /\ RunId \in started
    /\ GoOn("output")
    /\ UNCHANGED <<client, line, processes, files, faults>>

\* PythonRunNotStarted; _try_to_get_hung_run_result
GiveUp ==
    /\ op' = [op EXCEPT !.back = "hung", !.original = session]
    /\ session' = 0
    /\ pc' = "create"
    /\ UNCHANGED <<outcome, calls, sessions, shell, old, garbled, runs, line, processes, files>>

NotTriggered ==
    /\ pc = "trigger" /\ line[shell] # "up"
    /\ GiveUp /\ UNCHANGED faults

\* The host is slow for a second.
TriggeredLate ==
    /\ Fault
    /\ pc = "trigger" /\ line[shell] = "up" /\ RunId \notin started
    /\ GiveUp

\* _get_result_from_output: the result, or the error of the remote _backup
OutputRead ==
    /\ pc = "output" /\ line[shell] = "up" /\ RunId \in finished
    /\ IF shell \in gone THEN Raise("OSError") ELSE Return("returned", RunId)
    /\ UNCHANGED <<client, line, processes, files, faults>>

\* UnexpectedTerminalOutput
OutputGarbled ==
    /\ Fault
    /\ pc = "output" /\ line[shell] = "up" /\ RunId \in finished
    /\ GoBack("create", "backup")
    /\ UNCHANGED <<client, line, processes, files>>

\* TimeoutError: stop_run
NoTimeout == FALSE  \* mutant: the prompt is awaited without a timeout
OutputTimeout ==
    /\ pc = "output" /\ line[shell] = "hung"
    /\ typed' = IF line[session] = "dead" THEN typed
                ELSE [typed EXCEPT ![session] = Append(@, Stop)]
    /\ Raise(IF line[session] = "dead" THEN "EOF" ELSE "TimeoutError")
    /\ UNCHANGED <<client, line, running, started, finished, files, faults>>

OutputEof ==
    /\ pc = "output" /\ line[shell] = "dead"
    /\ Raise("EOF")
    /\ UNCHANGED <<client, line, processes, files, faults>>

-----------------------------------------------------------------------------
\* _try_to_create_new_session and what follows it.

\* _session_close: whatever its argument, it closes _session.
ForgetSession ==  \* mutant: the session is not closed itself
    /\ sessions' = sessions \ {session} /\ session' = 0
    /\ UNCHANGED <<line, processes>>
SessionClose ==
    /\ Ended({session}, "closed")
    /\ sessions' = sessions \ {session}
    /\ session' = 0

\* What the call does next if a session was created or the creation timed out.
Created ==
    CASE op.back = "run" -> Again
      [] op.back = "hung" -> GoOn("lookup")
      [] op.back = "backup" -> GoOn("restore")
      [] op.back = "reset" -> Raise("returned")

\* An exception other than a timeout leaves _try_to_create_new_session.
NotCreated(exception) ==
    IF op.back = "hung"
    THEN /\ pc' = "finally" /\ op' = [op EXCEPT !.pending = exception]
         /\ UNCHANGED <<outcome, calls>>
    ELSE Raise(exception)

\* _create_new_session stops what runs in the shell and closes the session it has.
Idle(s) == running[s] = 0 /\ typed[s] = <<>>
CloseOld ==
    /\ pc = "create" /\ session # 0 /\ line[session] # "dead"
    /\ SessionClose
    /\ \/ line[shell] = "up" /\ Idle(shell) /\ GoOn("create")
       \/ line[shell] = "hung" /\ Created
    /\ UNCHANGED <<shell, old, garbled, runs, files, faults>>

\* stop_run gets no prompt within three seconds, an output that is passed over or the
\* exception of the run that it interrupted.
CloseBusy ==
    /\ pc = "create" /\ session # 0 /\ line[session] # "dead"
    /\ line[shell] = "up" /\ ~Idle(shell)
    /\ Cut({session}, "closed") /\ sessions' = sessions \ {session} /\ session' = 0
    /\ Created \/ GoOn("create") \/ NotCreated("InterruptedWithSigint")
    /\ Terminated(shell) \/ UNCHANGED <<finished, backup>>
    /\ UNCHANGED <<shell, old, garbled, runs, started, module, gone, faults>>

CloseDead ==
    /\ pc = "create" /\ session # 0 /\ line[session] = "dead"
    /\ NotCreated("EOF")
    /\ UNCHANGED <<client, line, processes, files, faults>>

\* _create_session and _prepare_session
NewSession == CHOOSE s \in Ids : line[s] = "none" /\ \A t \in 1 .. s - 1 : line[t] # "none"
NewWorkdir == FALSE  \* mutant: no work directory is taken for an earlier one
OldWorkdir == module
Make(state) ==
    /\ pc = "create" /\ session = 0
    /\ session' = NewSession /\ sessions' = sessions \cup {NewSession}
    /\ line' = [line EXCEPT ![NewSession] = state]
    /\ UNCHANGED <<runs, processes, backup, gone>>
Create ==
    /\ Make("up") /\ Created
    /\ shell' = NewSession /\ module' = TRUE
    /\ old' = OldWorkdir /\ garbled' = FALSE
    /\ UNCHANGED faults

\* _import_in_shell: any unexpected output of the import stands for a missing module,
\* which is transferred and imported again.
CreateGarbled ==
    /\ Fault
    /\ Make("up") /\ Created
    /\ shell' = NewSession /\ module' = TRUE
    /\ old' = FALSE /\ garbled' = module

\* What a preparation that fails has done.
PreparedPartly ==
    /\ UNCHANGED <<shell, garbled>>
    /\ UNCHANGED <<old, module>> \/ (old' = FALSE /\ module' \in {module, TRUE})

\* A session that was created but not prepared is closed again.
CreateFails ==
    /\ Fault
    /\ pc = "create" /\ session = 0
    /\ PreparedPartly
    /\ Created \/ NotCreated("InteractiveSessionError")
    /\ UNCHANGED <<session, sessions, runs, line, processes, backup, gone>>

\* A session that dies in its preparation cannot be closed and stays.
CreateDies ==
    /\ Fault
    /\ Make("dead") /\ NotCreated("EOF")
    /\ PreparedPartly

-----------------------------------------------------------------------------
\* get_backed_up_result, which asks the Python of _runner._shell.

Reachable == shell # 0 /\ line[shell] = "up" /\ Idle(shell)

\* _try_to_get_hung_run_result: the original session is to be closed at the end.
Finally(pending, id) ==
    /\ pc' = "finally" /\ op' = [op EXCEPT !.pending = pending, !.found = id]
    /\ UNCHANGED <<outcome, calls>>
End(result, id) == IF pc = "lookup" THEN Finally(result, id) ELSE Return(result, id)

\* get_result
AnyRun == backup # NoBackup  \* mutant: the run id is not compared
HasOwnRun == shell \notin gone /\ backup.id = RunId

ReadBackup ==
    /\ pc \in {"lookup", "restore"} /\ Reachable
    /\ pc = "lookup" => old
    /\ CASE ~HasOwnRun ->  \* MismatchInRunId or BackupNotFound
                End(IF pc = "lookup" THEN "RunNotStarted" ELSE "MismatchInRunId", 0)
         [] HasOwnRun /\ backup.done -> End("returned", backup.id)
         [] OTHER ->       \* ResultNotStoredYet until the time is up
                End("RestoreTimedOut", 0)
    /\ UNCHANGED <<client, line, processes, files, faults>>

\* _try_to_get_backup_result without the work directory of an earlier session
NoOldWorkdir ==
    /\ pc = "lookup" /\ ~old
    /\ Finally("RunNotStarted", 0)
    /\ UNCHANGED <<client, line, processes, files, faults>>

\* PythonRunNotStarted once more, which nothing catches
NotReachable ==
    /\ pc \in {"lookup", "restore"} /\ ~Reachable
    /\ pc = "lookup" => old
    /\ End("PythonRunNotStarted", 0)
    /\ UNCHANGED <<client, line, processes, files, faults>>

\* _session_close(original_session)
CloseOriginal ==
    /\ pc = "finally"
    /\ CASE session = 0 -> Raise("AttributeError")
                           /\ UNCHANGED <<session, sessions, line, processes>>
         [] session # 0 /\ line[session] = "dead" ->
                Raise("EOF") /\ UNCHANGED <<session, sessions, line, processes>>
         [] OTHER ->
                /\ SessionClose
                /\ IF op.pending = "RunNotStarted" THEN Again
                   ELSE Return(op.pending, op.found)
    /\ UNCHANGED <<shell, old, garbled, runs, files, faults>>

-----------------------------------------------------------------------------
\* close: each session is finalized as far as it can be, and closed.

\* remove_working_directory: the sessions that are left are in a directory
\* that is not there any more, also when it is made again.  It is left where the stop
\* or the pop raises: _close passes over the exception.
Removed ==
    /\ module' = FALSE /\ backup' = NoBackup
    /\ gone' = {s \in Ids : line[s] # "none"}
CloseNext ==
    /\ pc = "closing" /\ op.todo # {}
    /\ \E s \in op.todo :
        IF line[s] = "dead"
        THEN /\ session' = s /\ Raise("EOF")
             /\ UNCHANGED <<sessions, line, processes, files>>
        ELSE /\ Ended({s}, "closed")
             /\ sessions' = sessions \ {s} /\ session' = 0
             /\ \/ line[s] = "up" /\ shell # 0 /\ line[shell] = "up" /\ Removed
                \/ UNCHANGED files
             /\ op' = [op EXCEPT !.todo = @ \ {s}]
             /\ UNCHANGED <<pc, outcome, calls>>
    /\ UNCHANGED <<shell, old, garbled, runs, faults>>

CloseEnds ==
    /\ pc = "closing" /\ op.todo = {}
    /\ Return("returned", 0)
    /\ UNCHANGED <<client, line, processes, files, faults>>

-----------------------------------------------------------------------------
Init ==
    /\ session = 0 /\ sessions = {} /\ shell = 0 /\ old = FALSE /\ garbled = FALSE
    /\ runs = <<>>
    /\ op = NoOp /\ pc = "idle" /\ calls = 0
    /\ outcome = [op |-> "none", n |-> 0, id |-> 0, result |-> "none"]
    /\ line = [s \in Ids |-> "none"]
    /\ typed = [s \in Ids |-> <<>>] /\ running = [s \in Ids |-> 0]
    /\ started = {} /\ finished = {}
    /\ module = FALSE /\ backup = NoBackup /\ gone = {} /\ faults = 0

User == Run \/ Reset \/ Close
Client == \/ NotInitialized \/ Type \/ Triggered \/ NotTriggered
          \/ OutputRead \/ OutputTimeout \/ OutputEof
          \/ CloseOld \/ CloseBusy \/ CloseDead \/ Create
          \/ ReadBackup \/ NoOldWorkdir \/ NotReachable \/ CloseOriginal
          \/ CloseNext \/ CloseEnds
Failures == \/ TriggeredLate \/ OutputGarbled
            \/ CreateGarbled \/ CreateFails \/ CreateDies
Next == User \/ Client \/ Failures \/ Remote \/ Faults

Spec == Init /\ [][Next]_vars

\* The client goes on, with an answer or a timeout, and the remote runs end.
FairSpec == Spec /\ WF_vars(Client) /\ WF_vars(Remote)

-----------------------------------------------------------------------------
Results == {"none", "returned", "FailedToCreateSession", "TimeoutError", "EOF",
            "InteractiveSessionError", "RunNotStarted", "MismatchInRunId",
            "RestoreTimedOut", "PythonRunNotStarted", "AttributeError", "OSError",
            "InterruptedWithSigint"}
Names == {"none", "run", "reset", "close"}
Steps == {"idle", "attempt", "trigger", "output", "create", "lookup", "restore",
          "finally", "closing"}

\* The types of the state of SelfRepairingSession, of its sessions and of the
\* backup file; the retries stay within max_number_of_retries.
TypeOK ==
    /\ session \in {0} \cup Ids /\ sessions \subseteq Ids
    /\ shell \in {0} \cup Ids /\ old \in BOOLEAN /\ garbled \in BOOLEAN
    /\ runs \in Seq(1 .. MaxCalls) /\ RunId <= MaxSessions
    /\ pc \in Steps /\ calls \in 0 .. MaxCalls /\ outcome.result \in Results
    /\ op \in [name : Names, n : 0 .. MaxCalls, retry : 0 .. MaxRetries + 1,
               back : Names \cup {"hung", "backup"}, original : {0} \cup Ids,
               pending : Results, found : 0 .. RunId, todo : SUBSET Ids]
    /\ line \in [Ids -> {"none", "up", "hung", "dead", "closed"}]
    /\ typed \in [Ids -> Seq(0 .. RunId)]
    /\ running \in [Ids -> 0 .. RunId]
    /\ started \subseteq 1 .. RunId /\ finished \subseteq started
    /\ module \in BOOLEAN /\ gone \subseteq Ids
    /\ backup \in [id : 0 .. RunId, done : BOOLEAN]
    /\ faults \in 0 .. MaxFaults

\* The result that a run returns is that of a run of its own command, also when
\* it comes from the backup, which a later or an earlier run may have overwritten
\* (ExecutionResult.get_result).
OwnResult ==
    outcome.op = "run" /\ outcome.result = "returned"
        => outcome.id \in finished /\ runs[outcome.id] = outcome.n

\* Sessions that were given up are not forgotten: every open session is known,
\* and a close that returned leaves none open (_sessions, close).
Open == {s \in Ids : line[s] \in {"up", "hung"}}
ClosedByClose ==
    /\ Open \subseteq sessions
    /\ outcome.op = "close" /\ outcome.result = "returned" /\ pc = "idle" => Open = {}

\* A run that has its backup is taken for one that was not started only where the new
\* session to look in could not be made, or where the output of its import was garbled,
\* so that its work directory was taken for a new one (_try_to_get_backup_result).
StoredNotRepeated ==
    [][(/\ pc # "finally" /\ pc' = "finally" /\ session # 0
        /\ op'.pending = "RunNotStarted")
       => backup.id # RunId \/ garbled]_vars

\* "Run not started, running again": a command is started once at most.
Executions(n) == {i \in started : runs[i] = n}
AtMostOnce == \A n \in 1 .. calls : Cardinality(Executions(n)) <= 1

\* Every run and every close ends: what is read from a session that hangs is
\* read with a timeout, and the retries are bounded.
CallsEnd == pc # "idle" ~> pc = "idle"
=============================================================================
