------------------------ MODULE SelfRepairing_proofs ------------------------
(****************************************************************************)
(* Proofs about SelfRepairing, for every number of calls, of retries and of *)
(* faults.                                                                  *)
(****************************************************************************)
EXTENDS SelfRepairing, TLAPS

\* What a call may use of the sessions and of the runs.
Turns == MaxRetries + 2
After == {"lookup", "restore", "finally"}
SessionLimit ==
    IF pc = "idle" THEN calls * Turns
    ELSE (calls - 1) * Turns + op.retry + (IF pc \in After THEN 1 ELSE 0)
\* The command of the call has been typed in its present turn.
Typed ==
    \/ pc \in {"trigger", "output"} \cup After
    \/ pc = "create" /\ op.back \in {"hung", "backup"}
RunLimit ==
    IF pc = "idle" THEN calls * Turns
    ELSE (calls - 1) * Turns + op.retry + (IF Typed THEN 1 ELSE 0)

\* The sessions made so far are the first ones; each turn of a call makes one at most
\* and types its command once at most.
CountInv ==
    /\ \E used \in 0 .. MaxSessions : /\ \A s \in Ids : line[s] # "none" <=> s <= used
                         /\ used <= SessionLimit
    /\ RunId <= RunLimit
    /\ op.retry = MaxRetries + 1 => pc = "attempt" /\ session = 0
    /\ pc = "create" /\ op.back = "run" => op.retry < MaxRetries

\* What the step tells of the call.
CallInv ==
    /\ op.name \in {"none", "run", "reset", "close"}
    /\ pc = "idle" => op = NoOp
    /\ pc # "idle" => op.name # "none" /\ op.n = calls /\ calls > 0
    /\ pc = "closing" <=> op.name = "close"
    /\ op.name = "reset" => pc = "create"
    /\ pc = "create" => /\ op.back \in {"run", "hung", "backup", "reset"}
                        /\ op.back = "reset" <=> op.name = "reset"
    /\ pc \in {"trigger", "output"} => session # 0
    /\ pc = "create" /\ op.back = "hung" => session = 0
    /\ op.retry > 0 => pc # "closing"

\* The result that is found is that of a run of the call.
RunInv ==
    /\ Typed => RunId > 0 /\ runs[RunId] = op.n
    /\ pc = "finally" /\ op.pending = "returned" =>
          op.found \in finished /\ runs[op.found] = op.n
    /\ backup.done => backup.id \in finished
    /\ \A s \in Ids : running[s] # 0 => running[s] \in started
    /\ OwnResult

\* The open sessions are known, and the one in use, if it is not dead, has the shell.
OpenInv ==
    /\ ClosedByClose
    /\ pc = "closing" => Open \subseteq op.todo
    /\ session # 0 => line[session] \in {"up", "hung", "dead"}
    /\ session # 0 /\ line[session] # "dead" => shell = session
    /\ \A s \in sessions \cup op.todo : line[s] # "none"
    /\ \A s \in Ids \ Open : typed[s] = <<>> /\ running[s] = 0

\* Without the module there is no backup, and none can be written but in a session that
\* is made after it.
BackupInv ==
    /\ \A s \in gone : line[s] # "none"
    /\ ~module => backup = NoBackup /\ Open \subseteq gone
    /\ pc = "lookup" /\ session # 0 =>
          /\ session = shell /\ shell \notin gone
          /\ ~old /\ ~garbled =>
                /\ backup = NoBackup /\ Open \subseteq gone \cup {session}
                /\ typed[session] = <<>> /\ running[session] = 0

Inv == TypeOK /\ CountInv /\ CallInv /\ RunInv /\ OpenInv /\ BackupInv

-----------------------------------------------------------------------------
(* What a step does with the call.                                          *)

Calls == [name : Names, n : 0 .. MaxCalls, retry : 0 .. MaxRetries + 1,
          back : Names \cup {"hung", "backup"}, original : {0} \cup Ids,
          pending : Results, found : 0 .. RunId, todo : SUBSET Ids]

Same == UNCHANGED <<client, line, processes, files>>

\* The steps of the call: it begins or ends,
Starts(name, to) ==
    /\ pc = "idle" /\ calls < MaxCalls /\ calls' = calls + 1 /\ pc' = to
    /\ op' = [NoOp EXCEPT !.name = name, !.n = calls + 1, !.back = name,
                          !.todo = IF name = "close" THEN sessions ELSE {}]
    /\ UNCHANGED outcome /\ Same
Ends ==
    /\ pc # "idle"
    /\ \E result \in Results, id \in 0 .. RunId :
          /\ Return(result, id)
          /\ result = "returned" =>
                \/ pc \in {"output", "restore"} /\ id = RunId /\ RunId \in finished
                \/ pc = "finally" /\ op.pending = "returned" /\ id = op.found
                \/ pc = "create" /\ op.name = "reset"
                \/ pc = "closing" /\ op.todo = {}
\* goes on,
Moves(from, to) == pc = from /\ pc' = to /\ UNCHANGED <<op, outcome, calls>>
GoesBack(from, back) ==
    /\ pc = from /\ pc' = "create" /\ UNCHANGED <<outcome, calls>>
    /\ op' = [op EXCEPT !.back = back]
\* looks for the result of a run that seems not to have started,
Looks ==
    /\ pc = "trigger" /\ pc' = "create" /\ session' = 0 /\ UNCHANGED <<outcome, calls>>
    /\ op' = [op EXCEPT !.back = "hung", !.original = session]
Found ==
    /\ pc = "lookup" \/ (pc = "create" /\ op.back = "hung")
    /\ pc' = "finally" /\ UNCHANGED <<outcome, calls>>
    /\ \E result \in Results, id \in 0 .. RunId :
          /\ op' = [op EXCEPT !.pending = result, !.found = id]
          /\ result = "returned" => id = RunId /\ RunId \in finished
\* tries again
Repeats ==
    /\ Again
    /\ (pc = "create" /\ op.back = "run" /\ CanRetry) \/ (pc = "finally" /\ session' = 0)
\* or closes the next session.
Closes ==
    /\ pc = "closing" /\ pc' = "closing" /\ UNCHANGED <<outcome, calls>>
    /\ \E s \in op.todo : op' = [op EXCEPT !.todo = @ \ {s}]

\* The creation of a session and what follows it.
LEMMA CreationSteps ==
  ASSUME Inv, pc = "create", \/ Created
                             \/ \E e \in Results \ {"returned"} : NotCreated(e)
  PROVE  \/ Ends /\ (op.back = "reset" \/ ~Created)
         \/ Moves("create", "lookup") /\ op.back = "hung"
         \/ Moves("create", "restore") /\ op.back = "backup"
         \/ Found /\ op.back = "hung"
         \/ Repeats /\ op.back = "run"
  <1>a. /\ op.back \in {"run", "hung", "backup", "reset"} /\ "returned" \in Results
        /\ op.back = "run" => CanRetry
        /\ 0 \in 0 .. RunId
        /\ op.back = "reset" <=> op.name = "reset"
    BY DEF Inv, CallInv, CountInv, CanRetry, Results, TypeOK, RunId
  <1>1. CASE Created
    <2>1. CASE op.back = "run"
      BY <1>1, <1>a, <2>1 DEF Created, Repeats
    <2>2. CASE op.back = "hung" \/ op.back = "backup"
      BY <1>1, <2>2 DEF Created, GoOn, Moves
    <2>3. CASE op.back = "reset"
      BY <1>1, <1>a, <2>3 DEF Created, Raise, Ends
    <2>4. QED
      BY <1>a, <2>1, <2>2, <2>3
  <1>2. CASE ~Created
    <2>1. PICK e \in Results \ {"returned"} : NotCreated(e)
      BY <1>2
    <2>2. CASE op.back = "hung"
      <3>1. op' = [op EXCEPT !.pending = e, !.found = op.found] /\ op.found \in 0 .. RunId
        BY <2>1, <2>2 DEF NotCreated, Inv, TypeOK
      <3>2. QED
        BY <2>1, <2>2, <3>1 DEF NotCreated, Found
    <2>3. CASE op.back # "hung"
      BY <1>2, <1>a, <2>1, <2>3 DEF NotCreated, Raise, Ends
    <2>4. QED
      BY <2>2, <2>3
  <1>3. QED
    BY <1>1, <1>2

LEMMA ControlSteps ==
  ASSUME Inv, [Next]_vars
  PROVE  \/ UNCHANGED control
         \/ Starts("run", "attempt") \/ Starts("reset", "create") \/ Starts("close", "closing")
         \/ Ends
         \/ (Moves("attempt", "trigger") /\ session # 0 /\ Type)
         \/ Moves("trigger", "output")
         \/ Moves("create", "create")
         \/ Moves("create", "lookup") /\ op.back = "hung"
         \/ Moves("create", "restore") /\ op.back = "backup"
         \/ (GoesBack("attempt", "run") /\ CanRetry /\ session' = 0)
         \/ GoesBack("output", "backup")
         \/ Looks \/ Found \/ Repeats \/ (Closes /\ CloseNext)
  <1>a. /\ 0 \in 0 .. RunId /\ RunId \in 0 .. RunId /\ op \in Calls
        /\ backup.id \in 0 .. RunId
    BY DEF Inv, TypeOK, RunId, Calls
  <1>b. {"returned", "FailedToCreateSession", "TimeoutError", "EOF",
         "InteractiveSessionError", "RunNotStarted", "MismatchInRunId",
         "RestoreTimedOut", "PythonRunNotStarted", "AttributeError", "OSError",
         "InterruptedWithSigint"} \subseteq Results
    BY DEF Results
  <1>1. CASE Run \/ Reset \/ Close
    BY <1>1 DEF Run, Reset, Close, Begin, Starts, Same
  <1>2. CASE Remote \/ Faults \/ UNCHANGED vars
    BY <1>2 DEF Remote, Start, Finish, Interrupted, Faults, Hang, Revive, Die, Reboot, vars
  <1>3. CASE NotInitialized
    BY <1>3, <1>a, <1>b DEF NotInitialized, GoBack, GoesBack, Raise, Ends, client
  <1>4. CASE Type \/ Triggered
    BY <1>4, <1>a, <1>b DEF Type, Triggered, GoOn, Moves, Raise, Ends
  <1>5. CASE NotTriggered \/ TriggeredLate
    BY <1>5 DEF NotTriggered, TriggeredLate, GiveUp, Looks
  <1>6. CASE OutputRead \/ OutputTimeout \/ OutputEof
    BY <1>6, <1>a, <1>b DEF OutputRead, OutputTimeout, OutputEof, Raise, Ends
  <1>7. CASE OutputGarbled
    BY <1>7 DEF OutputGarbled, GoBack, GoesBack
  <1>8. CASE CloseOld \/ CloseBusy
    <2>1. pc = "create" /\ (GoOn("create") \/ Created \/ NotCreated("InterruptedWithSigint"))
      BY <1>8 DEF CloseOld, CloseBusy
    <2>2. QED
      BY <1>b, <2>1, CreationSteps DEF GoOn, Moves
  <1>9. CASE CloseDead \/ Create \/ CreateGarbled \/ CreateFails \/ CreateDies
    <2>1. pc = "create" /\ (Created \/ NotCreated("EOF") \/ NotCreated("InteractiveSessionError"))
      BY <1>9 DEF CloseDead, Create, CreateGarbled, CreateFails, CreateDies, Make
    <2>2. QED
      BY <1>b, <2>1, CreationSteps
  <1>10. CASE ReadBackup \/ NotReachable
    <2>1. PICK result \in Results, id \in 0 .. RunId :
             /\ pc \in {"lookup", "restore"} /\ End(result, id)
             /\ result = "returned" => id = RunId /\ RunId \in finished
      <3>1. backup.done => backup.id \in finished
        BY DEF Inv, RunInv
      <3>2. QED
        BY <1>10, <1>a, <1>b, <3>1 DEF ReadBackup, NotReachable, HasOwnRun
    <2>2. QED
      BY <2>1 DEF End, Finally, Found, Ends
  <1>11. CASE NoOldWorkdir
    BY <1>11, <1>a, <1>b DEF NoOldWorkdir, Finally, Found
  <1>12. CASE CloseOriginal
    <2>1. op.pending \in Results /\ op.found \in 0 .. RunId
      BY <1>a DEF Calls
    <2>2. QED
      BY <1>12, <1>a, <1>b, <2>1 DEF CloseOriginal, Raise, Ends, SessionClose, Repeats
  <1>13. CASE CloseNext \/ CloseEnds
    BY <1>13, <1>a, <1>b DEF CloseNext, CloseEnds, Raise, Ends, Closes
  <1>14. QED
    BY <1>1, <1>2, <1>3, <1>4, <1>5, <1>6, <1>7, <1>8, <1>9, <1>10, <1>11, <1>12, <1>13
       DEF Next, User, Client, Failures

-----------------------------------------------------------------------------
(* What a step does with the sessions and with their runs.                  *)

\* A session that is open or has died is closed,
Shuts ==
    /\ Cut({session}, "closed") /\ sessions' = sessions \ {session} /\ session' = 0
    /\ session # 0 /\ pc \in {"create", "finally"}
    /\ UNCHANGED <<shell, old, garbled, runs, module, gone, faults>>
\* a new one is open and prepared, or dead,
Opens == Create \/ CreateGarbled
Makes == Opens \/ CreateDies
MadeAs(state) ==
    /\ Make(state)
    /\ \/ state = "up" /\ Created
       \/ state = "dead" /\ NotCreated("EOF")
\* or none is made.
Fails ==
    /\ pc = "create" /\ session = 0 /\ PreparedPartly
    /\ Created \/ NotCreated("InteractiveSessionError")
    /\ UNCHANGED <<session, sessions, runs, line, processes, backup, gone>>

LEMMA MakesIs == Makes => MadeAs("up") \/ MadeAs("dead")
  BY DEF Makes, Opens, Create, CreateGarbled, CreateDies, MadeAs

LEMMA SessionSteps ==
  ASSUME Inv, [Next]_vars
  PROVE  \/ UNCHANGED <<session, sessions, shell, old, garbled, line, module, gone>>
         \/ Looks /\ UNCHANGED <<sessions, shell, old, garbled, line, module, gone>>
         \/ Faults \/ Shuts \/ Makes \/ Fails \/ CloseNext
  <1>1. CASE Run \/ Reset \/ Close \/ NotInitialized \/ Triggered \/ OutputRead \/ OutputEof
             \/ OutputGarbled \/ CloseDead \/ ReadBackup \/ NotReachable
             \/ NoOldWorkdir \/ CloseEnds \/ UNCHANGED vars
    BY <1>1 DEF Run, Reset, Close, Begin, NotInitialized, Triggered, OutputRead, OutputEof,
       OutputGarbled, CloseDead, ReadBackup, NotReachable, NoOldWorkdir, CloseEnds,
       vars, client, files
  <1>2. CASE Remote \/ Type \/ OutputTimeout
    BY <1>2 DEF Remote, Start, Finish, Interrupted, Type, OutputTimeout, client, files
  <1>3. CASE NotTriggered \/ TriggeredLate
    BY <1>3 DEF NotTriggered, TriggeredLate, GiveUp, Looks, files
  <1>4. CASE CloseOld \/ CloseBusy
    BY <1>4 DEF CloseOld, CloseBusy, SessionClose, Ended, Shuts, files
  <1>5. CASE CloseOriginal
    BY <1>5 DEF CloseOriginal, SessionClose, Ended, Shuts, files
  <1>6. CASE CreateFails
    BY <1>6 DEF CreateFails, Fails
  <1>7. QED
    BY <1>1, <1>2, <1>3, <1>4, <1>5, <1>6 DEF Next, User, Client, Failures, Makes, Opens

LEMMA RunSteps ==
  ASSUME Inv, [Next]_vars
  PROVE  /\ runs' = runs \/ Type
         /\ \/ UNCHANGED <<processes, backup>>
            \/ Type \/ OutputTimeout \/ \E s \in Ids : Start(s) \/ Finish(s) \/ Interrupted(s)
            \/ /\ \E ss \in SUBSET Ids : \E how \in {"dead", "closed"} : Ended(ss, how)
               /\ backup' \in {backup, NoBackup}
            \/ CloseBusy
         /\ faults' \in 0 .. MaxFaults
  <1>a. faults \in 0 .. MaxFaults /\ MaxFaults \in Nat
    BY ConstantsAssumption DEF ConstantsAssumption, Inv, TypeOK
  <1>b. Fault => faults' \in 0 .. MaxFaults
    BY <1>a DEF Fault
  <1>c. session # 0 => {session} \in SUBSET Ids
    BY DEF Inv, TypeOK
  <1>1. CASE Run \/ Reset \/ Close \/ NotInitialized \/ Triggered \/ OutputRead \/ OutputEof
             \/ OutputGarbled \/ CloseDead \/ ReadBackup \/ NotReachable
             \/ NoOldWorkdir \/ CloseEnds \/ UNCHANGED vars
    BY <1>1, <1>a, <1>b DEF Run, Reset, Close, Begin, NotInitialized, Triggered, OutputRead,
       OutputEof, OutputGarbled, CloseDead, ReadBackup, NotReachable, NoOldWorkdir,
       CloseEnds, vars, client, files
  <1>2. CASE Remote
    BY <1>2, <1>a DEF Remote, Start, Finish, Interrupted, client
  <1>3. CASE Type \/ OutputTimeout
    BY <1>3, <1>a DEF Type, OutputTimeout, client
  <1>4. CASE NotTriggered \/ TriggeredLate
    BY <1>4, <1>a, <1>b DEF NotTriggered, TriggeredLate, GiveUp, files
  <1>5. CASE CloseOld \/ CloseOriginal
    BY <1>5, <1>a, <1>c DEF CloseOld, CloseOriginal, SessionClose, files
  <1>d. CASE Opens \/ CreateFails \/ CreateDies
    BY <1>d, <1>a, <1>b DEF Opens, Create, CreateGarbled, CreateFails, CreateDies, Make
  <1>e. CASE CloseBusy
    BY <1>e, <1>a DEF CloseBusy
  <1>6. CASE CloseNext
    <2>1. PICK s \in op.todo :
             \/ UNCHANGED <<processes, files>>
             \/ Ended({s}, "closed") /\ (Removed \/ UNCHANGED files)
      BY <1>6 DEF CloseNext
    <2>2. {s} \in SUBSET Ids
      BY DEF Inv, TypeOK
    <2>3. QED
      BY <1>6, <1>a, <2>1, <2>2 DEF CloseNext, Removed, files
  <1>7. CASE Faults
    <2>1. CASE \E s \in Ids : Hang(s) \/ Revive(s)
      BY <1>a, <1>b, <2>1 DEF Hang, Revive, client, files
    <2>2. CASE \E s \in Ids : Die(s)
      BY <1>b, <2>2 DEF Die, client, files
    <2>3. CASE Reboot
      <3>1. {s \in Ids : line[s] \in {"up", "hung"}} \in SUBSET Ids
        OBVIOUS
      <3>2. QED
        BY <1>b, <2>3, <3>1 DEF Reboot, client
    <2>4. QED
      BY <1>7, <2>1, <2>2, <2>3 DEF Faults
  <1>8. QED
    BY <1>1, <1>2, <1>3, <1>4, <1>5, <1>d, <1>e, <1>6, <1>7
       DEF Next, User, Client, Failures, Opens

-----------------------------------------------------------------------------
(* The calls.                                                               *)

LEMMA SessionKept ==
  ASSUME Inv, [Next]_vars
  PROVE  /\ pc \in {"attempt", "trigger", "output"} => session' = session \/ Looks
         /\ pc = "create" /\ pc' = "create" => session' \in {session, 0}
  <1>1. CASE Faults
    BY <1>1 DEF Faults, Hang, Revive, Die, Reboot, client
  <1>2. CASE Shuts
    BY <1>2 DEF Shuts
  <1>3. CASE Makes \/ Fails
    <2>1. /\ pc = "create" /\ "EOF" \in Results /\ "InteractiveSessionError" \in Results
          /\ Created \/ NotCreated("EOF") \/ NotCreated("InteractiveSessionError")
      BY <1>3, MakesIs DEF MadeAs, Make, Fails, Results
    <2>2. pc' # "create"
      BY <2>1, CreationSteps DEF Ends, Return, Moves, Found, Repeats, Again
    <2>3. QED
      BY <2>1, <2>2
  <1>4. CASE CloseNext
    BY <1>4 DEF CloseNext
  <1>5. QED
    BY <1>1, <1>2, <1>3, <1>4, SessionSteps DEF Looks

LEMMA CallNext ==
  ASSUME Inv, [Next]_vars
  PROVE  CallInv'
  <1>a. CallInv /\ op \in Calls /\ calls \in Nat
    BY ConstantsAssumption DEF ConstantsAssumption, Inv, TypeOK, Calls
  <1>b. /\ pc \in {"attempt", "trigger", "output"} => session' = session \/ Looks
        /\ pc = "create" /\ pc' = "create" => session' \in {session, 0}
    BY SessionKept
  <1>1. CASE UNCHANGED control
    BY <1>1, <1>a, <1>b DEF control, CallInv, Looks
  <1>2. CASE Starts("run", "attempt") \/ Starts("reset", "create") \/ Starts("close", "closing")
    <2>1. PICK name \in {"run", "reset", "close"} :
            /\ pc' = (CASE name = "run" -> "attempt" [] name = "reset" -> "create"
                       [] name = "close" -> "closing")
            /\ Starts(name, pc')
      BY <1>2 DEF Starts
    <2>2. /\ op'.name = name /\ op'.n = calls + 1 /\ op'.back = name /\ op'.retry = 0
          /\ calls' = calls + 1 /\ calls' > 0
      BY <1>a, <2>1 DEF Starts, NoOp
    <2>3. QED
      BY <2>1, <2>2 DEF CallInv
  <1>3. CASE Ends
    BY <1>3, <1>a DEF Ends, Return, NoOp, CallInv
  <1>4. CASE \/ Moves("attempt", "trigger") /\ session # 0
             \/ Moves("trigger", "output") \/ Moves("create", "create")
             \/ Moves("create", "lookup") /\ op.back = "hung"
             \/ Moves("create", "restore") /\ op.back = "backup"
    BY <1>4, <1>a, <1>b DEF Moves, CallInv, Looks
  <1>5. CASE GoesBack("attempt", "run") \/ GoesBack("output", "backup") \/ Looks
    <2>1. PICK back \in {"run", "backup", "hung"} :
            /\ pc' = "create" /\ UNCHANGED calls /\ (back = "hung" => session' = 0)
            /\ pc \in {"attempt", "output", "trigger"}
            /\ op'.name = op.name /\ op'.n = op.n /\ op'.back = back
      BY <1>5, <1>a DEF GoesBack, Looks, Calls
    <2>2. QED
      BY <1>a, <2>1 DEF CallInv
  <1>6. CASE Found \/ Repeats
    <2>1. /\ pc' \in {"finally", "attempt"} /\ UNCHANGED calls
          /\ pc \in {"lookup", "create", "finally"} /\ (pc = "create" => op.back # "reset")
          /\ op'.name = op.name /\ op'.n = op.n
      BY <1>6, <1>a DEF Found, Repeats, Again, Calls
    <2>2. QED
      BY <1>a, <2>1 DEF CallInv
  <1>7. CASE Closes
    <2>1. pc = "closing" /\ pc' = "closing" /\ UNCHANGED calls
          /\ op'.name = op.name /\ op'.n = op.n /\ op'.retry = op.retry
      BY <1>7, <1>a DEF Closes, Calls
    <2>2. QED
      BY <1>a, <2>1 DEF CallInv
  <1>8. QED
    BY <1>1, <1>2, <1>3, <1>4, <1>5, <1>6, <1>7, ControlSteps

-----------------------------------------------------------------------------
(* How many sessions and runs there are.                                    *)

LEMMA Products == \A a, b, t \in Nat : a <= b => a * t <= b * t
  OBVIOUS

\* The limits are within the bounds, and which they are.
LEMMA Limits ==
  ASSUME Inv
  PROVE  /\ MaxRetries \in Nat /\ Turns \in Nat /\ Turns = MaxRetries + 2 /\ MaxSessions \in Nat
         /\ calls \in Nat /\ op.retry \in Nat /\ op.retry <= MaxRetries + 1
         /\ (calls - 1) * Turns \in Int /\ calls * Turns = (calls - 1) * Turns + Turns
         /\ calls * Turns <= MaxSessions
         /\ pc = "idle" => SessionLimit = calls * Turns /\ RunLimit = calls * Turns
         /\ pc # "idle" =>
               /\ SessionLimit = (calls - 1) * Turns + op.retry + (IF pc \in After THEN 1 ELSE 0)
               /\ RunLimit = (calls - 1) * Turns + op.retry + (IF Typed THEN 1 ELSE 0)
         /\ SessionLimit <= MaxSessions /\ RunLimit <= MaxSessions
  <1>1. /\ Turns \in Nat /\ Turns = MaxRetries + 2 /\ calls \in Nat /\ calls <= MaxCalls
        /\ MaxCalls \in Nat /\ MaxRetries \in Nat /\ op.retry \in Nat /\ op.retry <= MaxRetries + 1
    BY ConstantsAssumption DEF ConstantsAssumption, Inv, TypeOK, Turns
  <1>2. \A c, t \in Int : (c - 1) * t \in Int /\ c * t = (c - 1) * t + t
    OBVIOUS
  <1>3. (calls - 1) * Turns \in Int /\ calls * Turns = (calls - 1) * Turns + Turns
    BY <1>1, <1>2
  <1>4. MaxSessions = MaxCalls * Turns
    BY DEF MaxSessions, Turns
  <1>5. MaxSessions \in Nat
    BY <1>1, <1>4
  <1>6. calls * Turns <= MaxSessions
    BY <1>1, <1>4, Products
  <1>7. /\ pc = "idle" => SessionLimit = calls * Turns /\ RunLimit = calls * Turns
        /\ pc # "idle" =>
               /\ SessionLimit = (calls - 1) * Turns + op.retry + (IF pc \in After THEN 1 ELSE 0)
               /\ RunLimit = (calls - 1) * Turns + op.retry + (IF Typed THEN 1 ELSE 0)
    BY DEF SessionLimit, RunLimit
  <1> DEFINE base == (calls - 1) * Turns
             most == calls * Turns
  <1>8. /\ base \in Int /\ most = base + Turns /\ most <= MaxSessions
        /\ pc = "idle" => SessionLimit = most /\ RunLimit = most
        /\ pc # "idle" => /\ SessionLimit = base + op.retry + (IF pc \in After THEN 1 ELSE 0)
                          /\ RunLimit = base + op.retry + (IF Typed THEN 1 ELSE 0)
    BY <1>3, <1>6, <1>7
  <1>c. op.retry = MaxRetries + 1 => pc = "attempt" /\ pc \notin After /\ ~Typed
    BY DEF Inv, CountInv, After, Typed
  <1> HIDE DEF base, most
  <1>9. SessionLimit <= MaxSessions /\ RunLimit <= MaxSessions
    BY <1>1, <1>5, <1>8, <1>c
  <1>10. QED
    BY <1>1, <1>3, <1>5, <1>6, <1>7, <1>9

\* Each step raises the limits by what it makes.
LEMMA LimitsNext ==
  ASSUME Inv, [Next]_vars
  PROVE  /\ SessionLimit \in Int /\ SessionLimit' \in Int
         /\ SessionLimit' >= SessionLimit + (IF Makes THEN 1 ELSE 0)
         /\ RunLimit \in Int /\ RunLimit' \in Int
         /\ RunLimit' >= RunLimit + (IF Type THEN 1 ELSE 0)
  <1> DEFINE base == (calls - 1) * Turns
  <1>a. /\ base \in Int /\ calls \in Nat /\ MaxRetries \in Nat /\ Turns \in Nat
        /\ Turns = MaxRetries + 2 /\ op.retry \in Nat /\ op.retry <= MaxRetries + 1 /\ op \in Calls
        /\ pc = "idle" => SessionLimit = base + Turns /\ RunLimit = base + Turns
        /\ pc # "idle" => /\ SessionLimit = base + op.retry + (IF pc \in After THEN 1 ELSE 0)
                          /\ RunLimit = base + op.retry + (IF Typed THEN 1 ELSE 0)
    BY Limits DEF Inv, TypeOK, Calls
  <1>b. /\ UNCHANGED calls /\ pc' = "idle" =>
              SessionLimit' = base + Turns /\ RunLimit' = base + Turns
        /\ UNCHANGED calls /\ pc' # "idle" =>
              /\ SessionLimit' = base + op'.retry + (IF pc' \in After THEN 1 ELSE 0)
              /\ RunLimit' = base + op'.retry + (IF Typed' THEN 1 ELSE 0)
    <2>1. calls * Turns = base + Turns
      BY Limits
    <2>2. QED
      BY <2>1 DEF SessionLimit, RunLimit, Turns
  <1>c. Type => /\ pc = "attempt" /\ pc' \in {"trigger", "idle"} /\ UNCHANGED calls
                /\ pc' = "trigger" => op' = op
    BY DEF Type, GoOn, Raise, Return
  <1>e. op.retry = MaxRetries + 1 => pc = "attempt" /\ pc \notin After /\ ~Typed
    BY DEF Inv, CountInv, After, Typed
  <1>d. Makes => pc = "create" /\ pc \notin After /\ 
           (Ends \/ Repeats \/ Found \/ Moves("create", "lookup")
            \/ Moves("create", "restore"))
    <2>1. "EOF" \in Results \ {"returned"}
      BY DEF Results
    <2>2. QED
      BY <2>1, MakesIs, CreationSteps DEF MadeAs, Make, After
  <1>1. CASE UNCHANGED control
    <2>1. ~Type /\ ~Makes
      BY <1>1, <1>a, <1>c, <1>d
         DEF control, Ends, Return, Repeats, Again, Found, Moves
    <2>2. UNCHANGED <<pc, op, calls>>
      BY <1>1 DEF control
    <2>3. SessionLimit' = SessionLimit /\ RunLimit' = RunLimit
      BY <2>2 DEF SessionLimit, RunLimit, Typed
    <2> HIDE DEF base
    <2>4. QED
      BY <1>a, <2>1, <2>3
  <1>2. CASE Starts("run", "attempt") \/ Starts("reset", "create") \/ Starts("close", "closing")
    <2>1. /\ pc = "idle" /\ calls' = calls + 1 /\ pc' \in {"attempt", "create", "closing"}
          /\ op'.retry = 0 /\ ~Typed'
      BY <1>2 DEF Starts, NoOp, Typed, After
    <2>2. SessionLimit = calls * Turns /\ RunLimit = calls * Turns /\ calls * Turns \in Int
      BY <2>1, Limits
    <2>3. calls' - 1 = calls
      BY <1>a, <2>1
    <2>4. SessionLimit' = calls * Turns + 0 + 0 /\ RunLimit' = calls * Turns + 0 + 0
      BY <2>1, <2>3 DEF SessionLimit, RunLimit, After, Turns
    <2>5. ~Type /\ ~Makes
      BY <1>c, <1>d, <2>1
    <2> DEFINE most == calls * Turns
    <2> HIDE DEF base, most
    <2>6. QED
      BY <2>2, <2>4, <2>5 DEF most
  <1> HIDE DEF base
  <1>3. CASE Ends
    <2>1. pc # "idle" /\ pc' = "idle" /\ UNCHANGED calls
      BY <1>3 DEF Ends, Return
    <2>2. SessionLimit' = base + Turns /\ RunLimit' = base + Turns
      BY <1>b, <2>1
    <2>3. Type => ~Typed
      BY <1>c DEF Typed, After
    <2>4. SessionLimit' >= SessionLimit + (IF Makes THEN 1 ELSE 0)
      BY <1>a, <1>d, <1>e, <2>1, <2>2
    <2>5. RunLimit' >= RunLimit + (IF Type THEN 1 ELSE 0)
      BY <1>a, <1>e, <2>1, <2>2, <2>3
    <2>6. QED
      BY <1>a, <2>2, <2>4, <2>5
  <1>4. CASE \/ Moves("attempt", "trigger") \/ Moves("trigger", "output")
             \/ Moves("create", "create")
             \/ (Moves("create", "lookup") /\ op.back = "hung")
             \/ (Moves("create", "restore") /\ op.back = "backup")
    <2>1. /\ pc # "idle" /\ pc' # "idle" /\ UNCHANGED <<op, calls>>
          /\ pc' \in After => pc = "create" /\ Typed
          /\ pc \notin After /\ (Typed => Typed')
          /\ Type => ~Typed /\ Typed'
          /\ Makes => pc' \in After
      BY <1>4, <1>c, <1>d DEF Moves, After, Typed, Ends, Return, Repeats, Again, Found
    <2>2. op'.retry = op.retry
      BY <2>1
    <2>3. QED
      BY <1>a, <1>b, <1>c, <2>1, <2>2 DEF After
  <1>5. CASE GoesBack("attempt", "run") \/ GoesBack("output", "backup") \/ Looks
    <2>1. /\ pc # "idle" /\ pc' = "create" /\ pc # "create" /\ UNCHANGED calls
          /\ op'.retry = op.retry /\ pc \notin After /\ pc' \notin After
          /\ Typed => Typed'
      BY <1>5, <1>a DEF GoesBack, Looks, Calls, After, Typed
    <2>2. QED
      BY <1>a, <1>b, <1>c, <1>d, <2>1
  <1>6. CASE Found
    <2>1. /\ pc # "idle" /\ pc' = "finally" /\ UNCHANGED calls /\ op'.retry = op.retry
          /\ Typed' /\ (pc \in After => pc = "lookup")
      BY <1>6, <1>a DEF Found, Calls, After, Typed
    <2>2. pc' \in After /\ "create" \notin After
      BY <2>1 DEF After
    <2>3. QED
      BY <1>a, <1>b, <1>c, <1>d, <2>1, <2>2
  <1>7. CASE Repeats
    <2>1. /\ pc # "idle" /\ pc' = "attempt" /\ UNCHANGED calls /\ op'.retry = op.retry + 1
          /\ pc \in {"create", "finally"} /\ ~Typed' /\ pc' \notin After
          /\ pc = "create" => ~Typed
      BY <1>7, <1>a DEF Repeats, Again, Calls, After, Typed
    <2>2. "create" \notin After
      BY DEF After
    <2>3. QED
      BY <1>a, <1>b, <1>c, <1>d, <2>1, <2>2
  <1>8. CASE Closes
    <2>1. /\ pc = "closing" /\ pc' = "closing" /\ UNCHANGED calls /\ op'.retry = op.retry
          /\ ~Typed /\ ~Typed' /\ pc \notin After
      BY <1>8, <1>a DEF Closes, Calls, After, Typed
    <2>2. QED
      BY <1>a, <1>b, <1>c, <1>d, <2>1
  <1>9. QED
    BY <1>1, <1>2, <1>3, <1>4, <1>5, <1>6, <1>7, <1>8, ControlSteps

\* A new session is the next one.
LEMMA NewSessionIs ==
  ASSUME Inv, pc = "create", NEW used \in 0 .. MaxSessions, used <= SessionLimit,
         \A s \in Ids : line[s] # "none" <=> s <= used
  PROVE  NewSession = used + 1 /\ NewSession \in Ids /\ line[NewSession] = "none"
  <1>1. used + 1 <= MaxSessions /\ MaxSessions \in Nat /\ used \in Nat
    <2>1. op.retry <= MaxRetries /\ pc \notin After
      BY Limits DEF Inv, CountInv, After
    <2> DEFINE base == (calls - 1) * Turns
               most == calls * Turns
    <2>2. /\ base \in Int /\ most = base + Turns /\ most <= MaxSessions /\ MaxSessions \in Nat
          /\ SessionLimit = base + op.retry + 0
          /\ op.retry \in Nat /\ MaxRetries \in Nat /\ Turns = MaxRetries + 2
      BY <2>1, Limits
    <2> HIDE DEF base, most
    <2>3. QED
      BY <2>1, <2>2
  <1>2. /\ used + 1 \in Ids /\ ~(used + 1 <= used) /\ \A t \in 1 .. used : t \in Ids /\ t <= used
        /\ (used + 1) - 1 = used
    BY <1>1 DEF Ids
  <1> DEFINE New(s) == line[s] = "none" /\ \A t \in 1 .. s - 1 : line[t] # "none"
  <1>3. New(used + 1)
    BY <1>2
  <1>4. ASSUME NEW s \in Ids, New(s)
        PROVE  s = used + 1
    <2>1. s > used
      BY <1>4 DEF Ids
    <2>2. ~(used + 1 \in 1 .. s - 1)
      BY <1>2, <1>4
    <2>3. QED
      BY <2>1, <2>2 DEF Ids
  <1>5. NewSession = CHOOSE s \in Ids : New(s)
    BY DEF NewSession
  <1> HIDE DEF New
  <1>6. NewSession \in Ids /\ New(NewSession)
    BY <1>2, <1>3, <1>5
  <1>7. QED
    BY <1>4, <1>6 DEF New

LEMMA NewSessionIsNew ==
  ASSUME Inv, pc = "create"
  PROVE  NewSession \in Ids /\ line[NewSession] = "none"
  <1>1. PICK used \in 0 .. MaxSessions : /\ \A s \in Ids : line[s] # "none" <=> s <= used
                                        /\ used <= SessionLimit
    BY DEF Inv, CountInv
  <1>2. QED
    BY <1>1, NewSessionIs

\* The sessions that were made stay made.
LEMMA MadeNext ==
  ASSUME Inv, [Next]_vars, NEW s \in Ids
  PROVE  /\ line[s] # "none" => line'[s] # "none"
         /\ line[s] = "none" /\ line'[s] # "none" => Makes /\ s = NewSession
  <1>a. line \in [Ids -> {"none", "up", "hung", "dead", "closed"}]
    BY DEF Inv, TypeOK
  <1>1. CASE Faults
    BY <1>1, <1>a DEF Faults, Hang, Revive, Die, Reboot, Ended, Cut
  <1>2. CASE Shuts
    <2>1. session # 0 => line[session] # "none"
      BY DEF Inv, OpenInv
    <2>2. QED
      BY <1>2, <1>a, <2>1 DEF Shuts, Cut
  <1>3. CASE Makes
    <2>1. PICK state \in {"up", "dead"} :
             pc = "create" /\ line' = [line EXCEPT ![NewSession] = state]
      BY <1>3, MakesIs DEF MadeAs, Make
    <2>2. QED
      BY <1>3, <1>a, <2>1, NewSessionIsNew
  <1>4. CASE CloseNext
    <2>1. PICK t \in op.todo : line' = line \/ Ended({t}, "closed")
      BY <1>4 DEF CloseNext
    <2>2. line[t] # "none"
      BY DEF Inv, OpenInv
    <2>3. QED
      BY <1>a, <2>1, <2>2 DEF Ended, Cut
  <1>5. QED
    BY <1>1, <1>2, <1>3, <1>4, SessionSteps DEF Looks, Fails

LEMMA RunsNext ==
  ASSUME Inv, [Next]_vars
  PROVE  /\ RunId \in Nat /\ RunId' \in Nat /\ RunId <= RunId' /\ RunId' <= MaxSessions
         /\ RunId' = RunId + (IF Type THEN 1 ELSE 0)
         /\ runs' \in Seq(1 .. MaxCalls)
         /\ \A i \in 1 .. RunId : runs'[i] = runs[i]
         /\ Type => runs'[RunId'] = op.n
  <1>a. runs \in Seq(1 .. MaxCalls) /\ RunId \in Nat /\ RunId <= MaxSessions
    BY DEF Inv, TypeOK, RunId
  <1>1. CASE Type
    <2>1. pc = "attempt" /\ runs' = Append(runs, op.n)
      BY <1>1 DEF Type
    <2>2. op.n \in 1 .. MaxCalls
      BY <2>1 DEF Inv, TypeOK, CallInv
    <2>3. /\ runs' \in Seq(1 .. MaxCalls) /\ RunId' = RunId + 1 /\ runs'[RunId + 1] = op.n
          /\ \A i \in 1 .. RunId : runs'[i] = runs[i]
      BY <1>a, <2>1, <2>2 DEF RunId
    <2>4. RunId + 1 <= MaxSessions
      <3>1. ~Typed /\ RunId <= RunLimit
        BY <2>1 DEF Typed, After, Inv, CountInv
      <3> DEFINE base == (calls - 1) * Turns
                 most == calls * Turns
      <3>2. /\ base \in Int /\ most = base + Turns /\ most <= MaxSessions /\ MaxSessions \in Nat
            /\ RunLimit = base + op.retry + 0 /\ op.retry <= MaxRetries + 1
            /\ op.retry \in Nat /\ MaxRetries \in Nat /\ Turns = MaxRetries + 2
        BY <2>1, <3>1, Limits
      <3> HIDE DEF base, most
      <3>3. QED
        BY <1>a, <3>1, <3>2
    <2>5. QED
      BY <1>1, <1>a, <2>3, <2>4
  <1>2. CASE ~Type
    <2>1. runs' = runs
      BY <1>2, RunSteps
    <2>2. RunId' = RunId
      BY <2>1 DEF RunId
    <2>3. QED
      BY <1>2, <1>a, <2>1, <2>2
  <1>3. QED
    BY <1>1, <1>2

LEMMA CountNext ==
  ASSUME Inv, [Next]_vars
  PROVE  CountInv'
  <1>a. CountInv /\ op \in Calls /\ MaxRetries \in Nat /\ op.retry \in Nat
        /\ op.retry <= MaxRetries + 1
    BY Limits DEF Inv, TypeOK, Calls
  <1>1. (\E used \in 0 .. MaxSessions : /\ \A s \in Ids : line[s] # "none" <=> s <= used
                                       /\ used <= SessionLimit)'
    <2>1. PICK used \in 0 .. MaxSessions : /\ \A s \in Ids : line[s] # "none" <=> s <= used
                                           /\ used <= SessionLimit
      BY <1>a DEF CountInv
    <2>2. CASE Makes
      <3>1. pc = "create"
        BY <2>2, MakesIs DEF MadeAs, Make
      <3>2. NewSession = used + 1 /\ NewSession \in Ids /\ line[NewSession] = "none"
        BY <2>1, <3>1, NewSessionIs
      <3>3. used + 1 \in 0 .. MaxSessions /\ used + 1 <= SessionLimit'
        BY <2>1, <2>2, <3>2, LimitsNext DEF Ids
      <3>4. /\ \E state \in {"up", "dead"} : line' = [line EXCEPT ![NewSession] = state]
            /\ line \in [Ids -> {"none", "up", "hung", "dead", "closed"}]
        BY <2>2, MakesIs DEF MadeAs, Make, Inv, TypeOK
      <3>5. \A s \in Ids : line'[s] # "none" <=> s <= used + 1
        BY <2>1, <3>2, <3>4 DEF Ids
      <3>6. QED
        BY <3>3, <3>5
    <2>3. CASE ~Makes
      <3>1. \A s \in Ids : line'[s] # "none" <=> s <= used
        BY <2>1, <2>3, MadeNext
      <3>2. used <= SessionLimit'
        BY <2>1, <2>3, LimitsNext
      <3>3. QED
        BY <3>1, <3>2
    <2>4. QED
      BY <2>2, <2>3
  <1>2. (RunId <= RunLimit)'
    BY <1>a, LimitsNext, RunsNext DEF CountInv
  <1>3. /\ (op.retry = MaxRetries + 1 => pc = "attempt" /\ session = 0)'
        /\ (pc = "create" /\ op.back = "run" => op.retry < MaxRetries)'
    <2>1. CASE UNCHANGED control
      BY <1>a, <2>1, SessionKept DEF control, CountInv, Looks
    <2>2. CASE Starts("run", "attempt") \/ Starts("reset", "create") \/ Starts("close", "closing")
      <3>1. op'.retry = 0 /\ (pc' = "create" => op'.back = "reset")
        BY <2>2 DEF Starts, NoOp
      <3>2. QED
        BY <1>a, <3>1
    <2>3. CASE Ends
      BY <1>a, <2>3 DEF Ends, Return, NoOp
    <2>4. CASE \/ Moves("attempt", "trigger") /\ session # 0
               \/ Moves("trigger", "output") \/ Moves("create", "create")
               \/ Moves("create", "lookup") /\ op.back = "hung"
               \/ Moves("create", "restore") /\ op.back = "backup"
      BY <1>a, <2>4 DEF Moves, CountInv
    <2>5. CASE (GoesBack("attempt", "run") /\ CanRetry) \/ GoesBack("output", "backup") \/ Looks
      <3>1. /\ op'.retry = op.retry /\ pc' = "create" /\ (op'.back = "run" => CanRetry)
            /\ (pc # "attempt" \/ CanRetry)
        BY <1>a, <2>5 DEF GoesBack, Looks, Calls
      <3>2. QED
        BY <1>a, <3>1 DEF CountInv, CanRetry
    <2>6. CASE Found \/ Closes
      <3>1. op'.retry = op.retry /\ pc' # "create" /\ pc # "attempt"
        BY <1>a, <2>6 DEF Found, Closes, Calls
      <3>2. QED
        BY <1>a, <3>1 DEF CountInv
    <2>7. CASE Repeats
      <3>1. /\ op'.retry = op.retry + 1 /\ pc' = "attempt" /\ pc # "attempt"
            /\ op.retry < MaxRetries \/ session' = 0
        BY <1>a, <2>7 DEF Repeats, Again, Calls, CanRetry
      <3>2. QED
        BY <1>a, <3>1 DEF CountInv
    <2>8. QED
      BY <2>1, <2>2, <2>3, <2>4, <2>5, <2>6, <2>7, ControlSteps
  <1>4. QED
    BY <1>1, <1>2, <1>3 DEF CountInv

-----------------------------------------------------------------------------
(* The types.                                                               *)

LEMMA SessionTypes ==
  ASSUME Inv, [Next]_vars
  PROVE  (/\ session \in {0} \cup Ids /\ sessions \subseteq Ids
          /\ shell \in {0} \cup Ids /\ old \in BOOLEAN /\ garbled \in BOOLEAN
          /\ line \in [Ids -> {"none", "up", "hung", "dead", "closed"}]
          /\ module \in BOOLEAN /\ gone \subseteq Ids)'
  <1>a. /\ session \in {0} \cup Ids /\ sessions \subseteq Ids
        /\ shell \in {0} \cup Ids /\ old \in BOOLEAN /\ garbled \in BOOLEAN
        /\ line \in [Ids -> {"none", "up", "hung", "dead", "closed"}]
        /\ module \in BOOLEAN /\ gone \subseteq Ids /\ op.todo \subseteq Ids
    BY DEF Inv, TypeOK
  <1>1. CASE Faults
    BY <1>1, <1>a DEF Faults, Hang, Revive, Die, Reboot, Ended, Cut, client, files
  <1>2. CASE Shuts
    BY <1>2, <1>a DEF Shuts, Cut
  <1>3. CASE Makes
    <2>1. NewSession \in Ids
      BY <1>3, MakesIs, NewSessionIsNew DEF MadeAs, Make
    <2>2. CASE Opens
      BY <1>a, <2>1, <2>2 DEF Opens, Create, CreateGarbled, Make, OldWorkdir
    <2>3. CASE CreateDies
      BY <1>a, <2>1, <2>3 DEF CreateDies, Make, PreparedPartly
    <2>4. QED
      BY <1>3, <2>2, <2>3 DEF Makes
  <1>f. CASE Fails
    BY <1>f, <1>a DEF Fails, PreparedPartly
  <1>4. CASE CloseNext
    <2>1. /\ UNCHANGED <<shell, old, garbled>>
          /\ \E s \in op.todo :
                \/ session' = s /\ UNCHANGED <<sessions, line, files>>
                \/ /\ Ended({s}, "closed") /\ sessions' = sessions \ {s} /\ session' = 0
                   /\ Removed \/ UNCHANGED files
      BY <1>4 DEF CloseNext
    <2>2. QED
      BY <1>a, <2>1 DEF Ended, Cut, Removed, files
  <1>5. QED
    BY <1>a, <1>f, <1>1, <1>2, <1>3, <1>4, SessionSteps DEF Looks

LEMMA ControlTypes ==
  ASSUME Inv, [Next]_vars
  PROVE  (pc \in Steps /\ calls \in 0 .. MaxCalls /\ outcome.result \in Results /\ op \in Calls)'
  <1>a. /\ pc \in Steps /\ calls \in 0 .. MaxCalls /\ outcome.result \in Results /\ op \in Calls
        /\ MaxCalls \in Nat /\ MaxRetries \in Nat /\ session \in {0} \cup Ids
        /\ sessions \subseteq Ids
    BY ConstantsAssumption DEF ConstantsAssumption, Inv, TypeOK, Calls
  <1>b. RunId \in Nat /\ RunId' \in Nat /\ RunId <= RunId'
    BY RunsNext
  <1>c. op.found \in 0 .. RunId /\ 0 .. RunId \subseteq 0 .. RunId' /\ 0 \in 0 .. RunId'
    BY <1>a, <1>b DEF Calls
  <1>d. {"idle", "attempt", "trigger", "output", "create", "lookup", "restore", "finally",
         "closing"} \subseteq Steps
    BY DEF Steps
  <1>e. {"none", "returned"} \subseteq Results /\ {"none", "run", "reset", "close"} \subseteq Names
    BY DEF Results, Names
  \* The record of a call is put together again from its fields.
  <1>f. ASSUME NEW name \in Names, NEW n \in 0 .. MaxCalls, NEW retry \in 0 .. MaxRetries + 1,
               NEW back \in Names \cup {"hung", "backup"}, NEW original \in {0} \cup Ids,
               NEW pending \in Results, NEW id \in 0 .. RunId, NEW todo \in SUBSET Ids,
               op' = [name |-> name, n |-> n, retry |-> retry, back |-> back,
                      original |-> original, pending |-> pending, found |-> id, todo |-> todo]
        PROVE  (op \in Calls)'
    BY <1>c, <1>f DEF Calls
  <1>g. /\ op.name \in Names /\ op.n \in 0 .. MaxCalls /\ op.retry \in 0 .. MaxRetries + 1
        /\ op.back \in Names \cup {"hung", "backup"} /\ op.original \in {0} \cup Ids
        /\ op.pending \in Results /\ op.todo \in SUBSET Ids
        /\ op = [name |-> op.name, n |-> op.n, retry |-> op.retry, back |-> op.back,
                 original |-> op.original, pending |-> op.pending, found |-> op.found,
                 todo |-> op.todo]
    BY <1>a DEF Calls
  <1>1. CASE UNCHANGED control
    BY <1>1, <1>a, <1>c, <1>f, <1>g DEF control
  <1>2. CASE Starts("run", "attempt") \/ Starts("reset", "create") \/ Starts("close", "closing")
    <2>1. PICK name \in {"run", "reset", "close"}, to \in {"attempt", "create", "closing"} :
            Starts(name, to)
      BY <1>2
    <2>2. calls' \in 0 .. MaxCalls
      BY <1>a, <2>1 DEF Starts
    <2>3. PICK todo \in SUBSET Ids :
            op' = [name |-> name, n |-> calls', retry |-> 0, back |-> name, original |-> 0,
                   pending |-> "none", found |-> 0, todo |-> todo]
      BY <1>a, <2>1 DEF Starts, NoOp
    <2>4. 0 \in 0 .. RunId /\ 0 \in 0 .. MaxRetries + 1 /\ name \in Names
      BY <1>a, <1>b, <1>e
    <2>5. (op \in Calls)'
      BY <1>e, <1>f, <2>2, <2>3, <2>4
    <2>6. QED
      BY <1>a, <1>d, <2>1, <2>2, <2>5 DEF Starts
  <1>3. CASE Ends
    <2>1. op' = NoOp /\ pc' = "idle" /\ UNCHANGED calls /\ outcome'.result \in Results
      BY <1>3, <1>e DEF Ends, Return
    <2>2. 0 \in 0 .. RunId /\ 0 \in 0 .. MaxRetries + 1 /\ 0 \in 0 .. MaxCalls
      BY <1>a, <1>b
    <2>3. (op \in Calls)'
      BY <1>e, <1>f, <2>1, <2>2 DEF NoOp
    <2>4. QED
      BY <1>a, <1>d, <2>1, <2>3
  <1>4. CASE \/ Moves("attempt", "trigger") \/ Moves("trigger", "output")
             \/ Moves("create", "create") \/ Moves("create", "lookup")
             \/ Moves("create", "restore")
    BY <1>4, <1>a, <1>c, <1>d, <1>f, <1>g DEF Moves
  <1>5. CASE GoesBack("attempt", "run") \/ GoesBack("output", "backup") \/ Looks
    <2>1. PICK back \in Names \cup {"hung", "backup"}, original \in {0} \cup Ids :
            op' = [name |-> op.name, n |-> op.n, retry |-> op.retry, back |-> back,
                   original |-> original, pending |-> op.pending, found |-> op.found,
                   todo |-> op.todo]
      BY <1>5, <1>a, <1>e, <1>g DEF GoesBack, Looks
    <2>2. (op \in Calls)'
      BY <1>c, <1>f, <1>g, <2>1
    <2>3. QED
      BY <1>5, <1>a, <1>d, <2>2 DEF GoesBack, Looks
  <1>6. CASE Found
    <2>1. PICK result \in Results, id \in 0 .. RunId :
            op' = [name |-> op.name, n |-> op.n, retry |-> op.retry, back |-> op.back,
                   original |-> op.original, pending |-> result, found |-> id, todo |-> op.todo]
      BY <1>6, <1>g DEF Found
    <2>2. (op \in Calls)'
      BY <1>f, <1>g, <2>1
    <2>3. QED
      BY <1>6, <1>a, <1>d, <2>2 DEF Found
  <1>7. CASE Repeats
    <2>1. op.retry + 1 \in 0 .. MaxRetries + 1
      BY <1>7, <1>a, <1>g DEF Repeats, CanRetry, Inv, CountInv
    <2>2. op' = [name |-> op.name, n |-> op.n, retry |-> op.retry + 1, back |-> op.back,
                 original |-> op.original, pending |-> op.pending, found |-> op.found,
                 todo |-> op.todo]
      BY <1>7, <1>g DEF Repeats, Again
    <2>3. (op \in Calls)'
      BY <1>c, <1>f, <1>g, <2>1, <2>2
    <2>4. QED
      BY <1>7, <1>a, <1>d, <2>3 DEF Repeats, Again
  <1>8. CASE Closes
    <2>1. PICK todo \in SUBSET Ids :
            op' = [name |-> op.name, n |-> op.n, retry |-> op.retry, back |-> op.back,
                   original |-> op.original, pending |-> op.pending, found |-> op.found,
                   todo |-> todo]
      BY <1>8, <1>g DEF Closes
    <2>2. (op \in Calls)'
      BY <1>c, <1>f, <1>g, <2>1
    <2>3. QED
      BY <1>8, <1>a, <1>d, <2>2 DEF Closes
  <1>9. QED
    BY <1>1, <1>2, <1>3, <1>4, <1>5, <1>6, <1>7, <1>8, ControlSteps

LEMMA Wider == \A m, n \in Nat : m <= n =>
                  /\ Seq(0 .. m) \subseteq Seq(0 .. n)
                  /\ 0 .. m \subseteq 0 .. n /\ 1 .. m \subseteq 1 .. n
  <1>1. SUFFICES ASSUME NEW m \in Nat, NEW n \in Nat, m <= n
                 PROVE  /\ Seq(0 .. m) \subseteq Seq(0 .. n)
                        /\ 0 .. m \subseteq 0 .. n /\ 1 .. m \subseteq 1 .. n
    OBVIOUS
  <1>2. 0 .. m \subseteq 0 .. n /\ 1 .. m \subseteq 1 .. n
    BY <1>1
  <1>3. ASSUME NEW q \in Seq(0 .. m)
        PROVE  q \in Seq(0 .. n)
    <2>1. \A i \in 1 .. Len(q) : q[i] \in 0 .. n
      BY <1>2
    <2>2. q = [i \in 1 .. Len(q) |-> q[i]] /\ Len(q) \in Nat
      OBVIOUS
    <2>3. QED
      BY <2>1, <2>2
  <1>4. QED
    BY <1>2, <1>3

LEMMA ProcessTypes ==
  ASSUME Inv, [Next]_vars
  PROVE  (/\ typed \in [Ids -> Seq(0 .. RunId)]
          /\ running \in [Ids -> 0 .. RunId]
          /\ started \subseteq 1 .. RunId /\ finished \subseteq started
          /\ backup \in [id : 0 .. RunId, done : BOOLEAN])'
  <1> DEFINE most == RunId'
  <1>a. RunId \in Nat /\ most \in Nat /\ RunId <= most
    BY RunsNext
  <1>b. /\ Seq(0 .. RunId) \subseteq Seq(0 .. most) /\ 0 .. RunId \subseteq 0 .. most
        /\ 1 .. RunId \subseteq 1 .. most
    BY <1>a, Wider
  <1>c. /\ typed \in [Ids -> Seq(0 .. most)] /\ running \in [Ids -> 0 .. most]
        /\ started \subseteq 1 .. most /\ finished \subseteq started
        /\ backup \in [id : 0 .. most, done : BOOLEAN]
    <2>1. /\ typed \in [Ids -> Seq(0 .. RunId)] /\ running \in [Ids -> 0 .. RunId]
          /\ started \subseteq 1 .. RunId /\ finished \subseteq started
          /\ backup \in [id : 0 .. RunId, done : BOOLEAN]
      BY DEF Inv, TypeOK
    <2>2. \A s \in Ids : typed[s] \in Seq(0 .. most) /\ running[s] \in 0 .. most
      BY <1>b, <2>1
    <2>3. QED
      BY <1>b, <2>1, <2>2
  <1>d. shell \in {0} \cup Ids /\ session \in {0} \cup Ids
        /\ \A s \in Ids : running[s] # 0 => running[s] \in started
    BY DEF Inv, TypeOK, RunInv
  <1> SUFFICES /\ typed' \in [Ids -> Seq(0 .. most)] /\ running' \in [Ids -> 0 .. most]
               /\ started' \subseteq 1 .. most /\ finished' \subseteq started'
               /\ backup' \in [id : 0 .. most, done : BOOLEAN]
    OBVIOUS
  <1>e. \A i \in 0 .. most, done \in BOOLEAN :
           [id |-> i, done |-> done] \in [id : 0 .. most, done : BOOLEAN]
    OBVIOUS
  <1>f. \A q \in Seq(0 .. most), i \in 0 .. most : Append(q, i) \in Seq(0 .. most)
    OBVIOUS
  <1>g. \A q \in Seq(0 .. most) : q # <<>> =>
           /\ Head(q) \in 0 .. most /\ Tail(q) \in Seq(0 .. most)
           /\ Head(q) # 0 => Head(q) \in 1 .. most
    BY <1>a
  <1>1. CASE UNCHANGED <<processes, backup>>
    BY <1>1, <1>c DEF processes
  <1>2. CASE Type
    <2>1. RunId + 1 \in 0 .. most
      BY <1>2, <1>a, RunsNext
    <2> HIDE DEF most
    <2>2. typed' \in [Ids -> Seq(0 .. most)]
      BY <1>2, <1>c, <1>d, <1>f, <2>1 DEF Type
    <2>3. UNCHANGED <<running, started, finished, backup>>
      BY <1>2 DEF Type, files
    <2>4. QED
      BY <1>c, <2>2, <2>3
  <1>3. CASE OutputTimeout
    <2>1. 0 \in 0 .. most
      BY <1>a
    <2> HIDE DEF most
    <2>2. typed' \in [Ids -> Seq(0 .. most)]
      BY <1>3, <1>c, <1>d, <1>f, <2>1 DEF OutputTimeout, Stop
    <2>3. UNCHANGED <<running, started, finished, backup>>
      BY <1>3 DEF OutputTimeout, files
    <2>4. QED
      BY <1>c, <2>2, <2>3
  <1> HIDE DEF most
  <1>h. ASSUME NEW s \in Ids, Terminated(s)
        PROVE  finished' \subseteq started /\ backup' \in [id : 0 .. most, done : BOOLEAN]
    <2>1. /\ running[s] \in started /\ running[s] \in 0 .. most
          /\ finished' = finished \cup {running[s]}
          /\ backup' = backup \/ backup' = [id |-> running[s], done |-> TRUE]
      BY <1>h, <1>c, <1>d DEF Terminated, Stored
    <2>2. QED
      BY <1>c, <1>e, <2>1
  <1>4. ASSUME NEW s \in Ids, Start(s)
        PROVE  /\ typed' \in [Ids -> Seq(0 .. most)] /\ running' \in [Ids -> 0 .. most]
               /\ started' \subseteq 1 .. most /\ finished' \subseteq started'
               /\ backup' \in [id : 0 .. most, done : BOOLEAN]
    <2>1. /\ Head(typed[s]) \in 0 .. most /\ Head(typed[s]) \in 1 .. most
          /\ Tail(typed[s]) \in Seq(0 .. most)
      BY <1>4, <1>c, <1>g DEF Start, Stop
    <2>2. /\ typed' = [typed EXCEPT ![s] = Tail(@)]
          /\ started' = started \cup {Head(typed[s])}
          /\ finished' \in {finished, finished \cup {Head(typed[s])}}
          /\ running' \in {running, [running EXCEPT ![s] = Head(typed[s])]}
          /\ backup' \in {backup, [id |-> Head(typed[s]), done |-> FALSE]}
      BY <1>4 DEF Start, Stored
    <2>3. typed' \in [Ids -> Seq(0 .. most)] /\ running' \in [Ids -> 0 .. most]
      BY <1>c, <2>1, <2>2
    <2>4. started' \subseteq 1 .. most /\ finished' \subseteq started'
      BY <1>c, <2>1, <2>2
    <2>5. backup' \in [id : 0 .. most, done : BOOLEAN]
      BY <1>c, <1>e, <2>1, <2>2
    <2>6. QED
      BY <2>3, <2>4, <2>5
  <1>5. ASSUME NEW s \in Ids, Finish(s)
        PROVE  /\ typed' \in [Ids -> Seq(0 .. most)] /\ running' \in [Ids -> 0 .. most]
               /\ started' \subseteq 1 .. most /\ finished' \subseteq started'
               /\ backup' \in [id : 0 .. most, done : BOOLEAN]
    <2>1. running[s] \in started /\ running[s] \in 0 .. most /\ 0 \in 0 .. most
      BY <1>5, <1>a, <1>c, <1>d DEF Finish
    <2>2. /\ typed' = typed /\ started' = started
          /\ running' = [running EXCEPT ![s] = 0]
          /\ finished' = finished \cup {running[s]}
          /\ backup' \in {backup, [id |-> running[s], done |-> TRUE]}
      BY <1>5 DEF Finish, Stored
    <2>3. typed' \in [Ids -> Seq(0 .. most)] /\ running' \in [Ids -> 0 .. most]
      BY <1>c, <2>1, <2>2
    <2>4. started' \subseteq 1 .. most /\ finished' \subseteq started'
      BY <1>c, <2>1, <2>2
    <2>5. backup' \in [id : 0 .. most, done : BOOLEAN]
      BY <1>c, <1>e, <2>1, <2>2
    <2>6. QED
      BY <2>3, <2>4, <2>5
  <1>6. ASSUME NEW s \in Ids, Interrupted(s)
        PROVE  /\ typed' \in [Ids -> Seq(0 .. most)] /\ running' \in [Ids -> 0 .. most]
               /\ started' \subseteq 1 .. most /\ finished' \subseteq started'
               /\ backup' \in [id : 0 .. most, done : BOOLEAN]
    <2>1. Tail(typed[s]) \in Seq(0 .. most) /\ 0 \in 0 .. most
      BY <1>6, <1>a, <1>c, <1>g DEF Interrupted
    <2>2. typed' \in [Ids -> Seq(0 .. most)] /\ running' \in [Ids -> 0 .. most]
      BY <1>6, <1>c, <2>1 DEF Interrupted
    <2>3. started' = started /\ (Terminated(s) \/ UNCHANGED <<finished, backup>>)
      BY <1>6 DEF Interrupted
    <2>4. finished' \subseteq started' /\ backup' \in [id : 0 .. most, done : BOOLEAN]
      BY <1>c, <1>h, <2>3
    <2>5. QED
      BY <1>c, <2>2, <2>3, <2>4
  <1>7. ASSUME NEW ss \in SUBSET Ids, NEW how, Ended(ss, how), backup' \in {backup, NoBackup}
        PROVE  /\ typed' \in [Ids -> Seq(0 .. most)] /\ running' \in [Ids -> 0 .. most]
               /\ started' \subseteq 1 .. most /\ finished' \subseteq started'
               /\ backup' \in [id : 0 .. most, done : BOOLEAN]
    <2>1. 0 \in 0 .. most /\ <<>> \in Seq(0 .. most)
      BY <1>a
    <2>2. typed' \in [Ids -> Seq(0 .. most)] /\ running' \in [Ids -> 0 .. most]
      BY <1>7, <1>c, <2>1 DEF Ended, Cut
    <2>3. backup' \in [id : 0 .. most, done : BOOLEAN]
      BY <1>7, <1>c, <1>e, <2>1 DEF NoBackup
    <2>4. UNCHANGED <<started, finished>>
      BY <1>7 DEF Ended
    <2>5. QED
      BY <1>c, <2>2, <2>3, <2>4
  <1>i. CASE CloseBusy
    <2>1. 0 \in 0 .. most /\ <<>> \in Seq(0 .. most)
      BY <1>a
    <2>2. typed' \in [Ids -> Seq(0 .. most)] /\ running' \in [Ids -> 0 .. most]
      BY <1>i, <1>c, <2>1 DEF CloseBusy, Cut
    <2>3. /\ started' = started /\ shell \in Ids
          /\ Terminated(shell) \/ UNCHANGED <<finished, backup>>
      BY <1>i, <1>d DEF CloseBusy, Inv, OpenInv
    <2>4. finished' \subseteq started' /\ backup' \in [id : 0 .. most, done : BOOLEAN]
      BY <1>c, <1>h, <2>3
    <2>5. QED
      BY <1>c, <2>2, <2>3, <2>4
  <1>8. QED
    BY <1>1, <1>2, <1>3, <1>4, <1>5, <1>6, <1>7, <1>i, RunSteps

LEMMA TypeNext ==
  ASSUME Inv, [Next]_vars
  PROVE  TypeOK'
  <1>1. (runs \in Seq(1 .. MaxCalls) /\ RunId <= MaxSessions)'
    BY RunsNext
  <1>2. (faults \in 0 .. MaxFaults)'
    BY RunSteps
  <1>3. QED
    BY <1>1, <1>2, SessionTypes, ControlTypes, ProcessTypes DEF TypeOK, Calls

-----------------------------------------------------------------------------
(* The results of the runs.                                                 *)

\* What ran has run, and what is stored as done is.
LEMMA RemoteNext ==
  ASSUME Inv, [Next]_vars
  PROVE  /\ finished \subseteq finished'
         /\ (backup.done => backup.id \in finished)'
         /\ (\A s \in Ids : running[s] # 0 => running[s] \in started)'
  <1>a. /\ backup.done => backup.id \in finished
        /\ \A s \in Ids : running[s] # 0 => running[s] \in started
        /\ running \in [Ids -> 0 .. RunId]
    BY DEF Inv, RunInv, TypeOK
  <1>t. ASSUME NEW s \in Ids, Terminated(s)
        PROVE  finished \subseteq finished' /\ (backup.done => backup.id \in finished)'
    <2>1. /\ finished' = finished \cup {running[s]}
          /\ backup' = backup \/ backup' = [id |-> running[s], done |-> TRUE]
      BY <1>t DEF Terminated, Stored
    <2>2. QED
      BY <1>a, <2>1
  <1>1. CASE UNCHANGED <<processes, backup>>
    BY <1>1, <1>a DEF processes
  <1>2. CASE Type \/ OutputTimeout
    BY <1>2, <1>a DEF Type, OutputTimeout, files
  <1>3. ASSUME NEW s \in Ids, Start(s)
        PROVE  /\ finished \subseteq finished'
               /\ (backup.done => backup.id \in finished)'
               /\ (\A t \in Ids : running[t] # 0 => running[t] \in started)'
    <2>1. /\ started' = started \cup {Head(typed[s])}
          /\ finished \subseteq finished'
          /\ running' \in {running, [running EXCEPT ![s] = Head(typed[s])]}
          /\ backup' = backup \/ backup' = [id |-> Head(typed[s]), done |-> FALSE]
      BY <1>3 DEF Start, Stored
    <2>2. (backup.done => backup.id \in finished)'
      BY <1>a, <2>1
    <2>3. (\A t \in Ids : running[t] # 0 => running[t] \in started)'
      BY <1>a, <2>1
    <2>4. QED
      BY <2>1, <2>2, <2>3
  <1>4. ASSUME NEW s \in Ids, Finish(s)
        PROVE  /\ finished \subseteq finished'
               /\ (backup.done => backup.id \in finished)'
               /\ (\A t \in Ids : running[t] # 0 => running[t] \in started)'
    <2>1. /\ started' = started /\ finished' = finished \cup {running[s]}
          /\ running' = [running EXCEPT ![s] = 0]
          /\ backup' = backup \/ backup' = [id |-> running[s], done |-> TRUE]
      BY <1>4 DEF Finish, Stored
    <2>2. (backup.done => backup.id \in finished)'
      BY <1>a, <2>1
    <2>3. (\A t \in Ids : running[t] # 0 => running[t] \in started)'
      BY <1>a, <2>1
    <2>4. QED
      BY <2>1, <2>2, <2>3
  <1>5. ASSUME NEW s \in Ids, Interrupted(s)
        PROVE  /\ finished \subseteq finished'
               /\ (backup.done => backup.id \in finished)'
               /\ (\A t \in Ids : running[t] # 0 => running[t] \in started)'
    <2>1. /\ started' = started /\ running' = [running EXCEPT ![s] = 0]
          /\ Terminated(s) \/ UNCHANGED <<finished, backup>>
      BY <1>5 DEF Interrupted
    <2>2. QED
      BY <1>a, <1>t, <2>1
  <1>6. ASSUME NEW ss \in SUBSET Ids, NEW how, Ended(ss, how), backup' \in {backup, NoBackup}
        PROVE  /\ finished \subseteq finished'
               /\ (backup.done => backup.id \in finished)'
               /\ (\A t \in Ids : running[t] # 0 => running[t] \in started)'
    <2>1. (backup.done => backup.id \in finished)'
      BY <1>6, <1>a DEF Ended, NoBackup
    <2>2. (\A t \in Ids : running[t] # 0 => running[t] \in started)'
      BY <1>6, <1>a DEF Ended, Cut
    <2>3. QED
      BY <1>6, <2>1, <2>2 DEF Ended
  <1>b. CASE CloseBusy
    <2>1. /\ started' = started /\ \A s \in Ids : running'[s] \in {0, running[s]}
          /\ shell \in Ids /\ (Terminated(shell) \/ UNCHANGED <<finished, backup>>)
      BY <1>b DEF CloseBusy, Cut, Inv, TypeOK, OpenInv
    <2>2. QED
      BY <1>a, <1>t, <2>1
  <1>7. QED
    BY <1>1, <1>2, <1>3, <1>4, <1>5, <1>6, <1>b, RunSteps

LEMMA RunNext ==
  ASSUME Inv, [Next]_vars
  PROVE  RunInv'
  <1> DEFINE Good(id, n) == id \in finished /\ runs[id] = n
             GoodNext(id, n) == id \in finished' /\ runs'[id] = n
             OwnTurn == Typed' => RunId' > 0 /\ runs'[RunId'] = op'.n
             OwnFound == pc' = "finally" /\ op'.pending = "returned" => GoodNext(op'.found, op'.n)
             OwnOutcome == outcome'.op = "run" /\ outcome'.result = "returned"
                              => GoodNext(outcome'.id, outcome'.n)
  <1>a. RunInv /\ CallInv /\ op \in Calls
    BY DEF Inv, TypeOK, Calls
  <1>b. /\ RunId \in Nat /\ RunId' = RunId + (IF Type THEN 1 ELSE 0)
        /\ Type => runs'[RunId'] = op.n
    BY RunsNext
  <1>c. /\ Type => Moves("attempt", "trigger") \/ (pc = "attempt" /\ pc' = "idle")
        /\ ~Type => runs' = runs /\ RunId' = RunId
    <2>1. ~Type => runs' = runs
      BY RunSteps
    <2>2. QED
      BY <2>1 DEF Type, Moves, GoOn, Raise, Return, RunId
  <1>d. ASSUME NEW id, NEW n, Good(id, n)
        PROVE  GoodNext(id, n)
    <2>1. id \in 1 .. RunId
      BY <1>d DEF Inv, TypeOK
    <2>2. QED
      BY <1>d, <2>1, RunsNext, RemoteNext
  <1>e. Typed => RunId > 0 /\ runs[RunId] = op.n
    BY <1>a DEF RunInv
  <1>f. Typed /\ RunId \in finished => GoodNext(RunId, op.n)
    BY <1>d, <1>e
  <1>g. pc = "finally" /\ op.pending = "returned" => GoodNext(op.found, op.n)
    BY <1>a, <1>d DEF RunInv
  <1>h. outcome.op = "run" /\ outcome.result = "returned" => GoodNext(outcome.id, outcome.n)
    BY <1>a, <1>d DEF RunInv, OwnResult
  <1>i. OwnResult' <=> OwnOutcome
    BY DEF OwnResult
  <1> HIDE DEF Good, GoodNext
  <1>9. OwnTurn /\ OwnFound /\ OwnOutcome
    <2>1. CASE UNCHANGED control
      <3>1. ~Type
        BY <2>1, <1>c DEF control, Moves
      <3>2. Typed' = Typed /\ UNCHANGED <<pc, op, outcome>>
        BY <2>1 DEF control, Typed
      <3>3. QED
        BY <1>c, <1>e, <1>g, <1>h, <3>1, <3>2
    <2>2. CASE Starts("run", "attempt") \/ Starts("reset", "create") \/ Starts("close", "closing")
      <3>1. UNCHANGED outcome /\ pc' # "finally" /\ ~Typed'
        BY <2>2 DEF Starts, Typed, After, NoOp
      <3>2. QED
        BY <1>h, <3>1
    <2>3. CASE Ends
      <3>1. pc' = "idle" /\ ~Typed'
        BY <2>3 DEF Ends, Return, Typed, After
      <3>2. PICK result \in Results, id \in 0 .. RunId :
               /\ outcome' = [op |-> op.name, n |-> op.n, id |-> id,
                              result |-> IF op.name = "reset" THEN "returned" ELSE result]
               /\ result = "returned" =>
                     \/ pc \in {"output", "restore"} /\ id = RunId /\ RunId \in finished
                     \/ pc = "finally" /\ op.pending = "returned" /\ id = op.found
                     \/ pc = "create" /\ op.name = "reset"
                     \/ pc = "closing" /\ op.todo = {}
        BY <2>3 DEF Ends, Return
      <3>3. pc \in {"output", "restore"} => Typed
        BY DEF Typed, After
      <3>4. pc = "closing" => op.name = "close"
        BY <1>a DEF CallInv
      <3>5. QED
        BY <1>f, <1>g, <3>1, <3>2, <3>3, <3>4
    <2>4. CASE Moves("attempt", "trigger") /\ session # 0 /\ Type
      <3>1. UNCHANGED <<op, outcome>> /\ pc' = "trigger"
        BY <2>4 DEF Moves
      <3>2. QED
        BY <2>4, <1>b, <1>h, <3>1
    <2>5. CASE \/ Moves("trigger", "output") \/ Moves("create", "create")
               \/ Moves("create", "lookup") /\ op.back = "hung"
               \/ Moves("create", "restore") /\ op.back = "backup"
      <3>1. UNCHANGED <<op, outcome>> /\ pc' # "finally" /\ ~Type
        BY <2>5, <1>c DEF Moves
      <3>2. Typed' => Typed
        BY <2>5 DEF Moves, Typed, After
      <3>3. QED
        BY <1>c, <1>e, <1>h, <3>1, <3>2
    <2>6. CASE GoesBack("attempt", "run") \/ GoesBack("output", "backup") \/ Looks
      <3>1. /\ UNCHANGED outcome /\ pc' = "create" /\ op'.n = op.n /\ ~Type
            /\ Typed' => Typed
        BY <2>6, <1>a, <1>c DEF GoesBack, Looks, Moves, Calls, Typed, After
      <3>2. QED
        BY <1>c, <1>e, <1>h, <3>1
    <2>7. CASE Found
      <3>1. /\ UNCHANGED outcome /\ op'.n = op.n /\ ~Type /\ Typed
            /\ op'.pending = "returned" => op'.found = RunId /\ RunId \in finished
        BY <2>7, <1>a, <1>c DEF Found, Moves, Calls, Typed, After
      <3>2. QED
        BY <1>c, <1>e, <1>f, <1>h, <3>1
    <2>8. CASE Repeats \/ Closes
      <3>1. UNCHANGED outcome /\ pc' # "finally" /\ ~Typed'
        BY <2>8 DEF Repeats, Again, Closes, Typed, After
      <3>2. QED
        BY <1>h, <3>1
    <2>9. QED
      BY <2>1, <2>2, <2>3, <2>4, <2>5, <2>6, <2>7, <2>8, ControlSteps
  <1>10. QED
    BY <1>9, <1>i, RemoteNext DEF RunInv, GoodNext

-----------------------------------------------------------------------------
(* The open sessions.                                                       *)

\* Only Create and CreateGarbled open a session, and what is open is known.
LEMMA OpenSteps ==
  ASSUME Inv, [Next]_vars
  PROVE  /\ Open' \subseteq sessions'
         /\ ~Opens => Open' \subseteq Open
         /\ \A s \in sessions' : line'[s] # "none"
         /\ session' # 0 => line'[session'] \in {"up", "hung", "dead"}
         /\ session' # 0 /\ line'[session'] # "dead" => shell' = session'
  <1>a. /\ line \in [Ids -> {"none", "up", "hung", "dead", "closed"}]
        /\ Open \subseteq sessions /\ op \in Calls /\ sessions \subseteq Ids
        /\ session \in {0} \cup Ids
        /\ session # 0 => line[session] \in {"up", "hung", "dead"}
        /\ session # 0 /\ line[session] # "dead" => shell = session
        /\ \A s \in sessions \cup op.todo : line[s] # "none"
    BY DEF Inv, TypeOK, OpenInv, ClosedByClose, Calls
  <1>b. \A s \in sessions : line'[s] # "none"
    BY <1>a, MadeNext
  <1>c. UNCHANGED line => Open' = Open
    BY DEF Open
  <1>1. CASE \/ UNCHANGED <<session, sessions, shell, old, garbled, line, module, gone>>
             \/ Looks /\ UNCHANGED <<sessions, shell, old, garbled, line, module, gone>>
    <2>1. UNCHANGED <<sessions, shell, line>> /\ (session' = session \/ session' = 0)
      BY <1>1 DEF Looks
    <2>2. QED
      BY <1>a, <1>b, <1>c, <2>1
  <1>2. CASE Faults
    <2>1. UNCHANGED <<session, sessions, shell>> /\ Open' \subseteq Open
      BY <1>2, <1>a DEF Faults, Hang, Revive, Die, Reboot, Ended, Cut, Open, client
    <2>2. session # 0 => /\ line'[session] \in {"up", "hung", "dead"}
                         /\ line[session] = "dead" => line'[session] = "dead"
      BY <1>2, <1>a DEF Faults, Hang, Revive, Die, Reboot, Ended, Cut
    <2>3. QED
      BY <1>a, <1>b, <2>1, <2>2
  <1>3. CASE Shuts
    <2>1. Open' \subseteq Open \ {session} /\ sessions' = sessions \ {session} /\ session' = 0
      BY <1>3, <1>a DEF Shuts, Cut, Open
    <2>2. QED
      BY <1>a, <1>b, <2>1
  <1>4. CASE Makes
    <2>1. NewSession \in Ids /\ line[NewSession] = "none"
      BY <1>4, MakesIs, NewSessionIsNew DEF MadeAs, Make
    <2>2. PICK state \in {"up", "dead"} :
          /\ line' = [line EXCEPT ![NewSession] = state] /\ line'[NewSession] = state
          /\ sessions' = sessions \cup {NewSession} /\ session' = NewSession
          /\ state = "dead" \/ shell' = NewSession
          /\ state = "dead" \/ Opens
      BY <1>4, <1>a, <2>1 DEF Makes, Opens, Create, CreateGarbled, CreateDies, Make
    <2>3. Open' \subseteq Open \cup (IF state = "up" THEN {NewSession} ELSE {})
      BY <1>a, <2>1, <2>2 DEF Open
    <2>4. QED
      BY <1>4, <1>a, <1>b, <2>1, <2>2, <2>3
  <1>f. CASE Fails
    BY <1>f, <1>a, <1>b, <1>c DEF Fails, PreparedPartly
  <1>5. CASE CloseNext
    <2>1. PICK s \in op.todo :
             \/ line[s] = "dead" /\ session' = s /\ UNCHANGED <<sessions, line>>
             \/ Ended({s}, "closed") /\ sessions' = sessions \ {s} /\ session' = 0
      BY <1>5 DEF CloseNext
    <2>2. s \in Ids
      BY <1>a, <2>1 DEF Calls
    <2>3. CASE UNCHANGED <<sessions, line>> /\ line[s] = "dead" /\ session' = s
      BY <1>a, <1>b, <1>c, <2>3
    <2>4. CASE Ended({s}, "closed") /\ sessions' = sessions \ {s} /\ session' = 0
      <3>1. Open' \subseteq Open \ {s}
        BY <1>a, <2>2, <2>4 DEF Ended, Cut, Open
      <3>2. QED
        BY <1>a, <1>b, <2>4, <3>1
    <2>5. QED
      BY <2>1, <2>3, <2>4
  <1>6. QED
    BY <1>f, <1>1, <1>2, <1>3, <1>4, <1>5, SessionSteps

\* No run is under way, and none is awaited, in a session that is closed.
LEMMA ShutNext ==
  ASSUME Inv, [Next]_vars, NEW s \in Ids \ Open'
  PROVE  typed'[s] = <<>> /\ running'[s] = 0
  <1>a. /\ line \in [Ids -> {"none", "up", "hung", "dead", "closed"}]
        /\ typed \in [Ids -> Seq(0 .. RunId)] /\ running \in [Ids -> 0 .. RunId]
        /\ s \notin Open => typed[s] = <<>> /\ running[s] = 0
        /\ session # 0 => line[session] \in {"up", "hung", "dead"}
        /\ s \in Ids
    BY DEF Inv, TypeOK, OpenInv
  <1>1. CASE s \in Open
    <2>1. line'[s] # line[s] /\ line'[s] \notin {"up", "hung"}
      BY <1>1, <1>a, SessionTypes DEF Open
    <2>2. CASE Faults
      BY <1>1, <1>a, <2>1, <2>2 DEF Faults, Hang, Revive, Die, Reboot, Ended, Cut, Open
    <2>3. CASE Shuts
      BY <1>a, <2>1, <2>3 DEF Shuts, Cut
    <2>4. CASE CloseNext
      BY <1>a, <2>1, <2>4 DEF CloseNext, Ended, Cut
    <2>5. CASE Makes
      <3>1. PICK state \in {"up", "dead"} :
               /\ NewSession \in Ids /\ line[NewSession] = "none"
               /\ line' = [line EXCEPT ![NewSession] = state]
        BY <2>5, MakesIs, NewSessionIsNew DEF MadeAs, Make
      <3>2. QED
        BY <1>1, <1>a, <2>1, <3>1 DEF Open
    <2>6. QED
      BY <2>1, <2>2, <2>3, <2>4, <2>5, SessionSteps DEF Looks, Fails
  <1>2. CASE s \notin Open
    <2>a. typed[s] = <<>> /\ running[s] = 0 /\ line[s] \notin {"up", "hung"}
      BY <1>2, <1>a DEF Open
    <2>1. CASE UNCHANGED <<processes, backup>>
      BY <2>a, <2>1 DEF processes
    <2>2. CASE Type
      BY <1>a, <2>a, <2>2 DEF Type
    <2>3. CASE OutputTimeout
      <3>1. session # 0
        BY <2>3 DEF OutputTimeout, Inv, CallInv
      <3>2. session # s \/ line[session] = "dead"
        BY <1>a, <2>a, <3>1
      <3>3. QED
        BY <1>a, <2>a, <2>3, <3>2 DEF OutputTimeout
    <2>4. CASE \E t \in Ids : Start(t) \/ Finish(t) \/ Interrupted(t)
      <3>1. PICK t \in Ids : Start(t) \/ Finish(t) \/ Interrupted(t)
        BY <2>4
      <3>2. t # s
        BY <2>a, <3>1 DEF Start, Finish, Interrupted
      <3>3. typed'[s] = typed[s] /\ running'[s] = running[s]
        BY <1>a, <3>1, <3>2 DEF Start, Finish, Interrupted
      <3>4. QED
        BY <2>a, <3>3
    <2>5. CASE \E ss \in SUBSET Ids : \E how \in {"dead", "closed"} : Ended(ss, how)
      BY <1>a, <2>a, <2>5 DEF Ended, Cut
    <2>b. CASE CloseBusy
      BY <1>a, <2>a, <2>b DEF CloseBusy, Cut
    <2>6. QED
      BY <2>b, <2>1, <2>2, <2>3, <2>4, <2>5, RunSteps
  <1>3. QED
    BY <1>1, <1>2

\* What close has not done yet is all that is open.
LEMMA CloseNextOpen ==
  ASSUME Inv, CloseNext, pc' = "closing"
  PROVE  Open' \subseteq op'.todo
  <1>1. PICK s \in op.todo : Ended({s}, "closed") /\ op' = [op EXCEPT !.todo = @ \ {s}]
    BY DEF CloseNext, Raise, Return
  <1>2. op \in Calls /\ pc = "closing" /\ Open \subseteq op.todo
    BY DEF CloseNext, Inv, TypeOK, Calls, OpenInv
  <1>3. Open' \subseteq Open \ {s}
    BY <1>1 DEF Ended, Cut, Open
  <1>4. op'.todo = op.todo \ {s}
    BY <1>1, <1>2 DEF Calls
  <1>5. QED
    BY <1>2, <1>3, <1>4

LEMMA OpenNext ==
  ASSUME Inv, [Next]_vars
  PROVE  OpenInv'
  <1> DEFINE Done == outcome'.op = "close" /\ outcome'.result = "returned" /\ pc' = "idle"
                        => Open' = {}
             Todo == pc' = "closing" => Open' \subseteq op'.todo
             Made == \A s \in op'.todo : line'[s] # "none"
  <1>a. /\ outcome.op = "close" /\ outcome.result = "returned" /\ pc = "idle" => Open = {}
        /\ pc = "closing" => Open \subseteq op.todo
        /\ \A s \in sessions \cup op.todo : line[s] # "none"
        /\ op \in Calls /\ CallInv /\ sessions \subseteq Ids /\ Open \subseteq sessions
    BY DEF Inv, TypeOK, Calls, OpenInv, ClosedByClose
  <1>b. \A s \in sessions \cup op.todo : line'[s] # "none"
    BY <1>a, MadeNext DEF Calls
  <1>c. pc # "create" => Open' \subseteq Open
    BY OpenSteps DEF Opens, Create, CreateGarbled, Make
  <1>1. Done /\ Todo /\ Made
    <2>1. CASE UNCHANGED control
      <3>1. UNCHANGED <<pc, op, outcome>>
        BY <2>1 DEF control
      <3>2. QED
        BY <1>a, <1>b, <1>c, <3>1
    <2>2. CASE Starts("run", "attempt") \/ Starts("reset", "create") \/ Starts("close", "closing")
      <3>1. /\ pc = "idle" /\ pc' # "idle" /\ op'.todo \subseteq sessions
            /\ pc' = "closing" => op'.todo = sessions
        BY <2>2 DEF Starts, NoOp
      <3>2. QED
        BY <1>a, <1>b, <1>c, <3>1
    <2>3. CASE Ends
      <3>1. op'.todo = {} /\ pc' = "idle"
        BY <2>3 DEF Ends, Return, NoOp
      <3>2. outcome'.op = "close" /\ outcome'.result = "returned"
              => pc = "closing" /\ op.todo = {}
        BY <2>3, <1>a DEF Ends, Return, CallInv
      <3>3. QED
        BY <1>a, <1>c, <3>1, <3>2
    <2>4. CASE \/ Moves("attempt", "trigger") \/ Moves("trigger", "output")
               \/ Moves("create", "create") \/ Moves("create", "lookup")
               \/ Moves("create", "restore")
      BY <1>b, <2>4 DEF Moves
    <2>5. CASE GoesBack("attempt", "run") \/ GoesBack("output", "backup") \/ Looks \/ Found
               \/ Repeats
      <3>1. op'.todo = op.todo /\ pc' \notin {"idle", "closing"}
        BY <1>a, <2>5 DEF GoesBack, Looks, Found, Repeats, Again, Calls
      <3>2. QED
        BY <1>b, <3>1
    <2>6. CASE Closes /\ CloseNext
      <3>1. pc' = "closing" /\ op'.todo \subseteq op.todo
        BY <1>a, <2>6 DEF Closes, Calls
      <3>2. QED
        BY <1>b, <2>6, <3>1, CloseNextOpen
    <2>7. QED
      BY <2>1, <2>2, <2>3, <2>4, <2>5, <2>6, ControlSteps
  <1>2. QED
    BY <1>1, OpenSteps, ShutNext DEF OpenInv, ClosedByClose

-----------------------------------------------------------------------------
(* The backup.                                                              *)

\* A backup is written only where the work directory is there, by a run.
LEMMA BackupWritten ==
  ASSUME Inv, [Next]_vars
  PROVE  \/ backup' \in {backup, NoBackup}
         \/ \E s \in Open \ gone : typed[s] # <<>> \/ running[s] # 0
  <1>1. CASE UNCHANGED <<processes, backup>>
    BY <1>1
  <1>2. CASE Type \/ OutputTimeout
    BY <1>2 DEF Type, OutputTimeout, files
  <1>3. CASE \E s \in Ids : Start(s) \/ Finish(s) \/ Interrupted(s)
    BY <1>3 DEF Start, Finish, Interrupted, Terminated, Open, files
  <1>b. CASE CloseBusy
    <2>1. shell = session /\ shell \in Ids /\ line[shell] \in {"up", "hung"}
      BY <1>b DEF CloseBusy, Inv, TypeOK, OpenInv
    <2>2. QED
      BY <1>b, <2>1 DEF CloseBusy, Terminated, Open
  <1>4. QED
    BY <1>b, <1>1, <1>2, <1>3, RunSteps

\* Nothing starts in a session in which nothing was typed, but by the call.
LEMMA QuietNext ==
  ASSUME Inv, [Next]_vars, NEW s \in Ids, typed[s] = <<>>, running[s] = 0,
         pc \notin {"attempt", "output"}
  PROVE  typed'[s] = <<>> /\ running'[s] = 0
  <1>a. typed \in [Ids -> Seq(0 .. RunId)] /\ running \in [Ids -> 0 .. RunId]
    BY DEF Inv, TypeOK
  <1>1. CASE UNCHANGED <<processes, backup>>
    BY <1>1 DEF processes
  <1>2. CASE Type \/ OutputTimeout
    BY <1>2 DEF Type, OutputTimeout
  <1>3. CASE \E t \in Ids : Start(t) \/ Finish(t) \/ Interrupted(t)
    <2>1. PICK t \in Ids : Start(t) \/ Finish(t) \/ Interrupted(t)
      BY <1>3
    <2>2. t # s
      BY <2>1 DEF Start, Finish, Interrupted
    <2>3. QED
      BY <1>a, <2>1, <2>2 DEF Start, Finish, Interrupted
  <1>4. CASE \E ss \in SUBSET Ids : \E how \in {"dead", "closed"} : Ended(ss, how)
    BY <1>4 DEF Ended, Cut
  <1>b. CASE CloseBusy
    BY <1>b DEF CloseBusy, Cut
  <1>5. QED
    BY <1>b, <1>1, <1>2, <1>3, <1>4, RunSteps

LEMMA BackupNext ==
  ASSUME Inv, [Next]_vars
  PROVE  BackupInv'
  <1>a. BackupInv /\ line \in [Ids -> {"none", "up", "hung", "dead", "closed"}]
        /\ gone \subseteq Ids /\ session \in {0} \cup Ids
    BY DEF Inv, TypeOK
  <1>b. Opens => /\ NewSession \in Ids /\ line[NewSession] = "none" /\ NewSession \notin Open
                 /\ NewSession \notin gone /\ session' = NewSession
                 /\ typed[NewSession] = <<>> /\ running[NewSession] = 0
    <2>1. ASSUME Opens
          PROVE  /\ NewSession \in Ids /\ line[NewSession] = "none"
                 /\ session' = NewSession
      BY <2>1, NewSessionIsNew DEF Opens, Create, CreateGarbled, Make
    <2>2. ASSUME NEW s \in Ids, line[s] = "none"
          PROVE  s \notin Open /\ s \notin gone /\ typed[s] = <<>> /\ running[s] = 0
      <3>1. s \notin Open
        BY <2>2 DEF Open
      <3>2. QED
        BY <1>a, <2>2, <3>1 DEF BackupInv, Inv, OpenInv
    <2>3. QED
      BY <2>1, <2>2
  \* The work directory is removed by a restart of the host, or by close.
  <1>c. \/ module' \in {module, TRUE} /\ gone' = gone /\ ~Opens
        \/ Opens /\ module' = TRUE /\ gone' = gone
        \/ module' = FALSE /\ gone' = gone /\ Open' = {} /\ backup' = NoBackup
        \/ /\ module' = FALSE /\ backup' = NoBackup /\ Open' \subseteq Open
           /\ gone' = {s \in Ids : line[s] # "none"}
    <2>1. CASE Faults
      <3>1. ~Opens
        <4>1. session' = session
          BY <2>1 DEF Faults, Hang, Revive, Die, Reboot, client
        <4>2. 0 \notin Ids
          BY DEF Ids
        <4>3. QED
          BY <1>b, <4>1, <4>2 DEF Opens, Create, CreateGarbled, Make
      <3>2. CASE Reboot
        <4>1. Open' = {}
          BY <1>a, <3>2 DEF Reboot, Ended, Cut, Open
        <4>2. QED
          BY <3>2, <4>1 DEF Reboot
      <3>3. QED
        BY <2>1, <3>1, <3>2 DEF Faults, Hang, Revive, Die, files
    <2>2. CASE CloseNext
      <3>1. ~Opens
        BY <2>2 DEF CloseNext, Opens, Create, CreateGarbled, Make
      <3>2. Open' \subseteq Open
        BY <3>1, OpenSteps
      <3>3. QED
        BY <2>2, <3>1, <3>2 DEF CloseNext, Removed, files
    <2>3. CASE ~Opens
      BY <2>1, <2>2, <2>3, SessionSteps
         DEF Shuts, Fails, Makes, CreateDies, Make, PreparedPartly, files
    <2>4. CASE Opens
      BY <2>4 DEF Opens, Create, CreateGarbled, Make
    <2>5. QED
      BY <2>3, <2>4
  <1>1. (\A s \in gone : line[s] # "none")'
    BY <1>a, <1>c, MadeNext DEF BackupInv
  <1>2. (~module => backup = NoBackup /\ Open \subseteq gone)'
    <2>1. CASE module' \in {module, TRUE} /\ gone' = gone /\ ~Opens
      <3>1. ASSUME ~module
            PROVE  backup' = NoBackup /\ Open' \subseteq gone'
        <4>1. backup = NoBackup /\ Open \subseteq gone
          BY <1>a, <3>1 DEF BackupInv
        <4>2. backup' \in {backup, NoBackup}
          BY <4>1, BackupWritten
        <4>3. QED
          BY <2>1, <4>1, <4>2, OpenSteps
      <3>2. CASE ~module
        BY <3>1, <3>2
      <3>3. CASE module
        <4>1. module' = TRUE
          BY <2>1, <3>3 DEF Inv, TypeOK
        <4>2. QED
          BY <4>1
      <3>4. QED
        BY <3>2, <3>3
    <2>2. ASSUME gone' = {s \in Ids : line[s] # "none"}, Open' \subseteq Open
          PROVE  Open' \subseteq gone'
      BY <2>2 DEF Open
    <2>3. QED
      BY <1>c, <2>1, <2>2
  <1>3. (pc = "lookup" /\ session # 0 =>
          /\ session = shell /\ shell \notin gone
          /\ ~old /\ ~garbled =>
                /\ backup = NoBackup /\ Open \subseteq gone \cup {session}
                /\ typed[session] = <<>> /\ running[session] = 0)'
    <2> SUFFICES ASSUME pc' = "lookup", session' # 0
                 PROVE  (/\ session = shell /\ shell \notin gone
                         /\ ~old /\ ~garbled =>
                               /\ backup = NoBackup /\ Open \subseteq gone \cup {session}
                               /\ typed[session] = <<>> /\ running[session] = 0)'
      OBVIOUS
    <2>1. \/ pc = "lookup" /\ UNCHANGED control
          \/ pc = "create" /\ op.back = "hung"
      BY ControlSteps DEF control, Starts, Ends, Return, Moves, GoesBack, Looks, Found, Repeats,
         Again, Closes
    <2>2. CASE pc = "lookup" /\ UNCHANGED control
      <3>1. UNCHANGED <<session, shell, old, garbled, gone>> /\ ~Opens
        BY <2>2, SessionSteps, MakesIs DEF Faults, Hang, Revive, Die, Reboot, Shuts, MadeAs, Make,
           Makes, Fails, CloseNext, Looks, client, files
      <3>2. CASE ~old /\ ~garbled
        <4>1. /\ backup = NoBackup /\ Open \subseteq gone \cup {session}
              /\ typed[session] = <<>> /\ running[session] = 0
          BY <1>a, <2>2, <3>1, <3>2 DEF BackupInv
        <4>2. backup' = NoBackup
          BY <4>1, BackupWritten
        <4>3. session \in Ids
          BY <1>a, <3>1
        <4>4. typed'[session] = <<>> /\ running'[session] = 0
          BY <2>2, <4>1, <4>3, QuietNext
        <4>5. QED
          BY <1>a, <2>2, <3>1, <4>1, <4>2, <4>4, OpenSteps DEF BackupInv
      <3>3. QED
        BY <1>a, <2>2, <3>1, <3>2 DEF BackupInv
    <2>3. CASE pc = "create" /\ op.back = "hung"
      <3>1. session = 0
        BY <2>3 DEF Inv, CallInv
      <3>2. Opens
        <4>1. ~CreateDies
          BY <2>3 DEF CreateDies, NotCreated
        <4>2. QED
          BY <2>3, <3>1, <4>1, SessionSteps DEF Faults, Hang, Revive, Die, Reboot, Shuts, Makes,
             Fails, CloseNext, Looks, client
      <3>3. /\ session' = NewSession /\ shell' = NewSession
            /\ ~old' /\ ~garbled' => ~module
            /\ UNCHANGED <<typed, running, backup, gone>>
            /\ line' = [line EXCEPT ![NewSession] = "up"]
        BY <3>2 DEF Opens, Create, CreateGarbled, Make, OldWorkdir, processes
      <3>4. Open' \subseteq Open \cup {NewSession}
        BY <1>a, <1>b, <3>2, <3>3 DEF Open
      <3>5. ~module => backup = NoBackup /\ Open \subseteq gone
        BY <1>a DEF BackupInv
      <3>6. QED
        BY <1>b, <3>2, <3>3, <3>4, <3>5
    <2>4. QED
      BY <2>1, <2>2, <2>3
  <1>4. QED
    BY <1>1, <1>2, <1>3 DEF BackupInv

-----------------------------------------------------------------------------
LEMMA InvInit == ASSUME Init PROVE Inv
  <1>a. MaxCalls \in Nat /\ MaxRetries \in Nat /\ MaxFaults \in Nat
    BY ConstantsAssumption DEF ConstantsAssumption
  <1>b. MaxSessions \in Nat
    <2>1. \A c, t \in Nat : c * t \in Nat
      OBVIOUS
    <2>2. QED
      BY <1>a, <2>1 DEF MaxSessions
  <1>c. RunId = 0 /\ runs = <<>> /\ 0 \in 0 .. 0
    BY DEF Init, RunId
  <1>d. Open = {}
    BY DEF Init, Open
  <1>1. TypeOK
    <2>1. runs \in Seq(1 .. MaxCalls) /\ RunId <= MaxSessions
      BY <1>b, <1>c
    <2>2. op \in Calls
      BY <1>a, <1>c DEF Init, NoOp, Calls, Names, Results
    <2>3. typed \in [Ids -> Seq(0 .. RunId)] /\ running \in [Ids -> 0 .. RunId]
      BY <1>c DEF Init
    <2>4. backup \in [id : 0 .. RunId, done : BOOLEAN]
      BY <1>c DEF Init, NoBackup
    <2>5. /\ session \in {0} \cup Ids /\ sessions \subseteq Ids
          /\ shell \in {0} \cup Ids /\ old \in BOOLEAN /\ garbled \in BOOLEAN
          /\ started \subseteq 1 .. RunId /\ finished \subseteq started
          /\ module \in BOOLEAN /\ gone \subseteq Ids
      BY DEF Init
    <2>6. calls \in 0 .. MaxCalls /\ faults \in 0 .. MaxFaults
      BY <1>a DEF Init
    <2>7. pc \in Steps /\ outcome.result \in Results
      BY DEF Init, Steps, Results
    <2>8. line \in [Ids -> {"none", "up", "hung", "dead", "closed"}]
      BY DEF Init
    <2>9. QED
      BY <2>1, <2>2, <2>3, <2>4, <2>5, <2>6, <2>7, <2>8 DEF TypeOK, Calls
  <1>2. CountInv
    <2>1. 0 * Turns = 0
      BY <1>a DEF Turns
    <2>2. SessionLimit = 0 /\ RunLimit = 0
      BY <2>1 DEF Init, SessionLimit, RunLimit
    <2>3. \A s \in Ids : line[s] # "none" <=> s <= 0
      BY DEF Init, Ids
    <2>4. 0 \in 0 .. MaxSessions
      BY <1>b
    <2>5. pc = "idle" /\ op.retry = 0
      BY DEF Init, NoOp
    <2>6. QED
      BY <1>a, <1>c, <2>2, <2>3, <2>4, <2>5 DEF CountInv
  <1>3. CallInv
    BY DEF Init, CallInv, NoOp
  <1>4. RunInv
    BY DEF Init, RunInv, Typed, After, OwnResult, NoBackup
  <1>5. OpenInv
    BY <1>d DEF Init, OpenInv, ClosedByClose, NoOp
  <1>6. BackupInv
    BY <1>d DEF Init, BackupInv
  <1>7. QED
    BY <1>1, <1>2, <1>3, <1>4, <1>5, <1>6 DEF Inv

LEMMA Invariance == Spec => []Inv
  <1>1. Inv /\ [Next]_vars => Inv'
    <2>1. ASSUME Inv, [Next]_vars
          PROVE  Inv'
      BY <2>1, TypeNext, CountNext, CallNext, RunNext, OpenNext, BackupNext DEF Inv
    <2>2. QED
      BY <2>1
  <1>2. QED
    BY InvInit, <1>1, PTL DEF Spec

-----------------------------------------------------------------------------
\* The state stays within its types: however its calls are repeated, the session makes no
\* more sessions and starts no more runs than MaxRetries + 2 a call, and retries no more
\* than max_number_of_retries allows.
THEOREM RepairTypeCorrect == Spec => []TypeOK
  <1>1. Inv => TypeOK
    BY DEF Inv
  <1>2. QED
    BY Invariance, <1>1, PTL

\* run returns the result of a run of its own command, read from its output or from
\* the backup (OwnResult).
THEOREM ReturnsOwnResult == Spec => []OwnResult
  <1>1. Inv => OwnResult
    BY DEF Inv, RunInv
  <1>2. QED
    BY Invariance, <1>1, PTL

\* The open sessions are known, and close leaves none of them (ClosedByClose).
THEOREM CloseClosesAll == Spec => []ClosedByClose
  <1>1. Inv => ClosedByClose
    BY DEF Inv, OpenInv
  <1>2. QED
    BY Invariance, <1>1, PTL

\* Where _try_to_get_backup_result finds that the run was not started there is no backup
\* of it: in a session that has the work directory of an earlier one because the backup
\* is another run's, in one that has a new directory because there is no backup at all.
\* What it cannot tell from a new directory is an import whose output was garbled
\* (StoredNotRepeated).
THEOREM StoredRunNotRepeated == Spec => StoredNotRepeated
  <1> DEFINE Wrong == /\ pc # "finally" /\ pc' = "finally" /\ session # 0
                      /\ op'.pending = "RunNotStarted"
  <1>1. ASSUME Inv, [Next]_vars, Wrong
        PROVE  backup.id # RunId \/ garbled
    <2>a. op \in Calls
      BY <1>1 DEF Inv, TypeOK, Calls
    <2>1. CASE pc = "lookup"
      <3>a. /\ session = shell /\ shell \notin gone /\ (~old /\ ~garbled => backup = NoBackup)
            /\ RunId > 0
        BY <1>1, <2>1 DEF Inv, BackupInv, RunInv, Typed, After
      <3>1. CASE ReadBackup
        <4>1. ~HasOwnRun
          BY <1>1, <2>a, <2>1, <3>1 DEF ReadBackup, End, Finally, Calls
        <4>2. QED
          BY <3>a, <4>1 DEF HasOwnRun
      <3>2. CASE NoOldWorkdir
        BY <3>2, <3>a DEF NoOldWorkdir, NoBackup
      <3>3. CASE NotReachable
        BY <1>1, <2>a, <2>1, <3>3 DEF NotReachable, End, Finally, Calls
      <3>4. CASE ~ReadBackup /\ ~NoOldWorkdir /\ ~NotReachable
        BY <1>1, <2>1, <3>4
           DEF Next, User, Client, Run, Reset, Close, Begin, NotInitialized, Type, Triggered,
               NotTriggered, OutputRead, OutputTimeout, OutputEof, CloseOld, CloseBusy,
               CloseDead, Create,
               CreateGarbled, CreateDies, Make, Failures,
               CloseOriginal, CloseNext, CloseEnds, TriggeredLate, OutputGarbled, CreateFails,
               Remote, Start, Finish, Interrupted, Faults, Hang, Revive, Die, Reboot, vars, control
      <3>5. QED
        BY <3>1, <3>2, <3>3, <3>4
    <2>2. CASE pc # "lookup"
      <3>1. pc = "create" /\ op.back = "hung"
        BY <1>1, <2>2, ControlSteps DEF control, Starts, Ends, Return, Moves, GoesBack, Looks,
           Found, Repeats, Again, Closes
      <3>2. session = 0
        BY <1>1, <3>1 DEF Inv, CallInv
      <3>3. QED
        BY <1>1, <3>2
    <2>3. QED
      BY <2>1, <2>2
  <1>2. Inv /\ [Next]_vars => [Wrong => backup.id # RunId \/ garbled]_vars
    BY <1>1
  <1>3. QED
    BY Invariance, <1>2, PTL DEF Spec, StoredNotRepeated
=============================================================================
