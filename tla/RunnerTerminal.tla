---------------------------- MODULE RunnerTerminal ----------------------------
(****************************************************************************)
(* A terminal with a remote Python which recovers by itself:                *)
(* AutoRunnerTerminal on AutoRecoveringTerminal, the proxies of remote      *)
(* objects (_RemoteProxy, _RecursiveProxy), the ones which prepare fills    *)
(* again in every new session (_RemoteRunnerProxies), the GarbageManager of *)
(* the remote objects, and the responses of the calls that timed out, which *)
(* the RunnerHandler in the remote Python keeps.                            *)
(*                                                                          *)
(* One thread calls.  Between any two of its steps the connection may break *)
(* and the garbage collection of Python may delete a proxy.                 *)
(*                                                                          *)
(* The id of a session, id(self.get_session()), is here its number: that    *)
(* CPython may give the id of a freed session to a later one is left out.   *)
(****************************************************************************)
EXTENDS Integers, Sequences, FiniteSets

CONSTANTS MaxTries,    \* max_tries of AutoRecoveringTerminal.initialize
          MaxGarbage,  \* RunnerTerminal.MAX_GARBAGE
          MaxCalls,    \* bound on the calls of the user
          MaxFaults    \* bound on the faults of the environment

ASSUME ConstantsAssumption ==
    /\ MaxTries \in Nat \ {0}
    /\ {MaxGarbage, MaxCalls, MaxFaults} \subseteq Nat

VARIABLES
    session,      \* the number of AutoRecoveringTerminal._session, 0 for None
    last,         \* the number of the last session
    alive,        \* the sessions whose connection works
    unclosed,     \* those of them whose close_terminal raised
    initialized,  \* _initialized_session is session
    sid,          \* RunnerTerminal._session_id, 0 for None
    verifier,     \* _verify_proxy
    proxy,        \* the proxies which prepare sets
    closed,       \* RunnerTerminal.session is None
    held,         \* the owned proxies of the user
    garbage,      \* GarbageManager: the session id and the handles
    cleaning,     \* the handles of the 'del' which is being run
    objects,      \* the remote objects with a handle, of the current session
    stored,       \* the responses kept by the RunnerHandler of the session
    timeouts,     \* the calls whose RemoteTimeout the user keeps
    pc,           \* the step of the call
    frames,       \* the initialize_terminal which are under way, the last one innermost
    call,         \* the call: its operation, number, proxy, argument, the check of
                  \* them which comes next, and the response it fetches
    outcome,      \* what the last call returned or raised
    ran,          \* the last run: the session of its handle and its own, whether
                  \* the handle was checked just before, and an object found
    lost,         \* handles of objects that nothing will delete
    failed,       \* an initialize_terminal raised SessionInitializationFailed
    calls, faults \* the calls and the faults so far

terminal == <<session, last, alive, unclosed, initialized, sid, verifier, proxy, closed>>
remote == <<objects, stored>>
control == <<pc, frames, call, outcome, failed>>
history == <<ran, lost>>
vars == <<terminal, held, garbage, cleaning, remote, timeouts, control,
          history, calls, faults>>

-----------------------------------------------------------------------------
\* A proxy: the id of its session and, for what is checked, the session its
\* handle was made in.
Early == -1  \* 'uninitialized'
Proxies == [sid : Nat \cup {Early}, made : Nat, handle : Nat]
NoProxy == [sid |-> 0, made |-> 0, handle |-> 0]

\* _RemoteProxy.__init__, in the current session, and of a proxy for a name that
\* the user makes before there is a session
NewProxy(handle) == [sid |-> sid, made |-> session, handle |-> handle]
EarlyProxy == [sid |-> Early, made |-> 0, handle |-> 0]

\* _RemoteProxy.remote_proxy_verify does not raise InvalidProxySession.
IsSet(p) == p.sid # 0  \* mutant: the session of the proxy is not compared
IsValid(p) == p.sid = Early \/ (p.sid # 0 /\ p.sid = sid)

\* The proxies set early in prepare and used later in it by importmodule, and
\* those set last.
Prepared == {"importer", "daemon"}
PrepareSteps == <<"import", "set", "environ", "use", "setlast">>

\* The proxies given as an argument: one that prepare sets late, like popen's pipe.
Arguments == {"none", "daemon"}

NoCall == [op |-> "none", n |-> 0, proxy |-> "none", of |-> NoProxy, arg |-> "none",
           check |-> "none", response |-> 0]
NoOutcome == [op |-> "none", proxy |-> "none", result |-> "none"]
NoRun == [made |-> 0, session |-> 0, checked |-> FALSE, found |-> FALSE]

\* The proxy the call goes through.  A prepared one may have been set again
\* since the call began.
Target == IF call.proxy \in Prepared THEN proxy[call.proxy] ELSE call.of

Top == frames[Len(frames)]
Pop == SubSeq(frames, 1, Len(frames) - 1)
Push == Append(frames, [tries |-> MaxTries, step |-> 1])
WithTop(frame) == [frames EXCEPT ![Len(frames)] = frame]
Step == PrepareSteps[Top.step]

-----------------------------------------------------------------------------
\* The end of a call, and of a try to initialize.

Return(result) ==
    /\ pc' = "idle" /\ frames' = <<>> /\ call' = NoCall
    /\ outcome' = [op |-> call.op, proxy |-> call.proxy, result |-> result]

\* An exception leaves the call or, within prepare, the try.
Raise(error) ==
    IF frames = <<>>
    THEN Return(error) /\ UNCHANGED failed
    ELSE pc' = "tryfailed" /\ UNCHANGED <<frames, call, outcome, failed>>

GoOn(next) == pc' = next /\ UNCHANGED <<frames, call, outcome, failed>>

\* _close_in_auto_close: the proxies of the session are invalid.
ForgetId == sid' = 0 /\ UNCHANGED initialized  \* mutant: it stays initialized
Forget == initialized' = FALSE /\ sid' = 0

\* InteractiveSession.close_terminal, and what works after it.  It asks each shell
\* for its prompt, and when a slow one raises, the terminal is not closed, which
\* AutoRecoveringTerminal.close swallows.
CloseTerminal == unclosed' \in {unclosed, unclosed \cup (alive \cap {session})}
LeftOpen == alive  \* mutant: the old session is not closed
WithoutSession == (alive \ {session}) \cup (alive \cap unclosed')

\* AutoRecoveringTerminal.close
CloseSession ==
    IF session # 0
    THEN /\ Forget
         /\ CloseTerminal
         /\ alive' = WithoutSession /\ session' = 0
    ELSE UNCHANGED <<session, alive, unclosed, initialized, sid>>

Keep == UNCHANGED <<terminal, held, garbage, cleaning, remote, timeouts, history, calls, faults>>

Closing ==
    /\ CloseSession
    /\ UNCHANGED <<last, verifier, proxy, closed>>

\* run in auto_close: RunnerTerminalSessionBroken closes the session.
RaiseBroken ==
    /\ Closing
    /\ Raise("broken")

\* _recover_if_needed
Recover ==
    /\ Closing
    /\ pc' = "open" /\ frames' = Push
    /\ UNCHANGED <<call, outcome, failed>>

Fault == faults < MaxFaults /\ faults' = faults + 1

-----------------------------------------------------------------------------
\* The calls of the user.

\* initialize_if_needed comes before the check of the proxy (autoinitialize), and
\* both again for a proxy among the arguments (get_proxy_handle).
Begin(name, record, arg, check) ==
    /\ pc = "idle" /\ calls < MaxCalls
    /\ calls' = calls + 1
    /\ IF closed
       THEN /\ outcome' = [op |-> "call", proxy |-> name, result |-> "closed"]
            /\ UNCHANGED <<pc, frames, call>>
       ELSE /\ call' = [op |-> "call", n |-> calls + 1, proxy |-> name, of |-> record,
                        arg |-> arg, check |-> check, response |-> 0]
            /\ outcome' = NoOutcome
            /\ IF check = "none"
               THEN pc' = "run" /\ UNCHANGED frames
               ELSE IF session = 0
                    THEN pc' = "open" /\ frames' = Push
                    ELSE pc' = "verify" /\ UNCHANGED frames
    /\ ran' = NoRun
    /\ UNCHANGED <<terminal, held, garbage, cleaning, remote, timeouts, lost, failed, faults>>

CallPrepared == \E name \in Prepared, arg \in Arguments : Begin(name, NoProxy, arg, "proxy")
CallHeld == \E p \in held, arg \in Arguments : Begin("held", p, arg, "proxy")
CallEarly == \E arg \in Arguments : Begin("early", EarlyProxy, arg, "proxy")

\* A method wrapper that an earlier access left in the __dict__ of the proxy runs
\* its handle at once: nothing is initialized or checked but the argument.
CallMethod ==
    \E arg \in Arguments :
        LET check == IF arg = "none" THEN "none" ELSE "argument" IN
        \/ \E p \in held : Begin("held", p, arg, check)
        \/ \E name \in Prepared : proxy[name] # NoProxy /\ Begin(name, NoProxy, arg, check)

\* get_remote_proxy_response is only verified: it initializes nothing.
Fetch ==
    /\ pc = "idle" /\ calls < MaxCalls /\ ~closed
    /\ \E n \in timeouts, name \in Prepared :
        call' = [op |-> "fetch", n |-> calls + 1, proxy |-> name, of |-> NoProxy,
                 arg |-> "none", check |-> "proxy", response |-> n]
    /\ calls' = calls + 1
    /\ pc' = "check" /\ outcome' = NoOutcome /\ ran' = NoRun
    /\ UNCHANGED <<terminal, held, garbage, cleaning, remote, timeouts, lost,
                   frames, failed, faults>>

\* RunnerTerminal.close.  close_terminal may raise; its shells are popped, so that
\* the session is broken, and the next recovery closes it again.
Close ==
    /\ pc = "idle" /\ ~closed
    /\ \/ closed' = TRUE
       \/ session # 0 /\ UNCHANGED closed
    /\ alive' = alive \ {session}
    /\ UNCHANGED <<session, last, unclosed, initialized, sid, verifier, proxy>>
    /\ UNCHANGED <<held, garbage, cleaning, remote, timeouts, control, history,
                   calls, faults>>

-----------------------------------------------------------------------------
\* The garbage.

\* GarbageManager.add
AddToAll(handle) ==  \* mutant: the garbage of another session is kept
    garbage' = [sid |-> sid, handles |-> garbage.handles \cup {handle}]
Add(handle) ==
    garbage' = IF garbage.sid = sid
               THEN [garbage EXCEPT !.handles = @ \cup {handle}]
               ELSE [sid |-> sid, handles |-> {handle}]

\* _RemoteProxy.__del__ and add_handle_to_garbage.  What is added while the
\* garbage is cleaned is dropped with it.
Delete ==
    /\ \E p \in held :
        /\ call.of # p
        /\ held' = held \ {p}
        /\ IF p.sid = sid
           THEN /\ Add(p.handle)
                /\ lost' = IF cleaning # {} /\ garbage.sid = sid
                           THEN lost \cup {p.handle} ELSE lost
           ELSE UNCHANGED <<garbage, lost>>
    /\ UNCHANGED <<terminal, cleaning, remote, timeouts, control, ran, calls, faults>>

\* GarbageManager.clean_if_needed, at the start of every run
NeedsCleaning ==
    garbage.sid = sid /\ Cardinality(garbage.handles) > MaxGarbage

\* The steps where a run is due, those of prepare if their proxy is valid.
Running ==
    \/ pc = "verify" /\ IsValid(verifier)
    \/ pc = "use" /\ IsValid(proxy["importer"])
    \/ pc = "run"
    \/ pc = "prepare" /\ Step \in {"import", "environ"}

CanRun == Running /\ cleaning = {} /\ ~NeedsCleaning

StartCleaning ==
    /\ Running /\ cleaning = {} /\ NeedsCleaning
    /\ cleaning' = garbage.handles
    /\ UNCHANGED <<terminal, held, garbage, remote, timeouts, control, history,
                   calls, faults>>

NothingDeleted == objects  \* mutant: the remote objects stay
Deleted == objects \ cleaning

NotCleared == garbage  \* mutant: _garbage keeps the deleted handles
Cleared == [garbage EXCEPT !.handles = {}]

\* The handles that cannot be deleted end the remote Python.
Deletable == session \in alive /\ cleaning \subseteq objects

Cleaned ==
    /\ cleaning # {} /\ Deletable
    /\ objects' = Deleted
    /\ garbage' = Cleared
    /\ cleaning' = {}
    /\ UNCHANGED <<terminal, held, stored, timeouts, control, history, calls, faults>>

-----------------------------------------------------------------------------
\* Runs that end with RunnerTerminalSessionBroken.

\* What becomes of it: verify recovers, a run of the setup is not in auto_close,
\* any other closes the session.
Broken ==
    CASE pc = "verify" -> Recover
      [] pc = "prepare" /\ Step = "import" -> Raise("broken") /\ UNCHANGED terminal
      [] OTHER -> RaiseBroken

CleaningBreaks ==
    /\ cleaning # {} /\ ~Deletable
    /\ cleaning' = {}
    /\ Broken
    /\ UNCHANGED <<held, garbage, remote, timeouts, history, calls, faults>>

RunBreaks ==
    /\ CanRun /\ session \notin alive
    /\ Broken
    /\ UNCHANGED <<held, garbage, cleaning, remote, timeouts, history, calls, faults>>

\* exec_command awaits an answer of a server that works no longer than the timeout
\* of the run and prompt_timeout.
AnswerSlow ==
    /\ CanRun \/ cleaning # {}
    /\ session \in alive /\ Fault
    /\ cleaning' = {}
    /\ Broken
    /\ UNCHANGED <<held, garbage, remote, timeouts, history, calls>>

\* A value or an exception that cannot be pickled, of the call or of the response
\* it fetches, raises in _serialize, outside of pickle_errors.
RunUnpicklable ==
    /\ pc = "run" /\ CanRun /\ session \in alive /\ Fault
    /\ RaiseBroken
    /\ UNCHANGED <<held, garbage, cleaning, remote, timeouts, history, calls>>

-----------------------------------------------------------------------------
\* initialize_if_needed and initialize_terminal.

Found(p) == p.handle \in objects
Ran(p, checked) == ran' = [made |-> p.made, session |-> session, checked |-> checked,
                           found |-> Found(p)]

\* _verify_only_once: the proxy of _verify does not verify again.
VerifyAgain == "verify"  \* mutant: it does
AfterVerify == IF frames = <<>> THEN "check" ELSE "use"

\* _verify: without a proxy the session is broken.
VerifyWithout ==
    /\ pc = "verify" /\ verifier = NoProxy
    /\ Recover
    /\ UNCHANGED <<held, garbage, cleaning, remote, timeouts, history, calls, faults>>

\* The proxy of another session raises InvalidProxySession, which is none of
\* the broken_exceptions.
VerifyInvalid ==
    /\ pc = "verify" /\ verifier # NoProxy /\ ~IsValid(verifier)
    /\ Raise("invalid")
    /\ Keep

Verified ==
    /\ pc = "verify" /\ CanRun /\ session \in alive
    /\ Ran(verifier, TRUE)
    /\ GoOn(AfterVerify)
    /\ UNCHANGED <<terminal, held, garbage, cleaning, remote, timeouts, lost,
                   calls, faults>>

\* Nor is the RemoteTimeout of a slow answer.
VerifySlow ==
    /\ pc = "verify" /\ CanRun /\ session \in alive /\ Fault
    /\ Ran(verifier, TRUE)
    /\ Raise("timeout")
    /\ UNCHANGED <<terminal, held, garbage, cleaning, remote, timeouts, lost, calls>>

\* _initialize_terminal: spawn of the first shell and push of the others, which
\* may fail.
Open ==
    /\ pc = "open"
    /\ session' = last + 1 /\ last' = last + 1
    /\ Forget
    /\ CloseTerminal
    /\ \/ /\ alive' = WithoutSession \cup {last + 1}
          /\ GoOn("setup")
          /\ UNCHANGED faults
       \/ /\ Fault
          /\ alive' = WithoutSession
          /\ Raise("failed")
    /\ objects' = {} /\ stored' = {}
    /\ UNCHANGED <<verifier, proxy, closed, held, garbage, cleaning, timeouts,
                   history, calls>>

\* What setup_session knows when it is done: _set_session_metadata.
Metadata == initialized' = TRUE /\ sid' = session

\* _setup of AutoRunnerTerminal, before prepare
SetVerifier == verifier' = [sid |-> sid', made |-> session, handle |-> 0]

\* The shell and the RunnerHandler in it start in a session that works.
HandlerStarts == session \in alive

\* setup_session
Setup ==
    /\ pc = "setup"
    /\ CASE initialized ->
              GoOn("ready") /\ UNCHANGED <<initialized, sid, verifier>>
         [] ~initialized /\ HandlerStarts ->
              Metadata /\ SetVerifier /\ GoOn("prepare")
         [] OTHER ->
              Raise("broken") /\ UNCHANGED <<initialized, sid, verifier>>
    /\ UNCHANGED <<session, last, alive, unclosed, proxy, closed, held, garbage, cleaning,
                   remote, timeouts, history, calls, faults>>

NextStep ==
    IF Top.step = Len(PrepareSteps)
    THEN GoOn("ready")
    ELSE /\ pc' = "prepare"
         /\ frames' = WithTop([Top EXCEPT !.step = @ + 1])
         /\ UNCHANGED <<call, outcome, failed>>

\* A run of prepare.  Those of run_python may raise what the remote code raised.
PrepareRun ==
    /\ pc = "prepare" /\ Step \in {"import", "environ"}
    /\ CanRun /\ session \in alive
    /\ \/ NextStep /\ UNCHANGED faults
       \/ Step = "environ" /\ Fault /\ Raise("exception")
    /\ UNCHANGED <<terminal, held, garbage, cleaning, remote, timeouts, history, calls>>

\* set_from_remote_proxy(get_proxy_object(...))
PrepareSet ==
    /\ pc = "prepare" /\ Step \in {"set", "setlast"}
    /\ proxy' = [proxy EXCEPT ![IF Step = "set" THEN "importer" ELSE "daemon"] =
                    NewProxy(0)]
    /\ NextStep
    /\ UNCHANGED <<session, last, alive, unclosed, initialized, sid, verifier, closed, held,
                   garbage, cleaning, remote, timeouts, history, calls, faults>>

\* importmodule uses proxies, and they verify the session first: prepare may
\* initialize the terminal again.
PrepareUse ==
    /\ pc = "prepare" /\ Step = "use"
    /\ GoOn("verify")
    /\ Keep

Used ==
    /\ pc = "use"
    /\ IF IsValid(proxy["importer"])
       THEN /\ CanRun /\ session \in alive
            /\ Ran(proxy["importer"], TRUE)
            /\ NextStep
       ELSE Raise("invalid") /\ UNCHANGED ran
    /\ UNCHANGED <<terminal, held, garbage, cleaning, remote, timeouts, lost,
                   calls, faults>>

\* The terminal is initialized: for the user or within another prepare.
Ready ==
    /\ pc = "ready"
    /\ frames' = Pop
    /\ pc' = IF Len(frames) = 1 THEN "check" ELSE "use"
    /\ UNCHANGED <<call, outcome, failed>>
    /\ Keep

\* _retry
TriesLeft == Top.tries > 1

TryFailed ==
    /\ pc = "tryfailed"
    /\ IF TriesLeft
       THEN /\ pc' = "open"
            /\ frames' = WithTop([tries |-> Top.tries - 1, step |-> 1])
            /\ UNCHANGED <<call, outcome, failed>>
       ELSE /\ failed' = TRUE
            /\ IF Len(frames) = 1
               THEN Return("initfailed")
               ELSE frames' = Pop /\ UNCHANGED <<pc, call, outcome>>
    /\ Keep

-----------------------------------------------------------------------------
\* The checks and the run of the call.

\* remote_proxy_verify of the proxy, then of the argument, for which the terminal
\* may be initialized again: the proxy is not checked again after that.
Check ==
    /\ pc = "check"
    /\ CASE ~IsValid(IF call.check = "proxy" THEN Target ELSE proxy[call.arg]) ->
              Raise("invalid")
         [] IsValid(Target) /\ call.check = "proxy" /\ call.arg # "none" ->
              /\ pc' = "verify" /\ call' = [call EXCEPT !.check = "argument"]
              /\ UNCHANGED <<frames, outcome, failed>>
         [] OTHER -> GoOn("run")
    /\ Keep

\* The run follows the check of its proxy.
JustChecked == call.check = "proxy" /\ call.proxy # "early"

\* The handles of prepared and early proxies are names, which every session has;
\* the others are random, and only that of an object of the session is found.
Reached == Target.handle = 0 \/ Found(Target)

\* assign_and_run, and the proxy of its value or, for a basic type, the value.
\* The handle of the value is assigned in both cases.
Returned(n) ==
    /\ objects' = objects \cup {n}
    /\ \/ held' = held \cup {NewProxy(n)} /\ UNCHANGED lost
       \/ lost' = lost \cup {n} /\ UNCHANGED held

RunReturns ==
    /\ pc = "run" /\ call.op = "call" /\ CanRun /\ session \in alive /\ Reached
    /\ Ran(Target, JustChecked)
    /\ Returned(call.n)
    /\ Return("returned")
    /\ UNCHANGED <<terminal, garbage, cleaning, stored, timeouts, failed, calls, faults>>

\* pickle_errors: the remote exception is raised here.
RunRaises ==
    /\ pc = "run" /\ call.op = "call" /\ CanRun /\ session \in alive
    /\ Ran(Target, JustChecked)
    /\ Return("exception")
    /\ UNCHANGED <<terminal, held, garbage, cleaning, remote, timeouts, lost,
                   failed, calls, faults>>

\* _store_and_return_response: the thread goes on in the remote Python, and
\* assigns its value there or raises.
RunTimesOut ==
    /\ pc = "run" /\ call.op = "call" /\ CanRun /\ session \in alive
    /\ Ran(Target, JustChecked)
    /\ stored' = stored \cup {call.n}
    /\ \/ Reached /\ objects' = objects \cup {call.n}
       \/ UNCHANGED objects
    /\ timeouts' = timeouts \cup {call.n}
    /\ Return("timeout")
    /\ UNCHANGED <<terminal, held, garbage, cleaning, lost, failed, calls, faults>>

\* get_response of the RunnerHandler: the response of the thread, once.
FetchReturns ==
    /\ pc = "run" /\ call.op = "fetch" /\ CanRun /\ session \in alive
    /\ call.response \in stored \cap objects
    /\ stored' = stored \ {call.response}
    /\ Returned(call.response)
    /\ Ran(Target, JustChecked)
    /\ Return("returned")
    /\ UNCHANGED <<terminal, garbage, cleaning, timeouts, failed, calls, faults>>

FetchRaises ==
    /\ pc = "run" /\ call.op = "fetch" /\ CanRun /\ session \in alive
    /\ call.response \in stored \ objects
    /\ stored' = stored \ {call.response}
    /\ Ran(Target, JustChecked)
    /\ Return("exception")
    /\ UNCHANGED <<terminal, held, garbage, cleaning, objects, timeouts, lost,
                   failed, calls, faults>>

FetchTimesOut ==
    /\ pc = "run" /\ call.op = "fetch" /\ CanRun /\ session \in alive
    /\ call.response \in stored
    /\ Ran(Target, JustChecked)
    /\ Return("timeout")
    /\ UNCHANGED <<terminal, held, garbage, cleaning, remote, timeouts, lost,
                   failed, calls, faults>>

\* Outside of pickle_errors an unknown response ends the remote Python.
FetchUnknown ==
    /\ pc = "run" /\ call.op = "fetch" /\ CanRun /\ session \in alive
    /\ call.response \notin stored
    /\ RaiseBroken
    /\ UNCHANGED <<held, garbage, cleaning, remote, timeouts, history, calls, faults>>

-----------------------------------------------------------------------------
\* The environment.

Break ==
    /\ session \in alive /\ Fault
    /\ alive' = alive \ {session}
    /\ UNCHANGED <<session, last, unclosed, initialized, sid, verifier, proxy, closed, held,
                   garbage, cleaning, remote, timeouts, control, history, calls>>

-----------------------------------------------------------------------------
Init ==
    /\ session = 0 /\ last = 0 /\ alive = {} /\ unclosed = {}
    /\ initialized = FALSE /\ sid = 0 /\ closed = FALSE
    /\ verifier = NoProxy /\ proxy = [p \in Prepared |-> NoProxy]
    /\ held = {} /\ garbage = [sid |-> 0, handles |-> {}] /\ cleaning = {}
    /\ objects = {} /\ stored = {} /\ timeouts = {}
    /\ pc = "idle" /\ frames = <<>> /\ call = NoCall
    /\ outcome = NoOutcome /\ ran = NoRun
    /\ lost = {} /\ failed = FALSE
    /\ calls = 0 /\ faults = 0

User == CallPrepared \/ CallHeld \/ CallEarly \/ CallMethod \/ Fetch \/ Close

Client == \/ StartCleaning \/ Cleaned \/ CleaningBreaks \/ RunBreaks \/ AnswerSlow
          \/ RunUnpicklable
          \/ VerifyWithout \/ VerifyInvalid \/ Verified \/ VerifySlow
          \/ Open \/ Setup \/ PrepareRun \/ PrepareSet \/ PrepareUse \/ Used
          \/ Ready \/ TryFailed
          \/ Check \/ RunReturns \/ RunRaises \/ RunTimesOut
          \/ FetchReturns \/ FetchRaises \/ FetchTimesOut \/ FetchUnknown

Next == User \/ Client \/ Delete \/ Break

Spec == Init /\ [][Next]_vars

\* The thread of the caller goes on.  Neither the user nor the garbage
\* collection nor the connection has to do anything.
FairSpec == Spec /\ WF_vars(Client)

-----------------------------------------------------------------------------
\* Properties.

Results == {"none", "returned", "exception", "timeout", "broken", "invalid",
            "initfailed", "closed"}

\* The types of the state of AutoRecoveringTerminal, AutoRunnerTerminal, the
\* proxies, the GarbageManager and the RunnerHandler.
TypeOK ==
    /\ last \in Nat /\ session \in 0 .. last
    /\ alive \subseteq 1 .. last /\ unclosed \subseteq 1 .. last
    /\ initialized \in BOOLEAN /\ closed \in BOOLEAN /\ failed \in BOOLEAN
    /\ sid \in 0 .. last
    /\ verifier \in Proxies /\ proxy \in [Prepared -> Proxies]
    /\ held \subseteq Proxies
    /\ garbage \in [sid : Nat, handles : SUBSET (1 .. MaxCalls)]
    /\ {cleaning, objects, stored, timeouts, lost} \subseteq SUBSET (1 .. MaxCalls)
    /\ pc \in {"idle", "verify", "open", "setup", "prepare", "use", "ready",
               "tryfailed", "check", "run"}
    /\ frames \in Seq([tries : 1 .. MaxTries, step : 1 .. Len(PrepareSteps)])
    /\ outcome.result \in Results
    /\ calls \in 0 .. MaxCalls /\ faults \in 0 .. MaxFaults

\* A handle which is checked just before its run is run in the session it was made
\* in, however the session was replaced meanwhile (remote_proxy_verify).  What is
\* not checked, a cached method wrapper or a call whose argument made the terminal
\* recover, finds no object of another session under its handle.
HandleInItsSession == ran.checked \/ ran.found => ran.made = ran.session

\* No connection that works is left behind by a recovery, also when one starts
\* within the prepare of another, unless close_terminal raised.
OneConnection == alive \subseteq {session} \cup unclosed

\* The 'del' of the garbage finds all its handles: an unknown one would end the
\* remote Python of a session that works.
GarbageDeletable ==
    sid # 0 /\ garbage.sid = sid => garbage.handles \subseteq objects

\* Every remote object is still referred to, waits for its deletion or for its
\* response to be fetched, or is one of the values that were returned and of
\* the proxies deleted during a cleaning.
ObjectsAccountedFor ==
    sid # 0 => objects \subseteq
        {p.handle : p \in held} \cup stored \cup lost
            \cup (IF garbage.sid = sid THEN garbage.handles ELSE {})

\* Until an initialization has failed, the prepared proxies follow the session:
\* they are never those of an earlier one.
PreparedFollow ==
    outcome.op = "call" /\ outcome.proxy \in Prepared /\ outcome.result = "invalid"
        => failed

\* A connection that works is given up only for another try to initialize, by the
\* user, for a fault of its own (an answer that is too late or cannot be pickled),
\* or when a response is fetched that the session does not know: never for the
\* garbage that is deleted in it.
HealthyKept ==
    [][(session \in alive /\ session \notin alive') =>
         \/ pc \in {"open", "idle"}
         \/ faults' # faults
         \/ call.op = "fetch" /\ call.response \notin stored]_vars

\* Every call ends, however often its verification, its initialization and the
\* prepare of that one break.
CallsEnd == (pc # "idle") ~> (pc = "idle")

\* A call through a prepared proxy initializes what is not initialized: it does
\* not raise InvalidProxySession.
PreparedUsable ==
    ~(outcome.op = "call" /\ outcome.proxy \in Prepared /\ outcome.result = "invalid")
=============================================================================
