------------------------ MODULE RunnerTerminal_proofs ------------------------
(****************************************************************************)
(* Proofs about RunnerTerminal, for every number of tries, of garbage, of   *)
(* calls and of faults.                                                     *)
(****************************************************************************)
EXTENDS RunnerTerminal, SequenceTheorems, FiniteSetTheorems, TLAPS

\* The session in use is the last one, and the identity that the proxies are compared
\* with is its own, or none.
SessionInv ==
    /\ session \in {0, last} /\ sid \in {0, session}
    /\ OneConnection
    /\ pc \in {"prepare", "ready"} => sid # 0
    /\ pc = "setup" => ~initialized /\ sid = 0 /\ objects = {}
    /\ pc = "verify" => session # 0
    /\ session \in alive /\ pc # "setup" => verifier # NoProxy /\ sid = session

\* A proxy with an identity has that of the session its handle was made in.
Faithful(p) == p.sid # 0 => p.made = p.sid

ProxyInv ==
    /\ \A p \in held : Faithful(p) /\ p.sid \in 1 .. last
    /\ Faithful(verifier) /\ (call.proxy # "early" => Faithful(call.of))
    /\ \A name \in Prepared : Faithful(proxy[name])
    /\ HandleInItsSession

\* The handle of the call: a checked one stays valid until it is run, and a random one
\* is that of a proxy which the user has.
CheckInv ==
    /\ pc = "run" /\ JustChecked => IsValid(Target)
    /\ call.proxy = "held" => call.of \in held
    /\ call.proxy # "held" => call.of.handle = 0
    /\ \A name \in Prepared : proxy[name].handle = 0

\* The handles waiting for their deletion in the last session.
Waiting == IF garbage.sid = last THEN garbage.handles ELSE {}

\* A handle of the last session is in one place only, and its number is not that of
\* the running call.
HandleInv ==
    /\ \A p, q \in held : p.handle = q.handle => p = q
    /\ \A p \in held : p.sid = last <=> p.handle \in objects
    /\ \A p \in held : p.handle \notin stored \cup Waiting
    /\ Waiting \subseteq objects /\ stored \cap Waiting = {}
    /\ ObjectsAccountedFor
    /\ garbage.sid \in 0 .. last /\ (garbage.sid = 0 => garbage.handles = {})

Numbers == objects \cup stored \cup {p.handle : p \in held}
NumberInv ==
    /\ Numbers \subseteq 1 .. calls
    /\ call.op = "call" => call.n = calls /\ calls > 0 /\ call.n \notin Numbers

\* While the garbage is cleaned nothing else runs; what is added is lost.
CleaningInv ==
    cleaning # {} =>
        /\ Running /\ sid # 0 /\ garbage.sid = sid
        /\ cleaning \subseteq garbage.handles
        /\ garbage.handles \subseteq cleaning \cup lost

\* Where the initializations under way are: the outer ones are in importmodule, which
\* verifies the session.
UseStep == 4
FrameInv ==
    /\ pc \in {"idle", "check", "run"} => frames = <<>>
    /\ pc \in {"open", "setup", "prepare", "use", "ready", "tryfailed"} => frames # <<>>
    /\ pc = "use" \/ (pc = "verify" /\ frames # <<>>) => Top.step = UseStep
    /\ pc \in {"open", "setup"} => Top.step = 1
    /\ \A i \in 1 .. Len(frames) - 1 : frames[i].step = UseStep

Operations == {"none", "call", "fetch"}
CallRecords == [op : Operations, n : Nat, proxy : Prepared \cup {"none", "held", "early"},
                of : Proxies, arg : Arguments, check : {"proxy", "argument", "none"},
                response : Nat]
CallInv ==
    /\ call \in CallRecords
    /\ pc = "idle" <=> call.op = "none"
    /\ call.op = "fetch" => pc \in {"check", "run"} /\ call.arg = "none"
    /\ call.check = "none" => pc \in {"idle", "run"}
    /\ call.check = "argument" => call.arg = "daemon"
    /\ pc = "check" /\ call.op = "call" => session # 0

\* Unless an initialization failed, the proxies of prepare are those of the session.
Follows(p) == p.sid = sid
FollowInv ==
    ~failed =>
        /\ pc = "ready" \/ (session # 0 /\ (pc \in {"idle", "check", "run"}
                                             \/ (pc = "verify" /\ frames = <<>>))) =>
              sid # 0 /\ Follows(verifier) /\ \A name \in Prepared : Follows(proxy[name])
        /\ pc = "prepare" => /\ Follows(verifier)
                             /\ Top.step > 2 => Follows(proxy["importer"])
        /\ pc = "use" \/ (pc = "verify" /\ frames # <<>>) =>
              sid # 0 /\ Follows(verifier) /\ Follows(proxy["importer"])

Inv == /\ TypeOK /\ SessionInv /\ ProxyInv /\ CheckInv /\ HandleInv /\ NumberInv
       /\ CleaningInv /\ FrameInv /\ CallInv /\ FollowInv /\ PreparedFollow

-----------------------------------------------------------------------------
(* Types.                                                                   *)

Frames == [tries : 1 .. MaxTries, step : 1 .. 5]

Types == TypeOK /\ CallInv /\ FrameInv

\* The steps of prepare and the stack of the initializations.
LEMMA FrameTypes ==
  ASSUME Types
  PROVE  /\ Len(PrepareSteps) = 5 /\ frames \in Seq(Frames) /\ Len(frames) \in Nat
         /\ [tries |-> MaxTries, step |-> 1] \in Frames
         /\ Push \in Seq(Frames) /\ Push # <<>> /\ Len(Push) = Len(frames) + 1
         /\ Push[Len(Push)].step = 1 /\ \A i \in 1 .. Len(frames) : Push[i] = frames[i]
         /\ frames # <<>> =>
               /\ Top \in Frames /\ Len(frames) > 0
               /\ Pop \in Seq(Frames) /\ Len(Pop) = Len(frames) - 1
               /\ \A i \in 1 .. Len(frames) - 1 : Pop[i] = frames[i]
         /\ \A f \in Frames : frames # <<>> =>
               /\ WithTop(f) \in Seq(Frames) /\ Len(WithTop(f)) = Len(frames)
               /\ WithTop(f)[Len(frames)] = f
               /\ \A i \in 1 .. Len(frames) - 1 : WithTop(f)[i] = frames[i]
  <1>1. Len(PrepareSteps) = 5
    BY DEF PrepareSteps
  <1>2. frames \in Seq(Frames) /\ Len(frames) \in Nat
    BY <1>1 DEF Types, TypeOK, Frames
  <1>3. [tries |-> MaxTries, step |-> 1] \in Frames
    BY ConstantsAssumption DEF ConstantsAssumption, Frames
  <1>4. /\ Push \in Seq(Frames) /\ Push # <<>> /\ Len(Push) = Len(frames) + 1
        /\ Push[Len(Push)].step = 1 /\ \A i \in 1 .. Len(frames) : Push[i] = frames[i]
    BY <1>2, <1>3 DEF Push
  <1>5. ASSUME frames # <<>>
        PROVE  /\ Top \in Frames /\ Len(frames) > 0
               /\ Pop \in Seq(Frames) /\ Len(Pop) = Len(frames) - 1
               /\ \A i \in 1 .. Len(frames) - 1 : Pop[i] = frames[i]
    <2>1. Top \in Frames /\ Len(frames) > 0
      BY <1>2, <1>5 DEF Top
    <2>2. \A i \in 1 .. Len(frames) - 1 : frames[i] \in Frames
      BY <1>2
    <2>3. /\ SubSeq(frames, 1, Len(frames) - 1) \in Seq(Frames)
          /\ Len(SubSeq(frames, 1, Len(frames) - 1)) = IF 1 <= Len(frames) - 1
                                                     THEN Len(frames) - 1 - 1 + 1 ELSE 0
          /\ \A i \in 1 .. Len(frames) - 1 - 1 + 1 :
                SubSeq(frames, 1, Len(frames) - 1)[i] = frames[1 + i - 1]
      BY <1>2, <2>2, SubSeqProperties
    <2>a. Len(frames) - 1 - 1 + 1 = Len(frames) - 1 /\ \A i \in Int : 1 + i - 1 = i
      BY <1>2
    <2>4. QED
      BY <1>2, <2>1, <2>3, <2>a DEF Pop
  <1>6. ASSUME NEW f \in Frames, frames # <<>>
        PROVE  /\ WithTop(f) \in Seq(Frames) /\ Len(WithTop(f)) = Len(frames)
               /\ WithTop(f)[Len(frames)] = f
               /\ \A i \in 1 .. Len(frames) - 1 : WithTop(f)[i] = frames[i]
    <2>1. Len(frames) \in 1 .. Len(frames)
      BY <1>2, <1>5, <1>6
    <2>2. QED
      BY <1>2, <2>1 DEF WithTop
  <1>7. QED
    BY <1>1, <1>2, <1>3, <1>4, <1>5, <1>6

\* The steps of prepare.
LEMMA StepNames ==
  ASSUME Types, frames # <<>>
  PROVE  /\ Step = "import" <=> Top.step = 1
         /\ Step = "set" <=> Top.step = 2
         /\ Step = "environ" <=> Top.step = 3
         /\ Step = "use" <=> Top.step = 4
         /\ Step = "setlast" <=> Top.step = 5
         /\ Top.step \in 1 .. 5 /\ Top.tries \in 1 .. MaxTries
  <1>1. Top.step \in 1 .. 5 /\ Top.tries \in 1 .. MaxTries
    BY FrameTypes DEF Frames
  <1>2. QED
    BY <1>1 DEF Step, PrepareSteps

\* The next step of prepare.
LEMMA NextFrame ==
  ASSUME Types, frames # <<>>, NextStep
  PROVE  /\ Top.step = 5 => pc' = "ready" /\ frames' = frames
         /\ Top.step # 5 => pc' = "prepare" /\ Top'.step = Top.step + 1
  <1>a. Top \in Frames /\ Len(PrepareSteps) = 5 /\ Len(frames) \in Nat
    BY FrameTypes
  <1>1. CASE Top.step = 5
    BY <1>a, <1>1 DEF NextStep, GoOn
  <1>2. CASE Top.step # 5
    <2> DEFINE f == [Top EXCEPT !.step = @ + 1]
    <2>1. f = [tries |-> Top.tries, step |-> Top.step + 1] /\ Top.step + 1 \in 1 .. 5
      BY <1>a, <1>2 DEF Frames
    <2>2. f \in Frames /\ f.step = Top.step + 1
      BY <1>a, <2>1 DEF Frames
    <2>3. frames' = WithTop(f) /\ pc' = "prepare"
      BY <1>a, <1>2 DEF NextStep
    <2> HIDE DEF f
    <2>4. Len(frames') = Len(frames) /\ frames'[Len(frames)] = f
      BY <2>2, <2>3, FrameTypes
    <2>5. QED
      BY <1>2, <2>2, <2>3, <2>4 DEF Top
  <1>3. QED
    BY <1>1, <1>2

-----------------------------------------------------------------------------
(* What a step does with the call.                                          *)

\* A call of the user begins.
Begins ==
    /\ pc = "idle" /\ call.op = "none" /\ frames = <<>> /\ ~closed
    /\ call' \in CallRecords /\ call'.op = "call" /\ call'.n = calls + 1
    /\ \/ call'.proxy = "held" /\ call'.of \in held
       \/ call'.proxy \in Prepared /\ call'.of = NoProxy
       \/ call'.proxy = "early" /\ call'.of = EarlyProxy
    /\ call'.check = "argument" => call'.arg = "daemon"
    /\ \/ call'.check = "none" /\ pc' = "run" /\ frames' = frames
       \/ call'.check # "none" /\ session = 0 /\ pc' = "open" /\ frames' = Push
       \/ call'.check # "none" /\ session # 0 /\ pc' = "verify" /\ frames' = frames
    /\ calls < MaxCalls /\ calls' = calls + 1
    /\ outcome' = NoOutcome /\ ran' = NoRun /\ UNCHANGED failed
    /\ UNCHANGED <<terminal, held, garbage, cleaning, remote, timeouts, lost, faults>>

\* One on a closed terminal is refused.
Refused ==
    /\ pc = "idle" /\ closed /\ outcome'.result = "closed" /\ ran' = NoRun
    /\ calls < MaxCalls /\ calls' = calls + 1 /\ UNCHANGED <<pc, frames, call, failed>>
    /\ UNCHANGED <<terminal, held, garbage, cleaning, remote, timeouts, lost, faults>>

UserCalls == CallPrepared \/ CallHeld \/ CallEarly \/ CallMethod

LEMMA CallsBegin ==
  ASSUME Inv, UserCalls
  PROVE  Begins \/ Refused
  <1>1. PICK name \in Prepared \cup {"held", "early"}, p \in held \cup {NoProxy, EarlyProxy},
            arg \in Arguments, check \in {"proxy", "argument", "none"} :
          /\ Begin(name, p, arg, check)
          /\ \/ name = "held" /\ p \in held
             \/ name \in Prepared /\ p = NoProxy
             \/ name = "early" /\ p = EarlyProxy
          /\ check = "argument" => arg = "daemon"
    <2>1. CASE CallPrepared
      BY <2>1 DEF CallPrepared
    <2>2. CASE CallHeld
      BY <2>2 DEF CallHeld
    <2>3. CASE CallEarly
      BY <2>3 DEF CallEarly
    <2>4. CASE CallMethod
      <3>1. PICK arg \in Arguments :
              \/ \E p \in held :
                    Begin("held", p, arg, IF arg = "none" THEN "none" ELSE "argument")
              \/ \E name \in Prepared :
                    Begin(name, NoProxy, arg, IF arg = "none" THEN "none" ELSE "argument")
        BY <2>4 DEF CallMethod
      <3> DEFINE check == IF arg = "none" THEN "none" ELSE "argument"
      <3>2. check \in {"proxy", "argument", "none"} /\ (check = "argument" => arg = "daemon")
        BY <3>1 DEF Arguments
      <3> HIDE DEF check
      <3>3. (\E p \in held : Begin("held", p, arg, check))
              \/ (\E name \in Prepared : Begin(name, NoProxy, arg, check))
        BY <3>1 DEF check
      <3>4. QED
        BY <3>2, <3>3
    <2>5. QED
      BY <2>1, <2>2, <2>3, <2>4 DEF UserCalls
  <1>2. p \in Proxies /\ calls + 1 \in Nat
    BY ConstantsAssumption DEF Inv, TypeOK, NoProxy, EarlyProxy, Proxies
  <1>3. pc = "idle" /\ call.op = "none" /\ frames = <<>>
    BY <1>1 DEF Begin, Inv, CallInv, FrameInv
  <1>4. CASE closed
    BY <1>1, <1>4 DEF Begin, Refused
  <1>5. CASE ~closed
    <2>1. call' = [op |-> "call", n |-> calls + 1, proxy |-> name, of |-> p, arg |-> arg,
                   check |-> check, response |-> 0]
      BY <1>1, <1>5 DEF Begin
    <2>2. call' \in CallRecords
      BY <1>2, <2>1 DEF CallRecords, Operations
    <2>3. QED
      BY <1>1, <1>3, <1>5, <2>1, <2>2 DEF Begin, Begins
  <1>6. QED
    BY <1>4, <1>5

Moves(from, to) == pc = from /\ pc' = to /\ UNCHANGED <<frames, call, outcome, failed>>

\* The checks of the call lead to its run or to the initialization for its argument.
CheckPasses ==
    /\ Moves("check", "run") /\ UNCHANGED terminal
    /\ call.check = "proxy" => IsValid(Target)
ArgumentNext ==
    /\ pc = "check" /\ pc' = "verify" /\ call.arg # "none"
    /\ call' = [call EXCEPT !.check = "argument"] /\ UNCHANGED <<frames, outcome, failed>>
    /\ UNCHANGED terminal

\* The steps within a call.
Working == {"verify", "open", "setup", "prepare", "use", "check", "run"}

LEMMA StepControl ==
  ASSUME Inv, [Next]_vars
  PROVE  \/ UNCHANGED control
         \/ Begins \/ Refused \/ Fetch \/ Ready \/ TryFailed
         \/ \E e \in Results \ {"closed", "none"} : pc \in Working /\ Raise(e)
         \/ pc = "verify" /\ Recover
         \/ Moves("verify", AfterVerify) \/ Moves("open", "setup")
         \/ Moves("setup", "prepare")
         \/ Moves("prepare", "verify") /\ Top.step = UseStep
         \/ CheckPasses \/ ArgumentNext
         \/ pc \in {"prepare", "use"} /\ NextStep
         \/ \E e \in Results \ {"closed", "none", "invalid"} :
               pc = "run" /\ Return(e) /\ UNCHANGED failed
  <1>a. Types
    BY DEF Inv, Types
  <1>b. {"returned", "exception", "timeout", "broken", "invalid", "initfailed"} \subseteq
            Results \ {"closed", "none"}
    BY DEF Results
  <1>1. CASE UserCalls
    BY <1>1, CallsBegin
  <1>2. CASE Close \/ Delete \/ StartCleaning \/ Cleaned \/ Break \/ UNCHANGED vars
    BY <1>2 DEF Close, Delete, StartCleaning, Cleaned, Break, vars
  <1>3. CASE CleaningBreaks \/ RunBreaks \/ AnswerSlow
    <2>1. Running /\ Broken
      BY <1>3 DEF CleaningBreaks, RunBreaks, AnswerSlow, CanRun, Inv, CleaningInv
    <2>2. pc \in Working
      BY <2>1 DEF Running, Working
    <2>3. (pc = "verify" /\ Recover) \/ Raise("broken")
      BY <2>1 DEF Broken, RaiseBroken
    <2>4. QED
      BY <1>b, <2>2, <2>3
  <1>4. CASE VerifyWithout \/ Verified
    BY <1>4 DEF VerifyWithout, Verified, GoOn, Moves
  <1>5. CASE VerifyInvalid \/ VerifySlow
    BY <1>5, <1>b DEF VerifyInvalid, VerifySlow, Working
  <1>6. CASE Open
    <2>1. pc = "open" /\ frames # <<>>
      BY <1>6, <1>a DEF Open, Types, FrameInv
    <2>2. GoOn("setup") \/ Raise("failed")
      BY <1>6 DEF Open
    <2>3. CASE GoOn("setup")
      BY <2>1, <2>3 DEF GoOn, Moves
    <2>4. CASE Raise("failed")
      <3>1. Raise("broken")
        BY <2>1, <2>4 DEF Raise
      <3>2. QED
        BY <1>b, <2>1, <3>1 DEF Working
    <2>5. QED
      BY <2>2, <2>3, <2>4
  <1>7. CASE Setup
    BY <1>7, <1>b DEF Setup, GoOn, Moves, Working, Inv, SessionInv
  <1>8. CASE PrepareRun \/ PrepareSet
    BY <1>8, <1>b DEF PrepareRun, PrepareSet, Working
  <1>9. CASE PrepareUse
    BY <1>9, <1>a, StepNames DEF PrepareUse, GoOn, Moves, Types, FrameInv, UseStep
  <1>10. CASE Used
    BY <1>10, <1>b DEF Used, Working
  <1>11. CASE RunReturns \/ RunRaises \/ RunTimesOut \/ FetchReturns \/ FetchRaises
              \/ FetchTimesOut
    BY <1>11 DEF RunReturns, RunRaises, RunTimesOut, FetchReturns, FetchRaises, FetchTimesOut,
       Results
  <1>12. CASE FetchUnknown \/ RunUnpicklable
    BY <1>12, <1>b DEF FetchUnknown, RunUnpicklable, RaiseBroken, Working
  <1>13. CASE Check
    <2>1. \/ Raise("invalid")
          \/ /\ call.arg # "none" /\ pc' = "verify" /\ call' = [call EXCEPT !.check = "argument"]
             /\ UNCHANGED <<frames, outcome, failed>>
          \/ GoOn("run") /\ (call.check = "proxy" => IsValid(Target))
      BY <1>13 DEF Check
    <2>2. pc = "check" /\ UNCHANGED terminal
      BY <1>13 DEF Check, Keep
    <2>3. QED
      BY <1>b, <2>1, <2>2 DEF Working, GoOn, CheckPasses, ArgumentNext, Moves
  <1>14. QED
    BY <1>1, <1>2, <1>3, <1>4, <1>5, <1>6, <1>7, <1>8, <1>9, <1>10, <1>11, <1>12, <1>13
       DEF Next, User, Client, UserCalls

LEMMA ControlNext ==
  ASSUME Inv, [Next]_vars
  PROVE  /\ pc' \in {"idle", "verify", "open", "setup", "prepare", "use", "ready",
                     "tryfailed", "check", "run"}
         /\ frames' \in Seq(Frames)
         /\ outcome'.result \in Results
         /\ failed' \in BOOLEAN
         /\ call' \in CallRecords
         /\ FrameInv'
  <1> DEFINE Pcs == {"idle", "verify", "open", "setup", "prepare", "use", "ready",
                     "tryfailed", "check", "run"}
             Goal == /\ pc' \in Pcs /\ frames' \in Seq(Frames) /\ outcome'.result \in Results
                     /\ failed' \in BOOLEAN /\ call' \in CallRecords /\ FrameInv'
  <1>a. Types /\ FrameInv
    BY DEF Inv, Types
  <1>b. /\ pc \in Pcs /\ frames \in Seq(Frames) /\ outcome.result \in Results
        /\ failed \in BOOLEAN /\ call \in CallRecords
    BY <1>a, FrameTypes DEF Types, TypeOK, CallInv
  <1>c. NoCall \in CallRecords
    BY DEF NoCall, NoProxy, Proxies, Operations, CallRecords, Arguments
  <1>d. \A i \in 1 .. Len(frames) - 1 : frames[i].step = UseStep
    BY <1>a DEF FrameInv
  \* The stack of frames is unchanged.
  <1>e. ASSUME frames' = frames, pc' \in Pcs,
               pc' \in {"idle", "check", "run"} => frames = <<>>,
               pc' \in {"open", "setup", "prepare", "use", "ready", "tryfailed"} => frames # <<>>,
               pc' = "use" \/ (pc' = "verify" /\ frames # <<>>) => Top.step = UseStep,
               pc' \in {"open", "setup"} => Top.step = 1
        PROVE  FrameInv' /\ frames' \in Seq(Frames)
    <2>1. Top' = Top
      BY <1>e DEF Top
    <2>2. QED
      BY <1>b, <1>d, <1>e, <2>1 DEF FrameInv
  <1>f. \A e : Return(e) => outcome'.result = e
    BY DEF Return
  <1>1. CASE UNCHANGED control
    BY <1>1, <1>a, <1>b DEF control, FrameInv, Top
  <1>2. CASE Begins
    <2>4. outcome'.result \in Results
      BY <1>2 DEF Begins, NoOutcome, Results
    <2>1. CASE session = 0 /\ pc' = "open" /\ frames' = Push
      <3>1. /\ frames' # <<>> /\ frames' \in Seq(Frames) /\ Len(frames') = 1
            /\ frames'[Len(frames')].step = 1
        BY <1>2, <1>a, <2>1, FrameTypes DEF Begins
      <3>2. FrameInv'
        BY <2>1, <3>1 DEF FrameInv, Top
      <3>3. QED
        BY <1>2, <1>b, <2>1, <2>4, <3>1, <3>2 DEF Begins
    <2>2. CASE session # 0 /\ pc' = "verify" /\ frames' = frames
      BY <1>2, <1>b, <1>e, <2>2, <2>4 DEF Begins
    <2>3. CASE pc' = "run" /\ frames' = frames
      BY <1>2, <1>b, <1>e, <2>3, <2>4 DEF Begins
    <2>5. QED
      BY <1>2, <2>1, <2>2, <2>3 DEF Begins
  <1>3. CASE Refused
    BY <1>3, <1>a, <1>b DEF Refused, Results, FrameInv, Top
  <1>4. CASE Fetch
    <2>1. /\ call' \in CallRecords /\ pc = "idle" /\ pc' = "check"
          /\ UNCHANGED <<frames, failed>> /\ outcome'.result \in Results
      <3>1. PICK n \in timeouts, name \in Prepared :
              call' = [op |-> "fetch", n |-> calls + 1, proxy |-> name, of |-> NoProxy,
                       arg |-> "none", check |-> "proxy", response |-> n]
        BY <1>4 DEF Fetch
      <3>2. n \in Nat /\ calls + 1 \in Nat
        BY <1>a, ConstantsAssumption DEF Types, TypeOK, ConstantsAssumption
      <3>3. QED
        BY <1>4, <3>1, <3>2 DEF Fetch, NoProxy, Proxies, Operations, CallRecords, Arguments,
           NoOutcome, Results
    <2>2. QED
      BY <1>a, <1>b, <1>e, <2>1 DEF FrameInv
  <1>5. CASE Ready
    <2>1. /\ frames # <<>> /\ frames' = Pop /\ pc' = IF Len(frames) = 1 THEN "check" ELSE "use"
          /\ UNCHANGED <<call, outcome, failed>>
      BY <1>5, <1>a DEF Ready, FrameInv
    <2>2. /\ Len(frames) > 0 /\ Pop \in Seq(Frames) /\ Len(Pop) = Len(frames) - 1
          /\ \A i \in 1 .. Len(frames) - 1 : Pop[i] = frames[i]
          /\ Len(frames) \in Nat
      BY <1>a, <2>1, FrameTypes
    <2>3. CASE Len(frames) = 1
      BY <1>b, <2>1, <2>2, <2>3 DEF FrameInv
    <2>4. CASE Len(frames) # 1
      <3>1. Pop[Len(Pop)].step = UseStep /\ Pop # <<>>
        BY <1>d, <2>2, <2>4
      <3>2. \A i \in 1 .. Len(Pop) - 1 : Pop[i].step = UseStep
        BY <1>d, <2>2
      <3>3. QED
        BY <1>b, <2>1, <2>2, <2>4, <3>1, <3>2 DEF FrameInv, Top
    <2>5. QED
      BY <2>3, <2>4
  <1>6. CASE TryFailed
    <2>1. frames # <<>>
      BY <1>6, <1>a DEF TryFailed, FrameInv
    <2>2. /\ Len(frames) > 0 /\ Pop \in Seq(Frames) /\ Len(Pop) = Len(frames) - 1
          /\ \A i \in 1 .. Len(frames) - 1 : Pop[i] = frames[i]
          /\ Len(frames) \in Nat /\ Top \in Frames
      BY <1>a, <2>1, FrameTypes
    <2>3. CASE TriesLeft
      <3> DEFINE f == [tries |-> Top.tries - 1, step |-> 1]
      <3>1. f \in Frames
        BY <2>2, <2>3, ConstantsAssumption DEF TriesLeft, Frames, ConstantsAssumption
      <3>2. frames' = WithTop(f) /\ pc' = "open" /\ UNCHANGED <<call, outcome, failed>>
        BY <1>6, <2>3 DEF TryFailed
      <3> HIDE DEF f
      <3>3. /\ frames' \in Seq(Frames) /\ Len(frames') = Len(frames)
            /\ \A i \in 1 .. Len(frames) - 1 : frames'[i] = frames[i]
            /\ frames'[Len(frames')] = f
        BY <1>a, <2>1, <3>1, <3>2, FrameTypes
      <3>4. Top'.step = 1
        BY <3>3 DEF f, Top
      <3>5. FrameInv'
        BY <1>d, <2>2, <3>2, <3>3, <3>4 DEF FrameInv
      <3>6. QED
        BY <1>b, <3>2, <3>3, <3>5
    <2>4. CASE ~TriesLeft /\ Len(frames) = 1
      <3>1. failed' = TRUE /\ Return("initfailed")
        BY <1>6, <2>4 DEF TryFailed
      <3>2. frames' = <<>> /\ pc' = "idle" /\ call' = NoCall
        BY <3>1 DEF Return
      <3>3. QED
        BY <1>c, <1>f, <3>1, <3>2 DEF FrameInv, Results
    <2>5. CASE ~TriesLeft /\ Len(frames) # 1
      <3>1. failed' = TRUE /\ frames' = Pop /\ UNCHANGED <<pc, call, outcome>> /\ pc = "tryfailed"
        BY <1>6, <2>5 DEF TryFailed
      <3>2. FrameInv'
        BY <1>d, <2>2, <2>5, <3>1 DEF FrameInv
      <3>3. QED
        BY <1>b, <2>2, <3>1, <3>2
    <2>6. QED
      BY <2>3, <2>4, <2>5
  <1>7. ASSUME NEW e \in Results, pc \in Working, Raise(e) PROVE Goal
    <2>1. CASE frames = <<>>
      <3>1. pc' = "idle" /\ frames' = <<>> /\ call' = NoCall /\ failed' = failed /\ outcome'.result = e
        BY <1>7, <2>1 DEF Raise, Return
      <3>2. QED
        BY <1>b, <1>c, <1>e, <2>1, <3>1
    <2>2. CASE frames # <<>>
      BY <1>7, <1>b, <1>e, <2>2 DEF Raise
    <2>3. QED
      BY <2>1, <2>2
  <1>8. CASE pc = "verify" /\ Recover
    <2>1. frames' = Push /\ pc' = "open" /\ UNCHANGED <<call, outcome, failed>>
      BY <1>8 DEF Recover
    <2>2. /\ Push \in Seq(Frames) /\ Push # <<>> /\ Len(Push) = Len(frames) + 1
          /\ Push[Len(Push)].step = 1
          /\ \A i \in 1 .. Len(frames) : Push[i] = frames[i]
          /\ Len(frames) \in Nat
      BY <1>a, FrameTypes
    <2>3. \A i \in 1 .. Len(frames) : frames[i].step = UseStep
      BY <1>8, <1>a, <2>2 DEF FrameInv, Top
    <2>4. FrameInv'
      BY <2>1, <2>2, <2>3 DEF FrameInv, Top
    <2>5. QED
      BY <1>b, <2>1, <2>2, <2>4
  <1>9. CASE Moves("verify", AfterVerify)
    BY <1>9, <1>a, <1>b, <1>e DEF Moves, AfterVerify, FrameInv
  <1>10. CASE \/ Moves("open", "setup") \/ Moves("setup", "prepare")
              \/ Moves("prepare", "verify") /\ Top.step = UseStep
              \/ CheckPasses
    BY <1>10, <1>a, <1>b, <1>e DEF Moves, FrameInv, CheckPasses
  <1>11. CASE pc \in {"prepare", "use"} /\ NextStep
    <2>1. frames # <<>>
      BY <1>11, <1>a DEF FrameInv
    <2>2. CASE Top.step = Len(PrepareSteps)
      BY <1>11, <1>b, <1>e, <2>1, <2>2 DEF NextStep, GoOn
    <2>3. CASE Top.step # Len(PrepareSteps)
      <3> DEFINE f == [Top EXCEPT !.step = @ + 1]
      <3>1. f \in Frames /\ Len(frames) \in Nat
        <4>1. Top \in Frames /\ Len(PrepareSteps) = 5 /\ Len(frames) \in Nat
          BY <1>a, <2>1, FrameTypes
        <4>2. f = [tries |-> Top.tries, step |-> Top.step + 1]
          BY <4>1 DEF Frames
        <4>3. Top.step + 1 \in 1 .. 5
          BY <2>3, <4>1 DEF Frames
        <4>4. QED
          BY <4>1, <4>2, <4>3 DEF Frames
      <3>2. frames' = WithTop(f) /\ pc' = "prepare" /\ UNCHANGED <<call, outcome, failed>>
        BY <1>11, <2>3 DEF NextStep
      <3> HIDE DEF f
      <3>3. /\ frames' \in Seq(Frames) /\ Len(frames') = Len(frames)
            /\ \A i \in 1 .. Len(frames) - 1 : frames'[i] = frames[i]
        BY <1>a, <2>1, <3>1, <3>2, FrameTypes
      <3>4. FrameInv'
        BY <1>b, <1>d, <2>1, <3>1, <3>2, <3>3 DEF FrameInv
      <3>5. QED
        BY <1>b, <3>2, <3>3, <3>4
    <2>4. QED
      BY <2>2, <2>3
  <1>12. ASSUME NEW e \in Results, pc = "run", Return(e), failed' = failed PROVE Goal
    <2>1. pc' = "idle" /\ frames' = <<>> /\ call' = NoCall /\ outcome'.result = e
      BY <1>12 DEF Return
    <2>2. QED
      BY <1>12, <1>b, <1>c, <2>1 DEF FrameInv
  <1>13. CASE ArgumentNext
    <2>1. call' \in CallRecords
      BY <1>13, <1>b DEF ArgumentNext, CallRecords
    <2>2. frames = <<>>
      BY <1>13, <1>a DEF ArgumentNext, FrameInv
    <2>3. QED
      BY <1>13, <1>b, <1>e, <2>1, <2>2 DEF ArgumentNext
  <1>14. QED
    BY <1>1, <1>2, <1>3, <1>4, <1>5, <1>6, <1>7, <1>8, <1>9, <1>10, <1>11, <1>12, <1>13,
       StepControl

-----------------------------------------------------------------------------
(* What a step does with the session.                                       *)

\* Where an exception and the end of a call lead to.
LEMMA RaisedPc ==
  ASSUME NEW e, Raise(e) \/ Return(e)
  PROVE  pc' \in {"idle", "tryfailed"}
  BY DEF Raise, Return

\* A broken run closes the session, but at the start of prepare.
LEMMA BrokenEffect ==
  ASSUME Broken
  PROVE  /\ \/ Closing /\ (Recover \/ Raise("broken"))
            \/ pc = "prepare" /\ Step = "import" /\ Raise("broken") /\ UNCHANGED terminal
         /\ pc' \in {"idle", "tryfailed", "open"}
  <1>1. \/ pc = "verify" /\ Recover
        \/ pc = "prepare" /\ Step = "import" /\ Raise("broken") /\ UNCHANGED terminal
        \/ RaiseBroken
    BY DEF Broken
  <1>2. QED
    BY <1>1, RaisedPc DEF Recover, RaiseBroken

\* Once the session is closed there is none.
LEMMA ClosingEffect ==
  ASSUME Inv, Closing
  PROVE  /\ session' = 0 /\ sid' = 0 /\ alive' \subseteq unclosed' /\ alive' \subseteq alive
         /\ unclosed' \subseteq 1 .. last /\ 0 \notin alive'
         /\ UNCHANGED <<last, verifier, proxy, closed>>
         /\ initialized' \in BOOLEAN
  <1>1. /\ alive \subseteq {session} \cup unclosed /\ sid \in {0, session}
        /\ alive \subseteq 1 .. last /\ unclosed \subseteq 1 .. last /\ last \in Nat
        /\ initialized \in BOOLEAN
    BY DEF Inv, SessionInv, OneConnection, TypeOK
  <1>2. 0 \notin 1 .. last
    BY <1>1
  <1>3. UNCHANGED <<last, verifier, proxy, closed>>
    BY DEF Closing
  <1>4. CASE session = 0
    BY <1>1, <1>2, <1>3, <1>4 DEF Closing, CloseSession
  <1>5. CASE session # 0
    <2>1. /\ session' = 0 /\ sid' = 0 /\ initialized' = FALSE /\ alive' = WithoutSession
          /\ unclosed' = unclosed \/ unclosed' = unclosed \cup (alive \cap {session})
      BY <1>5 DEF Closing, CloseSession, Forget, CloseTerminal
    <2>2. /\ unclosed \subseteq unclosed' /\ unclosed' \subseteq 1 .. last
      BY <1>1, <2>1
    <2>3. alive' \subseteq unclosed' /\ alive' \subseteq alive
      BY <1>1, <2>1, <2>2 DEF WithoutSession
    <2>4. QED
      BY <1>1, <1>2, <1>3, <2>1, <2>2, <2>3
  <1>6. QED
    BY <1>4, <1>5

LEMMA SessionNext ==
  ASSUME Inv, [Next]_vars
  PROVE  SessionInv'
  <1>a. /\ SessionInv /\ last \in Nat /\ session \in 0 .. last /\ alive \subseteq 1 .. last
        /\ sid \in 0 .. last /\ unclosed \subseteq 1 .. last
    BY DEF Inv, TypeOK
  <1>b. Types
    BY DEF Inv, Types
  \* The session is kept.
  <1>k. ASSUME UNCHANGED <<session, last, unclosed, sid, initialized, verifier>>,
               alive' \subseteq alive,
               pc' \in {"prepare", "ready"} => sid # 0,
               pc' = "setup" => pc = "setup" /\ objects' \subseteq objects,
               pc' = "verify" => session # 0,
               pc = "setup" => pc' = "setup" \/ session \notin alive'
        PROVE  SessionInv'
    BY <1>a, <1>k DEF SessionInv, OneConnection
  \* It is closed.
  <1>c. ASSUME Closing, pc' \in {"idle", "tryfailed", "open"}
        PROVE  SessionInv'
    BY <1>a, <1>c, ClosingEffect DEF SessionInv, OneConnection
  <1>1. CASE UserCalls
    <2>1. /\ UNCHANGED <<terminal, objects>> /\ pc = "idle"
          /\ pc' \in {"idle", "open", "run"} \/ (pc' = "verify" /\ session # 0)
      BY <1>1, CallsBegin DEF Begins, Refused, remote
    <2>2. QED
      BY <1>k, <2>1 DEF terminal
  <1>2. CASE Fetch \/ Delete \/ StartCleaning \/ Cleaned \/ UNCHANGED vars
    <2>1. /\ UNCHANGED terminal /\ objects' \subseteq objects
          /\ pc' = pc \/ (pc = "idle" /\ pc' = "check")
      BY <1>2 DEF Fetch, Delete, StartCleaning, Cleaned, vars, control, remote, Deleted
    <2>2. QED
      BY <1>a, <1>k, <2>1 DEF terminal, SessionInv
  <1>3. CASE Close \/ Break
    <2>1. /\ UNCHANGED <<session, last, unclosed, initialized, sid, verifier, objects, pc>>
          /\ alive' \subseteq alive
      BY <1>3 DEF Close, Break, control, remote
    <2>2. QED
      BY <1>a, <1>k, <2>1 DEF SessionInv
  <1>4. CASE CleaningBreaks \/ RunBreaks \/ AnswerSlow
    <2>1. Running /\ Broken
      BY <1>4 DEF CleaningBreaks, RunBreaks, AnswerSlow, CanRun, Inv, CleaningInv
    <2>2. pc # "setup"
      BY <2>1 DEF Running
    <2>3. QED
      BY <1>c, <1>k, <2>1, <2>2, BrokenEffect DEF terminal
  <1>5. CASE VerifyWithout \/ FetchUnknown \/ RunUnpicklable
    BY <1>5, <1>c, RaisedPc DEF VerifyWithout, FetchUnknown, RunUnpicklable, Recover, RaiseBroken
  <1>6. CASE VerifyInvalid \/ VerifySlow
    <2>1. UNCHANGED terminal /\ pc' \in {"idle", "tryfailed"} /\ pc # "setup"
      BY <1>6, RaisedPc DEF VerifyInvalid, VerifySlow, Keep
    <2>2. QED
      BY <1>k, <2>1 DEF terminal
  <1>7. CASE Verified
    BY <1>7, <1>k DEF Verified, GoOn, AfterVerify, terminal
  <1>8. CASE Open
    <2>1. /\ session' = last + 1 /\ last' = last + 1 /\ initialized' = FALSE /\ sid' = 0
          /\ objects' = {} /\ pc' \in {"setup", "idle", "tryfailed"}
          /\ \/ pc' = "setup" /\ alive' = WithoutSession \cup {last + 1}
             \/ alive' = WithoutSession
          /\ unclosed' = unclosed \/ unclosed' = unclosed \cup (alive \cap {session})
      BY <1>8, RaisedPc DEF Open, Forget, GoOn, CloseTerminal
    <2>2. unclosed \subseteq unclosed' /\ unclosed' \subseteq 1 .. last
      BY <1>a, <2>1
    <2>3. WithoutSession \subseteq unclosed' /\ last + 1 \notin 1 .. last
      BY <1>a, <2>2 DEF WithoutSession, SessionInv, OneConnection
    <2>4. pc' # "setup" => session' \notin alive'
      BY <2>1, <2>2, <2>3
    <2>5. QED
      BY <2>1, <2>3, <2>4 DEF SessionInv, OneConnection
  <1>9. CASE Setup
    <2>1. ~initialized /\ pc = "setup" /\ UNCHANGED <<session, last, alive, unclosed>>
      BY <1>9, <1>a DEF Setup, SessionInv
    <2>2. CASE HandlerStarts
      <3>1. /\ initialized' = TRUE /\ sid' = session /\ verifier'.sid = session
            /\ pc' = "prepare" /\ session \in alive
        BY <1>9, <2>1, <2>2 DEF Setup, Metadata, SetVerifier, GoOn, HandlerStarts
      <3>2. session # 0
        BY <1>a, <3>1
      <3>3. verifier' # NoProxy
        BY <3>1, <3>2 DEF NoProxy
      <3>4. QED
        BY <1>a, <2>1, <3>1, <3>2, <3>3 DEF SessionInv, OneConnection
    <2>3. CASE ~HandlerStarts
      <3>1. UNCHANGED <<initialized, sid, verifier>> /\ Raise("broken")
        BY <1>9, <2>1, <2>3 DEF Setup
      <3>2. pc' \in {"idle", "tryfailed"}
        BY <3>1, RaisedPc
      <3>3. session \notin alive'
        BY <2>1, <2>3 DEF HandlerStarts
      <3>4. QED
        BY <1>k, <2>1, <3>1, <3>2, <3>3
    <2>4. QED
      BY <2>2, <2>3
  <1>10. CASE PrepareRun
    <2>1. UNCHANGED terminal /\ pc = "prepare" /\ pc' \in {"prepare", "ready", "idle", "tryfailed"}
      BY <1>10, RaisedPc DEF PrepareRun, NextStep, GoOn
    <2>2. QED
      BY <1>a, <1>k, <2>1 DEF terminal, SessionInv
  <1>11. CASE PrepareSet \/ PrepareUse
    <2>1. /\ UNCHANGED <<session, last, alive, unclosed, initialized, sid, verifier>>
          /\ pc = "prepare" /\ pc' \in {"prepare", "ready", "verify"}
      BY <1>11 DEF PrepareSet, PrepareUse, NextStep, GoOn, Keep, terminal
    <2>2. QED
      BY <1>a, <1>k, <2>1 DEF SessionInv
  <1>12. CASE Used
    <2>1. /\ UNCHANGED terminal /\ pc = "use"
          /\ pc' \in {"prepare", "ready", "idle", "tryfailed"}
          /\ pc' \in {"prepare", "ready"} => IsValid(proxy["importer"])
      BY <1>12, RaisedPc DEF Used, NextStep, GoOn
    <2>2. proxy["importer"] \in Proxies /\ Faithful(proxy["importer"])
      BY DEF Inv, TypeOK, ProxyInv, Prepared
    <2>3. IsValid(proxy["importer"]) => sid # 0
      BY <2>2 DEF IsValid, Faithful, Early, Proxies
    <2>4. QED
      BY <1>a, <1>k, <2>1, <2>3 DEF terminal, SessionInv
  <1>13. CASE Ready \/ TryFailed
    <2>1. /\ UNCHANGED terminal /\ pc \in {"ready", "tryfailed"}
          /\ pc' \in {"check", "use", "open", "idle", "tryfailed"}
      BY <1>13, RaisedPc DEF Ready, TryFailed, Keep
    <2>2. QED
      BY <1>k, <2>1 DEF terminal
  <1>14. CASE RunReturns \/ RunRaises \/ RunTimesOut \/ FetchReturns \/ FetchRaises
              \/ FetchTimesOut
    <2>1. UNCHANGED terminal /\ pc = "run" /\ pc' = "idle"
      BY <1>14 DEF RunReturns, RunRaises, RunTimesOut, FetchReturns, FetchRaises, FetchTimesOut,
         Return
    <2>2. QED
      BY <1>k, <2>1 DEF terminal
  <1>15. CASE Check
    <2>1. UNCHANGED <<terminal, objects>> /\ pc = "check"
      BY <1>15 DEF Check, Keep, remote
    <2>2. \/ pc' \in {"idle", "tryfailed", "run"}
          \/ pc' = "verify" /\ call.arg # "none"
      BY <1>15, RaisedPc DEF Check, GoOn
    <2>3. call.arg # "none" => session # 0
      BY <2>1 DEF Inv, CallInv, CallRecords, Operations
    <2>4. QED
      BY <1>k, <2>1, <2>2, <2>3 DEF terminal
  <1>16. QED
    BY <1>1, <1>2, <1>3, <1>4, <1>5, <1>6, <1>7, <1>8, <1>9, <1>10, <1>11, <1>12, <1>13, <1>14,
       <1>15 DEF Next, User, Client, UserCalls

-----------------------------------------------------------------------------
(* What a step does with the handles and the counters.                      *)

Handles == <<held, garbage, objects, stored, lost>>

\* A run goes through a valid proxy, or is that of the call.
RunsThrough(p) == IsValid(p) /\ session \in alive /\ Ran(p, TRUE)
RunsTarget == pc = "run" /\ session \in alive /\ Ran(Target, JustChecked)

LEMMA DataSteps ==
  ASSUME Inv, [Next]_vars
  PROVE  /\ \/ UNCHANGED terminal \/ Open \/ (Setup /\ HandlerStarts /\ ~initialized)
            \/ PrepareSet \/ Close \/ Break
            \/ Closing /\ pc' \in {"idle", "tryfailed", "open"}
         /\ UNCHANGED Handles \/ Delete \/ Cleaned \/ Open \/ RunReturns \/ RunTimesOut
            \/ FetchReturns \/ FetchRaises
         /\ UNCHANGED ran \/ ran' = NoRun \/ RunsThrough(verifier)
            \/ RunsThrough(proxy["importer"]) \/ RunsTarget
         /\ UNCHANGED timeouts \/ RunTimesOut
         /\ cleaning' = cleaning \/ cleaning' = {} \/ cleaning' = garbage.handles
         /\ \/ calls' = calls
            \/ calls < MaxCalls /\ calls' = calls + 1 /\ pc = "idle" /\ UNCHANGED Handles
         /\ faults' = faults \/ (faults < MaxFaults /\ faults' = faults + 1)
  <1>1. CASE UserCalls
    BY <1>1, CallsBegin DEF Begins, Refused, Handles, remote
  <1>2. CASE Fetch \/ StartCleaning \/ PrepareRun \/ PrepareUse \/ Ready \/ TryFailed
              \/ VerifyInvalid \/ Check \/ UNCHANGED vars
    BY <1>2 DEF Fetch, StartCleaning, PrepareRun, PrepareUse, Ready, TryFailed, VerifyInvalid,
       Check, Fault, Keep, vars, Handles, remote, history
  <1>3. CASE Close \/ Delete \/ Cleaned \/ Break \/ PrepareSet \/ Open
    BY <1>3 DEF Close, Delete, Cleaned, Break, PrepareSet, Open, Fault, Handles, remote, history
  <1>4. CASE Setup
    <2>1. ~initialized
      BY <1>4 DEF Setup, Inv, SessionInv
    <2>2. UNCHANGED terminal \/ HandlerStarts
      BY <1>4, <2>1 DEF Setup, terminal
    <2>3. QED
      BY <1>4, <2>1, <2>2 DEF Setup, Handles, remote, history
  <1>5. CASE CleaningBreaks \/ RunBreaks \/ AnswerSlow
    <2>1. UNCHANGED terminal \/ (Closing /\ pc' \in {"idle", "tryfailed", "open"})
      BY <1>5, BrokenEffect DEF CleaningBreaks, RunBreaks, AnswerSlow
    <2>2. QED
      BY <1>5, <2>1 DEF CleaningBreaks, RunBreaks, AnswerSlow, Fault, Handles, remote, history
  <1>6. CASE VerifyWithout \/ FetchUnknown \/ RunUnpicklable
    BY <1>6, RaisedPc DEF VerifyWithout, FetchUnknown, RunUnpicklable, Fault, Recover,
       RaiseBroken, Handles, remote, history
  <1>7. CASE Verified \/ VerifySlow
    BY <1>7 DEF Verified, VerifySlow, CanRun, Running, Fault, RunsThrough, terminal, Handles,
       remote
  <1>8. CASE Used
    BY <1>8 DEF Used, RunsThrough, terminal, Handles, remote
  <1>9. CASE RunReturns \/ RunTimesOut \/ FetchReturns \/ FetchRaises
    BY <1>9 DEF RunReturns, RunTimesOut, FetchReturns, FetchRaises, RunsTarget, terminal
  <1>10. CASE RunRaises \/ FetchTimesOut
    BY <1>10 DEF RunRaises, FetchTimesOut, RunsTarget, terminal, Handles, remote
  <1>11. QED
    BY <1>1, <1>2, <1>3, <1>4, <1>5, <1>6, <1>7, <1>8, <1>9, <1>10
       DEF Next, User, Client, UserCalls

\* The session and the proxies that the terminal keeps.
LEMMA SessionTypes ==
  ASSUME Inv, [Next]_vars
  PROVE  /\ last' \in Nat /\ session' \in 0 .. last' /\ alive' \subseteq 1 .. last'
         /\ unclosed' \subseteq 1 .. last'
         /\ initialized' \in BOOLEAN /\ closed' \in BOOLEAN /\ sid' \in 0 .. last'
         /\ verifier' \in Proxies /\ proxy' \in [Prepared -> Proxies]
  <1> DEFINE Goal == /\ last' \in Nat /\ session' \in 0 .. last' /\ alive' \subseteq 1 .. last'
                     /\ unclosed' \subseteq 1 .. last'
                     /\ initialized' \in BOOLEAN /\ closed' \in BOOLEAN /\ sid' \in 0 .. last'
                     /\ verifier' \in Proxies /\ proxy' \in [Prepared -> Proxies]
  <1>a. /\ last \in Nat /\ session \in 0 .. last /\ alive \subseteq 1 .. last
        /\ unclosed \subseteq 1 .. last
        /\ initialized \in BOOLEAN /\ closed \in BOOLEAN /\ sid \in 0 .. last
        /\ verifier \in Proxies /\ proxy \in [Prepared -> Proxies]
    BY DEF Inv, TypeOK
  <1>1. CASE UNCHANGED terminal
    BY <1>1, <1>a DEF terminal
  <1>2. CASE Closing
    BY <1>2, <1>a, ClosingEffect
  <1>3. CASE Open
    <2>1. /\ session' = last + 1 /\ last' = last + 1 /\ initialized' = FALSE /\ sid' = 0
          /\ alive' \subseteq alive \cup {last + 1} /\ UNCHANGED <<verifier, proxy, closed>>
          /\ unclosed' \subseteq unclosed \cup alive
      BY <1>3 DEF Open, Forget, WithoutSession, CloseTerminal
    <2>2. \A i \in 1 .. last : i \in 1 .. last + 1
      BY <1>a
    <2>3. last + 1 \in Nat /\ last + 1 \in 1 .. last + 1
      BY <1>a
    <2>4. alive' \subseteq 1 .. last' /\ unclosed' \subseteq 1 .. last'
      <3>1. alive' \subseteq 1 .. last + 1 /\ unclosed' \subseteq 1 .. last + 1
        BY <1>a, <2>1, <2>2, <2>3
      <3>2. QED
        BY <2>1, <3>1
    <2>5. session' \in 0 .. last' /\ sid' \in 0 .. last' /\ last' \in Nat
      BY <1>a, <2>1
    <2>6. QED
      BY <1>a, <2>1, <2>4, <2>5
  <1>4. CASE Setup /\ HandlerStarts /\ ~initialized
    <2>1. /\ UNCHANGED <<session, last, alive, unclosed, proxy, closed>> /\ initialized' = TRUE
          /\ sid' = session /\ verifier' = [sid |-> sid', made |-> session, handle |-> 0]
      BY <1>4 DEF Setup, Metadata, SetVerifier
    <2>2. verifier' \in Proxies
      BY <1>a, <2>1 DEF Proxies
    <2>3. QED
      BY <1>a, <2>1, <2>2
  <1>5. CASE PrepareSet
    <2>1. NewProxy(0) \in Proxies
      BY <1>a DEF NewProxy, Proxies
    <2>2. UNCHANGED <<session, last, alive, unclosed, initialized, sid, verifier, closed>>
      BY <1>5 DEF PrepareSet
    <2>3. \E name \in Prepared : proxy' = [proxy EXCEPT ![name] = NewProxy(0)]
      BY <1>5 DEF PrepareSet, Prepared
    <2>4. proxy' \in [Prepared -> Proxies]
      BY <1>a, <2>1, <2>3
    <2>5. QED
      BY <1>a, <2>2, <2>4
  <1>6. CASE Close \/ Break
    BY <1>6, <1>a DEF Close, Break
  <1>7. QED
    BY <1>1, <1>2, <1>3, <1>4, <1>5, <1>6, DataSteps

\* What a run assigns to.
LEMMA RunEffect ==
  ASSUME Inv, RunReturns \/ RunTimesOut \/ FetchReturns \/ FetchRaises
  PROVE  \E n \in 1 .. MaxCalls :
           /\ sid # 0 /\ sid = session
           /\ \/ n = call.n /\ call.op = "call" /\ UNCHANGED stored /\ Returned(n)
              \/ n = call.n /\ call.op = "call" /\ stored' = stored \cup {n}
                 /\ (objects' = objects \cup {n} \/ UNCHANGED objects)
                 /\ UNCHANGED <<held, lost>>
              \/ n \in stored /\ stored' = stored \ {n} /\ call.op = "fetch"
                 /\ n \in objects /\ Returned(n)
              \/ n \in stored /\ stored' = stored \ {n} /\ call.op = "fetch"
                 /\ n \notin objects /\ UNCHANGED <<objects, held, lost>>
           /\ UNCHANGED <<terminal, garbage, cleaning>>
           /\ pc = "run" /\ call' = NoCall
  <1>a. session \in alive /\ pc = "run"
    BY DEF RunReturns, RunTimesOut, FetchReturns, FetchRaises
  <1>b. sid # 0 /\ sid = session
    <2>1. 0 \notin alive
      BY DEF Inv, TypeOK
    <2>2. QED
      BY <1>a, <2>1 DEF Inv, SessionInv
  <1>c. call.op = "call" => call.n \in 1 .. MaxCalls
    BY ConstantsAssumption DEF ConstantsAssumption, Inv, NumberInv, TypeOK
  <1>1. CASE RunReturns
    BY <1>1, <1>b, <1>c DEF RunReturns, Returned, Return
  <1>2. CASE RunTimesOut
    BY <1>2, <1>b, <1>c DEF RunTimesOut, Return
  <1>3. CASE FetchReturns
    <2>1. call.response \in 1 .. MaxCalls
      BY <1>3 DEF FetchReturns, Inv, TypeOK
    <2>2. QED
      BY <1>3, <1>b, <2>1 DEF FetchReturns, Returned, Return
  <1>4. CASE FetchRaises
    <2>1. call.response \in 1 .. MaxCalls
      BY <1>4 DEF FetchRaises, Inv, TypeOK
    <2>2. QED
      BY <1>4, <1>b, <2>1 DEF FetchRaises, Return
  <1>5. QED
    BY <1>1, <1>2, <1>3, <1>4

LEMMA HandleTypes ==
  ASSUME Inv, [Next]_vars
  PROVE  /\ held' \subseteq Proxies
         /\ garbage' \in [sid : Nat, handles : SUBSET (1 .. MaxCalls)]
         /\ {cleaning', objects', stored', timeouts', lost'} \subseteq SUBSET (1 .. MaxCalls)
         /\ calls' \in 0 .. MaxCalls /\ faults' \in 0 .. MaxFaults
  <1>a. /\ held \subseteq Proxies
        /\ garbage \in [sid : Nat, handles : SUBSET (1 .. MaxCalls)]
        /\ cleaning \subseteq 1 .. MaxCalls /\ objects \subseteq 1 .. MaxCalls
        /\ stored \subseteq 1 .. MaxCalls /\ timeouts \subseteq 1 .. MaxCalls
        /\ lost \subseteq 1 .. MaxCalls
        /\ calls \in 0 .. MaxCalls /\ faults \in 0 .. MaxFaults /\ sid \in Nat /\ session \in Nat
    BY DEF Inv, TypeOK
  <1>1. calls' \in 0 .. MaxCalls /\ faults' \in 0 .. MaxFaults
    BY <1>a, DataSteps, ConstantsAssumption DEF ConstantsAssumption
  <1>2. cleaning' \subseteq 1 .. MaxCalls
    BY <1>a, DataSteps
  <1>3. timeouts' \subseteq 1 .. MaxCalls
    <2>1. CASE RunTimesOut
      <3>1. call.n \in 1 .. MaxCalls /\ timeouts' = timeouts \cup {call.n}
        BY <2>1, ConstantsAssumption DEF RunTimesOut, ConstantsAssumption, Inv, NumberInv, TypeOK
      <3>2. QED
        BY <1>a, <3>1
    <2>2. QED
      BY <1>a, <2>1, DataSteps
  <1> DEFINE Goal == /\ held' \subseteq Proxies
                     /\ garbage' \in [sid : Nat, handles : SUBSET (1 .. MaxCalls)]
                     /\ objects' \subseteq 1 .. MaxCalls /\ stored' \subseteq 1 .. MaxCalls
                     /\ lost' \subseteq 1 .. MaxCalls
  <1>4. Goal
    <2>1. CASE UNCHANGED Handles
      BY <1>a, <2>1 DEF Handles
    <2>2. CASE Delete
      <3>1. PICK p \in held :
              /\ held' = held \ {p} /\ UNCHANGED <<objects, stored>>
              /\ \/ Add(p.handle) /\ lost' \subseteq lost \cup {p.handle}
                 \/ UNCHANGED <<garbage, lost>>
        BY <2>2 DEF Delete, remote
      <3>2. p.handle \in 1 .. calls
        BY DEF Inv, NumberInv, Numbers
      <3>3. p.handle \in 1 .. MaxCalls
        BY <1>a, <3>2, ConstantsAssumption DEF ConstantsAssumption
      <3>4. Add(p.handle) => garbage' \in [sid : Nat, handles : SUBSET (1 .. MaxCalls)]
        BY <1>a, <3>3 DEF Add
      <3>5. QED
        BY <1>a, <3>1, <3>3, <3>4
    <2>3. CASE Cleaned
      <3>1. garbage' = [garbage EXCEPT !.handles = {}] /\ objects' = objects \ cleaning
            /\ UNCHANGED <<held, stored, lost>>
        BY <2>3 DEF Cleaned, Deleted, Cleared, history
      <3>2. QED
        BY <1>a, <3>1
    <2>4. CASE Open
      BY <1>a, <2>4 DEF Open, history
    <2>5. CASE RunReturns \/ RunTimesOut \/ FetchReturns \/ FetchRaises
      <3>1. PICK n \in 1 .. MaxCalls :
              /\ objects' \subseteq objects \cup {n} /\ stored' \subseteq stored \cup {n}
              /\ UNCHANGED garbage
              /\ UNCHANGED <<held, lost>> \/ Returned(n)
        BY <2>5, RunEffect DEF Returned
      <3>2. NewProxy(n) \in Proxies
        BY <1>a DEF NewProxy, Proxies
      <3>3. held' \subseteq Proxies /\ lost' \subseteq 1 .. MaxCalls
        BY <1>a, <3>1, <3>2 DEF Returned
      <3>4. QED
        BY <1>a, <3>1, <3>3
    <2>6. QED
      BY <2>1, <2>2, <2>3, <2>4, <2>5, DataSteps
  <1>5. QED
    BY <1>1, <1>2, <1>3, <1>4

LEMMA TypeNext ==
  ASSUME Inv, [Next]_vars
  PROVE  TypeOK'
  <1>1. Len(PrepareSteps) = 5
    BY DEF PrepareSteps
  <1>2. QED
    BY <1>1, ControlNext, SessionTypes, HandleTypes DEF TypeOK, Frames

-----------------------------------------------------------------------------
(* Proxies and calls.                                                       *)

\* Which call there is after a step.
LEMMA CallSteps ==
  ASSUME Inv, [Next]_vars
  PROVE  \/ call' = NoCall /\ pc' = "idle"
         \/ call' = call /\ pc' = pc
         \/ call' = call /\ pc \notin {"idle", "check", "run"} /\ pc' \notin {"idle", "run"}
              /\ (pc' = "check" => pc \in {"verify", "ready"})
         \/ CheckPasses \/ ArgumentNext \/ Begins \/ Fetch
  <1>a. pc \in {"check", "run"} => frames = <<>>
    BY DEF Inv, FrameInv
  <1>1. CASE \E e : (pc \in Working /\ Raise(e)) \/ Return(e)
    BY <1>1, <1>a DEF Raise, Return, Working
  <1>2. CASE UNCHANGED control \/ Refused
    BY <1>2 DEF Refused, control
  <1>3. CASE Ready
    BY <1>3 DEF Ready
  <1>4. CASE TryFailed
    BY <1>4 DEF TryFailed, Return
  <1>5. CASE pc = "verify" /\ Recover
    BY <1>5 DEF Recover
  <1>6. CASE \/ Moves("verify", AfterVerify) \/ Moves("open", "setup")
             \/ Moves("setup", "prepare") \/ Moves("prepare", "verify")
             \/ pc \in {"prepare", "use"} /\ NextStep
    BY <1>6 DEF Moves, AfterVerify, NextStep, GoOn
  <1>7. QED
    BY <1>1, <1>2, <1>3, <1>4, <1>5, <1>6, StepControl

\* The session and the proxies after a step that leads to the check or to the run.
LEMMA SteadyTerminal ==
  ASSUME Inv, [Next]_vars, pc' \in {"check", "run"}, pc \notin {"open", "setup", "prepare"}
  PROVE  UNCHANGED <<session, sid, proxy>>
  BY DataSteps DEF terminal, Open, Setup, PrepareSet, Close, Break

LEMMA ProxyNext ==
  ASSUME Inv, [Next]_vars
  PROVE  ProxyInv'
  <1>a. /\ ProxyInv /\ last \in Nat /\ session \in {0, last} /\ sid \in {0, session}
        /\ held \subseteq Proxies /\ call \in CallRecords /\ proxy \in [Prepared -> Proxies]
        /\ verifier \in Proxies /\ call.of \in Proxies
    BY DEF Inv, TypeOK, SessionInv, CallInv, CallRecords
  <1>b. Faithful(NoProxy)
    BY DEF Faithful, NoProxy
  <1>c. \A n : NewProxy(n).sid = sid /\ NewProxy(n).made = session /\ Faithful(NewProxy(n))
    BY <1>a DEF Faithful, NewProxy
  <1>1. \A p \in held' : Faithful(p) /\ p.sid \in 1 .. last'
    <2>1. held' \subseteq held \/ \E n : sid # 0 /\ held' \subseteq held \cup {NewProxy(n)}
      <3>1. CASE RunReturns \/ RunTimesOut \/ FetchReturns \/ FetchRaises
        BY <3>1, RunEffect DEF Returned
      <3>2. QED
        BY <3>1, DataSteps DEF Handles, Delete, Cleaned, Open
    <2>2. last' = last \/ last' = last + 1
      BY DataSteps, ClosingEffect DEF terminal, Open, Setup, PrepareSet, Close, Break
    <2>3. \A i \in 1 .. last : i \in 1 .. last'
      BY <1>a, <2>2
    <2>4. sid # 0 => sid \in 1 .. last
      BY <1>a
    <2>5. QED
      BY <1>a, <1>c, <2>1, <2>3, <2>4 DEF ProxyInv
  <1>2. Faithful(verifier')
    <2>1. CASE Setup /\ HandlerStarts /\ ~initialized
      BY <2>1 DEF Setup, Metadata, SetVerifier, Faithful
    <2>2. QED
      BY <1>a, <2>1, DataSteps DEF ProxyInv, terminal, Open, PrepareSet, Close, Break, Closing
  <1>3. call'.proxy # "early" => Faithful(call'.of)
    <2>1. CASE Begins
      BY <1>a, <1>b, <2>1 DEF Begins, ProxyInv
    <2>2. CASE Fetch \/ call' = NoCall
      BY <1>b, <2>2 DEF Fetch, NoCall
    <2>3. CASE ArgumentNext
      <3>1. call'.of = call.of /\ call'.proxy = call.proxy
        BY <1>a, <2>3 DEF ArgumentNext, CallRecords
      <3>2. QED
        BY <1>a, <3>1 DEF ProxyInv
    <2>4. QED
      BY <1>a, <2>1, <2>2, <2>3, CallSteps DEF ProxyInv, CheckPasses, Moves
  <1>4. \A name \in Prepared : Faithful(proxy'[name])
    <2>1. CASE PrepareSet
      <3>1. \E name \in Prepared : proxy' = [proxy EXCEPT ![name] = NewProxy(0)]
        BY <2>1 DEF PrepareSet, Prepared
      <3>2. QED
        BY <1>a, <1>c, <3>1 DEF ProxyInv
    <2>2. QED
      BY <1>a, <2>1, DataSteps DEF ProxyInv, terminal, Open, Setup, Close, Break, Closing
  <1>5. HandleInItsSession'
    <2>1. ASSUME NEW p \in Proxies, IsValid(p), Faithful(p) PROVE p.made = session
      BY <1>a, <2>1 DEF IsValid, Faithful, Early, Proxies
    <2>2. ASSUME NEW p \in Proxies, RunsThrough(p), Faithful(p) PROVE HandleInItsSession'
      BY <2>1, <2>2 DEF RunsThrough, Ran, HandleInItsSession
    <2>3. /\ Faithful(verifier) /\ Faithful(proxy["importer"]) /\ proxy["importer"] \in Proxies
          /\ call.proxy # "early" => Faithful(Target)
          /\ Target \in Proxies
      BY <1>a DEF ProxyInv, Target, Prepared
    <2>4. CASE RunsTarget
      <3>1. JustChecked => Target.made = session
        BY <2>1, <2>3, <2>4 DEF RunsTarget, JustChecked, Inv, CheckInv
      <3>2. Found(Target) => Target.made = session
        <4>1. SUFFICES ASSUME Found(Target) PROVE Target.made = session
          OBVIOUS
        <4>2. 0 \notin objects /\ 0 \notin alive
          BY DEF Inv, TypeOK
        <4>3. Target \in held
          BY <4>1, <4>2 DEF Found, Target, Inv, CheckInv
        <4>4. Target.sid = last /\ Faithful(Target) /\ last # 0
          BY <1>a, <4>1, <4>3 DEF Found, Inv, HandleInv, ProxyInv
        <4>5. session = last
          BY <1>a, <2>4, <4>2 DEF RunsTarget
        <4>6. QED
          BY <4>4, <4>5 DEF Faithful
      <3>3. QED
        BY <2>4, <3>1, <3>2 DEF RunsTarget, Ran, HandleInItsSession
    <2>5. QED
      BY <1>a, <2>2, <2>3, <2>4, DataSteps DEF ProxyInv, HandleInItsSession, NoRun
  <1>6. QED
    BY <1>1, <1>2, <1>3, <1>4, <1>5 DEF ProxyInv

LEMMA CheckNext ==
  ASSUME Inv, [Next]_vars
  PROVE  CheckInv'
  <1>a. /\ CheckInv /\ held \subseteq Proxies /\ proxy \in [Prepared -> Proxies]
        /\ call \in CallRecords /\ (pc = "idle" <=> call.op = "none")
    BY DEF Inv, TypeOK, CallInv
  <1>b. Prepared \cap {"none", "held", "early"} = {} /\ NoProxy.handle = 0 /\ EarlyProxy.handle = 0
    BY DEF Prepared, NoProxy, EarlyProxy
  <1>1. pc' = "run" /\ JustChecked' => IsValid(Target)'
    <2> SUFFICES ASSUME pc' = "run", JustChecked' PROVE IsValid(Target)'
      OBVIOUS
    <2>1. call' = call /\ pc \in {"check", "run"} /\ (pc = "check" => CheckPasses)
      BY CallSteps DEF JustChecked, ArgumentNext, CheckPasses, Moves, Begins, Fetch
    <2>2. UNCHANGED <<sid, proxy>>
      BY <2>1, SteadyTerminal
    <2>3. IsValid(Target)
      BY <1>a, <2>1 DEF CheckPasses, JustChecked, CheckInv
    <2>4. QED
      BY <2>1, <2>2, <2>3 DEF IsValid, Target
  <1>2. /\ call'.proxy = "held" => call'.of \in held'
        /\ call'.proxy # "held" => call'.of.handle = 0
    <2>1. CASE Begins
      BY <1>b, <2>1 DEF Begins
    <2>2. CASE Fetch \/ call' = NoCall
      BY <1>b, <2>2 DEF Fetch, NoCall
    <2>3. CASE call'.of = call.of /\ call'.proxy = call.proxy
      <3>1. call.of \in held => call.of \in held'
        <4>1. CASE RunReturns \/ RunTimesOut \/ FetchReturns \/ FetchRaises
          BY <4>1, RunEffect DEF Returned
        <4>2. QED
          BY <4>1, DataSteps DEF Handles, Delete, Cleaned, Open
      <3>2. QED
        BY <1>a, <2>3, <3>1 DEF CheckInv
    <2>4. CASE ArgumentNext
      <3>1. call'.of = call.of /\ call'.proxy = call.proxy
        BY <1>a, <2>4 DEF ArgumentNext, CallRecords
      <3>2. QED
        BY <2>3, <3>1
    <2>5. QED
      BY <2>1, <2>2, <2>3, <2>4, CallSteps DEF CheckPasses, Moves
  <1>3. \A name \in Prepared : proxy'[name].handle = 0
    <2>1. CASE PrepareSet
      <3>1. \E name \in Prepared : proxy' = [proxy EXCEPT ![name] = NewProxy(0)]
        BY <2>1 DEF PrepareSet, Prepared
      <3>2. NewProxy(0).handle = 0
        BY DEF NewProxy
      <3>3. QED
        BY <1>a, <3>1, <3>2 DEF CheckInv
    <2>2. CASE UNCHANGED proxy
      BY <1>a, <2>2 DEF CheckInv
    <2>3. QED
      BY <2>1, <2>2, DataSteps DEF terminal, Open, Setup, Close, Break, Closing
  <1>4. QED
    BY <1>1, <1>2, <1>3 DEF CheckInv

LEMMA CallNext ==
  ASSUME Inv, [Next]_vars
  PROVE  CallInv'
  <1>a. /\ CallInv /\ FrameInv /\ SessionInv /\ last \in Nat
    BY DEF Inv, TypeOK
  <1>b. ArgumentNext => call' \in CallRecords /\ call'.op = call.op /\ call'.arg = call.arg
                        /\ call'.check = "argument" /\ call.arg = "daemon"
    BY <1>a DEF ArgumentNext, CallInv, CallRecords, Arguments
  <1>1. pc' = "idle" <=> call'.op = "none"
    BY <1>a, <1>b, CallSteps DEF CallInv, Begins, Fetch, NoCall, CheckPasses, ArgumentNext, Moves
  <1>2. call'.op = "fetch" => pc' \in {"check", "run"} /\ call'.arg = "none"
    BY <1>a, <1>b, CallSteps DEF CallInv, Begins, Fetch, NoCall, CheckPasses, ArgumentNext, Moves
  <1>3. /\ call'.check = "none" => pc' \in {"idle", "run"}
        /\ call'.check = "argument" => call'.arg = "daemon"
    BY <1>a, <1>b, CallSteps DEF CallInv, Begins, Fetch, NoCall, CheckPasses, ArgumentNext, Moves
  <1>4. pc' = "check" /\ call'.op = "call" => session' # 0
    <2> SUFFICES ASSUME pc' = "check", call'.op = "call" PROVE session' # 0
      OBVIOUS
    <2>1. call' = call /\ pc \in {"check", "verify", "ready"}
      BY CallSteps DEF Begins, Fetch, NoCall, CheckPasses, ArgumentNext, Moves
    <2>2. session # 0
      BY <1>a, <2>1 DEF CallInv, SessionInv
    <2>3. QED
      BY <2>1, <2>2, SteadyTerminal
  <1>5. QED
    BY <1>1, <1>2, <1>3, <1>4, ControlNext DEF CallInv

LEMMA NumberNext ==
  ASSUME Inv, [Next]_vars
  PROVE  NumberInv'
  <1>a. /\ NumberInv /\ calls \in Nat /\ (pc = "idle" <=> call.op = "none")
        /\ call \in CallRecords
    BY ConstantsAssumption DEF ConstantsAssumption, Inv, TypeOK, CallInv
  <1>b. Numbers \subseteq 1 .. calls
    BY <1>a DEF NumberInv
  <1>c. calls' \in Nat /\ calls <= calls' /\ \A i \in 1 .. calls : i \in 1 .. calls'
    BY <1>a, DataSteps
  <1>1. CASE calls' = calls + 1 /\ pc = "idle" /\ UNCHANGED Handles
    <2>1. Numbers' = Numbers
      BY <1>1 DEF Handles, Numbers
    <2>2. call'.op = "call" => call'.n = calls + 1
      BY <1>a, <1>1, CallSteps DEF Begins, Fetch, NoCall, CheckPasses, ArgumentNext, Moves
    <2>3. calls + 1 \notin 1 .. calls /\ calls + 1 > 0
      BY <1>a
    <2>4. QED
      BY <1>b, <1>c, <1>1, <2>1, <2>2, <2>3 DEF NumberInv
  <1>2. CASE calls' = calls /\ (RunReturns \/ RunTimesOut \/ FetchReturns \/ FetchRaises)
    <2>1. PICK n : /\ objects' \subseteq objects \cup {n} /\ stored' \subseteq stored \cup {n}
                   /\ call' = NoCall
                   /\ (n = call.n /\ call.op = "call") \/ n \in stored
                   /\ held' = held \/ Returned(n)
      BY <1>2, RunEffect DEF Returned
    <2>2. n \in 1 .. calls
      BY <1>a, <1>b, <2>1 DEF NumberInv, Numbers
    <2>3. {p.handle : p \in held'} \subseteq {p.handle : p \in held} \cup {n}
      BY <2>1 DEF Returned, NewProxy
    <2>4. Numbers' \subseteq 1 .. calls
      BY <1>b, <2>1, <2>2, <2>3 DEF Numbers
    <2>5. QED
      BY <1>2, <2>1, <2>4 DEF NumberInv, NoCall
  <1>3. CASE calls' = calls /\ ~(RunReturns \/ RunTimesOut \/ FetchReturns \/ FetchRaises)
    <2>1. objects' \subseteq objects /\ held' \subseteq held /\ stored' \subseteq stored
      BY <1>3, DataSteps DEF Handles, Delete, Cleaned, Deleted, Open, remote
    <2>2. Numbers' \subseteq Numbers
      BY <2>1 DEF Numbers
    <2>3. call'.op = "call" => call'.op = call.op /\ call'.n = call.n
      BY <1>a, <1>3, CallSteps DEF Begins, Fetch, NoCall, CheckPasses, ArgumentNext, Moves,
         CallRecords
    <2>4. QED
      BY <1>a, <1>b, <1>3, <2>2, <2>3 DEF NumberInv
  <1>4. QED
    BY <1>1, <1>2, <1>3, DataSteps

-----------------------------------------------------------------------------
(* The garbage.                                                             *)

\* While the garbage is cleaned nothing else runs.
LEMMA CleaningSteps ==
  ASSUME Inv, [Next]_vars, cleaning' # {}
  PROVE  \/ StartCleaning \/ Delete
         \/ /\ UNCHANGED <<session, sid, verifier, proxy, held, garbage, cleaning, control, lost>>
            /\ UNCHANGED <<initialized, last>>
         \/ cleaning = {} /\ cleaning' = {}
  <1>a. cleaning # {} => Running /\ sid # 0
    BY DEF Inv, CleaningInv
  <1>1. CASE UserCalls \/ Fetch \/ Close
    BY <1>1, <1>a, CallsBegin DEF Begins, Refused, Fetch, Close, Running
  <1>2. CASE Cleaned \/ CleaningBreaks \/ AnswerSlow
    BY <1>2 DEF Cleaned, CleaningBreaks, AnswerSlow
  <1>3. CASE RunBreaks \/ Verified \/ VerifySlow \/ PrepareRun \/ RunReturns \/ RunRaises
             \/ RunTimesOut \/ FetchReturns \/ FetchRaises \/ FetchTimesOut \/ FetchUnknown
             \/ RunUnpicklable
    BY <1>3 DEF RunBreaks, Verified, VerifySlow, PrepareRun, RunReturns, RunRaises, RunTimesOut,
       FetchReturns, FetchRaises, FetchTimesOut, FetchUnknown, RunUnpicklable, CanRun
  <1>4. CASE VerifyWithout \/ VerifyInvalid
    BY <1>4, <1>a DEF VerifyWithout, VerifyInvalid, Running, IsValid, NoProxy, Early, Keep
  <1>5. CASE Open \/ Setup \/ PrepareSet \/ PrepareUse \/ Ready \/ TryFailed \/ Check
    BY <1>5, <1>a DEF Open, Setup, PrepareSet, PrepareUse, Ready, TryFailed, Check,
       Running, Keep
  <1>6. CASE Used
    BY <1>6, <1>a DEF Used, CanRun, Running
  <1>7. CASE Break \/ UNCHANGED vars
    BY <1>7 DEF Break, vars, terminal, history, control
  <1>8. QED
    BY <1>1, <1>2, <1>3, <1>4, <1>5, <1>6, <1>7 DEF Next, User, Client, UserCalls

LEMMA CleaningNext ==
  ASSUME Inv, [Next]_vars
  PROVE  CleaningInv'
  <1> SUFFICES ASSUME cleaning' # {} PROVE CleaningInv'
    BY DEF CleaningInv
  <1>a. CleaningInv /\ garbage \in [sid : Nat, handles : SUBSET (1 .. MaxCalls)]
    BY DEF Inv, TypeOK
  <1>b. ASSUME UNCHANGED <<sid, verifier, proxy, pc, frames, call>>, Running
        PROVE  Running'
    BY <1>b DEF Running, IsValid, Step, Top
  <1>1. CASE StartCleaning
    <2>1. sid # 0
      <3>1. garbage.handles # {}
        BY <1>1, FS_EmptySet DEF StartCleaning
      <3>2. QED
        BY <1>1, <3>1 DEF StartCleaning, NeedsCleaning, Inv, HandleInv
    <2>2. Running'
      BY <1>1, <1>b DEF StartCleaning, terminal, control
    <2>3. QED
      BY <1>1, <2>1, <2>2 DEF StartCleaning, NeedsCleaning, CleaningInv, terminal
  <1>2. CASE Delete
    <2>1. Running /\ sid # 0 /\ garbage.sid = sid /\ cleaning # {} /\ UNCHANGED cleaning
      BY <1>2, <1>a DEF Delete, CleaningInv
    <2>2. Running' /\ UNCHANGED sid
      BY <1>2, <1>b, <2>1 DEF Delete, terminal, control
    <2>3. PICK p \in held : \/ UNCHANGED <<garbage, lost>>
                            \/ /\ garbage' = [garbage EXCEPT !.handles = @ \cup {p.handle}]
                               /\ lost' = lost \cup {p.handle}
      BY <1>2, <2>1 DEF Delete, Add
    <2>4. QED
      BY <1>a, <2>1, <2>2, <2>3 DEF CleaningInv
  <1>3. CASE UNCHANGED <<session, sid, verifier, proxy, held, garbage, cleaning, control, lost>>
    BY <1>3, <1>a, <1>b DEF CleaningInv, control
  <1>4. QED
    BY <1>1, <1>2, <1>3, CleaningSteps

\* The last session is that of the identity.
LEMMA Identity ==
  ASSUME Inv
  PROVE  /\ last \in Nat /\ sid \in {0, last} /\ (sid # 0 => sid = session)
         /\ \A p \in held : p.sid \in Nat /\ p.sid # 0
         /\ garbage \in [sid : Nat, handles : SUBSET (1 .. MaxCalls)]
  BY DEF Inv, TypeOK, SessionInv, ProxyInv

LEMMA DeleteHandles ==
  ASSUME Inv, Delete
  PROVE  HandleInv'
  <1>a. HandleInv
    BY DEF Inv
  <1>1. PICK p \in held :
          /\ held' = held \ {p} /\ UNCHANGED <<objects, stored, sid, last>>
          /\ \/ p.sid = sid /\ Add(p.handle)
             \/ p.sid # sid /\ UNCHANGED <<garbage, lost>>
          /\ lost \subseteq lost'
    BY DEF Delete, terminal, remote
  <1>2. /\ \A q, r \in held' : q.handle = r.handle => q = r
        /\ \A q \in held' : q.sid = last <=> q.handle \in objects
    BY <1>a, <1>1 DEF HandleInv
  <1>3. CASE p.sid # sid
    <2>1. Waiting' = Waiting
      BY <1>1, <1>3 DEF Waiting
    <2>2. ObjectsAccountedFor'
      <3> SUFFICES ASSUME sid # 0, NEW o \in objects
                   PROVE  o \in {q.handle : q \in held'} \cup stored \cup lost
                              \cup (IF garbage.sid = sid THEN garbage.handles ELSE {})
        BY <1>1, <1>3 DEF ObjectsAccountedFor
      <3>1. p.handle \notin objects
        BY <1>a, <1>3, Identity DEF HandleInv
      <3>2. QED
        BY <1>a, <1>1, <3>1 DEF HandleInv, ObjectsAccountedFor
    <2>3. QED
      BY <1>a, <1>1, <1>2, <1>3, <2>1, <2>2 DEF HandleInv
  <1>4. CASE p.sid = sid
    <2>1. sid = last /\ p.handle \in objects \ (stored \cup Waiting)
      BY <1>a, <1>4, Identity DEF HandleInv
    <2>2. /\ garbage'.sid = sid /\ Waiting' = Waiting \cup {p.handle}
          /\ garbage'.handles = Waiting'
      BY <1>1, <1>4, <2>1, Identity DEF Add, Waiting
    <2>3. \A q \in held' : q.handle \notin stored \cup Waiting'
      BY <1>a, <1>1, <2>2 DEF HandleInv
    <2>4. ObjectsAccountedFor'
      <3> SUFFICES ASSUME NEW o \in objects
                   PROVE  o \in {q.handle : q \in held'} \cup stored \cup lost' \cup Waiting'
        BY <1>1, <2>1, <2>2 DEF ObjectsAccountedFor
      <3>1. o \in {q.handle : q \in held} \cup stored \cup lost \cup Waiting
        BY <1>a, <2>1, Identity, <1>4 DEF HandleInv, ObjectsAccountedFor, Waiting
      <3>2. QED
        BY <1>1, <2>2, <3>1
    <2>5. QED
      BY <1>a, <1>1, <1>2, <2>1, <2>2, <2>3, <2>4, Identity DEF HandleInv
  <1>5. QED
    BY <1>3, <1>4

LEMMA CleanedHandles ==
  ASSUME Inv, Cleaned
  PROVE  HandleInv'
  <1>a. HandleInv /\ CleaningInv
    BY DEF Inv
  <1>1. /\ sid = last /\ garbage.sid = sid /\ cleaning \subseteq Waiting
        /\ Waiting = garbage.handles /\ garbage.handles \subseteq cleaning \cup lost
    BY <1>a, Identity DEF Cleaned, CleaningInv, Waiting
  <1>2. /\ objects' = objects \ cleaning /\ garbage' = [garbage EXCEPT !.handles = {}]
        /\ UNCHANGED <<held, stored, lost, sid, last>>
    BY DEF Cleaned, Deleted, Cleared, terminal, history
  <1>3. garbage'.sid = sid /\ garbage'.handles = {} /\ Waiting' = {}
    BY <1>1, <1>2, Identity DEF Waiting
  <1>4. \A p \in held : p.handle \notin cleaning
    BY <1>a, <1>1 DEF HandleInv
  <1>5. garbage'.sid = garbage.sid
    BY <1>2 DEF Inv, TypeOK
  <1>6. ObjectsAccountedFor'
    BY <1>a, <1>1, <1>2, <1>3 DEF HandleInv, ObjectsAccountedFor
  <1>7. QED
    BY <1>a, <1>1, <1>2, <1>3, <1>4, <1>5, <1>6 DEF HandleInv

LEMMA OpenHandles ==
  ASSUME Inv, Open
  PROVE  HandleInv'
  <1>a. HandleInv /\ ProxyInv /\ last \in Nat
    BY DEF Inv, TypeOK
  <1>1. /\ last' = last + 1 /\ sid' = 0 /\ objects' = {} /\ stored' = {}
        /\ UNCHANGED <<held, garbage, lost>>
    BY DEF Open, Forget, history
  <1>2. garbage.sid \in 0 .. last' /\ garbage.sid # last' /\ \A p \in held : p.sid # last'
    BY <1>a, <1>1 DEF HandleInv, ProxyInv
  <1>3. QED
    BY <1>a, <1>1, <1>2 DEF HandleInv, Waiting, ObjectsAccountedFor

LEMMA RunHandles ==
  ASSUME Inv, RunReturns \/ RunTimesOut \/ FetchReturns \/ FetchRaises
  PROVE  HandleInv'
  <1>a. HandleInv /\ NumberInv
    BY DEF Inv
  <1>1. PICK n :
           /\ sid # 0 /\ sid = session
           /\ \/ n = call.n /\ call.op = "call" /\ UNCHANGED stored /\ Returned(n)
              \/ n = call.n /\ call.op = "call" /\ stored' = stored \cup {n}
                 /\ (objects' = objects \cup {n} \/ UNCHANGED objects)
                 /\ UNCHANGED <<held, lost>>
              \/ n \in stored /\ stored' = stored \ {n} /\ call.op = "fetch"
                 /\ n \in objects /\ Returned(n)
              \/ n \in stored /\ stored' = stored \ {n} /\ call.op = "fetch"
                 /\ n \notin objects /\ UNCHANGED <<objects, held, lost>>
           /\ UNCHANGED <<terminal, garbage, cleaning>>
    BY RunEffect
  <1>2. sid = last /\ UNCHANGED <<sid, last>> /\ Waiting' = Waiting
    BY <1>1, Identity DEF terminal, Waiting
  \* The number is new, or it was that of a response.
  <1>3. /\ n \notin Waiting /\ \A p \in held : p.handle # n
        /\ call.op = "call" /\ n = call.n => n \notin objects \cup stored
    BY <1>a, <1>1 DEF HandleInv, NumberInv, Numbers
  <1>4. NewProxy(n).sid = last /\ NewProxy(n).handle = n
    BY <1>2 DEF NewProxy
  <1>b. garbage'.sid = garbage.sid /\ garbage'.handles = garbage.handles
    BY <1>1
  <1>5. CASE Returned(n) /\ n \notin stored' /\ stored' \cup {n} = stored \cup {n}
    <2>a. objects' = objects \cup {n}
      BY <1>5 DEF Returned
    <2>1. CASE held' = held \cup {NewProxy(n)} /\ UNCHANGED lost
      <3>1. {p.handle : p \in held'} = {p.handle : p \in held} \cup {n}
        BY <1>4, <2>1
      <3>2. ObjectsAccountedFor'
        BY <1>a, <1>1, <1>2, <1>5, <2>a, <2>1, <3>1 DEF HandleInv, ObjectsAccountedFor
      <3>3. /\ \A p, q \in held' : p.handle = q.handle => p = q
            /\ \A p \in held' : p.sid = last' <=> p.handle \in objects'
        BY <1>a, <1>1, <1>2, <1>3, <1>4, <2>a, <2>1 DEF HandleInv
      <3>4. /\ \A p \in held' : p.handle \notin stored' \cup Waiting'
            /\ Waiting' \subseteq objects' /\ stored' \cap Waiting' = {}
        BY <1>a, <1>1, <1>2, <1>3, <1>4, <1>5, <2>a, <2>1 DEF HandleInv
      <3>5. QED
        BY <1>a, <1>b, <1>1, <1>2, <3>2, <3>3, <3>4 DEF HandleInv
    <2>2. CASE lost' = lost \cup {n} /\ UNCHANGED held
      <3>1. ObjectsAccountedFor'
        BY <1>a, <1>1, <1>2, <1>5, <2>a, <2>2 DEF HandleInv, ObjectsAccountedFor
      <3>2. QED
        BY <1>a, <1>b, <1>1, <1>2, <1>3, <1>5, <2>a, <2>2, <3>1 DEF HandleInv
    <2>3. QED
      BY <1>5, <2>1, <2>2 DEF Returned
  <1>6. CASE /\ stored' = stored \cup {n} /\ UNCHANGED <<held, lost>>
             /\ objects' = objects \cup {n} \/ UNCHANGED objects
    <2>1. ObjectsAccountedFor'
      BY <1>a, <1>1, <1>2, <1>6 DEF HandleInv, ObjectsAccountedFor
    <2>2. QED
      BY <1>a, <1>b, <1>1, <1>2, <1>3, <1>6, <2>1 DEF HandleInv
  <1>7. CASE n \notin objects /\ stored' = stored \ {n} /\ UNCHANGED <<objects, held, lost>>
    <2>1. ObjectsAccountedFor'
      BY <1>a, <1>1, <1>2, <1>7 DEF HandleInv, ObjectsAccountedFor
    <2>2. QED
      BY <1>a, <1>b, <1>1, <1>2, <1>7, <2>1 DEF HandleInv
  <1>8. QED
    BY <1>1, <1>3, <1>5, <1>6, <1>7

LEMMA HandleNext ==
  ASSUME Inv, [Next]_vars
  PROVE  HandleInv'
  <1>1. CASE UNCHANGED Handles /\ ~Open
    <2>1. last' = last /\ (sid' = sid \/ sid' = 0 \/ (pc = "setup" /\ sid' = session))
      BY <1>1, DataSteps, ClosingEffect
         DEF terminal, Setup, Metadata, PrepareSet, Close, Break
    <2>2. ObjectsAccountedFor'
      BY <1>1, <2>1 DEF Handles, ObjectsAccountedFor, Inv, HandleInv, SessionInv
    <2>3. Waiting' = Waiting
      BY <1>1, <2>1 DEF Handles, Waiting
    <2>4. QED
      BY <1>1, <2>1, <2>2, <2>3 DEF Handles, Inv, HandleInv
  <1>2. QED
    BY <1>1, DeleteHandles, CleanedHandles, OpenHandles, RunHandles, DataSteps

-----------------------------------------------------------------------------
(* The proxies which prepare sets.                                          *)

\* What the proxies must be where the call stands.
AllFollow == sid # 0 /\ Follows(verifier) /\ \A name \in Prepared : Follows(proxy[name])
UseFollows == sid # 0 /\ Follows(verifier) /\ Follows(proxy["importer"])

LEMMA FollowNext ==
  ASSUME Inv, [Next]_vars
  PROVE  FollowInv'
  <1> SUFFICES ASSUME ~failed' PROVE FollowInv'
    BY DEF FollowInv
  <1>a. /\ Types /\ SessionInv /\ FrameInv /\ FollowInv /\ CleaningInv /\ failed \in BOOLEAN
    BY DEF Inv, Types, TypeOK
  <1>b. /\ pc = "ready" => AllFollow
        /\ session # 0 /\ (pc \in {"idle", "check", "run"} \/ (pc = "verify" /\ frames = <<>>))
              => AllFollow
        /\ pc = "prepare" => sid # 0 /\ Follows(verifier)
                             /\ (Top.step > 2 => Follows(proxy["importer"]))
        /\ pc = "use" \/ (pc = "verify" /\ frames # <<>>) => UseFollows
    <2>1. ~failed
      <3>1. failed' = failed \/ failed' = TRUE
        BY StepControl DEF control, Begins, Refused, Fetch, Ready, TryFailed, Raise, Return,
           Recover, Moves, NextStep, GoOn, CheckPasses, ArgumentNext
      <3>2. QED
        BY <1>a, <3>1
    <2>2. QED
      BY <1>a, <2>1 DEF FollowInv, SessionInv, AllFollow, UseFollows
  <1>c. AllFollow => UseFollows
    BY DEF AllFollow, UseFollows, Prepared
  \* There is nothing to follow.
  <1>n. ASSUME \/ pc' \in {"open", "setup", "tryfailed"}
               \/ session' = 0 /\ pc' \in {"idle", "check", "run"}
        PROVE  FollowInv'
    BY <1>n DEF FollowInv
  \* The proxies are kept.
  <1>k. ASSUME UNCHANGED <<session, sid, verifier, proxy>>,
               pc' = "ready" => AllFollow,
               session # 0 /\ (pc' \in {"idle", "check", "run"}
                                \/ (pc' = "verify" /\ frames' = <<>>))
                  => AllFollow,
               pc' = "prepare" => Follows(verifier)
                             /\ (Top'.step > 2 => Follows(proxy["importer"])),
               pc' = "use" \/ (pc' = "verify" /\ frames' # <<>>) => UseFollows
        PROVE  FollowInv'
    BY <1>k DEF FollowInv, Follows, AllFollow, UseFollows
  <1>t. UNCHANGED frames => Top' = Top
    BY DEF Top
  <1>1. CASE UserCalls
    <2>1. /\ UNCHANGED terminal /\ pc = "idle"
          /\ \/ pc' \in {"idle", "open", "run"}
             \/ pc' = "verify" /\ session # 0 /\ frames' = <<>>
      BY <1>1, CallsBegin DEF Begins, Refused
    <2>2. QED
      BY <1>b, <1>k, <2>1 DEF terminal
  <1>2. CASE Fetch
    BY <1>2, <1>b, <1>k DEF Fetch, terminal
  <1>3. CASE Close \/ Delete \/ StartCleaning \/ Cleaned \/ Break \/ UNCHANGED vars
    <2>1. UNCHANGED <<session, sid, verifier, proxy, pc, frames>>
      BY <1>3 DEF Close, Delete, StartCleaning, Cleaned, Break, vars, terminal, control
    <2>2. QED
      BY <1>b, <1>k, <1>t, <2>1
  <1>4. CASE CleaningBreaks \/ RunBreaks \/ AnswerSlow
    <2>1. Broken
      BY <1>4 DEF CleaningBreaks, RunBreaks, AnswerSlow
    <2>2. CASE Closing
      BY <1>n, <2>1, <2>2, BrokenEffect, ClosingEffect
    <2>3. CASE pc = "prepare" /\ Raise("broken")
      <3>1. pc' = "tryfailed"
        BY <1>a, <2>3 DEF Raise, FrameInv
      <3>2. QED
        BY <1>n, <3>1
    <2>4. QED
      BY <2>1, <2>2, <2>3, BrokenEffect
  <1>5. CASE VerifyWithout
    BY <1>5, <1>n DEF VerifyWithout, Recover
  <1>6. CASE VerifyInvalid
    <2>1. frames # <<>>
      BY <1>6, <1>a, <1>b DEF VerifyInvalid, AllFollow, Follows, IsValid, SessionInv
    <2>2. pc' = "tryfailed"
      BY <1>6, <2>1 DEF VerifyInvalid, Raise
    <2>3. QED
      BY <1>n, <2>2
  <1>7. CASE Verified
    <2>1. UNCHANGED terminal /\ pc = "verify" /\ pc' = AfterVerify /\ session # 0
      BY <1>7, <1>a DEF Verified, GoOn, SessionInv
    <2>2. QED
      BY <1>b, <1>k, <2>1 DEF AfterVerify, terminal
  <1>8. CASE VerifySlow
    <2>1. UNCHANGED terminal /\ pc = "verify" /\ session # 0 /\ Raise("timeout")
      BY <1>8, <1>a DEF VerifySlow, SessionInv
    <2>2. CASE frames = <<>>
      BY <1>b, <1>k, <2>1, <2>2 DEF Raise, Return, terminal
    <2>3. CASE frames # <<>>
      BY <1>n, <2>1, <2>3 DEF Raise
    <2>4. QED
      BY <2>2, <2>3
  <1>9. CASE Open
    BY <1>9, <1>a, <1>n DEF Open, GoOn, Raise, FrameInv
  <1>10. CASE Setup
    <2>1. frames # <<>> /\ Top.step = 1 /\ ~initialized /\ pc = "setup"
      BY <1>10, <1>a DEF Setup, FrameInv, SessionInv
    <2>2. CASE HandlerStarts
      <3>1. pc' = "prepare" /\ verifier'.sid = sid' /\ frames' = frames
        BY <1>10, <2>1, <2>2 DEF Setup, SetVerifier, GoOn
      <3>2. Top'.step = 1
        BY <1>t, <2>1, <3>1
      <3>3. QED
        BY <3>1, <3>2 DEF FollowInv, Follows
    <2>3. CASE ~HandlerStarts
      BY <1>10, <1>n, <2>1, <2>3 DEF Setup, Raise
    <2>4. QED
      BY <2>2, <2>3
  <1>11. CASE PrepareRun
    <2>1. UNCHANGED terminal /\ pc = "prepare" /\ frames # <<>> /\ Top.step \in {1, 3}
      BY <1>11, <1>a, StepNames DEF PrepareRun, FrameInv
    <2>2. CASE NextStep
      <3>1. pc' = "prepare" /\ Top'.step = Top.step + 1
        BY <1>a, <2>1, <2>2, NextFrame DEF NextStep
      <3>2. Top'.step > 2 => Top.step > 2
        BY <2>1, <3>1
      <3>3. QED
        BY <1>b, <1>k, <2>1, <3>1, <3>2 DEF terminal
    <2>3. CASE Raise("exception")
      BY <1>n, <2>1, <2>3 DEF Raise
    <2>4. QED
      BY <1>11, <2>2, <2>3 DEF PrepareRun
  <1>12. CASE PrepareSet
    <2>1. /\ pc = "prepare" /\ frames # <<>> /\ NextStep /\ UNCHANGED <<session, sid, verifier>>
      BY <1>12, <1>a DEF PrepareSet, FrameInv
    <2>2. proxy \in [Prepared -> Proxies] /\ NewProxy(0).sid = sid
      BY <1>a DEF Types, TypeOK, NewProxy
    <2>3. CASE Step = "set"
      <3>1. pc' = "prepare" /\ Top.step = 2
        BY <1>a, <2>1, <2>3, NextFrame, StepNames
      <3>2. proxy' = [proxy EXCEPT !["importer"] = NewProxy(0)]
        BY <1>12, <2>3 DEF PrepareSet
      <3>3. proxy'["importer"].sid = sid
        BY <2>2, <3>2 DEF Prepared
      <3>4. QED
        BY <1>b, <2>1, <3>1, <3>3 DEF FollowInv, Follows
    <2>4. CASE Step = "setlast"
      <3>1. pc' = "ready" /\ Top.step = 5
        BY <1>a, <2>1, <2>4, NextFrame, StepNames
      <3>2. proxy' = [proxy EXCEPT !["daemon"] = NewProxy(0)]
        BY <1>12, <2>4 DEF PrepareSet
      <3>3. Follows(proxy["importer"])
        BY <1>b, <2>1, <3>1
      <3>4. \A name \in Prepared : proxy'[name].sid = sid
        BY <2>2, <3>2, <3>3 DEF Prepared, Follows
      <3>5. QED
        BY <1>b, <2>1, <3>1, <3>4 DEF FollowInv, Follows
    <2>5. QED
      BY <1>12, <2>3, <2>4 DEF PrepareSet
  <1>13. CASE PrepareUse
    <2>1. /\ UNCHANGED terminal /\ pc = "prepare" /\ frames # <<>> /\ Top.step = 4
          /\ pc' = "verify" /\ UNCHANGED frames
      BY <1>13, <1>a, StepNames DEF PrepareUse, GoOn, Keep, FrameInv
    <2>2. UseFollows
      BY <1>b, <2>1 DEF UseFollows
    <2>3. QED
      BY <1>k, <2>1, <2>2 DEF terminal
  <1>14. CASE Used
    <2>1. UNCHANGED terminal /\ pc = "use" /\ frames # <<>> /\ Top.step = 4 /\ UseFollows
      BY <1>14, <1>a, <1>b DEF Used, FrameInv, UseStep
    <2>2. CASE NextStep
      <3>1. pc' = "prepare"
        BY <1>a, <2>1, <2>2, NextFrame
      <3>2. QED
        BY <1>k, <2>1, <3>1 DEF terminal, UseFollows
    <2>3. CASE Raise("invalid")
      BY <1>n, <2>1, <2>3 DEF Raise
    <2>4. QED
      BY <1>14, <2>2, <2>3 DEF Used
  <1>15. CASE Ready
    <2>1. UNCHANGED terminal /\ AllFollow /\ pc' \in {"check", "use"}
      BY <1>15, <1>b DEF Ready, Keep
    <2>2. QED
      BY <1>c, <1>k, <2>1 DEF terminal
  <1>16. CASE TryFailed
    BY <1>16, <1>n DEF TryFailed
  <1>17. CASE RunReturns \/ RunRaises \/ RunTimesOut \/ FetchReturns \/ FetchRaises
              \/ FetchTimesOut
    <2>1. UNCHANGED terminal /\ pc = "run" /\ pc' = "idle"
      BY <1>17 DEF RunReturns, RunRaises, RunTimesOut, FetchReturns, FetchRaises,
         FetchTimesOut, Return
    <2>2. QED
      BY <1>b, <1>k, <2>1 DEF terminal
  <1>18. CASE FetchUnknown \/ RunUnpicklable
    <2>1. session' = 0 /\ pc' = "idle"
      BY <1>18, <1>a, ClosingEffect DEF FetchUnknown, RunUnpicklable, RaiseBroken, Raise, Return,
         FrameInv
    <2>2. QED
      BY <1>n, <2>1
  <1>19. CASE Check
    <2>1. UNCHANGED terminal /\ pc = "check" /\ frames = <<>>
      BY <1>19, <1>a DEF Check, Keep, FrameInv
    <2>2. frames' = <<>> /\ pc' \in {"idle", "verify", "run"}
      BY <1>19, <2>1 DEF Check, GoOn, Raise, Return
    <2>3. QED
      BY <1>b, <1>k, <2>1, <2>2 DEF terminal
  <1>20. QED
    BY <1>1, <1>2, <1>3, <1>4, <1>5, <1>6, <1>7, <1>8, <1>9, <1>10, <1>11, <1>12, <1>13, <1>14,
       <1>15, <1>16, <1>17, <1>18, <1>19 DEF Next, User, Client, UserCalls

LEMMA PreparedNext ==
  ASSUME Inv, [Next]_vars
  PROVE  PreparedFollow'
  <1> SUFFICES ASSUME outcome'.op = "call", outcome'.proxy \in Prepared,
                      outcome'.result = "invalid", ~failed'
               PROVE  FALSE
    BY DEF PreparedFollow
  <1>a. PreparedFollow /\ SessionInv /\ FrameInv /\ FollowInv /\ CallInv /\ failed \in BOOLEAN
    BY DEF Inv, TypeOK
  \* What is recorded is an error of a proxy which is not valid.
  <1>1. UNCHANGED <<outcome, failed>> \/ (Return("invalid") /\ UNCHANGED failed)
    <2>1. ASSUME NEW e, Return(e) PROVE e = "invalid"
      BY <2>1 DEF Return
    <2>2. ASSUME NEW e, Raise(e) \/ (Return(e) /\ UNCHANGED failed)
          PROVE  UNCHANGED <<outcome, failed>> \/ (Return("invalid") /\ UNCHANGED failed)
      BY <2>1, <2>2 DEF Raise
    <2>3. ~Refused /\ ~Begins /\ ~Fetch /\ (TryFailed => UNCHANGED <<outcome, failed>>)
      BY DEF Refused, TryFailed, Begins, Fetch, NoOutcome
    <2>4. CASE \/ UNCHANGED control \/ Ready \/ Recover \/ CheckPasses \/ ArgumentNext
               \/ Moves("verify", AfterVerify) \/ Moves("open", "setup")
               \/ Moves("setup", "prepare") \/ Moves("prepare", "verify") \/ NextStep
      BY <2>4 DEF control, Ready, Recover, Moves, NextStep, GoOn, CheckPasses, ArgumentNext
    <2>5. QED
      BY <2>2, <2>3, <2>4, StepControl
  <1>2. Return("invalid") /\ UNCHANGED failed
    BY <1>a, <1>1 DEF PreparedFollow
  <1>3. /\ call.op = "call" /\ call.proxy \in Prepared /\ pc' = "idle" /\ frames' = <<>>
        /\ call' = NoCall /\ outcome' = [op |-> call.op, proxy |-> call.proxy, result |-> "invalid"]
    BY <1>2 DEF Return
  <1>4. (VerifyInvalid /\ frames = <<>>) \/ Check
    <2>1. pc # "idle" /\ pc' = "idle" /\ outcome'.result = "invalid"
      BY <1>a, <1>3 DEF CallInv
    <2>2. CASE Used
      BY <1>a, <2>1, <2>2 DEF Used, NextStep, GoOn, Raise, FrameInv
    <2>3. CASE VerifyInvalid
      BY <2>1, <2>3 DEF VerifyInvalid, Raise
    <2>4. ASSUME NEW e, Raise(e) \/ Return(e) PROVE e = "invalid"
      BY <2>1, <2>4 DEF Raise, Return
    <2>5. CASE UserCalls \/ Fetch \/ Close \/ Open \/ Setup
               \/ VerifyWithout \/ Verified \/ VerifySlow \/ PrepareSet \/ PrepareRun \/ PrepareUse
               \/ Ready \/ TryFailed \/ RunReturns \/ RunRaises \/ RunTimesOut \/ FetchReturns
               \/ FetchRaises \/ FetchTimesOut \/ FetchUnknown \/ RunUnpicklable
      BY <2>1, <2>4, <2>5, CallsBegin DEF Begins, Refused, Fetch, Close, Open, Setup,
         VerifyWithout, Verified, VerifySlow, PrepareSet, PrepareRun, PrepareUse, Ready,
         TryFailed, RunReturns, RunRaises, RunTimesOut, FetchReturns, FetchRaises, FetchTimesOut,
         FetchUnknown, RunUnpicklable, RaiseBroken, Recover, NextStep, GoOn, AfterVerify
    <2>6. CASE Delete \/ StartCleaning \/ Cleaned \/ Break \/ UNCHANGED vars
      BY <2>1, <2>6 DEF Delete, StartCleaning, Cleaned, Break, vars, control
    <2>7. CASE CleaningBreaks \/ RunBreaks \/ AnswerSlow
      BY <2>1, <2>4, <2>7, BrokenEffect DEF CleaningBreaks, RunBreaks, AnswerSlow, Recover
    <2>8. QED
      BY <2>2, <2>3, <2>5, <2>6, <2>7 DEF Next, User, Client, UserCalls
  <1>5. session # 0 /\ (pc = "check" \/ (pc = "verify" /\ frames = <<>>)) /\ ~failed
    BY <1>a, <1>2, <1>3, <1>4 DEF VerifyInvalid, Check, SessionInv, CallInv
  <1>6. AllFollow
    BY <1>a, <1>5 DEF FollowInv, AllFollow
  <1>7. \A name \in Prepared : IsValid(proxy[name])
    BY <1>6 DEF AllFollow, Follows, IsValid
  <1>8. CASE Check
    <2>1. call.check # "proxy" => call.arg \in Prepared
      BY <1>a, <1>8 DEF Check, CallInv, CallRecords, Prepared
    <2>2. IsValid(IF call.check = "proxy" THEN Target ELSE proxy[call.arg])
      BY <1>3, <1>7, <2>1 DEF Target
    <2>3. pc' # "idle"
      BY <1>8, <2>2 DEF Check, GoOn
    <2>4. QED
      BY <1>3, <2>3
  <1>9. QED
    BY <1>4, <1>6, <1>8 DEF VerifyInvalid, AllFollow, Follows, IsValid

-----------------------------------------------------------------------------
(* The invariant.                                                           *)

LEMMA InitInv == Init => Inv
  <1> SUFFICES ASSUME Init PROVE Inv
    OBVIOUS
  <1>1. TypeOK
    <2>1. NoProxy \in Proxies /\ proxy \in [Prepared -> Proxies]
      BY DEF Init, NoProxy, Proxies
    <2>2. /\ last \in Nat /\ session \in 0 .. last /\ alive \subseteq 1 .. last
          /\ sid \in 0 .. last /\ unclosed \subseteq 1 .. last
      BY DEF Init
    <2>3. calls \in 0 .. MaxCalls /\ faults \in 0 .. MaxFaults
      BY ConstantsAssumption DEF Init, ConstantsAssumption
    <2>4. frames \in Seq([tries : 1 .. MaxTries, step : 1 .. Len(PrepareSteps)])
      BY DEF Init
    <2>5. garbage \in [sid : Nat, handles : SUBSET (1 .. MaxCalls)]
      BY DEF Init
    <2>6. QED
      BY <2>1, <2>2, <2>3, <2>4, <2>5 DEF Init, TypeOK, Results, NoOutcome
  <1>2. SessionInv /\ ProxyInv /\ CheckInv
    BY DEF Init, SessionInv, OneConnection, ProxyInv, CheckInv, Faithful, HandleInItsSession,
       NoProxy, NoCall, NoRun
  <1>3. HandleInv /\ NumberInv /\ CleaningInv
    BY DEF Init, HandleInv, NumberInv, Numbers, CleaningInv, Waiting, ObjectsAccountedFor, NoCall
  <1>4. FrameInv
    BY DEF Init, FrameInv
  <1>5. CallInv
    BY DEF Init, CallInv, CallRecords, NoCall, NoProxy, Proxies, Operations, Arguments
  <1>6. FollowInv /\ PreparedFollow
    BY DEF Init, FollowInv, PreparedFollow, NoOutcome
  <1>7. QED
    BY <1>1, <1>2, <1>3, <1>4, <1>5, <1>6 DEF Inv

LEMMA InvNext == Inv /\ [Next]_vars => Inv'
  <1> SUFFICES ASSUME Inv, [Next]_vars PROVE Inv'
    OBVIOUS
  <1>1. QED
    BY TypeNext, SessionNext, ProxyNext, CheckNext, HandleNext, NumberNext, CleaningNext,
       ControlNext, CallNext, FollowNext, PreparedNext DEF Inv

LEMMA Invariance == Spec => []Inv
  BY InitInv, InvNext, PTL DEF Spec

-----------------------------------------------------------------------------
(* What holds of the terminal.                                              *)

\* The state of the terminal, of its proxies and of what it knows of the remote Python
\* has its types.
THEOREM TerminalTypeCorrect == Spec => []TypeOK
  <1>1. Inv => TypeOK
    BY DEF Inv
  <1>2. QED
    BY <1>1, Invariance, PTL

\* _RemoteProxy.remote_proxy_verify: a handle that was checked just before its run is run in
\* its own session, and one that was not checked finds no object of another session.
THEOREM HandlesStayInSession == Spec => []HandleInItsSession
  <1>1. Inv => HandleInItsSession
    BY DEF Inv, ProxyInv
  <1>2. QED
    BY <1>1, Invariance, PTL

\* AutoRecoveringTerminal closes the session it replaces, also within a prepare, unless its
\* close_terminal raised.
THEOREM ConnectionsClosed == Spec => []OneConnection
  <1>1. Inv => OneConnection
    BY DEF Inv, SessionInv
  <1>2. QED
    BY <1>1, Invariance, PTL

\* GarbageManager: the handles to delete are those of objects of the session.
THEOREM DeletesWhatIs == Spec => []GarbageDeletable
  <1>1. Inv => GarbageDeletable
    BY Identity DEF Inv, HandleInv, Waiting, GarbageDeletable
  <1>2. QED
    BY <1>1, Invariance, PTL

\* Every remote object is referred to, waits to be deleted or fetched, or is known as lost.
THEOREM NoObjectForgotten == Spec => []ObjectsAccountedFor
  <1>1. Inv => ObjectsAccountedFor
    BY DEF Inv, HandleInv
  <1>2. QED
    BY <1>1, Invariance, PTL

\* _RemoteRunnerProxies are set again by the prepare of each session.
THEOREM ProxiesFollowSession == Spec => []PreparedFollow
  <1>1. Inv => PreparedFollow
    BY DEF Inv
  <1>2. QED
    BY <1>1, Invariance, PTL

\* A session whose connection works is closed only for a fault of its own answer or by the
\* user, never for the garbage deleted in it.
THEOREM HealthySessionKept == Spec => HealthyKept
  <1> DEFINE Excused == \/ pc \in {"open", "idle"}
                        \/ faults' # faults
                        \/ call.op = "fetch" /\ call.response \notin stored
             Kept == session \in alive /\ session \notin alive' => Excused
  <1>1. Inv /\ [Next]_vars => [Kept]_vars
    <2> SUFFICES ASSUME Inv, [Next]_vars, session \in alive, session \notin alive'
                 PROVE  Excused
      OBVIOUS
    <2>a. faults \in Nat
      BY DEF Inv, TypeOK
    <2>1. CASE CleaningBreaks
      <3>1. cleaning # {} /\ ~(cleaning \subseteq objects)
        BY <2>1 DEF CleaningBreaks, Deletable
      <3>2. garbage.handles \subseteq objects /\ cleaning \subseteq garbage.handles
        BY <3>1, Identity DEF Inv, CleaningInv, HandleInv, Waiting
      <3>3. QED
        BY <3>1, <3>2
    <2>2. CASE RunBreaks
      BY <2>2 DEF RunBreaks
    <2>3. CASE VerifyWithout
      BY <2>3 DEF VerifyWithout, Inv, SessionInv
    <2>4. CASE Open \/ FetchUnknown \/ Close
      BY <2>4 DEF Open, FetchUnknown, Close
    <2>5. CASE Break \/ AnswerSlow \/ RunUnpicklable
      BY <2>a, <2>5 DEF Break, AnswerSlow, RunUnpicklable, Fault
    <2>6. CASE UserCalls
      BY <2>6, CallsBegin DEF Begins, Refused, terminal
    <2>7. CASE \/ Fetch \/ Delete \/ StartCleaning \/ Cleaned \/ Setup \/ PrepareSet
               \/ UNCHANGED vars \/ VerifyInvalid \/ Verified \/ VerifySlow \/ PrepareRun \/ PrepareUse \/ Used
               \/ Ready \/ TryFailed \/ Check \/ RunReturns \/ RunRaises \/ RunTimesOut
               \/ FetchReturns \/ FetchRaises \/ FetchTimesOut
      <3>1. alive' = alive
        BY <2>7 DEF Fetch, Delete, StartCleaning, Cleaned, Setup, PrepareSet, vars,
           VerifyInvalid, Verified, VerifySlow, PrepareRun, PrepareUse, Used, Ready, TryFailed,
           Check, RunReturns, RunRaises, RunTimesOut, FetchReturns, FetchRaises, FetchTimesOut,
           Keep, terminal
      <3>2. QED
        BY <3>1
    <2>8. QED
      BY <2>1, <2>2, <2>3, <2>4, <2>5, <2>6, <2>7 DEF Next, User, Client, UserCalls
  <1>2. QED
    BY <1>1, Invariance, PTL DEF Spec, HealthyKept
=============================================================================
