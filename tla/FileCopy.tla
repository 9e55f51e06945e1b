------------------------------ MODULE FileCopy ------------------------------
(****************************************************************************)
(* The file keywords of RemoteRunner: _FileCopier and _LocalDirCopier copy  *)
(* block by block between local files and the remote files of a terminal,   *)
(* opened and closed with remote calls, and read and written over the raw   *)
(* terminal by a FileHandle in the remote Python.                           *)
(*                                                                          *)
(* A remote call that is not answered breaks the session: the terminal has  *)
(* none until it is initialized again.  Nothing such follows from a raw     *)
(* read or write that times out, nor from the prompt asked for in close.    *)
(* Calls that outlive their own timeout (RemoteTimeout) are left out.       *)
(* What a closed session still has queued is taken to be lost with it.      *)
(****************************************************************************)
EXTENDS Integers, SequencesExt

CONSTANTS MaxCopies,  \* bound on the keywords called
          MaxBlocks,  \* bound on the blocks of a file
          MaxFaults   \* bound on the faults

ASSUME ConstantsAssumption == {MaxCopies, MaxBlocks, MaxFaults} \subseteq Nat

VARIABLES
    line,       \* the session of a terminal: "none", "up", "hung" or "dead"
    in, out,    \* what its remote Python has still to read, and what it wrote
    blocked,    \* it reads the bytes of a block from its stdin
    handle,     \* the file that it opened last
    leftover,   \* files which were not closed and are not used any more
    disk, mode, \* the files, and the copy which set their mode last
    spoilt,     \* files opened while a leftover could still be written to them
    op, pc,     \* the keyword under way and its step
    sent,       \* the step waits for its answer
    outcome, copies, faults

remote == <<line, in, out, blocked, handle, leftover>>
files == <<disk, mode, spoilt>>
control == <<op, pc, sent, outcome>>
vars == <<remote, files, control, copies, faults>>

Terminals == {"T1", "T2"}
Paths == {"f", "g", "dir", "sub"}
Places == ({"local"} \cup Terminals) \X Paths
NoFile == [n |-> 0]
Garbled == <<0, "f", 0>>  \* bytes of messages
Hole == <<0, "f", 1>>     \* zeros
EndOfFile == <<0, "f", 2>>

\* What a file reads when copied in the keyword n.
Block(n, path, i) == <<n, path, i>>
Source(n, path, size) == [i \in 1 .. size |-> Block(n, path, i)]

-----------------------------------------------------------------------------
\* The keywords as lists of what they do with their files.

Task(do, at, path) == [do |-> do, at |-> at, path |-> path]
InitTask(at) == IF at = "local" THEN <<>> ELSE <<Task("init", at, "f")>>
CopyTasks(from, to) ==
    InitTask(from) \o InitTask(to) \o <<Task("mkdir", to, "f"), Task("file", to, "f")>>

\* _copy_directory: the files of a directory, its directories, and its mode.
\* mutant: a directory has its mode before its directories are copied
ModeFirst(to) ==
    <<Task("init", to, "dir"), Task("mkdir", to, "dir"),
      Task("init", to, "f"), Task("file", to, "f"), Task("chmod", to, "dir"),
      Task("init", to, "sub"), Task("mkdir", to, "sub"),
      Task("init", to, "g"), Task("file", to, "g"), Task("chmod", to, "sub")>>
DirTasks(to) ==
    <<Task("init", to, "dir"), Task("mkdir", to, "dir"),
      Task("init", to, "f"), Task("file", to, "f"),
      Task("init", to, "sub"), Task("mkdir", to, "sub"),
      Task("init", to, "g"), Task("file", to, "g"),
      Task("chmod", to, "sub"), Task("chmod", to, "dir")>>

\* What os.walk cannot list is skipped: the directory "sub", or all of "dir".
PartTasks(to) ==
    <<Task("init", to, "dir"), Task("mkdir", to, "dir"),
      Task("init", to, "f"), Task("file", to, "f"),
      Task("init", to, "sub"), Task("mkdir", to, "sub"), Task("chmod", to, "dir")>>
MakeTasks(to) == <<Task("init", to, "dir"), Task("mkdir", to, "dir")>>

NoOp == [name |-> "none", n |-> 0, from |-> "local", to |-> "local", size |-> 0,
         todo |-> <<>>, block |-> EndOfFile, read |-> 0, stale |-> {},
         unclean |-> {}, error |-> "none"]

Begin(name, from, to, todo) ==
    /\ pc = "idle" /\ copies < MaxCopies /\ copies' = copies + 1
    /\ \E size \in 0 .. MaxBlocks :
        op' = [NoOp EXCEPT !.name = name, !.n = copies + 1, !.from = from, !.to = to,
                           !.size = size, !.todo = todo]
    /\ pc' = "task" /\ UNCHANGED sent
    /\ UNCHANGED <<remote, files, outcome, faults>>

CopyFileToTarget == Begin("to", "local", "T1", CopyTasks("local", "T1"))
CopyFileFromTarget == Begin("from", "T1", "local", CopyTasks("T1", "local"))
CopyFileBetweenTargets == Begin("between", "T1", "T2", CopyTasks("T1", "T2"))
CopyDirectoryToTarget == Begin("directory", "local", "T1", DirTasks("T1"))
CopyDirectoryPartly == Begin("partly", "local", "T1", PartTasks("T1"))
CopyDirectoryMissing == Begin("missing", "local", "T1", MakeTasks("T1"))
CreateDirectoryInTarget == Begin("create", "local", "T1", MakeTasks("T1"))

\* The keyword's end
Return ==
    /\ pc = "task" /\ op.todo = <<>>
    /\ pc' = "idle" /\ op' = NoOp
    /\ outcome' = op
    /\ UNCHANGED <<sent, remote, files, copies, faults>>

This == Head(op.todo)
Place == <<op.to, This.path>>
Step(next, record) == pc' = next /\ op' = record /\ sent' = FALSE /\ UNCHANGED outcome
GoOn(next) == Step(next, op)
TaskDone == Step("task", [op EXCEPT !.todo = Tail(@), !.read = 0])
GiveUp(error) == Step("task", [op EXCEPT !.todo = <<>>, !.error = error])
GoOnWith(next, error) == Step(next, [op EXCEPT !.error = error])

-----------------------------------------------------------------------------
\* What is sent to a remote Python and read from it.  All that comes before
\* what is awaited is skipped: a chunk, the token and expect are searched for.

Send(t, item) == in' = [in EXCEPT ![t] = Append(@, item)]
Received(t, awaited) == Range(out[t]) \cap awaited
FirstOf(t, awaited) == CHOOSE i \in 1 .. Len(out[t]) :
    out[t][i] \in awaited /\ \A j \in 1 .. i - 1 : out[t][j] \notin awaited
Skipped(t, awaited) == SubSeq(out[t], FirstOf(t, awaited) + 1, Len(out[t]))
Take(t, awaited) ==
    /\ Received(t, awaited) # {}
    /\ out' = [out EXCEPT ![t] = Skipped(t, awaited)]

\* The time is up: nothing that is awaited is going to come.
OnlyIfDead(t) == line[t] = "dead"  \* mutant: a wait without a timeout
Silent(t) == line[t] # "up" \/ in[t] = <<>>
Expired(t, awaited) == Received(t, awaited) = {} /\ Silent(t)
Error(t) == IF line[t] = "dead" THEN "EOF" ELSE "Timeout"

\* The call under way, which is made once in a keyword and so is its own id.
Call(t, what) == [k |-> "call", what |-> what, n |-> op.n, path |-> This.path,
                  write |-> t = op.to, size |-> op.size, left |-> Len(op.todo)]
Ask(t, what) ==
    /\ Send(t, Call(t, what))
    /\ UNCHANGED <<line, out, blocked, handle, leftover>>
Answers(c) == {[c EXCEPT !.k = k] : k \in {"reply", "raised"}}
Answer(t, what) == out[t][FirstOf(t, Answers(Call(t, what)))]
Answered(t, what) ==
    /\ Take(t, Answers(Call(t, what)))
    /\ UNCHANGED <<line, in, blocked, handle, leftover>>
Unanswered(t, what) == Expired(t, Answers(Call(t, what)))

\* auto_close of AutoRecoveringTerminal, which leaves no session
Left(t) == IF handle[t] # NoFile /\ handle[t].write THEN {handle[t]} ELSE {}
SessionEnds(t, next) ==
    /\ line' = [line EXCEPT ![t] = next]
    /\ in' = [in EXCEPT ![t] = <<>>] /\ out' = [out EXCEPT ![t] = <<>>]
    /\ blocked' = [blocked EXCEPT ![t] = FALSE]
    /\ handle' = [handle EXCEPT ![t] = NoFile]
    /\ leftover' = leftover \cup Left(t)

-----------------------------------------------------------------------------
\* The remote Python.

Written(contents, offset, blocks) ==
    [i \in 1 .. Max({Len(contents), offset + Len(blocks)}) |->
        IF i > offset /\ i <= offset + Len(blocks) THEN blocks[i - offset]
        ELSE IF i <= Len(contents) THEN contents[i] ELSE Hole]

Flushed(f) == IF f.buffer = <<>> THEN disk
              ELSE [disk EXCEPT ![f.place] = Written(@, f.offset, f.buffer)]
Emptied(f) == [f EXCEPT !.offset = @ + Len(f.buffer), !.buffer = <<>>]

NextCall(t) == Head(in[t])
Reads(t, k) == line[t] = "up" /\ ~blocked[t] /\ in[t] # <<>> /\ Head(in[t]).k = k
Write(t, items) == out' = [out EXCEPT ![t] = @ \o items]
Reply(t, k) ==
    /\ in' = [in EXCEPT ![t] = Tail(@)]
    /\ Write(t, <<[NextCall(t) EXCEPT !.k = k]>>)
    /\ UNCHANGED <<line, blocked>>

RunOpen(t) ==
    /\ Reads(t, "call") /\ NextCall(t).what = "open"
    /\ Reply(t, "reply")
    /\ LET c == NextCall(t)
           place == <<t, c.path>>
       IN /\ handle' = [handle EXCEPT ![t] =
                [n |-> c.n, place |-> place, size |-> c.size, write |-> c.write,
                 offset |-> 0, buffer |-> <<>>]]
          /\ leftover' = leftover \cup Left(t)
          /\ disk' = IF c.write THEN [disk EXCEPT ![place] = <<>>] ELSE disk
          /\ spoilt' = IF ~c.write THEN spoilt
                       ELSE IF \E f \in leftover' : f.place = place /\ f.buffer # <<>>
                       THEN spoilt \cup {place} ELSE spoilt \ {place}
    /\ UNCHANGED <<mode, control, copies, faults>>

\* There is no such file, or no permission for it.
OpenFails(t) ==
    /\ Reads(t, "call") /\ NextCall(t).what \in {"open", "mkdir", "chmod"}
    /\ faults < MaxFaults /\ faults' = faults + 1
    /\ Reply(t, "raised")
    /\ UNCHANGED <<handle, leftover, files, control, copies>>

RunClose(t) ==
    /\ Reads(t, "call") /\ NextCall(t).what = "close"
    /\ Reply(t, "reply")
    /\ disk' = Flushed(handle[t])
    /\ handle' = [handle EXCEPT ![t] = NoFile]
    /\ UNCHANGED <<leftover, mode, spoilt, control, copies, faults>>

\* The file is closed, but what was left of it could not be written.
CloseFails(t) ==
    /\ Reads(t, "call") /\ NextCall(t).what = "close"
    /\ faults < MaxFaults /\ faults' = faults + 1
    /\ Reply(t, "raised")
    /\ handle' = [handle EXCEPT ![t] = NoFile]
    /\ UNCHANGED <<leftover, files, control, copies>>

RunChmod(t) ==
    /\ Reads(t, "call") /\ NextCall(t).what = "chmod"
    /\ Reply(t, "reply")
    /\ mode' = [mode EXCEPT ![<<t, NextCall(t).path>>] = NextCall(t).n]
    /\ UNCHANGED <<handle, leftover, disk, spoilt, control, copies, faults>>

RunOther(t) ==
    /\ Reads(t, "call") /\ NextCall(t).what \in {"verify", "prompt", "handle", "mkdir"}
    /\ Reply(t, "reply")
    /\ UNCHANGED <<handle, leftover, files, control, copies, faults>>

\* FileHandle.read
RunRead(t) ==
    /\ Reads(t, "read")
    /\ LET f == handle[t]
           block == IF f.offset = f.size THEN EndOfFile
                    ELSE Block(f.n, f.place[2], f.offset + 1)
       IN /\ Write(t, <<[k |-> "data", block |-> block]>>)
          /\ handle' = IF block = EndOfFile THEN handle
                       ELSE [handle EXCEPT ![t].offset = @ + 1]
    /\ in' = [in EXCEPT ![t] = Tail(@)]
    /\ UNCHANGED <<line, blocked, leftover, files, control, copies, faults>>

\* FileHandle.write
RunWrite(t) ==
    /\ Reads(t, "write")
    /\ Write(t, <<[k |-> "start"]>>)
    /\ blocked' = [blocked EXCEPT ![t] = TRUE]
    /\ in' = [in EXCEPT ![t] = Tail(@)]
    /\ UNCHANGED <<line, handle, leftover, files, control, copies, faults>>

WriteBlock(t) ==
    /\ line[t] = "up" /\ blocked[t] /\ in[t] # <<>> /\ Head(in[t]).k = "data"
    /\ blocked' = [blocked EXCEPT ![t] = FALSE]
    /\ handle' = [handle EXCEPT ![t].buffer = Append(@, Head(in[t]).block)]
    /\ Write(t, <<[k |-> "stop"]>>)
    /\ in' = [in EXCEPT ![t] = Tail(@)]
    /\ UNCHANGED <<line, leftover, files, control, copies, faults>>

\* The read or the write of the file raises: the token or "reading stop" is not
\* printed.
FileFails(t) ==
    /\ faults < MaxFaults /\ faults' = faults + 1
    /\ line[t] = "up" /\ in[t] # <<>>
    /\ Head(in[t]).k = (IF blocked[t] THEN "data" ELSE "read")
    /\ blocked' = [blocked EXCEPT ![t] = FALSE]
    /\ in' = [in EXCEPT ![t] = Tail(@)]
    /\ UNCHANGED <<line, out, handle, leftover, files, control, copies>>

\* The bytes that are read as a block are those of a message: it may take some
\* more, and they may decode or not.
TakeMessage(t) ==
    /\ line[t] = "up" /\ blocked[t] /\ in[t] # <<>> /\ Head(in[t]).k # "data"
    /\ \/ UNCHANGED <<blocked, handle, out>>
       \/ /\ blocked' = [blocked EXCEPT ![t] = FALSE]
          /\ \/ UNCHANGED <<handle, out>>
             \/ /\ handle' = [handle EXCEPT ![t].buffer = Append(@, Garbled)]
                /\ Write(t, <<[k |-> "stop"]>>)
    /\ in' = [in EXCEPT ![t] = Tail(@)]
    /\ UNCHANGED <<line, leftover, files, control, copies, faults>>

\* The buffer of an open file is written when it is full.
Flush(t) ==
    /\ handle[t] # NoFile /\ handle[t].buffer # <<>>
    /\ disk' = Flushed(handle[t])
    /\ handle' = [handle EXCEPT ![t] = Emptied(@)]
    /\ UNCHANGED <<line, in, out, blocked, leftover, mode, spoilt, control, copies,
                   faults>>

\* A file left open is closed when its remote proxy is cleaned as garbage or
\* when its Python exits.
Collect ==
    /\ \E f \in leftover : leftover' = leftover \ {f} /\ disk' = Flushed(f)
    /\ UNCHANGED <<line, in, out, blocked, handle, mode, spoilt, control, copies,
                   faults>>

Remote(t) ==
    \/ RunOpen(t) \/ RunClose(t) \/ RunChmod(t) \/ RunOther(t)
    \/ RunRead(t) \/ RunWrite(t) \/ WriteBlock(t) \/ TakeMessage(t)

Raises(t) == OpenFails(t) \/ CloseFails(t) \/ FileFails(t)

Breaks(t, from, how) ==
    /\ faults < MaxFaults /\ faults' = faults + 1
    /\ line[t] \in from /\ line' = [line EXCEPT ![t] = how]
    /\ UNCHANGED <<in, out, blocked, handle, leftover, files, control, copies>>
Hang(t) == Breaks(t, {"up"}, "hung")
Die(t) == Breaks(t, {"up", "hung"}, "dead")
Revive(t) ==
    /\ line[t] = "hung" /\ line' = [line EXCEPT ![t] = "up"]
    /\ UNCHANGED <<in, out, blocked, handle, leftover, files, control, copies, faults>>

-----------------------------------------------------------------------------
\* The steps of the keywords which are calls, local or remote.

CallSteps == {"verify", "mkdir", "chmod", "openfrom", "opento", "handlefrom", "handleto",
              "promptfrom", "promptto", "closefrom", "closeto"}
At == CASE pc = "verify" -> This.at
        [] pc \in {"openfrom", "handlefrom", "promptfrom", "closefrom"} -> op.from
        [] OTHER -> op.to
What == CASE pc \in {"openfrom", "opento"} -> "open"
          [] pc \in {"handlefrom", "handleto"} -> "handle"
          [] pc \in {"promptfrom", "promptto"} -> "prompt"
          [] pc \in {"closefrom", "closeto"} -> "close"
          [] OTHER -> pc

\* What follows a call: both files are closed whatever happens, the target first.
Succeeds ==
    CASE pc \in {"verify", "mkdir", "chmod"} -> TaskDone
      [] pc = "openfrom" -> GoOn("opento")
      [] pc = "opento" -> GoOn(IF op.from = "local" THEN "read" ELSE "handlefrom")
      [] pc = "handlefrom" -> GoOn("read")
      [] pc = "handleto" -> GoOn("write")
      [] pc = "promptto" -> GoOn("closeto")
      [] pc = "closeto" -> GoOn("promptfrom")
      [] pc = "promptfrom" -> GoOn("closefrom")
      [] pc = "closefrom" /\ op.error # "none" -> GiveUp(op.error)
      [] pc = "closefrom" /\ op.error = "none" ->
             IF op.to = "local" THEN TaskDone ELSE GoOn("chmod")

\* mutant: the source is not closed if the target could not be
SourceLeftOpen(error) ==
    CASE pc \in {"mkdir", "chmod", "openfrom", "promptto", "closeto"} -> GiveUp(error)
      [] pc = "opento" -> GoOnWith("promptfrom", error)
      [] pc \in {"handlefrom", "handleto", "read", "write", "data", "start", "stop"} ->
             GoOnWith("promptto", error)
      [] OTHER -> GiveUp(error)
Fails(error) ==
    LET unclean == [op EXCEPT !.unclean = @ \cup {At}, !.error = error]
    IN CASE pc \in {"mkdir", "chmod", "openfrom"} -> GiveUp(error)
         [] pc = "opento" -> GoOnWith("promptfrom", error)
         [] pc \in {"handlefrom", "handleto", "read", "write", "data", "start", "stop"} ->
                GoOnWith("promptto", error)
         [] pc \in {"promptto", "closeto"} -> Step("promptfrom", unclean)
         [] pc \in {"promptfrom", "closefrom"} ->
                Step("task", [unclean EXCEPT !.todo = <<>>])

StartTask ==
    /\ pc = "task" /\ op.todo # <<>>
    /\ GoOn(CASE This.do = "init" -> "verify"
              [] This.do = "file" -> "openfrom"
              [] OTHER -> This.do)
    /\ UNCHANGED <<remote, files, copies, faults>>

CallLocal ==
    /\ pc \in CallSteps /\ At = "local"
    /\ Succeeds
    /\ disk' = IF pc = "opento" THEN [disk EXCEPT ![Place] = <<>>] ELSE disk
    /\ UNCHANGED <<remote, mode, spoilt, copies, faults>>

\* The local file, or the disk, raises.
LocalFails ==
    /\ faults < MaxFaults /\ faults' = faults + 1
    /\ \/ pc \in {"mkdir", "openfrom", "opento", "closefrom", "closeto"} /\ At = "local"
       \/ pc = "read" /\ op.from = "local"
       \/ pc = "write" /\ op.to = "local"
    /\ Fails("OSError")
    /\ UNCHANGED <<remote, files, copies>>

\* chmod of a directory whose proxies were made in an earlier session.
IsStale == pc = "chmod" /\ This.path \in op.stale
ChmodRefused ==
    /\ IsStale /\ ~sent
    /\ Fails("InvalidProxySession")
    /\ UNCHANGED <<remote, files, copies, faults>>

CallRemote ==
    /\ pc \in CallSteps /\ At # "local" /\ ~sent /\ line[At] # "none" /\ ~IsStale
    /\ Ask(At, What)
    /\ sent' = TRUE
    /\ UNCHANGED <<pc, op, outcome, files, copies, faults>>

CallReturns ==
    /\ pc \in CallSteps /\ sent
    /\ Answered(At, What)
    /\ IF Answer(At, What).k = "reply" THEN Succeeds ELSE Fails("OSError")
    /\ UNCHANGED <<files, copies, faults>>

\* RunnerTerminalSessionBroken
CallBreaks ==
    /\ pc \in CallSteps \ {"verify", "promptfrom", "promptto"} /\ sent
    /\ Unanswered(At, What)
    /\ SessionEnds(At, "none") /\ Fails("SessionBroken")
    /\ UNCHANGED <<files, copies, faults>>

\* _clean_shell raises, and the file is not closed.
PromptFails ==
    /\ pc \in {"promptfrom", "promptto"} /\ sent
    /\ Unanswered(At, What)
    /\ Fails(Error(At))
    /\ UNCHANGED <<remote, files, copies, faults>>

\* There is no session any more whose shell could be asked.
PromptWithout ==
    /\ pc \in {"promptfrom", "promptto"} /\ At # "local" /\ line[At] = "none"
    /\ Fails("AttributeError")
    /\ UNCHANGED <<remote, files, copies, faults>>

\* initialize_if_needed: a new session if there is none or it does not answer.
\* The proxies of a directory are made before it is and kept to its chmod.
Made == {path \in {"dir", "sub"} : Task("mkdir", op.to, path) \notin Range(op.todo)}
Renewed == Step("task", [op EXCEPT !.todo = Tail(@), !.read = 0, !.stale = @ \cup Made])
Initialize ==
    /\ pc = "verify"
    /\ line[At] = "none" \/ (sent /\ Unanswered(At, What))
    /\ SessionEnds(At, "up") /\ Renewed
    /\ UNCHANGED <<files, copies, faults>>

InitializeFails ==
    /\ faults < MaxFaults /\ faults' = faults + 1
    /\ pc = "verify"
    /\ line[At] = "none" \/ (sent /\ Unanswered(At, What))
    /\ SessionEnds(At, "none") /\ GiveUp("SessionInitializationFailed")
    /\ UNCHANGED <<files, copies>>

-----------------------------------------------------------------------------
\* _copy_file_from_readf_to_writef

Read(block) ==
    Step(IF block = EndOfFile THEN "promptto"
         ELSE IF op.read = 0 /\ op.to # "local" THEN "handleto" ELSE "write",
         [op EXCEPT !.block = block, !.read = IF block = EndOfFile THEN @ ELSE @ + 1])

ReadLocal ==
    /\ pc = "read" /\ op.from = "local"
    /\ Read(IF op.read = op.size THEN EndOfFile ELSE Block(op.n, This.path, op.read + 1))
    /\ UNCHANGED <<remote, files, copies, faults>>

\* _RemoteFileProxy.read
ReadRemote ==
    /\ pc = "read" /\ op.from # "local"
    /\ Send(op.from, [k |-> "read"])
    /\ GoOn("data")
    /\ UNCHANGED <<line, out, blocked, handle, leftover, files, copies, faults>>

Printed(t, k) == {item \in Range(out[t]) : item.k = k}

DataRead ==
    /\ pc = "data" /\ Take(op.from, Printed(op.from, "data"))
    /\ Read(out[op.from][FirstOf(op.from, Printed(op.from, "data"))].block)
    /\ UNCHANGED <<line, in, blocked, handle, leftover, files, copies, faults>>

NothingMore == Read(EndOfFile)  \* mutant: a read that times out ends the file
ReadFails == Fails(Error(op.from))
DataExpires ==
    /\ pc = "data" /\ Expired(op.from, Printed(op.from, "data"))
    /\ ReadFails
    /\ UNCHANGED <<remote, files, copies, faults>>

\* The size of the block that was read is more than what was asked for.
DataRefused ==
    /\ pc = "data" /\ Take(op.from, Printed(op.from, "data"))
    /\ faults < MaxFaults /\ faults' = faults + 1
    /\ Fails("RemoteFileReadingFailed")
    /\ UNCHANGED <<line, in, blocked, handle, leftover, files, copies>>

WriteLocal ==
    /\ pc = "write" /\ op.to = "local"
    /\ disk' = [disk EXCEPT ![Place] = Append(@, op.block)]
    /\ GoOn("read")
    /\ UNCHANGED <<remote, mode, spoilt, copies, faults>>

\* _RemoteFileProxy._write
WriteRemote ==
    /\ pc = "write" /\ op.to # "local"
    /\ Send(op.to, [k |-> "write"])
    /\ GoOn("start")
    /\ UNCHANGED <<line, out, blocked, handle, leftover, files, copies, faults>>

Started ==
    /\ pc = "start" /\ Take(op.to, Printed(op.to, "start"))
    /\ Send(op.to, [k |-> "data", block |-> op.block])
    /\ GoOn("stop")
    /\ UNCHANGED <<line, blocked, handle, leftover, files, copies, faults>>

Stopped ==
    /\ pc = "stop" /\ Take(op.to, Printed(op.to, "stop"))
    /\ GoOn("read")
    /\ UNCHANGED <<line, in, blocked, handle, leftover, files, copies, faults>>

WriteExpires ==
    /\ \/ pc = "start" /\ Expired(op.to, Printed(op.to, "start"))
       \/ pc = "stop" /\ Expired(op.to, Printed(op.to, "stop"))
    /\ Fails(Error(op.to))
    /\ UNCHANGED <<remote, files, copies, faults>>

-----------------------------------------------------------------------------
Init ==
    /\ line = [t \in Terminals |-> "none"]
    /\ in = [t \in Terminals |-> <<>>] /\ out = [t \in Terminals |-> <<>>]
    /\ blocked = [t \in Terminals |-> FALSE]
    /\ handle = [t \in Terminals |-> NoFile] /\ leftover = {}
    /\ disk = [p \in Places |-> <<>>] /\ mode = [p \in Places |-> 0] /\ spoilt = {}
    /\ op = NoOp /\ pc = "idle" /\ sent = FALSE /\ outcome = NoOp
    /\ copies = 0 /\ faults = 0

User == \/ CopyFileToTarget \/ CopyFileFromTarget \/ CopyFileBetweenTargets
        \/ CopyDirectoryToTarget \/ CopyDirectoryPartly \/ CopyDirectoryMissing
        \/ CreateDirectoryInTarget
Client ==
    \/ StartTask \/ Return \/ CallLocal \/ CallRemote \/ CallReturns \/ CallBreaks
    \/ PromptFails \/ PromptWithout \/ Initialize \/ ChmodRefused
    \/ ReadLocal \/ ReadRemote \/ DataRead \/ DataExpires
    \/ WriteLocal \/ WriteRemote \/ Started \/ Stopped \/ WriteExpires
Environment ==
    \/ InitializeFails \/ LocalFails \/ DataRefused \/ Collect
    \/ \E t \in Terminals : Raises(t) \/ Flush(t) \/ Hang(t) \/ Revive(t) \/ Die(t)
Next == User \/ Client \/ (\E t \in Terminals : Remote(t)) \/ Environment

Spec == Init /\ [][Next]_vars

\* The client goes on, with an answer or after a timeout, and so does a remote
\* Python whose connection works.
FairSpec == Spec /\ WF_vars(Client) /\ \A t \in Terminals : WF_vars(Remote(t))

-----------------------------------------------------------------------------
Results == {"none", "OSError", "SessionBroken", "SessionInitializationFailed",
            "InvalidProxySession", "RemoteFileReadingFailed", "AttributeError", "Timeout",
            "EOF"}
\* The types of the terminals, the files and the running keyword; a remote
\* Python blocks only in the read or write of an open file.
TypeOK ==
    /\ line \in [Terminals -> {"none", "up", "hung", "dead"}]
    /\ blocked \in [Terminals -> BOOLEAN]
    /\ \A t \in Terminals :
        /\ line[t] = "none" => in[t] = <<>> /\ out[t] = <<>> /\ handle[t] = NoFile
        /\ blocked[t] => handle[t] # NoFile
        /\ handle[t] # NoFile => handle[t].offset \in 0 .. handle[t].size
    /\ \A p \in Places : Len(disk[p]) <= MaxBlocks + 1
    /\ mode \in [Places -> 0 .. MaxCopies] /\ spoilt \subseteq Places
    /\ {op.error, outcome.error} \subseteq Results
    /\ op.read \in 0 .. op.size
    /\ pc \in CallSteps \cup {"idle", "task", "read", "data", "write", "start", "stop"}
    /\ sent => pc \in CallSteps
    /\ copies \in 0 .. MaxCopies /\ faults \in 0 .. MaxFaults

\* A keyword that returned has copied each file that could be listed, all of it
\* and nothing else, and set its mode, whatever an earlier keyword left in the
\* terminals; but for a file which an earlier keyword left open with something to
\* write to it.  _copy_directory skips a source directory which is missing or
\* cannot be read, and returns.
FilesOf(o) == IF o.name = "directory" THEN {"f", "g"}
              ELSE IF o.name \in {"create", "missing"} THEN {} ELSE {"f"}
IsCopied(o, path) ==
    /\ disk[<<o.to, path>>] = Source(o.n, path, o.size)
    /\ o.to # "local" => mode[<<o.to, path>>] = o.n
Returned(o) == o.n > 0 /\ o.error = "none"
CopyExact ==
    Returned(outcome) /\ pc = "idle" =>
        \A path \in FilesOf(outcome) :
            IsCopied(outcome, path) \/ <<outcome.to, path>> \in spoilt

\* A keyword leaves a remote file open only where the prompt asked for before
\* its close, or the close, failed.
FilesClosed ==
    pc = "idle" => \A t \in Terminals :
        handle[t] # NoFile /\ handle[t].n = outcome.n => t \in outcome.unclean

\* The mode of a directory, which may forbid to write to it, is set when what
\* could be listed in it has been copied and has its mode.  A subdirectory which
\* could not be listed is made, and has no mode.
DirModeLast ==
    [][\A t \in Terminals :
        mode'[<<t, "dir">>] # mode[<<t, "dir">>] =>
            /\ op.name = "directory" => mode[<<t, "sub">>] = op.n
            /\ \A path \in FilesOf(op) : IsCopied(op, path) \/ <<t, path>> \in spoilt]_vars

\* Every copy keyword ends, whatever the remote Python does: each message is
\* awaited with a timeout (timeouthandling).
CallsEnd == pc # "idle" ~> pc = "idle"
=============================================================================
