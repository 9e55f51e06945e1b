---------------------------- MODULE TerminalPools ----------------------------
(****************************************************************************)
(* The pools of initialized terminals (_TerminalPools and its _Pool objects)*)
(* and the keywords of RemoteRunner which use them: the foreground and      *)
(* background executions (_process), the copies, and the terminals given to *)
(* the user (PythonTerminal).  All of it runs in one thread: what is hard   *)
(* here is not interleaving but the order of the calls, and the calls that  *)
(* fail half way.                                                           *)
(*                                                                          *)
(* A pool which is not in _pools is here an empty one.                      *)
(****************************************************************************)
EXTENDS Integers, FiniteSets

CONSTANTS Targets,    \* the targets of RemoteRunner
          Hosts,      \* what their shells may lead to
          Jobs,       \* the executions and user terminals, each started once
          ExecIds,    \* the names of background executions
          Terminals,  \* bound on the terminals ever created
          TotalMaxs,  \* the values given to _TerminalPools.set_maxsize
          Limits,     \* the values given to max_processes_in_target
          None        \* nobody

ASSUME ConstantsAssumption ==
    /\ TotalMaxs \subseteq Nat \ {0}
    /\ Limits \subseteq Nat \ {0}
    /\ IsFiniteSet(Terminals)
    /\ None \notin Jobs /\ None \notin Terminals

VARIABLES
    free, inuse,  \* _Pool.free and _Pool.inuse of each key
    maxsize,      \* _Pool._maxsize, 0 before the first set_maxsize
    shared,       \* _Pool._sharedcounter of each terminal
    created,      \* the terminals created so far
    open,         \* the ones whose terminal is not None
    cleanup,      \* the job whose kill_forcefully is terminal_cleanup, or None
    host, limit,  \* the shells and max_processes_in_target of each target
    totalmax,     \* _TerminalPools.maxsize
    backgrounds,  \* the execution of each name, or None
    kind, state,  \* what a job is and how far it is
    key,          \* the pool a job uses
    terminal,     \* the terminal of a job
    proc,         \* the remote process of a job
    active        \* the job whose run occupies the thread, or None

settings == <<host, limit, totalmax>>
vars == <<free, inuse, maxsize, shared, created, open, cleanup, settings, backgrounds,
          kind, state, key, terminal, proc, active>>

-----------------------------------------------------------------------------
\* Executions, with and without progress_log, in the background and nohup, the
\* copy keywords, and terminals held by the user.
Kinds == {"run", "async", "background", "nohup", "copy", "terminal"}

\* A job has its terminal ("got"), its process runs in the foreground ("started")
\* or in the background, there with its session lost, its end was taken notice
\* of ("done"), or it raised: TerminalPoolsBusy ("busy") or anything else.
States == {"new", "got", "started", "background", "lost", "done", "busy", "failed"}

\* The background executions have terminals of their own.
Keys == Hosts \X {"foreground", "background"}
KeyOf(kd, target) ==
    <<host[target], IF kd \in {"background", "nohup"} THEN "background" ELSE "foreground">>

\* _TerminalPools.size, if the free terminals are f
TotalSize(f) == Cardinality(UNION {inuse[k] \cup f[k] : k \in Keys})

-----------------------------------------------------------------------------
\* Operations of _Pool.

\* _unshared_free, and _get_shared_free_size
Everything(s) == s  \* mutant: shared terminals are removed as well
Unshared(s) == {t \in s : shared[t] = 0}
SharedSize(s) == Cardinality(s) - Cardinality(Unshared(s))

\* remove_n_free: the sets of terminals it may remove.
RemoveNFree(s, n) ==
    LET most == Cardinality(Unshared(s))
        count == IF n <= 0 THEN 0 ELSE IF n < most THEN n ELSE most
    IN {r \in SUBSET Unshared(s) : Cardinality(r) = count}

\* set_maxsize raises when the terminals which cannot be removed are too many.
TooSmall(k, n) == n < Cardinality(inuse[k]) + SharedSize(free[k])

\* _Terminal.close of the terminals of r: the cleanup kills, of the jobs of a
\* terminal, the last one.
Killed(r) ==
    [j \in Jobs |-> IF /\ proc[j] = "running" /\ state[j] # "lost"
                       /\ \E t \in r : cleanup[t] = j
                    THEN "killed" ELSE proc[j]]

\* put: the terminal is free again, or is removed when it has been closed.
Put(t) ==
    /\ inuse' = [k \in Keys |-> inuse[k] \ {t}]
    /\ free' = [k \in Keys |-> IF t \in inuse[k] \cap open
                               THEN free[k] \cup {t} ELSE free[k]]

\* put_incr_shared and decr_shared
IncrShared(t) == shared' = [shared EXCEPT ![t] = IF t \in open THEN @ + 1 ELSE 0]
NotDecremented(t) == UNCHANGED shared  \* mutant: no decr_shared
DecrShared(t) == shared' = [shared EXCEPT ![t] = IF t \in open THEN @ - 1 ELSE 0]

\* remove: the terminal is closed and its pool forgets it.
Remove(t) ==
    /\ free' = [k \in Keys |-> free[k] \ {t}]
    /\ inuse' = [k \in Keys |-> inuse[k] \ {t}]
    /\ shared' = [shared EXCEPT ![t] = 0]
    /\ open' = open \ {t}

-----------------------------------------------------------------------------
\* _TerminalPools.get

\* _clean_free: at most every second of the free terminals of each pool.
Halves(f) ==
    {r \in SUBSET UNION {f[k] : k \in Keys} :
        \A k \in Keys : r \cap f[k] \in RemoveNFree(f[k], Cardinality(f[k]) \div 2)}

\* _clean_free_in_random_order_or_raise: the unshared ones of some pool, if any.
AnyPool(f) == {Unshared(f[k]) : k \in {q \in Keys : Unshared(f[q]) # {}}}

\* _clean_if_needed for the pool k: the sets of terminals it may remove, none
\* when it raises.
BelowMaxsize(f) == TotalSize(f) >= totalmax - 1  \* mutant: one too few
Full(f) == TotalSize(f) >= totalmax
Clean(f, k) ==
    IF f[k] # {} \/ ~Full(f) THEN {{}}
    ELSE IF \E r \in Halves(f) : r # {} THEN Halves(f)
    ELSE AnyPool(f)

Raises(j, st) ==
    /\ state' = [state EXCEPT ![j] = st]
    /\ UNCHANGED <<inuse, terminal, created, active>>

\* The terminal t is handed to a job; a user's terminal occupies no thread.
Hand(j, k, t) ==
    /\ inuse' = [inuse EXCEPT ![k] = @ \cup {t}]
    /\ state' = [state EXCEPT ![j] = "got"]
    /\ terminal' = [terminal EXCEPT ![j] = t]
    /\ active' = IF kind'[j] = "terminal" THEN None ELSE j

\* _get_item of the pool k: a free terminal or a new one, which may fail to start.
AboveMax(k) == Cardinality(inuse[k]) > maxsize'[k]  \* mutant: one too many
AtMax(k) == Cardinality(inuse[k]) >= maxsize'[k]
KeepsFree(g, k, t) == g  \* mutant: the item is not taken out of free
Taken(g, k, t) == [g EXCEPT ![k] = @ \ {t}]
GetItem(j, k, g) ==
    \/ \E t \in g[k] :
        /\ free' = Taken(g, k, t) /\ created' = created
        /\ Hand(j, k, t)
    \/  /\ g[k] = {} /\ free' = g
        /\ IF AtMax(k) THEN Raises(j, "busy")
           ELSE \/ Raises(j, "failed")
                \/ \E t \in Terminals \ created :
                    created' = created \cup {t} /\ Hand(j, k, t)

\* From the new maximum size on: the pool's own free terminals above it are
\* removed and then, to make room for a new one, terminals of all the pools.
Get(j, k, n) ==
    IF TooSmall(k, n)
    THEN Raises(j, "busy") /\ UNCHANGED <<free, maxsize, open, proc>>
    ELSE /\ maxsize' = [maxsize EXCEPT ![k] = n]
         /\ \E r \in RemoveNFree(free[k], Cardinality(free[k]) - n) :
            LET f == [free EXCEPT ![k] = @ \ r] IN
            \/  /\ Clean(f, k) = {} /\ free' = f
                /\ Raises(j, "busy")
                /\ open' = open \ r /\ proc' = Killed(r)
            \/ \E c \in Clean(f, k) :
                /\ GetItem(j, k, [q \in Keys |-> f[q] \ c])
                /\ open' = (open \ (r \cup c)) \cup (created' \ created)
                /\ proc' = Killed(r \cup c)

\* A user starts a job: the first thing it needs is a terminal.
Acquire(j, kd, target) ==
    /\ active = None /\ state[j] = "new"
    /\ kind' = [kind EXCEPT ![j] = kd]
    /\ key' = [key EXCEPT ![j] = KeyOf(kd, target)]
    /\ Get(j, KeyOf(kd, target), limit[target])
    /\ UNCHANGED <<shared, cleanup, settings, backgrounds>>

ExecuteCommand(j) ==
    \E kd \in {"run", "async"}, target \in Targets : Acquire(j, kd, target)

\* The name must not be in use; it is taken when the execution has been started.
AnyId == ExecIds  \* mutant: without BackgroundExecIdAlreadyInUse
FreeIds == {id \in ExecIds : backgrounds[id] = None}
ExecuteBackground(j) ==
    FreeIds # {} /\ \E target \in Targets : Acquire(j, "background", target)

ExecuteNohup(j) == \E target \in Targets : Acquire(j, "nohup", target)

\* active_terminal
Copy(j) == \E target \in Targets : Acquire(j, "copy", target)

GetTerminal(j) == \E target \in Targets : Acquire(j, "terminal", target)

-----------------------------------------------------------------------------
\* run of an execution, which has its terminal.

\* The environment cannot be read or the process not be started: of the executions
\* only that with nohup puts the terminal back.
RunRaises(j) ==
    /\ active = j /\ state[j] = "got"
    /\ state' = [state EXCEPT ![j] = "failed"]
    /\ active' = None
    /\ IF kind[j] \in {"nohup", "copy"} THEN Put(terminal[j]) ELSE UNCHANGED <<free, inuse>>
    /\ UNCHANGED <<maxsize, shared, created, open, cleanup, settings, backgrounds, kind, key,
                   terminal, proc>>

Start(j) ==
    /\ active = j /\ state[j] = "got" /\ kind[j] \in {"run", "async", "background"}
    /\ state' = [state EXCEPT ![j] = "started"]
    /\ proc' = [proc EXCEPT ![j] = "running"]
    /\ cleanup' = [cleanup EXCEPT ![terminal[j]] = j]
    /\ UNCHANGED <<free, inuse, maxsize, shared, created, open, settings, backgrounds, kind, key,
                   terminal, active>>

\* _NoCommBackgroudProcess: nobody waits for the daemon.
StartDaemon(j) ==
    /\ active = j /\ state[j] = "got" /\ kind[j] = "nohup"
    /\ state' = [state EXCEPT ![j] = "done"]
    /\ proc' = [proc EXCEPT ![j] = "running"]
    /\ active' = None
    /\ Put(terminal[j])
    /\ UNCHANGED <<maxsize, shared, created, open, cleanup, settings, backgrounds, kind, key, terminal>>

CopyEnds(j) ==
    /\ active = j /\ state[j] = "got" /\ kind[j] = "copy"
    /\ state' = [state EXCEPT ![j] = "done"]
    /\ active' = None
    /\ Put(terminal[j])
    /\ UNCHANGED <<maxsize, shared, created, open, cleanup, settings, backgrounds,
                   kind, key, terminal, proc>>

\* communicate of a background execution.  The terminal may be free at once.
Background(j) ==
    /\ active = j /\ state[j] = "started" /\ kind[j] = "background"
    /\ state' = [state EXCEPT ![j] = "background"]
    /\ active' = None
    /\ \E id \in FreeIds : backgrounds' = [backgrounds EXCEPT ![id] = j]
    /\ Put(terminal[j]) /\ IncrShared(terminal[j])
    /\ UNCHANGED <<maxsize, created, open, cleanup, settings, kind, key, terminal, proc>>

\* communicate raises: the line iterator of an async execution, which has a
\* timeout too, or the call in the background.  Nothing is finalized.
CommunicateRaises(j) ==
    /\ active = j /\ state[j] = "started" /\ kind[j] \in {"async", "background"}
    /\ state' = [state EXCEPT ![j] = "failed"]
    /\ active' = None
    /\ UNCHANGED <<free, inuse, maxsize, shared, created, open, cleanup, settings,
                   backgrounds, kind,
                   key, terminal, proc>>

\* _communicate_with_cleanup: the process ends, is killed after the timeout, or
\* the call raises something else.
Finish(j) ==
    /\ active = j /\ state[j] = "started" /\ kind[j] \in {"run", "async"}
    /\ \/ state' = [state EXCEPT ![j] = "done"] /\ proc' = [proc EXCEPT ![j] = "ended"]
       \/ state' = [state EXCEPT ![j] = "done"] /\ proc' = [proc EXCEPT ![j] = "killed"]
       \/ state' = [state EXCEPT ![j] = "failed"] /\ UNCHANGED proc
    /\ active' = None
    /\ cleanup' = [cleanup EXCEPT ![terminal[j]] = None]
    /\ Put(terminal[j])
    /\ UNCHANGED <<maxsize, shared, created, open, settings, backgrounds, kind, key, terminal>>

\* Killed too, but its response does not come: the terminal is removed, and the
\* finalization finds it closed.
FailToKill(j) ==
    /\ active = j /\ state[j] = "started" /\ kind[j] \in {"run", "async"}
    /\ state' = [state EXCEPT ![j] = "failed"]
    /\ proc' = [proc EXCEPT ![j] = "killed"]
    /\ active' = None
    /\ cleanup' = [cleanup EXCEPT ![terminal[j]] = None]
    /\ Remove(terminal[j])
    /\ UNCHANGED <<maxsize, created, settings, backgrounds, kind, key, terminal>>

-----------------------------------------------------------------------------
\* The calls for a background execution.  Waits which time out change nothing.

Ends(j) ==
    /\ state[j] # "started" /\ proc[j] = "running"
    /\ proc' = [proc EXCEPT ![j] = "ended"]
    /\ UNCHANGED <<free, inuse, maxsize, shared, created, open, cleanup, settings,
                   backgrounds, kind, state, key, terminal, active>>

Unnamed(j) == [id \in ExecIds |-> IF backgrounds[id] = j THEN None ELSE backgrounds[id]]
Named(j) == \E id \in ExecIds : backgrounds[id] = j

Wait(j) ==
    /\ active = None /\ state[j] = "background" /\ Named(j)
    /\ proc[j] # "running" /\ terminal[j] \in open
    /\ state' = [state EXCEPT ![j] = "done"]
    /\ backgrounds' = Unnamed(j)
    /\ DecrShared(terminal[j])
    /\ UNCHANGED <<free, inuse, maxsize, created, open, cleanup, settings, kind, key,
                   terminal, proc, active>>

\* An execution that was killed keeps its name until it is waited for.
WaitKilled(j) ==
    /\ active = None /\ state[j] = "done" /\ Named(j)
    /\ backgrounds' = Unnamed(j)
    /\ UNCHANGED <<free, inuse, maxsize, shared, created, open, cleanup, settings, kind,
                   state, key, terminal, proc, active>>

Kill(j) ==
    /\ active = None /\ state[j] = "background" /\ Named(j) /\ terminal[j] \in open
    /\ state' = [state EXCEPT ![j] = "done"]
    /\ proc' = [proc EXCEPT ![j] = IF @ = "running" THEN "killed" ELSE @]
    /\ DecrShared(terminal[j])
    /\ UNCHANGED <<free, inuse, maxsize, created, open, cleanup, settings, backgrounds, kind, key,
                   terminal, active>>

\* Killed, but its response does not come: the terminal is removed under all
\* the executions that share it, and its cleanup kills one more of them.
FailToKillBackground(j) ==
    LET t == terminal[j] IN
    /\ active = None /\ state[j] = "background" /\ Named(j)
    /\ t \in open /\ proc[j] = "running"
    /\ proc' = [Killed({t}) EXCEPT ![j] = "killed"]
    /\ Remove(t)
    /\ UNCHANGED <<maxsize, created, cleanup, settings, backgrounds, kind, state, key, terminal, active>>

\* The connection of a terminal breaks.  The terminal recovers when it is used,
\* but what ran in its session can neither be waited for nor killed any more.
Lost(t) ==
    /\ \E j \in Jobs : state[j] = "background" /\ terminal[j] = t
    /\ state' = [j \in Jobs |-> IF state[j] = "background" /\ terminal[j] = t
                               THEN "lost" ELSE state[j]]
    /\ UNCHANGED <<free, inuse, maxsize, shared, created, open, cleanup, settings,
                   backgrounds, kind, key, terminal, proc, active>>
SessionBreaks(t) == t \in open /\ Lost(t)

\* A second kill asks for a response that has been given: the remote Python ends.
KillAgain(j) ==
    /\ active = None /\ state[j] = "done" /\ Named(j) /\ terminal[j] \in open
    /\ Lost(terminal[j])

-----------------------------------------------------------------------------
\* PythonTerminal.__del__
Release(j) ==
    /\ active = None /\ state[j] = "got" /\ kind[j] = "terminal"
    /\ state' = [state EXCEPT ![j] = "done"]
    /\ Put(terminal[j])
    /\ UNCHANGED <<maxsize, shared, created, open, cleanup, settings, backgrounds, kind, key,
                   terminal, proc, active>>

Setting ==
    /\ active = None
    /\ UNCHANGED <<free, inuse, maxsize, shared, created, open, cleanup, backgrounds,
                   kind, state, key, terminal, proc, active>>

\* A target which is set again has the default properties.
SetTarget(target, h, n) ==
    /\ Setting
    /\ host' = [host EXCEPT ![target] = h] /\ limit' = [limit EXCEPT ![target] = n]
    /\ UNCHANGED totalmax

SetLimit(target, n) ==
    /\ Setting
    /\ limit' = [limit EXCEPT ![target] = n]
    /\ UNCHANGED <<host, totalmax>>

SetTotalMax(n) == Setting /\ totalmax' = n /\ UNCHANGED <<host, limit>>

\* RemoteRunner.close: the pools close their terminals, free and in use, and the
\* background executions are forgotten.
Close ==
    /\ active = None
    /\ LET pooled == UNION {free[k] \cup inuse[k] : k \in Keys} IN
       open' = open \ pooled /\ proc' = Killed(pooled)
    /\ free' = [k \in Keys |-> {}] /\ inuse' = [k \in Keys |-> {}]
    /\ maxsize' = [k \in Keys |-> 0]
    /\ shared' = [t \in Terminals |-> 0]
    /\ state' = [j \in Jobs |-> IF state[j] \in {"background", "lost"} THEN "done"
                               ELSE state[j]]
    /\ backgrounds' = [id \in ExecIds |-> None]
    /\ UNCHANGED <<created, cleanup, settings, kind, key, terminal, active>>

Init ==
    /\ free = [k \in Keys |-> {}] /\ inuse = [k \in Keys |-> {}]
    /\ maxsize = [k \in Keys |-> 0]
    /\ shared = [t \in Terminals |-> 0]
    /\ created = {} /\ open = {}
    /\ cleanup = [t \in Terminals |-> None]
    /\ host \in [Targets -> Hosts] /\ limit \in [Targets -> Limits]
    /\ totalmax \in TotalMaxs
    /\ backgrounds = [id \in ExecIds |-> None]
    /\ kind = [j \in Jobs |-> "run"] /\ state = [j \in Jobs |-> "new"]
    /\ key = [j \in Jobs |-> None]
    /\ terminal = [j \in Jobs |-> None] /\ proc = [j \in Jobs |-> "none"]
    /\ active = None

Next ==
    \/ \E j \in Jobs :
        \/ ExecuteCommand(j) \/ ExecuteBackground(j) \/ ExecuteNohup(j)
        \/ Copy(j) \/ GetTerminal(j)
        \/ RunRaises(j) \/ Start(j) \/ StartDaemon(j) \/ CopyEnds(j)
        \/ Background(j) \/ CommunicateRaises(j) \/ Finish(j) \/ FailToKill(j)
        \/ Ends(j) \/ Wait(j) \/ WaitKilled(j) \/ Kill(j) \/ KillAgain(j)
        \/ FailToKillBackground(j) \/ Release(j)
    \/ \E t \in Terminals : SessionBreaks(t)
    \/ \E target \in Targets, h \in Hosts, n \in Limits : SetTarget(target, h, n)
    \/ \E target \in Targets, n \in Limits : SetLimit(target, n)
    \/ \E n \in TotalMaxs : SetTotalMax(n)
    \/ Close

Spec == Init /\ [][Next]_vars

-----------------------------------------------------------------------------
\* The type of every variable; a terminal is in one pool, and free or in use.
TypeOK ==
    /\ free \in [Keys -> SUBSET created] /\ inuse \in [Keys -> SUBSET created]
    /\ \A k \in Keys : free[k] \cap inuse[k] = {}
    /\ \A k, q \in Keys :
        k # q => (free[k] \cup inuse[k]) \cap (free[q] \cup inuse[q]) = {}
    /\ maxsize \in [Keys -> Limits \cup {0}]
    /\ shared \in [Terminals -> Nat]
    /\ created \subseteq Terminals /\ open \subseteq created
    /\ cleanup \in [Terminals -> Jobs \cup {None}]
    /\ host \in [Targets -> Hosts] /\ limit \in [Targets -> Limits]
    /\ totalmax \in TotalMaxs
    /\ backgrounds \in [ExecIds -> Jobs \cup {None}]
    /\ kind \in [Jobs -> Kinds] /\ state \in [Jobs -> States]
    /\ key \in [Jobs -> Keys \cup {None}]
    /\ terminal \in [Jobs -> created \cup {None}]
    /\ proc \in [Jobs -> {"none", "running", "ended", "killed"}]
    /\ active \in Jobs \cup {None}

Holds(j) == state[j] \in {"got", "started"} /\ terminal[j] \in open

\* A terminal in use is used by one job only, and cannot be handed out or
\* cleaned away meanwhile: put, put_incr_shared and remove keep free and inuse
\* apart whatever else shares or shared the terminal.
Exclusive ==
    /\ \A j \in Jobs : Holds(j) =>
        terminal[j] \in inuse[key[j]] /\ \A k \in Keys : terminal[j] \notin free[k]
    /\ \A j, h \in Jobs : Holds(j) /\ Holds(h) /\ j # h => terminal[j] # terminal[h]

\* The shared counter of a terminal counts the background executions that are
\* neither waited for nor killed: put_incr_shared and decr_shared are paired on
\* every path, a failed kill and the removal of the terminal included.
SharedCounts ==
    \A t \in open :
        shared[t] = Cardinality({j \in Jobs : state[j] \in {"background", "lost"}
                                             /\ terminal[j] = t})

\* Every background execution which is neither waited for nor killed has a name,
\* and no two have the same, nor is it that of a killed one: it can be killed
\* (execute_background_command_in_target, BackgroundExecIdAlreadyInUse).
EachHasItsName ==
    /\ \A j \in Jobs : state[j] \in {"background", "lost"} => Named(j)
    /\ \A i, id \in ExecIds : backgrounds[i] = backgrounds[id] => i = id \/ backgrounds[i] = None

\* No pool grows above its maximum size, nor do all of them together above that
\* of _TerminalPools: _clean_if_needed makes room before each new terminal.  Both
\* may be below the size after max_processes_in_target or maxsize was lowered.
Size(k) == Cardinality(free[k] \cup inuse[k])
GrowsWithinMax ==
    [][/\ \A k \in Keys : Size(k)' > Size(k) => Size(k)' <= maxsize'[k]
       /\ TotalSize(free)' > TotalSize(free) => TotalSize(free)' <= totalmax]_vars

\* A new job may close idle terminals to make room, but no terminal with a
\* background execution, and it kills no process.
NewJobHarmsNone ==
    [][\A j \in Jobs : state[j] = "new" /\ state'[j] # "new" =>
        /\ proc' = proc
        /\ \A b \in Jobs : state[b] = "background" /\ terminal[b] \in open
                            => terminal[b] \in open']_vars

\* TerminalPoolsBusy is raised only when the terminals that are in use or shared
\* reach the maximum of the target's pool or of all the pools.
Occupied(k) == inuse[k] \cup (free[k] \ Unshared(free[k]))
BusyOnlyWhenFull ==
    [][\A j \in Jobs : state[j] = "new" /\ state'[j] = "busy" =>
        \/ \E target \in Targets :
            key'[j] = KeyOf(kind'[j], target)
                /\ Cardinality(Occupied(key'[j])) >= limit[target]
        \/ Cardinality(UNION {Occupied(k) : k \in Keys}) >= totalmax]_vars
=============================================================================
