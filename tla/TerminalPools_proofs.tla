------------------------- MODULE TerminalPools_proofs ------------------------
(****************************************************************************)
(* Proofs about TerminalPools: its types, what the pools and the jobs rely  *)
(* on, and what a new job may do, for every number of targets, jobs, names  *)
(* and terminals.  The jobs need not be finitely many.                      *)
(****************************************************************************)
EXTENDS TerminalPools, FiniteSetTheorems, TLAPS

-----------------------------------------------------------------------------
(* The inductive invariant.                                                 *)

\* What is in a pool is open, and no open terminal is forgotten by the pools.
PoolInv ==
    /\ \A k \in Keys : free[k] \cup inuse[k] \subseteq open
    /\ \A t \in open : \E k \in Keys : t \in free[k] \cup inuse[k]

\* A job with a terminal knows its pool.
JobInv == \A j \in Jobs : state[j] \in {"got", "started"} => key[j] \in Keys

\* The executions which share a terminal: those that are neither waited for nor
\* killed, and there are only finitely many of them.
InBackground == {j \in Jobs : state[j] \in {"background", "lost"}}
Sharing(t) == {j \in Jobs : state[j] \in {"background", "lost"} /\ terminal[j] = t}
SharedInv ==
    /\ IsFiniteSet(InBackground)
    /\ SharedCounts
    /\ \A t \in Terminals \ created : shared[t] = 0

\* Only an execution that was put in the background has a name, and keeps it
\* until it is waited for.
NameInv ==
    /\ EachHasItsName
    /\ \A id \in ExecIds : backgrounds[id] # None =>
            state[backgrounds[id]] \in {"background", "lost", "done"}

\* A process which the cleanup of a terminal would kill: it runs in a job that
\* has the terminal, shares it, or took it along when its call failed.
Unstarted == {"new", "got", "busy"}
CleanupInv ==
    /\ \A j \in Jobs : state[j] \in Unstarted => proc[j] = "none"
    /\ \A t \in Terminals : cleanup[t] # None =>
        LET j == cleanup[t] IN
        /\ terminal[j] = t
        /\ state[j] \notin Unstarted
        /\ proc[j] = "running" /\ t \in open =>
            \/ state[j] \in {"started", "background", "lost"}
            \/ /\ state[j] = "failed" /\ \A k \in Keys : t \notin free[k]
               /\ \A h \in Jobs : Holds(h) => terminal[h] # t

Inv == TypeOK /\ PoolInv /\ JobInv /\ Exclusive /\ SharedInv /\ NameInv /\ CleanupInv

-----------------------------------------------------------------------------
(* What a new job does with the pools.                                      *)

\* A set of terminals that _Pool removes: they are free, in a pool each, and
\* not shared.
Removable(r) ==
    \A t \in r : t \in Terminals /\ shared[t] = 0 /\ \E k \in Keys : t \in free[k]

\* The job gets no terminal, or the terminal t, which was free or is new; the
\* terminals of r are removed from their pools and closed.
Refused(j, r) ==
    /\ \E st \in {"busy", "failed"} : state' = [state EXCEPT ![j] = st]
    /\ free' = [k \in Keys |-> free[k] \ r] /\ inuse' = inuse
    /\ open' = open \ r /\ created' = created
    /\ terminal' = terminal /\ active' = active
Given(j, k, r, t) ==
    /\ state' = [state EXCEPT ![j] = "got"]
    /\ free' = [q \in Keys |-> (free[q] \ r) \ {t}]
    /\ inuse' = [inuse EXCEPT ![k] = @ \cup {t}]
    /\ created' = created \cup {t}
    /\ terminal' = [terminal EXCEPT ![j] = t]
    /\ active' \in {None, j}
    /\ \/ t \in free[k] /\ open' = open \ r
       \/ t \notin created /\ open' = (open \ r) \cup {t}

\* _clean_if_needed removes terminals that are free and unshared.
LEMMA CleanRemoves ==
  ASSUME TypeOK, NEW k \in Keys, NEW r \in SUBSET free[k],
         NEW c \in Clean([free EXCEPT ![k] = @ \ r], k)
  PROVE  Removable(c)
  <1> DEFINE f == [free EXCEPT ![k] = @ \ r]
  <1>1. f \in [Keys -> SUBSET Terminals] /\ \A q \in Keys : f[q] \subseteq free[q]
    BY DEF TypeOK
  <1>2. \A q \in Keys : \A n : \A s \in RemoveNFree(f[q], n) : s \subseteq Unshared(f[q])
    BY DEF RemoveNFree
  <1> HIDE DEF f
  <1>3. c = {} \/ c \in Halves(f) \/ c \in AnyPool(f)
    BY DEF f, Clean
  <1>4. ASSUME c \in Halves(f), NEW t \in c PROVE \E q \in Keys : t \in Unshared(f[q])
    <2>1. PICK q \in Keys : t \in f[q]
      BY <1>4 DEF Halves
    <2>2. c \cap f[q] \in RemoveNFree(f[q], Cardinality(f[q]) \div 2)
      BY <1>4 DEF Halves
    <2>3. QED
      BY <1>2, <2>1, <2>2
  <1>5. ASSUME c \in AnyPool(f), NEW t \in c PROVE \E q \in Keys : t \in Unshared(f[q])
    BY <1>5 DEF AnyPool
  <1>6. \A t \in c : \E q \in Keys : t \in Unshared(f[q])
    BY <1>3, <1>4, <1>5
  <1>7. QED
    BY <1>1, <1>6 DEF Unshared, Removable

LEMMA AcquireStep ==
  ASSUME TypeOK, NEW j \in Jobs, NEW kd \in Kinds, NEW target \in Targets,
         Acquire(j, kd, target)
  PROVE  /\ KeyOf(kd, target) \in Keys
         /\ maxsize' \in [Keys -> Limits \cup {0}]
         /\ \E r \in SUBSET Terminals :
              /\ Removable(r) /\ proc' = Killed(r)
              /\ \/ Refused(j, r)
                 \/ \E t \in Terminals \ r : Given(j, KeyOf(kd, target), r, t)
  <1> DEFINE k == KeyOf(kd, target)  n == limit[target]
  <1>1. k \in Keys /\ n \in Limits
    BY DEF TypeOK, KeyOf, Keys
  <1>2. kind'[j] = kd /\ Get(j, k, n)
    BY DEF Acquire, TypeOK
  <1> HIDE DEF k, n
  <1>3. CASE TooSmall(k, n)
    <2>1. Raises(j, "busy") /\ UNCHANGED <<free, maxsize, open, proc>>
      BY <1>2, <1>3 DEF Get
    <2>2. Killed({}) = proc
      BY DEF Killed, TypeOK
    <2>3. Removable({}) /\ Refused(j, {})
      BY <2>1 DEF Removable, Refused, Raises, TypeOK
    <2>4. QED
      BY <1>1, <2>1, <2>2, <2>3 DEF k, TypeOK
  <1>4. CASE ~TooSmall(k, n)
    <2>1. /\ maxsize' = [maxsize EXCEPT ![k] = n]
          /\ maxsize' \in [Keys -> Limits \cup {0}]
      BY <1>1, <1>2, <1>4 DEF Get, TypeOK
    <2>2. PICK r \in RemoveNFree(free[k], Cardinality(free[k]) - n) :
            LET f == [free EXCEPT ![k] = @ \ r] IN
            \/  /\ Clean(f, k) = {} /\ free' = f
                /\ Raises(j, "busy")
                /\ open' = open \ r /\ proc' = Killed(r)
            \/ \E c \in Clean(f, k) :
                /\ GetItem(j, k, [q \in Keys |-> f[q] \ c])
                /\ open' = (open \ (r \cup c)) \cup (created' \ created)
                /\ proc' = Killed(r \cup c)
      BY <1>2, <1>4 DEF Get
    <2> DEFINE f == [free EXCEPT ![k] = @ \ r]
    <2>3. r \subseteq free[k] /\ Removable(r) /\ r \in SUBSET Terminals
      BY <1>1 DEF RemoveNFree, Unshared, Removable, TypeOK
    <2>4. \A q \in Keys : q # k => r \cap free[q] = {}
      BY <1>1, <2>3 DEF TypeOK
    <2>5. CASE /\ free' = f /\ Raises(j, "busy")
               /\ open' = open \ r /\ proc' = Killed(r)
      <3>1. f = [q \in Keys |-> free[q] \ r]
        BY <1>1, <2>4 DEF TypeOK
      <3>2. Refused(j, r)
        BY <2>5, <3>1 DEF Refused, Raises
      <3>3. QED
        BY <1>1, <2>1, <2>3, <2>5, <3>2 DEF k
    <2>6. ASSUME NEW c \in Clean(f, k),
                 GetItem(j, k, [q \in Keys |-> f[q] \ c]),
                 open' = (open \ (r \cup c)) \cup (created' \ created),
                 proc' = Killed(r \cup c)
          PROVE  \E s \in SUBSET Terminals :
              /\ Removable(s) /\ proc' = Killed(s)
              /\ \/ Refused(j, s)
                 \/ \E t \in Terminals \ s : Given(j, k, s, t)
      <3> DEFINE s == r \cup c  g == [q \in Keys |-> f[q] \ c]
      <3>1. Removable(c)
        BY <1>1, <2>3, <2>6, CleanRemoves
      <3>2. Removable(s) /\ s \in SUBSET Terminals
        BY <2>3, <3>1 DEF Removable
      <3>3. g = [q \in Keys |-> free[q] \ s]
        BY <1>1, <2>4 DEF TypeOK
      <3>4. proc' = Killed(s) /\ open' = (open \ s) \cup (created' \ created)
        BY <2>6
      <3>5. \A t \in s : t \in created
        BY <3>2 DEF Removable, TypeOK
      <3> HIDE DEF g, f, s
      <3>6. GetItem(j, k, g)
        BY <2>6 DEF g
      <3>7. CASE \E t \in g[k] : free' = Taken(g, k, t) /\ created' = created /\ Hand(j, k, t)
        <4>1. PICK t \in g[k] : free' = Taken(g, k, t) /\ created' = created /\ Hand(j, k, t)
          BY <3>7
        <4>2. t \in free[k] /\ t \notin s /\ t \in Terminals /\ t \in created
          BY <1>1, <3>3 DEF TypeOK
        <4>3. \A q \in Keys : q # k => t \notin free[q]
          BY <1>1, <4>2 DEF TypeOK
        <4>4. free' = [q \in Keys |-> (free[q] \ s) \ {t}]
          BY <1>1, <3>3, <4>1, <4>3 DEF Taken
        <4>5. Given(j, k, s, t)
          BY <3>4, <4>1, <4>2, <4>4 DEF Given, Hand
        <4>6. QED
          BY <3>2, <3>4, <4>2, <4>5
      <3>8. CASE /\ g[k] = {} /\ free' = g
                 /\ \E st \in {"busy", "failed"} : Raises(j, st)
        <4>1. Refused(j, s)
          BY <3>3, <3>4, <3>8 DEF Refused, Raises
        <4>2. QED
          BY <3>2, <3>4, <4>1
      <3>9. CASE /\ g[k] = {} /\ free' = g
                 /\ \E t \in Terminals \ created :
                      created' = created \cup {t} /\ Hand(j, k, t)
        <4>1. PICK t \in Terminals \ created : created' = created \cup {t} /\ Hand(j, k, t)
          BY <3>9
        <4>2. t \notin s /\ \A q \in Keys : t \notin free[q]
          BY <3>5 DEF TypeOK
        <4>3. free' = [q \in Keys |-> (free[q] \ s) \ {t}]
          BY <3>3, <3>9, <4>2
        <4>4. open' = (open \ s) \cup {t}
          BY <3>4, <4>1
        <4>5. Given(j, k, s, t)
          BY <4>1, <4>3, <4>4 DEF Given, Hand
        <4>6. QED
          BY <3>2, <3>4, <4>2, <4>5
      <3>10. QED
        BY <3>6, <3>7, <3>8, <3>9 DEF GetItem
    <2>7. QED
      BY <1>1, <2>1, <2>2, <2>5, <2>6 DEF k
  <1>5. QED
    BY <1>3, <1>4

-----------------------------------------------------------------------------
(* The pools: what put, remove and get leave apart stays apart.             *)

PoolsApart ==
    /\ free \in [Keys -> SUBSET created] /\ inuse \in [Keys -> SUBSET created]
    /\ \A k \in Keys : free[k] \cap inuse[k] = {}
    /\ \A k, q \in Keys :
        k # q => (free[k] \cup inuse[k]) \cap (free[q] \cup inuse[q]) = {}
    /\ open \subseteq created

LEMMA PutPools ==
  ASSUME PoolsApart, PoolInv, NEW t, Put(t), UNCHANGED <<created, open>>
  PROVE  PoolsApart' /\ PoolInv'
  <1>1. /\ free' \in [Keys -> SUBSET created] /\ inuse' \in [Keys -> SUBSET created]
        /\ \A k \in Keys : free'[k] \cup inuse'[k] \subseteq free[k] \cup inuse[k]
        /\ \A k \in Keys : free'[k] \cap inuse'[k] = {}
    BY DEF PoolsApart, Put
  <1>2. \A k \in Keys : (free[k] \cup inuse[k]) \cap open = (free'[k] \cup inuse'[k]) \cap open
    BY DEF PoolsApart, Put
  <1>3. QED
    BY <1>1, <1>2 DEF PoolsApart, PoolInv

LEMMA RemovePools ==
  ASSUME PoolsApart, PoolInv, NEW t, Remove(t), UNCHANGED created
  PROVE  PoolsApart' /\ PoolInv'
  <1>1. /\ free' \in [Keys -> SUBSET created] /\ inuse' \in [Keys -> SUBSET created]
        /\ \A k \in Keys : free'[k] \cup inuse'[k] = (free[k] \cup inuse[k]) \ {t}
        /\ \A k \in Keys : free'[k] \cap inuse'[k] = {}
    BY DEF PoolsApart, Remove
  <1>2. open' = open \ {t}
    BY DEF Remove
  <1>3. QED
    BY <1>1, <1>2 DEF PoolsApart, PoolInv

LEMMA RefusedPools ==
  ASSUME PoolsApart, PoolInv, NEW j \in Jobs, NEW r, Refused(j, r), Removable(r)
  PROVE  PoolsApart' /\ PoolInv'
  <1>1. /\ free' \in [Keys -> SUBSET created] /\ inuse' = inuse
        /\ \A k \in Keys : free'[k] = free[k] \ r
        /\ open' = open \ r /\ created' = created
    BY DEF PoolsApart, Refused
  <1>2. \A k \in Keys : inuse[k] \cap r = {}
    BY DEF PoolsApart, Removable
  <1>3. QED
    BY <1>1, <1>2 DEF PoolsApart, PoolInv

LEMMA GivenPools ==
  ASSUME PoolsApart, PoolInv, NEW j \in Jobs, NEW k \in Keys, NEW r, Removable(r),
         NEW t \in Terminals \ r, Given(j, k, r, t)
  PROVE  PoolsApart' /\ PoolInv'
  <1>1. /\ free' \in [Keys -> SUBSET created'] /\ inuse' \in [Keys -> SUBSET created']
        /\ \A q \in Keys : free'[q] = (free[q] \ r) \ {t}
        /\ inuse'[k] = inuse[k] \cup {t}
        /\ \A q \in Keys : q # k => inuse'[q] = inuse[q]
        /\ created' = created \cup {t}
    BY DEF PoolsApart, Given
  <1>2. \A q \in Keys : inuse[q] \cap r = {}
    BY DEF PoolsApart, Removable
  <1>3. \A q \in Keys : q # k => t \notin free[q] \cup inuse[q]
    BY DEF Given, PoolsApart
  <1>4. t \notin inuse[k]
    BY DEF Given, PoolsApart
  <1>5. open' = (open \ r) \cup {t}
    BY DEF Given, PoolInv
  <1>6. PoolsApart'
    BY <1>1, <1>3, <1>4, <1>5 DEF PoolsApart
  <1>7. PoolInv'
    BY <1>1, <1>2, <1>5 DEF PoolInv
  <1>8. QED
    BY <1>6, <1>7

LEMMA ClosePools == PoolsApart /\ PoolInv /\ Close => PoolsApart' /\ PoolInv'
  <1> SUFFICES ASSUME PoolsApart, PoolInv, Close PROVE PoolsApart' /\ PoolInv'
    OBVIOUS
  <1>1. \A t \in open : t \in UNION {free[k] \cup inuse[k] : k \in Keys}
    BY DEF PoolInv
  <1>2. open' = {} /\ created' = created
    BY <1>1 DEF Close
  <1>3. free' = [k \in Keys |-> {}] /\ inuse' = [k \in Keys |-> {}]
    BY DEF Close
  <1>4. QED
    BY <1>2, <1>3 DEF PoolsApart, PoolInv

LEMMA PoolsNext == Inv /\ [Next]_vars => PoolsApart' /\ PoolInv'
  <1> SUFFICES ASSUME Inv, [Next]_vars PROVE PoolsApart' /\ PoolInv'
    OBVIOUS
  <1>0. PoolsApart /\ PoolInv
    BY DEF Inv, TypeOK, PoolsApart
  <1>1. CASE UNCHANGED <<free, inuse, created, open>>
    BY <1>0, <1>1 DEF PoolsApart, PoolInv
  <1>2. ASSUME NEW j \in Jobs, NEW kd \in Kinds, NEW target \in Targets,
               Acquire(j, kd, target)
        PROVE  PoolsApart' /\ PoolInv'
    BY <1>0, <1>2, AcquireStep, RefusedPools, GivenPools DEF Inv
  <1>3. ASSUME NEW j \in Jobs,
               \/ RunRaises(j) \/ StartDaemon(j) \/ CopyEnds(j) \/ Background(j)
               \/ Finish(j) \/ Release(j)
        PROVE  PoolsApart' /\ PoolInv'
    <2>1. /\ Put(terminal[j]) \/ UNCHANGED <<free, inuse>>
          /\ UNCHANGED <<created, open>>
      BY <1>3 DEF RunRaises, StartDaemon, CopyEnds, Background, Finish, Release
    <2>2. QED
      BY <1>0, <1>1, <2>1, PutPools
  <1>4. ASSUME NEW j \in Jobs, FailToKill(j) \/ FailToKillBackground(j)
        PROVE  PoolsApart' /\ PoolInv'
    BY <1>0, <1>4, RemovePools DEF FailToKill, FailToKillBackground
  <1>5. CASE Close
    BY <1>0, <1>5, ClosePools
  <1>6. ASSUME NEW j \in Jobs,
               \/ Start(j) \/ CommunicateRaises(j) \/ Ends(j) \/ Wait(j) \/ WaitKilled(j)
               \/ Kill(j) \/ KillAgain(j)
        PROVE  UNCHANGED <<free, inuse, created, open>>
    BY <1>6 DEF Start, CommunicateRaises, Ends, Wait, WaitKilled, Kill, KillAgain, Lost
  <1>7. ASSUME \/ \E t \in Terminals : SessionBreaks(t)
               \/ \E target \in Targets, h \in Hosts, n \in Limits : SetTarget(target, h, n)
               \/ \E target \in Targets, n \in Limits : SetLimit(target, n)
               \/ \E n \in TotalMaxs : SetTotalMax(n)
        PROVE  UNCHANGED <<free, inuse, created, open>>
    BY <1>7 DEF SessionBreaks, Lost, SetTarget, SetLimit, SetTotalMax, Setting
  <1>8. CASE UNCHANGED vars
    BY <1>1, <1>8 DEF vars
  <1>9. QED
    BY <1>1, <1>2, <1>3, <1>4, <1>5, <1>6, <1>7, <1>8
    DEF Next, ExecuteCommand, ExecuteBackground, ExecuteNohup, Copy, GetTerminal, Kinds

-----------------------------------------------------------------------------
(* Types.                                                                   *)

\* decr_shared never counts below zero.
LEMMA SharedPositive ==
  ASSUME TypeOK, SharedInv, NEW j \in Jobs, state[j] \in {"background", "lost"},
         terminal[j] \in open
  PROVE  shared[terminal[j]] \in Nat /\ shared[terminal[j]] > 0
  <1> DEFINE t == terminal[j]
  <1>1. shared[t] = Cardinality(Sharing(t)) /\ shared[t] \in Nat
    BY DEF SharedInv, SharedCounts, Sharing, TypeOK
  <1>2. IsFiniteSet(Sharing(t))
    BY FS_Subset DEF SharedInv, InBackground, Sharing
  <1>3. j \in Sharing(t)
    BY DEF Sharing
  <1>4. QED
    BY <1>1, <1>2, <1>3, FS_EmptySet

OtherTypes ==
    /\ maxsize \in [Keys -> Limits \cup {0}]
    /\ shared \in [Terminals -> Nat]
    /\ created \subseteq Terminals
    /\ cleanup \in [Terminals -> Jobs \cup {None}]
    /\ host \in [Targets -> Hosts] /\ limit \in [Targets -> Limits]
    /\ totalmax \in TotalMaxs
    /\ backgrounds \in [ExecIds -> Jobs \cup {None}]
    /\ kind \in [Jobs -> Kinds] /\ state \in [Jobs -> States]
    /\ key \in [Jobs -> Keys \cup {None}]
    /\ terminal \in [Jobs -> created \cup {None}]
    /\ proc \in [Jobs -> {"none", "running", "ended", "killed"}]
    /\ active \in Jobs \cup {None}

LEMMA KilledType ==
  ASSUME OtherTypes, NEW r
  PROVE  Killed(r) \in [Jobs -> {"none", "running", "ended", "killed"}]
  BY DEF OtherTypes, Killed

LEMMA TypeInit == Init => TypeOK
  BY ConstantsAssumption
  DEF ConstantsAssumption, Init, TypeOK, Kinds, States

LEMMA TypeNext == Inv /\ [Next]_vars => TypeOK'
  <1> SUFFICES ASSUME Inv, [Next]_vars PROVE TypeOK'
    OBVIOUS
  <1>1. PoolsApart'
    BY PoolsNext
  <1>2. OtherTypes
    BY DEF Inv, TypeOK, OtherTypes
  <1>3. SUFFICES OtherTypes'
    BY <1>1 DEF TypeOK, PoolsApart, OtherTypes
  <1>4. ASSUME NEW j \in Jobs, NEW kd \in Kinds, NEW target \in Targets,
               Acquire(j, kd, target)
        PROVE  OtherTypes'
    <2>1. PICK r \in SUBSET Terminals :
            /\ proc' = Killed(r)
            /\ \/ Refused(j, r)
               \/ \E t \in Terminals \ r : Given(j, KeyOf(kd, target), r, t)
      BY <1>4, AcquireStep DEF Inv
    <2>2. /\ KeyOf(kd, target) \in Keys /\ maxsize' \in [Keys -> Limits \cup {0}]
          /\ proc' \in [Jobs -> {"none", "running", "ended", "killed"}]
      BY <1>2, <1>4, <2>1, AcquireStep, KilledType DEF Inv
    <2>3. CASE Refused(j, r)
      BY <1>2, <1>4, <2>2, <2>3 DEF OtherTypes, Refused, Acquire, settings, States
    <2>4. ASSUME NEW t \in Terminals \ r, Given(j, KeyOf(kd, target), r, t)
          PROVE  OtherTypes'
      BY <1>2, <1>4, <2>2, <2>4 DEF OtherTypes, Given, Acquire, settings, States
    <2>5. QED
      BY <2>1, <2>3, <2>4
  <1>5. ASSUME NEW j \in Jobs, terminal[j] \in open PROVE terminal[j] \in Terminals
    BY <1>5 DEF Inv, TypeOK
  <1>6. ASSUME NEW j \in Jobs,
               \/ RunRaises(j) \/ StartDaemon(j) \/ CopyEnds(j) \/ CommunicateRaises(j)
               \/ Ends(j) \/ Release(j) \/ WaitKilled(j) \/ Start(j) \/ Finish(j)
        PROVE  OtherTypes'
    BY <1>2, <1>6
    DEF OtherTypes, States, RunRaises, StartDaemon, CopyEnds, CommunicateRaises, Ends,
        Release, WaitKilled, Unnamed, Start, Finish, settings
  <1>7. ASSUME NEW j \in Jobs, Background(j) PROVE OtherTypes'
    <2>1. shared' \in [Terminals -> Nat]
      <3> DEFINE t == terminal[j]
      <3>1. shared' = [shared EXCEPT ![t] = IF t \in open THEN shared[t] + 1 ELSE 0]
        BY <1>7 DEF Background, IncrShared
      <3>2. shared \in [Terminals -> Nat]
        BY <1>2 DEF OtherTypes
      <3>3. t \in Terminals => shared[t] + 1 \in Nat
        BY <3>2
      <3> HIDE DEF t
      <3>4. QED
        BY <3>1, <3>2, <3>3
    <2>2. backgrounds' \in [ExecIds -> Jobs \cup {None}]
      BY <1>2, <1>7 DEF OtherTypes, Background, FreeIds
    <2>3. QED
      BY <1>2, <1>7, <2>1, <2>2 DEF OtherTypes, States, Background, settings
  <1>8. ASSUME NEW j \in Jobs, FailToKill(j) \/ FailToKillBackground(j) PROVE OtherTypes'
    <2>1. proc' \in [Jobs -> {"none", "running", "ended", "killed"}]
      BY <1>2, <1>8, KilledType DEF OtherTypes, FailToKill, FailToKillBackground
    <2>2. QED
      BY <1>2, <1>8, <2>1
      DEF OtherTypes, States, FailToKill, FailToKillBackground, Remove, settings
  <1>9. ASSUME NEW j \in Jobs, Wait(j) \/ Kill(j) PROVE OtherTypes'
    <2>1. shared[terminal[j]] \in Nat /\ shared[terminal[j]] > 0
      BY <1>9, SharedPositive DEF Inv, Wait, Kill
    <2>2. shared' \in [Terminals -> Nat]
      BY <1>2, <1>9, <2>1 DEF OtherTypes, Wait, Kill, DecrShared
    <2>3. QED
      BY <1>2, <1>9, <2>2 DEF OtherTypes, States, Wait, Kill, Unnamed, settings
  <1>10. ASSUME NEW t, Lost(t) PROVE OtherTypes'
    BY <1>2, <1>10 DEF OtherTypes, States, Lost, settings
  <1>11. CASE Close
    <2>1. proc' \in [Jobs -> {"none", "running", "ended", "killed"}]
      BY <1>2, <1>11, KilledType DEF Close
    <2>2. QED
      BY <1>2, <1>11, <2>1 DEF OtherTypes, States, Close, settings
  <1>12. ASSUME \/ \E target \in Targets, h \in Hosts, n \in Limits : SetTarget(target, h, n)
                \/ \E target \in Targets, n \in Limits : SetLimit(target, n)
                \/ \E n \in TotalMaxs : SetTotalMax(n)
         PROVE  OtherTypes'
    BY <1>2, <1>12 DEF OtherTypes, SetTarget, SetLimit, SetTotalMax, Setting
  <1>13. CASE UNCHANGED vars
    BY <1>2, <1>13 DEF OtherTypes, vars, settings
  <1>14. QED
    BY <1>4, <1>6, <1>7, <1>8, <1>9, <1>10, <1>11, <1>12, <1>13
    DEF Next, ExecuteCommand, ExecuteBackground, ExecuteNohup, Copy, GetTerminal, Kinds,
        KillAgain, SessionBreaks

-----------------------------------------------------------------------------
(* A terminal in use belongs to one job.                                    *)

\* Nobody gets a terminal: those that hold one still do so, or are done with it.
NoneGets == \A j \in Jobs : Holds(j)' => Holds(j) /\ terminal'[j] = terminal[j] /\ key'[j] = key[j]

\* Steps which leave the terminals of the holders where they are.
LEMMA ExclusiveKept ==
  ASSUME Exclusive, NoneGets,
         \A j \in Jobs : Holds(j)' =>
            /\ terminal[j] \in inuse[key[j]] => terminal[j] \in inuse'[key[j]]
            /\ \A k \in Keys : terminal[j] \in free'[k] => terminal[j] \in free[k]
  PROVE  Exclusive'
  BY DEF Exclusive, NoneGets

LEMMA ExclusivePut ==
  ASSUME TypeOK, JobInv, Exclusive, NEW i \in Jobs, Put(terminal[i]), NoneGets, ~Holds(i)',
         Holds(i) \/ terminal[i] \notin open, open' = open
  PROVE  Exclusive'
  <1> SUFFICES ASSUME NEW j \in Jobs, Holds(j)'
               PROVE  /\ terminal[j] \in inuse[key[j]] => terminal[j] \in inuse'[key[j]]
                      /\ \A k \in Keys : terminal[j] \in free'[k] => terminal[j] \in free[k]
    BY ExclusiveKept
  <1>1. Holds(j) /\ terminal[j] \in open
    BY DEF NoneGets, Holds
  <1>2. terminal[j] # terminal[i]
    BY <1>1 DEF Exclusive, Holds
  <1>3. key[j] \in Keys
    BY <1>1 DEF JobInv, Holds
  <1>4. QED
    BY <1>2, <1>3 DEF Put, TypeOK

LEMMA ExclusiveRemove ==
  ASSUME TypeOK, JobInv, Exclusive, NEW t, Remove(t), NoneGets
  PROVE  Exclusive'
  <1> SUFFICES ASSUME NEW j \in Jobs, Holds(j)'
               PROVE  /\ terminal[j] \in inuse[key[j]] => terminal[j] \in inuse'[key[j]]
                      /\ \A k \in Keys : terminal[j] \in free'[k] => terminal[j] \in free[k]
    BY ExclusiveKept
  <1>1. Holds(j) /\ terminal[j] # t
    BY DEF NoneGets, Holds, Remove
  <1>2. key[j] \in Keys
    BY <1>1 DEF JobInv, Holds
  <1>3. QED
    BY <1>1, <1>2 DEF Remove, TypeOK

LEMMA ExclusiveRefused ==
  ASSUME Inv, NEW i \in Jobs, NEW r, Refused(i, r), Removable(r),
         state[i] = "new", \A j \in Jobs : j # i => key'[j] = key[j]
  PROVE  Exclusive' /\ JobInv'
  <1>1. \A j \in Jobs : state'[j] \in {"got", "started"} => j # i /\ state'[j] = state[j]
    BY DEF Refused, Inv, TypeOK
  <1>2. NoneGets
    BY <1>1 DEF NoneGets, Holds, Refused
  <1>3. Exclusive'
    BY <1>2, ExclusiveKept DEF Refused, Inv
  <1>4. QED
    BY <1>1, <1>3 DEF JobInv, Inv

LEMMA ExclusiveGiven ==
  ASSUME Inv, NEW i \in Jobs, NEW k \in Keys, NEW r, Removable(r),
         NEW t \in Terminals \ r, Given(i, k, r, t),
         state[i] = "new", key' = [key EXCEPT ![i] = k]
  PROVE  Exclusive' /\ JobInv'
  <1>1. /\ state'[i] = "got" /\ terminal'[i] = t /\ key'[i] = k
        /\ \A j \in Jobs : j # i =>
              state'[j] = state[j] /\ terminal'[j] = terminal[j] /\ key'[j] = key[j]
    BY DEF Given, Inv, TypeOK
  <1>2. \A q \in Keys : t \notin free'[q] /\ free'[q] \subseteq free[q]
    BY DEF Given
  <1>3. t \in inuse'[k] /\ \A q \in Keys : inuse[q] \subseteq inuse'[q]
    BY DEF Given, Inv, TypeOK
  <1>4. \A j \in Jobs : Holds(j)' /\ j # i => Holds(j)
    <2>1. \A j \in Jobs : terminal[j] = t => t \in created
      BY ConstantsAssumption DEF ConstantsAssumption, Inv, TypeOK
    <2>2. \A j \in Jobs : Holds(j)' /\ j # i =>
            terminal[j] \in open \/ (t \notin created /\ terminal[j] = t)
      BY <1>1 DEF Holds, Given
    <2>3. \A j \in Jobs : Holds(j)' /\ j # i => terminal[j] \in open
      BY <2>1, <2>2
    <2>4. QED
      BY <1>1, <2>3 DEF Holds
  <1>5. \A j \in Jobs : Holds(j) => terminal[j] # t
    <2>1. CASE t \in free[k]
      BY <2>1 DEF Exclusive, Inv
    <2>2. CASE t \notin created
      BY <2>2 DEF Holds, Inv, TypeOK
    <2>3. QED
      BY <2>1, <2>2 DEF Given
  <1>6. JobInv'
    BY <1>1 DEF JobInv, Inv
  <1>7. ASSUME NEW j \in Jobs, Holds(j)'
        PROVE terminal'[j] \in inuse'[key'[j]] /\ \A q \in Keys : terminal'[j] \notin free'[q]
    <2>1. CASE j = i
      BY <1>1, <1>2, <1>3, <2>1
    <2>2. CASE j # i
      BY <1>1, <1>2, <1>3, <1>4, <1>7, <2>2 DEF Exclusive, Inv, JobInv, Holds
    <2>3. QED
      BY <2>1, <2>2
  <1>8. \A j, h \in Jobs : Holds(j)' /\ Holds(h)' /\ j # h => terminal'[j] # terminal'[h]
    BY <1>1, <1>4, <1>5 DEF Exclusive, Inv
  <1>9. QED
    BY <1>6, <1>7, <1>8 DEF Exclusive

LEMMA ExclusiveNext == Inv /\ [Next]_vars => Exclusive' /\ JobInv'
  <1> SUFFICES ASSUME Inv, [Next]_vars PROVE Exclusive' /\ JobInv'
    OBVIOUS
  <1>0. TypeOK /\ PoolInv /\ JobInv /\ Exclusive
    BY DEF Inv
  <1>1. ASSUME NEW j \in Jobs, NEW kd \in Kinds, NEW target \in Targets,
               Acquire(j, kd, target)
        PROVE  Exclusive' /\ JobInv'
    <2>1. PICK r \in SUBSET Terminals :
            /\ Removable(r)
            /\ \/ Refused(j, r)
               \/ \E t \in Terminals \ r : Given(j, KeyOf(kd, target), r, t)
      BY <1>0, <1>1, AcquireStep
    <2>2. KeyOf(kd, target) \in Keys
      BY <1>0, <1>1, AcquireStep
    <2>3. /\ state[j] = "new" /\ key' = [key EXCEPT ![j] = KeyOf(kd, target)]
          /\ \A h \in Jobs : h # j => key'[h] = key[h]
      BY <1>0, <1>1 DEF Acquire, TypeOK
    <2>4. QED
      BY <2>1, <2>2, <2>3, ExclusiveRefused, ExclusiveGiven
  <1>2. ASSUME NEW j \in Jobs,
               \/ RunRaises(j) \/ StartDaemon(j) \/ CopyEnds(j) \/ Background(j)
               \/ Finish(j) \/ Release(j)
        PROVE  Exclusive' /\ JobInv'
    <2>1. /\ state[j] \in {"got", "started"} /\ state'[j] \notin {"got", "started"}
          /\ \A h \in Jobs : h # j => state'[h] = state[h]
          /\ UNCHANGED <<terminal, key, open>>
      BY <1>0, <1>2
      DEF RunRaises, StartDaemon, CopyEnds, Background, Finish, Release, TypeOK
    <2>2. NoneGets /\ ~Holds(j)' /\ (Holds(j) \/ terminal[j] \notin open)
      BY <2>1 DEF NoneGets, Holds
    <2>3. JobInv'
      BY <1>0, <2>1 DEF JobInv
    <2>4. CASE Put(terminal[j])
      BY <1>0, <2>1, <2>2, <2>3, <2>4, ExclusivePut
    <2>5. CASE UNCHANGED <<free, inuse>>
      BY <1>0, <2>2, <2>3, <2>5, ExclusiveKept
    <2>6. QED
      BY <1>2, <2>4, <2>5
      DEF RunRaises, StartDaemon, CopyEnds, Background, Finish, Release
  <1>3. ASSUME NEW j \in Jobs, FailToKill(j) \/ FailToKillBackground(j)
        PROVE  Exclusive' /\ JobInv'
    <2>1. /\ \A h \in Jobs : state'[h] \in {"got", "started"} => state'[h] = state[h]
          /\ UNCHANGED <<terminal, key>> /\ Remove(terminal[j]) /\ open' \subseteq open
      BY <1>0, <1>3 DEF FailToKill, FailToKillBackground, Remove, TypeOK
    <2>2. NoneGets /\ JobInv'
      BY <1>0, <2>1 DEF NoneGets, Holds, JobInv
    <2>3. QED
      BY <1>0, <2>1, <2>2, ExclusiveRemove
  <1>4. ASSUME /\ \A h \in Jobs : state'[h] \in {"got", "started"} =>
                    state[h] \in {"got", "started"}
               /\ UNCHANGED <<free, inuse, open, key, terminal>>
        PROVE  Exclusive' /\ JobInv'
    BY <1>0, <1>4 DEF Exclusive, Holds, JobInv
  <1>5. ASSUME NEW j \in Jobs,
               \/ Start(j) \/ CommunicateRaises(j) \/ Ends(j) \/ Wait(j) \/ WaitKilled(j)
               \/ Kill(j)
        PROVE  Exclusive' /\ JobInv'
    BY <1>0, <1>4, <1>5 DEF Start, CommunicateRaises, Ends, Wait, WaitKilled, Kill, TypeOK
  <1>6. ASSUME NEW t, Lost(t) PROVE Exclusive' /\ JobInv'
    BY <1>0, <1>4, <1>6 DEF Lost
  <1>7. CASE Close
    <2>1. open' = {}
      BY <1>0, <1>7 DEF Close, PoolInv
    <2>2. UNCHANGED key /\ \A h \in Jobs : state'[h] \in {"got", "started"} => state'[h] = state[h]
      BY <1>0, <1>7 DEF Close
    <2>3. QED
      BY <1>0, <2>1, <2>2 DEF Exclusive, Holds, JobInv
  <1>8. ASSUME \/ \E target \in Targets, h \in Hosts, n \in Limits : SetTarget(target, h, n)
               \/ \E target \in Targets, n \in Limits : SetLimit(target, n)
               \/ \E n \in TotalMaxs : SetTotalMax(n)
               \/ UNCHANGED vars
        PROVE  Exclusive' /\ JobInv'
    BY <1>4, <1>8 DEF SetTarget, SetLimit, SetTotalMax, Setting, vars
  <1>9. QED
    BY <1>1, <1>2, <1>3, <1>5, <1>6, <1>7, <1>8
    DEF Next, ExecuteCommand, ExecuteBackground, ExecuteNohup, Copy, GetTerminal, Kinds,
        KillAgain, SessionBreaks

-----------------------------------------------------------------------------
(* The shared counters.                                                     *)

LEMMA SharedIsSharing ==
  ASSUME TypeOK
  PROVE  /\ SharedCounts <=> \A t \in open : shared[t] = Cardinality(Sharing(t))
         /\ \A t \in Terminals \ created : Sharing(t) = {}
  BY ConstantsAssumption DEF ConstantsAssumption, SharedCounts, Sharing, TypeOK

\* The executions in the background are the same, with the same terminals.
SameSharing ==
    \A j \in Jobs :
        /\ state'[j] \in {"background", "lost"} <=> state[j] \in {"background", "lost"}
        /\ state[j] \in {"background", "lost"} => terminal'[j] = terminal[j]

LEMMA SharedKept ==
  ASSUME SharedInv, SameSharing, created \subseteq created',
         \A t \in open' \cap open : shared'[t] = shared[t],
         \A t \in open' \ open : shared'[t] = 0 /\ Sharing(t) = {},
         \A t \in Terminals \ created' : shared'[t] = shared[t]
  PROVE  SharedInv'
  <1>1. InBackground' = InBackground
    BY DEF InBackground, SameSharing
  <1>2. \A t : Sharing(t)' = Sharing(t)
    BY DEF Sharing, SameSharing
  <1>3. \A t \in open' : shared'[t] = Cardinality(Sharing(t)')
    <2>1. \A t \in open : shared[t] = Cardinality(Sharing(t))
      BY DEF SharedInv, SharedCounts, Sharing
    <2>2. \A t \in open' \ open : shared'[t] = Cardinality(Sharing(t))
      BY FS_EmptySet
    <2>3. QED
      BY <1>2, <2>1, <2>2
  <1>4. SharedCounts'
    BY <1>3 DEF SharedCounts, Sharing
  <1>5. \A t \in Terminals \ created' : shared'[t] = 0
    BY DEF SharedInv
  <1>6. QED
    BY <1>1, <1>4, <1>5 DEF SharedInv

\* One execution more, or one less.
LEMMA SharedChanged ==
  ASSUME TypeOK, SharedInv, NEW j \in Jobs, UNCHANGED <<open, created, terminal>>,
         \A h \in Jobs : h # j => state'[h] = state[h],
         \/ /\ state[j] \notin {"background", "lost"} /\ state'[j] \in {"background", "lost"}
            /\ IncrShared(terminal[j])
         \/ /\ state[j] \in {"background", "lost"} /\ state'[j] \notin {"background", "lost"}
            /\ DecrShared(terminal[j])
  PROVE  SharedInv'
  <1> DEFINE t == terminal[j]
  <1>1. \A u : IsFiniteSet(Sharing(u))
    BY FS_Subset DEF SharedInv, InBackground, Sharing
  <1>2. \A u \in Terminals : u # t => shared'[u] = shared[u] /\ Sharing(u)' = Sharing(u)
    BY DEF IncrShared, DecrShared, TypeOK, Sharing
  <1>3. IsFiniteSet(InBackground')
    <2>1. IsFiniteSet(InBackground \cup {j})
      BY FS_AddElement DEF SharedInv
    <2>2. InBackground' \subseteq InBackground \cup {j}
      BY DEF InBackground
    <2>3. QED
      BY <2>1, <2>2, FS_Subset
  <1>4. t \in open => shared'[t] = Cardinality(Sharing(t)')
    <2> SUFFICES ASSUME t \in open PROVE shared'[t] = Cardinality(Sharing(t)')
      OBVIOUS
    <2>1. t \in Terminals /\ shared[t] = Cardinality(Sharing(t)) /\ shared[t] \in Nat
      BY DEF SharedInv, SharedCounts, Sharing, TypeOK
    <2>2. CASE state[j] \notin {"background", "lost"}
      <3>1. Sharing(t)' = Sharing(t) \cup {j} /\ j \notin Sharing(t)
        BY <2>2 DEF Sharing
      <3>2. shared'[t] = shared[t] + 1
        BY <2>1, <2>2 DEF IncrShared, TypeOK
      <3>3. QED
        BY <1>1, <2>1, <3>1, <3>2, FS_AddElement
    <2>3. CASE state[j] \in {"background", "lost"}
      <3>1. Sharing(t)' = Sharing(t) \ {j} /\ j \in Sharing(t)
        BY <2>3 DEF Sharing
      <3>2. shared'[t] = shared[t] - 1
        BY <2>1, <2>3 DEF DecrShared, TypeOK
      <3>3. QED
        BY <1>1, <2>1, <3>1, <3>2, FS_RemoveElement
    <2>4. QED
      BY <2>2, <2>3
  <1>5. \A u \in open' : shared'[u] = Cardinality(Sharing(u)')
    <2>1. \A u \in open : u \in Terminals /\ shared[u] = Cardinality(Sharing(u))
      BY DEF SharedInv, SharedCounts, Sharing, TypeOK
    <2>2. QED
      BY <1>2, <1>4, <2>1
  <1>6. SharedCounts'
    BY <1>5 DEF SharedCounts, Sharing
  <1>7. \A u \in Terminals \ created : u # t
    BY ConstantsAssumption DEF ConstantsAssumption, TypeOK
  <1>8. \A u \in Terminals \ created' : shared'[u] = 0
    BY <1>2, <1>7 DEF SharedInv
  <1>9. QED
    BY <1>3, <1>6, <1>8 DEF SharedInv

LEMMA SharedNext == Inv /\ [Next]_vars => SharedInv'
  <1> SUFFICES ASSUME Inv, [Next]_vars PROVE SharedInv'
    OBVIOUS
  <1>0. TypeOK /\ PoolInv /\ SharedInv
    BY DEF Inv
  <1>1. ASSUME NEW j \in Jobs, NEW kd \in Kinds, NEW target \in Targets,
               Acquire(j, kd, target)
        PROVE  SharedInv'
    <2>1. PICK r \in SUBSET Terminals :
            \/ Refused(j, r)
            \/ \E t \in Terminals \ r : Given(j, KeyOf(kd, target), r, t)
      BY <1>0, <1>1, AcquireStep
    <2>2. state[j] = "new" /\ shared' = shared
      BY <1>1 DEF Acquire
    <2>3. CASE Refused(j, r)
      <3>1. SameSharing
        BY <1>0, <2>2, <2>3 DEF SameSharing, Refused, TypeOK
      <3>2. open' \subseteq open /\ created' = created
        BY <2>3 DEF Refused
      <3>3. QED
        BY <1>0, <2>2, <3>1, <3>2, SharedKept
    <2>4. ASSUME NEW t \in Terminals \ r, Given(j, KeyOf(kd, target), r, t)
          PROVE  SharedInv'
      <3>1. SameSharing
        BY <1>0, <2>2, <2>4 DEF SameSharing, Given, TypeOK
      <3>2. created' = created \cup {t} /\ \A u \in open' \ open : u = t /\ t \notin created
        BY <2>4 DEF Given
      <3>3. \A u \in open' \ open : shared'[u] = 0 /\ Sharing(u) = {}
        BY <1>0, <2>2, <3>2, SharedIsSharing DEF SharedInv
      <3>4. QED
        BY <1>0, <2>2, <3>1, <3>2, <3>3, SharedKept
    <2>5. QED
      BY <2>1, <2>3, <2>4
  <1>2. ASSUME SameSharing, UNCHANGED <<shared, created, open>> PROVE SharedInv'
    BY <1>0, <1>2, SharedKept
  <1>3. ASSUME NEW j \in Jobs,
               \/ RunRaises(j) \/ Start(j) \/ StartDaemon(j) \/ CopyEnds(j)
               \/ CommunicateRaises(j) \/ Finish(j) \/ Ends(j) \/ WaitKilled(j) \/ Release(j)
        PROVE  SharedInv'
    <2>1. SameSharing /\ UNCHANGED <<shared, created, open>>
      BY <1>0, <1>3
      DEF SameSharing, RunRaises, Start, StartDaemon, CopyEnds, CommunicateRaises, Finish,
          Ends, WaitKilled, Release, TypeOK
    <2>2. QED
      BY <1>2, <2>1
  <1>4. ASSUME NEW j \in Jobs, FailToKill(j) \/ FailToKillBackground(j) PROVE SharedInv'
    <2>1. SameSharing /\ UNCHANGED created
      BY <1>0, <1>4 DEF SameSharing, FailToKill, FailToKillBackground, TypeOK
    <2>2. Remove(terminal[j])
      BY <1>4 DEF FailToKill, FailToKillBackground
    <2>3. /\ open' \subseteq open
          /\ \A t \in open' : shared'[t] = shared[t]
          /\ \A t \in Terminals \ created : shared'[t] = shared[t]
      BY <1>0, <2>2, ConstantsAssumption DEF ConstantsAssumption, Remove, TypeOK
    <2>4. QED
      BY <1>0, <2>1, <2>3, SharedKept
  <1>5. ASSUME NEW j \in Jobs, Background(j) PROVE SharedInv'
    BY <1>0, <1>5, SharedChanged DEF Background, TypeOK
  <1>6. ASSUME NEW j \in Jobs, Wait(j) \/ Kill(j) PROVE SharedInv'
    BY <1>0, <1>6, SharedChanged DEF Wait, Kill, TypeOK
  <1>7. ASSUME NEW t, Lost(t) PROVE SharedInv'
    BY <1>0, <1>2, <1>7 DEF Lost, SameSharing
  <1>8. CASE Close
    <2>1. open' = {} /\ \A t \in Terminals : shared'[t] = 0
      BY <1>0, <1>8 DEF Close, PoolInv
    <2>2. InBackground' = {}
      BY <1>8 DEF Close, InBackground
    <2>3. QED
      BY <2>1, <2>2, FS_EmptySet DEF SharedInv, SharedCounts
  <1>9. ASSUME \/ \E target \in Targets, h \in Hosts, n \in Limits : SetTarget(target, h, n)
               \/ \E target \in Targets, n \in Limits : SetLimit(target, n)
               \/ \E n \in TotalMaxs : SetTotalMax(n)
               \/ UNCHANGED vars
        PROVE  SharedInv'
    BY <1>2, <1>9 DEF SetTarget, SetLimit, SetTotalMax, Setting, vars, SameSharing
  <1>10. QED
    BY <1>1, <1>3, <1>4, <1>5, <1>6, <1>7, <1>8, <1>9
    DEF Next, ExecuteCommand, ExecuteBackground, ExecuteNohup, Copy, GetTerminal, Kinds,
        KillAgain, SessionBreaks

-----------------------------------------------------------------------------
(* The names.                                                               *)

LEMMA NameKept ==
  ASSUME NameInv, UNCHANGED backgrounds,
         \A j \in Jobs : state'[j] \in {"background", "lost"} => state[j] \in {"background", "lost"},
         \A j \in Jobs : state[j] \in {"background", "lost", "done"} =>
                            state'[j] \in {"background", "lost", "done"},
         TypeOK
  PROVE  NameInv'
  BY DEF NameInv, EachHasItsName, Named, TypeOK

LEMMA NameNext == Inv /\ [Next]_vars => NameInv'
  <1> SUFFICES ASSUME Inv, [Next]_vars PROVE NameInv'
    OBVIOUS
  <1>0. TypeOK /\ NameInv
    BY DEF Inv
  <1>1. ASSUME NEW j \in Jobs, NEW kd \in Kinds, NEW target \in Targets,
               Acquire(j, kd, target)
        PROVE  NameInv'
    <2>1. state[j] = "new" /\ UNCHANGED backgrounds
      BY <1>1 DEF Acquire
    <2>2. \E st \in {"busy", "failed", "got"} : state' = [state EXCEPT ![j] = st]
      BY <1>0, <1>1, AcquireStep DEF Refused, Given
    <2>3. QED
      BY <1>0, <2>1, <2>2, NameKept DEF TypeOK
  <1>2. ASSUME NEW j \in Jobs,
               \/ RunRaises(j) \/ Start(j) \/ StartDaemon(j) \/ CopyEnds(j)
               \/ CommunicateRaises(j) \/ Finish(j) \/ Ends(j) \/ Release(j)
               \/ Kill(j) \/ FailToKill(j) \/ FailToKillBackground(j)
        PROVE  NameInv'
    <2>1. /\ UNCHANGED backgrounds
          /\ \A h \in Jobs : h # j => state'[h] = state[h]
          /\ \/ state'[j] = state[j]
             \/ state[j] = "background" /\ state'[j] = "done"
             \/ /\ state[j] \notin {"background", "lost", "done"}
                /\ state'[j] \notin {"background", "lost"}
      BY <1>0, <1>2
      DEF RunRaises, Start, StartDaemon, CopyEnds, CommunicateRaises, Finish, Ends,
          Release, Kill, FailToKill, FailToKillBackground, TypeOK
    <2>2. QED
      BY <1>0, <2>1, NameKept
  <1>3. ASSUME NEW j \in Jobs, Background(j) PROVE NameInv'
    <2>1. PICK id \in FreeIds : backgrounds' = [backgrounds EXCEPT ![id] = j]
      BY <1>3 DEF Background
    <2>2. /\ id \in ExecIds /\ backgrounds[id] = None
          /\ backgrounds'[id] = j /\ \A i \in ExecIds : i # id => backgrounds'[i] = backgrounds[i]
      BY <1>0, <2>1 DEF FreeIds, TypeOK
    <2>3. /\ state[j] = "started" /\ state'[j] = "background"
          /\ \A h \in Jobs : h # j => state'[h] = state[h]
      BY <1>0, <1>3 DEF Background, TypeOK
    <2>4. \A i \in ExecIds : backgrounds[i] # j
      BY <1>0, <2>3, ConstantsAssumption DEF ConstantsAssumption, NameInv
    <2>5. ASSUME NEW h \in Jobs, state'[h] \in {"background", "lost"} PROVE Named(h)'
      BY <1>0, <2>2, <2>3, <2>5, ConstantsAssumption DEF ConstantsAssumption, NameInv, EachHasItsName, Named
    <2>6. \A i, q \in ExecIds : backgrounds'[i] = backgrounds'[q] => i = q \/ backgrounds'[i] = None
      BY <1>0, <2>2, <2>4 DEF NameInv, EachHasItsName
    <2>7. \A i \in ExecIds : backgrounds'[i] # None =>
            state'[backgrounds'[i]] \in {"background", "lost", "done"}
      BY <1>0, <2>2, <2>3, <2>4 DEF NameInv, TypeOK
    <2>8. QED
      BY <2>5, <2>6, <2>7 DEF NameInv, EachHasItsName
  <1>4. ASSUME NEW j \in Jobs, Wait(j) \/ WaitKilled(j) PROVE NameInv'
    <2>1. /\ \A i \in ExecIds : backgrounds[i] # j => backgrounds'[i] = backgrounds[i]
          /\ \A i \in ExecIds : backgrounds[i] = j => backgrounds'[i] = None
      BY <1>4 DEF Wait, WaitKilled, Unnamed
    <2>2. state'[j] = "done" /\ \A h \in Jobs : h # j => state'[h] = state[h]
      BY <1>0, <1>4 DEF Wait, WaitKilled, TypeOK
    <2>3. QED
      BY <1>0, <2>1, <2>2 DEF NameInv, EachHasItsName, Named, TypeOK
  <1>5. ASSUME NEW t, Lost(t) PROVE NameInv'
    BY <1>0, <1>5, NameKept DEF Lost
  <1>6. CASE Close
    BY <1>6 DEF Close, NameInv, EachHasItsName
  <1>7. ASSUME \/ \E target \in Targets, h \in Hosts, n \in Limits : SetTarget(target, h, n)
               \/ \E target \in Targets, n \in Limits : SetLimit(target, n)
               \/ \E n \in TotalMaxs : SetTotalMax(n)
               \/ UNCHANGED vars
        PROVE  NameInv'
    BY <1>0, <1>7, NameKept DEF SetTarget, SetLimit, SetTotalMax, Setting, vars
  <1>8. QED
    BY <1>1, <1>2, <1>3, <1>4, <1>5, <1>6, <1>7
    DEF Next, ExecuteCommand, ExecuteBackground, ExecuteNohup, Copy, GetTerminal, Kinds,
        KillAgain, SessionBreaks

-----------------------------------------------------------------------------
(* What a cleanup may kill.                                                 *)

\* The cleanup of t would kill its job only in states in which t is not free
\* and unshared.
CleanupOf(t) ==
    cleanup[t] # None =>
        LET j == cleanup[t] IN
        /\ terminal[j] = t
        /\ state[j] \notin Unstarted
        /\ proc[j] = "running" /\ t \in open =>
            \/ state[j] \in {"started", "background", "lost"}
            \/ /\ state[j] = "failed" /\ \A k \in Keys : t \notin free[k]
               /\ \A h \in Jobs : Holds(h) => terminal[h] # t

LEMMA CleanupIsOf ==
  CleanupInv <=> /\ \A j \in Jobs : state[j] \in Unstarted => proc[j] = "none"
                 /\ \A t \in Terminals : CleanupOf(t)
  BY DEF CleanupInv, CleanupOf

\* A step of the job j which keeps the cleanup of the terminals that are not its
\* own: nobody else gets a terminal, only that of j may become free.
LEMMA CleanupStep ==
  ASSUME Inv, NEW j \in Jobs, UNCHANGED <<terminal>>, open' \subseteq open,
         \A h \in Jobs : h # j => state'[h] = state[h],
         \A h \in Jobs : h # j => proc'[h] = proc[h] \/ (proc'[h] # "running" /\ proc[h] # "none"),
         state'[j] \in Unstarted => state[j] \in Unstarted /\ proc'[j] = proc[j],
         Holds(j)' => Holds(j),
         \A k \in Keys : \A t \in free'[k] : t \in free[k] \/ (t = terminal[j] /\ Holds(j)),
         \A t \in Terminals : cleanup'[t] = cleanup[t] \/ (t = terminal[j] /\ cleanup'[t] \in {None, j}),
         \A t \in Terminals : cleanup'[t] = j /\ terminal[j] = t => CleanupOf(t)'
  PROVE  CleanupInv'
  <1>1. \A h \in Jobs : state'[h] \in Unstarted => proc'[h] = "none"
    BY DEF Inv, CleanupInv
  <1>2. \A h \in Jobs : Holds(h)' => Holds(h)
    BY DEF Holds
  <1>3. ASSUME NEW t \in Terminals, cleanup'[t] # None PROVE CleanupOf(t)'
    <2> DEFINE i == cleanup'[t]
    <2>1. CASE i = j
      <3>1. terminal[j] = t
        BY <1>3, <2>1 DEF Inv, CleanupInv
      <3>2. QED
        BY <2>1, <3>1
    <2>2. CASE i # j
      <3>1. cleanup[t] = i /\ i \in Jobs
        BY <1>3, <2>2 DEF Inv, TypeOK
      <3>2. CleanupOf(t)
        BY CleanupIsOf DEF Inv
      <3>3. terminal'[i] = t /\ state'[i] \notin Unstarted
        BY <1>3, <2>2, <3>1, <3>2 DEF CleanupOf
      <3>4. ASSUME proc'[i] = "running", t \in open'
            PROVE  \/ state'[i] \in {"started", "background", "lost"}
                   \/ /\ state'[i] = "failed" /\ \A k \in Keys : t \notin free'[k]
                      /\ \A h \in Jobs : Holds(h)' => terminal'[h] # t
        <4>1. proc[i] = "running" /\ t \in open /\ state'[i] = state[i]
          BY <2>2, <3>1, <3>4
        <4>2. CASE state[i] \in {"started", "background", "lost"}
          BY <4>1, <4>2
        <4>3. CASE /\ state[i] = "failed" /\ \A k \in Keys : t \notin free[k]
                   /\ \A h \in Jobs : Holds(h) => terminal[h] # t
          BY <1>2, <4>1, <4>3
        <4>4. QED
          BY <1>3, <3>1, <3>2, <4>1, <4>2, <4>3 DEF CleanupOf
      <3>5. QED
        BY <3>3, <3>4 DEF CleanupOf
    <2>3. QED
      BY <2>1, <2>2
  <1>4. \A t \in Terminals : CleanupOf(t)'
    BY <1>3 DEF CleanupOf
  <1>5. QED
    BY <1>1, <1>4, CleanupIsOf DEF CleanupInv, CleanupOf

\* The cleanups are left alone by a new job: it gets a terminal that is free.
LEMMA CleanupAcquire ==
  ASSUME Inv, NEW j \in Jobs, NEW k \in Keys, NEW r, state[j] = "new",
         proc' = Killed(r), cleanup' = cleanup,
         \/ Refused(j, r)
         \/ \E t \in Terminals : Given(j, k, r, t)
  PROVE  CleanupInv'
  <1>1. \A h \in Jobs : h # j => state'[h] = state[h] /\ terminal'[h] = terminal[h]
    BY DEF Refused, Given, Inv, TypeOK
  <1>2. \A h \in Jobs : proc'[h] = "running" => proc[h] = "running"
    BY DEF Killed
  <1>3. \A h \in Jobs : proc[h] = "none" => proc'[h] = "none"
    BY DEF Killed
  <1>4. \A q \in Keys : free'[q] \subseteq free[q]
    BY DEF Refused, Given
  <1>5. \A h \in Jobs : state'[h] \in Unstarted => proc'[h] = "none"
    BY <1>1, <1>3 DEF Inv, CleanupInv, Unstarted
  <1>6. ASSUME NEW t \in Terminals, cleanup[t] # None PROVE CleanupOf(t)'
    <2> DEFINE i == cleanup[t]
    <2>1. CleanupOf(t) /\ i \in Jobs /\ cleanup'[t] = i
      BY <1>6, CleanupIsOf DEF Inv, TypeOK
    <2>2. i # j /\ terminal'[i] = t /\ state'[i] = state[i] /\ state[i] \notin Unstarted
      BY <1>1, <1>6, <2>1 DEF CleanupOf, Unstarted
    <2>3. t \in created
      BY <1>6, <2>1, ConstantsAssumption DEF ConstantsAssumption, CleanupOf, Inv, TypeOK
    <2>4. t \in open' => t \in open
      BY <2>3 DEF Refused, Given, Inv, PoolInv
    <2>5. ASSUME \A q \in Keys : t \notin free[q],
                 \A h \in Jobs : Holds(h) => terminal[h] # t, t \in open
          PROVE  \A h \in Jobs : Holds(h)' => terminal'[h] # t
      <3>1. \A h \in Jobs : h # j /\ Holds(h)' => terminal'[h] # t
        BY <1>1, <2>5 DEF Holds
      <3>2. Holds(j)' => terminal'[j] # t
        BY <2>3, <2>5 DEF Holds, Refused, Given, Inv, TypeOK
      <3>3. QED
        BY <3>1, <3>2
    <2>6. QED
      BY <1>2, <1>4, <1>6, <2>1, <2>2, <2>4, <2>5 DEF CleanupOf
  <1>7. \A t \in Terminals : CleanupOf(t)'
    BY <1>6 DEF CleanupOf
  <1>8. QED
    BY <1>5, <1>7, CleanupIsOf DEF CleanupInv, CleanupOf

LEMMA PutFrees ==
  ASSUME NEW t, Put(t)
  PROVE  \A k \in Keys : \A u \in free'[k] : u \in free[k] \/ (u = t /\ t \in open)
  BY DEF Put

LEMMA CleanupNext == Inv /\ [Next]_vars => CleanupInv'
  <1> SUFFICES ASSUME Inv, [Next]_vars PROVE CleanupInv'
    OBVIOUS
  <1>0. TypeOK /\ Exclusive /\ CleanupInv /\ PoolInv
    BY DEF Inv
  <1>1. ASSUME NEW j \in Jobs, NEW kd \in Kinds, NEW target \in Targets,
               Acquire(j, kd, target)
        PROVE  CleanupInv'
    BY <1>0, <1>1, AcquireStep, CleanupAcquire DEF Acquire
  <1>2. ASSUME NEW j \in Jobs,
               RunRaises(j) \/ StartDaemon(j) \/ CopyEnds(j) \/ Release(j)
        PROVE  CleanupInv'
    <2>1. /\ state[j] = "got" /\ state'[j] \in {"failed", "done"}
          /\ \A h \in Jobs : h # j => state'[h] = state[h] /\ proc'[h] = proc[h]
          /\ UNCHANGED <<terminal, open, cleanup>>
      BY <1>0, <1>2 DEF RunRaises, StartDaemon, CopyEnds, Release, TypeOK
    <2>2. Put(terminal[j]) \/ free' = free
      BY <1>2 DEF RunRaises, StartDaemon, CopyEnds, Release
    <2>3. Holds(j) <=> terminal[j] \in open
      BY <2>1 DEF Holds
    <2>4. ~Holds(j)' /\ state'[j] \notin Unstarted
      BY <2>1 DEF Holds, Unstarted
    <2>5. \A t \in Terminals : cleanup[t] # j
      BY <1>0, <2>1, ConstantsAssumption DEF ConstantsAssumption, CleanupInv, Unstarted
    <2>6. \A k \in Keys : \A t \in free'[k] : t \in free[k] \/ (t = terminal[j] /\ Holds(j))
      BY <2>2, <2>3, PutFrees
    <2>7. QED
      BY <2>1, <2>4, <2>5, <2>6, CleanupStep
  <1>3. ASSUME NEW j \in Jobs, Start(j) PROVE CleanupInv'
    <2>1. /\ state[j] = "got" /\ state'[j] = "started"
          /\ \A h \in Jobs : h # j => state'[h] = state[h] /\ proc'[h] = proc[h]
          /\ UNCHANGED <<terminal, open, free>>
          /\ cleanup' = [cleanup EXCEPT ![terminal[j]] = j]
      BY <1>0, <1>3 DEF Start, TypeOK
    <2>2. (Holds(j)' => Holds(j)) /\ state'[j] \notin Unstarted
      BY <2>1 DEF Holds, Unstarted
    <2>3. \A t \in Terminals : cleanup'[t] = cleanup[t] \/ (t = terminal[j] /\ cleanup'[t] = j)
      BY <1>0, <2>1 DEF TypeOK
    <2>4. \A t \in Terminals : cleanup'[t] = j /\ terminal[j] = t => CleanupOf(t)'
      BY <2>1, <2>2 DEF CleanupOf
    <2>5. QED
      BY <2>1, <2>2, <2>3, <2>4, CleanupStep
  <1>4. ASSUME NEW j \in Jobs, Background(j) PROVE CleanupInv'
    <2>1. /\ state[j] = "started" /\ state'[j] = "background"
          /\ \A h \in Jobs : h # j => state'[h] = state[h] /\ proc'[h] = proc[h]
          /\ UNCHANGED <<terminal, open, cleanup>> /\ Put(terminal[j])
      BY <1>0, <1>4 DEF Background, TypeOK
    <2>2. ~Holds(j)' /\ state'[j] \notin Unstarted /\ (Holds(j) <=> terminal[j] \in open)
      BY <2>1 DEF Holds, Unstarted
    <2>3. \A t \in Terminals : cleanup'[t] = j /\ terminal[j] = t => CleanupOf(t)'
      BY <2>1, <2>2 DEF CleanupOf
    <2>4. QED
      BY <2>1, <2>2, <2>3, CleanupStep, PutFrees
  <1>5. ASSUME NEW j \in Jobs, CommunicateRaises(j) PROVE CleanupInv'
    <2>1. /\ state[j] = "started" /\ state'[j] = "failed"
          /\ \A h \in Jobs : h # j => state'[h] = state[h] /\ proc'[h] = proc[h]
          /\ UNCHANGED <<terminal, open, cleanup, free>>
      BY <1>0, <1>5 DEF CommunicateRaises, TypeOK
    <2>2. ~Holds(j)' /\ state'[j] \notin Unstarted /\ (Holds(j) <=> terminal[j] \in open)
      BY <2>1 DEF Holds, Unstarted
    <2>3. \A h \in Jobs : Holds(h)' => Holds(h) /\ h # j
      BY <2>1, <2>2 DEF Holds
    <2>4. \A t \in Terminals : cleanup'[t] = j /\ terminal[j] = t => CleanupOf(t)'
      BY <1>0, <2>1, <2>2, <2>3 DEF CleanupOf, Exclusive
    <2>5. QED
      BY <2>1, <2>2, <2>4, CleanupStep
  <1>6. ASSUME NEW j \in Jobs, Finish(j) \/ FailToKill(j) PROVE CleanupInv'
    <2>1. /\ state[j] = "started" /\ state'[j] \in {"done", "failed"}
          /\ \A h \in Jobs : h # j => state'[h] = state[h] /\ proc'[h] = proc[h]
          /\ UNCHANGED terminal /\ open' \subseteq open
          /\ cleanup' = [cleanup EXCEPT ![terminal[j]] = None]
          /\ Put(terminal[j]) \/ \A k \in Keys : free'[k] \subseteq free[k]
      BY <1>0, <1>6 DEF Finish, FailToKill, Remove, TypeOK
    <2>2. ~Holds(j)' /\ state'[j] \notin Unstarted /\ (Holds(j) <=> terminal[j] \in open)
      BY <2>1 DEF Holds, Unstarted
    <2>3. \A t \in Terminals : cleanup'[t] = cleanup[t] \/ (t = terminal[j] /\ cleanup'[t] = None)
      BY <1>0, <2>1 DEF TypeOK
    <2>4. \A t \in Terminals : cleanup'[t] = j => terminal[j] # t
      BY <1>0, <2>1, ConstantsAssumption DEF ConstantsAssumption, TypeOK
    <2>5. \A k \in Keys : \A t \in free'[k] : t \in free[k] \/ (t = terminal[j] /\ Holds(j))
      BY <2>1, <2>2, PutFrees
    <2>6. QED
      BY <2>1, <2>2, <2>3, <2>4, <2>5, CleanupStep
  <1>7. ASSUME NEW j \in Jobs, Ends(j) \/ Wait(j) \/ WaitKilled(j) \/ Kill(j)
        PROVE  CleanupInv'
    <2>1. /\ state'[j] = state[j] \/ (state[j] = "background" /\ state'[j] = "done")
          /\ state[j] \notin Unstarted
          /\ \A h \in Jobs : h # j => state'[h] = state[h] /\ proc'[h] = proc[h]
          /\ proc'[j] = "running" => proc[j] = "running" /\ state'[j] = state[j]
          /\ UNCHANGED <<terminal, open, cleanup, free>>
      BY <1>0, <1>7 DEF Ends, Wait, WaitKilled, Kill, TypeOK, CleanupInv, Unstarted
    <2>2. \A h \in Jobs : Holds(h)' <=> Holds(h)
      BY <2>1 DEF Holds
    <2>3. state'[j] \notin Unstarted
      BY <2>1 DEF Unstarted
    <2>4. \A t \in Terminals : cleanup'[t] = j /\ terminal[j] = t => CleanupOf(t)'
      BY <1>0, <2>1, <2>2, <2>3, CleanupIsOf DEF CleanupOf
    <2>5. QED
      BY <2>1, <2>2, <2>3, <2>4, CleanupStep
  <1>8. ASSUME NEW j \in Jobs, FailToKillBackground(j) PROVE CleanupInv'
    <2>1. /\ state[j] = "background" /\ UNCHANGED <<state, terminal, cleanup>>
          /\ Remove(terminal[j]) /\ proc' = [Killed({terminal[j]}) EXCEPT ![j] = "killed"]
      BY <1>8 DEF FailToKillBackground
    <2>2. /\ open' \subseteq open /\ terminal[j] \notin open'
          /\ \A k \in Keys : free'[k] \subseteq free[k]
      BY <2>1 DEF Remove
    <2>3. \A h \in Jobs : h # j => proc'[h] = proc[h] \/ (proc'[h] # "running" /\ proc[h] # "none")
      BY <2>1 DEF Killed
    <2>4. (Holds(j)' => Holds(j)) /\ state'[j] \notin Unstarted
      BY <2>1 DEF Holds, Unstarted
    <2>5. \A t \in Terminals : cleanup'[t] = j /\ terminal[j] = t => CleanupOf(t)'
      BY <2>1, <2>2, <2>4 DEF CleanupOf
    <2>6. QED
      BY <2>1, <2>2, <2>3, <2>4, <2>5, CleanupStep
  <1>9. ASSUME NEW t, Lost(t) PROVE CleanupInv'
    <2>1. /\ \A j \in Jobs : state'[j] = state[j] \/ (state[j] = "background" /\ state'[j] = "lost")
          /\ UNCHANGED <<terminal, proc, open, cleanup, free>>
      BY <1>9 DEF Lost
    <2>2. \A h \in Jobs : Holds(h)' <=> Holds(h)
      BY <2>1 DEF Holds
    <2>3. QED
      BY <1>0, <2>1, <2>2 DEF CleanupInv, Unstarted, TypeOK
  <1>10. CASE Close
    <2>1. open' = {} /\ UNCHANGED <<cleanup, terminal>>
      BY <1>0, <1>10 DEF Close, PoolInv
    <2>2. \A j \in Jobs : /\ state'[j] \in Unstarted <=> state[j] \in Unstarted
                          /\ proc[j] = "none" => proc'[j] = "none"
      BY <1>10 DEF Close, Killed, Unstarted
    <2>3. QED
      BY <1>0, <2>1, <2>2 DEF CleanupInv, TypeOK
  <1>11. ASSUME \/ \E target \in Targets, h \in Hosts, n \in Limits : SetTarget(target, h, n)
                \/ \E target \in Targets, n \in Limits : SetLimit(target, n)
                \/ \E n \in TotalMaxs : SetTotalMax(n)
                \/ UNCHANGED vars
         PROVE  CleanupInv'
    <2>1. UNCHANGED <<state, proc, terminal, open, cleanup, free>>
      BY <1>11 DEF SetTarget, SetLimit, SetTotalMax, Setting, vars
    <2>2. QED
      BY <1>0, <2>1 DEF CleanupInv, Holds
  <1>12. QED
    BY <1>1, <1>2, <1>3, <1>4, <1>5, <1>6, <1>7, <1>8, <1>9, <1>10, <1>11
    DEF Next, ExecuteCommand, ExecuteBackground, ExecuteNohup, Copy, GetTerminal, Kinds,
        KillAgain, SessionBreaks

-----------------------------------------------------------------------------
(* The invariants hold.                                                     *)

LEMMA InvInit == Init => Inv
  <1> SUFFICES ASSUME Init PROVE Inv
    OBVIOUS
  <1>1. TypeOK
    BY TypeInit
  <1>2. PoolInv /\ JobInv /\ Exclusive
    BY DEF Init, PoolInv, JobInv, Exclusive, Holds
  <1>3. SharedInv
    <2>1. InBackground = {}
      BY DEF Init, InBackground
    <2>2. QED
      BY <2>1, FS_EmptySet DEF Init, SharedInv, SharedCounts
  <1>4. NameInv
    BY DEF Init, NameInv, EachHasItsName
  <1>5. CleanupInv
    BY DEF Init, CleanupInv
  <1>6. QED
    BY <1>1, <1>2, <1>3, <1>4, <1>5 DEF Inv

LEMMA InvCorrect == Spec => []Inv
  <1>1. Inv /\ [Next]_vars => Inv'
    BY TypeNext, PoolsNext, ExclusiveNext, SharedNext, NameNext, CleanupNext DEF Inv
  <1>2. QED
    BY <1>1, InvInit, PTL DEF Spec

\* The state of the pools, of their terminals and of the jobs keeps its types;
\* a terminal is in one pool only and there either free or in use (_Pool).
THEOREM PoolsTypeCorrect == Spec => []TypeOK
  <1>1. Inv => TypeOK
    BY DEF Inv
  <1>2. QED
    BY <1>1, InvCorrect, PTL

\* A terminal in use is used by one job only and is in no set of free terminals
\* (_Pool.get, put, remove).
THEOREM TerminalsExclusive == Spec => []Exclusive
  <1>1. Inv => Exclusive
    BY DEF Inv
  <1>2. QED
    BY <1>1, InvCorrect, PTL

\* The shared counter of an open terminal is the number of its background
\* executions (put_incr_shared, decr_shared).
THEOREM CountersExact == Spec => []SharedCounts
  <1>1. Inv => SharedCounts
    BY DEF Inv, SharedInv
  <1>2. QED
    BY <1>1, InvCorrect, PTL

\* Every execution in the background can be waited for and killed by a name of
\* its own (execute_background_command_in_target).
THEOREM NamesUnique == Spec => []EachHasItsName
  <1>1. Inv => EachHasItsName
    BY DEF Inv, NameInv
  <1>2. QED
    BY <1>1, InvCorrect, PTL

-----------------------------------------------------------------------------
(* What a new job may do to the others.                                     *)

\* The terminals that make room are used by nobody: their cleanups kill nothing.
LEMMA RemovedHarmsNone ==
  ASSUME Inv, NEW r, Removable(r)
  PROVE  /\ Killed(r) = proc
         /\ \A b \in Jobs : state[b] \in {"background", "lost"} /\ terminal[b] \in open
                                => terminal[b] \notin r
  <1>1. \A b \in Jobs : state[b] \in {"background", "lost"} /\ terminal[b] \in open
                            => terminal[b] \notin r
    <2> SUFFICES ASSUME NEW b \in Jobs, state[b] \in {"background", "lost"}, terminal[b] \in open
                 PROVE  terminal[b] \notin r
      OBVIOUS
    <2>1. shared[terminal[b]] > 0 /\ shared[terminal[b]] \in Nat
      BY SharedPositive DEF Inv
    <2>2. QED
      BY <2>1 DEF Removable
  <1>2. ASSUME NEW j \in Jobs, proc[j] = "running", state[j] # "lost",
               NEW t \in r, cleanup[t] = j
        PROVE  FALSE
    <2>1. t \in Terminals /\ t \in open /\ \E k \in Keys : t \in free[k]
      BY DEF Removable, Inv, PoolInv
    <2>2. terminal[j] = t /\ state[j] \in {"started", "background", "lost"}
      BY <1>2, <2>1, ConstantsAssumption DEF ConstantsAssumption, Inv, CleanupInv
    <2>3. CASE state[j] = "started"
      BY <2>1, <2>2, <2>3 DEF Inv, Exclusive, Holds
    <2>4. CASE state[j] \in {"background", "lost"}
      BY <1>1, <2>1, <2>2, <2>4
    <2>5. QED
      BY <2>2, <2>3, <2>4
  <1>3. Killed(r) = proc
    BY <1>2 DEF Killed, Inv, TypeOK
  <1>4. QED
    BY <1>1, <1>3

\* Only a call that needs a terminal takes a job out of its first state.
LEMMA NewJobAcquires ==
  ASSUME Inv, [Next]_vars, NEW j \in Jobs, state[j] = "new", state'[j] # "new"
  PROVE  \E kd \in Kinds, target \in Targets : Acquire(j, kd, target)
  <1>0. TypeOK
    BY DEF Inv
  <1>1. ASSUME NEW i \in Jobs, NEW kd \in Kinds, NEW target \in Targets,
               Acquire(i, kd, target)
        PROVE  i = j
    <2>1. \E st \in {"busy", "failed", "got"} : state' = [state EXCEPT ![i] = st]
      BY <1>0, <1>1, AcquireStep DEF Refused, Given
    <2>2. QED
      BY <1>0, <2>1 DEF TypeOK
  <1>2. ASSUME NEW i \in Jobs,
               \/ RunRaises(i) \/ Start(i) \/ StartDaemon(i) \/ CopyEnds(i) \/ Background(i)
               \/ CommunicateRaises(i) \/ Finish(i) \/ FailToKill(i) \/ Ends(i) \/ Wait(i)
               \/ WaitKilled(i) \/ Kill(i) \/ FailToKillBackground(i) \/ Release(i)
        PROVE  FALSE
    BY <1>0, <1>2
    DEF TypeOK, RunRaises, Start, StartDaemon, CopyEnds, Background, CommunicateRaises, Finish,
        FailToKill, Ends, Wait, WaitKilled, Kill, FailToKillBackground, Release
  <1>3. ASSUME \/ \E t : Lost(t)
               \/ Close
               \/ \E target \in Targets, h \in Hosts, n \in Limits : SetTarget(target, h, n)
               \/ \E target \in Targets, n \in Limits : SetLimit(target, n)
               \/ \E n \in TotalMaxs : SetTotalMax(n)
               \/ UNCHANGED vars
        PROVE  FALSE
    BY <1>0, <1>3 DEF Lost, Close, SetTarget, SetLimit, SetTotalMax, Setting, vars
  <1>4. QED
    BY <1>1, <1>2, <1>3
    DEF Next, ExecuteCommand, ExecuteBackground, ExecuteNohup, Copy, GetTerminal, Kinds,
        KillAgain, SessionBreaks

\* A new job closes idle terminals at most: no process is killed, and no
\* terminal with a background execution is closed (_clean_if_needed).
THEOREM NewJobsHarmNone == Spec => NewJobHarmsNone
  <1>1. ASSUME Inv, [Next]_vars, NEW j \in Jobs, state[j] = "new", state'[j] # "new"
        PROVE  /\ proc' = proc
               /\ \A b \in Jobs : state[b] = "background" /\ terminal[b] \in open
                                    => terminal[b] \in open'
    <2>1. PICK kd \in Kinds, target \in Targets : Acquire(j, kd, target)
      BY <1>1, NewJobAcquires
    <2>2. PICK r \in SUBSET Terminals :
            /\ Removable(r) /\ proc' = Killed(r)
            /\ \/ Refused(j, r)
               \/ \E t \in Terminals \ r : Given(j, KeyOf(kd, target), r, t)
      BY <1>1, <2>1, AcquireStep DEF Inv
    <2>3. open \ r \subseteq open'
      BY <2>2 DEF Refused, Given
    <2>4. QED
      BY <1>1, <2>2, <2>3, RemovedHarmsNone
  <1>2. Inv /\ [Next]_vars => [\A j \in Jobs : state[j] = "new" /\ state'[j] # "new" =>
            /\ proc' = proc
            /\ \A b \in Jobs : state[b] = "background" /\ terminal[b] \in open
                                => terminal[b] \in open']_vars
    BY <1>1
  <1>3. QED
    BY <1>2, InvCorrect, PTL DEF Spec, NewJobHarmsNone

-----------------------------------------------------------------------------
(* The maximum sizes.                                                       *)

LEMMA PoolsFinite ==
  ASSUME TypeOK
  PROVE  /\ \A k \in Keys : \A s \in SUBSET (free[k] \cup inuse[k]) :
                IsFiniteSet(s) /\ Cardinality(s) \in Nat
         /\ \A s \in SUBSET Terminals : IsFiniteSet(s) /\ Cardinality(s) \in Nat
  <1>1. \A s \in SUBSET Terminals : IsFiniteSet(s) /\ Cardinality(s) \in Nat
    BY ConstantsAssumption, FS_Subset, FS_CardinalityType DEF ConstantsAssumption
  <1>2. QED
    BY <1>1 DEF TypeOK

\* A maximum size is too small for the terminals which cannot be removed.
LEMMA OccupiedSize ==
  ASSUME TypeOK, NEW k \in Keys
  PROVE  /\ Cardinality(Occupied(k)) = Cardinality(inuse[k]) + SharedSize(free[k])
         /\ Cardinality(inuse[k]) \in Nat /\ SharedSize(free[k]) \in Nat
  <1> DEFINE rest == free[k] \ Unshared(free[k])
  <1>1. IsFiniteSet(free[k]) /\ IsFiniteSet(inuse[k]) /\ IsFiniteSet(rest)
    BY PoolsFinite
  <1>2. free[k] \cap Unshared(free[k]) = Unshared(free[k])
    BY DEF Unshared
  <1>3. Cardinality(rest) = SharedSize(free[k])
    BY <1>1, <1>2, FS_Difference DEF SharedSize
  <1>4. Cardinality(inuse[k]) \in Nat /\ Cardinality(rest) \in Nat
    BY <1>1, FS_CardinalityType
  <1>5. inuse[k] \cap rest = {}
    BY DEF TypeOK
  <1>6. Cardinality(inuse[k] \cup rest) = Cardinality(inuse[k]) + Cardinality(rest)
    BY <1>1, <1>4, <1>5, FS_Union, FS_EmptySet
  <1>7. QED
    BY <1>3, <1>4, <1>6 DEF Occupied

LEMMA BusyIsFull ==
  ASSUME TypeOK, NEW j \in Jobs, NEW kd \in Kinds, NEW target \in Targets,
         Acquire(j, kd, target), state'[j] = "busy"
  PROVE  LET k == KeyOf(kd, target) IN
         \/ Cardinality(Occupied(k)) >= limit[target]
         \/ Cardinality(UNION {Occupied(q) : q \in Keys}) >= totalmax
  <1> DEFINE k == KeyOf(kd, target)  n == limit[target]
             all == UNION {Occupied(q) : q \in Keys}
  <1>1. k \in Keys /\ n \in Limits /\ n \in Nat /\ totalmax \in Nat
    BY ConstantsAssumption DEF ConstantsAssumption, TypeOK, KeyOf, Keys
  <1>2. kind'[j] = kd /\ Get(j, k, n)
    BY DEF Acquire, TypeOK
  <1> HIDE DEF k, n
  <1>3. /\ Cardinality(Occupied(k)) = Cardinality(inuse[k]) + SharedSize(free[k])
        /\ Cardinality(inuse[k]) \in Nat /\ SharedSize(free[k]) \in Nat
    BY <1>1, OccupiedSize
  <1>4. CASE TooSmall(k, n)
    BY <1>1, <1>3, <1>4 DEF TooSmall, k, n
  <1>5. CASE ~TooSmall(k, n)
    <2>1. maxsize'[k] = n
      BY <1>1, <1>2, <1>5 DEF Get, TypeOK
    <2>2. PICK r \in RemoveNFree(free[k], Cardinality(free[k]) - n) :
            LET f == [free EXCEPT ![k] = @ \ r] IN
            \/ Clean(f, k) = {}
            \/ \E c \in Clean(f, k) : GetItem(j, k, [q \in Keys |-> f[q] \ c])
      BY <1>2, <1>5 DEF Get
    <2> DEFINE f == [free EXCEPT ![k] = @ \ r]
    <2>3. ASSUME Clean(f, k) = {} PROVE Cardinality(all) >= totalmax
      <3>1. f \in [Keys -> SUBSET Terminals] /\ \A q \in Keys : f[q] \subseteq free[q]
        BY DEF TypeOK
      <3> HIDE DEF f
      <3>2. Full(f) /\ AnyPool(f) = {}
        BY <2>3 DEF Clean
      <3>3. \A q \in Keys : Unshared(f[q]) = {}
        BY <3>2 DEF AnyPool
      <3>4. UNION {inuse[q] \cup f[q] : q \in Keys} \subseteq all
        BY <3>1, <3>3 DEF Occupied, Unshared
      <3>5. all \subseteq Terminals
        BY DEF Occupied, TypeOK
      <3>6. Cardinality(UNION {inuse[q] \cup f[q] : q \in Keys}) <= Cardinality(all)
        BY <3>4, <3>5, PoolsFinite, FS_Subset
      <3>7. /\ Cardinality(UNION {inuse[q] \cup f[q] : q \in Keys}) \in Nat
            /\ Cardinality(all) \in Nat
        BY <3>4, <3>5, PoolsFinite
      <3>8. QED
        BY <1>1, <3>2, <3>6, <3>7 DEF Full, TotalSize
    <2>4. ASSUME NEW g, GetItem(j, k, g) PROVE Cardinality(inuse[k]) >= n
      BY <1>1, <2>1, <2>4 DEF GetItem, AtMax, Raises, Hand, TypeOK
    <2>5. Clean(f, k) = {} \/ \E g : GetItem(j, k, g)
      BY <2>2
    <2>6. Cardinality(inuse[k]) >= n => Cardinality(Occupied(k)) >= n
      BY <1>1, <1>3
    <2>7. Cardinality(Occupied(k)) >= n \/ Cardinality(all) >= totalmax
      <3> HIDE DEF f
      <3>1. QED
        BY <2>3, <2>4, <2>5, <2>6
    <2>8. QED
      BY <2>7 DEF k, n
  <1>6. QED
    BY <1>4, <1>5

\* TerminalPoolsBusy is raised only when the terminals that are in use or shared
\* reach the maximum of the target's pool or of all the pools (_TerminalPools.get).
THEOREM BusyWhenFull == Spec => BusyOnlyWhenFull
  <1>1. ASSUME Inv, [Next]_vars, NEW j \in Jobs, state[j] = "new", state'[j] = "busy"
        PROVE  \/ \E target \in Targets :
                    key'[j] = KeyOf(kind'[j], target)
                        /\ Cardinality(Occupied(key'[j])) >= limit[target]
               \/ Cardinality(UNION {Occupied(k) : k \in Keys}) >= totalmax
    <2>1. PICK kd \in Kinds, target \in Targets : Acquire(j, kd, target)
      BY <1>1, NewJobAcquires
    <2>2. kind'[j] = kd /\ key'[j] = KeyOf(kd, target)
      BY <1>1, <2>1 DEF Acquire, Inv, TypeOK
    <2>3. QED
      BY <1>1, <2>1, <2>2, BusyIsFull DEF Inv
  <1>2. Inv /\ [Next]_vars => [\A j \in Jobs : state[j] = "new" /\ state'[j] = "busy" =>
        \/ \E target \in Targets :
            key'[j] = KeyOf(kind'[j], target)
                /\ Cardinality(Occupied(key'[j])) >= limit[target]
        \/ Cardinality(UNION {Occupied(k) : k \in Keys}) >= totalmax]_vars
    BY <1>1
  <1>3. QED
    BY <1>2, InvCorrect, PTL DEF Spec, BusyOnlyWhenFull

\* Of the pool k only a new terminal makes more: all else moves or removes some.
Smaller == \A k \in Keys : free'[k] \cup inuse'[k] \subseteq free[k] \cup inuse[k]

\* _clean_free removes as many terminals whichever it chooses.
LEMMA HalvesAlike ==
  ASSUME NEW f \in [Keys -> SUBSET Terminals],
         NEW r \in Halves(f), NEW c \in Halves(f), r # {}
  PROVE  c # {}
  <1>1. PICK t \in r, k \in Keys : t \in f[k]
    BY DEF Halves
  <1>2. /\ r \cap f[k] \in RemoveNFree(f[k], Cardinality(f[k]) \div 2)
        /\ c \cap f[k] \in RemoveNFree(f[k], Cardinality(f[k]) \div 2)
    BY <1>1 DEF Halves
  <1>3. Cardinality(r \cap f[k]) = Cardinality(c \cap f[k])
    BY <1>2 DEF RemoveNFree
  <1>4. IsFiniteSet(r \cap f[k]) /\ IsFiniteSet(c \cap f[k])
    BY <1>1, ConstantsAssumption, FS_Subset DEF ConstantsAssumption
  <1>5. r \cap f[k] # {}
    BY <1>1
  <1>6. c \cap f[k] # {}
    BY <1>3, <1>4, <1>5, FS_EmptySet
  <1>7. QED
    BY <1>6

\* A new terminal: its pool has no free one and is below its maximum, and others
\* were removed unless all the pools together are below theirs.
LEMMA NewTerminal ==
  ASSUME TypeOK, NEW j \in Jobs, NEW kd \in Kinds, NEW target \in Targets,
         Acquire(j, kd, target), created' # created
  PROVE  LET k == KeyOf(kd, target) IN
         \E s \in SUBSET Terminals, t \in Terminals \ created :
            /\ Removable(s)
            /\ free' = [q \in Keys |-> free[q] \ s]
            /\ inuse' = [inuse EXCEPT ![k] = @ \cup {t}]
            /\ free'[k] = {} /\ ~(Cardinality(inuse[k]) >= maxsize'[k])
            /\ s # {} \/ ~Full(free)
  <1> DEFINE k == KeyOf(kd, target)  n == limit[target]
  <1>1. k \in Keys /\ n \in Limits
    BY DEF TypeOK, KeyOf, Keys
  <1>2. Get(j, k, n)
    BY DEF Acquire
  <1> HIDE DEF k, n
  <1>3. ~TooSmall(k, n)
    BY <1>2 DEF Get, Raises
  <1>4. PICK r \in RemoveNFree(free[k], Cardinality(free[k]) - n) :
          LET f == [free EXCEPT ![k] = @ \ r] IN
          \E c \in Clean(f, k) : GetItem(j, k, [q \in Keys |-> f[q] \ c])
    BY <1>2, <1>3 DEF Get, Raises
  <1> DEFINE f == [free EXCEPT ![k] = @ \ r]
  <1>5. PICK c \in Clean(f, k) : GetItem(j, k, [q \in Keys |-> f[q] \ c])
    BY <1>4
  <1> DEFINE g == [q \in Keys |-> f[q] \ c]  s == r \cup c
  <1>6. r \subseteq free[k] /\ Removable(r) /\ r \in SUBSET Terminals
    BY <1>1 DEF RemoveNFree, Unshared, Removable, TypeOK
  <1>7. Removable(c)
    BY <1>1, <1>5, <1>6, CleanRemoves
  <1>8. Removable(s) /\ s \in SUBSET Terminals
    BY <1>6, <1>7 DEF Removable
  <1>9. \A q \in Keys : q # k => r \cap free[q] = {}
    BY <1>1, <1>6 DEF TypeOK
  <1>10. /\ f \in [Keys -> SUBSET Terminals] /\ (r = {} => f = free)
         /\ g = [q \in Keys |-> free[q] \ s]
         /\ g[k] = f[k] \ c
    BY <1>1, <1>9 DEF TypeOK
  <1>11. c = {} => f[k] # {} \/ ~Full(f)
    <2> SUFFICES ASSUME c = {}, f[k] = {}, Full(f) PROVE FALSE
      OBVIOUS
    <2> HIDE DEF f
    <2>1. CASE \E h \in Halves(f) : h # {}
      <3>1. c \in Halves(f)
        BY <1>5, <2>1 DEF Clean
      <3>2. QED
        BY <1>10, <2>1, <3>1, HalvesAlike
    <2>2. CASE ~\E h \in Halves(f) : h # {}
      BY <1>5, <2>2 DEF Clean, AnyPool
    <2>3. QED
      BY <2>1, <2>2
  <1> HIDE DEF f, g, s
  <1>12. GetItem(j, k, g)
    BY <1>5 DEF g
  <1>13. /\ g[k] = {} /\ free' = g /\ ~AtMax(k)
         /\ \E t \in Terminals \ created : Hand(j, k, t)
    BY <1>12 DEF GetItem, Raises
  <1>14. s # {} \/ ~Full(free)
    BY <1>10, <1>11, <1>13 DEF s
  <1>15. QED
    BY <1>8, <1>10, <1>13, <1>14 DEF Hand, AtMax, k

LEMMA OthersSmaller ==
  ASSUME Inv, [Next]_vars
  PROVE  \/ Smaller
         \/ \E j \in Jobs, kd \in Kinds, target \in Targets :
              Acquire(j, kd, target) /\ created' # created
  <1>1. ASSUME NEW j \in Jobs, NEW kd \in Kinds, NEW target \in Targets,
               Acquire(j, kd, target), created' = created
        PROVE  Smaller
    <2>1. PICK r \in SUBSET Terminals :
              \/ Refused(j, r)
              \/ \E t \in Terminals \ r : Given(j, KeyOf(kd, target), r, t)
      BY <1>1, AcquireStep DEF Inv
    <2>2. CASE Refused(j, r)
      BY <2>2 DEF Refused, Smaller
    <2>3. ASSUME NEW t \in Terminals \ r, Given(j, KeyOf(kd, target), r, t) PROVE Smaller
      <3>1. t \in free[KeyOf(kd, target)]
        BY <1>1, <2>3 DEF Given
      <3>2. /\ free' = [q \in Keys |-> (free[q] \ r) \ {t}]
            /\ \A q \in Keys : inuse'[q] \subseteq inuse[q] \cup free[q]
        BY <2>3, <3>1 DEF Given, Inv, TypeOK
      <3>3. QED
        BY <3>2 DEF Smaller
    <2>4. QED
      BY <2>1, <2>2, <2>3
  <1>2. ASSUME NEW j \in Jobs,
               \/ RunRaises(j) \/ StartDaemon(j) \/ CopyEnds(j) \/ Background(j)
               \/ Finish(j) \/ Release(j) \/ FailToKill(j) \/ FailToKillBackground(j)
        PROVE  Smaller
    <2>1. Put(terminal[j]) \/ Remove(terminal[j]) \/ UNCHANGED <<free, inuse>>
      BY <1>2 DEF RunRaises, StartDaemon, CopyEnds, Background, Finish, Release, FailToKill,
                  FailToKillBackground
    <2>2. QED
      BY <2>1 DEF Put, Remove, Smaller
  <1>3. Close => Smaller
    BY DEF Close, Smaller
  <1>4. ASSUME NEW j \in Jobs,
               \/ Start(j) \/ CommunicateRaises(j) \/ Ends(j) \/ Wait(j) \/ WaitKilled(j)
               \/ Kill(j) \/ KillAgain(j)
        PROVE  UNCHANGED <<free, inuse>>
    BY <1>4 DEF Start, CommunicateRaises, Ends, Wait, WaitKilled, Kill, KillAgain, Lost
  <1>5. (\E t \in Terminals : SessionBreaks(t)) \/ Setting => UNCHANGED <<free, inuse>>
    BY DEF SessionBreaks, Lost, Setting
  <1>6. UNCHANGED <<free, inuse>> => Smaller
    BY DEF Smaller
  <1>7. QED
    BY <1>1, <1>2, <1>3, <1>4, <1>5, <1>6
    DEF Next, ExecuteCommand, ExecuteBackground, ExecuteNohup, Copy, GetTerminal, Kinds,
        SetTarget, SetLimit, SetTotalMax, vars

\* Sizes are those of finite sets, and follow inclusion.
LEMMA SmallerSizes ==
  ASSUME TypeOK, Smaller
  PROVE  /\ \A k \in Keys : ~(Size(k)' > Size(k))
         /\ ~(TotalSize(free)' > TotalSize(free))
  <1> DEFINE all == UNION {inuse[q] \cup free[q] : q \in Keys}
             all1 == UNION {inuse'[q] \cup free'[q] : q \in Keys}
  <1>1. all \in SUBSET Terminals /\ \A k \in Keys : free[k] \cup inuse[k] \in SUBSET Terminals
    BY DEF TypeOK
  <1>2. all1 \subseteq all
    BY DEF Smaller
  <1>3. ASSUME NEW a \in SUBSET Terminals, NEW b, b \subseteq a
        PROVE  ~(Cardinality(b) > Cardinality(a))
    <2>1. IsFiniteSet(a) /\ Cardinality(a) \in Nat /\ Cardinality(b) \in Nat
      BY <1>3, PoolsFinite
    <2>2. Cardinality(b) <= Cardinality(a)
      BY <1>3, <2>1, FS_Subset
    <2>3. QED
      BY <2>1, <2>2
  <1>4. ~(Cardinality(all1) > Cardinality(all))
    BY <1>1, <1>2, <1>3
  <1>5. \A k \in Keys : ~(Cardinality(free'[k] \cup inuse'[k]) > Cardinality(free[k] \cup inuse[k]))
    BY <1>1, <1>3 DEF Smaller
  <1>6. QED
    BY <1>4, <1>5 DEF Size, TotalSize

LEMMA NewTerminalSizes ==
  ASSUME TypeOK, NEW j \in Jobs, NEW kd \in Kinds, NEW target \in Targets,
         Acquire(j, kd, target), created' # created
  PROVE  /\ \A k \in Keys : Size(k)' > Size(k) => Size(k)' <= maxsize'[k]
         /\ TotalSize(free)' > TotalSize(free) => TotalSize(free)' <= totalmax
  <1> DEFINE k == KeyOf(kd, target)
  <1>0. k \in Keys /\ maxsize' \in [Keys -> Limits \cup {0}]
    BY AcquireStep
  <1>1. k \in Keys /\ totalmax \in Nat /\ maxsize'[k] \in Nat
    <2>1. totalmax \in Nat /\ Limits \cup {0} \subseteq Nat
      BY ConstantsAssumption DEF ConstantsAssumption, TypeOK
    <2>2. QED
      BY <1>0, <2>1
  <1>2. PICK s \in SUBSET Terminals, t \in Terminals \ created :
            /\ Removable(s)
            /\ free' = [q \in Keys |-> free[q] \ s]
            /\ inuse' = [inuse EXCEPT ![k] = @ \cup {t}]
            /\ free'[k] = {} /\ ~(Cardinality(inuse[k]) >= maxsize'[k])
            /\ s # {} \/ ~Full(free)
    BY NewTerminal
  <1> HIDE DEF k
  <1>3. inuse'[k] = inuse[k] \cup {t} /\ \A q \in Keys : q # k => inuse'[q] = inuse[q]
    BY <1>1, <1>2 DEF TypeOK
  <1>4. \A q \in Keys : free'[q] = free[q] \ s /\ inuse[q] \cap s = {} /\ t \notin inuse[q] \cup free[q]
    BY <1>2 DEF Removable, TypeOK
  <1>5. ASSUME NEW q \in Keys, Size(q)' > Size(q) PROVE Size(q)' <= maxsize'[q]
    <2>1. CASE q # k
      <3>1. free'[q] \cup inuse'[q] \subseteq free[q] \cup inuse[q]
        BY <1>3, <1>4, <2>1
      <3>2. /\ IsFiniteSet(free[q] \cup inuse[q])
            /\ Cardinality(free[q] \cup inuse[q]) \in Nat
            /\ Cardinality(free'[q] \cup inuse'[q]) \in Nat
        BY <3>1, PoolsFinite
      <3>3. Cardinality(free'[q] \cup inuse'[q]) <= Cardinality(free[q] \cup inuse[q])
        BY <3>1, <3>2, FS_Subset
      <3>4. QED
        BY <1>5, <3>2, <3>3 DEF Size
    <2>2. CASE q = k
      <3>1. free'[k] \cup inuse'[k] = inuse[k] \cup {t} /\ t \notin inuse[k]
        BY <1>1, <1>2, <1>3, <1>4
      <3>2. IsFiniteSet(inuse[k]) /\ Cardinality(inuse[k]) \in Nat
        BY <1>1, PoolsFinite
      <3>3. Cardinality(inuse[k] \cup {t}) = Cardinality(inuse[k]) + 1
        BY <3>1, <3>2, FS_AddElement
      <3>4. Cardinality(inuse[k]) < maxsize'[k]
        BY <1>1, <1>2, <3>2
      <3>5. Cardinality(free'[k] \cup inuse'[k]) <= maxsize'[k]
        <4> DEFINE n == Cardinality(inuse[k])  m == maxsize'[k]
        <4>1. n \in Nat /\ m \in Nat /\ n < m
          BY <1>1, <3>2, <3>4
        <4> HIDE DEF n, m
        <4>2. n + 1 <= m
          BY <4>1
        <4>3. QED
          BY <3>1, <3>3, <4>2 DEF n, m
      <3>6. QED
        BY <2>2, <3>5 DEF Size
    <2>3. QED
      BY <2>1, <2>2
  <1> DEFINE all == UNION {inuse[q] \cup free[q] : q \in Keys}
             all1 == UNION {inuse'[q] \cup free'[q] : q \in Keys}
  <1>6. TotalSize(free) = Cardinality(all) /\ TotalSize(free)' = Cardinality(all1)
    BY DEF TotalSize
  <1>7. all1 = (all \ s) \cup {t}
    <2>1. ASSUME NEW x \in all1 PROVE x \in (all \ s) \cup {t}
      <3>1. PICK q \in Keys : x \in inuse'[q] \cup free'[q]
        OBVIOUS
      <3>2. x \in inuse[q] \cup (free[q] \ s) \/ x = t
        BY <1>3, <1>4, <3>1
      <3>3. QED
        BY <1>4, <3>2
    <2>2. ASSUME NEW x \in all \ s PROVE x \in all1
      BY <1>3, <1>4, <2>2
    <2>3. t \in all1
      BY <1>1, <1>3
    <2> HIDE DEF all, all1
    <2>4. QED
      BY <2>1, <2>2, <2>3
  <1>8. all \in SUBSET Terminals /\ s \subseteq all /\ t \notin all
    BY <1>2, <1>4 DEF Removable, TypeOK
  <1> HIDE DEF all, all1
  <1>9. /\ IsFiniteSet(all) /\ IsFiniteSet(all \ s) /\ IsFiniteSet(s)
        /\ Cardinality(all) \in Nat /\ Cardinality(all \ s) \in Nat /\ Cardinality(s) \in Nat
    BY <1>8, PoolsFinite
  <1>10. Cardinality(all1) = Cardinality(all \ s) + 1
    BY <1>7, <1>8, <1>9, FS_AddElement
  <1>11. all \cap s = s
    BY <1>8
  <1>12. Cardinality(all \ s) = Cardinality(all) - Cardinality(s)
    BY <1>9, <1>11, FS_Difference
  <1>13. s # {} => Cardinality(s) # 0
    BY <1>9, FS_EmptySet
  <1>14. s # {} \/ ~(Cardinality(all) >= totalmax)
    BY <1>2, <1>6 DEF Full
  <1>15. Cardinality(all1) > Cardinality(all) => Cardinality(all1) <= totalmax
    BY <1>1, <1>9, <1>10, <1>12, <1>13, <1>14
  <1>16. QED
    BY <1>5, <1>6, <1>15

\* No pool grows above its maximum size, nor do all of them together above that
\* of _TerminalPools, whatever was removed before (_clean_if_needed, _get_item).
THEOREM WithinMax == Spec => GrowsWithinMax
  <1>1. Inv /\ [Next]_vars =>
            [/\ \A k \in Keys : Size(k)' > Size(k) => Size(k)' <= maxsize'[k]
             /\ TotalSize(free)' > TotalSize(free) => TotalSize(free)' <= totalmax]_vars
    BY OthersSmaller, SmallerSizes, NewTerminalSizes DEF Inv
  <1>2. QED
    BY <1>1, InvCorrect, PTL DEF Spec, GrowsWithinMax
=============================================================================
