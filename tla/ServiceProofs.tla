----------------------------- MODULE ServiceProofs -----------------------------
(***************************************************************************)
(* Proofs about the services that wait, forget or take long (the engine's  *)
(* one loop, the lock and the cache in Redis, the registries that answer   *)
(* from a copy, the migrations that nothing keeps apart), about the tables *)
(* that are read page by page, and about all services together.            *)
(***************************************************************************)
EXTENDS OutputProofs

-----------------------------------------------------------------------------
(* The drift engine *)

\* The callers that have the engine, or had it: those that were not refused.
Holders == {c \in Callers : loop[c] \notin {"idle", "refused"}}

\* Until the first Stop the flag says whether there is a holder, and there is one
\* at most: the flag is never cleared by a loop that ends.
EngineInv ==
    /\ EngineTypeOK
    /\ stopCh = "open" =>
          IF running THEN \E c \in Callers : Holders = {c} ELSE Holders = {}

LEMMA EngineInvStart ==
  ASSUME EngineInv, NEW c \in Callers, Start(c)
  PROVE  EngineInv'
  <1>1. CASE running
    BY <1>1 DEF EngineInv, EngineTypeOK, Start, Go, Holders
  <1>2. CASE ~running
    BY <1>2 DEF EngineInv, EngineTypeOK, Start, Go, Holders
  <1> QED BY <1>1, <1>2

LEMMA EngineInvStep ==
  ASSUME EngineInv, [EngineNext]_engineVars
  PROVE  EngineInv'
  <1>1. ASSUME NEW c \in Callers, Start(c) PROVE EngineInv'
    BY <1>1, EngineInvStart
  <1>2. ASSUME NEW c \in Callers, Scanned(c) \/ Tick(c) \/ SeeStop(c) \/ SeeDone(c)
        PROVE  EngineInv'
    BY <1>2 DEF EngineInv, EngineTypeOK, Scanned, Tick, SeeStop, SeeDone, Go, Holders
  <1>3. ASSUME NEW c \in Callers, EndContext(c) PROVE EngineInv'
    BY <1>3 DEF EngineInv, EngineTypeOK, EndContext, Holders
  <1>4. CASE Stop
    BY <1>4 DEF EngineInv, EngineTypeOK, Stop
  <1>5. CASE UNCHANGED engineVars
    BY <1>5 DEF EngineInv, EngineTypeOK, engineVars, Holders
  <1> QED BY <1>1, <1>2, <1>3, <1>4, <1>5 DEF EngineNext, EngineProceeds

LEMMA EngineInvImplies ==
  ASSUME EngineInv
  PROVE  OneLoopUntilStopped
  <1> SUFFICES ASSUME stopCh = "open"
               PROVE  /\ Cardinality({c \in Callers : Looping(c)}) <= 1
                      /\ Cardinality(Holders) = IF running THEN 1 ELSE 0
    BY DEF OneLoopUntilStopped, Holders
  <1>1. {c \in Callers : Looping(c)} \subseteq Holders
    BY DEF Looping, Holders
  <1>2. CASE running
    <2>1. PICK c \in Callers : Holders = {c}
      BY <1>2 DEF EngineInv
    <2>2. Cardinality({d \in Callers : Looping(d)}) <= 1
      BY <1>1, <2>1, AtMostOne
    <2>3. Cardinality({c}) = 1
      BY FS_Singleton
    <2> QED BY <1>2, <2>1, <2>2, <2>3
  <1>3. CASE ~running
    BY <1>1, <1>3, FS_EmptySet DEF EngineInv
  <1> QED BY <1>2, <1>3

\* However many callers start the engine, at whatever moments, one loop runs until
\* somebody stops it (drift/engine.go:54), and the engine's flag agrees.
THEOREM EngineIsAlone == EngineSpec => []OneLoopUntilStopped /\ []EngineTypeOK
  <1>1. EngineInit => EngineInv
    BY DEF EngineInit, EngineInv, EngineTypeOK, Holders
  <1>2. EngineInv /\ [EngineNext]_engineVars => EngineInv'
    BY EngineInvStep
  <1>3. EngineInv => OneLoopUntilStopped /\ EngineTypeOK
    BY EngineInvImplies DEF EngineInv
  <1> QED BY <1>1, <1>2, <1>3, PTL DEF EngineSpec

-----------------------------------------------------------------------------
(* The lock and the cache *)

LockTypeOK ==
    /\ tokens \in 0..MaxTokens
    /\ lock \in {Nil} \cup 1..tokens
    /\ handle \in [Users -> {Nil} \cup 1..tokens]
    /\ ended \subseteq 1..tokens /\ orphaned \subseteq 1..tokens

\* Every value is given out once, and the key's is still to end.
LockInv ==
    /\ LockTypeOK
    /\ \A u, v \in Users : handle[u] # Nil /\ handle[u] = handle[v] => u = v
    /\ lock \notin ended
    /\ \A u \in Users : handle[u] # Nil => handle[u] = lock \/ handle[u] \in ended
    /\ lock # Nil => (\E u \in Users : handle[u] = lock) \/ lock \in orphaned

Sweeps ==
    [phase : {"scan", "delete", "done", "failed"}, cursor : 1..Buckets,
     keys : SUBSET Keys, fresh : SUBSET Keys]

\* What the sweep has passed is fresh, and what it found but did not delete yet is
\* the only exception.
SweepInv ==
    /\ cache \subseteq Keys
    /\ sweep # Nil =>
          /\ sweep \in Sweeps
          /\ \A k \in cache \ sweep.fresh :
                /\ k.bucket >= sweep.cursor
                /\ sweep.phase = "delete" /\ k.bucket = sweep.cursor => k \in sweep.keys
          /\ sweep.phase = "done" => cache \subseteq sweep.fresh

RedisInv == LockInv /\ SweepInv

LEMMA AcquireKeepsLock ==
  ASSUME LockInv, NEW u \in Users, NEW replied \in BOOLEAN, AcquireLock(u, replied)
  PROVE  LockInv'
  <1> DEFINE value == tokens + 1
  <1>1. tokens \in Nat /\ tokens' = value /\ value \in 0..MaxTokens
    BY TokenBoundAssumption DEF LockInv, LockTypeOK, AcquireLock
  <1>2. /\ tokens' \in 0..MaxTokens
        /\ value \in 1..tokens' /\ 1..tokens \subseteq 1..tokens' /\ value \notin 1..tokens
        /\ value # Nil /\ Nil \notin 1..tokens /\ ended' = ended
    BY <1>1, TokenAssumption DEF AcquireLock
  <1>3. CASE lock # Nil
    <2>1. lock' = lock /\ handle' = handle /\ orphaned' = orphaned
      BY <1>3 DEF LockInv, LockTypeOK, AcquireLock
    <2> QED BY <1>2, <2>1 DEF LockInv, LockTypeOK
  <1>4. CASE lock = Nil /\ replied
    <2>1. lock' = value /\ handle' = [handle EXCEPT ![u] = value] /\ orphaned' = orphaned
      BY <1>4 DEF AcquireLock
    <2>2. LockTypeOK'
      BY <1>2, <2>1 DEF LockInv, LockTypeOK
    <2>3. \A v \in Users : handle[v] # Nil => handle[v] \in ended /\ handle[v] # value
      BY <1>2, <1>4 DEF LockInv, LockTypeOK
    <2>4. \A v \in Users : handle'[v] = IF v = u THEN value ELSE handle[v]
      BY <2>1 DEF LockInv, LockTypeOK
    <2> QED BY <1>2, <2>1, <2>2, <2>3, <2>4 DEF LockInv, LockTypeOK
  <1>5. CASE lock = Nil /\ ~replied
    <2>1. lock' = value /\ orphaned' = orphaned \cup {value}
      BY <1>5 DEF AcquireLock
    <2>2. handle' = handle
      BY <1>5 DEF AcquireLock, LockInv, LockTypeOK
    <2>3. LockTypeOK'
      BY <1>2, <2>1, <2>2 DEF LockInv, LockTypeOK
    <2> QED BY <1>2, <1>5, <2>1, <2>2, <2>3 DEF LockInv, LockTypeOK
  <1> QED BY <1>3, <1>4, <1>5

LEMMA ReleaseKeepsLock ==
  ASSUME LockInv, NEW u \in Users, NEW replied \in BOOLEAN, Release(u, replied)
  PROVE  LockInv'
  <1>1. /\ tokens' = tokens /\ orphaned' = orphaned /\ handle[u] # Nil /\ Nil \notin 1..tokens
        /\ \A v \in Users : handle'[v] = handle[v] \/ (v = u /\ handle'[v] = Nil)
    BY TokenAssumption DEF Release, LockInv, LockTypeOK
  <1>2. CASE lock = handle[u]
    <2>1. lock' = Nil /\ ended' = ended \cup {lock} /\ lock \in 1..tokens
      BY <1>2, <1>1 DEF Release, LockInv, LockTypeOK
    <2>2. LockTypeOK'
      BY <1>1, <2>1 DEF Release, LockInv, LockTypeOK
    <2> QED BY <1>1, <1>2, <2>1, <2>2 DEF LockInv, LockTypeOK
  <1>3. CASE lock # handle[u]
    <2>1. lock' = lock /\ ended' = ended
      BY <1>3, <1>1 DEF Release
    <2>2. LockTypeOK'
      BY <1>1, <2>1 DEF Release, LockInv, LockTypeOK
    <2> QED BY <1>1, <1>3, <2>1, <2>2 DEF LockInv, LockTypeOK
  <1> QED BY <1>2, <1>3

LEMMA ExtendKeepsLock ==
  ASSUME LockInv, NEW u \in Users, Extend(u)
  PROVE  LockInv'
  <1>1. /\ lock' = lock /\ tokens' = tokens /\ ended' = ended /\ orphaned' = orphaned
        /\ \A v \in Users : handle'[v] = IF v = u THEN Nil ELSE handle[v]
        /\ lock # handle[u]
    BY DEF Extend, LockInv, LockTypeOK
  <1>2. LockTypeOK'
    BY <1>1 DEF Extend, LockInv, LockTypeOK
  <1> QED BY <1>1, <1>2 DEF LockInv, LockTypeOK

LEMMA ExpireKeepsLock ==
  ASSUME LockInv, Expire
  PROVE  LockInv'
  <1>1. /\ lock' = Nil /\ ended' = ended \cup {lock} /\ lock \in 1..tokens /\ Nil \notin 1..tokens
        /\ tokens' = tokens /\ handle' = handle /\ orphaned' = orphaned
    BY TokenAssumption DEF Expire, LockInv, LockTypeOK
  <1> QED BY <1>1 DEF LockInv, LockTypeOK

LEMMA SweepInvStep ==
  ASSUME SweepInv, CacheNext
  PROVE  SweepInv'
  <1>1. ASSUME NEW k \in Keys, Set(k) PROVE SweepInv'
    <2>1. CASE sweep = Nil
      BY <1>1, <2>1 DEF SweepInv, Set
    <2>2. CASE sweep # Nil
      BY <1>1, <2>2 DEF SweepInv, Set, Sweeps
    <2> QED BY <2>1, <2>2
  <1>2. CASE Invalidate
    BY <1>2, BucketAssumption DEF SweepInv, Invalidate, Sweeps
  <1>3. CASE ScanKeys
    BY <1>3 DEF SweepInv, ScanKeys, Sweeps
  <1>4. CASE DeleteKeys
    <2>1. /\ sweep \in Sweeps /\ sweep # Nil /\ sweep.phase = "delete"
          /\ cache' = cache \ sweep.keys /\ sweep.cursor \in 1..Buckets
          /\ Buckets \in Nat
      BY <1>4, BucketAssumption DEF SweepInv, DeleteKeys, Sweeps
    <2>2. \A k \in cache' \ sweep.fresh : /\ k.bucket \in 1..Buckets
                                         /\ k.bucket > sweep.cursor
      BY <2>1, BucketAssumption DEF SweepInv
    <2>3. CASE sweep.cursor = Buckets
      BY <2>1, <2>2, <2>3, <1>4 DEF SweepInv, DeleteKeys, Sweeps
    <2>4. CASE sweep.cursor # Buckets
      <3>1. sweep' = [sweep EXCEPT !.phase = "scan", !.cursor = sweep.cursor + 1]
        BY <2>4, <1>4 DEF DeleteKeys
      <3>2. sweep.cursor + 1 \in 1..Buckets
        BY <2>1, <2>4
      <3>3. /\ sweep' \in Sweeps /\ sweep'.phase = "scan" /\ sweep'.fresh = sweep.fresh
            /\ sweep'.cursor = sweep.cursor + 1
        BY <3>1, <3>2, <2>1 DEF Sweeps
      <3>4. \A k \in cache' \ sweep'.fresh : k.bucket >= sweep'.cursor
        BY <3>3, <2>2, <2>1
      <3> QED BY <3>3, <3>4, <2>1 DEF SweepInv
    <2> QED BY <2>3, <2>4
  <1>5. CASE FailSweep
    BY <1>5 DEF SweepInv, FailSweep, Sweeps
  <1> QED BY <1>1, <1>2, <1>3, <1>4, <1>5 DEF CacheNext

LEMMA RedisInvStep ==
  ASSUME RedisInv, [LockNext \/ CacheNext]_redisVars
  PROVE  RedisInv'
  <1>1. CASE LockNext
    <2>1. UNCHANGED <<cache, sweep>>
      BY <1>1 DEF LockNext, AcquireLock, Release, Extend, Expire
    <2>2. LockInv'
      BY <1>1, AcquireKeepsLock, ReleaseKeepsLock, ExtendKeepsLock, ExpireKeepsLock
         DEF LockNext, RedisInv
    <2> QED BY <2>1, <2>2 DEF RedisInv, SweepInv
  <1>2. CASE CacheNext
    <2>1. UNCHANGED lockVars
      BY <1>2 DEF CacheNext, Set, Invalidate, ScanKeys, DeleteKeys, FailSweep
    <2>2. SweepInv'
      BY <1>2, SweepInvStep DEF RedisInv
    <2> QED BY <2>1, <2>2 DEF RedisInv, LockInv, LockTypeOK, lockVars
  <1>3. CASE UNCHANGED redisVars
    BY <1>3 DEF redisVars, lockVars, RedisInv, LockInv, LockTypeOK, SweepInv
  <1> QED BY <1>1, <1>2, <1>3

LEMMA RedisInvImplies ==
  ASSUME RedisInv
  PROVE  RedisIsSound /\ RedisTypeOK
  <1> DEFINE Live == {u \in Users : handle[u] # Nil /\ handle[u] \notin ended}
  <1>1. \A u, v \in Live : u = v
    BY DEF RedisInv, LockInv
  <1>2. Cardinality(Live) <= 1
    BY <1>1, AtMostOne
  <1>3. LeaseIsOwn
    BY <1>2 DEF RedisInv, LockInv, LeaseIsOwn
  <1>4. SweepLeavesOnlyFresh
    BY DEF RedisInv, SweepInv, SweepLeavesOnlyFresh
  <1>5. RedisTypeOK
    BY DEF RedisInv, LockInv, LockTypeOK, SweepInv, Sweeps, RedisTypeOK
  <1> QED BY <1>3, <1>4, <1>5 DEF RedisIsSound

\* Two Locks are never live at once, whatever leases run out, answers get lost or
\* others release (store/redis/locks.go:49), and an Invalidate that returned has
\* left nothing that was there before it (store/redis/cache.go:87).
THEOREM RedisIsAlwaysSound == RedisSpec => []RedisIsSound /\ []RedisTypeOK
  <1>1. RedisInit => RedisInv
    <2> SUFFICES ASSUME RedisInit PROVE LockInv /\ SweepInv
      BY DEF RedisInv
    <2>1. tokens \in 0..MaxTokens
      BY TokenBoundAssumption DEF RedisInit
    <2> QED BY <2>1 DEF RedisInit, LockInv, LockTypeOK, SweepInv
  <1>2. RedisInv /\ [LockNext \/ CacheNext]_redisVars => RedisInv'
    BY RedisInvStep
  <1>3. RedisInv => RedisIsSound /\ RedisTypeOK
    BY RedisInvImplies
  <1> QED BY <1>1, <1>2, <1>3, PTL DEF RedisSpec

\* A value that nobody was told of is over or the key's, and no Lock has it.
StrandInv ==
    /\ \A t \in orphaned : t = lock \/ t \in ended
    /\ \A u \in Users : handle[u] \notin orphaned

LEMMA StrandInvStep ==
  ASSUME LockInv, StrandInv, LockNext
  PROVE  StrandInv'
  <1>1. ASSUME NEW u \in Users, NEW replied \in BOOLEAN, AcquireLock(u, replied) PROVE StrandInv'
    <2> DEFINE value == tokens + 1
    <2>1. /\ tokens \in Nat /\ value \notin 1..tokens /\ Nil \notin 1..tokens /\ value # Nil
          /\ ended' = ended
      BY <1>1, TokenBoundAssumption, TokenAssumption DEF LockInv, LockTypeOK, AcquireLock
    <2>2. /\ lock' = IF lock = Nil THEN value ELSE lock
          /\ orphaned' = orphaned \/ (lock = Nil /\ orphaned' = orphaned \cup {value} /\ ~replied)
          /\ handle' = [handle EXCEPT ![u] = IF lock = Nil /\ replied THEN value ELSE Nil]
      BY <1>1 DEF AcquireLock
    <2> HIDE DEF value
    <2>3. \A t \in orphaned' : t = lock' \/ t \in ended'
      BY <2>1, <2>2 DEF LockInv, LockTypeOK, StrandInv
    <2>4. ASSUME NEW v \in Users PROVE handle'[v] \notin orphaned'
      <3>1. orphaned \subseteq 1..tokens /\ handle \in [Users -> {Nil} \cup 1..tokens]
        BY DEF LockInv, LockTypeOK
      <3>2. handle[v] \notin orphaned \cup {value} /\ Nil \notin orphaned \cup {value} /\ value \notin orphaned
        BY <2>1, <3>1 DEF StrandInv
      <3>3. handle'[v] = handle[v] \/ handle'[v] = Nil \/ (replied /\ handle'[v] = value)
        BY <2>2, <3>1
      <3> QED BY <2>2, <3>2, <3>3
    <2> QED BY <2>3, <2>4 DEF StrandInv
  <1>0. Nil \notin orphaned /\ handle \in [Users -> {Nil} \cup 1..tokens]
    <2>1. tokens \in Nat /\ orphaned \subseteq 1..tokens /\ handle \in [Users -> {Nil} \cup 1..tokens]
      BY TokenBoundAssumption DEF LockInv, LockTypeOK
    <2>2. \A t \in orphaned : t \in Nat
      BY <2>1
    <2>3. Nil \notin orphaned
      BY <2>2, TokenAssumption
    <2> QED BY <2>1, <2>3
  <1>2. ASSUME NEW u \in Users, NEW replied \in BOOLEAN, Release(u, replied) PROVE StrandInv'
    <2>1. /\ orphaned' = orphaned
          /\ handle' = handle \/ handle' = [handle EXCEPT ![u] = Nil]
          /\ lock \in ended' \/ lock' = lock
          /\ ended \subseteq ended'
      BY <1>2 DEF Release
    <2>2. \A v \in Users : handle'[v] = handle[v] \/ handle'[v] = Nil
      BY <2>1, <1>0
    <2> QED BY <2>1, <2>2, <1>0 DEF StrandInv
  <1>3. ASSUME NEW u \in Users, Extend(u) PROVE StrandInv'
    <2>1. /\ orphaned' = orphaned /\ lock' = lock /\ ended' = ended
          /\ handle' = [handle EXCEPT ![u] = Nil]
      BY <1>3 DEF Extend
    <2>2. \A v \in Users : handle'[v] = handle[v] \/ handle'[v] = Nil
      BY <2>1, <1>0
    <2> QED BY <2>1, <2>2, <1>0 DEF StrandInv
  <1>4. CASE Expire
    BY <1>4 DEF Expire, StrandInv
  <1> QED BY <1>1, <1>2, <1>3, <1>4 DEF LockNext

\* What a user thinks.
LEMMA HoldOf ==
  \A u \in Users : Hold[u] = IF handle[u] = Nil THEN "none"
                             ELSE IF handle[u] \in ended THEN "over" ELSE "held"
  BY DEF Hold

LEMMA HoldChanges ==
  ASSUME NEW u \in Users, NEW state, Hold'[u] = state, \A v \in Users \ {u} : Hold'[v] = Hold[v]
  PROVE  Hold' = [Hold EXCEPT ![u] = state]
  BY DEF Hold

LEMMA AcquireIsGrant ==
  ASSUME LockInv, StrandInv, NEW u \in Users, NEW replied \in BOOLEAN, AcquireLock(u, replied)
  PROVE  [Leases!Next]_Leases!leaseVars
  <1> DEFINE value == tokens + 1
  <1>1. /\ tokens \in Nat /\ value \notin ended /\ value \notin orphaned /\ value # Nil
        /\ ended' = ended /\ handle[u] = Nil /\ handle \in [Users -> {Nil} \cup 1..tokens]
    BY TokenBoundAssumption, TokenAssumption DEF LockInv, LockTypeOK, AcquireLock
  <1>2. CASE lock # Nil
    <2>1. handle' = handle /\ orphaned' = orphaned
      BY <1>2, <1>1 DEF AcquireLock
    <2>2. Hold' = Hold /\ Stranded' = Stranded
      BY <2>1, <1>1 DEF Hold, Stranded
    <2> QED BY <2>2 DEF Leases!leaseVars
  <1>3. CASE lock = Nil
    <2>1. Leases!Free /\ Hold[u] = "none"
      <3>1. orphaned \ ended = {}
        BY <1>3, TokenAssumption DEF StrandInv, LockInv, LockTypeOK
      <3>2. \A v \in Users : Hold[v] # "held"
        BY <1>3, HoldOf DEF LockInv
      <3> QED BY <3>1, <3>2, <1>1, HoldOf DEF Leases!Free, Stranded
    <2>2. CASE replied
      <3>1. handle' = [handle EXCEPT ![u] = value] /\ orphaned' = orphaned
        BY <1>3, <2>2 DEF AcquireLock
      <3>2. Hold'[u] = "held" /\ \A v \in Users \ {u} : Hold'[v] = Hold[v]
        BY <3>1, <1>1 DEF Hold
      <3>3. Hold' = [Hold EXCEPT ![u] = "held"]
        BY <3>2, HoldChanges
      <3>4. Stranded' = Stranded
        BY <3>1, <1>1 DEF Stranded
      <3> QED BY <2>1, <3>3, <3>4 DEF Leases!Next, Leases!Grant
    <2>3. CASE ~replied
      <3>1. handle' = [handle EXCEPT ![u] = Nil] /\ orphaned' = orphaned \cup {value}
        BY <1>3, <2>3 DEF AcquireLock
      <3>2. handle' = handle
        BY <3>1, <1>1
      <3>3. Hold' = Hold
        BY <3>2, <1>1 DEF Hold
      <3>4. Stranded' = TRUE
        BY <3>1, <1>1 DEF Stranded
      <3> QED BY <2>1, <3>3, <3>4 DEF Leases!Next, Leases!Strand
    <2> QED BY <2>2, <2>3
  <1> QED BY <1>2, <1>3

\* When the key's lease ends, for one user who has its value or for nobody.
LEMMA EndOfLease ==
  ASSUME LockInv, StrandInv, NEW u \in Users, lock = handle[u], lock # Nil,
         ended' = ended \cup {lock}, orphaned' = orphaned
  PROVE  /\ Hold[u] = "held" /\ Stranded' = Stranded
         /\ \A v \in Users : v # u => handle[v] # lock \/ handle[v] = Nil
  <1>1. Hold[u] = "held"
    BY HoldOf DEF LockInv
  <1>2. lock \notin orphaned
    BY DEF StrandInv
  <1>3. orphaned' \ ended' = orphaned \ ended
    BY <1>2
  <1> QED BY <1>1, <1>3 DEF Stranded, LockInv

LEMMA ReleaseGivesBack ==
  ASSUME LockInv, StrandInv, NEW u \in Users, NEW replied \in BOOLEAN, Release(u, replied)
  PROVE  [Leases!Next]_Leases!leaseVars
  <1>1. /\ handle[u] # Nil /\ orphaned' = orphaned /\ handle \in [Users -> {Nil} \cup 1..tokens]
        /\ handle' = IF replied THEN [handle EXCEPT ![u] = Nil] ELSE handle
    BY DEF Release, LockInv, LockTypeOK
  <1>2. CASE lock = handle[u]
    <2>1. ended' = ended \cup {lock}
      BY <1>2 DEF Release
    <2>2. /\ Hold[u] = "held" /\ Stranded' = Stranded
          /\ \A v \in Users : v # u => handle[v] # lock \/ handle[v] = Nil
      BY <1>1, <1>2, <2>1, EndOfLease
    <2>3. \A v \in Users \ {u} : Hold'[v] = Hold[v]
      BY <1>1, <2>1, <2>2 DEF Hold
    <2>4. CASE replied
      <3>1. Hold'[u] = "none"
        BY <1>1, <2>4 DEF Hold
      <3>2. Hold' = [Hold EXCEPT ![u] = "none"]
        BY <3>1, <2>3, HoldChanges
      <3> QED BY <2>2, <3>2 DEF Leases!Next, Leases!GiveBack
    <2>5. CASE ~replied
      <3>1. Hold'[u] = "over"
        BY <1>1, <1>2, <2>1, <2>5 DEF Hold
      <3>2. Hold' = [Hold EXCEPT ![u] = "over"]
        BY <3>1, <2>3, HoldChanges
      <3> QED BY <2>2, <3>2 DEF Leases!Next, Leases!RunOut
    <2> QED BY <2>4, <2>5
  <1>3. CASE lock # handle[u]
    <2>1. ended' = ended /\ Hold[u] = "over" /\ Stranded' = Stranded
      BY <1>1, <1>3, HoldOf DEF Release, LockInv, Stranded
    <2>2. CASE replied
      <3>1. Hold'[u] = "none" /\ \A v \in Users \ {u} : Hold'[v] = Hold[v]
        BY <1>1, <2>1, <2>2 DEF Hold
      <3>2. Hold' = [Hold EXCEPT ![u] = "none"]
        BY <3>1, HoldChanges
      <3> QED BY <2>1, <3>2 DEF Leases!Next, Leases!Learn
    <2>3. CASE ~replied
      <3>1. Hold' = Hold
        BY <1>1, <2>1, <2>3 DEF Hold
      <3> QED BY <2>1, <3>1 DEF Leases!leaseVars
    <2> QED BY <2>2, <2>3
  <1> QED BY <1>2, <1>3

LEMMA ExtendTells ==
  ASSUME LockInv, NEW u \in Users, Extend(u)
  PROVE  [Leases!Next]_Leases!leaseVars
  <1>1. /\ handle' = [handle EXCEPT ![u] = Nil] /\ ended' = ended /\ orphaned' = orphaned
        /\ handle[u] # Nil /\ lock # handle[u] /\ handle \in [Users -> {Nil} \cup 1..tokens]
    BY DEF Extend, LockInv, LockTypeOK
  <1>2. Hold[u] = "over" /\ Stranded' = Stranded
    BY <1>1, HoldOf DEF LockInv, Stranded
  <1>3. Hold'[u] = "none" /\ \A v \in Users \ {u} : Hold'[v] = Hold[v]
    BY <1>1 DEF Hold
  <1>4. Hold' = [Hold EXCEPT ![u] = "none"]
    BY <1>3, HoldChanges
  <1> QED BY <1>2, <1>4 DEF Leases!Next, Leases!Learn

LEMMA ExpireEnds ==
  ASSUME LockInv, StrandInv, Expire
  PROVE  [Leases!Next]_Leases!leaseVars
  <1>1. lock # Nil /\ ended' = ended \cup {lock} /\ handle' = handle /\ orphaned' = orphaned
    BY DEF Expire
  <1>2. ASSUME NEW u \in Users, handle[u] = lock PROVE [Leases!Next]_Leases!leaseVars
    <2>1. /\ Hold[u] = "held" /\ Stranded' = Stranded
          /\ \A v \in Users : v # u => handle[v] # lock \/ handle[v] = Nil
      BY <1>1, <1>2, EndOfLease
    <2>2. Hold'[u] = "over" /\ \A v \in Users \ {u} : Hold'[v] = Hold[v]
      BY <1>1, <1>2, <2>1 DEF Hold
    <2>3. Hold' = [Hold EXCEPT ![u] = "over"]
      BY <2>2, HoldChanges
    <2> QED BY <2>1, <2>3 DEF Leases!Next, Leases!RunOut
  <1>3. CASE \A u \in Users : handle[u] # lock
    <2>1. Hold' = Hold
      BY <1>1, <1>3 DEF Hold
    <2>2. lock \in orphaned /\ lock \notin ended
      BY <1>1, <1>3 DEF LockInv
    <2>3. Stranded /\ ~Stranded'
      BY <1>1, <2>2 DEF Stranded, StrandInv
    <2>4. Stranded' = FALSE
      BY <2>3 DEF Stranded
    <2> QED BY <2>1, <2>3, <2>4 DEF Leases!Next, Leases!Recover
  <1> QED BY <1>2, <1>3

\* The lock is the one that Lease describes, for any users and any number of leases,
\* with replies that are lost: AcquireLock, Release and Extend (store/redis/locks.go).
THEOREM RedisImplementsLease == RedisSpec => ImplementsLease
  <1>1. RedisInit => RedisInv /\ StrandInv
    <2> SUFFICES ASSUME RedisInit PROVE LockInv /\ SweepInv /\ StrandInv
      BY DEF RedisInv
    <2>1. tokens \in 0..MaxTokens
      BY TokenBoundAssumption DEF RedisInit
    <2> QED BY <2>1 DEF RedisInit, LockInv, LockTypeOK, SweepInv, StrandInv
  <1>2. RedisInit => Leases!Init
    BY DEF RedisInit, Leases!Init, Hold, Stranded
  <1>3. RedisInv /\ StrandInv /\ [LockNext \/ CacheNext]_redisVars => RedisInv' /\ StrandInv'
    <2> SUFFICES ASSUME RedisInv, StrandInv, [LockNext \/ CacheNext]_redisVars PROVE StrandInv'
      BY RedisInvStep
    <2>1. CASE UNCHANGED lockVars
      BY <2>1 DEF lockVars, StrandInv
    <2>2. CASE LockNext
      BY <2>2, StrandInvStep DEF RedisInv
    <2> QED BY <2>1, <2>2 DEF redisVars, CacheNext, Set, Invalidate, ScanKeys, DeleteKeys, FailSweep
  <1>4. RedisInv /\ StrandInv /\ [LockNext \/ CacheNext]_redisVars => [Leases!Next]_Leases!leaseVars
    <2> SUFFICES ASSUME RedisInv, StrandInv, [LockNext \/ CacheNext]_redisVars
                 PROVE  [Leases!Next]_Leases!leaseVars
      OBVIOUS
    <2>1. CASE UNCHANGED lockVars
      <3>1. Hold' = Hold /\ Stranded' = Stranded
        BY <2>1 DEF lockVars, Hold, Stranded
      <3> QED BY <3>1 DEF Leases!leaseVars
    <2>2. CASE LockNext
      BY <2>2, AcquireIsGrant, ReleaseGivesBack, ExtendTells, ExpireEnds DEF LockNext, RedisInv
    <2> QED BY <2>1, <2>2 DEF redisVars, CacheNext, Set, Invalidate, ScanKeys, DeleteKeys, FailSweep
  <1> QED BY <1>1, <1>2, <1>3, <1>4, PTL DEF RedisSpec, ImplementsLease, Leases!Spec

-----------------------------------------------------------------------------
(* The registries *)

\* Whom a discovery asked has still to answer, or found something, or failed.
DiscoveryInv ==
    /\ providers \subseteq DOMAIN Providers
    /\ discovery # Nil =>
          /\ DOMAIN discovery = {"phase", "asked", "pending", "found", "failed"}
          /\ discovery.phase \in {"running", "done", "failed"}
          /\ discovery.asked \subseteq providers
          /\ discovery.asked = discovery.pending \cup DOMAIN discovery.found \cup discovery.failed
          /\ discovery.phase # "running" => discovery.pending = {}
          /\ discovery.phase = "failed" => Found = {}
          /\ discovery.phase = "done" => discovery.failed = {} \/ Found # {}

Enabled(set) == {p \in DOMAIN set : set[p]}

Judged(made) == {r.policy : r \in made}

\* Every policy that was enabled when the evaluation began is judged, or to be.
EvaluationInv ==
    /\ DOMAIN policies \subseteq Policies
    /\ evaluation # Nil =>
          /\ DOMAIN evaluation = {"phase", "todo", "results", "at"}
          /\ DOMAIN evaluation.at \subseteq Policies
          /\ Judged(evaluation.results) \cup evaluation.todo = Enabled(evaluation.at)
          /\ evaluation.phase = "done" => evaluation.todo = {}

RegistryInv == DiscoveryInv /\ EvaluationInv

LEMMA AnswerKeeps ==
  ASSUME DiscoveryInv, NEW p \in DOMAIN Providers, NEW resources, Answer(p, resources)
  PROVE  DiscoveryInv'
  BY DEF DiscoveryInv, Answer, Put

LEMMA CollectKeeps ==
  ASSUME DiscoveryInv, Collect
  PROVE  DiscoveryInv'
  <1>1. /\ discovery'.found = discovery.found /\ discovery'.failed = discovery.failed
        /\ discovery'.phase = IF discovery.failed # {} /\ Found = {} THEN "failed" ELSE "done"
        /\ Found' = Found
    BY DEF DiscoveryInv, Collect, Found
  <1> QED BY <1>1 DEF DiscoveryInv, Collect

LEMMA DiscoveryInvStep ==
  ASSUME DiscoveryInv, ProvidersNext
  PROVE  DiscoveryInv'
  <1>1. ASSUME NEW p \in DOMAIN Providers, Register(p) PROVE DiscoveryInv'
    BY <1>1 DEF DiscoveryInv, Register, Found
  <1>2. ASSUME NEW p \in DOMAIN Providers, AnswerError(p) PROVE DiscoveryInv'
    BY <1>2 DEF DiscoveryInv, AnswerError
  <1>3. CASE DiscoverAll
    BY <1>3 DEF DiscoveryInv, DiscoverAll, EmptyMap
  <1> QED BY <1>1, <1>2, <1>3, AnswerKeeps, CollectKeeps DEF ProvidersNext

LEMMA JudgedOneMore ==
  ASSUME NEW made, NEW r
  PROVE  Judged(made \cup {r}) = Judged(made) \cup {r.policy}
  BY DEF Judged

LEMMA EvaluationInvStep ==
  ASSUME EvaluationInv, PoliciesNext
  PROVE  EvaluationInv'
  <1>1. ASSUME NEW id \in Policies, NEW enabled \in BOOLEAN, AddPolicy(id, enabled)
        PROVE  EvaluationInv'
    BY <1>1 DEF EvaluationInv, AddPolicy, Put
  <1>2. ASSUME NEW id \in Policies, RemovePolicy(id) PROVE EvaluationInv'
    BY <1>2 DEF EvaluationInv, RemovePolicy, Restrict
  <1>3. CASE EvaluateResources
    BY <1>3 DEF EvaluationInv, EvaluateResources, Enabled, Judged
  <1>4. ASSUME NEW id \in Policies, EvaluatePolicy(id) PROVE EvaluationInv'
    <2> DEFINE result == [policy |-> id, passed |-> TRUE]
    <2>1. /\ evaluation # Nil /\ id \in evaluation.todo /\ policies' = policies
          /\ DOMAIN evaluation' = DOMAIN evaluation /\ evaluation'.phase = evaluation.phase
          /\ evaluation'.at = evaluation.at /\ evaluation'.todo = evaluation.todo \ {id}
          /\ evaluation'.results = evaluation.results \cup {result}
      BY <1>4 DEF EvaluationInv, EvaluatePolicy
    <2>2. result.policy = id
      OBVIOUS
    <2> HIDE DEF result
    <2>3. Judged(evaluation'.results) = Judged(evaluation.results) \cup {id}
      BY <2>1, <2>2, JudgedOneMore
    <2> QED BY <2>1, <2>3 DEF EvaluationInv
  <1>5. CASE Respond
    BY <1>5 DEF EvaluationInv, Respond
  <1> QED BY <1>1, <1>2, <1>3, <1>4, <1>5 DEF PoliciesNext

LEMMA RegistryInvStep ==
  ASSUME RegistryInv, [ProvidersNext \/ PoliciesNext]_registryVars
  PROVE  RegistryInv'
  <1>1. CASE ProvidersNext
    <2>1. UNCHANGED policyVars
      BY <1>1 DEF ProvidersNext, Register, AnswerError, Answer, DiscoverAll, Collect
    <2>2. DiscoveryInv'
      BY <1>1, DiscoveryInvStep DEF RegistryInv
    <2> QED BY <2>1, <2>2 DEF RegistryInv, EvaluationInv, policyVars
  <1>2. CASE PoliciesNext
    <2>1. UNCHANGED providerVars
      BY <1>2 DEF PoliciesNext, AddPolicy, RemovePolicy, EvaluateResources, EvaluatePolicy, Respond
    <2>2. EvaluationInv'
      BY <1>2, EvaluationInvStep DEF RegistryInv
    <2> QED BY <2>1, <2>2 DEF RegistryInv, DiscoveryInv, providerVars, Found
  <1>3. CASE UNCHANGED registryVars
    BY <1>3 DEF registryVars, providerVars, policyVars, RegistryInv, DiscoveryInv, EvaluationInv, Found
  <1> QED BY <1>1, <1>2, <1>3

LEMMA RegistryInvImplies ==
  ASSUME RegistryInv
  PROVE  ResponsesAreWhole /\ RegistryTypeOK
  <1>1. ASSUME discovery # Nil, discovery.phase = "failed", NEW p \in DOMAIN discovery.found
        PROVE  discovery.found[p] = {}
    <2>1. Found = {}
      BY <1>1 DEF RegistryInv, DiscoveryInv
    <2>2. discovery.found[p] \in Range(discovery.found)
      BY DEF Range
    <2> QED BY <2>1, <2>2 DEF Found
  <1>2. ASSUME discovery # Nil
        PROVE  /\ (discovery.phase # "running" /\ Found # {}) => discovery.phase = "done"
               /\ discovery.phase = "done" => Found # {} \/ DOMAIN discovery.found = discovery.asked
    BY <1>2 DEF RegistryInv, DiscoveryInv
  <1>3. (evaluation # Nil /\ evaluation.phase = "done") =>
            Judged(evaluation.results) = Enabled(evaluation.at)
    BY DEF RegistryInv, EvaluationInv
  <1>4. ResponsesAreWhole
    BY <1>1, <1>2, <1>3 DEF ResponsesAreWhole, Judged, Enabled
  <1>5. RegistryTypeOK
    BY DEF RegistryInv, DiscoveryInv, EvaluationInv, RegistryTypeOK, Enabled
  <1> QED BY <1>4, <1>5

LEMMA RegistryIsWhole == RegistrySpec => []ResponsesAreWhole /\ []RegistryTypeOK
  <1>1. RegistryInit => RegistryInv
    BY DEF RegistryInit, RegistryInv, DiscoveryInv, EvaluationInv, EmptyMap
  <1>2. RegistryInv /\ [ProvidersNext \/ PoliciesNext]_registryVars => RegistryInv'
    BY RegistryInvStep
  <1>3. RegistryInv => ResponsesAreWhole /\ RegistryTypeOK
    BY RegistryInvImplies
  <1> QED BY <1>1, <1>2, <1>3, PTL DEF RegistrySpec

-----------------------------------------------------------------------------
(* The migrations *)

\* What the first n scripts create.
UpTo(n) == UNION {Creates(Scripts[i]) : i \in 1..n}

\* The database has the first so many scripts, those that a call has applied
\* itself among them; the first of them nobody else applied as well.
SchemaInv ==
    /\ migrator \in [Migrators -> [phase : {"idle", "running", "done", "failed"},
                                   next : 1..5, applied : SUBSET (1..4)]]
    /\ \E n \in 0..4 :
          /\ schema = UpTo(n)
          /\ \A m \in Migrators : migrator[m].next <= n + 1
    /\ \A m \in Migrators :
          /\ migrator[m].applied = 1..(migrator[m].next - 1)
          /\ migrator[m].phase = "done" => migrator[m].next = 5
    /\ \A m, o \in Migrators : migrator[m].next > 1 /\ migrator[o].next > 1 => m = o

\* No script creates what another one does, and each creates something without
\* asking whether it is there; so it applies to what comes before it and to
\* nothing that has it.
LEMMA ScriptFacts ==
  /\ Len(Scripts) = 4 /\ DOMAIN Scripts = 1..4
  /\ \A n \in 1..4 : /\ Scripts[n].others # {}
                     /\ Scripts[n].others \subseteq Creates(Scripts[n])
  /\ \A i, n \in 1..4 : i # n => Scripts[n].others \cap Creates(Scripts[i]) = {}
  <1> DEFINE Apart(s, t) == s.others \cap Creates(t) = {}
             Sound(s) == s.others # {} /\ s.others \subseteq Creates(s)
  <1>1. /\ Len(Scripts) = 4 /\ DOMAIN Scripts = 1..4
        /\ Scripts[1] = Initial /\ Scripts[2] = DriftTables
        /\ Scripts[3] = GraphTables /\ Scripts[4] = AuditTables
    BY DEF Scripts
  <1>2. /\ Initial.others = {"index of resources"}
        /\ DriftTables.others = {"index of drift_events"}
        /\ GraphTables.others = {"index of graph_nodes"}
        /\ AuditTables.others = {"index of policies", "audit trigger"}
        /\ Creates(Initial) = {"resources", "index of resources"}
        /\ Creates(DriftTables) = {"drift_events", "index of drift_events"}
        /\ Creates(GraphTables) = {"graph_nodes", "graph_edges", "index of graph_nodes"}
        /\ Creates(AuditTables) = {"policies", "audit_entries", "index of policies", "audit trigger"}
    BY DEF Creates, Initial, DriftTables, GraphTables, AuditTables, Script
  <1>3. Sound(Initial) /\ Sound(DriftTables) /\ Sound(GraphTables) /\ Sound(AuditTables)
    BY <1>2
  <1>4. /\ Apart(Initial, DriftTables) /\ Apart(Initial, GraphTables) /\ Apart(Initial, AuditTables)
        /\ Apart(DriftTables, Initial) /\ Apart(DriftTables, GraphTables)
        /\ Apart(DriftTables, AuditTables)
        /\ Apart(GraphTables, Initial) /\ Apart(GraphTables, DriftTables)
        /\ Apart(GraphTables, AuditTables)
        /\ Apart(AuditTables, Initial) /\ Apart(AuditTables, DriftTables)
        /\ Apart(AuditTables, GraphTables)
    BY <1>2
  <1>5. /\ \A n \in 1..4 : Sound(Scripts[n])
        /\ \A i, n \in 1..4 : i # n => Apart(Scripts[n], Scripts[i])
    <2> HIDE DEF Apart, Sound
    <2>1. \A n \in 1..4 : n = 1 \/ n = 2 \/ n = 3 \/ n = 4
      OBVIOUS
    <2> QED BY <1>1, <1>3, <1>4, <2>1
  <1> QED BY <1>1, <1>5

LEMMA UpToFacts ==
  ASSUME NEW n \in 1..4
  PROVE  /\ UpTo(n) = UpTo(n - 1) \cup Creates(Scripts[n])
         /\ \A k \in n..4 : Scripts[n].others \subseteq UpTo(k)
  <1>1. 1..n = 1..(n - 1) \cup {n}
    OBVIOUS
  <1>2. UpTo(n) = UpTo(n - 1) \cup Creates(Scripts[n])
    BY <1>1 DEF UpTo
  <1>3. ASSUME NEW k \in n..4 PROVE Scripts[n].others \subseteq UpTo(k)
    <2>1. n \in 1..k
      OBVIOUS
    <2>2. Creates(Scripts[n]) \subseteq UpTo(k)
      BY <2>1 DEF UpTo
    <2> QED BY <2>2, ScriptFacts
  <1> QED BY <1>2, <1>3

\* A call that applies its next script finds exactly the scripts before it.
LEMMA AppliesNext ==
  ASSUME SchemaInv, NEW m \in Migrators, migrator[m].next <= Len(Scripts),
         Applies(Scripts[migrator[m].next])
  PROVE  /\ migrator[m].next \in 1..4
         /\ schema = UpTo(migrator[m].next - 1)
         /\ schema \cup Creates(Scripts[migrator[m].next]) = UpTo(migrator[m].next)
         /\ \A o \in Migrators : migrator[o].next <= migrator[m].next
  <1> DEFINE next == migrator[m].next
  <1>1. next \in 1..4
    BY ScriptFacts DEF SchemaInv
  <1>2. PICK n \in 0..4 : schema = UpTo(n) /\ \A o \in Migrators : migrator[o].next <= n + 1
    BY DEF SchemaInv
  <1>3. ~ (n >= next)
    <2> SUFFICES ASSUME n >= next PROVE FALSE
      OBVIOUS
    <2>1. n \in next..4
      BY <1>1
    <2>2. Scripts[next].others \subseteq schema /\ Scripts[next].others # {}
      BY <1>1, <1>2, <2>1, ScriptFacts, UpToFacts
    <2> QED BY <2>2 DEF Applies
  <1>4. n = next - 1
    BY <1>1, <1>2, <1>3
  <1>5. schema = UpTo(next - 1) /\ \A o \in Migrators : migrator[o].next <= next
    BY <1>1, <1>2, <1>4 DEF SchemaInv
  <1>6. schema \cup Creates(Scripts[next]) = UpTo(next)
    BY <1>1, <1>5, UpToFacts
  <1> QED BY <1>1, <1>5, <1>6

LEMMA ApplyKeepsSchema ==
  ASSUME SchemaInv, NEW m \in Migrators, ApplyScript(m)
  PROVE  SchemaInv'
  <1> DEFINE next == migrator[m].next
  <1>1. CASE Applies(Scripts[next])
    <2>1. /\ next \in 1..4 /\ schema = UpTo(next - 1) /\ schema' = UpTo(next)
          /\ \A o \in Migrators : migrator[o].next <= next
      BY <1>1, AppliesNext DEF ApplyScript
    <2>2. /\ migrator' = [migrator EXCEPT ![m].next = next + 1, ![m].applied = @ \cup {next}]
          /\ migrator[m].phase = "running"
      BY <1>1 DEF ApplyScript
    <2>3. /\ migrator'[m].next = next + 1 /\ migrator'[m].phase = "running"
          /\ migrator'[m].applied = 1..next
          /\ \A o \in Migrators : o # m => migrator'[o] = migrator[o]
      <3>1. 1..(next - 1) \cup {next} = 1..next
        BY <2>1
      <3> QED BY <2>2, <3>1 DEF SchemaInv
    <2>4. migrator' \in [Migrators -> [phase : {"idle", "running", "done", "failed"},
                                      next : 1..5, applied : SUBSET (1..4)]]
      BY <2>1, <2>2 DEF SchemaInv
    <2>5. \A o \in Migrators : migrator'[o].next <= next + 1
      BY <2>1, <2>3 DEF SchemaInv
    <2>6. \A o \in Migrators : o # m => migrator[o].next <= 1
      <3> SUFFICES ASSUME NEW o \in Migrators, o # m, migrator[o].next > 1
                   PROVE  FALSE
        BY DEF SchemaInv
      <3>1. next = 1
        BY <2>1 DEF SchemaInv
      <3> QED BY <2>1, <3>1 DEF SchemaInv
    <2>7. \A o \in Migrators :
             /\ migrator'[o].applied = 1..(migrator'[o].next - 1)
             /\ migrator'[o].phase = "done" => migrator'[o].next = 5
      BY <2>1, <2>3 DEF SchemaInv
    <2>8. \A o, p \in Migrators : migrator'[o].next > 1 /\ migrator'[p].next > 1 => o = p
      BY <2>3, <2>6 DEF SchemaInv
    <2> QED BY <2>1, <2>4, <2>5, <2>7, <2>8 DEF SchemaInv
  <1>2. CASE ~Applies(Scripts[next])
    <2>1. /\ migrator' = [migrator EXCEPT ![m].phase = "failed"] /\ schema' = schema
      BY <1>2 DEF ApplyScript
    <2> QED BY <2>1 DEF SchemaInv
  <1> QED BY <1>1, <1>2

LEMMA LoseKeepsSchema ==
  ASSUME SchemaInv, NEW m \in Migrators, LoseDatabase(m)
  PROVE  SchemaInv'
  <1> DEFINE next == migrator[m].next
  <1>1. /\ migrator' = [migrator EXCEPT ![m].phase = "failed"] /\ next <= Len(Scripts)
        /\ \/ schema' = schema
           \/ Applies(Scripts[next]) /\ schema' = schema \cup Creates(Scripts[next])
    BY DEF LoseDatabase
  <1>2. CASE schema' = schema
    BY <1>1, <1>2 DEF SchemaInv
  <1>3. CASE Applies(Scripts[next]) /\ schema' = schema \cup Creates(Scripts[next])
    <2>1. /\ next \in 1..4 /\ schema' = UpTo(next)
          /\ \A o \in Migrators : migrator[o].next <= next
      BY <1>1, <1>3, AppliesNext
    <2>2. \A o \in Migrators : migrator'[o].next <= next + 1
      BY <1>1, <2>1 DEF SchemaInv
    <2> QED BY <1>1, <2>1, <2>2 DEF SchemaInv
  <1> QED BY <1>1, <1>2, <1>3

LEMMA SchemaInvStep ==
  ASSUME SchemaInv, [MigrateNext]_schemaVars
  PROVE  SchemaInv'
  <1>1. ASSUME NEW m \in Migrators, Migrate(m) PROVE SchemaInv'
    BY <1>1 DEF SchemaInv, Migrate
  <1>2. ASSUME NEW m \in Migrators, FinishMigrate(m) PROVE SchemaInv'
    BY <1>2, ScriptFacts DEF SchemaInv, FinishMigrate
  <1>3. CASE UNCHANGED schemaVars
    BY <1>3 DEF SchemaInv, schemaVars
  <1> QED BY <1>1, <1>2, <1>3, ApplyKeepsSchema, LoseKeepsSchema DEF MigrateNext

LEMMA SchemaInvImplies ==
  ASSUME SchemaInv
  PROVE  SchemaIsWhole /\ SchemaTypeOK
  <1>1. PICK n \in 0..4 : schema = UpTo(n) /\ \A m \in Migrators : migrator[m].next <= n + 1
    BY DEF SchemaInv
  <1>2. \E k \in 0..Len(Scripts) : schema = UNION {Creates(Scripts[i]) : i \in 1..k}
    BY <1>1, ScriptFacts DEF UpTo
  <1>3. schema \subseteq UNION {Creates(Scripts[k]) : k \in DOMAIN Scripts}
    BY <1>1, ScriptFacts DEF UpTo
  <1>4. ASSUME NEW m \in Migrators, migrator[m].phase = "done"
        PROVE  /\ \A k \in DOMAIN Scripts : Creates(Scripts[k]) \subseteq schema
               /\ migrator[m].applied = DOMAIN Scripts
    <2>1. migrator[m].next = 5 /\ migrator[m].applied = 1..4
      BY <1>4 DEF SchemaInv
    <2>2. n = 4
      BY <1>1, <2>1
    <2> QED BY <1>1, <2>1, <2>2, ScriptFacts DEF UpTo
  <1>5. \A m, o \in Migrators : migrator[m].applied # {} /\ migrator[o].applied # {} => m = o
    BY DEF SchemaInv
  <1>6. SchemaIsWhole
    BY <1>2, <1>4, <1>5 DEF SchemaIsWhole
  <1>7. SchemaTypeOK
    BY <1>3, ScriptFacts DEF SchemaInv, SchemaTypeOK
  <1> QED BY <1>6, <1>7

LEMMA SchemaIsAlwaysWhole == SchemaSpec => []SchemaIsWhole /\ []SchemaTypeOK
  <1>1. SchemaInit => SchemaInv
    <2> SUFFICES ASSUME SchemaInit PROVE SchemaInv
      OBVIOUS
    <2>1. schema = UpTo(0)
      BY DEF SchemaInit, UpTo
    <2> QED BY <2>1 DEF SchemaInit, SchemaInv
  <1>2. SchemaInv /\ [MigrateNext]_schemaVars => SchemaInv'
    BY SchemaInvStep
  <1>3. SchemaInv => SchemaIsWhole /\ SchemaTypeOK
    BY SchemaInvImplies
  <1> QED BY <1>1, <1>2, <1>3, PTL DEF SchemaSpec

\* What a long call returns is whole: "all providers failed" only of a discovery that
\* found nothing (cloud/provider.go:192), a response of policies for each that was
\* enabled when the call began, and a migration that succeeds has left the whole
\* schema, made by itself (store/postgres/db.go:62).
THEOREM LongCallsStayWhole == RegistrySpec /\ SchemaSpec => []LongCallsAreWhole
  <1>1. ResponsesAreWhole /\ SchemaIsWhole => LongCallsAreWhole
    BY DEF LongCallsAreWhole
  <1> QED BY <1>1, RegistryIsWhole, SchemaIsAlwaysWhole, PTL

-----------------------------------------------------------------------------
(* Drift events *)

Details == [severity : Severities, resolved : BOOLEAN, resolution : Clients \cup {Nil}, diff : Ids]

EventRows ==
    [severity : Severities, status : {"open", "resolved", "ignored"}, resolved : BOOLEAN,
     resolution : Clients \cup {Nil}, diff : Ids]

\* Every row says what it is and keeps its diff, whoever wrote it, and so does
\* every copy that may be written back.
StoreInv ==
    /\ IsFiniteSet(DOMAIN events) /\ DOMAIN events \subseteq Ids
    /\ \A id \in DOMAIN events :
          /\ events[id] \in EventRows /\ events[id].diff = id
          /\ events[id].status = "open" <=> ~events[id].resolved
    /\ detectedAt \in [DOMAIN events -> Times]
    /\ copy = [c \in Clients |-> copy[c]]
    /\ \A c \in Clients : copy[c] # Nil =>
          /\ copy[c].id \in DOMAIN events
          /\ copy[c].event \in Details /\ copy[c].event.diff = copy[c].id
    /\ writes \in Nat

\* One row was written, and nothing else in the table.
Written(id, row) ==
    /\ id \in DOMAIN events /\ DOMAIN events' = DOMAIN events
    /\ \A other \in DOMAIN events : events'[other] = IF other = id THEN row ELSE events[other]

LEMMA RowIsRow ==
  ASSUME NEW event \in Details
  PROVE  /\ Row(event) \in EventRows /\ Row(event).diff = event.diff
         /\ Row(event).status = (IF event.resolved THEN "resolved" ELSE "open")
         /\ Row(event).resolved = event.resolved /\ Row(event).resolution = event.resolution
  BY DEF Row, StatusOf, Details, EventRows

LEMMA ChangedFacts ==
  ASSUME StoreInv, NEW c \in Clients, NEW severity \in Severities, NEW closes \in BOOLEAN,
         Update(c, severity, closes)
  PROVE  /\ copy[c].id \in DOMAIN events
         /\ Changed(c, severity, closes) \in Details
         /\ Changed(c, severity, closes).diff = copy[c].id
         /\ \/ /\ Changed(c, severity, closes).resolved = copy[c].event.resolved
               /\ Changed(c, severity, closes).resolution = copy[c].event.resolution
            \/ /\ Changed(c, severity, closes).resolved = TRUE
               /\ Changed(c, severity, closes).resolution = c
  <1> DEFINE event == Changed(c, severity, closes)
             sorted == [copy[c].event EXCEPT !.severity = severity]
  <1>1. /\ copy[c].event \in Details /\ copy[c].id \in DOMAIN events
        /\ copy[c].event.diff = copy[c].id
    BY DEF StoreInv, Update
  <1>2. /\ sorted \in Details /\ sorted.diff = copy[c].event.diff
        /\ sorted.resolved = copy[c].event.resolved /\ sorted.resolution = copy[c].event.resolution
    BY <1>1 DEF Details
  <1>3. event = IF closes THEN [sorted EXCEPT !.resolved = TRUE, !.resolution = c] ELSE sorted
    BY DEF Changed
  <1> HIDE DEF sorted, event
  <1>4. /\ event \in Details /\ event.diff = copy[c].id
        /\ \/ /\ event.resolved = copy[c].event.resolved
              /\ event.resolution = copy[c].event.resolution
           \/ event.resolved = TRUE /\ event.resolution = c
    <2>1. CASE closes
      BY <2>1, <1>1, <1>2, <1>3 DEF Details
    <2>2. CASE ~closes
      BY <2>2, <1>1, <1>2, <1>3
    <2> QED BY <2>1, <2>2
  <1> QED BY <1>1, <1>4 DEF event

LEMMA UpdateWrites ==
  ASSUME StoreInv, NEW c \in Clients, NEW severity \in Severities, NEW closes \in BOOLEAN,
         Update(c, severity, closes)
  PROVE  \E row \in EventRows :
            /\ Written(copy[c].id, row) /\ row.diff = copy[c].id
            /\ row.status = (IF row.resolved THEN "resolved" ELSE "open")
            /\ \/ /\ row.resolved = copy[c].event.resolved
                  /\ row.resolution = copy[c].event.resolution
               \/ row.resolved = TRUE /\ row.resolution = c
  <1> DEFINE event == Changed(c, severity, closes)
             row == Row(event)
  <1>1. /\ copy[c].id \in DOMAIN events
        /\ event \in Details /\ event.diff = copy[c].id
        /\ \/ /\ event.resolved = copy[c].event.resolved
              /\ event.resolution = copy[c].event.resolution
           \/ event.resolved = TRUE /\ event.resolution = c
    BY ChangedFacts
  <1>2. events' = [events EXCEPT ![copy[c].id] = row]
    BY DEF Update
  <1> HIDE DEF event
  <1>3. /\ row \in EventRows /\ row.diff = event.diff
        /\ row.status = (IF event.resolved THEN "resolved" ELSE "open")
        /\ row.resolved = event.resolved /\ row.resolution = event.resolution
    BY <1>1, RowIsRow
  <1> HIDE DEF row
  <1>4. Written(copy[c].id, row)
    BY <1>1, <1>2 DEF Written
  <1> QED BY <1>1, <1>3, <1>4

LEMMA UpdateGivesStatus ==
  ASSUME StoreInv, NEW c \in Clients, NEW severity \in Severities, NEW closes \in BOOLEAN,
         Update(c, severity, closes)
  PROVE  \E row \in EventRows :
            /\ Written(copy[c].id, row)
            /\ row.status = StatusOf(Changed(c, severity, closes))
  <1> DEFINE event == Changed(c, severity, closes)
             row == Row(event)
  <1>1. copy[c].id \in DOMAIN events /\ event \in Details
    BY ChangedFacts
  <1>2. events' = [events EXCEPT ![copy[c].id] = row]
    BY DEF Update
  <1> HIDE DEF event
  <1>3. row \in EventRows /\ row.status = StatusOf(event)
    BY <1>1, RowIsRow DEF StatusOf
  <1> HIDE DEF row
  <1>4. Written(copy[c].id, row)
    BY <1>1, <1>2 DEF Written
  <1> QED BY <1>3, <1>4 DEF event

Closes(c, id) == \E status \in {"resolved", "ignored"} : SetTerminalStatus(c, id, status)

LEMMA ClosesWrites ==
  ASSUME StoreInv, NEW c \in Clients, NEW id \in Ids, Closes(c, id)
  PROVE  \E row \in EventRows :
            /\ Written(id, row) /\ row.diff = id /\ row.status # "open" /\ row.resolved = TRUE
            /\ row.resolution = c /\ Leaves(id, row.status)
  <1>1. PICK status \in {"resolved", "ignored"} : SetTerminalStatus(c, id, status)
    BY DEF Closes
  <1> DEFINE row == [events[id] EXCEPT !.status = status, !.resolved = TRUE, !.resolution = c]
  <1>2. id \in DOMAIN events /\ events[id] \in EventRows /\ events[id].diff = id
    BY <1>1 DEF StoreInv, SetTerminalStatus
  <1>3. /\ row \in EventRows /\ row.diff = id /\ row.status # "open" /\ row.resolved = TRUE
        /\ row.resolution = c
    BY <1>2 DEF EventRows
  <1>4. \A other \in DOMAIN events : events'[other] = IF other = id THEN row ELSE events[other]
    BY <1>1, <1>2 DEF SetTerminalStatus
  <1>5. DOMAIN events' = DOMAIN events
    BY <1>1 DEF SetTerminalStatus
  <1>6. row.status = status /\ Leaves(id, status)
    BY <1>1, <1>2 DEF SetTerminalStatus, EventRows
  <1> HIDE DEF row
  <1>7. Leaves(id, row.status) /\ Written(id, row)
    BY <1>2, <1>4, <1>5, <1>6 DEF Written
  <1> QED BY <1>3, <1>7

LEMMA CreateKeepsStore ==
  ASSUME StoreInv, NEW id \in Ids, NEW severity \in Severities, NEW resolved \in BOOLEAN,
         NEW at \in Times, Create(id, severity, resolved, at)
  PROVE  StoreInv'
  <1> DEFINE row == Row(Event(severity, resolved, Nil, id))
  <1>1. Event(severity, resolved, Nil, id) \in Details /\ Event(severity, resolved, Nil, id).diff = id
    BY DEF Event, Details
  <1>2. /\ row \in EventRows /\ row.diff = id
        /\ row.status = "open" <=> ~row.resolved
    BY <1>1, RowIsRow
  <1>3. events' = Put(events, id, row)
    BY DEF Create
  <1> HIDE DEF row
  <1>4. /\ DOMAIN events' = DOMAIN events \cup {id} /\ id \notin DOMAIN events
        /\ \A other \in DOMAIN events' : events'[other] = IF other = id THEN row ELSE events[other]
    BY <1>3 DEF Put, Create
  <1>5. IsFiniteSet(DOMAIN events') /\ DOMAIN events' \subseteq Ids
    BY <1>4, FS_AddElement DEF StoreInv
  <1>6. copy' = copy /\ writes' = writes /\ detectedAt' = Put(detectedAt, id, at)
    BY DEF Create
  <1>8. detectedAt' \in [DOMAIN events' -> Times]
    BY <1>4, <1>6 DEF Put, StoreInv
  <1>7. \A other \in DOMAIN events' :
          /\ events'[other] \in EventRows /\ events'[other].diff = other
          /\ events'[other].status = "open" <=> ~events'[other].resolved
    BY <1>2, <1>4 DEF StoreInv
  <1> QED BY <1>4, <1>5, <1>6, <1>7, <1>8 DEF StoreInv

LEMMA GetKeepsStore ==
  ASSUME StoreInv, NEW c \in Clients, NEW id \in Ids, Get(c, id)
  PROVE  StoreInv'
  <1> DEFINE event == ScanRow(events[id])
  <1>1. id \in DOMAIN events /\ events[id] \in EventRows /\ events[id].diff = id
    BY DEF StoreInv, Get
  <1>2. event \in Details /\ event.diff = id
    BY <1>1 DEF ScanRow, Event, EventRows, Details
  <1>3. copy' = [copy EXCEPT ![c] = [id |-> id, event |-> event]] /\ UNCHANGED <<events, detectedAt, writes>>
    BY DEF Get
  <1> HIDE DEF event
  <1> QED BY <1>1, <1>2, <1>3 DEF StoreInv

LEMMA WriteKeepsStore ==
  ASSUME StoreInv, NEW id, NEW row \in EventRows, Written(id, row), row.diff = id,
         row.status = "open" <=> ~row.resolved, writes' = writes + 1,
         detectedAt' = detectedAt,
         \/ copy' = copy
         \/ \E c \in Clients : copy' = [copy EXCEPT ![c] = Nil]
  PROVE  StoreInv'
  <1>1. /\ copy' = [c \in Clients |-> copy'[c]]
        /\ \A c \in Clients : copy'[c] # Nil => copy'[c] = copy[c]
    BY DEF StoreInv
  <1>2. \A other \in DOMAIN events' :
          /\ events'[other] \in EventRows /\ events'[other].diff = other
          /\ events'[other].status = "open" <=> ~events'[other].resolved
    BY DEF StoreInv, Written
  <1>3. IsFiniteSet(DOMAIN events') /\ DOMAIN events' = DOMAIN events
    BY DEF StoreInv, Written
  <1> QED BY <1>1, <1>2, <1>3 DEF StoreInv

LEMMA StoreInvStep ==
  ASSUME StoreInv, [EventsNext]_eventVars
  PROVE  StoreInv'
  <1>1. ASSUME NEW c \in Clients, NEW severity \in Severities, NEW closes \in BOOLEAN,
               Update(c, severity, closes)
        PROVE  StoreInv'
    <2>1. PICK row \in EventRows :
            /\ Written(copy[c].id, row) /\ row.diff = copy[c].id
            /\ row.status = (IF row.resolved THEN "resolved" ELSE "open")
      BY <1>1, UpdateWrites
    <2>2. writes' = writes + 1 /\ copy' = [copy EXCEPT ![c] = Nil] /\ detectedAt' = detectedAt
      BY <1>1 DEF Update
    <2>3. row.status = "open" <=> ~row.resolved
      BY <2>1
    <2> QED BY <2>1, <2>2, <2>3, WriteKeepsStore
  <1>2. ASSUME NEW c \in Clients, NEW id \in Ids, Closes(c, id) PROVE StoreInv'
    <2>1. PICK row \in EventRows :
            /\ Written(id, row) /\ row.diff = id /\ row.status # "open" /\ row.resolved = TRUE
            /\ row.resolution = c
      BY <1>2, ClosesWrites
    <2>2. writes' = writes + 1 /\ copy' = copy /\ detectedAt' = detectedAt
      BY <1>2 DEF Closes, SetTerminalStatus
    <2>3. row.status = "open" <=> ~row.resolved
      BY <2>1
    <2> QED BY <2>1, <2>2, <2>3, WriteKeepsStore
  <1>3. ASSUME NEW filter, CountEvents(filter) PROVE StoreInv'
    BY <1>3 DEF StoreInv, CountEvents
  <1>4. CASE SelectEvents
    BY <1>4 DEF StoreInv, SelectEvents
  <1>5. CASE UNCHANGED eventVars
    BY <1>5 DEF StoreInv, eventVars
  <1> QED BY <1>1, <1>2, <1>3, <1>4, <1>5, CreateKeepsStore, GetKeepsStore DEF EventsNext, Closes

LEMMA StoreInvInit ==
  ASSUME EventsInit
  PROVE  StoreInv
  <1>1. DOMAIN events = {} /\ copy = [c \in Clients |-> Nil] /\ writes = 0
    BY DEF EventsInit, EmptyMap
  <1>2. detectedAt \in [DOMAIN events -> Times]
    BY <1>1 DEF EventsInit, EmptyMap
  <1> QED BY <1>1, <1>2, FS_EmptySet DEF StoreInv

\* c wrote its copy of the event back.
Had(c, id) == copy[c] # Nil /\ copy[c].id = id /\ copy'[c] = Nil

Undone(id) ==
    /\ (events[id].status # "open" /\ events'[id].status = "open") =>
          \E c \in Clients : Had(c, id) /\ ~copy[c].event.resolved
    /\ (events[id].resolution # Nil /\ events'[id].resolution # events[id].resolution) =>
          \/ events'[id].resolution # Nil
          \/ \E c \in Clients : Had(c, id) /\ copy[c].event.resolution = Nil
    /\ (events[id].status = "ignored" /\ events'[id].status = "resolved") =>
          \/ copy' = copy
          \/ \E c \in Clients :
                Had(c, id) /\ (copy[c].event.resolved \/ events'[id].resolution = c)

LEMMA SticksStep ==
  ASSUME StoreInv, [EventsNext]_eventVars
  PROVE  \A id \in DOMAIN events : Undone(id)
  <1>1. ASSUME NEW c \in Clients, NEW severity \in Severities, NEW closes \in BOOLEAN,
               Update(c, severity, closes), NEW id \in DOMAIN events
        PROVE  Undone(id)
    <2>1. PICK row \in EventRows :
            /\ Written(copy[c].id, row) /\ row.diff = copy[c].id
            /\ row.status = (IF row.resolved THEN "resolved" ELSE "open")
            /\ \/ /\ row.resolved = copy[c].event.resolved
                  /\ row.resolution = copy[c].event.resolution
               \/ row.resolved = TRUE /\ row.resolution = c
      BY <1>1, UpdateWrites
    <2>2. copy[c] # Nil /\ copy'[c] = Nil /\ copy[c].event.resolved \in BOOLEAN
      BY <1>1 DEF Update, StoreInv, Details
    <2>3. CASE id = copy[c].id
      <3>1. events'[id] = row /\ Had(c, id)
        BY <2>1, <2>2, <2>3 DEF Written, Had
      <3>2. row.status = "open" => ~copy[c].event.resolved
        BY <2>1
      <3>3. row.resolution # Nil \/ copy[c].event.resolution = Nil
        BY <2>1, ClientsAssumption
      <3>4. row.status = "resolved" => copy[c].event.resolved \/ row.resolution = c
        BY <2>1
      <3> QED BY <3>1, <3>2, <3>3, <3>4 DEF Undone
    <2>4. CASE id # copy[c].id
      <3>1. events'[id] = events[id]
        BY <2>1, <2>4 DEF Written
      <3> QED BY <3>1 DEF Undone
    <2> QED BY <2>3, <2>4
  <1>2. ASSUME NEW c \in Clients, NEW other \in Ids, Closes(c, other), NEW id \in DOMAIN events
        PROVE  Undone(id)
    <2>1. PICK row \in EventRows :
            /\ Written(other, row) /\ row.diff = other /\ row.status # "open" /\ row.resolved = TRUE
            /\ row.resolution = c
      BY <1>2, ClosesWrites
    <2>2. copy' = copy
      BY <1>2 DEF Closes, SetTerminalStatus
    <2>3. CASE id = other
      <3>1. events'[id].status # "open" /\ events'[id].resolution = c
        BY <2>1, <2>3 DEF Written
      <3> QED BY <3>1, <2>2, ClientsAssumption DEF Undone
    <2>4. CASE id # other
      <3>1. events'[id] = events[id]
        BY <2>1, <2>4 DEF Written
      <3> QED BY <3>1 DEF Undone
    <2> QED BY <2>3, <2>4
  <1>3. ASSUME NEW new \in Ids, NEW severity \in Severities, NEW resolved \in BOOLEAN,
               NEW at \in Times, Create(new, severity, resolved, at), NEW id \in DOMAIN events
        PROVE  Undone(id)
    <2>1. events'[id] = events[id]
      BY <1>3 DEF Create, Put
    <2> QED BY <2>1 DEF Undone
  <1>4. ASSUME events' = events PROVE \A id \in DOMAIN events : Undone(id)
    BY <1>4 DEF Undone
  <1> QED BY <1>1, <1>2, <1>3, <1>4 
     DEF EventsNext, Closes, Get, CountEvents, SelectEvents, eventVars

\* A decision is undone by a write from a copy that is older than it, and by
\* nothing else: Resolve and Ignore close, and Update writes what its client read
\* (postgres/drift.go:135, 206).
THEOREM DecisionsAlwaysStick == EventsSpec => DecisionsStick
  <1>1. EventsInit => StoreInv
    BY StoreInvInit
  <1>2. StoreInv /\ [EventsNext]_eventVars => StoreInv'
    BY StoreInvStep
  <1> DEFINE Sticks == \A id \in DOMAIN events : Undone(id)
  <1>3. StoreInv /\ [EventsNext]_eventVars => [Sticks]_events
    BY SticksStep
  <1>4. [][Sticks]_events => DecisionsStick
    BY DEF DecisionsStick, Undone, Had
  <1> HIDE DEF Sticks
  <1> QED BY <1>1, <1>2, <1>3, <1>4, PTL DEF EventsSpec

\* The open events of some severities.
OpenOf(S) == {id \in GetUnresolved : events[id].severity \in S}

Picked(S) == CHOOSE s \in S : TRUE

IsTotal(f, summary) ==
    f = [S \in SUBSET Severities |->
            IF S = {} THEN 0 ELSE summary[Picked(S)] + f[S \ {Picked(S)}]]

LEMMA UnresolvedFacts ==
  ASSUME StoreInv
  PROVE  /\ IsFiniteSet(GetUnresolved) /\ GetUnresolved \subseteq DOMAIN events
         /\ OpenOf(Severities) = GetUnresolved
         /\ \A S : IsFiniteSet(OpenOf(S)) /\ Cardinality(OpenOf(S)) \in Nat
  <1>1. GetUnresolved \in SUBSET DOMAIN events
    BY DEF GetUnresolved, Selected
  <1>2. IsFiniteSet(GetUnresolved)
    BY <1>1, FS_Subset DEF StoreInv
  <1>3. \A S : OpenOf(S) \in SUBSET GetUnresolved
    BY DEF OpenOf
  <1>4. \A S : IsFiniteSet(OpenOf(S)) /\ Cardinality(OpenOf(S)) \in Nat
    BY <1>2, <1>3, FS_Subset, FS_CardinalityType
  <1>5. OpenOf(Severities) = GetUnresolved
    BY <1>1 DEF OpenOf, StoreInv, EventRows
  <1> QED BY <1>1, <1>2, <1>4, <1>5

LEMMA OpenOfOneMore ==
  ASSUME StoreInv, NEW S \in SUBSET Severities, NEW s \in S
  PROVE  Cardinality(OpenOf(S)) = GetSummary[s] + Cardinality(OpenOf(S \ {s}))
  <1> DEFINE A == OpenOf({s})
             B == OpenOf(S \ {s})
  <1>1. A \cup B = OpenOf(S) /\ A \cap B = {}
    BY DEF OpenOf
  <1>2. /\ IsFiniteSet(A) /\ IsFiniteSet(B) /\ Cardinality(A) \in Nat /\ Cardinality(B) \in Nat
    BY UnresolvedFacts
  <1>3. A = {id \in GetUnresolved : events[id].severity = s}
    BY DEF OpenOf
  <1>4. GetSummary[s] = Cardinality(A)
    <2> DEFINE count(t) == Cardinality({id \in GetUnresolved : events[id].severity = t})
    <2>1. GetSummary = [severity \in Severities |-> count(severity)]
      BY DEF GetSummary
    <2>2. count(s) = Cardinality(A)
      BY <1>3
    <2> HIDE DEF count, A
    <2> QED BY <2>1, <2>2
  <1> HIDE DEF A, B
  <1>5. Cardinality(A \cup B) = Cardinality(A) + Cardinality(B) - Cardinality(A \cap B)
    BY <1>2, FS_Union
  <1>6. Cardinality(A \cap B) = 0
    BY <1>1, FS_EmptySet
  <1>7. Cardinality(OpenOf(S)) = Cardinality(A \cup B)
    BY <1>1
  <1>8. Cardinality(OpenOf(S)) = GetSummary[s] + Cardinality(B)
    BY <1>2, <1>4, <1>5, <1>6, <1>7
  <1> QED BY <1>8 DEF B

LEMMA TotalExists ==
  ASSUME StoreInv
  PROVE  IsTotal([S \in SUBSET Severities |-> Cardinality(OpenOf(S))], GetSummary)
  <1> DEFINE f == [S \in SUBSET Severities |-> Cardinality(OpenOf(S))]
             g == [S \in SUBSET Severities |->
                      IF S = {} THEN 0 ELSE GetSummary[Picked(S)] + f[S \ {Picked(S)}]]
  <1>1. ASSUME NEW S \in SUBSET Severities PROVE f[S] = g[S]
    <2>1. CASE S = {}
      <3>1. OpenOf({}) = {}
        BY DEF OpenOf
      <3> QED BY <2>1, <3>1, FS_EmptySet
    <2>2. CASE S # {}
      <3>1. Picked(S) \in S
        BY <2>2 DEF Picked
      <3>2. Cardinality(OpenOf(S)) = GetSummary[Picked(S)] + Cardinality(OpenOf(S \ {Picked(S)}))
        BY <3>1, OpenOfOneMore
      <3>3. S \ {Picked(S)} \in SUBSET Severities
        OBVIOUS
      <3> QED BY <2>2, <3>2, <3>3
    <2> QED BY <2>1, <2>2
  <1>2. f = g
    <2>1. f = [S \in SUBSET Severities |-> f[S]] /\ g = [S \in SUBSET Severities |-> g[S]]
      OBVIOUS
    <2> HIDE DEF f, g
    <2> QED BY <1>1, <2>1
  <1> HIDE DEF f
  <1>3. IsTotal(f, GetSummary)
    BY <1>2 DEF IsTotal
  <1> QED BY <1>3 DEF f

LEMMA TotalUnique ==
  ASSUME StoreInv, NEW f, IsTotal(f, GetSummary)
  PROVE  f[Severities] = Cardinality(OpenOf(Severities))
  <1> DEFINE Right == {n \in Nat : \A S \in SUBSET Severities :
                          Cardinality(S) = n => f[S] = Cardinality(OpenOf(S))}
  <1>1. \A S \in SUBSET Severities : IsFiniteSet(S) /\ Cardinality(S) \in Nat
    BY SeveritiesAssumption, FS_Subset, FS_CardinalityType
  <1>2. \A S \in SUBSET Severities :
           f[S] = IF S = {} THEN 0 ELSE GetSummary[Picked(S)] + f[S \ {Picked(S)}]
    BY DEF IsTotal
  <1>3. 0 \in Right
    <2> SUFFICES ASSUME NEW S \in SUBSET Severities, Cardinality(S) = 0
                 PROVE  f[S] = Cardinality(OpenOf(S))
      OBVIOUS
    <2>1. S = {}
      BY <1>1, FS_EmptySet
    <2>2. OpenOf({}) = {}
      BY DEF OpenOf
    <2> QED BY <2>1, <2>2, <1>2, FS_EmptySet
  <1>4. ASSUME NEW n \in Nat, n \in Right PROVE n + 1 \in Right
    <2> SUFFICES ASSUME NEW S \in SUBSET Severities, Cardinality(S) = n + 1
                 PROVE  f[S] = Cardinality(OpenOf(S))
      OBVIOUS
    <2>1. S # {}
      BY FS_EmptySet
    <2>2. Picked(S) \in S
      BY <2>1 DEF Picked
    <2>3. S \ {Picked(S)} \in SUBSET Severities /\ Cardinality(S \ {Picked(S)}) = n
      BY <2>2, <1>1, FS_RemoveElement
    <2>4. f[S \ {Picked(S)}] = Cardinality(OpenOf(S \ {Picked(S)}))
      BY <2>3, <1>4
    <2>5. Cardinality(OpenOf(S)) = GetSummary[Picked(S)] + Cardinality(OpenOf(S \ {Picked(S)}))
      BY <2>2, OpenOfOneMore
    <2> QED BY <2>1, <2>4, <2>5, <1>2
  <1>5. \A n \in Nat : n \in Right
    <2> HIDE DEF Right
    <2> QED BY <1>3, <1>4, NaturalInduction
  <1> QED BY <1>1, <1>5

LEMMA SummaryAddsUp ==
  ASSUME StoreInv
  PROVE  SummaryTotal(GetSummary) = Cardinality(GetUnresolved)
  <1> DEFINE total == CHOOSE f : IsTotal(f, GetSummary)
  <1>1. SummaryTotal(GetSummary) = total[Severities]
    BY DEF SummaryTotal, IsTotal, Picked
  <1>2. IsTotal(total, GetSummary)
    BY TotalExists
  <1> HIDE DEF total
  <1>3. total[Severities] = Cardinality(OpenOf(Severities))
    BY <1>2, TotalUnique
  <1> QED BY <1>1, <1>3, UnresolvedFacts

LEMMA StoreInvImplies ==
  ASSUME StoreInv
  PROVE  OpenIsUnresolved
  BY SummaryAddsUp DEF StoreInv, OpenIsUnresolved

\* U goes from some time to the newest of Sel, with all that have one time.
IsTop(U, Sel, time) ==
    U \subseteq Sel /\ \A x \in U, y \in Sel : time[y] >= time[x] => y \in U

\* Of each top of what is selected, the reader that has k rows has passed what it no
\* longer seeks, or has at most l left to miss.
Covered(Sel, M, time, k, l) ==
    \A U : IsTop(U, Sel, time) => Cardinality(U \cap M) <= l \/ k <= Cardinality(U \ M) + l

LEMMA CountParts ==
  ASSUME NEW U, IsFiniteSet(U), NEW M
  PROVE  /\ Cardinality(U) \in Nat /\ Cardinality(U \cap M) \in Nat /\ Cardinality(U \ M) \in Nat
         /\ Cardinality(U) = Cardinality(U \cap M) + Cardinality(U \ M)
  <1> DEFINE A == U \cap M
             B == U \ M
  <1>1. A \in SUBSET U /\ B \in SUBSET U /\ A \cup B = U /\ A \cap B = {}
    OBVIOUS
  <1>2. /\ IsFiniteSet(A) /\ IsFiniteSet(B)
        /\ Cardinality(A) \in Nat /\ Cardinality(B) \in Nat /\ Cardinality(U) \in Nat
    BY <1>1, FS_Subset, FS_CardinalityType
  <1> HIDE DEF A, B
  <1>3. Cardinality(A \cup B) = Cardinality(A) + Cardinality(B) - Cardinality(A \cap B)
    BY <1>2, FS_Union
  <1>4. Cardinality(A \cap B) = 0 /\ Cardinality(A \cup B) = Cardinality(U)
    BY <1>1, FS_EmptySet
  <1>5. Cardinality(U) = Cardinality(A) + Cardinality(B)
    BY <1>2, <1>3, <1>4
  <1> QED BY <1>2, <1>5 DEF A, B

LEMMA CountFewer ==
  ASSUME NEW U, NEW V, IsFiniteSet(U), V \subseteq U
  PROVE  /\ IsFiniteSet(V) /\ Cardinality(V) \in Nat /\ Cardinality(U) \in Nat
         /\ Cardinality(V) <= Cardinality(U)
  <1>1. V \in SUBSET U
    OBVIOUS
  <1> QED BY <1>1, FS_Subset, FS_CardinalityType

LEMMA CoveredEnd ==
  ASSUME NEW Sel, IsFiniteSet(Sel), NEW M, M \subseteq Sel, NEW time, NEW k \in Nat, NEW l \in Nat,
         Covered(Sel, M, time, k, l), Cardinality(Sel) <= k
  PROVE  Cardinality(M) <= l
  <1>1. IsTop(Sel, Sel, time)
    BY DEF IsTop
  <1>2. Cardinality(Sel \cap M) <= l \/ k <= Cardinality(Sel \ M) + l
    BY <1>1 DEF Covered
  <1>3. /\ Cardinality(Sel) \in Nat /\ Cardinality(Sel \cap M) \in Nat /\ Cardinality(Sel \ M) \in Nat
        /\ Cardinality(Sel) = Cardinality(Sel \cap M) + Cardinality(Sel \ M)
    BY CountParts
  <1>4. Cardinality(Sel \cap M) <= l
    BY <1>2, <1>3
  <1>5. Sel \cap M = M
    OBVIOUS
  <1> QED BY <1>4, <1>5

\* The reader seeks less.
LEMMA CoveredFewer ==
  ASSUME NEW Sel, IsFiniteSet(Sel), NEW M, NEW N, N \subseteq M, NEW time,
         NEW k \in Nat, NEW l \in Nat, Covered(Sel, M, time, k, l)
  PROVE  Covered(Sel, N, time, k, l)
  <1> SUFFICES ASSUME NEW U, IsTop(U, Sel, time)
               PROVE  Cardinality(U \cap N) <= l \/ k <= Cardinality(U \ N) + l
    BY DEF Covered
  <1>1. Cardinality(U \cap M) <= l \/ k <= Cardinality(U \ M) + l
    BY DEF Covered
  <1>2. IsFiniteSet(U)
    BY CountFewer DEF IsTop
  <1>3. IsFiniteSet(U \cap M) /\ IsFiniteSet(U \ N)
    BY <1>2, CountFewer
  <1>4. U \cap N \subseteq U \cap M /\ U \ M \subseteq U \ N
    OBVIOUS
  <1>5. /\ Cardinality(U \cap N) <= Cardinality(U \cap M)
        /\ Cardinality(U \cap N) \in Nat /\ Cardinality(U \cap M) \in Nat
    BY <1>3, <1>4, CountFewer
  <1>6. /\ Cardinality(U \ M) <= Cardinality(U \ N)
        /\ Cardinality(U \ M) \in Nat /\ Cardinality(U \ N) \in Nat
    BY <1>3, <1>4, CountFewer
  <1> QED BY <1>1, <1>5, <1>6

\* More is selected that the reader does not seek, whatever its time.
LEMMA CoveredEnter ==
  ASSUME NEW Sel, NEW Wider, IsFiniteSet(Wider), Sel \subseteq Wider, NEW M, M \subseteq Sel,
         NEW time, NEW later, \A x \in Sel : later[x] = time[x],
         NEW k \in Nat, NEW l \in Nat, Covered(Sel, M, time, k, l)
  PROVE  Covered(Wider, M, later, k, l)
  <1> SUFFICES ASSUME NEW U, IsTop(U, Wider, later)
               PROVE  Cardinality(U \cap M) <= l \/ k <= Cardinality(U \ M) + l
    BY DEF Covered
  <1> DEFINE V == U \cap Sel
  <1>1. IsTop(V, Sel, time)
    <2> SUFFICES ASSUME NEW x \in V, NEW z \in Sel, time[z] >= time[x] PROVE z \in V
      BY DEF IsTop
    <2>1. later[z] >= later[x]
      OBVIOUS
    <2> QED BY <2>1 DEF IsTop
  <1>2. Cardinality(V \cap M) <= l \/ k <= Cardinality(V \ M) + l
    BY <1>1 DEF Covered
  <1>3. V \cap M = U \cap M
    OBVIOUS
  <1>4. IsFiniteSet(U \ M) /\ V \ M \subseteq U \ M
    <2>1. IsFiniteSet(U)
      BY CountFewer DEF IsTop
    <2> QED BY <2>1, CountFewer
  <1> HIDE DEF V
  <1>5. /\ Cardinality(V \ M) <= Cardinality(U \ M)
        /\ Cardinality(V \ M) \in Nat /\ Cardinality(U \ M) \in Nat
    BY <1>4, CountFewer
  <1>6. Cardinality(V \cap M) = Cardinality(U \cap M)
    BY <1>3
  <1> QED BY <1>2, <1>5, <1>6

LEMMA CoveredLeave ==
  ASSUME NEW Sel, IsFiniteSet(Sel), NEW M, NEW time, \A x \in Sel : time[x] \in Nat,
         NEW k \in Nat, NEW l \in Nat, NEW y \in Sel, Covered(Sel, M, time, k, l)
  PROVE  Covered(Sel \ {y}, M \ {y}, time, k, l + 1)
  <1> SUFFICES ASSUME NEW U, IsTop(U, Sel \ {y}, time)
               PROVE  Cardinality(U \cap (M \ {y})) <= l + 1 \/ k <= Cardinality(U \ (M \ {y})) + (l + 1)
    BY DEF Covered
  <1>1. U \subseteq Sel \ {y} /\ U \cap (M \ {y}) = U \cap M /\ U \ (M \ {y}) = U \ M
    BY DEF IsTop
  <1>2. IsFiniteSet(U)
    BY <1>1, CountFewer
  <1>3. Cardinality(U \cap M) <= l + 1 \/ k <= Cardinality(U \ M) + (l + 1)
    <2>1. CASE IsTop(U, Sel, time)
      <3>1. Cardinality(U \cap M) <= l \/ k <= Cardinality(U \ M) + l
        BY <2>1 DEF Covered
      <3>2. /\ Cardinality(U) \in Nat /\ Cardinality(U \cap M) \in Nat /\ Cardinality(U \ M) \in Nat
            /\ Cardinality(U) = Cardinality(U \cap M) + Cardinality(U \ M)
        BY <1>2, CountParts
      <3> QED BY <3>1, <3>2
    <2>2. CASE ~IsTop(U, Sel, time)
      <3> DEFINE V == U \cup {y}
      <3>1. IsTop(V, Sel, time)
        <4>1. PICK x \in U : time[y] >= time[x]
          BY <2>2, <1>1 DEF IsTop
        <4>2. ASSUME NEW v \in V, NEW z \in Sel, time[z] >= time[v] PROVE z \in V
          <5>1. time[x] \in Nat /\ time[y] \in Nat /\ time[z] \in Nat
            BY <1>1
          <5>2. \E u \in U : time[z] >= time[u]
            BY <4>1, <4>2, <5>1
          <5> QED BY <5>2, <1>1 DEF IsTop
        <4> QED BY <4>2, <1>1 DEF IsTop
      <3>2. Cardinality(V \cap M) <= l \/ k <= Cardinality(V \ M) + l
        BY <3>1 DEF Covered
      <3>3. /\ IsFiniteSet(V \cap M) /\ IsFiniteSet(V \ M) /\ IsFiniteSet(U \ M)
            /\ U \cap M \subseteq V \cap M /\ V \ M \subseteq (U \ M) \cup {y}
        BY <3>1, CountFewer DEF IsTop
      <3> HIDE DEF V
      <3>4. /\ Cardinality(U \cap M) <= Cardinality(V \cap M) /\ Cardinality(U \cap M) \in Nat
            /\ Cardinality(V \cap M) \in Nat
        BY <3>3, CountFewer
      <3>5. /\ IsFiniteSet((U \ M) \cup {y}) /\ Cardinality(U \ M) \in Nat
            /\ Cardinality((U \ M) \cup {y}) <= Cardinality(U \ M) + 1
        <4> DEFINE T == U \ M
        <4>1. IsFiniteSet(T)
          BY <3>3
        <4> HIDE DEF T
        <4>2. /\ IsFiniteSet(T \cup {y}) /\ Cardinality(T) \in Nat
              /\ Cardinality(T \cup {y}) = IF y \in T THEN Cardinality(T) ELSE Cardinality(T) + 1
          BY <4>1, FS_AddElement, FS_CardinalityType
        <4>3. Cardinality(T \cup {y}) <= Cardinality(T) + 1
          BY <4>2
        <4> QED BY <4>2, <4>3 DEF T
      <3>6. /\ Cardinality(V \ M) <= Cardinality((U \ M) \cup {y}) /\ Cardinality(V \ M) \in Nat
            /\ Cardinality((U \ M) \cup {y}) \in Nat
        BY <3>3, <3>5, CountFewer
      <3> QED BY <3>2, <3>4, <3>5, <3>6
    <2> QED BY <2>1, <2>2
  <1> QED BY <1>1, <1>3

\* The reader gets the next row: if others have its time, it did not seek it.
LEMMA CoveredPick ==
  ASSUME NEW Sel, IsFiniteSet(Sel), NEW time, \A x \in Sel : time[x] \in Nat,
         NEW seq \in Listings(Sel, time), NEW k \in Nat, k < Cardinality(Sel),
         NEW M, M \subseteq Untied(Sel, time), NEW l \in Nat, Covered(Sel, M, time, k, l)
  PROVE  Covered(Sel, M \ {seq[k + 1]}, time, k + 1, l)
  <1> DEFINE r == seq[k + 1]
             F == Firsts(seq, k)
             W == {x \in Sel : time[x] > time[r]}
             n == Cardinality(Sel)
  <1>1. /\ n \in Nat /\ seq \in [1..n -> Sel]
        /\ \A i, j \in 1..n : i < j => seq[i] # seq[j] /\ time[seq[i]] >= time[seq[j]]
        /\ \A x \in Sel : \E i \in 1..n : seq[i] = x
    BY ListingFacts
  <1>2. k + 1 \in 1..n /\ k <= n /\ \A i \in 1..k : i \in 1..n /\ i < k + 1
    BY <1>1
  <1>3. F \subseteq Sel /\ IsFiniteSet(F) /\ Cardinality(F) = k
    BY <1>2, FirstsOfListing
  <1> HIDE DEF n
  <1>4. r \in Sel /\ \A x \in F : x # r /\ time[x] >= time[r]
    BY <1>1, <1>2 DEF Firsts
  <1>5. W \subseteq F
    <2> SUFFICES ASSUME NEW x \in Sel, time[x] > time[r] PROVE x \in F
      OBVIOUS
    <2>1. PICK i \in 1..n : seq[i] = x
      BY <1>1
    <2>2. ~(k + 1 < i) /\ i # k + 1
      <3>1. k + 1 < i => time[r] >= time[x]
        BY <1>1, <1>2, <2>1
      <3>2. time[x] \in Nat /\ time[r] \in Nat
        BY <1>4
      <3>3. ~(time[r] >= time[x]) /\ x # r
        BY <3>2
      <3> QED BY <2>1, <3>1, <3>3
    <2>3. i \in 1..k
      BY <1>1, <2>2
    <2> QED BY <2>1, <2>3 DEF Firsts
  <1> HIDE DEF F, r
  <1>6. IsTop(W, Sel, time)
    <2> SUFFICES ASSUME NEW x \in W, NEW y \in Sel, time[y] >= time[x] PROVE time[y] > time[r]
      BY DEF IsTop
    <2>1. time[x] \in Nat /\ time[y] \in Nat /\ time[r] \in Nat /\ time[x] > time[r]
      BY <1>4
    <2> QED BY <2>1
  <1>7. ASSUME NEW U, IsTop(U, Sel, time), r \notin U PROVE U \subseteq W
    <2> SUFFICES ASSUME NEW x \in U PROVE time[x] > time[r]
      BY <1>7 DEF IsTop
    <2>1. x \in Sel /\ ~(time[r] >= time[x])
      BY <1>4, <1>7 DEF IsTop
    <2>2. time[x] \in Nat /\ time[r] \in Nat
      BY <1>4, <2>1
    <2> QED BY <2>1, <2>2
  <1>8. ASSUME r \notin M PROVE F \cap M \subseteq W \cap M
    <2> SUFFICES ASSUME NEW x \in F, x \in M PROVE time[x] > time[r]
      BY <1>3
    <2>1. x # r /\ time[x] >= time[r] /\ x \in Sel
      BY <1>3, <1>4
    <2>2. time[r] # time[x]
      BY <1>4, <2>1 DEF Untied
    <2>3. time[x] \in Nat /\ time[r] \in Nat
      BY <1>4, <2>1
    <2> QED BY <2>1, <2>2, <2>3
  <1>9. ASSUME NEW U, IsTop(U, Sel, time), r \in U PROVE F \subseteq U
    BY <1>3, <1>4, <1>9 DEF IsTop
  <1> HIDE DEF W
  <1> SUFFICES ASSUME NEW U, IsTop(U, Sel, time)
               PROVE  Cardinality(U \cap (M \ {r})) <= l \/ k + 1 <= Cardinality(U \ (M \ {r})) + l
    BY DEF Covered, r
  <1>10. IsFiniteSet(U) /\ U \subseteq Sel
    BY CountFewer DEF IsTop
  <1>11. Cardinality(U \cap M) <= l \/ k <= Cardinality(U \ M) + l
    BY DEF Covered
  <1>12. /\ Cardinality(U) \in Nat /\ Cardinality(U \cap M) \in Nat /\ Cardinality(U \ M) \in Nat
         /\ Cardinality(U) = Cardinality(U \cap M) + Cardinality(U \ M)
    BY <1>10, CountParts
  <1>13. CASE r \notin U
    <2>1. U \subseteq F /\ U \cap (M \ {r}) = U \cap M
      BY <1>5, <1>7, <1>13
    <2>2. Cardinality(U) <= k
      BY <1>3, <2>1, CountFewer
    <2>3. Cardinality(U \cap M) <= l
      BY <1>11, <1>12, <2>2
    <2> QED BY <2>1, <2>3
  <1>14. CASE r \in U /\ r \in M
    <2>1. /\ U \cap (M \ {r}) = (U \cap M) \ {r} /\ U \ (M \ {r}) = (U \ M) \cup {r}
          /\ r \in U \cap M /\ r \notin U \ M
      BY <1>14
    <2>2. IsFiniteSet(U \cap M) /\ IsFiniteSet(U \ M)
      BY <1>10, CountFewer
    <2>3. /\ Cardinality((U \cap M) \ {r}) = Cardinality(U \cap M) - 1
          /\ Cardinality((U \ M) \cup {r}) = Cardinality(U \ M) + 1
      BY <2>1, <2>2, FS_RemoveElement, FS_AddElement
    <2>4. Cardinality((U \cap M) \ {r}) <= l \/ k + 1 <= Cardinality((U \ M) \cup {r}) + l
      BY <1>11, <1>12, <2>3
    <2> QED BY <2>1, <2>4
  <1>15. CASE r \in U /\ r \notin M
    <2>1. IsFiniteSet(W) /\ IsFiniteSet(F \ M) /\ IsFiniteSet(W \cap M) /\ IsFiniteSet(U \ M)
      <3>1. IsFiniteSet(W)
        BY <1>3, <1>5, CountFewer
      <3> QED BY <3>1, <1>3, <1>10, CountFewer
    <2>2. Cardinality(W \cap M) <= l \/ k <= Cardinality(W \ M) + l
      BY <1>6 DEF Covered
    <2>3. /\ Cardinality(F \cap M) \in Nat /\ Cardinality(F \ M) \in Nat
          /\ k = Cardinality(F \cap M) + Cardinality(F \ M)
      BY <1>3, CountParts
    <2>4. Cardinality(F \cap M) <= Cardinality(W \cap M) /\ Cardinality(W \cap M) \in Nat
      <3>1. F \cap M \subseteq W \cap M
        BY <1>8, <1>15
      <3> QED BY <2>1, <3>1, CountFewer
    <2>5. Cardinality(W \ M) <= Cardinality(F \ M) /\ Cardinality(W \ M) \in Nat
      <3>1. W \ M \subseteq F \ M
        BY <1>5
      <3> QED BY <2>1, <3>1, CountFewer
    <2>6. k <= Cardinality(F \ M) + l
      BY <2>2, <2>3, <2>4, <2>5
    <2>7. (F \ M) \cup {r} \subseteq U \ M /\ r \notin F \ M /\ U \ (M \ {r}) = U \ M
      BY <1>4, <1>9, <1>15
    <2>8. Cardinality((F \ M) \cup {r}) = Cardinality(F \ M) + 1
      BY <2>1, <2>7, FS_AddElement
    <2>9. /\ Cardinality((F \ M) \cup {r}) <= Cardinality(U \ M) /\ Cardinality(U \ M) \in Nat
      BY <2>1, <2>7, CountFewer
    <2>10. k + 1 <= Cardinality(U \ M) + l
      BY <2>3, <2>6, <2>8, <2>9
    <2> QED BY <2>7, <2>10
  <1> QED BY <1>13, <1>14, <1>15

OpenOnly == [severities |-> {}, unresolvedOnly |-> TRUE]

Departures == [id : Ids, at : Nat]

Browses == [filter : {Nil, OpenOnly}, phase : {"idle", "counted", "paged", "read"},
            total : Nat, rows : Seq(Ids), there : SUBSET Ids, left : SUBSET Departures]

\* What the reader has yet to see, of what was there when it began and was not
\* closed since, and has a time of its own.
Sought ==
    (browse.there \ (ToSet(browse.rows) \cup {l.id : l \in browse.left}))
        \cap Untied(DOMAIN events, detectedAt)

\* While it reads, all it seeks is still open, and each top of what is open is covered.
PagingInv ==
    /\ browse \in Browses /\ IsFiniteSet(browse.left) /\ browse.there \subseteq DOMAIN events
    /\ browse.phase \in {"counted", "paged"} =>
          /\ browse.filter = OpenOnly
          /\ \A l \in browse.left : l.at < writes
          /\ Sought \subseteq GetUnresolved
          /\ Covered(GetUnresolved, Sought, detectedAt, Len(browse.rows), Cardinality(browse.left))
    /\ browse.phase = "read" => Cardinality(Sought) <= Cardinality(browse.left)

LEMMA UnresolvedIsOpen == GetUnresolved = {id \in DOMAIN events : events[id].status = "open"}
  BY DEF GetUnresolved, Selected

LEMMA TimesOfUnresolved ==
  ASSUME StoreInv
  PROVE  /\ \A x \in GetUnresolved : detectedAt[x] \in Nat
         /\ Sought \subseteq DOMAIN events /\ IsFiniteSet(Sought)
         /\ Sought \cap GetUnresolved \subseteq Untied(GetUnresolved, detectedAt)
  <1>1. GetUnresolved \subseteq DOMAIN events
    BY UnresolvedFacts
  <1>2. \A x \in GetUnresolved : detectedAt[x] \in Nat
    BY <1>1, TimesAssumption DEF StoreInv
  <1>3. Sought \subseteq DOMAIN events
    BY DEF Sought, Untied
  <1>4. IsFiniteSet(Sought)
    BY <1>3, CountFewer DEF StoreInv
  <1>5. Sought \cap GetUnresolved \subseteq Untied(GetUnresolved, detectedAt)
    BY <1>1 DEF Sought, Untied
  <1> QED BY <1>2, <1>3, <1>4, <1>5

\* The reader did nothing, and what it does not seek was opened, or nothing was.
LEMMA EnterKeepsPaging ==
  ASSUME StoreInv, PagingInv, browse' = browse, writes' \in Nat, writes' >= writes,
         DOMAIN events \subseteq DOMAIN events',
         GetUnresolved \subseteq GetUnresolved', IsFiniteSet(GetUnresolved'),
         Sought' \subseteq Sought, \A x \in GetUnresolved : detectedAt'[x] = detectedAt[x]
  PROVE  PagingInv'
  <1>1. ASSUME browse.phase \in {"counted", "paged"}
        PROVE  /\ \A l \in browse'.left : l.at < writes'
               /\ Sought' \subseteq GetUnresolved'
               /\ Covered(GetUnresolved', Sought', detectedAt', Len(browse.rows), Cardinality(browse.left))
    <2>1. \A l \in browse.left : l.at \in Nat
      BY DEF PagingInv, Browses, Departures
    <2>2. \A l \in browse'.left : l.at < writes'
      BY <1>1, <2>1 DEF PagingInv, StoreInv
    <2>3. IsFiniteSet(GetUnresolved) /\ Sought \subseteq GetUnresolved
      BY <1>1, UnresolvedFacts DEF PagingInv
    <2>4. Len(browse.rows) \in Nat /\ Cardinality(browse.left) \in Nat
      BY <1>1, FS_CardinalityType DEF PagingInv, Browses
    <2>5. Covered(GetUnresolved, Sought, detectedAt, Len(browse.rows), Cardinality(browse.left))
      BY <1>1 DEF PagingInv
    <2>6. Covered(GetUnresolved, Sought', detectedAt, Len(browse.rows), Cardinality(browse.left))
      BY <2>3, <2>4, <2>5, CoveredFewer
    <2>7. Sought' \subseteq GetUnresolved
      BY <2>3
    <2>8. Covered(GetUnresolved', Sought', detectedAt', Len(browse.rows), Cardinality(browse.left))
      BY <2>4, <2>6, <2>7, CoveredEnter
    <2>9. Sought' \subseteq GetUnresolved'
      BY <2>7
    <2> QED BY <2>2, <2>8, <2>9
  <1>2. ASSUME browse.phase = "read"
        PROVE  Cardinality(Sought') <= Cardinality(browse.left)
    <2>1. Cardinality(Sought) <= Cardinality(browse.left)
      BY <1>2 DEF PagingInv
    <2>2. /\ Cardinality(Sought') <= Cardinality(Sought)
          /\ Cardinality(Sought') \in Nat /\ Cardinality(Sought) \in Nat
      BY TimesOfUnresolved, CountFewer
    <2>3. Cardinality(browse.left) \in Nat
      BY FS_CardinalityType DEF PagingInv
    <2> QED BY <2>1, <2>2, <2>3
  <1>3. /\ browse' \in Browses /\ IsFiniteSet(browse'.left)
        /\ browse'.there \subseteq DOMAIN events'
    BY DEF PagingInv, Browses
  <1>4. browse'.phase \in {"counted", "paged"} => browse'.filter = OpenOnly
    BY DEF PagingInv, OpenOnly
  <1> QED BY <1>1, <1>2, <1>3, <1>4 DEF PagingInv, OpenOnly

\* y was closed.
LEMMA LeaveKeepsPaging ==
  ASSUME StoreInv, PagingInv, NEW y \in GetUnresolved, GetUnresolved' = GetUnresolved \ {y},
         writes' = writes + 1, DOMAIN events' = DOMAIN events, detectedAt' = detectedAt,
         browse' = IF browse.phase \in {"counted", "paged"}
                   THEN [browse EXCEPT !.left = @ \cup {[id |-> y, at |-> writes]}] ELSE browse
  PROVE  PagingInv'
  <1> DEFINE new == [id |-> y, at |-> writes]
  <1>1. y \in Ids /\ writes \in Nat
    BY UnresolvedFacts DEF StoreInv
  <1>2. CASE browse.phase \notin {"counted", "paged"}
    <2>1. browse' = browse /\ Sought' = Sought
      BY <1>2 DEF Sought
    <2> QED BY <1>2, <2>1 DEF PagingInv
  <1>3. CASE browse.phase \in {"counted", "paged"}
    <2>1. /\ browse \in Browses /\ browse' = [browse EXCEPT !.left = browse.left \cup {new}]
          /\ new \in Departures
      BY <1>1, <1>3 DEF PagingInv, Departures
    <2> HIDE DEF new
    <2>2. /\ browse' \in Browses /\ browse'.left = browse.left \cup {new}
          /\ browse'.phase = browse.phase /\ browse'.filter = browse.filter
          /\ browse'.rows = browse.rows /\ browse'.there = browse.there
      BY <2>1 DEF Browses
    <2>3. /\ IsFiniteSet(browse.left) /\ \A l \in browse.left : l.at < writes /\ l.at \in Nat
      BY <1>3 DEF PagingInv, Browses, Departures
    <2>4. new \notin browse.left
      BY <2>3, <1>1 DEF new
    <2>5. /\ IsFiniteSet(browse'.left) /\ Cardinality(browse.left) \in Nat
          /\ Cardinality(browse'.left) = Cardinality(browse.left) + 1
      BY <2>2, <2>3, <2>4, FS_AddElement, FS_CardinalityType
    <2>6. \A l \in browse'.left : l.at < writes'
      <3>1. new.at = writes
        BY DEF new
      <3> QED BY <2>2, <2>3, <3>1, <1>1
    <2>7. Sought' = Sought \ {y}
      <3>1. new.id = y
        BY DEF new
      <3> QED BY <2>2, <3>1 DEF Sought
    <2>8. Covered(GetUnresolved \ {y}, Sought \ {y}, detectedAt, Len(browse.rows),
                  Cardinality(browse.left) + 1)
      <3>1. (\A x \in GetUnresolved : detectedAt[x] \in Nat) /\ IsFiniteSet(GetUnresolved)
        BY UnresolvedFacts, TimesOfUnresolved
      <3>2. Len(browse.rows) \in Nat
        BY DEF PagingInv, Browses
      <3>3. Covered(GetUnresolved, Sought, detectedAt, Len(browse.rows), Cardinality(browse.left))
        BY <1>3 DEF PagingInv
      <3> QED BY <3>1, <3>2, <3>3, <2>5, CoveredLeave
    <2>9. Sought \ {y} \subseteq GetUnresolved \ {y} /\ browse.filter = OpenOnly
      BY <1>3 DEF PagingInv
    <2>10. /\ Sought' \subseteq GetUnresolved'
           /\ Covered(GetUnresolved', Sought', detectedAt', Len(browse'.rows), Cardinality(browse'.left))
      BY <2>2, <2>5, <2>7, <2>8, <2>9
    <2> QED BY <1>3, <2>2, <2>5, <2>6, <2>9, <2>10 DEF PagingInv
  <1> QED BY <1>2, <1>3

LEMMA WriteKeepsPaging ==
  ASSUME StoreInv, PagingInv, NEW id, NEW row \in EventRows, Written(id, row), writes' = writes + 1,
         Leaves(id, row.status), detectedAt' = detectedAt
  PROVE  PagingInv'
  <1>1. /\ id \in DOMAIN events /\ id \in Ids /\ writes \in Nat
        /\ GetUnresolved' = IF row.status = "open" THEN GetUnresolved \cup {id} ELSE GetUnresolved \ {id}
    <2>1. /\ GetUnresolved = {i \in DOMAIN events : events[i].status = "open"}
          /\ GetUnresolved' = {i \in DOMAIN events' : events'[i].status = "open"}
      BY UnresolvedIsOpen DEF GetUnresolved, Selected
    <2> QED BY <2>1 DEF Written, StoreInv
  <1>2. id \in GetUnresolved <=> events[id].status = "open"
    BY <1>1, UnresolvedIsOpen
  <1>3. CASE row.status = "open" \/ id \notin GetUnresolved
    <2>1. browse' = browse
      BY <1>2, <1>3 DEF Leaves
    <2>2. GetUnresolved' = GetUnresolved \/ GetUnresolved' = GetUnresolved \cup {id}
      BY <1>1, <1>3
    <2>3. GetUnresolved \subseteq GetUnresolved' /\ IsFiniteSet(GetUnresolved')
      BY <2>2, UnresolvedFacts, FS_AddElement
    <2>4. Sought' = Sought
      BY <2>1 DEF Sought, Written
    <2>5. DOMAIN events' = DOMAIN events /\ writes' \in Nat /\ writes' >= writes
      BY <1>1 DEF Written
    <2> QED BY <2>1, <2>3, <2>4, <2>5, EnterKeepsPaging
  <1>4. CASE row.status # "open" /\ id \in GetUnresolved
    <2>1. browse' = IF browse.phase \in {"counted", "paged"}
                    THEN [browse EXCEPT !.left = @ \cup {[id |-> id, at |-> writes]}] ELSE browse
      BY <1>2, <1>4 DEF Leaves
    <2>2. GetUnresolved' = GetUnresolved \ {id} /\ DOMAIN events' = DOMAIN events
      BY <1>1, <1>4 DEF Written
    <2> QED BY <1>4, <2>1, <2>2, LeaveKeepsPaging
  <1> QED BY <1>3, <1>4

LEMMA CreateKeepsPaging ==
  ASSUME StoreInv, PagingInv, NEW id \in Ids, NEW severity \in Severities, NEW resolved \in BOOLEAN,
         NEW at \in Times, Create(id, severity, resolved, at)
  PROVE  PagingInv'
  <1> DEFINE row == Row(Event(severity, resolved, Nil, id))
  <1>1. events' = Put(events, id, row) /\ id \notin DOMAIN events
    BY DEF Create
  <1> HIDE DEF row
  <1>2. /\ GetUnresolved = {i \in DOMAIN events : events[i].status = "open"}
        /\ GetUnresolved' = {i \in DOMAIN events' : events'[i].status = "open"}
    BY UnresolvedIsOpen DEF GetUnresolved, Selected
  <1>3. /\ DOMAIN events' = DOMAIN events \cup {id}
        /\ \A other \in DOMAIN events' : events'[other] = IF other = id THEN row ELSE events[other]
    BY <1>1 DEF Put
  <1>4. GetUnresolved' = GetUnresolved \/ GetUnresolved' = GetUnresolved \cup {id}
    BY <1>1, <1>2, <1>3
  <1>5. GetUnresolved \subseteq GetUnresolved' /\ IsFiniteSet(GetUnresolved')
    BY <1>4, UnresolvedFacts, FS_AddElement
  <1>6. browse' = browse /\ writes' = writes /\ writes \in Nat /\ detectedAt' = Put(detectedAt, id, at)
    BY DEF Create, StoreInv
  <1>7. \A x \in DOMAIN events : detectedAt'[x] = detectedAt[x]
    BY <1>1, <1>6 DEF Put, StoreInv
  <1>8. Untied(DOMAIN events', detectedAt') \cap DOMAIN events \subseteq Untied(DOMAIN events, detectedAt)
    BY <1>3, <1>7 DEF Untied
  <1>9. Sought' \subseteq Sought
    <2>1. browse.there \subseteq DOMAIN events
      BY DEF PagingInv
    <2> QED BY <1>6, <1>8, <2>1 DEF Sought
  <1>10. \A x \in GetUnresolved : detectedAt'[x] = detectedAt[x]
    BY <1>7, UnresolvedFacts
  <1> QED BY <1>3, <1>5, <1>6, <1>9, <1>10, EnterKeepsPaging

LEMMA CountKeepsPaging ==
  ASSUME StoreInv, PagingInv, CountEvents(OpenOnly)
  PROVE  PagingInv'
  <1>1. /\ GetUnresolved' = GetUnresolved /\ GetUnresolved = Selected(OpenOnly)
        /\ writes' = writes /\ browse.phase \in {"idle", "paged"}
        /\ events' = events /\ detectedAt' = detectedAt
    BY DEF CountEvents, GetUnresolved, Selected, OpenOnly
  <1>2. IsFiniteSet(GetUnresolved) /\ GetUnresolved \in SUBSET Ids /\ Cardinality(GetUnresolved) \in Nat
    BY UnresolvedFacts, FS_CardinalityType DEF StoreInv
  <1>3. CASE browse.phase = "idle"
    <2>1. browse' = [filter |-> OpenOnly, phase |-> "counted", rows |-> <<>>, left |-> {},
                     total |-> Cardinality(GetUnresolved), there |-> GetUnresolved]
      BY <1>1, <1>3 DEF CountEvents
    <2>2. browse' \in Browses
      BY <2>1, <1>2 DEF Browses
    <2>3. Len(browse'.rows) = 0 /\ Cardinality(browse'.left) = 0 /\ IsFiniteSet(browse'.left)
      BY <2>1, FS_EmptySet
    <2>4. Sought' \subseteq GetUnresolved'
      BY <2>1, <1>1 DEF Sought
    <2>5. Covered(GetUnresolved', Sought', detectedAt', 0, 0)
      <3> SUFFICES ASSUME NEW U, IsTop(U, GetUnresolved, detectedAt')
                   PROVE  0 <= Cardinality(U \ Sought') + 0
        BY <1>1 DEF Covered
      <3>1. IsFiniteSet(U)
        BY <1>2, CountFewer DEF IsTop
      <3>2. Cardinality(U \ Sought') \in Nat
        BY <3>1, CountFewer
      <3> QED BY <3>2
    <2>6. browse'.there \subseteq DOMAIN events'
      BY <1>1, <2>1, UnresolvedFacts
    <2> QED BY <2>1, <2>2, <2>3, <2>4, <2>5, <2>6 DEF PagingInv
  <1>4. CASE browse.phase = "paged"
    <2>1. browse' = [browse EXCEPT !.phase = "counted", !.total = Cardinality(Selected(browse.filter))]
      BY <1>4 DEF CountEvents
    <2>2. browse \in Browses /\ browse.filter = OpenOnly
      BY <1>4 DEF PagingInv
    <2>3. /\ browse' \in Browses /\ browse'.rows = browse.rows /\ browse'.left = browse.left
          /\ browse'.there = browse.there /\ browse'.phase = "counted" /\ browse'.filter = OpenOnly
      BY <1>1, <1>2, <2>1, <2>2 DEF Browses
    <2>4. Sought' = Sought
      BY <1>1, <2>3 DEF Sought
    <2> QED BY <1>1, <1>4, <2>3, <2>4 DEF PagingInv
  <1> QED BY <1>1, <1>3, <1>4

LEMMA SelectKeepsPaging ==
  ASSUME StoreInv, PagingInv, SelectEvents
  PROVE  PagingInv'
  <1> DEFINE k == Len(browse.rows)
  <1>1. /\ browse \in Browses /\ browse.phase = "counted" /\ browse.filter = OpenOnly
        /\ IsFiniteSet(browse.left) /\ \A l \in browse.left : l.at < writes
        /\ Sought \subseteq GetUnresolved /\ browse.there \subseteq DOMAIN events
        /\ Covered(GetUnresolved, Sought, detectedAt, Len(browse.rows), Cardinality(browse.left))
    BY DEF SelectEvents, PagingInv
  <1>2. /\ GetUnresolved' = GetUnresolved /\ GetUnresolved = Selected(OpenOnly) /\ writes' = writes
        /\ events' = events /\ detectedAt' = detectedAt
    BY DEF SelectEvents, GetUnresolved, Selected, OpenOnly
  <1>3. /\ IsFiniteSet(GetUnresolved) /\ GetUnresolved \in SUBSET Ids
        /\ Cardinality(GetUnresolved) \in Nat /\ k \in Nat /\ Cardinality(browse.left) \in Nat
        /\ \A x \in GetUnresolved : detectedAt[x] \in Nat
        /\ Sought \subseteq Untied(GetUnresolved, detectedAt)
    BY <1>1, UnresolvedFacts, TimesOfUnresolved, FS_CardinalityType DEF StoreInv, Browses
  <1>4. PICK found \in Listings(GetUnresolved, detectedAt) :
          browse' = IF k < Len(found)
                    THEN [browse EXCEPT !.phase = "paged", !.rows = Append(browse.rows, found[k + 1])]
                    ELSE [browse EXCEPT !.phase = "read"]
    BY <1>1, <1>2 DEF SelectEvents
  <1>5. found \in [1..Cardinality(GetUnresolved) -> GetUnresolved]
    BY <1>3, ListingFacts
  <1>6. Len(found) = Cardinality(GetUnresolved)
    BY <1>3, <1>5
  <1>7. CASE k < Len(found)
    <2> DEFINE r == found[k + 1]
    <2>1. r \in GetUnresolved /\ r \in Ids
      <3>1. k + 1 \in 1..Cardinality(GetUnresolved)
        BY <1>3, <1>6, <1>7
      <3> QED BY <3>1, <1>3, <1>5
    <2>2. browse' = [browse EXCEPT !.phase = "paged", !.rows = Append(browse.rows, r)]
      BY <1>4, <1>7
    <2>6. Covered(GetUnresolved, Sought \ {r}, detectedAt, k + 1, Cardinality(browse.left))
      BY <1>1, <1>3, <1>6, <1>7, CoveredPick
    <2> HIDE DEF r
    <2>3. /\ browse.rows \in Seq(Ids) /\ Append(browse.rows, r) \in Seq(Ids)
          /\ Len(Append(browse.rows, r)) = k + 1
          /\ ToSet(Append(browse.rows, r)) = ToSet(browse.rows) \cup {r}
      <3>1. browse.rows \in Seq(Ids)
        BY <1>1 DEF Browses
      <3>2. Append(browse.rows, r) \in Seq(Ids) /\ Len(Append(browse.rows, r)) = k + 1
        BY <3>1, <2>1, AppendProperties
      <3>3. \A i \in 1..(k + 1) : Append(browse.rows, r)[i] = IF i = k + 1 THEN r ELSE browse.rows[i]
        BY <3>1, <2>1, AppendProperties
      <3>4. ToSet(Append(browse.rows, r)) = ToSet(browse.rows) \cup {r}
        <4> DEFINE s == Append(browse.rows, r)
        <4>1. DOMAIN s = 1..(k + 1) /\ DOMAIN browse.rows = 1..k
          BY <3>1, <3>2, LenProperties
        <4> HIDE DEF s
        <4>2. ToSet(s) \subseteq ToSet(browse.rows) \cup {r}
          BY <4>1, <3>3, <1>3 DEF ToSet, s
        <4>3. ToSet(browse.rows) \cup {r} \subseteq ToSet(s)
          <5>1. k + 1 \in 1..(k + 1) /\ \A i \in 1..k : i \in 1..(k + 1) /\ i # k + 1
            BY <1>3
          <5> QED BY <4>1, <5>1, <3>3 DEF ToSet, s
        <4> QED BY <4>2, <4>3 DEF s
      <3> QED BY <3>1, <3>2, <3>4
    <2>4. /\ browse' \in Browses /\ browse'.rows = Append(browse.rows, r)
          /\ browse'.left = browse.left /\ browse'.there = browse.there
          /\ browse'.phase = "paged" /\ browse'.filter = OpenOnly
      BY <1>1, <2>2, <2>3 DEF Browses
    <2>5. Sought' = Sought \ {r}
      BY <1>2, <2>3, <2>4 DEF Sought
    <2> QED BY <1>1, <1>2, <2>3, <2>4, <2>5, <2>6 DEF PagingInv
  <1>8. CASE ~(k < Len(found))
    <2>1. browse' = [browse EXCEPT !.phase = "read"]
      BY <1>4, <1>8
    <2>2. /\ browse' \in Browses /\ browse'.rows = browse.rows /\ browse'.left = browse.left
          /\ browse'.there = browse.there /\ browse'.phase = "read"
      BY <1>1, <2>1 DEF Browses
    <2>3. Cardinality(GetUnresolved) <= k
      BY <1>3, <1>6, <1>8
    <2>4. Cardinality(Sought) <= Cardinality(browse.left)
      BY <1>1, <1>3, <2>3, CoveredEnd
    <2>5. Sought' = Sought
      BY <1>2, <2>2 DEF Sought
    <2> QED BY <1>1, <1>2, <2>2, <2>4, <2>5 DEF PagingInv
  <1> QED BY <1>7, <1>8

LEMMA PagingInvStep ==
  ASSUME StoreInv, PagingInv, [EventsNext]_eventVars
  PROVE  PagingInv'
  <1>1. ASSUME NEW c \in Clients, NEW severity \in Severities, NEW closes \in BOOLEAN,
               Update(c, severity, closes)
        PROVE  PagingInv'
    <2>1. PICK row \in EventRows :
            /\ Written(copy[c].id, row)
            /\ row.status = StatusOf(Changed(c, severity, closes))
      BY <1>1, UpdateGivesStatus
    <2>2. writes' = writes + 1 /\ detectedAt' = detectedAt
      BY <1>1 DEF Update
    <2>3. Leaves(copy[c].id, StatusOf(Changed(c, severity, closes)))
      BY <1>1 DEF Update
    <2>4. Leaves(copy[c].id, row.status)
      BY <2>1, <2>3 DEF Leaves
    <2> QED BY <2>1, <2>2, <2>4, WriteKeepsPaging
  <1>2. ASSUME NEW c \in Clients, NEW id \in Ids, Closes(c, id) PROVE PagingInv'
    <2>1. PICK row \in EventRows :
            /\ Written(id, row) /\ row.diff = id /\ row.status # "open" /\ row.resolved = TRUE
            /\ row.resolution = c /\ Leaves(id, row.status)
      BY <1>2, ClosesWrites
    <2>2. writes' = writes + 1 /\ detectedAt' = detectedAt
      BY <1>2 DEF Closes, SetTerminalStatus
    <2> QED BY <2>1, <2>2, WriteKeepsPaging
  <1>3. ASSUME NEW c \in Clients, NEW id \in Ids, Get(c, id) PROVE PagingInv'
    BY <1>3 DEF PagingInv, Get, Sought, GetUnresolved, Selected
  <1>4. CASE CountEvents(OpenOnly)
    BY <1>4, CountKeepsPaging
  <1>5. CASE SelectEvents
    BY <1>5, SelectKeepsPaging
  <1>6. CASE UNCHANGED eventVars
    BY <1>6 DEF PagingInv, eventVars, Sought, GetUnresolved, Selected
  <1> QED BY <1>1, <1>2, <1>3, <1>4, <1>5, <1>6, CreateKeepsPaging
       DEF EventsNext, Closes, OpenOnly

LEMMA EventsInvImplies ==
  ASSUME StoreInv, PagingInv
  PROVE  OpenIsUnresolved /\ PagesMissWhatLeaves /\ EventsTypeOK
  <1>1. PagesMissWhatLeaves
    BY DEF PagingInv, PagesMissWhatLeaves, Sought
  <1>2. EventsTypeOK
    BY DEF StoreInv, PagingInv, Browses, EventsTypeOK, EventRows
  <1> QED BY <1>1, <1>2, StoreInvImplies

LEMMA EventsAreSound ==
  EventsSpec => []OpenIsUnresolved /\ []PagesMissWhatLeaves /\ []EventsTypeOK
  <1> DEFINE Inv == StoreInv /\ PagingInv
  <1>1. EventsInit => Inv
    <2> SUFFICES ASSUME EventsInit PROVE PagingInv
      BY StoreInvInit
    <2>1. browse = NoBrowse
      BY DEF EventsInit
    <2>2. /\ browse.phase = "idle" /\ browse.left = {} /\ browse.there = {}
          /\ browse \in Browses
      BY <2>1 DEF NoBrowse, Browses
    <2>3. IsFiniteSet(browse.left)
      BY <2>2, FS_EmptySet
    <2> QED BY <2>2, <2>3 DEF PagingInv
  <1>2. Inv /\ [EventsNext]_eventVars => Inv'
    BY StoreInvStep, PagingInvStep
  <1>3. Inv => OpenIsUnresolved /\ PagesMissWhatLeaves /\ EventsTypeOK
    BY EventsInvImplies
  <1> HIDE DEF Inv
  <1> QED BY <1>1, <1>2, <1>3, PTL DEF EventsSpec

-----------------------------------------------------------------------------
(* The audit trail *)

Links == Nat \X Nat \X Entries

LogEntries == [entry : Entries, prev : Seq(Links), hash : Seq(Links), life : 1..MaxLives,
               at : Stamps]

\* What the entry at t would be linked to, in a life.
LinkOf(log, t, in) == IF t > 1 /\ log[t - 1].life = in THEN log[t - 1].hash ELSE <<>>

ChainAt(log, t, now) ==
    /\ log[t].life <= now
    /\ log[t].prev = LinkOf(log, t, log[t].life)
    /\ log[t].hash = Append(log[t].prev, <<log[t].life, t - 1, log[t].entry>>)

\* Each entry is linked to the one before it of the same life, each hash ends with
\* what it is the hash of, and the logger has the hash of the last one.
ChainInv ==
    /\ life \in 1..MaxLives
    /\ logged \in Seq(LogEntries) /\ Len(logged) <= MaxLogged
    /\ \A t \in 1..Len(logged) : ChainAt(logged, t, life)
    /\ lastHash = LinkOf(logged, Len(logged) + 1, life)
    /\ table \subseteq 1..Len(logged)

LEMMA LogKeepsChain ==
  ASSUME ChainInv, NEW e \in Entries, NEW at \in Stamps, Log(e, at)
  PROVE  /\ ChainInv'
         /\ table' = table /\ reader' = reader
         /\ \A t \in 1..Len(logged) : logged'[t] = logged[t]
  <1> DEFINE n == Len(logged)
             hash == Append(lastHash, <<life, n, e>>)
             new == [entry |-> e, prev |-> lastHash, hash |-> hash, life |-> life, at |-> at]
  <1>1. /\ n < MaxLogged /\ logged' = Append(logged, new) /\ lastHash' = hash
        /\ UNCHANGED <<life, table, reader>>
    BY DEF Log
  <1>2. n \in Nat /\ logged \in Seq(LogEntries) /\ life \in 1..MaxLives /\ MaxLives \in Nat /\ MaxLogged \in Nat
    BY AuditBounds DEF ChainInv
  <1>3. lastHash \in Seq(Links)
    <2>1. CASE n > 0 /\ logged[n].life = life
      <3>1. lastHash = logged[n].hash /\ logged[n] \in LogEntries
        BY <1>2, <2>1 DEF ChainInv, LinkOf
      <3> QED BY <3>1 DEF LogEntries
    <2>2. CASE ~(n > 0 /\ logged[n].life = life)
      BY <1>2, <2>2 DEF ChainInv, LinkOf
    <2> QED BY <2>1, <2>2
  <1>4. <<life, n, e>> \in Links /\ hash \in Seq(Links)
    BY <1>2, <1>3 DEF Links
  <1>5. /\ new \in LogEntries /\ new.life = life /\ new.prev = lastHash /\ new.entry = e
        /\ new.hash = Append(lastHash, <<life, n, e>>)
    BY <1>2, <1>3, <1>4 DEF LogEntries
  <1> HIDE DEF hash, new
  <1>6. /\ logged' \in Seq(LogEntries) /\ Len(logged') = n + 1
        /\ \A t \in 1..n : logged'[t] = logged[t]
        /\ logged'[n + 1] = new
    BY <1>1, <1>2, <1>5, AppendProperties
  <1>7. ASSUME NEW t \in 1..(n + 1), NEW in PROVE LinkOf(logged', t, in) = LinkOf(logged, t, in)
    <2>1. t > 1 => t - 1 \in 1..n
      BY <1>2
    <2>2. t > 1 => logged'[t - 1] = logged[t - 1]
      BY <2>1, <1>6
    <2> QED BY <2>2 DEF LinkOf
  <1>8. ASSUME NEW t \in 1..(n + 1) PROVE ChainAt(logged', t, life)
    <2>1. CASE t \in 1..n
      <3>1. logged'[t] = logged[t] /\ ChainAt(logged, t, life)
        BY <1>6, <2>1 DEF ChainInv
      <3>2. LinkOf(logged', t, logged[t].life) = LinkOf(logged, t, logged[t].life)
        BY <1>7
      <3> QED BY <3>1, <3>2 DEF ChainAt
    <2>2. CASE t = n + 1
      <3>1. logged'[t] = new /\ t - 1 = n
        BY <1>2, <1>6, <2>2
      <3>2. lastHash = LinkOf(logged, n + 1, life)
        BY DEF ChainInv
      <3>3. new.prev = LinkOf(logged', t, life)
        BY <1>5, <1>7, <2>2, <3>2
      <3>4. life <= life
        BY <1>2
      <3> QED BY <1>5, <3>1, <3>3, <3>4 DEF ChainAt
    <2> QED BY <1>2, <2>1, <2>2
  <1>9. lastHash' = LinkOf(logged', Len(logged') + 1, life')
    <2>1. Len(logged') + 1 = n + 2 /\ n + 2 > 1 /\ (n + 2) - 1 = n + 1
      BY <1>2, <1>6
    <2>2. lastHash' = new.hash /\ life' = life
      BY <1>1 DEF hash, new
    <2>3. LinkOf(logged', n + 2, life) = new.hash
      BY <1>5, <1>6, <2>1 DEF LinkOf
    <2> QED BY <2>1, <2>2, <2>3
  <1>10. Len(logged') <= MaxLogged /\ table' \subseteq 1..Len(logged')
    BY <1>1, <1>2, <1>6 DEF ChainInv
  <1> QED BY <1>1, <1>2, <1>6, <1>8, <1>9, <1>10 DEF ChainInv

LEMMA NewLoggerKeepsChain ==
  ASSUME ChainInv, NewLogger
  PROVE  ChainInv'
  <1>1. /\ life < MaxLives /\ life' = life + 1 /\ lastHash' = <<>>
        /\ logged' = logged /\ table' = table
    BY DEF NewLogger
  <1>2. life \in 1..MaxLives /\ life' \in 1..MaxLives
    BY <1>1, AuditBounds DEF ChainInv
  <1>3. ASSUME NEW t \in 1..Len(logged)
        PROVE  logged[t].life \in 1..MaxLives /\ logged[t].life <= life
    <2>1. logged[t] \in LogEntries
      BY DEF ChainInv
    <2>2. logged[t].life \in 1..MaxLives
      BY <2>1 DEF LogEntries
    <2> QED BY <2>2 DEF ChainInv, ChainAt
  <1>4. LinkOf(logged, Len(logged) + 1, life') = <<>>
    <2>1. CASE Len(logged) > 0
      <3>1. logged[Len(logged)].life # life'
        BY <1>1, <1>2, <1>3, <2>1 DEF ChainInv
      <3> QED BY <3>1 DEF LinkOf, ChainInv
    <2>2. CASE ~(Len(logged) > 0)
      BY <2>2 DEF LinkOf, ChainInv
    <2> QED BY <2>1, <2>2
  <1>5. ASSUME NEW t \in 1..Len(logged) PROVE ChainAt(logged, t, life')
    <2>1. ChainAt(logged, t, life)
      BY DEF ChainInv
    <2>2. logged[t].life <= life'
      BY <1>1, <1>2, <1>3
    <2> QED BY <2>1, <2>2 DEF ChainAt
  <1> QED BY <1>1, <1>2, <1>4, <1>5 DEF ChainInv

LEMMA ChainInvStep ==
  ASSUME ChainInv, [AuditNext]_auditVars
  PROVE  /\ ChainInv' /\ table \subseteq table'
         /\ \A t \in 1..Len(logged) : logged'[t] = logged[t]
  <1>1. ASSUME NEW e \in Entries, NEW at \in Stamps, Log(e, at)
        PROVE  /\ ChainInv' /\ table \subseteq table'
               /\ \A t \in 1..Len(logged) : logged'[t] = logged[t]
    BY <1>1, LogKeepsChain
  <1>2. ASSUME NEW t \in DOMAIN logged, AppendRow(t)
        PROVE  /\ ChainInv' /\ table \subseteq table' /\ logged' = logged
    <2>1. /\ t \in 1..Len(logged) /\ table' = table \cup {t}
          /\ UNCHANGED <<lastHash, life, logged>>
      BY <1>2 DEF ChainInv, AppendRow
    <2> QED BY <2>1 DEF ChainInv
  <1>3. CASE NewLogger
    BY <1>3, NewLoggerKeepsChain DEF NewLogger
  <1>4. ASSUME UNCHANGED <<lastHash, life, logged, table>>
        PROVE  /\ ChainInv' /\ table \subseteq table' /\ logged' = logged
    BY <1>4 DEF ChainInv
  <1> QED BY <1>1, <1>2, <1>3, <1>4 DEF AuditNext, CountRows, SelectRows, CountAgain, auditVars

LEMMA ChainInvInit ==
  ASSUME AuditInit
  PROVE  ChainInv
  <1>1. life = 1 /\ logged = <<>> /\ lastHash = <<>> /\ table = {}
    BY DEF AuditInit
  <1>2. <<>> \in Seq(LogEntries) /\ Len(<<>>) = 0
    OBVIOUS
  <1> QED BY <1>1, <1>2, AuditBounds DEF ChainInv, LinkOf

\* One entry is linked to another that came before it exactly when it is the next
\* one, and of the same life.
LEMMA LinkedIsNext ==
  ASSUME ChainInv, NEW t \in 1..Len(logged), NEW u \in 1..Len(logged), t < u
  PROVE  logged[u].prev = logged[t].hash <=> u = t + 1 /\ logged[u].life = logged[t].life
  <1>1. ASSUME NEW v \in 1..Len(logged)
        PROVE  /\ logged[v].prev \in Seq(Links) /\ logged[v].life \in 1..MaxLives
               /\ <<logged[v].life, v - 1, logged[v].entry>> \in Links
               /\ logged[v].hash = Append(logged[v].prev, <<logged[v].life, v - 1, logged[v].entry>>)
    <2>1. logged[v] \in LogEntries /\ MaxLives \in Nat /\ Len(logged) \in Nat
      BY AuditBounds DEF ChainInv
    <2>2. /\ logged[v].prev \in Seq(Links) /\ logged[v].life \in 1..MaxLives
          /\ logged[v].entry \in Entries
      BY <2>1 DEF LogEntries
    <2>3. <<logged[v].life, v - 1, logged[v].entry>> \in Links
      <3>1. logged[v].life \in Nat /\ v - 1 \in Nat
        BY <2>1, <2>2
      <3> QED BY <2>2, <3>1 DEF Links
    <2> QED BY <2>2, <2>3 DEF ChainInv, ChainAt
  <1>2. ASSUME NEW v \in 1..Len(logged)
        PROVE  /\ Len(logged[v].hash) > 0
               /\ logged[v].hash[Len(logged[v].hash)] = <<logged[v].life, v - 1, logged[v].entry>>
    <2> DEFINE link == <<logged[v].life, v - 1, logged[v].entry>>
    <2>1. logged[v].prev \in Seq(Links) /\ link \in Links /\ logged[v].hash = Append(logged[v].prev, link)
      BY <1>1
    <2> HIDE DEF link
    <2>2. Len(logged[v].prev) \in Nat /\ Len(logged[v].hash) = Len(logged[v].prev) + 1
      BY <2>1, AppendProperties
    <2>3. logged[v].hash[Len(logged[v].prev) + 1] = link
      BY <2>1, AppendProperties
    <2>4. Len(logged[v].hash) > 0 /\ logged[v].hash[Len(logged[v].hash)] = link
      BY <2>2, <2>3
    <2> QED BY <2>4 DEF link
  <1>3. \A v, w \in 1..Len(logged) : logged[v].hash = logged[w].hash => v = w
    <2> SUFFICES ASSUME NEW v \in 1..Len(logged), NEW w \in 1..Len(logged),
                        logged[v].hash = logged[w].hash
                 PROVE  v = w
      OBVIOUS
    <2>1. <<logged[v].life, v - 1, logged[v].entry>> = <<logged[w].life, w - 1, logged[w].entry>>
      BY <1>2
    <2>2. v - 1 = w - 1
      BY <2>1
    <2> QED BY <2>2
  <1>4. logged[u].prev = IF logged[u - 1].life = logged[u].life THEN logged[u - 1].hash ELSE <<>>
    BY DEF ChainInv, ChainAt, LinkOf
  <1>5. logged[t].hash # <<>>
    BY <1>2
  <1>6. u - 1 \in 1..Len(logged)
    BY DEF ChainInv
  <1> QED BY <1>3, <1>4, <1>5, <1>6

\* Of the two ways to say it, VerifyChain takes the entries in their order.
LEMMA ChainOfTimes ==
  ASSUME ChainInv, NEW times \in SUBSET (1..Len(logged))
  PROVE  VerifyChain(InOrder(times)) <=>
            \A t, u \in times : t < u =>
                logged[t].life = logged[u].life /\ t..u \subseteq times
  <1> DEFINE n == Cardinality(times)
             E == Ascending(times)
             entries == InOrder(times)
  <1>1. /\ Len(logged) \in Nat /\ times \in SUBSET Nat /\ IsFiniteSet(times)
    <2>1. Len(logged) \in Nat /\ IsFiniteSet(1..Len(logged))
      BY FS_Interval DEF ChainInv
    <2>2. IsFiniteSet(times)
      BY <2>1, FS_Subset
    <2> QED BY <2>1, <2>2
  <1>2. /\ n \in Nat /\ E \in [1..n -> times]
        /\ \A i, j \in 1..n : i < j => E[i] < E[j]
        /\ \A t \in times : \E i \in 1..n : E[i] = t
    BY <1>1, AscendingIsSorted
  <1>3. entries = [i \in 1..n |-> logged[E[i]]]
    <2>1. DOMAIN E = 1..n
      BY <1>2
    <2> QED BY <2>1 DEF InOrder
  <1> HIDE DEF E
  <1>4. Len(entries) = n /\ \A i \in 1..n : entries[i] = logged[E[i]]
    <2> HIDE DEF entries
    <2> QED BY <1>2, <1>3
  <1> HIDE DEF entries
  <1>5. \A i \in 2..n : i \in 1..n /\ i - 1 \in 1..n /\ E[i - 1] < E[i]
                        /\ E[i] \in times /\ E[i - 1] \in times
    <2> SUFFICES ASSUME NEW i \in 2..n
                 PROVE  i \in 1..n /\ i - 1 \in 1..n /\ E[i - 1] < E[i]
                        /\ E[i] \in times /\ E[i - 1] \in times
      OBVIOUS
    <2>1. i \in 1..n /\ i - 1 \in 1..n /\ i - 1 < i
      BY <1>2
    <2> QED BY <2>1, <1>2
  <1>6. VerifyChain(entries) <=>
            \A i \in 2..n : E[i] = E[i - 1] + 1 /\ logged[E[i]].life = logged[E[i - 1]].life
    <2>1. VerifyChain(entries) <=> \A i \in 2..n : logged[E[i]].prev = logged[E[i - 1]].hash
      BY <1>4, <1>5 DEF VerifyChain
    <2>2. ASSUME NEW i \in 2..n
          PROVE  logged[E[i]].prev = logged[E[i - 1]].hash <=>
                    E[i] = E[i - 1] + 1 /\ logged[E[i]].life = logged[E[i - 1]].life
      <3>1. E[i] \in 1..Len(logged) /\ E[i - 1] \in 1..Len(logged) /\ E[i - 1] < E[i]
        BY <1>5
      <3> QED BY <3>1, LinkedIsNext
    <2> QED BY <2>1, <2>2
  <1>7. ASSUME \A i \in 2..n : E[i] = E[i - 1] + 1 /\ logged[E[i]].life = logged[E[i - 1]].life,
               NEW t \in times, NEW u \in times, t < u
        PROVE  logged[t].life = logged[u].life /\ t..u \subseteq times
    <2> DEFINE Bad == {v \in t..u : ~(v \in times /\ logged[v].life = logged[t].life)}
    <2>1. CASE Bad = {}
      <3>1. u \in t..u
        BY <1>1, <1>7
      <3> QED BY <2>1, <3>1
    <2>2. CASE Bad # {}
      <3>1. Bad \subseteq Nat
        BY <1>1
      <3>2. PICK v \in Bad : \A w \in Bad : v <= w
        <4> HIDE DEF Bad
        <4> QED BY <2>2, <3>1, LeastNatural
      <3>3. v \in t..u /\ v # t /\ v - 1 \in t..u /\ v - 1 < v /\ v \in Nat
        BY <1>1, <3>2
      <3>4. v - 1 \in times /\ logged[v - 1].life = logged[t].life
        <4>1. ~(v <= v - 1)
          BY <3>3
        <4>2. v - 1 \notin Bad
          BY <3>2, <4>1
        <4> QED BY <3>3, <4>2
      <3>5. PICK i \in 1..n : E[i] = v - 1
        BY <3>4, <1>2
      <3>6. PICK j \in 1..n : E[j] = u
        BY <1>2
      <3>7. i < j
        <4>1. v - 1 < u /\ u \in Nat
          BY <1>1, <3>3
        <4>2. i # j
          BY <3>5, <3>6, <3>3, <4>1
        <4>3. ~(j < i)
          <5>1. j < i => u < v - 1
            BY <1>2, <3>5, <3>6
          <5> QED BY <5>1, <3>3, <4>1
        <4> QED BY <4>2, <4>3, <1>2
      <3>8. i + 1 \in 2..n /\ (i + 1) - 1 = i /\ i + 1 \in 1..n
        BY <1>2, <3>7
      <3>9. E[i + 1] = E[i] + 1 /\ logged[E[i + 1]].life = logged[E[i]].life /\ E[i + 1] \in times
        <4>1. E[i + 1] = E[(i + 1) - 1] + 1 /\ logged[E[i + 1]].life = logged[E[(i + 1) - 1]].life
          BY <3>8, <1>7
        <4>2. E[i + 1] \in times
          BY <3>8, <1>2
        <4> QED BY <3>8, <4>1, <4>2
      <3>10. E[i + 1] = v
        BY <3>3, <3>5, <3>9
      <3> QED BY <3>2, <3>4, <3>5, <3>9, <3>10
    <2> QED BY <2>1, <2>2
  <1>8. ASSUME \A t, u \in times : t < u => logged[t].life = logged[u].life /\ t..u \subseteq times,
               NEW i \in 2..n
        PROVE  E[i] = E[i - 1] + 1 /\ logged[E[i]].life = logged[E[i - 1]].life
    <2> DEFINE t == E[i - 1]
               u == E[i]
    <2>1. t \in times /\ u \in times /\ t < u /\ t \in Nat /\ u \in Nat
      BY <1>1, <1>5
    <2>2. logged[t].life = logged[u].life /\ t..u \subseteq times
      BY <1>8, <2>1
    <2>3. ASSUME u # t + 1 PROVE FALSE
      <3>1. t + 1 \in t..u /\ t < t + 1 /\ t + 1 < u
        BY <2>1, <2>3
      <3>2. PICK j \in 1..n : E[j] = t + 1
        BY <2>2, <3>1, <1>2
      <3>3. i - 1 \in 1..n /\ i \in 1..n
        BY <1>5
      <3>4. ~(j < i - 1) /\ j # i - 1
        <4>1. j < i - 1 => t + 1 < t
          BY <3>2, <3>3, <1>2
        <4> QED BY <4>1, <3>1, <3>2, <2>1
      <3>5. ~(i < j) /\ j # i
        <4>1. i < j => u < t + 1
          BY <3>2, <3>3, <1>2
        <4>2. ~(u < t + 1)
          BY <3>1, <2>1
        <4>3. j = i => u = t + 1
          BY <3>2
        <4> QED BY <4>1, <4>2, <4>3, <2>3
      <3> QED BY <3>2, <3>3, <3>4, <3>5, <1>2
    <2> QED BY <2>2, <2>3
  <1> QED BY <1>6, <1>7, <1>8 DEF entries

\* What is read back has lost its links.
LEMMA ScannedIsUnlinked ==
  ASSUME ChainInv, NEW n \in Nat, n > 1, NEW E \in [1..n -> 1..Len(logged)]
  PROVE  ~VerifyChain([i \in 1..n |-> Scan(E[i])])
  <1> DEFINE rows == [i \in 1..n |-> Scan(E[i])]
  <1>1. 1 \in 1..n /\ 2 \in 2..n /\ 2 \in 1..n /\ 2 - 1 = 1
    OBVIOUS
  <1>2. logged[E[1]] \in LogEntries /\ logged[E[2]] \in LogEntries
    BY <1>1 DEF ChainInv
  <1>3. rows[1] = Scan(E[1]) /\ rows[2] = Scan(E[2]) /\ Len(rows) = n
    BY <1>1
  <1> HIDE DEF rows
  <1>4. rows[2].prev = Nil /\ rows[1].hash \in Seq(Links)
    BY <1>2, <1>3 DEF Scan, LogEntries
  <1>5. rows[2].prev # rows[1].hash
    BY <1>4, LinkAssumption DEF Links
  <1>6. ~VerifyChain(rows)
    BY <1>1, <1>3, <1>5 DEF VerifyChain
  <1> QED BY <1>6 DEF rows

LEMMA TableFacts ==
  ASSUME ChainInv, NEW times \in SUBSET table
  PROVE  /\ times \in SUBSET Nat /\ times \subseteq 1..Len(logged)
         /\ IsFiniteSet(times) /\ Cardinality(times) \in Nat
  <1>1. Len(logged) \in Nat /\ times \subseteq 1..Len(logged)
    BY DEF ChainInv
  <1>2. IsFiniteSet(1..Len(logged))
    BY <1>1, FS_Interval
  <1>3. IsFiniteSet(times) /\ Cardinality(times) \in Nat
    BY <1>1, <1>2, CountFewer
  <1> QED BY <1>1, <1>3

LEMMA NothingReadVerifies ==
  ASSUME ChainInv, NEW rows \in SUBSET table, NEW time, NEW seq \in Listings(rows, time),
         Len(ScanAll(seq)) > 1
  PROVE  ~VerifyChain(ScanAll(seq))
  <1> DEFINE n == Cardinality(rows)
  <1>1. rows \subseteq 1..Len(logged) /\ n \in Nat
    BY TableFacts
  <1>2. seq \in [1..n -> rows]
    BY TableFacts, ListingFacts
  <1> HIDE DEF n
  <1>3. seq \in [1..n -> 1..Len(logged)] /\ DOMAIN seq = 1..n
    BY <1>1, <1>2
  <1>4. ScanAll(seq) = [i \in 1..n |-> Scan(seq[i])]
    BY <1>3 DEF ScanAll
  <1>5. n > 1
    BY <1>1, <1>4
  <1> QED BY <1>1, <1>3, <1>4, <1>5, ScannedIsUnlinked

LEMMA ChainInvImplies ==
  ASSUME ChainInv
  PROVE  ChainShowsGaps
  <1>1. DOMAIN logged = 1..Len(logged)
    BY DEF ChainInv
  <1>2. \A places \in SUBSET DOMAIN logged :
          VerifyChain(InOrder(places)) <=>
              \A t, u \in places : t < u =>
                  logged[t].life = logged[u].life /\ t..u \subseteq places
    BY <1>1, ChainOfTimes
  <1>3. ASSUME NEW c, NEW read \in Correlated(c), Len(read) > 1 PROVE ~VerifyChain(read)
    <2> DEFINE rows == {t \in table : logged[t].entry.correlation = c}
    <2>1. PICK seq \in Listings(rows, Age) : read = ScanAll(seq)
      BY <1>3 DEF Correlated
    <2>2. rows \in SUBSET table
      OBVIOUS
    <2> HIDE DEF rows
    <2> QED BY <1>3, <2>1, <2>2, NothingReadVerifies
  <1>4. ASSUME NEW read \in Exports(Nil, "json"), Len(read) > 1 PROVE ~VerifyChain(read)
    <2>1. PICK seq \in Listings(Matching(Nil), Stamp) : read = ScanAll(seq)
      BY <1>4 DEF Exports
    <2>2. Matching(Nil) \in SUBSET table
      BY DEF Matching
    <2> QED BY <1>4, <2>1, <2>2, NothingReadVerifies
  <1> QED BY <1>2, <1>3, <1>4 DEF ChainShowsGaps

\* The reader's actors, and what it is asked for.
Readers ==
    [actor : {Nil} \cup {e.actor : e \in Entries}, limit : Nat,
     phase : {"idle", "counted", "paged", "read"}, total : Nat, rows : Seq(Nat), there : SUBSET Nat]

MatchingIn(rows, log, actor) == {t \in rows : actor \in {Nil, log[t].entry.actor}}

Newer(M, time, t) == {u \in M : time[u] > time[t]}

\* A reader r of a table T in which M matches: of what was there when it began, what
\* it has not seen is as far down as the rows it has, if its place is given.
ReaderOf(r, M, T, time) ==
    /\ r \in Readers
    /\ r.phase = "idle" => r = NoReader
    /\ r.there \subseteq M /\ ToSet(r.rows) \subseteq M /\ r.total <= Cardinality(M)
    /\ r.phase \in {"counted", "paged"} =>
          /\ \A t \in (r.there \ ToSet(r.rows)) \cap Untied(T, time) :
                Cardinality(Newer(M, time, t)) >= Len(r.rows)
          /\ r.limit = 0 => r.rows = <<>>
    /\ r.phase = "read" =>
          /\ r.there \cap Untied(T, time) \subseteq ToSet(r.rows)
          /\ r.limit = 0 => r.there \subseteq ToSet(r.rows)

ReaderInv == ReaderOf(reader, MatchingIn(table, logged, reader.actor), table, Stamp)

LEMMA ReaderOfMore ==
  ASSUME NEW M, NEW N, IsFiniteSet(N), M \subseteq N, NEW T, NEW S, M \subseteq T, T \subseteq S,
         NEW time, NEW later, \A t \in T : later[t] = time[t],
         NEW r, ReaderOf(r, M, T, time)
  PROVE  ReaderOf(r, N, S, later)
  <1>1. /\ r \in Readers /\ r.total \in Nat /\ r.total <= Cardinality(M) /\ Len(r.rows) \in Nat
        /\ r.there \subseteq M /\ ToSet(r.rows) \subseteq M
    BY DEF ReaderOf, Readers
  <1>2. /\ Cardinality(M) <= Cardinality(N) /\ Cardinality(M) \in Nat /\ Cardinality(N) \in Nat
    BY CountFewer
  <1>3. Untied(S, later) \cap T \subseteq Untied(T, time)
    BY DEF Untied
  <1>4. ASSUME r.phase \in {"counted", "paged"},
               NEW t \in (r.there \ ToSet(r.rows)) \cap Untied(S, later)
        PROVE  Cardinality(Newer(N, later, t)) >= Len(r.rows)
    <2>1. t \in T /\ t \in (r.there \ ToSet(r.rows)) \cap Untied(T, time)
      BY <1>1, <1>3
    <2>2. Cardinality(Newer(M, time, t)) >= Len(r.rows)
      BY <1>4, <2>1 DEF ReaderOf
    <2>3. IsFiniteSet(Newer(N, later, t)) /\ Newer(M, time, t) \subseteq Newer(N, later, t)
      <3>1. Newer(N, later, t) \subseteq N
        BY DEF Newer
      <3>2. IsFiniteSet(Newer(N, later, t))
        BY <3>1, CountFewer
      <3>3. ASSUME NEW u \in Newer(M, time, t) PROVE u \in Newer(N, later, t)
        BY <2>1 DEF Newer
      <3> QED BY <3>2, <3>3
    <2>4. /\ Cardinality(Newer(M, time, t)) <= Cardinality(Newer(N, later, t))
          /\ Cardinality(Newer(M, time, t)) \in Nat /\ Cardinality(Newer(N, later, t)) \in Nat
      BY <2>3, CountFewer
    <2> QED BY <1>1, <2>2, <2>4
  <1>5. r.total <= Cardinality(N)
    BY <1>1, <1>2
  <1>6. r.phase = "read" => r.there \cap Untied(S, later) \subseteq ToSet(r.rows)
    BY <1>1, <1>3 DEF ReaderOf
  <1>7. r.there \subseteq N /\ ToSet(r.rows) \subseteq N
    BY <1>1
  <1> QED BY <1>1, <1>4, <1>5, <1>6, <1>7 DEF ReaderOf

\* The place of a row whose time no other has.
LEMMA UntiedPlace ==
  ASSUME NEW rows, IsFiniteSet(rows), NEW time, \A r \in rows : time[r] \in Nat,
         NEW seq \in Listings(rows, time), NEW t \in Untied(rows, time)
  PROVE  \E i \in 1..Cardinality(rows) : seq[i] = t /\ Cardinality(Newer(rows, time, t)) = i - 1
  <1> DEFINE n == Cardinality(rows)
  <1>1. /\ n \in Nat /\ seq \in [1..n -> rows]
        /\ \A i, j \in 1..n : i < j => seq[i] # seq[j] /\ time[seq[i]] >= time[seq[j]]
        /\ \A r \in rows : \E i \in 1..n : seq[i] = r
    BY ListingFacts
  <1>2. t \in rows /\ \A u \in rows : u # t => time[u] # time[t]
    BY DEF Untied
  <1>3. PICK i \in 1..n : seq[i] = t
    BY <1>1, <1>2
  <1>4. i - 1 \in Nat /\ i - 1 <= n /\ \A j \in 1..(i - 1) : j \in 1..n /\ j < i
    BY <1>1, <1>3
  <1>5. Cardinality(Firsts(seq, i - 1)) = i - 1
    BY <1>4, FirstsOfListing
  <1> HIDE DEF n
  <1>6. ASSUME NEW j \in 1..(i - 1) PROVE seq[j] \in Newer(rows, time, t)
    <2>1. seq[j] \in rows /\ seq[j] # t /\ time[seq[j]] >= time[t]
      BY <1>1, <1>3, <1>4
    <2>2. time[seq[j]] # time[t] /\ time[seq[j]] \in Nat /\ time[t] \in Nat
      BY <1>2, <2>1
    <2> QED BY <2>1, <2>2 DEF Newer
  <1>7. ASSUME NEW u \in Newer(rows, time, t) PROVE u \in Firsts(seq, i - 1)
    <2>1. u \in rows /\ time[u] > time[t] /\ time[u] \in Nat /\ time[t] \in Nat
      BY <1>2 DEF Newer
    <2>2. PICK j \in 1..n : seq[j] = u
      BY <1>1, <2>1
    <2>3. ~(i < j) /\ j # i
      <3>1. i < j => time[t] >= time[u]
        BY <1>1, <1>3, <2>2
      <3>2. ~(time[t] >= time[u]) /\ u # t
        BY <2>1
      <3> QED BY <3>1, <3>2, <1>3, <2>2
    <2>4. j \in 1..(i - 1)
      BY <1>1, <2>3
    <2> QED BY <2>2, <2>4 DEF Firsts
  <1>8. Newer(rows, time, t) = Firsts(seq, i - 1)
    BY <1>6, <1>7 DEF Firsts
  <1> QED BY <1>3, <1>5, <1>8 DEF n

LEMMA ConcatElements ==
  ASSUME NEW S, NEW s \in Seq(S), NEW t \in Seq(S)
  PROVE  /\ s \o t \in Seq(S) /\ Len(s \o t) = Len(s) + Len(t) /\ Len(t) \in Nat
         /\ ToSet(s \o t) = ToSet(s) \cup ToSet(t)
  <1> DEFINE both == s \o t
             k == Len(s)
             m == Len(t)
  <1>1. /\ both \in Seq(S) /\ Len(both) = k + m
        /\ \A i \in 1..(k + m) : both[i] = IF i <= k THEN s[i] ELSE t[i - k]
    BY ConcatProperties
  <1> HIDE DEF both
  <1>2. /\ k \in Nat /\ m \in Nat
        /\ DOMAIN both = 1..(k + m) /\ DOMAIN s = 1..k /\ DOMAIN t = 1..m
    BY <1>1, LenProperties
  <1> HIDE DEF k, m
  <1>3. ASSUME NEW i \in 1..(k + m) PROVE both[i] \in ToSet(s) \cup ToSet(t)
    <2>1. CASE i <= k
      <3>1. i \in 1..k
        BY <1>2, <2>1
      <3> QED BY <1>1, <1>2, <2>1, <3>1 DEF ToSet
    <2>2. CASE ~(i <= k)
      <3>1. i - k \in 1..m
        BY <1>2, <2>2
      <3> QED BY <1>1, <1>2, <2>2, <3>1 DEF ToSet
    <2> QED BY <2>1, <2>2
  <1>4. ASSUME NEW i \in 1..k PROVE s[i] \in ToSet(both)
    <2>1. i \in 1..(k + m) /\ i <= k
      BY <1>2
    <2> QED BY <1>1, <1>2, <2>1 DEF ToSet
  <1>5. ASSUME NEW i \in 1..m PROVE t[i] \in ToSet(both)
    <2>1. k + i \in 1..(k + m) /\ ~(k + i <= k) /\ (k + i) - k = i
      BY <1>2
    <2>2. both[k + i] = t[i]
      BY <1>1, <2>1
    <2> QED BY <1>2, <2>1, <2>2 DEF ToSet
  <1>6. ToSet(both) = ToSet(s) \cup ToSet(t)
    <2>1. ToSet(both) \subseteq ToSet(s) \cup ToSet(t)
      BY <1>2, <1>3 DEF ToSet
    <2>2. ToSet(s) \subseteq ToSet(both) /\ ToSet(t) \subseteq ToSet(both)
      BY <1>2, <1>4, <1>5 DEF ToSet
    <2> QED BY <2>1, <2>2
  <1> QED BY <1>1, <1>2, <1>6 DEF both, k, m

\* The page a reader gets next, of the rows that match.
PageOf(r, found) ==
    LET end == IF r.limit = 0 THEN Len(found) ELSE Len(r.rows) + r.limit
    IN  SubSeq(found, Len(r.rows) + 1, IF end > Len(found) THEN Len(found) ELSE end)

Turned(r, found) ==
    LET page == PageOf(r, found)
    IN  [r EXCEPT !.rows = r.rows \o page,
                  !.phase = IF Len(page) = r.limit /\ page # <<>> THEN "paged" ELSE "read"]

LEMMA ReaderOfNext ==
  ASSUME NEW M, IsFiniteSet(M), M \subseteq Nat, NEW T, M \subseteq T,
         NEW time, \A t \in M : time[t] \in Nat, NEW found \in Listings(M, time),
         NEW r, ReaderOf(r, M, T, time), r.phase = "counted"
  PROVE  ReaderOf(Turned(r, found), M, T, time)
  <1> DEFINE page == PageOf(r, found)
             s == Turned(r, found)
             n == Cardinality(M)
             k == Len(r.rows)
             end == IF r.limit = 0 THEN n ELSE k + r.limit
             last == IF end > n THEN n ELSE end
  <1>1. /\ n \in Nat /\ found \in [1..n -> M]
        /\ \A t \in M : \E i \in 1..n : found[i] = t
    BY ListingFacts
  <1>2. Len(found) = n
    BY <1>1
  <1>3. page = SubSeq(found, k + 1, last)
    BY <1>2 DEF PageOf
  <1> HIDE DEF page
  <1>4. r \in Readers /\ r.rows \in Seq(Nat) /\ k \in Nat /\ r.limit \in Nat /\ end \in Nat /\ last \in 0..n
    BY <1>1 DEF ReaderOf, Readers
  <1>5. \A i \in 1..n : found[i] \in Nat /\ found[i] \in M
    BY <1>1
  <1> HIDE DEF end, last, n
  <1>6. /\ page \in Seq(M) /\ Len(page) = (IF k + 1 <= last THEN last - (k + 1) + 1 ELSE 0)
        /\ \A i \in 1..(last - (k + 1) + 1) : page[i] = found[k + 1 + i - 1]
    <2>1. \A i \in (k + 1)..last : found[i] \in M
      BY <1>1, <1>4, <1>5
    <2>2. k + 1 \in Int /\ last \in Int
      BY <1>4, <1>1
    <2>3. /\ SubSeq(found, k + 1, last) \in Seq(M)
          /\ Len(SubSeq(found, k + 1, last)) = (IF k + 1 <= last THEN last - (k + 1) + 1 ELSE 0)
          /\ \A i \in 1..(last - (k + 1) + 1) : SubSeq(found, k + 1, last)[i] = found[k + 1 + i - 1]
      <3> HIDE DEF k
      <3> QED BY <2>1, <2>2, SubSeqProperties
    <2> QED BY <2>3, <1>3
  <1>7. page \in Seq(Nat)
    BY <1>6, SeqMonotonic
  <1>8. /\ r.rows \o page \in Seq(Nat) /\ Len(r.rows \o page) = k + Len(page) /\ Len(page) \in Nat
        /\ ToSet(r.rows \o page) = ToSet(r.rows) \cup ToSet(page)
    BY <1>4, <1>7, ConcatElements
  <1>9. ToSet(page) \subseteq M
    BY <1>6 DEF ToSet
  <1>10. ASSUME NEW t \in (r.there \ ToSet(r.rows \o page)) \cap Untied(T, time)
         PROVE  /\ Cardinality(Newer(M, time, t)) \in Nat /\ Cardinality(Newer(M, time, t)) < n
                /\ Cardinality(Newer(M, time, t)) >= k /\ Cardinality(Newer(M, time, t)) >= last
    <2>1. /\ t \in M /\ t \in (r.there \ ToSet(r.rows)) \cap Untied(T, time) /\ t \notin ToSet(page)
          /\ t \in Untied(M, time)
      BY <1>8 DEF ReaderOf, Untied
    <2>2. PICK i \in 1..n : found[i] = t /\ Cardinality(Newer(M, time, t)) = i - 1
      BY <2>1, UntiedPlace DEF n
    <2>3. Cardinality(Newer(M, time, t)) = i - 1
      BY <2>2
    <2>4. i - 1 >= k
      BY <2>1, <2>3 DEF ReaderOf
    <2>5. ASSUME i <= last PROVE FALSE
      <3> DEFINE j == i - k
      <3>1. i \in Nat /\ k \in Nat /\ last \in Nat
        BY <1>1, <1>4
      <3>2. j \in 1..(last - (k + 1) + 1) /\ k + 1 + j - 1 = i /\ k + 1 <= last
        <4> HIDE DEF k
        <4> QED BY <2>4, <2>5, <3>1
      <3> HIDE DEF j
      <3>3. page[j] = t /\ j \in 1..Len(page)
        BY <1>6, <2>2, <3>2
      <3>4. t \in ToSet(page)
        BY <1>7, <3>3 DEF ToSet
      <3> QED BY <2>1, <3>4
    <2> QED BY <1>1, <1>4, <2>3, <2>4, <2>5
  <1>11. /\ s \in Readers /\ s.rows = r.rows \o page /\ s.there = r.there /\ s.total = r.total
         /\ s.limit = r.limit /\ s.phase = IF Len(page) = r.limit /\ page # <<>> THEN "paged" ELSE "read"
    <2>1. s = [r EXCEPT !.rows = r.rows \o page,
                        !.phase = IF Len(page) = r.limit /\ page # <<>> THEN "paged" ELSE "read"]
      BY DEF Turned, page
    <2> HIDE DEF s
    <2> QED BY <1>4, <1>8, <2>1 DEF Readers
  <1> HIDE DEF s
  <1>12. ASSUME s.phase = "paged", NEW t \in (r.there \ ToSet(r.rows \o page)) \cap Untied(T, time)
         PROVE  Cardinality(Newer(M, time, t)) >= Len(r.rows \o page)
    <2> DEFINE c == Cardinality(Newer(M, time, t))
    <2>1. c \in Nat /\ c >= k /\ c >= last
      BY <1>10, <1>12
    <2>2. Len(r.rows \o page) = k + (IF k + 1 <= last THEN last - (k + 1) + 1 ELSE 0)
      BY <1>6, <1>8
    <2>3. k \in Nat /\ last \in Nat
      BY <1>1, <1>4
    <2> HIDE DEF c, k
    <2>4. c >= k + (IF k + 1 <= last THEN last - (k + 1) + 1 ELSE 0)
      BY <2>1, <2>3
    <2> QED BY <2>2, <2>4 DEF c
  <1>13. ASSUME s.phase = "read", NEW t \in (r.there \ ToSet(r.rows \o page)) \cap Untied(T, time) PROVE FALSE
    <2>1. /\ Cardinality(Newer(M, time, t)) \in Nat /\ Cardinality(Newer(M, time, t)) < n
          /\ Cardinality(Newer(M, time, t)) >= k /\ Cardinality(Newer(M, time, t)) >= last
      BY <1>10, <1>13
    <2>2. r.limit # 0 /\ end <= n /\ last = k + r.limit
      BY <1>1, <1>4, <2>1 DEF end, last
    <2>3. Len(page) = r.limit
      <3>1. Len(page) = (IF k + 1 <= last THEN last - (k + 1) + 1 ELSE 0)
        BY <1>6
      <3>2. k \in Nat /\ r.limit \in Nat
        BY <1>4
      <3> HIDE DEF k
      <3> QED BY <2>2, <3>1, <3>2
    <2>4. page # <<>>
      BY <2>2, <2>3, EmptySeq
    <2> QED BY <1>11, <1>13, <2>3, <2>4
  <1>14. r.limit = 0 => s.phase = "read" /\ r.there \subseteq ToSet(r.rows \o page)
    <2> SUFFICES ASSUME r.limit = 0 PROVE s.phase = "read" /\ r.there \subseteq ToSet(r.rows \o page)
      OBVIOUS
    <2>1. r.rows = <<>> /\ k = 0
      BY DEF ReaderOf
    <2>2. last = n
      BY <1>1 DEF end, last
    <2>3. Len(page) = n
      BY <1>1, <1>6, <2>1, <2>2
    <2>4. page = <<>> \/ Len(page) # 0
      BY <1>6, EmptySeq
    <2>5. s.phase = "read"
      BY <1>11, <2>4
    <2>6. ASSUME NEW t \in r.there PROVE t \in ToSet(page)
      <3>1. PICK i \in 1..n : found[i] = t
        BY <1>1 DEF ReaderOf
      <3>2. i \in 1..(last - (k + 1) + 1) /\ k + 1 + i - 1 = i
        BY <1>1, <2>1, <2>2
      <3>3. page[i] = t /\ i \in 1..Len(page)
        BY <1>6, <2>3, <3>1, <3>2
      <3> QED BY <1>7, <3>3 DEF ToSet
    <2> QED BY <1>8, <2>5, <2>6
  <1>15. s.phase \in {"paged", "read"}
    BY <1>11
  <1>16. r.there \subseteq M /\ ToSet(r.rows \o page) \subseteq M /\ r.total <= Cardinality(M)
    BY <1>8, <1>9 DEF ReaderOf
  <1>17. s.phase = "read" => r.there \cap Untied(T, time) \subseteq ToSet(r.rows \o page)
    BY <1>13
  <1>18. ReaderOf(s, M, T, time)
    BY <1>11, <1>12, <1>14, <1>15, <1>16, <1>17 DEF ReaderOf
  <1> QED BY <1>18 DEF s

LEMMA MatchingFacts ==
  ASSUME ChainInv, NEW actor
  PROVE  /\ MatchingIn(table, logged, actor) = Matching(actor)
         /\ Matching(actor) \in SUBSET Nat /\ Matching(actor) \subseteq table
         /\ IsFiniteSet(Matching(actor)) /\ Cardinality(Matching(actor)) \in Nat
  <1>1. Matching(actor) \in SUBSET table
    BY DEF Matching
  <1> QED BY <1>1, TableFacts DEF Matching, MatchingIn

LEMMA ReaderSitsStill ==
  ASSUME ChainInv, ReaderInv, [AuditNext]_auditVars, reader' = reader
  PROVE  ReaderInv'
  <1> DEFINE M == MatchingIn(table, logged, reader.actor)
             N == MatchingIn(table', logged', reader.actor)
  <1>1. /\ ChainInv' /\ table \subseteq table' /\ table \subseteq 1..Len(logged)
        /\ \A t \in 1..Len(logged) : logged'[t] = logged[t]
    BY ChainInvStep DEF ChainInv
  <1>2. M \subseteq N
    BY <1>1 DEF MatchingIn
  <1>3. IsFiniteSet(N)
    <2>1. Len(logged') \in Nat /\ table' \subseteq 1..Len(logged')
      BY <1>1 DEF ChainInv
    <2>2. N \subseteq 1..Len(logged')
      BY <2>1 DEF MatchingIn
    <2>3. IsFiniteSet(N)
      <3>1. IsFiniteSet(1..Len(logged'))
        BY <2>1, FS_Interval
      <3> HIDE DEF N
      <3> QED BY <2>2, <3>1, CountFewer
    <2> QED BY <2>3
  <1>4. M \subseteq table /\ \A t \in table : Stamp'[t] = Stamp[t]
    <2>1. M \subseteq table
      BY DEF MatchingIn
    <2>2. ASSUME NEW t \in table PROVE Stamp'[t] = Stamp[t]
      <3>1. /\ t \in 1..Len(logged) /\ DOMAIN logged = 1..Len(logged)
            /\ t \in 1..Len(logged') /\ DOMAIN logged' = 1..Len(logged')
        BY <1>1 DEF ChainInv
      <3> QED BY <1>1, <3>1 DEF Stamp
    <2> QED BY <2>1, <2>2
  <1> HIDE DEF M, N
  <1>5. ReaderOf(reader, N, table', Stamp')
    <2>1. ReaderOf(reader, M, table, Stamp)
      BY DEF ReaderInv, M
    <2> QED BY <1>1, <1>2, <1>3, <1>4, <2>1, ReaderOfMore
  <1>6. MatchingIn(table', logged', reader'.actor) = N
    BY DEF N
  <1> QED BY <1>5, <1>6 DEF ReaderInv

LEMMA CountRowsKeepsReader ==
  ASSUME ChainInv, ReaderInv, NEW actor \in {Nil} \cup {e.actor : e \in Entries}, NEW limit \in Limits,
         CountRows(actor, limit)
  PROVE  ReaderInv'
  <1>1. /\ reader' = [actor |-> actor, limit |-> limit, phase |-> "counted",
                      total |-> Cardinality(Matching(actor)), rows |-> <<>>, there |-> Matching(actor)]
        /\ table' = table /\ logged' = logged /\ Stamp' = Stamp
    BY DEF CountRows, Stamp
  <1> DEFINE M == Matching(actor)
  <1>2. /\ M \in SUBSET Nat /\ IsFiniteSet(M) /\ Cardinality(M) \in Nat
        /\ MatchingIn(table, logged, actor) = M
    BY MatchingFacts
  <1> HIDE DEF M
  <1>3. reader' \in Readers
    BY <1>1, <1>2, LimitsAssumption DEF Readers, M
  <1>4. /\ reader'.phase = "counted" /\ reader'.there = M /\ reader'.total = Cardinality(M)
        /\ reader'.rows = <<>> /\ reader'.actor = actor
    BY <1>1 DEF M
  <1>5. ToSet(reader'.rows) = {} /\ Len(reader'.rows) = 0
    BY <1>4 DEF ToSet
  <1>6. \A t \in M : Cardinality(Newer(M, Stamp, t)) >= 0
    <2> SUFFICES ASSUME NEW t \in M PROVE Cardinality(Newer(M, Stamp, t)) >= 0
      OBVIOUS
    <2>1. Newer(M, Stamp, t) \subseteq M
      BY DEF Newer
    <2>2. Cardinality(Newer(M, Stamp, t)) \in Nat
      BY <1>2, <2>1, CountFewer
    <2> QED BY <2>2
  <1>7. /\ reader'.there \subseteq M /\ ToSet(reader'.rows) \subseteq M
        /\ reader'.total <= Cardinality(M)
    BY <1>2, <1>4, <1>5
  <1>8. \A t \in (reader'.there \ ToSet(reader'.rows)) \cap Untied(table, Stamp) :
           Cardinality(Newer(M, Stamp, t)) >= Len(reader'.rows)
    BY <1>4, <1>5, <1>6
  <1>9. ReaderOf(reader', M, table, Stamp)
    BY <1>3, <1>4, <1>7, <1>8 DEF ReaderOf
  <1>10. MatchingIn(table', logged', reader'.actor) = M
    BY <1>1, <1>2, <1>4
  <1> QED BY <1>1, <1>9, <1>10 DEF ReaderInv

LEMMA SelectRowsKeepsReader ==
  ASSUME ChainInv, ReaderInv, SelectRows
  PROVE  ReaderInv'
  <1> DEFINE M == Matching(reader.actor)
  <1>1. /\ reader.phase = "counted" /\ table' = table /\ logged' = logged /\ Stamp' = Stamp
    BY DEF SelectRows, Stamp
  <1>2. PICK found \in Listings(M, Stamp) : reader' = Turned(reader, found)
    BY DEF SelectRows, Turned, PageOf
  <1>3. /\ M \subseteq Nat /\ M \subseteq table /\ IsFiniteSet(M)
        /\ MatchingIn(table, logged, reader.actor) = M
    BY MatchingFacts
  <1> HIDE DEF M
  <1>4. ReaderOf(reader, M, table, Stamp)
    BY <1>3 DEF ReaderInv
  <1>5. reader'.actor = reader.actor
    <2>1. reader \in Readers
      BY <1>4 DEF ReaderOf
    <2> QED BY <1>2, <2>1 DEF Readers, Turned
  <1>6. \A t \in M : Stamp[t] \in Nat
    <2> SUFFICES ASSUME NEW t \in M PROVE Stamp[t] \in Nat
      OBVIOUS
    <2>1. t \in 1..Len(logged) /\ DOMAIN logged = 1..Len(logged) /\ logged[t] \in LogEntries
      BY <1>3 DEF ChainInv
    <2>2. logged[t].at \in Stamps
      BY <2>1 DEF LogEntries
    <2> QED BY <2>1, <2>2, StampsAssumption DEF Stamp
  <1>7. ReaderOf(reader', M, table, Stamp)
    BY <1>1, <1>2, <1>3, <1>4, <1>6, ReaderOfNext
  <1>8. MatchingIn(table', logged', reader'.actor) = M
    BY <1>1, <1>3, <1>5
  <1> QED BY <1>1, <1>7, <1>8 DEF ReaderInv

LEMMA CountAgainKeepsReader ==
  ASSUME ChainInv, ReaderInv, CountAgain
  PROVE  ReaderInv'
  <1> DEFINE M == Matching(reader.actor)
  <1>1. /\ reader.phase = "paged" /\ table' = table /\ logged' = logged /\ Stamp' = Stamp
        /\ reader' = [reader EXCEPT !.phase = "counted", !.total = Cardinality(M)]
    BY DEF CountAgain, Stamp
  <1>2. /\ Cardinality(M) \in Nat /\ MatchingIn(table, logged, reader.actor) = M
    BY MatchingFacts
  <1>3. ReaderOf(reader, M, table, Stamp)
    BY <1>2 DEF ReaderInv
  <1> HIDE DEF M
  <1>4. reader \in Readers
    BY <1>3 DEF ReaderOf
  <1>5. /\ reader' \in Readers /\ reader'.rows = reader.rows /\ reader'.there = reader.there
        /\ reader'.phase = "counted" /\ reader'.limit = reader.limit /\ reader'.total = Cardinality(M)
        /\ reader'.actor = reader.actor
    BY <1>1, <1>2, <1>4 DEF Readers
  <1>6. ReaderOf(reader', M, table, Stamp)
    BY <1>1, <1>2, <1>3, <1>5 DEF ReaderOf
  <1>7. MatchingIn(table', logged', reader'.actor) = M
    BY <1>1, <1>2, <1>5
  <1> QED BY <1>1, <1>6, <1>7 DEF ReaderInv

LEMMA ReaderInvStep ==
  ASSUME ChainInv, ReaderInv, [AuditNext]_auditVars
  PROVE  ReaderInv'
  <1>1. CASE reader' = reader
    BY <1>1, ReaderSitsStill
  <1>2. CASE reader' # reader
    BY <1>2, CountRowsKeepsReader, SelectRowsKeepsReader, CountAgainKeepsReader
       DEF AuditNext, Log, AppendRow, NewLogger, auditVars
  <1> QED BY <1>1, <1>2

LEMMA ReaderInvImplies ==
  ASSUME ChainInv, ReaderInv
  PROVE  PagesMissNothing /\ AuditTypeOK
  <1> DEFINE M == Matching(reader.actor)
  <1>1. /\ M \subseteq table /\ MatchingIn(table, logged, reader.actor) = M
        /\ \A t \in M : reader.actor \in {Nil, logged[t].entry.actor}
    BY MatchingFacts DEF Matching
  <1>2. ReaderOf(reader, M, table, Stamp)
    BY <1>1 DEF ReaderInv
  <1> HIDE DEF M
  <1>3. PagesMissNothing
    BY <1>1, <1>2 DEF ReaderOf, PagesMissNothing, M
  <1>4. /\ reader.phase \in {"idle", "counted", "paged", "read"}
        /\ reader.there \subseteq table /\ ToSet(reader.rows) \subseteq table
    BY <1>1, <1>2 DEF ReaderOf, Readers
  <1>5. ASSUME NEW t \in DOMAIN logged
        PROVE  logged[t].entry \in Entries /\ logged[t].life \in 1..life /\ logged[t].at \in Stamps
    <2>1. t \in 1..Len(logged) /\ logged[t] \in LogEntries /\ life \in 1..MaxLives
      BY DEF ChainInv
    <2>2. logged[t].life <= life
      BY <2>1 DEF ChainInv, ChainAt
    <2>3. logged[t].entry \in Entries /\ logged[t].life \in 1..MaxLives /\ logged[t].at \in Stamps
      BY <2>1 DEF LogEntries
    <2> QED BY <2>1, <2>2, <2>3, AuditBounds
  <1>6. AuditTypeOK
    BY <1>4, <1>5 DEF ChainInv, AuditTypeOK
  <1> QED BY <1>3, <1>6

LEMMA AuditIsSound ==
  AuditSpec => []ChainShowsGaps /\ []PagesMissNothing /\ []AuditTypeOK
  <1> DEFINE Inv == ChainInv /\ ReaderInv
  <1>1. AuditInit => Inv
    <2> SUFFICES ASSUME AuditInit PROVE ReaderInv
      BY ChainInvInit
    <2>1. reader = NoReader /\ table = {}
      BY DEF AuditInit
    <2>2. NoReader \in Readers /\ ToSet(<<>>) = {}
      BY DEF NoReader, Readers, ToSet
    <2>3. MatchingIn(table, logged, reader.actor) = {}
      BY <2>1 DEF MatchingIn
    <2>4. ReaderOf(NoReader, {}, table, Stamp)
      BY <2>2, FS_EmptySet DEF ReaderOf, NoReader
    <2> QED BY <2>1, <2>3, <2>4 DEF ReaderInv
  <1>2. Inv /\ [AuditNext]_auditVars => Inv'
    BY ChainInvStep, ReaderInvStep
  <1>3. Inv => ChainShowsGaps /\ PagesMissNothing /\ AuditTypeOK
    BY ChainInvImplies, ReaderInvImplies
  <1> HIDE DEF Inv
  <1> QED BY <1>1, <1>2, <1>3, PTL DEF AuditSpec

-----------------------------------------------------------------------------
(* The stores, and the services together *)

\* However many rows, clients and page sizes, and whatever times they have: of the
\* rows whose time no other has, a reader of the audit trail misses none that was
\* there when it began (postgres/audit.go:75), and a reader of the open events at most
\* one for each time an event was closed under it (postgres/drift.go:117). A reader of
\* the audit trail that asks for all rows at once gets those of one time as well.
THEOREM PagesAreAlwaysSound == AuditSpec /\ EventsSpec => []PagesAreSound
  <1>1. PagesMissNothing /\ PagesMissWhatLeaves => PagesAreSound
    BY DEF PagesAreSound
  <1> QED BY <1>1, AuditIsSound, EventsAreSound, PTL

\* Of any selection of the entries of the audit trail, a gap and a restart show and
\* a missing end does not, and what is read back never verifies (audit/logger.go:2);
\* an event is open exactly when it has no time of resolution
\* (postgres/drift.go:67), and the summary adds up to the open ones.
THEOREM RecordsAlwaysHold == AuditSpec /\ EventsSpec => []RecordsHold
  <1>1. ChainShowsGaps /\ OpenIsUnresolved => RecordsHold
    BY DEF RecordsHold
  <1> QED BY <1>1, AuditIsSound, EventsAreSound, PTL

\* The state of every service keeps its type, side by side.
THEOREM ServicesTypeCorrect == ServicesSpec => []TypeOK
  <1>1. EngineTypeOK /\ SchemaTypeOK /\ EventsTypeOK /\ AuditTypeOK /\ RedisTypeOK
        /\ RegistryTypeOK /\ BusTypeOK /\ TerminalTypeOK => TypeOK
    BY DEF TypeOK
  <1> QED BY <1>1, EngineIsAlone, SchemaIsAlwaysWhole, EventsAreSound, AuditIsSound,
             RedisIsAlwaysSound, RegistryIsWhole, BusTakesOnce, TerminalStaysTidy, PTL
       DEF ServicesSpec

\* Whatever the services do side by side, each keeps what it promises: the engine's
\* loop is one (drift/engine.go:74), the lock, the pages, the records, the long calls,
\* the messages and the terminal are sound, and decisions stick.
THEOREM ServicesKeepPromises ==
    ServicesSpec =>
        /\ [](OneLoopUntilStopped /\ RedisIsSound /\ PagesAreSound /\ RecordsHold)
        /\ [](LongCallsAreWhole /\ EachTakenOnce /\ TerminalIsTidy)
        /\ DecisionsStick
  BY EngineIsAlone, RedisIsAlwaysSound, PagesAreAlwaysSound, RecordsAlwaysHold, LongCallsStayWhole,
     BusTakesOnce, TerminalStaysTidy, DecisionsAlwaysStick, PTL DEF ServicesSpec
=============================================================================
