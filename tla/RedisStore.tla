----------------------------- MODULE RedisStore -------------------------------
(***************************************************************************)
(* The lock and the cache kept in Redis. A command runs there as a whole   *)
(* (a script too), or not at all, and its reply may be lost: the client    *)
(* then has an error, whatever happened. A lease may expire at any time.   *)
(***************************************************************************)
EXTENDS Nothing, FiniteSets, Naturals

CONSTANTS
    Users,          \* the processes that use the lock and the cache
    MaxTokens,      \* bound on the number of attempts to get the lock
    Buckets,        \* SCAN's cursor walks over 1..Buckets
    Keys            \* the keys of the cache that match a pattern: [bucket, name]

\* The value of a Lock is a UUID, never the empty answer.
ASSUME TokenAssumption == Nil \notin Nat

ASSUME TokenBoundAssumption == MaxTokens \in Nat

\* SCAN answers at least once, and a key is in one of its batches.
ASSUME BucketAssumption ==
    Buckets \in Nat \ {0} /\ \A k \in Keys : k.bucket \in 1..Buckets

VARIABLES
    lock,       \* the value of the lock's key, or Nil
    handle,     \* user |-> the value of the Lock it was given, or Nil
    tokens,     \* how many values uuid.NewString gave out
    ended,      \* the values whose lease is over: it ran out, or was released
    orphaned,   \* the values whose holder has an error instead of a Lock
    cache,      \* the matching keys that are set
    sweep       \* [phase, cursor, keys, fresh]: an Invalidate, or Nil

lockVars  == <<lock, handle, tokens, ended, orphaned>>
redisVars == <<lockVars, cache, sweep>>

RedisInit ==
    /\ lock = Nil /\ handle = [u \in Users |-> Nil]
    /\ tokens = 0 /\ ended = {} /\ orphaned = {}
    /\ cache = {} /\ sweep = Nil

\* Faulty variant: the key is set whether it was free or not.
AcquireAnyway(u, replied) ==
    /\ handle[u] = Nil /\ tokens < MaxTokens
    /\ tokens' = tokens + 1
    /\ lock' = tokens'
    /\ handle' = [handle EXCEPT ![u] = IF replied THEN tokens' ELSE Nil]
    /\ orphaned' = IF replied THEN orphaned ELSE orphaned \cup {tokens'}
    /\ UNCHANGED <<ended, cache, sweep>>

\* SETNX with a lease. The reply tells whether the key was free; an error, or a
\* reply that is lost, leaves the user without a Lock.
AcquireLock(u, replied) ==
    /\ handle[u] = Nil /\ tokens < MaxTokens
    /\ tokens' = tokens + 1
    /\ LET free == lock = Nil
           value == tokens + 1
       IN  /\ lock' = IF free THEN value ELSE lock
           /\ handle' = [handle EXCEPT ![u] = IF free /\ replied THEN value ELSE Nil]
           /\ orphaned' = IF free /\ ~replied THEN orphaned \cup {value} ELSE orphaned
    /\ UNCHANGED <<ended, cache, sweep>>

\* Faulty variant: the key is deleted without a look at its value.
ReleaseAny(u, replied) ==
    /\ handle[u] # Nil
    /\ lock' = Nil
    /\ handle' = [handle EXCEPT ![u] = Nil]
    /\ UNCHANGED <<tokens, ended, orphaned, cache, sweep>>

\* Compare and delete, in one script. The user is done with its Lock when the
\* script's answer arrives, also when that is "not held"; without one it keeps
\* the Lock and may try again.
Release(u, replied) ==
    /\ handle[u] # Nil
    /\ lock' = IF lock = handle[u] THEN Nil ELSE lock
    /\ ended' = IF lock = handle[u] THEN ended \cup {lock} ELSE ended
    /\ handle' = IF replied THEN [handle EXCEPT ![u] = Nil] ELSE handle
    /\ UNCHANGED <<tokens, orphaned, cache, sweep>>

\* Compare and pexpire: a lease that has run out is not revived, and the user
\* learns of it if the answer arrives.
Extend(u) ==
    /\ handle[u] # Nil /\ lock # handle[u]
    /\ handle' = [handle EXCEPT ![u] = Nil]
    /\ UNCHANGED <<lock, tokens, ended, orphaned, cache, sweep>>

Expire ==
    /\ lock # Nil
    /\ ended' = ended \cup {lock}
    /\ lock' = Nil
    /\ UNCHANGED <<handle, tokens, orphaned, cache, sweep>>

\* Set, by anyone, also while an Invalidate runs.
Set(k) ==
    /\ cache' = cache \cup {k}
    /\ sweep' = IF sweep # Nil THEN [sweep EXCEPT !.fresh = @ \cup {k}] ELSE sweep
    /\ UNCHANGED lockVars

Invalidate ==
    /\ sweep = Nil
    /\ sweep' = [phase |-> "scan", cursor |-> 1, keys |-> {}, fresh |-> {}]
    /\ UNCHANGED <<lockVars, cache>>

ScanKeys ==
    /\ sweep # Nil /\ sweep.phase = "scan"
    /\ sweep' = [sweep EXCEPT !.phase = "delete",
                              !.keys = {k \in cache : k.bucket = sweep.cursor}]
    /\ UNCHANGED <<lockVars, cache>>

\* DEL of what was found, if anything; the cursor is 0 after the last bucket.
DeleteKeys ==
    /\ sweep # Nil /\ sweep.phase = "delete"
    /\ cache' = cache \ sweep.keys
    /\ sweep' = IF sweep.cursor = Buckets THEN [sweep EXCEPT !.phase = "done"]
                ELSE [sweep EXCEPT !.phase = "scan", !.cursor = @ + 1]
    /\ UNCHANGED lockVars

\* An error of either command ends it with what was deleted so far.
FailSweep ==
    /\ sweep # Nil /\ sweep.phase \in {"scan", "delete"}
    /\ sweep' = [sweep EXCEPT !.phase = "failed"]
    /\ UNCHANGED <<lockVars, cache>>

LockNext ==
    \/ \E u \in Users, replied \in BOOLEAN : AcquireLock(u, replied) \/ Release(u, replied)
    \/ \E u \in Users : Extend(u)
    \/ Expire

CacheNext == Invalidate \/ ScanKeys \/ DeleteKeys \/ FailSweep \/ \E k \in Keys : Set(k)

RedisSpec == RedisInit /\ [][LockNext \/ CacheNext]_redisVars

RedisTypeOK ==
    /\ tokens \in 0..MaxTokens
    /\ lock \in {Nil} \cup 1..tokens
    /\ handle \in [Users -> {Nil} \cup 1..tokens]
    /\ ended \cup orphaned \subseteq 1..tokens
    /\ cache \subseteq Keys
    /\ sweep # Nil => sweep.phase \in {"scan", "delete", "done", "failed"}

-----------------------------------------------------------------------------
(* Properties *)

\* "Was not held by this instance" (store/redis/locks.go:49): until its lease is
\* over a Lock is its holder's, whatever others release or extend, so that no two
\* hold a live one; and a key that no Lock stands for is one whose reply was
\* lost, which only its lease frees.
LeaseIsOwn ==
    /\ \A u \in Users : handle[u] # Nil => handle[u] = lock \/ handle[u] \in ended
    /\ Cardinality({u \in Users : handle[u] # Nil /\ handle[u] \notin ended}) <= 1
    /\ lock # Nil => (\E u \in Users : handle[u] = lock) \/ lock \in orphaned

\* Invalidate removes "all keys matching the given pattern" (store/redis/cache.go:87),
\* batch by batch: a key that is left after it returned was set since it began.
SweepLeavesOnlyFresh ==
    (sweep # Nil /\ sweep.phase = "done") => cache \subseteq sweep.fresh

\* A lock and a cache that forget by themselves serve whoever asks them.
RedisIsSound == LeaseIsOwn /\ SweepLeavesOnlyFresh

\* Who holds the lock, by the values whose lease is not over, whatever Redis has.
Hold == [u \in Users |-> IF handle[u] = Nil THEN "none"
                         ELSE IF handle[u] \in ended THEN "over" ELSE "held"]
Stranded == orphaned \ ended # {}

Leases == INSTANCE Lease WITH hold <- Hold, stranded <- Stranded

\* "A distributed lock" (store/redis/locks.go:12): SETNX and the two scripts, with
\* replies that are lost and leases that run out, are the lock described in Lease.
ImplementsLease == Leases!Spec
=============================================================================
