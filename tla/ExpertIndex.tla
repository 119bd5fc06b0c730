----------------------------- MODULE ExpertIndex -----------------------------
(***************************************************************************)
(* The hash index of the expert cache: src/src/expert_cache.c, hash_find,  *)
(* hash_erase, hash_rebuild and the bucket bookkeeping of                  *)
(* ecache_insert_base and release_base.  Open addressing with linear       *)
(* probing; an erased bucket becomes a tombstone, and the table is rebuilt *)
(* when tombstones exceed a quarter of it.                                 *)
(*                                                                         *)
(* The hash function is arbitrary: Init picks any function from Hashes.    *)
(***************************************************************************)
EXTENDS Integers, FiniteSets, FiniteSetsExt

CONSTANTS
    Keys,        \* expert keys
    NoKey,       \* an unoccupied slot
    MaxEntries,  \* config.max_entries
    BucketCount, \* the power of two chosen by validate_config
    Hashes       \* the hash functions to consider, truncated to a bucket number

Slots   == 0 .. MaxEntries - 1
Buckets == 0 .. BucketCount - 1
EMPTY     == -1
TOMBSTONE == -2

\* validate_config: the smallest power of two that is at least 2 * max_entries.
ASSUME IndexAssumption ==
    /\ MaxEntries \in Nat \ {0}
    /\ BucketCount \in Nat /\ BucketCount >= 2 * MaxEntries
    /\ NoKey \notin Keys
    /\ Hashes \subseteq [Keys -> Buckets]

VARIABLES
    keyOf,      \* the key held by each entry slot, or NoKey
    buckets,    \* slot number, EMPTY or TOMBSTONE
    tombstones, \* the incremental count of tombstones
    hash        \* hash_key, fixed for the life of the cache

vars == <<keyOf, buckets, tombstones, hash>>

(***************************************************************************)
(* hash_find over a given table: the probe stops at an empty bucket or at  *)
(* the bucket of the key.  A miss yields the first tombstone passed, else  *)
(* the empty bucket, else EMPTY (no reusable bucket).                      *)
(***************************************************************************)
hash_find(table, key) ==
    LET at(probe) == (hash[key] + probe) % BucketCount
        hit(probe) == LET v == table[at(probe)] IN v \in Slots /\ keyOf[v] = key
        stops == {p \in Buckets : table[at(p)] = EMPTY \/ hit(p)}
        last  == IF stops = {} THEN BucketCount ELSE Min(stops)
        tombs == {p \in Buckets : p < last /\ table[at(p)] = TOMBSTONE}
    IN  IF stops # {} /\ hit(last)
          THEN [found |-> TRUE, slot |-> table[at(last)], bucket |-> at(last)]
          ELSE [found |-> FALSE, slot |-> EMPTY,
                bucket |-> IF tombs # {} THEN at(Min(tombs))
                           ELSE IF stops # {} THEN at(last) ELSE EMPTY]

Resident(slot) == keyOf[slot] # NoKey

\* hash_rebuild after `freed` has been cleared: reinsert the occupied slots in order.
hash_rebuild(freed) ==
    LET upto[n \in 0 .. MaxEntries] ==
          IF n = 0 THEN [b \in Buckets |-> EMPTY]
          ELSE IF n - 1 = freed \/ ~Resident(n - 1) THEN upto[n - 1]
          ELSE [upto[n - 1] EXCEPT ![hash_find(upto[n - 1], keyOf[n - 1]).bucket] = n - 1]
    IN  upto[MaxEntries]

Init ==
    /\ keyOf = [s \in Slots |-> NoKey]
    /\ buckets = [b \in Buckets |-> EMPTY]
    /\ tombstones = 0
    /\ hash \in Hashes

\* The index part of ecache_insert_base, once make_room has freed a slot.
Insert(key) ==
    LET free == {s \in Slots : ~Resident(s)}
        miss == hash_find(buckets, key)
    IN  /\ free # {}
        /\ ~miss.found
        /\ miss.bucket # EMPTY
        /\ keyOf' = [keyOf EXCEPT ![Min(free)] = key]
        /\ buckets' = [buckets EXCEPT ![miss.bucket] = Min(free)]
        /\ tombstones' = tombstones - (IF buckets[miss.bucket] = TOMBSTONE THEN 1 ELSE 0)
        /\ UNCHANGED hash

\* Mutant of Release: the bucket is emptied, which cuts the probe paths through it.
Release_empties_bucket(slot) ==
    /\ Resident(slot)
    /\ hash_find(buckets, keyOf[slot]).found
    /\ keyOf' = [keyOf EXCEPT ![slot] = NoKey]
    /\ buckets' = [buckets EXCEPT ![hash_find(buckets, keyOf[slot]).bucket] = EMPTY]
    /\ UNCHANGED <<tombstones, hash>>

\* Mutant of Release: the table is never rebuilt.
Release_never_rebuilds(slot) ==
    /\ Resident(slot)
    /\ hash_find(buckets, keyOf[slot]).found
    /\ keyOf' = [keyOf EXCEPT ![slot] = NoKey]
    /\ buckets' = [buckets EXCEPT ![hash_find(buckets, keyOf[slot]).bucket] = TOMBSTONE]
    /\ tombstones' = tombstones + 1
    /\ UNCHANGED hash

\* The index part of release_base: hash_erase, clear the entry, rebuild when due.
Release(slot) ==
    LET erased == [buckets EXCEPT ![hash_find(buckets, keyOf[slot]).bucket] = TOMBSTONE]
        rebuild == tombstones + 1 > BucketCount \div 4
    IN  /\ Resident(slot)
        /\ hash_find(buckets, keyOf[slot]).found
        /\ keyOf' = [keyOf EXCEPT ![slot] = NoKey]
        /\ buckets' = IF rebuild THEN hash_rebuild(slot) ELSE erased
        /\ tombstones' = IF rebuild THEN 0 ELSE tombstones + 1
        /\ UNCHANGED hash

Next ==
    \/ \E key \in Keys : Insert(key)
    \/ \E slot \in Slots : Release(slot)

Spec == Init /\ [][Next]_vars

-----------------------------------------------------------------------------
\* Every variable has its type.
TypeOK ==
    /\ keyOf \in [Slots -> Keys \cup {NoKey}]
    /\ buckets \in [Buckets -> Slots \cup {EMPTY, TOMBSTONE}]
    /\ tombstones \in 0 .. BucketCount
    /\ hash \in Hashes

\* The lookup is exact: hash_find returns the slot of every resident key, through
\* whatever tombstones and collisions lie on its probe path, and misses every other
\* key with a bucket it can be inserted into (so ECACHE_ERR_CORRUPT is unreachable).
LookupExact ==
    \A key \in Keys :
        LET f == hash_find(buckets, key)
            at == {s \in Slots : keyOf[s] = key}
        IN  IF at = {} THEN ~f.found /\ f.bucket # EMPTY
            ELSE f.found /\ at = {f.slot}

\* ecache_validate's reference check: every occupied slot is in exactly one bucket,
\* no bucket names a free slot, and the tombstone count is exact.  A probe always meets
\* an empty bucket, so a miss never scans the whole table: tombstones stay within a
\* quarter of it.
TableSound ==
    /\ TypeOK
    /\ \A s \in Slots :
          Cardinality({b \in Buckets : buckets[b] = s}) = IF Resident(s) THEN 1 ELSE 0
    /\ tombstones = Cardinality({b \in Buckets : buckets[b] = TOMBSTONE})
    /\ tombstones <= BucketCount \div 4
    /\ \E b \in Buckets : buckets[b] = EMPTY
=============================================================================
