--------------------------- MODULE ResponseCache ----------------------------
(***************************************************************************)
(* The cache of model answers: a bounded map whose entries expire.  Its    *)
(* lock is taken once per operation, so each operation is one step.  Time  *)
(* is left out: an entry may expire at any moment after its insertion.     *)
(* Nobody in the repository calls insert_with_ttl, remove or clear.        *)
(***************************************************************************)
EXTENDS Naturals, FiniteSets

CONSTANTS
    Keys,       \* cache keys; two requests with equal prompts share one
    MaxSize     \* max_size of the cache (1000)

ASSUME CacheAssumption == MaxSize \in Nat \ {0}

VARIABLES
    cached,     \* keys with an entry
    stale,      \* those of them whose entry has expired
    value       \* the entry of each cached key

cacheVars == <<cached, stale, value>>

NoValue == {}

CacheInit ==
    /\ cached = {}
    /\ stale = {}
    /\ value = [k \in Keys |-> NoValue]

\* get: an expired entry is a miss, and stays where it is.
Hit(k) == k \in cached \ stale

Full(entries) == Cardinality(entries) >= MaxSize

\* Mutant: an entry is sacrificed before the expired ones are looked at.
MakeRoomAtOnce ==
    IF Full(cached) THEN {cached \ {k} : k \in cached} ELSE {cached}

\* Mutant: purging the expired entries is taken to be enough.
MakeRoomByPurge ==
    IF Full(cached) THEN {cached \ stale} ELSE {cached}

\* The keys that may be left when a full cache has made room: the expired
\* entries go first, and if that is not enough whichever entry the hash map
\* yields first.  A key about to be overwritten counts like any other.
MakeRoom ==
    LET fresh == cached \ stale
    IN  CASE ~Full(cached)               -> {cached}
          [] Full(cached) /\ ~Full(fresh) -> {fresh}
          [] Full(fresh)                  -> {fresh \ {k} : k \in fresh}

\* Mutant: an overwritten entry keeps the time of its predecessor, and what
\* the purge drops is still taken for an expired entry.
InsertKeepingMarks(k, v) ==
    \E kept \in MakeRoom :
        /\ cached' = kept \cup {k}
        /\ value'  = [value EXCEPT ![k] = v]
        /\ UNCHANGED stale

Insert(k, v) ==
    \E kept \in MakeRoom :
        /\ cached' = kept \cup {k}
        /\ stale'  = (stale \cap kept) \ {k}
        /\ value'  = [value EXCEPT ![k] = v]

Expire ==
    \E k \in cached \ stale :
        /\ stale' = stale \cup {k}
        /\ UNCHANGED <<cached, value>>

-----------------------------------------------------------------------------
\* The cache never outgrows its bound, although nothing but an insertion
\* removes entries and a full cache is not always purged successfully.
CacheBound == Cardinality(cached) <= MaxSize

\* A live entry is dropped for another one only when no expired entry could
\* have gone instead.
LiveEvictedLast ==
    [][\A k \in cached \ stale :
         k \notin cached' => stale \cap cached' = {} /\ Full(cached \ stale)]_cacheVars
=============================================================================
