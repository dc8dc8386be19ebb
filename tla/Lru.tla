--------------------------------- MODULE Lru ---------------------------------
(***************************************************************************)
(* The cache of geeCache/lru/lru.go.  geeCache/cache.go calls every        *)
(* operation under its mutex, so that an operation is one step.            *)
(*                                                                         *)
(* A key or a value is its identity and its length in bytes.  The list     *)
(* elements hold <<key, value>>; the map from keys to elements is kept as  *)
(* the set of its keys.  OnEvicted is nil in this program.                 *)
(***************************************************************************)
EXTENDS Integers, SequencesExt

CONSTANTS
    Keys,         \* keys of the callers
    Values,       \* values of the callers
    LenOf,        \* the length of every key and value
    Limits,       \* what New is given for maxBytes
    None          \* nil, what Get returns on a miss

ASSUME LruAssumption ==
    /\ LenOf \in [Keys \cup Values -> Nat]
    /\ Limits \subseteq Int
    /\ None \notin Values

VARIABLES
    ll,         \* Cache.ll, front first: a sequence of entries [key, value]
    cache,      \* the keys of Cache.cache
    nBytes,     \* Cache.nBytes
    maxBytes,   \* Cache.maxBytes
    result,     \* {<<k, v>>} after a Get(k) that returned v, {} after an Add
    uses        \* history: every key with the value it was given last, most recently used first

vars == <<ll, cache, nBytes, maxBytes, result, uses>>

Entry == [key : Keys, value : Values]

Init ==
    /\ ll = <<>> /\ cache = {} /\ nBytes = 0
    /\ maxBytes \in Limits
    /\ result = {}
    /\ uses = <<>>

-----------------------------------------------------------------------------
Size(e) == LenOf[e.key] + LenOf[e.value]

\* The place of k's element in a list, and the list without it.
Has(s, k) == \E i \in DOMAIN s : s[i].key = k
Place(s, k) == CHOOSE i \in DOMAIN s : s[i].key = k
Without(s, k) == IF Has(s, k) THEN RemoveAt(s, Place(s, k)) ELSE s

\* MUTANT: the element stays where it is.
Unmoved(s, e) == [i \in DOMAIN s |-> IF s[i].key = e.key THEN e ELSE s[i]]

\* ll.MoveToFront, with the value the element has afterwards.
MoveToFront(s, e) == <<e>> \o Without(s, e.key)

Used(k, v) == uses' = <<[key |-> k, value |-> v]>> \o Without(uses, k)

\* The entry the map has for k.
Cached(k) == ll[Place(ll, k)]

Hit(k) ==
    /\ k \in cache
    /\ ll' = MoveToFront(ll, Cached(k))
    /\ result' = {<<k, Cached(k).value>>}
    /\ Used(k, Cached(k).value)
    /\ UNCHANGED <<cache, nBytes, maxBytes>>

Miss(k) ==
    /\ k \notin cache
    /\ result' = {<<k, None>>}
    /\ UNCHANGED <<ll, cache, nBytes, maxBytes, uses>>

\* MUTANT: only the value's length is given back.
RemoveOldestForgetsKeyLen(s, n, keys) ==
    /\ ll' = Front(s)
    /\ nBytes' = n - LenOf[Last(s).value]
    /\ cache' = keys \ {Last(s).key}

\* removeOldest, on the list, the count and the map that Add has reached.
RemoveOldest(s, n, keys) ==
    /\ ll' = Front(s)
    /\ nBytes' = n - Size(Last(s))
    /\ cache' = keys \ {Last(s).key}

\* MUTANT: a cache that is just full is taken for one over its limit.
EvictWhenFull(s, n, keys) ==
    IF n >= maxBytes
    THEN RemoveOldest(s, n, keys)
    ELSE ll' = s /\ nBytes' = n /\ cache' = keys

\* The end of Add: one entry at most is evicted, however far over the limit.
Evict(s, n, keys) ==
    IF n > maxBytes
    THEN RemoveOldest(s, n, keys)
    ELSE ll' = s /\ nBytes' = n /\ cache' = keys

Update(k, v) ==
    /\ k \in cache
    /\ Evict(MoveToFront(ll, [key |-> k, value |-> v]),
             nBytes + LenOf[v] - LenOf[Cached(k).value], cache)
    /\ Used(k, v)
    /\ result' = {}
    /\ UNCHANGED maxBytes

Insert(k, v) ==
    /\ k \notin cache
    /\ Evict(<<[key |-> k, value |-> v]>> \o ll,
             nBytes + LenOf[k] + LenOf[v], cache \cup {k})
    /\ Used(k, v)
    /\ result' = {}
    /\ UNCHANGED maxBytes

Get(k) == Hit(k) \/ Miss(k)
Add(k, v) == Update(k, v) \/ Insert(k, v)

Next ==
    \E k \in Keys :
        \/ Get(k)
        \/ \E v \in Values : Add(k, v)

Spec == Init /\ [][Next]_vars

-----------------------------------------------------------------------------
(* Properties.                                                             *)

TypeOK ==
    /\ ll \in Seq(Entry)
    /\ cache \subseteq Keys
    /\ nBytes \in Int
    /\ maxBytes \in Limits
    /\ result \subseteq Keys \X (Values \cup {None})
    /\ uses \in Seq(Entry)

\* What the first entries of a list take, and what all of them do.
BytesUpTo(s) ==
    LET sum[i \in 0..Len(s)] == IF i = 0 THEN 0 ELSE sum[i - 1] + Size(s[i])
    IN sum
Bytes(s) == BytesUpTo(s)[Len(s)]

OneEach(s) == \A i, j \in DOMAIN s : s[i].key = s[j].key => i = j

\* List, map and count agree: removeOldest finds the key of every element in the map
\* and Get an element for every key, and nBytes is what the entries take.
LruInv ==
    /\ TypeOK
    /\ OneEach(ll) /\ OneEach(uses)
    /\ cache = {ll[i].key : i \in DOMAIN ll}
    /\ nBytes = Bytes(ll)

\* The list is in the order of use over the whole history, so that the entry that
\* is evicted is the least recently used one; and it holds what each key was given
\* last, so that a hit returns that.
LeastRecentLast ==
    /\ \A i \in DOMAIN ll :
        /\ Has(uses, ll[i].key)
        /\ ll[i] = uses[Place(uses, ll[i].key)]
    /\ \A i, j \in DOMAIN ll :
        i < j => Place(uses, ll[i].key) < Place(uses, ll[j].key)
    /\ \A r \in result : r[2] # None => [key |-> r[1], value |-> r[2]] = Head(uses)

\* What Add leaves of a cache that has reached its limit.  It never gains an entry and
\* ends over the limit; and the entry that Add was called for is in front, unless
\* it is larger than the whole limit and was evicted itself, alone in the list
\* (lru.go:68).  So a limit of 0 is not "no limit": New(0) keeps nothing, although
\* lru_test.go:14-16 expects the entry it has added to such a cache to be there.
AddAtLimit ==
    [][result' = {} =>
        /\ nBytes' > maxBytes => Len(ll') <= Len(ll)
        /\ IF ll' = <<>> THEN Size(Head(uses')) > maxBytes
                         ELSE Head(ll') = Head(uses')]_vars
==============================================================================
