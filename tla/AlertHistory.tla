---------------------------- MODULE AlertHistory ----------------------------
(***************************************************************************)
(* AlertHistory of domain/behavioral.rs as operators: an LRU cache of      *)
(* event counts per key and the time of the last event, in minutes.        *)
(*                                                                         *)
(* The program keeps three such caches (source addresses, users, rules),   *)
(* cleared together and otherwise independent and treated alike; one is    *)
(* modelled.  A cache is the sequence of its entries, most recently used   *)
(* first, the way the lru crate orders them.                               *)
(***************************************************************************)
EXTENDS Integers, Sequences, SequencesExt

CONSTANTS
    Keys,           \* source addresses
    NoSource,       \* stands for the address of an event that has none
    CacheCap,       \* MAX_UNIQUE_IPS_TO_TRACK
    Threshold,      \* HIGH_SEVERITY_THRESHOLD
    Window,         \* the longest time of BEHAVIOR_WINDOW_MINUTES whole minutes
    CountMax        \* the largest u32

ASSUME HistoryAssumption ==
    /\ NoSource \notin Keys
    /\ CacheCap \in Nat \ {0} /\ Threshold \in Nat /\ Window \in Nat
    /\ CountMax \in Nat /\ Threshold < CountMax

Entry == [key : Keys, count : 0..CountMax]

Default(now) == [entries |-> <<>>, last |-> now]

CachedKeys(cache) == {e.key : e \in Range(cache)}

\* The entry of a key, for one that is there.
PlaceOf(cache, key) == CHOOSE i \in DOMAIN cache : cache[i].key = key

\* peek: the count of a key, without promoting it; 0 stands for absent.
peek(cache, key) ==
    IF key \in CachedKeys(cache) THEN cache[PlaceOf(cache, key)].count ELSE 0

saturating_add(count, n) == IF count + n > CountMax THEN CountMax ELSE count + n

\* Seeded fault: a hit does not move the entry to the front.
get_or_insert_and_add_NoPromotion(cache, key, n) ==
    LET counted == [key |-> key, count |-> saturating_add(peek(cache, key), n)]
    IN  IF key \in CachedKeys(cache)
        THEN [cache EXCEPT ![PlaceOf(cache, key)] = counted]
        ELSE <<counted>> \o (IF Len(cache) < CacheCap THEN cache ELSE Front(cache))

\* get_or_insert_mut and the addition to what it returns: the entry comes to
\* the front; a new one in a full cache evicts the least recently used.
get_or_insert_and_add(cache, key, n) ==
    LET others == IF key \in CachedKeys(cache) THEN RemoveAt(cache, PlaceOf(cache, key)) ELSE cache
        kept == IF Len(others) < CacheCap THEN others ELSE Front(others)
    IN  <<[key |-> key, count |-> saturating_add(peek(cache, key), n)]>> \o kept

\* Seeded fault: the window is over one unit of time early.
Expired_Early(history, now) == now - history.last >= Window

\* num_minutes drops what is left over: a silence counts from the next whole
\* minute on, up to a minute later than the constant says.
Expired(history, now) == now - history.last > Window

Current(history, now) == IF Expired(history, now) THEN <<>> ELSE history.entries

\* An event without a source counts for no key, and yet breaks the silence.
update(history, key, now) ==
    [entries |-> IF key = NoSource THEN Current(history, now)
                 ELSE get_or_insert_and_add(Current(history, now), key, 1),
     last |-> now]

\* Seeded fault: the threshold itself is already too many.
is_suspicious_activity_AtThreshold(history, key) ==
    peek(history.entries, key) >= Threshold

\* NoSource is in no cache: its count is 0.
is_suspicious_activity(history, key) == peek(history.entries, key) > Threshold

\* Iterating over a cache by value starts with its least recently used entry:
\* absorbed[i] is the cache after the last i entries of the other.
merge(history, other, now) ==
    LET n == Len(other.entries)
        absorbed[i \in 0..n] ==
            IF i = 0 THEN Current(history, now)
            ELSE get_or_insert_and_add(absorbed[i - 1], other.entries[n + 1 - i].key,
                                       other.entries[n + 1 - i].count)
    IN  [entries |-> absorbed[n], last |-> IF other.last > now THEN other.last ELSE now]
=============================================================================
