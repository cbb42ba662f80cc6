------------------------ MODULE BehavioralRun_proofs ------------------------
(***************************************************************************)
(* Behavioural analysis for any number of workers, sources and events:     *)
(* what a worker's cache and its alarms have to do with the log of what it *)
(* saw, whatever is reset, evicted or saturated on the way; and what the   *)
(* merger has when it leaves.  A merge is a recursion over a cache: the    *)
(* induction it needs is derived below from the well-foundedness of finite *)
(* sets.                                                                   *)
(***************************************************************************)
EXTENDS BehavioralRun, SequenceTheorems, FiniteSetTheorems, TLAPS

(***************************************************************************)
(* How a cache follows the events of a log: it has the sources seen last,  *)
(* in their order; counts no event that was not there; and counts all, up  *)
(* to the largest number there is, while there are no more sources than    *)
(* fit.                                                                    *)
(***************************************************************************)
Ordered(log, c, events) ==
    /\ CachedKeys(c) \subseteq Sources(log, events)
    /\ \A i, j \in 1..Len(c) : i < j => SeenLater(log, events, c[i].key, c[j].key)
    /\ \A key \in Sources(log, events) \ CachedKeys(c) :
          /\ Len(c) = CacheCap
          /\ \A i \in 1..Len(c) : SeenLater(log, events, c[i].key, key)

Earned(log, c, events) ==
    \A key \in CachedKeys(c) : peek(c, key) <= Cardinality(Of(log, key, events))

Complete(log, c, events) ==
    Cardinality(Sources(log, events)) <= CacheCap =>
        /\ CachedKeys(c) = Sources(log, events)
        /\ \A key \in CachedKeys(c) :
              peek(c, key) \in {Cardinality(Of(log, key, events)), CountMax}

Follows(log, c, events) ==
    Ordered(log, c, events) /\ Earned(log, c, events) /\ Complete(log, c, events)

(***************************************************************************)
(* The last event of a worker, unless it has no source, is in its history, *)
(* and was flagged by it.                                                  *)
(***************************************************************************)
LastEvent(log, h) ==
    IF log = <<>> THEN h.entries = <<>>
    ELSE /\ h.last = Last(log).at
         /\ Last(log).key # NoSource => Last(log).key \in CachedKeys(h.entries)
         /\ Last(log).flagged <=> peek(h.entries, Last(log).key) > Threshold

(***************************************************************************)
(* Reports come from histories; who leaves hands on what it has; and the   *)
(* merger leaves without a shutdown only when all reports are merged.      *)
(***************************************************************************)
Reported == UNION {CachedKeys(reports[i].entries) : i \in 1..Len(reports)}

Calm == ~refused /\ now <= Window /\ Cardinality(KeysSeen) <= CacheCap

LeaveInOrder ==
    /\ ~connected => running = {}
    /\ merger \in {"saving", "done"} /\ ~shutdown => ~connected /\ reports = <<>>

NoneMadeUp ==
    /\ IsFiniteSet(KeysSeen)
    /\ \A w \in Workers : CachedKeys(history[w].entries) \subseteq KeysSeen
    /\ CachedKeys(merged.entries) \subseteq KeysSeen
    /\ Reported \subseteq KeysSeen

HandedOn ==
    Calm => \A w \in Workers \ running :
                CachedKeys(history[w].entries) \subseteq CachedKeys(merged.entries) \cup Reported

Tracks(log, h) ==
    Follows(log, h.entries, SinceSilence(log)) /\ LastEvent(log, h)

Histories == \A w \in Workers : Tracks(seen[w], history[w])

IInv == TypeOK /\ Histories /\ LeaveInOrder /\ NoneMadeUp /\ HandedOn

-----------------------------------------------------------------------------
(* Induction over numbers, from the well-foundedness of finite sets.       *)

(***************************************************************************)
(* Every set of numbers that is not empty has a least one: sets of numbers *)
(* below a number cannot shrink for ever.                                  *)
(***************************************************************************)
LEMMA LeastNumber ==
    ASSUME NEW T, T \subseteq Nat, T # {}
    PROVE  \E m \in T : \A n \in T : m <= n
<1> DEFINE Below == {0..n : n \in T}
<1>1. IsWellFoundedOn(StrictSubsetOrdering(Nat), FiniteSubsetsOf(Nat))
  BY FS_StrictSubsetOrderingWellFounded
<1>2. Below \subseteq FiniteSubsetsOf(Nat) /\ Below # {}
  <2>1. ASSUME NEW n \in T PROVE 0..n \subseteq Nat /\ IsFiniteSet(0..n)
    BY FS_Interval
  <2> QED BY <2>1 DEF FiniteSubsetsOf
<1> HIDE DEF Below
<1>3. PICK b \in Below : \A c \in Below : <<c, b>> \notin StrictSubsetOrdering(Nat)
  BY <1>1, <1>2, WFMin
<1>4. PICK m \in T : b = 0..m
  BY DEF Below
<1>5. ASSUME NEW n \in T, n < m PROVE FALSE
  <2>1. <<0..n, 0..m>> \notin StrictSubsetOrdering(Nat)
    BY <1>3, <1>4 DEF Below
  <2>2. n \in Nat /\ m \in Nat
    OBVIOUS
  <2>3. m \in 0..m /\ m \notin 0..n
    BY <1>5, <2>2
  <2>4. 0..n \subseteq 0..m /\ 0..n # 0..m /\ 0..m \subseteq Nat
    BY <1>5, <2>2, <2>3
  <2> QED BY <2>1, <2>4 DEF StrictSubsetOrdering
<1> QED BY <1>5

(***************************************************************************)
(* A set that has 0 and, below n, the successor of each number it has, has *)
(* all numbers up to n.                                                    *)
(***************************************************************************)
LEMMA UpTo ==
    ASSUME NEW n \in Nat, NEW P, 0 \in P, \A i \in 0..(n - 1) : i \in P => i + 1 \in P
    PROVE  \A i \in 0..n : i \in P
<1> SUFFICES ASSUME NEW k \in 0..n, k \notin P PROVE FALSE
  OBVIOUS
<1> DEFINE T == {i \in 0..n : i \notin P}
<1>1. T \subseteq Nat /\ T # {}
  OBVIOUS
<1> HIDE DEF T
<1>2. PICK m \in T : \A i \in T : m <= i
  BY <1>1, LeastNumber
<1>3. m \in 0..n /\ m \notin P /\ m # 0
  BY <1>2 DEF T
<1>4. m - 1 \in 0..(n - 1) /\ (m - 1) + 1 = m /\ m - 1 \in 0..n /\ ~(m <= m - 1)
  BY <1>3
<1>5. m - 1 \in P
  BY <1>2, <1>4 DEF T
<1> QED BY <1>3, <1>4, <1>5

(***************************************************************************)
(* A function defined from each value to the next exists.                  *)
(***************************************************************************)
Steps(n, V, step) == step \in [1..n -> [V -> V]]

Iterated(n, V, v, step, g) ==
    g \in [0..n -> V] /\ g[0] = v /\ \A i \in 1..n : g[i] = step[i][g[i - 1]]

LEMMA Iterates ==
    ASSUME NEW n \in Nat, NEW V, NEW v \in V, NEW step, Steps(n, V, step)
    PROVE  \E g : Iterated(n, V, v, step, g)
<1>0. step \in [1..n -> [V -> V]]
  BY DEF Steps
<1> DEFINE Good(m, g) == g[0] = v /\ \A i \in 1..m : g[i] = step[i][g[i - 1]]
           P == {m \in 0..n : \E g \in [0..m -> V] : Good(m, g)}
<1>1. 0 \in P
  <2>1. [i \in 0..0 |-> v] \in [0..0 -> V] /\ Good(0, [i \in 0..0 |-> v])
    OBVIOUS
  <2>2. 0 \in 0..n
    OBVIOUS
  <2> QED BY <2>1, <2>2
<1>2. ASSUME NEW m \in 0..(n - 1), m \in P PROVE m + 1 \in P
  <2>1. PICK g \in [0..m -> V] : Good(m, g)
    BY <1>2
  <2>2. m \in Nat /\ m + 1 \in 1..n /\ m + 1 \in 0..n /\ m \in 0..m
    OBVIOUS
  <2> DEFINE next == step[m + 1][g[m]]
             h == [i \in 0..(m + 1) |-> IF i = m + 1 THEN next ELSE g[i]]
  <2>3. next \in V
    BY <1>0, <2>2
  <2> HIDE DEF next
  <2>4. h \in [0..(m + 1) -> V]
    <3>1. ASSUME NEW i \in 0..(m + 1), i # m + 1 PROVE g[i] \in V
      BY <2>2, <3>1
    <3> QED BY <2>3, <3>1
  <2>5. h[0] = v
    BY <2>1, <2>2
  <2>6. ASSUME NEW i \in 1..(m + 1) PROVE h[i] = step[i][h[i - 1]]
    <3>1. CASE i = m + 1
      <4>1. h[i] = next /\ h[i - 1] = g[m]
        BY <2>2, <3>1
      <4> QED BY <3>1, <4>1 DEF next
    <3>2. CASE i # m + 1
      <4>1. i \in 1..m /\ i \in 0..(m + 1) /\ i - 1 \in 0..(m + 1) /\ i - 1 # m + 1
        BY <2>2, <3>2
      <4>2. h[i] = g[i] /\ h[i - 1] = g[i - 1]
        BY <3>2, <4>1
      <4> QED BY <2>1, <4>1, <4>2
    <3> QED BY <3>1, <3>2
  <2> HIDE DEF h
  <2> QED BY <2>2, <2>4, <2>5, <2>6
<1> HIDE DEF P
<1>3. \A i \in 0..n : i \in P
  BY <1>1, <1>2, UpTo
<1>4. n \in 0..n
  OBVIOUS
<1> QED BY <1>3, <1>4 DEF P, Iterated

-----------------------------------------------------------------------------
(* The cache.                                                              *)

(***************************************************************************)
(* What the assumption says of the constants, one number at a time.        *)
(***************************************************************************)
LEMMA Sizes ==
    /\ CacheCap \in Nat /\ CacheCap >= 1 /\ Threshold \in Nat /\ Window \in Nat
    /\ CountMax \in Nat /\ Threshold < CountMax /\ NoSource \notin Keys
BY HistoryAssumption DEF HistoryAssumption

(***************************************************************************)
(* A cache has one place for each of its keys, and peek reads that place.  *)
(***************************************************************************)
LEMMA Places ==
    ASSUME NEW c \in Cache
    PROVE  /\ c \in Seq(Entry) /\ Len(c) \in Nat /\ Len(c) <= CacheCap /\ DOMAIN c = 1..Len(c)
           /\ \A i \in 1..Len(c) : c[i] \in Entry
           /\ \A i, j \in 1..Len(c) : c[i].key = c[j].key => i = j
           /\ CachedKeys(c) = {c[i].key : i \in 1..Len(c)}
           /\ \A i \in 1..Len(c) : peek(c, c[i].key) = c[i].count
<1>1. /\ c \in Seq(Entry) /\ Len(c) <= CacheCap
      /\ \A i, j \in DOMAIN c : c[i].key = c[j].key => i = j
  BY DEF Cache
<1>2. Len(c) \in Nat /\ DOMAIN c = 1..Len(c) /\ \A i \in 1..Len(c) : c[i] \in Entry
  BY <1>1, LenProperties, ElementOfSeq
<1>3. CachedKeys(c) = {c[i].key : i \in 1..Len(c)}
  BY <1>2 DEF CachedKeys, Range
<1>4. ASSUME NEW i \in 1..Len(c) PROVE peek(c, c[i].key) = c[i].count
  <2>1. PlaceOf(c, c[i].key) \in DOMAIN c /\ c[PlaceOf(c, c[i].key)].key = c[i].key
    BY <1>2 DEF PlaceOf
  <2>2. PlaceOf(c, c[i].key) = i
    BY <1>1, <1>2, <2>1
  <2> QED BY <1>3, <2>2 DEF peek
<1> QED BY <1>1, <1>2, <1>3, <1>4

(***************************************************************************)
(* A cache without the entry at one place.                                 *)
(***************************************************************************)
LEMMA Removed ==
    ASSUME NEW S, NEW s \in Seq(S), NEW p \in 1..Len(s)
    PROVE  /\ RemoveAt(s, p) \in Seq(S) /\ Len(RemoveAt(s, p)) = Len(s) - 1
           /\ \A i \in 1..(Len(s) - 1) : RemoveAt(s, p)[i] = IF i < p THEN s[i] ELSE s[i + 1]
<1>1. Len(s) \in Nat /\ \A i \in 1..Len(s) : s[i] \in S
  BY LenProperties, ElementOfSeq
<1>2. /\ SubSeq(s, 1, p - 1) \in Seq(S) /\ Len(SubSeq(s, 1, p - 1)) = p - 1
      /\ \A i \in 1..(p - 1) : SubSeq(s, 1, p - 1)[i] = s[i]
  <2>1. p - 1 \in Int /\ \A i \in 1..(p - 1) : s[i] \in S /\ i + 1 - 1 = i
    BY <1>1
  <2> QED BY <2>1, SubSeqProperties
<1>3. /\ SubSeq(s, p + 1, Len(s)) \in Seq(S) /\ Len(SubSeq(s, p + 1, Len(s))) = Len(s) - p
      /\ \A i \in 1..(Len(s) - p) : SubSeq(s, p + 1, Len(s))[i] = s[i + p]
  <2>1. /\ p + 1 \in Int /\ Len(s) \in Int
        /\ \A i \in (p + 1)..Len(s) : s[i] \in S
        /\ Len(s) - (p + 1) + 1 = Len(s) - p
    BY <1>1
  <2>2. /\ SubSeq(s, p + 1, Len(s)) \in Seq(S)
        /\ Len(SubSeq(s, p + 1, Len(s))) = IF p + 1 <= Len(s) THEN Len(s) - (p + 1) + 1 ELSE 0
        /\ \A i \in 1..(Len(s) - (p + 1) + 1) : SubSeq(s, p + 1, Len(s))[i] = s[(p + 1) + i - 1]
    BY <2>1, SubSeqProperties
  <2>3. ASSUME NEW i \in 1..(Len(s) - p) PROVE (p + 1) + i - 1 = i + p
    BY <1>1
  <2>4. Len(SubSeq(s, p + 1, Len(s))) = Len(s) - p
    <3>1. p + 1 <= Len(s) \/ p = Len(s)
      BY <1>1
    <3>2. p = Len(s) => ~(p + 1 <= Len(s)) /\ Len(s) - p = 0
      BY <1>1
    <3> QED BY <2>1, <2>2, <3>1, <3>2
  <2>5. ASSUME NEW i \in 1..(Len(s) - p) PROVE SubSeq(s, p + 1, Len(s))[i] = s[i + p]
    BY <2>1, <2>2, <2>3
  <2> QED BY <2>2, <2>4, <2>5
<1> DEFINE a == SubSeq(s, 1, p - 1)
           b == SubSeq(s, p + 1, Len(s))
<1> HIDE DEF a, b
<1>4. /\ a \o b \in Seq(S) /\ Len(a \o b) = Len(a) + Len(b)
      /\ \A i \in 1..(Len(a) + Len(b)) : (a \o b)[i] = IF i <= Len(a) THEN a[i] ELSE b[i - Len(a)]
  BY <1>2, <1>3, ConcatProperties DEF a, b
<1>5. RemoveAt(s, p) = a \o b
  BY DEF RemoveAt, a, b
<1>6. Len(a) = p - 1 /\ Len(b) = Len(s) - p /\ Len(a) + Len(b) = Len(s) - 1
  <2>1. Len(a) = p - 1 /\ Len(b) = Len(s) - p
    BY <1>2, <1>3 DEF a, b
  <2> QED BY <1>1, <2>1
<1>7. ASSUME NEW i \in 1..(Len(s) - 1)
      PROVE  (a \o b)[i] = IF i < p THEN s[i] ELSE s[i + 1]
  <2>1. CASE i < p
    <3>1. i \in 1..(p - 1) /\ i <= Len(a)
      BY <1>1, <1>6, <2>1
    <3>2. a[i] = s[i]
      BY <1>2, <3>1 DEF a
    <3> QED BY <1>4, <1>6, <2>1, <3>1, <3>2
  <2>2. CASE ~(i < p)
    <3>1. /\ ~(i <= Len(a)) /\ i - Len(a) = i - p + 1 /\ i - p + 1 \in 1..(Len(s) - p)
          /\ (i - p + 1) + p = i + 1
      BY <1>1, <1>6, <2>2
    <3>2. b[i - p + 1] = s[i + 1]
      BY <1>3, <3>1 DEF b
    <3> QED BY <1>4, <1>6, <2>2, <3>1, <3>2
  <2> QED BY <2>1, <2>2
<1> QED BY <1>4, <1>5, <1>6, <1>7

(***************************************************************************)
(* A sequence without its last element.                                    *)
(***************************************************************************)
LEMMA ButLast ==
    ASSUME NEW S, NEW s \in Seq(S), Len(s) >= 1
    PROVE  /\ Front(s) \in Seq(S) /\ Len(Front(s)) = Len(s) - 1
           /\ \A i \in 1..(Len(s) - 1) : Front(s)[i] = s[i]
<1>1. /\ Len(s) \in Nat /\ Len(s) - 1 \in Int
      /\ \A i \in 1..(Len(s) - 1) : s[i] \in S /\ 1 + i - 1 = i
  BY LenProperties, ElementOfSeq
<1>2. /\ SubSeq(s, 1, Len(s) - 1) \in Seq(S)
      /\ Len(SubSeq(s, 1, Len(s) - 1)) = IF 1 <= Len(s) - 1 THEN (Len(s) - 1) - 1 + 1 ELSE 0
      /\ \A i \in 1..((Len(s) - 1) - 1 + 1) : SubSeq(s, 1, Len(s) - 1)[i] = s[1 + i - 1]
  BY <1>1, SubSeqProperties
<1>3. (Len(s) - 1) - 1 + 1 = Len(s) - 1 /\ (~(1 <= Len(s) - 1) => Len(s) - 1 = 0)
  <2>1. \A n \in Nat : n >= 1 =>
           (n - 1) - 1 + 1 = n - 1 /\ (~(1 <= n - 1) => n - 1 = 0)
    OBVIOUS
  <2> QED BY <1>1, <2>1
<1> QED BY <1>1, <1>2, <1>3 DEF Front

(***************************************************************************)
(* What get_or_insert_and_add makes of a cache: the key comes to the front *)
(* from place p, or from nowhere, and the others keep their order.         *)
(***************************************************************************)
AddedFrom(c, d, p, key, n) ==
    /\ p <= Len(c) => c[p].key = key
    /\ \A i \in 1..Len(c) : i # p => c[i].key # key
    /\ Len(d) = IF p <= Len(c) THEN Len(c)
                ELSE IF Len(c) < CacheCap THEN Len(c) + 1 ELSE CacheCap
    /\ d[1] = [key |-> key, count |-> saturating_add(peek(c, key), n)]
    /\ \A i \in 2..Len(d) : d[i] = IF i <= p THEN c[i - 1] ELSE c[i]

LEMMA Adds ==
    ASSUME NEW c \in Cache, NEW key \in Keys, NEW n \in 0..CountMax
    PROVE  LET d == get_or_insert_and_add(c, key, n)
           IN  d \in Cache /\ \E p \in 1..(Len(c) + 1) : AddedFrom(c, d, p, key, n)
<1> DEFINE d == get_or_insert_and_add(c, key, n)
           new == [key |-> key, count |-> saturating_add(peek(c, key), n)]
           others == IF key \in CachedKeys(c) THEN RemoveAt(c, PlaceOf(c, key)) ELSE c
           kept == IF Len(others) < CacheCap THEN others ELSE Front(others)
<1> USE Sizes
<1>1. /\ c \in Seq(Entry) /\ Len(c) \in Nat /\ Len(c) <= CacheCap /\ DOMAIN c = 1..Len(c)
      /\ \A i \in 1..Len(c) : c[i] \in Entry
      /\ \A i, j \in 1..Len(c) : c[i].key = c[j].key => i = j
      /\ CachedKeys(c) = {c[i].key : i \in 1..Len(c)}
      /\ \A i \in 1..Len(c) : peek(c, c[i].key) = c[i].count
  BY Places
<1>2. d = <<new>> \o kept
  BY DEF get_or_insert_and_add
<1>3. new \in Entry
  <2>1. peek(c, key) \in 0..CountMax
    <3>1. CASE key \in CachedKeys(c)
      <4>1. PICK i \in 1..Len(c) : c[i].key = key
        BY <1>1, <3>1
      <4> QED BY <1>1, <4>1 DEF Entry
    <3>2. CASE key \notin CachedKeys(c)
      BY <3>2 DEF peek
    <3> QED BY <3>1, <3>2
  <2>2. saturating_add(peek(c, key), n) \in 0..CountMax
    BY <2>1 DEF saturating_add
  <2> QED BY <2>2 DEF Entry
<1>4. PICK p \in 1..(Len(c) + 1) :
         /\ p <= Len(c) => c[p].key = key
         /\ \A i \in 1..Len(c) : i # p => c[i].key # key
         /\ others \in Seq(Entry)
         /\ Len(others) = IF p <= Len(c) THEN Len(c) - 1 ELSE Len(c)
         /\ \A i \in 1..Len(others) : others[i] = IF i < p THEN c[i] ELSE c[i + 1]
  <2>1. CASE key \in CachedKeys(c)
    <3> DEFINE q == PlaceOf(c, key)
    <3>1. q \in 1..Len(c) /\ c[q].key = key
      <4>1. \E i \in DOMAIN c : c[i].key = key
        BY <1>1, <2>1
      <4> QED BY <1>1, <4>1 DEF PlaceOf
    <3> HIDE DEF q
    <3>2. others = RemoveAt(c, q)
      BY <2>1 DEF q
    <3> HIDE DEF others
    <3>3. q \in 1..(Len(c) + 1) /\ q <= Len(c)
      BY <1>1, <3>1
    <3>4. /\ others \in Seq(Entry) /\ Len(others) = Len(c) - 1
          /\ \A i \in 1..(Len(c) - 1) : others[i] = IF i < q THEN c[i] ELSE c[i + 1]
      BY <1>1, <3>1, <3>2, Removed
    <3> QED BY <1>1, <3>1, <3>3, <3>4
  <2>2. CASE key \notin CachedKeys(c)
    <3>1. Len(c) + 1 \in 1..(Len(c) + 1) /\ ~(Len(c) + 1 <= Len(c)) /\ others = c
      BY <1>1, <2>2
    <3> HIDE DEF others
    <3>2. \A i \in 1..Len(c) : i < Len(c) + 1 /\ c[i].key # key
      BY <1>1, <2>2
    <3> QED BY <1>1, <3>1, <3>2
  <2> QED BY <2>1, <2>2
<1> HIDE DEF others
<1>5. /\ Len(others) \in Nat /\ Len(others) <= CacheCap
      /\ kept \in Seq(Entry) /\ Len(kept) < CacheCap
      /\ Len(kept) = IF Len(others) < CacheCap THEN Len(others) ELSE CacheCap - 1
      /\ \A i \in 1..Len(kept) : i \in 1..Len(others) /\ kept[i] = others[i]
  <2>1. Len(others) \in Nat /\ Len(others) <= CacheCap
    <3>1. Len(c) \in Nat /\ Len(c) <= CacheCap /\ p \in 1..(Len(c) + 1)
      BY <1>1
    <3>2. Len(others) = IF p <= Len(c) THEN Len(c) - 1 ELSE Len(c)
      BY <1>4
    <3> QED BY <3>1, <3>2
  <2>2. CASE Len(others) < CacheCap
    BY <1>4, <2>1, <2>2
  <2>3. CASE ~(Len(others) < CacheCap)
    <3>1. Len(others) = CacheCap /\ kept = Front(others)
      BY <2>1, <2>3
    <3>2. /\ kept \in Seq(Entry) /\ Len(kept) = CacheCap - 1
          /\ \A i \in 1..(CacheCap - 1) : kept[i] = others[i]
      BY <1>4, <3>1, ButLast
    <3> QED BY <2>1, <2>3, <3>1, <3>2
  <2> QED BY <2>2, <2>3
<1> HIDE DEF kept, new
<1>6. /\ <<new>> \in Seq(Entry) /\ Len(<<new>>) = 1 /\ <<new>>[1] = new
  BY <1>3
<1> HIDE DEF d
<1>7. /\ d \in Seq(Entry) /\ Len(d) = 1 + Len(kept) /\ d[1] = new
      /\ \A i \in 2..Len(d) : d[i] = kept[i - 1]
  <2>1. /\ d \in Seq(Entry) /\ Len(d) = 1 + Len(kept)
        /\ \A i \in 1..(1 + Len(kept)) : d[i] = IF i <= 1 THEN <<new>>[i] ELSE kept[i - 1]
    BY <1>2, <1>5, <1>6, ConcatProperties
  <2>2. Len(kept) \in Nat
    BY <1>5
  <2> QED BY <1>6, <2>1, <2>2
<1>8. ASSUME NEW i \in 2..Len(d)
      PROVE  /\ i - 1 \in 1..Len(others)
             /\ d[i] = IF i <= p THEN c[i - 1] ELSE c[i]
             /\ IF i <= p THEN i - 1 \in 1..Len(c) /\ i - 1 # p
                ELSE i \in 1..Len(c) /\ i # p
  <2>1. i - 1 \in 1..Len(kept) /\ d[i] = kept[i - 1]
    BY <1>5, <1>7
  <2>2. i - 1 \in 1..Len(others) /\ d[i] = others[i - 1]
    BY <1>5, <2>1
  <2>3. others[i - 1] = IF i - 1 < p THEN c[i - 1] ELSE c[(i - 1) + 1]
    BY <1>4, <2>2
  <2>4. (i - 1) + 1 = i /\ (i - 1 < p <=> i <= p) /\ i \in Nat /\ p \in Nat
    BY <1>1
  <2>5. d[i] = IF i <= p THEN c[i - 1] ELSE c[i]
    BY <2>2, <2>3, <2>4
  <2>6. IF i <= p THEN i - 1 \in 1..Len(c) /\ i - 1 # p ELSE i \in 1..Len(c) /\ i # p
    <3>1. Len(others) = IF p <= Len(c) THEN Len(c) - 1 ELSE Len(c)
      BY <1>4
    <3>2. Len(c) \in Nat /\ p \in 1..(Len(c) + 1) /\ i - 1 >= 1 /\ i - 1 <= Len(others)
      BY <1>1, <1>5, <2>2, <2>4
    <3> QED BY <2>4, <3>1, <3>2
  <2> QED BY <2>2, <2>5, <2>6
<1>9. Len(d) = IF p <= Len(c) THEN Len(c) ELSE IF Len(c) < CacheCap THEN Len(c) + 1 ELSE CacheCap
  <2>1. Len(c) \in Nat /\ Len(c) <= CacheCap /\ p \in 1..(Len(c) + 1)
    BY <1>1
  <2>2. Len(others) = IF p <= Len(c) THEN Len(c) - 1 ELSE Len(c)
    BY <1>4
  <2>3. /\ Len(kept) = IF Len(others) < CacheCap THEN Len(others) ELSE CacheCap - 1
        /\ Len(d) = 1 + Len(kept)
    BY <1>5, <1>7
  <2> QED BY <2>1, <2>2, <2>3
<1>10. AddedFrom(c, d, p, key, n)
  <2>1. d[1] = [key |-> key, count |-> saturating_add(peek(c, key), n)]
    BY <1>7 DEF new
  <2> QED BY <1>4, <1>8, <1>9, <2>1 DEF AddedFrom
<1>11. ASSUME NEW i \in 1..Len(d), NEW j \in 1..Len(d), i < j PROVE d[i].key # d[j].key
  <2>1. j \in 2..Len(d) /\ Len(d) \in Nat
    BY <1>5, <1>7, <1>11
  <2>2. d[j].key # key
    BY <1>4, <1>8, <2>1
  <2>3. CASE i = 1
    BY <1>7, <2>2, <2>3 DEF new
  <2>4. CASE i # 1
    <3>1. i \in 2..Len(d)
      BY <2>1, <2>4
    <3>2. d[i] = (IF i <= p THEN c[i - 1] ELSE c[i]) /\ d[j] = (IF j <= p THEN c[j - 1] ELSE c[j])
      BY <1>8, <2>1, <3>1
    <3>3. /\ IF i <= p THEN i - 1 \in 1..Len(c) ELSE i \in 1..Len(c)
          /\ IF j <= p THEN j - 1 \in 1..Len(c) ELSE j \in 1..Len(c)
      BY <1>8, <2>1, <3>1
    <3>4. i \in Nat /\ j \in Nat /\ p \in Nat
      BY <1>1, <2>1
    <3> QED BY <1>1, <1>11, <3>2, <3>3, <3>4
  <2> QED BY <2>3, <2>4
<1>12. d \in Cache
  <2>1. DOMAIN d = 1..Len(d) /\ Len(d) \in Nat
    BY <1>7, LenProperties
  <2>2. \A i, j \in DOMAIN d : d[i].key = d[j].key => i = j
    BY <1>11, <2>1
  <2>3. Len(d) <= CacheCap
    BY <1>5, <1>7
  <2> QED BY <1>7, <2>2, <2>3 DEF Cache
<1> QED BY <1>10, <1>12 DEF d

(***************************************************************************)
(* In terms of keys and counts: the key is there, its count has grown, the *)
(* others keep theirs, and only a full cache drops a key for a new one.    *)
(***************************************************************************)
LEMMA AddCounts ==
    ASSUME NEW c \in Cache, NEW key \in Keys, NEW n \in 0..CountMax
    PROVE  LET d == get_or_insert_and_add(c, key, n)
           IN  /\ d \in Cache
               /\ key \in CachedKeys(d) /\ CachedKeys(d) \subseteq CachedKeys(c) \cup {key}
               /\ peek(d, key) = saturating_add(peek(c, key), n)
               /\ \A k \in CachedKeys(d) \ {key} : peek(d, k) = peek(c, k)
               /\ key \in CachedKeys(c) \/ Len(c) < CacheCap
                     => CachedKeys(d) = CachedKeys(c) \cup {key}
<1> DEFINE d == get_or_insert_and_add(c, key, n)
<1>1. /\ Len(c) \in Nat /\ \A i \in 1..Len(c) : c[i] \in Entry
      /\ CachedKeys(c) = {c[i].key : i \in 1..Len(c)}
      /\ \A i \in 1..Len(c) : peek(c, c[i].key) = c[i].count
  BY Places
<1>2. d \in Cache /\ \E p \in 1..(Len(c) + 1) : AddedFrom(c, d, p, key, n)
  BY Adds
<1> HIDE DEF d
<1>3. PICK p \in 1..(Len(c) + 1) : AddedFrom(c, d, p, key, n)
  BY <1>2
<1>4. /\ Len(d) \in Nat
      /\ CachedKeys(d) = {d[i].key : i \in 1..Len(d)}
      /\ \A i \in 1..Len(d) : peek(d, d[i].key) = d[i].count
  BY <1>2, Places
<1>5. /\ p <= Len(c) => c[p].key = key
      /\ \A i \in 1..Len(c) : i # p => c[i].key # key
      /\ Len(d) = IF p <= Len(c) THEN Len(c)
                  ELSE IF Len(c) < CacheCap THEN Len(c) + 1 ELSE CacheCap
      /\ d[1] = [key |-> key, count |-> saturating_add(peek(c, key), n)]
      /\ \A i \in 2..Len(d) : d[i] = IF i <= p THEN c[i - 1] ELSE c[i]
  BY <1>3 DEF AddedFrom
<1>6. 1 \in 1..Len(d) /\ p \in Nat /\ p >= 1 /\ p <= Len(c) + 1 /\ Len(c) <= CacheCap
  <2>1. Len(c) \in Nat /\ p \in 1..(Len(c) + 1) /\ Len(d) \in Nat /\ Len(c) <= CacheCap
    BY <1>1, <1>4, Places
  <2>2. Len(d) = IF p <= Len(c) THEN Len(c)
                 ELSE IF Len(c) < CacheCap THEN Len(c) + 1 ELSE CacheCap
    BY <1>5
  <2> QED BY <2>1, <2>2, Sizes
<1>7. key \in CachedKeys(d) /\ peek(d, key) = saturating_add(peek(c, key), n)
  BY <1>4, <1>5, <1>6
<1>8. ASSUME NEW i \in 1..Len(d), i # 1
      PROVE  \E j \in 1..Len(c) : j # p /\ d[i] = c[j]
  <2>1. i \in 2..Len(d)
    BY <1>4, <1>8
  <2>2. d[i] = IF i <= p THEN c[i - 1] ELSE c[i]
    BY <1>5, <2>1
  <2>3. /\ i <= p => i - 1 \in 1..Len(c) /\ i - 1 # p
        /\ ~(i <= p) => i \in 1..Len(c) /\ i # p
    <3>1. Len(d) = IF p <= Len(c) THEN Len(c)
                   ELSE IF Len(c) < CacheCap THEN Len(c) + 1 ELSE CacheCap
      BY <1>5
    <3>2. Len(c) \in Nat /\ Len(d) \in Nat /\ i \in Nat /\ i >= 2 /\ i <= Len(d)
      BY <1>1, <1>4, <2>1
    <3> QED BY <1>6, <3>1, <3>2, Sizes
  <2> QED BY <2>2, <2>3
<1>9. ASSUME NEW k \in CachedKeys(d) \ {key}
      PROVE  k \in CachedKeys(c) /\ peek(d, k) = peek(c, k)
  <2>1. PICK i \in 1..Len(d) : d[i].key = k
    BY <1>4, <1>9
  <2>2. i # 1
    BY <1>5, <2>1
  <2>3. PICK j \in 1..Len(c) : d[i] = c[j]
    BY <1>8, <2>2
  <2> QED BY <1>1, <1>4, <2>1, <2>3
<1>10. ASSUME key \in CachedKeys(c) \/ Len(c) < CacheCap, NEW k \in CachedKeys(c), k # key
       PROVE  k \in CachedKeys(d)
  <2>1. PICK j \in 1..Len(c) : c[j].key = k
    BY <1>1, <1>10
  <2>2. p <= Len(c) \/ Len(c) < CacheCap
    <3>1. CASE key \in CachedKeys(c)
      <4>1. PICK i \in 1..Len(c) : c[i].key = key
        BY <1>1, <3>1
      <4>2. i = p /\ i <= Len(c)
        BY <1>1, <1>5, <4>1
      <4> QED BY <4>2
    <3>2. CASE Len(c) < CacheCap
      BY <3>2
    <3> QED BY <1>10, <3>1, <3>2
  <2>3. j # p
    <3>1. j = p => p <= Len(c)
      BY <1>1, <2>1
    <3> QED BY <1>5, <1>10, <2>1, <3>1
  <2>4. /\ j < p => j + 1 \in 2..Len(d) /\ j + 1 <= p /\ (j + 1) - 1 = j
        /\ ~(j < p) => j \in 2..Len(d) /\ ~(j <= p)
    <3>1. Len(d) = IF p <= Len(c) THEN Len(c)
                   ELSE IF Len(c) < CacheCap THEN Len(c) + 1 ELSE CacheCap
      BY <1>5
    <3>2. Len(c) \in Nat /\ Len(d) \in Nat /\ j \in Nat /\ j >= 1 /\ j <= Len(c)
      BY <1>1, <1>4, <2>1
    <3> QED BY <1>6, <2>2, <2>3, <3>1, <3>2, Sizes
  <2>5. CASE j < p
    <3>1. d[j + 1] = c[j] /\ j + 1 \in 1..Len(d)
      BY <1>5, <2>4, <2>5
    <3> QED BY <1>4, <2>1, <3>1
  <2>6. CASE ~(j < p)
    <3>1. d[j] = c[j] /\ j \in 1..Len(d)
      BY <1>5, <2>4, <2>6
    <3> QED BY <1>4, <2>1, <3>1
  <2> QED BY <2>5, <2>6
<1> QED BY <1>2, <1>7, <1>9, <1>10 DEF d

(***************************************************************************)
(* A cache whose keys are among few enough has room for another of them.   *)
(***************************************************************************)
LEMMA RoomLeft ==
    ASSUME NEW c \in Cache, NEW K, IsFiniteSet(K), Cardinality(K) <= CacheCap,
           CachedKeys(c) \subseteq K, NEW key \in K, key \notin CachedKeys(c)
    PROVE  Len(c) < CacheCap
<1> DEFINE f == [i \in 1..Len(c) |-> c[i].key]
<1>1. /\ Len(c) \in Nat /\ CachedKeys(c) = {c[i].key : i \in 1..Len(c)}
      /\ \A i, j \in 1..Len(c) : c[i].key = c[j].key => i = j
  BY Places
<1>2. f \in Injection(1..Len(c), K \ {key})
  <2>1. \A i \in 1..Len(c) : c[i].key \in K \ {key}
    BY <1>1
  <2> QED BY <1>1, <2>1 DEF Injection, IsInjective
<1>3. IsFiniteSet(K \ {key}) /\ Cardinality(K \ {key}) = Cardinality(K) - 1
  BY FS_RemoveElement
<1>4. Cardinality(1..Len(c)) <= Cardinality(K \ {key})
  <2> HIDE DEF f
  <2> QED BY <1>2, <1>3, FS_Injection
<1>5. Cardinality(1..Len(c)) = Len(c)
  <2>1. Cardinality(1..Len(c)) = IF 1 > Len(c) THEN 0 ELSE Len(c) - 1 + 1
    BY <1>1, FS_Interval
  <2> QED BY <1>1, <2>1
<1>6. Cardinality(K) \in Nat
  BY FS_CardinalityType
<1> QED BY <1>1, <1>3, <1>4, <1>5, <1>6, Sizes

(***************************************************************************)
(* A merge makes up no key, and loses none if both caches together have    *)
(* few enough.                                                             *)
(***************************************************************************)
LEMMA Merges ==
    ASSUME NEW h, NEW other, NEW t, Current(h, t) \in Cache, other.entries \in Cache
    PROVE  LET d == merge(h, other, t).entries
               both == CachedKeys(Current(h, t)) \cup CachedKeys(other.entries)
           IN  /\ d \in Cache /\ CachedKeys(d) \subseteq both
               /\ \A K : IsFiniteSet(K) /\ Cardinality(K) <= CacheCap /\ both \subseteq K
                          => CachedKeys(d) = both
<1> DEFINE a == Current(h, t)
           e == other.entries
           n == Len(e)
           f == CHOOSE absorbed :
                   absorbed = [i \in 0..n |->
                       IF i = 0 THEN Current(h, t)
                       ELSE get_or_insert_and_add(absorbed[i - 1], other.entries[n + 1 - i].key,
                                                  other.entries[n + 1 - i].count)]
           step == [i \in 1..n |-> [c \in Cache |->
                      get_or_insert_and_add(c, e[n + 1 - i].key, e[n + 1 - i].count)]]
<1>1. merge(h, other, t).entries = f[n]
  BY DEF merge
<1>2. /\ n \in Nat /\ CachedKeys(e) = {e[i].key : i \in 1..n}
      /\ \A i \in 1..n : e[n + 1 - i].key \in Keys /\ e[n + 1 - i].count \in 0..CountMax
  <2>1. n \in Nat /\ CachedKeys(e) = {e[i].key : i \in 1..n} /\ \A i \in 1..n : e[i] \in Entry
    BY Places
  <2> HIDE DEF n, e
  <2>2. ASSUME NEW i \in 1..n
        PROVE  e[n + 1 - i].key \in Keys /\ e[n + 1 - i].count \in 0..CountMax
    <3>1. n + 1 - i \in 1..n
      BY <2>1
    <3> QED BY <2>1, <3>1 DEF Entry
  <2> QED BY <2>1, <2>2
<1> HIDE DEF n
<1>3. \E g : g = [i \in 0..n |->
                    IF i = 0 THEN Current(h, t)
                    ELSE get_or_insert_and_add(g[i - 1], other.entries[n + 1 - i].key,
                                               other.entries[n + 1 - i].count)]
  <2>1. step \in [1..n -> [Cache -> Cache]]
    <3>1. ASSUME NEW i \in 1..n, NEW c \in Cache
          PROVE  get_or_insert_and_add(c, e[n + 1 - i].key, e[n + 1 - i].count) \in Cache
      BY <1>2, Adds
    <3> QED BY <3>1
  <2>2. PICK g \in [0..n -> Cache] : g[0] = a /\ \A i \in 1..n : g[i] = step[i][g[i - 1]]
    <3>1. n \in Nat /\ a \in Cache
      BY <1>2
    <3>2. Steps(n, Cache, step)
      BY <2>1 DEF Steps
    <3> HIDE DEF step, a, e, f
    <3>3. \E g : Iterated(n, Cache, a, step, g)
      BY <3>1, <3>2, Iterates
    <3> QED BY <3>3 DEF Iterated
  <2>3. ASSUME NEW i \in 0..n
        PROVE  g[i] = IF i = 0 THEN a
                      ELSE get_or_insert_and_add(g[i - 1], e[n + 1 - i].key, e[n + 1 - i].count)
    <3>1. CASE i = 0
      BY <2>2, <3>1
    <3>2. CASE i # 0
      <4>1. i \in 1..n /\ i - 1 \in 0..n
        BY <1>2, <3>2
      <4>2. g[i] = step[i][g[i - 1]] /\ i \in 1..n /\ g[i - 1] \in Cache
        BY <2>2, <4>1
      <4> QED BY <3>2, <4>2
    <3> QED BY <3>1, <3>2
  <2>4. g = [i \in 0..n |->
               IF i = 0 THEN a
               ELSE get_or_insert_and_add(g[i - 1], e[n + 1 - i].key, e[n + 1 - i].count)]
    BY <2>2, <2>3
  <2> QED BY <2>4
<1>4. f = [i \in 0..n |->
             IF i = 0 THEN a
             ELSE get_or_insert_and_add(f[i - 1], e[n + 1 - i].key, e[n + 1 - i].count)]
  BY <1>3
<1> HIDE DEF f, step
<1>5. /\ f[0] = a
      /\ \A i \in 1..n : f[i] = get_or_insert_and_add(f[i - 1], e[n + 1 - i].key, e[n + 1 - i].count)
  <2>1. 0 \in 0..n
    BY <1>2
  <2>2. f[0] = a
    BY <1>4, <2>1
  <2>3. ASSUME NEW i \in 1..n
        PROVE  f[i] = get_or_insert_and_add(f[i - 1], e[n + 1 - i].key, e[n + 1 - i].count)
    <3>1. i \in 0..n /\ i # 0
      BY <1>2
    <3> QED BY <1>4, <3>1
  <2> QED BY <2>2, <2>3
<1> DEFINE Done(i) == {e[n + 1 - j].key : j \in 1..i}
           both == CachedKeys(a) \cup CachedKeys(e)
<1>6. /\ Done(0) = {} /\ Done(n) = CachedKeys(e)
      /\ \A i \in 0..(n - 1) : Done(i + 1) = Done(i) \cup {e[n + 1 - (i + 1)].key}
      /\ \A i \in 0..n : Done(i) \subseteq CachedKeys(e)
  <2>1. \A j \in 1..n : n + 1 - j \in 1..n /\ n + 1 - (n + 1 - j) = j
    BY <1>2
  <2>2. 1..0 = {} /\ \A i \in 0..(n - 1) : 1..(i + 1) = 1..i \cup {i + 1}
    BY <1>2
  <2>3. \A i \in 0..n : 1..i \subseteq 1..n
    BY <1>2
  <2>4. Done(n) = CachedKeys(e)
    BY <1>2, <2>1
  <2> QED BY <1>2, <2>1, <2>2, <2>3, <2>4
<1> HIDE DEF Done
<1>7. \A i \in 0..(n - 1) : i + 1 \in 1..n /\ (i + 1) - 1 = i /\ i \in 0..n /\ i + 1 \in 0..n
  BY <1>2
<1>8. \A i \in 0..n : f[i] \in Cache /\ CachedKeys(f[i]) \subseteq CachedKeys(a) \cup Done(i)
  <2> DEFINE P == {i \in 0..n : f[i] \in Cache /\ CachedKeys(f[i]) \subseteq CachedKeys(a) \cup Done(i)}
  <2>1. 0 \in P
    BY <1>2, <1>5
  <2>2. ASSUME NEW i \in 0..(n - 1), i \in P PROVE i + 1 \in P
    <3>1. /\ f[i + 1] = get_or_insert_and_add(f[i], e[n + 1 - (i + 1)].key, e[n + 1 - (i + 1)].count)
          /\ f[i] \in Cache /\ e[n + 1 - (i + 1)].key \in Keys
          /\ e[n + 1 - (i + 1)].count \in 0..CountMax
      BY <1>2, <1>5, <1>7, <2>2
    <3>2. /\ f[i + 1] \in Cache
          /\ CachedKeys(f[i + 1]) \subseteq CachedKeys(f[i]) \cup {e[n + 1 - (i + 1)].key}
      BY <3>1, AddCounts
    <3> QED BY <1>6, <1>7, <2>2, <3>2
  <2> HIDE DEF P
  <2>3. \A i \in 0..n : i \in P
    BY <1>2, <2>1, <2>2, UpTo
  <2> QED BY <2>3 DEF P
<1>9. ASSUME NEW K, IsFiniteSet(K), Cardinality(K) <= CacheCap, both \subseteq K
      PROVE  CachedKeys(f[n]) = both
  <2> DEFINE P == {i \in 0..n : CachedKeys(f[i]) = CachedKeys(a) \cup Done(i)}
  <2>1. 0 \in P
    BY <1>2, <1>5, <1>6
  <2>2. ASSUME NEW i \in 0..(n - 1), i \in P PROVE i + 1 \in P
    <3> DEFINE key == e[n + 1 - (i + 1)].key
    <3>1. /\ f[i + 1] = get_or_insert_and_add(f[i], key, e[n + 1 - (i + 1)].count)
          /\ f[i] \in Cache /\ key \in Keys
          /\ e[n + 1 - (i + 1)].count \in 0..CountMax
      BY <1>2, <1>5, <1>7, <1>8
    <3>2. key \in K /\ CachedKeys(f[i]) \subseteq K
      BY <1>6, <1>7, <1>9, <2>2
    <3> HIDE DEF key
    <3>3. key \in CachedKeys(f[i]) \/ Len(f[i]) < CacheCap
      BY <1>9, <3>1, <3>2, RoomLeft
    <3>4. CachedKeys(f[i + 1]) = CachedKeys(f[i]) \cup {key}
      BY <3>1, <3>3, AddCounts
    <3> QED BY <1>6, <1>7, <2>2, <3>4 DEF key
  <2> HIDE DEF P
  <2>3. \A i \in 0..n : i \in P
    BY <1>2, <2>1, <2>2, UpTo
  <2>4. n \in 0..n
    BY <1>2
  <2> QED BY <1>6, <2>3, <2>4 DEF P
<1>10. n \in 0..n
  BY <1>2
<1>11. f[n] \in Cache /\ CachedKeys(f[n]) \subseteq both
  BY <1>6, <1>8, <1>10
<1> QED BY <1>1, <1>9, <1>11

-----------------------------------------------------------------------------
(* The cache and the log.                                                  *)

(***************************************************************************)
(* Finitely many events have finitely many sources.                        *)
(***************************************************************************)
LEMMA FewSources ==
    ASSUME NEW L, NEW B, IsFiniteSet(B)
    PROVE  IsFiniteSet(Sources(L, B))
<1> DEFINE f == [i \in B |-> L[i].key]
           T == {L[i].key : i \in B}
<1>1. f \in Surjection(B, T)
  BY DEF Surjection
<1>2. Sources(L, B) \subseteq T
  BY DEF Sources
<1> HIDE DEF f, T
<1>3. IsFiniteSet(T)
  BY <1>1, FS_Surjection
<1> QED BY <1>2, <1>3, FS_Subset

(***************************************************************************)
(* What one more event changes in a log L and a set B of its places.       *)
(***************************************************************************)
Grown(L, e, B, M, n, D) ==
    /\ n \notin B /\ D \subseteq 1..Len(M) /\ M[n] = e
    /\ IsFiniteSet(B) /\ IsFiniteSet(D)
    /\ \A k : Of(M, k, D) = Of(L, k, B) \cup (IF k = e.key THEN {n} ELSE {})
    /\ \A k : Cardinality(Of(L, k, B)) \in Nat
    /\ Sources(M, D) = Sources(L, B) \cup ({e.key} \cap Keys)
    /\ Cardinality(Of(M, e.key, D)) = Cardinality(Of(L, e.key, B)) + 1

LEMMA LogGrows ==
    ASSUME NEW E, NEW L \in Seq(E), NEW e \in E, NEW B, B \subseteq 1..Len(L)
    PROVE  Grown(L, e, B, Append(L, e), Len(L) + 1, B \cup {Len(L) + 1})
<1> DEFINE M == Append(L, e)
           n == Len(L) + 1
           D == B \cup {n}
<1>1. Len(L) \in Nat /\ Len(M) = n /\ M[n] = e /\ \A i \in 1..Len(L) : M[i] = L[i]
  BY LenProperties, AppendProperties
<1> HIDE DEF M
<1>2. n \notin B /\ D \subseteq 1..Len(M)
  <2>1. \A l \in Nat : l + 1 \notin 1..l /\ 1..l \cup {l + 1} \subseteq 1..(l + 1)
    OBVIOUS
  <2>2. n \notin 1..Len(L) /\ 1..Len(L) \cup {n} \subseteq 1..Len(M)
    BY <1>1, <2>1
  <2> QED BY <2>2
<1>3. IsFiniteSet(1..Len(L)) /\ IsFiniteSet(B) /\ IsFiniteSet(D)
  <2>1. IsFiniteSet(1..Len(L))
    <3>1. 1 \in Int /\ Len(L) \in Int
      BY <1>1
    <3> QED BY <3>1, FS_Interval
  <2>2. IsFiniteSet(B)
    BY <2>1, FS_Subset
  <2>3. IsFiniteSet(D)
    BY <2>2, FS_AddElement
  <2> QED BY <2>1, <2>2, <2>3
<1>4. \A i \in B : M[i] = L[i]
  BY <1>1
<1>5. ASSUME NEW k PROVE Of(M, k, D) = Of(L, k, B) \cup (IF k = e.key THEN {n} ELSE {})
  BY <1>1, <1>4 DEF Of
<1>6. ASSUME NEW k PROVE IsFiniteSet(Of(L, k, B)) /\ Cardinality(Of(L, k, B)) \in Nat
  <2>1. Of(L, k, B) \subseteq B
    BY DEF Of
  <2> QED BY <1>3, <2>1, FS_Subset, FS_CardinalityType
<1>7. Sources(M, D) = Sources(L, B) \cup ({e.key} \cap Keys)
  BY <1>1, <1>4 DEF Sources
<1>8. Cardinality(Of(M, e.key, D)) = Cardinality(Of(L, e.key, B)) + 1
  <2>1. n \notin Of(L, e.key, B)
    BY <1>2 DEF Of
  <2>2. Of(M, e.key, D) = Of(L, e.key, B) \cup {n}
    BY <1>5
  <2> QED BY <1>6, <2>1, <2>2, FS_AddElement
<1> QED BY <1>1, <1>2, <1>3, <1>5, <1>6, <1>7, <1>8 DEF Grown, M

(***************************************************************************)
(* An event that is added to the log and to the cache.                     *)
(***************************************************************************)
LEMMA OrderGrows ==
    ASSUME NEW E, NEW L \in Seq(E), NEW e \in E, e.key \in Keys, NEW B, B \subseteq 1..Len(L),
           NEW c \in Cache, Ordered(L, c, B)
    PROVE  Ordered(Append(L, e), get_or_insert_and_add(c, e.key, 1), B \cup {Len(L) + 1})
<1> DEFINE M == Append(L, e)
           n == Len(L) + 1
           D == B \cup {n}
           key == e.key
           d == get_or_insert_and_add(c, key, 1)
<1> USE Sizes
<1>1. /\ n \notin B /\ Len(L) \in Nat
      /\ \A k : Of(M, k, D) = Of(L, k, B) \cup (IF k = key THEN {n} ELSE {})
      /\ Sources(M, D) = Sources(L, B) \cup {key}
  <2>1. Grown(L, e, B, M, n, D)
    BY LogGrows
  <2>2. Len(L) \in Nat
    BY LenProperties
  <2> QED BY <2>1, <2>2 DEF Grown
<1>2. 1 \in 0..CountMax
  OBVIOUS
<1>3. PICK p \in 1..(Len(c) + 1) : AddedFrom(c, d, p, key, 1)
  BY <1>2, Adds
<1>4. /\ d \in Cache /\ CachedKeys(d) \subseteq CachedKeys(c) \cup {key} /\ key \in CachedKeys(d)
      /\ key \in CachedKeys(c) \/ Len(c) < CacheCap => CachedKeys(d) = CachedKeys(c) \cup {key}
  BY <1>2, AddCounts
<1>5. /\ Len(c) \in Nat /\ Len(c) <= CacheCap /\ CachedKeys(c) = {c[i].key : i \in 1..Len(c)}
  BY Places
<1> HIDE DEF M, d
<1>6. /\ Len(d) \in Nat /\ CachedKeys(d) = {d[i].key : i \in 1..Len(d)}
      /\ \A i, j \in 1..Len(d) : d[i].key = d[j].key => i = j
  BY <1>4, Places
<1>7. /\ p <= Len(c) => c[p].key = key
      /\ Len(d) = IF p <= Len(c) THEN Len(c)
                  ELSE IF Len(c) < CacheCap THEN Len(c) + 1 ELSE CacheCap
      /\ d[1].key = key
      /\ \A i \in 2..Len(d) : d[i] = IF i <= p THEN c[i - 1] ELSE c[i]
  BY <1>3 DEF AddedFrom
<1>8. Len(d) >= 1
  BY <1>5, <1>7
<1> DEFINE from(i) == IF i <= p THEN i - 1 ELSE i
<1>9. ASSUME NEW i \in 2..Len(d)
      PROVE  from(i) \in 1..Len(c) /\ d[i] = c[from(i)] /\ d[i].key # key
  <2>1. /\ Len(d) = IF p <= Len(c) THEN Len(c)
                    ELSE IF Len(c) < CacheCap THEN Len(c) + 1 ELSE CacheCap
        /\ Len(c) \in Nat /\ Len(c) <= CacheCap /\ p \in 1..(Len(c) + 1) /\ Len(d) \in Nat
    BY <1>5, <1>6, <1>7
  <2>2. from(i) \in 1..Len(c)
    BY <2>1
  <2>3. d[i] = c[from(i)]
    BY <1>7
  <2>4. i \in 1..Len(d) /\ 1 \in 1..Len(d) /\ i # 1
    BY <1>6, <1>8
  <2> QED BY <1>6, <1>7, <2>2, <2>3, <2>4
\* The new event is later than all others; among these nothing changes.
<1>10. ASSUME NEW k, k # key PROVE SeenLater(M, D, key, k)
  <2>1. n \in Of(M, key, D) /\ Of(M, k, D) = Of(L, k, B)
    BY <1>1, <1>10
  <2>2. \A j \in Of(L, k, B) : j < n
    BY <1>1 DEF Of
  <2> QED BY <2>1, <2>2 DEF SeenLater
<1>11. ASSUME NEW k, NEW m, k # key, m # key, SeenLater(L, B, k, m) PROVE SeenLater(M, D, k, m)
  <2>1. Of(M, k, D) = Of(L, k, B) /\ Of(M, m, D) = Of(L, m, B)
    BY <1>1, <1>11
  <2> QED BY <1>11, <2>1 DEF SeenLater
<1>12. CachedKeys(d) \subseteq Sources(M, D)
  BY <1>1, <1>4 DEF Ordered
<1>13. ASSUME NEW i \in 1..Len(d), NEW j \in 1..Len(d), i < j
       PROVE  SeenLater(M, D, d[i].key, d[j].key)
  <2>1. j \in 2..Len(d) /\ d[j] = c[from(j)] /\ d[j].key # key /\ from(j) \in 1..Len(c)
    BY <1>6, <1>9, <1>13
  <2>2. CASE i = 1
    BY <1>7, <1>10, <2>1, <2>2
  <2>3. CASE i # 1
    <3>1. i \in 2..Len(d)
      BY <1>6, <2>3
    <3>2. d[i] = c[from(i)] /\ d[i].key # key /\ from(i) \in 1..Len(c)
      BY <1>9, <3>1
    <3>3. from(i) < from(j)
      <4>1. i \in Nat /\ j \in Nat /\ p \in Nat
        BY <1>5, <1>6
      <4> QED BY <1>13, <4>1
    <3>4. SeenLater(L, B, c[from(i)].key, c[from(j)].key)
      BY <2>1, <3>2, <3>3 DEF Ordered
    <3> QED BY <1>11, <2>1, <3>2, <3>4
  <2> QED BY <2>2, <2>3
<1>14. ASSUME NEW k \in Sources(M, D) \ CachedKeys(d)
       PROVE  Len(d) = CacheCap /\ \A i \in 1..Len(d) : SeenLater(M, D, d[i].key, k)
  <2>1. k # key /\ k \in Sources(L, B)
    BY <1>1, <1>4
  <2>2. CASE k \notin CachedKeys(c)
    <3>1. Len(c) = CacheCap /\ \A i \in 1..Len(c) : SeenLater(L, B, c[i].key, k)
      BY <2>1, <2>2 DEF Ordered
    <3>2. Len(d) = CacheCap
      BY <1>5, <1>7, <3>1
    <3>3. ASSUME NEW i \in 1..Len(d) PROVE SeenLater(M, D, d[i].key, k)
      <4>1. CASE i = 1
        BY <1>7, <1>10, <2>1, <4>1
      <4>2. CASE i # 1
        <5>1. i \in 2..Len(d)
          BY <1>6, <4>2
        <5>2. d[i] = c[from(i)] /\ d[i].key # key /\ from(i) \in 1..Len(c)
          BY <1>9, <5>1
        <5>3. SeenLater(L, B, d[i].key, k)
          BY <3>1, <5>2
        <5> QED BY <1>11, <2>1, <5>2, <5>3
      <4> QED BY <4>1, <4>2
    <3> QED BY <3>2, <3>3
  <2>3. CASE k \in CachedKeys(c)
    <3>1. key \notin CachedKeys(c) /\ Len(c) = CacheCap
      BY <1>4, <1>5, <2>3
    <3>2. p = Len(c) + 1
      <4>1. ~(p <= Len(c))
        <5>1. p <= Len(c) => p \in 1..Len(c)
          BY <1>5
        <5> QED BY <1>5, <1>7, <3>1, <5>1
      <4> QED BY <1>5, <4>1
    <3>3. Len(d) = CacheCap
      BY <1>5, <1>7, <3>1, <3>2
    <3>4. PICK j \in 1..Len(c) : c[j].key = k
      BY <1>5, <2>3
    <3>5. \A i \in 2..Len(d) : i <= p /\ d[i] = c[i - 1]
      BY <1>5, <1>7, <3>1, <3>2, <3>3
    <3>6. j = Len(c)
      <4> SUFFICES ASSUME j # Len(c) PROVE FALSE
        OBVIOUS
      <4>1. j + 1 \in 2..Len(d) /\ (j + 1) - 1 = j /\ j + 1 \in 1..Len(d)
        BY <1>5, <3>1, <3>3
      <4>2. d[j + 1].key = k
        BY <3>4, <3>5, <4>1
      <4> QED BY <1>6, <1>14, <4>1, <4>2
    <3>7. ASSUME NEW i \in 1..Len(d) PROVE SeenLater(M, D, d[i].key, k)
      <4>1. CASE i = 1
        BY <1>7, <1>10, <2>1, <4>1
      <4>2. CASE i # 1
        <5>1. i \in 2..Len(d) /\ i - 1 \in 1..Len(c) /\ i - 1 < Len(c)
          BY <1>5, <1>6, <3>1, <3>3, <4>2
        <5>2. d[i] = c[i - 1] /\ d[i].key # key
          BY <1>9, <3>5, <5>1
        <5>3. SeenLater(L, B, c[i - 1].key, c[j].key)
          BY <3>6, <5>1 DEF Ordered
        <5> QED BY <1>11, <2>1, <3>4, <5>2, <5>3
      <4> QED BY <4>1, <4>2
    <3> QED BY <3>3, <3>7
  <2> QED BY <2>2, <2>3
<1>15. Ordered(M, d, D)
  BY <1>12, <1>13, <1>14 DEF Ordered
<1> QED BY <1>15 DEF M, d

(***************************************************************************)
(* What peek returns is a u32.                                             *)
(***************************************************************************)
LEMMA Counted ==
    ASSUME NEW c \in Cache, NEW k
    PROVE  peek(c, k) \in 0..CountMax
<1>1. CASE k \in CachedKeys(c)
  <2>1. PICK i \in 1..Len(c) : c[i].key = k
    BY <1>1, Places
  <2>2. peek(c, c[i].key) = c[i].count /\ c[i] \in Entry
    BY Places
  <2> QED BY <2>1, <2>2 DEF Entry
<1>2. CASE k \notin CachedKeys(c)
  BY <1>2, Sizes DEF peek
<1> QED BY <1>1, <1>2

(***************************************************************************)
(* A count that was not too high is not too high after one more event.     *)
(***************************************************************************)
LEMMA CountsGrow ==
    ASSUME NEW E, NEW L \in Seq(E), NEW e \in E, e.key \in Keys, NEW B, B \subseteq 1..Len(L),
           NEW c \in Cache, Earned(L, c, B)
    PROVE  Earned(Append(L, e), get_or_insert_and_add(c, e.key, 1), B \cup {Len(L) + 1})
<1> DEFINE M == Append(L, e)
           n == Len(L) + 1
           D == B \cup {n}
           key == e.key
           d == get_or_insert_and_add(c, key, 1)
<1>1. Grown(L, e, B, M, n, D)
  BY LogGrows
<1>2. 1 \in 0..CountMax
  BY Sizes
<1>3. /\ CachedKeys(d) \subseteq CachedKeys(c) \cup {key}
      /\ peek(d, key) = saturating_add(peek(c, key), 1)
      /\ \A k \in CachedKeys(d) \ {key} : peek(d, k) = peek(c, k)
  BY <1>2, AddCounts
<1> HIDE DEF M, n, D, d
<1>4. ASSUME NEW k \in CachedKeys(d), k # key
      PROVE  peek(d, k) <= Cardinality(Of(M, k, D))
  <2>1. Of(M, k, D) = Of(L, k, B)
    BY <1>1, <1>4 DEF Grown
  <2>2. k \in CachedKeys(c) /\ peek(d, k) = peek(c, k)
    BY <1>3, <1>4
  <2> QED BY <2>1, <2>2 DEF Earned
<1>5. peek(d, key) <= Cardinality(Of(M, key, D))
  <2>1. /\ Cardinality(Of(M, key, D)) = Cardinality(Of(L, key, B)) + 1
        /\ Cardinality(Of(L, key, B)) \in Nat
    BY <1>1 DEF Grown
  <2>2. peek(c, key) \in 0..CountMax
    BY Counted
  <2>3. peek(c, key) <= Cardinality(Of(L, key, B))
    <3>1. CASE key \in CachedKeys(c)
      BY <3>1 DEF Earned
    <3>2. CASE key \notin CachedKeys(c)
      BY <2>1, <3>2 DEF peek
    <3> QED BY <3>1, <3>2
  <2>4. saturating_add(peek(c, key), 1) <= peek(c, key) + 1
    BY <2>2, Sizes DEF saturating_add
  <2>5. saturating_add(peek(c, key), 1) \in Int
    BY <2>2, Sizes DEF saturating_add
  <2> HIDE DEF key
  <2> QED BY <1>3, <2>1, <2>2, <2>3, <2>4, <2>5
<1>6. Earned(M, d, D)
  BY <1>4, <1>5 DEF Earned
<1> QED BY <1>6 DEF M, n, D, d

(***************************************************************************)
(* Nor does a count that was complete fall behind, if there is room.       *)
(***************************************************************************)
LEMMA CompletionGrows ==
    ASSUME NEW E, NEW L \in Seq(E), NEW e \in E, e.key \in Keys, NEW B, B \subseteq 1..Len(L),
           NEW c \in Cache, Complete(L, c, B)
    PROVE  Complete(Append(L, e), get_or_insert_and_add(c, e.key, 1), B \cup {Len(L) + 1})
<1> DEFINE M == Append(L, e)
           n == Len(L) + 1
           D == B \cup {n}
           key == e.key
           d == get_or_insert_and_add(c, key, 1)
<1>1. Grown(L, e, B, M, n, D)
  BY LogGrows
<1>2. 1 \in 0..CountMax
  BY Sizes
<1>3. /\ CachedKeys(d) \subseteq CachedKeys(c) \cup {key}
      /\ peek(d, key) = saturating_add(peek(c, key), 1)
      /\ \A k \in CachedKeys(d) \ {key} : peek(d, k) = peek(c, k)
      /\ key \in CachedKeys(c) \/ Len(c) < CacheCap => CachedKeys(d) = CachedKeys(c) \cup {key}
  BY <1>2, AddCounts
<1> HIDE DEF M, n, D, d
<1> SUFFICES ASSUME Cardinality(Sources(M, D)) <= CacheCap
             PROVE  /\ CachedKeys(d) = Sources(M, D)
                    /\ \A k \in CachedKeys(d) :
                          peek(d, k) \in {Cardinality(Of(M, k, D)), CountMax}
  BY DEF Complete, M, n, D, d
<1>4. /\ Sources(M, D) = Sources(L, B) \cup {key} /\ IsFiniteSet(D) /\ IsFiniteSet(B)
  BY <1>1 DEF Grown
<1>5. IsFiniteSet(Sources(M, D))
  BY <1>4, FewSources
<1>6. Cardinality(Sources(L, B)) <= CacheCap
  <2>1. Sources(L, B) \in SUBSET Sources(M, D)
    BY <1>4
  <2>2. IsFiniteSet(Sources(L, B)) /\ Cardinality(Sources(L, B)) <= Cardinality(Sources(M, D))
    BY <1>5, <2>1, FS_Subset
  <2>3. Cardinality(Sources(L, B)) \in Nat /\ Cardinality(Sources(M, D)) \in Nat
    BY <1>5, <2>2, FS_CardinalityType
  <2> QED BY <2>2, <2>3, Sizes
<1>7. /\ CachedKeys(c) = Sources(L, B)
      /\ \A k \in CachedKeys(c) : peek(c, k) \in {Cardinality(Of(L, k, B)), CountMax}
  BY <1>6 DEF Complete
<1>8. key \in CachedKeys(c) \/ Len(c) < CacheCap
  <2>1. CachedKeys(c) \subseteq Sources(M, D) /\ key \in Sources(M, D)
    BY <1>4, <1>7
  <2> HIDE DEF key
  <2> QED BY <1>5, <2>1, RoomLeft
<1>9. CachedKeys(d) = Sources(M, D)
  BY <1>3, <1>4, <1>7, <1>8
<1>10. ASSUME NEW k \in CachedKeys(d), k # key
       PROVE  peek(d, k) \in {Cardinality(Of(M, k, D)), CountMax}
  <2>1. Of(M, k, D) = Of(L, k, B)
    BY <1>1, <1>10 DEF Grown
  <2>2. k \in CachedKeys(c) /\ peek(d, k) = peek(c, k)
    BY <1>3, <1>10
  <2> QED BY <1>7, <2>1, <2>2
<1>11. peek(d, key) \in {Cardinality(Of(M, key, D)), CountMax}
  <2>1. /\ Cardinality(Of(M, key, D)) = Cardinality(Of(L, key, B)) + 1
        /\ Cardinality(Of(L, key, B)) \in Nat
    BY <1>1 DEF Grown
  <2>2. peek(c, key) \in {Cardinality(Of(L, key, B)), CountMax}
    <3>1. CASE key \in CachedKeys(c)
      BY <1>7, <3>1
    <3>2. CASE key \notin CachedKeys(c)
      <4>1. Of(L, key, B) = {}
        BY <1>7, <3>2 DEF Of, Sources
      <4> QED BY <3>2, <4>1, FS_EmptySet DEF peek
    <3> QED BY <3>1, <3>2
  <2>3. peek(c, key) \in 0..CountMax
    BY Counted
  <2>4. \A m \in Nat : \A q \in 0..CountMax : q \in {m, CountMax}
           => saturating_add(q, 1) \in {m + 1, CountMax}
    BY Sizes DEF saturating_add
  <2> HIDE DEF key
  <2> QED BY <1>3, <2>1, <2>2, <2>3, <2>4
<1> QED BY <1>9, <1>10, <1>11

(***************************************************************************)
(* The empty cache follows no events of any log.                           *)
(***************************************************************************)
LEMMA NothingFollows ==
    ASSUME NEW L
    PROVE  <<>> \in Cache /\ CachedKeys(<<>>) = {} /\ Follows(L, <<>>, {})
<1>1. Len(<<>>) = 0 /\ <<>> \in Seq(Entry) /\ DOMAIN <<>> = {} /\ 1..0 = {}
  OBVIOUS
<1>2. <<>> \in Cache
  BY <1>1, Sizes DEF Cache
<1>3. CachedKeys(<<>>) = {}
  BY <1>1 DEF CachedKeys, Range
<1>4. Sources(L, {}) = {}
  BY DEF Sources
<1>5. Ordered(L, <<>>, {})
  BY <1>1, <1>3, <1>4 DEF Ordered
<1> QED BY <1>2, <1>3, <1>4, <1>5 DEF Follows, Earned, Complete

(***************************************************************************)
(* So the cache follows the log, one event at a time.                      *)
(***************************************************************************)
LEMMA CacheFollows ==
    ASSUME NEW E, NEW L \in Seq(E), NEW e \in E, e.key \in Keys, NEW B, B \subseteq 1..Len(L),
           NEW c \in Cache, Follows(L, c, B)
    PROVE  Follows(Append(L, e), get_or_insert_and_add(c, e.key, 1), B \cup {Len(L) + 1})
<1>1. Ordered(Append(L, e), get_or_insert_and_add(c, e.key, 1), B \cup {Len(L) + 1})
  BY OrderGrows DEF Follows
<1>2. Earned(Append(L, e), get_or_insert_and_add(c, e.key, 1), B \cup {Len(L) + 1})
  BY CountsGrow DEF Follows
<1>3. Complete(Append(L, e), get_or_insert_and_add(c, e.key, 1), B \cup {Len(L) + 1})
  BY CompletionGrows DEF Follows
<1> QED BY <1>1, <1>2, <1>3 DEF Follows

(***************************************************************************)
(* An event without a source changes nothing in what the cache follows.    *)
(***************************************************************************)
LEMMA SilentFollows ==
    ASSUME NEW E, NEW L \in Seq(E), NEW e \in E, e.key \notin Keys, NEW B, B \subseteq 1..Len(L),
           NEW c \in Cache, Follows(L, c, B)
    PROVE  Follows(Append(L, e), c, B \cup {Len(L) + 1})
<1> DEFINE M == Append(L, e)
           D == B \cup {Len(L) + 1}
<1>1. /\ \A k \in Keys : Of(M, k, D) = Of(L, k, B)
      /\ Sources(M, D) = Sources(L, B)
  <2>1. Grown(L, e, B, M, Len(L) + 1, D)
    BY LogGrows
  <2> HIDE DEF M, D
  <2>2. ASSUME NEW k \in Keys PROVE Of(M, k, D) = Of(L, k, B)
    <3>1. Of(M, k, D) = Of(L, k, B) \cup (IF k = e.key THEN {Len(L) + 1} ELSE {})
      BY <2>1 DEF Grown
    <3>2. k # e.key
      OBVIOUS
    <3> QED BY <3>1, <3>2
  <2>3. Sources(M, D) = Sources(L, B) \cup ({e.key} \cap Keys)
    BY <2>1 DEF Grown
  <2> QED BY <2>2, <2>3
<1> HIDE DEF M, D
<1>2. Sources(L, B) \subseteq Keys
  BY DEF Sources
<1>3. CachedKeys(c) \subseteq Sources(L, B) /\ CachedKeys(c) = {c[i].key : i \in 1..Len(c)}
  BY Places DEF Follows, Ordered
<1>4. \A k, m \in Keys : SeenLater(L, B, k, m) => SeenLater(M, D, k, m)
  BY <1>1 DEF SeenLater
<1>5. \A i \in 1..Len(c) : c[i].key \in Keys
  BY <1>2, <1>3
<1>6. Ordered(M, c, D)
  <2>1. ASSUME NEW i \in 1..Len(c), NEW j \in 1..Len(c), i < j
        PROVE  SeenLater(M, D, c[i].key, c[j].key)
    BY <1>4, <1>5, <2>1 DEF Follows, Ordered
  <2>2. ASSUME NEW k \in Sources(M, D) \ CachedKeys(c)
        PROVE  Len(c) = CacheCap /\ \A i \in 1..Len(c) : SeenLater(M, D, c[i].key, k)
    <3>1. k \in Sources(L, B) \ CachedKeys(c) /\ k \in Keys
      BY <1>1, <1>2
    <3> QED BY <1>4, <1>5, <3>1 DEF Follows, Ordered
  <2> QED BY <1>1, <1>3, <2>1, <2>2 DEF Ordered
<1>7. Earned(M, c, D) /\ Complete(M, c, D)
  BY <1>1, <1>2, <1>3 DEF Follows, Earned, Complete
<1> QED BY <1>6, <1>7 DEF Follows, M, D

(***************************************************************************)
(* What came since the last silence, after one more event.                 *)
(***************************************************************************)
LEMMA SilenceOrNot ==
    ASSUME NEW E, NEW L \in Seq(E), NEW e \in E, \A x \in E : x.at \in Int
    PROVE  /\ SinceSilence(L) \subseteq 1..Len(L)
           /\ SinceSilence(Append(L, e)) =
                 (IF L = <<>> \/ e.at - Last(L).at > Window THEN {} ELSE SinceSilence(L))
                    \cup {Len(L) + 1}
<1> DEFINE M == Append(L, e)
           n == Len(L) + 1
           Close(s, i) == \A j \in (i + 1)..Len(s) : s[j].at - s[j - 1].at <= Window
<1>1. Len(L) \in Nat /\ DOMAIN L = 1..Len(L) /\ \A i \in 1..Len(L) : L[i].at \in Int
  <2>1. \A i \in 1..Len(L) : L[i] \in E
    BY ElementOfSeq
  <2> QED BY <2>1, LenProperties
<1>2. /\ Len(M) = n /\ DOMAIN M = 1..n /\ M[n] = e
      /\ \A i \in 1..Len(L) : M[i] = L[i]
  BY AppendProperties, LenProperties
<1> HIDE DEF M
<1>3. SinceSilence(L) \subseteq 1..Len(L)
  BY <1>1 DEF SinceSilence
<1>4. n \in SinceSilence(M)
  <2>1. n \in 1..n /\ (n + 1)..n = {}
    BY <1>1
  <2> QED BY <1>2, <2>1 DEF SinceSilence
<1>5. ASSUME NEW i \in 1..Len(L)
      PROVE  i \in SinceSilence(M) <=> i \in SinceSilence(L) /\ ~(e.at - Last(L).at > Window)
  <2>1. Last(L) = L[Len(L)] /\ e.at \in Int /\ L[Len(L)].at \in Int
    <3>1. Len(L) \in 1..Len(L)
      BY <1>1
    <3> QED BY <1>1, <3>1 DEF Last
  <2>2. /\ n \in (i + 1)..n /\ n - 1 = Len(L) /\ Len(L) \in 1..Len(L) /\ i \in 1..n
        /\ \A j \in (i + 1)..n : j = n \/ j \in (i + 1)..Len(L)
        /\ \A j \in (i + 1)..Len(L) : j \in (i + 1)..n /\ j \in 1..Len(L) /\ j - 1 \in 1..Len(L)
    BY <1>1
  <2>3. Close(M, i) <=> Close(L, i) /\ M[n].at - M[n - 1].at <= Window
    <3>1. \A j \in (i + 1)..Len(L) : M[j] = L[j] /\ M[j - 1] = L[j - 1]
      BY <1>2, <2>2
    <3> HIDE DEF n
    <3> QED BY <1>2, <2>2, <3>1
  <2>4. M[n].at - M[n - 1].at <= Window <=> ~(e.at - Last(L).at > Window)
    <3>1. M[n] = e /\ M[n - 1] = Last(L)
      BY <1>2, <2>1, <2>2
    <3>2. e.at \in Int /\ Last(L).at \in Int
      BY <2>1
    <3> HIDE DEF n
    <3> QED BY <3>1, <3>2, Sizes
  <2>5. i \in SinceSilence(M) <=> Close(M, i)
    BY <1>2, <2>2 DEF SinceSilence
  <2>6. i \in SinceSilence(L) <=> Close(L, i)
    BY <1>1 DEF SinceSilence
  <2> HIDE DEF Close
  <2> QED BY <2>3, <2>4, <2>5, <2>6
<1>6. SinceSilence(M) \subseteq 1..Len(L) \cup {n}
  <2>1. 1..n = 1..Len(L) \cup {n}
    BY <1>1
  <2> QED BY <1>2, <2>1 DEF SinceSilence
<1>7. L = <<>> => 1..Len(L) = {}
  OBVIOUS
<1>8. SinceSilence(M) = (IF L = <<>> \/ e.at - Last(L).at > Window THEN {} ELSE SinceSilence(L)) \cup {n}
  <2> HIDE DEF n
  <2>1. CASE L = <<>>
    BY <1>4, <1>6, <1>7, <2>1
  <2>2. CASE L # <<>>
    BY <1>3, <1>4, <1>5, <1>6, <2>2
  <2> QED BY <2>1, <2>2
<1> QED BY <1>3, <1>8 DEF M

(***************************************************************************)
(* What one more event does to a worker.                                   *)
(***************************************************************************)
LEMMA WorkerFollows ==
    ASSUME NEW E, \A x \in E : x.at \in Int, NEW L \in Seq(E), NEW h, h.entries \in Cache,
           Tracks(L, h), NEW key \in Keys \cup {NoSource}, NEW t \in Nat,
           [key |-> key, at |-> t, flagged |-> is_suspicious_activity(update(h, key, t), key)] \in E
    PROVE  LET e == [key |-> key, at |-> t,
                     flagged |-> is_suspicious_activity(update(h, key, t), key)]
           IN  /\ Tracks(Append(L, e), update(h, key, t))
               /\ update(h, key, t).entries \in Cache /\ update(h, key, t).last = t
               /\ CachedKeys(update(h, key, t).entries) \subseteq CachedKeys(h.entries) \cup ({key} \cap Keys)
<1> DEFINE u == update(h, key, t)
           e == [key |-> key, at |-> t, flagged |-> is_suspicious_activity(u, key)]
           M == Append(L, e)
           c == Current(h, t)
           B == IF L = <<>> \/ e.at - Last(L).at > Window THEN {} ELSE SinceSilence(L)
           d == IF key = NoSource THEN c ELSE get_or_insert_and_add(c, key, 1)
<1>1. u.entries = d /\ u.last = t /\ e.key = key /\ e.at = t /\ e \in E
  BY DEF update
<1>2. SinceSilence(L) \subseteq 1..Len(L) /\ SinceSilence(M) = B \cup {Len(L) + 1}
  <2> HIDE DEF e
  <2> QED BY <1>1, SilenceOrNot
<1>3. B \subseteq 1..Len(L)
  BY <1>2
<1>4. Follows(L, c, B) /\ c \in Cache /\ CachedKeys(c) \subseteq CachedKeys(h.entries)
  <2>1. CASE L = <<>>
    <3>1. h.entries = <<>>
      BY <2>1 DEF Tracks, LastEvent
    <3>2. c = <<>>
      BY <3>1 DEF Current
    <3> QED BY <2>1, <3>2, NothingFollows
  <2>2. CASE L # <<>>
    <3>1. h.last = Last(L).at
      BY <2>2 DEF Tracks, LastEvent
    <3>2. CASE t - h.last > Window
      <4>1. c = <<>> /\ B = {}
        BY <1>1, <3>1, <3>2 DEF Current, Expired
      <4> QED BY <4>1, NothingFollows
    <3>3. CASE ~(t - h.last > Window)
      <4>1. c = h.entries /\ B = SinceSilence(L)
        BY <1>1, <2>2, <3>1, <3>3 DEF Current, Expired
      <4> QED BY <4>1 DEF Tracks
    <3> QED BY <3>2, <3>3
  <2> QED BY <2>1, <2>2
<1> HIDE DEF c, B
<1>5. Follows(M, d, B \cup {Len(L) + 1})
  <2> HIDE DEF e, d
  <2>1. CASE key \in Keys
    <3>1. Follows(M, get_or_insert_and_add(c, e.key, 1), B \cup {Len(L) + 1})
      BY <1>1, <1>3, <1>4, <2>1, CacheFollows
    <3> QED BY <1>1, <2>1, <3>1, Sizes DEF d
  <2>2. CASE key = NoSource
    <3>1. e.key \notin Keys /\ d = c
      BY <1>1, <2>2, Sizes DEF d
    <3> QED BY <1>1, <1>3, <1>4, <3>1, SilentFollows
  <2> QED BY <2>1, <2>2
<1>6. /\ d \in Cache /\ CachedKeys(d) \subseteq CachedKeys(c) \cup ({key} \cap Keys)
      /\ key # NoSource => key \in CachedKeys(d)
  <2>1. 1 \in 0..CountMax
    BY Sizes
  <2>2. CASE key \in Keys
    <3>1. key # NoSource /\ d = get_or_insert_and_add(c, key, 1)
      BY <2>2, Sizes
    <3> HIDE DEF d
    <3> QED BY <1>4, <2>1, <2>2, <3>1, AddCounts
  <2>3. CASE key = NoSource
    BY <1>4, <2>3
  <2> QED BY <2>2, <2>3
<1>7. M # <<>> /\ Last(M) = e
  <2>1. Len(L) \in Nat /\ Len(M) = Len(L) + 1 /\ M[Len(L) + 1] = e
    <3> HIDE DEF e
    <3> QED BY <1>1, AppendProperties, LenProperties
  <2> HIDE DEF e, M
  <2>2. Len(M) # 0
    BY <2>1
  <2> QED BY <2>1, <2>2 DEF Last
<1>8. LastEvent(M, u)
  <2>1. e.flagged <=> peek(u.entries, key) > Threshold
    BY DEF is_suspicious_activity
  <2> HIDE DEF M, u, e, d
  <2> QED BY <1>1, <1>6, <1>7, <2>1 DEF LastEvent
<1>9. Tracks(M, u)
  <2> HIDE DEF M, u, d
  <2> QED BY <1>1, <1>2, <1>5, <1>8 DEF Tracks
<1> HIDE DEF d
<1> QED BY <1>1, <1>4, <1>6, <1>9

-----------------------------------------------------------------------------
(* The workers and the merger.                                             *)

(***************************************************************************)
(* No history and no event is from the future.                             *)
(***************************************************************************)
LEMMA Times ==
    ASSUME TypeOK
    PROVE  /\ now \in Nat
           /\ \A h \in History : h.entries \in Cache /\ h.last \in 0..now
           /\ \A x \in Event : x.at \in Int
           /\ \A w \in Workers : history[w] \in History /\ seen[w] \in Seq(Event)
<1>1. now \in Nat
  BY BehavioralAssumption DEF BehavioralAssumption, TypeOK
<1>2. \A h \in History : h.entries \in Cache /\ h.last \in 0..now
  BY DEF History
<1>3. \A x \in Event : x.at \in Int
  BY <1>1 DEF Event
<1>4. \A w \in Workers : history[w] \in History /\ seen[w] \in Seq(Event)
  BY DEF TypeOK
<1> QED BY <1>1, <1>2, <1>3, <1>4

(***************************************************************************)
(* The events of a source since the last silence can be counted.           *)
(***************************************************************************)
LEMMA EventsAreFew ==
    ASSUME NEW E, NEW L \in Seq(E), NEW k
    PROVE  /\ IsFiniteSet(Of(L, k, SinceSilence(L)))
           /\ Cardinality(Of(L, k, SinceSilence(L))) \in Int
<1>1. Of(L, k, SinceSilence(L)) \in SUBSET (1..Len(L))
  BY LenProperties DEF Of, SinceSilence
<1>2. IsFiniteSet(1..Len(L))
  <2>1. 1 \in Int /\ Len(L) \in Int
    BY LenProperties
  <2> QED BY <2>1, FS_Interval
<1> QED BY <1>1, <1>2, FS_Subset, FS_CardinalityType

(***************************************************************************)
(* A report is in the queue, or it was refused.                            *)
(***************************************************************************)
LEMMA ReportArrives ==
    ASSUME TypeOK, NEW h, h \in History, Report(h)
    PROVE  /\ reports' \in Seq(History) /\ Len(reports') <= state_merger_queue_size
           /\ refused' \in BOOLEAN /\ (refused => refused')
           /\ Reported \subseteq Reported'
           /\ Reported' \subseteq Reported \cup CachedKeys(h.entries)
           /\ ~refused' => CachedKeys(h.entries) \subseteq Reported'
<1>1. /\ reports \in Seq(History) /\ Len(reports) <= state_merger_queue_size /\ Len(reports) \in Nat
      /\ refused \in BOOLEAN
  BY LenProperties DEF TypeOK
<1>2. state_merger_queue_size \in Int
  <2>1. Cardinality(Workers) \in Nat
    BY BehavioralAssumption, FS_CardinalityType DEF BehavioralAssumption
  <2> QED BY <2>1 DEF state_merger_queue_size
<1>3. CASE merger # "done" /\ Len(reports) < state_merger_queue_size
  <2>1. reports' = Append(reports, h) /\ refused' = refused
    BY <1>3 DEF Report
  <2>2. /\ reports' \in Seq(History) /\ Len(reports') = Len(reports) + 1
        /\ reports'[Len(reports) + 1] = h
        /\ \A i \in 1..Len(reports) : reports'[i] = reports[i]
    BY <1>1, <2>1, AppendProperties
  <2>3. Len(reports') <= state_merger_queue_size
    BY <1>1, <1>2, <1>3, <2>2
  <2>4. 1..Len(reports') = 1..Len(reports) \cup {Len(reports) + 1}
    BY <1>1, <2>2
  <2>5. Reported' = Reported \cup CachedKeys(h.entries)
    BY <2>2, <2>4 DEF Reported
  <2> QED BY <1>1, <2>1, <2>2, <2>3, <2>5
<1>4. CASE ~(merger # "done" /\ Len(reports) < state_merger_queue_size)
  <2>1. reports' = reports /\ refused' = TRUE
    BY <1>4 DEF Report
  <2>2. Reported' = Reported
    BY <2>1 DEF Reported
  <2> QED BY <1>1, <2>1, <2>2
<1> QED BY <1>3, <1>4

(***************************************************************************)
(* What a worker that analyses an event does to its history and its log.   *)
(***************************************************************************)
LEMMA AnalysisFollows ==
    ASSUME IInv, NEW w \in Workers, NEW key \in Keys \cup {NoSource}, Analyse(w, key)
    PROVE  /\ history' \in [Workers -> History'] /\ seen' \in [Workers -> Seq(Event')]
           /\ history'[w] \in History /\ Tracks(seen'[w], history'[w])
           /\ \A v \in Workers \ {w} : history'[v] = history[v] /\ seen'[v] = seen[v]
           /\ CachedKeys(history'[w].entries) \subseteq CachedKeys(history[w].entries) \cup ({key} \cap Keys)
           /\ KeysSeen' = KeysSeen \cup ({key} \cap Keys)
<1> DEFINE u == update(history[w], key, now)
           e == [key |-> key, at |-> now, flagged |-> is_suspicious_activity(u, key)]
           L == seen[w]
<1>1. /\ now \in Nat /\ history[w].entries \in Cache /\ L \in Seq(Event)
      /\ \A x \in Event : x.at \in Int
      /\ history \in [Workers -> History] /\ seen \in [Workers -> Seq(Event)]
  BY Times DEF IInv, TypeOK
<1>2. Tracks(L, history[w])
  BY DEF IInv, Histories
<1>3. history'[w] = u /\ \A v \in Workers \ {w} : history'[v] = history[v]
  BY <1>1 DEF Analyse
<1>4. seen'[w] = Append(L, e) /\ \A v \in Workers \ {w} : seen'[v] = seen[v]
  BY <1>1, <1>3 DEF Analyse
<1>5. now' = now /\ History' = History /\ Event' = Event
  BY DEF Analyse, Process, given, History, Event
<1>6. e \in Event
  <2>1. is_suspicious_activity(u, key) \in BOOLEAN
    BY DEF is_suspicious_activity
  <2> HIDE DEF u
  <2> QED BY <1>1, <2>1 DEF Event
<1> HIDE DEF L
<1>7. /\ Tracks(Append(L, e), u)
      /\ u.entries \in Cache /\ u.last = now
      /\ CachedKeys(u.entries) \subseteq CachedKeys(history[w].entries) \cup ({key} \cap Keys)
  BY <1>1, <1>2, <1>6, WorkerFollows
<1>8. u \in History
  <2>1. u = [entries |-> u.entries, last |-> u.last]
    BY DEF update
  <2> HIDE DEF u
  <2> QED BY <1>1, <1>7, <2>1 DEF History
<1> HIDE DEF u, e
<1>9. Append(L, e) \in Seq(Event)
  BY <1>1, <1>6, AppendProperties
<1>10. history' \in [Workers -> History']
  <2>1. history' = [history EXCEPT ![w] = u]
    BY DEF Analyse, u
  <2> QED BY <1>1, <1>5, <1>8, <2>1
<1>11. seen' \in [Workers -> Seq(Event')]
  <2>1. seen' = [seen EXCEPT ![w] = Append(L, e)]
    BY <1>3 DEF Analyse, e, L
  <2> QED BY <1>1, <1>5, <1>9, <2>1
<1>12. Sources(seen'[w], DOMAIN seen'[w]) = Sources(L, DOMAIN L) \cup ({key} \cap Keys)
  <2>1. DOMAIN L = 1..Len(L) /\ Len(L) \in Nat
    BY <1>1, LenProperties
  <2>2. Grown(L, e, 1..Len(L), Append(L, e), Len(L) + 1, 1..Len(L) \cup {Len(L) + 1})
    BY <1>1, <1>6, LogGrows
  <2>3. DOMAIN Append(L, e) = 1..(Len(L) + 1)
    BY <1>1, <1>6, AppendProperties, LenProperties
  <2>4. 1..(Len(L) + 1) = 1..Len(L) \cup {Len(L) + 1}
    BY <2>1
  <2>5. e.key = key
    BY DEF e
  <2> QED BY <1>4, <2>1, <2>2, <2>3, <2>4, <2>5 DEF Grown
<1>13. KeysSeen' = KeysSeen \cup ({key} \cap Keys)
  BY <1>4, <1>12 DEF KeysSeen, L
<1> QED BY <1>3, <1>4, <1>7, <1>8, <1>10, <1>11, <1>13

(***************************************************************************)
(* What a merge does: no key is made up, and in calm times none is lost    *)
(* between the queue and the merged history.                               *)
(***************************************************************************)
LEMMA MergeFollows ==
    ASSUME IInv, MergeReport
    PROVE  /\ merged' \in History
           /\ reports' \in Seq(History) /\ Len(reports') <= state_merger_queue_size
           /\ CachedKeys(merged'.entries) \subseteq CachedKeys(merged.entries) \cup Reported
           /\ Reported' \subseteq Reported
           /\ Calm => CachedKeys(merged.entries) \cup Reported
                         \subseteq CachedKeys(merged'.entries) \cup Reported'
<1> DEFINE h == Head(reports)
           both == CachedKeys(Current(merged, now)) \cup CachedKeys(h.entries)
<1>1. /\ now \in Nat /\ merged \in History /\ reports \in Seq(History) /\ reports # <<>>
      /\ Len(reports) <= state_merger_queue_size
      /\ merged' = merge(merged, h, now) /\ reports' = Tail(reports)
  BY Times DEF IInv, TypeOK, MergeReport
<1>2. /\ h \in History /\ h = reports[1] /\ reports' \in Seq(History)
      /\ Len(reports) \in Nat /\ Len(reports) >= 1 /\ Len(reports') = Len(reports) - 1
      /\ \A i \in 1..Len(reports') : reports'[i] = reports[i + 1]
  <2>1. Len(reports) \in Nat /\ Len(reports) # 0
    BY <1>1, LenProperties, EmptySeq
  <2>2. Head(reports) \in History /\ Tail(reports) \in Seq(History)
    BY <1>1, HeadTailProperties
  <2> QED BY <1>1, <2>1, <2>2, HeadTailProperties
<1>3. Len(reports') <= state_merger_queue_size
  <2>1. Cardinality(Workers) \in Nat
    BY BehavioralAssumption, FS_CardinalityType DEF BehavioralAssumption
  <2> QED BY <1>1, <1>2, <2>1 DEF state_merger_queue_size
<1>4. /\ merged.entries \in Cache /\ merged.last \in 0..now
      /\ h.entries \in Cache /\ h.last \in 0..now
  BY <1>1, <1>2, Times DEF IInv
<1> HIDE DEF h
<1>5. /\ Current(merged, now) \in Cache
      /\ CachedKeys(Current(merged, now)) \subseteq CachedKeys(merged.entries)
      /\ Calm => Current(merged, now) = merged.entries
  <2>1. <<>> \in Cache /\ CachedKeys(<<>>) = {}
    BY NothingFollows
  <2>2. Calm => ~Expired(merged, now)
    BY <1>1, <1>4, Sizes DEF Calm, Expired
  <2> QED BY <1>4, <2>1, <2>2 DEF Current
<1>6. /\ merged'.entries \in Cache /\ CachedKeys(merged'.entries) \subseteq both
      /\ \A K : IsFiniteSet(K) /\ Cardinality(K) <= CacheCap /\ both \subseteq K
                   => CachedKeys(merged'.entries) = both
  BY <1>1, <1>4, <1>5, Merges
<1>7. merged' \in History
  <2>1. merged' = [entries |-> merged'.entries, last |-> now]
    <3>1. ~(h.last > now)
      BY <1>1, <1>4
    <3> QED BY <1>1, <3>1 DEF merge
  <2> QED BY <1>1, <1>6, <2>1 DEF History
<1>8. Reported = CachedKeys(h.entries) \cup Reported'
  <2>1. \A i \in 1..Len(reports) : i = 1 \/ (i - 1 \in 1..Len(reports') /\ (i - 1) + 1 = i)
    BY <1>2
  <2>2. \A i \in 1..Len(reports') : i + 1 \in 1..Len(reports)
    BY <1>2
  <2>3. 1 \in 1..Len(reports)
    BY <1>2
  <2>4. ASSUME NEW i \in 1..Len(reports)
        PROVE  CachedKeys(reports[i].entries) \subseteq CachedKeys(h.entries) \cup Reported'
    <3>1. CASE i = 1
      BY <1>2, <3>1
    <3>2. CASE i # 1
      <4>1. i - 1 \in 1..Len(reports') /\ reports'[i - 1] = reports[i]
        BY <1>2, <2>1, <3>2
      <4> QED BY <4>1 DEF Reported
    <3> QED BY <3>1, <3>2
  <2>5. \A i \in 1..Len(reports') : CachedKeys(reports'[i].entries) \subseteq Reported
    BY <1>2, <2>2 DEF Reported
  <2>6. CachedKeys(h.entries) \subseteq Reported
    BY <1>2, <2>3 DEF Reported
  <2>7. Reported \subseteq CachedKeys(h.entries) \cup Reported'
    BY <2>4 DEF Reported
  <2>8. Reported' \subseteq Reported
    BY <2>5 DEF Reported
  <2> QED BY <2>6, <2>7, <2>8
<1>9. ASSUME Calm PROVE CachedKeys(merged'.entries) = both
  <2>1. IsFiniteSet(KeysSeen) /\ Cardinality(KeysSeen) <= CacheCap
    BY <1>9 DEF Calm, IInv, NoneMadeUp
  <2>2. both \subseteq KeysSeen
    BY <1>5, <1>8 DEF IInv, NoneMadeUp
  <2> QED BY <1>6, <2>1, <2>2
<1> QED BY <1>2, <1>3, <1>5, <1>6, <1>7, <1>8, <1>9

(***************************************************************************)
(* A worker that takes a log counts it, and may report what it then has.   *)
(***************************************************************************)
LEMMA ProcessCounts ==
    ASSUME IInv, NEW w \in Workers, Process(w), history'[w] \in History
    PROVE  /\ w \in running /\ running' = running /\ connected' = connected
           /\ now' = now /\ shutdown' = shutdown /\ input' = input /\ History' = History
           /\ merged' = merged /\ lastSave' = lastSave /\ merger' = merger /\ file' = file
           /\ processed' \in [Workers -> Nat]
           /\ reports' \in Seq(History) /\ Len(reports') <= state_merger_queue_size
           /\ refused' \in BOOLEAN /\ (refused => refused')
           /\ Reported \subseteq Reported'
           /\ Reported' \subseteq Reported \cup CachedKeys(history'[w].entries)
<1>1. /\ w \in running /\ running' = running /\ connected' = connected
      /\ now' = now /\ shutdown' = shutdown /\ input' = input /\ History' = History
      /\ merged' = merged /\ lastSave' = lastSave /\ merger' = merger /\ file' = file
  BY DEF Process, given, mergerVars, History
<1>2. processed' \in [Workers -> Nat]
  <2>1. processed \in [Workers -> Nat] /\ processed' = [processed EXCEPT ![w] = @ + 1]
    BY DEF IInv, TypeOK, Process
  <2> QED BY <2>1
<1>3. CASE processed'[w] % ReportEvery = 0
  <2> DEFINE h == history'[w]
  <2>1. TypeOK /\ h \in History /\ Report(h)
    BY <1>3 DEF IInv, Process
  <2> HIDE DEF h
  <2>2. /\ reports' \in Seq(History) /\ Len(reports') <= state_merger_queue_size
        /\ refused' \in BOOLEAN /\ (refused => refused')
        /\ Reported \subseteq Reported' /\ Reported' \subseteq Reported \cup CachedKeys(h.entries)
    BY <2>1, ReportArrives
  <2> QED BY <1>1, <1>2, <2>2 DEF h
<1>4. CASE ~(processed'[w] % ReportEvery = 0)
  <2>1. reports' = reports /\ refused' = refused
    BY <1>4 DEF Process
  <2>2. Reported' = Reported
    BY <2>1 DEF Reported
  <2> QED BY <1>1, <1>2, <2>1, <2>2 DEF IInv, TypeOK
<1> QED BY <1>3, <1>4

(***************************************************************************)
(* The invariant holds when the program starts,                            *)
(***************************************************************************)
LEMMA Starts == Init => IInv
<1> SUFFICES ASSUME Init PROVE IInv
  OBVIOUS
<1>1. /\ <<>> \in Cache /\ CachedKeys(<<>>) = {} /\ \A L : Follows(L, <<>>, {})
      /\ Len(<<>>) = 0 /\ <<>> \in Seq(History) /\ <<>> \in Seq(Event) /\ <<>> \in Seq(Entry)
      /\ DOMAIN <<>> = {} /\ 1..0 = {}
  BY NothingFollows
<1>2. Default(0).entries = <<>> /\ Default(0) \in History
  BY <1>1 DEF Init, Default, History
<1>3. TypeOK
  <2>1. now \in 0..MaxTime /\ lastSave \in 0..now
    BY BehavioralAssumption DEF BehavioralAssumption, Init
  <2>2. Len(reports) <= state_merger_queue_size
    <3>1. Cardinality(Workers) \in Nat
      BY BehavioralAssumption, FS_CardinalityType DEF BehavioralAssumption
    <3> QED BY <1>1, <3>1 DEF Init, state_merger_queue_size
  <2>3. /\ history \in [Workers -> History] /\ merged \in History /\ reports \in Seq(History)
        /\ seen \in [Workers -> Seq(Event)] /\ file \in Seq(Entry)
    <3> HIDE DEF History, Event, Entry
    <3> QED BY <1>1, <1>2 DEF Init
  <2> QED BY <2>1, <2>2, <2>3 DEF Init, TypeOK
<1>4. Histories
  <2>1. ASSUME NEW w \in Workers PROVE Tracks(seen[w], history[w])
    <3>1. seen[w] = <<>> /\ history[w].entries = <<>>
      BY <1>2 DEF Init
    <3>2. SinceSilence(<<>>) = {}
      BY <1>1 DEF SinceSilence
    <3> QED BY <1>1, <3>1, <3>2 DEF Tracks, LastEvent
  <2> QED BY <2>1 DEF Histories
<1>5. LeaveInOrder
  BY DEF Init, LeaveInOrder
<1>6. Reported = {} /\ KeysSeen = {}
  <2>1. Reported = {}
    BY <1>1 DEF Init, Reported
  <2>2. KeysSeen = {}
    BY <1>1 DEF Init, KeysSeen, Sources
  <2> QED BY <2>1, <2>2
<1>7. NoneMadeUp
  BY <1>1, <1>2, <1>6, FS_EmptySet DEF Init, NoneMadeUp
<1>8. HandedOn
  BY DEF Init, HandedOn
<1> QED BY <1>3, <1>4, <1>5, <1>7, <1>8 DEF IInv

(***************************************************************************)
(* What a step that analyses nothing leaves as it was.                     *)
(***************************************************************************)
LEMMA LogsKept ==
    ASSUME UNCHANGED <<history, seen>>
    PROVE  /\ Histories => Histories'
           /\ KeysSeen' = KeysSeen
BY DEF Histories, KeysSeen

(***************************************************************************)
(* is kept by a worker that analyses an event,                             *)
(***************************************************************************)
LEMMA AnalyseStays ==
    ASSUME IInv, NEW w \in Workers, NEW key \in Keys \cup {NoSource}, Analyse(w, key)
    PROVE  IInv'
<1>1. /\ history' \in [Workers -> History'] /\ seen' \in [Workers -> Seq(Event')]
      /\ history'[w] \in History /\ Tracks(seen'[w], history'[w])
      /\ \A v \in Workers \ {w} : history'[v] = history[v] /\ seen'[v] = seen[v]
      /\ CachedKeys(history'[w].entries) \subseteq CachedKeys(history[w].entries) \cup ({key} \cap Keys)
      /\ KeysSeen' = KeysSeen \cup ({key} \cap Keys)
  BY AnalysisFollows
<1>2. /\ w \in running /\ running' = running /\ connected' = connected
      /\ now' = now /\ shutdown' = shutdown /\ input' = input /\ History' = History
      /\ merged' = merged /\ lastSave' = lastSave /\ merger' = merger /\ file' = file
      /\ processed' \in [Workers -> Nat]
      /\ reports' \in Seq(History) /\ Len(reports') <= state_merger_queue_size
      /\ refused' \in BOOLEAN /\ (refused => refused')
      /\ Reported \subseteq Reported'
      /\ Reported' \subseteq Reported \cup CachedKeys(history'[w].entries)
  BY <1>1, ProcessCounts DEF Analyse
<1>3. IsFiniteSet(KeysSeen')
  <2>1. KeysSeen' = KeysSeen \/ KeysSeen' = KeysSeen \cup {key}
    BY <1>1
  <2> QED BY <2>1, FS_AddElement DEF IInv, NoneMadeUp
<1>4. TypeOK'
  BY <1>1, <1>2 DEF IInv, TypeOK, state_merger_queue_size
<1>5. Histories'
  BY <1>1 DEF IInv, Histories
<1>6. LeaveInOrder'
  BY <1>2 DEF IInv, LeaveInOrder
<1>7. NoneMadeUp'
  <2>2. ASSUME NEW v \in Workers PROVE CachedKeys(history'[v].entries) \subseteq KeysSeen'
    BY <1>1 DEF IInv, NoneMadeUp
  <2> QED BY <1>1, <1>2, <1>3, <2>2 DEF IInv, NoneMadeUp
<1>8. HandedOn'
  <2>1. Calm' => Calm
    <3>1. KeysSeen \in SUBSET KeysSeen'
      BY <1>1
    <3>2. IsFiniteSet(KeysSeen')
      BY <1>3
    <3>3. IsFiniteSet(KeysSeen) /\ Cardinality(KeysSeen) <= Cardinality(KeysSeen')
      BY <3>1, <3>2, FS_Subset
    <3>4. Cardinality(KeysSeen) \in Nat /\ Cardinality(KeysSeen') \in Nat
      BY <3>2, <3>3, FS_CardinalityType
    <3>5. Cardinality(KeysSeen') <= CacheCap => Cardinality(KeysSeen) <= CacheCap
      BY <3>3, <3>4, Sizes
    <3> QED BY <1>2, <3>5 DEF Calm
  <2>2. \A v \in Workers \ running : history'[v] = history[v]
    BY <1>1, <1>2
  <2> QED BY <1>2, <2>1, <2>2 DEF IInv, HandedOn
<1> QED BY <1>4, <1>5, <1>6, <1>7, <1>8 DEF IInv

(***************************************************************************)
(* by one that takes a log and does not analyse it,                        *)
(***************************************************************************)
LEMMA PassOverStays ==
    ASSUME IInv, NEW w \in Workers, PassOver(w)
    PROVE  IInv'
<1>1. history' = history /\ seen' = seen /\ Process(w)
  BY DEF PassOver
<1>2. history'[w] \in History
  BY <1>1 DEF IInv, TypeOK
<1>3. /\ w \in running /\ running' = running /\ connected' = connected
      /\ now' = now /\ shutdown' = shutdown /\ input' = input /\ History' = History
      /\ merged' = merged /\ lastSave' = lastSave /\ merger' = merger /\ file' = file
      /\ processed' \in [Workers -> Nat]
      /\ reports' \in Seq(History) /\ Len(reports') <= state_merger_queue_size
      /\ refused' \in BOOLEAN /\ (refused => refused')
      /\ Reported \subseteq Reported'
      /\ Reported' \subseteq Reported \cup CachedKeys(history'[w].entries)
  BY <1>1, <1>2, ProcessCounts
<1>4. Event' = Event
  BY <1>3 DEF Event
<1>5. TypeOK'
  BY <1>1, <1>3, <1>4 DEF IInv, TypeOK, state_merger_queue_size
<1>6. Histories' /\ KeysSeen' = KeysSeen
  BY <1>1, LogsKept DEF IInv
<1>7. LeaveInOrder'
  BY <1>3 DEF IInv, LeaveInOrder
<1>8. NoneMadeUp'
  BY <1>1, <1>3, <1>6 DEF IInv, NoneMadeUp
<1>9. HandedOn'
  <2>1. Calm' => Calm
    BY <1>3, <1>6 DEF Calm
  <2> QED BY <1>1, <1>3, <2>1 DEF IInv, HandedOn
<1> QED BY <1>5, <1>6, <1>7, <1>8, <1>9 DEF IInv

(***************************************************************************)
(* by one that leaves,                                                     *)
(***************************************************************************)
LEMMA ExitStays ==
    ASSUME IInv, NEW w \in Workers, Exit(w)
    PROVE  IInv'
<1> DEFINE h == history[w]
<1>1. h \in History /\ TypeOK /\ Report(h)
  BY DEF IInv, TypeOK, Exit
<1>2. /\ w \in running /\ running' = running \ {w} /\ history' = history /\ seen' = seen
      /\ connected' = connected /\ now' = now /\ shutdown' = shutdown /\ input' = input
      /\ merged' = merged /\ lastSave' = lastSave /\ merger' = merger /\ file' = file
      /\ processed' = processed /\ History' = History /\ Event' = Event
  BY DEF Exit, given, mergerVars, History, Event
<1> HIDE DEF h
<1>3. /\ reports' \in Seq(History) /\ Len(reports') <= state_merger_queue_size
      /\ refused' \in BOOLEAN /\ (refused => refused')
      /\ Reported \subseteq Reported' /\ Reported' \subseteq Reported \cup CachedKeys(h.entries)
      /\ ~refused' => CachedKeys(h.entries) \subseteq Reported'
  BY <1>1, ReportArrives
<1>4. TypeOK'
  BY <1>2, <1>3 DEF IInv, TypeOK, state_merger_queue_size
<1>5. Histories' /\ KeysSeen' = KeysSeen
  BY <1>2, LogsKept DEF IInv
<1>6. LeaveInOrder'
  BY <1>2 DEF IInv, LeaveInOrder
<1>7. NoneMadeUp'
  BY <1>2, <1>3, <1>5 DEF IInv, NoneMadeUp, h
<1>8. HandedOn'
  <2>1. Calm' => Calm /\ ~refused'
    BY <1>2, <1>3, <1>5 DEF Calm
  <2> QED BY <1>2, <1>3, <2>1 DEF IInv, HandedOn, h
<1> QED BY <1>4, <1>5, <1>6, <1>7, <1>8 DEF IInv

(***************************************************************************)
(* by a merge,                                                             *)
(***************************************************************************)
LEMMA MergeStays ==
    ASSUME IInv, MergeReport
    PROVE  IInv'
<1>1. /\ merged' \in History
      /\ reports' \in Seq(History) /\ Len(reports') <= state_merger_queue_size
      /\ CachedKeys(merged'.entries) \subseteq CachedKeys(merged.entries) \cup Reported
      /\ Reported' \subseteq Reported
      /\ Calm => CachedKeys(merged.entries) \cup Reported
                    \subseteq CachedKeys(merged'.entries) \cup Reported'
  BY MergeFollows
<1>2. /\ running' = running /\ history' = history /\ seen' = seen /\ refused' = refused
      /\ connected' = connected /\ now' = now /\ shutdown' = shutdown /\ input' = input
      /\ merger' = "loop" /\ processed' = processed /\ History' = History /\ Event' = Event
  BY DEF MergeReport, given, workerVars, History, Event
<1>3. lastSave' \in 0..now /\ file' \in Seq(Entry)
  <2>1. lastSave \in 0..now /\ file \in Seq(Entry) /\ now \in 0..now /\ <<>> \in Seq(Entry)
    BY Times DEF IInv, TypeOK
  <2>2. (lastSave' = now /\ file' = <<>>) \/ (lastSave' = lastSave /\ file' = file)
    BY DEF MergeReport, Serialized
  <2> QED BY <2>1, <2>2
<1>4. TypeOK'
  BY <1>1, <1>2, <1>3 DEF IInv, TypeOK, state_merger_queue_size
<1>5. Histories' /\ KeysSeen' = KeysSeen
  BY <1>2, LogsKept DEF IInv
<1>6. LeaveInOrder'
  BY <1>2 DEF IInv, LeaveInOrder
<1>7. NoneMadeUp'
  BY <1>1, <1>2, <1>5 DEF IInv, NoneMadeUp
<1>8. HandedOn'
  <2>1. Calm' => Calm
    BY <1>2, <1>5 DEF Calm
  <2> QED BY <1>1, <1>2, <2>1 DEF IInv, HandedOn
<1> QED BY <1>4, <1>5, <1>6, <1>7, <1>8 DEF IInv

(***************************************************************************)
(* by the clock,                                                           *)
(***************************************************************************)
LEMMA TickStays ==
    ASSUME IInv, Tick
    PROVE  IInv'
<1>1. /\ now' = now + 1 /\ now < MaxTime /\ shutdown' = shutdown /\ input' = input
      /\ running' = running /\ history' = history /\ seen' = seen /\ refused' = refused
      /\ connected' = connected /\ reports' = reports /\ processed' = processed
      /\ merged' = merged /\ lastSave' = lastSave /\ merger' = merger /\ file' = file
  BY DEF Tick, workerVars, mergerVars
<1>2. now \in Nat /\ MaxTime \in Nat
  BY Times, BehavioralAssumption DEF IInv, BehavioralAssumption
<1>3. History \subseteq History' /\ Event \subseteq Event'
  <2>1. 0..now \subseteq 0..now'
    BY <1>1, <1>2
  <2> QED BY <2>1 DEF History, Event
<1>4. TypeOK'
  <2>1. now' \in 0..MaxTime /\ lastSave' \in 0..now'
    BY <1>1, <1>2 DEF IInv, TypeOK
  <2>2. history' \in [Workers -> History'] /\ merged' \in History'
    BY <1>1, <1>3 DEF IInv, TypeOK
  <2>3. reports' \in Seq(History') /\ Len(reports') <= state_merger_queue_size
    <3>1. Seq(History) \subseteq Seq(History')
      <4> HIDE DEF History
      <4> QED BY <1>3, SeqMonotonic
    <3> QED BY <1>1, <3>1 DEF IInv, TypeOK
  <2>4. seen' \in [Workers -> Seq(Event')]
    <3>1. Seq(Event) \subseteq Seq(Event')
      BY <1>3, SeqMonotonic
    <3> QED BY <1>1, <3>1 DEF IInv, TypeOK
  <2> QED BY <1>1, <2>1, <2>2, <2>3, <2>4 DEF IInv, TypeOK, state_merger_queue_size
<1>5. Histories' /\ KeysSeen' = KeysSeen
  BY <1>1, LogsKept DEF IInv
<1>6. Reported' = Reported
  BY <1>1 DEF Reported
<1>7. LeaveInOrder'
  BY <1>1 DEF IInv, LeaveInOrder
<1>8. NoneMadeUp'
  BY <1>1, <1>5, <1>6 DEF IInv, NoneMadeUp
<1>9. HandedOn'
  <2>1. Calm' => Calm
    BY <1>1, <1>2, <1>5, Sizes DEF Calm
  <2> QED BY <1>1, <1>6, <2>1 DEF IInv, HandedOn
<1> QED BY <1>4, <1>5, <1>7, <1>8, <1>9 DEF IInv

(***************************************************************************)
(* and by the steps that only say that someone leaves, or that it is time  *)
(* to.                                                                     *)
(***************************************************************************)
LEMMA LeavingStays ==
    ASSUME IInv,
           Disconnect \/ MergerLoop \/ MergerTimeout \/ FinalSave \/ Signal \/ EndOfInput
             \/ UNCHANGED vars
    PROVE  IInv'
<1>1. /\ now' = now /\ running' = running /\ history' = history /\ seen' = seen
      /\ refused' = refused /\ reports' = reports /\ merged' = merged /\ lastSave' = lastSave
      /\ processed' = processed /\ History' = History /\ Event' = Event
  BY DEF Disconnect, MergerLoop, MergerTimeout, FinalSave, Signal, EndOfInput, vars,
         given, workerVars, mergerVars, History, Event
<1>2. TypeOK'
  <2>1. /\ shutdown' \in BOOLEAN /\ input' \in BOOLEAN /\ connected' \in BOOLEAN
        /\ merger' \in {"loop", "waiting", "saving", "done"}
    BY DEF IInv, TypeOK, Disconnect, MergerLoop, MergerTimeout, FinalSave, Signal, EndOfInput,
           vars, given, mergerVars
  <2>2. file' = file \/ file' = <<>>
    BY DEF Disconnect, MergerLoop, MergerTimeout, FinalSave, Signal, EndOfInput, vars,
           mergerVars, Serialized
  <2>3. file' \in Seq(Entry)
    <3>1. file \in Seq(Entry) /\ <<>> \in Seq(Entry)
      BY DEF IInv, TypeOK
    <3> QED BY <2>2, <3>1
  <2> QED BY <1>1, <2>1, <2>3 DEF IInv, TypeOK, state_merger_queue_size
<1>3. Histories' /\ KeysSeen' = KeysSeen
  BY <1>1, LogsKept DEF IInv
<1>4. Reported' = Reported
  BY <1>1 DEF Reported
<1>5. LeaveInOrder'
  BY DEF IInv, LeaveInOrder, Disconnect, MergerLoop, MergerTimeout, FinalSave, Signal, EndOfInput,
         vars, given, workerVars, mergerVars
<1>6. NoneMadeUp'
  BY <1>1, <1>3, <1>4 DEF IInv, NoneMadeUp
<1>7. HandedOn'
  BY <1>1, <1>3, <1>4 DEF IInv, HandedOn, Calm
<1> QED BY <1>2, <1>3, <1>5, <1>6, <1>7 DEF IInv

(***************************************************************************)
(* The invariant holds of every state the program can reach.               *)
(***************************************************************************)
THEOREM Invariance == Spec => []IInv
<1>1. Init => IInv
  BY Starts
<1>2. IInv /\ [Next]_vars => IInv'
  <2> SUFFICES ASSUME IInv, [Next]_vars PROVE IInv'
    OBVIOUS
  <2>1. CASE \E w \in Workers : \E key \in Keys \cup {NoSource} : Analyse(w, key)
    BY <2>1, AnalyseStays
  <2>6. CASE \E w \in Workers : PassOver(w)
    BY <2>6, PassOverStays
  <2>2. CASE \E w \in Workers : Exit(w)
    BY <2>2, ExitStays
  <2>3. CASE MergeReport
    BY <2>3, MergeStays
  <2>4. CASE Tick
    BY <2>4, TickStays
  <2>5. CASE Disconnect \/ MergerLoop \/ MergerTimeout \/ FinalSave \/ Signal \/ EndOfInput
               \/ UNCHANGED vars
    BY <2>5, LeavingStays
  <2> QED BY <2>1, <2>2, <2>3, <2>4, <2>5, <2>6 DEF Next
<1> QED BY <1>1, <1>2, PTL DEF Spec

-----------------------------------------------------------------------------
(***************************************************************************)
(* The state is always well typed: no cache outgrows its capacity or holds *)
(* a key twice, no count leaves its width, and the merger's queue is       *)
(* bounded.                                                                *)
(***************************************************************************)
THEOREM Typing == Spec => []TypeOK
<1>1. IInv => TypeOK
  BY DEF IInv
<1> QED BY <1>1, Invariance, PTL

(***************************************************************************)
(* What the cache of a worker holds are the sources it saw last.           *)
(***************************************************************************)
THEOREM CacheKeepsRecent == Spec => []CacheIsRecent
<1>1. IInv => CacheIsRecent
  <2> SUFFICES ASSUME IInv, NEW w \in Workers
               PROVE  LET log == seen[w]
                          mine == SinceSilence(log)
                          held == history[w].entries
                      IN  /\ CachedKeys(held) \subseteq Sources(log, mine)
                          /\ \A i, j \in DOMAIN held :
                                i < j => SeenLater(log, mine, held[i].key, held[j].key)
                          /\ \A key \in Sources(log, mine) \ CachedKeys(held) :
                                /\ Len(held) = CacheCap
                                /\ \A i \in DOMAIN held : SeenLater(log, mine, held[i].key, key)
    BY DEF CacheIsRecent
  <2>1. Ordered(seen[w], history[w].entries, SinceSilence(seen[w]))
    BY DEF IInv, Histories, Tracks, Follows
  <2>2. DOMAIN history[w].entries = 1..Len(history[w].entries)
    BY Times, Places DEF IInv
  <2> QED BY <2>1, <2>2 DEF Ordered
<1> QED BY <1>1, Invariance, PTL

(***************************************************************************)
(* No alarm is raised for a source this worker did not see often enough.   *)
(***************************************************************************)
THEOREM AlarmsAreEarned == Spec => []FlagIsEarned
<1>1. IInv => FlagIsEarned
  <2> SUFFICES ASSUME IInv, NEW w \in Workers, seen[w] # <<>>, Last(seen[w]).flagged
               PROVE  Cardinality(Of(seen[w], Last(seen[w]).key, SinceSilence(seen[w])))
                        > Threshold
    BY DEF FlagIsEarned
  <2> DEFINE log == seen[w]
             key == Last(log).key
             c == history[w].entries
  <2>1. peek(c, key) > Threshold /\ key \in CachedKeys(c)
    <3>1. peek(c, key) > Threshold
      BY DEF IInv, Histories, Tracks, LastEvent
    <3>2. ~(0 > Threshold)
      BY Sizes
    <3> QED BY <3>1, <3>2 DEF peek
  <2>2. peek(c, key) <= Cardinality(Of(log, key, SinceSilence(log)))
    BY <2>1 DEF IInv, Histories, Tracks, Follows, Earned
  <2>3. peek(c, key) \in Int
    <3>1. c \in Cache
      BY Times DEF IInv
    <3> HIDE DEF c, key
    <3> QED BY <3>1, Counted
  <2>4. Cardinality(Of(log, key, SinceSilence(log))) \in Int
    BY Times, EventsAreFew DEF IInv
  <2> QED BY <2>1, <2>2, <2>3, <2>4, Sizes
<1> QED BY <1>1, Invariance, PTL

(***************************************************************************)
(* A burst that one worker saw alone is reported while its cache has room. *)
(***************************************************************************)
THEOREM OwnBurstsAreFlagged == Spec => []OwnBurstIsFlagged
<1>1. IInv => OwnBurstIsFlagged
  <2> SUFFICES ASSUME IInv, NEW w \in Workers,
                      {i \in SinceSilence(seen[w]) : now - seen[w][i].at <= Window} # {},
                      Last(seen[w]).key # NoSource,
                      Cardinality(Sources(seen[w], SinceSilence(seen[w]))) <= CacheCap,
                      Cardinality(Of(seen[w], Last(seen[w]).key,
                         {i \in SinceSilence(seen[w]) : now - seen[w][i].at <= Window})) > Threshold
               PROVE  Last(seen[w]).flagged
    BY DEF OwnBurstIsFlagged
  <2> DEFINE log == seen[w]
             key == Last(log).key
             c == history[w].entries
             mine == SinceSilence(log)
             recent == {i \in mine : now - log[i].at <= Window}
  <2>1. log # <<>>
    BY DEF SinceSilence
  <2>2. key \in CachedKeys(c) /\ (Last(log).flagged <=> peek(c, key) > Threshold)
    BY <2>1 DEF IInv, Histories, Tracks, LastEvent
  <2>3. peek(c, key) \in {Cardinality(Of(log, key, mine)), CountMax}
    BY <2>2 DEF IInv, Histories, Tracks, Follows, Complete
  <2>4. /\ IsFiniteSet(Of(log, key, mine)) /\ Cardinality(Of(log, key, mine)) \in Int
        /\ IsFiniteSet(Of(log, key, recent)) /\ Cardinality(Of(log, key, recent)) \in Int
        /\ Cardinality(Of(log, key, recent)) <= Cardinality(Of(log, key, mine))
    <3>1. Of(log, key, recent) \subseteq Of(log, key, mine)
      BY DEF Of
    <3>2. IsFiniteSet(Of(log, key, mine))
      BY Times, EventsAreFew DEF IInv
    <3> QED BY <3>1, <3>2, FS_Subset, FS_CardinalityType
  <2>5. Cardinality(Of(log, key, mine)) > Threshold
    <3>1. Cardinality(Of(log, key, recent)) > Threshold
      OBVIOUS
    <3> HIDE DEF key, log, mine, recent
    <3> QED BY <2>4, <3>1, Sizes
  <2>6. peek(c, key) > Threshold
    BY <2>3, <2>5, Sizes
  <2> QED BY <2>2, <2>6
<1> QED BY <1>1, Invariance, PTL

(***************************************************************************)
(* A merger that leaves because all others have knows what they know.      *)
(***************************************************************************)
THEOREM ReportsAreMerged == Spec => []NothingForgotten
<1>1. IInv => NothingForgotten
  <2> SUFFICES ASSUME IInv, merger = "done", ~shutdown, Calm, NEW w \in Workers
               PROVE  CachedKeys(history[w].entries) \subseteq CachedKeys(merged.entries)
    BY DEF NothingForgotten, Calm
  <2>1. running = {} /\ reports = <<>>
    BY DEF IInv, LeaveInOrder
  <2>2. Reported = {}
    <3>1. 1..Len(reports) = {}
      BY <2>1
    <3> QED BY <3>1 DEF Reported
  <2> QED BY <2>1, <2>2 DEF IInv, HandedOn
<1> QED BY <1>1, Invariance, PTL
=============================================================================
