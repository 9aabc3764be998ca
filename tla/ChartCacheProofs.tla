-------------------------- MODULE ChartCacheProofs --------------------------
(***************************************************************************)
(* Theorems about the charts that the server knows, for every set of       *)
(* charts and directories and every bound.  ChartCache: locks neither add  *)
(* up nor get lost, the preloaded patches of a quilt stay in the cache     *)
(* until the next quilt, and nothing but locks keeps the cache beyond its  *)
(* limit.  ChartDatabase, the list the cache opens charts from: a scan     *)
(* finds the newest copy of a chart, its name stays in the list over saves *)
(* and restarts, and the stack of charts leaves no chart out.              *)
(***************************************************************************)
EXTENDS ChartCache, ChartDatabase, Integers, SequenceTheorems, FiniteSetTheorems, WellFoundedInduction, TLAPS

-----------------------------------------------------------------------------
(* The inductive invariant of ChartCache *)

\* No chart has two entries.
Once(s) == s \in Seq(Charts) /\ \A i, j \in DOMAIN s : s[i] = s[j] => i = j

Pcs == {"idle", "compose", "open", "evict", "load", "opened", "purge"}

CacheInv ==
    /\ Once(pChartCache)
    /\ used \subseteq Cached /\ unready \subseteq Cached
    /\ n_lock \in [Charts -> {0, 1}] /\ old_lock \in {0, 1}
    /\ \A c \in Charts \ Cached : n_lock[c] = 0
    /\ disabled \subseteq Charts /\ disabled \cap Cached = {}
    /\ m_b_locked \in BOOLEAN

QuiltTypes ==
    /\ candidates \subseteq Charts /\ patches \subseteq Charts /\ todo \subseteq Charts
    /\ pinned \subseteq Charts /\ dropped \subseteq Charts
    /\ b_locked \subseteq candidates
    /\ stage \in Stages /\ pc \in Pcs
    /\ refchart \in Charts \cup {NoChart} /\ chart \in Charts \cup {NoChart}

\* A chart is being opened, and which of the calls does it.
Opening == pc \in {"open", "evict", "load", "opened"}

CallInv ==
    /\ Opening => chart \in Charts
    /\ pc \in {"idle", "purge"} <=> stage = "none"
    /\ stage = "other" => Opening
    /\ Opening /\ stage # "other" => chart \in todo
    /\ stage \notin {"none", "other"} => refchart \in Charts
    /\ stage = "lock" => todo \subseteq candidates
    /\ stage \in {"none", "other"} => b_locked = {}
    /\ pc \in {"evict", "load"} => chart \notin Cached \cup disabled
    /\ pc \notin {"evict", "load"} => old_lock = 0

\* A lock is that of the entry, or of the entry that is to come back; while
\* Compose locks what it opens, a chart it has not locked has no lock.
LockInv ==
    /\ \A c \in Charts : n_lock[c] > 0 => c \in candidates \cup dropped
    /\ old_lock > 0 => chart \in candidates \cup dropped
    /\ stage = "lock" => \A c \in todo \ b_locked : n_lock[c] = 0 /\ (c = chart => old_lock = 0)

\* A chart that Compose was to preload is locked in the cache, is about to
\* come back to it, or is one that nobody can open.
Held(c) ==
    \/ c \in Cached /\ n_lock[c] = 1
    \/ c \in disabled
    \/ pc \in {"evict", "load"} /\ c = chart /\ old_lock = 1

PinInv ==
    /\ \A c \in pinned : Held(c) \/ (stage = "lock" /\ c \in todo \ b_locked)
    /\ pc = "opened" /\ chart \in pinned => chart \in Cached \cup disabled
    /\ stage \notin {"lock", "reference", "units"} =>
         \A c \in pinned \cap patches : IsChartInCache(c) \/ (stage = "verify" /\ c \in todo)

QuiltInv == CacheInv /\ QuiltTypes /\ CallInv /\ LockInv /\ PinInv

-----------------------------------------------------------------------------
(* Sequences without repetition *)

\* The least number of a set.
LEMMA LeastNumber ==
    ASSUME NEW T \in SUBSET Nat, T # {}
    PROVE  \E x \in T : \A y \in T : x <= y
<1> DEFINE R == OpToRel(<, Nat)
<1>1. IsWellFoundedOn(R, Nat)
  BY NatLessThanWellFounded
<1>2. \A x, y \in Nat : <<x, y>> \in R <=> x < y
  BY DEF OpToRel
<1> HIDE DEF R
<1>3. T \subseteq Nat
  OBVIOUS
<1>4. \E x \in T : \A y \in T : ~(<<y, x>> \in R)
  BY <1>1, <1>3, WFMin
<1>5. \A x, y \in T : ~(<<y, x>> \in R) => x <= y
  BY <1>2, <1>3
<1> QED
  BY <1>4, <1>5

\* The charts of a list are as many as its places.
LEMMA OnceCounted ==
    ASSUME NEW s, Once(s)
    PROVE  Len(s) = Cardinality(Elements(s))
<1>1. Len(s) \in Nat /\ DOMAIN s = 1..Len(s)
  BY LenProperties DEF Once
<1>2. s \in [1..Len(s) -> Elements(s)]
  BY <1>1, LenProperties DEF Once, Elements
<1>3. \A i, j \in 1..Len(s) : s[i] = s[j] => i = j
  BY <1>1 DEF Once
<1>4. \A c \in Elements(s) : \E i \in 1..Len(s) : s[i] = c
  BY <1>1 DEF Elements
<1>5. s \in Bijection(1..Len(s), Elements(s))
  BY <1>2, <1>3, <1>4 DEF Bijection, Injection, Surjection, IsInjective
<1>6. ExistsBijection(1..Len(s), Elements(s))
  BY <1>5 DEF ExistsBijection
<1> QED
  BY <1>1, <1>6, FS_CountingElements

\* A chart that is put behind the others.
LEMMA OnceAppended ==
    ASSUME NEW s, Once(s), NEW c \in Charts, c \notin Elements(s)
    PROVE  Once(Append(s, c)) /\ Elements(Append(s, c)) = Elements(s) \cup {c}
<1> DEFINE t == Append(s, c)
<1>1. s \in Seq(Charts) /\ Len(s) \in Nat /\ DOMAIN s = 1..Len(s)
  BY LenProperties DEF Once
<1>2. /\ t \in Seq(Charts) /\ Len(t) = Len(s) + 1
      /\ \A i \in 1..Len(s) : t[i] = s[i]
      /\ t[Len(s) + 1] = c
  BY <1>1, AppendProperties
<1>3. DOMAIN t = 1..(Len(s) + 1)
  BY <1>1, <1>2, LenProperties
<1> HIDE DEF t
<1>4. \A i \in 1..Len(s) : s[i] # c
  BY <1>1 DEF Elements
<1>5. \A i, j \in 1..Len(s) : s[i] = s[j] => i = j
  BY <1>1 DEF Once
<1>6. \A i, j \in DOMAIN t : t[i] = t[j] => i = j
  BY <1>1, <1>2, <1>3, <1>4, <1>5
<1>7. Elements(t) = Elements(s) \cup {c}
  BY <1>1, <1>2, <1>3 DEF Elements
<1> QED
  BY <1>2, <1>6, <1>7 DEF Once, t

\* A chart that is taken out.
LEMMA OnceWithout ==
    ASSUME NEW s, Once(s), NEW c
    PROVE  Once(Without(s, c)) /\ Elements(Without(s, c)) = Elements(s) \ {c}
<1>1. s \in Seq(Charts) /\ Len(s) \in Nat /\ DOMAIN s = 1..Len(s)
  BY LenProperties DEF Once
<1>2. CASE c \notin Elements(s)
  BY <1>2 DEF Without
<1>3. CASE c \in Elements(s)
  <2> DEFINE i == CHOOSE k \in DOMAIN s : s[k] = c
             a == SubSeq(s, 1, i - 1)
             b == SubSeq(s, i + 1, Len(s))
             t == a \o b
  <2>1. i \in 1..Len(s) /\ s[i] = c
    BY <1>1, <1>3 DEF Elements
  <2>2. Without(s, c) = t
    BY <1>3 DEF Without
  <2> HIDE DEF i
  <2>3. \A k \in 1..Len(s) : s[k] \in Charts
    BY <1>1, ElementOfSeq
  <2>4. a \in Seq(Charts) /\ Len(a) = i - 1 /\ \A k \in 1..(i - 1) : a[k] = s[k]
    <3>1. 1 \in Int /\ i - 1 \in Int /\ \A k \in 1..(i - 1) : s[k] \in Charts
      BY <1>1, <2>1, <2>3
    <3>2. \A k \in 1..(i - 1) : 1 + k - 1 = k
      OBVIOUS
    <3> QED  BY <2>1, <3>1, <3>2, SubSeqProperties
  <2>5. b \in Seq(Charts) /\ Len(b) = Len(s) - i /\ \A k \in 1..(Len(s) - i) : b[k] = s[i + k]
    <3>1. i + 1 \in Int /\ Len(s) \in Int /\ \A k \in (i + 1)..Len(s) : s[k] \in Charts
      BY <1>1, <2>1, <2>3
    <3>2. \A k \in 1..(Len(s) - i) : i + 1 + k - 1 = i + k
      BY <1>1, <2>1
    <3>3. /\ b \in Seq(Charts)
          /\ Len(b) = IF i + 1 <= Len(s) THEN Len(s) - (i + 1) + 1 ELSE 0
          /\ \A k \in 1..(Len(s) - (i + 1) + 1) : b[k] = s[i + 1 + k - 1]
      BY <3>1, SubSeqProperties
    <3>4. Len(s) - (i + 1) + 1 = Len(s) - i
      BY <1>1, <2>1
    <3> HIDE DEF b
    <3>5. Len(b) = Len(s) - i
      <4>1. i \in 1..Len(s) /\ Len(s) \in Nat
        BY <1>1, <2>1
      <4> HIDE DEF a, t
      <4>2. CASE i = Len(s)
        BY <3>3, <4>1, <4>2
      <4>3. CASE i < Len(s)
        <5>1. i + 1 <= Len(s)
          BY <4>1, <4>3
        <5> QED  BY <3>3, <3>4, <5>1
      <4> QED  BY <4>1, <4>2, <4>3
    <3> QED  BY <3>2, <3>3, <3>4, <3>5
  <2> HIDE DEF a, b
  <2>6. /\ t \in Seq(Charts)
        /\ Len(t) = Len(a) + Len(b)
        /\ \A k \in 1..(Len(a) + Len(b)) : t[k] = IF k <= Len(a) THEN a[k] ELSE b[k - Len(a)]
    BY <2>4, <2>5, ConcatProperties
  <2>7. DOMAIN t = 1..(Len(s) - 1)
    <3>1. DOMAIN t = 1..Len(t)
      BY <2>6, LenProperties
    <3> QED  BY <1>1, <2>1, <2>4, <2>5, <2>6, <3>1
  <2> HIDE DEF t
  <2>8. \A k \in 1..(Len(s) - 1) : t[k] = IF k < i THEN s[k] ELSE s[k + 1]
    <3> SUFFICES ASSUME NEW k \in 1..(Len(s) - 1)
                 PROVE  t[k] = IF k < i THEN s[k] ELSE s[k + 1]
      OBVIOUS
    <3>1. t[k] = IF k <= i - 1 THEN a[k] ELSE b[k - (i - 1)]
      BY <1>1, <2>1, <2>4, <2>5, <2>6
    <3>2. CASE k < i
      BY <2>1, <2>4, <3>1, <3>2
    <3>3. CASE k >= i
      <4>1. k - (i - 1) \in 1..(Len(s) - i) /\ i + (k - (i - 1)) = k + 1
        BY <1>1, <2>1, <3>3
      <4> QED  BY <2>1, <2>5, <3>1, <3>3, <4>1
    <3> QED  BY <2>1, <3>2, <3>3
  <2>9. \A k, l \in DOMAIN t : t[k] = t[l] => k = l
    <3>1. \A k, l \in 1..Len(s) : s[k] = s[l] => k = l
      BY <1>1 DEF Once
    <3> QED  BY <1>1, <2>1, <2>7, <2>8, <3>1
  <2>10. \A k \in 1..(Len(s) - 1) : t[k] \in Elements(s) /\ t[k] # c
    <3>1. \A k \in 1..Len(s) : k # i => s[k] # c
      BY <1>1, <2>1 DEF Once
    <3>2. \A k \in 1..Len(s) : s[k] \in Elements(s)
      BY <1>1 DEF Elements
    <3> QED  BY <1>1, <2>1, <2>8, <3>1, <3>2
  <2>11. \A k \in 1..Len(s) : k # i => \E l \in 1..(Len(s) - 1) : t[l] = s[k]
    <3> SUFFICES ASSUME NEW k \in 1..Len(s), k # i
                 PROVE  \E l \in 1..(Len(s) - 1) : t[l] = s[k]
      OBVIOUS
    <3>1. CASE k < i
      BY <1>1, <2>1, <2>8, <3>1
    <3>2. CASE k > i
      <4>1. k - 1 \in 1..(Len(s) - 1) /\ ~(k - 1 < i) /\ (k - 1) + 1 = k
        BY <1>1, <2>1, <3>2
      <4> QED  BY <2>8, <4>1
    <3> QED  BY <2>1, <3>1, <3>2
  <2>12. Elements(t) = Elements(s) \ {c}
    <3>1. \A x : x \in Elements(t) <=> \E k \in 1..(Len(s) - 1) : x = t[k]
      BY <2>7 DEF Elements
    <3>2. \A x : x \in Elements(s) <=> \E k \in 1..Len(s) : x = s[k]
      BY <1>1 DEF Elements
    <3> QED  BY <2>1, <2>10, <2>11, <3>1, <3>2
  <2> QED
    BY <2>2, <2>6, <2>9, <2>12 DEF Once
<1> QED
  BY <1>2, <1>3

-----------------------------------------------------------------------------
(* What the operations do to the cache *)

\* An entry without a lock goes.
LEMMA DropEntry ==
    ASSUME CacheInv, NEW c \in Cached, n_lock[c] = 0, Drop(c)
    PROVE  /\ Once(pChartCache') /\ Cached' = Cached \ {c}
           /\ used' = used \ {c} /\ unready' = unready \ {c}
           /\ n_lock' = n_lock
<1>1. pChartCache' = Without(pChartCache, c)
  BY DEF Drop
<1>2. Once(Without(pChartCache, c)) /\ Elements(Without(pChartCache, c)) = Cached \ {c}
  BY OnceWithout DEF CacheInv, Cached
<1>3. n_lock' = n_lock
  BY DEF Drop, CacheInv
<1> QED
  BY <1>1, <1>2, <1>3 DEF Drop, Cached

\* Eviction and purge only ever take an entry without a lock.
LEMMA OldestIsFree ==
    ASSUME NEW c \in Cached, FindOldestDeleteCandidate(c)
    PROVE  n_lock[c] = 0
  BY DEF FindOldestDeleteCandidate, Evictable

LEMMA Cleared ==
    ASSUME CacheInv, Evict \/ Purge
    PROVE  \/ UNCHANGED cacheVars
           \/ \E c \in Cached :
                /\ n_lock[c] = 0
                /\ Once(pChartCache') /\ Cached' = Cached \ {c}
                /\ used' = used \ {c} /\ unready' = unready \ {c}
                /\ n_lock' = n_lock
<1>1. \/ UNCHANGED cacheVars
      \/ \E c \in Cached : FindOldestDeleteCandidate(c) /\ Drop(c)
  BY DEF Evict, Purge
<1> QED
  BY <1>1, DropEntry, OldestIsFree

\* Without a candidate all but the chart just used are locked.
LEMMA NobodyToEvict ==
    ASSUME CacheInv, NoCandidate
    PROVE  Len(pChartCache) \in {0, 1} \/ Cached \ used \subseteq Locked
<1> SUFFICES ASSUME Len(pChartCache) \notin {0, 1}, NEW c \in Cached \ used, c \notin Locked
             PROVE  FALSE
  OBVIOUS
<1>1. Len(pChartCache) \in Nat /\ DOMAIN pChartCache = 1..Len(pChartCache) /\ Cached \subseteq Charts
  <2>1. pChartCache \in Seq(Charts)
    BY DEF CacheInv, Once
  <2> QED  BY <2>1, LenProperties, ElementOfSeq DEF Cached, Elements
<1>2. Len(pChartCache) > 1
  BY <1>1
<1>3. n_lock[c] = 0
  BY <1>1 DEF Locked, CacheInv
<1>4. c \in Evictable
  BY <1>3 DEF Evictable
<1> DEFINE T == {i \in DOMAIN pChartCache : pChartCache[i] \in Evictable}
<1>5. T \in SUBSET Nat /\ T # {}
  BY <1>1, <1>4 DEF Evictable, Cached, Elements
<1>6. PICK i \in T : \A j \in T : i <= j
  BY <1>5, LeastNumber
<1>7. \A j \in 1..(i - 1) : pChartCache[j] \notin Evictable
  BY <1>1, <1>6
<1>8. FindOldestDeleteCandidate(pChartCache[i])
  BY <1>2, <1>4, <1>6, <1>7 DEF FindOldestDeleteCandidate
<1>9. pChartCache[i] \in Cached \ used
  BY <1>6 DEF Evictable
<1> QED
  BY <1>8, <1>9 DEF NoCandidate

\* A hit moves the entry behind the others.
LEMMA HitEntry ==
    ASSUME CacheInv, chart \in Charts, OpenHit
    PROVE  Once(pChartCache') /\ Cached' = Cached
<1>1. chart \in Cached
  BY DEF OpenHit, IsChartInCache
<1> DEFINE s == Without(pChartCache, chart)
<1>2. Once(s) /\ Elements(s) = Cached \ {chart}
  BY OnceWithout DEF CacheInv, Cached
<1>3. pChartCache' = Append(s, chart)
  BY DEF OpenHit
<1> HIDE DEF s
<1>4. Once(Append(s, chart)) /\ Elements(Append(s, chart)) = Elements(s) \cup {chart}
  BY <1>2, OnceAppended
<1> QED
  BY <1>1, <1>2, <1>3, <1>4 DEF Cached

\* A miss takes out what there was of the chart.
LEMMA MissEntry ==
    ASSUME CacheInv, chart \in Charts, OpenMiss
    PROVE  Once(pChartCache') /\ Cached' = Cached \ {chart}
<1>1. pChartCache' = Without(pChartCache, chart)
  BY DEF OpenMiss
<1> QED
  BY <1>1, OnceWithout DEF CacheInv, Cached

\* What loading makes of the chart: an entry with the lock the old one had,
\* or no entry.
LEMMA LoadEntry ==
    ASSUME CacheInv, chart \in Charts, chart \notin Cached, Load
    PROVE  /\ Once(pChartCache')
           /\ \/ /\ Cached' = Cached \cup {chart} /\ used' = {chart}
                 /\ n_lock' = [n_lock EXCEPT ![chart] = old_lock]
                 /\ unready' \in {unready, unready \cup {chart}}
                 /\ disabled' = disabled /\ pinned' = pinned
              \/ /\ Cached' = Cached /\ used' = {}
                 /\ n_lock' = n_lock
                 /\ unready' = unready
                 /\ disabled' \in {disabled, disabled \cup {chart}}
                 /\ pinned' = pinned \ {chart}
<1>1. PICK o \in Outcomes :
         LET ok == o \in {"ready", "unready"} IN
         /\ pChartCache' = IF ok THEN Append(pChartCache, chart) ELSE pChartCache
         /\ used' = IF ok THEN {chart} ELSE {}
         /\ n_lock' = [n_lock EXCEPT ![chart] = IF ok THEN old_lock ELSE 0]
         /\ unready' = IF o = "unready" THEN unready \cup {chart} ELSE unready
         /\ disabled' = IF o = "remove" THEN disabled \cup {chart} ELSE disabled
         /\ pinned' = IF ok THEN pinned ELSE pinned \ {chart}
  BY DEF Load
<1>2. CASE o \in {"ready", "unready"}
  <2>1. Once(Append(pChartCache, chart)) /\ Elements(Append(pChartCache, chart)) = Cached \cup {chart}
    BY OnceAppended DEF CacheInv, Cached
  <2> QED  BY <1>1, <1>2, <2>1 DEF Cached
<1>3. CASE o \notin {"ready", "unready"}
  <2>1. n_lock' = n_lock
    BY <1>1, <1>3 DEF CacheInv
  <2> QED  BY <1>1, <1>3, <2>1 DEF Cached, CacheInv
<1> QED
  BY <1>2, <1>3

-----------------------------------------------------------------------------
(* Every step keeps the invariant *)

LEMMA InitInv == Init => QuiltInv
<1> SUFFICES ASSUME Init PROVE QuiltInv
  OBVIOUS
<1>1. Once(pChartCache) /\ Cached = {}
  BY DEF Init, Once, Cached, Elements
<1>2. CacheInv
  BY <1>1 DEF Init, CacheInv
<1>3. QuiltTypes /\ CallInv /\ LockInv /\ PinInv
  BY <1>1, CacheAssumption DEF Init, QuiltTypes, CallInv, LockInv, PinInv, Opening, Stages, Pcs
<1> QED
  BY <1>2, <1>3 DEF QuiltInv

LEMMA OpenDisabledStep == ASSUME QuiltInv, OpenDisabled PROVE QuiltInv'
<1> USE DEF QuiltInv, OpenDisabled, cacheVars, quiltVars, history
<1>1. CacheInv' /\ Cached' = Cached
  BY DEF CacheInv, Cached
<1>2. QuiltTypes' /\ CallInv' /\ LockInv'
  BY <1>1 DEF QuiltTypes, CallInv, LockInv, Opening, Pcs
<1>3. PinInv'
  BY <1>1 DEF PinInv, CallInv, Held, IsChartInCache
<1> QED
  BY <1>1, <1>2, <1>3

LEMMA OpenHitStep == ASSUME QuiltInv, OpenHit PROVE QuiltInv'
<1> USE DEF QuiltInv, OpenHit, quiltVars, history
<1>1. chart \in Charts /\ chart \in Cached
  BY DEF CallInv, Opening, IsChartInCache
<1>2. Once(pChartCache') /\ Cached' = Cached
  BY <1>1, HitEntry
<1>3. CacheInv'
  BY <1>1, <1>2 DEF CacheInv
<1>4. QuiltTypes' /\ CallInv' /\ LockInv'
  BY <1>2 DEF QuiltTypes, CallInv, LockInv, Opening, Pcs
<1>5. PinInv'
  BY <1>1, <1>2 DEF PinInv, CallInv, Held, IsChartInCache
<1> QED
  BY <1>3, <1>4, <1>5

LEMMA OpenMissStep == ASSUME QuiltInv, OpenMiss PROVE QuiltInv'
<1> USE DEF QuiltInv, OpenMiss, quiltVars, history
<1>1. chart \in Charts /\ chart \notin disabled /\ ~IsChartInCache(chart)
  BY DEF CallInv, Opening
<1>2. Once(pChartCache') /\ Cached' = Cached \ {chart}
  BY <1>1, MissEntry
<1>3. pc = "open" /\ pc' \in {"evict", "load"}
  OBVIOUS
<1>4. /\ n_lock' = [n_lock EXCEPT ![chart] = 0] /\ old_lock' = n_lock[chart]
      /\ n_lock' \in [Charts -> {0, 1}] /\ old_lock' \in {0, 1}
      /\ n_lock'[chart] = 0
      /\ \A c \in Charts \ {chart} : n_lock'[c] = n_lock[c]
  BY <1>1 DEF CacheInv
<1>5. CacheInv'
  BY <1>1, <1>2, <1>4 DEF CacheInv
<1>6. QuiltTypes' /\ CallInv'
  BY <1>2, <1>3 DEF QuiltTypes, CallInv, Opening, Pcs
<1>7. LockInv'
  BY <1>1, <1>3, <1>4 DEF LockInv, CallInv, QuiltTypes
<1>8. PinInv'
  <2>1. ASSUME NEW c \in pinned, Held(c)
        PROVE  Held(c)'
    <3>1. c \in Charts
      BY DEF QuiltTypes
    <3> QED  BY <2>1, <3>1, <1>1, <1>2, <1>3, <1>4 DEF Held
  <2>2. ASSUME NEW c, IsChartInCache(c)
        PROVE  IsChartInCache(c)'
    BY <2>2, <1>1, <1>2 DEF IsChartInCache
  <2> QED  BY <2>1, <2>2, <1>3 DEF PinInv
<1> QED
  BY <1>5, <1>6, <1>7, <1>8

\* An entry without a lock is not one that a quilt holds.
LEMMA ClearedStep == ASSUME QuiltInv, Evict \/ Purge PROVE QuiltInv'
<1> USE DEF QuiltInv, quiltVars, history
<1>1. /\ pc \in {"evict", "purge"}
      /\ pc = "evict" => pc' \in {"evict", "load"}
      /\ pc = "purge" => pc' \in {"purge", "idle"}
      /\ UNCHANGED <<m_b_locked, disabled, quiltVars, stage, todo, refchart, chart, old_lock, history>>
  BY DEF Evict, Purge, cacheVars
<1>2. \/ Cached' = Cached /\ unready' = unready
      \/ \E c \in Cached : n_lock[c] = 0 /\ Cached' = Cached \ {c} /\ unready' = unready \ {c}
  BY Cleared DEF cacheVars, Cached
<1>3. n_lock' = n_lock
  BY Cleared DEF cacheVars
<1>4. CacheInv'
  <2>1. CASE UNCHANGED cacheVars
    BY <1>1, <2>1 DEF cacheVars, CacheInv, Cached
  <2>2. CASE \E c \in Cached :
                /\ n_lock[c] = 0
                /\ Once(pChartCache') /\ Cached' = Cached \ {c}
                /\ used' = used \ {c} /\ unready' = unready \ {c}
                /\ n_lock' = n_lock
    BY <1>1, <2>2 DEF CacheInv
  <2> QED  BY <2>1, <2>2, Cleared
<1>5. QuiltTypes' /\ CallInv' /\ LockInv'
  BY <1>1, <1>2, <1>3 DEF QuiltTypes, CallInv, LockInv, Opening, Pcs
<1>6. PinInv'
  <2>1. ASSUME NEW c \in pinned, Held(c)
        PROVE  Held(c)'
    BY <2>1, <1>1, <1>2, <1>3 DEF Held, CallInv
  <2>2. ASSUME NEW c \in pinned, stage # "lock", IsChartInCache(c)
        PROVE  IsChartInCache(c)'
    <3>1. Held(c)
      BY <2>2 DEF PinInv
    <3>2. n_lock[c] = 1
      BY <2>2, <3>1 DEF Held, CallInv, CacheInv, IsChartInCache
    <3> QED  BY <2>2, <3>2, <1>2 DEF IsChartInCache
  <2> QED  BY <2>1, <2>2, <1>1 DEF PinInv
<1> QED
  BY <1>4, <1>5, <1>6

LEMMA LoadStep == ASSUME QuiltInv, Load PROVE QuiltInv'
<1> USE DEF QuiltInv, quiltVars, history
<1>1. /\ pc = "load" /\ pc' = "opened" /\ old_lock' = 0
      /\ UNCHANGED <<m_b_locked, quiltVars, stage, todo, refchart, chart, dropped>>
  BY DEF Load
<1>2. chart \in Charts /\ chart \notin Cached
  BY <1>1 DEF CallInv, Opening
<1>3. chart \in pinned => ~IsChartInCache(chart)
  BY <1>2 DEF IsChartInCache
<1>4. n_lock[chart] = 0
  BY <1>2 DEF CacheInv
<1>5. CASE /\ Cached' = Cached \cup {chart} /\ used' = {chart}
           /\ n_lock' = [n_lock EXCEPT ![chart] = old_lock]
           /\ unready' \in {unready, unready \cup {chart}}
           /\ disabled' = disabled /\ pinned' = pinned
  <2>0. n_lock'[chart] = old_lock /\ \A c \in Charts \ {chart} : n_lock'[c] = n_lock[c]
    BY <1>2, <1>5 DEF CacheInv
  <2>1. chart \notin disabled
    BY <1>1 DEF CallInv
  <2>2. CacheInv'
    BY <1>1, <1>2, <1>5, <2>1, LoadEntry DEF CacheInv
  <2>3. QuiltTypes' /\ CallInv'
    BY <1>1, <1>5 DEF QuiltTypes, CallInv, Opening, Pcs
  <2>4. LockInv'
    BY <1>1, <1>2, <1>5, <2>0 DEF LockInv, QuiltTypes
  <2>5. PinInv'
    BY <1>1, <1>2, <1>5, <2>0 DEF PinInv, Held, IsChartInCache, QuiltTypes, CallInv
  <2> QED  BY <2>2, <2>3, <2>4, <2>5
<1>6. CASE /\ Cached' = Cached /\ used' = {}
           /\ n_lock' = n_lock
           /\ unready' = unready
           /\ disabled' \in {disabled, disabled \cup {chart}}
           /\ pinned' = pinned \ {chart}
  <2>2. CacheInv'
    BY <1>1, <1>2, <1>6, LoadEntry DEF CacheInv
  <2>3. QuiltTypes' /\ CallInv'
    BY <1>1, <1>2, <1>6 DEF QuiltTypes, CallInv, Opening, Pcs
  <2>4. LockInv'
    BY <1>1, <1>2, <1>4, <1>6 DEF LockInv, QuiltTypes
  <2>5. PinInv'
    BY <1>1, <1>2, <1>6 DEF PinInv, Held, IsChartInCache, QuiltTypes, CallInv
  <2> QED  BY <2>2, <2>3, <2>4, <2>5
<1> QED
  BY <1>2, <1>5, <1>6, LoadEntry

LEMMA OpenedStep == ASSUME QuiltInv, Opened PROVE QuiltInv'
<1> USE DEF QuiltInv, history
<1>1. /\ pc = "opened" /\ chart' = NoChart
      /\ LockOpened \/ VerifyOpened \/ JustOpened
      /\ todo' \subseteq todo
      /\ stage # "units" => todo' = todo \ {chart}
      /\ \/ stage = "other" /\ pc' = "idle" /\ stage' = "none"
         \/ stage # "other" /\ pc' = "compose" /\ stage' = stage
      /\ UNCHANGED <<pChartCache, used, unready, m_b_locked, disabled, candidates, refchart,
                     old_lock, pinned, dropped>>
  BY DEF Opened
<1>2. chart \in Charts /\ stage # "none" /\ old_lock = 0 /\ (stage # "other" => chart \in todo)
  BY <1>1 DEF CallInv, Opening
<1>3. Cached' = Cached
  BY <1>1 DEF Cached
<1>4. CASE stage = "lock" /\ chart \in Cached \ b_locked
  <2>1. /\ n_lock' = [n_lock EXCEPT ![chart] = @ + 1]
        /\ b_locked' = b_locked \cup {chart}
        /\ patches' = patches
    BY <1>1, <1>4 DEF LockOpened, VerifyOpened, JustOpened
  <2>2. chart \in candidates /\ n_lock[chart] = 0
    BY <1>2, <1>4 DEF CallInv, LockInv
  <2>3. /\ n_lock' \in [Charts -> {0, 1}] /\ n_lock'[chart] = 1
        /\ \A c \in Charts \ {chart} : n_lock'[c] = n_lock[c]
    BY <1>2, <2>1, <2>2 DEF CacheInv
  <2>4. CacheInv'
    BY <1>1, <1>3, <1>4, <2>3 DEF CacheInv
  <2>5. QuiltTypes' /\ CallInv'
    BY <1>1, <1>2, <1>4, <2>1, <2>2 DEF QuiltTypes, CallInv, Opening, Pcs
  <2>6. LockInv'
    BY <1>1, <1>2, <1>4, <2>1, <2>2, <2>3 DEF LockInv, QuiltTypes
  <2>7. PinInv'
    BY <1>1, <1>2, <1>3, <1>4, <2>1, <2>3 DEF PinInv, Held, IsChartInCache, QuiltTypes
  <2> QED  BY <2>4, <2>5, <2>6, <2>7
<1>5. CASE ~(stage = "lock" /\ chart \in Cached \ b_locked)
  <2>1. /\ n_lock' = n_lock /\ b_locked' = b_locked
        /\ \/ patches' = patches /\ (stage = "verify" => IsChartInCache(chart))
           \/ stage = "verify" /\ patches' = patches \ {chart}
    BY <1>1, <1>5 DEF LockOpened, VerifyOpened, JustOpened
  <2>2. CacheInv'
    BY <1>1, <1>3, <2>1 DEF CacheInv
  <2>3. QuiltTypes' /\ CallInv'
    BY <1>1, <1>2, <2>1, CacheAssumption DEF QuiltTypes, CallInv, Opening, Pcs, Stages
  <2>4. LockInv'
    BY <1>1, <1>2, <2>1 DEF LockInv, QuiltTypes
  <2>5. \A c \in pinned : Held(c)' \/ (stage' = "lock" /\ c \in todo' \ b_locked')
    <3> SUFFICES ASSUME NEW c \in pinned
                 PROVE  Held(c)' \/ (stage' = "lock" /\ c \in todo' \ b_locked')
      OBVIOUS
    <3>1. CASE Held(c)
      BY <1>1, <1>2, <1>3, <2>1, <3>1 DEF Held
    <3>2. CASE ~Held(c)
      <4>1. stage = "lock" /\ c \in todo \ b_locked
        BY <3>2 DEF PinInv
      <4>2. c = chart => c \in disabled
        BY <1>1, <1>5, <4>1 DEF PinInv
      <4>3. c # chart
        BY <3>2, <4>2 DEF Held
      <4> QED  BY <1>1, <2>1, <4>1, <4>3
    <3> QED  BY <3>1, <3>2
  <2>6. stage' \notin {"lock", "reference", "units"} =>
          \A c \in pinned' \cap patches' : IsChartInCache(c)' \/ (stage' = "verify" /\ c \in todo')
    BY <1>1, <1>3, <2>1 DEF PinInv, IsChartInCache
  <2>7. PinInv'
    BY <1>1, <2>5, <2>6 DEF PinInv
  <2> QED  BY <2>2, <2>3, <2>4, <2>7
<1> QED
  BY <1>4, <1>5

\* Unlocking the last quilt leaves the locks of charts it dropped; locking
\* the next adds those of its charts.
LEMMA ComposeStep ==
    ASSUME QuiltInv, NEW new \in SUBSET Charts, NEW keep \in SUBSET new, NEW show \in SUBSET new,
           NEW ref \in Charts, Compose(new, keep, show, ref)
    PROVE  QuiltInv'
<1> USE DEF QuiltInv
<1>1. /\ pc = "idle" /\ Relock(keep)
      /\ candidates' = new /\ b_locked' = keep \cap Cached /\ patches' = show
      /\ stage' = "lock" /\ todo' = keep /\ refchart' = ref /\ pc' = "compose"
      /\ m_b_locked' = FALSE
      /\ pinned' = keep \cap show /\ dropped' = (dropped \ candidates) \ new
      /\ UNCHANGED <<pChartCache, used, unready, disabled, chart, old_lock>>
  BY DEF Compose
<1>2. stage = "none" /\ old_lock = 0
  BY <1>1 DEF CallInv
<1>3. Cached' = Cached
  BY <1>1 DEF Cached
<1>4. \A c \in Charts : UnlockQuilt[c] = IF c \in candidates THEN 0 ELSE n_lock[c]
  BY DEF UnlockQuilt, CacheInv
<1>5. \A c \in Charts : n_lock'[c] = IF c \in keep \cap Cached THEN 1
                                     ELSE IF c \in candidates THEN 0 ELSE n_lock[c]
  BY <1>1, <1>4 DEF Relock, CacheInv
<1>6. n_lock' \in [Charts -> {0, 1}]
  <2>1. n_lock' \in [Charts -> {n_lock'[c] : c \in Charts}]
    BY <1>1 DEF Relock
  <2>2. \A c \in Charts : n_lock'[c] \in {0, 1}
    BY <1>5 DEF CacheInv
  <2> QED  BY <2>1, <2>2
<1>7. CacheInv'
  BY <1>1, <1>3, <1>5, <1>6 DEF CacheInv
<1>8. QuiltTypes' /\ CallInv'
  BY <1>1, <1>2, <1>3 DEF QuiltTypes, CallInv, Opening, Pcs, Stages
<1>9. LockInv'
  <2>1. \A c \in Charts : n_lock'[c] > 0 => c \in candidates' \cup dropped'
    BY <1>1, <1>5 DEF LockInv
  <2>2. \A c \in todo' \ b_locked' : n_lock'[c] = 0
    BY <1>1, <1>5 DEF CacheInv
  <2> QED  BY <1>1, <1>2, <2>1, <2>2 DEF LockInv
<1>10. PinInv'
  <2>1. \A c \in keep \cap Cached : n_lock'[c] = 1
    BY <1>5
  <2> QED  BY <1>1, <1>3, <2>1 DEF PinInv, Held
<1> QED
  BY <1>7, <1>8, <1>9, <1>10

LEMMA ComposeOpensStep ==
    ASSUME QuiltInv, NEW c \in Charts, ComposeOpens(c) PROVE QuiltInv'
<1> USE DEF QuiltInv, ComposeOpens, cacheVars, quiltVars, history
<1>1. CacheInv' /\ Cached' = Cached
  BY DEF CacheInv, Cached
<1>2. QuiltTypes' /\ CallInv'
  BY <1>1 DEF QuiltTypes, CallInv, Opening, Pcs
<1>3. LockInv'
  BY DEF LockInv, CallInv
<1>4. PinInv'
  BY <1>1 DEF PinInv, Held, IsChartInCache
<1> QED
  BY <1>1, <1>2, <1>3, <1>4

\* At the end of the first walk nothing is left to be opened and locked; at
\* the end of the third but one every patch is in the cache.
LEMMA ComposeGoesOnStep == ASSUME QuiltInv, ComposeGoesOn PROVE QuiltInv'
<1> USE DEF QuiltInv, ComposeGoesOn, cacheVars, quiltVars, history, GoOn
<1>1. CacheInv' /\ Cached' = Cached
  BY DEF CacheInv, Cached
<1>2. QuiltTypes' /\ CallInv'
  BY <1>1 DEF QuiltTypes, CallInv, Opening, Pcs, Stages
<1>3. LockInv'
  BY DEF LockInv
<1>4. stage = "lock" => todo = {}
  BY DEF Passed
<1>5. \A c \in pinned : Held(c)'
  BY <1>1, <1>4 DEF PinInv, Held
<1>6. stage' \notin {"lock", "reference", "units"} =>
        \A c \in pinned' \cap patches' : IsChartInCache(c)' \/ (stage' = "verify" /\ c \in todo')
  BY <1>1 DEF PinInv, IsChartInCache, Passed
<1>7. PinInv'
  BY <1>5, <1>6 DEF PinInv
<1> QED
  BY <1>1, <1>2, <1>3, <1>7

LEMMA ComposedStep == ASSUME QuiltInv, Composed PROVE QuiltInv'
<1> USE DEF QuiltInv, Composed, cacheVars, history, GoOn
<1>1. CacheInv' /\ Cached' = Cached
  BY DEF CacheInv, Cached
<1>2. QuiltTypes' /\ CallInv'
  BY <1>1 DEF QuiltTypes, CallInv, Opening, Pcs, Stages
<1>3. LockInv'
  BY DEF LockInv
<1>4. PinInv'
  BY <1>1 DEF PinInv, Held, IsChartInCache
<1> QED
  BY <1>1, <1>2, <1>3, <1>4

LEMMA RebuildStep ==
    ASSUME QuiltInv, NEW new \in SUBSET Charts, Rebuild(new) PROVE QuiltInv'
<1> USE DEF QuiltInv, Rebuild, cacheVars, callVars
<1>0. stage = "none" /\ old_lock = 0
  BY DEF CallInv
<1>1. CacheInv' /\ Cached' = Cached
  BY DEF CacheInv, Cached
<1>2. QuiltTypes' /\ CallInv'
  BY <1>0, <1>1 DEF QuiltTypes, CallInv, Opening, Pcs, Stages
<1>3. LockInv'
  BY <1>0 DEF LockInv
<1>4. PinInv'
  BY <1>1 DEF PinInv, Held, IsChartInCache
<1> QED
  BY <1>1, <1>2, <1>3, <1>4

LEMMA OpenOtherStep ==
    ASSUME QuiltInv, NEW c \in Charts, OpenOther(c) PROVE QuiltInv'
<1> USE DEF QuiltInv, OpenOther, cacheVars, quiltVars, history
<1>0. stage = "none" /\ old_lock = 0
  BY DEF CallInv
<1>1. CacheInv' /\ Cached' = Cached
  BY DEF CacheInv, Cached
<1>2. QuiltTypes' /\ CallInv'
  BY <1>0, <1>1 DEF QuiltTypes, CallInv, Opening, Pcs, Stages
<1>3. LockInv'
  BY <1>0 DEF LockInv
<1>4. PinInv'
  BY <1>0, <1>1 DEF PinInv, Held, IsChartInCache
<1> QED
  BY <1>1, <1>2, <1>3, <1>4

LEMMA NextInv == ASSUME QuiltInv, [Next]_vars PROVE QuiltInv'
<1>1. CASE OpenStep
  BY <1>1, OpenDisabledStep, OpenHitStep, OpenMissStep, ClearedStep, LoadStep DEF OpenStep
<1>2. CASE Opened
  BY <1>2, OpenedStep
<1>3. CASE ComposeGoesOn
  BY <1>3, ComposeGoesOnStep
<1>4. CASE Composed
  BY <1>4, ComposedStep
<1>5. CASE Purge
  BY <1>5, ClearedStep
<1>6. CASE \E c \in Charts : ComposeOpens(c)
  BY <1>6, ComposeOpensStep
<1>7. CASE Call
  <2>1. CASE \E new \in Quilts : \E keep, show \in SUBSET new :
               \E ref \in IF new = {} THEN Charts ELSE new : Compose(new, keep, show, ref)
    <3>1. PICK new \in Quilts : \E keep, show \in SUBSET new :
               \E ref \in IF new = {} THEN Charts ELSE new : Compose(new, keep, show, ref)
      BY <2>1
    <3>2. PICK keep \in SUBSET new, show \in SUBSET new :
               \E ref \in IF new = {} THEN Charts ELSE new : Compose(new, keep, show, ref)
      BY <3>1
    <3>3. new \in SUBSET Charts
      BY DEF Quilts
    <3>4. PICK ref \in Charts : Compose(new, keep, show, ref)
      BY <3>2, <3>3
    <3> QED  BY <3>3, <3>4, ComposeStep
  <2>2. CASE \E new \in Quilts : Rebuild(new)
    BY <2>2, RebuildStep DEF Quilts
  <2>3. CASE \E c \in Charts : OpenOther(c)
    BY <2>3, OpenOtherStep
  <2> QED  BY <1>7, <2>1, <2>2, <2>3 DEF Call
<1>8. CASE UNCHANGED vars
  BY <1>8 DEF vars, cacheVars, quiltVars, callVars, history, QuiltInv, CacheInv, QuiltTypes,
              CallInv, LockInv, PinInv, Held, Opening, IsChartInCache, Cached
<1> QED
  BY <1>1, <1>2, <1>3, <1>4, <1>5, <1>6, <1>7, <1>8 DEF Next, Step

\* The invariant behind all of the theorems: it holds in every state that any
\* sequence of calls and any outcome of the loads can lead to.
LEMMA Invariant == Spec => []QuiltInv
<1>1. Init => QuiltInv
  BY InitInv
<1>2. QuiltInv /\ [Next]_vars => QuiltInv'
  BY NextInv
<1> QED
  BY <1>1, <1>2, PTL DEF Spec

-----------------------------------------------------------------------------
(* Theorems *)

\* Types: no chart ever has two entries in pChartCache, and nothing is left
\* of the lock or the state of an entry that was deleted.
THEOREM TypeCorrect == Spec => []TypeOK
<1>1. QuiltInv => TypeOK
  <2> SUFFICES ASSUME QuiltInv PROVE TypeOK
    OBVIOUS
  <2>1. pChartCache \in Seq(Charts) /\ Len(pChartCache) = Cardinality(Cached)
    BY OnceCounted DEF QuiltInv, CacheInv, Once, Cached
  <2> QED
    BY <2>1 DEF QuiltInv, CacheInv, QuiltTypes, TypeOK, Pcs
<1> QED
  BY <1>1, Invariant, PTL

\* Locks neither add up nor get lost: LockInv says where the lock of an entry
\* is while OpenChartUsingCache replaces the entry.
THEOREM LocksAreOwned == Spec => []LocksOwned
<1>1. QuiltInv => LocksOwned
  <2> SUFFICES ASSUME QuiltInv PROVE LocksOwned
    OBVIOUS
  <2>1. old_lock <= 1 /\ \A c \in Charts : n_lock[c] <= 1
    BY DEF QuiltInv, CacheInv
  <2>2. Locked \subseteq candidates \cup dropped
    BY DEF QuiltInv, LockInv, Locked
  <2> QED
    BY <2>1, <2>2 DEF LocksOwned
<1> QED
  BY <1>1, Invariant, PTL

\* The preloaded patches of the quilt stay usable in the cache from the end of
\* one Compose to the beginning of the next, whatever is opened or purged.
THEOREM Stays == Spec => []QuiltStays
<1>1. QuiltInv => QuiltStays
  BY DEF QuiltInv, PinInv, CallInv, QuiltStays
<1> QED
  BY <1>1, Invariant, PTL

\* An eviction or a purge ends with more charts than it aims at only if all
\* but the chart just used are locked.
THEOREM OnlyLocksBeyond == Spec => OnlyPinnedBeyond
<1> DEFINE Limit == IF pc = "evict" THEN g_nCacheLimit ELSE PurgeLimit
           Beyond == (pc \in {"evict", "purge"} /\ pc' # pc) =>
                       (\/ Len(pChartCache') <= Limit
                        \/ Len(pChartCache') = 1
                        \/ Cached' \ used' \subseteq Locked')
<1>1. ASSUME QuiltInv, [Next]_vars PROVE Beyond
  <2> SUFFICES ASSUME pc \in {"evict", "purge"}, pc' # pc
               PROVE  \/ Len(pChartCache') <= Limit
                      \/ Len(pChartCache') = 1
                      \/ Cached' \ used' \subseteq Locked'
    OBVIOUS
  <2>1. (pc = "evict" /\ Evict) \/ (pc = "purge" /\ Purge)
    <3>1. ~OpenDisabled /\ ~OpenHit /\ ~OpenMiss /\ ~Load /\ ~Opened /\ ~ComposeGoesOn /\ ~Composed
      BY DEF OpenDisabled, OpenHit, OpenMiss, Load, Opened, ComposeGoesOn, Composed
    <3>2. \A c : ~ComposeOpens(c) /\ ~OpenOther(c) /\ ~Rebuild(c)
      BY DEF ComposeOpens, OpenOther, Rebuild
    <3>3. ~Call
      BY <3>2 DEF Call, Compose
    <3>4. Evict => pc = "evict"
      BY DEF Evict
    <3>5. Purge => pc = "purge"
      BY DEF Purge
    <3>6. vars' # vars
      BY DEF vars, callVars
    <3> QED  BY <1>1, <3>1, <3>2, <3>3, <3>4, <3>5, <3>6 DEF Next, Step, OpenStep
  <2>2. /\ UNCHANGED cacheVars
        /\ Len(pChartCache) <= Limit \/ NoCandidate
    BY <2>1 DEF Evict, Purge
  <2>3. Limit \in Nat
    <3>1. g_nCacheLimit \in Nat
      BY CacheAssumption
    <3>2. (g_nCacheLimit * 7) \div 10 \in Nat
      BY <3>1
    <3> QED  BY <3>1, <3>2 DEF PurgeLimit
  <2>4. Cached' = Cached /\ used' = used /\ Locked' = Locked /\ pChartCache' = pChartCache
    BY <2>2 DEF cacheVars, Cached, Locked
  <2>5. NoCandidate => Len(pChartCache) \in {0, 1} \/ Cached \ used \subseteq Locked
    BY <1>1, NobodyToEvict DEF QuiltInv
  <2> HIDE DEF Limit
  <2> QED
    BY <2>2, <2>3, <2>4, <2>5
<1>2. QuiltInv /\ [Next]_vars => Beyond
  BY <1>1
<1>3. Spec => [][Beyond]_vars
  BY <1>2, Invariant, PTL DEF Spec
<1> QED
  BY <1>3 DEF OnlyPinnedBeyond

-----------------------------------------------------------------------------
(* The inductive invariant of ChartDatabase *)

\* While directories are scanned the map has the last entry of every file name.
LastOfName ==
    phase = "scan" =>
      \A i \in DOMAIN table : i <= collision_map[NameOf[table[i].path]]

\* An entry of a scan that no change of a file disturbed says what the file says.
OfFile(e) ==
    /\ e.path \in Scanned /\ ~e.off
    /\ e.path \in PluginPaths => e.edition = file[e.path].edition

\* The name of a chart is listed, and for a plugin with no older edition.
Met(p) ==
    /\ Collides(p)
    /\ p \in PluginPaths => file[p].edition <= table[Other(p)].edition

\* Two entries with one name stay only if they are of the newest edition.
Alone(p) ==
    \A i, j \in DOMAIN table :
      /\ i # j /\ table[i].valid /\ table[j].valid
      /\ NameOf[table[i].path] = NameOf[p] /\ NameOf[table[j].path] = NameOf[p]
      => Newest(table[i].path)

FilesBelow ==
    \A i \in DOMAIN FileList : FileList[i] \in Available /\ \E d \in DOMAIN Dirs : FileList[i] \in Dirs[d]
EntriesOfFiles == \A i \in DOMAIN table : OfFile(table[i])
LastIsValid == \A n \in AllNames : collision_map[n] # 0 => table[collision_map[n]].valid
AllMet ==
    \A k \in 1..pass : \A p \in PassFiles(k) :
      Readable(p) => Met(p) \/ (k = pass /\ \E i \in DOMAIN FileList : FileList[i] = p)
CopiesAlone == \A p \in PluginPaths \cap Scanned : OldCopiesDiffer(p) => Alone(p)

FreshInv ==
    phase = "scan" /\ ~changed =>
      FilesBelow /\ EntriesOfFiles /\ LastIsValid /\ AllMet /\ CopiesAlone

\* Every entry of a list is valid, and the list has the names that it must.
Lists(t) == want \subseteq Names(t) /\ \A i \in DOMAIN t : t[i].valid

\* Where the names are: in the table until it is saved, then in the file.
ListInv ==
    /\ phase = "save" \/ (phase \in {"store", "up"} /\ ~hurt) => Lists(table)
    /\ phase \in {"up", "reload"} /\ ~hurt => saved.end = "whole"
    /\ phase = "up" /\ ~hurt => Names(table) \subseteq Names(saved.rows)
    /\ phase \notin {"save", "store"} /\ ~hurt =>
         \/ saved.end = "none" /\ want = {}
         \/ saved.end = "whole" /\ Lists(saved.rows)

DatabaseInv == DatabaseTypeOK /\ LastOfName /\ FreshInv /\ ListInv /\ NewestPluginFound
-----------------------------------------------------------------------------
(* Lists of entries *)

\* Taking over an entry or passing it by.
LEMMA KeptStep ==
    ASSUME NEW E, NEW q \in Seq(E), NEW e \in E
    PROVE  /\ Append(q, e) \in Seq(E) /\ DOMAIN Append(q, e) = 1..(Len(q) + 1)
           /\ DOMAIN q = 1..Len(q) /\ Len(q) \in Nat
           /\ \A k \in 1..Len(q) : Append(q, e)[k] = q[k]
           /\ Append(q, e)[Len(q) + 1] = e
  OBVIOUS

\* The lists of what is kept of the first entries.
KeptOfFirst(g, t, S, E) ==
    /\ g \in [0..Len(t) -> Seq(E)] /\ g[0] = <<>>
    /\ \A m \in 1..Len(t) : g[m] = IF m \in S THEN Append(g[m - 1], t[m]) ELSE g[m - 1]
    /\ Kept(t, S) = g[Len(t)]

LEMMA KeptDefined ==
    ASSUME NEW E, NEW t \in Seq(E), NEW S
    PROVE  \E g : KeptOfFirst(g, t, S, E)
<1> DEFINE n == Len(t)
           With(q, m) == IF m \in S THEN Append(q, t[m]) ELSE q
           UpTo(g, k) == /\ g \in [0..k -> Seq(E)] /\ g[0] = <<>>
                         /\ \A m \in 1..k : g[m] = With(g[m - 1], m)
           Filled(g) == [m \in 0..n |->
                         IF m = 0 THEN <<>> ELSE IF m \in S THEN Append(g[m - 1], t[m]) ELSE g[m - 1]]
           Bad == {k \in 0..n : ~\E g : UpTo(g, k)}
<1>1. n \in Nat /\ \A m \in 1..n : t[m] \in E
  OBVIOUS
<1>2. \A m \in 1..n, q \in Seq(E) : With(q, m) \in Seq(E)
  BY <1>1, AppendProperties
<1> HIDE DEF n, UpTo, With
<1>3. Bad = {}
  <2> SUFFICES ASSUME Bad # {}  PROVE FALSE
    OBVIOUS
  <2>1. Bad \in SUBSET Nat
    BY <1>1
  <2>2. PICK k \in Bad : \A j \in Bad : k <= j
    BY <2>1, LeastNumber
  <2>3. k \in 0..n
    OBVIOUS
  <2>4. CASE k = 0
    <3>1. UpTo([m \in 0..0 |-> <<>>], 0)
      BY DEF UpTo
    <3> QED  BY <2>4, <3>1
  <2>5. CASE k # 0
    <3>1. k - 1 \in 0..n /\ k - 1 \notin Bad
      <4> HIDE DEF Bad
      <4>1. k - 1 \in 0..n /\ ~(k <= k - 1)
        BY <1>1, <2>3, <2>5
      <4> QED  BY <2>2, <4>1
    <3>2. PICK g : UpTo(g, k - 1)
      BY <3>1
    <3> DEFINE w == With(g[k - 1], k)
               f == [m \in 0..k |-> IF m = k THEN w ELSE g[m]]
    <3>3. k \in 1..n /\ w \in Seq(E)
      <4>1. k \in 1..n /\ k - 1 \in 0..(k - 1)
        BY <1>1, <2>3, <2>5
      <4>2. g[k - 1] \in Seq(E)
        BY <3>2, <4>1 DEF UpTo
      <4> QED  BY <1>2, <4>1, <4>2
    <3>4. \A m \in 0..(k - 1) : g[m] \in Seq(E)
      BY <3>2 DEF UpTo
    <3>5. f \in [0..k -> Seq(E)]
      <4> HIDE DEF w
      <4>1. \A m \in 0..k : m = k \/ m \in 0..(k - 1)
        BY <3>3
      <4> QED  BY <3>3, <3>4, <4>1
    <3>6. f[0] = <<>>
      BY <3>2, <3>3 DEF UpTo
    <3>7. \A m \in 1..k : f[m] = With(f[m - 1], m)
      <4>1. \A m \in 1..k : m - 1 \in 0..k /\ m - 1 # k /\ m \in 0..k /\ (m = k \/ m \in 1..(k - 1))
        BY <3>3
      <4> QED  BY <3>2, <4>1 DEF UpTo
    <3>8. UpTo(f, k)
      <4> HIDE DEF f
      <4> QED  BY <3>5, <3>6, <3>7 DEF UpTo
    <3> QED  BY <3>8
  <2> QED  BY <2>4, <2>5
<1>4. PICK g : UpTo(g, n)
  <2>1. n \in 0..n
    BY <1>1
  <2> QED  BY <1>3, <2>1
<1>5. g = Filled(g)
  <2>1. \A m \in 0..n : g[m] = IF m = 0 THEN <<>> ELSE IF m \in S THEN Append(g[m - 1], t[m]) ELSE g[m - 1]
    <3>1. \A m \in 0..n : m = 0 \/ m \in 1..n
      BY <1>1
    <3> QED  BY <1>4, <3>1 DEF UpTo, With
  <2>2. g \in [0..n -> Seq(E)]
    BY <1>4 DEF UpTo
  <2> QED  BY <2>1, <2>2
<1>6. Kept(t, S) = (CHOOSE f : f = Filled(f))[n]
  BY DEF Kept, n
<1> HIDE DEF Filled
<1> DEFINE F == CHOOSE f : f = Filled(f)
<1>7. F = Filled(F)
  BY <1>5
<1> HIDE DEF F
<1>8. F = [m \in 0..n |-> IF m = 0 THEN <<>> ELSE IF m \in S THEN Append(F[m - 1], t[m]) ELSE F[m - 1]]
  BY <1>7 DEF Filled
<1>9. F[0] = <<>> /\ \A m \in 1..n : F[m] = With(F[m - 1], m)
  <2>1. 0 \in 0..n /\ \A m \in 1..n : m \in 0..n /\ m # 0
    BY <1>1
  <2> QED  BY <1>8, <2>1 DEF With
<1>10. \A m \in 0..n : F[m] \in Seq(E)
  <2> DEFINE Odd == {m \in 0..n : F[m] \notin Seq(E)}
  <2> SUFFICES ASSUME Odd # {}  PROVE FALSE
    OBVIOUS
  <2>1. Odd \in SUBSET Nat
    BY <1>1
  <2>2. PICK k \in Odd : \A j \in Odd : k <= j
    BY <2>1, LeastNumber
  <2>3. k # 0
    <3>1. F[0] \in Seq(E)
      BY <1>9
    <3> QED  BY <3>1
  <2>4. k \in 1..n /\ k - 1 \in 0..n /\ k - 1 \notin Odd
    BY <1>1, <2>2, <2>3
  <2>5. F[k - 1] \in Seq(E)
    BY <2>4
  <2>6. F[k] \in Seq(E)
    BY <1>2, <1>9, <2>4, <2>5
  <2> QED  BY <2>6
<1>11. F \in [0..n -> Seq(E)]
  BY <1>8, <1>10
<1>12. Kept(t, S) = F[n]
  BY <1>6 DEF F
<1>13. KeptOfFirst(F, t, S, E)
  BY <1>9, <1>11, <1>12 DEF n, With, KeptOfFirst
<1> QED
  BY <1>13

\* What is kept are the entries at the given places.
LEMMA KeptEntries ==
    ASSUME NEW E, NEW t \in Seq(E), NEW S
    PROVE  /\ Kept(t, S) \in Seq(E)
           /\ \A k \in DOMAIN Kept(t, S) : \E i \in DOMAIN t \cap S : Kept(t, S)[k] = t[i]
           /\ \A i \in DOMAIN t \cap S : \E k \in DOMAIN Kept(t, S) : Kept(t, S)[k] = t[i]
<1> DEFINE n == Len(t)
<1>0. PICK g : KeptOfFirst(g, t, S, E)
  BY KeptDefined
<1>1. /\ g \in [0..n -> Seq(E)] /\ g[0] = <<>>
      /\ \A m \in 1..n : g[m] = IF m \in S THEN Append(g[m - 1], t[m]) ELSE g[m - 1]
      /\ Kept(t, S) = g[n]
  BY <1>0 DEF KeptOfFirst
<1>2. n \in Nat /\ DOMAIN t = 1..n /\ \A m \in 1..n : t[m] \in E
  OBVIOUS
<1> HIDE DEF n
<1> DEFINE From(m) == \A k \in DOMAIN g[m] : \E i \in 1..m : i \in S /\ g[m][k] = t[i]
           All(m) == \A i \in 1..m : i \in S => \E k \in DOMAIN g[m] : g[m][k] = t[i]
           Bad == {m \in 0..n : ~(From(m) /\ All(m))}
<1>3. From(0) /\ All(0)
  <2>1. DOMAIN g[0] = {}
    BY <1>1
  <2> QED  BY <2>1
<1>4. ASSUME NEW m \in 1..n, From(m - 1), All(m - 1)  PROVE From(m) /\ All(m)
  <2>1. m - 1 \in 0..n /\ m \in Nat
    BY <1>2
  <2>2. g[m - 1] \in Seq(E) /\ t[m] \in E
    BY <1>1, <1>2, <2>1
  <2>3. \A i \in 1..m : i = m \/ i \in 1..(m - 1)
    BY <2>1
  <2>4. \A i \in 1..(m - 1) : i \in 1..m
    BY <2>1
  <2>5. CASE m \notin S
    <3>1. g[m] = g[m - 1]
      BY <1>1, <2>5
    <3> QED  BY <1>4, <2>3, <2>4, <2>5, <3>1
  <2>6. CASE m \in S
    <3> DEFINE l == Len(g[m - 1])
    <3>1. g[m] = Append(g[m - 1], t[m])
      BY <1>1, <2>6
    <3>2. /\ DOMAIN g[m] = 1..(l + 1) /\ DOMAIN g[m - 1] = 1..l /\ l \in Nat
          /\ \A k \in 1..l : g[m][k] = g[m - 1][k]
          /\ g[m][l + 1] = t[m]
      BY <2>2, <3>1, KeptStep
    <3> HIDE DEF l
    <3>3. From(m)
      <4> SUFFICES ASSUME NEW k \in DOMAIN g[m]
                   PROVE  \E i \in 1..m : i \in S /\ g[m][k] = t[i]
        OBVIOUS
      <4>1. CASE k = l + 1
        <5>1. m \in 1..m
          BY <2>1
        <5> QED  BY <2>6, <3>2, <4>1, <5>1
      <4>2. CASE k # l + 1
        <5>1. k \in 1..l
          BY <3>2, <4>2
        <5>2. PICK i \in 1..(m - 1) : i \in S /\ g[m - 1][k] = t[i]
          BY <1>4, <3>2, <5>1
        <5> QED  BY <2>4, <3>2, <5>1, <5>2
      <4> QED  BY <4>1, <4>2
    <3>4. All(m)
      <4> SUFFICES ASSUME NEW i \in 1..m, i \in S
                   PROVE  \E k \in DOMAIN g[m] : g[m][k] = t[i]
        OBVIOUS
      <4>1. CASE i = m
        <5>1. l + 1 \in DOMAIN g[m]
          BY <3>2
        <5> QED  BY <3>2, <4>1, <5>1
      <4>2. CASE i \in 1..(m - 1)
        <5>1. PICK k \in DOMAIN g[m - 1] : g[m - 1][k] = t[i]
          BY <1>4, <4>2
        <5>2. k \in DOMAIN g[m]
          BY <3>2
        <5> QED  BY <3>2, <5>1, <5>2
      <4> QED  BY <2>3, <4>1, <4>2
    <3> QED  BY <3>3, <3>4
  <2> QED  BY <2>5, <2>6
<1> HIDE DEF From, All
<1>5. Bad = {}
  <2> SUFFICES ASSUME Bad # {}  PROVE FALSE
    OBVIOUS
  <2>1. Bad \in SUBSET Nat
    BY <1>2
  <2>2. PICK m \in Bad : \A j \in Bad : m <= j
    BY <2>1, LeastNumber
  <2>3. m # 0
    BY <1>3
  <2>4. m \in 1..n /\ m - 1 \in 0..n /\ ~(m <= m - 1)
    BY <1>2, <2>3
  <2>5. m - 1 \notin Bad
    BY <2>2, <2>4
  <2> QED  BY <1>4, <2>4, <2>5
<1>6. n \in 0..n
  BY <1>2
<1>7. From(n) /\ All(n)
  BY <1>5, <1>6
<1>8. /\ \A k \in DOMAIN g[n] : \E i \in DOMAIN t \cap S : g[n][k] = t[i]
      /\ \A i \in DOMAIN t \cap S : \E k \in DOMAIN g[n] : g[n][k] = t[i]
  BY <1>2, <1>7 DEF From, All
<1>9. g[n] \in Seq(E)
  BY <1>1, <1>6
<1> QED
  BY <1>1, <1>8, <1>9

-----------------------------------------------------------------------------
(* What the entries of the table are *)

Rows == [path : Paths, edition : Dates, time : Dates, valid : BOOLEAN, off : BOOLEAN]

LEMMA EntriesAreRows == Entries(Paths) = Rows
<1>1. ASSUME NEW e \in Rows  PROVE e \in Entries(Paths)
  <2>1. e.path \in Paths /\ e \in [path : {e.path}, edition : Dates, time : Dates, valid : BOOLEAN, off : BOOLEAN]
    BY DEF Rows
  <2> QED  BY <2>1 DEF Entries
<1>2. ASSUME NEW e \in Entries(Paths)  PROVE e \in Rows
  <2>1. PICK p \in Paths : e \in [path : {p}, edition : Dates, time : Dates, valid : BOOLEAN, off : BOOLEAN]
    BY DEF Entries
  <2> QED  BY <2>1 DEF Rows
<1> QED
  BY <1>1, <1>2

LEMMA DatesAreNumbers == Dates \subseteq Nat /\ \A d \in Dates : d > 0
BY ChartDatabaseAssumption DEF Dates

LEMMA PathsHaveNames ==
    \A p \in Paths : /\ NameOf[p] \in AllNames
                     /\ \A q \in Paths : NameOf[p] = NameOf[q] /\ p \in PluginPaths => q \in PluginPaths
BY ChartDatabaseAssumption DEF AllNames

\* A file with a header has an edition and a time.
LEMMA ReadableFile ==
    ASSUME file \in [Paths -> Files], NEW p \in Paths, Readable(p)
    PROVE  file[p].edition \in Dates /\ file[p].time \in Dates /\ Exists(p)
<1>1. file[p] \in Files
  OBVIOUS
<1>2. file[p] # Absent /\ file[p] # Unreadable
  BY DEF Readable, Absent, Unreadable
<1>3. file[p] \in [edition : Dates, time : Dates]
  BY <1>1, <1>2 DEF Files
<1> QED
  BY <1>3, DatesAreNumbers DEF Exists

LEMMA EditionIsNumber ==
    ASSUME file \in [Paths -> Files], NEW p \in Paths
    PROVE  file[p].edition \in Nat
<1>1. file[p] \in Files
  OBVIOUS
<1>2. CASE file[p] = Absent
  BY <1>2 DEF Absent
<1>3. CASE file[p] = Unreadable
  BY <1>3 DEF Unreadable
<1>4. CASE file[p] \in [edition : Dates, time : Dates]
  BY <1>4, DatesAreNumbers
<1> QED
  BY <1>1, <1>2, <1>3, <1>4 DEF Files

LEMMA NewEntry ==
    ASSUME file \in [Paths -> Files], NEW p \in Paths, Readable(p), NEW new \in NewEntries(p)
    PROVE  /\ new \in Rows /\ new.path = p /\ new.valid = TRUE /\ new.off = FALSE
           /\ p \in PluginPaths => new.edition = file[p].edition
<1>1. file[p].edition \in Dates /\ file[p].time \in Dates
  BY ReadableFile
<1> DEFINE D == IF p \in PluginPaths THEN {file[p].edition} ELSE Dates
<1>2. D \subseteq Dates /\ (p \in PluginPaths => D = {file[p].edition})
  BY <1>1
<1>3. new \in [path : {p}, edition : D, time : {file[p].time}, valid : {TRUE}, off : {FALSE}]
  BY DEF NewEntries
<1> HIDE DEF D
<1> QED
  BY <1>1, <1>2, <1>3 DEF Rows

\* A list that differs from t in the validity of its i-th entry, if at all.
Revalued(t, i, u) ==
    /\ u \in Seq(Rows) /\ Len(u) = Len(t)
    /\ \A k \in DOMAIN t : /\ u[k].path = t[k].path /\ u[k].edition = t[k].edition /\ u[k].off = t[k].off
                           /\ k # i => u[k].valid = t[k].valid

LEMMA SetValidRevalues ==
    ASSUME NEW t \in Seq(Rows), NEW i \in DOMAIN t, NEW v \in BOOLEAN
    PROVE  Revalued(t, i, SetValid(t, i, v)) /\ SetValid(t, i, v)[i].valid = v
<1> DEFINE e == [t[i] EXCEPT !.valid = v]
           u == [t EXCEPT ![i] = e]
<1>1. SetValid(t, i, v) = u
  BY DEF SetValid
<1>2. t[i] \in Rows
  OBVIOUS
<1>3. e \in Rows /\ e.path = t[i].path /\ e.edition = t[i].edition /\ e.off = t[i].off /\ e.valid = v
  BY <1>2 DEF Rows
<1> HIDE DEF e
<1>4. u \in Seq(Rows) /\ Len(u) = Len(t) /\ u[i] = e /\ \A k \in DOMAIN t : k # i => u[k] = t[k]
  BY <1>3
<1> HIDE DEF u
<1> QED
  BY <1>1, <1>3, <1>4 DEF Revalued

\* Nothing is left to do for an unchanged list.
LEMMA UnchangedIsRevalued ==
    ASSUME NEW t \in Seq(Rows), NEW i
    PROVE  Revalued(t, i, t)
BY DEF Revalued

LEMMA ElementsOfList ==
    ASSUME NEW E, NEW t \in Seq(E)
    PROVE  Len(t) \in Nat /\ DOMAIN t = 1..Len(t) /\ \A i \in DOMAIN t : t[i] \in E
OBVIOUS

\* The names of a list depend on the paths of its entries only.
LEMMA NamesOfRevalued ==
    ASSUME NEW t \in Seq(Rows), NEW i, NEW u, Revalued(t, i, u)
    PROVE  DOMAIN u = DOMAIN t /\ Names(u) = Names(t)
<1>1. DOMAIN u = DOMAIN t
  BY ElementsOfList DEF Revalued
<1> QED
  BY <1>1 DEF Names, Revalued

LEMMA NamesOfAppended ==
    ASSUME NEW t \in Seq(Rows), NEW e \in Rows
    PROVE  Names(Append(t, e)) = Names(t) \cup {NameOf[e.path]}
<1> DEFINE u == Append(t, e)
<1>1. /\ DOMAIN u = 1..(Len(t) + 1) /\ DOMAIN t = 1..Len(t) /\ Len(t) \in Nat
      /\ \A k \in 1..Len(t) : u[k] = t[k]
      /\ u[Len(t) + 1] = e
  BY KeptStep
<1> HIDE DEF u
<1>2. \A k \in DOMAIN u : k = Len(t) + 1 \/ k \in DOMAIN t
  BY <1>1
<1>3. \A k \in DOMAIN t : k \in DOMAIN u /\ u[k] = t[k]
  BY <1>1
<1>4. Len(t) + 1 \in DOMAIN u
  BY <1>1
<1>5. Names(u) = Names(t) \cup {NameOf[e.path]}
  BY <1>1, <1>2, <1>3, <1>4 DEF Names
<1> QED
  BY <1>5 DEF u

\* Taking out the invalid entries.
LEMMA RemovedInvalid ==
    ASSUME NEW t \in Seq(Rows)
    PROVE  LET u == RemoveInvalid(t)
           IN  /\ u \in Seq(Rows)
               /\ \A k \in DOMAIN u : u[k].valid /\ \E i \in DOMAIN t : u[k] = t[i]
               /\ \A i \in DOMAIN t : t[i].valid => \E k \in DOMAIN u : u[k] = t[i]
<1> DEFINE S == {i \in DOMAIN t : t[i].valid}
           u == Kept(t, S)
<1>1. /\ u \in Seq(Rows)
      /\ \A k \in DOMAIN u : \E i \in DOMAIN t \cap S : u[k] = t[i]
      /\ \A i \in DOMAIN t \cap S : \E k \in DOMAIN u : u[k] = t[i]
  <2> HIDE DEF S
  <2> QED  BY KeptEntries
<1> HIDE DEF u
<1>2. /\ \A k \in DOMAIN u : u[k].valid /\ \E i \in DOMAIN t : u[k] = t[i]
      /\ \A i \in DOMAIN t : t[i].valid => \E k \in DOMAIN u : u[k] = t[i]
  BY <1>1
<1> QED
  BY <1>1, <1>2 DEF u, RemoveInvalid

-----------------------------------------------------------------------------
(* Scanning the directories *)

LEMMA GreatestNumber ==
    ASSUME NEW n \in Nat, NEW T \in SUBSET (1..n), T # {}
    PROVE  \E x \in T : \A y \in T : y <= x
<1> DEFINE U == {n - x : x \in T}
<1>1. U \in SUBSET Nat /\ U # {}
  <2>1. \A x \in T : n - x \in Nat
    OBVIOUS
  <2> QED  BY <2>1
<1>2. PICK u \in U : \A v \in U : u <= v
  BY <1>1, LeastNumber
<1>3. PICK x \in T : u = n - x
  OBVIOUS
<1>4. \A y \in T : n - y \in U
  OBVIOUS
<1> HIDE DEF U
<1>5. \A y \in T : n - x <= n - y
  BY <1>2, <1>3, <1>4
<1>6. \A y \in T : y <= x
  BY <1>5
<1> QED
  BY <1>6

LEMMA DirectoryFacts ==
    /\ Len(Dirs) \in Nat /\ DOMAIN Dirs = 1..Len(Dirs)
    /\ \A d \in DOMAIN Dirs : Dirs[d] \subseteq Paths
    /\ Passes \in Nat
BY ChartDatabaseAssumption DEF Passes

\* The files of a pass are those of one directory and one class.
LEMMA PassFacts ==
    ASSUME NEW k \in 1..Passes
    PROVE  \E d \in DOMAIN Dirs : /\ PassFiles(k) \subseteq Dirs[d]
                                  /\ PassFiles(k) \subseteq Paths /\ PassFiles(k) \subseteq Available
<1> DEFINE d == (k + 1) \div 2
<1>1. d \in 1..Len(Dirs)
  BY DirectoryFacts DEF Passes
<1>2. PassFiles(k) \subseteq Dirs[d] /\ PassFiles(k) \subseteq Available
  BY DEF PassFiles
<1>3. Dirs[d] \subseteq Paths
  BY <1>1, DirectoryFacts
<1> HIDE DEF d
<1> QED
  BY <1>1, <1>2, <1>3, DirectoryFacts

\* Every file of a directory that is available belongs to one of the passes.
LEMMA EveryFileHasAPass ==
    ASSUME NEW d \in DOMAIN Dirs, NEW p \in Available \cap Dirs[d]
    PROVE  \E k \in 1..Passes : p \in PassFiles(k)
<1> DEFINE a == 2 * d - 1
           b == 2 * d
<1>1. d \in 1..Len(Dirs) /\ Len(Dirs) \in Nat
  BY DirectoryFacts
<1>2. a \in 1..Passes /\ b \in 1..Passes
  BY <1>1 DEF Passes
<1>3. (a + 1) \div 2 = d /\ (b + 1) \div 2 = d /\ a % 2 = 1 /\ b % 2 # 1
  BY <1>1
<1> HIDE DEF a, b
<1>4. p \in PluginPaths => p \in PassFiles(b)
  BY <1>3 DEF PassFiles
<1>5. p \notin PluginPaths => p \in PassFiles(a)
  BY <1>3 DEF PassFiles
<1> QED
  BY <1>2, <1>4, <1>5

\* The sorted listing of a set of files.
LEMMA Listing ==
    ASSUME NEW S
    PROVE  LET list == Kept([p \in Paths |-> p], S)
           IN  /\ list \in Seq(Paths)
               /\ \A k \in DOMAIN list : list[k] \in S
               /\ \A p \in Paths \cap S : \E k \in DOMAIN list : list[k] = p
<1> DEFINE all == [p \in Paths |-> p]
<1>1. Cardinality(Paths) \in Nat /\ Paths = 1..Cardinality(Paths)
  BY ChartDatabaseAssumption, FS_CardinalityType
<1>2. all \in Seq(Paths) /\ DOMAIN all = Paths /\ \A p \in Paths : all[p] = p
  <2>1. all \in [1..Cardinality(Paths) -> Paths]
    BY <1>1
  <2> QED  BY <1>1, <2>1, SeqDef
<1> HIDE DEF all
<1>3. /\ Kept(all, S) \in Seq(Paths)
      /\ \A k \in DOMAIN Kept(all, S) : \E i \in DOMAIN all \cap S : Kept(all, S)[k] = all[i]
      /\ \A i \in DOMAIN all \cap S : \E k \in DOMAIN Kept(all, S) : Kept(all, S)[k] = all[i]
  BY <1>2, KeptEntries
<1>4. /\ \A k \in DOMAIN Kept(all, S) : Kept(all, S)[k] \in S
      /\ \A p \in Paths \cap S : \E k \in DOMAIN Kept(all, S) : Kept(all, S)[k] = p
  BY <1>2, <1>3
<1> QED
  BY <1>3, <1>4 DEF all

\* The map at the start of a pass.
LEMMA MapOfTable ==
    ASSUME table \in Seq(Rows), BeginPass
    PROVE  /\ collision_map' \in [AllNames -> Nat]
           /\ \A n \in AllNames : collision_map'[n] # 0 =>
                /\ collision_map'[n] \in DOMAIN table
                /\ NameOf[table[collision_map'[n]].path] = n
           /\ \A i \in DOMAIN table : i <= collision_map'[NameOf[table[i].path]]
<1> DEFINE Same(n) == {i \in DOMAIN table : NameOf[table[i].path] = n}
           Last(n) == IF Same(n) = {} THEN 0 ELSE CHOOSE i \in Same(n) : \A j \in Same(n) : j <= i
<1>1. collision_map' = [n \in AllNames |-> Last(n)]
  BY DEF BeginPass
<1>2. Len(table) \in Nat /\ DOMAIN table = 1..Len(table) /\ \A i \in DOMAIN table : table[i] \in Rows
  BY ElementsOfList
<1>3. ASSUME NEW n, Same(n) # {}
      PROVE  Last(n) \in Same(n) /\ \A j \in Same(n) : j <= Last(n)
  <2>1. Same(n) \in SUBSET (1..Len(table))
    BY <1>2
  <2> HIDE DEF Same
  <2>2. \E i \in Same(n) : \A j \in Same(n) : j <= i
    BY <1>2, <1>3, <2>1, GreatestNumber
  <2> QED  BY <1>3, <2>2
<1>4. \A n : Same(n) = {} => Last(n) = 0
  OBVIOUS
<1>5. \A n : \A i \in Same(n) : i \in DOMAIN table /\ i \in Nat /\ i # 0 /\ NameOf[table[i].path] = n
  BY <1>2
<1>6. \A i \in DOMAIN table : NameOf[table[i].path] \in AllNames /\ i \in Same(NameOf[table[i].path])
  BY <1>2, PathsHaveNames DEF Rows
<1> HIDE DEF Same, Last
<1>7. \A n \in AllNames : Last(n) \in Nat /\ (Last(n) # 0 => Last(n) \in Same(n))
  BY <1>3, <1>4, <1>5
<1>8. collision_map' \in [AllNames -> Nat]
  BY <1>1, <1>7
<1>9. \A n \in AllNames : collision_map'[n] # 0 =>
        collision_map'[n] \in DOMAIN table /\ NameOf[table[collision_map'[n]].path] = n
  BY <1>1, <1>5, <1>7
<1>10. ASSUME NEW i \in DOMAIN table  PROVE i <= collision_map'[NameOf[table[i].path]]
  <2>1. PICK n : n = NameOf[table[i].path]
    OBVIOUS
  <2>2. n \in AllNames /\ i \in Same(n)
    BY <1>6, <2>1
  <2>3. i <= Last(n)
    BY <1>3, <2>2
  <2> QED  BY <1>1, <2>1, <2>2, <2>3
<1> QED
  BY <1>8, <1>9, <1>10

\* While files are visited the map is up to date, so that the next pass
\* begins with the one the last ended with.
LEMMA MapIsKept ==
    ASSUME table \in Seq(Rows), DatabaseTypeOK, LastOfName, BeginPass
    PROVE  collision_map' = collision_map
<1>1. /\ collision_map \in [AllNames -> Nat]
      /\ \A n \in AllNames : collision_map[n] # 0 =>
           collision_map[n] \in DOMAIN table /\ NameOf[table[collision_map[n]].path] = n
      /\ \A i \in DOMAIN table : i <= collision_map[NameOf[table[i].path]]
  BY DEF DatabaseTypeOK, LastOfName, BeginPass
<1>2. /\ collision_map' \in [AllNames -> Nat]
      /\ \A n \in AllNames : collision_map'[n] # 0 =>
           collision_map'[n] \in DOMAIN table /\ NameOf[table[collision_map'[n]].path] = n
      /\ \A i \in DOMAIN table : i <= collision_map'[NameOf[table[i].path]]
  BY MapOfTable
<1>3. ASSUME NEW n \in AllNames  PROVE collision_map'[n] = collision_map[n]
  <2>1. PICK a, b : a = collision_map[n] /\ b = collision_map'[n]
    OBVIOUS
  <2>2. a \in Nat /\ b \in Nat
    BY <1>1, <1>2, <2>1
  <2>3. a # 0 => a <= b
    <3>1. a # 0 => a \in DOMAIN table /\ NameOf[table[a].path] = n
      BY <1>1, <2>1
    <3> QED  BY <1>2, <2>1, <3>1
  <2>4. b # 0 => b <= a
    <3>1. b # 0 => b \in DOMAIN table /\ NameOf[table[b].path] = n
      BY <1>2, <2>1
    <3> QED  BY <1>1, <2>1, <3>1
  <2> QED  BY <2>1, <2>2, <2>3, <2>4
<1> QED
  BY <1>1, <1>2, <1>3

-----------------------------------------------------------------------------
(* What a visit does *)

\* The entry there is of the name stays and counts as valid.
Confirmed(p) ==
    /\ Collides(p)
    /\ table' = SetValid(table, Other(p), TRUE) /\ collision_map' = collision_map
    /\ SamePath(p) \/ \E new \in NewEntries(p) : new.edition < table[Other(p)].edition

\* The file has no header. An entry of this path is invalid then.
Rejected(p) ==
    /\ ~Readable(p)
    /\ table' = IF SamePath(p) THEN SetValid(table, Other(p), FALSE) ELSE table
    /\ collision_map' = collision_map

\* The file gets a new entry behind those of u, where the entry there is of
\* the name stays as it is or becomes invalid.
LeavesOther(p, new) ==
    Collides(p) => /\ ~SamePath(p)
                   /\ new.edition = table[Other(p)].edition \/ ~Exists(table[Other(p)].path)
RetiresOther(p, new) ==
    Collides(p) /\ (SamePath(p) \/ table[Other(p)].edition < new.edition)

Added(p, new, u) ==
    /\ Readable(p) /\ new \in NewEntries(p)
    /\ \/ u = table /\ LeavesOther(p, new)
       \/ u = SetValid(table, Other(p), FALSE) /\ RetiresOther(p, new)
    /\ table' = Append(u, new)
    /\ collision_map' = [collision_map EXCEPT ![NameOf[p]] = Len(table')]

LEMMA ResolveCases ==
    ASSUME NEW t, NEW i, NEW new, t[i].edition \in Nat, new.edition \in Nat
    PROVE  \/ /\ Resolve(t, i, new)[1] = SetValid(t, i, FALSE) /\ Resolve(t, i, new)[2]
              /\ t[i].path = new.path \/ t[i].edition < new.edition
           \/ /\ Resolve(t, i, new)[1] = SetValid(t, i, TRUE) /\ ~Resolve(t, i, new)[2]
              /\ new.edition < t[i].edition
           \/ /\ Resolve(t, i, new)[1] = t /\ Resolve(t, i, new)[2]
              /\ t[i].path # new.path
              /\ new.edition = t[i].edition \/ ~Exists(t[i].path)
<1> DEFINE a == t[i].edition
           b == new.edition
<1>1. a < b \/ b < a \/ a = b
  OBVIOUS
<1> QED
  BY <1>1 DEF Resolve

\* The entry with the name of a path.
LEMMA OtherTyped ==
    ASSUME DatabaseTypeOK, phase = "scan", NEW p \in Paths, Collides(p)
    PROVE  /\ Other(p) \in DOMAIN table /\ table[Other(p)] \in Rows
           /\ NameOf[table[Other(p)].path] = NameOf[p]
<1>1. NameOf[p] \in AllNames /\ table \in Seq(Rows)
  BY PathsHaveNames, EntriesAreRows DEF DatabaseTypeOK
<1>2. Other(p) \in DOMAIN table /\ NameOf[table[Other(p)].path] = NameOf[p]
  BY <1>1 DEF DatabaseTypeOK, Collides, Other
<1> QED
  BY <1>1, <1>2, ElementsOfList

LEMMA VisitCases ==
    ASSUME DatabaseTypeOK, Visit
    PROVE  \E p \in Paths : /\ p = Head(FileList)
                            /\ Confirmed(p) \/ Rejected(p) \/ \E new, u : Added(p, new, u)
<1> DEFINE p == Head(FileList)
<1>1. /\ FileList \in Seq(Paths) /\ FileList # <<>> /\ phase = "scan"
      /\ VisitSame(p) \/ VisitUnreadable(p) \/ VisitChart(p)
  BY DEF Visit, DatabaseTypeOK
<1>2. p \in Paths
  BY <1>1, HeadTailProperties
<1> HIDE DEF p
<1>3. CASE VisitSame(p)
  <2>1. Confirmed(p)
    BY <1>3 DEF VisitSame, Confirmed, SamePath
  <2> QED  BY <1>2, <2>1 DEF p
<1>4. CASE VisitUnreadable(p)
  <2>1. Rejected(p)
    BY <1>4 DEF VisitUnreadable, Rejected
  <2> QED  BY <1>2, <2>1 DEF p
<1>5. CASE VisitChart(p)
  <2>1. /\ Readable(p) /\ file \in [Paths -> Files]
        /\ \E new \in NewEntries(p) :
             LET r == IF Collides(p) THEN Resolve(table, Other(p), new) ELSE <<table, TRUE>>
             IN  IF r[2]
                 THEN /\ table' = Append(r[1], new)
                      /\ collision_map' = [collision_map EXCEPT ![NameOf[p]] = Len(table')]
                 ELSE table' = r[1] /\ UNCHANGED collision_map
    BY <1>5 DEF VisitChart, DatabaseTypeOK
  <2>2. PICK new \in NewEntries(p) :
             LET r == IF Collides(p) THEN Resolve(table, Other(p), new) ELSE <<table, TRUE>>
             IN  IF r[2]
                 THEN /\ table' = Append(r[1], new)
                      /\ collision_map' = [collision_map EXCEPT ![NameOf[p]] = Len(table')]
                 ELSE table' = r[1] /\ UNCHANGED collision_map
    BY <2>1
  <2>3. new \in Rows /\ new.path = p
    BY <1>2, <2>1, NewEntry
  <2>4. CASE ~Collides(p)
    <3>1. /\ table' = Append(table, new)
          /\ collision_map' = [collision_map EXCEPT ![NameOf[p]] = Len(table')]
      BY <2>2, <2>4
    <3>2. Added(p, new, table)
      BY <2>1, <2>4, <3>1 DEF Added, LeavesOther
    <3> QED  BY <1>2, <3>2 DEF p
  <2>5. CASE Collides(p)
    <3> DEFINE r == Resolve(table, Other(p), new)
    <3>1. IF r[2] THEN /\ table' = Append(r[1], new)
                       /\ collision_map' = [collision_map EXCEPT ![NameOf[p]] = Len(table')]
                  ELSE table' = r[1] /\ UNCHANGED collision_map
      BY <2>2, <2>5
    <3>2. table[Other(p)] \in Rows
      BY <1>1, <1>2, <2>5, OtherTyped
    <3>3. table[Other(p)].edition \in Nat /\ new.edition \in Nat
      BY <2>3, <3>2, DatesAreNumbers DEF Rows
    <3>4. \/ /\ r[1] = SetValid(table, Other(p), FALSE) /\ r[2]
             /\ table[Other(p)].path = new.path \/ table[Other(p)].edition < new.edition
          \/ /\ r[1] = SetValid(table, Other(p), TRUE) /\ ~r[2]
             /\ new.edition < table[Other(p)].edition
          \/ /\ r[1] = table /\ r[2]
             /\ table[Other(p)].path # new.path
             /\ new.edition = table[Other(p)].edition \/ ~Exists(table[Other(p)].path)
      BY <3>3, ResolveCases
    <3> HIDE DEF r
    <3>5. CASE ~r[2]
      BY <2>5, <3>1, <3>4, <3>5, <1>2 DEF Confirmed, p
    <3>6. CASE r[2]
      <4>1. Added(p, new, r[1])
        BY <2>1, <2>3, <2>5, <3>1, <3>4, <3>6 DEF Added, LeavesOther, RetiresOther, SamePath
      <4> QED  BY <1>2, <4>1 DEF p
    <3> QED  BY <3>5, <3>6
  <2> QED  BY <2>4, <2>5
<1> QED
  BY <1>1, <1>2, <1>3, <1>4, <1>5 DEF p

\* A visit changes the validity of the entry of its name at most, and may add
\* one entry behind the others.
LEMMA VisitedTable ==
    ASSUME DatabaseTypeOK, phase = "scan", NEW p \in Paths,
           Confirmed(p) \/ Rejected(p) \/ \E new, u : Added(p, new, u)
    PROVE  \E u, i : /\ Revalued(table, i, u) /\ (Collides(p) => i = Other(p))
                     /\ \/ table' = u /\ collision_map' = collision_map
                        \/ \E new \in Rows :
                             /\ new.path = p /\ table' = Append(u, new)
                             /\ collision_map' = [collision_map EXCEPT ![NameOf[p]] = Len(table) + 1]
<1>1. table \in Seq(Rows) /\ file \in [Paths -> Files]
  BY EntriesAreRows DEF DatabaseTypeOK
<1>2. Collides(p) => Other(p) \in DOMAIN table
  BY OtherTyped
<1>3. \A v \in BOOLEAN : Collides(p) => Revalued(table, Other(p), SetValid(table, Other(p), v))
  BY <1>1, <1>2, SetValidRevalues
<1>4. \A i : Revalued(table, i, table)
  BY <1>1, UnchangedIsRevalued
<1>5. CASE Confirmed(p)
  BY <1>3, <1>5 DEF Confirmed
<1>6. CASE Rejected(p)
  BY <1>3, <1>4, <1>6 DEF Rejected, SamePath
<1>7. CASE \E new, u : Added(p, new, u)
  <2>1. PICK new, u : Added(p, new, u)
    BY <1>7
  <2>2. new \in Rows /\ new.path = p
    BY <1>1, <2>1, NewEntry DEF Added
  <2>3. \E i : Revalued(table, i, u) /\ (Collides(p) => i = Other(p))
    BY <1>3, <1>4, <2>1 DEF Added, RetiresOther
  <2>4. u \in Seq(Rows) /\ Len(u) = Len(table) /\ table' = Append(u, new)
    BY <2>1, <2>3 DEF Revalued, Added
  <2>5. Len(table') = Len(table) + 1
    BY <2>2, <2>4, AppendProperties
  <2>6. collision_map' = [collision_map EXCEPT ![NameOf[p]] = Len(table) + 1]
    BY <2>1, <2>5 DEF Added
  <2> QED  BY <2>2, <2>3, <2>4, <2>6
<1> QED
  BY <1>5, <1>6, <1>7

-----------------------------------------------------------------------------
(* Types, and the map of the scan *)

LEMMA Typed ==
    ASSUME DatabaseTypeOK
    PROVE  /\ table \in Seq(Rows) /\ saved.rows \in Seq(Rows) /\ file \in [Paths -> Files]
           /\ collision_map \in [AllNames -> Nat] /\ FileList \in Seq(Paths) /\ pass \in Nat
BY EntriesAreRows, DirectoryFacts DEF DatabaseTypeOK

\* An entry that is added behind the others.
LEMMA Behind ==
    ASSUME NEW t \in Seq(Rows), NEW i, NEW u, Revalued(t, i, u), NEW e \in Rows
    PROVE  LET l == Len(t) + 1
               w == Append(u, e)
           IN  /\ w \in Seq(Rows) /\ DOMAIN w = 1..l /\ DOMAIN t = 1..(l - 1) /\ l \in Nat
               /\ w[l] = e
               /\ \A k \in DOMAIN t : /\ k \in DOMAIN w /\ k # l /\ k < l
                                      /\ w[k] = u[k] /\ w[k].path = t[k].path
               /\ \A k \in DOMAIN w : k = l \/ k \in DOMAIN t
<1> DEFINE w == Append(u, e)
<1>1. u \in Seq(Rows) /\ Len(u) = Len(t) /\ Len(t) \in Nat /\ DOMAIN t = 1..Len(t)
      /\ \A k \in DOMAIN t : u[k].path = t[k].path
  BY ElementsOfList DEF Revalued
<1>2. /\ w \in Seq(Rows) /\ DOMAIN w = 1..(Len(u) + 1)
      /\ \A k \in 1..Len(u) : w[k] = u[k]
      /\ w[Len(u) + 1] = e
  BY <1>1, KeptStep
<1> HIDE DEF w
<1>3. \A k \in DOMAIN t : k \in DOMAIN w /\ k # Len(t) + 1 /\ k < Len(t) + 1
                          /\ w[k] = u[k] /\ w[k].path = t[k].path
  BY <1>1, <1>2
<1>4. \A k \in DOMAIN w : k = Len(t) + 1 \/ k \in DOMAIN t
  BY <1>1, <1>2
<1>5. Len(t) + 1 - 1 = Len(t)
  BY <1>1
<1> QED
  BY <1>1, <1>2, <1>3, <1>4, <1>5 DEF w

\* After a visit the map still has the last entry of every name.
LEMMA MapAfterVisit ==
    ASSUME DatabaseTypeOK, LastOfName, Visit
    PROVE  /\ table' \in Seq(Rows) /\ collision_map' \in [AllNames -> Nat]
           /\ \A n \in AllNames : collision_map'[n] # 0 =>
                /\ collision_map'[n] \in DOMAIN table'
                /\ NameOf[table'[collision_map'[n]].path] = n
           /\ \A k \in DOMAIN table' : k <= collision_map'[NameOf[table'[k].path]]
<1>1. phase = "scan" /\ table \in Seq(Rows) /\ collision_map \in [AllNames -> Nat]
  BY Typed DEF Visit
<1>2. PICK p \in Paths : Confirmed(p) \/ Rejected(p) \/ \E new, u : Added(p, new, u)
  BY VisitCases
<1>3. PICK u, i : /\ Revalued(table, i, u) /\ (Collides(p) => i = Other(p))
                  /\ \/ table' = u /\ collision_map' = collision_map
                     \/ \E new \in Rows :
                          /\ new.path = p /\ table' = Append(u, new)
                          /\ collision_map' = [collision_map EXCEPT ![NameOf[p]] = Len(table) + 1]
  BY <1>1, <1>2, VisitedTable
<1>4. /\ \A n \in AllNames : collision_map[n] # 0 =>
           collision_map[n] \in DOMAIN table /\ NameOf[table[collision_map[n]].path] = n
      /\ \A k \in DOMAIN table : k <= collision_map[NameOf[table[k].path]]
  BY <1>1 DEF DatabaseTypeOK, LastOfName
<1>5. CASE table' = u /\ collision_map' = collision_map
  <2>1. DOMAIN u = DOMAIN table /\ u \in Seq(Rows) /\ \A k \in DOMAIN table : u[k].path = table[k].path
    BY <1>1, <1>3, NamesOfRevalued DEF Revalued
  <2> QED  BY <1>1, <1>4, <1>5, <2>1
<1>6. CASE \E new \in Rows : /\ new.path = p /\ table' = Append(u, new)
                             /\ collision_map' = [collision_map EXCEPT ![NameOf[p]] = Len(table) + 1]
  <2>1. PICK new \in Rows : /\ new.path = p /\ table' = Append(u, new)
                            /\ collision_map' = [collision_map EXCEPT ![NameOf[p]] = Len(table) + 1]
    BY <1>6
  <2> DEFINE l == Len(table) + 1
  <2>2. /\ table' \in Seq(Rows) /\ DOMAIN table' = 1..l /\ l \in Nat
        /\ table'[l] = new
        /\ \A k \in DOMAIN table : k \in DOMAIN table' /\ k # l /\ table'[k].path = table[k].path
        /\ \A k \in DOMAIN table' : k = l \/ k \in DOMAIN table
    BY <1>1, <1>3, <2>1, Behind
  <2>3. NameOf[p] \in AllNames
    BY PathsHaveNames
  <2>4. collision_map' \in [AllNames -> Nat] /\ collision_map'[NameOf[p]] = l
        /\ \A n \in AllNames : n # NameOf[p] => collision_map'[n] = collision_map[n]
    BY <1>1, <2>1, <2>2, <2>3
  <2>5. l \in DOMAIN table'
    BY <2>2
  <2>6. \A k \in DOMAIN table : NameOf[table[k].path] \in AllNames
    <3>1. \A k \in DOMAIN table : table[k] \in Rows
      BY <1>1, ElementsOfList
    <3>2. \A k \in DOMAIN table : table[k].path \in Paths
      BY <3>1 DEF Rows
    <3> QED  BY <3>2, PathsHaveNames
  <2>7. \A k \in DOMAIN table' : k <= l
    BY <2>2
  <2> HIDE DEF l
  <2>8. \A n \in AllNames : collision_map'[n] # 0 =>
             collision_map'[n] \in DOMAIN table' /\ NameOf[table'[collision_map'[n]].path] = n
    <3> SUFFICES ASSUME NEW n \in AllNames, collision_map'[n] # 0
                 PROVE  collision_map'[n] \in DOMAIN table' /\ NameOf[table'[collision_map'[n]].path] = n
      OBVIOUS
    <3>1. CASE n = NameOf[p]
      BY <2>1, <2>2, <2>4, <2>5, <3>1
    <3>2. CASE n # NameOf[p]
      <4>1. collision_map[n] \in DOMAIN table /\ NameOf[table[collision_map[n]].path] = n
        BY <1>4, <2>4, <3>2
      <4> QED  BY <2>2, <2>4, <3>2, <4>1
    <3> QED  BY <3>1, <3>2
  <2>9. \A k \in DOMAIN table' : k <= collision_map'[NameOf[table'[k].path]]
    <3> SUFFICES ASSUME NEW k \in DOMAIN table'
                 PROVE  k <= collision_map'[NameOf[table'[k].path]]
      OBVIOUS
    <3>1. CASE NameOf[table'[k].path] = NameOf[p]
      BY <2>4, <2>7, <3>1
    <3>2. CASE NameOf[table'[k].path] # NameOf[p]
      <4>1. k \in DOMAIN table
        BY <2>1, <2>2, <3>2
      <4>2. table'[k].path = table[k].path /\ NameOf[table[k].path] \in AllNames
        BY <2>2, <2>6, <4>1
      <4> QED  BY <1>4, <2>4, <3>2, <4>1, <4>2
    <3> QED  BY <3>1, <3>2
  <2> QED  BY <2>2, <2>4, <2>8, <2>9
<1> QED
  BY <1>3, <1>5, <1>6

LEMMA VisitTyped ==
    ASSUME DatabaseTypeOK, LastOfName, Visit
    PROVE  DatabaseTypeOK' /\ LastOfName'
<1>1. /\ table' \in Seq(Rows) /\ collision_map' \in [AllNames -> Nat]
      /\ \A n \in AllNames : collision_map'[n] # 0 =>
           /\ collision_map'[n] \in DOMAIN table'
           /\ NameOf[table'[collision_map'[n]].path] = n
      /\ \A k \in DOMAIN table' : k <= collision_map'[NameOf[table'[k].path]]
  BY MapAfterVisit
<1>2. FileList' \in Seq(Paths)
  <2>1. FileList \in Seq(Paths) /\ FileList # <<>> /\ FileList' = Tail(FileList)
    BY Typed DEF Visit
  <2> QED  BY <2>1, HeadTailProperties
<1>3. UNCHANGED <<phase, file, pass, saved, changed, want, hurt, bounds>>
  BY DEF Visit
<1> QED
  BY <1>1, <1>2, <1>3, EntriesAreRows DEF DatabaseTypeOK, LastOfName, bounds, run

LEMMA BeginPassTyped ==
    ASSUME DatabaseTypeOK, BeginPass
    PROVE  DatabaseTypeOK' /\ LastOfName'
<1>1. table \in Seq(Rows) /\ pass \in 0..Passes /\ Passes \in Nat
  BY Typed, DirectoryFacts DEF DatabaseTypeOK
<1>2. /\ collision_map' \in [AllNames -> Nat]
      /\ \A n \in AllNames : collision_map'[n] # 0 =>
           /\ collision_map'[n] \in DOMAIN table
           /\ NameOf[table[collision_map'[n]].path] = n
      /\ \A i \in DOMAIN table : i <= collision_map'[NameOf[table[i].path]]
  BY <1>1, MapOfTable
<1>3. /\ pass' = pass + 1 /\ pass < Passes
      /\ FileList' = Kept([p \in Paths |-> p], {p \in PassFiles(pass') : Exists(p)})
      /\ UNCHANGED <<phase, file, table, saved, changed, want, hurt, bounds>>
  BY DEF BeginPass
<1>4. FileList' \in Seq(Paths)
  BY <1>3, Listing
<1>5. pass' \in 0..Passes
  BY <1>1, <1>3
<1> QED
  BY <1>2, <1>3, <1>4, <1>5 DEF DatabaseTypeOK, LastOfName, bounds, run

-----------------------------------------------------------------------------
(* Types, without the scan *)

LEMMA ScannedNames ==
    Scanned \subseteq Paths /\ {NameOf[p] : p \in Scanned} \subseteq AllNames
BY DirectoryFacts DEF Scanned, AllNames

LEMMA NamesTyped ==
    ASSUME NEW t \in Seq(Rows)
    PROVE  Names(t) \subseteq AllNames
<1>1. \A i \in DOMAIN t : t[i] \in Rows
  BY ElementsOfList
<1>2. \A i \in DOMAIN t : t[i].path \in Paths
  BY <1>1 DEF Rows
<1> QED
  BY <1>2, PathsHaveNames DEF Names

LEMMA EndScanTyped ==
    ASSUME DatabaseTypeOK, EndScan
    PROVE  DatabaseTypeOK' /\ LastOfName'
<1>1. table' \in Seq(Rows)
  <2>1. table \in Seq(Rows) /\ table' = RemoveInvalid(table)
    BY Typed DEF EndScan
  <2> QED  BY <2>1, RemovedInvalid
<1>2. want' \subseteq AllNames
  <2>1. Names(table') \subseteq AllNames
    BY <1>1, NamesTyped
  <2> QED  BY <2>1, ScannedNames DEF EndScan
<1> QED
  BY <1>1, <1>2, EntriesAreRows DEF EndScan, DatabaseTypeOK, LastOfName, scan, bounds, run

\* What a save may leave.
LEMMA WrittenTyped ==
    ASSUME NEW t \in Seq(Rows), NEW w \in {Whole(t)} \cup Cuts(t)
    PROVE  w.rows \in Seq(Rows) /\ w.end \in {"head", "rows", "last", "whole"}
<1>1. <<>> \in Seq(Rows)
  OBVIOUS
<1>2. \/ w = [end |-> "whole", rows |-> t] \/ w = [end |-> "head", rows |-> <<>>]
      \/ w = [end |-> "rows", rows |-> <<>>] \/ w = [end |-> "last", rows |-> t]
  BY DEF Whole, Cuts
<1>3. w.rows \in {t, <<>>} /\ w.end \in {"head", "rows", "last", "whole"}
  BY <1>2
<1> QED
  BY <1>1, <1>3

LEMMA SaveTyped ==
    ASSUME DatabaseTypeOK, NEW w \in {saved, Whole(table)} \cup Cuts(table),
           phase \in {"save", "store"}, saved' = w,
           hurt' = (w # Whole(table) \/ (hurt /\ phase = "store")),
           \/ phase' \in {"up", "reload"} /\ table' = table
           \/ phase' = "stopped" /\ table' = <<>>,
           disturbed' \in 0..MaxDisturbed,
           UNCHANGED <<file, scan, changed, want, calls, run>>
    PROVE  DatabaseTypeOK' /\ LastOfName'
<1>1. table \in Seq(Rows) /\ saved.rows \in Seq(Rows) /\ <<>> \in Seq(Rows)
  BY Typed
<1>2. w.rows \in Seq(Rows) /\ w.end \in {"none", "head", "rows", "last", "whole"}
  BY <1>1, WrittenTyped DEF DatabaseTypeOK
<1>3. hurt' \in BOOLEAN
  OBVIOUS
<1>4. table' \in Seq(Rows)
  BY <1>1
<1> QED
  BY <1>2, <1>3, <1>4, EntriesAreRows DEF DatabaseTypeOK, LastOfName, scan, run

LEMMA SavesTyped ==
    ASSUME DatabaseTypeOK, Save \/ SaveFails \/ StopInSave
    PROVE  DatabaseTypeOK' /\ LastOfName'
<1>1. disturbed' \in 0..MaxDisturbed
  BY ChartDatabaseAssumption DEF Save, SaveFails, StopInSave, DatabaseTypeOK
<1>2. ASSUME NEW w \in {saved, Whole(table)} \cup Cuts(table), SaveBinary(w), phase \in {"save", "store"}
      PROVE  DatabaseTypeOK' /\ LastOfName'
  BY <1>1, <1>2, SaveTyped DEF SaveBinary
<1>3. CASE Save
  BY <1>2, <1>3 DEF Save
<1>4. CASE SaveFails
  BY <1>2, <1>4 DEF SaveFails
<1>5. CASE StopInSave
  <2>1. PICK w \in {saved, Whole(table)} \cup Cuts(table) : saved' = w
    BY <1>5 DEF StopInSave
  <2>2. hurt' = (w # Whole(table) \/ (hurt /\ phase = "store"))
    BY <1>5, <2>1 DEF StopInSave
  <2> QED  BY <1>1, <1>5, <2>1, <2>2, SaveTyped DEF StopInSave
<1> QED
  BY <1>3, <1>4, <1>5

\* The rows of a list whose last row has lost its end.
LEMMA AnyEndTyped ==
    ASSUME NEW t \in Seq(Rows), NEW u \in AnyEnd(t)
    PROVE  u \in Seq(Rows)
<1>1. PICK d \in Dates, v \in BOOLEAN, o \in BOOLEAN :
        u = [t EXCEPT ![Len(t)] =
               [path |-> t[Len(t)].path, edition |-> d, time |-> d, valid |-> v, off |-> o]]
  BY DEF AnyEnd
<1> DEFINE e == [path |-> t[Len(t)].path, edition |-> d, time |-> d, valid |-> v, off |-> o]
<1>2. Len(t) \in Nat /\ DOMAIN t = 1..Len(t) /\ \A i \in DOMAIN t : t[i] \in Rows
  BY ElementsOfList
<1>3. CASE Len(t) = 0
  <2>1. DOMAIN u = {} /\ u = t
    BY <1>1, <1>2, <1>3
  <2> QED  BY <2>1
<1>4. CASE Len(t) # 0
  <2>1. Len(t) \in DOMAIN t
    BY <1>2, <1>4
  <2>2. t[Len(t)].path \in Paths
    BY <1>2, <2>1 DEF Rows
  <2>3. e \in Rows
    BY <2>2 DEF Rows
  <2>4. u = [t EXCEPT ![Len(t)] = e]
    BY <1>1
  <2> HIDE DEF e
  <2> QED  BY <2>1, <2>3, <2>4
<1> QED
  BY <1>3, <1>4

LEMMA ReadTyped ==
    ASSUME DatabaseTypeOK, NEW q, ReadList(q)
    PROVE  table' \in Seq(Rows)
<1>1. saved.rows \in Seq(Rows) /\ <<>> \in Seq(Rows)
  BY Typed
<1> QED
  BY <1>1, AnyEndTyped DEF ReadList

LEMMA ReloadTyped ==
    ASSUME DatabaseTypeOK, Reload
    PROVE  DatabaseTypeOK' /\ LastOfName'
<1>1. phase' \in {"up", "fault"} /\ table' \in Seq(Rows)
  <2>1. <<>> \in Seq(Rows)
    OBVIOUS
  <2> QED  BY <2>1, ReadTyped DEF Reload, ReadList
<1> QED
  BY <1>1, EntriesAreRows DEF Reload, DatabaseTypeOK, LastOfName, scan, bounds, run

LEMMA StartTyped ==
    ASSUME DatabaseTypeOK, StartRebuild \/ StartLoad
    PROVE  DatabaseTypeOK' /\ LastOfName'
<1>1. Begin /\ runs' \in 0..MaxRuns /\ loaded' \in BOOLEAN
  BY ChartDatabaseAssumption DEF StartRebuild, StartLoad, Begin, DatabaseTypeOK
<1>2. CASE Create
  <2>1. /\ table' = <<>> /\ pass' = 0 /\ FileList' = <<>> /\ collision_map' = [n \in AllNames |-> 0]
        /\ changed' = FALSE /\ phase' = "scan"
    BY <1>2 DEF Create
  <2>2. collision_map' \in [AllNames -> Nat] /\ \A n \in AllNames : collision_map'[n] = 0
    BY <2>1
  <2>3. table' \in Seq(Entries(Paths)) /\ FileList' \in Seq(Paths) /\ pass' \in 0..Passes
        /\ DOMAIN table' = {}
    BY <2>1, DirectoryFacts
  <2> QED  BY <1>1, <2>1, <2>2, <2>3 DEF Begin, DatabaseTypeOK, LastOfName
<1>3. CASE ReadList("up") /\ UNCHANGED <<scan, changed>>
  <2>1. phase' \in {"up", "fault"} /\ table' \in Seq(Rows)
    BY <1>3, ReadTyped DEF ReadList
  <2> QED  BY <1>1, <1>3, <2>1, EntriesAreRows DEF Begin, DatabaseTypeOK, LastOfName, scan
<1> QED
  BY <1>2, <1>3 DEF StartRebuild, StartLoad

LEMMA StopTyped ==
    ASSUME DatabaseTypeOK, Stop
    PROVE  DatabaseTypeOK' /\ LastOfName'
<1>1. table' \in Seq(Rows) /\ phase' = "stopped"
  BY DEF Stop
<1> QED
  BY <1>1, EntriesAreRows DEF Stop, DatabaseTypeOK, LastOfName, scan, bounds, run

LEMMA FileChangesTyped ==
    ASSUME DatabaseTypeOK, LastOfName, FileChanges
    PROVE  DatabaseTypeOK' /\ LastOfName'
<1>1. file' \in [Paths -> Files]
  BY DEF FileChanges, DatabaseTypeOK
<1>2. disturbed' \in 0..MaxDisturbed
  BY ChartDatabaseAssumption DEF FileChanges, DatabaseTypeOK
<1> QED
  BY <1>1, <1>2 DEF FileChanges, DatabaseTypeOK, LastOfName, scan, run

-----------------------------------------------------------------------------
(* Types, one chart *)

LEMMA CallTyped ==
    ASSUME DatabaseTypeOK, OneChart \/ UNCHANGED <<file, scan, saved, changed, bounds>>,
           table' \in Seq(Rows), phase' \in {"up", "store"},
           want' \subseteq AllNames, UNCHANGED hurt
    PROVE  DatabaseTypeOK' /\ LastOfName'
<1>1. calls' \in 0..MaxCalls /\ disturbed' = disturbed /\ runs' = runs /\ loaded' = loaded
  BY ChartDatabaseAssumption DEF OneChart, DatabaseTypeOK, bounds, run
<1>2. UNCHANGED <<file, scan, saved, changed>>
  BY DEF OneChart
<1> QED
  BY <1>1, <1>2, EntriesAreRows DEF DatabaseTypeOK, LastOfName, scan

\* Marking an entry as disabled or enabled.
LEMMA SwitchedTyped ==
    ASSUME NEW e \in Rows, NEW o \in BOOLEAN
    PROVE  [e EXCEPT !.off = o] \in Rows /\ [e EXCEPT !.off = o].path = e.path
           /\ [e EXCEPT !.off = o].valid = e.valid
BY DEF Rows

LEMMA DisabledTable ==
    ASSUME DatabaseTypeOK, NEW p, DisableChart(p)
    PROVE  /\ table' \in Seq(Rows) /\ DOMAIN table' = DOMAIN table
           /\ \A k \in DOMAIN table : table'[k].path = table[k].path /\ table'[k].valid = table[k].valid
<1>1. PICK i \in DOMAIN table : table' = [table EXCEPT ![i].off = TRUE]
  BY DEF DisableChart
<1>2. table \in Seq(Rows) /\ table[i] \in Rows
  BY Typed, ElementsOfList
<1> DEFINE e == [table[i] EXCEPT !.off = TRUE]
<1>3. e \in Rows /\ e.path = table[i].path /\ e.valid = table[i].valid
  BY <1>2, SwitchedTyped
<1>4. table' = [table EXCEPT ![i] = e]
  BY <1>1
<1> HIDE DEF e
<1> QED
  BY <1>2, <1>3, <1>4

LEMMA EnabledTable ==
    ASSUME NEW t \in Seq(Rows)
    PROVE  /\ ReEnabled(t) \in Seq(Rows) /\ DOMAIN ReEnabled(t) = DOMAIN t
           /\ \A k \in DOMAIN t : ReEnabled(t)[k].path = t[k].path /\ ReEnabled(t)[k].valid = t[k].valid
<1> DEFINE On(k) == IF t[k].path \in PluginPaths THEN [t[k] EXCEPT !.off = FALSE] ELSE t[k]
           u == [k \in DOMAIN t |-> On(k)]
<1>1. DOMAIN t = 1..Len(t) /\ Len(t) \in Nat /\ \A k \in DOMAIN t : t[k] \in Rows
  BY ElementsOfList
<1>2. \A k \in DOMAIN t : On(k) \in Rows /\ On(k).path = t[k].path /\ On(k).valid = t[k].valid
  BY <1>1, SwitchedTyped
<1>3. ReEnabled(t) = u
  BY DEF ReEnabled
<1> HIDE DEF On
<1>4. u \in [1..Len(t) -> Rows] /\ DOMAIN u = DOMAIN t /\ \A k \in DOMAIN t : u[k] = On(k)
  BY <1>1, <1>2
<1> HIDE DEF u
<1>5. u \in Seq(Rows)
  BY <1>1, <1>4, SeqDef
<1> QED
  BY <1>2, <1>3, <1>4, <1>5

\* What is not disabled stays so, and every plugin chart is enabled.
LEMMA EnabledFlags ==
    ASSUME NEW t \in Seq(Rows), NEW k \in DOMAIN t, t[k].path \in PluginPaths \/ ~t[k].off
    PROVE  ~ReEnabled(t)[k].off
<1>1. t[k] \in Rows
  BY ElementsOfList
<1>2. ReEnabled(t)[k] = IF t[k].path \in PluginPaths THEN [t[k] EXCEPT !.off = FALSE] ELSE t[k]
  BY DEF ReEnabled
<1>3. [t[k] EXCEPT !.off = FALSE].off = FALSE
  BY <1>1 DEF Rows
<1> QED
  BY <1>2, <1>3

\* A plugin adds a chart: its entry replaces or joins the first of that name.
LEMMA AddedTable ==
    ASSUME DatabaseTypeOK, NEW p \in Paths, AddSingleChart(p), Readable(p)
    PROVE  \E w \in Seq(Rows) :
             /\ table' = RemoveInvalid(w) /\ phase' \in {"up", "store"}
             /\ phase' = "up" => Names(w) = Names(table)
             /\ (\A k \in DOMAIN table : table[k].valid) =>
                  \A n \in Names(table) \cup {NameOf[p]} :
                    \E k \in DOMAIN w : w[k].valid /\ NameOf[w[k].path] = n
<1> DEFINE same == {i \in DOMAIN table : NameOf[table[i].path] = NameOf[p]}
           i == CHOOSE k \in same : \A j \in same : k <= j
           Result(new) == IF same = {} THEN <<table, TRUE>>
                          ELSE IF table[i].path = p /\ new.time <= table[i].time
                          THEN <<SetValid(table, i, TRUE), FALSE>>
                          ELSE Resolve(table, i, new)
<1>1. PICK new \in NewEntries(p) :
        /\ table' = RemoveInvalid(IF Result(new)[2] THEN Append(Result(new)[1], new) ELSE Result(new)[1])
        /\ phase' = IF Result(new)[2] THEN "store" ELSE phase
  BY DEF AddSingleChart
<1>2. /\ table \in Seq(Rows) /\ file \in [Paths -> Files] /\ phase = "up"
      /\ Len(table) \in Nat /\ DOMAIN table = 1..Len(table) /\ \A k \in DOMAIN table : table[k] \in Rows
  BY Typed, ElementsOfList DEF AddSingleChart, OneChart
<1>3. new \in Rows /\ new.path = p /\ new.valid = TRUE
  BY <1>2, NewEntry
<1>4. same # {} => i \in same
  <2>1. same \in SUBSET Nat
    BY <1>2
  <2> HIDE DEF same
  <2> QED  BY <2>1, LeastNumber
<1>5. same # {} => i \in DOMAIN table /\ NameOf[table[i].path] = NameOf[p]
  BY <1>4
<1> HIDE DEF i
<1>6. \/ Result(new)[1] = table /\ Result(new)[2]
      \/ same # {} /\ Result(new)[1] = SetValid(table, i, FALSE) /\ Result(new)[2]
      \/ same # {} /\ Result(new)[1] = SetValid(table, i, TRUE) /\ ~Result(new)[2]
  <2>1. CASE same = {}
    BY <2>1
  <2>2. CASE same # {}
    <3>1. table[i].edition \in Nat /\ new.edition \in Nat
      BY <1>2, <1>3, <1>5, <2>2, DatesAreNumbers DEF Rows
    <3> HIDE DEF Result
    <3>2. \/ /\ Resolve(table, i, new)[1] = SetValid(table, i, FALSE) /\ Resolve(table, i, new)[2]
             /\ table[i].path = new.path \/ table[i].edition < new.edition
          \/ /\ Resolve(table, i, new)[1] = SetValid(table, i, TRUE) /\ ~Resolve(table, i, new)[2]
             /\ new.edition < table[i].edition
          \/ /\ Resolve(table, i, new)[1] = table /\ Resolve(table, i, new)[2]
             /\ table[i].path # new.path
             /\ new.edition = table[i].edition \/ ~Exists(table[i].path)
      BY <3>1, ResolveCases
    <3> USE DEF Result
    <3> HIDE DEF same
    <3> QED  BY <2>2, <3>2
  <2> QED  BY <2>1, <2>2
<1> HIDE DEF same, Result
<1>7. ASSUME NEW u, NEW j, Revalued(table, j, u), j \in DOMAIN table => NameOf[table[j].path] = NameOf[p]
      PROVE  /\ Append(u, new) \in Seq(Rows)
             /\ (\A k \in DOMAIN table : table[k].valid) =>
                  \A n \in Names(table) \cup {NameOf[p]} :
                    \E k \in DOMAIN Append(u, new) :
                      Append(u, new)[k].valid /\ NameOf[Append(u, new)[k].path] = n
  <2> DEFINE l == Len(table) + 1
             w == Append(u, new)
  <2>1. /\ w \in Seq(Rows) /\ DOMAIN w = 1..l /\ l \in Nat /\ w[l] = new
        /\ \A k \in DOMAIN table : k \in DOMAIN w /\ w[k] = u[k] /\ w[k].path = table[k].path
    BY <1>2, <1>3, <1>7, Behind
  <2>2. l \in DOMAIN w
    BY <2>1
  <2> HIDE DEF w, l
  <2>3. ASSUME \A k \in DOMAIN table : table[k].valid, NEW n \in Names(table) \cup {NameOf[p]}
        PROVE  \E k \in DOMAIN w : w[k].valid /\ NameOf[w[k].path] = n
    <3>1. CASE n = NameOf[p]
      BY <1>3, <2>1, <2>2, <3>1
    <3>2. CASE n # NameOf[p]
      <4>1. PICK k \in DOMAIN table : n = NameOf[table[k].path]
        BY <2>3, <3>2 DEF Names
      <4>2. k # j
        BY <1>7, <3>2, <4>1
      <4>3. w[k].valid = table[k].valid
        BY <1>7, <2>1, <4>2 DEF Revalued
      <4> QED  BY <2>1, <2>3, <4>1, <4>3
    <3> QED  BY <3>1, <3>2
  <2> QED  BY <2>1, <2>3 DEF w
<1>8. CASE Result(new)[1] = table /\ Result(new)[2]
  <2>1. Revalued(table, 0, table) /\ 0 \notin DOMAIN table
    BY <1>2, UnchangedIsRevalued
  <2>2. table' = RemoveInvalid(Append(table, new)) /\ phase' = "store"
    BY <1>1, <1>8
  <2> QED  BY <1>7, <2>1, <2>2
<1>9. CASE same # {} /\ Result(new)[1] = SetValid(table, i, FALSE) /\ Result(new)[2]
  <2>1. Revalued(table, i, SetValid(table, i, FALSE))
    BY <1>2, <1>5, <1>9, SetValidRevalues
  <2>2. table' = RemoveInvalid(Append(SetValid(table, i, FALSE), new)) /\ phase' = "store"
    BY <1>1, <1>9
  <2> QED  BY <1>5, <1>7, <1>9, <2>1, <2>2
<1>10. CASE same # {} /\ Result(new)[1] = SetValid(table, i, TRUE) /\ ~Result(new)[2]
  <2> DEFINE w == SetValid(table, i, TRUE)
  <2>1. Revalued(table, i, w) /\ w[i].valid = TRUE /\ i \in DOMAIN table
    BY <1>2, <1>5, <1>10, SetValidRevalues
  <2>2. table' = RemoveInvalid(w) /\ phase' = "up"
    BY <1>1, <1>2, <1>10
  <2> HIDE DEF w
  <2>3. w \in Seq(Rows) /\ DOMAIN w = DOMAIN table /\ Names(w) = Names(table)
    <3>1. DOMAIN w = DOMAIN table /\ Names(w) = Names(table)
      BY <1>2, <2>1, NamesOfRevalued
    <3> QED  BY <2>1, <3>1 DEF Revalued
  <2>4. NameOf[p] \in Names(table)
    BY <1>5, <1>10 DEF Names
  <2>5. (\A k \in DOMAIN table : table[k].valid) => \A k \in DOMAIN w : w[k].valid
    BY <2>1, <2>3 DEF Revalued
  <2>6. \A n \in Names(w) : \E k \in DOMAIN w : NameOf[w[k].path] = n
    BY DEF Names
  <2> QED  BY <2>2, <2>3, <2>4, <2>5, <2>6
<1> QED
  BY <1>6, <1>8, <1>9, <1>10

LEMMA DisableTyped ==
    ASSUME DatabaseTypeOK, NEW p, DisableChart(p)
    PROVE  DatabaseTypeOK' /\ LastOfName'
<1>1. table' \in Seq(Rows)
  BY DisabledTable
<1>2. phase' \in {"up", "store"} /\ want' \subseteq AllNames /\ UNCHANGED hurt /\ OneChart
  BY DEF DisableChart, OneChart, DatabaseTypeOK
<1> QED
  BY <1>1, <1>2, CallTyped

LEMMA StackTyped ==
    ASSUME DatabaseTypeOK, BuildChartStack
    PROVE  DatabaseTypeOK' /\ LastOfName'
<1>1. table' \in Seq(Rows)
  BY Typed, EnabledTable DEF BuildChartStack
<1>2. /\ phase' \in {"up", "store"} /\ want' \subseteq AllNames /\ UNCHANGED hurt
      /\ UNCHANGED <<file, scan, saved, changed, bounds>>
  BY DEF BuildChartStack, DatabaseTypeOK
<1> QED
  BY <1>1, <1>2, CallTyped

LEMMA AddTyped ==
    ASSUME DatabaseTypeOK, NEW p \in Paths, AddSingleChart(p)
    PROVE  DatabaseTypeOK' /\ LastOfName'
<1>1. table' \in Seq(Rows) /\ phase' \in {"up", "store"} /\ want' \subseteq AllNames
  <2>1. CASE Readable(p)
    <3>1. PICK w \in Seq(Rows) : table' = RemoveInvalid(w) /\ phase' \in {"up", "store"}
      BY <2>1, AddedTable
    <3>2. want' \subseteq AllNames
      <4>1. want' = want \cup {NameOf[p]}
        BY <2>1 DEF AddSingleChart
      <4> QED  BY <4>1, PathsHaveNames DEF DatabaseTypeOK
    <3> QED  BY <3>1, <3>2, RemovedInvalid
  <2>2. CASE ~Readable(p)
    <3>1. table' = RemoveInvalid(table) /\ phase' = "up" /\ want' = want
      BY <2>2 DEF AddSingleChart, OneChart
    <3> QED  BY <3>1, Typed, RemovedInvalid DEF DatabaseTypeOK
  <2> QED  BY <2>1, <2>2
<1>2. UNCHANGED hurt /\ OneChart
  BY DEF AddSingleChart
<1> QED
  BY <1>1, <1>2, CallTyped

\* A plugin removes the first entry of a path.
LEMMA RemovedTable ==
    ASSUME DatabaseTypeOK, NEW p, RemoveSingleChart(p)
    PROVE  /\ table' \in Seq(Rows)
           /\ \A k \in DOMAIN table' : \E i \in DOMAIN table : table'[k] = table[i]
           /\ \A i \in DOMAIN table : table[i].path # p => \E k \in DOMAIN table' : table'[k] = table[i]
<1>1. table \in Seq(Rows)
  BY Typed
<1>2. PICK S : /\ table' = Kept(table, S) /\ S \subseteq DOMAIN table
               /\ \A i \in DOMAIN table : table[i].path # p => i \in S
  <2> DEFINE of == {i \in DOMAIN table : table[i].path = p}
             S == DOMAIN table \ {i \in of : \A j \in of : i <= j}
  <2>1. table' = Kept(table, S)
    BY DEF RemoveSingleChart
  <2> QED  BY <2>1
<1>3. /\ Kept(table, S) \in Seq(Rows)
      /\ \A k \in DOMAIN Kept(table, S) : \E i \in DOMAIN table \cap S : Kept(table, S)[k] = table[i]
      /\ \A i \in DOMAIN table \cap S : \E k \in DOMAIN Kept(table, S) : Kept(table, S)[k] = table[i]
  <2>1. PICK t : t = table
    OBVIOUS
  <2>2. t \in Seq(Rows)
    BY <1>1, <2>1
  <2>3. /\ Kept(t, S) \in Seq(Rows)
        /\ \A k \in DOMAIN Kept(t, S) : \E i \in DOMAIN t \cap S : Kept(t, S)[k] = t[i]
        /\ \A i \in DOMAIN t \cap S : \E k \in DOMAIN Kept(t, S) : Kept(t, S)[k] = t[i]
    BY <2>2, KeptEntries
  <2> QED  BY <2>1, <2>3
<1> QED
  BY <1>2, <1>3

LEMMA RemoveTyped ==
    ASSUME DatabaseTypeOK, NEW p, RemoveSingleChart(p)
    PROVE  DatabaseTypeOK' /\ LastOfName'
<1>1. table' \in Seq(Rows)
  BY RemovedTable
<1>2. phase' \in {"up", "store"} /\ want' \subseteq AllNames /\ UNCHANGED hurt /\ OneChart
  BY DEF RemoveSingleChart, DatabaseTypeOK
<1> QED
  BY <1>1, <1>2, CallTyped

-----------------------------------------------------------------------------
(* The stack *)

\* The entries of the stack among the first k.
StackOfFirst(G, t, k) ==
    /\ G \subseteq 1..k
    /\ \A i \in 1..k : i \in G <=> i \in InView(t) /\ \A j \in G : j < i => ~Duplicates(t[j], t[i])

LEMMA StackExists ==
    ASSUME NEW t, NEW n \in Nat
    PROVE  \E G : StackOfFirst(G, t, n)
<1> DEFINE Bad == {k \in 0..n : ~\E G : StackOfFirst(G, t, k)}
<1>1. Bad = {}
  <2> SUFFICES ASSUME Bad # {}  PROVE FALSE
    OBVIOUS
  <2>1. Bad \in SUBSET Nat
    OBVIOUS
  <2>2. PICK k \in Bad : \A j \in Bad : k <= j
    BY <2>1, LeastNumber
  <2>3. k \in 0..n
    OBVIOUS
  <2>4. k # 0
    <3>1. StackOfFirst({}, t, 0)
      BY DEF StackOfFirst
    <3> QED  BY <3>1
  <2>5. k \in 1..n /\ k - 1 \in 0..n /\ ~(k <= k - 1)
    BY <2>3, <2>4
  <2>6. k - 1 \notin Bad
    BY <2>2, <2>5
  <2>7. PICK G : StackOfFirst(G, t, k - 1)
    BY <2>5, <2>6
  <2> DEFINE fits == k \in InView(t) /\ \A j \in G : j < k => ~Duplicates(t[j], t[k])
             H == G \cup (IF fits THEN {k} ELSE {})
  <2>8. G \subseteq 1..(k - 1) /\ \A j \in G : j \in Nat /\ j < k
    BY <2>5, <2>7 DEF StackOfFirst
  <2>9. \A j : j \in H <=> j \in G \/ (j = k /\ fits)
    OBVIOUS
  <2>10. k \notin G
    BY <2>5, <2>8
  <2> HIDE DEF H
  <2>11. ASSUME NEW i \in 1..k
         PROVE  i \in H <=> i \in InView(t) /\ \A j \in H : j < i => ~Duplicates(t[j], t[i])
    <3>1. i \in Nat /\ (i = k \/ i \in 1..(k - 1)) /\ ~(k < i)
      BY <2>5
    <3>2. \A j \in H : j < i <=> j \in G /\ j < i
      BY <2>9, <3>1
    <3>3. (\A j \in H : j < i => ~Duplicates(t[j], t[i])) <=> \A j \in G : j < i => ~Duplicates(t[j], t[i])
      BY <2>9, <3>2
    <3>4. CASE i = k
      BY <2>9, <2>10, <3>3, <3>4
    <3>5. CASE i \in 1..(k - 1)
      <4>1. i # k
        BY <2>5, <3>5
      <4>2. i \in H <=> i \in G
        BY <2>9, <4>1
      <4>3. i \in G <=> i \in InView(t) /\ \A j \in G : j < i => ~Duplicates(t[j], t[i])
        BY <2>7, <3>5 DEF StackOfFirst
      <4> QED  BY <3>3, <4>2, <4>3
    <3> QED  BY <3>1, <3>4, <3>5
  <2>12. H \subseteq 1..k
    <3>1. \A j \in 1..(k - 1) : j \in 1..k
      BY <2>5
    <3>2. k \in 1..k
      BY <2>5
    <3>3. ASSUME NEW j \in H  PROVE j \in 1..k
      <4>1. j \in G \/ j = k
        BY <2>9
      <4>2. G \subseteq 1..(k - 1)
        BY <2>8
      <4> QED  BY <3>1, <3>2, <4>1, <4>2
    <3> QED  BY <3>3
  <2>13. StackOfFirst(H, t, k)
    BY <2>11, <2>12 DEF StackOfFirst
  <2> QED  BY <2>13
<1>2. n \in 0..n
  OBVIOUS
<1> QED
  BY <1>1, <1>2

LEMMA StackDefined ==
    ASSUME NEW E, NEW t \in Seq(E)
    PROVE  StackOfFirst(Stack(t), t, Len(t))
<1> DEFINE n == Len(t)
           Filled(f) == [i \in DOMAIN t |->
                         i \in InView(t) /\ \A j \in 1..i-1 : ~(f[j] /\ Duplicates(t[j], t[i]))]
           F == CHOOSE f : f = Filled(f)
<1>1. n \in Nat /\ DOMAIN t = 1..n
  OBVIOUS
<1> HIDE DEF n
<1>2. PICK G : StackOfFirst(G, t, n)
  BY <1>1, StackExists
<1> DEFINE g == [i \in DOMAIN t |-> i \in G]
<1>3. g = Filled(g)
  <2>1. ASSUME NEW i \in DOMAIN t
        PROVE  (i \in G) <=> (i \in InView(t) /\ \A j \in 1..i-1 : ~(g[j] /\ Duplicates(t[j], t[i])))
    <3>1. i \in 1..n /\ i \in Nat /\ \A j \in 1..i-1 : j \in DOMAIN t /\ j < i
      BY <1>1
    <3>2. \A j \in 1..i-1 : g[j] <=> j \in G
      BY <3>1
    <3>3. \A j \in G : j < i => j \in 1..i-1
      BY <1>1, <1>2, <3>1 DEF StackOfFirst
    <3>4. i \in G <=> i \in InView(t) /\ \A j \in G : j < i => ~Duplicates(t[j], t[i])
      BY <1>2, <3>1 DEF StackOfFirst
    <3> HIDE DEF g
    <3> QED  BY <3>1, <3>2, <3>3, <3>4
  <2>2. \A i \in DOMAIN t :
          (i \in G) = (i \in InView(t) /\ \A j \in 1..i-1 : ~(g[j] /\ Duplicates(t[j], t[i])))
    <3> TAKE i \in DOMAIN t
    <3> DEFINE P == i \in InView(t) /\ \A j \in 1..i-1 : ~(g[j] /\ Duplicates(t[j], t[i]))
               A == i \in G
    <3>1. A <=> P
      BY <2>1
    <3>2. A \in BOOLEAN /\ P \in BOOLEAN
      OBVIOUS
    <3> HIDE DEF A, P
    <3>3. A = P
      BY <3>1, <3>2
    <3> QED  BY <3>3 DEF A, P
  <2> QED  BY <2>2
<1>4. Stack(t) = {i \in DOMAIN t : F[i]}
  BY DEF Stack
<1> HIDE DEF Filled, g
<1>5. F = Filled(F)
  BY <1>3
<1> HIDE DEF F
<1>6. \A i \in DOMAIN t :
        F[i] = (i \in InView(t) /\ \A j \in 1..i-1 : ~(F[j] /\ Duplicates(t[j], t[i])))
  BY <1>5 DEF Filled
<1>7. Stack(t) \subseteq 1..n
  BY <1>1, <1>4
<1>8. ASSUME NEW i \in 1..n
      PROVE  i \in Stack(t) <=> i \in InView(t) /\ \A j \in Stack(t) : j < i => ~Duplicates(t[j], t[i])
  <2>1. i \in Nat /\ \A j \in 1..i-1 : j \in DOMAIN t /\ j < i
    BY <1>1
  <2>2. \A j \in Stack(t) : j < i => j \in 1..i-1
    BY <1>1, <1>7, <2>1
  <2>3. \A j \in 1..i-1 : j \in Stack(t) <=> F[j]
    BY <1>4, <2>1
  <2>4. i \in Stack(t) <=> F[i]
    BY <1>1, <1>4
  <2>5. F[i] <=> (i \in InView(t) /\ \A j \in 1..i-1 : ~(F[j] /\ Duplicates(t[j], t[i])))
    BY <1>1, <1>6
  <2> QED  BY <2>1, <2>2, <2>3, <2>4, <2>5
<1> QED
  BY <1>7, <1>8 DEF StackOfFirst, n

\* Unless there are too many, every entry is in view that is available and not
\* disabled.
LEMMA AllInView ==
    ASSUME NEW t \in Seq(Rows), Len(t) <= MaxStack, NEW i \in DOMAIN t, ~t[i].off, t[i].path \in Available
    PROVE  i \in InView(t)
<1> DEFINE there == {j \in DOMAIN t : ~t[j].off /\ t[j].path \in Available}
           S == {j \in there : j <= i}
<1>1. Len(t) \in Nat /\ DOMAIN t = 1..Len(t) /\ MaxStack \in Nat
  BY ElementsOfList, ChartDatabaseAssumption
<1>2. IsFiniteSet(DOMAIN t) /\ Cardinality(DOMAIN t) = Len(t)
  <2>1. \A n \in Nat : IsFiniteSet(1..n) /\ Cardinality(1..n) = n
    BY FS_Interval
  <2> QED  BY <1>1, <2>1
<1>3. S \subseteq DOMAIN t /\ i \in there
  OBVIOUS
<1>4. InView(t) = {j \in there : Cardinality({k \in there : k <= j}) <= MaxStack}
  BY DEF InView
<1> HIDE DEF there
<1>5. i \in InView(t) <=> Cardinality(S) <= MaxStack
  BY <1>3, <1>4
<1> HIDE DEF S
<1>6. Cardinality(S) \in Nat /\ Cardinality(S) <= Len(t)
  BY <1>2, <1>3, FS_Subset, FS_CardinalityType
<1> QED
  BY <1>1, <1>5, <1>6

\* The stack has an entry with the name of every entry that is available and not
\* disabled.
LEMMA StackHasName ==
    ASSUME NEW t \in Seq(Rows), Len(t) <= MaxStack, NEW i \in DOMAIN t, ~t[i].off, t[i].path \in Available
    PROVE  \E k \in Stack(t) : k \in DOMAIN t /\ NameOf[t[k].path] = NameOf[t[i].path]
<1>1. StackOfFirst(Stack(t), t, Len(t)) /\ i \in InView(t) /\ DOMAIN t = 1..Len(t)
  BY StackDefined, AllInView, ElementsOfList
<1>2. i \in Stack(t) <=> i \in InView(t) /\ \A j \in Stack(t) : j < i => ~Duplicates(t[j], t[i])
  BY <1>1 DEF StackOfFirst
<1>3. Stack(t) \subseteq DOMAIN t
  BY <1>1 DEF StackOfFirst
<1>4. CASE i \in Stack(t)
  BY <1>4
<1>5. CASE i \notin Stack(t)
  <2>1. PICK j \in Stack(t) : Duplicates(t[j], t[i])
    BY <1>1, <1>2, <1>5
  <2> QED  BY <1>3, <2>1 DEF Duplicates
<1> QED
  BY <1>4, <1>5

-----------------------------------------------------------------------------
(* A scan that no change of a file disturbs *)

\* Lists with the same entries, but perhaps for their times.
SameList(t, u) ==
    /\ DOMAIN u = DOMAIN t
    /\ \A k \in DOMAIN t : /\ u[k].path = t[k].path /\ u[k].edition = t[k].edition
                           /\ u[k].off = t[k].off /\ u[k].valid = t[k].valid

\* What the invariant says of an entry of the table.
LEMMA EntryOfFile ==
    ASSUME DatabaseTypeOK, FreshInv, phase = "scan", ~changed, NEW k \in DOMAIN table
    PROVE  /\ table[k].path \in Scanned /\ Readable(table[k].path) /\ Exists(table[k].path)
           /\ ~table[k].off
           /\ table[k].path \in PluginPaths => table[k].edition = file[table[k].path].edition
<1>1. OfFile(table[k])
  BY DEF FreshInv, EntriesOfFiles
<1>2. table[k].path \in Scanned /\ Readable(table[k].path)
  BY <1>1 DEF OfFile, Scanned
<1>3. table[k].path \in Paths /\ file \in [Paths -> Files]
  BY <1>2, ScannedNames, Typed
<1>4. Exists(table[k].path)
  BY <1>2, <1>3, ReadableFile
<1> QED
  BY <1>1, <1>2, <1>4 DEF OfFile

LEMMA HeadIsScanned ==
    ASSUME DatabaseTypeOK, FreshInv, ~changed, Visit
    PROVE  Readable(Head(FileList)) => Head(FileList) \in Scanned
<1>1. FileList \in Seq(Paths) /\ FileList # <<>> /\ phase = "scan"
  BY Typed DEF Visit
<1>2. Head(FileList) = FileList[1] /\ 1 \in DOMAIN FileList
  BY <1>1
<1>3. FileList[1] \in Available /\ \E d \in DOMAIN Dirs : FileList[1] \in Dirs[d]
  BY <1>1, <1>2 DEF FreshInv, FilesBelow
<1> QED
  BY <1>2, <1>3 DEF Scanned

\* A visit leaves the list as it is or adds an entry.
LEMMA FreshVisitCases ==
    ASSUME DatabaseTypeOK, FreshInv, ~changed, Visit
    PROVE  \E p \in Paths :
             /\ p = Head(FileList) /\ (Readable(p) => p \in Scanned)
             /\ \/ /\ SameList(table, table') /\ collision_map' = collision_map
                   /\ Readable(p) => Met(p)
                \/ \E new, u : Added(p, new, u)
<1>1. phase = "scan" /\ table \in Seq(Rows) /\ file \in [Paths -> Files]
  BY Typed DEF Visit
<1>2. PICK p \in Paths : /\ p = Head(FileList)
                         /\ Confirmed(p) \/ Rejected(p) \/ \E new, u : Added(p, new, u)
  BY VisitCases
<1>3. Readable(p) => p \in Scanned
  BY <1>2, HeadIsScanned
<1>4. ASSUME Collides(p)
      PROVE  /\ Other(p) \in DOMAIN table /\ table[Other(p)].valid
             /\ Readable(table[Other(p)].path)
             /\ table[Other(p)].path \in PluginPaths => table[Other(p)].edition = file[table[Other(p)].path].edition
  <2>1. Other(p) \in DOMAIN table
    BY <1>1, <1>4, OtherTyped
  <2>2. table[Other(p)].valid
    BY <1>1, <1>4, PathsHaveNames DEF FreshInv, LastIsValid, Collides, Other
  <2> QED  BY <1>1, <2>1, <2>2, EntryOfFile
<1>5. CASE Confirmed(p)
  <2>1. Collides(p) /\ table' = SetValid(table, Other(p), TRUE) /\ collision_map' = collision_map
    BY <1>5 DEF Confirmed
  <2>2. /\ Revalued(table, Other(p), table') /\ table'[Other(p)].valid = TRUE
        /\ DOMAIN table' = DOMAIN table
    <3>1. Revalued(table, Other(p), table') /\ table'[Other(p)].valid = TRUE
      BY <1>1, <1>4, <2>1, SetValidRevalues
    <3> QED  BY <1>1, <3>1, NamesOfRevalued
  <2>3. table[Other(p)].valid = TRUE
    <3>1. table[Other(p)] \in Rows /\ table[Other(p)].valid
      BY <1>1, <1>4, <2>1, ElementsOfList
    <3> QED  BY <3>1 DEF Rows
  <2>4. SameList(table, table')
    BY <2>2, <2>3 DEF SameList, Revalued
  <2>5. ASSUME p \in PluginPaths, Readable(p)  PROVE file[p].edition <= table[Other(p)].edition
    <3>1. file[p].edition \in Nat /\ table[Other(p)].edition \in Nat
      <4>1. table[Other(p)] \in Rows
        BY <1>1, <1>4, <2>1, ElementsOfList
      <4>2. file[p].edition \in Dates /\ table[Other(p)].edition \in Dates
        BY <1>1, <2>5, <4>1, ReadableFile DEF Rows
      <4> QED  BY <4>2, DatesAreNumbers
    <3>2. CASE SamePath(p)
      BY <1>4, <2>1, <2>5, <3>1, <3>2 DEF SamePath
    <3>3. CASE \E new \in NewEntries(p) : new.edition < table[Other(p)].edition
      <4>1. PICK new \in NewEntries(p) : new.edition < table[Other(p)].edition
        BY <3>3
      <4>2. new.edition = file[p].edition
        BY <1>1, <2>5, <4>1, NewEntry
      <4> QED  BY <3>1, <4>1, <4>2
    <3> QED  BY <1>5, <3>2, <3>3 DEF Confirmed
  <2>6. Readable(p) => Met(p)
    BY <2>1, <2>5 DEF Met
  <2> QED  BY <1>2, <1>3, <2>1, <2>4, <2>6
<1>6. CASE Rejected(p)
  <2>1. ~SamePath(p)
    BY <1>4, <1>6 DEF SamePath, Rejected
  <2>2. SameList(table, table') /\ collision_map' = collision_map /\ ~Readable(p)
    BY <1>6, <2>1 DEF Rejected, SameList
  <2> QED  BY <1>2, <1>3, <2>2
<1>7. CASE \E new, u : Added(p, new, u)
  BY <1>2, <1>3, <1>7
<1> QED
  BY <1>2, <1>5, <1>6, <1>7

\* The entry that is added, and what it does to the last of its name.
LEMMA FreshAdded ==
    ASSUME DatabaseTypeOK, FreshInv, phase = "scan", ~changed,
           NEW p \in Paths, p \in Scanned, NEW new, NEW u, Added(p, new, u)
    PROVE  /\ new \in Rows /\ OfFile(new) /\ new.path = p /\ new.valid
           /\ Revalued(table, IF Collides(p) THEN Other(p) ELSE 0, u)
           /\ table' = Append(u, new)
           /\ collision_map' = [collision_map EXCEPT ![NameOf[p]] = Len(table) + 1]
           /\ Collides(p) /\ p \in PluginPaths => table[Other(p)].edition <= new.edition
           /\ Collides(p) /\ u[Other(p)].valid =>
                table[Other(p)].path # p /\ table[Other(p)].edition = new.edition
<1>1. table \in Seq(Rows) /\ file \in [Paths -> Files] /\ Len(table) \in Nat
  BY Typed, ElementsOfList
<1>2. Readable(p) /\ new \in NewEntries(p)
  BY DEF Added
<1>3. new \in Rows /\ new.path = p /\ new.valid = TRUE /\ new.off = FALSE
      /\ (p \in PluginPaths => new.edition = file[p].edition)
  BY <1>1, <1>2, NewEntry
<1>4. OfFile(new)
  BY <1>3 DEF OfFile
<1>5. ASSUME Collides(p)
      PROVE  /\ Other(p) \in DOMAIN table /\ table[Other(p)] \in Rows
             /\ Exists(table[Other(p)].path)
             /\ table[Other(p)].path \in PluginPaths => table[Other(p)].edition = file[table[Other(p)].path].edition
  <2>1. Other(p) \in DOMAIN table /\ table[Other(p)] \in Rows
    BY <1>5, OtherTyped
  <2> QED  BY <2>1, EntryOfFile
<1>6. Revalued(table, IF Collides(p) THEN Other(p) ELSE 0, u)
      /\ (Collides(p) /\ u[Other(p)].valid => u = table /\ LeavesOther(p, new))
  <2>1. CASE u = table /\ LeavesOther(p, new)
    BY <1>1, <2>1, UnchangedIsRevalued
  <2>2. CASE u = SetValid(table, Other(p), FALSE) /\ RetiresOther(p, new)
    <3>1. Collides(p)
      BY <2>2 DEF RetiresOther
    <3>2. Revalued(table, Other(p), u) /\ u[Other(p)].valid = FALSE
      BY <1>1, <1>5, <2>2, <3>1, SetValidRevalues
    <3> QED  BY <3>1, <3>2
  <2> QED  BY <2>1, <2>2 DEF Added
<1>7. ASSUME Collides(p)
      PROVE  table[Other(p)].edition \in Nat /\ new.edition \in Nat
  BY <1>3, <1>5, <1>7, DatesAreNumbers DEF Rows
<1>8. ASSUME Collides(p), p \in PluginPaths
      PROVE  table[Other(p)].edition <= new.edition
  <2>1. CASE LeavesOther(p, new)
    BY <1>5, <1>7, <1>8, <2>1 DEF LeavesOther
  <2>2. CASE RetiresOther(p, new)
    <3>1. CASE SamePath(p)
      BY <1>3, <1>5, <1>7, <1>8, <3>1 DEF SamePath
    <3>2. CASE table[Other(p)].edition < new.edition
      BY <1>7, <1>8, <3>2
    <3> QED  BY <2>2, <3>1, <3>2 DEF RetiresOther
  <2> QED  BY <2>1, <2>2 DEF Added
<1>9. Collides(p) /\ u[Other(p)].valid =>
        table[Other(p)].path # p /\ table[Other(p)].edition = new.edition
  BY <1>5, <1>6 DEF LeavesOther, SamePath
<1>10. table' = Append(u, new) /\ collision_map' = [collision_map EXCEPT ![NameOf[p]] = Len(table')]
  BY DEF Added
<1>11. Len(table') = Len(table) + 1
  <2>1. u \in Seq(Rows) /\ Len(u) = Len(table)
    BY <1>6 DEF Revalued
  <2> QED  BY <1>3, <1>10, <2>1, AppendProperties
<1>12. collision_map' = [collision_map EXCEPT ![NameOf[p]] = Len(table) + 1]
  BY <1>10, <1>11
<1> QED
  BY <1>3, <1>4, <1>6, <1>8, <1>9, <1>10, <1>12

\* The list of files to visit gets shorter by its head.
LEMMA ListShortens ==
    ASSUME DatabaseTypeOK, Visit
    PROVE  /\ \A i \in DOMAIN FileList' : \E j \in DOMAIN FileList : FileList'[i] = FileList[j]
           /\ \A i \in DOMAIN FileList : FileList[i] = Head(FileList) \/ \E j \in DOMAIN FileList' : FileList'[j] = FileList[i]
<1>1. FileList \in Seq(Paths) /\ FileList # <<>> /\ FileList' = Tail(FileList)
  BY Typed DEF Visit
<1>2. PICK q : q = FileList
  OBVIOUS
<1>3. \A s \in Seq(Paths) : s # <<>> =>
        /\ Len(s) \in Nat /\ DOMAIN s = 1..Len(s) /\ DOMAIN Tail(s) = 1..(Len(s) - 1)
        /\ \A i \in 1..(Len(s) - 1) : Tail(s)[i] = s[i + 1]
        /\ Head(s) = s[1]
  OBVIOUS
<1>4. /\ Len(q) \in Nat /\ DOMAIN q = 1..Len(q) /\ DOMAIN Tail(q) = 1..(Len(q) - 1)
      /\ \A i \in 1..(Len(q) - 1) : Tail(q)[i] = q[i + 1]
      /\ Head(q) = q[1]
  BY <1>1, <1>2, <1>3
<1>5. \A i \in DOMAIN Tail(q) : i + 1 \in DOMAIN q /\ Tail(q)[i] = q[i + 1]
  BY <1>4
<1>6. ASSUME NEW i \in DOMAIN q  PROVE q[i] = Head(q) \/ \E j \in DOMAIN Tail(q) : Tail(q)[j] = q[i]
  <2>1. CASE i = 1
    BY <1>4, <2>1
  <2>2. CASE i # 1
    <3> DEFINE j == i - 1
    <3>1. j \in 1..(Len(q) - 1) /\ j + 1 = i
      BY <1>4, <2>2
    <3> HIDE DEF j
    <3> QED  BY <1>4, <3>1
  <2> QED  BY <2>1, <2>2
<1> QED
  BY <1>1, <1>2, <1>5, <1>6

\* A visit that leaves the list as it is.
LEMMA FreshKept ==
    ASSUME DatabaseTypeOK, LastOfName, FreshInv, ~changed, Visit, NEW p \in Paths, p = Head(FileList),
           SameList(table, table'), collision_map' = collision_map, Readable(p) => Met(p)
    PROVE  FreshInv'
<1>1. /\ phase = "scan" /\ FilesBelow /\ EntriesOfFiles /\ LastIsValid /\ AllMet /\ CopiesAlone
      /\ UNCHANGED <<file, pass, loaded>> /\ Available' = Available
  BY DEF FreshInv, Visit, bounds, run, Available
<1>2. \A n \in AllNames : collision_map[n] # 0 => collision_map[n] \in DOMAIN table
  BY <1>1 DEF DatabaseTypeOK
<1>3. FilesBelow'
  BY <1>1, ListShortens DEF FilesBelow
<1>4. EntriesOfFiles'
  BY <1>1 DEF EntriesOfFiles, SameList, OfFile, Scanned, Readable
<1>5. LastIsValid'
  BY <1>1, <1>2 DEF LastIsValid, SameList
<1>6. AllMet'
  <2>1. ASSUME NEW q \in Paths, Met(q)  PROVE Met(q)'
    <3>1. Collides(q)' /\ NameOf[q] \in AllNames
      BY <2>1, PathsHaveNames DEF Met, Collides
    <3>2. collision_map[NameOf[q]] \in DOMAIN table
      BY <1>2, <3>1 DEF Collides
    <3>3. table'[collision_map'[NameOf[q]]].edition = table[collision_map[NameOf[q]]].edition
      BY <3>2 DEF SameList
    <3> QED  BY <1>1, <2>1, <3>1, <3>3 DEF Met, Other
  <2>2. ASSUME NEW k \in 1..pass, NEW q \in PassFiles(k), Readable(q)
        PROVE  Met(q)' \/ (k = pass /\ \E i \in DOMAIN FileList' : FileList'[i] = q)
    <3>1. q \in Paths
      <4>1. k \in 1..Passes
        BY DirectoryFacts DEF DatabaseTypeOK
      <4> QED  BY <4>1, PassFacts
    <3>2. CASE Met(q)
      BY <2>1, <3>1, <3>2
    <3>3. CASE k = pass /\ \E i \in DOMAIN FileList : FileList[i] = q
      <4>1. q = p \/ \E i \in DOMAIN FileList' : FileList'[i] = q
        BY <3>3, ListShortens
      <4> QED  BY <2>1, <2>2, <3>1, <3>3, <4>1
    <3> QED  BY <1>1, <2>2, <3>2, <3>3 DEF AllMet
  <2> QED  BY <1>1, <2>2 DEF AllMet, Readable, PassFiles
<1>7. CopiesAlone'
  <2>1. Scanned' = Scanned /\ \A q : (OldCopiesDiffer(q)' <=> OldCopiesDiffer(q)) /\ (Newest(q)' <=> Newest(q))
    BY <1>1 DEF Scanned, Readable, OldCopiesDiffer, Newest, Copies
  <2>2. ASSUME NEW q, Alone(q)  PROVE Alone(q)'
    BY <2>1, <2>2 DEF Alone, SameList
  <2> QED  BY <1>1, <2>1, <2>2 DEF CopiesAlone
<1> QED
  BY <1>3, <1>4, <1>5, <1>6, <1>7 DEF FreshInv

\* A visit that adds an entry.
LEMMA FreshGrows ==
    ASSUME DatabaseTypeOK, LastOfName, FreshInv, ~changed, Visit, NEW p \in Paths, p = Head(FileList),
           p \in Scanned, NEW new, NEW u, Added(p, new, u)
    PROVE  FreshInv'
<1>1. /\ phase = "scan" /\ FilesBelow /\ EntriesOfFiles /\ LastIsValid /\ AllMet /\ CopiesAlone
      /\ UNCHANGED <<file, pass, loaded>> /\ Available' = Available
  BY DEF FreshInv, Visit, bounds, run, Available
<1>2. table \in Seq(Rows) /\ Len(table) \in Nat /\ DOMAIN table = 1..Len(table) /\ 0 \notin DOMAIN table
  BY Typed, ElementsOfList
<1>3. /\ collision_map \in [AllNames -> Nat]
      /\ \A n \in AllNames : collision_map[n] # 0 =>
           collision_map[n] \in DOMAIN table /\ NameOf[table[collision_map[n]].path] = n
      /\ \A k \in DOMAIN table : k <= collision_map[NameOf[table[k].path]]
  BY <1>1 DEF DatabaseTypeOK, LastOfName
<1> DEFINE l == Len(table) + 1
           o == IF Collides(p) THEN Other(p) ELSE 0
<1>4. /\ new \in Rows /\ OfFile(new) /\ new.path = p /\ new.valid
      /\ Revalued(table, o, u)
      /\ table' = Append(u, new)
      /\ collision_map' = [collision_map EXCEPT ![NameOf[p]] = l]
      /\ Collides(p) /\ p \in PluginPaths => table[Other(p)].edition <= new.edition
      /\ Collides(p) /\ u[Other(p)].valid =>
           table[Other(p)].path # p /\ table[Other(p)].edition = new.edition
  BY <1>1, FreshAdded
<1>5. /\ DOMAIN table' = 1..l /\ l \in Nat /\ table'[l] = new
      /\ \A k \in DOMAIN table : k \in DOMAIN table' /\ k # l /\ table'[k] = u[k]
      /\ \A k \in DOMAIN table' : k = l \/ k \in DOMAIN table
  BY <1>2, <1>4, Behind
<1>6. \A k \in DOMAIN table : /\ table'[k].path = table[k].path /\ table'[k].edition = table[k].edition
                              /\ table'[k].off = table[k].off
                              /\ k # o => table'[k].valid = table[k].valid
  BY <1>4, <1>5 DEF Revalued
<1>7. NameOf[p] \in AllNames
  BY PathsHaveNames
<1>8. /\ collision_map'[NameOf[p]] = l
      /\ \A n \in AllNames : n # NameOf[p] => collision_map'[n] = collision_map[n]
  BY <1>3, <1>4, <1>7
<1>9. o # 0 => o = collision_map[NameOf[p]] /\ Collides(p)
  BY DEF Other
<1>10. l # 0
  BY <1>2
<1> HIDE DEF l, o
<1>11. FilesBelow'
  BY <1>1, ListShortens DEF FilesBelow
<1>12. EntriesOfFiles'
  <2>1. \A e : OfFile(e) => e.path \in Scanned' /\ ~e.off /\ (e.path \in PluginPaths => e.edition = file'[e.path].edition)
    BY <1>1 DEF OfFile, Scanned, Readable
  <2>2. \A k \in DOMAIN table : OfFile(table[k])
    BY <1>1 DEF EntriesOfFiles
  <2>3. \A k \in DOMAIN table' : /\ table'[k].path \in Scanned' /\ ~table'[k].off
                                 /\ table'[k].path \in PluginPaths => table'[k].edition = file'[table'[k].path].edition
    BY <1>4, <1>5, <1>6, <2>1, <2>2
  <2> QED  BY <2>3 DEF EntriesOfFiles, OfFile
<1>13. LastIsValid'
  <2> SUFFICES ASSUME NEW n \in AllNames, collision_map'[n] # 0
               PROVE  table'[collision_map'[n]].valid
    BY DEF LastIsValid
  <2>1. CASE n = NameOf[p]
    BY <1>4, <1>5, <1>8, <2>1
  <2>2. CASE n # NameOf[p]
    <3>1. PICK k \in DOMAIN table : k = collision_map[n] /\ NameOf[table[k].path] = n /\ table[k].valid
      BY <1>1, <1>3, <1>8, <2>2 DEF LastIsValid
    <3>2. k # o
      <4>1. k # 0
        BY <1>2
      <4> QED  BY <1>3, <1>7, <1>9, <2>2, <3>1, <4>1
    <3> QED  BY <1>6, <1>8, <2>2, <3>1, <3>2
  <2> QED  BY <2>1, <2>2
<1>14. ASSUME NEW q \in Paths, Met(q) \/ q = p  PROVE Met(q)'
  <2>1. NameOf[q] \in AllNames
    BY PathsHaveNames
  <2>2. CASE NameOf[q] # NameOf[p]
    <3>1. Met(q)
      BY <1>14, <2>2
    <3>2. PICK k \in DOMAIN table : k = collision_map[NameOf[q]] /\ k # 0
      BY <1>3, <2>1, <3>1 DEF Met, Collides
    <3>3. q \in PluginPaths => file[q].edition <= table[k].edition
      BY <3>1, <3>2 DEF Met, Other
    <3>4. collision_map'[NameOf[q]] = k /\ table'[k].edition = table[k].edition
      BY <1>6, <1>8, <2>1, <2>2, <3>2
    <3> QED  BY <1>1, <3>2, <3>3, <3>4 DEF Met, Collides, Other
  <2>3. CASE NameOf[q] = NameOf[p]
    <3>1. q \in PluginPaths => file[q].edition <= new.edition
      <4> SUFFICES ASSUME q \in PluginPaths  PROVE file[q].edition <= new.edition
        OBVIOUS
      <4>1. p \in PluginPaths
        BY <2>3, PathsHaveNames
      <4>2. new.edition \in Nat /\ new.edition = file[p].edition
        BY <1>4, <4>1, DatesAreNumbers DEF Rows, OfFile
      <4>3. CASE q = p
        BY <4>2, <4>3
      <4>4. CASE Met(q)
        <5>1. Collides(p) /\ file[q].edition <= table[Other(p)].edition
          BY <2>3, <4>4 DEF Met, Collides, Other
        <5>2. file[q].edition \in Nat
          BY Typed, EditionIsNumber
        <5>3. table[Other(p)].edition \in Nat
          <6>1. table[Other(p)] \in Rows
            BY <1>1, <5>1, OtherTyped
          <6> QED  BY <6>1, DatesAreNumbers DEF Rows
        <5>4. table[Other(p)].edition <= new.edition
          BY <1>4, <4>1, <5>1
        <5> QED  BY <4>2, <5>1, <5>2, <5>3, <5>4
      <4> QED  BY <1>14, <4>3, <4>4
    <3>2. collision_map'[NameOf[q]] = l /\ table'[l].edition = new.edition
      BY <1>5, <1>8, <2>3
    <3> QED  BY <1>1, <1>10, <3>1, <3>2 DEF Met, Collides, Other
  <2> QED  BY <2>2, <2>3
<1>15. AllMet'
  <2>1. ASSUME NEW k \in 1..pass, NEW q \in PassFiles(k), Readable(q)
        PROVE  Met(q)' \/ (k = pass /\ \E i \in DOMAIN FileList' : FileList'[i] = q)
    <3>1. q \in Paths
      <4>1. k \in 1..Passes
        BY DirectoryFacts DEF DatabaseTypeOK
      <4> QED  BY <4>1, PassFacts
    <3>2. CASE Met(q)
      BY <1>14, <3>1, <3>2
    <3>3. CASE k = pass /\ \E i \in DOMAIN FileList : FileList[i] = q
      <4>1. q = p \/ \E i \in DOMAIN FileList' : FileList'[i] = q
        BY <3>3, ListShortens
      <4> QED  BY <1>14, <3>1, <3>3, <4>1
    <3> QED  BY <1>1, <2>1, <3>2, <3>3 DEF AllMet
  <2> QED  BY <1>1, <2>1 DEF AllMet, Readable, PassFiles
<1>16. CopiesAlone'
  <2>1. Scanned' = Scanned /\ \A q : (OldCopiesDiffer(q)' <=> OldCopiesDiffer(q)) /\ (Newest(q)' <=> Newest(q))
    BY <1>1 DEF Scanned, Readable, OldCopiesDiffer, Newest, Copies
  <2>2. ASSUME NEW q \in PluginPaths \cap Scanned, OldCopiesDiffer(q),
               NEW k \in DOMAIN table, NameOf[table[k].path] = NameOf[q], table'[k].valid
        PROVE  table[k].valid
    <3>1. CASE k # o
      BY <1>6, <2>2, <3>1
    <3>2. CASE k = o
      BY <1>1, <1>2, <1>3, <1>7, <1>9, <3>2 DEF LastIsValid
    <3> QED  BY <3>1, <3>2
  <2>3. ASSUME NEW q \in PluginPaths \cap Scanned, OldCopiesDiffer(q),
               NEW k \in DOMAIN table, NameOf[table[k].path] = NameOf[q], table'[k].valid,
               NameOf[p] = NameOf[q]
        PROVE  Newest(p) /\ Newest(table[k].path)
    <3> DEFINE c == Other(p)
    <3>1. q \in Paths /\ p \in PluginPaths
      BY <2>3, ScannedNames, PathsHaveNames
    <3>2. Collides(p)
      <4>1. k <= collision_map[NameOf[p]] /\ k # 0 /\ k \in Nat
        BY <1>2, <1>3, <2>3
      <4>2. collision_map[NameOf[p]] \in Nat
        BY <1>3, <1>7
      <4> QED  BY <4>1, <4>2 DEF Collides
    <3>3. c \in DOMAIN table /\ NameOf[table[c].path] = NameOf[p] /\ table[c].valid
      BY <1>1, <1>3, <1>7, <3>2 DEF Collides, Other, LastIsValid
    <3>4. ASSUME NEW m \in DOMAIN table, NameOf[table[m].path] = NameOf[p]
          PROVE  table[m].path \in Copies(q) /\ table[m].edition = file[table[m].path].edition
      <4>1. table[m].path \in Scanned /\ (table[m].path \in PluginPaths => table[m].edition = file[table[m].path].edition)
        BY <1>1, EntryOfFile
      <4>2. table[m].path \in Paths
        BY <4>1, ScannedNames
      <4>3. table[m].path \in PluginPaths
        BY <3>1, <3>4, <4>2, PathsHaveNames
      <4> QED  BY <2>3, <3>4, <4>1, <4>3 DEF Copies
    <3>5. p \in Copies(q) /\ new.edition = file[p].edition
      BY <1>4, <2>3, <3>1 DEF Copies, OfFile
    <3>6. table[c].edition <= new.edition
      BY <1>4, <3>1, <3>2
    <3>7. \A m \in Copies(q) : Copies(m) = Copies(q)
      BY DEF Copies
    <3>8. \A m \in Paths : file[m].edition \in Nat
      BY Typed, EditionIsNumber
    <3>9. Copies(q) \subseteq Paths
      BY ScannedNames DEF Copies
    <3>10. CASE k # c
      <4>1. table[k].valid
        BY <2>2, <2>3
      <4>2. Alone(q)
        BY <1>1, <2>3 DEF CopiesAlone
      <4>3. Newest(table[k].path) /\ Newest(table[c].path)
        BY <2>3, <3>3, <3>10, <4>1, <4>2 DEF Alone
      <4>4. Newest(p)
        <5>1. \A m \in Copies(q) : file[m].edition <= file[table[c].path].edition
          BY <3>3, <3>4, <3>7, <4>3 DEF Newest
        <5>2. file[table[c].path].edition <= file[p].edition /\ table[c].path \in Paths
          BY <3>3, <3>4, <3>5, <3>6, <3>9
        <5>3. \A m \in Copies(q) : file[m].edition <= file[p].edition
          BY <3>5, <3>8, <3>9, <5>1, <5>2
        <5> QED  BY <3>5, <3>7, <5>3 DEF Newest
      <4> QED  BY <4>3, <4>4
    <3>11. CASE k = c
      <4>1. u[c].valid
        BY <1>5, <2>3, <3>11
      <4>2. table[c].path # p /\ table[c].edition = new.edition
        BY <1>4, <3>2, <4>1
      <4>3. file[table[c].path].edition = file[p].edition /\ table[c].path \in Copies(q)
        BY <3>3, <3>4, <3>5, <4>2
      <4> QED  BY <2>3, <3>5, <3>11, <4>2, <4>3 DEF OldCopiesDiffer
    <3> QED  BY <3>10, <3>11
  <2>4. ASSUME NEW q \in PluginPaths \cap Scanned, OldCopiesDiffer(q),
               NEW i \in DOMAIN table', NEW j \in DOMAIN table', i # j,
               table'[i].valid, table'[j].valid,
               NameOf[table'[i].path] = NameOf[q], NameOf[table'[j].path] = NameOf[q]
        PROVE  Newest(table'[i].path)
    <3>1. CASE i \in DOMAIN table /\ j \in DOMAIN table
      <4>1. table[i].valid /\ table[j].valid /\ table'[i].path = table[i].path
            /\ NameOf[table[i].path] = NameOf[q] /\ NameOf[table[j].path] = NameOf[q]
        BY <1>6, <2>2, <2>4, <3>1
      <4>2. Alone(q)
        BY <1>1, <2>4 DEF CopiesAlone
      <4> QED  BY <2>4, <3>1, <4>1, <4>2 DEF Alone
    <3>2. CASE i = l
      <4>1. j \in DOMAIN table /\ NameOf[p] = NameOf[q] /\ table'[i].path = p
        BY <1>4, <1>5, <2>4, <3>2
      <4>2. NameOf[table[j].path] = NameOf[q]
        BY <1>6, <2>4, <4>1
      <4> QED  BY <2>3, <2>4, <4>1, <4>2
    <3>3. CASE j = l
      <4>1. i \in DOMAIN table /\ NameOf[p] = NameOf[q]
        BY <1>4, <1>5, <2>4, <3>3
      <4>2. NameOf[table[i].path] = NameOf[q] /\ table'[i].path = table[i].path
        BY <1>6, <2>4, <4>1
      <4> QED  BY <2>3, <2>4, <4>1, <4>2
    <3> QED  BY <1>5, <3>1, <3>2, <3>3
  <2> QED  BY <2>1, <2>4 DEF CopiesAlone, Alone
<1> QED
  BY <1>11, <1>12, <1>13, <1>15, <1>16 DEF FreshInv

LEMMA FreshVisit ==
    ASSUME DatabaseTypeOK, LastOfName, FreshInv, Visit
    PROVE  FreshInv'
<1>1. CASE changed
  BY <1>1 DEF Visit, FreshInv
<1>2. CASE ~changed
  <2>1. PICK p \in Paths :
             /\ p = Head(FileList) /\ (Readable(p) => p \in Scanned)
             /\ \/ /\ SameList(table, table') /\ collision_map' = collision_map
                   /\ Readable(p) => Met(p)
                \/ \E new, u : Added(p, new, u)
    BY <1>2, FreshVisitCases
  <2>2. CASE SameList(table, table') /\ collision_map' = collision_map /\ (Readable(p) => Met(p))
    BY <1>2, <2>1, <2>2, FreshKept
  <2>3. CASE \E new, u : Added(p, new, u)
    <3>1. PICK new, u : Added(p, new, u)
      BY <2>3
    <3>2. p \in Scanned
      BY <2>1, <3>1 DEF Added
    <3> QED  BY <1>2, <2>1, <3>1, <3>2, FreshGrows
  <2> QED  BY <2>1, <2>2, <2>3
<1> QED
  BY <1>1, <1>2

LEMMA FreshBegin ==
    ASSUME DatabaseTypeOK, LastOfName, FreshInv, BeginPass
    PROVE  FreshInv'
<1> SUFFICES ASSUME ~changed  PROVE FreshInv'
  BY DEF BeginPass, FreshInv
<1>1. /\ phase = "scan" /\ EntriesOfFiles /\ LastIsValid /\ AllMet /\ CopiesAlone
      /\ pass' = pass + 1 /\ pass < Passes /\ FileList = <<>>
      /\ FileList' = Kept([p \in Paths |-> p], {p \in PassFiles(pass') : Exists(p)})
      /\ UNCHANGED <<file, table>> /\ Available' = Available
  BY DEF BeginPass, FreshInv, bounds, run, Available
<1>2. collision_map' = collision_map
  BY Typed, MapIsKept
<1>3. pass \in Nat /\ pass' \in 1..Passes
  BY <1>1, DirectoryFacts DEF DatabaseTypeOK
<1> DEFINE S == {p \in PassFiles(pass') : Exists(p)}
<1>4. /\ \A i \in DOMAIN FileList' : FileList'[i] \in S
      /\ \A p \in Paths \cap S : \E i \in DOMAIN FileList' : FileList'[i] = p
  <2> HIDE DEF S
  <2>1. FileList' = Kept([p \in Paths |-> p], S)
    BY <1>1 DEF S
  <2> QED  BY <2>1, Listing
<1>5. PICK d \in DOMAIN Dirs : PassFiles(pass') \subseteq Dirs[d] /\ PassFiles(pass') \subseteq Paths
                          /\ PassFiles(pass') \subseteq Available
  BY <1>3, PassFacts
<1>6. FilesBelow'
  BY <1>1, <1>4, <1>5 DEF FilesBelow
<1>7. EntriesOfFiles' /\ LastIsValid'
  BY <1>1, <1>2 DEF EntriesOfFiles, OfFile, Scanned, Readable, LastIsValid
<1>8. CopiesAlone'
  BY <1>1 DEF CopiesAlone, Scanned, Readable, OldCopiesDiffer, Newest, Copies, Alone
<1>9. AllMet'
  <2>1. ASSUME NEW k \in 1..pass', NEW q \in PassFiles(k), Readable(q)
        PROVE  Met(q)' \/ (k = pass' /\ \E i \in DOMAIN FileList' : FileList'[i] = q)
    <3>1. CASE k = pass'
      <4>1. q \in Paths /\ Exists(q)
        BY <1>5, <2>1, <3>1, Typed, ReadableFile
      <4>2. q \in S
        BY <2>1, <3>1, <4>1
      <4> QED  BY <1>4, <3>1, <4>1, <4>2
    <3>2. CASE k # pass'
      <4>1. k \in 1..pass /\ DOMAIN FileList = {}
        BY <1>1, <1>3, <2>1, <3>2
      <4>2. Met(q)
        BY <1>1, <2>1, <4>1 DEF AllMet
      <4> QED  BY <1>1, <1>2, <4>2 DEF Met, Collides, Other
    <3> QED  BY <3>1, <3>2
  <2> QED  BY <1>1, <2>1 DEF AllMet, Readable, PassFiles
<1> QED
  BY <1>6, <1>7, <1>8, <1>9 DEF FreshInv

LEMMA FreshCreated ==
    ASSUME Create
    PROVE  FreshInv'
<1>1. /\ table' = <<>> /\ pass' = 0 /\ FileList' = <<>> /\ collision_map' = [n \in AllNames |-> 0]
  BY DEF Create
<1>2. DOMAIN table' = {} /\ DOMAIN FileList' = {} /\ 1..pass' = {} /\ \A n \in AllNames : collision_map'[n] = 0
  BY <1>1
<1> QED
  BY <1>2 DEF FreshInv, FilesBelow, EntriesOfFiles, LastIsValid, AllMet, CopiesAlone, Alone

\* At the end of the scan every chart has been met.
LEMMA AllAreMet ==
    ASSUME DatabaseTypeOK, FreshInv, EndScan, ~changed, NEW p \in Scanned
    PROVE  Met(p)
<1>1. phase = "scan" /\ pass = Passes /\ FileList = <<>> /\ AllMet
  BY DEF EndScan, FreshInv
<1>2. PICK d \in DOMAIN Dirs : p \in Available \cap Dirs[d] /\ Readable(p)
  BY DEF Scanned
<1>3. PICK k \in 1..Passes : p \in PassFiles(k)
  BY <1>2, EveryFileHasAPass
<1>4. DOMAIN FileList = {}
  BY <1>1
<1> QED
  BY <1>1, <1>2, <1>3, <1>4 DEF AllMet

\* The last entry with the name of a chart survives the scan.
LEMMA LastSurvives ==
    ASSUME DatabaseTypeOK, FreshInv, EndScan, ~changed, NEW p \in Scanned
    PROVE  /\ Other(p) \in DOMAIN table /\ table[Other(p)].valid
           /\ NameOf[table[Other(p)].path] = NameOf[p]
           /\ p \in PluginPaths => file[p].edition <= table[Other(p)].edition
           /\ \E k \in DOMAIN table' : table'[k] = table[Other(p)]
<1>1. phase = "scan" /\ LastIsValid /\ table \in Seq(Rows) /\ table' = RemoveInvalid(table)
  BY Typed DEF EndScan, FreshInv
<1>2. Met(p) /\ p \in Paths
  BY AllAreMet, ScannedNames
<1>3. Other(p) \in DOMAIN table /\ NameOf[table[Other(p)].path] = NameOf[p] /\ table[Other(p)].valid
  BY <1>1, <1>2, OtherTyped, PathsHaveNames DEF Met, LastIsValid, Collides, Other
<1>4. PICK t, i : t = table /\ i = Other(p)
  OBVIOUS
<1>5. \E k \in DOMAIN RemoveInvalid(t) : RemoveInvalid(t)[k] = t[i]
  BY <1>1, <1>3, <1>4, RemovedInvalid
<1> QED
  BY <1>1, <1>2, <1>3, <1>4, <1>5 DEF Met

LEMMA ScanFindsNames ==
    ASSUME DatabaseTypeOK, FreshInv, EndScan
    PROVE  Lists(table)'
<1>1. table \in Seq(Rows) /\ table' = RemoveInvalid(table)
  BY Typed DEF EndScan
<1>2. \A k \in DOMAIN table' : table'[k].valid
  BY <1>1, RemovedInvalid
<1>3. CASE changed
  BY <1>2, <1>3 DEF EndScan, Lists
<1>4. CASE ~changed
  <2>1. want' = {NameOf[p] : p \in Scanned}
    BY <1>4 DEF EndScan
  <2>2. ASSUME NEW p \in Scanned  PROVE NameOf[p] \in Names(table')
    <3>1. PICK k \in DOMAIN table' : NameOf[table'[k].path] = NameOf[p]
      BY <1>4, LastSurvives
    <3> QED  BY <3>1 DEF Names
  <2> QED  BY <1>2, <2>1, <2>2 DEF Lists
<1> QED
  BY <1>3, <1>4

\* The newest copy of a plugin chart is found, in the list and in the stack.
LEMMA ScanFindsNewest ==
    ASSUME DatabaseTypeOK, FreshInv, EndScan
    PROVE  NewestPluginFound'
<1> SUFFICES ASSUME ~changed, NEW p \in PluginPaths \cap Scanned
             PROVE  /\ \E i \in DOMAIN table' : table'[i].path \in Copies(p) /\ Newest(table'[i].path)
                    /\ OldCopiesDiffer(p) /\ Len(table') <= MaxStack =>
                         \E i \in Stack(table') : table'[i].path \in Copies(p) /\ Newest(table'[i].path)
  <2>1. file' = file /\ changed' = changed /\ Available' = Available
    BY DEF EndScan, bounds, run, Available
  <2>2. Stack(table)' = Stack(table')
    BY <2>1 DEF Stack, InView
  <2> QED  BY <2>1, <2>2 DEF NewestPluginFound, Copies, Newest, OldCopiesDiffer, Scanned, Readable
<1>1. /\ phase = "scan" /\ CopiesAlone /\ table \in Seq(Rows) /\ file \in [Paths -> Files]
      /\ table' = RemoveInvalid(table)
  BY Typed DEF EndScan, FreshInv
<1>2. p \in Paths
  BY ScannedNames
<1>3. ASSUME NEW k \in DOMAIN table, NameOf[table[k].path] = NameOf[p]
      PROVE  table[k].path \in Copies(p) /\ table[k].edition = file[table[k].path].edition /\ ~table[k].off
  <2>1. /\ table[k].path \in Scanned /\ ~table[k].off
        /\ table[k].path \in PluginPaths => table[k].edition = file[table[k].path].edition
    BY <1>1, EntryOfFile
  <2>2. table[k].path \in PluginPaths
    BY <1>2, <1>3, <2>1, ScannedNames, PathsHaveNames
  <2> QED  BY <1>3, <2>1, <2>2 DEF Copies
<1>4. PICK c \in DOMAIN table : c = Other(p) /\ table[c].valid /\ NameOf[table[c].path] = NameOf[p]
                                /\ \E k \in DOMAIN table' : table'[k] = table[c]
  BY LastSurvives
<1>5. Newest(table[c].path)
  <2>1. ASSUME NEW r \in Copies(table[c].path)  PROVE file[r].edition <= file[table[c].path].edition
    <3>1. r \in PluginPaths \cap Scanned /\ NameOf[r] = NameOf[p]
      BY <1>4, <2>1 DEF Copies
    <3>2. file[r].edition <= table[Other(r)].edition /\ Other(r) = c
      BY <1>4, <3>1, LastSurvives DEF Other
    <3> QED  BY <1>3, <1>4, <3>2
  <2> QED  BY <2>1 DEF Newest
<1>6. PICK m \in DOMAIN table' : table'[m] = table[c]
  BY <1>4
<1>7. table'[m].path \in Copies(p) /\ Newest(table'[m].path) /\ ~table'[m].off
      /\ NameOf[table'[m].path] = NameOf[p]
  BY <1>3, <1>4, <1>5, <1>6
<1>8. ASSUME OldCopiesDiffer(p), NEW k \in DOMAIN table', NameOf[table'[k].path] = NameOf[p]
      PROVE  table'[k].path \in Copies(p) /\ Newest(table'[k].path)
  <2>1. table'[k].valid /\ \E i \in DOMAIN table : table'[k] = table[i]
    BY <1>1, RemovedInvalid
  <2>2. PICK i \in DOMAIN table : table'[k] = table[i]
    BY <2>1
  <2>3. table[i].valid /\ NameOf[table[i].path] = NameOf[p]
    BY <1>8, <2>1, <2>2
  <2>4. Newest(table[i].path)
    <3>1. CASE i = c
      BY <1>5, <3>1
    <3>2. CASE i # c
      <4>1. Alone(p)
        BY <1>1, <1>8 DEF CopiesAlone
      <4> QED  BY <1>4, <2>3, <3>2, <4>1 DEF Alone
    <3> QED  BY <3>1, <3>2
  <2> QED  BY <1>3, <2>2, <2>3, <2>4
<1>9. ASSUME OldCopiesDiffer(p), Len(table') <= MaxStack
      PROVE  \E i \in Stack(table') : table'[i].path \in Copies(p) /\ Newest(table'[i].path)
  <2>1. table' \in Seq(Rows)
    BY <1>1, RemovedInvalid
  <2>2. PICK t : t = table'
    OBVIOUS
  <2>3. t \in Seq(Rows) /\ Len(t) <= MaxStack /\ m \in DOMAIN t /\ ~t[m].off
        /\ t[m].path \in Available
    BY <1>6, <1>7, <1>9, <2>1, <2>2 DEF Copies, Scanned
  <2>4. PICK k \in Stack(t) : k \in DOMAIN t /\ NameOf[t[k].path] = NameOf[t[m].path]
    BY <2>3, StackHasName
  <2>5. table'[k].path \in Copies(p) /\ Newest(table'[k].path)
    BY <1>7, <1>8, <1>9, <2>2, <2>4
  <2> QED  BY <2>2, <2>4, <2>5
<1> QED
  BY <1>7, <1>9

-----------------------------------------------------------------------------
(* The list and its file *)

LEMMA ScanLists ==
    ASSUME DatabaseTypeOK, FreshInv, ListInv, BeginPass \/ Visit \/ EndScan
    PROVE  ListInv'
<1>1. CASE BeginPass \/ Visit
  BY <1>1 DEF BeginPass, Visit, ListInv, Lists
<1>2. CASE EndScan
  <2>1. Lists(table)' /\ phase' = "save"
    BY <1>2, ScanFindsNames DEF EndScan
  <2> QED  BY <2>1 DEF ListInv
<1> QED
  BY <1>1, <1>2

\* A save that leaves the whole list leaves all its names.
LEMMA WrittenLists ==
    ASSUME ListInv, NEW w, phase \in {"save", "store"}, saved' = w,
           hurt' = (w # Whole(table) \/ (hurt /\ phase = "store")),
           \/ phase' \in {"up", "reload"} /\ table' = table
           \/ phase' = "stopped",
           UNCHANGED want
    PROVE  ListInv'
<1>1. CASE hurt'
  BY <1>1 DEF ListInv
<1>2. CASE ~hurt'
  <2>1. saved'.end = "whole" /\ saved'.rows = table
    <3>1. saved' = Whole(table)
      BY <1>2
    <3> QED  BY <3>1 DEF Whole
  <2>2. Lists(table)
    BY <1>2 DEF ListInv
  <2>3. want' \subseteq Names(table) /\ \A i \in DOMAIN table : table[i].valid
    BY <2>2 DEF Lists
  <2>4. Lists(saved.rows)'
    BY <2>1, <2>3 DEF Lists
  <2>5. table' = table => Lists(table)' /\ Names(table') \subseteq Names(saved'.rows)
    BY <2>1, <2>3 DEF Lists
  <2> QED  BY <2>1, <2>4, <2>5 DEF ListInv
<1> QED
  BY <1>1, <1>2

LEMMA SaveLists ==
    ASSUME ListInv, Save \/ SaveFails \/ StopInSave
    PROVE  ListInv'
<1>1. ASSUME NEW w, SaveBinary(w), phase \in {"save", "store"}
      PROVE  ListInv'
  <2>1. /\ saved' = w /\ hurt' = (w # Whole(table) \/ (hurt /\ phase = "store"))
        /\ phase' \in {"up", "reload"} /\ table' = table /\ UNCHANGED want
    BY <1>1 DEF SaveBinary
  <2> QED  BY <1>1, <2>1, WrittenLists
<1>2. CASE Save
  BY <1>1, <1>2 DEF Save
<1>3. CASE SaveFails
  BY <1>1, <1>3 DEF SaveFails
<1>4. CASE StopInSave
  <2>1. PICK w : saved' = w
    OBVIOUS
  <2>2. /\ phase \in {"save", "store"} /\ phase' = "stopped" /\ UNCHANGED want
        /\ hurt' = (w # Whole(table) \/ (hurt /\ phase = "store"))
    BY <1>4, <2>1 DEF StopInSave
  <2> QED  BY <2>1, <2>2, WrittenLists
<1> QED
  BY <1>2, <1>3, <1>4

LEMMA ReadLists ==
    ASSUME ListInv, phase \in {"stopped", "reload"},
           \/ ReadList("up")
           \/ phase = "reload" /\ CannotRead /\ phase' = "up",
           UNCHANGED <<saved, want, hurt>>
    PROVE  ListInv'
<1>1. CASE hurt
  <2>1. phase' \in {"up", "fault"}
    BY DEF ReadList
  <2> QED  BY <1>1, <2>1 DEF ListInv
<1>2. CASE ~hurt
  <2>1. saved.end = "none" \/ (saved.end = "whole" /\ Lists(saved.rows))
    BY <1>2 DEF ListInv
  <2>2. phase = "reload" => saved.end = "whole"
    BY <1>2 DEF ListInv
  <2>3. ReadList("up")
    BY <2>2 DEF CannotRead
  <2>4. saved.end = "whole" /\ Lists(saved.rows) /\ table' = saved.rows /\ phase' = "up"
    BY <2>1, <2>3 DEF ReadList
  <2> QED  BY <1>2, <2>4 DEF ListInv, Lists
<1> QED
  BY <1>1, <1>2

LEMMA RunLists ==
    ASSUME ListInv, Reload \/ StartRebuild \/ StartLoad \/ Stop \/ FileChanges
    PROVE  ListInv'
<1>1. CASE Reload
  <2>1. phase = "reload" /\ UNCHANGED <<saved, want, hurt>>
        /\ (ReadList("up") \/ (CannotRead /\ phase' = "up"))
    BY <1>1 DEF Reload
  <2> QED  BY <2>1, ReadLists
<1>2. CASE StartRebuild \/ (StartLoad /\ Create)
  BY <1>2 DEF StartRebuild, StartLoad, Begin, Create, ListInv, Lists
<1>3. CASE StartLoad /\ ReadList("up")
  <2>1. phase = "stopped" /\ UNCHANGED <<saved, want, hurt>>
    BY <1>3 DEF StartLoad, Begin
  <2> QED  BY <1>3, <2>1, ReadLists
<1>4. CASE Stop
  BY <1>4 DEF Stop, ListInv, Lists
<1>5. CASE FileChanges
  BY <1>5 DEF FileChanges, ListInv, Lists
<1> QED
  BY <1>1, <1>2, <1>3, <1>4, <1>5 DEF StartLoad

\* A list with the same names in it.
LEMMA SwitchLists ==
    ASSUME ListInv, phase = "up", DOMAIN table' = DOMAIN table,
           \A k \in DOMAIN table : table'[k].path = table[k].path /\ table'[k].valid = table[k].valid,
           UNCHANGED <<phase, saved, want, hurt>>
    PROVE  ListInv'
<1>1. Names(table') = Names(table)
  BY DEF Names
<1>2. Lists(table) => Lists(table)'
  BY <1>1 DEF Lists
<1>3. Lists(saved.rows) => Lists(saved.rows)'
  BY DEF Lists
<1> QED
  BY <1>1, <1>2, <1>3 DEF ListInv

LEMMA AddLists ==
    ASSUME DatabaseTypeOK, ListInv, NEW p \in Paths, AddSingleChart(p)
    PROVE  ListInv'
<1>1. phase = "up" /\ saved' = saved /\ hurt' = hurt /\ table \in Seq(Rows)
  BY Typed DEF AddSingleChart, OneChart
<1> SUFFICES ASSUME ~hurt  PROVE ListInv'
  <2>1. ASSUME hurt  PROVE ListInv'
    <3>1. phase' \in {"up", "store"} /\ hurt'
      BY <1>1, <2>1 DEF AddSingleChart
    <3> QED  BY <3>1 DEF ListInv
  <2> QED  BY <2>1
<1>2. /\ want \subseteq Names(table) /\ \A k \in DOMAIN table : table[k].valid
      /\ saved.end = "whole" /\ Names(table) \subseteq Names(saved.rows)
      /\ want \subseteq Names(saved.rows) /\ \A k \in DOMAIN saved.rows : saved.rows[k].valid
  BY <1>1 DEF ListInv, Lists
<1>3. CASE ~Readable(p)
  <2>1. table' = RemoveInvalid(table) /\ phase' = "up" /\ want' = want
    BY <1>1, <1>3 DEF AddSingleChart
  <2>2. /\ \A k \in DOMAIN table' : table'[k].valid /\ \E i \in DOMAIN table : table'[k] = table[i]
        /\ \A i \in DOMAIN table : table[i].valid => \E k \in DOMAIN table' : table'[k] = table[i]
    BY <1>1, <2>1, RemovedInvalid
  <2>3. Names(table') = Names(table)
    <3>1. \A k \in DOMAIN table' : \E i \in DOMAIN table : NameOf[table'[k].path] = NameOf[table[i].path]
      BY <2>2
    <3>2. \A i \in DOMAIN table : \E k \in DOMAIN table' : NameOf[table'[k].path] = NameOf[table[i].path]
      BY <1>2, <2>2
    <3> QED  BY <3>1, <3>2 DEF Names
  <2> QED  BY <1>1, <1>2, <2>1, <2>2, <2>3 DEF ListInv, Lists
<1>4. CASE Readable(p)
  <2>1. PICK w \in Seq(Rows) :
          /\ table' = RemoveInvalid(w) /\ phase' \in {"up", "store"}
          /\ phase' = "up" => Names(w) = Names(table)
          /\ (\A k \in DOMAIN table : table[k].valid) =>
               \A n \in Names(table) \cup {NameOf[p]} :
                 \E k \in DOMAIN w : w[k].valid /\ NameOf[w[k].path] = n
    BY <1>4, AddedTable
  <2>2. want' = want \cup {NameOf[p]}
    BY <1>4 DEF AddSingleChart
  <2>3. /\ \A k \in DOMAIN table' : table'[k].valid /\ \E i \in DOMAIN w : table'[k] = w[i]
        /\ \A i \in DOMAIN w : w[i].valid => \E k \in DOMAIN table' : table'[k] = w[i]
    BY <2>1, RemovedInvalid
  <2>4. ASSUME NEW n \in Names(table) \cup {NameOf[p]}  PROVE n \in Names(table') /\ n \in Names(w)
    <3>1. PICK k \in DOMAIN w : w[k].valid /\ NameOf[w[k].path] = n
      BY <1>2, <2>1
    <3>2. PICK j \in DOMAIN table' : table'[j] = w[k]
      BY <2>3, <3>1
    <3> QED  BY <3>1, <3>2 DEF Names
  <2>5. want' \subseteq Names(table')
    BY <1>2, <2>2, <2>4
  <2>6. Lists(table)'
    BY <2>3, <2>5 DEF Lists
  <2>7. ASSUME phase' = "up"
        PROVE  Names(table') \subseteq Names(saved.rows) /\ want' \subseteq Names(saved.rows)
    <3>1. Names(table') \subseteq Names(w)
      BY <2>3 DEF Names
    <3>2. NameOf[p] \in Names(saved.rows)
      BY <1>2, <2>1, <2>4, <2>7
    <3> QED  BY <1>2, <2>1, <2>2, <2>7, <3>1, <3>2
  <2> QED  BY <1>1, <1>2, <2>1, <2>6, <2>7 DEF ListInv, Lists
<1> QED
  BY <1>3, <1>4

LEMMA RemoveLists ==
    ASSUME DatabaseTypeOK, ListInv, NEW p, RemoveSingleChart(p)
    PROVE  ListInv'
<1>1. phase = "up" /\ phase' = "store" /\ hurt' = hurt
  BY DEF RemoveSingleChart, OneChart
<1>2. ASSUME ~hurt  PROVE Lists(table)'
  <2>1. want \subseteq Names(table) /\ \A k \in DOMAIN table : table[k].valid
    BY <1>1, <1>2 DEF ListInv, Lists
  <2>2. /\ \A k \in DOMAIN table' : \E i \in DOMAIN table : table'[k] = table[i]
        /\ \A i \in DOMAIN table : table[i].path # p => \E k \in DOMAIN table' : table'[k] = table[i]
    BY RemovedTable
  <2>3. \A k \in DOMAIN table' : table'[k].valid
    BY <2>1, <2>2
  <2>4. ASSUME NEW i \in DOMAIN table, table[i].path # p
        PROVE  NameOf[table[i].path] \in Names(table')
    BY <2>2, <2>4 DEF Names
  <2>5. want' = IF \E i \in DOMAIN table : table[i].path # p /\ NameOf[table[i].path] = NameOf[p]
                THEN want ELSE want \ {NameOf[p]}
    BY DEF RemoveSingleChart
  <2>6. ASSUME NEW n \in want'  PROVE n \in Names(table')
    <3>1. PICK i \in DOMAIN table : NameOf[table[i].path] = n
      BY <2>1, <2>5, <2>6 DEF Names
    <3>2. CASE table[i].path # p
      BY <2>4, <3>1, <3>2
    <3>3. CASE table[i].path = p
      <4>1. PICK j \in DOMAIN table : table[j].path # p /\ NameOf[table[j].path] = NameOf[p]
        BY <2>5, <2>6, <3>1, <3>3
      <4> QED  BY <2>4, <3>1, <3>3, <4>1
    <3> QED  BY <3>2, <3>3
  <2> QED  BY <2>3, <2>6 DEF Lists
<1> QED
  BY <1>1, <1>2 DEF ListInv

-----------------------------------------------------------------------------
(* The theorems about ChartDatabase *)

LEMMA DatabaseStarts == DatabaseInit => DatabaseInv
<1> SUFFICES ASSUME DatabaseInit  PROVE DatabaseInv
  OBVIOUS
<1>1. /\ phase = "stopped" /\ table = <<>> /\ FileList = <<>> /\ pass = 0
      /\ saved = [end |-> "none", rows |-> <<>>] /\ want = {} /\ hurt = FALSE /\ changed = FALSE
      /\ disturbed = 0 /\ calls = 0 /\ runs = 0 /\ loaded = FALSE
      /\ file \in [Paths -> Files] /\ collision_map = [n \in AllNames |-> 0]
  BY DEF DatabaseInit
<1>2. /\ 0 \in 0..MaxDisturbed /\ 0 \in 0..MaxCalls /\ 0 \in 0..MaxRuns /\ 0 \in 0..Passes
  BY ChartDatabaseAssumption, DirectoryFacts
<1>3. collision_map \in [AllNames -> Nat]
  BY <1>1
<1>4. /\ table \in Seq(Entries(Paths)) /\ FileList \in Seq(Paths)
      /\ saved.rows \in Seq(Entries(Paths)) /\ saved.end = "none"
  BY <1>1
<1>5. DatabaseTypeOK
  BY <1>1, <1>2, <1>3, <1>4 DEF DatabaseTypeOK
<1> QED
  BY <1>1, <1>4, <1>5 DEF DatabaseInv, LastOfName, FreshInv, ListInv, NewestPluginFound

LEMMA DatabaseTypesKept ==
    ASSUME DatabaseTypeOK, LastOfName, DatabaseNext
    PROVE  DatabaseTypeOK' /\ LastOfName'
<1>1. ASSUME NEW p \in PluginPaths, AddSingleChart(p) \/ RemoveSingleChart(p)
      PROVE  DatabaseTypeOK' /\ LastOfName'
  <2>1. p \in Paths
    BY ChartDatabaseAssumption
  <2> QED  BY <1>1, <2>1, AddTyped, RemoveTyped
<1>2. CASE BeginPass
  BY <1>2, BeginPassTyped
<1>3. CASE Visit
  BY <1>3, VisitTyped
<1>4. CASE EndScan
  BY <1>4, EndScanTyped
<1>5. CASE Save \/ SaveFails \/ StopInSave
  BY <1>5, SavesTyped
<1>6. CASE Reload
  BY <1>6, ReloadTyped
<1>7. CASE StartRebuild \/ StartLoad
  BY <1>7, StartTyped
<1>8. CASE Stop
  BY <1>8, StopTyped
<1>9. CASE FileChanges
  BY <1>9, FileChangesTyped
<1>10. CASE BuildChartStack
  BY <1>10, StackTyped
<1>11. CASE \E p \in Paths : DisableChart(p)
  BY <1>11, DisableTyped
<1> QED
  BY <1>1, <1>2, <1>3, <1>4, <1>5, <1>6, <1>7, <1>8, <1>9, <1>10, <1>11 DEF DatabaseNext, PluginCall

\* Only the directory scan, begun or going on, ends in the phase of a scan.
LEMMA FreshIsKept ==
    ASSUME DatabaseTypeOK, LastOfName, FreshInv, DatabaseNext
    PROVE  FreshInv'
<1>1. CASE BeginPass
  BY <1>1, FreshBegin
<1>2. CASE Visit
  BY <1>2, FreshVisit
<1>3. CASE Create
  BY <1>3, FreshCreated
<1>4. CASE FileChanges
  BY <1>4 DEF FileChanges, FreshInv
<1>5. CASE phase' # "scan"
  BY <1>5 DEF FreshInv
<1>6. Create \/ phase' # "scan" \/ BeginPass \/ Visit \/ FileChanges
  <2>1. EndScan \/ Save \/ SaveFails \/ StopInSave \/ Reload \/ Stop => phase' # "scan"
    BY DEF EndScan, Save, SaveFails, SaveBinary, StopInSave, Reload, ReadList, Stop
  <2>2. StartRebuild \/ StartLoad => Create \/ phase' # "scan"
    BY DEF StartRebuild, StartLoad, ReadList
  <2>3. BuildChartStack \/ (\E p \in Paths : DisableChart(p)) => phase' # "scan"
    BY DEF BuildChartStack, DisableChart, OneChart
  <2>4. PluginCall => phase' # "scan"
    BY DEF PluginCall, AddSingleChart, RemoveSingleChart, OneChart
  <2> QED  BY <2>1, <2>2, <2>3, <2>4 DEF DatabaseNext
<1> QED
  BY <1>1, <1>2, <1>3, <1>4, <1>5, <1>6

LEMMA NewestIsKept ==
    ASSUME DatabaseTypeOK, FreshInv, DatabaseNext
    PROVE  NewestPluginFound'
<1>1. CASE EndScan
  BY <1>1, ScanFindsNewest
<1>2. CASE FileChanges
  BY <1>2 DEF FileChanges, NewestPluginFound
<1>3. CASE phase' # "save"
  BY <1>3 DEF NewestPluginFound
<1>4. EndScan \/ FileChanges \/ phase' # "save"
  <2>1. BeginPass \/ Visit \/ Save \/ SaveFails \/ StopInSave \/ Reload \/ Stop => phase' # "save"
    BY DEF BeginPass, Visit, Save, SaveFails, SaveBinary, StopInSave, Reload, ReadList, Stop
  <2>2. StartRebuild \/ StartLoad => phase' # "save"
    BY DEF StartRebuild, StartLoad, ReadList, Create
  <2>3. BuildChartStack \/ (\E p \in Paths : DisableChart(p)) => phase' # "save"
    BY DEF BuildChartStack, DisableChart, OneChart
  <2>4. PluginCall => phase' # "save"
    BY DEF PluginCall, AddSingleChart, RemoveSingleChart, OneChart
  <2> QED  BY <2>1, <2>2, <2>3, <2>4 DEF DatabaseNext
<1> QED
  BY <1>1, <1>2, <1>3, <1>4

LEMMA ListIsKeptByAll ==
    ASSUME DatabaseTypeOK, FreshInv, ListInv, DatabaseNext
    PROVE  ListInv'
<1>1. CASE BeginPass \/ Visit \/ EndScan
  BY <1>1, ScanLists
<1>2. CASE Save \/ SaveFails \/ StopInSave
  BY <1>2, SaveLists
<1>3. CASE Reload \/ StartRebuild \/ StartLoad \/ Stop \/ FileChanges
  BY <1>3, RunLists
<1>4. CASE BuildChartStack
  <2>1. PICK t : t = table
    OBVIOUS
  <2>2. t \in Seq(Rows) /\ table' = ReEnabled(t)
    BY <1>4, <2>1, Typed DEF BuildChartStack
  <2>3. DOMAIN table' = DOMAIN t
        /\ \A k \in DOMAIN t : table'[k].path = t[k].path /\ table'[k].valid = t[k].valid
    BY <2>2, EnabledTable
  <2>4. phase = "up" /\ UNCHANGED <<phase, saved, want, hurt>>
    BY <1>4 DEF BuildChartStack
  <2> QED  BY <2>1, <2>3, <2>4, SwitchLists
<1>5. ASSUME NEW p \in Paths, DisableChart(p)
      PROVE  ListInv'
  <2>1. phase = "up" /\ UNCHANGED <<phase, saved, want, hurt>>
    BY <1>5 DEF DisableChart, OneChart
  <2> QED  BY <1>5, <2>1, DisabledTable, SwitchLists
<1>6. ASSUME NEW p \in PluginPaths, AddSingleChart(p) \/ RemoveSingleChart(p)
      PROVE  ListInv'
  <2>1. p \in Paths
    BY ChartDatabaseAssumption
  <2> QED  BY <1>6, <2>1, AddLists, RemoveLists
<1> QED
  BY <1>1, <1>2, <1>3, <1>4, <1>5, <1>6 DEF DatabaseNext, PluginCall

LEMMA DatabaseStutters ==
    ASSUME DatabaseInv, UNCHANGED databaseVars
    PROVE  DatabaseInv'
<1>1. UNCHANGED <<phase, file, pass, FileList, collision_map, table, saved, changed, want, hurt,
                  disturbed, calls, runs, loaded>> /\ Available' = Available
  BY DEF databaseVars, scan, bounds, run, Available
<1>2. DatabaseTypeOK' /\ LastOfName' /\ ListInv'
  BY <1>1 DEF DatabaseInv, DatabaseTypeOK, LastOfName, ListInv, Lists
<1>3. NewestPluginFound'
  <2>1. Stack(table)' = Stack(table)
    BY <1>1 DEF Stack, InView
  <2>2. NewestPluginFound
    BY DEF DatabaseInv
  <2>3. Scanned' = Scanned /\ \A q : Copies(q)' = Copies(q)
    BY <1>1 DEF Scanned, Readable, Copies
  <2>4. \A q : (Newest(q)' <=> Newest(q)) /\ (OldCopiesDiffer(q)' <=> OldCopiesDiffer(q))
    BY <1>1, <2>3 DEF Newest, OldCopiesDiffer
  <2> QED
    BY <1>1, <2>1, <2>2, <2>3, <2>4 DEF NewestPluginFound
<1>4. FreshInv'
  BY <1>1 DEF DatabaseInv, FreshInv, FilesBelow, EntriesOfFiles, OfFile, LastIsValid, AllMet, Met, Collides,
              Other, CopiesAlone, Alone, Copies, Newest, OldCopiesDiffer, Scanned, Readable, PassFiles
<1> QED
  BY <1>2, <1>3, <1>4 DEF DatabaseInv

\* The invariant is inductive: every step of the scan, of a save or load, of a
\* call of the plugin and of a disturbance keeps what the table and the
\* collision map hold of the files met (src/chartdbs.cpp,
\* SearchDirAndAddCharts), and the names the list must have.
THEOREM DatabaseInvariant == DatabaseSpec => []DatabaseInv
<1>1. ASSUME DatabaseInv, DatabaseNext  PROVE DatabaseInv'
  BY <1>1, DatabaseTypesKept, FreshIsKept, NewestIsKept, ListIsKeptByAll DEF DatabaseInv
<1>2. DatabaseInv /\ [DatabaseNext]_databaseVars => DatabaseInv'
  BY <1>1, DatabaseStutters
<1> QED
  BY <1>2, DatabaseStarts, PTL DEF DatabaseSpec

\* Type correctness: the list, the saved list and the map of the scan are well
\* formed, whatever is left of a save that fails and whatever is read from it.
THEOREM DatabaseTypes == DatabaseSpec => []DatabaseTypeOK
<1>1. DatabaseInv => DatabaseTypeOK
  BY DEF DatabaseInv
<1> QED
  BY <1>1, DatabaseInvariant, PTL

\* A scan finds the newest edition of every plugin chart, in whatever order
\* its copies are met (SearchDirAndAddCharts), and the stack shows it.
THEOREM NewestIsFound == DatabaseSpec => []NewestPluginFound
<1>1. DatabaseInv => NewestPluginFound
  BY DEF DatabaseInv
<1> QED
  BY <1>1, DatabaseInvariant, PTL

\* The names found or added stay in the list, over saving, loading and
\* restarts, as long as every save is whole.
THEOREM NamesStay == DatabaseSpec => []ListIsKept
<1>1. DatabaseInv => ListIsKept
  BY DEF DatabaseInv, ListInv, Lists, ListIsKept
<1> QED
  BY <1>1, DatabaseInvariant, PTL

\* While no save has failed and no more than MaxStack entries are listed, the
\* stack (BuildChartStack, src/chartdb.cpp) shows every chart found or added: a
\* plugin chart whenever its plugin is loaded, whatever was disabled and however
\* many runs had to do without the plugin, an ENC unless all its entries are
\* disabled.
THEOREM StackIsComplete == DatabaseSpec => []NoChartHidden
<1>1. DatabaseInv => NoChartHidden
  <2> SUFFICES ASSUME DatabaseInv, phase = "up", ~hurt, Len(table) <= MaxStack,
                      NEW p \in Available, NameOf[p] \in want, p \in PluginPaths \/ ~Disabled(p)
               PROVE  \E k \in Stack(ReEnabled(table)) : NameOf[table[k].path] = NameOf[p]
    BY DEF NoChartHidden
  <2>1. PICK t : t = table
    OBVIOUS
  <2>2. t \in Seq(Rows)
    BY <2>1, Typed DEF DatabaseInv
  <2>3. p \in Paths
    BY DEF Available
  <2>4. NameOf[p] \in Names(t)
    BY <2>1 DEF DatabaseInv, ListInv, Lists
  <2>5. PICK i \in DOMAIN t : NameOf[t[i].path] = NameOf[p] /\ (p \in PluginPaths \/ ~t[i].off)
    BY <2>1, <2>4 DEF Names, Disabled
  <2>6. t[i].path \in Paths
    <3>1. t[i] \in Rows
      BY <2>2, <2>5, ElementsOfList
    <3> QED  BY <3>1 DEF Rows
  <2>7. t[i].path \in PluginPaths <=> p \in PluginPaths
    BY <2>3, <2>5, <2>6, PathsHaveNames
  <2>8. t[i].path \in Available
    BY <2>6, <2>7 DEF Available
  <2>9. PICK u : u = ReEnabled(t)
    OBVIOUS
  <2>10. /\ u \in Seq(Rows) /\ DOMAIN u = DOMAIN t
         /\ \A k \in DOMAIN t : u[k].path = t[k].path
    BY <2>2, <2>9, EnabledTable
  <2>11. ~u[i].off
    BY <2>2, <2>5, <2>7, <2>9, EnabledFlags
  <2>12. Len(u) <= MaxStack
    <3>1. DOMAIN u = 1..Len(u) /\ DOMAIN t = 1..Len(t) /\ Len(u) \in Nat /\ Len(t) \in Nat
      BY <2>2, <2>10, ElementsOfList
    <3>2. \A a, b \in Nat : 1..a = 1..b => a = b
      <4> SUFFICES ASSUME NEW a \in Nat, NEW b \in Nat, 1..a = 1..b  PROVE a = b
        OBVIOUS
      <4>1. (a # 0 => a \in 1..a /\ a \in 1..b) /\ (b # 0 => b \in 1..b /\ b \in 1..a)
        OBVIOUS
      <4> QED  BY <4>1
    <3>3. Len(u) = Len(t)
      BY <2>10, <3>1, <3>2
    <3> QED  BY <2>1, <3>3
  <2>13. PICK k \in Stack(u) : k \in DOMAIN u /\ NameOf[u[k].path] = NameOf[u[i].path]
    BY <2>8, <2>10, <2>11, <2>12, StackHasName
  <2> QED  BY <2>1, <2>5, <2>9, <2>10, <2>13
<1> QED
  BY <1>1, DatabaseInvariant, PTL
=============================================================================
