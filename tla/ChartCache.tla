----------------------------- MODULE ChartCache -----------------------------
(***************************************************************************)
(* The cache of opened charts (chartdb.cpp, class ChartDB) under the quilt *)
(* that one canvas composes from it (Quilt.cpp): opening with eviction of  *)
(* the least recently used chart, the lock counts by which a quilt pins    *)
(* its charts, the lock of the whole cache, and the purge after a Compose. *)
(* One thread runs all of it; what varies is the sequence of calls, what   *)
(* the view needs, and how each chart loads.  The policy is the one of the *)
(* build: a limit on the number of charts (g_memCacheLimit is 0).  The     *)
(* walks over a quilt's charts go by scale, here they go in any order; the *)
(* order of the array of entries is left out, so entry 0 may be any entry. *)
(***************************************************************************)
EXTENDS Naturals, Sequences, FiniteSets

CONSTANTS Charts,        \* the charts of the database
          NoChart,
          g_nCacheLimit, \* charts the cache should hold
          MaxQuilt,      \* bound: candidates of a quilt
          MaxBad,        \* bound: charts disabled or unready at a time
          MaxDropped,    \* bound: charts that a Rebuild drops with their lock
          Outcomes       \* how Init of a chart may end, see Load

ASSUME CacheAssumption ==
    /\ NoChart \notin Charts
    /\ g_nCacheLimit \in Nat \ {0}
    /\ {MaxQuilt, MaxBad, MaxDropped} \subseteq Nat
    /\ Outcomes \subseteq {"ready", "unready", "retry", "remove"}

VARIABLES
    pChartCache, \* the charts of the entries by RecentTime, oldest first
    used,        \* the charts whose RecentTime is m_ticks: one or none
    n_lock,      \* chart -> n_lock of its entry, 0 without one
    unready,     \* cached charts that are not IsReadyToRender()
    m_b_locked,  \* the cache is locked: opening evicts nothing
    disabled,    \* charts whose LatMax was set beyond 90
    candidates,  \* m_pcandidate_array of the quilt
    b_locked,    \* the candidates with b_locked set, while Compose runs
    patches,     \* the valid patches of the quilt
    stage,       \* what Compose does, see Stages
    todo,        \* the charts this stage has still to look at
    refchart,    \* m_refchart_dbIndex, while Compose runs
    pc,          \* where OpenChartUsingCache or the purge is
    chart,       \* the chart it opens
    old_lock,    \* old_lock of OpenChartUsingCache
    pinned,      \* history: the patches Compose was to preload, without those
                 \* that failed to load since
    dropped      \* history: locked charts that left the array of candidates
                 \* without UnlockQuilt, and have not been in it since

cacheVars == <<pChartCache, used, n_lock, unready>>
quiltVars == <<candidates, b_locked, patches>>
callVars  == <<stage, todo, refchart, pc, chart, old_lock>>
history   == <<pinned, dropped>>
vars == <<cacheVars, m_b_locked, disabled, quiltVars, callVars, history>>

\* Compose locks and opens what it preloads, opens the reference chart and
\* the patches (for their depth units), looks whether each patch is there,
\* then the reference chart, and opens the patches once more (for their error
\* factor).  In stage "other" a single chart is opened by another caller.
Stages == {"none", "other", "lock", "reference", "units", "verify", "ensure", "error"}

Elements(s) == {s[i] : i \in DOMAIN s}
Without(s, c) ==
    IF c \in Elements(s)
      THEN LET i == CHOOSE k \in DOMAIN s : s[k] = c
           IN  SubSeq(s, 1, i - 1) \o SubSeq(s, i + 1, Len(s))
      ELSE s

Cached == Elements(pChartCache)
IsChartInCache(c) == c \in Cached \ unready

Init ==
    /\ pChartCache = <<>> /\ used = {}
    /\ n_lock = [c \in Charts |-> 0]
    /\ unready = {} /\ disabled = {}
    /\ m_b_locked = FALSE
    /\ candidates = {} /\ b_locked = {} /\ patches = {}
    /\ stage = "none" /\ todo = {} /\ refchart = NoChart
    /\ pc = "idle" /\ chart = NoChart /\ old_lock = 0
    /\ pinned = {} /\ dropped = {}

-----------------------------------------------------------------------------
(* The entries *)

\* Delete the entry of c.
Drop(c) ==
    /\ pChartCache' = Without(pChartCache, c)
    /\ used' = used \ {c}
    /\ n_lock' = [n_lock EXCEPT ![c] = 0]
    /\ unready' = unready \ {c}

Evictable == {c \in Cached \ used : n_lock[c] = 0}

\* Mutant: only the oldest chart is looked at.
OldestOnly(c) == Len(pChartCache) > 1 /\ c = Head(pChartCache) /\ n_lock[c] = 0

\* The oldest unlocked chart not used at this tick.  Without one the search
\* is left at entry 0, which is good enough if it is not locked.
FindOldestDeleteCandidate(c) ==
    /\ Len(pChartCache) > 1
    /\ IF Evictable # {}
         THEN \E i \in DOMAIN pChartCache :
                /\ pChartCache[i] = c /\ c \in Evictable
                /\ \A j \in 1..(i - 1) : pChartCache[j] \notin Evictable
         ELSE c \in Cached /\ n_lock[c] = 0

\* The search may find nothing, entry 0 being a locked chart or the only one.
NoCandidate == \A c \in Cached : FindOldestDeleteCandidate(c) => c \in used

-----------------------------------------------------------------------------
(* OpenChartUsingCache *)

\* A chart that was disabled is not even looked for.
OpenDisabled ==
    /\ pc = "open" /\ chart \in disabled
    /\ pc' = "opened"
    /\ UNCHANGED <<cacheVars, m_b_locked, disabled, quiltVars, stage, todo, refchart, chart,
                   old_lock, history>>

\* A hit becomes the most recently used chart.
OpenHit ==
    /\ pc = "open" /\ chart \notin disabled
    /\ IsChartInCache(chart)
    /\ pChartCache' = Append(Without(pChartCache, chart), chart)
    /\ used' = {chart}
    /\ pc' = "opened"
    /\ UNCHANGED <<n_lock, unready, m_b_locked, disabled, quiltVars, stage, todo,
                   refchart, chart, old_lock, history>>

\* Mutant: the entry of an unusable chart is left in the cache.
MissKeepsEntry ==
    /\ pc = "open" /\ chart \notin disabled
    /\ ~IsChartInCache(chart)
    /\ used' = {}
    /\ old_lock' = n_lock[chart]
    /\ pc' = IF ~m_b_locked /\ Len(pChartCache) > g_nCacheLimit /\ Len(pChartCache) > 2
               THEN "evict" ELSE "load"
    /\ UNCHANGED <<pChartCache, n_lock, unready, m_b_locked, disabled, quiltVars, stage, todo,
                   refchart, chart, history>>

\* An unusable chart is thrown out, its lock kept for the new entry; then, or
\* when the chart was not there, room is made.
OpenMiss ==
    /\ pc = "open" /\ chart \notin disabled
    /\ ~IsChartInCache(chart)
    /\ pChartCache' = Without(pChartCache, chart)
    /\ used' = {}
    /\ n_lock' = [n_lock EXCEPT ![chart] = 0]
    /\ unready' = unready \ {chart}
    /\ old_lock' = n_lock[chart]
    /\ pc' = IF ~m_b_locked /\ Len(pChartCache') > g_nCacheLimit /\ Len(pChartCache') > 2
               THEN "evict" ELSE "load"
    /\ UNCHANGED <<m_b_locked, disabled, quiltVars, stage, todo, refchart, chart, history>>

\* Throw out the oldest chart until the limit is met or none may go.
Evict ==
    /\ pc = "evict"
    /\ \/ /\ Len(pChartCache) > g_nCacheLimit
          /\ \E c \in Cached : FindOldestDeleteCandidate(c) /\ Drop(c)
          /\ UNCHANGED pc
       \/ /\ Len(pChartCache) <= g_nCacheLimit \/ NoCandidate
          /\ pc' = "load"
          /\ UNCHANGED cacheVars
    /\ UNCHANGED <<m_b_locked, disabled, quiltVars, stage, todo, refchart, chart, old_lock, history>>

\* Init of the chart: it may be usable, be there and not be usable (a plugin
\* chart), fail for now, or fail for good and be disabled.
Load ==
    /\ pc = "load"
    /\ \E o \in Outcomes :
         LET ok == o \in {"ready", "unready"} IN
         /\ o \in {"unready", "remove"} => Cardinality(disabled \cup unready) < MaxBad
         /\ pChartCache' = IF ok THEN Append(pChartCache, chart) ELSE pChartCache
         /\ used' = IF ok THEN {chart} ELSE {}
         /\ n_lock' = [n_lock EXCEPT ![chart] = IF ok THEN old_lock ELSE 0]
         /\ unready' = IF o = "unready" THEN unready \cup {chart} ELSE unready
         /\ disabled' = IF o = "remove" THEN disabled \cup {chart} ELSE disabled
         /\ pinned' = IF ok THEN pinned ELSE pinned \ {chart}
    /\ old_lock' = 0
    /\ pc' = "opened"
    /\ UNCHANGED <<m_b_locked, quiltVars, stage, todo, refchart, chart, dropped>>

OpenStep == OpenDisabled \/ OpenHit \/ OpenMiss \/ Evict \/ Load

-----------------------------------------------------------------------------
(* The quilt *)

\* OpenChartFromDBAndLock, asked to lock what is not locked yet.
LockOpened ==
    /\ stage = "lock"
    /\ IF chart \in Cached \ b_locked
         THEN /\ n_lock' = [n_lock EXCEPT ![chart] = @ + 1]
              /\ b_locked' = b_locked \cup {chart}
         ELSE UNCHANGED <<n_lock, b_locked>>
    /\ UNCHANGED patches

\* The chart of a patch that is still missing leaves a hole in the quilt.
VerifyOpened ==
    /\ stage = "verify"
    /\ patches' = IF IsChartInCache(chart) THEN patches ELSE patches \ {chart}
    /\ UNCHANGED <<n_lock, b_locked>>

\* The chart was only looked at.
JustOpened == stage \notin {"lock", "verify"} /\ UNCHANGED <<n_lock, b_locked, patches>>

\* OpenChartUsingCache returns.  The walk over the depth units may stop here.
Opened ==
    /\ pc = "opened"
    /\ LockOpened \/ VerifyOpened \/ JustOpened
    /\ todo' \in {todo \ {chart}, IF stage = "units" THEN {} ELSE todo \ {chart}}
    /\ chart' = NoChart
    /\ IF stage = "other" THEN pc' = "idle" /\ stage' = "none"
                          ELSE pc' = "compose" /\ UNCHANGED stage
    /\ UNCHANGED <<pChartCache, used, unready, m_b_locked, disabled, candidates, refchart,
                   old_lock, history>>

\* UnLockCacheChart of every candidate, the ones the quilt did not lock too.
UnlockQuilt == [c \in Charts |-> IF c \in candidates /\ n_lock[c] > 0 THEN n_lock[c] - 1 ELSE n_lock[c]]

\* Mutants: locks are kept over the next Compose; what is cached is locked
\* only as it is opened, one chart after the other.
KeepLocks(keep) == n_lock' = [c \in Charts |-> IF c \in keep \cap Cached THEN 1 ELSE n_lock[c]]
LockLater(keep) == n_lock' = UnlockQuilt

\* Release the last quilt; lock what is cached, and not locked, of the next.
Relock(keep) ==
    n_lock' = [c \in Charts |-> IF c \in keep \cap Cached /\ UnlockQuilt[c] = 0
                                  THEN 1 ELSE UnlockQuilt[c]]

\* Compose, up to the first chart it opens: new are the candidates, keep the
\* ones to preload and show the patches.  Not all that is preloaded is shown
\* (hidden charts are not), and not all that is shown is preloaded (a chart
\* taken for want of others may have been marked eclipsed before).  The
\* reference chart is a candidate if there is one.
Compose(new, keep, show, ref) ==
    /\ pc = "idle"
    /\ Relock(keep)
    /\ candidates' = new
    /\ b_locked' = keep \cap Cached
    /\ patches' = show
    /\ stage' = "lock" /\ todo' = keep /\ refchart' = ref
    /\ pc' = "compose"
    /\ m_b_locked' = FALSE
    /\ pinned' = keep \cap show
    /\ dropped' = (dropped \ candidates) \ new
    /\ UNCHANGED <<pChartCache, used, unready, disabled, chart, old_lock>>

\* Some charts are passed over: in the later walks invalid patches, and where
\* only missing charts are opened those in the cache.
Passed(c) ==
    \/ stage \in {"units", "verify", "error"} /\ c \notin patches
    \/ stage \in {"verify", "ensure"} /\ IsChartInCache(c)

ComposeOpens(c) ==
    /\ pc = "compose" /\ c \in todo /\ ~Passed(c)
    /\ chart' = c /\ pc' = "open"
    /\ UNCHANGED <<cacheVars, m_b_locked, disabled, quiltVars, stage, todo, refchart, old_lock, history>>

GoOn(next, charts) == stage' = next /\ todo' = charts

\* A walk is done and the next begins.
ComposeGoesOn ==
    /\ pc = "compose" /\ \A c \in todo : Passed(c)
    /\ \/ stage = "lock"      /\ GoOn("reference", {refchart})
       \/ stage = "reference" /\ GoOn("units", patches)
       \/ stage = "units"     /\ GoOn("verify", patches)
       \/ stage = "verify"    /\ GoOn("ensure", {refchart})
       \/ stage = "ensure"    /\ GoOn("error", patches)
    /\ UNCHANGED <<cacheVars, m_b_locked, disabled, quiltVars, refchart, pc, chart, old_lock, history>>

\* The end of Compose: the cache is locked, and a caller that moved the view
\* goes on to purge it.  From here on nobody reads b_locked.
Composed ==
    /\ pc = "compose" /\ stage = "error" /\ \A c \in todo : Passed(c)
    /\ m_b_locked' = TRUE
    /\ GoOn("none", {}) /\ refchart' = NoChart
    /\ b_locked' = {}
    /\ pc' \in {"idle", "purge"}
    /\ UNCHANGED <<cacheVars, disabled, candidates, patches, chart, old_lock, history>>

\* PurgeCacheUnusedCharts(0.7), which looks at the locks of charts and not at
\* the lock of the cache.
PurgeLimit == (g_nCacheLimit * 7) \div 10

Purge ==
    /\ pc = "purge"
    /\ \/ /\ Len(pChartCache) > PurgeLimit
          /\ \E c \in Cached : FindOldestDeleteCandidate(c) /\ Drop(c)
          /\ UNCHANGED pc
       \/ /\ Len(pChartCache) <= PurgeLimit \/ NoCandidate
          /\ pc' = "idle"
          /\ UNCHANGED cacheVars
    /\ UNCHANGED <<m_b_locked, disabled, quiltVars, stage, todo, refchart, chart, old_lock, history>>

\* AdjustRefOnZoomIn and GetBestStartScale take new candidates and leave the
\* locks as they are.
Rebuild(new) ==
    /\ pc = "idle"
    /\ candidates' = new
    /\ dropped' = (dropped \cup {c \in candidates : n_lock[c] > 0}) \ new
    /\ Cardinality(dropped') <= MaxDropped
    /\ UNCHANGED <<cacheVars, m_b_locked, disabled, b_locked, patches, callVars, pinned>>

\* Any other open between two Composes: the drawing of the patches, the
\* reference chart and tentative ones.
OpenOther(c) ==
    /\ pc = "idle"
    /\ stage' = "other" /\ todo' = {} /\ chart' = c
    /\ pc' = "open"
    /\ UNCHANGED <<cacheVars, m_b_locked, disabled, quiltVars, refchart, old_lock, history>>

-----------------------------------------------------------------------------
Step == \/ OpenStep \/ Opened \/ ComposeGoesOn \/ Composed \/ Purge
        \/ \E c \in Charts : ComposeOpens(c)

Quilts == {Q \in SUBSET Charts : Cardinality(Q) <= MaxQuilt}

Call ==
    \/ \E new \in Quilts : \E keep, show \in SUBSET new :
       \E ref \in IF new = {} THEN Charts ELSE new :
         Compose(new, keep, show, ref)
    \/ \E new \in Quilts : Rebuild(new)
    \/ \E c \in Charts : OpenOther(c)

Next == Step \/ Call

Spec == Init /\ [][Next]_vars

-----------------------------------------------------------------------------
(* Properties *)

TypeOK ==
    /\ pChartCache \in Seq(Charts) /\ Len(pChartCache) = Cardinality(Cached)
    /\ used \subseteq Cached /\ unready \subseteq Cached
    /\ n_lock \in [Charts -> Nat] /\ old_lock \in Nat
    /\ \A c \in Charts \ Cached : n_lock[c] = 0
    /\ m_b_locked \in BOOLEAN
    /\ {disabled, candidates, patches, todo, pinned, dropped} \subseteq SUBSET Charts
    /\ b_locked \subseteq candidates
    /\ stage \in Stages /\ {refchart, chart} \subseteq Charts \cup {NoChart}
    /\ pc \in {"idle", "compose", "open", "evict", "load", "opened", "purge"}

Locked == {c \in Charts : n_lock[c] > 0}

\* Locks neither add up nor get lost: no chart is locked twice, so one
\* UnlockQuilt of a quilt that has it among its candidates sets it free; and a
\* locked chart is a candidate of the present quilt, which will unlock it, or
\* was dropped from the candidates by one of the calls that rebuild them
\* without UnlockQuilt: no other way leads to a lock that nobody releases.
LocksOwned ==
    /\ old_lock <= 1 /\ \A c \in Charts : n_lock[c] <= 1
    /\ Locked \subseteq candidates \cup dropped

\* From the end of a Compose to the next one, whatever is opened, purged or
\* rebuilt in between, the quilt's preloaded patches stay usable in the cache;
\* only a chart that failed to load meanwhile may be without its lock.
QuiltStays == pc = "idle" => \A c \in pinned \cap patches : IsChartInCache(c)

\* Eviction and purge keep more charts than they aim at only where all but
\* the one just used are locked.
OnlyPinnedBeyond ==
    [][(pc \in {"evict", "purge"} /\ pc' # pc) =>
         (\/ Len(pChartCache') <= IF pc = "evict" THEN g_nCacheLimit ELSE PurgeLimit
          \/ Len(pChartCache') = 1
          \/ Cached' \ used' \subseteq Locked')]_vars
=============================================================================
