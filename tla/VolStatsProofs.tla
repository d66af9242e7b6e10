--------------------------- MODULE VolStatsProofs ---------------------------
(***************************************************************************)
(* StatsFresh for every expiry, call duration, number of goroutines and    *)
(* paths.                                                                  *)
(***************************************************************************)
EXTENDS VolStats, TLAPS

\* The strengthening: an entry was set at most MaxCall after its data was
\* sampled, because the call that set it took no longer than that.
EntryAge ==
    /\ created <= now
    /\ data # Nil => data <= created /\ created <= data + MaxCall

CallAge(w) ==
    pc[w] # "idle" =>
        /\ since[w] <= now /\ now <= since[w] + MaxCall
        /\ pc[w] = "set" => since[w] <= sampled[w] /\ sampled[w] <= now

FreshInv == TypeOK /\ EntryAge /\ (\A w \in Workers : CallAge(w)) /\ StatsFresh

\* Every variable keeps its type: no operation of the cache or of a call leaves
\* the ranges of TypeOK.
LEMMA StatsTypeStep == TypeOK /\ [Next]_vars => TypeOK'
<1> SUFFICES ASSUME TypeOK, [Next]_vars PROVE TypeOK'
  OBVIOUS
<1> USE StatsAssumption DEF TypeOK, Nil
<1>1. CASE Tick
  BY <1>1 DEF Tick, cacheVars
<1>2. ASSUME NEW p \in Paths, Appear(p) PROVE TypeOK'
  BY <1>2 DEF Appear, cacheVars
<1>3. ASSUME NEW p \in Paths, Disappear(p) PROVE TypeOK'
  BY <1>3 DEF Disappear, cacheVars
<1>4. ASSUME NEW w \in Workers, Cached(w) PROVE TypeOK'
  BY <1>4 DEF Cached, Reply, Fresh, cacheVars
<1>5. ASSUME NEW w \in Workers, NEW p \in Paths, NotCached(w, p) PROVE TypeOK'
  BY <1>5 DEF NotCached
<1>6. ASSUME NEW w \in Workers, LstatFound(w) PROVE TypeOK'
  BY <1>6 DEF LstatFound, cacheVars
<1>7. ASSUME NEW w \in Workers, LstatNotFound(w) PROVE TypeOK'
  BY <1>7 DEF LstatNotFound, Reply, Finish, cacheVars
<1>8. ASSUME NEW w \in Workers, GetMetrics(w) PROVE TypeOK'
  BY <1>8 DEF GetMetrics, cacheVars
<1>9. ASSUME NEW w \in Workers, MetricsFail(w) PROVE TypeOK'
  BY <1>9 DEF MetricsFail, Finish, cacheVars
<1>10. ASSUME NEW w \in Workers, SetCache(w) PROVE TypeOK'
  BY <1>10 DEF SetCache, Reply, Finish
<1>11. CASE UNCHANGED vars
  BY <1>11 DEF vars
<1> QED
  BY <1>1, <1>2, <1>3, <1>4, <1>5, <1>6, <1>7, <1>8, <1>9, <1>10, <1>11
  DEF Next, Step

\* A step keeps the ages of the entry and of the calls in their bounds.
LEMMA AgeStep ==
    FreshInv /\ [Next]_vars => EntryAge' /\ \A w \in Workers : CallAge(w)'
<1> SUFFICES ASSUME FreshInv, [Next]_vars
             PROVE  EntryAge' /\ \A w \in Workers : CallAge(w)'
  OBVIOUS
<1> DEFINE Goal == EntryAge' /\ \A w \in Workers : CallAge(w)'
<1> USE StatsAssumption DEF FreshInv, TypeOK, EntryAge, CallAge, Nil
<1>1. ASSUME Tick PROVE Goal
  BY <1>1 DEF Tick, cacheVars
<1>2. ASSUME NEW p \in Paths, Appear(p) PROVE Goal
  BY <1>2 DEF Appear, cacheVars
<1>3. ASSUME NEW p \in Paths, Disappear(p) PROVE Goal
  BY <1>3 DEF Disappear, cacheVars
<1>4. ASSUME NEW w \in Workers, Cached(w) PROVE Goal
  BY <1>4 DEF Cached, cacheVars
<1>5. ASSUME NEW w \in Workers, NEW p \in Paths, NotCached(w, p) PROVE Goal
  BY <1>5 DEF NotCached
<1>6. ASSUME NEW w \in Workers, LstatFound(w) PROVE Goal
  BY <1>6 DEF LstatFound, cacheVars
<1>7. ASSUME NEW w \in Workers, LstatNotFound(w) PROVE Goal
  BY <1>7 DEF LstatNotFound, Finish, cacheVars
<1>8. ASSUME NEW w \in Workers, GetMetrics(w) PROVE Goal
  BY <1>8 DEF GetMetrics, cacheVars
<1>9. ASSUME NEW w \in Workers, MetricsFail(w) PROVE Goal
  BY <1>9 DEF MetricsFail, Finish, cacheVars
<1>10. ASSUME NEW w \in Workers, SetCache(w) PROVE Goal
  BY <1>10 DEF SetCache, Finish
<1>11. ASSUME UNCHANGED vars PROVE Goal
  BY <1>11 DEF vars
<1> QED
  BY <1>1, <1>2, <1>3, <1>4, <1>5, <1>6, <1>7, <1>8, <1>9, <1>10, <1>11
  DEF Next, Step

\* A step gives no answer that is older than TTL + MaxCall: one from the cache
\* adds the age of the entry to that of its data, one from SetCache is as old
\* as its call.
LEMMA FreshStep == FreshInv /\ [Next]_vars => StatsFresh'
<1> SUFFICES ASSUME FreshInv, [Next]_vars PROVE StatsFresh'
  OBVIOUS
<1> USE StatsAssumption DEF FreshInv, TypeOK, StatsFresh, Nil
<1>1. ASSUME UNCHANGED answer PROVE StatsFresh'
  BY <1>1
<1>2. ASSUME NEW w \in Workers, Cached(w) PROVE StatsFresh'
  BY <1>2 DEF Cached, Reply, Fresh, EntryAge
<1>3. ASSUME NEW w \in Workers, LstatNotFound(w) PROVE StatsFresh'
  BY <1>3 DEF LstatNotFound, Reply
<1>4. ASSUME NEW w \in Workers, SetCache(w) PROVE StatsFresh'
  BY <1>4 DEF SetCache, Reply, CallAge
<1> QED
  BY <1>1, <1>2, <1>3, <1>4
  DEF Next, Step, Tick, Appear, Disappear, NotCached, LstatFound, GetMetrics,
      MetricsFail, vars

\* The strengthened invariant holds initially and is kept.
LEMMA FreshInvariant == Spec => []FreshInv
<1>1. Init => FreshInv
  BY StatsAssumption
  DEF Init, FreshInv, TypeOK, EntryAge, CallAge, StatsFresh, NoAnswer, Nil
<1>2. FreshInv /\ [Next]_vars => FreshInv'
  BY StatsTypeStep, AgeStep, FreshStep DEF FreshInv
<1> QED
  BY <1>1, <1>2, PTL DEF Spec

\* Every variable of the model of NodeGetVolumeStats keeps its type.
THEOREM StatsTypeCorrect == Spec => []TypeOK
<1>1. FreshInv => TypeOK
  BY DEF FreshInv
<1> QED
  BY <1>1, FreshInvariant, PTL

\* No answer of NodeGetVolumeStats is older than the expiry of the cache plus
\* the duration of a call, for any number of concurrent calls.
THEOREM AnswersFresh == Spec => []StatsFresh
<1>1. FreshInv => StatsFresh
  BY DEF FreshInv
<1> QED
  BY <1>1, FreshInvariant, PTL

=============================================================================
