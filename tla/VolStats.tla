------------------------------ MODULE VolStats ------------------------------
(***************************************************************************)
(* NodeGetVolumeStats (pkg/nfs/nodeserver.go) and the timed cache of its   *)
(* answers (Driver.volStatsCache). The cache is keyed by the volume id,    *)
(* entries of different volumes do not touch each other, and the module    *)
(* follows one volume that is mounted at several paths of the node.        *)
(*                                                                         *)
(* The statistics are reduced to the moment they were sampled.             *)
(***************************************************************************)
EXTENDS Integers

CONSTANTS
    Paths,    \* target paths of the volume
    Workers,  \* gRPC goroutines of the node driver
    None,
    TTL,      \* expiry of the cache
    MaxCall,  \* bound: how long a call takes that misses the cache
    MaxTime   \* bound: the clock

ASSUME StatsAssumption ==
    /\ TTL \in Nat \ {0} /\ MaxCall \in Nat /\ MaxTime \in Nat
    /\ None \notin Paths

VARIABLES
    now,      \* the clock
    present,  \* the paths that exist
    data,     \* the cached answer: when it was sampled, or -1 for nil
    created,  \* CreatedOn of the cached answer
    pc,       \* where worker w is in its call
    path,     \* the path of its call
    since,    \* when its call began
    sampled,  \* when it sampled the statistics
    answer    \* its last answer

cacheVars == <<data, created>>
vars == <<now, present, data, created, pc, path, since, sampled, answer>>

Nil == -1
NoAnswer == [code |-> "none", at |-> 0, sampled |-> 0]

TypeOK ==
    /\ now \in Nat
    /\ present \subseteq Paths
    /\ data \in Nat \cup {Nil}
    /\ created \in Nat
    /\ pc \in [Workers -> {"idle", "lstat", "metrics", "set"}]
    /\ path \in [Workers -> Paths \cup {None}]
    /\ since \in [Workers -> Nat]
    /\ sampled \in [Workers -> Nat]
    /\ answer \in [Workers -> [code : {"none", "ok", "notfound"}, at : Nat,
                               sampled : Nat]]

-----------------------------------------------------------------------------
(***************************************************************************)
(* The environment.                                                        *)
(***************************************************************************)

Tick ==
    /\ now < MaxTime
    /\ \A w \in Workers : pc[w] # "idle" => now < since[w] + MaxCall
    /\ now' = now + 1
    /\ UNCHANGED <<present, cacheVars, pc, path, since, sampled, answer>>

\* The volume is published at a path ...
Appear(p) ==
    /\ p \notin present
    /\ present' = present \cup {p}
    /\ UNCHANGED <<now, cacheVars, pc, path, since, sampled, answer>>

\* ... and unpublished; NodeUnpublishVolume does not touch the cache.
Disappear(p) ==
    /\ p \in present
    /\ present' = present \ {p}
    /\ UNCHANGED <<now, cacheVars, pc, path, since, sampled, answer>>

-----------------------------------------------------------------------------
(***************************************************************************)
(* NodeGetVolumeStats.                                                     *)
(***************************************************************************)

\* Mutant: the age of the entry is not looked at.
EverFresh == data # Nil

\* Mutant: an entry without data is taken for one.
YoungEntry == now - created < TTL

\* The entry has data, younger than the expiry.
Fresh == data # Nil /\ now - created < TTL

Reply(w, c, t) ==
    answer' = [answer EXCEPT ![w] = [code |-> c, at |-> now, sampled |-> t]]

\* volStatsCache.Get finds a fresh entry, and that is the answer, whether or
\* not the path is there, ...
Cached(w) ==
    /\ pc[w] = "idle"
    /\ Fresh
    /\ Reply(w, "ok", data)
    /\ UNCHANGED <<now, present, cacheVars, pc, path, since, sampled>>

\* ... or none: the getter of the cache replaces an expired one by nil.
NotCached(w, p) ==
    /\ pc[w] = "idle"
    /\ ~Fresh
    /\ data' = Nil
    /\ created' = now
    /\ pc' = [pc EXCEPT ![w] = "lstat"]
    /\ path' = [path EXCEPT ![w] = p]
    /\ since' = [since EXCEPT ![w] = now]
    /\ UNCHANGED <<now, present, sampled, answer>>

Finish(w) ==
    /\ pc' = [pc EXCEPT ![w] = "idle"]
    /\ path' = [path EXCEPT ![w] = None]
    /\ UNCHANGED <<now, present, since, sampled>>

LstatFound(w) ==
    /\ pc[w] = "lstat"
    /\ path[w] \in present
    /\ pc' = [pc EXCEPT ![w] = "metrics"]
    /\ UNCHANGED <<now, present, cacheVars, path, since, sampled, answer>>

LstatNotFound(w) ==
    /\ pc[w] = "lstat"
    /\ path[w] \notin present
    /\ Reply(w, "notfound", 0)
    /\ Finish(w)
    /\ UNCHANGED cacheVars

\* GetMetrics, and the conversions of its six numbers.
GetMetrics(w) ==
    /\ pc[w] = "metrics"
    /\ path[w] \in present
    /\ sampled' = [sampled EXCEPT ![w] = now]
    /\ pc' = [pc EXCEPT ![w] = "set"]
    /\ UNCHANGED <<now, present, cacheVars, path, since, answer>>

\* Either fails: Internal, for a path that is gone or for a reason of its own.
MetricsFail(w) ==
    /\ pc[w] = "metrics"
    /\ Finish(w)
    /\ UNCHANGED <<cacheVars, answer>>

\* volStatsCache.Set stamps the entry with the present moment, not with that
\* of the sample, and overwrites what a faster call has set.
SetCache(w) ==
    /\ pc[w] = "set"
    /\ data' = sampled[w]
    /\ created' = now
    /\ Reply(w, "ok", sampled[w])
    /\ Finish(w)

-----------------------------------------------------------------------------

Init ==
    /\ now = 0
    /\ present \in SUBSET Paths
    /\ data = Nil
    /\ created = 0
    /\ pc = [w \in Workers |-> "idle"]
    /\ path = [w \in Workers |-> None]
    /\ since = [w \in Workers |-> 0]
    /\ sampled = [w \in Workers |-> 0]
    /\ answer = [w \in Workers |-> NoAnswer]

Step(w) ==
    \/ LstatFound(w) \/ LstatNotFound(w)
    \/ GetMetrics(w) \/ MetricsFail(w) \/ SetCache(w)

Next ==
    \/ Tick
    \/ \E p \in Paths : Appear(p) \/ Disappear(p)
    \/ \E w \in Workers, p \in Paths : NotCached(w, p)
    \/ \E w \in Workers : Cached(w) \/ Step(w)

Spec == Init /\ [][Next]_vars

-----------------------------------------------------------------------------
(***************************************************************************)
(* Properties.                                                             *)
(***************************************************************************)

\* An answer is never older than the expiry of the cache plus the time one
\* call may take, however slow calls overwrite the entries of faster ones.
StatsFresh ==
    \A w \in Workers :
        answer[w].code = "ok" =>
            /\ answer[w].sampled <= answer[w].at
            /\ answer[w].at - answer[w].sampled < TTL + MaxCall

=============================================================================
