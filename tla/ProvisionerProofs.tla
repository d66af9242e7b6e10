------------------------- MODULE ProvisionerProofs --------------------------
(***************************************************************************)
(* Proofs about Provisioner for any volumes, snapshots, classes and        *)
(* workers, and whatever the ids of the existing volumes are.              *)
(***************************************************************************)
EXTENDS Provisioner, TLAPS

Fields == {"op", "subject", "source", "vol", "at", "ok"}

\* DeleteVolume and DeleteSnapshot need no mount for x: its id does not parse,
\* or it is a volume whose id says retain.
AnsweredByID(x) ==
    \/ x \in Volumes /\ ~ValidVolumeID(objects[x].id)
    \/ x \in Volumes /\ Folded(GetNfsVolFromID(objects[x].id).onDelete) = <<"retain">>
    \/ x \in Snapshots /\ ~ValidSnapshotID(objects[x].id)

\* A call that will be answered with success is such a deletion; the others
\* have no success to report, before their mount or behind it.
IsAnswerable(c) ==
    c.ok => /\ c.at = "return"
            /\ c.op \in {"deleteVolume", "deleteSnapshot"}
            /\ AnsweredByID(c.subject)

CallInv(c) == DOMAIN c = Fields /\ IsAnswerable(c)

CallsInv == DOMAIN run = Workers /\ \A w \in Workers : CallInv(run[w])

\* No creation was answered with success, and only deletions that the id alone
\* decides were.
OnlyDecidedAnswers ==
    created = {} /\ \A x \in deleted : AnsweredByID(x)

-----------------------------------------------------------------------------

\* internalMount sends no address: NodePublishVolume refuses every one.
LEMMA NoAddress == ~HasAddress(InternalPublishContext)
  BY DEF HasAddress, InternalPublishContext

\* A step Publish changes the call and the locks only.
LEMMA PublishRefuses ==
  ASSUME NEW w \in Workers, Publish(w)
  PROVE  /\ run[w].at = "publish"
         /\ tree' = tree
         /\ locks' = Released(locks, LockKey(w))
         /\ run' = [run EXCEPT ![w].at = "return", ![w].ok = FALSE]
         /\ UNCHANGED <<setting, created, deleted>>
  <1>1. (IF HasAddress(InternalPublishContext)
         THEN BehindMount(run[w]) ELSE Result(tree, FALSE)) = Result(tree, FALSE)
    BY NoAddress
  <1>2. Result(tree, FALSE).tree = tree /\ Result(tree, FALSE).ok = FALSE
    BY DEF Result
  <1>. QED  BY <1>1, <1>2 DEF Publish

\* No call changes anything on the share: the refusal of NodePublishVolume
\* comes before every file operation of the four handlers.
THEOREM RefusedCallsChangeNothing == Spec => RefusedChangesNothing
  <1>1. [Next]_vars => [UNCHANGED tree]_vars
    <2>. SUFFICES ASSUME Next PROVE UNCHANGED tree
      OBVIOUS
    <2>1. ASSUME NEW w \in Workers, NEW request \in Requests, Call(w, request)
          PROVE  UNCHANGED tree
      BY <2>1 DEF Call
    <2>2. ASSUME NEW w \in Workers, MountLock(w) PROVE UNCHANGED tree
      BY <2>2 DEF MountLock
    <2>3. ASSUME NEW w \in Workers, Publish(w) PROVE UNCHANGED tree
      BY <2>3, PublishRefuses
    <2>4. ASSUME NEW w \in Workers, Panic(w) PROVE UNCHANGED tree
      BY <2>4 DEF Panic, Gone
    <2>5. ASSUME NEW w \in Workers, Return(w) \/ Unheard(w) PROVE UNCHANGED tree
      BY <2>5 DEF Return, Unheard
    <2>6. CASE Crash
      BY <2>6 DEF Crash, Gone
    <2>. QED  BY <2>1, <2>2, <2>3, <2>4, <2>5, <2>6 DEF Next
  <1>. QED  BY <1>1, PTL DEF Spec, RefusedChangesNothing

-----------------------------------------------------------------------------
(***************************************************************************)
(* The calls.                                                              *)
(***************************************************************************)

\* A call that is about to mount.
LEMMA MountingIsCall ==
  ASSUME NEW op, NEW x, NEW src, NEW vol
  PROVE  CallInv(Mounting(op, x, src, vol)) /\ Mounting(op, x, src, vol).at = "mount"
  BY DEF Mounting, CallInv, Fields, IsAnswerable

\* A call that is answered at once: with an error, or as its id decides.
LEMMA AnsweredIsCall ==
  ASSUME NEW op, NEW x, NEW ok \in BOOLEAN,
         ok => op \in {"deleteVolume", "deleteSnapshot"} /\ AnsweredByID(x)
  PROVE  CallInv(Answered(op, x, ok)) /\ Answered(op, x, ok).at = "return"
  <1> DEFINE c == Answered(op, x, ok)
  <1>1. c = [op |-> op, subject |-> x, source |-> None, vol |-> None,
             at |-> "return", ok |-> ok]
    BY DEF Answered
  <1>2. DOMAIN c = Fields /\ c.at = "return" /\ c.op = op /\ c.subject = x /\ c.ok = ok
    BY <1>1 DEF Fields
  <1>. HIDE DEF c
  <1>3. CallInv(c) /\ c.at = "return"
    BY <1>2, Zenon DEF CallInv, IsAnswerable
  <1>. QED  BY <1>3 DEF c

\* A new call is about to mount, or is answered by its arguments.
LEMMA RequestsAreCalls ==
  ASSUME NEW request \in Requests
  PROVE  CallInv(request) /\ request.at \in {"mount", "return"}
  <1> DEFINE Goal == CallInv(request) /\ request.at \in {"mount", "return"}
  <1>0. ASSUME NEW op, NEW x,
               \/ \E src, vol : request = Mounting(op, x, src, vol)
               \/ request = Answered(op, x, FALSE)
               \/ /\ request = Answered(op, x, TRUE)
                  /\ op \in {"deleteVolume", "deleteSnapshot"} /\ AnsweredByID(x)
        PROVE  Goal
    <2>1. CASE \E src, vol : request = Mounting(op, x, src, vol)
      BY <2>1, MountingIsCall, Zenon
    <2>2. CASE request = Answered(op, x, FALSE)
      BY <2>2, AnsweredIsCall, Zenon
    <2>3. CASE request = Answered(op, x, TRUE)
               /\ op \in {"deleteVolume", "deleteSnapshot"} /\ AnsweredByID(x)
      BY <2>3, AnsweredIsCall, Zenon
    <2>. QED  BY <1>0, <2>1, <2>2, <2>3
  <1>. HIDE DEF Goal
  <1>1. ASSUME NEW v \in Volumes, NEW src, request = CreateVolume(v, src)
        PROVE  Goal
    BY <1>0, <1>1, Zenon DEF CreateVolume
  <1>2. ASSUME NEW v \in Volumes, request = DeleteVolume(v)
        PROVE  Goal
    <2> DEFINE vol == GetNfsVolFromID(objects[v].id)
               onDelete == IF vol.onDelete = <<>> THEN DefaultOnDeletePolicy
                                                  ELSE vol.onDelete
    <2>1. onDelete = vol.onDelete
      BY DEF DefaultOnDeletePolicy
    <2>2. CASE ~ValidVolumeID(objects[v].id) \/ Folded(onDelete) = <<"retain">>
      <3>1. request = Answered("deleteVolume", v, TRUE)
        BY <1>2, <2>2 DEF DeleteVolume
      <3>2. AnsweredByID(v)
        BY <2>1, <2>2 DEF AnsweredByID
      <3>. QED  BY <1>0, <3>1, <3>2, Zenon
    <2>3. CASE ValidVolumeID(objects[v].id) /\ Folded(onDelete) # <<"retain">>
      <3>1. request = Mounting("deleteVolume", v, None, [vol EXCEPT !.onDelete = onDelete])
        BY <1>2, <2>3, Zenon DEF DeleteVolume
      <3>. QED  BY <1>0, <3>1, Zenon
    <2>. QED  BY <2>2, <2>3
  <1>3. ASSUME NEW n \in Snapshots, NEW src, request = CreateSnapshot(n, src)
        PROVE  Goal
    BY <1>0, <1>3, Zenon DEF CreateSnapshot
  <1>4. ASSUME NEW n \in Snapshots, request = DeleteSnapshot(n)
        PROVE  Goal
    BY <1>0, <1>4, Zenon DEF DeleteSnapshot, AnsweredByID
  <1>5. \/ \E v \in Volumes, src \in (Objects \ New) \cup {None} :
               request = CreateVolume(v, src)
        \/ \E v \in Volumes \ New : request = DeleteVolume(v)
        \/ \E n \in Snapshots, src \in Volumes \ New : request = CreateSnapshot(n, src)
        \/ \E n \in Snapshots \ New : request = DeleteSnapshot(n)
    BY DEF Requests
  <1>6. Goal
    BY <1>1, <1>2, <1>3, <1>4, <1>5, Zenon
  <1>. QED  BY <1>6 DEF Goal

\* The call of w moves on, the others stay.
Moves(w, at, ok) ==
    /\ DOMAIN run' = Workers /\ DOMAIN run'[w] = Fields
    /\ \A u \in Workers \ {w} : run'[u] = run[u]
    /\ run'[w].op = run[w].op /\ run'[w].subject = run[w].subject
    /\ run'[w].vol = run[w].vol
    /\ run'[w].at = at /\ run'[w].ok = ok

\* A call that changes its place and answer leaves the other calls alone.
LEMMA MovesOn ==
  ASSUME CallsInv, NEW w \in Workers
  PROVE  /\ \A at : run' = [run EXCEPT ![w].at = at] => Moves(w, at, run[w].ok)
         /\ \A at, ok : run' = [run EXCEPT ![w].at = at, ![w].ok = ok] => Moves(w, at, ok)
  <1>1. DOMAIN run = Workers /\ DOMAIN run[w] = Fields
    BY DEF CallsInv, CallInv
  <1>2. ASSUME NEW at, run' = [run EXCEPT ![w].at = at]
        PROVE  Moves(w, at, run[w].ok)
    BY <1>1, <1>2, ZenonT(30) DEF Moves, Fields
  <1>3. ASSUME NEW at, NEW ok, run' = [run EXCEPT ![w].at = at, ![w].ok = ok]
        PROVE  Moves(w, at, ok)
    BY <1>1, <1>3, ZenonT(30) DEF Moves, Fields
  <1>. QED  BY <1>2, <1>3

-----------------------------------------------------------------------------
(***************************************************************************)
(* The inductive invariant.                                                *)
(***************************************************************************)

IInv == CallsInv /\ OnlyDecidedAnswers /\ LocksMatchMounts

\* No call is a call as the invariant wants them.
LEMMA IdleIsCall == Idle.at = "idle" /\ CallInv(Idle)
  BY DEF Idle, CallInv, Fields, IsAnswerable

\* The invariant holds at the start.
LEMMA InitIInv == Init => IInv
  <1>. SUFFICES ASSUME Init PROVE IInv
    OBVIOUS
  <1>1. DOMAIN run = Workers /\ \A w \in Workers : run[w] = Idle
    BY DEF Init
  <1>2. CallsInv
    BY <1>1, IdleIsCall, Zenon DEF CallsInv
  <1>3. OnlyDecidedAnswers
    BY DEF Init, OnlyDecidedAnswers
  <1>4. Publishing = {}
    BY <1>1, IdleIsCall DEF Publishing
  <1>5. LocksMatchMounts
    BY <1>4 DEF Init, LocksMatchMounts, NewVolumeLocks
  <1>. QED  BY <1>2, <1>3, <1>5 DEF IInv

\* What the ids decide does not change.
LEMMA DecidedForGood ==
  ASSUME UNCHANGED setting, NEW x
  PROVE  AnsweredByID(x)' <=> AnsweredByID(x)
  BY DEF setting, AnsweredByID

\* One call is replaced by another.
LEMMA CallReplaced ==
  ASSUME CallsInv, UNCHANGED setting, NEW w \in Workers,
         DOMAIN run' = Workers, \A u \in Workers \ {w} : run'[u] = run[u],
         DOMAIN run'[w] = Fields, IsAnswerable(run'[w])
  PROVE  CallsInv'
  <1>1. \A x : AnsweredByID(x)' <=> AnsweredByID(x)
    BY DecidedForGood
  <1>2. ASSUME NEW u \in Workers PROVE CallInv(run[u])'
    <2>1. DOMAIN run'[u] = Fields /\ IsAnswerable(run'[u])
      BY Zenon DEF CallsInv, CallInv
    <2>. QED  BY <1>1, <2>1, Zenon DEF CallInv, IsAnswerable
  <1>. QED  BY <1>2 DEF CallsInv

\* The locks when no call comes to its mount or leaves it.
LEMMA MountsSame ==
  ASSUME LocksMatchMounts, UNCHANGED locks, NEW w \in Workers,
         \A u \in Workers \ {w} : run'[u] = run[u],
         run[w].at # "publish", run'[w].at # "publish"
  PROVE  LocksMatchMounts'
  <1>1. Publishing' = Publishing /\ w \notin Publishing
    BY DEF Publishing
  <1>2. \A u \in Publishing : LockKey(u)' = LockKey(u)
    BY <1>1 DEF Publishing, LockKey
  <1>. QED  BY <1>1, <1>2 DEF LocksMatchMounts

\* A call comes to its mount with a lock that nobody has.
LEMMA MountsMore ==
  ASSUME LocksMatchMounts, NEW w \in Workers, NEW ok, Moves(w, "publish", ok),
         run[w].at # "publish", LockKey(w) \notin locks,
         locks' = locks \cup {LockKey(w)}
  PROVE  LocksMatchMounts'
  <1>1. Publishing' = Publishing \cup {w} /\ w \notin Publishing
    BY DEF Publishing, Moves
  <1>2. \A u \in Workers : LockKey(u)' = LockKey(u)
    BY DEF LockKey, Moves
  <1>3. Publishing \subseteq Workers
    BY DEF Publishing
  <1>. QED  BY <1>1, <1>2, <1>3 DEF LocksMatchMounts

\* A call leaves its mount.
LEMMA MountsLess ==
  ASSUME LocksMatchMounts, NEW w \in Workers, Moves(w, "return", FALSE),
         run[w].at = "publish", locks' = locks \ {LockKey(w)}
  PROVE  LocksMatchMounts'
  <1>1. Publishing' = Publishing \ {w} /\ w \in Publishing
    BY DEF Publishing, Moves
  <1>2. \A u \in Workers : LockKey(u)' = LockKey(u)
    BY DEF LockKey, Moves
  <1>3. Publishing \subseteq Workers
    BY DEF Publishing
  <1>. QED  BY <1>1, <1>2, <1>3 DEF LocksMatchMounts

\* The answers do not change.
LEMMA AnswersSame ==
  ASSUME OnlyDecidedAnswers, UNCHANGED <<setting, created, deleted>>
  PROVE  OnlyDecidedAnswers'
  BY DecidedForGood DEF OnlyDecidedAnswers

-----------------------------------------------------------------------------
(***************************************************************************)
(* The steps.                                                              *)
(***************************************************************************)

\* A new call comes with the volume its handler has worked out.
LEMMA CallIInv ==
  ASSUME IInv, NEW w \in Workers, NEW request \in Requests, Call(w, request)
  PROVE  IInv'
  <1>1. /\ DOMAIN run' = Workers /\ run'[w] = request
        /\ \A u \in Workers \ {w} : run'[u] = run[u]
    BY DEF Call, IInv, CallsInv
  <1>2. CallInv(request) /\ request.at # "publish"
    BY RequestsAreCalls
  <1>3. CallsInv'
    BY <1>1, <1>2, CallReplaced, Zenon DEF IInv, Call, CallInv
  <1>4. LocksMatchMounts'
    BY <1>1, <1>2, MountsSame DEF IInv, Call
  <1>5. OnlyDecidedAnswers'
    BY AnswersSame DEF IInv, Call
  <1>. QED  BY <1>3, <1>4, <1>5 DEF IInv

\* A call at its mount has no success to report yet.
LEMMA NotYetOk ==
  ASSUME CallsInv, NEW w \in Workers, run[w].at # "return"
  PROVE  ~run[w].ok
  BY Zenon DEF CallsInv, CallInv, IsAnswerable

\* A call that moves on with an error, or towards one.
LEMMA MovesToError ==
  ASSUME CallsInv, UNCHANGED setting, NEW w \in Workers, NEW at, NEW ok,
         Moves(w, at, ok), ~ok
  PROVE  CallsInv'
  <1>1. IsAnswerable(run'[w])
    BY Zenon DEF IsAnswerable, Moves
  <1>. QED  BY <1>1, CallReplaced, Zenon DEF Moves

\* The lock is taken by one call, or the call is aborted.
LEMMA MountLockIInv ==
  ASSUME IInv, NEW w \in Workers, MountLock(w)
  PROVE  IInv'
  <1>. USE DEF IInv
  <1>1. /\ run[w].at = "mount"
        /\ UNCHANGED <<setting, created, deleted>> /\ UNCHANGED setting
        /\ \/ /\ LockKey(w) \notin locks
              /\ locks' = locks \cup {LockKey(w)}
              /\ run' = [run EXCEPT ![w].at = "publish"]
           \/ UNCHANGED locks /\ run' = [run EXCEPT ![w].at = "return"]
    BY Zenon DEF MountLock, TryAcquire, Acquired
  <1>2. ~run[w].ok
    BY <1>1, NotYetOk
  <1>3. CASE /\ LockKey(w) \notin locks
             /\ locks' = locks \cup {LockKey(w)}
             /\ run' = [run EXCEPT ![w].at = "publish"]
    <2>1. Moves(w, "publish", run[w].ok)
      BY <1>3, MovesOn, Zenon
    <2>2. CallsInv'
      BY <1>1, <1>2, <2>1, MovesToError
    <2>3. LocksMatchMounts'
      BY <1>1, <1>3, <2>1, MountsMore
    <2>. QED  BY <1>1, <2>2, <2>3, AnswersSame
  <1>4. CASE UNCHANGED locks /\ run' = [run EXCEPT ![w].at = "return"]
    <2>1. Moves(w, "return", run[w].ok)
      BY <1>4, MovesOn, Zenon
    <2>2. CallsInv'
      BY <1>1, <1>2, <2>1, MovesToError
    <2>3. LocksMatchMounts'
      BY <1>1, <1>4, <2>1, MountsSame DEF Moves
    <2>. QED  BY <1>1, <2>2, <2>3, AnswersSame
  <1>. QED  BY <1>1, <1>3, <1>4

\* The refusal releases the lock of its own call only, and is no success.
LEMMA PublishIInv ==
  ASSUME IInv, NEW w \in Workers, Publish(w)
  PROVE  IInv'
  <1>. USE DEF IInv
  <1>1. /\ run[w].at = "publish"
        /\ locks' = locks \ {LockKey(w)}
        /\ run' = [run EXCEPT ![w].at = "return", ![w].ok = FALSE]
        /\ UNCHANGED <<setting, created, deleted>>
    BY PublishRefuses, Zenon DEF Released
  <1>2. Moves(w, "return", FALSE)
    BY <1>1, MovesOn, Zenon
  <1>3. CallsInv'
    BY <1>1, <1>2, MovesToError, Zenon
  <1>4. LocksMatchMounts'
    BY <1>1, <1>2, MountsLess
  <1>. QED  BY <1>1, <1>3, <1>4, AnswersSame

\* A panic or a crash ends calls and locks together.
LEMMA GoneIInv == ASSUME IInv, Gone PROVE IInv'
  <1>. USE DEF IInv
  <1>1. DOMAIN run' = Workers /\ \A w \in Workers : run'[w] = Idle
    BY DEF Gone
  <1>2. CallsInv'
    <2>1. CallInv(Idle)'
      BY DEF Idle, CallInv, Fields, IsAnswerable
    <2>. QED  BY <1>1, <2>1, Zenon DEF CallsInv
  <1>3. Publishing' = {}
    BY <1>1, IdleIsCall DEF Publishing
  <1>4. LocksMatchMounts'
    BY <1>3 DEF Gone, LocksMatchMounts, NewVolumeLocks
  <1>. QED  BY <1>2, <1>4, AnswersSame DEF Gone

\* The end of a call, whether its answer is heard or not.
LEMMA ReturnIInv ==
  ASSUME IInv, NEW w \in Workers, Return(w) \/ Unheard(w)
  PROVE  IInv'
  <1>. USE DEF IInv
  <1>1. /\ run[w].at = "return" /\ UNCHANGED <<setting, locks>>
        /\ DOMAIN run' = Workers /\ run'[w] = Idle
        /\ \A u \in Workers \ {w} : run'[u] = run[u]
    BY DEF Return, Unheard, CallsInv
  <1>2. CallsInv'
    BY <1>1, IdleIsCall, CallReplaced, Zenon DEF CallInv
  <1>3. LocksMatchMounts'
    BY <1>1, IdleIsCall, MountsSame
  <1>4. OnlyDecidedAnswers'
    <2>1. CASE Unheard(w)
      BY <2>1, AnswersSame DEF Unheard
    <2>2. CASE Return(w)
      <3> DEFINE told == IF run[w].ok THEN {run[w].subject} ELSE {}
      <3>1. told # {} => /\ run[w].op \in {"deleteVolume", "deleteSnapshot"}
                         /\ \A x \in told : AnsweredByID(x)
        BY Zenon DEF CallsInv, CallInv, IsAnswerable
      <3>2. created' \in {created, created \cup told} /\ deleted' \in {deleted, deleted \cup told}
        BY <2>2 DEF Return
      <3>3. run[w].op \in {"deleteVolume", "deleteSnapshot"} => created' = created
        BY <2>2 DEF Return
      <3>. HIDE DEF told
      <3>4. created' = {}
        BY <3>1, <3>2, <3>3 DEF OnlyDecidedAnswers
      <3>5. \A x \in deleted' : AnsweredByID(x)
        BY <3>1, <3>2 DEF OnlyDecidedAnswers
      <3>. QED  BY <1>1, <3>4, <3>5, DecidedForGood DEF OnlyDecidedAnswers
    <2>. QED  BY <2>1, <2>2
  <1>. QED  BY <1>2, <1>3, <1>4

\* The invariant is inductive.
LEMMA NextIInv == IInv /\ [Next]_vars => IInv'
  <1>1. ASSUME IInv, Next PROVE IInv'
    <2>1. ASSUME NEW w \in Workers, Panic(w) PROVE IInv'
      BY <1>1, <2>1, GoneIInv DEF Panic
    <2>. QED  BY <1>1, <2>1, CallIInv, MountLockIInv, PublishIInv, ReturnIInv, GoneIInv
              DEF Next, Crash
  <1>2. ASSUME IInv, UNCHANGED vars PROVE IInv'
    BY <1>2 DEF vars, IInv, CallsInv, CallInv, IsAnswerable, AnsweredByID,
                OnlyDecidedAnswers, LocksMatchMounts, Publishing, LockKey
  <1>. QED  BY <1>1, <1>2

\* The invariant holds throughout.
LEMMA Invariance == Spec => []IInv
  BY InitIInv, NextIInv, PTL DEF Spec

-----------------------------------------------------------------------------

\* No lock of an internal mount outlives it, and no two calls have the same,
\* however many calls overlap: the deferred Release of NodePublishVolume runs
\* on its refusal too.
THEOREM MountLocksMatch == Spec => []LocksMatchMounts
  <1>1. IInv => LocksMatchMounts
    BY DEF IInv
  <1>. QED  BY <1>1, Invariance, PTL

\* Whatever the ids and the classes are: no creation is answered with success,
\* and a deletion only when the id alone decides it, because it does not parse
\* or says retain. In particular no failed mount is reported as a deletion.
THEOREM AnswersAreDecided == Spec => []OnlyDecidedAnswers
  <1>1. IInv => OnlyDecidedAnswers
    BY DEF IInv
  <1>. QED  BY <1>1, Invariance, PTL

=============================================================================
