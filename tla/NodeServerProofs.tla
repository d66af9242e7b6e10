-------------------------- MODULE NodeServerProofs --------------------------
(***************************************************************************)
(* MountsNeverStack and AnswersTrue for any number of targets, sources and *)
(* goroutines, any failures and restarts.                                  *)
(***************************************************************************)
EXTENDS NodeServer, TLAPS

Active(w) == pc[w] # "idle"

\* The volume locks keep two calls from working on one target, and stand for
\* exactly the calls in progress.
LocksInv ==
    /\ \A w \in Workers : Active(w) => target[w] \in Targets
    /\ \A t \in Targets :
           t \in locks <=> \E w \in Workers : Active(w) /\ target[w] = t
    /\ \A w, x \in Workers :
           Active(w) /\ Active(x) /\ target[w] = target[x] => w = x

\* What a call has found out about its target stays true until its next step.
CallInv(w) ==
    LET t == target[w] IN
    /\ pc[w] = "mount" => t \in dir /\ mounts[t] = 0
    /\ pc[w] \in {"setup", "verify"} => mounts[t] = 1
    /\ pc[w] = "remove" => mounts[t] = 0
    /\ Active(w) => told[t] = "unknown"

TargetInv(t) ==
    /\ mounts[t] <= 1
    /\ mounts[t] = 1 => t \in dir
    /\ told[t] = "published" => mounts[t] = 1
    /\ told[t] = "clean" => t \notin dir /\ mounts[t] = 0

MountInv ==
    /\ TypeOK
    /\ LocksInv
    /\ \A w \in Workers : CallInv(w)
    /\ \A t \in Targets : TargetInv(t)

\* Every step of a call and a restart keep the types.
LEMMA NodeTypeStep ==
    ASSUME TypeOK, LocksInv, [Next]_vars PROVE TypeOK'
<1> USE DEF TypeOK, LocksInv, Active, PublishPCs, UnpublishPCs
<1>1. ASSUME NEW w \in Workers, NEW t \in Targets, NodePublishVolume(w, t)
      PROVE  TypeOK'
  BY <1>1 DEF NodePublishVolume, Call, Acquired, hostVars
<1>2. ASSUME NEW w \in Workers, NEW t \in Targets, NodeUnpublishVolume(w, t)
      PROVE  TypeOK'
  BY <1>2 DEF NodeUnpublishVolume, Call, Acquired, hostVars
<1>3. ASSUME NEW w \in Workers, PublishStep(w) PROVE TypeOK'
  <2>1. CASE AlreadyMounted(w)
    BY <2>1 DEF AlreadyMounted, Answer, Released, hostVars
  <2>2. CASE PrepareTarget(w)
    BY <2>2 DEF PrepareTarget, Continue
  <2>3. CASE Mount(w)
    BY <2>3 DEF Mount, Continue
  <2>4. CASE RejectReadAhead(w)
    BY <2>4 DEF RejectReadAhead, Answer, Released, hostVars
  <2>5. CASE NoReadAhead(w)
    BY <2>5 DEF NoReadAhead, Answer, Released, hostVars
  <2>6. CASE WriteReadAhead(w)
    BY <2>6 DEF WriteReadAhead, Continue
  <2>7. CASE VerifyReadAhead(w)
    BY <2>7 DEF VerifyReadAhead, Answer, Released, hostVars
  <2> QED
    BY <1>3, <2>1, <2>2, <2>3, <2>4, <2>5, <2>6, <2>7 DEF PublishStep
<1>4. ASSUME NEW w \in Workers, UnpublishStep(w) PROVE TypeOK'
  <2>1. CASE CleanupUnmounted(w)
    BY <2>1 DEF CleanupUnmounted, Answer, Released
  <2>2. CASE Unmount(w)
    BY <2>2 DEF Unmount, Continue
  <2>3. CASE RemoveTarget(w)
    BY <2>3 DEF RemoveTarget, Answer, Released
  <2> QED
    BY <1>4, <2>1, <2>2, <2>3 DEF UnpublishStep
<1>5. ASSUME NEW w \in Workers, StepFails(w) PROVE TypeOK'
  BY <1>5 DEF StepFails, Answer, Released, hostVars
<1>6. CASE Restart
  BY <1>6 DEF Restart, NewVolumeLocks, hostVars
<1>7. CASE UNCHANGED vars
  BY <1>7 DEF vars
<1> QED
  BY <1>1, <1>2, <1>3, <1>4, <1>5, <1>6, <1>7 DEF Next

\* A call takes a free lock.
LEMMA CallInvs ==
    ASSUME MountInv, NEW w \in Workers, NEW t \in Targets,
           NEW first \in {"check", "cleanup"}, Call(w, first, t)
    PROVE  /\ LocksInv'
           /\ \A x \in Workers : CallInv(x)'
           /\ \A u \in Targets : TargetInv(u)'
<1> USE DEF MountInv, TypeOK, LocksInv, CallInv, TargetInv, Active, Call,
            TryAcquire, Acquired, hostVars
<1>1. LocksInv'
  OBVIOUS
<1>2. \A x \in Workers : CallInv(x)'
  OBVIOUS
<1>3. \A u \in Targets : TargetInv(u)'
  OBVIOUS
<1> QED
  BY <1>1, <1>2, <1>3

\* A call that returns releases its own lock and no other.
LEMMA AnswerLocks ==
    ASSUME TypeOK, LocksInv, NEW w \in Workers, Active(w),
           NEW news \in {"published", "clean", "unknown"}, Answer(w, news)
    PROVE  LocksInv'
BY DEF TypeOK, LocksInv, Active, Answer, Released

\* A step inside a call leaves the locks alone.
LEMMA ContinueLocks ==
    ASSUME TypeOK, LocksInv, NEW w \in Workers, Active(w),
           NEW next \in {"mount", "setup", "verify", "remove"},
           Continue(w, next)
    PROVE  LocksInv'
BY DEF TypeOK, LocksInv, Active, Continue

\* Every step keeps MountInv. That no other call works on the target of a call
\* makes what it found out about it stay true.
LEMMA MountStep == ASSUME MountInv, [Next]_vars PROVE MountInv'
<1> DEFINE Rest == /\ LocksInv'
                   /\ \A x \in Workers : CallInv(x)'
                   /\ \A u \in Targets : TargetInv(u)'
<1>1. ASSUME NEW w \in Workers, NEW t \in Targets,
             NodePublishVolume(w, t) \/ NodeUnpublishVolume(w, t)
      PROVE  Rest
  BY SMTT(60), <1>1, CallInvs DEF NodePublishVolume, NodeUnpublishVolume
<1>2. ASSUME NEW w \in Workers, PublishStep(w) PROVE Rest
  <2> USE DEF MountInv, TypeOK, LocksInv, CallInv, TargetInv, Active
  <2>1. ASSUME AlreadyMounted(w) PROVE Rest
    <3>1. LocksInv'
      BY <2>1, AnswerLocks DEF AlreadyMounted
    <3> QED
      BY <2>1, <3>1 DEF AlreadyMounted, Answer, hostVars
  <2>2. ASSUME PrepareTarget(w) PROVE Rest
    <3>1. LocksInv'
      BY <2>2, ContinueLocks DEF PrepareTarget
    <3> QED
      BY <2>2, <3>1 DEF PrepareTarget, Continue
  <2>3. ASSUME Mount(w) PROVE Rest
    <3>1. LocksInv'
      BY <2>3, ContinueLocks DEF Mount
    <3> QED
      BY <2>3, <3>1 DEF Mount, Continue
  <2>4. ASSUME RejectReadAhead(w) PROVE Rest
    <3>1. LocksInv'
      BY <2>4, AnswerLocks DEF RejectReadAhead
    <3> QED
      BY <2>4, <3>1 DEF RejectReadAhead, Answer, hostVars
  <2>5. ASSUME NoReadAhead(w) PROVE Rest
    <3>1. LocksInv'
      BY <2>5, AnswerLocks DEF NoReadAhead
    <3> QED
      BY <2>5, <3>1 DEF NoReadAhead, Answer, hostVars
  <2>6. ASSUME WriteReadAhead(w) PROVE Rest
    <3>1. LocksInv'
      BY <2>6, ContinueLocks DEF WriteReadAhead
    <3> QED
      BY <2>6, <3>1 DEF WriteReadAhead, Continue
  <2>7. ASSUME VerifyReadAhead(w) PROVE Rest
    <3>1. LocksInv'
      BY <2>7, AnswerLocks DEF VerifyReadAhead
    <3> QED
      BY <2>7, <3>1 DEF VerifyReadAhead, Answer, hostVars
  <2> QED
    BY <1>2, <2>1, <2>2, <2>3, <2>4, <2>5, <2>6, <2>7 DEF PublishStep
<1>3. ASSUME NEW w \in Workers, UnpublishStep(w) PROVE Rest
  <2> USE DEF MountInv, TypeOK, LocksInv, CallInv, TargetInv, Active
  <2>1. ASSUME CleanupUnmounted(w) PROVE Rest
    <3>1. LocksInv'
      BY <2>1, AnswerLocks DEF CleanupUnmounted
    <3> QED
      BY <2>1, <3>1 DEF CleanupUnmounted, Answer
  <2>2. ASSUME Unmount(w) PROVE Rest
    <3>1. LocksInv'
      BY <2>2, ContinueLocks DEF Unmount
    <3> QED
      BY <2>2, <3>1 DEF Unmount, Continue
  <2>3. ASSUME RemoveTarget(w) PROVE Rest
    <3>1. LocksInv'
      BY <2>3, AnswerLocks DEF RemoveTarget
    <3> QED
      BY <2>3, <3>1 DEF RemoveTarget, Answer
  <2> QED
    BY <1>3, <2>1, <2>2, <2>3 DEF UnpublishStep
<1>4. ASSUME NEW w \in Workers, StepFails(w) PROVE Rest
  <2>1. LocksInv'
    BY <1>4, AnswerLocks DEF StepFails, MountInv, Active
  <2> QED
    BY <1>4, <2>1
    DEF StepFails, Answer, hostVars, MountInv, TypeOK, LocksInv, CallInv,
        TargetInv, Active
<1>5. ASSUME Restart PROVE Rest
  BY <1>5
  DEF Restart, NewVolumeLocks, hostVars, MountInv, TypeOK, LocksInv, CallInv,
      TargetInv, Active
<1>6. ASSUME UNCHANGED vars PROVE Rest
  BY <1>6 DEF vars, MountInv, LocksInv, CallInv, TargetInv, Active
<1>7. TypeOK'
  BY NodeTypeStep DEF MountInv
<1> QED
  BY <1>1, <1>2, <1>3, <1>4, <1>5, <1>6, <1>7 DEF Next, MountInv

\* The first state has nothing mounted and no call.
LEMMA MountInit == Init => MountInv
BY DEF Init, MountInv, TypeOK, LocksInv, CallInv, TargetInv, Active,
       NewVolumeLocks

\* Every variable of the node server and of the host keeps its type.
THEOREM NodeTypeCorrect == Spec => []TypeOK
<1>1. MountInv => TypeOK
  BY DEF MountInv
<1> QED
  BY <1>1, MountInit, MountStep, PTL DEF Spec

\* No interleaving of calls, failures and restarts mounts a share twice at one
\* target path.
THEOREM NeverStacked == Spec => []MountsNeverStack
<1>1. MountInv => MountsNeverStack
  BY DEF MountInv, TargetInv, MountsNeverStack
<1> QED
  BY <1>1, MountInit, MountStep, PTL DEF Spec

\* What NodePublishVolume and NodeUnpublishVolume answer is true of the host
\* until the next call for the target.
THEOREM AnswersHold == Spec => []AnswersTrue
<1>1. MountInv => AnswersTrue
  BY DEF MountInv, TargetInv, AnswersTrue
<1> QED
  BY <1>1, MountInit, MountStep, PTL DEF Spec

=============================================================================
