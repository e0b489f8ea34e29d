------------------------- MODULE JobExecutionProofs -------------------------
(***************************************************************************)
(* What the lock of a scheduled job is worth, for any workers, any lock    *)
(* timeout, and whatever fails or takes long: executions overlap for the   *)
(* causes of OverlapsHaveACause only, and the failures are miscounted only *)
(* where executions overlapped.                                            *)
(***************************************************************************)
EXTENDS JobExecution, TLAPS

\* The document and the workers start out with their types.
LEMMA TypeCorrectInit == Init => TypeOK
<1>1. Init => /\ exists \in BOOLEAN /\ enabled \in BOOLEAN /\ locked \in BOOLEAN
              /\ due \in BOOLEAN /\ crowded \in BOOLEAN
  BY Zenon DEF Init
<1>2. QED
  BY <1>1 DEF Init, TypeOK, PCs, Holding

\* Each field of the job document and each local of a worker keeps its type.
THEOREM TypeCorrect == Spec => []TypeOK
<1>1. Init => TypeOK
  BY TypeCorrectInit
<1>2. TypeOK /\ [Next]_vars => TypeOK'
  <2> SUFFICES ASSUME TypeOK, [Next]_vars PROVE TypeOK'
    OBVIOUS
  <2> USE DEF TypeOK, PCs, Holding, jobVars, workerVars, lockHistory, Goto, Forget
  <2>1. ASSUME NEW w \in Dispatchers, ListDue(w) PROVE TypeOK'
    BY <2>1 DEF ListDue, Workers
  <2>2. ASSUME NEW w \in Callers, Execute(w) PROVE TypeOK'
    BY <2>2 DEF Execute, Workers
  <2>3. ASSUME NEW w \in Workers, ReadLock(w) PROVE TypeOK'
    BY <2>3 DEF ReadLock
  <2>4. ASSUME NEW w \in Workers, TakeLock(w) PROVE TypeOK'
    <3>1. /\ exists' \in BOOLEAN /\ enabled' \in BOOLEAN /\ locked' \in BOOLEAN
          /\ due' \in BOOLEAN /\ crowded' \in BOOLEAN
      BY <2>4, Zenon DEF TakeLock, NoteTaker
    <3>2. takenSince' \in [Workers -> SUBSET Workers] /\ evicted' \subseteq Workers
      BY <2>4 DEF TakeLock, NoteTaker
    <3>3. /\ lockAge' \in Nat /\ lastId' \in Ids \cup {FreshId}
          /\ pc' \in [Workers -> PCs] /\ age' \in [Workers -> Nat]
      BY <2>4 DEF TakeLock
    <3>4. /\ UNCHANGED <<failures, crashes, failed, retry, retrySeen, failuresSeen>>
          /\ id' \in [Workers -> Ids \cup {FreshId}]
      BY <2>4 DEF TakeLock
    <3>5. QED
      BY <3>1, <3>2, <3>3, <3>4
  <2>5. ASSUME NEW w \in Workers, GetJob(w) PROVE TypeOK'
    <3>1. retrySeen' \in [Workers -> BOOLEAN]
      BY <2>5, Zenon DEF GetJob
    <3>2. pc' \in [Workers -> PCs]
      BY <2>5 DEF GetJob
    <3>3. UNCHANGED <<jobVars, id, age, failuresSeen, crashes, failed, lockHistory>>
      BY <2>5 DEF GetJob
    <3>4. QED
      BY <3>1, <3>2, <3>3
  <2>6. ASSUME NEW w \in Workers, RunSucceeds(w) \/ RunFails(w) \/ RunIsRateLimited(w)
        PROVE TypeOK'
    BY <2>6 DEF RunSucceeds, RunFails, RunIsRateLimited
  <2>7. ASSUME NEW w \in Workers, ScheduleRetry(w) \/ ClearRetry(w) PROVE TypeOK'
    BY <2>7 DEF ScheduleRetry, ClearRetry
  <2>8. ASSUME NEW w \in Workers, ReleaseSuccess(w) PROVE TypeOK'
    <3>1. /\ exists' \in BOOLEAN /\ enabled' \in BOOLEAN /\ locked' \in BOOLEAN
          /\ due' \in BOOLEAN /\ crowded' \in BOOLEAN
      BY <2>8, Zenon DEF ReleaseSuccess, FreeLock
    <3>2. QED
      BY <2>8, <3>1 DEF ReleaseSuccess, FreeLock, Holders
  <2>9. ASSUME NEW w \in Workers, ReadFailures(w) PROVE TypeOK'
    <3>1. /\ exists' \in BOOLEAN /\ enabled' \in BOOLEAN /\ locked' \in BOOLEAN
          /\ due' \in BOOLEAN /\ crowded' \in BOOLEAN
      BY <2>9, Zenon DEF ReadFailures
    <3>2. QED
      BY <2>9, <3>1 DEF ReadFailures
  <2>10. ASSUME NEW w \in Workers, ReleaseFailure(w) PROVE TypeOK'
    <3>1. /\ exists' \in BOOLEAN /\ enabled' \in BOOLEAN /\ locked' \in BOOLEAN
          /\ due' \in BOOLEAN /\ crowded' \in BOOLEAN
      BY <2>10, Zenon DEF ReleaseFailure, FreeLock
    <3>2. QED
      BY <2>10, <3>1 DEF ReleaseFailure, FreeLock, Holders
  <2>11. ASSUME NEW w \in Workers, Crash(w) PROVE TypeOK'
    BY <2>11 DEF Crash
  <2>12. ASSUME SetEnabled \/ DeleteJob \/ ScheduleComesRound \/ RetryComesDue PROVE TypeOK'
    BY <2>12 DEF SetEnabled, DeleteJob, ScheduleComesRound, RetryComesDue
  <2>13. ASSUME Tick PROVE TypeOK'
    BY <2>13 DEF Tick
  <2>14. ASSUME UNCHANGED vars PROVE TypeOK'
    BY <2>14 DEF vars
  <2>15. QED
    BY <2>1, <2>2, <2>3, <2>4, <2>5, <2>6, <2>7, <2>8, <2>9, <2>10, <2>11, <2>12, <2>13,
       <2>14 DEF Next, Step
<1>3. QED
  BY <1>1, <1>2, PTL DEF Spec
-----------------------------------------------------------------------------
(* Why executions overlap.  The lock of an execution that nobody has         *)
(* released is still set and not older than the execution, so that a worker  *)
(* finds it free only when the execution has outlived it; and what a worker  *)
(* found when it read the lock stays true of every execution but those that  *)
(* began since.                                                              *)

LocksAreKept ==
  \A u \in Holders : u \notin evicted => locked /\ lockAge <= age[u]

Excused(w, u) == u \in takenSince[w] \/ age[u] >= LockTimeout \/ u \in evicted

TakersAreExcused ==
  \A w \in Workers : pc[w] = "take" => \A u \in Holders : Excused(w, u)

LockInv == TypeOK /\ LocksAreKept /\ TakersAreExcused

\* Every step keeps the invariant of the lock.
LEMMA LockInvStep ==
  ASSUME LockInv, TypeOK', [Next]_vars
  PROVE  LockInv'
<1> DEFINE Kept == LocksAreKept' /\ TakersAreExcused'
<1> SUFFICES Kept
  BY DEF LockInv
<1> USE DEF LockInv, TypeOK, LocksAreKept, TakersAreExcused, Excused, Holders, Holding, Goto,
            Forget, workerVars, jobVars, lockHistory
<1>1. ASSUME NEW w \in Workers, ListDue(w) \/ Execute(w) PROVE Kept
  BY <1>1 DEF ListDue, Execute
<1>2. ASSUME NEW w \in Workers, ReadLock(w) PROVE Kept
  <2>1. LocksAreKept'
    BY <1>2 DEF ReadLock
  <2>2. ASSUME NEW u \in Workers, pc'[u] = "take", NEW v \in Holders' PROVE Excused(u, v)'
    <3>1. v \in Holders /\ age'[v] = age[v] /\ evicted' = evicted
      BY <1>2 DEF ReadLock
    <3>2. CASE u = w
      <4>1. LockFree
        BY <1>2, <2>2, <3>2 DEF ReadLock
      <4>2. age[v] \in Nat /\ LockTimeout \in Nat /\ lockAge \in Nat
        BY LimitsAssumption DEF ReadLock
      <4>3. QED
        BY <3>1, <4>1, <4>2 DEF LockFree
    <3>3. CASE u # w
      BY <1>2, <2>2, <3>1, <3>3 DEF ReadLock
    <3>4. QED
      BY <3>2, <3>3
  <2>3. QED
    BY <2>1, <2>2
<1>3. ASSUME NEW w \in Workers, TakeLock(w) PROVE Kept
  BY <1>3 DEF TakeLock, NoteTaker
<1>4. ASSUME NEW w \in Workers, GetJob(w) PROVE Kept
  BY <1>4 DEF GetJob
<1>5. ASSUME NEW w \in Workers, RunSucceeds(w) \/ RunFails(w) \/ RunIsRateLimited(w)
      PROVE  Kept
  BY <1>5 DEF RunSucceeds, RunFails, RunIsRateLimited
<1>6. ASSUME NEW w \in Workers, ScheduleRetry(w) \/ ClearRetry(w) PROVE Kept
  BY <1>6 DEF ScheduleRetry, ClearRetry
<1>7. ASSUME NEW w \in Workers, ReleaseSuccess(w) PROVE Kept
  BY <1>7 DEF ReleaseSuccess, FreeLock
<1>8. ASSUME NEW w \in Workers, ReadFailures(w) PROVE Kept
  BY <1>8 DEF ReadFailures
<1>9. ASSUME NEW w \in Workers, ReleaseFailure(w) PROVE Kept
  BY <1>9 DEF ReleaseFailure, FreeLock
<1>10. ASSUME NEW w \in Workers, Crash(w) PROVE Kept
  BY <1>10 DEF Crash
<1>11. ASSUME SetEnabled \/ DeleteJob \/ ScheduleComesRound \/ RetryComesDue PROVE Kept
  BY <1>11 DEF SetEnabled, DeleteJob, ScheduleComesRound, RetryComesDue
<1>12. ASSUME Tick PROVE Kept
  <2>1. ASSUME NEW u \in Holders PROVE age'[u] = IF age[u] < LockTimeout THEN age[u] + 1 ELSE age[u]
    BY <1>12 DEF Tick
  <2>2. QED
    BY <1>12, <2>1, LimitsAssumption DEF Tick
<1>13. ASSUME UNCHANGED vars PROVE Kept
  BY <1>13 DEF vars
<1>14. QED
  BY <1>1, <1>2, <1>3, <1>4, <1>5, <1>6, <1>7, <1>8, <1>9, <1>10, <1>11, <1>12, <1>13
  DEF Next, Step, Workers

\* The invariant of the lock holds throughout.
LEMMA LockInvariant == Spec => []LockInv
<1>1. Init => LockInv
  BY TypeCorrectInit DEF Init, LockInv, LocksAreKept, TakersAreExcused, Holders, Holding
<1>2. LockInv /\ TypeOK' /\ [Next]_vars => LockInv'
  BY LockInvStep
<1>3. QED
  BY <1>1, <1>2, TypeCorrect, PTL DEF Spec

\* An execution begins alongside another only if that one took the lock after
\* this one's worker read it, has outlived the lock, or lost it to a release.
THEOREM OverlapsAreExplained == Spec => OverlapsHaveACause
<1> DEFINE Begun == \A w \in Holders' \ Holders : \A u \in Holders : Excused(w, u)
<1>1. ASSUME LockInv, [Next]_vars PROVE Begun
  <2>1. ASSUME NEW w \in Holders' \ Holders PROVE pc[w] = "take"
    <3> USE <1>1 DEF LockInv, TypeOK, Holders, Holding, PCs, Goto
    <3>1. ASSUME NEW u \in Workers, ListDue(u) \/ Execute(u) \/ ReadLock(u) PROVE FALSE
      BY <2>1, <3>1 DEF ListDue, Execute, ReadLock
    <3>2. ASSUME NEW u \in Workers, TakeLock(u) PROVE pc[w] = "take"
      BY <2>1, <3>2 DEF TakeLock
    <3>3. ASSUME NEW u \in Workers,
                 GetJob(u) \/ RunSucceeds(u) \/ RunFails(u) \/ RunIsRateLimited(u)
                 \/ ScheduleRetry(u) \/ ClearRetry(u)
          PROVE  FALSE
      BY <2>1, <3>3 DEF GetJob, RunSucceeds, RunFails, RunIsRateLimited, ScheduleRetry, ClearRetry
    <3>4. ASSUME NEW u \in Workers,
                 ReleaseSuccess(u) \/ ReadFailures(u) \/ ReleaseFailure(u) \/ Crash(u)
          PROVE  FALSE
      BY <2>1, <3>4 DEF ReleaseSuccess, ReadFailures, ReleaseFailure, Crash
    <3>5. ASSUME SetEnabled \/ DeleteJob \/ ScheduleComesRound \/ RetryComesDue \/ Tick
                 \/ UNCHANGED vars
          PROVE  FALSE
      BY <2>1, <3>5 DEF SetEnabled, DeleteJob, ScheduleComesRound, RetryComesDue, Tick, vars
    <3>6. QED
      BY <1>1, <3>1, <3>2, <3>3, <3>4, <3>5 DEF Next, Step, Workers
  <2>2. QED
    BY <1>1, <2>1 DEF LockInv, TakersAreExcused, Holders
<1>2. LockInv /\ [Next]_vars => [Begun]_vars
  BY <1>1
<1>3. QED
  BY <1>2, LockInvariant, PTL DEF Spec, OverlapsHaveACause, Excused
-----------------------------------------------------------------------------
(* Why failures are miscounted.  The count is read in one step and written   *)
(* back in another, which is right as long as nobody else records anything   *)
(* in between.                                                               *)

CountInv ==
  ~crowded =>
    /\ failures = failed
    /\ \A u, w \in Recorders : u = w
    /\ \A w \in Workers : pc[w] \in {"count", "blamed"} => failuresSeen[w] = failures

\* Every step keeps the count right, or crowds the job.
LEMMA CountInvStep ==
  ASSUME TypeOK, CountInv, [Next]_vars
  PROVE  CountInv'
<1> USE DEF TypeOK, CountInv, Recorders, Holding, Goto, Forget, workerVars, jobVars,
            lockHistory
<1>1. ASSUME NEW w \in Workers, ListDue(w) \/ Execute(w) PROVE CountInv'
  BY <1>1 DEF ListDue, Execute
<1>2. ASSUME NEW w \in Workers, ReadLock(w) \/ GetJob(w) PROVE CountInv'
  BY <1>2 DEF ReadLock, GetJob
<1>3. ASSUME NEW w \in Workers, TakeLock(w) PROVE CountInv'
  BY <1>3 DEF TakeLock, NoteTaker
<1>4. ASSUME NEW w \in Workers, RunSucceeds(w) \/ RunFails(w) \/ RunIsRateLimited(w)
      PROVE  CountInv'
  BY <1>4 DEF RunSucceeds, RunFails, RunIsRateLimited
<1>5. ASSUME NEW w \in Workers, ScheduleRetry(w) \/ ClearRetry(w) PROVE CountInv'
  BY <1>5 DEF ScheduleRetry, ClearRetry
<1>6. ASSUME NEW w \in Workers, ReleaseSuccess(w) PROVE CountInv'
  BY <1>6 DEF ReleaseSuccess, FreeLock
<1>7. ASSUME NEW w \in Workers, ReadFailures(w) PROVE CountInv'
  BY <1>7 DEF ReadFailures
<1>8. ASSUME NEW w \in Workers, ReleaseFailure(w) PROVE CountInv'
  BY <1>8 DEF ReleaseFailure, FreeLock
<1>9. ASSUME NEW w \in Workers, Crash(w) PROVE CountInv'
  BY <1>9 DEF Crash
<1>10. ASSUME SetEnabled \/ DeleteJob \/ ScheduleComesRound \/ RetryComesDue \/ Tick
       PROVE  CountInv'
  BY <1>10 DEF SetEnabled, DeleteJob, ScheduleComesRound, RetryComesDue, Tick
<1>11. ASSUME UNCHANGED vars PROVE CountInv'
  BY <1>11 DEF vars
<1>12. QED
  BY <1>1, <1>2, <1>3, <1>4, <1>5, <1>6, <1>7, <1>8, <1>9, <1>10, <1>11 DEF Next, Step, Workers

\* consecutive_failures is wrong only if executions overlapped, or one recorded
\* a failure after its release, since the last success recorded by one alone.
THEOREM MiscountsAreExplained == Spec => []MiscountsNeedOverlap
<1>1. Init => CountInv
  BY DEF Init, CountInv, Recorders, Holding
<1>2. TypeOK /\ CountInv /\ [Next]_vars => CountInv'
  BY CountInvStep
<1>3. TypeOK /\ CountInv => MiscountsNeedOverlap
  BY DEF CountInv, MiscountsNeedOverlap, TypeOK
<1>4. QED
  BY <1>1, <1>2, <1>3, TypeCorrect, PTL DEF Spec
=============================================================================
