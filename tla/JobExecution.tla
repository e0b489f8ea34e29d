---------------------------- MODULE JobExecution ----------------------------
(***************************************************************************)
(* The execution of one scheduled job.                                     *)
(*                                                                         *)
(* A dispatcher is a request to /scheduled-jobs/process: it lists the due  *)
(* jobs and executes them one after the other.  A caller is a request to   *)
(* /scheduled-jobs/{id}/execute, which names the execution.  Both run      *)
(* ScheduledJobExecutorV2.execute_job on a job document whose              *)
(* execution_started_at is the lock.  The lock is read and then written,   *)
(* and every `await` of the code ends an action.                           *)
(*                                                                         *)
(* Of the conversation an execution drives (SessionRuns) only the outcome  *)
(* is kept here.  Time is kept as ages, so that behaviours may be endless. *)
(***************************************************************************)
EXTENDS Naturals, FiniteSets

CONSTANTS
  Dispatchers, Callers,
  Ids,            \* the execution ids callers pass
  FreshId,        \* stands for the uuid of a dispatch: never seen before
  LockTimeout,    \* scheduled_job_lock_timeout_seconds
  Faults,         \* which Firestore calls may fail
  MaxFailed,      \* bound on the failures in a row
  MaxCrashes      \* bound on the workers lost with their instance

Workers == Dispatchers \cup Callers

ASSUME WorkersAssumption == Dispatchers \cap Callers = {} /\ FreshId \notin Ids
ASSUME LimitsAssumption ==
  /\ {LockTimeout, MaxFailed, MaxCrashes} \subseteq Nat
  /\ Faults \subseteq {"acquire", "get", "retry", "clear", "release"}

VARIABLES
  exists, enabled,  \* the job document
  locked, lockAge,  \* execution_started_at: set, and how long ago
  lastId,           \* last_execution_id
  failures,         \* consecutive_failures
  due,              \* the schedule has come round since last_execution_at
  retry,            \* retry_at: "none", "waiting" or "due"
  pc,               \* where each worker is
  id,               \* the execution id it uses
  age,              \* how long ago it took the lock, up to LockTimeout
  retrySeen,        \* whether job.retry_at was set as it read the job
  failuresSeen,     \* consecutive_failures as it read them
  crashes,          \* workers lost so far
  \* for the properties only:
  failed,           \* the failures recorded since the last success
  takenSince,       \* who took the lock since a worker read it
  evicted,          \* whose lock was released by another while it held it
  crowded           \* executions overlapped since a success recorded by one alone

jobVars    == <<exists, enabled, locked, lockAge, lastId, failures, due, retry>>
workerVars == <<id, age, retrySeen, failuresSeen>>
lockHistory == <<takenSince, evicted, crowded>>
vars == <<jobVars, pc, workerVars, crashes, failed, lockHistory>>

\* From taking the lock up to the write that releases it.
Holding == {"get", "run", "limited", "succeed", "skip", "fail", "count"}
Holders == {w \in Workers : pc[w] \in Holding}

\* Whoever may still record an outcome on the strength of what it has read.
Recorders == {w \in Workers : pc[w] \in Holding \cup {"blamed"}}

Init ==
  /\ exists = TRUE /\ enabled \in BOOLEAN
  /\ locked = FALSE /\ lockAge = 0 /\ lastId = FreshId
  /\ failures = 0 /\ due = FALSE /\ retry = "none"
  /\ pc = [w \in Workers |-> "idle"]
  /\ id = [w \in Workers |-> FreshId]
  /\ age = [w \in Workers |-> 0]
  /\ retrySeen = [w \in Workers |-> FALSE]
  /\ failuresSeen = [w \in Workers |-> 0]
  /\ crashes = 0 /\ failed = 0
  /\ takenSince = [w \in Workers |-> {}] /\ evicted = {} /\ crowded = FALSE

Goto(w, from, to) == pc[w] = from /\ pc' = [pc EXCEPT ![w] = to]

\* A local that is not read again is forgotten.
Forget(w, local, initial) == [local EXCEPT ![w] = initial]
-----------------------------------------------------------------------------
(* Who executes the job *)

\* get_due_jobs; the jobs listed before this one are executed first.
ListDue(w) ==
  /\ exists /\ enabled
  /\ due \/ retry = "due"
  /\ Goto(w, "idle", "acquire")
  /\ id' = [id EXCEPT ![w] = FreshId]
  /\ UNCHANGED <<jobVars, age, retrySeen, failuresSeen, crashes, failed, lockHistory>>

\* execute_scheduled_job: due or not.
Execute(w) ==
  /\ Goto(w, "idle", "acquire")
  /\ \E i \in Ids : id' = [id EXCEPT ![w] = i]
  /\ UNCHANGED <<jobVars, age, retrySeen, failuresSeen, crashes, failed, lockHistory>>
-----------------------------------------------------------------------------
(* acquire_job_execution_lock *)

\* Mutant: a lock that is set is respected for ever.
LockFreeNeverExpires == ~locked

LockFree == ~locked \/ lockAge >= LockTimeout

\* The read, and the checks on what was read.
ReadLock(w) ==
  /\ \/ /\ exists /\ enabled /\ LockFree
        /\ id[w] = FreshId \/ id[w] # lastId
        /\ Goto(w, "acquire", "take")
        /\ UNCHANGED id
     \/ /\ \/ ~exists \/ ~enabled \/ ~LockFree
           \/ id[w] # FreshId /\ id[w] = lastId
           \/ "acquire" \in Faults
        /\ Goto(w, "acquire", "idle")
        /\ id' = Forget(w, id, FreshId)
  /\ takenSince' = [takenSince EXCEPT ![w] = {}]
  /\ UNCHANGED <<jobVars, age, retrySeen, failuresSeen, crashes, failed, evicted, crowded>>

NoteTaker(w) ==
  /\ takenSince' = [u \in Workers |->
                     IF pc[u] = "take" /\ u # w THEN takenSince[u] \cup {w} ELSE {}]
  /\ evicted' = evicted \ {w}
  /\ crowded' = (crowded \/ Recorders # {})

\* Mutant: a lock that is taken over keeps its old time.
TakeLockKeepsAge(w) ==
  /\ exists
  /\ Goto(w, "take", "get")
  /\ locked' = TRUE /\ lastId' = id[w]
  /\ age' = [age EXCEPT ![w] = 0] /\ id' = Forget(w, id, FreshId)
  /\ NoteTaker(w)
  /\ UNCHANGED <<exists, enabled, lockAge, failures, due, retry, retrySeen, failuresSeen,
                 crashes, failed>>

\* The write, whatever the document holds by now; it raises if there is none.
TakeLock(w) ==
  /\ \/ /\ exists
        /\ Goto(w, "take", "get")
        /\ locked' = TRUE /\ lockAge' = 0
        /\ lastId' = id[w]
        /\ age' = [age EXCEPT ![w] = 0]
        /\ NoteTaker(w)
     \/ /\ ~exists \/ "acquire" \in Faults
        /\ Goto(w, "take", "idle")
        /\ takenSince' = Forget(w, takenSince, {})
        /\ UNCHANGED <<locked, lockAge, lastId, age, evicted, crowded>>
  /\ id' = Forget(w, id, FreshId)
  /\ UNCHANGED <<exists, enabled, failures, due, retry, retrySeen, failuresSeen,
                 crashes, failed>>
-----------------------------------------------------------------------------
(* execute_job *)

\* get_scheduled_job: nothing is released when it returns None, for a missing
\* document or any error; a job disabled meanwhile is released as a success.
GetJob(w) ==
  /\ \/ /\ exists /\ enabled /\ Goto(w, "get", "run")
        /\ retrySeen' = [retrySeen EXCEPT ![w] = (retry # "none")]
     \/ exists /\ ~enabled /\ Goto(w, "get", "skip") /\ UNCHANGED retrySeen
     \/ (~exists \/ "get" \in Faults) /\ Goto(w, "get", "idle") /\ UNCHANGED retrySeen
  /\ UNCHANGED <<jobVars, id, age, failuresSeen, crashes, failed, lockHistory>>

\* The agent replied and the reply was delivered, or it was a [SILENT] one.
RunSucceeds(w) ==
  /\ Goto(w, "run", "succeed")
  /\ UNCHANGED <<jobVars, workerVars, crashes, failed, lockHistory>>

\* The bound: one more failure is allowed.
MayFail == failed < MaxFailed /\ failures < MaxFailed
           /\ \A u \in Workers : pc[u] \in {"count", "blamed"} => failuresSeen[u] < MaxFailed

\* No agent, identity or connector; an empty reply; or an exception, on the way
\* to the agent or on the way back to the user.
RunFails(w) ==
  /\ MayFail
  /\ Goto(w, "run", "fail")
  /\ retrySeen' = Forget(w, retrySeen, FALSE)
  /\ UNCHANGED <<jobVars, id, age, failuresSeen, crashes, failed, lockHistory>>

\* ResourceExhaustedError.
RunIsRateLimited(w) ==
  /\ Goto(w, "run", "limited")
  /\ retrySeen' = Forget(w, retrySeen, FALSE)
  /\ UNCHANGED <<jobVars, id, age, failuresSeen, crashes, failed, lockHistory>>

\* A retry is scheduled; an error there leaves execute_job, and the lock, behind.
ScheduleRetry(w) ==
  /\ \/ exists /\ Goto(w, "limited", "skip") /\ retry' = "waiting"
     \/ (~exists \/ "retry" \in Faults) /\ Goto(w, "limited", "idle") /\ UNCHANGED retry
  /\ UNCHANGED <<exists, enabled, locked, lockAge, lastId, failures, due, workerVars,
                 crashes, failed, lockHistory>>

\* retry_at is cleared after a success if the execution had read one.  An error
\* there is handled like one of the run: the failure is recorded.
ClearRetry(w) ==
  /\ \/ exists /\ Goto(w, "clear", "idle") /\ retry' = "none"
     \/ /\ ~exists \/ ("clear" \in Faults /\ MayFail)
        /\ Goto(w, "clear", "blame")
        /\ UNCHANGED retry
  /\ UNCHANGED <<exists, enabled, locked, lockAge, lastId, failures, due, workerVars,
                 crashes, failed, lockHistory>>
-----------------------------------------------------------------------------
(* release_job_execution_lock: whoever holds the lock by now; never raises *)

\* The lock is free, whoever wrote it.
FreeLock(w) ==
  /\ locked' = FALSE /\ lockAge' = 0
  /\ due' = FALSE
  /\ evicted' = (evicted \cup Holders) \ {w}

\* Mutant: the failures in a row survive a success.
ReleaseSuccessKeepsFailures(w) ==
  /\ \E to \in {"clear", "idle"} :
       /\ Goto(w, "succeed", to) \/ (to = "idle" /\ Goto(w, "skip", to))
       /\ (to = "clear") = (pc[w] = "succeed" /\ retrySeen[w])
  /\ FreeLock(w)
  /\ failed' = 0 /\ crowded' = (crowded /\ Recorders # {w})
  /\ retrySeen' = Forget(w, retrySeen, FALSE)
  /\ UNCHANGED <<exists, enabled, lastId, failures, retry, id, age, failuresSeen, crashes,
                 takenSince>>

ReleaseSuccess(w) ==
  /\ \/ Goto(w, "succeed", IF retrySeen[w] THEN "clear" ELSE "idle")
     \/ Goto(w, "skip", "idle")
  /\ \/ /\ exists
        /\ FreeLock(w)
        /\ failures' = 0 /\ failed' = 0
        /\ crowded' = (crowded /\ Recorders # {w})
     \/ /\ ~exists \/ "release" \in Faults
        /\ UNCHANGED <<locked, lockAge, failures, due, failed, evicted, crowded>>
  /\ retrySeen' = Forget(w, retrySeen, FALSE)
  /\ UNCHANGED <<exists, enabled, lastId, retry, id, age, failuresSeen, crashes, takenSince>>

\* The failures are read ...
ReadFailures(w) ==
  /\ \/ /\ exists
        /\ Goto(w, "fail", "count") \/ Goto(w, "blame", "blamed")
        /\ failuresSeen' = [failuresSeen EXCEPT ![w] = failures]
     \/ /\ ~exists \/ "release" \in Faults
        /\ Goto(w, "fail", "idle") \/ Goto(w, "blame", "idle")
        /\ UNCHANGED failuresSeen
  /\ crowded' = (crowded \/ Recorders \ {w} # {})
  /\ UNCHANGED <<jobVars, id, age, retrySeen, crashes, failed, takenSince, evicted>>

\* Mutant: the failures are counted down.
ReleaseFailureCountsDown(w) ==
  /\ Goto(w, "count", "idle") \/ Goto(w, "blamed", "idle")
  /\ exists
  /\ FreeLock(w)
  /\ failures' = failuresSeen[w] - 1 /\ failed' = failed + 1
  /\ failuresSeen' = Forget(w, failuresSeen, 0)
  /\ UNCHANGED <<exists, enabled, lastId, retry, id, age, retrySeen, crashes, takenSince,
                 crowded>>

\* ... and written back with the release.
ReleaseFailure(w) ==
  /\ Goto(w, "count", "idle") \/ Goto(w, "blamed", "idle")
  /\ \/ /\ exists
        /\ FreeLock(w)
        /\ failures' = failuresSeen[w] + 1 /\ failed' = failed + 1
     \/ /\ ~exists \/ "release" \in Faults
        /\ UNCHANGED <<locked, lockAge, failures, due, failed, evicted>>
  /\ failuresSeen' = Forget(w, failuresSeen, 0)
  /\ UNCHANGED <<exists, enabled, lastId, retry, id, age, retrySeen, crashes, takenSince,
                 crowded>>
-----------------------------------------------------------------------------
(* The rest of the world *)

\* The instance is reclaimed: whatever the worker had not written is lost.
Crash(w) ==
  /\ crashes < MaxCrashes /\ pc[w] # "idle"
  /\ Goto(w, pc[w], "idle")
  /\ crashes' = crashes + 1
  /\ id' = Forget(w, id, FreshId) /\ age' = Forget(w, age, 0)
  /\ retrySeen' = Forget(w, retrySeen, FALSE) /\ failuresSeen' = Forget(w, failuresSeen, 0)
  /\ takenSince' = Forget(w, takenSince, {})
  /\ UNCHANGED <<jobVars, failed, evicted, crowded>>

\* update_job and delete_job, on behalf of the admin UI or the scheduler MCP.
SetEnabled ==
  /\ exists
  /\ enabled' = ~enabled
  /\ UNCHANGED <<exists, locked, lockAge, lastId, failures, due, retry, pc, workerVars,
                 crashes, failed, lockHistory>>

DeleteJob ==
  /\ exists
  /\ exists' = FALSE
  /\ UNCHANGED <<enabled, locked, lockAge, lastId, failures, due, retry, pc, workerVars,
                 crashes, failed, lockHistory>>

ScheduleComesRound ==
  /\ ~due
  /\ due' = TRUE
  /\ UNCHANGED <<exists, enabled, locked, lockAge, lastId, failures, retry, pc, workerVars,
                 crashes, failed, lockHistory>>

RetryComesDue ==
  /\ retry = "waiting"
  /\ retry' = "due"
  /\ UNCHANGED <<exists, enabled, locked, lockAge, lastId, failures, due, pc, workerVars,
                 crashes, failed, lockHistory>>

\* Time passes, for as long as an execution takes; beyond the lock's timeout ages
\* make no difference any more.
Tick ==
  /\ lockAge' = IF locked /\ lockAge < LockTimeout THEN lockAge + 1 ELSE lockAge
  /\ age' = [w \in Workers |-> IF pc[w] \in Holding
                                THEN IF age[w] < LockTimeout THEN age[w] + 1 ELSE age[w]
                                ELSE 0]
  /\ UNCHANGED <<exists, enabled, locked, lastId, failures, due, retry, pc, id, retrySeen,
                 failuresSeen, crashes, failed, lockHistory>>

Step(w) ==
  \/ ReadLock(w) \/ TakeLock(w) \/ GetJob(w)
  \/ RunSucceeds(w) \/ RunFails(w) \/ RunIsRateLimited(w) \/ ScheduleRetry(w) \/ ClearRetry(w)
  \/ ReleaseSuccess(w) \/ ReadFailures(w) \/ ReleaseFailure(w)

Next ==
  \/ \E w \in Dispatchers : ListDue(w)
  \/ \E w \in Callers : Execute(w)
  \/ \E w \in Workers : Step(w) \/ Crash(w)
  \/ SetEnabled \/ DeleteJob \/ ScheduleComesRound \/ RetryComesDue \/ Tick

Spec == Init /\ [][Next]_vars

\* Cloud Scheduler calls the dispatcher again and again, the event loop runs
\* every coroutine that can go on, and time passes.
FairSpec == /\ Spec
            /\ \A w \in Dispatchers : WF_vars(ListDue(w))
            /\ \A w \in Workers : WF_vars(Step(w))
            /\ WF_vars(Tick)
-----------------------------------------------------------------------------
(* Properties *)

PCs == {"idle", "acquire", "take", "clear", "blame", "blamed"} \cup Holding

\* The document's fields and the workers' locals have their types.
TypeOK ==
  /\ exists \in BOOLEAN /\ enabled \in BOOLEAN /\ locked \in BOOLEAN /\ due \in BOOLEAN
  /\ lockAge \in Nat /\ failures \in Nat /\ crashes \in Nat /\ failed \in Nat
  /\ lastId \in Ids \cup {FreshId}
  /\ retry \in {"none", "waiting", "due"}
  /\ pc \in [Workers -> PCs]
  /\ id \in [Workers -> Ids \cup {FreshId}]
  /\ age \in [Workers -> Nat]
  /\ retrySeen \in [Workers -> BOOLEAN]
  /\ failuresSeen \in [Workers -> Nat]
  /\ takenSince \in [Workers -> SUBSET Workers]
  /\ evicted \subseteq Workers /\ crowded \in BOOLEAN

\* What the lock gives: an execution begins alongside another only if that one
\* took the lock after this one's worker had read it, has outlived the lock, or
\* had its lock released by a worker that overlapped it or had released before.
OverlapsHaveACause ==
  [][\A w \in Holders' \ Holders : \A u \in Holders :
       u \in takenSince[w] \/ age[u] >= LockTimeout \/ u \in evicted]_vars

\* consecutive_failures differs from the number of failures recorded since the
\* last success only if two executions overlapped since a success that one worker
\* recorded alone; one that records a failure after its release counts as running.
MiscountsNeedOverlap == failures # failed => crowded

\* A job that stays due and enabled is taken by a worker in the end, whatever
\* became of the executions before it and of the locks they left.
DueJobIsTaken ==
  (exists /\ enabled /\ due) ~> (~exists \/ ~enabled \/ ~due \/ \E w \in Workers : pc[w] = "get")
=============================================================================
