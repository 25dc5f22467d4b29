---------------------------- MODULE RunLifecycle ----------------------------
(***************************************************************************)
(* The life of a Run across the processes that share it:                   *)
(*                                                                         *)
(*   creators  the API's "Run Now" and the scheduler: insert the row, then *)
(*             enqueue a BullMQ job with the same id                       *)
(*   lanes     one concurrent job slot of a worker replica, executing      *)
(*             processRun (processor.ts) step by step; a lane is a replica *)
(*             with a concurrency of one, so a crash loses one lane        *)
(*   clients   POST /api/runs/:id/cancel                                   *)
(*   reapers   the orphan reaper loop, one per replica                     *)
(*                                                                         *)
(* They share Postgres (status), BullMQ's queue (external, modelled from   *)
(* how the worker uses it) and two Redis structures: the set of requested  *)
(* cancellations and the per-user slots.  Each await on one of them that   *)
(* another process can observe is one step.  A check of the cancel set and *)
(* the removal that follows it at once are one step: nobody else removes   *)
(* the id in between and adding it again changes nothing.                  *)
(*                                                                         *)
(* Evidence artifacts (their staging, promotion and cleanup) are the       *)
(* subject of EvidenceStaging.                                             *)
(***************************************************************************)
EXTENDS Naturals, FiniteSets

CONSTANTS
    Runs, Users, OwnerOf,   \* run -> the user who created its job
    Lanes, Reapers,
    UserLimit,              \* PER_USER_MAX_CONCURRENT_RUNS
    Attempts,               \* maxRetries + 1
    MaxStalls,              \* BullMQ's maxStalledCount (its default, 1)
    Cancellable,            \* bound: the runs a user asks to cancel, once each
    MaxMishaps,             \* bound: how many of each mishap may happen
    NoRun, NoLane

Mishap == {"crash", "fault", "lockloss"}

ASSUME ConstantsAssumption ==
    /\ IsFiniteSet(Runs) /\ NoRun \notin Runs
    /\ NoLane \notin Lanes
    /\ OwnerOf \in [Runs -> Users]
    /\ UserLimit \in Nat \ {0}
    /\ Attempts \in Nat \ {0}
    /\ MaxStalls \in Nat
    /\ Cancellable \subseteq Runs
    /\ MaxMishaps \in [Mishap -> Nat]

VARIABLES
    status,     \* Postgres: run -> status
    aged,       \* Postgres: run -> it is older than the reaper's threshold
    origin,     \* run -> how far its creator got
    job,        \* BullMQ: run -> state of its job
    made,       \* BullMQ: run -> attemptsMade
    stalls,     \* BullMQ: run -> stalled counter
    lock,       \* BullMQ: run -> the lane whose token locks the active job
    cancelSet,  \* Redis: RUN_CANCEL_REQUESTED_KEY
    slots,      \* Redis: the members of all users' concurrency sets
    client,     \* run -> how far its cancel request got
    pc, cur, err, final, aborted,   \* lane -> where it is, on which run, ...
    todo,       \* reaper -> <<run, status it was selected for>> still to reap
    reaping,    \* reaper -> the run whose row it has just failed
    calls,      \* history: run -> requests sent to the agent
    told,       \* history: run -> deliveries of terminal side effects
    quiet,      \* history: runs whose cancel was recorded while no lane had them
    cut,        \* history: <<run, window>> a lane was stopped in
    tainted,    \* history: runs outside the contract (see RunContract)
    mishaps     \* mishap -> how many happened

dbVars == <<status, aged>>
bullVars == <<job, made, stalls, lock>>
laneVars == <<pc, cur, err, final, aborted>>
reaperVars == <<todo, reaping>>
historyVars == <<calls, told, quiet, cut, tainted, mishaps>>
vars == <<dbVars, origin, bullVars, cancelSet, slots, client, laneVars, reaperVars, historyVars>>

TerminalStatus == {"SUCCESS", "FAILED", "CANCELLED"}
Status == {"ABSENT", "PENDING", "RUNNING"} \cup TerminalStatus
JobState == {"none", "wait", "active", "delayed", "completed", "failed"}
ErrorKind == {"none", "cancelled", "permanent", "transient"}
PC == {"idle", "load", "check", "honour", "tellQueued", "acquire", "start", "extract",
       "precheck", "dispatch", "agent", "clear", "succeed", "catch", "tell", "release", "ack"}

\* Between "this attempt set RUNNING" and "it wrote its result": the stretch
\* the run deadline bounds.
Bounded == {"extract", "precheck", "dispatch", "agent", "clear", "succeed", "catch"}
\* The same, with the write of RUNNING itself: the slot was just acquired.
Executing == Bounded \cup {"start"}
\* From the acquisition of a slot to its release.
Holding == Executing \cup {"tell", "release"}

Terminal(r) == status[r] \in TerminalStatus
OnRun(r) == {p \in Lanes : cur[p] = r}
SlotsOf(u) == {r \in slots : OwnerOf[r] = u}

TypeOK ==
    /\ status \in [Runs -> Status]
    /\ aged \in [Runs -> BOOLEAN]
    /\ origin \in [Runs -> {"none", "gap", "queued", "lost"}]
    /\ job \in [Runs -> JobState]
    /\ made \in [Runs -> Nat]
    /\ stalls \in [Runs -> Nat]
    /\ lock \in [Runs -> Lanes \cup {NoLane}]
    /\ cancelSet \subseteq Runs
    /\ slots \subseteq Runs
    /\ client \in [Runs -> {"idle", "checked", "added", "done"}]
    /\ pc \in [Lanes -> PC]
    /\ cur \in [Lanes -> Runs \cup {NoRun}]
    /\ \A p \in Lanes : cur[p] = NoRun <=> pc[p] = "idle"
    /\ err \in [Lanes -> ErrorKind]
    /\ final \in [Lanes -> BOOLEAN]
    /\ aborted \in [Lanes -> BOOLEAN]
    /\ todo \in [Reapers -> SUBSET (Runs \X {"RUNNING", "PENDING"})]
    /\ reaping \in [Reapers -> Runs \cup {NoRun}]
    /\ calls \in [Runs -> Nat]
    /\ told \in [Runs -> Nat]
    /\ quiet \subseteq Runs
    /\ cut \subseteq Runs \X {"cancel", "tell"}
    /\ tainted \subseteq Runs
    /\ mishaps \in [Mishap -> Nat]

Init ==
    /\ status = [r \in Runs |-> "ABSENT"]
    /\ aged = [r \in Runs |-> FALSE]
    /\ origin = [r \in Runs |-> "none"]
    /\ job = [r \in Runs |-> "none"]
    /\ made = [r \in Runs |-> 0]
    /\ stalls = [r \in Runs |-> 0]
    /\ lock = [r \in Runs |-> NoLane]
    /\ cancelSet = {} /\ slots = {}
    /\ client = [r \in Runs |-> "idle"]
    /\ pc = [p \in Lanes |-> "idle"]
    /\ cur = [p \in Lanes |-> NoRun]
    /\ err = [p \in Lanes |-> "none"]
    /\ final = [p \in Lanes |-> FALSE]
    /\ aborted = [p \in Lanes |-> FALSE]
    /\ todo = [k \in Reapers |-> {}]
    /\ reaping = [k \in Reapers |-> NoRun]
    /\ calls = [r \in Runs |-> 0]
    /\ told = [r \in Runs |-> 0]
    /\ quiet = {} /\ cut = {} /\ tainted = {}
    /\ mishaps = [m \in Mishap |-> 0]

Suffer(m) ==
    /\ mishaps[m] < MaxMishaps[m]
    /\ mishaps' = [mishaps EXCEPT ![m] = @ + 1]

-----------------------------------------------------------------------------
(* Creators and time *)

\* runs.ts "Run Now" and the scheduler's fire: prisma.run.create, status PENDING.
CreateRun(r) ==
    /\ origin[r] = "none"
    /\ status' = [status EXCEPT ![r] = "PENDING"]
    /\ origin' = [origin EXCEPT ![r] = "gap"]
    /\ UNCHANGED <<aged, bullVars, cancelSet, slots, client, laneVars, reaperVars, historyVars>>

\* ... then queue.add with jobId = run.id and attempts = maxRetries + 1.
Enqueue(r) ==
    /\ origin[r] = "gap"
    /\ origin' = [origin EXCEPT ![r] = "queued"]
    /\ job' = [job EXCEPT ![r] = "wait"]
    /\ UNCHANGED <<dbVars, made, stalls, lock, cancelSet, slots, client, laneVars, reaperVars, historyVars>>

\* The creator dies, or queue.add rejects, between the two.
LoseEnqueue(r) ==
    /\ origin[r] = "gap"
    /\ origin' = [origin EXCEPT ![r] = "lost"]
    /\ Suffer("crash")
    /\ UNCHANGED <<dbVars, bullVars, cancelSet, slots, client, laneVars, reaperVars,
                   calls, told, quiet, cut, tainted>>

\* Time passes: the row gets older than the reaper's threshold.  A RUNNING row
\* cannot while a lane is between its write of startedAt and its result: the
\* deadline ends that stretch five minutes before the threshold.  A PENDING row
\* cannot while its creator is still about to enqueue (the grace period).
Age(r) ==
    /\ ~aged[r]
    /\ \/ status[r] = "PENDING" /\ origin[r] # "gap"
       \/ status[r] = "RUNNING" /\ \A p \in OnRun(r) : pc[p] \notin Bounded
    /\ aged' = [aged EXCEPT ![r] = TRUE]
    /\ UNCHANGED <<status, origin, bullVars, cancelSet, slots, client, laneVars, reaperVars, historyVars>>

\* A slot's score (acquisition + timeout + 5 min) passes.  ACQUIRE_SCRIPT prunes
\* such members; nothing else reads them.
ExpireSlot(r) ==
    /\ r \in slots
    /\ \A p \in OnRun(r) : pc[p] \notin Executing
    /\ slots' = slots \ {r}
    /\ UNCHANGED <<dbVars, origin, bullVars, cancelSet, client, laneVars, reaperVars, historyVars>>

-----------------------------------------------------------------------------
(* BullMQ, as the worker relies on it *)

IsFinalAttemptOffByOne(r) == made[r] + 1 > Attempts
IsFinalAttempt(r) == made[r] + 1 >= Attempts

\* A free lane takes a waiting job and locks it; isFinalAttempt is fixed here.
Pickup(p, r) ==
    /\ pc[p] = "idle" /\ job[r] = "wait"
    /\ job' = [job EXCEPT ![r] = "active"]
    /\ lock' = [lock EXCEPT ![r] = p]
    /\ pc' = [pc EXCEPT ![p] = "load"]
    /\ cur' = [cur EXCEPT ![p] = r]
    /\ final' = [final EXCEPT ![p] = IsFinalAttempt(r)]
    /\ UNCHANGED <<dbVars, origin, made, stalls, cancelSet, slots, client, err, aborted, reaperVars, historyVars>>

\* The delay of a throttled job (5 s) or of a retry (backoff) is over.
Promote(r) ==
    /\ job[r] = "delayed"
    /\ job' = [job EXCEPT ![r] = "wait"]
    /\ UNCHANGED <<dbVars, origin, made, stalls, lock, cancelSet, slots, client, laneVars, reaperVars, historyVars>>

\* The stalled check: an active job nobody renews the lock of goes back to wait,
\* and to failed once it stalled more than maxStalledCount times.
StallCheck(r) ==
    /\ job[r] = "active" /\ lock[r] = NoLane
    /\ stalls' = [stalls EXCEPT ![r] = @ + 1]
    /\ job' = [job EXCEPT ![r] = IF stalls[r] + 1 > MaxStalls THEN "failed" ELSE "wait"]
    /\ UNCHANGED <<dbVars, origin, made, lock, cancelSet, slots, client, laneVars, reaperVars, historyVars>>

\* A live worker fails to renew its lock in time.
LoseLock(p) ==
    /\ pc[p] # "idle" /\ lock[cur[p]] = p
    /\ lock' = [lock EXCEPT ![cur[p]] = NoLane]
    /\ tainted' = tainted \cup {cur[p]}
    /\ Suffer("lockloss")
    /\ UNCHANGED <<dbVars, origin, job, made, stalls, cancelSet, slots, client, laneVars, reaperVars,
                   calls, told, quiet, cut>>

-----------------------------------------------------------------------------
(* processRun *)

Goto(p, from, to) ==
    /\ pc[p] = from
    /\ pc' = [pc EXCEPT ![p] = to]

GotoWith(p, from, to, e) ==
    /\ Goto(p, from, to)
    /\ err' = [err EXCEPT ![p] = e]

LeaveLane(p) ==
    /\ pc' = [pc EXCEPT ![p] = "idle"]
    /\ cur' = [cur EXCEPT ![p] = NoRun]
    /\ err' = [err EXCEPT ![p] = "none"]
    /\ final' = [final EXCEPT ![p] = FALSE]
    /\ aborted' = [aborted EXCEPT ![p] = FALSE]

\* The idempotency guard's condition.
AlreadySettledButCancelled(r) == status[r] \in {"SUCCESS", "FAILED"}
AlreadySettled(r) == Terminal(r)

\* Load the run; a terminal one is left alone (its slot is still released).
LoadForgetsCancel(p) ==
    /\ pc[p] = "load"
    /\ IF AlreadySettled(cur[p]) THEN Goto(p, "load", "release") ELSE Goto(p, "load", "check")
    /\ cancelSet' = cancelSet \ {cur[p]}
    /\ UNCHANGED <<dbVars, origin, bullVars, slots, client, cur, err, final, aborted,
                   reaperVars, historyVars>>
Load(p) ==
    /\ pc[p] = "load"
    /\ IF AlreadySettled(cur[p]) THEN Goto(p, "load", "release") ELSE Goto(p, "load", "check")
    /\ UNCHANGED <<dbVars, origin, bullVars, cancelSet, slots, client, cur, err, final, aborted,
                   reaperVars, historyVars>>

\* The early isCancelRequested / clearCancelRequest.
CheckCancel(p) ==
    /\ pc[p] = "check"
    /\ IF cur[p] \in cancelSet THEN Goto(p, "check", "honour") ELSE Goto(p, "check", "acquire")
    /\ cancelSet' = cancelSet \ {cur[p]}
    /\ UNCHANGED <<dbVars, origin, bullVars, slots, client, cur, err, final, aborted,
                   reaperVars, historyVars>>

\* markRunCancelled's write, on a run that has not started this attempt.
HonourQueuedCancel(p) ==
    /\ Goto(p, "honour", "tellQueued")
    /\ status' = [status EXCEPT ![cur[p]] = "CANCELLED"]
    /\ UNCHANGED <<aged, origin, bullVars, cancelSet, slots, client, cur, err, final, aborted,
                   reaperVars, historyVars>>

HasFreeSlotOffByOne(u) == Cardinality(SlotsOf(u)) <= UserLimit
HasFreeSlot(u) == Cardinality(SlotsOf(u)) < UserLimit

\* tryAcquireUserSlot.  The run's own leftover slot counts against the limit.
AcquireSlot(p) ==
    /\ pc[p] = "acquire" /\ HasFreeSlot(OwnerOf[cur[p]])
    /\ Goto(p, "acquire", "start")
    /\ slots' = slots \cup {cur[p]}
    /\ UNCHANGED <<dbVars, origin, bullVars, cancelSet, client, cur, err, final, aborted,
                   reaperVars, historyVars>>

\* Over the limit: moveToDelayed (no attempt is used up) and DelayedError.
\* Without the lock moveToDelayed only throws.
Throttle(p) ==
    /\ pc[p] = "acquire" /\ ~HasFreeSlot(OwnerOf[cur[p]])
    /\ IF lock[cur[p]] = p
       THEN /\ job' = [job EXCEPT ![cur[p]] = "delayed"]
            /\ lock' = [lock EXCEPT ![cur[p]] = NoLane]
       ELSE UNCHANGED <<job, lock>>
    /\ LeaveLane(p)
    /\ UNCHANGED <<dbVars, origin, made, stalls, cancelSet, slots, client, reaperVars, historyVars>>

\* status RUNNING and a fresh startedAt.  A job without any prompt version
\* throws a plain (transient) Error right after.
Start(p) ==
    /\ \/ GotoWith(p, "start", "extract", "none")
       \/ GotoWith(p, "start", "catch", "transient")
    /\ status' = [status EXCEPT ![cur[p]] = "RUNNING"]
    /\ aged' = [aged EXCEPT ![cur[p]] = FALSE]
    /\ UNCHANGED <<origin, bullVars, cancelSet, slots, client, cur, final, aborted, reaperVars, historyVars>>

\* The attachment loop, one step for the whole loop: every attachment extracted,
\* or none to extract.
ExtractionDone(p) ==
    /\ Goto(p, "extract", "precheck")
    /\ UNCHANGED <<dbVars, origin, bullVars, cancelSet, slots, client, cur, err, final, aborted,
                   reaperVars, historyVars>>

\* An OCR request fails, or the prompt exceeds its budget, and nobody asked to
\* cancel: a 4xx other than 408 and a budget error are permanent.
ExtractionFails(p) ==
    /\ cur[p] \notin cancelSet
    /\ \E e \in {"permanent", "transient"} : GotoWith(p, "extract", "catch", e)
    /\ UNCHANGED <<dbVars, origin, bullVars, cancelSet, slots, client, cur, final, aborted,
                   reaperVars, historyVars>>

\* The checks before each attachment, after a failed OCR request, and before
\* the agent call.
SeeCancel(p) ==
    /\ pc[p] \in {"extract", "precheck"}
    /\ cur[p] \in cancelSet
    /\ cancelSet' = cancelSet \ {cur[p]}
    /\ GotoWith(p, pc[p], "catch", "cancelled")
    /\ UNCHANGED <<dbVars, origin, bullVars, slots, client, cur, final, aborted, reaperVars, historyVars>>

\* Not cancelled: go on to callAgent, or find the deadline spent.
Precheck(p) ==
    /\ cur[p] \notin cancelSet
    /\ \/ GotoWith(p, "precheck", "dispatch", "none")
       \/ GotoWith(p, "precheck", "catch", "transient")
    /\ UNCHANGED <<dbVars, origin, bullVars, cancelSet, slots, client, cur, final, aborted,
                   reaperVars, historyVars>>

\* callAgent up to fetch: an aborted signal stops it, a spent timeout too.
AbortBeforeDispatch(p) ==
    /\ GotoWith(p, "dispatch", "clear", IF aborted[p] THEN "cancelled" ELSE "transient")
    /\ UNCHANGED <<dbVars, origin, bullVars, cancelSet, slots, client, cur, final, aborted,
                   reaperVars, historyVars>>

\* fetch puts the request on the wire.
Dispatch(p) ==
    /\ ~aborted[p]
    /\ Goto(p, "dispatch", "agent")
    /\ calls' = [calls EXCEPT ![cur[p]] = @ + 1]
    /\ UNCHANGED <<dbVars, origin, bullVars, cancelSet, slots, client, cur, err, final, aborted,
                   reaperVars, told, quiet, cut, tainted, mishaps>>

\* The call ends: with an answer, a 4xx, a 5xx / network error / timeout, or
\* because a live cancellation aborted it.
AgentReturns(p) ==
    /\ \E e \in IF aborted[p] THEN {"cancelled"} ELSE {"none", "permanent", "transient"} :
          GotoWith(p, "agent", "clear", e)
    /\ UNCHANGED <<dbVars, origin, bullVars, cancelSet, slots, client, cur, final, aborted,
                   reaperVars, historyVars>>

\* The finally of the agent call: clearCancelRequest, whatever the outcome.
ClearCancel(p) ==
    /\ Goto(p, "clear", IF err[p] = "none" THEN "succeed" ELSE "catch")
    /\ cancelSet' = cancelSet \ {cur[p]}
    /\ UNCHANGED <<dbVars, origin, bullVars, slots, client, cur, err, final, aborted,
                   reaperVars, historyVars>>

\* The write of SUCCESS.
Succeed(p) ==
    /\ Goto(p, "succeed", "tell")
    /\ status' = [status EXCEPT ![cur[p]] = "SUCCESS"]
    /\ UNCHANGED <<aged, origin, bullVars, cancelSet, slots, client, cur, err, final, aborted,
                   reaperVars, historyVars>>

\* The catch block: a cancellation becomes CANCELLED ...
CatchCancelled(p) ==
    /\ err[p] = "cancelled"
    /\ Goto(p, "catch", "tell")
    /\ status' = [status EXCEPT ![cur[p]] = "CANCELLED"]
    /\ UNCHANGED <<aged, origin, bullVars, cancelSet, slots, client, cur, err, final, aborted,
                   reaperVars, historyVars>>

\* ... a permanent error, or any error of the last attempt, FAILED ...
CatchFailed(p) ==
    /\ err[p] = "permanent" \/ (err[p] = "transient" /\ final[p])
    /\ Goto(p, "catch", "tell")
    /\ status' = [status EXCEPT ![cur[p]] = "FAILED"]
    /\ UNCHANGED <<aged, origin, bullVars, cancelSet, slots, client, cur, err, final, aborted,
                   reaperVars, historyVars>>

\* ... and a transient one is thrown to BullMQ, the row staying RUNNING.
CatchRetryKeepsSlot(p) ==
    /\ err[p] = "transient" /\ ~final[p]
    /\ Goto(p, "catch", "ack")
    /\ UNCHANGED <<dbVars, origin, bullVars, cancelSet, slots, client, cur, err, final, aborted,
                   reaperVars, historyVars>>
CatchRetry(p) ==
    /\ err[p] = "transient" /\ ~final[p]
    /\ Goto(p, "catch", "release")
    /\ UNCHANGED <<dbVars, origin, bullVars, cancelSet, slots, client, cur, err, final, aborted,
                   reaperVars, historyVars>>

\* The audit event and deliverTerminalSideEffects (webhooks, then e-mail).
Tell(p) ==
    /\ Goto(p, "tell", "release") \/ Goto(p, "tellQueued", "release")
    /\ told' = [told EXCEPT ![cur[p]] = @ + 1]
    /\ UNCHANGED <<dbVars, origin, bullVars, cancelSet, slots, client, cur, err, final, aborted,
                   reaperVars, calls, quiet, cut, tainted, mishaps>>

\* unregisterActiveRun and releaseUserSlotSafely.
ReleaseSlot(p) ==
    /\ Goto(p, "release", "ack")
    /\ slots' = slots \ {cur[p]}
    /\ UNCHANGED <<dbVars, origin, bullVars, cancelSet, client, cur, err, final, aborted,
                   reaperVars, historyVars>>

\* processRun returned (completed) or threw (retried with backoff, or failed).
\* A lane whose lock is gone cannot move the job.
Ack(p) ==
    /\ pc[p] = "ack"
    /\ LET r == cur[p] IN
         IF lock[r] # p THEN UNCHANGED <<job, made, lock>>
         ELSE /\ lock' = [lock EXCEPT ![r] = NoLane]
              /\ \/ /\ err[p] = "transient"
                    /\ made' = [made EXCEPT ![r] = @ + 1]
                    /\ job' = [job EXCEPT ![r] = IF made[r] + 1 < Attempts THEN "delayed" ELSE "failed"]
                 \/ /\ err[p] # "transient"
                    /\ job' = [job EXCEPT ![r] = "completed"]
                    /\ UNCHANGED made
    /\ LeaveLane(p)
    /\ UNCHANGED <<dbVars, origin, stalls, cancelSet, slots, client, reaperVars, historyVars>>

-----------------------------------------------------------------------------
(* Mishaps of a lane *)

\* The window a lane is in when something stops it: between removing a cancel
\* request and writing CANCELLED, or between a result and its side effects.
Window(p) ==
    CASE pc[p] = "honour" \/ (pc[p] = "catch" /\ err[p] = "cancelled") -> {<<cur[p], "cancel">>}
      [] pc[p] \in {"tell", "tellQueued"} -> {<<cur[p], "tell">>}
      [] OTHER -> {}

\* The replica dies; its lock will not be renewed.
Crash(p) ==
    /\ pc[p] # "idle"
    /\ Suffer("crash")
    /\ lock' = [r \in Runs |-> IF lock[r] = p THEN NoLane ELSE lock[r]]
    /\ cut' = cut \cup Window(p)
    /\ LeaveLane(p)
    /\ UNCHANGED <<dbVars, origin, job, made, stalls, cancelSet, slots, client, reaperVars,
                   calls, told, quiet, tainted>>

\* Where a rejected Postgres or Redis call takes processRun: out of it when it is
\* outside both tries; to the finally from the catch block and from the write of
\* RUNNING, which only the outer try encloses; to the catch block from the inner
\* try.  A failed slot release is swallowed.
AfterFault(p) ==
    IF pc[p] \in {"load", "check", "honour", "tellQueued", "acquire", "release"} THEN "ack"
    ELSE IF pc[p] \in {"start", "catch"} \/ (pc[p] = "tell" /\ err[p] # "none") THEN "release"
    ELSE "catch"

\* A call of the lane's current step rejects without any effect (dispatch and
\* agent have their own error outcomes).  A rejected audit write after SUCCESS
\* reaches the catch block of a run that already has its result: it leaves the
\* contract.
Fault(p) ==
    /\ pc[p] \notin {"idle", "dispatch", "agent", "ack"}
    /\ Suffer("fault")
    /\ pc' = [pc EXCEPT ![p] = AfterFault(p)]
    /\ err' = [err EXCEPT ![p] = IF pc[p] = "release" THEN @ ELSE "transient"]
    /\ cut' = cut \cup Window(p)
    /\ tainted' = IF pc[p] = "tell" /\ err[p] = "none" THEN tainted \cup {cur[p]} ELSE tainted
    /\ UNCHANGED <<dbVars, origin, bullVars, cancelSet, slots, client, cur, final, aborted, reaperVars,
                   calls, told, quiet>>

\* What the lane's current step writes to the row.
Writes(p) ==
    CASE pc[p] = "start" -> {"RUNNING"}
      [] pc[p] = "honour" \/ (pc[p] = "catch" /\ err[p] = "cancelled") -> {"CANCELLED"}
      [] pc[p] = "succeed" -> {"SUCCESS"}
      [] pc[p] = "catch" /\ (err[p] = "permanent" \/ (err[p] = "transient" /\ final[p])) -> {"FAILED"}
      [] OTHER -> {}

\* The write of the row commits and its answer is lost: processRun goes on as after
\* a fault.  The result is there and nobody is told; after SUCCESS the catch block
\* has a run that already has its result.
RowAnswerLost(p) ==
    /\ Suffer("fault")
    /\ \E s \in Writes(p) : status' = [status EXCEPT ![cur[p]] = s]
    /\ aged' = IF pc[p] = "start" THEN [aged EXCEPT ![cur[p]] = FALSE] ELSE aged
    /\ pc' = [pc EXCEPT ![p] = AfterFault(p)]
    /\ err' = [err EXCEPT ![p] = "transient"]
    /\ cut' = IF pc[p] = "start" THEN cut ELSE cut \cup {<<cur[p], "tell">>}
    /\ tainted' = IF pc[p] = "succeed" THEN tainted \cup {cur[p]} ELSE tainted
    /\ UNCHANGED <<origin, bullVars, cancelSet, slots, client, cur, final, aborted, reaperVars,
                   calls, told, quiet>>

\* The same for Redis: a cancel request is taken out of the set and nobody honours
\* it, or a slot is taken that only its expiry gives back.
RedisAnswerLost(p) ==
    /\ Suffer("fault")
    /\ \/ /\ pc[p] \in {"check", "extract", "precheck", "clear"} /\ cur[p] \in cancelSet
          /\ cancelSet' = cancelSet \ {cur[p]}
          /\ cut' = cut \cup {<<cur[p], "cancel">>}
          /\ UNCHANGED slots
       \/ /\ pc[p] = "acquire" /\ HasFreeSlot(OwnerOf[cur[p]])
          /\ slots' = slots \cup {cur[p]}
          /\ UNCHANGED <<cancelSet, cut>>
    /\ pc' = [pc EXCEPT ![p] = AfterFault(p)]
    /\ err' = [err EXCEPT ![p] = "transient"]
    /\ UNCHANGED <<dbVars, origin, bullVars, client, cur, final, aborted, reaperVars,
                   calls, told, quiet, tainted>>

-----------------------------------------------------------------------------
(* POST /api/runs/:id/cancel *)

\* Read the status; a terminal run is answered 409 (no change).
RequestCancel(r) ==
    /\ r \in Cancellable /\ client[r] = "idle"
    /\ status[r] \in {"PENDING", "RUNNING"}
    /\ client' = [client EXCEPT ![r] = "checked"]
    /\ UNCHANGED <<dbVars, origin, bullVars, cancelSet, slots, laneVars, reaperVars, historyVars>>

\* SADD.
RecordCancel(r) ==
    /\ client[r] = "checked"
    /\ client' = [client EXCEPT ![r] = "added"]
    /\ cancelSet' = cancelSet \cup {r}
    /\ quiet' = IF OnRun(r) = {} THEN quiet \cup {r} ELSE quiet
    /\ UNCHANGED <<dbVars, origin, bullVars, slots, laneVars, reaperVars, calls, told, cut, tainted, mishaps>>

\* PUBLISH: each subscribed replica may or may not get the message; one that
\* holds a controller for the run aborts it.
PublishCancel(r) ==
    /\ client[r] = "added"
    /\ client' = [client EXCEPT ![r] = "done"]
    /\ \E heard \in SUBSET {p \in OnRun(r) : pc[p] \in Bounded \ {"succeed", "catch"}} :
          aborted' = [p \in Lanes |-> aborted[p] \/ p \in heard]
    /\ UNCHANGED <<dbVars, origin, bullVars, cancelSet, slots, pc, cur, err, final, reaperVars, historyVars>>

-----------------------------------------------------------------------------
(* The orphan reaper.  Its two queries read at different moments of a sweep, so
   each is an action; a query that returns nothing is not modelled. *)

PendingCandidatesOnly(s) == {r \in Runs : status[r] = s /\ s = "PENDING" /\ aged[r]}
Candidates(s) == {r \in Runs : status[r] = s /\ aged[r]}

Sweep(k, s) ==
    /\ todo[k] = {} /\ reaping[k] = NoRun
    /\ Candidates(s) # {}
    /\ todo' = [todo EXCEPT ![k] = Candidates(s) \X {s}]
    /\ UNCHANGED <<dbVars, origin, bullVars, cancelSet, slots, client, laneVars, reaping, historyVars>>

\* A PENDING candidate that has a BullMQ job, in whatever state, is passed over.
PassOver(k, r) ==
    /\ reaping[k] = NoRun
    /\ <<r, "PENDING">> \in todo[k] /\ job[r] # "none"
    /\ todo' = [todo EXCEPT ![k] = @ \ {<<r, "PENDING">>}]
    /\ UNCHANGED <<dbVars, origin, bullVars, cancelSet, slots, client, laneVars, reaping, historyVars>>

\* reapRun's transaction: FAILED, with no condition on what the row says now.
\* getJob and the transaction are one step: no job is added to an aged row.
Reap(k, r, s) ==
    /\ reaping[k] = NoRun
    /\ <<r, s>> \in todo[k]
    /\ s = "PENDING" => job[r] = "none"
    /\ status' = [status EXCEPT ![r] = "FAILED"]
    /\ todo' = [todo EXCEPT ![k] = @ \ {<<r, s>>}]
    /\ reaping' = [reaping EXCEPT ![k] = r]
    /\ tainted' = tainted \cup {r}
    /\ UNCHANGED <<aged, origin, bullVars, cancelSet, slots, client, laneVars,
                   calls, told, quiet, cut, mishaps>>

\* ... then the audit event, the slot release and the side effects.
FinishReap(k) ==
    /\ reaping[k] # NoRun
    /\ slots' = slots \ {reaping[k]}
    /\ told' = [told EXCEPT ![reaping[k]] = @ + 1]
    /\ reaping' = [reaping EXCEPT ![k] = NoRun]
    /\ UNCHANGED <<dbVars, origin, bullVars, cancelSet, client, laneVars, todo,
                   calls, quiet, cut, tainted, mishaps>>

\* A rejected call ends the sweep, as the death of the replica does.
AbandonSweep(k) ==
    /\ todo[k] # {} \/ reaping[k] # NoRun
    /\ Suffer("fault")
    /\ todo' = [todo EXCEPT ![k] = {}]
    /\ reaping' = [reaping EXCEPT ![k] = NoRun]
    /\ UNCHANGED <<dbVars, origin, bullVars, cancelSet, slots, client, laneVars,
                   calls, told, quiet, cut, tainted>>

-----------------------------------------------------------------------------
LaneStep(p) ==
    \/ Load(p) \/ CheckCancel(p) \/ HonourQueuedCancel(p) \/ AcquireSlot(p) \/ Throttle(p)
    \/ Start(p) \/ ExtractionDone(p) \/ ExtractionFails(p) \/ SeeCancel(p) \/ Precheck(p)
    \/ AbortBeforeDispatch(p) \/ Dispatch(p) \/ AgentReturns(p) \/ ClearCancel(p) \/ Succeed(p)
    \/ CatchCancelled(p) \/ CatchFailed(p) \/ CatchRetry(p) \/ Tell(p) \/ ReleaseSlot(p) \/ Ack(p)

ReaperStep(k) ==
    \/ \E s \in {"RUNNING", "PENDING"} : Sweep(k, s)
    \/ \E r \in Runs : PassOver(k, r)
    \/ \E r \in Runs, s \in {"RUNNING", "PENDING"} : Reap(k, r, s)
    \/ FinishReap(k)

Next ==
    \/ \E r \in Runs : \/ CreateRun(r) \/ Enqueue(r) \/ LoseEnqueue(r) \/ Age(r) \/ ExpireSlot(r)
                       \/ Promote(r) \/ StallCheck(r)
                       \/ RequestCancel(r) \/ RecordCancel(r) \/ PublishCancel(r)
    \/ \E p \in Lanes, r \in Runs : Pickup(p, r)
    \/ \E p \in Lanes : LaneStep(p) \/ LoseLock(p) \/ Crash(p)
                        \/ Fault(p) \/ RowAnswerLost(p) \/ RedisAnswerLost(p)
    \/ \E k \in Reapers : ReaperStep(k) \/ AbandonSweep(k)

\* Event loops run and their awaits end (every network call has a timeout), BullMQ
\* hands out, promotes and checks jobs (in arrival order, hence SF), the reaper's
\* interval fires, each sweep running both queries (hence SF), and time passes.
\* Nobody has to create runs, cancel, or fail.
Fairness ==
    /\ \A r \in Runs : /\ WF_vars(Enqueue(r)) /\ WF_vars(Age(r)) /\ WF_vars(ExpireSlot(r))
                       /\ WF_vars(Promote(r)) /\ WF_vars(StallCheck(r))
                       /\ SF_vars(\E p \in Lanes : Pickup(p, r))
    /\ \A p \in Lanes : WF_vars(LaneStep(p))
    /\ \A k \in Reapers : /\ WF_vars(ReaperStep(k))
                          /\ SF_vars(Sweep(k, "RUNNING")) /\ SF_vars(Sweep(k, "PENDING"))

Spec == Init /\ [][Next]_vars /\ Fairness
-----------------------------------------------------------------------------
(* Properties *)

\* The per-user ceiling (concurrency.ts) bounds what really runs, not only the
\* members of a Redis set: at no time are more than UserLimit runs of a user
\* between the acquisition of their slot and their result, whatever crashes,
\* expiring slots and redeliveries happen, disturbed runs aside.
PerUserCeiling ==
    \A u \in Users :
        Cardinality({r \in Runs : /\ OwnerOf[r] = u /\ r \notin tainted
                                  /\ \E p \in OnRun(r) : pc[p] \in Executing}) <= UserLimit

\* Every way out of processRun gives the slot back: as long as no worker died and
\* no call was rejected, a held slot has a lane that will release it
\* (processor.ts: the finally, the two early returns, and the throttled exit that
\* must not have taken one).
NoSlotLeak ==
    mishaps["crash"] = 0 /\ mishaps["fault"] = 0 =>
        \A r \in slots : \E p \in OnRun(r) : pc[p] \in Holding

\* The whole machine keeps the contract of RunContract: legal status changes
\* only, no agent call before RUNNING or after the end, no SUCCESS without a call.
Contract == INSTANCE RunContract WITH disturbed <- tainted
KeepsContract == Contract!Spec

\* A cancel recorded while no lane had the run (it was queued, delayed or waiting
\* to be retried) is caught by the next pickup: the agent is not called for that
\* run afterwards, unless the lane that was about to write CANCELLED was stopped
\* right there (processor.ts:193, runs.ts:122).
QuietCancelHonoured ==
    [][\A r \in quiet : calls'[r] # calls[r] =>
            <<r, "cancel">> \in cut \/ r \in tainted]_vars

\* Owner and integrations hear of a run's end at most once, however often the job
\* is redelivered; and exactly once when BullMQ is done with the job, unless the
\* lane was stopped between the result and its side effects (processor.ts:165).
AnnouncedOnce ==
    \A r \in Runs \ tainted :
        /\ told[r] <= 1
        /\ job[r] \in {"completed", "failed"} /\ Terminal(r) /\ <<r, "tell">> \notin cut
              => told[r] = 1

\* BullMQ and Postgres agree at the end: a completed job has a terminal run, and a
\* failed job leaves an unfinished run behind only by exhausting the stall limit
\* or through a rejected call (processor.ts:146, 681, 722).
QueueAgreesWithStatus ==
    \A r \in Runs \ tainted :
        /\ job[r] = "completed" => Terminal(r)
        /\ job[r] = "failed" /\ ~Terminal(r) => stalls[r] > MaxStalls \/ mishaps["fault"] > 0

\* With the reaper, no run stays RUNNING for ever and none is forgotten, whatever
\* crashes, except for the one case the reaper passes over: a row still PENDING
\* whose job BullMQ gave up on.
RunsSettle ==
    \A r \in Runs : status[r] # "ABSENT" ~> Terminal(r) \/ (status[r] = "PENDING" /\ job[r] = "failed")

\* orphanReaper.ts:121 says the sweep also covers the PENDING run whose job
\* "existed and finished but somehow never wrote back a terminal status".
PendingRunsSettle == \A r \in Runs : status[r] = "PENDING" ~> status[r] # "PENDING"

\* orphanReaper.ts:84 says a run still legitimately executing is never reaped.
ReaperSparesExecuting ==
    [][\A r \in Runs, k \in Reapers :
          reaping'[k] = r /\ reaping[k] # r => \A p \in OnRun(r) : pc[p] \notin Bounded]_vars

\* runCancellation.ts:9 says a request leaves the set once it was honoured or the
\* run was found terminal: at the least, the lane that takes it out ends the run.
EndsRun(p) == pc'[p] = "honour" \/ err'[p] # "transient" \/ final[p]
RemovedOnceHonoured ==
    [][\A r \in cancelSet \ cancelSet' : Terminal(r) \/ \E p \in OnRun(r) : EndsRun(p)]_vars
=============================================================================
