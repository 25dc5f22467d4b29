--------------------------- MODULE ScheduleFiring ---------------------------
(***************************************************************************)
(* One Schedule row between the API handlers that edit, review, pause and  *)
(* resume it and the scheduler ticks of all worker replicas that fire it.  *)
(*                                                                         *)
(* Nothing locks the row.  A handler reads it, decides, and writes; a tick *)
(* reads the due rows, decides, and claims a fire by an update conditioned *)
(* on nextFireAt alone.  Each read and each write is a step, so that any   *)
(* other handler or tick may come in between.  What becomes of the Run a   *)
(* fire creates is the subject of RunLifecycle.                            *)
(***************************************************************************)
EXTENDS Integers, FiniteSets

CONSTANTS
    Tickers,            \* worker replicas
    Handlers,           \* API requests that may be in progress at once
    People, Author, Admins,
    Eligible,           \* owner and EDIT grantees of the project
    OrgWideEdit,        \* the whole organisation has an EDIT grant
    Timings, Pins,      \* values of runAt/intervalConfig/timezone, and of the pinned version
    Edits,              \* the substantive fields a PATCH may send
    Tolerance,          \* missedFireToleranceMs
    MaxTime,            \* bound: the clock
    MaxRequests,        \* bound: API requests
    MaxLosses,          \* bound: ticks ended by a crash or a rejected call
    Same, None, Nobody

ASSUME FiringAssumption ==
    /\ Author \in People /\ Admins \subseteq People /\ Eligible \subseteq People
    /\ IsFiniteSet(Eligible) /\ OrgWideEdit \in BOOLEAN
    /\ Timings \subseteq Nat \ {0} /\ Same \notin Timings \cup Pins
    /\ Edits \subseteq [timing : Timings \cup {Same}, pin : Pins \cup {Same}]
    /\ None \notin Int /\ Nobody \notin People
    /\ {Tolerance, MaxTime, MaxRequests, MaxLosses} \subseteq Nat

VARIABLES
    now,
    kind,               \* ONE_TIME, or RECURRING counted from the last fire or by the clock
    life, row,          \* Postgres: the schedule
    shared,             \* Postgres: the project's visibility is SHARED
    request,            \* handler -> the request it has read for and not yet written
    stage, snap, decided,   \* tick: where it is, the row it read, what it decided
    runs,               \* Postgres: how many runs of this schedule, by status
    claims,             \* schedulesClaimedTotal
    seen,               \* history: time the last claim since an API write armed it was decided
    vetted,             \* history: the content that was approved or needed no approval
    editor,             \* history: who made the last substantive change
    raced,              \* history: a handler wrote over a change it had not read
    requests, losses

ticks == <<stage, snap, decided>>
budgets == <<requests, losses>>
history == <<claims, seen, vetted, editor, raced>>
vars == <<now, kind, life, row, shared, request, ticks, runs, history, budgets>>

Content(r) == <<r.timing, r.pin>>
exists == life = "live"
Armed(r) == r.next # None
Idle == [op |-> "none"]

TypeOK ==
    /\ now \in 0..MaxTime
    /\ kind \in {"ONE_TIME", "EVERY", "ALIGNED"} /\ life \in {"unborn", "live", "deleted"}
    /\ {shared, raced} \subseteq BOOLEAN
    /\ row.timing \in Timings /\ row.pin \in Pins /\ row.paused \in BOOLEAN
    /\ row.approval \in {"PENDING", "APPROVED", "REJECTED"}
    /\ row.next \in Nat \cup {None}
    /\ \A h \in Handlers : request[h].op \in {"none", "create", "patch", "resume", "approve", "reject"}
    /\ \A k \in Tickers : /\ stage[k] \in {"idle", "due", "claim", "record"}
                          /\ stage[k] # "idle" => Armed(snap[k])
    /\ runs \in [{"PENDING", "SKIPPED"} -> Nat] /\ claims \in Nat
    /\ seen \in -1..MaxTime
    /\ editor \in People \cup {Nobody}
    /\ requests \in 0..MaxRequests /\ losses \in 0..MaxLosses

Fresh(t, p) == [timing |-> t, pin |-> p, paused |-> FALSE, approval |-> "PENDING", next |-> None]

Init ==
    /\ now = 0
    /\ kind \in {"ONE_TIME", "EVERY", "ALIGNED"}
    /\ life = "unborn"
    /\ row \in {Fresh(t, p) : t \in Timings, p \in Pins}
    /\ shared \in BOOLEAN
    /\ request = [h \in Handlers |-> Idle]
    /\ stage = [k \in Tickers |-> "idle"]
    /\ snap = [k \in Tickers |-> None]
    /\ decided = [k \in Tickers |-> None]
    /\ runs = [s \in {"PENDING", "SKIPPED"} |-> 0] /\ claims = 0 /\ seen = -1
    /\ vetted = Content(row) /\ editor = Nobody /\ raced = FALSE
    /\ requests = 0 /\ losses = 0

-----------------------------------------------------------------------------
(* Time *)

\* computeNextFireTime: the first occurrence after t.  Intervals of minutes count
\* from t; hours at a minute, days and weekdays are anchored to the clock.
Following(timing, t) ==
    CASE kind = "EVERY" -> t + timing
      [] kind = "ALIGNED" -> (t \div timing + 1) * timing
      [] kind = "ONE_TIME" -> timing

\* resolveNextFireAt: a one-time schedule keeps its runAt, past or not.
ResolveNextFireAt(timing) == Following(timing, now)

\* computeCaughtUpNextFireAt: from the claimed fire on, one interval at a time,
\* until it is later than the time of the decision.
CaughtUpByOne(timing, base, t) == Following(timing, base)
CaughtUp(timing, base, t) ==
    CASE kind = "EVERY" -> base + ((t - base) \div timing + 1) * timing
      [] OTHER -> Following(timing, t)

Tick == /\ now < MaxTime
        /\ now' = now + 1
        /\ UNCHANGED <<kind, life, row, shared, request, ticks, runs, history, budgets>>

-----------------------------------------------------------------------------
(* The API: a request reads, then writes *)

\* The first grant and the removal of the last one set the visibility.
FlipVisibility ==
    /\ requests < MaxRequests /\ requests' = requests + 1
    /\ shared' = ~shared
    /\ UNCHANGED <<now, kind, life, row, request, ticks, runs, history, losses>>

MayEdit(who) == who \in Eligible \cup Admins \/ OrgWideEdit

\* Nobody reviews a schedule they created while somebody else could; admins may.
MayReview(who) ==
    /\ MayEdit(who)
    /\ who = Author => who \in Admins \/ (Eligible \ {who} = {} /\ ~OrgWideEdit)

\* What a handler keeps from its reads: the row, the visibility, nextFireAt.
Read(h, op, who, edit) ==
    /\ request[h] = Idle
    /\ requests < MaxRequests /\ requests' = requests + 1
    /\ request' = [request EXCEPT ![h] =
            [op |-> op, who |-> who, edit |-> edit, row |-> row, shared |-> shared,
             next |-> ResolveNextFireAt(IF edit.timing = Same THEN row.timing ELSE edit.timing)]]
    /\ UNCHANGED <<now, kind, life, row, shared, ticks, runs, history, losses>>

NoEdit == [timing |-> Same, pin |-> Same]

ReadForCreate(h) ==
    /\ life = "unborn" /\ \A g \in Handlers : request[g].op # "create"
    /\ Read(h, "create", Author, NoEdit)

ReadForPatch(h, who, edit) == exists /\ MayEdit(who) /\ Read(h, "patch", who, edit)

\* Who resumes makes no difference.
ReadForResume(h) ==
    /\ exists /\ \E who \in People : MayEdit(who)
    /\ Read(h, "resume", Nobody, NoEdit)

\* 409 unless pending, 403 for the author: no step.
ReadForReview(h, who, op) ==
    /\ exists /\ row.approval = "PENDING"
    /\ MayReview(who)
    /\ Read(h, op, who, NoEdit)

\* A write to the row and its history: one that sets nextFireAt arms it anew.
Written(q, r) ==
    /\ row' = r
    /\ seen' = IF r.next # row.next \/ q.op # "patch" THEN -1 ELSE seen
    /\ raced' = (raced \/ (exists /\ <<Content(row), row.approval>> # <<Content(q.row), q.row.approval>>))
    /\ UNCHANGED <<now, kind, shared, ticks, runs, claims, budgets>>

Done(h, op) == request[h].op = op /\ request' = [request EXCEPT ![h] = Idle]

\* POST /jobs/:id/schedules.
WriteCreate(h) ==
    LET q == request[h] IN
    /\ Done(h, "create")
    /\ life' = "live"
    /\ Written(q, IF q.shared THEN row ELSE [row EXCEPT !.approval = "APPROVED", !.next = q.next])
    /\ vetted' = Content(row) /\ editor' = q.who

\* The fields sent replace those of the row.
Merged(edit, r) ==
    [r EXCEPT !.timing = IF edit.timing = Same THEN @ ELSE edit.timing,
              !.pin = IF edit.pin = Same THEN @ ELSE edit.pin]

\* What an edit does to the approval and to nextFireAt is decided on the row that
\* was read.
EditedKeepsNext(q, r) ==
    CASE q.row.approval # "APPROVED" -> Merged(q.edit, r)
      [] q.row.approval = "APPROVED" /\ q.shared -> [Merged(q.edit, r) EXCEPT !.approval = "PENDING"]
      [] OTHER -> [Merged(q.edit, r) EXCEPT !.next = q.next]
EditedNeverPending(q, r) ==
    IF q.row.approval # "APPROVED" THEN Merged(q.edit, r)
    ELSE [Merged(q.edit, r) EXCEPT !.next = q.next]
Edited(q, r) ==
    CASE q.row.approval # "APPROVED" -> Merged(q.edit, r)
      [] q.row.approval = "APPROVED" /\ q.shared ->
             [Merged(q.edit, r) EXCEPT !.approval = "PENDING", !.next = None]
      [] OTHER -> [Merged(q.edit, r) EXCEPT !.next = q.next]

\* PATCH /schedules/:id with a substantive field.
WritePatch(h) ==
    LET q == request[h] IN
    /\ Done(h, "patch") /\ exists
    /\ Written(q, Edited(q, row))
    /\ vetted' = IF q.row.approval = "APPROVED" /\ ~q.shared THEN Content(row') ELSE vetted
    /\ editor' = q.who
    /\ UNCHANGED life

\* POST /schedules/:id/resume.
WriteResume(h) ==
    LET q == request[h] IN
    /\ Done(h, "resume") /\ exists
    /\ Written(q, [row EXCEPT !.paused = FALSE,
                              !.next = IF q.row.approval = "APPROVED" THEN q.next ELSE q.row.next])
    /\ UNCHANGED <<life, vetted, editor>>

\* POST /schedules/:id/approve and /reject.
WriteReview(h) ==
    LET q == request[h] IN
    /\ \/ /\ Done(h, "approve") /\ exists
          /\ Written(q, [row EXCEPT !.approval = "APPROVED", !.next = q.next])
          /\ vetted' = Content(q.row)
       \/ /\ Done(h, "reject") /\ exists
          /\ Written(q, [row EXCEPT !.approval = "REJECTED"])
          /\ UNCHANGED vetted
    /\ UNCHANGED <<life, editor>>

\* The row is gone: the update is answered with an error.
WriteNothing(h) ==
    /\ request[h].op \in {"patch", "resume", "approve", "reject"} /\ ~exists
    /\ request' = [request EXCEPT ![h] = Idle]
    /\ UNCHANGED <<now, kind, life, row, shared, ticks, runs, history, budgets>>

\* POST /schedules/:id/pause: a single update.
Pause ==
    /\ requests < MaxRequests /\ requests' = requests + 1
    /\ exists /\ ~row.paused
    /\ row' = [row EXCEPT !.paused = TRUE]
    /\ UNCHANGED <<now, kind, life, shared, request, ticks, runs, history, losses>>

\* DELETE /schedules/:id.  Its id never comes back, so requests end here.
Delete ==
    /\ exists
    /\ life' = "deleted"
    /\ requests' = MaxRequests
    /\ UNCHANGED <<now, kind, row, shared, request, ticks, runs, history, losses>>

-----------------------------------------------------------------------------
(* A scheduler tick.  Other schedules it handles before this one show as time
   passing between its steps. *)

Due == exists /\ ~row.paused /\ row.approval = "APPROVED" /\ Armed(row) /\ row.next <= now

\* The query for due schedules.
ReadDue(k) ==
    /\ stage[k] = "idle" /\ Due
    /\ stage' = [stage EXCEPT ![k] = "due"]
    /\ snap' = [snap EXCEPT ![k] = row]
    /\ UNCHANGED <<now, kind, life, row, shared, request, decided, runs, history, budgets>>

\* now, missed and the claim's data.
Decide(k) ==
    /\ stage[k] = "due"
    /\ stage' = [stage EXCEPT ![k] = "claim"]
    /\ decided' = [decided EXCEPT ![k] = [at |-> now, missed |-> now - snap[k].next > Tolerance]]
    /\ UNCHANGED <<now, kind, life, row, shared, request, snap, runs, history, budgets>>

Claimed(k) ==
    IF kind = "ONE_TIME" THEN [row EXCEPT !.next = None, !.paused = TRUE]
    ELSE [row EXCEPT !.next = CaughtUp(snap[k].timing, snap[k].next, decided[k].at)]

\* The loop goes on; what it read and decided for this row is forgotten.
EndTick(k) == /\ stage' = [stage EXCEPT ![k] = "idle"]
              /\ snap' = [snap EXCEPT ![k] = None]
              /\ decided' = [decided EXCEPT ![k] = None]

\* updateMany where nextFireAt still is the value read; paused and
\* approvalStatus are not looked at again.
Claim(k) ==
    /\ stage[k] = "claim"
    /\ exists /\ row.next = snap[k].next
    /\ row' = Claimed(k)
    /\ stage' = [stage EXCEPT ![k] = "record"]
    /\ claims' = claims + 1 /\ seen' = decided[k].at
    /\ UNCHANGED <<now, kind, life, shared, request, snap, decided, runs, vetted, editor, raced, budgets>>

\* Somebody else claimed it, or an edit moved it.
ClaimLost(k) ==
    /\ stage[k] = "claim"
    /\ ~exists \/ row.next # snap[k].next
    /\ EndTick(k)
    /\ UNCHANGED <<now, kind, life, row, shared, request, runs, history, budgets>>

\* run.create: SKIPPED for a missed fire, PENDING (and enqueued) otherwise.  It
\* fails when the schedule was deleted meanwhile.
Recorded(s) == IF exists THEN [runs EXCEPT ![s] = @ + 1] ELSE runs
RecordPendingOnly(k) ==
    /\ stage[k] = "record"
    /\ runs' = IF decided[k].missed THEN runs ELSE Recorded("PENDING")
    /\ EndTick(k)
    /\ UNCHANGED <<now, kind, life, row, shared, request, history, budgets>>
RecordFire(k) ==
    /\ stage[k] = "record"
    /\ runs' = Recorded(IF decided[k].missed THEN "SKIPPED" ELSE "PENDING")
    /\ EndTick(k)
    /\ UNCHANGED <<now, kind, life, row, shared, request, history, budgets>>

\* The replica dies or a call rejects; the next tick starts over.
LoseTick(k) ==
    /\ stage[k] # "idle"
    /\ losses < MaxLosses /\ losses' = losses + 1
    /\ EndTick(k)
    /\ UNCHANGED <<now, kind, life, row, shared, request, runs, history, requests>>

TickStep(k) == ReadDue(k) \/ Decide(k) \/ Claim(k) \/ ClaimLost(k) \/ RecordFire(k)

Next ==
    \/ Tick \/ FlipVisibility \/ Pause \/ Delete
    \/ \E h \in Handlers :
          \/ ReadForCreate(h) \/ ReadForResume(h)
          \/ \E who \in People : \/ \E edit \in Edits : ReadForPatch(h, who, edit)
                                 \/ \E op \in {"approve", "reject"} : ReadForReview(h, who, op)
          \/ WriteCreate(h) \/ WritePatch(h) \/ WriteResume(h) \/ WriteReview(h) \/ WriteNothing(h)
    \/ \E k \in Tickers : TickStep(k) \/ LoseTick(k)

Spec == Init /\ [][Next]_vars
-----------------------------------------------------------------------------
(* Properties *)

Claims(k) == stage[k] = "claim" /\ stage'[k] = "record"

\* Between two API writes that arm it, the fires of a schedule go forward: each is
\* for a time after the moment the one before was decided.  So no time is fired
\* twice by overlapping ticks of any replicas, and an outage leaves no backlog
\* (scheduler.ts:9, 61).
FiresMoveForward == [][\A k \in Tickers : Claims(k) => snap[k].next > seen]_vars

\* A fire is only ever claimed while the schedule is approved, although the claim
\* does not look: every withdrawal of approval also clears nextFireAt, which the
\* claim does look at (scheduler.ts:78, schedules.ts:200).  Handlers that
\* overwrote each other are excepted.
FiresOnlyApproved ==
    [][\A k \in Tickers : Claims(k) => row.approval = "APPROVED" \/ raced]_vars

\* What is approved is what was approved: an edit of an approved schedule in a
\* shared project sends it back for review.  Handlers that overwrote each other
\* are excepted (schedules.ts:185).
ApprovedAsReviewed ==
    exists /\ row.approval = "APPROVED" /\ ~raced => Content(row) = vetted

\* Every claimed fire leaves one Run behind, executed or SKIPPED, unless the tick
\* was lost between claim and creation (scheduler.ts:86).
FiresAccounted ==
    losses = 0 /\ exists =>
        claims = runs["PENDING"] + runs["SKIPPED"] + Cardinality({k \in Tickers : stage[k] = "record"})

\* REQUIREMENTS.md:206 excludes the person who made the change from its review
\* when another eligible approver exists.
NotOwnChange ==
    [][\A h \in Handlers :
          request[h].op = "approve" /\ request'[h] = Idle /\ exists /\ request[h].who \notin Admins
          /\ Eligible \ {request[h].who} # {}
             => request[h].who # editor]_vars
=============================================================================
