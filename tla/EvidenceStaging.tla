--------------------------- MODULE EvidenceStaging ---------------------------
(***************************************************************************)
(* The OCR evidence of one Run across its attempts: RunArtifact rows (a    *)
(* searchable PDF per attachment) and Run.extractedText, which users read  *)
(* after the end as the record of what the agent was given.                *)
(*                                                                         *)
(* An attempt stages its rows as "pending", swaps them in right before the *)
(* request is sent (the rows of the previous attempt become "previous"),   *)
(* and drops or restores the previous ones depending on whether the        *)
(* request left.  The staging transactions, the worker's in-memory flags,  *)
(* crashes between them, rejected calls (without effect, or committed with *)
(* their answer lost) and the reaper's unconditional write are modelled;   *)
(* the queue, slots and side effects are the subject of RunLifecycle.      *)
(***************************************************************************)
EXTENDS Naturals, FiniteSets

CONSTANTS
    Docs,           \* attachments a job may have
    Attempts,       \* maxRetries + 1
    MaxEdits,       \* bound: attachments added or removed by users
    MaxCrashes,     \* bound: workers dying
    MaxFaults       \* bound: calls to Postgres or the OCR service rejecting

ASSUME EvidenceAssumption ==
    /\ IsFiniteSet(Docs)
    /\ Attempts \in Nat \ {0}
    /\ MaxEdits \in Nat /\ MaxCrashes \in Nat /\ MaxFaults \in Nat

VARIABLES
    status, rows, text,     \* Postgres: the run, its artifacts by kind, extractedText
    attached, queued,       \* Postgres: the job's attachments; BullMQ: a job is left
    made,                   \* BullMQ: attemptsMade
    pc, attempt,            \* the worker: where it is, number of this attempt
    listed, sections,       \* attachments still to extract, extracted ones
    prepared, invoked,      \* evidenceSwapPrepared, agentInvoked
    prevText,               \* previousExtractedText
    err,                    \* the error on its way to the catch block
    sent, asked,            \* history: last attempt whose request left, its attachments
    inSweep,                \* the reaper has the run in its snapshot of stale rows
    cut,                    \* history: stopped between a swap and its resolution, no request since
    overtaken,              \* history: reaped under an attempt that staged and had not asked yet
    edits, crashes, faults

dbVars == <<status, rows, text>>
laneVars == <<pc, attempt, listed, sections, prepared, invoked, prevText, err>>
reapVars == <<inSweep, overtaken>>
budgetVars == <<edits, crashes, faults>>
evidenceVars == <<dbVars, attached, queued, made, laneVars, sent, asked, cut, reapVars, budgetVars>>

Kind == {"pending", "searchable", "previous"}
Terminal == status \in {"SUCCESS", "FAILED", "CANCELLED"}
Row == (Nat \ {0}) \X Docs

EvidenceTypeOK ==
    /\ status \in {"PENDING", "RUNNING", "SUCCESS", "FAILED", "CANCELLED"}
    /\ rows \in [Kind -> SUBSET Row]
    /\ attached \subseteq Docs /\ listed \subseteq Docs /\ sections \subseteq Docs /\ asked \subseteq Docs
    /\ {text, prevText, attempt, made, sent, edits, crashes, faults} \subseteq Nat
    /\ pc \in {"idle", "load", "extract", "start", "swapped", "dispatched", "agent", "catch", "settle"}
    /\ err \in {"none", "cancelled", "permanent", "transient"}
    /\ {queued, prepared, invoked, inSweep, cut, overtaken} \subseteq BOOLEAN

EvidenceInit ==
    /\ status = "PENDING" /\ rows = [k \in Kind |-> {}] /\ text = 0
    /\ attached \in SUBSET Docs /\ queued = TRUE /\ made = 0
    /\ pc = "idle" /\ attempt = 0 /\ listed = {} /\ sections = {}
    /\ prepared = FALSE /\ invoked = FALSE /\ prevText = 0 /\ err = "none"
    /\ sent = 0 /\ asked = {} /\ inSweep = FALSE /\ cut = FALSE /\ overtaken = FALSE
    /\ edits = 0 /\ crashes = 0 /\ faults = 0

WithoutStaging == [rows EXCEPT !["pending"] = {}, !["previous"] = {}]

Raise(e) == pc' = "catch" /\ err' = e

\* The attempt is over; more says whether BullMQ will run the job again.
Leave(more) ==
    /\ pc' = "idle" /\ err' = "none"
    /\ listed' = {} /\ sections' = {}
    /\ prepared' = FALSE /\ invoked' = FALSE
    /\ queued' = more
    /\ UNCHANGED <<attempt, prevText>>

-----------------------------------------------------------------------------
\* The owner attaches or deletes a file; the worker sees it when it lists or reads.
EditAttachments ==
    /\ edits < MaxEdits
    /\ edits' = edits + 1
    /\ \E d \in Docs : attached' = IF d \in attached THEN attached \ {d} ELSE attached \cup {d}
    /\ UNCHANGED <<dbVars, queued, made, laneVars, sent, asked, cut, reapVars, crashes, faults>>

\* processRun loads the run, and its extractedText with it.
Pickup ==
    /\ pc = "idle" /\ queued /\ ~Terminal
    /\ pc' = "load"
    /\ attempt' = attempt + 1
    /\ prevText' = text
    /\ UNCHANGED <<dbVars, attached, queued, made, listed, sections, prepared, invoked, err,
                   sent, asked, cut, reapVars, budgetVars>>

\* A cancel found before the attempt starts: staging is removed, then CANCELLED.
CancelQueued ==
    /\ pc = "load"
    /\ rows' = WithoutStaging
    /\ pc' = "settle" /\ err' = "cancelled"
    /\ UNCHANGED <<status, text, attached, queued, made, attempt, listed, sections, prepared, invoked,
                   prevText, sent, asked, cut, reapVars, budgetVars>>

\* RUNNING, the removal of staging rows a crash left, the list of attachments.
StartAttempt ==
    /\ pc = "load"
    /\ status' = "RUNNING"
    /\ rows' = WithoutStaging
    /\ listed' = attached
    /\ pc' = "extract"
    /\ UNCHANGED <<text, attached, queued, made, attempt, sections, prepared, invoked, prevText, err,
                   sent, asked, cut, reapVars, budgetVars>>

\* The write of RUNNING went through; then a job without any prompt version throws, or
\* the removal of staging rows is rejected, with or without its effect.
StartFails ==
    /\ pc = "load"
    /\ status' = "RUNNING"
    /\ \/ rows' = rows /\ UNCHANGED faults
       \/ rows' = WithoutStaging /\ faults < MaxFaults /\ faults' = faults + 1
    /\ Raise("transient")
    /\ UNCHANGED <<text, attached, queued, made, attempt, listed, sections, prepared, invoked, prevText,
                   sent, asked, cut, reapVars, edits, crashes>>

\* One attachment: deleted meanwhile, or extracted and its rendition staged.
StagedRows(d) == [rows EXCEPT !["pending"] = @ \cup {<<attempt, d>>}]

Extract(d) ==
    /\ pc = "extract" /\ d \in listed
    /\ listed' = listed \ {d}
    /\ IF d \in attached
       THEN /\ sections' = sections \cup {d}
            /\ rows' = StagedRows(d)
       ELSE UNCHANGED <<sections, rows>>
    /\ UNCHANGED <<status, text, attached, queued, made, pc, attempt, prepared, invoked, prevText, err,
                   sent, asked, cut, reapVars, budgetVars>>

\* A cancel, a 4xx or prompt budget, or the deadline, before the request.
FailBeforeSend ==
    /\ pc \in {"extract", "start"}
    /\ \E e \in {"cancelled", "permanent", "transient"} : Raise(e)
    /\ UNCHANGED <<dbVars, attached, queued, made, attempt, listed, sections, prepared, invoked, prevText,
                   sent, asked, cut, reapVars, budgetVars>>

Extracted ==
    /\ pc = "extract" /\ listed = {}
    /\ pc' = "start"
    /\ UNCHANGED <<dbVars, attached, queued, made, attempt, listed, sections, prepared, invoked, prevText, err,
                   sent, asked, cut, reapVars, budgetVars>>

\* What callAgent makes of an error of its own or of one of its hooks: a cancellation if
\* the run's signal was aborted meanwhile.
CallError == {"cancelled", "transient"}

\* onRequestStart's transaction.
SwappedRows ==
    [k \in Kind |-> CASE k = "searchable" -> rows["pending"]
                      [] k = "previous"   -> rows["previous"] \cup rows["searchable"]
                      [] k = "pending"    -> {}]

PrepareSwap ==
    /\ pc = "start"
    /\ rows' = SwappedRows /\ text' = attempt
    /\ prepared' = TRUE
    /\ pc' = "swapped"
    /\ UNCHANGED <<status, attached, queued, made, attempt, listed, sections, invoked, prevText, err,
                   sent, asked, cut, reapVars, budgetVars>>

\* The transaction commits but its answer is lost: the flag stays unset.
SwapAnswerLost ==
    /\ pc = "start" /\ faults < MaxFaults
    /\ faults' = faults + 1
    /\ rows' = SwappedRows /\ text' = attempt
    /\ cut' = TRUE
    /\ \E e \in CallError : Raise(e)
    /\ UNCHANGED <<status, attached, queued, made, attempt, listed, sections, prepared, invoked, prevText,
                   sent, asked, reapVars, edits, crashes>>

\* rollbackEvidenceSwap: its transaction, then its flag.
RestoredRows ==
    [rows EXCEPT !["searchable"] = rows["previous"], !["previous"] = {}]

\* The signal was aborted meanwhile: onRequestAbortedBeforeDispatch rolls back.
AbortBeforeSend ==
    /\ pc = "swapped"
    /\ rows' = RestoredRows /\ text' = prevText
    /\ prepared' = FALSE
    /\ \E e \in CallError : Raise(e)
    /\ UNCHANGED <<status, attached, queued, made, attempt, listed, sections, invoked, prevText,
                   sent, asked, cut, reapVars, budgetVars>>

\* The rollback commits but its answer is lost: the flag stays set, and the catch block
\* rolls back what is rolled back already, which deletes the rows just restored.
RollbackAnswerLost ==
    /\ pc = "swapped" /\ faults < MaxFaults
    /\ faults' = faults + 1
    /\ rows' = RestoredRows /\ text' = prevText
    /\ cut' = TRUE
    /\ \E e \in CallError : Raise(e)
    /\ UNCHANGED <<status, attached, queued, made, attempt, listed, sections, prepared, invoked, prevText,
                   sent, asked, reapVars, edits, crashes>>

\* fetch, and the synchronous part of onRequestDispatched.
Send ==
    /\ pc = "swapped"
    /\ sent' = attempt /\ asked' = sections
    /\ invoked' = TRUE /\ prepared' = FALSE /\ cut' = FALSE
    /\ pc' = "dispatched"
    /\ UNCHANGED <<dbVars, attached, queued, made, attempt, listed, sections, prevText, err, reapVars, budgetVars>>

\* ... then it deletes what the previous request was given.
DropPrevious ==
    /\ pc = "dispatched"
    /\ rows' = [rows EXCEPT !["previous"] = {}]
    /\ pc' = "agent"
    /\ UNCHANGED <<status, text, attached, queued, made, attempt, listed, sections, prepared, invoked,
                   prevText, err, sent, asked, cut, reapVars, budgetVars>>

Succeed ==
    /\ pc = "agent"
    /\ status' = "SUCCESS"
    /\ Leave(FALSE)
    /\ UNCHANGED <<rows, text, attached, made, sent, asked, cut, reapVars, budgetVars>>

AgentFails ==
    /\ pc = "agent"
    /\ \E e \in {"cancelled", "permanent", "transient"} : Raise(e)
    /\ UNCHANGED <<dbVars, attached, queued, made, attempt, listed, sections, prepared, invoked, prevText,
                   sent, asked, cut, reapVars, budgetVars>>

-----------------------------------------------------------------------------
(* The catch block: clearPreAgentExtraction, then the outcome.  The rollback
   inside it is a transaction of its own. *)

Rollback ==
    /\ pc = "catch" /\ ~invoked /\ prepared
    /\ rows' = RestoredRows /\ text' = prevText
    /\ prepared' = FALSE
    /\ UNCHANGED <<status, attached, queued, made, pc, attempt, listed, sections, invoked, prevText, err,
                   sent, asked, cut, reapVars, budgetVars>>

ClearStagingAlways ==
    /\ pc = "catch" /\ (invoked \/ ~prepared)
    /\ rows' = IF invoked THEN rows ELSE [k \in Kind |-> {}]
    /\ pc' = "settle"
    /\ UNCHANGED <<status, text, attached, queued, made, attempt, listed, sections, prepared, invoked,
                   prevText, err, sent, asked, cut, reapVars, budgetVars>>
ClearStaging ==
    /\ pc = "catch" /\ (invoked \/ ~prepared)
    /\ rows' = IF invoked THEN rows ELSE WithoutStaging
    /\ pc' = "settle"
    /\ UNCHANGED <<status, text, attached, queued, made, attempt, listed, sections, prepared, invoked,
                   prevText, err, sent, asked, cut, reapVars, budgetVars>>

\* CANCELLED; FAILED for a permanent error or the last attempt; otherwise BullMQ retries.
Outcomes ==
    CASE err = "cancelled" -> {"CANCELLED"}
      [] err = "permanent" \/ (err = "transient" /\ made + 1 >= Attempts) -> {"FAILED"}
      [] OTHER -> {}

Settle ==
    /\ pc = "settle"
    /\ \/ status' \in Outcomes /\ Leave(FALSE) /\ UNCHANGED made
       \/ /\ err = "transient" /\ made + 1 < Attempts
          /\ made' = made + 1 /\ Leave(TRUE) /\ UNCHANGED status
    /\ UNCHANGED <<rows, text, attached, sent, asked, cut, reapVars, budgetVars>>

-----------------------------------------------------------------------------
\* The status, rows and text the current step's own write leads to (the swap and the
\* first rollback have actions of their own).
Committed ==
    CASE pc = "load"       -> {<<"RUNNING", rows, text>>, <<status, WithoutStaging, text>>}
      [] pc = "extract"    -> {<<status, StagedRows(d), text>> : d \in listed \cap attached}
      [] pc = "dispatched" -> {<<status, [rows EXCEPT !["previous"] = {}], text>>}
      [] pc = "agent"      -> {<<"SUCCESS", rows, text>>}
      [] pc = "catch" /\ ~invoked /\ prepared  -> {<<status, RestoredRows, prevText>>}
      [] pc = "catch" /\ ~invoked /\ ~prepared -> {<<status, WithoutStaging, text>>}
      [] pc = "settle"     -> {<<s, rows, text>> : s \in Outcomes}
      [] OTHER -> {}

\* A call rejects, without effect or with its answer lost: in the inner try it leads to
\* the catch block, before it and in the catch block out of processRun, and BullMQ
\* counts an attempt.
Fault ==
    /\ faults < MaxFaults
    /\ faults' = faults + 1
    /\ \E db \in {dbVars} \cup Committed : status' = db[1] /\ rows' = db[2] /\ text' = db[3]
    /\ \/ /\ pc \in {"extract", "start", "swapped", "dispatched", "agent"}
          /\ \E e \in IF pc \in {"extract", "agent"} THEN {"transient"} ELSE CallError : Raise(e)
          /\ UNCHANGED <<queued, made, attempt, listed, sections, prepared, invoked, prevText, cut>>
       \/ /\ pc \in {"load", "catch", "settle"}
          /\ made' = made + 1 /\ Leave(made + 1 < Attempts)
          /\ cut' = (cut \/ (prepared /\ text' # prevText))
    /\ UNCHANGED <<attached, sent, asked, reapVars, edits, crashes>>

\* The worker dies: BullMQ delivers the job again, or gives up on a job that
\* stalled too often.
Crash ==
    /\ pc # "idle" /\ crashes < MaxCrashes
    /\ crashes' = crashes + 1
    /\ \E more \in BOOLEAN : Leave(more)
    /\ cut' = (cut \/ prepared)
    /\ UNCHANGED <<dbVars, attached, made, sent, asked, reapVars, edits, faults>>

\* The orphan reaper's query: no attempt that wrote its startedAt is stale.
Sweep ==
    /\ ~inSweep /\ status = "RUNNING" /\ pc \in {"idle", "load"}
    /\ inSweep' = TRUE
    /\ UNCHANGED <<dbVars, attached, queued, made, laneVars, sent, asked, cut, overtaken, budgetVars>>

\* Its transaction, later, whatever the row says and whoever is on the run by now.
Unasked == pc \in {"extract", "start", "swapped"} \/ (pc = "catch" /\ ~invoked)
ReapKeepsStaging ==
    /\ inSweep /\ inSweep' = FALSE
    /\ status' = "FAILED"
    /\ overtaken' = (overtaken \/ Unasked)
    /\ UNCHANGED <<rows, text, attached, queued, made, laneVars, sent, asked, cut, budgetVars>>
Reap ==
    /\ inSweep /\ inSweep' = FALSE
    /\ status' = "FAILED"
    /\ rows' = WithoutStaging
    /\ overtaken' = (overtaken \/ Unasked)
    /\ UNCHANGED <<text, attached, queued, made, laneVars, sent, asked, cut, budgetVars>>

EvidenceNext ==
    \/ EditAttachments \/ Pickup \/ CancelQueued \/ StartAttempt \/ StartFails
    \/ \E d \in Docs : Extract(d)
    \/ FailBeforeSend \/ Extracted \/ PrepareSwap \/ SwapAnswerLost \/ AbortBeforeSend \/ RollbackAnswerLost
    \/ Send \/ DropPrevious \/ Succeed \/ AgentFails
    \/ Rollback \/ ClearStaging \/ Settle \/ Fault \/ Crash \/ Sweep \/ Reap

EvidenceSpec == EvidenceInit /\ [][EvidenceNext]_evidenceVars
-----------------------------------------------------------------------------
(* Properties *)

NeverMixed == rows["searchable"] \subseteq {text} \X Docs

\* What a user reads after the end is what the agent was last given: the visible
\* rows are those of the last request that left, one per attachment in its prompt,
\* with its text, whatever failed before, between or after (processor.ts:252, 269,
\* runs.ts:174), also when the reaper ended the run under a retry that had asked or not
\* yet staged anything.  Three things are excepted: a worker was stopped between a swap
\* and its resolution, or the answer of the swap or of the rollback was lost, and no
\* request left since (cut); or the reaper deleted what an attempt had staged and not
\* sent (overtaken).  Always, visible rows and text never come from two attempts
\* (processor.ts:509-511).
EvidenceMatchesRequest ==
    /\ NeverMixed
    /\ Terminal /\ ~cut /\ ~overtaken => /\ rows["searchable"] = {sent} \X asked
                                         /\ text = sent

\* A run that ended, reaped or not, leaves no hidden rows behind, unless a call was
\* rejected or the reaper ended it under an attempt that goes on staging.
StagingRemoved ==
    Terminal /\ faults = 0 /\ ~overtaken => rows["pending"] = {} /\ rows["previous"] = {}

\* processor.ts:320 says what a retry discards never describes a dispatched
\* request.
DiscardsOnlyUnsent ==
    [][pc = "load" /\ pc' = "extract" =>
          \A row \in rows["pending"] \cup rows["previous"] : row[1] # sent]_evidenceVars
=============================================================================
