---------------------------- MODULE PromptLibrary ----------------------------
(***************************************************************************)
(* The prompts of a project, one job that uses them and its schedules      *)
(* (api: routes/prompts.ts, jobs.ts, the pins of schedules.ts; worker:     *)
(* what processRun makes of a pin).  A handler checks and then writes, and *)
(* another request may act in between; foreign keys are checked again by   *)
(* the write itself.  A request that is refused changes nothing.           *)
(*                                                                         *)
(* A version is <<prompt, number>>.  Versions are only added, and go with  *)
(* their prompt, so a prompt's versions are 1..latest.  Whether a schedule *)
(* may fire is the subject of ScheduleFiring.                              *)
(***************************************************************************)
EXTENDS Naturals

CONSTANTS
    Prompts,        \* ids a prompt may get; a deleted one is not reused
    Schedules,      \* ids a schedule of the job may get; likewise
    Callers,        \* bound: API requests in flight
    MaxTries,       \* MAX_VERSION_CONFLICT_RETRIES
    MaxVersions,    \* bound: versions of one prompt
    MaxCalls,       \* bound: requests in all
    NoPin, NoJob, Deleted, Failed

ASSUME PromptAssumption ==
    /\ MaxTries \in Nat \ {0} /\ MaxVersions \in Nat \ {0} /\ MaxCalls \in Nat
    /\ {NoJob, Deleted} \cap Prompts = {}
    /\ {NoPin, Failed} \cap (Prompts \X Nat) = {}

VARIABLES
    latest,     \* prompt -> its greatest version number; 0: there is no such prompt
    buried,     \* prompts that were deleted
    job,        \* the prompt the job uses, NoJob before it, Deleted after it
    scheds,     \* schedule -> its row
    call,       \* caller -> what its handler holds
    calls,      \* requests begun
    due         \* the schedule whose run waits for a worker

libraryVars == <<latest, buried, job, scheds, call, calls, due>>

Versions == Prompts \X (1..MaxVersions)
Modes == {"PINNED", "LATEST"}

\* asked, a history: the version the last write of the pin named.
Sched == [state : {"unused", "live", "deleted"}, mode : Modes,
          pin : Versions \cup {NoPin}, asked : Versions \cup {NoPin}]
UnusedSched == [state |-> "unused", mode |-> "LATEST", pin |-> NoPin, asked |-> NoPin]

\* read: the greatest version it read; tries: inserts refused so far; from, a
\* history: the greatest version when it came.
Ops == {"idle", "read", "insert", "bury", "createJob", "moveJob", "createSched", "editSched"}
Call == [op : Ops, prompt : Prompts \cup {NoJob}, read : 0..MaxVersions, tries : 0..MaxTries,
         from : 0..MaxVersions, sched : Schedules \cup {NoPin}, mode : Modes \cup {"same"},
         pin : Versions \cup {NoPin, "same"}]
NoCall == [op |-> "idle", prompt |-> NoJob, read |-> 0, tries |-> 0, from |-> 0,
           sched |-> NoPin, mode |-> "same", pin |-> "same"]

LibraryTypeOK ==
    /\ latest \in [Prompts -> 0..MaxVersions]
    /\ buried \subseteq Prompts
    /\ job \in Prompts \cup {NoJob, Deleted}
    /\ scheds \in [Schedules -> Sched]
    /\ call \in [Callers -> Call]
    /\ due \in Schedules \cup {NoPin}
    /\ calls \in 0..MaxCalls

LibraryInit ==
    /\ latest = [p \in Prompts |-> 0] /\ buried = {} /\ job = NoJob
    /\ scheds = [s \in Schedules |-> UnusedSched]
    /\ call = [c \in Callers |-> NoCall]
    /\ calls = 0 /\ due = NoPin

Present(p) == latest[p] > 0
IsVersion(v) == v \in Versions /\ v[2] <= latest[v[1]]
Doing(c, op) == call[c].op = op
Answer(c) == call' = [call EXCEPT ![c] = NoCall]
Accept(c, r) ==
    /\ call[c] = NoCall /\ calls < MaxCalls
    /\ call' = [call EXCEPT ![c] = r]
    /\ calls' = calls + 1

-----------------------------------------------------------------------------
(* Prompts and their versions.                                             *)

\* The prompt and its first version, in one transaction.
CreatePrompt(p) ==
    /\ ~Present(p) /\ p \notin buried
    /\ latest' = [latest EXCEPT ![p] = 1]
    /\ UNCHANGED <<buried, job, scheds, call, calls, due>>

BeginVersion(c, p) ==
    /\ Present(p)
    /\ Accept(c, [NoCall EXCEPT !.op = "read", !.prompt = p, !.from = latest[p]])
    /\ UNCHANGED <<latest, buried, job, scheds, due>>

ReadLatest(c) ==
    /\ Doing(c, "read")
    /\ call' = [call EXCEPT ![c].op = "insert", ![c].read = latest[call[c].prompt]]
    /\ UNCHANGED <<latest, buried, job, scheds, calls, due>>

\* The unique index refuses a number that is taken.
Taken(c) == Present(call[c].prompt) /\ call[c].read < latest[call[c].prompt]

\* A retry with the number it read at first.
RetryAsBefore(c) ==
    /\ Doing(c, "insert") /\ Taken(c) /\ call[c].tries + 1 < MaxTries
    /\ call' = [call EXCEPT ![c].tries = @ + 1]
    /\ UNCHANGED <<latest, buried, job, scheds, calls, due>>

RetryVersion(c) ==
    /\ Doing(c, "insert") /\ Taken(c) /\ call[c].tries + 1 < MaxTries
    /\ call' = [call EXCEPT ![c].op = "read", ![c].tries = @ + 1]
    /\ UNCHANGED <<latest, buried, job, scheds, calls, due>>

\* 409 after the last try.
CrowdOut(c) ==
    /\ Doing(c, "insert") /\ Taken(c) /\ call[c].tries + 1 = MaxTries
    /\ Answer(c)
    /\ UNCHANGED <<latest, buried, job, scheds, calls, due>>

\* The insert, and the prompt's updatedAt; a prompt deleted meanwhile refuses it.
InsertVersion(c) ==
    LET p == call[c].prompt IN
    /\ Doing(c, "insert") /\ ~Taken(c)
    /\ Answer(c)
    /\ \/ /\ Present(p) /\ latest[p] < MaxVersions
          /\ latest' = [latest EXCEPT ![p] = call[c].read + 1]
       \/ ~Present(p) /\ UNCHANGED latest
    /\ UNCHANGED <<buried, job, scheds, calls, due>>

\* DELETE /prompts/:id counts the jobs that use the prompt.
BeginBury(c, p) ==
    /\ Present(p) /\ job # p
    /\ Accept(c, [NoCall EXCEPT !.op = "bury", !.prompt = p])
    /\ UNCHANGED <<latest, buried, job, scheds, due>>

\* The deletion takes the versions along and clears the pins on them; a job that
\* came to use the prompt meanwhile refuses it (foreign key).
Bury(c) ==
    LET p == call[c].prompt IN
    /\ Doing(c, "bury")
    /\ Answer(c)
    /\ IF Present(p) /\ job # p
       THEN /\ latest' = [latest EXCEPT ![p] = 0]
            /\ buried' = buried \cup {p}
            /\ scheds' = [s \in Schedules |->
                  IF scheds[s].pin \in {p} \X (1..MaxVersions)
                  THEN [scheds[s] EXCEPT !.pin = NoPin] ELSE scheds[s]]
       ELSE UNCHANGED <<latest, buried, scheds>>
    /\ UNCHANGED <<job, calls, due>>

-----------------------------------------------------------------------------
(* The job.                                                                *)

\* POST and PATCH of a job: the prompt must be one of its project.
BeginJob(c, p) ==
    /\ Present(p) /\ job # Deleted
    /\ Accept(c, [NoCall EXCEPT !.op = IF job = NoJob THEN "createJob" ELSE "moveJob", !.prompt = p])
    /\ UNCHANGED <<latest, buried, job, scheds, due>>

WriteJob(c) ==
    /\ \/ Doing(c, "createJob") /\ job = NoJob
       \/ Doing(c, "moveJob") /\ job \in Prompts
    /\ Answer(c)
    /\ job' = IF Present(call[c].prompt) THEN call[c].prompt ELSE job
    /\ UNCHANGED <<latest, buried, scheds, calls, due>>

\* The job is there by now (another one would be made), or is gone.
JobTooLate(c) ==
    /\ \/ Doing(c, "createJob") /\ job # NoJob
       \/ Doing(c, "moveJob") /\ job = Deleted
    /\ Answer(c)
    /\ UNCHANGED <<latest, buried, job, scheds, calls, due>>

\* DELETE /jobs/:id takes its schedules and runs along.
DeleteJob ==
    /\ job \in Prompts
    /\ job' = Deleted
    /\ scheds' = [s \in Schedules |-> IF scheds[s].state = "live"
                                      THEN [scheds[s] EXCEPT !.state = "deleted"] ELSE scheds[s]]
    /\ due' = NoPin
    /\ UNCHANGED <<latest, buried, call, calls>>

-----------------------------------------------------------------------------
(* Pins.                                                                   *)

\* The schema wants a version with the mode PINNED, the handler one of the
\* prompt the job uses.
PinAllowed(mode, pin) ==
    /\ mode = "PINNED" => pin \in Versions
    /\ pin \in Versions => IsVersion(pin) /\ pin[1] = job

BeginSched(c, s, mode, pin) ==
    /\ job \in Prompts /\ PinAllowed(mode, pin)
    /\ \/ scheds[s].state = "unused" /\ mode # "same" /\ pin # "same"
       \/ scheds[s].state = "live"
    /\ Accept(c, [NoCall EXCEPT !.op = IF scheds[s].state = "live" THEN "editSched" ELSE "createSched",
                                !.sched = s, !.mode = mode, !.pin = pin])
    /\ UNCHANGED <<latest, buried, job, scheds, due>>

\* A row still refers to existing ones only.
SchedWritable(c) ==
    /\ call[c].pin \in Versions => IsVersion(call[c].pin)
    /\ \/ Doing(c, "createSched") /\ job \in Prompts /\ scheds[call[c].sched].state = "unused"
       \/ Doing(c, "editSched") /\ scheds[call[c].sched].state = "live"

WriteSched(c) ==
    LET k == call[c] IN
    /\ k.op \in {"createSched", "editSched"}
    /\ Answer(c)
    /\ scheds' = IF ~SchedWritable(c) THEN scheds
                 ELSE [scheds EXCEPT ![k.sched] =
                        [state |-> "live",
                         mode |-> IF k.mode = "same" THEN @.mode ELSE k.mode,
                         pin |-> IF k.pin = "same" THEN @.pin ELSE k.pin,
                         asked |-> IF k.pin = "same" THEN @.asked ELSE k.pin]]
    /\ UNCHANGED <<latest, buried, job, calls, due>>

DeleteSched(s) ==
    /\ scheds[s].state = "live"
    /\ scheds' = [scheds EXCEPT ![s].state = "deleted"]
    /\ UNCHANGED <<latest, buried, job, call, calls, due>>

Fire(s) ==
    /\ due = NoPin /\ scheds[s].state = "live"
    /\ due' = s
    /\ UNCHANGED <<latest, buried, job, scheds, call, calls>>

\* processRun falls back to the newest version when the pinned one is not there.
ChosenOrLatest(s) ==
    IF scheds[s].state = "live" /\ scheds[s].mode = "PINNED" /\ IsVersion(scheds[s].pin)
       /\ scheds[s].pin[1] = job
    THEN scheds[s].pin
    ELSE <<job, latest[job]>>

\* The pinned version if the schedule is there and has one, and then only if it
\* is among the versions of the prompt the job uses now; else the newest.
ChosenVersion(s) ==
    IF scheds[s].state = "live" /\ scheds[s].mode = "PINNED" /\ scheds[s].pin # NoPin
    THEN IF scheds[s].pin[1] = job THEN scheds[s].pin ELSE Failed
    ELSE <<job, latest[job]>>

PickUp ==
    /\ due # NoPin
    /\ due' = NoPin
    /\ UNCHANGED <<latest, buried, job, scheds, call, calls>>

-----------------------------------------------------------------------------
LibraryStep(c) ==
    \/ ReadLatest(c) \/ RetryVersion(c) \/ CrowdOut(c) \/ InsertVersion(c) \/ Bury(c)
    \/ WriteJob(c) \/ JobTooLate(c) \/ WriteSched(c)
    \/ \E p \in Prompts : BeginVersion(c, p) \/ BeginBury(c, p) \/ BeginJob(c, p)
    \/ \E s \in Schedules, mode \in Modes \cup {"same"}, pin \in Versions \cup {NoPin, "same"} :
          BeginSched(c, s, mode, pin)

LibraryNext ==
    \/ \E c \in Callers : LibraryStep(c)
    \/ \E p \in Prompts : CreatePrompt(p)
    \/ \E s \in Schedules : DeleteSched(s) \/ Fire(s)
    \/ DeleteJob \/ PickUp

LibrarySpec == LibraryInit /\ [][LibraryNext]_libraryVars

-----------------------------------------------------------------------------
(* Properties.                                                             *)

\* A request for a new version is turned away (409) only when MaxTries versions
\* were added while it tried: each retry reads the greatest number anew, so a
\* lost race costs one try and no more (createNextPromptVersion).
CrowdedOut ==
    [][\A c \in Callers :
         Doing(c, "insert") /\ Taken(c) /\ call'[c].op = "idle" =>
            latest[call[c].prompt] >= call[c].from + MaxTries]_libraryVars

\* What becomes of a run of a schedule pinned to a version, if it is picked up
\* now and no prompt in S was deleted.
RunsAsPinned(S) ==
    due # NoPin =>
        LET s == scheds[due] IN
        s.state = "live" /\ s.mode = "PINNED" /\ s.asked \in Versions /\ s.asked[1] \notin S
           => ChosenVersion(due) \in {s.asked, Failed}

\* A run of a schedule that is pinned executes the version that was asked for or
\* fails, whatever was done to the job, its prompts and their versions since;
\* only the deletion of the pinned prompt, which clears the pin, undoes it.
PinHonoured == RunsAsPinned(buried)

\* README.md:30-32: "every edit creates a new immutable version, so a schedule
\* pinned to a specific version never changes underneath it".
PinNeverMoves == RunsAsPinned({})
=============================================================================
