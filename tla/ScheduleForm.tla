------------------------------ MODULE ScheduleForm ------------------------------
(***************************************************************************)
(* The schedules of a job in one browser (frontend:                        *)
(* ScheduleManagerDialog.tsx): one form creates and edits, keeps its       *)
(* fields from one use to the next, and is seeded from a list and a prompt *)
(* that were fetched some time ago.  Choosing another prompt version puts  *)
(* that version's default values in place of what the form holds; a ref    *)
(* lets the values of a schedule just opened survive that once.            *)
(***************************************************************************)
EXTENDS Naturals

CONSTANTS
    Schedules,      \* schedules, there or free
    MaxVersions,    \* bound: versions of the prompt
    WallClock,      \* the wall clock of an instant, in the one time zone
    MaxClicks,      \* bound: what the user does
    Typed,          \* variable values that hold what the user typed
    NoSchedule, NoWall

ASSUME FormAssumption ==
    MaxVersions \in Nat \ {0} /\ MaxClicks \in Nat /\ NoSchedule \notin Schedules

VARIABLES
    schedules,      \* the schedules stored
    versions,       \* versions of the prompt, the newest is the last
    listed, cached, \* schedulesQuery.data and the versions in promptQuery.data (0: none)
    fields,         \* the useState fields
    skip,           \* skipNextVariableResetRef
    effective,      \* effectiveVersion?.id, as the effect saw it last (0: undefined)
    underWay,       \* the save under way
    clicks,         \* what the user did so far
    seen,           \* history: what the list showed of the schedule opened last
    became,         \* history: the changes of the effective version since, and the last
    touched         \* history: its time was changed by hand since then

formVars == <<schedules, versions, listed, cached, fields, skip, effective, underWay, clicks, seen, became, touched>>
formHistory == <<seen, became, touched>>
storedVars == <<schedules, versions>>

Instants == DOMAIN WallClock
Walls == {WallClock[i] : i \in Instants}
Intervals == {"every_n_hours", "daily"}
Modes == {"LATEST", "PINNED"}
ScheduleTypes == {"ONE_TIME", "RECURRING"}

\* When it runs: at an instant, or at an interval; hours have a minute to run at.
Timing == [type : {"ONE_TIME"}, at : Instants]
          \cup [type : {"RECURRING"}, interval : {"every_n_hours"}, minute : {0, 30}]
          \cup [type : {"RECURRING"}, interval : {"daily"}]

\* Values: a schedule's own as they were, the defaults of a version, or typed ones.
VariableValues == Schedules \cup 0..MaxVersions \cup {Typed}
ScheduleRow == [timing : Timing, mode : Modes, pinned : 0..MaxVersions, values : VariableValues]
Form == [creating : BOOLEAN, editing : Schedules \cup {NoSchedule}, type : ScheduleTypes,
         wall : Walls \cup {NoWall}, interval : Intervals, mode : Modes,
         pinned : 0..MaxVersions, values : VariableValues]
NothingSent == [of |-> "nothing"]
FormRequest == {NothingSent} \cup [of : {"create", "update"}, id : Schedules \cup {NoSchedule}, row : ScheduleRow,
                        stage : {"sent", "ok", "failed"}]

FormTypeOK ==
    /\ schedules \in [Schedules -> ScheduleRow \cup {NoSchedule}] /\ listed \in [Schedules -> ScheduleRow \cup {NoSchedule}]
    /\ versions \in 1..MaxVersions /\ {cached, effective} \subseteq 0..MaxVersions
    /\ fields \in Form /\ skip \in BOOLEAN /\ underWay \in FormRequest /\ clicks \in 0..MaxClicks
    /\ seen \in ScheduleRow \cup {NoSchedule} /\ became \in [changes : 0..2, last : 0..MaxVersions] /\ touched \in BOOLEAN

FormOpen == fields.creating \/ fields.editing # NoSchedule

Click == clicks < MaxClicks /\ clicks' = clicks + 1

\* Two changes stand for all that follow.
NoChange == [changes |-> 0, last |-> 0]
Changed(e) == [changes |-> IF became.changes = 2 THEN 2 ELSE became.changes + 1, last |-> e]

\* A schedule as it may be stored when the dialog opens, with values of its own.
Stored(s) == [timing : Timing, mode : {"LATEST"}, pinned : {0}, values : {s}]
             \cup [timing : Timing, mode : {"PINNED"}, pinned : {1}, values : {s}]

FormInit ==
    /\ schedules \in [Schedules -> UNION {Stored(x) : x \in Schedules} \cup {NoSchedule}]
    /\ \A x \in Schedules : schedules[x] \in Stored(x) \cup {NoSchedule}
    /\ versions = 1 /\ listed = [s \in Schedules |-> NoSchedule] /\ cached = 0
    /\ fields = [creating |-> FALSE, editing |-> NoSchedule, type |-> "RECURRING", wall |-> NoWall,
               interval |-> "daily", mode |-> "LATEST", pinned |-> 0, values |-> 0]
    /\ skip = FALSE /\ effective = 0 /\ underWay = NothingSent /\ clicks = 0
    /\ seen = NoSchedule /\ became = NoChange /\ touched = FALSE

-----------------------------------------------------------------------------
\* effectiveVersion: the newest known, or the pinned one if it is known.
EffectiveVersion(f, known) ==
    IF f.mode = "LATEST" THEN known ELSE IF f.pinned <= known THEN f.pinned ELSE 0

\* A render with these fields, and the effect if the effective version is another.
Render(f, known, armed) ==
    LET e == EffectiveVersion(f, known) IN
    /\ effective' = e
    /\ skip' = (armed /\ e = effective)
    /\ fields' = IF armed \/ e = effective THEN f ELSE [f EXCEPT !.values = e]

\* What the user sees from now on.
Rerender(f, known) ==
    /\ Render(f, known, skip)
    /\ became' = LET e == EffectiveVersion(f, known) IN IF e = effective THEN became ELSE Changed(e)

LandList ==
    /\ listed # schedules /\ listed' = schedules
    /\ UNCHANGED <<storedVars, cached, fields, skip, effective, underWay, clicks, formHistory>>

LandPrompt ==
    /\ cached # versions /\ cached' = versions
    /\ Rerender(fields, versions)
    /\ UNCHANGED <<storedVars, listed, underWay, clicks, seen, touched>>

\* Somebody adds a version.
NewVersion ==
    /\ versions < MaxVersions /\ versions' = versions + 1
    /\ UNCHANGED <<schedules, listed, cached, fields, skip, effective, underWay, clicks, formHistory>>

-----------------------------------------------------------------------------
\* The form opens with the fields it had.
OpenCreate ==
    /\ Click /\ ~FormOpen
    /\ fields' = [fields EXCEPT !.creating = TRUE]
    /\ UNCHANGED <<storedVars, listed, cached, skip, effective, underWay, formHistory>>

\* openEdit: fields the schedule has no value for stay as they were.
SeededFrom(s) ==
    LET r == listed[s] IN
    [fields EXCEPT !.editing = s, !.type = r.timing.type, !.mode = r.mode, !.pinned = r.pinned, !.values = r.values,
                 !.wall = IF r.timing.type = "ONE_TIME" THEN WallClock[r.timing.at] ELSE @,
                 !.interval = IF r.timing.type = "RECURRING" THEN r.timing.interval ELSE @]
Opened(s) == seen' = listed[s] /\ became' = NoChange /\ touched' = FALSE

\* Edit is there for every schedule listed, also beside an open form and a save under way.
OpenEdit(s) ==
    /\ Click /\ listed[s] # NoSchedule
    /\ Render(SeededFrom(s), cached, TRUE) /\ Opened(s)
    /\ UNCHANGED <<storedVars, listed, cached, underWay>>

CloseForm ==
    /\ Click /\ FormOpen
    /\ fields' = [fields EXCEPT !.creating = FALSE, !.editing = NoSchedule]
    /\ UNCHANGED <<storedVars, listed, cached, skip, effective, underWay, formHistory>>

\* The fields for the version, each rendered as it is chosen.
ChooseVersion(mode, version) ==
    /\ Click /\ FormOpen
    /\ \/ mode # fields.mode /\ version = fields.pinned
       \/ mode = "PINNED" /\ fields.mode = "PINNED" /\ version \in 1..cached
    /\ Rerender([fields EXCEPT !.mode = mode, !.pinned = version], cached)
    /\ UNCHANGED <<storedVars, listed, cached, underWay, seen, touched>>

\* The version's variables have a field each.
TypeValue ==
    /\ Click /\ FormOpen /\ effective # 0
    /\ fields' = [fields EXCEPT !.values = Typed]
    /\ UNCHANGED <<storedVars, listed, cached, skip, effective, underWay, formHistory>>

\* The type is fixed once there is a schedule.
ChooseTiming(type, wall, interval) ==
    /\ Click /\ FormOpen
    /\ fields.editing # NoSchedule => type = fields.type
    /\ type = "ONE_TIME" => interval = fields.interval
    /\ type = "RECURRING" => wall = fields.wall
    /\ fields' = [fields EXCEPT !.type = type, !.wall = wall, !.interval = interval]
    /\ fields' # fields /\ touched' = TRUE
    /\ UNCHANGED <<storedVars, listed, cached, skip, effective, underWay, seen, became>>

-----------------------------------------------------------------------------
\* zonedWallClockToUtcIso: an hour the clock shows twice is one of the two.
InstantsAt(wall) == {i \in Instants : WallClock[i] = wall}

\* Hours always run at minute 0.
TimingsOf(f) ==
    IF f.type = "ONE_TIME" THEN [type : {"ONE_TIME"}, at : InstantsAt(f.wall)]
    ELSE IF f.interval = "daily" THEN [type : {"RECURRING"}, interval : {"daily"}]
    ELSE [type : {"RECURRING"}, interval : {"every_n_hours"}, minute : {0}]

SaveForm ==
    /\ FormOpen /\ underWay = NothingSent /\ Click
    /\ fields.mode = "PINNED" => fields.pinned # 0
    /\ fields.type = "ONE_TIME" => fields.wall # NoWall
    /\ \E t \in TimingsOf(fields) :
          underWay' = [of |-> IF fields.editing # NoSchedule THEN "update" ELSE "create", id |-> fields.editing,
                      row |-> [timing |-> t, mode |-> fields.mode, values |-> fields.values,
                               pinned |-> IF fields.mode = "PINNED" THEN fields.pinned ELSE 0],
                      stage |-> "sent"]
    /\ UNCHANGED <<storedVars, listed, cached, fields, skip, effective, formHistory>>

\* A schedule that is gone is not found.
WriteForm ==
    /\ underWay # NothingSent /\ underWay.stage = "sent"
    /\ \/ /\ underWay.of = "update" /\ schedules[underWay.id] # NoSchedule
          /\ schedules' = [schedules EXCEPT ![underWay.id] = underWay.row]
          /\ underWay' = [underWay EXCEPT !.stage = "ok"]
       \/ /\ underWay.of = "update" /\ schedules[underWay.id] = NoSchedule
          /\ underWay' = [underWay EXCEPT !.stage = "failed"] /\ UNCHANGED schedules
       \/ \E s \in Schedules :
             /\ underWay.of = "create" /\ schedules[s] = NoSchedule
             /\ schedules' = [schedules EXCEPT ![s] = underWay.row]
             /\ underWay' = [underWay EXCEPT !.stage = "ok"]
    /\ UNCHANGED <<versions, listed, cached, fields, skip, effective, clicks, formHistory>>

\* onSuccess closes the form, whatever it holds by now; a failure leaves it open.
SaveFormEnds ==
    /\ underWay # NothingSent /\ underWay.stage # "sent" /\ underWay' = NothingSent
    /\ fields' = IF underWay.stage = "failed" THEN fields
                 ELSE IF underWay.of = "create" THEN [fields EXCEPT !.creating = FALSE]
                 ELSE [fields EXCEPT !.editing = NoSchedule]
    /\ UNCHANGED <<storedVars, listed, cached, skip, effective, clicks, formHistory>>

DeleteSchedule(s) ==
    /\ Click /\ schedules[s] # NoSchedule /\ listed[s] # NoSchedule
    /\ schedules' = [schedules EXCEPT ![s] = NoSchedule]
    /\ UNCHANGED <<versions, listed, cached, fields, skip, effective, underWay, formHistory>>

FormNext ==
    \/ LandList \/ LandPrompt \/ NewVersion \/ OpenCreate \/ CloseForm \/ TypeValue
    \/ SaveForm \/ WriteForm \/ SaveFormEnds
    \/ \E s \in Schedules : OpenEdit(s) \/ DeleteSchedule(s)
    \/ \E mode \in Modes, version \in 0..MaxVersions : ChooseVersion(mode, version)
    \/ \E type \in ScheduleTypes, wall \in Walls, interval \in Intervals : ChooseTiming(type, wall, interval)

FormSpec == FormInit /\ [][FormNext]_formVars

-----------------------------------------------------------------------------
(* Properties.                                                             *)

SameTiming(a, b) ==
    /\ a.type = b.type
    /\ a.type = "ONE_TIME" => WallClock[a.at] = WallClock[b.at]
    /\ a.type = "RECURRING" => a.interval = b.interval

\* What a form opened on a row may hold: that row's values until the effective version
\* changes, and then the last version's defaults, or what was typed.  The ref spares the
\* saved values at most one change, which need not be the one that opening the row
\* makes (ScheduleManagerDialog.tsx:135-149).
MayHold(r, since) == {Typed} \cup (IF since.changes < 2 THEN {r.values} ELSE {})
                             \cup (IF since.changes > 0 THEN {since.last} ELSE {})

\* An edit that is sent starts from the schedule as the list showed it: its values are
\* such ones; its time, if nobody changed it, is the one shown, but for which of two
\* equal hours, and the minute of an hourly schedule.  Nothing that the form kept from
\* an earlier use is sent, and saved values survive no second choice of a version.
EditStartsFromSaved ==
    [][underWay = NothingSent /\ underWay' # NothingSent /\ underWay'.of = "update" =>
          /\ underWay'.row.values \in MayHold(seen, became)
          /\ touched \/ SameTiming(underWay'.row.timing, seen.timing)]_formVars
=============================================================================
