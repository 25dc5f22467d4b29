---------------------------- MODULE UsageReports ----------------------------
(***************************************************************************)
(* The recurring usage report (worker: usageReportScheduler.ts; the        *)
(* settings it reads are written by PATCH /settings).  Every worker ticks, *)
(* and a slow tick and the next one of the same worker may overlap: there  *)
(* is no claim.  A tick reads the settings, mails the report of the period *)
(* since the last one and then marks it as sent.                           *)
(*                                                                         *)
(* A report is <<from, to>>, the period its numbers are of.                *)
(***************************************************************************)
EXTENDS Integers

CONSTANTS
    Ticks,          \* bound: ticks that may overlap
    Periods,        \* FREQUENCY_MS: the lengths a period may be given
    MaxTick,        \* a tick ends within so many hours: the libraries bound each wait
    MaxHour,        \* bound on the clock
    MaxTicksRun, \* bound: ticks in all
    NotYet, NoTick

ASSUME ReportAssumption ==
    /\ MaxHour \in Nat /\ MaxTicksRun \in Nat /\ MaxTick \in Nat /\ Periods \subseteq Nat \ {0} /\ Periods # {}
    /\ \A p \in Periods : MaxTick < p
    /\ NotYet \notin Int /\ NoTick \notin Int \X Int

VARIABLES
    hour,       \* the clock
    wanted,     \* usageReportEnabled, with recipients
    period,     \* usageReportFrequency
    lastSent,   \* usageReportLastSentAt
    since,      \* a history: the start of the report that was marked first
    ran,        \* ticks begun
    tick,       \* tick -> the report it prepares, or has mailed and will mark
    mailed,     \* ticks whose mail was accepted
    reports     \* the reports that were mailed

reportVars == <<hour, wanted, period, lastSent, since, ran, tick, mailed, reports>>

Reports == {r \in Int \X (0..MaxHour) : r[1] <= r[2]}

ReportTypeOK ==
    /\ hour \in 0..MaxHour /\ wanted \in BOOLEAN /\ period \in Periods
    /\ lastSent \in 0..MaxHour \cup {NotYet}
    /\ since \in Int \cup {NotYet}
    /\ ran \in 0..MaxTicksRun
    /\ tick \in [Ticks -> Reports \cup {NoTick}]
    /\ mailed \subseteq {t \in Ticks : tick[t] # NoTick}
    /\ reports \subseteq Reports

ReportInit ==
    /\ hour = 0 /\ wanted = FALSE /\ period \in Periods /\ lastSent = NotYet /\ since = NotYet /\ ran = 0
    /\ tick = [t \in Ticks |-> NoTick] /\ mailed = {} /\ reports = {}

PeriodStart == IF lastSent = NotYet THEN hour - period ELSE lastSent
Due == wanted /\ hour - PeriodStart >= period

ReadSettings(t) ==
    /\ tick[t] = NoTick /\ Due /\ ran < MaxTicksRun
    /\ ran' = ran + 1
    /\ tick' = [tick EXCEPT ![t] = <<PeriodStart, hour>>]
    /\ UNCHANGED <<hour, wanted, period, lastSent, since, mailed, reports>>

MailReport(t) ==
    /\ tick[t] # NoTick /\ t \notin mailed
    /\ mailed' = mailed \cup {t}
    /\ reports' = reports \cup {tick[t]}
    /\ UNCHANGED <<hour, wanted, period, lastSent, since, ran, tick>>

MarkSent(t) ==
    /\ t \in mailed
    /\ lastSent' = tick[t][2]
    /\ since' = IF since = NotYet THEN tick[t][1] ELSE since
    /\ tick' = [tick EXCEPT ![t] = NoTick]
    /\ mailed' = mailed \ {t}
    /\ UNCHANGED <<hour, wanted, period, ran, reports>>

\* A tick whose failure counts as done until the next period.
GiveUpPeriod(t) ==
    /\ tick[t] # NoTick
    /\ lastSent' = tick[t][2]
    /\ since' = IF since = NotYet THEN tick[t][1] ELSE since
    /\ tick' = [tick EXCEPT ![t] = NoTick]
    /\ mailed' = mailed \ {t}
    /\ UNCHANGED <<hour, wanted, period, ran, reports>>

\* The numbers, the PDF, the mail or the mark fails, or the worker ends: the next
\* tick tries again, with a mail that was accepted already if it came so far.
TickFails(t) ==
    /\ tick[t] # NoTick
    /\ tick' = [tick EXCEPT ![t] = NoTick]
    /\ mailed' = mailed \ {t}
    /\ UNCHANGED <<hour, wanted, period, lastSent, since, ran, reports>>

\* PATCH /settings has no field for usageReportLastSentAt.
PatchSettings ==
    /\ wanted' \in BOOLEAN /\ period' \in Periods /\ <<wanted', period'>> # <<wanted, period>>
    /\ UNCHANGED <<hour, lastSent, since, ran, tick, mailed, reports>>

HourPasses ==
    /\ hour < MaxHour /\ hour' = hour + 1
    /\ \A t \in Ticks : tick[t] # NoTick => hour - tick[t][2] < MaxTick
    /\ UNCHANGED <<wanted, period, lastSent, since, ran, tick, mailed, reports>>

ReportNext ==
    \/ \E t \in Ticks : ReadSettings(t) \/ MailReport(t) \/ MarkSent(t) \/ TickFails(t)
    \/ PatchSettings \/ HourPasses

ReportSpec == ReportInit /\ [][ReportNext]_reportVars

-----------------------------------------------------------------------------
(* Properties.                                                             *)

Covered(t) == \E r \in reports : r[1] <= t /\ t <= r[2]

\* The reports that were mailed leave no gap between the first that was marked and
\* the last: whatever overlapped, failed, was switched off or was marked late (a
\* slow tick moves the mark back), the next report starts where some report ended.
NothingSkipped == lastSent # NotYet => \A t \in since..lastSent : Covered(t)
=============================================================================
