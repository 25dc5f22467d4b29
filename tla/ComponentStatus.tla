--------------------------- MODULE ComponentStatus ---------------------------
(***************************************************************************)
(* What the system map shows of LibreChat, which only a worker can reach   *)
(* (worker: componentStatusPublisher.ts; api: systemStatus.ts; shared:     *)
(* componentStatus.ts).  Every worker probes and publishes, in passes that *)
(* nothing keeps apart; the key expires, and an absent key reads as stale. *)
(* The OCR service, whose key may say "unconfigured", and the heartbeat    *)
(* follow the same protocol with keys of their own.                        *)
(***************************************************************************)
EXTENDS Naturals

CONSTANTS
    Passes,         \* bound: publish passes that may overlap
    KeyTtl,         \* WORKER_COMPONENT_STATUS_TTL_SECONDS
    ProbeTime,      \* a probe is aborted, and its result published, within so long
    MaxMoment,      \* bound on the clock
    Absent, NoPass

ASSUME StatusAssumption ==
    /\ KeyTtl \in Nat \ {0} /\ ProbeTime \in Nat /\ MaxMoment \in Nat
    /\ Absent \notin {"up", "down"} \cup Nat /\ NoPass \notin ({"up", "down"} \X Nat)

VARIABLES
    moment,     \* the clock
    reachable,  \* whether LibreChat answers now
    lastIn,     \* a history: "up" or "down" -> when it was last so, or Absent
    pass,       \* pass -> <<what its probe found, when>>
    statusKey,  \* the value in Redis
    expires,    \* when it expires
    page        \* <<what the API answered last, when>>

statusVars == <<moment, reachable, lastIn, pass, statusKey, expires, page>>

Shown == {"up", "down", "stale"}
StatusTypeOK ==
    /\ moment \in 0..MaxMoment /\ reachable \in {"up", "down"}
    /\ lastIn \in [{"up", "down"} -> 0..MaxMoment \cup {Absent}]
    /\ pass \in [Passes -> ({"up", "down"} \X (0..MaxMoment)) \cup {NoPass}]
    /\ statusKey \in {"up", "down", Absent} /\ expires \in 0..(MaxMoment + KeyTtl)
    /\ page \in Shown \X (0..MaxMoment)

StatusInit ==
    /\ moment = 0 /\ reachable \in {"up", "down"}
    /\ lastIn = [v \in {"up", "down"} |-> IF v = reachable THEN 0 ELSE Absent]
    /\ pass = [p \in Passes |-> NoPass] /\ statusKey = Absent /\ expires = 0
    /\ page = <<"stale", 0>>

\* Any answer means up, no connection or 5 s of silence down.
Probe(p) ==
    /\ pass[p] = NoPass
    /\ pass' = [pass EXCEPT ![p] = <<reachable, moment>>]
    /\ UNCHANGED <<moment, reachable, lastIn, statusKey, expires, page>>

\* A SET without an expiry.
PublishForGood(p) ==
    /\ pass[p] # NoPass
    /\ statusKey' = pass[p][1] /\ expires' = MaxMoment + KeyTtl
    /\ pass' = [pass EXCEPT ![p] = NoPass]
    /\ UNCHANGED <<moment, reachable, lastIn, page>>

\* SET with EX.
Publish(p) ==
    /\ pass[p] # NoPass
    /\ statusKey' = pass[p][1] /\ expires' = moment + KeyTtl
    /\ pass' = [pass EXCEPT ![p] = NoPass]
    /\ UNCHANGED <<moment, reachable, lastIn, page>>

\* Redis refuses, or the worker ends: nothing is published.
PublishFails(p) ==
    /\ pass[p] # NoPass
    /\ pass' = [pass EXCEPT ![p] = NoPass]
    /\ UNCHANGED <<moment, reachable, lastIn, statusKey, expires, page>>

ReadStatus ==
    /\ page' = <<IF statusKey = Absent THEN "stale" ELSE statusKey, moment>>
    /\ UNCHANGED <<moment, reachable, lastIn, pass, statusKey, expires>>

Toggle ==
    /\ reachable' = IF reachable = "up" THEN "down" ELSE "up"
    /\ lastIn' = [lastIn EXCEPT ![reachable'] = moment]
    /\ UNCHANGED <<moment, pass, statusKey, expires, page>>

MomentPasses ==
    /\ moment < MaxMoment /\ moment' = moment + 1
    /\ \A p \in Passes : pass[p] # NoPass => moment - pass[p][2] < ProbeTime
    /\ lastIn' = [lastIn EXCEPT ![reachable] = moment']
    /\ statusKey' = IF expires = moment' THEN Absent ELSE statusKey
    /\ UNCHANGED <<reachable, pass, expires, page>>

StatusNext ==
    \/ \E p \in Passes : Probe(p) \/ Publish(p) \/ PublishFails(p)
    \/ ReadStatus \/ Toggle \/ MomentPasses

StatusSpec == StatusInit /\ [][StatusNext]_statusVars

-----------------------------------------------------------------------------
(* Properties.                                                             *)

\* Whatever the map answers was true of LibreChat no longer ago than a key lives
\* and a probe takes, in whichever order the passes of the workers write and
\* whether or not any of them is still alive.
ShownWasTrueLately ==
    page[1] \in {"up", "down"} =>
        lastIn[page[1]] # Absent /\ page[2] <= lastIn[page[1]] + KeyTtl + ProbeTime
=============================================================================
