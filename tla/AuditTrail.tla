----------------------------- MODULE AuditTrail -----------------------------
(***************************************************************************)
(* Recording an audit event and forwarding it to syslog (api and worker:   *)
(* audit.ts; shared: syslog.ts).  The handler has made its change when it  *)
(* records the event; it awaits the insert and then the forwarding, whose  *)
(* failure is only logged.  The settings are read for every event.         *)
(*                                                                         *)
(* A message is its header, whose bytes are counted, and its free text, a  *)
(* sequence of the widths of its characters in UTF-8.                      *)
(***************************************************************************)
EXTENDS FiniteSetsExt, Sequences

CONSTANTS
    AuditEvents,    \* events to be recorded
    HeaderBytes,    \* event -> length of its header and structured data
    FreeText,       \* event -> the characters of summary and details
    MaxMessage,     \* MAX_MESSAGE_BYTES
    MarkerBytes     \* length of TRUNCATION_MARKER

ASSUME AuditAssumption ==
    /\ HeaderBytes \in [AuditEvents -> Nat] /\ FreeText \in [AuditEvents -> Seq(1..4)]
    /\ MaxMessage \in Nat /\ MarkerBytes \in Nat

VARIABLES
    stage,      \* event -> how far recordAuditEvent has come
    told,       \* event -> what its caller was told
    auditRows,      \* events with a row
    wire,       \* <<event, bytes>> that left for the receiver
    forward     \* the syslog settings: off, or the transport

auditVars == <<stage, told, auditRows, wire, forward>>

Transports == {"UDP", "TCP"}
OnTheWay == {"reading", "resolving", "connecting", "sending", "flushing"}

Bytes(t, n) == MapThenSumSet(LAMBDA i : t[i], 1..n)

\* Bytes of a text cut to a budget: whole characters, and U+FFFD (3 bytes) for one
\* that is cut through.
Cut(t, budget) ==
    IF Bytes(t, Len(t)) <= budget THEN Bytes(t, Len(t))
    ELSE LET whole == Max({n \in 0..Len(t) : Bytes(t, n) <= budget}) IN
         Bytes(t, whole) + IF Bytes(t, whole) = budget THEN 0 ELSE 3

\* buildRfc5424Message: only the free text is cut.
Message(h, t) ==
    IF h + Bytes(t, Len(t)) <= MaxMessage THEN h + Bytes(t, Len(t))
    ELSE LET taken == h + MarkerBytes IN
         taken + Cut(t, IF taken < MaxMessage THEN MaxMessage - taken ELSE 0)

AuditTypeOK ==
    /\ stage \in [AuditEvents -> {"none", "inserting", "settled"} \cup OnTheWay]
    /\ told \in [AuditEvents -> {"nothing", "ok", "error", "lost"}]
    /\ auditRows \subseteq AuditEvents /\ wire \subseteq AuditEvents \X Nat
    /\ forward \in Transports \cup {"off"}

AuditInit ==
    /\ stage = [e \in AuditEvents |-> "none"] /\ told = [e \in AuditEvents |-> "nothing"]
    /\ auditRows = {} /\ wire = {} /\ forward \in Transports \cup {"off"}

Reach(e, s) == stage' = [stage EXCEPT ![e] = s]
Tell(e, what) == Reach(e, "settled") /\ told' = [told EXCEPT ![e] = what]

\* A shape that the schema does not know is logged and recorded all the same.
Record(e) ==
    /\ stage[e] = "none" /\ Reach(e, "inserting")
    /\ UNCHANGED <<told, auditRows, wire, forward>>

Insert(e) ==
    /\ stage[e] = "inserting" /\ Reach(e, "reading")
    /\ auditRows' = auditRows \cup {e}
    /\ UNCHANGED <<told, wire, forward>>

\* The database refuses: the handler that made its change answers with an error.
InsertFails(e) ==
    /\ stage[e] = "inserting" /\ Tell(e, "error")
    /\ UNCHANGED <<auditRows, wire, forward>>

\* The insert commits and its answer is lost: the same error, and the row is there, but
\* it is not forwarded.
InsertAnswerLost(e) ==
    /\ stage[e] = "inserting" /\ Tell(e, "error")
    /\ auditRows' = auditRows \cup {e}
    /\ UNCHANGED <<wire, forward>>

ReadForwarding(e) ==
    /\ stage[e] = "reading"
    /\ CASE forward = "off" -> Tell(e, "ok")
         [] forward = "UDP" -> Reach(e, "resolving") /\ UNCHANGED told
         [] forward = "TCP" -> Reach(e, "connecting") /\ UNCHANGED told
    /\ UNCHANGED <<auditRows, wire, forward>>

\* The name resolves, the connection or the TLS handshake is there.
Reachable(e) ==
    /\ stage[e] \in {"resolving", "connecting"} /\ Reach(e, "sending")
    /\ UNCHANGED <<told, auditRows, wire, forward>>

\* The datagram leaves, or the framed message is written to the socket.
Depart(e) ==
    /\ stage[e] = "sending" /\ Reach(e, "flushing")
    /\ wire' = wire \cup {<<e, Message(HeaderBytes[e], FreeText[e])>>}
    /\ UNCHANGED <<told, auditRows, forward>>

Forwarded(e) ==
    /\ stage[e] = "flushing" /\ Tell(e, "ok")
    /\ UNCHANGED <<auditRows, wire, forward>>

\* A failure of the forwarding that its caller hears of.
ForwardingRejects(e) ==
    /\ stage[e] \in OnTheWay /\ Tell(e, "error")
    /\ UNCHANGED <<auditRows, wire, forward>>

\* The settings cannot be read, the name does not resolve, the connection is refused,
\* the 5 s pass or the socket errs, before or after the bytes left: caught and logged.
ForwardingFails(e) ==
    /\ stage[e] \in OnTheWay /\ Tell(e, "ok")
    /\ UNCHANGED <<auditRows, wire, forward>>

\* The process ends.
LoseProcess ==
    /\ stage' = [e \in AuditEvents |-> IF stage[e] = "none" THEN "none" ELSE "settled"]
    /\ told' = [e \in AuditEvents |->
          IF stage[e] \in {"inserting"} \cup OnTheWay THEN "lost" ELSE told[e]]
    /\ UNCHANGED <<auditRows, wire, forward>>

SetForwarding ==
    /\ forward' \in (Transports \cup {"off"}) \ {forward}
    /\ UNCHANGED <<stage, told, auditRows, wire>>

AuditNext ==
    \/ \E e \in AuditEvents :
          Record(e) \/ Insert(e) \/ InsertFails(e) \/ InsertAnswerLost(e)
          \/ ReadForwarding(e) \/ Reachable(e) \/ Depart(e) \/ Forwarded(e) \/ ForwardingFails(e)
    \/ LoseProcess \/ SetForwarding

AuditSpec == AuditInit /\ [][AuditNext]_auditVars

-----------------------------------------------------------------------------
(* Properties.                                                             *)

\* A message stays within its budget, but for the two bytes a cut character may
\* add; or its header alone leaves no room and only the marker follows it.
WireBounded ==
    \A w \in wire : \/ w[2] <= MaxMessage + 2
                    \/ w[2] = HeaderBytes[w[1]] + MarkerBytes

\* What the caller of recordAuditEvent is told is decided by the insert and nothing
\* else, whatever becomes of the forwarding and of the settings meanwhile: no success
\* without a row, and no error once a message left (an error without a row or, if the
\* answer of the insert was lost, with one that is not forwarded).  Nothing reaches the
\* receiver that the trail does not have, or beyond the bound (audit.ts:162).
MirrorNeverMatters ==
    /\ \A e \in AuditEvents : told[e] = "ok" => e \in auditRows
    /\ \A w \in wire : w[1] \in auditRows /\ told[w[1]] # "error"
    /\ WireBounded

=============================================================================
