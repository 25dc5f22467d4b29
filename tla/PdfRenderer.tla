---------------------------- MODULE PdfRenderer ----------------------------
(***************************************************************************)
(* The making of PDFs (pdf: renderer.ts; pdf-service: app.ts) and those    *)
(* who ask for them (shared: pdfServiceClient.ts; the two download routes  *)
(* of the API).  Each report gets a browser of its own; a counter and a    *)
(* queue bound how many there are at once.  A request that takes too long  *)
(* is answered 503, but its report stays in the queue or the browser.  The *)
(* service may die and start again, and everything it held is lost.        *)
(*                                                                         *)
(* What a report looks like is left out.                                   *)
(***************************************************************************)
EXTENDS Naturals, FiniteSets, Sequences

CONSTANTS
    Calls,          \* bound: the reports ever asked for
    MaxRenders      \* MAX_CONCURRENT_RENDERS

ASSUME RendererAssumption == IsFiniteSet(Calls) /\ MaxRenders \in Nat \ {0}

VARIABLES
    making,         \* report -> how far the service got with it
    activeRenders,
    renderQueue,    \* the reports waiting for a slot
    browsers,       \* reports that have a browser
    answer,         \* report -> the service's answer
    asker,          \* report -> how far the one who asked for it got
    downloads       \* reports whose download is in the audit trail

rendererVars == <<making, activeRenders, renderQueue, browsers, answer, asker, downloads>>

InSlot == {"launch", "print", "close"}
Stages == {"none", "queued", "done"} \cup InSlot
Answers == {"none", "pdf", "refused", "failed", "late", "reset"}
Askers == {"idle", "waiting", "recording", "given", "error"}

RendererTypeOK ==
    /\ making \in [Calls -> Stages]
    /\ activeRenders \in Nat
    /\ renderQueue \in Seq(Calls)
    /\ browsers \subseteq Calls
    /\ answer \in [Calls -> Answers]
    /\ asker \in [Calls -> Askers]
    /\ downloads \subseteq Calls

RendererInit ==
    /\ making = [c \in Calls |-> "none"]
    /\ activeRenders = 0 /\ renderQueue = <<>> /\ browsers = {}
    /\ answer = [c \in Calls |-> "none"]
    /\ asker = [c \in Calls |-> "idle"]
    /\ downloads = {}

\* The reports that have a slot.
SlotHolders == {c \in Calls : making[c] \in InSlot}

\* The reports in the queue.
Waiting == {renderQueue[i] : i \in 1..Len(renderQueue)}

-----------------------------------------------------------------------------
(* Those who ask.                                                          *)

\* GET .../pdf has read what the report is about, and posts it.  The service
\* refuses a request without its secret, or one its schema does not allow.
Refuse(c) ==
    /\ asker[c] = "idle"
    /\ asker' = [asker EXCEPT ![c] = "waiting"]
    /\ answer' = [answer EXCEPT ![c] = "refused"]
    /\ UNCHANGED <<making, activeRenders, renderQueue, browsers, downloads>>

\* acquireRenderSlot: a slot, or a place at the end of the queue.
Acquire(c) ==
    /\ asker[c] = "idle"
    /\ asker' = [asker EXCEPT ![c] = "waiting"]
    /\ IF activeRenders < MaxRenders
       THEN /\ activeRenders' = activeRenders + 1
            /\ making' = [making EXCEPT ![c] = "launch"]
            /\ UNCHANGED renderQueue
       ELSE /\ renderQueue' = Append(renderQueue, c)
            /\ making' = [making EXCEPT ![c] = "queued"]
            /\ UNCHANGED activeRenders
    /\ UNCHANGED <<browsers, answer, downloads>>

\* postForPdf: the report, or an error.
TakeAnswer(c) ==
    /\ asker[c] = "waiting" /\ answer[c] # "none"
    /\ asker' = [asker EXCEPT ![c] = IF answer[c] = "pdf" THEN "recording" ELSE "error"]
    /\ UNCHANGED <<making, activeRenders, renderQueue, browsers, answer, downloads>>

\* The download is recorded before the report is handed on; if it cannot be,
\* the user gets an error.
RecordDownload(c) ==
    /\ asker[c] = "recording"
    /\ \/ downloads' = downloads \cup {c} /\ asker' = [asker EXCEPT ![c] = "given"]
       \/ UNCHANGED downloads /\ asker' = [asker EXCEPT ![c] = "error"]
    /\ UNCHANGED <<making, activeRenders, renderQueue, browsers, answer>>

-----------------------------------------------------------------------------
(* The service.                                                            *)

\* The answer a, unless the request has one already.
Answered(c, a) == [answer EXCEPT ![c] = IF @ = "none" THEN a ELSE @]

\* As if the slot were given up although a waiter got it.
HandedAndGivenUp(s) ==
    IF renderQueue = <<>>
    THEN /\ activeRenders' = activeRenders - 1
         /\ making' = s
         /\ UNCHANGED renderQueue
    ELSE /\ renderQueue' = Tail(renderQueue)
         /\ making' = [s EXCEPT ![Head(renderQueue)] = "launch"]
         /\ activeRenders' = activeRenders - 1

\* releaseRenderSlot hands the slot to the one that waits longest, or gives it up.
Handed(s) ==
    IF renderQueue = <<>>
    THEN /\ activeRenders' = activeRenders - 1
         /\ making' = s
         /\ UNCHANGED renderQueue
    ELSE /\ renderQueue' = Tail(renderQueue)
         /\ making' = [s EXCEPT ![Head(renderQueue)] = "launch"]
         /\ UNCHANGED activeRenders

Release(c) == Handed([making EXCEPT ![c] = "done"])

Launched(c) ==
    /\ making[c] = "launch"
    /\ making' = [making EXCEPT ![c] = "print"]
    /\ browsers' = browsers \cup {c}
    /\ UNCHANGED <<activeRenders, renderQueue, answer, asker, downloads>>

\* No browser: the slot goes on, the request fails.
LaunchFails(c) ==
    /\ making[c] = "launch"
    /\ Release(c)
    /\ answer' = Answered(c, "failed")
    /\ UNCHANGED <<browsers, asker, downloads>>

\* page.pdf() and the steps before it end, one way or the other.
Printed(c) ==
    /\ making[c] = "print"
    /\ making' = [making EXCEPT ![c] = "close"]
    /\ UNCHANGED <<activeRenders, renderQueue, browsers, answer, asker, downloads>>

\* The browser is gone, and the slot goes on; a close that fails counts as a
\* failed report.
BrowserClosed(c) ==
    /\ making[c] = "close"
    /\ browsers' = browsers \ {c}
    /\ Release(c)
    /\ \E a \in {"pdf", "failed"} : answer' = Answered(c, a)
    /\ UNCHANGED <<asker, downloads>>

\* Nothing moved on the connection for REQUEST_TIMEOUT_MS: 503, and no more.
TooLate(c) ==
    /\ making[c] \in InSlot \cup {"queued"} /\ answer[c] = "none"
    /\ answer' = Answered(c, "late")
    /\ UNCHANGED <<making, activeRenders, renderQueue, browsers, asker, downloads>>

\* The service dies with what it held, and starts again.
Restart ==
    /\ \E c \in Calls : making[c] \in InSlot
    /\ answer' = [c \in Calls |-> IF making[c] \in InSlot \cup {"queued"} /\ answer[c] = "none"
                                  THEN "reset" ELSE answer[c]]
    /\ making' = [c \in Calls |-> IF making[c] = "none" THEN "none" ELSE "done"]
    /\ activeRenders' = 0 /\ renderQueue' = <<>> /\ browsers' = {}
    /\ UNCHANGED <<asker, downloads>>

-----------------------------------------------------------------------------
RendererNext ==
    \/ \E c \in Calls :
          \/ Refuse(c) \/ Acquire(c) \/ TakeAnswer(c) \/ RecordDownload(c)
          \/ Launched(c) \/ LaunchFails(c) \/ Printed(c) \/ BrowserClosed(c) \/ TooLate(c)
    \/ Restart

RendererSpec == RendererInit /\ [][RendererNext]_rendererVars

-----------------------------------------------------------------------------
(* Properties.                                                             *)

\* Slots are neither lost nor made: the counter is the number of reports that
\* hold one and never above the bound, there are no more browsers, nobody waits
\* while a slot is free, and everybody who waits is in the queue once
\* (renderer.ts:10-14: at most so many browsers at once).
SlotsAccounted ==
    /\ activeRenders = Cardinality(SlotHolders) /\ activeRenders <= MaxRenders
    /\ browsers \subseteq SlotHolders
    /\ renderQueue # <<>> => activeRenders = MaxRenders
    /\ Waiting = {c \in Calls : making[c] = "queued"}
    /\ \A i, j \in 1..Len(renderQueue) : renderQueue[i] = renderQueue[j] => i = j
=============================================================================
