----------------------------- MODULE OcrService -----------------------------
(***************************************************************************)
(* The OCR service (docker/ocr/service.py), the docling child it keeps     *)
(* (docling_worker.py) and the clients that call it:                       *)
(*                                                                         *)
(*   Named   POST /process of the worker (ocrClient.ts).  It names its     *)
(*           request, so that it can POST a cancel when it gives up        *)
(*   Chat    POST /ocr of LibreChat, which cannot cancel; the service      *)
(*           polls its connection                                          *)
(*                                                                         *)
(* Every handler runs _process in a thread of its own.  They share         *)
(* _INFLIGHT and the docling child, each under its lock.  A step ends      *)
(* where the thread blocks or where another thread can see what it did.    *)
(* The store of uploaded files is the subject of OcrFiles.                 *)
(*                                                                         *)
(* Left out: the bytes of documents and the answers' content, pid reuse    *)
(* (a kill that finds its process collected does nothing), the threadpool's*)
(* size, and a restart of the service, which forgets everything.           *)
(***************************************************************************)
EXTENDS Naturals, Sequences, FiniteSets

CONSTANTS
    Named, Chat,    \* requests, by the kind of their client
    MaxImages,      \* bound: images to describe in one request
    MaxDeaths,      \* bound: how often the docling child dies by itself
    NoOne

Requests == Named \cup Chat

ASSUME OcrAssumption ==
    /\ Named \cap Chat = {}
    /\ NoOne \notin Requests /\ "ready" \notin Requests
    /\ MaxImages \in Nat /\ MaxDeaths \in Nat

VARIABLES
    pc,         \* request -> where its client or its handler is
    client,     \* request -> waiting or gone
    work,       \* request -> what its handler works on, and its state entry
    posts,      \* cancel POSTs on their way
    pre,        \* pre-cancelled ids in _INFLIGHT, oldest first
    expired,    \* how many of them the next collection drops: older than
                \* _PRECANCEL_TTL_SECONDS, or crowded out by ids of other
                \* clients beyond _PRECANCEL_MAX
    holder,     \* who has _DOCLING_LOCK
    docling,    \* the child in _docling_proc
    question,   \* the request line the child has not answered
    lines,      \* what it wrote and nobody read
    answer,     \* request -> the line it took for its answer
    deaths,
    early       \* history: cancelled, as its client was told, before it queued for docling

clientVars == <<client, posts>>
doclingVars == <<holder, docling, question, lines, deaths>>
flightVars == <<pre, expired, early>>
requestVars == <<work, answer>>
vars == <<pc, clientVars, doclingVars, flightVars, requestVars>>

\* A handler that uses docling has the lock there.
Converting == {"loading", "writing", "converting"}
Unconverted == {"stage", "spawned", "running", "want"}
Live == Unconverted \cup {"trying"} \cup Converting \cup {"describe", "calling"}
PC == Live \cup {"ready", "arriving", "done"}

\* stage: the tracked command that is next or running; images: still to be
\* described; over: the deadline passed; cancelled: state["cancelled"]; proc:
\* the tracked subprocess, listed when state["proc"] has it.
Work == [stage : {"img2pdf", "ocrmypdf"}, images : 0..MaxImages, over : BOOLEAN,
         cancelled : BOOLEAN, proc : {"none", "loose", "listed", "ended"}]
NoWork == [stage |-> "ocrmypdf", images |-> 0, over |-> FALSE,
           cancelled |-> FALSE, proc |-> "none"]

TypeOK ==
    /\ pc \in [Requests -> PC]
    /\ client \in [Requests -> {"waiting", "gone"}]
    /\ work \in [Requests -> Work]
    /\ posts \subseteq Named
    /\ pre \in Seq(Named)
    /\ expired \in 0..Len(pre)
    /\ holder \in Requests \cup {NoOne}
    /\ docling \in {"none", "loading", "idle", "dead"}
    /\ question \in Requests \cup {NoOne}
    /\ lines \in Seq(Requests \cup {"ready"})
    /\ answer \in [Requests -> Requests \cup {"ready", NoOne}]
    /\ deaths \in 0..MaxDeaths
    /\ early \subseteq Named

\* The service starts with a child whose ready line was read and checked.
Init ==
    /\ pc = [r \in Requests |-> "ready"]
    /\ client = [r \in Requests |-> "waiting"]
    /\ work = [r \in Requests |-> NoWork]
    /\ posts = {}
    /\ pre = <<>> /\ expired = 0
    /\ holder = NoOne /\ docling = "idle" /\ question = NoOne /\ lines = <<>>
    /\ answer = [r \in Requests |-> NoOne]
    /\ deaths = 0
    /\ early = {}

Goto(r, to) == pc' = [pc EXCEPT ![r] = to]

\* The handler answers or raises; its finally takes its id out of _INFLIGHT.
End(r) == Goto(r, "done") /\ work' = [work EXCEPT ![r] = NoWork]

Cancelled(r) == work[r].cancelled = TRUE
Overdue(r) == work[r].over = TRUE

-----------------------------------------------------------------------------
(* Clients.                                                                *)

\* A document is one PDF, or a batch of images, which img2pdf joins first and
\* which are to be described.
Post(r) ==
    /\ pc[r] = "ready"
    /\ Goto(r, "arriving")
    /\ \E s \in {"img2pdf", "ocrmypdf"}, n \in 0..MaxImages :
          /\ (s = "ocrmypdf") <=> (n = 0)
          /\ work' = [work EXCEPT ![r].stage = s, ![r].images = n]
    /\ UNCHANGED <<answer, clientVars, doclingVars, flightVars>>

\* The client's timer or the run's cancellation aborts the fetch, at the latest
\* while the answer is on its way; the worker then POSTs a cancel and does not
\* wait for its answer.
GiveUp(r) ==
    /\ client[r] = "waiting"
    /\ pc[r] \in Live \cup {"arriving"} \/ (pc[r] = "done" /\ r \in Named)
    /\ client' = [client EXCEPT ![r] = "gone"]
    /\ posts' = posts \cup ({r} \cap Named)
    /\ UNCHANGED <<pc, doclingVars, flightVars, requestVars>>

\* The connection closed before the body was read, or the body is beyond the
\* limit of its path (413): no handler ever runs.
AbandonUpload(r) ==
    /\ pc[r] = "arriving"
    /\ End(r)
    /\ UNCHANGED <<answer, clientVars, doclingVars, flightVars>>

LoseCancel(i) ==
    /\ i \in posts
    /\ posts' = posts \ {i}
    /\ UNCHANGED <<pc, client, doclingVars, flightVars, requestVars>>

-----------------------------------------------------------------------------
(* The in-flight table.                                                    *)

\* _inflight_gc_locked.
Kept == SubSeq(pre, expired + 1, Len(pre))

IdsIn(s) == {s[i] : i \in DOMAIN s}

AgePre ==
    /\ expired < Len(pre)
    /\ expired' = expired + 1
    /\ UNCHANGED <<pc, pre, early, clientVars, doclingVars, requestVars>>

\* A registration that overwrites the entry it finds.
ClaimedNever(r) == FALSE

\* _inflight_register finds the remembered cancel of an id.
Claimed(r) == r \in IdsIn(Kept)

Unlisted(s, r) == SelectSeq(s, LAMBDA i : i # r)

\* The body is there: the handler starts, checks for a cancel, then the number,
\* the sizes and the types of the files.  A chat request has a private state.
Register(r) ==
    /\ pc[r] = "arriving"
    /\ IF r \in Named
       THEN /\ pre' = Unlisted(Kept, r) /\ expired' = 0
            /\ early' = IF r \in IdsIn(Kept) THEN early \cup {r} ELSE early
       ELSE UNCHANGED <<pre, expired, early>>
    /\ \/ End(r)
       \/ ~Claimed(r) /\ Goto(r, "stage") /\ UNCHANGED work
    /\ UNCHANGED <<answer, clientVars, doclingVars>>

\* _cancel_state: mark the request and kill what state["proc"] names.
CancelState(r) ==
    work' = [work EXCEPT ![r].cancelled = TRUE,
                         ![r].proc = IF @ = "listed" THEN "ended" ELSE @]

\* POST /process/:id/cancel: a live request is cancelled, any other id is
\* remembered, also one that just finished.
CancelArrives(i) ==
    /\ i \in posts
    /\ posts' = posts \ {i}
    /\ expired' = 0
    /\ IF pc[i] \in Live
       THEN /\ CancelState(i)
            /\ pre' = Kept
            /\ early' = IF pc[i] \in Unconverted THEN early \cup {i} ELSE early
       ELSE /\ pre' = IF i \in IdsIn(Kept) THEN Kept ELSE Append(Kept, i)
            /\ UNCHANGED <<work, early>>
    /\ UNCHANGED <<pc, client, answer, doclingVars>>

\* The /ocr handler's poll finds its caller disconnected.
NoticeDisconnect(c) ==
    /\ client[c] = "gone" /\ pc[c] \in Live /\ ~Cancelled(c)
    /\ CancelState(c)
    /\ UNCHANGED <<pc, answer, clientVars, doclingVars, flightVars>>

-----------------------------------------------------------------------------
(* _process up to docling: checks, then img2pdf and ocrmypdf.              *)

PassDeadline(r) ==
    /\ pc[r] \in Live /\ ~Overdue(r)
    /\ work' = [work EXCEPT ![r].over = TRUE]
    /\ UNCHANGED <<pc, answer, clientVars, doclingVars, flightVars>>

\* _remaining, then _run_tracked starts the command.
Spawn(r) ==
    /\ pc[r] = "stage"
    /\ \/ Overdue(r) /\ End(r)
       \/ ~Overdue(r) /\ Goto(r, "spawned") /\ work' = [work EXCEPT ![r].proc = "loose"]
    /\ UNCHANGED <<answer, clientVars, doclingVars, flightVars>>

\* Under the lock: a cancel that came before is made good, then state["proc"] is set.
Listed(r) == IF Cancelled(r) \/ work[r].proc = "ended" THEN "ended" ELSE "listed"

ListProc(r) ==
    /\ pc[r] = "spawned"
    /\ Goto(r, "running")
    /\ work' = [work EXCEPT ![r].proc = Listed(r)]
    /\ UNCHANGED <<answer, clientVars, doclingVars, flightVars>>

ProcExits(r) ==
    /\ work[r].proc \in {"loose", "listed"}
    /\ work' = [work EXCEPT ![r].proc = "ended"]
    /\ UNCHANGED <<pc, answer, clientVars, doclingVars, flightVars>>

\* communicate returned: state["proc"] is cleared, then cancel (499) and exit
\* code (422) end the request, or it goes on.
Collect(r) ==
    /\ pc[r] = "running" /\ work[r].proc = "ended"
    /\ \/ End(r)
       \/ /\ ~Cancelled(r)
          /\ Goto(r, IF work[r].stage = "img2pdf" THEN "stage" ELSE "want")
          /\ work' = [work EXCEPT ![r].stage = "ocrmypdf", ![r].proc = "none"]
    /\ UNCHANGED <<answer, clientVars, doclingVars, flightVars>>

\* communicate timed out: the process group is killed (408).
KillOverdue(r) ==
    /\ pc[r] = "running" /\ Overdue(r)
    /\ End(r)
    /\ UNCHANGED <<answer, clientVars, doclingVars, flightVars>>

-----------------------------------------------------------------------------
(* _docling_convert.                                                       *)

\* One slice of the wait for the lock begins: cancel (499), then deadline (408).
CheckTurn(r) ==
    /\ pc[r] = "want"
    /\ IF Cancelled(r) \/ Overdue(r)
       THEN End(r)
       ELSE Goto(r, "trying") /\ UNCHANGED work
    /\ UNCHANGED <<answer, clientVars, doclingVars, flightVars>>

SliceEnds(r) ==
    /\ pc[r] = "trying" /\ holder # NoOne
    /\ Goto(r, "want")
    /\ UNCHANGED <<requestVars, clientVars, doclingVars, flightVars>>

\* With the lock, a missing or dead child is replaced first.
Acquire(r) ==
    /\ pc[r] = "trying" /\ holder = NoOne
    /\ holder' = r
    /\ IF docling \in {"none", "dead"}
       THEN /\ Goto(r, "loading")
            /\ docling' = "loading" /\ lines' = <<>> /\ question' = NoOne
       ELSE /\ Goto(r, "writing")
            /\ UNCHANGED <<docling, lines, question>>
    /\ UNCHANGED <<deaths, requestVars, clientVars, flightVars>>

Release == holder' = NoOne

\* An early exit that leaves the child as it is.
KillNothing == UNCHANGED <<docling, lines, question>>

\* _kill_reset: whatever the child still had to say is never read.
KillReset == docling' = "none" /\ lines' = <<>> /\ question' = NoOne

\* readline takes the ready line, or nothing from a child that died.
ReadReady(r) ==
    /\ pc[r] = "loading"
    /\ lines # <<>> \/ docling = "dead"
    /\ lines' = IF lines = <<>> THEN lines ELSE Tail(lines)
    /\ Goto(r, "writing")
    /\ UNCHANGED <<holder, docling, question, deaths,
                   requestVars, clientVars, flightVars>>

LoadingTooLong(r) ==
    /\ pc[r] = "loading" /\ Overdue(r)
    /\ KillReset /\ Release /\ End(r)
    /\ UNCHANGED <<deaths, answer, clientVars, flightVars>>

\* The request line goes to the child; into a dead one's pipe it breaks (500).
WriteLine(r) ==
    /\ pc[r] = "writing"
    /\ IF docling = "dead"
       THEN End(r) /\ Release /\ UNCHANGED question
       ELSE Goto(r, "converting") /\ question' = r /\ UNCHANGED <<holder, work>>
    /\ UNCHANGED <<docling, lines, deaths, answer, clientVars, flightVars>>

\* A wait that only looks at the cancel flag.
StopConversionOnCancel(r) ==
    /\ pc[r] = "converting" /\ Cancelled(r)
    /\ KillReset /\ Release /\ End(r)
    /\ UNCHANGED <<deaths, answer, clientVars, flightVars>>

\* A tick of the wait: cancelled (499) or overdue (408), the child is killed.
StopConversion(r) ==
    /\ pc[r] = "converting" /\ (Cancelled(r) \/ Overdue(r))
    /\ KillReset /\ Release /\ End(r)
    /\ UNCHANGED <<deaths, answer, clientVars, flightVars>>

\* A tick finds a line, which is taken for the answer: converted, or 422.
ReadAnswer(r) ==
    /\ pc[r] = "converting" /\ lines # <<>>
    /\ answer' = [answer EXCEPT ![r] = Head(lines)]
    /\ lines' = Tail(lines)
    /\ Release
    /\ (Goto(r, "describe") /\ UNCHANGED work) \/ End(r)
    /\ UNCHANGED <<docling, question, deaths, clientVars, flightVars>>

\* A tick finds the pipe closed (500).
ReadEnd(r) ==
    /\ pc[r] = "converting" /\ lines = <<>> /\ docling = "dead"
    /\ KillReset /\ Release /\ End(r)
    /\ UNCHANGED <<deaths, answer, clientVars, flightVars>>

\* The child: it says ready once its models are loaded, then answers each line.
Load ==
    /\ docling = "loading"
    /\ docling' = "idle" /\ lines' = Append(lines, "ready")
    /\ UNCHANGED <<pc, holder, question, deaths, requestVars, clientVars, flightVars>>

Answer ==
    /\ docling = "idle" /\ question # NoOne
    /\ lines' = Append(lines, question) /\ question' = NoOne
    /\ UNCHANGED <<pc, holder, docling, deaths, requestVars, clientVars, flightVars>>

Die ==
    /\ docling \in {"loading", "idle"} /\ deaths < MaxDeaths
    /\ docling' = "dead" /\ question' = NoOne /\ deaths' = deaths + 1
    /\ UNCHANGED <<pc, holder, lines, requestVars, clientVars, flightVars>>

-----------------------------------------------------------------------------
(* The descriptions of the images, which never fail a request.             *)

Describe(r) ==
    /\ pc[r] = "describe"
    /\ IF work[r].images = 0 \/ Cancelled(r)
       THEN End(r)
       ELSE Goto(r, "calling") /\ work' = [work EXCEPT ![r].images = @ - 1]
    /\ UNCHANGED <<answer, clientVars, doclingVars, flightVars>>

\* The gateway answered, failed, or was given up on a tick: cancel or time limit.
EndDescription(r) ==
    /\ pc[r] = "calling"
    /\ Goto(r, "describe")
    /\ UNCHANGED <<requestVars, clientVars, doclingVars, flightVars>>

-----------------------------------------------------------------------------
Handler(r) ==
    \/ Register(r) \/ Spawn(r) \/ ListProc(r) \/ Collect(r) \/ KillOverdue(r)
    \/ CheckTurn(r) \/ SliceEnds(r) \/ Acquire(r)
    \/ ReadReady(r) \/ LoadingTooLong(r) \/ WriteLine(r)
    \/ StopConversion(r) \/ ReadAnswer(r) \/ ReadEnd(r)
    \/ Describe(r) \/ EndDescription(r)

ClientStep(r) == Post(r) \/ GiveUp(r) \/ AbandonUpload(r)

Next ==
    \/ \E r \in Requests : Handler(r) \/ ClientStep(r) \/ PassDeadline(r) \/ ProcExits(r)
    \/ \E c \in Chat : NoticeDisconnect(c)
    \/ \E i \in Named : LoseCancel(i) \/ CancelArrives(i)
    \/ AgePre \/ Load \/ Answer \/ Die

\* Threads run and time passes.  Nothing is assumed of clients, of commands,
\* of docling or of the arrival of a cancel.
Fairness == \A r \in Requests : WF_vars(Handler(r)) /\ WF_vars(PassDeadline(r))

Spec == Init /\ [][Next]_vars /\ Fairness

-----------------------------------------------------------------------------
(* Properties.                                                             *)

InPhase ==
    holder = NoOne => question = NoOne /\ (docling \in {"none", "idle"} => lines = <<>>)

\* A request takes for its answer the line the child wrote for it, never the
\* ready line or a late answer to a request that gave up (_kill_reset); and whoever
\* gets the lock finds a child that owes nothing and has said nothing that was not
\* read (the line protocol of docling_worker.py).
OwnAnswer == InPhase /\ \A r \in Requests : answer[r] \in {r, NoOne}

\* A cancel that was handled ends the work: no command of the request that the
\* service knows runs on (_run_tracked and _cancel_state agree whatever their order);
\* and one that reached the service before the request queued for docling, even before
\* its upload was read, keeps it from being converted, unless the table's bounds dropped
\* it before the request registered.
CancelledEnds ==
    /\ \A r \in Requests : Cancelled(r) => work[r].proc # "listed"
    /\ \A r \in early : pc[r] \notin Converting \cup {"trying"}

\* Every handler ends, with docling stuck, the client gone and the cancel lost.
RequestsEnd == \A r \in Requests : pc[r] \in Live ~> pc[r] = "done"

\* service.py:1020 says of the descriptions that they "never let a slow vision
\* gateway hold the sync handler past the caller's deadline".
DescribesWithinDeadline ==
    [][\A r \in Requests :
         pc[r] = "describe" /\ pc'[r] = "calling" => ~Overdue(r)]_vars
=============================================================================
