-------------------------- MODULE OcrServiceProofs --------------------------
(***************************************************************************)
(* OwnAnswer and CancelledEnds for any requests, images and deaths of the  *)
(* docling child; UrlsKept for any files, sizes and limits of the store.   *)
(*                                                                         *)
(* The lock of docling belongs to the one request at its pipe.  What the   *)
(* pipe holds follows from where that request is, and it is empty whenever *)
(* the lock is free: the line protocol is never out of step.               *)
(***************************************************************************)
EXTENDS OcrService, OcrFiles, FiniteTheorems

\* The lock is with the request that uses docling, and with no other.
HolderInv ==
    /\ holder \in Requests \cup {NoOne}
    /\ \A r \in Requests : pc[r] \in Converting <=> holder = r

\* What the child was asked and said, by where the holder of the lock is.
LineInv ==
    /\ holder = NoOne => question = NoOne /\ lines = <<>> /\ docling \in {"none", "idle", "dead"}
    /\ holder # NoOne =>
          /\ pc[holder] = "loading" =>
                /\ question = NoOne
                /\ \/ docling = "loading" /\ lines = <<>>
                   \/ docling = "idle" /\ lines = <<"ready">>
                   \/ docling = "dead" /\ lines \in {<<>>, <<"ready">>}
          /\ pc[holder] = "writing" => question = NoOne /\ lines = <<>> /\ docling \in {"idle", "dead"}
          /\ pc[holder] = "converting" =>
                /\ docling \in {"idle", "dead"}
                /\ \/ question = holder /\ lines = <<>> /\ docling = "idle"
                   \/ question = NoOne /\ lines = <<holder>>
                   \/ question = NoOne /\ lines = <<>> /\ docling = "dead"

AnswersInv ==
    /\ answer \in [Requests -> Requests \cup {"ready", NoOne}]
    /\ \A r \in Requests : answer[r] \in {r, NoOne}

PipeInv ==
    /\ pc \in [Requests -> PC]
    /\ HolderInv
    /\ LineInv
    /\ AnswersInv

-----------------------------------------------------------------------------
LEMMA SingleLine ==
    ASSUME NEW x
    PROVE  <<x>> # <<>> /\ Head(<<x>>) = x /\ Tail(<<x>>) = <<>> /\ Append(<<>>, x) = <<x>>
OBVIOUS

LEMMA PipeStart == Init => PipeInv
BY OcrAssumption DEF Init, PipeInv, HolderInv, LineInv, AnswersInv, PC, Converting

\* A step of a request outside of docling that stays outside.
LEMMA ElsewherePipe ==
    ASSUME PipeInv, NEW r \in Requests, pc[r] \notin Converting,
           NEW p \in PC \ Converting, pc' = [pc EXCEPT ![r] = p], UNCHANGED <<doclingVars, answer>>
    PROVE  PipeInv'
<1>1. pc' \in [Requests -> PC] /\ pc'[r] = p /\ \A q \in Requests \ {r} : pc'[q] = pc[q]
  BY DEF PipeInv
<1>2. HolderInv'
  BY <1>1 DEF PipeInv, HolderInv, doclingVars
<1>3. LineInv'
  <2>1. holder # NoOne => pc'[holder] = pc[holder]
    BY <1>1, OcrAssumption DEF PipeInv, HolderInv
  <2> QED
    BY <2>1 DEF PipeInv, LineInv, doclingVars
<1> QED
  BY <1>1, <1>2, <1>3 DEF PipeInv, AnswersInv

\* Steps that no request at the pipe takes part in.
LEMMA OutsideSteps ==
    ASSUME PipeInv, NEW r \in Requests,
           \/ Post(r) \/ AbandonUpload(r) \/ Register(r) \/ Spawn(r) \/ ListProc(r) \/ Collect(r)
           \/ KillOverdue(r) \/ CheckTurn(r) \/ SliceEnds(r) \/ Describe(r) \/ EndDescription(r)
    PROVE  PipeInv'
<1>1. pc[r] \notin Converting
  BY DEF Post, AbandonUpload, Register, Spawn, ListProc, Collect, KillOverdue, CheckTurn, SliceEnds,
         Describe, EndDescription, Converting
<1>2. \E p \in PC \ Converting : pc' = [pc EXCEPT ![r] = p]
  BY DEF Post, AbandonUpload, Register, Spawn, ListProc, Collect, KillOverdue, CheckTurn, SliceEnds,
         Describe, EndDescription, End, Goto, Converting, PC, Live, Unconverted
<1>3. UNCHANGED <<doclingVars, answer>>
  BY DEF Post, AbandonUpload, Register, Spawn, ListProc, Collect, KillOverdue, CheckTurn, SliceEnds,
         Describe, EndDescription, requestVars
<1> QED
  BY <1>1, <1>2, <1>3, ElsewherePipe

\* The request at the pipe gives the lock back and leaves an empty pipe.
LEMMA LeavesPipe ==
    ASSUME PipeInv, NEW r \in Requests, holder = r, holder' = NoOne,
           NEW p \in PC \ Converting, pc' = [pc EXCEPT ![r] = p],
           question' = NoOne, lines' = <<>>, docling' \in {"none", "idle", "dead"},
           AnswersInv'
    PROVE  PipeInv'
<1>1. pc' \in [Requests -> PC] /\ pc'[r] = p /\ \A q \in Requests \ {r} : pc'[q] = pc[q]
  BY DEF PipeInv
<1>2. HolderInv'
  BY <1>1, OcrAssumption DEF PipeInv, HolderInv
<1> QED
  BY <1>1, <1>2 DEF PipeInv, LineInv

LEMMA PipeStep == PipeInv /\ [Next]_vars => PipeInv'
<1> SUFFICES ASSUME PipeInv, [Next]_vars PROVE PipeInv'
  OBVIOUS
<1>1. /\ pc \in [Requests -> PC] /\ holder \in Requests \cup {NoOne}
      /\ NoOne \notin Requests
      /\ \A r \in Requests : pc[r] \in Converting <=> holder = r
      /\ answer \in [Requests -> Requests \cup {"ready", NoOne}]
  BY OcrAssumption DEF PipeInv, HolderInv, AnswersInv
<1>2. ASSUME UNCHANGED <<pc, doclingVars, answer>> PROVE PipeInv'
  BY <1>2 DEF PipeInv, HolderInv, LineInv, AnswersInv, doclingVars
<1>3. ASSUME NEW r \in Requests, Acquire(r) PROVE PipeInv'
  <2>1. pc[r] = "trying" /\ holder = NoOne /\ holder' = r /\ UNCHANGED answer
    BY <1>3 DEF Acquire, requestVars
  <2>2. question = NoOne /\ lines = <<>> /\ docling \in {"none", "idle", "dead"}
    BY <2>1 DEF PipeInv, LineInv
  <2>3. PICK p \in {"loading", "writing"} :
           /\ pc' = [pc EXCEPT ![r] = p]
           /\ question' = NoOne /\ lines' = <<>>
           /\ p = "writing" => docling = "idle"
           /\ docling' = (IF p = "loading" THEN "loading" ELSE docling)
    <3>1. CASE docling \in {"none", "dead"}
      <4>1. pc' = [pc EXCEPT ![r] = "loading"] /\ docling' = "loading" /\ lines' = <<>> /\ question' = NoOne
        BY <1>3, <3>1 DEF Acquire, Goto
      <4> QED
        BY <4>1
    <3>2. CASE docling \notin {"none", "dead"}
      <4>1. pc' = [pc EXCEPT ![r] = "writing"] /\ UNCHANGED <<docling, lines, question>>
        BY <1>3, <3>2 DEF Acquire, Goto
      <4>2. docling = "idle" /\ docling' = docling /\ lines' = <<>> /\ question' = NoOne
        BY <2>2, <3>2, <4>1
      <4> WITNESS "writing" \in {"loading", "writing"}
      <4> QED
        BY <4>1, <4>2
    <3> QED
      BY <3>1, <3>2
  <2>4. pc' \in [Requests -> PC] /\ pc'[r] = p /\ \A q \in Requests \ {r} : pc'[q] = pc[q]
    BY <1>1, <2>3 DEF PC, Live, Converting
  <2>5. HolderInv'
    BY <1>1, <2>1, <2>3, <2>4 DEF HolderInv, Converting
  <2>6. LineInv'
    BY <1>1, <2>1, <2>3, <2>4 DEF LineInv
  <2> QED
    BY <2>1, <2>4, <2>5, <2>6 DEF PipeInv, AnswersInv
<1>4. ASSUME NEW r \in Requests, ReadReady(r) PROVE PipeInv'
  <2>1. pc[r] = "loading" /\ holder = r /\ r # NoOne
    BY <1>1, <1>4 DEF ReadReady, Converting
  <2>2. question = NoOne /\ docling \in {"idle", "dead"} /\ lines \in {<<>>, <<"ready">>}
    BY <1>4, <2>1 DEF ReadReady, PipeInv, LineInv
  <2>3. lines' = <<>> /\ pc' = [pc EXCEPT ![r] = "writing"] /\ UNCHANGED <<holder, docling, question, answer>>
    BY <1>4, <2>2, SingleLine DEF ReadReady, Goto, requestVars
  <2>4. pc' \in [Requests -> PC] /\ pc'[r] = "writing" /\ \A q \in Requests \ {r} : pc'[q] = pc[q]
    BY <1>1, <2>3 DEF PC, Live, Converting
  <2>5. HolderInv'
    BY <1>1, <2>1, <2>3, <2>4 DEF HolderInv, Converting
  <2>6. LineInv'
    BY <2>1, <2>2, <2>3, <2>4 DEF LineInv
  <2> QED
    BY <2>3, <2>4, <2>5, <2>6 DEF PipeInv, AnswersInv
<1>5. ASSUME NEW r \in Requests, WriteLine(r) PROVE PipeInv'
  <2>1. pc[r] = "writing" /\ holder = r /\ r # NoOne
    BY <1>1, <1>5 DEF WriteLine, Converting
  <2>2. question = NoOne /\ lines = <<>> /\ docling \in {"idle", "dead"}
    BY <2>1 DEF PipeInv, LineInv
  <2>3. UNCHANGED <<docling, lines, answer>>
    BY <1>5 DEF WriteLine
  <2>4. CASE docling = "dead"
    <3>1. pc' = [pc EXCEPT ![r] = "done"] /\ holder' = NoOne /\ question' = NoOne
      BY <1>5, <2>2, <2>4 DEF WriteLine, End, Goto, Release
    <3>2. AnswersInv' /\ "done" \in PC \ Converting
      BY <2>3 DEF PipeInv, AnswersInv, PC, Converting
    <3> QED
      BY <2>1, <2>2, <2>3, <3>1, <3>2, LeavesPipe
  <2>5. CASE docling # "dead"
    <3>1. pc' = [pc EXCEPT ![r] = "converting"] /\ question' = r /\ UNCHANGED holder
      BY <1>5, <2>5 DEF WriteLine, Goto
    <3>2. pc' \in [Requests -> PC] /\ pc'[r] = "converting" /\ \A q \in Requests \ {r} : pc'[q] = pc[q]
      BY <1>1, <3>1 DEF PC, Live, Converting
    <3>3. HolderInv'
      BY <1>1, <2>1, <3>1, <3>2 DEF HolderInv, Converting
    <3>4. LineInv'
      BY <2>1, <2>2, <2>3, <2>5, <3>1, <3>2 DEF LineInv
    <3> QED
      BY <2>3, <3>2, <3>3, <3>4 DEF PipeInv, AnswersInv
  <2> QED
    BY <2>4, <2>5
<1>6. ASSUME NEW r \in Requests, LoadingTooLong(r) \/ StopConversion(r) \/ ReadEnd(r) PROVE PipeInv'
  <2>1. /\ holder = r /\ holder' = NoOne /\ pc' = [pc EXCEPT ![r] = "done"]
        /\ question' = NoOne /\ lines' = <<>> /\ docling' = "none" /\ UNCHANGED answer
    BY <1>1, <1>6 DEF LoadingTooLong, StopConversion, ReadEnd, Converting, KillReset, Release, End, Goto
  <2>2. AnswersInv' /\ "done" \in PC \ Converting
    BY <2>1 DEF PipeInv, AnswersInv, PC, Converting
  <2> QED
    BY <2>1, <2>2, LeavesPipe
<1>7. ASSUME NEW r \in Requests, ReadAnswer(r) PROVE PipeInv'
  <2>1. pc[r] = "converting" /\ lines # <<>> /\ holder = r /\ r # NoOne
    BY <1>1, <1>7 DEF ReadAnswer, Converting
  <2>2. question = NoOne /\ lines = <<r>> /\ docling \in {"idle", "dead"}
    BY <2>1 DEF PipeInv, LineInv
  <2>3. /\ answer' = [answer EXCEPT ![r] = r] /\ lines' = <<>> /\ holder' = NoOne
        /\ UNCHANGED <<docling, question>>
    BY <1>7, <2>2, SingleLine DEF ReadAnswer, Release
  <2>4. AnswersInv'
    BY <1>1, <2>3 DEF PipeInv, AnswersInv
  <2>5. PICK p \in {"describe", "done"} : pc' = [pc EXCEPT ![r] = p]
    BY <1>7 DEF ReadAnswer, Goto, End
  <2>6. p \in PC \ Converting
    BY DEF PC, Live, Converting
  <2> QED
    BY <2>1, <2>2, <2>3, <2>4, <2>5, <2>6, LeavesPipe
<1>8. ASSUME Load PROVE PipeInv'
  <2>1. docling = "loading" /\ docling' = "idle" /\ lines' = Append(lines, "ready")
        /\ UNCHANGED <<pc, holder, question, answer>>
    BY <1>8 DEF Load, requestVars
  <2>2. holder # NoOne /\ pc[holder] = "loading" /\ question = NoOne /\ lines = <<>>
    BY <1>1, <2>1 DEF PipeInv, LineInv, Converting
  <2>3. lines' = <<"ready">>
    BY <2>1, <2>2, SingleLine
  <2> QED
    BY <2>1, <2>2, <2>3 DEF PipeInv, HolderInv, LineInv, AnswersInv
<1>9. ASSUME Answer PROVE PipeInv'
  <2>1. question # NoOne /\ lines' = Append(lines, question) /\ question' = NoOne
        /\ UNCHANGED <<pc, holder, docling, answer>>
    BY <1>9 DEF Answer, requestVars
  <2>2. holder # NoOne /\ pc[holder] = "converting" /\ question = holder /\ lines = <<>> /\ docling = "idle"
    BY <1>1, <2>1 DEF PipeInv, LineInv, Converting
  <2>3. lines' = <<holder>>
    BY <2>1, <2>2, SingleLine
  <2> QED
    BY <2>1, <2>2, <2>3 DEF PipeInv, HolderInv, LineInv, AnswersInv
<1>10. ASSUME Die PROVE PipeInv'
  <2>1. docling' = "dead" /\ question' = NoOne /\ UNCHANGED <<pc, holder, lines, answer>>
    BY <1>10 DEF Die, requestVars
  <2>2. LineInv'
    BY <2>1 DEF PipeInv, LineInv
  <2> QED
    BY <2>1, <2>2 DEF PipeInv, HolderInv, AnswersInv
<1>11. ASSUME NEW r \in Requests, GiveUp(r) \/ PassDeadline(r) \/ ProcExits(r) PROVE PipeInv'
  BY <1>2, <1>11 DEF GiveUp, PassDeadline, ProcExits, requestVars
<1>12. ASSUME NEW c \in Chat, NoticeDisconnect(c) PROVE PipeInv'
  BY <1>2, <1>12 DEF NoticeDisconnect
<1>13. ASSUME NEW i \in Named, LoseCancel(i) \/ CancelArrives(i) PROVE PipeInv'
  BY <1>2, <1>13 DEF LoseCancel, CancelArrives, requestVars
<1>14. ASSUME AgePre PROVE PipeInv'
  BY <1>2, <1>14 DEF AgePre, requestVars
<1>15. CASE UNCHANGED vars
  BY <1>2, <1>15 DEF vars, requestVars
<1> QED
  BY <1>3, <1>4, <1>5, <1>6, <1>7, <1>8, <1>9, <1>10, <1>11, <1>12, <1>13, <1>14, <1>15, OutsideSteps
  DEF Next, Handler, ClientStep

LEMMA PipeInvariance == Spec => []PipeInv
BY PipeStart, PipeStep, PTL DEF Spec

\* Every request's answer is the line the child wrote for it, whoever died, gave
\* up or was cancelled before; whoever gets the lock finds the pipe in phase.
THEOREM AnswersAreOwn == Spec => []OwnAnswer
<1>1. PipeInv => OwnAnswer
  BY DEF PipeInv, LineInv, AnswersInv, OwnAnswer, InPhase
<1> QED
  BY <1>1, PipeInvariance, PTL

-----------------------------------------------------------------------------
(* Cancels.  Whoever was cancelled before it queued for docling is still on *)
(* its way there and will find its mark, or has ended.                     *)

EarlyInv ==
    /\ early \subseteq Named
    /\ \A r \in early : pc[r] = "done" \/ (Cancelled(r) /\ pc[r] \in Unconverted)

CancelInv ==
    /\ pc \in [Requests -> PC]
    /\ work \in [Requests -> Work]
    /\ \A r \in Requests : Cancelled(r) => work[r].proc # "listed"
    /\ EarlyInv

\* What a step that works on one request says of it.
LEMMA WorkOn ==
    ASSUME work \in [Requests -> Work], NEW r \in Requests, NEW w \in Work,
           work' = [work EXCEPT ![r] = w]
    PROVE  /\ work' \in [Requests -> Work]
           /\ work'[r] = w
           /\ \A q \in Requests \ {r} : work'[q] = work[q]
OBVIOUS

\* Work whose command is another, or in another state.
LEMMA WorkWithProc ==
    ASSUME NEW w \in Work, NEW p \in {"none", "loose", "listed", "ended"}
    PROVE  LET n == [w EXCEPT !.proc = p]
           IN  n \in Work /\ n.proc = p /\ n.cancelled = w.cancelled
BY DEF Work

LEMMA WorkWithStage ==
    ASSUME NEW w \in Work, NEW s \in {"img2pdf", "ocrmypdf"}, NEW p \in {"none", "loose", "listed", "ended"}
    PROVE  LET n == [w EXCEPT !.stage = s, !.proc = p]
           IN  n \in Work /\ n.proc = p /\ n.cancelled = w.cancelled
BY DEF Work

LEMMA WorkWithFewer ==
    ASSUME NEW w \in Work, w.images # 0
    PROVE  LET n == [w EXCEPT !.images = @ - 1]
           IN  n \in Work /\ n.proc = w.proc /\ n.cancelled = w.cancelled
<1> DEFINE i == w.images - 1
<1>1. i \in 0..MaxImages
  <2>1. w.images \in 0..MaxImages
    BY DEF Work
  <2> QED
    BY <2>1, OcrAssumption
<1> HIDE DEF i
<1>2. LET n == [w EXCEPT !.images = i]
      IN  n \in Work /\ n.proc = w.proc /\ n.cancelled = w.cancelled
  BY <1>1 DEF Work
<1> QED
  BY <1>2 DEF i

LEMMA WorkOverdue ==
    ASSUME NEW w \in Work
    PROVE  LET n == [w EXCEPT !.over = TRUE]
           IN  n \in Work /\ n.proc = w.proc /\ n.cancelled = w.cancelled
BY DEF Work

LEMMA WorkCancelled ==
    ASSUME NEW w \in Work
    PROVE  LET n == [w EXCEPT !.cancelled = TRUE, !.proc = IF @ = "listed" THEN "ended" ELSE @]
           IN  n \in Work /\ n.proc # "listed" /\ n.cancelled = TRUE
BY DEF Work

LEMMA NoWorkIsWork == NoWork \in Work /\ NoWork.proc = "none" /\ NoWork.cancelled = FALSE
BY OcrAssumption DEF NoWork, Work

\* One request moves, or is worked on; what queued early stays so, keeps its mark
\* until it ends, and comes no further.
LEMMA CancelMove ==
    ASSUME CancelInv, NEW r \in Requests,
           NEW p \in PC, pc' = [pc EXCEPT ![r] = p],
           NEW w \in Work, work' = [work EXCEPT ![r] = w],
           w.cancelled = TRUE => w.proc # "listed",
           early' = early,
           r \in early => p = "done" \/ (w.cancelled = TRUE /\ p \in Unconverted)
    PROVE  CancelInv'
<1>1. work' \in [Requests -> Work] /\ work'[r] = w /\ \A q \in Requests \ {r} : work'[q] = work[q]
  BY WorkOn DEF CancelInv
<1>2. pc' \in [Requests -> PC] /\ pc'[r] = p /\ \A q \in Requests \ {r} : pc'[q] = pc[q]
  BY DEF CancelInv
<1>3. \A q \in Requests : Cancelled(q)' => work'[q].proc # "listed"
  BY <1>1 DEF CancelInv, Cancelled
<1>4. EarlyInv'
  BY <1>1, <1>2 DEF CancelInv, EarlyInv, Cancelled, Requests
<1> QED
  BY <1>1, <1>2, <1>3, <1>4 DEF CancelInv

\* Where a request that queued early may be.
LEMMA EarlyAt ==
    ASSUME CancelInv, NEW r \in Requests
    PROVE  /\ pc[r] \in PC /\ work[r] \in Work
           /\ work[r].cancelled = TRUE => work[r].proc # "listed"
           /\ r \in early => pc[r] = "done" \/ (work[r].cancelled = TRUE /\ pc[r] \in Unconverted)
           /\ [pc EXCEPT ![r] = pc[r]] = pc /\ [work EXCEPT ![r] = work[r]] = work
BY DEF CancelInv, EarlyInv, Cancelled

LEMMA CancelStart == Init => CancelInv
BY NoWorkIsWork DEF Init, CancelInv, EarlyInv, Cancelled, PC

\* The handler ends, wherever it was.
LEMMA CancelEnd ==
    ASSUME CancelInv, NEW r \in Requests, End(r), early' = early
    PROVE  CancelInv'
<1>1. "done" \in PC
  BY DEF PC
<1> QED
  BY <1>1, NoWorkIsWork, CancelMove DEF End, Goto

\* It goes on, and its work stays as it is.
LEMMA CancelGoto ==
    ASSUME CancelInv, NEW r \in Requests, NEW p \in PC, Goto(r, p), work' = work, early' = early,
           r \in early => p \in Unconverted /\ pc[r] # "done"
    PROVE  CancelInv'
<1>1. work' = [work EXCEPT ![r] = work[r]]
  BY EarlyAt
<1> QED
  BY <1>1, EarlyAt, CancelMove DEF Goto

\* Its work changes where it is.
LEMMA CancelWork ==
    ASSUME CancelInv, NEW r \in Requests, NEW w \in Work, pc' = pc, work' = [work EXCEPT ![r] = w],
           w.cancelled = TRUE => w.proc # "listed", early' = early,
           work[r].cancelled = TRUE => w.cancelled = TRUE
    PROVE  CancelInv'
<1>1. pc' = [pc EXCEPT ![r] = pc[r]]
  BY EarlyAt
<1> QED
  BY <1>1, EarlyAt, CancelMove

LEMMA CancelOutside ==
    ASSUME CancelInv, UNCHANGED <<pc, work, early>>
    PROVE  CancelInv'
BY DEF CancelInv, EarlyInv, Cancelled

LEMMA CancelStep == CancelInv /\ [Next]_vars => CancelInv'
<1> SUFFICES ASSUME CancelInv, [Next]_vars PROVE CancelInv'
  OBVIOUS
<1>0. {"stage", "spawned", "running", "want"} \subseteq PC /\ "done" \notin Unconverted
  BY DEF PC, Live, Unconverted
<1>1. ASSUME NEW r \in Requests, Post(r) PROVE CancelInv'
  <2>1. pc[r] = "ready" /\ pc' = [pc EXCEPT ![r] = "arriving"] /\ early' = early
    BY <1>1 DEF Post, Goto, flightVars
  <2>2. PICK s \in {"img2pdf", "ocrmypdf"}, k \in 0..MaxImages :
           work' = [work EXCEPT ![r].stage = s, ![r].images = k]
    BY <1>1 DEF Post
  <2> DEFINE w == [work[r] EXCEPT !.stage = s, !.images = k]
  <2>3. work' = [work EXCEPT ![r] = w]
    BY <2>2 DEF CancelInv
  <2>4. w \in Work /\ w.proc = work[r].proc /\ w.cancelled = work[r].cancelled
    <3>1. work[r] \in Work
      BY EarlyAt
    <3> QED
      BY <3>1 DEF Work
  <2>5. r \notin early /\ "arriving" \in PC
    BY <2>1, EarlyAt DEF Unconverted, PC
  <2> HIDE DEF w
  <2> QED
    BY <2>1, <2>3, <2>4, <2>5, EarlyAt, CancelMove
<1>2. ASSUME NEW r \in Requests, AbandonUpload(r) \/ KillOverdue(r) PROVE CancelInv'
  BY <1>2, CancelEnd DEF AbandonUpload, KillOverdue, flightVars
<1>3. ASSUME NEW r \in Requests, Register(r) PROVE CancelInv'
  <2>1. pc[r] = "arriving"
    BY <1>3 DEF Register
  <2>2. r \notin early
    BY <2>1, EarlyAt DEF Unconverted
  <2>3. CASE early' = early
    <3>1. CASE End(r)
      BY <2>3, <3>1, CancelEnd
    <3>2. CASE Goto(r, "stage") /\ UNCHANGED work
      BY <1>0, <2>2, <2>3, <3>2, CancelGoto
    <3> QED
      BY <1>3, <3>1, <3>2 DEF Register
  <2>4. CASE early' # early
    <3>1. r \in Named /\ early' = early \cup {r} /\ Claimed(r)
      BY <1>3, <2>4 DEF Register, Claimed
    <3>2. pc' = [pc EXCEPT ![r] = "done"] /\ work' = [work EXCEPT ![r] = NoWork]
      BY <1>3, <3>1 DEF Register, End, Goto
    <3>3. work' \in [Requests -> Work] /\ work'[r] = NoWork /\ \A q \in Requests \ {r} : work'[q] = work[q]
      BY <3>2, NoWorkIsWork, WorkOn DEF CancelInv
    <3>4. pc' \in [Requests -> PC] /\ pc'[r] = "done" /\ \A q \in Requests \ {r} : pc'[q] = pc[q]
      BY <3>2 DEF CancelInv, PC
    <3>5. \A q \in Requests : Cancelled(q)' => work'[q].proc # "listed"
      BY <3>3, NoWorkIsWork DEF CancelInv, Cancelled
    <3>6. EarlyInv'
      BY <3>1, <3>3, <3>4 DEF CancelInv, EarlyInv, Cancelled, Requests
    <3> QED
      BY <3>3, <3>4, <3>5, <3>6 DEF CancelInv
  <2> QED
    BY <2>3, <2>4
<1>4. ASSUME NEW r \in Requests, Spawn(r) PROVE CancelInv'
  <2>1. pc[r] = "stage" /\ early' = early
    BY <1>4 DEF Spawn, flightVars
  <2>2. CASE End(r)
    BY <2>1, <2>2, CancelEnd
  <2>3. CASE Goto(r, "spawned") /\ work' = [work EXCEPT ![r].proc = "loose"]
    <3> DEFINE w == [work[r] EXCEPT !.proc = "loose"]
    <3>1. work' = [work EXCEPT ![r] = w]
      BY <2>3 DEF CancelInv
    <3>2. w \in Work /\ w.proc = "loose" /\ w.cancelled = work[r].cancelled
      BY EarlyAt, WorkWithProc
    <3> HIDE DEF w
    <3>3. r \in early => w.cancelled = TRUE
      BY <2>1, <3>2, EarlyAt
    <3> QED
      BY <1>0, <2>1, <2>3, <3>1, <3>2, <3>3, CancelMove DEF Goto, Unconverted
  <2> QED
    BY <1>4, <2>2, <2>3 DEF Spawn
<1>5. ASSUME NEW r \in Requests, ListProc(r) PROVE CancelInv'
  <2> DEFINE w == [work[r] EXCEPT !.proc = Listed(r)]
  <2>1. pc[r] = "spawned" /\ early' = early /\ pc' = [pc EXCEPT ![r] = "running"]
    BY <1>5 DEF ListProc, flightVars, Goto
  <2>2. work' = [work EXCEPT ![r] = w]
    BY <1>5 DEF ListProc, CancelInv
  <2>3. Listed(r) \in {"ended", "listed"} /\ (work[r].cancelled = TRUE => Listed(r) = "ended")
    BY DEF Listed, Cancelled
  <2>4. w \in Work /\ w.proc = Listed(r) /\ w.cancelled = work[r].cancelled
    <3>1. work[r] \in Work /\ Listed(r) \in {"none", "loose", "listed", "ended"}
      BY <2>3, EarlyAt
    <3> QED
      BY <3>1, WorkWithProc
  <2> HIDE DEF w
  <2>5. r \in early => w.cancelled = TRUE
    BY <2>1, <2>4, EarlyAt
  <2> QED
    BY <1>0, <2>1, <2>2, <2>3, <2>4, <2>5, CancelMove DEF Unconverted
<1>6. ASSUME NEW r \in Requests, ProcExits(r) PROVE CancelInv'
  <2> DEFINE w == [work[r] EXCEPT !.proc = "ended"]
  <2>1. work' = [work EXCEPT ![r] = w] /\ pc' = pc /\ early' = early
    BY <1>6 DEF ProcExits, CancelInv, flightVars
  <2>2. w \in Work /\ w.proc = "ended" /\ w.cancelled = work[r].cancelled
    BY EarlyAt, WorkWithProc
  <2> HIDE DEF w
  <2> QED
    BY <2>1, <2>2, CancelWork
<1>7. ASSUME NEW r \in Requests, Collect(r) PROVE CancelInv'
  <2>1. pc[r] = "running" /\ early' = early
    BY <1>7 DEF Collect, flightVars
  <2>2. CASE End(r)
    BY <2>1, <2>2, CancelEnd
  <2>3. CASE ~End(r)
    <3> DEFINE w == [work[r] EXCEPT !.stage = "ocrmypdf", !.proc = "none"]
    <3>1. ~Cancelled(r) /\ work' = [work EXCEPT ![r] = w]
      BY <1>7, <2>3 DEF Collect, CancelInv
    <3>2. PICK p \in {"stage", "want"} : pc' = [pc EXCEPT ![r] = p]
      BY <1>7, <2>3 DEF Collect, Goto
    <3>3. w \in Work /\ w.proc = "none" /\ w.cancelled = work[r].cancelled
      BY EarlyAt, WorkWithStage
    <3> HIDE DEF w
    <3>4. r \notin early
      BY <2>1, <3>1, EarlyAt DEF Cancelled
    <3> QED
      BY <1>0, <2>1, <3>1, <3>2, <3>3, <3>4, CancelMove
  <2> QED
    BY <2>2, <2>3
<1>8. ASSUME NEW r \in Requests, PassDeadline(r) PROVE CancelInv'
  <2> DEFINE w == [work[r] EXCEPT !.over = TRUE]
  <2>1. work' = [work EXCEPT ![r] = w] /\ pc' = pc /\ early' = early
    BY <1>8 DEF PassDeadline, CancelInv, flightVars
  <2>2. w \in Work /\ w.proc = work[r].proc /\ w.cancelled = work[r].cancelled
    BY EarlyAt, WorkOverdue
  <2> HIDE DEF w
  <2> QED
    BY <2>1, <2>2, EarlyAt, CancelWork
<1>9. ASSUME NEW r \in Requests, CheckTurn(r) PROVE CancelInv'
  <2>1. pc[r] = "want" /\ early' = early
    BY <1>9 DEF CheckTurn, flightVars
  <2>2. CASE Cancelled(r) \/ Overdue(r)
    BY <1>9, <2>1, <2>2, CancelEnd DEF CheckTurn
  <2>3. CASE ~(Cancelled(r) \/ Overdue(r))
    <3>1. r \notin early
      BY <2>1, <2>3, EarlyAt DEF Cancelled
    <3>2. Goto(r, "trying") /\ work' = work /\ "trying" \in PC
      BY <1>9, <2>3 DEF CheckTurn, PC, Live
    <3> QED
      BY <2>1, <3>1, <3>2, CancelGoto
  <2> QED
    BY <2>2, <2>3
<1>10. ASSUME NEW r \in Requests, SliceEnds(r) \/ Acquire(r) \/ ReadReady(r) \/ EndDescription(r)
       PROVE CancelInv'
  <2>1. pc[r] \in {"trying", "loading", "calling"} /\ early' = early /\ work' = work
    BY <1>10 DEF SliceEnds, Acquire, ReadReady, EndDescription, flightVars, requestVars
  <2>2. r \notin early
    BY <2>1, EarlyAt DEF Unconverted
  <2>3. PICK p \in PC : Goto(r, p)
    BY <1>10 DEF SliceEnds, Acquire, ReadReady, EndDescription, PC, Live, Unconverted, Converting
  <2> QED
    BY <2>1, <2>2, <2>3, CancelGoto
<1>11. ASSUME NEW r \in Requests, LoadingTooLong(r) \/ StopConversion(r) \/ ReadEnd(r) PROVE CancelInv'
  BY <1>11, CancelEnd DEF LoadingTooLong, StopConversion, ReadEnd, flightVars
<1>12. ASSUME NEW r \in Requests, WriteLine(r) \/ ReadAnswer(r) PROVE CancelInv'
  <2>1. pc[r] \in {"writing", "converting"} /\ early' = early
    BY <1>12 DEF WriteLine, ReadAnswer, flightVars
  <2>2. r \notin early
    BY <2>1, EarlyAt DEF Unconverted
  <2>3. End(r) \/ \E p \in PC : Goto(r, p) /\ work' = work
    BY <1>12 DEF WriteLine, ReadAnswer, PC, Live, Converting
  <2> QED
    BY <2>1, <2>2, <2>3, CancelGoto, CancelEnd
<1>13. ASSUME NEW r \in Requests, Describe(r) PROVE CancelInv'
  <2>1. pc[r] = "describe" /\ early' = early
    BY <1>13 DEF Describe, flightVars
  <2>2. CASE work[r].images = 0 \/ Cancelled(r)
    BY <1>13, <2>1, <2>2, CancelEnd DEF Describe
  <2>3. CASE ~(work[r].images = 0 \/ Cancelled(r))
    <3> DEFINE w == [work[r] EXCEPT !.images = @ - 1]
    <3>1. pc' = [pc EXCEPT ![r] = "calling"] /\ work' = [work EXCEPT ![r] = w] /\ "calling" \in PC
      BY <1>13, <2>3 DEF Describe, Goto, CancelInv, PC, Live
    <3>2. w \in Work /\ w.proc = work[r].proc /\ w.cancelled = work[r].cancelled
      BY <2>3, EarlyAt, WorkWithFewer
    <3> HIDE DEF w
    <3>3. r \notin early
      BY <2>1, EarlyAt DEF Unconverted
    <3> QED
      BY <2>1, <3>1, <3>2, <3>3, EarlyAt, CancelMove
  <2> QED
    BY <2>2, <2>3
<1>14. ASSUME NEW r \in Requests, CancelState(r), pc' = pc, early' = early PROVE CancelInv'
  <2> DEFINE w == [work[r] EXCEPT !.cancelled = TRUE, !.proc = IF @ = "listed" THEN "ended" ELSE @]
  <2>1. work' = [work EXCEPT ![r] = w]
    BY <1>14 DEF CancelState, CancelInv
  <2>2. w \in Work /\ w.proc # "listed" /\ w.cancelled = TRUE
    BY EarlyAt, WorkCancelled
  <2> HIDE DEF w
  <2> QED
    BY <1>14, <2>1, <2>2, CancelWork
<1>15. ASSUME NEW i \in Named, CancelArrives(i) PROVE CancelInv'
  <2>1. i \in Requests /\ pc' = pc
    BY <1>15 DEF CancelArrives, Requests
  <2>2. CASE early' = early
    <3>1. CASE CancelState(i)
      BY <1>14, <2>1, <2>2, <3>1
    <3>2. CASE work' = work
      BY <2>1, <2>2, <3>2, CancelOutside
    <3> QED
      BY <1>15, <3>1, <3>2 DEF CancelArrives
  <2>3. CASE early' # early
    <3> DEFINE w == [work[i] EXCEPT !.cancelled = TRUE, !.proc = IF @ = "listed" THEN "ended" ELSE @]
    <3>1. pc[i] \in Unconverted /\ early' = early \cup {i} /\ CancelState(i)
      BY <1>15, <2>3 DEF CancelArrives
    <3>2. work' = [work EXCEPT ![i] = w]
      BY <3>1, <2>1 DEF CancelState, CancelInv
    <3>3. w \in Work /\ w.proc # "listed" /\ w.cancelled = TRUE
      BY <2>1, EarlyAt, WorkCancelled
    <3> HIDE DEF w
    <3>4. work' \in [Requests -> Work] /\ work'[i] = w /\ \A q \in Requests \ {i} : work'[q] = work[q]
      BY <2>1, <3>2, <3>3, WorkOn DEF CancelInv
    <3>5. \A q \in Requests : Cancelled(q)' => work'[q].proc # "listed"
      BY <3>3, <3>4 DEF CancelInv, Cancelled
    <3>6. EarlyInv'
      BY <2>1, <3>1, <3>3, <3>4 DEF CancelInv, EarlyInv, Cancelled, Requests
    <3> QED
      BY <2>1, <3>4, <3>5, <3>6 DEF CancelInv
  <2> QED
    BY <2>2, <2>3
<1>16. ASSUME NEW c \in Chat, NoticeDisconnect(c) PROVE CancelInv'
  BY <1>14, <1>16 DEF NoticeDisconnect, Requests, flightVars
<1>17. ASSUME \/ \E r \in Requests : GiveUp(r)
              \/ \E i \in Named : LoseCancel(i)
              \/ AgePre \/ Load \/ Answer \/ Die \/ UNCHANGED vars
       PROVE  CancelInv'
  BY <1>17, CancelOutside DEF GiveUp, LoseCancel, AgePre, Load, Answer, Die, vars, flightVars, requestVars
<1> QED
  BY <1>1, <1>2, <1>3, <1>4, <1>5, <1>6, <1>7, <1>8, <1>9, <1>10, <1>11, <1>12, <1>13, <1>15, <1>16, <1>17
  DEF Next, Handler, ClientStep

\* A cancel that was handled ends the work, and one that came before the request
\* queued for docling keeps it from being converted, for any requests and times.
THEOREM CancelsEndWork == Spec => []CancelledEnds
<1>1. CancelInv => CancelledEnds
  BY DEF CancelInv, EarlyInv, CancelledEnds, Unconverted, Converting
<1> QED
  BY <1>1, CancelStart, CancelStep, PTL DEF Spec

-----------------------------------------------------------------------------
(* The store of uploaded files.  A file whose client did not delete it is  *)
(* in the store or has outlived its time; what leaves the store makes it   *)
(* smaller in both measures, and Fits leaves room for what comes in.       *)

UploadsInv ==
    /\ FilesTypeOK
    /\ \A f \in Files : upload[f] \in {"stored", "located"} => f \in store \cup stale
    /\ \A f \in Files : upload[f] = "missing" => f \in stale

UrlsInv ==
    /\ UploadsInv
    /\ Cardinality(store) <= StoreMax
    /\ StoredBytes(store) <= StoreMaxBytes

LEMMA StoredBytesIsSum == \A S : StoredBytes(S) = SumOver(Bytes, S)
BY DEF StoredBytes, SumOver

\* What is taken out of the store makes it no larger.
LEMMA SmallerStore ==
    ASSUME store \subseteq Files, Cardinality(store) <= StoreMax, StoredBytes(store) <= StoreMaxBytes,
           NEW S, S \subseteq store
    PROVE  Cardinality(S) <= StoreMax /\ StoredBytes(S) <= StoreMaxBytes
<1>1. IsFiniteSet(store) /\ IsFiniteSet(S)
  BY FilesAssumption, FS_Subset
<1>2. Cardinality(S) <= Cardinality(store) /\ Cardinality(store) \in Nat /\ Cardinality(S) \in Nat
  BY <1>1, FS_Subset, FS_CardinalityType
<1>3. SumOver(Bytes, S) <= SumOver(Bytes, store) /\ SumOver(Bytes, S) \in Nat /\ SumOver(Bytes, store) \in Nat
  BY <1>1, FilesAssumption, SumOverSubset, SumOverNat
<1>4. StoredBytes(S) = SumOver(Bytes, S) /\ StoredBytes(store) = SumOver(Bytes, store)
  BY StoredBytesIsSum
<1> QED
  BY <1>2, <1>3, <1>4, FilesAssumption

\* What Fits lets in keeps the store within its bounds.
LEMMA LargerStore ==
    ASSUME store \subseteq Files, NEW f \in Files, Fits(f)
    PROVE  Cardinality(Fresh \cup {f}) <= StoreMax /\ StoredBytes(Fresh \cup {f}) <= StoreMaxBytes
<1> DEFINE S == Fresh \cup {f}
<1>1. Fresh \subseteq Files /\ S \subseteq Files
  BY DEF Fresh
<1>2. IsFiniteSet(Fresh) /\ IsFiniteSet(S)
  BY <1>1, FilesAssumption, FS_Subset
<1>3. Cardinality(Fresh) \in Nat /\ Cardinality(S) <= Cardinality(Fresh) + 1 /\ Cardinality(S) \in Nat
  BY <1>2, FS_AddElement, FS_CardinalityType
<1>4. StoredBytes(S) <= StoredBytes(Fresh) + Bytes[f] /\ StoredBytes(S) \in Nat /\ StoredBytes(Fresh) \in Nat
  <2>1. SumOver(Bytes, S) = Bytes[f] + SumOver(Bytes, S \ {f})
    BY <1>1, <1>2, FilesAssumption, SumOverWithout
  <2>2. SumOver(Bytes, S \ {f}) <= SumOver(Bytes, Fresh)
    BY <1>1, <1>2, FilesAssumption, SumOverSubset
  <2>3. /\ SumOver(Bytes, S) \in Nat /\ SumOver(Bytes, Fresh) \in Nat /\ Bytes[f] \in Nat
        /\ SumOver(Bytes, S \ {f}) \in Nat
    BY <1>1, <1>2, FilesAssumption, FS_Subset, SumOverNat
  <2>4. StoredBytes(S) = SumOver(Bytes, S) /\ StoredBytes(Fresh) = SumOver(Bytes, Fresh)
    BY StoredBytesIsSum
  <2> QED
    BY <2>1, <2>2, <2>3, <2>4
<1>5. Bytes[f] \in Nat
  BY FilesAssumption
<1> HIDE DEF S
<1>6. Cardinality(S) <= StoreMax /\ StoredBytes(S) <= StoreMaxBytes
  BY <1>3, <1>4, <1>5, FilesAssumption DEF Fits
<1> QED
  BY <1>6 DEF S

LEMMA UrlsStart == FilesInit => UrlsInv
<1>1. Cardinality({}) = 0 /\ StoredBytes({}) = 0
  <2>1. SumOver(Bytes, {}) = 0
    BY FS_EmptySet, SumOverUnfold
  <2> QED
    BY <2>1, FS_EmptySet, StoredBytesIsSum
<1>2. FilesInit => UploadsInv /\ store = {}
  BY DEF FilesInit, UploadsInv, FilesTypeOK
<1> QED
  BY <1>1, <1>2, FilesAssumption DEF UrlsInv

LEMMA UploadsStep == UploadsInv /\ FilesNext => UploadsInv'
<1> SUFFICES ASSUME UploadsInv, NEW f \in Files,
                    Upload(f) \/ RefuseUpload(f) \/ GetUrl(f) \/ DeleteFile(f) \/ OutliveTtl(f)
             PROVE  UploadsInv'
  BY DEF FilesNext
<1>1. CASE Upload(f)
  BY <1>1 DEF Upload, UploadsInv, FilesTypeOK, Fresh
<1>2. CASE RefuseUpload(f)
  BY <1>2 DEF RefuseUpload, UploadsInv, FilesTypeOK, Fresh
<1>3. CASE GetUrl(f)
  BY <1>3 DEF GetUrl, UploadsInv, FilesTypeOK, Fresh
<1>4. CASE DeleteFile(f)
  BY <1>4 DEF DeleteFile, UploadsInv, FilesTypeOK
<1>5. CASE OutliveTtl(f)
  BY <1>5 DEF OutliveTtl, UploadsInv, FilesTypeOK
<1> QED
  BY <1>1, <1>2, <1>3, <1>4, <1>5

LEMMA UrlsStep == UrlsInv /\ [FilesNext]_filesVars => UrlsInv'
<1> SUFFICES ASSUME UrlsInv, [FilesNext]_filesVars PROVE UrlsInv'
  OBVIOUS
<1>1. store \subseteq Files
  BY DEF UrlsInv, UploadsInv, FilesTypeOK
<1>2. ASSUME NEW f \in Files, Upload(f) PROVE UrlsInv'
  <2>1. Fits(f) /\ store' = Fresh \cup {f}
    BY <1>2 DEF Upload
  <2>2. Cardinality(store') <= StoreMax /\ StoredBytes(store') <= StoreMaxBytes
    BY <1>1, <2>1, LargerStore
  <2>3. UploadsInv'
    BY <1>2, UploadsStep DEF UrlsInv, FilesNext
  <2> QED
    BY <2>2, <2>3 DEF UrlsInv
<1>3. ASSUME NEW f \in Files, RefuseUpload(f) \/ GetUrl(f) \/ DeleteFile(f) \/ OutliveTtl(f) PROVE UrlsInv'
  <2>1. store' \subseteq store
    BY <1>3 DEF RefuseUpload, GetUrl, DeleteFile, OutliveTtl, Fresh
  <2>2. Cardinality(store') <= StoreMax /\ StoredBytes(store') <= StoreMaxBytes
    BY <1>1, <2>1, SmallerStore DEF UrlsInv
  <2>3. UploadsInv'
    BY <1>3, UploadsStep DEF UrlsInv, FilesNext
  <2> QED
    BY <2>2, <2>3 DEF UrlsInv
<1>4. CASE UNCHANGED filesVars
  <2>1. UploadsInv'
    BY <1>4 DEF UrlsInv, UploadsInv, FilesTypeOK, filesVars
  <2>2. store' = store
    BY <1>4 DEF filesVars
  <2>3. Cardinality(store') <= StoreMax /\ StoredBytes(store') <= StoreMaxBytes
    BY <2>2 DEF UrlsInv
  <2> QED
    BY <2>1, <2>3 DEF UrlsInv
<1> QED
  BY <1>2, <1>3, <1>4 DEF FilesNext

\* An uploaded file answers until its time is over, and the store keeps within its
\* bounds in entries and bytes, for any files, sizes and limits.
THEOREM UrlsAreKept == FilesSpec => []UrlsKept
<1>1. UrlsInv => UrlsKept
  BY DEF UrlsInv, UploadsInv, UrlsKept
<1> QED
  BY <1>1, UrlsStart, UrlsStep, PTL DEF FilesSpec
=============================================================================
