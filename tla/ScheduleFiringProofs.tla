------------------------ MODULE ScheduleFiringProofs ------------------------
(***************************************************************************)
(* FiringInv is inductive, for any number of replicas and of requests in   *)
(* progress, any clock, intervals and budgets; the action properties of    *)
(* ScheduleFiring follow from it.                                          *)
(***************************************************************************)
EXTENDS ScheduleInvariants, FiniteSetTheorems, TLAPS

-----------------------------------------------------------------------------
(* Operators *)

\* The next multiple of p after n is after n.
LEMMA NextMultiple ==
    ASSUME NEW n \in Nat, NEW p \in Nat \ {0}
    PROVE  /\ n \div p \in Nat
           /\ (n \div p + 1) * p \in Nat
           /\ (n \div p + 1) * p > n
<1> DEFINE d == n \div p
<1>1. d \in Nat
  OBVIOUS
<1>2. n < p * d + p
  OBVIOUS
<1>3. (d + 1) * p = p * d + p
  BY <1>1
<1>4. p * d \in Nat
  BY <1>1
<1> HIDE DEF d
<1>5. (d + 1) * p \in Nat /\ (d + 1) * p > n
  BY <1>2, <1>3, <1>4
<1> QED
  BY <1>1, <1>5 DEF d

\* An occurrence is a time.
LEMMA FollowingType ==
    ASSUME ShapeInv, NEW t \in Timings, NEW n \in Nat
    PROVE  Following(t, n) \in Nat
<1>1. t \in Nat \ {0}
  BY FiringAssumption
<1>2. (n \div t + 1) * t \in Nat
  BY <1>1, NextMultiple
<1> QED
  BY <1>1, <1>2 DEF Following, ShapeInv

\* Catching up from a fire that was due ends after the time of the decision.
LEMMA CaughtUpForward ==
    ASSUME ShapeInv, NEW t \in Timings, NEW base \in Nat, NEW n \in Nat, base <= n,
           kind # "ONE_TIME"
    PROVE  CaughtUp(t, base, n) \in Nat /\ CaughtUp(t, base, n) > n
<1>1. t \in Nat \ {0}
  BY FiringAssumption
<1>2. CASE kind = "EVERY"
  <2>1. n - base \in Nat
    OBVIOUS
  <2> DEFINE step == ((n - base) \div t + 1) * t
  <2>2. step \in Nat /\ step > n - base
    BY <1>1, <2>1, NextMultiple
  <2>3. CaughtUp(t, base, n) = base + step
    BY <1>2 DEF CaughtUp
  <2> HIDE DEF step
  <2> QED
    BY <2>2, <2>3
<1>3. CASE kind = "ALIGNED"
  <2>1. CaughtUp(t, base, n) = (n \div t + 1) * t
    BY <1>3 DEF CaughtUp, Following
  <2> QED
    BY <1>1, <2>1, NextMultiple
<1> QED
  BY <1>2, <1>3 DEF ShapeInv

\* A handler with something to do holds a request.
LEMMA RequestType ==
    ASSUME ShapeInv, NEW h \in Handlers, request[h].op # "none"
    PROVE  request[h] \in Requests
  BY DEF ShapeInv, Idle

\* The fields an edit does not send stay, and the rest of the row with them.
LEMMA MergedType ==
    ASSUME NEW r \in Rows, NEW e \in Edits \cup {NoEdit}
    PROVE  /\ Merged(e, r) \in Rows
           /\ Merged(e, r).next = r.next /\ Merged(e, r).approval = r.approval
<1>1. e.timing \in Timings \cup {Same} /\ e.pin \in Pins \cup {Same}
  BY FiringAssumption DEF NoEdit
<1> QED
  BY <1>1 DEF Merged, Rows

\* What an edit makes of the row, by what its handler read.
LEMMA EditedType ==
    ASSUME NEW r \in Rows, NEW q \in Requests
    PROVE  /\ Edited(q, r) \in Rows
           /\ q.row.approval # "APPROVED" => Edited(q, r).next = r.next /\ Edited(q, r).approval = r.approval
           /\ q.row.approval = "APPROVED" /\ q.shared
                 => Edited(q, r).next = None /\ Edited(q, r).approval = "PENDING"
           /\ q.row.approval = "APPROVED" /\ ~q.shared
                 => Edited(q, r).next = q.next /\ Edited(q, r).approval = r.approval
<1> DEFINE m == Merged(q.edit, r)
<1>1. q.edit \in Edits \cup {NoEdit} /\ q.shared \in BOOLEAN /\ q.next \in Nat
  BY DEF Requests
<1>2. m \in Rows /\ m.next = r.next /\ m.approval = r.approval
  BY <1>1, MergedType
<1>3. q.row.approval # "APPROVED" => Edited(q, r) = m
  BY DEF Edited
<1>4. q.row.approval = "APPROVED" /\ q.shared
         => Edited(q, r) = [m EXCEPT !.approval = "PENDING", !.next = None]
  BY DEF Edited
<1>5. q.row.approval = "APPROVED" /\ ~q.shared => Edited(q, r) = [m EXCEPT !.next = q.next]
  BY DEF Edited
<1> HIDE DEF m
<1> QED
  BY <1>1, <1>2, <1>3, <1>4, <1>5 DEF Rows

-----------------------------------------------------------------------------
(* The inductive invariant *)

\* A request is read from a well-formed row.
LEMMA ReadType ==
    ASSUME ShapeInv, NEW h \in Handlers, NEW who \in People \cup {Nobody}, NEW edit \in Edits \cup {NoEdit},
           NEW op \in {"create", "patch", "resume", "approve", "reject"}, Read(h, op, who, edit)
    PROVE  /\ request'[h] \in Requests
           /\ request'[h].op = op /\ request'[h].row = row
           /\ request' = [request EXCEPT ![h] = request'[h]]
<1> DEFINE t == IF edit.timing = Same THEN row.timing ELSE edit.timing
<1>1. t \in Timings
  <2>1. edit.timing \in Timings \cup {Same}
    BY FiringAssumption DEF NoEdit
  <2>2. row.timing \in Timings
    BY DEF ShapeInv, Rows
  <2> QED
    BY <2>1, <2>2
<1>2. ResolveNextFireAt(t) \in Nat
  BY <1>1, FollowingType DEF ResolveNextFireAt, ShapeInv
<1>3. request'[h] = [op |-> op, who |-> who, edit |-> edit, row |-> row, shared |-> shared,
                     next |-> ResolveNextFireAt(t)]
  BY DEF Read, ShapeInv
<1> HIDE DEF t
<1>4. request'[h] \in Requests /\ request'[h].op = op /\ request'[h].row = row
  BY <1>2, <1>3 DEF Requests, ShapeInv
<1>5. request' = [request EXCEPT ![h] = request'[h]]
  BY <1>3 DEF Read, ShapeInv
<1> QED
  BY <1>4, <1>5

\* All five ways to read.
ReadStep(h) ==
    \E op \in {"create", "patch", "resume", "approve", "reject"}, who \in People \cup {Nobody},
       edit \in Edits \cup {NoEdit} : Read(h, op, who, edit)

LEMMA ReadSteps ==
    ASSUME NEW h \in Handlers
    PROVE  /\ ReadForCreate(h) => ReadStep(h)
           /\ ReadForResume(h) => ReadStep(h)
           /\ \A who \in People, edit \in Edits : ReadForPatch(h, who, edit) => ReadStep(h)
           /\ \A who \in People, op \in {"approve", "reject"} : ReadForReview(h, who, op) => ReadStep(h)
  BY FiringAssumption DEF ReadForCreate, ReadForResume, ReadForPatch, ReadForReview, ReadStep

\* The types are kept.
LEMMA ShapeStep == ShapeInv /\ TicksInv /\ [Next]_vars => ShapeInv'
<1> SUFFICES ASSUME ShapeInv, TicksInv, [Next]_vars PROVE ShapeInv'
  OBVIOUS
<1> USE DEF history, budgets, ticks
<1>1. ASSUME NEW h \in Handlers, ReadStep(h) PROVE ShapeInv'
  <2>1. PICK op \in {"create", "patch", "resume", "approve", "reject"}, who \in People \cup {Nobody},
             edit \in Edits \cup {NoEdit} : Read(h, op, who, edit)
    BY <1>1 DEF ReadStep
  <2>2. request' \in [Handlers -> Requests \cup {Idle}]
    BY <2>1, ReadType DEF ShapeInv
  <2> QED
    BY <2>1, <2>2 DEF Read, ShapeInv
<1>2. ASSUME NEW h \in Handlers, NEW op \in {"create", "patch", "resume", "approve", "reject"},
             Done(h, op), NEW r \in Rows, Written(request[h], r)
      PROVE  ShapeInv'
  BY <1>2 DEF Written, Done, ShapeInv
<1>3. ASSUME NEW h \in Handlers, WriteCreate(h) PROVE ShapeInv'
  <2>1. request[h] \in Requests
    BY <1>3, RequestType DEF WriteCreate, Done
  <2>2. [row EXCEPT !.approval = "APPROVED", !.next = request[h].next] \in Rows /\ row \in Rows
    BY <2>1 DEF ShapeInv, Rows, Requests
  <2> QED
    BY <1>2, <1>3, <2>2 DEF WriteCreate
<1>4. ASSUME NEW h \in Handlers, WritePatch(h) PROVE ShapeInv'
  <2>1. request[h] \in Requests
    BY <1>4, RequestType DEF WritePatch, Done
  <2>2. Edited(request[h], row) \in Rows
    BY <2>1, EditedType DEF ShapeInv
  <2> QED
    BY <1>2, <1>4, <2>2 DEF WritePatch
<1>5. ASSUME NEW h \in Handlers, WriteResume(h) PROVE ShapeInv'
  <2>1. request[h] \in Requests
    BY <1>5, RequestType DEF WriteResume, Done
  <2>2. [row EXCEPT !.paused = FALSE,
                    !.next = IF request[h].row.approval = "APPROVED"
                             THEN request[h].next ELSE request[h].row.next] \in Rows
    BY <2>1 DEF ShapeInv, Rows, Requests
  <2> QED
    BY <1>2, <1>5, <2>2 DEF WriteResume
<1>6. ASSUME NEW h \in Handlers, WriteReview(h) PROVE ShapeInv'
  <2>1. request[h] \in Requests
    BY <1>6, RequestType DEF WriteReview, Done
  <2>2. /\ [row EXCEPT !.approval = "APPROVED", !.next = request[h].next] \in Rows
        /\ [row EXCEPT !.approval = "REJECTED"] \in Rows
    BY <2>1 DEF ShapeInv, Rows, Requests
  <2> QED
    BY <1>2, <1>6, <2>2 DEF WriteReview
<1>7. ASSUME NEW h \in Handlers, WriteNothing(h) PROVE ShapeInv'
  BY <1>7 DEF WriteNothing, ShapeInv
<1>8. CASE Tick
  BY <1>8 DEF Tick, ShapeInv
<1>9. CASE FlipVisibility \/ Pause \/ Delete
  BY <1>9 DEF FlipVisibility, Pause, Delete, ShapeInv, Rows
<1>10. ASSUME NEW k \in Tickers, ReadDue(k) PROVE ShapeInv'
  BY <1>10 DEF ReadDue, ShapeInv
<1>11. ASSUME NEW k \in Tickers, Decide(k) PROVE ShapeInv'
  <2>1. (now - snap[k].next > Tolerance) \in BOOLEAN
    OBVIOUS
  <2> QED
    BY <1>11, <2>1 DEF Decide, ShapeInv
<1>12. ASSUME NEW k \in Tickers, Claim(k) PROVE ShapeInv'
  <2>1. /\ snap[k] \in Rows /\ snap[k].next \in Nat
        /\ decided[k] \in [at : Nat, missed : BOOLEAN] /\ snap[k].next <= decided[k].at
    BY <1>12 DEF Claim, TicksInv
  <2>2. Claimed(k) \in Rows
    <3>1. snap[k].timing \in Timings /\ decided[k].at \in Nat
      BY <2>1 DEF Rows
    <3>2. CASE kind = "ONE_TIME"
      BY <3>2 DEF Claimed, ShapeInv, Rows
    <3>3. CASE kind # "ONE_TIME"
      <4>1. CaughtUp(snap[k].timing, snap[k].next, decided[k].at) \in Nat
        BY <2>1, <3>1, <3>3, CaughtUpForward
      <4> QED
        BY <3>3, <4>1 DEF Claimed, ShapeInv, Rows
    <3> QED
      BY <3>2, <3>3
  <2> QED
    BY <1>12, <2>1, <2>2 DEF Claim, ShapeInv
<1>13. ASSUME NEW k \in Tickers, ClaimLost(k) \/ RecordFire(k) \/ LoseTick(k) PROVE ShapeInv'
  BY <1>13 DEF ClaimLost, RecordFire, LoseTick, EndTick, ShapeInv
<1>14. CASE UNCHANGED vars
  BY <1>14 DEF vars, ShapeInv
<1> QED
  BY <1>1, <1>3, <1>4, <1>5, <1>6, <1>7, <1>8, <1>9, <1>10, <1>11, <1>12, <1>13, <1>14, ReadSteps
  DEF Next, TickStep

\* A tick carries a due row and a decision made after it was due.
LEMMA TicksStep == ShapeInv /\ TicksInv /\ [Next]_vars => TicksInv'
<1> SUFFICES ASSUME ShapeInv, TicksInv, [Next]_vars PROVE TicksInv'
  OBVIOUS
<1> USE DEF history, budgets, ticks
<1>1. ASSUME UNCHANGED <<now, ticks>> PROVE TicksInv'
  BY <1>1 DEF TicksInv
<1>2. CASE Tick
  BY <1>2 DEF Tick, TicksInv, ShapeInv, Rows
<1>3. ASSUME NEW h \in Handlers, ReadStep(h) PROVE TicksInv'
  BY <1>1, <1>3 DEF ReadStep, Read
<1>4. ASSUME NEW h \in Handlers,
             WriteCreate(h) \/ WritePatch(h) \/ WriteResume(h) \/ WriteReview(h) \/ WriteNothing(h)
      PROVE  TicksInv'
  BY <1>1, <1>4 DEF WriteCreate, WritePatch, WriteResume, WriteReview, WriteNothing, Written
<1>5. CASE FlipVisibility \/ Pause \/ Delete
  BY <1>1, <1>5 DEF FlipVisibility, Pause, Delete
<1>6. ASSUME NEW k \in Tickers, ReadDue(k) PROVE TicksInv'
  <2>1. row.next \in Nat /\ row.next <= now
    BY <1>6 DEF ReadDue, Due, Armed, ShapeInv, Rows
  <2> QED
    BY <1>6, <2>1 DEF ReadDue, TicksInv, ShapeInv
<1>7. ASSUME NEW k \in Tickers, Decide(k) PROVE TicksInv'
  <2>1. (now - snap[k].next > Tolerance) \in BOOLEAN
    OBVIOUS
  <2>2. snap[k].next \in Nat /\ snap[k].next <= now
    BY <1>7 DEF Decide, TicksInv
  <2>3. now <= now /\ now \in Nat
    BY DEF ShapeInv
  <2> QED
    BY <1>7, <2>1, <2>2, <2>3 DEF Decide, TicksInv, ShapeInv
<1>8. ASSUME NEW k \in Tickers, Claim(k) PROVE TicksInv'
  BY <1>8 DEF Claim, TicksInv, ShapeInv
<1>9. ASSUME NEW k \in Tickers, ClaimLost(k) \/ RecordFire(k) \/ LoseTick(k) PROVE TicksInv'
  BY <1>9 DEF ClaimLost, RecordFire, LoseTick, EndTick, TicksInv, ShapeInv
<1>10. CASE UNCHANGED vars
  BY <1>1, <1>10 DEF vars
<1> QED
  BY <1>2, <1>3, <1>4, <1>5, <1>6, <1>7, <1>8, <1>9, <1>10, ReadSteps DEF Next, TickStep

\* A claim leaves the row as it was but for when it fires next, and that is later
\* than the decision.
LEMMA ClaimForward ==
    ASSUME ShapeInv, TicksInv, NEW k \in Tickers, Claim(k)
    PROVE  /\ Content(row') = Content(row) /\ row'.approval = row.approval
           /\ Armed(row) /\ row.next = snap[k].next
           /\ row'.next # None => row'.next > seen'
<1>1. /\ snap[k] \in Rows /\ snap[k].next \in Nat
      /\ decided[k] \in [at : Nat, missed : BOOLEAN] /\ snap[k].next <= decided[k].at
  BY DEF Claim, TicksInv
<1>2. Armed(row) /\ row.next = snap[k].next
  BY <1>1, FiringAssumption DEF Claim, Armed
<1>3. row' = Claimed(k) /\ seen' = decided[k].at
  BY DEF Claim
<1>4. CASE kind = "ONE_TIME"
  BY <1>2, <1>3, <1>4 DEF Claimed, Content, ShapeInv, Rows
<1>5. CASE kind # "ONE_TIME"
  <2>1. snap[k].timing \in Timings /\ decided[k].at \in Nat
    BY <1>1 DEF Rows
  <2> DEFINE n == CaughtUp(snap[k].timing, snap[k].next, decided[k].at)
  <2>2. n > decided[k].at
    BY <1>1, <1>5, <2>1, CaughtUpForward
  <2>3. row' = [row EXCEPT !.next = n]
    BY <1>3, <1>5 DEF Claimed
  <2> HIDE DEF n
  <2> QED
    BY <1>2, <1>3, <2>2, <2>3 DEF Content, ShapeInv, Rows
<1> QED
  BY <1>4, <1>5

\* The next fire is later than the last decision.
LEMMA ForwardStep == ShapeInv /\ TicksInv /\ ForwardInv /\ [Next]_vars => ForwardInv'
<1> SUFFICES ASSUME ShapeInv, TicksInv, ForwardInv, [Next]_vars PROVE ForwardInv'
  OBVIOUS
<1> USE DEF history, budgets, ticks
<1>1. ASSUME row'.next = row.next, seen' = seen PROVE ForwardInv'
  BY <1>1 DEF ForwardInv, Armed
<1>2. ASSUME NEW h \in Handlers, NEW r, Written(request[h], r) PROVE ForwardInv'
  <2>1. row' \in Rows
    BY ShapeStep DEF ShapeInv
  <2>2. row'.next \in Nat \cup {None} /\ row' = r
    BY <1>2, <2>1 DEF Rows, Written
  <2>3. CASE seen' = -1
    BY <2>2, <2>3 DEF ForwardInv, Armed
  <2>4. CASE seen' # -1
    BY <1>1, <1>2, <2>2, <2>4 DEF Written
  <2> QED
    BY <2>3, <2>4
<1>3. ASSUME NEW h \in Handlers,
             WriteCreate(h) \/ WritePatch(h) \/ WriteResume(h) \/ WriteReview(h)
      PROVE  ForwardInv'
  BY <1>2, <1>3 DEF WriteCreate, WritePatch, WriteResume, WriteReview
<1>4. ASSUME NEW h \in Handlers, ReadStep(h) \/ WriteNothing(h) PROVE ForwardInv'
  BY <1>1, <1>4 DEF ReadStep, Read, WriteNothing
<1>5. CASE Tick \/ FlipVisibility \/ Delete
  BY <1>1, <1>5 DEF Tick, FlipVisibility, Delete
<1>6. CASE Pause
  BY <1>1, <1>6 DEF Pause, ShapeInv, Rows
<1>7. ASSUME NEW k \in Tickers, Claim(k) PROVE ForwardInv'
  BY <1>7, ClaimForward DEF ForwardInv, Armed
<1>8. ASSUME NEW k \in Tickers, ReadDue(k) \/ Decide(k) \/ ClaimLost(k) \/ RecordFire(k) \/ LoseTick(k)
      PROVE  ForwardInv'
  BY <1>1, <1>8 DEF ReadDue, Decide, ClaimLost, RecordFire, LoseTick
<1>9. CASE UNCHANGED vars
  BY <1>1, <1>9 DEF vars
<1> QED
  BY <1>3, <1>4, <1>5, <1>6, <1>7, <1>8, <1>9, ReadSteps DEF Next, TickStep

\* Requests are about a row that is there, and at most one creates it.
LEMMA RequestsStep == ShapeInv /\ RequestsInv /\ SingleCreate /\ [Next]_vars => (RequestsInv /\ SingleCreate)'
<1> SUFFICES ASSUME ShapeInv, RequestsInv, SingleCreate, [Next]_vars PROVE (RequestsInv /\ SingleCreate)'
  OBVIOUS
<1> USE DEF history, budgets, ticks
<1>1. ASSUME NEW h \in Handlers,
             request' = [request EXCEPT ![h] = request'[h]],
             request'[h].op = "create" => life' = "unborn" /\ \A g \in Handlers : request[g].op # "create",
             request'[h].op \in {"patch", "resume", "approve", "reject"} => life' # "unborn",
             request'[h].op \in {"approve", "reject"} => request'[h].row.approval = "PENDING",
             life' = life
      PROVE  (RequestsInv /\ SingleCreate)'
  BY <1>1 DEF RequestsInv, SingleCreate, ShapeInv
<1>2. ASSUME NEW h \in Handlers, ReadForCreate(h) PROVE (RequestsInv /\ SingleCreate)'
  <2>1. Read(h, "create", Author, NoEdit) /\ life = "unborn" /\ \A g \in Handlers : request[g].op # "create"
    BY <1>2 DEF ReadForCreate
  <2>2. /\ request'[h].op = "create"
        /\ request' = [request EXCEPT ![h] = request'[h]]
    BY <2>1, ReadType, FiringAssumption
  <2>3. life' = life
    BY <2>1 DEF Read
  <2> QED
    BY <1>1, <2>1, <2>2, <2>3
<1>3. ASSUME NEW h \in Handlers, NEW op \in {"patch", "resume", "approve", "reject"},
             NEW who \in People \cup {Nobody}, NEW edit \in Edits \cup {NoEdit},
             Read(h, op, who, edit), exists,
             op \in {"approve", "reject"} => row.approval = "PENDING"
      PROVE  (RequestsInv /\ SingleCreate)'
  <2>1. /\ request'[h].op = op /\ request'[h].row = row
        /\ request' = [request EXCEPT ![h] = request'[h]]
    BY <1>3, ReadType
  <2>2. life' = life /\ life # "unborn"
    BY <1>3 DEF Read, exists
  <2> QED
    BY <1>1, <1>3, <2>1, <2>2
<1>4. ASSUME NEW h \in Handlers, ReadForResume(h) PROVE (RequestsInv /\ SingleCreate)'
  BY <1>3, <1>4 DEF ReadForResume
<1>5. ASSUME NEW h \in Handlers, NEW who \in People, NEW edit \in Edits, ReadForPatch(h, who, edit)
      PROVE  (RequestsInv /\ SingleCreate)'
  BY <1>3, <1>5 DEF ReadForPatch
<1>6. ASSUME NEW h \in Handlers, NEW who \in People, NEW op \in {"approve", "reject"}, ReadForReview(h, who, op)
      PROVE  (RequestsInv /\ SingleCreate)'
  BY <1>3, <1>6 DEF ReadForReview
<1>7. ASSUME NEW h \in Handlers, WriteCreate(h) PROVE (RequestsInv /\ SingleCreate)'
  <2>1. request[h].op = "create" /\ request' = [request EXCEPT ![h] = Idle] /\ life' = "live"
    BY <1>7 DEF WriteCreate, Done
  <2>2. \A g \in Handlers : request'[g].op # "create"
    BY <2>1 DEF SingleCreate, ShapeInv, Idle
  <2> QED
    BY <2>1, <2>2 DEF RequestsInv, SingleCreate, ShapeInv, Idle
<1>8. ASSUME NEW h \in Handlers, WritePatch(h) \/ WriteResume(h) \/ WriteReview(h) \/ WriteNothing(h)
      PROVE  (RequestsInv /\ SingleCreate)'
  <2>1. request' = [request EXCEPT ![h] = Idle] /\ life' = life
    BY <1>8 DEF WritePatch, WriteResume, WriteReview, WriteNothing, Done
  <2> QED
    BY <2>1 DEF RequestsInv, SingleCreate, ShapeInv, Idle
<1>9. CASE Delete
  BY <1>9 DEF Delete, exists, RequestsInv, SingleCreate
<1>10. ASSUME UNCHANGED <<life, request>> PROVE (RequestsInv /\ SingleCreate)'
  BY <1>10 DEF RequestsInv, SingleCreate
<1>11. CASE Tick \/ FlipVisibility \/ Pause \/ UNCHANGED vars
  BY <1>10, <1>11 DEF Tick, FlipVisibility, Pause, vars
<1>12. ASSUME NEW k \in Tickers, TickStep(k) \/ LoseTick(k) PROVE (RequestsInv /\ SingleCreate)'
  BY <1>10, <1>12 DEF TickStep, ReadDue, Decide, Claim, ClaimLost, RecordFire, LoseTick
<1> QED
  BY <1>2, <1>4, <1>5, <1>6, <1>7, <1>8, <1>9, <1>11, <1>12 DEF Next

\* What a write that met the row it had read finds in it.
LEMMA UnracedWrite ==
    ASSUME NEW q, NEW r, Written(q, r), exists, ~raced'
    PROVE  ~raced /\ row' = r /\ Content(row) = Content(q.row) /\ row.approval = q.row.approval
  BY DEF Written

\* A schedule that is not approved stays unarmed.
LEMMA UnapprovedStep ==
    ShapeInv /\ TicksInv /\ UnapprovedUnarmed /\ RequestsInv /\ [Next]_vars => UnapprovedUnarmed'
<1> SUFFICES ASSUME ShapeInv, TicksInv, UnapprovedUnarmed, RequestsInv, [Next]_vars
             PROVE  UnapprovedUnarmed'
  OBVIOUS
<1> USE DEF history, budgets, ticks
<1>1. ASSUME NEW h \in Handlers, request' = [request EXCEPT ![h] = Idle], life' # "unborn",
             ~raced' => ~raced /\ (row'.approval # "APPROVED" => ~Armed(row'))
      PROVE  UnapprovedUnarmed'
  BY <1>1 DEF UnapprovedUnarmed, ShapeInv, Idle
<1>2. ASSUME NEW h \in Handlers, WriteCreate(h) PROVE UnapprovedUnarmed'
  <2>1. request[h].op = "create" /\ request' = [request EXCEPT ![h] = Idle] /\ life' = "live"
    BY <1>2 DEF WriteCreate, Done
  <2>2. life = "unborn" /\ row.approval = "PENDING" /\ ~Armed(row)
    BY <2>1 DEF RequestsInv, UnapprovedUnarmed
  <2>3. row'.approval # "APPROVED" => row' = row
    BY <1>2 DEF WriteCreate, Written, ShapeInv, Rows
  <2>4. ~raced' => ~raced
    BY <1>2 DEF WriteCreate, Written
  <2> QED
    BY <1>1, <2>1, <2>2, <2>3, <2>4 DEF Armed
<1>3. ASSUME NEW h \in Handlers, WritePatch(h) PROVE UnapprovedUnarmed'
  <2> DEFINE q == request[h]
  <2>1. request' = [request EXCEPT ![h] = Idle] /\ exists /\ Written(q, Edited(q, row)) /\ life' = life
    BY <1>3 DEF WritePatch, Done
  <2>2. q \in Requests
    BY <1>3, RequestType DEF WritePatch, Done
  <2>3. ASSUME ~raced' PROVE ~raced /\ (row'.approval # "APPROVED" => ~Armed(row'))
    <3>1. ~raced /\ row' = Edited(q, row) /\ row.approval = q.row.approval
      BY <2>1, <2>3, UnracedWrite
    <3>2. row.approval # "APPROVED" => row.next = None
      BY <3>1 DEF UnapprovedUnarmed, Armed
    <3>3. q.shared \in BOOLEAN /\ row \in Rows
      BY <2>2 DEF Requests, ShapeInv
    <3> HIDE DEF q
    <3>4. CASE q.row.approval # "APPROVED"
      BY <2>2, <3>1, <3>2, <3>3, <3>4, EditedType DEF Armed
    <3>5. CASE q.row.approval = "APPROVED" /\ q.shared
      BY <2>2, <3>1, <3>3, <3>5, EditedType DEF Armed
    <3>6. CASE q.row.approval = "APPROVED" /\ ~q.shared
      BY <2>2, <3>1, <3>3, <3>6, EditedType
    <3> QED
      BY <3>1, <3>3, <3>4, <3>5, <3>6
  <2> QED
    BY <1>1, <2>1, <2>3 DEF exists
<1>4. ASSUME NEW h \in Handlers, WriteResume(h) PROVE UnapprovedUnarmed'
  <2> DEFINE q == request[h]
             r == [row EXCEPT !.paused = FALSE,
                              !.next = IF q.row.approval = "APPROVED" THEN q.next ELSE q.row.next]
  <2>1. /\ q.op = "resume" /\ request' = [request EXCEPT ![h] = Idle]
        /\ exists /\ Written(q, r) /\ life' = life
    BY <1>4 DEF WriteResume, Done
  <2>2. r.approval = row.approval /\ (q.row.approval # "APPROVED" => r.next = q.row.next)
    BY DEF ShapeInv, Rows
  <2> HIDE DEF r
  <2>3. ASSUME ~raced' PROVE ~raced /\ (row'.approval # "APPROVED" => ~Armed(row'))
    <3>1. ~raced /\ row' = r /\ row.approval = q.row.approval
      BY <2>1, <2>3, UnracedWrite
    <3>2. q.row.approval # "APPROVED" => ~Armed(q.row)
      BY <2>1, <3>1 DEF UnapprovedUnarmed
    <3> QED
      BY <2>2, <3>1, <3>2 DEF Armed
  <2> QED
    BY <1>1, <2>1, <2>3 DEF exists
<1>5. ASSUME NEW h \in Handlers, WriteReview(h) PROVE UnapprovedUnarmed'
  <2> DEFINE q == request[h]
  <2>1. request' = [request EXCEPT ![h] = Idle] /\ exists /\ life' = life
    BY <1>5 DEF WriteReview, Done
  <2>2. CASE q.op = "approve"
    <3>1. row' = [row EXCEPT !.approval = "APPROVED", !.next = q.next] /\ (~raced' => ~raced)
      BY <1>5, <2>2 DEF WriteReview, Written, Done
    <3>2. row'.approval = "APPROVED"
      BY <3>1 DEF ShapeInv, Rows
    <3> QED
      BY <1>1, <2>1, <3>1, <3>2 DEF exists
  <2>3. CASE q.op = "reject"
    <3>1. Written(q, [row EXCEPT !.approval = "REJECTED"])
      BY <1>5, <2>3 DEF WriteReview, Done
    <3>2. row'.next = row.next
      BY <3>1 DEF Written, ShapeInv, Rows
    <3>3. ASSUME ~raced' PROVE ~raced /\ ~Armed(row')
      <4>1. ~raced /\ row.approval = q.row.approval
        BY <2>1, <3>1, <3>3, UnracedWrite
      <4>2. q.row.approval = "PENDING"
        BY <2>3 DEF RequestsInv
      <4> QED
        BY <3>2, <4>1, <4>2 DEF UnapprovedUnarmed, Armed
    <3> QED
      BY <1>1, <2>1, <3>3 DEF exists
  <2> QED
    BY <1>5, <2>2, <2>3 DEF WriteReview, Done
<1>6. ASSUME NEW h \in Handlers, WriteNothing(h) PROVE UnapprovedUnarmed'
  BY <1>1, <1>6 DEF WriteNothing, exists, UnapprovedUnarmed, ShapeInv, Idle
<1>7. ASSUME NEW h \in Handlers, ReadStep(h) PROVE UnapprovedUnarmed'
  <2>1. PICK op \in {"create", "patch", "resume", "approve", "reject"}, who \in People \cup {Nobody},
             edit \in Edits \cup {NoEdit} : Read(h, op, who, edit)
    BY <1>7 DEF ReadStep
  <2>2. request'[h].row = row /\ request' = [request EXCEPT ![h] = request'[h]]
    BY <2>1, ReadType
  <2>3. UNCHANGED <<life, row, raced>>
    BY <2>1 DEF Read
  <2> QED
    BY <2>2, <2>3 DEF UnapprovedUnarmed, Armed, ShapeInv
<1>8. ASSUME NEW k \in Tickers, Claim(k) PROVE UnapprovedUnarmed'
  <2>1. Armed(row) /\ row'.approval = row.approval
    BY <1>8, ClaimForward
  <2>2. UNCHANGED <<life, request, raced>> /\ exists
    BY <1>8 DEF Claim
  <2> QED
    BY <2>1, <2>2 DEF UnapprovedUnarmed, exists, Armed
<1>9. CASE Pause
  <2>1. row'.approval = row.approval /\ row'.next = row.next
    BY <1>9 DEF Pause, ShapeInv, Rows
  <2> QED
    BY <1>9, <2>1 DEF Pause, exists, UnapprovedUnarmed, Armed
<1>10. CASE Delete
  BY <1>10 DEF Delete, exists, UnapprovedUnarmed, Armed
<1>11. ASSUME UNCHANGED <<life, row, request, raced>> PROVE UnapprovedUnarmed'
  BY <1>11 DEF UnapprovedUnarmed, Armed
<1>12. CASE Tick \/ FlipVisibility \/ UNCHANGED vars
  BY <1>11, <1>12 DEF Tick, FlipVisibility, vars
<1>13. ASSUME NEW k \in Tickers, ReadDue(k) \/ Decide(k) \/ ClaimLost(k) \/ RecordFire(k) \/ LoseTick(k)
       PROVE  UnapprovedUnarmed'
  BY <1>11, <1>13 DEF ReadDue, Decide, ClaimLost, RecordFire, LoseTick
<1> QED
  BY <1>2, <1>3, <1>4, <1>5, <1>6, <1>7, <1>8, <1>9, <1>10, <1>12, <1>13, ReadSteps DEF Next, TickStep

\* Approved content is the content that was approved.
LEMMA ReviewedStep ==
    ShapeInv /\ TicksInv /\ RequestsInv /\ ApprovedAsReviewed /\ [Next]_vars => ApprovedAsReviewed'
<1> SUFFICES ASSUME ShapeInv, TicksInv, RequestsInv, ApprovedAsReviewed, [Next]_vars
             PROVE  ApprovedAsReviewed'
  OBVIOUS
<1> USE DEF history, budgets, ticks
<1>1. ASSUME Content(row') = Content(row), row'.approval = row.approval, UNCHANGED <<vetted, raced>>,
             exists' => exists
      PROVE  ApprovedAsReviewed'
  BY <1>1 DEF ApprovedAsReviewed, Content
<1>2. ASSUME NEW h \in Handlers, WriteCreate(h) PROVE ApprovedAsReviewed'
  <2>1. vetted' = Content(row) /\ Content(row') = Content(row)
    BY <1>2 DEF WriteCreate, Written, Content, ShapeInv, Rows
  <2> QED
    BY <2>1 DEF ApprovedAsReviewed, Content
<1>3. ASSUME NEW h \in Handlers, WritePatch(h) PROVE ApprovedAsReviewed'
  <2> DEFINE q == request[h]
  <2>1. /\ exists /\ Written(q, Edited(q, row))
        /\ vetted' = IF q.row.approval = "APPROVED" /\ ~q.shared THEN Content(row') ELSE vetted
    BY <1>3 DEF WritePatch
  <2>2. q \in Requests /\ q.shared \in BOOLEAN /\ row \in Rows
    BY <1>3, RequestType DEF WritePatch, Done, Requests, ShapeInv
  <2> HIDE DEF q
  <2>3. ASSUME ~raced', row'.approval = "APPROVED" PROVE Content(row') = vetted'
    <3>1. row' = Edited(q, row) /\ row.approval = q.row.approval
      BY <2>1, <2>3, UnracedWrite
    <3>2. q.row.approval = "APPROVED" /\ ~q.shared
      BY <2>2, <2>3, <3>1, EditedType
    <3> QED
      BY <2>1, <3>2
  <2> QED
    BY <2>3 DEF ApprovedAsReviewed, Content
<1>4. ASSUME NEW h \in Handlers, WriteResume(h) PROVE ApprovedAsReviewed'
  <2>1. Content(row') = Content(row) /\ row'.approval = row.approval
    BY <1>4 DEF WriteResume, Written, Content, ShapeInv, Rows
  <2>2. exists /\ vetted' = vetted /\ (~raced' => ~raced)
    BY <1>4 DEF WriteResume, Written
  <2> QED
    BY <2>1, <2>2 DEF ApprovedAsReviewed, Content
<1>5. ASSUME NEW h \in Handlers, WriteReview(h) PROVE ApprovedAsReviewed'
  <2> DEFINE q == request[h]
  <2>1. CASE q.op = "approve"
    <3>1. /\ exists /\ vetted' = Content(q.row)
          /\ Written(q, [row EXCEPT !.approval = "APPROVED", !.next = q.next])
      BY <1>5, <2>1 DEF WriteReview, Done
    <3>2. Content(row') = Content(row)
      BY <3>1 DEF Written, Content, ShapeInv, Rows
    <3>3. ~raced' => Content(row) = Content(q.row)
      BY <3>1 DEF Written
    <3> QED
      BY <3>1, <3>2, <3>3 DEF ApprovedAsReviewed, Content
  <2>2. CASE q.op = "reject"
    <3>1. row' = [row EXCEPT !.approval = "REJECTED"]
      BY <1>5, <2>2 DEF WriteReview, Written, Done
    <3>2. row'.approval # "APPROVED"
      BY <3>1 DEF ShapeInv, Rows
    <3> QED
      BY <3>2 DEF ApprovedAsReviewed
  <2> QED
    BY <1>5, <2>1, <2>2 DEF WriteReview, Done
<1>6. ASSUME NEW h \in Handlers, ReadStep(h) \/ WriteNothing(h) PROVE ApprovedAsReviewed'
  BY <1>1, <1>6 DEF ReadStep, Read, WriteNothing, exists, Content
<1>7. ASSUME NEW k \in Tickers, Claim(k) PROVE ApprovedAsReviewed'
  <2>1. Content(row') = Content(row) /\ row'.approval = row.approval
    BY <1>7, ClaimForward
  <2> QED
    BY <1>1, <1>7, <2>1 DEF Claim, exists
<1>8. CASE Pause
  <2>1. Content(row') = Content(row) /\ row'.approval = row.approval
    BY <1>8 DEF Pause, Content, ShapeInv, Rows
  <2> QED
    BY <1>1, <1>8, <2>1 DEF Pause, exists
<1>9. CASE Delete
  BY <1>9 DEF Delete, exists, ApprovedAsReviewed
<1>10. CASE Tick \/ FlipVisibility \/ UNCHANGED vars
  BY <1>1, <1>10 DEF Tick, FlipVisibility, vars, exists, Content
<1>11. ASSUME NEW k \in Tickers, ReadDue(k) \/ Decide(k) \/ ClaimLost(k) \/ RecordFire(k) \/ LoseTick(k)
       PROVE  ApprovedAsReviewed'
  BY <1>1, <1>11 DEF ReadDue, Decide, ClaimLost, RecordFire, LoseTick, exists, Content
<1> QED
  BY <1>2, <1>3, <1>4, <1>5, <1>6, <1>7, <1>8, <1>9, <1>10, <1>11, ReadSteps DEF Next, TickStep

\* Initially there is no schedule.
LEMMA FiringInit == Init => FiringInv
<1> SUFFICES ASSUME Init PROVE FiringInv
  OBVIOUS
<1>1. PICK t \in Timings, p \in Pins : row = Fresh(t, p)
  BY DEF Init
<1>2. row \in Rows /\ row.approval = "PENDING" /\ row.next = None
  BY <1>1 DEF Fresh, Rows
<1>3. /\ now \in Nat /\ kind \in {"ONE_TIME", "EVERY", "ALIGNED"} /\ shared \in BOOLEAN
  BY DEF Init
<1>8. seen \in Int
  BY DEF Init
<1>9. raced \in BOOLEAN
  BY Zenon DEF Init
<1>4. /\ request \in [Handlers -> Requests \cup {Idle}]
      /\ stage \in [Tickers -> {"idle", "due", "claim", "record"}]
  BY DEF Init
<1>5. /\ snap \in [Tickers -> Rows \cup {None}]
      /\ decided \in [Tickers -> [at : Nat, missed : BOOLEAN] \cup {None}]
  BY DEF Init
<1>6. TicksInv /\ ForwardInv
  BY <1>2 DEF Init, TicksInv, ForwardInv, Armed
<1>7. UnapprovedUnarmed /\ RequestsInv /\ SingleCreate /\ ApprovedAsReviewed
  BY <1>2 DEF Init, UnapprovedUnarmed, RequestsInv, SingleCreate, ApprovedAsReviewed, Armed, Idle
<1> QED
  BY <1>2, <1>3, <1>4, <1>5, <1>6, <1>7, <1>8, <1>9 DEF FiringInv, ShapeInv

LEMMA FiringStep == FiringInv /\ [Next]_vars => FiringInv'
  BY ShapeStep, TicksStep, ForwardStep, UnapprovedStep, RequestsStep, ReviewedStep DEF FiringInv

\* The invariant behind the firing and review of a schedule holds throughout, for
\* any number of replicas and requests.
THEOREM FiringInvariance == Spec => []FiringInv
  BY FiringInit, FiringStep, PTL DEF Spec

-----------------------------------------------------------------------------
(* Properties *)

\* Only the action Claim claims.
LEMMA ClaimsByClaim ==
    ASSUME ShapeInv, NEW k \in Tickers, [Next]_vars, Claims(k)
    PROVE  Claim(k)
<1> USE DEF ticks
<1>1. stage[k] = "claim" /\ stage'[k] = "record" /\ stage \in [Tickers -> {"idle", "due", "claim", "record"}]
  BY DEF Claims, ShapeInv
<1>2. ASSUME UNCHANGED stage PROVE FALSE
  BY <1>1, <1>2
<1>3. PICK j \in Tickers : TickStep(j) \/ LoseTick(j)
  <2>1. ASSUME UNCHANGED vars \/ Tick \/ FlipVisibility \/ Pause \/ Delete PROVE FALSE
    BY <1>2, <2>1 DEF vars, Tick, FlipVisibility, Pause, Delete
  <2>2. ASSUME NEW h \in Handlers, ReadForCreate(h) \/ ReadForResume(h) PROVE FALSE
    BY <1>2, <2>2 DEF ReadForCreate, ReadForResume, Read
  <2>3. ASSUME NEW h \in Handlers, NEW who \in People, NEW edit \in Edits, ReadForPatch(h, who, edit) PROVE FALSE
    BY <1>2, <2>3 DEF ReadForPatch, Read
  <2>4. ASSUME NEW h \in Handlers, NEW who \in People, NEW op \in {"approve", "reject"},
               ReadForReview(h, who, op)
        PROVE  FALSE
    BY <1>2, <2>4 DEF ReadForReview, Read
  <2>5. ASSUME NEW h \in Handlers,
               WriteCreate(h) \/ WritePatch(h) \/ WriteResume(h) \/ WriteReview(h) \/ WriteNothing(h)
        PROVE  FALSE
    BY <1>2, <2>5 DEF WriteCreate, WritePatch, WriteResume, WriteReview, WriteNothing, Written
  <2> QED
    BY <2>1, <2>2, <2>3, <2>4, <2>5 DEF Next
<1> QED
  BY <1>1, <1>3 DEF TickStep, LoseTick, ReadDue, Decide, Claim, ClaimLost, RecordFire, EndTick

\* The fires of a schedule go forward between two arming writes of the API: no
\* time fires twice and an outage leaves no backlog (scheduler.ts:9, 61).
THEOREM FiresForward == Spec => FiresMoveForward
<1>1. ASSUME FiringInv, NEW k \in Tickers, [Next]_vars, Claims(k) PROVE snap[k].next > seen
  <2>1. Armed(row) /\ row.next = snap[k].next
    BY <1>1, ClaimsByClaim, ClaimForward DEF FiringInv
  <2> QED
    BY <1>1, <2>1 DEF FiringInv, ForwardInv
<1>2. FiringInv /\ [Next]_vars => [\A k \in Tickers : Claims(k) => snap[k].next > seen]_vars
  BY <1>1
<1> QED
  BY <1>2, FiringInvariance, PTL DEF Spec, FiresMoveForward

\* A fire is claimed only while the schedule is approved, although the claim does
\* not look at the approval (scheduler.ts:78), overwriting handlers aside.
THEOREM FiresApproved == Spec => FiresOnlyApproved
<1>1. ASSUME FiringInv, NEW k \in Tickers, [Next]_vars, Claims(k) PROVE row.approval = "APPROVED" \/ raced
  <2>1. Armed(row)
    BY <1>1, ClaimsByClaim, ClaimForward DEF FiringInv
  <2> QED
    BY <2>1, <1>1 DEF FiringInv, UnapprovedUnarmed
<1>2. FiringInv /\ [Next]_vars => [\A k \in Tickers : Claims(k) => row.approval = "APPROVED" \/ raced]_vars
  BY <1>1
<1> QED
  BY <1>2, FiringInvariance, PTL DEF Spec, FiresOnlyApproved

\* What is approved is what was reviewed, or needed no review (schedules.ts:185),
\* overwriting handlers aside.
THEOREM ReviewedHolds == Spec => []ApprovedAsReviewed
<1>1. FiringInv => ApprovedAsReviewed
  BY DEF FiringInv
<1> QED
  BY <1>1, FiringInvariance, PTL

\* The bounded quantities of TypeOK that FiringInv leaves out.
LEMMA TypeStep == FiringInv /\ TypeOK /\ FiringInv' /\ [Next]_vars => TypeOK'
<1> SUFFICES ASSUME FiringInv, TypeOK, FiringInv', [Next]_vars PROVE TypeOK'
  OBVIOUS
<1> USE DEF history, budgets, ticks
<1> DEFINE Counted == /\ now \in 0..MaxTime /\ life \in {"unborn", "live", "deleted"}
                      /\ runs \in [{"PENDING", "SKIPPED"} -> Nat] /\ claims \in Nat
                      /\ seen \in -1..MaxTime
                      /\ editor \in People \cup {Nobody}
                      /\ requests \in 0..MaxRequests /\ losses \in 0..MaxLosses
<1>1. Counted
  BY DEF TypeOK
<1>2. MaxTime \in Nat /\ MaxRequests \in Nat /\ MaxLosses \in Nat
  BY FiringAssumption
<1>3. ASSUME NEW h \in Handlers, ReadStep(h) PROVE Counted'
  BY <1>1, <1>2, <1>3 DEF ReadStep, Read
<1>4. ASSUME NEW h \in Handlers,
             WriteCreate(h) \/ WritePatch(h) \/ WriteResume(h) \/ WriteReview(h) \/ WriteNothing(h)
      PROVE  Counted'
  <2>1. request[h].op # "none"
    BY <1>4 DEF WriteCreate, WritePatch, WriteResume, WriteReview, WriteNothing, Done
  <2>2. request[h].who \in People \cup {Nobody}
    BY <2>1, RequestType DEF FiringInv, Requests
  <2> QED
    BY <1>1, <1>2, <1>4, <2>2 DEF WriteCreate, WritePatch, WriteResume, WriteReview, WriteNothing, Written
<1>5. ASSUME Tick \/ FlipVisibility \/ Pause \/ Delete PROVE Counted'
  BY <1>1, <1>2, <1>5 DEF Tick, FlipVisibility, Pause, Delete
<1>6. ASSUME NEW k \in Tickers, Claim(k) PROVE Counted'
  <2>1. decided[k].at \in Nat /\ decided[k].at <= now
    BY <1>6 DEF Claim, FiringInv, TicksInv
  <2> QED
    BY <1>1, <1>2, <1>6, <2>1 DEF Claim
<1>7. ASSUME NEW k \in Tickers, RecordFire(k) PROVE Counted'
  <2>1. /\ Recorded("PENDING") \in [{"PENDING", "SKIPPED"} -> Nat]
        /\ Recorded("SKIPPED") \in [{"PENDING", "SKIPPED"} -> Nat]
    BY <1>1 DEF Recorded
  <2> QED
    BY <1>1, <1>7, <2>1 DEF RecordFire
<1>8. ASSUME NEW k \in Tickers, ReadDue(k) \/ Decide(k) \/ ClaimLost(k) \/ LoseTick(k) PROVE Counted'
  BY <1>1, <1>2, <1>8 DEF ReadDue, Decide, ClaimLost, LoseTick
<1>9. ASSUME UNCHANGED vars PROVE Counted'
  BY <1>1, <1>9 DEF vars
<1> HIDE DEF Counted
<1>10. Counted'
  BY <1>3, <1>4, <1>5, <1>6, <1>7, <1>8, <1>9, ReadSteps DEF Next, TickStep
<1>11. \A h \in Handlers : request'[h].op \in {"none", "create", "patch", "resume", "approve", "reject"}
  BY DEF FiringInv, ShapeInv, Requests, Idle
<1>12. \A k \in Tickers : /\ stage'[k] \in {"idle", "due", "claim", "record"}
                          /\ stage'[k] # "idle" => Armed(snap'[k])
  BY FiringAssumption DEF FiringInv, ShapeInv, TicksInv, Armed
<1>13. /\ kind' \in {"ONE_TIME", "EVERY", "ALIGNED"}
       /\ {shared', raced'} \subseteq BOOLEAN
       /\ row'.timing \in Timings /\ row'.pin \in Pins /\ row'.paused \in BOOLEAN
       /\ row'.approval \in {"PENDING", "APPROVED", "REJECTED"}
       /\ row'.next \in Nat \cup {None}
  BY DEF FiringInv, ShapeInv, Rows
<1> QED
  BY <1>10, <1>11, <1>12, <1>13 DEF TypeOK, Armed, Counted

\* Every variable keeps its type.
THEOREM FiringTypeCorrect == Spec => []TypeOK
<1>1. Init => TypeOK
  <2> SUFFICES ASSUME Init PROVE TypeOK
    OBVIOUS
  <2>1. FiringInv
    BY FiringInit
  <2>2. /\ row.timing \in Timings /\ row.pin \in Pins /\ row.paused \in BOOLEAN
        /\ row.approval \in {"PENDING", "APPROVED", "REJECTED"}
        /\ row.next \in Nat \cup {None}
        /\ kind \in {"ONE_TIME", "EVERY", "ALIGNED"}
    BY <2>1 DEF FiringInv, ShapeInv, Rows
  <2>3. {shared, raced} \subseteq BOOLEAN
    BY <2>1 DEF FiringInv, ShapeInv
  <2>4. /\ now \in 0..MaxTime /\ seen \in -1..MaxTime
        /\ requests \in 0..MaxRequests /\ losses \in 0..MaxLosses
    BY FiringAssumption DEF Init
  <2>5. /\ life = "unborn" /\ editor = Nobody /\ claims = 0
        /\ runs \in [{"PENDING", "SKIPPED"} -> Nat]
        /\ \A h \in Handlers : request[h].op = "none"
        /\ \A k \in Tickers : stage[k] = "idle"
    BY DEF Init, Idle
  <2> QED
    BY <2>2, <2>3, <2>4, <2>5 DEF TypeOK
<1>2. FiringInv /\ TypeOK /\ [Next]_vars => (FiringInv /\ TypeOK)'
  BY FiringStep, TypeStep
<1> QED
  BY <1>1, <1>2, FiringInit, PTL DEF Spec

-----------------------------------------------------------------------------
\* A step that neither claims, records nor loses a tick, and creates no schedule.
LEMMA NothingCounted ==
    ASSUME AccountInv, UNCHANGED <<runs, claims, losses>>, Recording' = Recording,
           exists' => exists, life' = "unborn" => life = "unborn" /\ \A k \in Tickers : stage'[k] = "idle"
    PROVE  AccountInv'
BY DEF AccountInv, FiresAccounted, Recording, exists

LEMMA AccountStep == FiringInv /\ TypeOK /\ AccountInv /\ [Next]_vars => AccountInv'
<1> SUFFICES ASSUME FiringInv, TypeOK, AccountInv, [Next]_vars PROVE AccountInv'
  OBVIOUS
<1> USE DEF history, budgets, ticks, exists
<1>1. /\ stage \in [Tickers -> {"idle", "due", "claim", "record"}]
      /\ runs \in [{"PENDING", "SKIPPED"} -> Nat] /\ claims \in Nat /\ losses \in Nat
      /\ IsFiniteSet(Recording) /\ Cardinality(Recording) \in Nat
  BY FS_CardinalityType DEF FiringInv, ShapeInv, TypeOK, AccountInv
<1>2. ASSUME UNCHANGED <<stage, runs, claims, losses>>, exists' => exists, life' = "unborn" => life = "unborn"
      PROVE  AccountInv'
  BY <1>2, NothingCounted DEF AccountInv, Recording
<1>3. ASSUME NEW h \in Handlers, ReadStep(h) PROVE AccountInv'
  BY <1>2, <1>3 DEF ReadStep, Read
<1>4. ASSUME NEW h \in Handlers, WriteCreate(h) PROVE AccountInv'
  <2>1. life = "unborn"
    BY <1>4 DEF WriteCreate, Done, FiringInv, RequestsInv
  <2>2. claims = 0 /\ runs["PENDING"] = 0 /\ runs["SKIPPED"] = 0 /\ Recording = {}
    BY <2>1 DEF AccountInv, Recording
  <2>3. UNCHANGED <<stage, runs, claims, losses>> /\ life' = "live"
    BY <1>4 DEF WriteCreate, Written
  <2>4. Recording' = Recording
    BY <2>3 DEF Recording
  <2> QED
    BY <1>1, <2>2, <2>3, <2>4, FS_EmptySet DEF AccountInv, FiresAccounted, Recording
<1>5. ASSUME NEW h \in Handlers, WritePatch(h) \/ WriteResume(h) \/ WriteReview(h) \/ WriteNothing(h)
      PROVE  AccountInv'
  BY <1>2, <1>5 DEF WritePatch, WriteResume, WriteReview, WriteNothing, Written
<1>6. ASSUME Tick \/ FlipVisibility \/ Pause \/ Delete PROVE AccountInv'
  BY <1>2, <1>6 DEF Tick, FlipVisibility, Pause, Delete
<1>7. ASSUME NEW k \in Tickers, ReadDue(k) \/ Decide(k) \/ ClaimLost(k) PROVE AccountInv'
  <2>1. UNCHANGED <<runs, claims, losses, life>>
    BY <1>7 DEF ReadDue, Decide, ClaimLost
  <2>2. \E s \in {"idle", "due", "claim"} : stage' = [stage EXCEPT ![k] = s]
    BY <1>7 DEF ReadDue, Decide, ClaimLost, EndTick
  <2>3. Recording' = Recording
    BY <1>1, <1>7, <2>2 DEF Recording, ReadDue, Decide, ClaimLost
  <2>4. life # "unborn"
    BY <1>7 DEF AccountInv, ReadDue, Decide, ClaimLost, Due
  <2> QED
    BY <2>1, <2>3, <2>4, NothingCounted
<1>8. ASSUME NEW k \in Tickers, Claim(k) PROVE AccountInv'
  <2>1. stage[k] = "claim" /\ stage' = [stage EXCEPT ![k] = "record"] /\ claims' = claims + 1
        /\ UNCHANGED <<runs, losses, life>> /\ exists
    BY <1>8 DEF Claim
  <2>2. k \notin Recording /\ Recording' = Recording \cup {k}
    BY <1>1, <2>1 DEF Recording
  <2>3. IsFiniteSet(Recording') /\ Cardinality(Recording') = Cardinality(Recording) + 1
    BY <1>1, <2>2, FS_AddElement
  <2> QED
    BY <1>1, <2>1, <2>3 DEF AccountInv, FiresAccounted, Recording
<1>9. ASSUME NEW k \in Tickers, RecordFire(k) PROVE AccountInv'
  <2>1. stage[k] = "record" /\ stage' = [stage EXCEPT ![k] = "idle"] /\ UNCHANGED <<claims, losses, life>>
    BY <1>9 DEF RecordFire, EndTick
  <2>2. k \in Recording /\ Recording' = Recording \ {k}
    BY <1>1, <2>1 DEF Recording
  <2>3. IsFiniteSet(Recording') /\ Cardinality(Recording') = Cardinality(Recording) - 1
    BY <1>1, <2>2, FS_RemoveElement
  <2>4. exists => runs'["PENDING"] + runs'["SKIPPED"] = runs["PENDING"] + runs["SKIPPED"] + 1
    BY <1>1, <1>9 DEF RecordFire, Recorded
  <2>5. life # "unborn"
    BY <2>1 DEF AccountInv
  <2>6. runs' \in [{"PENDING", "SKIPPED"} -> Nat]
    BY <1>1, <1>9 DEF RecordFire, Recorded
  <2> QED
    BY <1>1, <2>1, <2>3, <2>4, <2>5, <2>6 DEF AccountInv, FiresAccounted, Recording
<1>10. ASSUME NEW k \in Tickers, LoseTick(k) PROVE AccountInv'
  <2>1. stage[k] # "idle" /\ stage' = [stage EXCEPT ![k] = "idle"] /\ losses' = losses + 1 /\ UNCHANGED life
    BY <1>10 DEF LoseTick, EndTick
  <2>2. Recording' \subseteq Recording /\ IsFiniteSet(Recording')
    BY <1>1, <2>1, FS_Subset DEF Recording
  <2> QED
    BY <1>1, <2>1, <2>2 DEF AccountInv, FiresAccounted
<1>11. CASE UNCHANGED vars
  BY <1>2, <1>11 DEF vars
<1> QED
  BY <1>3, <1>4, <1>5, <1>6, <1>7, <1>8, <1>9, <1>10, <1>11, ReadSteps DEF Next, TickStep

\* Every claimed fire leaves one Run, unless a tick was lost between its claim and
\* the creation, for any number of replicas (scheduler.ts:86).
THEOREM FiresAreAccounted == Spec => []FiresAccounted
<1>1. Init => AccountInv
  <2> SUFFICES ASSUME Init PROVE AccountInv
    OBVIOUS
  <2>1. Recording = {}
    BY DEF Init, Recording
  <2> QED
    BY <2>1, FS_EmptySet DEF Init, AccountInv, FiresAccounted, Recording, exists
<1>2. FiringInv /\ TypeOK /\ AccountInv /\ [Next]_vars => AccountInv'
  BY AccountStep
<1>3. AccountInv => FiresAccounted
  BY DEF AccountInv
<1> QED
  BY <1>1, <1>2, <1>3, FiringInvariance, FiringTypeCorrect, PTL DEF Spec
=============================================================================
