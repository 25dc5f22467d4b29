------------------------- MODULE ScheduleInvariants -------------------------
(***************************************************************************)
(* The inductive invariant behind the safety properties of ScheduleFiring: *)
(* what an armed row says, and what a handler in progress may still write. *)
(***************************************************************************)
EXTENDS ScheduleFiring

Rows == [timing : Timings, pin : Pins, paused : BOOLEAN,
         approval : {"PENDING", "APPROVED", "REJECTED"}, next : Nat \cup {None}]
Requests ==
    [op : {"create", "patch", "resume", "approve", "reject"}, who : People \cup {Nobody},
     edit : Edits \cup {NoEdit}, row : Rows, shared : BOOLEAN, next : Nat]

\* The types of the row, of requests in progress and of ticks.
ShapeInv ==
    /\ now \in Nat
    /\ kind \in {"ONE_TIME", "EVERY", "ALIGNED"}
    /\ row \in Rows /\ shared \in BOOLEAN
    /\ request \in [Handlers -> Requests \cup {Idle}]
    /\ stage \in [Tickers -> {"idle", "due", "claim", "record"}]
    /\ snap \in [Tickers -> Rows \cup {None}]
    /\ decided \in [Tickers -> [at : Nat, missed : BOOLEAN] \cup {None}]
    /\ seen \in Int
    /\ raced \in BOOLEAN

\* A tick that is on its way carries a due row, and a decision once it made one,
\* which is not earlier than the fire and not in the future.
TicksInv ==
    \A k \in Tickers :
        /\ stage[k] # "idle" => /\ snap[k] \in Rows /\ snap[k].next \in Nat /\ snap[k].next <= now
        /\ stage[k] \in {"claim", "record"} =>
              /\ decided[k] \in [at : Nat, missed : BOOLEAN]
              /\ snap[k].next <= decided[k].at /\ decided[k].at <= now

\* The next fire is later than the last decision: CaughtUp went past it.
ForwardInv == Armed(row) => row.next > seen

\* A schedule that is not approved is not armed, and no handler is about to arm it.
UnapprovedUnarmed ==
    /\ life = "unborn" => row.approval = "PENDING" /\ ~Armed(row)
    /\ ~raced => /\ row.approval # "APPROVED" => ~Armed(row)
                 /\ \A h \in Handlers :
                       request[h].op = "resume" /\ request[h].row.approval # "APPROVED" => ~Armed(request[h].row)

\* A review in progress is about a schedule that was pending, an edit of or a
\* resumption about one that existed, a creation about one that does not.
RequestsInv ==
    \A h \in Handlers :
        /\ request[h].op \in {"approve", "reject"} => request[h].row.approval = "PENDING"
        /\ request[h].op = "create" => life = "unborn"
        /\ request[h].op \in {"patch", "resume", "approve", "reject"} => life # "unborn"

SingleCreate ==
    \A g, h \in Handlers : request[g].op = "create" /\ request[h].op = "create" => g = h

\* Ticks between their claim and the Run they have yet to create are finitely many,
\* and there are none before the schedule exists.
Recording == {k \in Tickers : stage[k] = "record"}
AccountInv ==
    /\ IsFiniteSet(Recording)
    /\ life = "unborn" => /\ claims = 0 /\ runs["PENDING"] = 0 /\ runs["SKIPPED"] = 0
                          /\ \A k \in Tickers : stage[k] = "idle"
    /\ FiresAccounted

FiringInv ==
    /\ ShapeInv
    /\ TicksInv
    /\ ForwardInv
    /\ UnapprovedUnarmed
    /\ RequestsInv
    /\ SingleCreate
    /\ ApprovedAsReviewed
=============================================================================
