---------------------------- MODULE RunInvariants ----------------------------
(***************************************************************************)
(* The inductive invariant behind the safety properties of RunLifecycle.   *)
(* None of those properties is inductive: each holds because, for a run    *)
(* that is still inside the contract, the queue's lock keeps a single lane *)
(* on it (LockInv), and where that lane is decides what the row, the slot, *)
(* the cancel request and the counters can be.                             *)
(***************************************************************************)
EXTENDS RunLifecycle

\* A locked job is active and its owner is on that run; a lane on an undisturbed
\* run owns its lock, so no second lane is on it.
LockInv ==
    /\ \A r \in Runs : lock[r] # NoLane => job[r] = "active" /\ cur[lock[r]] = r
    /\ \A p \in Lanes : cur[p] \in Runs \ tainted => lock[cur[p]] = p

\* Nothing refers to a run that was not created.
CreatedInv ==
    /\ \A r \in Runs : status[r] = "ABSENT" <=> origin[r] = "none"
    /\ \A r \in Runs : job[r] # "none" => origin[r] = "queued"
    /\ \A p \in Lanes : cur[p] \in Runs => job[cur[p]] # "none"
    /\ \A k \in Reapers, r \in Runs, s \in {"RUNNING", "PENDING"} :
          <<r, s>> \in todo[k] => status[r] # "ABSENT"
    /\ \A k \in Reapers : reaping[k] # NoRun => reaping[k] \in tainted
    /\ \A r \in tainted : status[r] # "ABSENT"

\* Where the lane of an undisturbed run is, and what its row says.
PhaseInv ==
    \A p \in Lanes : cur[p] \in Runs \ tainted =>
        /\ pc[p] \in {"check", "honour", "acquire", "start", "catch"}
              => status[cur[p]] \in {"PENDING", "RUNNING"}
        /\ pc[p] \in Bounded \ {"catch"} => status[cur[p]] = "RUNNING"
        /\ pc[p] \in {"agent", "succeed"} \/ (pc[p] = "clear" /\ err[p] = "none") => calls[cur[p]] > 0
        /\ pc[p] \in {"tell", "tellQueued"} => Terminal(cur[p])

\* An undisturbed run that executes holds its slot ...
ExecutingHoldsSlot ==
    \A p \in Lanes : cur[p] \in Runs \ tainted /\ pc[p] \in Executing => cur[p] \in slots

\* ... and slots respect the limit.
SlotsWithinLimit == \A u \in Users : Cardinality(SlotsOf(u)) <= UserLimit

\* Terminal side effects are delivered after the end and once ...
ToldOnce ==
    \A r \in Runs \ tainted :
        /\ told[r] <= 1
        /\ ~Terminal(r) => told[r] = 0
        /\ \A p \in Lanes : cur[p] = r /\ pc[p] \in {"tell", "tellQueued"} => told[r] = 0

\* ... and somebody is about to, until they were or a mishap cut that short.
SomebodyTells ==
    \A r \in Runs \ tainted :
        Terminal(r) /\ told[r] = 0 /\ <<r, "tell">> \notin cut
            => \E p \in Lanes : cur[p] = r /\ pc[p] \in {"tell", "tellQueued"}

\* A quiet cancel request stays in the set until a lane on its way to CANCELLED
\* takes it ...
QuietKept ==
    \A r \in Runs \ tainted :
        r \in quiet /\ ~Terminal(r) /\ r \notin cancelSet /\ <<r, "cancel">> \notin cut
            => \E p \in Lanes : cur[p] = r /\ pc[p] = "honour"

\* ... and no lane gets past the early check meanwhile.
QuietStopsLanes ==
    \A p \in Lanes : cur[p] \in quiet \ tainted /\ <<cur[p], "cancel">> \notin cut =>
        pc[p] \in {"load", "check", "honour", "tellQueued", "release", "ack"}

\* A lane takes no error over from its previous job.
IdleInv == \A p \in Lanes : pc[p] = "idle" => err[p] = "none"

\* What the outcome of a lane says about the row, and how its error got there.
OutcomeInv ==
    \A p \in Lanes : cur[p] \in Runs \ tainted =>
        /\ pc[p] \in {"load", "check", "honour", "acquire", "start", "extract", "precheck",
                      "dispatch", "agent", "succeed", "tellQueued"} => err[p] = "none"
        /\ pc[p] \in {"release", "ack"} /\ err[p] # "transient" => Terminal(cur[p])
        /\ final[p] <=> IsFinalAttempt(cur[p])
        /\ pc[p] \in {"release", "ack"} /\ err[p] = "transient" /\ final[p] /\ ~Terminal(cur[p])
              => mishaps["fault"] > 0

\* Unless a worker died or a call was rejected, whoever took a slot still has it
\* to give back.
SlotsHaveHolders ==
    mishaps["crash"] = 0 /\ mishaps["fault"] = 0 =>
        \A r \in Runs : r \in slots => \E p \in Lanes : cur[p] = r /\ pc[p] \in Holding

Inv ==
    /\ LockInv
    /\ CreatedInv
    /\ PhaseInv
    /\ ExecutingHoldsSlot
    /\ SlotsWithinLimit
    /\ SlotsHaveHolders
    /\ ToldOnce
    /\ SomebodyTells
    /\ QuietKept
    /\ QuietStopsLanes
    /\ IdleInv
    /\ OutcomeInv
    /\ QueueAgreesWithStatus
=============================================================================
