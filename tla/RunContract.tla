----------------------------- MODULE RunContract -----------------------------
(***************************************************************************)
(* What the rest of the system may rely on about one Run: the status       *)
(* machine that the API, the dashboards, the webhooks and the reports read *)
(* from the Run table, and the number of times the agent was called for    *)
(* it.  No queue, no locks, no processes: RunLifecycle is shown to         *)
(* implement it.                                                           *)
(*                                                                         *)
(* "disturbed" collects the runs whose guarantees are void.  A run enters  *)
(* it only through one of the events RunLifecycle names (it was reaped, its*)
(* queue lock was lost while a worker was still on it, or a call failed    *)
(* after its result was already written) and never leaves it.              *)
(***************************************************************************)
EXTENDS Naturals

CONSTANT Runs

VARIABLES status, calls, disturbed

contractVars == <<status, calls, disturbed>>

\* processor.ts:174, runs.ts:140 -- the statuses that end a run.
TerminalStatus == {"SUCCESS", "FAILED", "CANCELLED"}
Status == {"ABSENT", "PENDING", "RUNNING"} \cup TerminalStatus

Init ==
    /\ status = [r \in Runs |-> "ABSENT"]
    /\ calls = [r \in Runs |-> 0]
    /\ disturbed = {}

\* The API's "Run Now" or a scheduled fire creates the row.
Submit(r) ==
    /\ status[r] = "ABSENT"
    /\ status' = [status EXCEPT ![r] = "PENDING"]
    /\ UNCHANGED <<calls, disturbed>>

\* An attempt starts; a retry starts again from RUNNING.
Begin(r) ==
    /\ status[r] \in {"PENDING", "RUNNING"}
    /\ status' = [status EXCEPT ![r] = "RUNNING"]
    /\ UNCHANGED <<calls, disturbed>>

\* The agent is only ever called for a run that is RUNNING.
Call(r) ==
    /\ status[r] = "RUNNING"
    /\ calls' = [calls EXCEPT ![r] = @ + 1]
    /\ UNCHANGED <<status, disturbed>>

\* A success needs an answer, hence a call; a failure or a cancellation may
\* come at any time before the end.
Settle(r) ==
    /\ \/ /\ status[r] = "RUNNING"
          /\ calls[r] > 0
          /\ status' = [status EXCEPT ![r] = "SUCCESS"]
       \/ /\ status[r] \in {"PENDING", "RUNNING"}
          /\ \E s \in {"FAILED", "CANCELLED"} : status' = [status EXCEPT ![r] = s]
    /\ UNCHANGED <<calls, disturbed>>

\* A disturbed run is outside the contract: anything short of disappearing.
Disturb(r) ==
    /\ status[r] # "ABSENT"
    /\ disturbed' = disturbed \cup {r}
    /\ \E s \in Status \ {"ABSENT"} : status' = [status EXCEPT ![r] = s]
    /\ calls' \in {calls, [calls EXCEPT ![r] = @ + 1]}

Next == \E r \in Runs :
    Submit(r) \/ Begin(r) \/ Call(r) \/ Settle(r) \/ Disturb(r)

Spec == Init /\ [][Next]_contractVars
=============================================================================
