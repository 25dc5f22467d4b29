--------------------------- MODULE MCRunLifecycle ---------------------------
(* RunLifecycle on small instances. *)
EXTENDS RunInvariants, TLC

\* All runs belong to one user: the user limit is what they compete for.
CONSTANT u1
OneOwner == [r \in Runs |-> u1]

\* Mishap budgets.
CrashAndLockLoss == ("crash" :> 1) @@ ("fault" :> 0) @@ ("lockloss" :> 1)
CrashesAndFault == ("crash" :> 2) @@ ("fault" :> 1) @@ ("lockloss" :> 0)
=============================================================================
