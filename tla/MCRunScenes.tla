---------------------------- MODULE MCRunScenes ----------------------------
(* RunLifecycle with two runs.  While there is one, it meets every mishap,  *)
(* and two lanes can be on it at once after a lost lock; two compete for    *)
(* their user's only slot, with a crash at most, no cancel and no reaper.   *)
EXTENDS MCRunLifecycle

Submitted == {r \in Runs : origin[r] # "none"}
Contention ==
    /\ mishaps["lockloss"] = 0 /\ tainted = {}
    /\ \A r \in Runs : ~aged[r] /\ client[r] = "idle"
    /\ \A k \in Reapers : todo[k] = {} /\ reaping[k] = NoRun

\* Steps outside the two scenes are not explored.
InScene == Cardinality(Submitted') <= 1 \/ Contention'

\* The runs are alike, as are the lanes.
SceneSymmetry == Permutations(Lanes) \cup Permutations(Runs)
=============================================================================
