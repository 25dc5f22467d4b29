-------------------------- MODULE MCScheduleFiring --------------------------
(* ScheduleFiring on a small instance. *)
EXTENDS ScheduleInvariants, TLC

\* A new time, and a new version with the time left alone.
CONSTANTS p1, p2
TimeOrPin == [timing : Timings, pin : {Same}] \cup [timing : {Same}, pin : Pins]

Symmetry == Permutations(Tickers) \cup Permutations(Handlers)
=============================================================================
