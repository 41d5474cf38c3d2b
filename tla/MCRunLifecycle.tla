--------------------------- MODULE MCRunLifecycle ---------------------------
(* Instances of RunLifecycle for TLC. *)
EXTENDS RunLifecycle, TLC

CONSTANTS c1, c2

\* Recoveries are interchangeable.
MCRecovererSymmetry == Permutations(Recoverers)

\* State constraint of the run for liveness: a contested run is not followed.
\* Contested is for ever, and the liveness properties excuse it, so that no
\* behaviour which could violate them is cut.
MCUncontested == ~contested

\* State constraint of the run for safety: after a contest the run is followed
\* without cancellations, timeouts, manual requeues, dying recoveries and an
\* ended parent.  Before it, all of them happen.
MCFollowed ==
  contested => /\ cancels = 0 /\ manuals = 0 /\ lostRecoveries = 0
               /\ ~parentEnded /\ ~timedOut
=============================================================================
