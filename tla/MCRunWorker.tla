---------------------------- MODULE MCRunWorker ----------------------------
(* Instances of RunWorker for TLC. *)
EXTENDS RunWorker, TLC

CONSTANTS s1, s2, r1, r2, r3, w1, w2, i1, i2

\* Two runs share a session, so order and serial execution matter; a third run
\* in a second session makes workers compete for the ready list.
MCSessionOf == (r1 :> s1) @@ (r2 :> s1) @@ (r3 :> s2)

\* With a third run two workers that drain together both find a run to take.
MCSessionOfThree == (r1 :> s1) @@ (r2 :> s1) @@ (r3 :> s1)

\* Runs of one session are interchangeable.
MCRunSymmetry == Permutations({r1, r2, r3})

\* Each worker in a process of its own.
MCInstanceOf == (w1 :> i1) @@ (w2 :> i2)
=============================================================================
