----------------------------- MODULE MCJourney -----------------------------
(***************************************************************************)
(* Small instances of Journey.  Threads t1 and t2 and the Alone a1 belong  *)
(* to pool p1, thread t3 to pool p2.                                       *)
(***************************************************************************)
EXTENDS Journey, TLC

CONSTANTS j1, j2, j3, t1, t2, t3, p1, p2, a1

MCPoolOf ==
  [x \in Threads \cup Schedulers |-> IF x \in {t3, p2} THEN p2 ELSE p1]

\* t1 and t2 are interchangeable workers, j2 and j3 uninterrupted journeys.
Symmetry == {f @@ g : f \in Permutations({t1, t2}), g \in Permutations({j2, j3})}
=============================================================================
