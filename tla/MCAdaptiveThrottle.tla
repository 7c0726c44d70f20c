------------------------ MODULE MCAdaptiveThrottle ------------------------
(* AdaptiveThrottle on a small instance. *)
EXTENDS AdaptiveThrottle, TLC

Symmetry == Permutations(Crawler) \cup Permutations(Slot) \cup Permutations(Jar)
=============================================================================
