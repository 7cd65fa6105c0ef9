---------------------------- MODULE MCLifecycle ----------------------------
(* Small instances of Lifecycle for TLC.                                     *)
EXTENDS Lifecycle, TLC

Symmetry == Permutations(Scripts)

\* What scripts do to each other once two are past the lock is not followed.
Apart == ~overlapped
=============================================================================
