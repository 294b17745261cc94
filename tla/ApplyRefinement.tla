-------------------------- MODULE ApplyRefinement --------------------------
(***************************************************************************)
(* StagedApply implements AtomicApply.  The running transaction is         *)
(* invisible: its statements are stuttering steps, and the whole bag takes *)
(* effect at the commit.                                                   *)
(***************************************************************************)
EXTENDS StagedApply

Atomic == INSTANCE AtomicApply WITH
  usable <- {s \in sessions : alive[s]},
  stale  <- IF at = "reload" THEN {who} ELSE {}

\* Apply is atomic: together or not at all, however the statements of its
\* transaction interleave with other programs and wherever it fails.
ImplementsAtomicApply == Atomic!Spec
=============================================================================
