---------------------------- MODULE DurableList ----------------------------
(***************************************************************************)
(* What the Connection List promises (CONTEXT.md, Connection List; ADR     *)
(* 0020): a list that lives on from one launch to the next.  A launch shows *)
(* what is on the disk, in its order; the list only grows at its end, each  *)
(* Connection once; a save puts the whole of it on the disk in one step.   *)
(*                                                                         *)
(* There is no file here, no temporary file, no failure and no moment      *)
(* between two of them, but for what Windows takes away: there the disk is *)
(* emptied first, while the program still has the list.                    *)
(***************************************************************************)
EXTENDS Naturals, SequencesExt

CONSTANTS String, Unreadable

VARIABLES
  platform,  \* "posix" or "windows"
  disk,      \* the list as the next launch will show it
  shown,     \* the list of the window
  running    \* the program runs

dvars == <<platform, disk, shown, running>>

Init ==
  /\ platform \in {"posix", "windows"}
  /\ disk = <<>> /\ shown = <<>> /\ running = FALSE

\* A launch shows the list, unless the file system does not let it.
Launch ==
  /\ ~running /\ running'
  /\ shown' = disk \/ (Unreadable /\ shown' = <<>>)
  /\ UNCHANGED <<platform, disk>>

Exit ==
  /\ running /\ ~running'
  /\ shown' = <<>>
  /\ UNCHANGED <<platform, disk>>

\* An add or an import.
Grow ==
  /\ running
  /\ shown' \in Seq(String) /\ IsInjective(shown')
  /\ IsPrefix(shown, shown')
  /\ UNCHANGED <<platform, disk, running>>

\* What is on the disk is the beginning of what is shown.
Holds == Unreadable \/ IsPrefix(disk, shown)

Save ==
  /\ running /\ Holds
  /\ disk' = shown
  /\ UNCHANGED <<platform, shown, running>>

Empty ==
  /\ platform = "windows"
  /\ running /\ Holds
  /\ disk' = <<>>
  /\ UNCHANGED <<platform, shown, running>>

Next == Launch \/ Exit \/ Grow \/ Save \/ Empty

Spec == Init /\ [][Next]_dvars
=============================================================================
