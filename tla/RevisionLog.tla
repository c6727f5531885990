---------------------------- MODULE RevisionLog ----------------------------
(***************************************************************************)
(* What `memspec experimental synthesize-revision` promises of a .memspec  *)
(* file: a slice that its author edits, and a log of the slice's versions  *)
(* that grows by the current one, only at its end, and never by the same   *)
(* version twice in a row.                                                 *)
(***************************************************************************)
EXTENDS Naturals, Sequences

CONSTANT Body  \* the versions of a slice

VARIABLES
  slice,  \* the slice as its author left it
  log     \* the versions on record

Init == slice \in Body /\ log = <<>>

Author == slice' \in Body /\ UNCHANGED log

\* A record that was written and not yet known to last comes to light with
\* the author's next save at the latest.
Record ==
  /\ log = <<>> \/ log[Len(log)] # slice
  /\ log' = Append(log, slice)
  /\ slice' \in Body

Next == Author \/ Record

Spec == Init /\ [][Next]_<<slice, log>>
=============================================================================
