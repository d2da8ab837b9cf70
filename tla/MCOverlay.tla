----------------------------- MODULE MCOverlay -----------------------------
(* Overlay for TLC: three disks, so that a commit can fail before, between *)
(* and after the others, and two edits, so that one commit can be partial. *)
EXTENDS Overlay, TLC

CONSTANTS e1, e2

MCEdits == {e1, e2}
=============================================================================
