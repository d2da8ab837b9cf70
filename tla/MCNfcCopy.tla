----------------------------- MODULE MCNfcCopy -----------------------------
(* NfcCopy for TLC: three disks share two slots, one target is a block     *)
(* device; with two slots a third goroutine always waits.                  *)
EXTENDS NfcCopy, TLC

CONSTANTS d1, d2, d3

MCDisks == {d1, d2, d3}
MCBlockTargets == {d1}
=============================================================================
