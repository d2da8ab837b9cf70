----------------------------- MODULE Converter -----------------------------
(***************************************************************************)
(* What the two converters have in common: the guest they edit, the state  *)
(* of the converter process, the convert section it publishes in           *)
(* pipeline.json, and faults.  A converter is a sequence of blocks; pc is  *)
(* the next one.  A block that fails is fatal, or it is recorded in        *)
(* output.Errors, or it is only logged: which of the three it is, is part  *)
(* of each block's action.                                                 *)
(***************************************************************************)
EXTENDS Naturals, Sequences, FiniteSets

CONSTANTS
  MaxFaults,     \* bound: failures of guest operations in one behaviour
  MaxRuns        \* bound: runs of kc-v2v on the same disks, overlays disabled

ASSUME ConverterBounds == MaxFaults \in Nat /\ MaxRuns \in Nat \ {0}

VARIABLES
  g,        \* the guest: what inspection found, and its files
  c,        \* the converter process
  out,      \* the convert section of pipeline.json, NoOutput if there is none
  faults, runs

vars == <<g, c, out, faults, runs>>

NoOutput == [published |-> FALSE]

\* k operations of the guest fail, or none
Failing(k) == faults + k <= MaxFaults /\ faults' = faults + k
Try(ok) == Failing(IF ok THEN 0 ELSE 1)

At(os, block) == g.os = os /\ c.pc = block
Goto(block) == c' = [c EXCEPT !.pc = block]

\* output.Errors = append(output.Errors, ...)
Report(errs, block) == c' = [c EXCEPT !.pc = block, !.errors = @ \cup errs]
Fatal == c' = [c EXCEPT !.pc = "failed"]

\* ConvertAllESPs runs every editor on every firmware.ESPDevices path, a path
\* below the guest's root; efi says of each EFI system partition's mount point
\* whether it has a fallback loader.  The editors report no failure.
ConvertAllESPs(x, failed) ==
  [x EXCEPT !.efi = [esp \in DOMAIN @ |-> @[esp] \/ esp \in x.espDevices \ failed]]

\* The registries of plugins are Go maps, so a loop over one visits the
\* plugins in any order: plugin p is one that the loop has not visited.
Visit(p) == c' = [c EXCEPT !.done = @ \cup {p}]
=============================================================================
