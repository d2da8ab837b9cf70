------------------------------ MODULE CopyJob ------------------------------
(***************************************************************************)
(* What kc-copy promises its caller, without threads, leases or files:     *)
(* a job copies disks one by one, in any order, and ends exactly once;     *)
(* it may end in "ok" only when every disk has been copied, and nothing    *)
(* is copied after it has ended.  NfcCopy implements this specification.   *)
(***************************************************************************)
CONSTANT Disks

VARIABLES outcome, \* "running", "ok" or "failed"
          copied   \* the disks whose copy has been recorded as complete

jobVars == <<outcome, copied>>

JobInit == outcome = "running" /\ copied = {}

CopyOne(d) ==
    /\ outcome = "running"
    /\ d \notin copied
    /\ copied' = copied \cup {d}
    /\ UNCHANGED outcome

EndOk ==
    /\ outcome = "running"
    /\ copied = Disks
    /\ outcome' = "ok"
    /\ UNCHANGED copied

EndFailed ==
    /\ outcome = "running"
    /\ outcome' = "failed"
    /\ UNCHANGED copied

JobNext == (\E d \in Disks : CopyOne(d)) \/ EndOk \/ EndFailed

JobSpec == JobInit /\ [][JobNext]_jobVars
=============================================================================
