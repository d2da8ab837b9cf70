--------------------------- MODULE MCV2VPipeline ---------------------------
(* V2VPipeline for TLC: two disks, so that a commit can fail between them; *)
(* the edits of the two stages that write.                                 *)
EXTENDS V2VPipeline, TLC

MCEdits == {"convert", "finalize"}
=============================================================================
