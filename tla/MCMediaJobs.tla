---------------------------- MODULE MCMediaJobs ----------------------------
(* An instance of MediaJobs: j2 extends the video of j1, and j3 is another  *)
(* video, so that retention has a choice between the source and j3.         *)
EXTENDS MediaJobs

CONSTANTS j1, j2, j3

MCSource == [j \in Job |-> IF j = j2 THEN j1 ELSE NoJob]
MCKind == [j \in Job |-> "video"]
=============================================================================
