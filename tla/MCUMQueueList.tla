---------------------------- MODULE MCUMQueueList ----------------------------
(* Instances of UMQueueList for TLC.                                       *)
EXTENDS UMQueueList

\* All consumers of a queue use shift, or all use pop.
OneEnd == {{"shift"}, {"pop"}}
BothEnds == {{"shift", "pop"}}
=============================================================================
