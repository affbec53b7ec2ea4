---------------------------- MODULE MCUMSidecar ----------------------------
(* Instances of UMSidecar for TLC.                                         *)
EXTENDS UMSidecar
=============================================================================
