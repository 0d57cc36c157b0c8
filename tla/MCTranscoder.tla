---------------------------- MODULE MCTranscoder ----------------------------
(* Small instances of Transcoder; the constants are numbers, given by the   *)
(* configuration files.                                                     *)
EXTENDS Transcoder
=============================================================================
