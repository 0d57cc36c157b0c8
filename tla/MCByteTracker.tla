---------------------------- MODULE MCByteTracker ----------------------------
(* Small instance of ByteTracker: one more stream draws identities.           *)
EXTENDS ByteTracker

MCOtherStreams == {"other"}
==============================================================================
