------------------------- MODULE MCCamFramedSource -------------------------
(* Small instance: two clients, five frames of which the first and the      *)
(* fourth are IDRs, so that clients come and go within a group of pictures  *)
(* and across its boundary.                                                 *)
EXTENDS CamFramedSource

MCClients == {"c1", "c2"}
MCIdr == {1, 4}
=============================================================================
