----------------------------- MODULE MCUDPServer -----------------------------
(* A small instance of UDPServer: two clients, a message of two segments, and an
   application that answers with nothing, an empty text or a text.  Before that, a
   behaviour may be about a text of Segmentation, with bytes of two bits: while
   one is on its way the server stands still. *)
EXTENDS UDPServer, Segmentation

CONSTANTS p, q, r

Chunks == {p, q, r}
TwoSegments == {<<p, q>>}
Answers == {<<>>, <<r>>}

PartsInit == ServerInit /\ SegmentationInit

PartsNext ==
  \/ segments = <<>> /\ ServerNext /\ UNCHANGED segmentationVars
  \/ SegmentationNext /\ UNCHANGED serverVars

PartsSpec == PartsInit /\ [][PartsNext]_<<serverVars, segmentationVars>>
=============================================================================
