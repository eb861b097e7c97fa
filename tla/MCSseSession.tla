--------------------------- MODULE MCSseSession ----------------------------
(* SseSession on small instances.                                          *)
EXTENDS SseSession

MCOne == 1..1
MCTwo == 1..2
MCThree == 1..3
=============================================================================
