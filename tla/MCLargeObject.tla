--------------------------- MODULE MCLargeObject ---------------------------
(* Constants of LargeObject for TLC: OIDs below and above IntMax. *)
EXTENDS LargeObject

MCSmall == {3, 4}
MCBig == {3, 9}
MCIntMax == 7
=============================================================================
