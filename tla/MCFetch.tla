------------------------------ MODULE MCFetch ------------------------------
(* Two shell variables: each may be the host variable or the indicator of   *)
(* either item, or both.                                                    *)
EXTENDS Fetch

MCVar == {"host", "ind"}
=============================================================================
