----------------------------- MODULE MCConnList -----------------------------
(* Instances of ConnList for TLC. *)
EXTENDS ConnList

MCNames      == {"a", "b"}
MCAliasNames == {"a", ALL_VALUE}    \* a user may name a connection _ALL_
MCVersions   == {"8.3", "9.0"}
=============================================================================
