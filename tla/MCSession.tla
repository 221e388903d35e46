----------------------------- MODULE MCSession -----------------------------
(* Constants of Session for TLC. *)
EXTENDS Session

MCConn == 1 .. 3
MCName == {"_DEFAULT_", "db1", "db2"}
MCPrefixName == {"_DEFAULT_", "db1", "def"}
MCPrefixes == {"def"}
MCNoPrefixes == {}
=============================================================================
