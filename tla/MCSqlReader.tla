---------------------------- MODULE MCSqlReader ----------------------------
(* Constants of SqlReader for TLC: a length that a quotation in parentheses *)
(* reaches, and parentheses in parentheses.                                 *)
EXTENDS SqlReader

MCMaxLen == 6
MCMaxDepth == 2
=============================================================================
