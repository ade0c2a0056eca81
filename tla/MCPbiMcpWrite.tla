--------------------------- MODULE MCPbiMcpWrite ---------------------------
(* The instance of PbiMcpWrite that TLC checks: a record without approvals,*)
(* with two narrow ones, or with one that names the target and the         *)
(* operation.                                                              *)
EXTENDS PbiMcpWrite

MCNotes == {{}, {{"target"}, {"operation"}}, {{"target", "operation"}}}
=============================================================================
