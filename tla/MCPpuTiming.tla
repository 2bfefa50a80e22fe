---------------------------- MODULE MCPpuTiming -----------------------------
(* A small frame: a pre-render line, three visible lines, the line that     *)
(* starts the blank, one inside it and the last one, six cycles each.       *)
EXTENDS PpuTiming

MCPhantomLines == {1}
=============================================================================
