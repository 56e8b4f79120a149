---------------------------- MODULE MCPipeline ----------------------------
(* Generation, execution and mutation of a schedule over two nodes.        *)
EXTENDS Pipeline

MCNodes == {1, 2}
=============================================================================
