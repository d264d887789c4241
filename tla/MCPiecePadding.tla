---------------------------- MODULE MCPiecePadding ----------------------------
(* File sizes around every boundary up to 1200 bytes.                      *)
EXTENDS PiecePadding

MCPowers == {2^k : k \in 0..11}

===============================================================================
