--------------------------- MODULE MCPieceService ---------------------------
(* Small instances of PieceService for TLC.                                *)
EXTENDS PieceService, TLC

CONSTANTS c1, c2, p1, p2, t1

\* Two contents with a piece CID of their own, and one that go-fil-commp
\* refuses; the SHA-256 IDs are IDs a client can also put into a URL.
MCContents == {"a", "b", "short"}
MCPieceCIDOf == [f \in MCContents |-> IF f = "a" THEN c1 ELSE IF f = "b" THEN c2 ELSE NoCID]
MCPieceIDOf == [f \in MCContents |-> IF f = "a" THEN p1 ELSE p2]

\* One content, uploaded under both piece IDs.
OneContent == {"a"}
OneCIDOf == [f \in OneContent |-> c1]
OneIDOf == [f \in OneContent |-> p1]

\* Everything the interface allows, and what the deployed adapter returns
\* (pkg/service/service.go:38).
AnyResult == TxHashes \cup {NotAString, Failed}
AdapterResult == {t1}

OneProofSet == {7}

HandlerSymmetry == Permutations(Handlers)

=============================================================================
