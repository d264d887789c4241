----------------------------- MODULE MCPdpSystem -----------------------------
(* Small instances of PdpSystem for TLC.                                   *)
EXTENDS PdpSystem

CONSTANTS c1, p1, t1

OneContent == {"a"}
OneCIDOf == [f \in OneContent |-> c1]
OneIDOf == [f \in OneContent |-> p1]

OneProofSet == {7}

\* Everything the interface allows, and a hash that Piri knows.
AnyResult == {t1, NotAString, Failed}
OneHash == {t1}

=============================================================================
