----------------------------- MODULE MCStartup -----------------------------
(* Small instances of Startup for TLC.                                     *)
EXTENDS Startup, TLC

CONSTANTS p1, p2, p3, home1, home2

\* Two users with a wallet each, and one without.
ThreeUsers == (p1 :> home1) @@ (p2 :> home2) @@ (p3 :> NoWallet)

=============================================================================
