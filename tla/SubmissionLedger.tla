--------------------------- MODULE SubmissionLedger ---------------------------
(***************************************************************************)
(* What adding pieces to proof sets promises, seen from outside the        *)
(* server: a piece commitment is first claimed, for good, and a claimed    *)
(* commitment is handed to Piri's ProofSetAddRoot at most once, whatever   *)
(* the number of piece IDs it was uploaded under, of concurrent requests   *)
(* and of restarts of the server in between.                               *)
(*                                                                         *)
(* A claim that is never followed by a submission is allowed: that is what *)
(* a crash between the two leaves behind.                                  *)
(***************************************************************************)
EXTENDS Sequences, Naturals

CONSTANTS CIDs,         \* piece commitments
          ProofSetIDs   \* proof sets named by clients

VARIABLES claimed,      \* commitments claimed so far
          log           \* calls of ProofSetAddRoot, oldest first

ledgerVars == <<claimed, log>>

Call == [cid: CIDs, proofSet: ProofSetIDs]

LoggedIn(l) == {l[i].cid : i \in DOMAIN l}

LedgerTypeOK ==
  /\ claimed \subseteq CIDs
  /\ log \in Seq(Call)

Init ==
  /\ claimed = {}
  /\ log = <<>>

Claim(c) ==
  /\ c \notin claimed
  /\ claimed' = claimed \cup {c}
  /\ UNCHANGED log

Submit(c, s) ==
  /\ c \in claimed \ LoggedIn(log)
  /\ log' = Append(log, [cid |-> c, proofSet |-> s])
  /\ UNCHANGED claimed

Next ==
  \/ \E c \in CIDs : Claim(c)
  \/ \E c \in CIDs, s \in ProofSetIDs : Submit(c, s)

Spec == Init /\ [][Next]_ledgerVars

===============================================================================
