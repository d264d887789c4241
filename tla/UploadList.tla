------------------------------ MODULE UploadList ------------------------------
(***************************************************************************)
(* What the upload service promises, without its goroutines and its lock:  *)
(* a list of files whose bytes are stored, and a file on disk that is only *)
(* ever the list as it is at that moment, torn, or left as it was.         *)
(*                                                                         *)
(* Many uploads run at once; here each of their effects is one step of     *)
(* nobody in particular, so nothing may depend on who is in the middle of  *)
(* saving.                                                                 *)
(***************************************************************************)
EXTENDS Naturals

CONSTANTS CIDs,         \* multihashes of file contents
          Filenames,
          NoFile, Torn  \* there is no saved list, or none that parses

VARIABLES listed,       \* what GET /files shows: CID -> file name
          saved,        \* uploads.json
          stored,       \* contents the blob store has
          answered      \* files answered 200 since the process started

listVars == <<listed, saved, stored, answered>>

Init ==
  /\ listed = << >>
  /\ saved = NoFile
  /\ stored = {} /\ answered = {}

\* The bytes of a file reach the blob store.
Put(c) ==
  /\ stored' = stored \cup {c}
  /\ UNCHANGED <<listed, saved, answered>>

\* A stored file is listed.
Track(c, f) ==
  /\ c \in stored
  /\ listed' = [d \in DOMAIN listed \cup {c} |-> IF d = c THEN f ELSE listed[d]]
  /\ UNCHANGED <<saved, stored, answered>>

\* The saved list is truncated, to be written anew.
Tear ==
  /\ DOMAIN listed # {}
  /\ saved' = Torn
  /\ UNCHANGED <<listed, stored, answered>>

Answer(c) ==
  /\ c \in DOMAIN listed
  /\ answered' = answered \cup {c}
  /\ UNCHANGED <<listed, stored>>

\* A listed file is answered, and the whole list is saved.
SaveAndAnswer(c) == Answer(c) /\ saved' = listed

\* It is answered although the list could not be saved.
WarnAndAnswer(c) == Answer(c) /\ saved' \in {saved, Torn}

\* The process is started again, from what was saved.
Reload ==
  /\ listed' = IF saved \in {NoFile, Torn} THEN << >> ELSE saved
  /\ answered' = {}
  /\ UNCHANGED <<saved, stored>>

Next ==
  \/ \E c \in CIDs : Put(c) \/ SaveAndAnswer(c) \/ WarnAndAnswer(c)
  \/ \E c \in CIDs, f \in Filenames : Track(c, f)
  \/ Tear \/ Reload

Spec == Init /\ [][Next]_listVars

===============================================================================
