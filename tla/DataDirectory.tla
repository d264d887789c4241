---------------------------- MODULE DataDirectory ----------------------------
(***************************************************************************)
(* What the processes that share a data directory promise together: they   *)
(* hold it one after the other, and uploads.json is written only by the    *)
(* holder, which loads it once, before it writes, and writes its own list  *)
(* whole or leaves the file torn.  Nothing here says by which steps a      *)
(* process starts up, which locks it takes, or where it fails.             *)
(***************************************************************************)
CONSTANTS Procs, Files, Nobody

VARIABLES holder,       \* the process that serves from the directory, or is about to
          loaded,       \* it has looked for a list of uploads
          known,        \* the uploads that process knows
          saved,        \* the list that was last written whole to uploads.json
          torn          \* uploads.json has been truncated since

directoryVars == <<holder, loaded, known, saved, torn>>

Init ==
  /\ holder = Nobody /\ loaded = FALSE
  /\ known = {} /\ saved = {} /\ torn = FALSE

Acquire(p) ==
  /\ holder = Nobody
  /\ holder' = p
  /\ UNCHANGED <<loaded, known, saved, torn>>

\* The holder takes over the list it finds, or none: there is only none to take
\* over if the file is torn.
Load ==
  /\ holder # Nobody /\ ~loaded
  /\ loaded' = TRUE
  /\ known' \in {saved, {}} /\ (torn => known' = {})
  /\ UNCHANGED <<holder, saved, torn>>

Add(f) ==
  /\ loaded
  /\ known' = known \cup {f}
  /\ UNCHANGED <<holder, loaded, saved, torn>>

Tear ==
  /\ loaded
  /\ torn' = TRUE
  /\ UNCHANGED <<holder, loaded, known, saved>>

Save ==
  /\ loaded
  /\ saved' = known /\ torn' = FALSE
  /\ UNCHANGED <<holder, loaded, known>>

\* It ends, and what it knew with it.
Release ==
  /\ holder # Nobody
  /\ holder' = Nobody /\ loaded' = FALSE /\ known' = {}
  /\ UNCHANGED <<saved, torn>>

Next ==
  \/ \E p \in Procs : Acquire(p)
  \/ Load
  \/ \E f \in Files : Add(f)
  \/ Tear \/ Save
  \/ Release

Spec == Init /\ [][Next]_directoryVars

===============================================================================
