---------------------------- MODULE StartupProofs ----------------------------
(* Proofs about Startup: for any number of processes, wallets, uploads and *)
(* faults at most one process is past Piri's datastore, and it knows every *)
(* upload of the list last written unless it could not load the file,      *)
(* which only a kill in the middle of a save or another fault brings about.*)
EXTENDS Startup, TLAPS

-------------------------------------------------------------------------------
(* The directories.                                                        *)

\* A wallet is a LevelDB directory of its own, apart from the datastore.
LEMMA WalletDirs ==
  ASSUME NEW p \in Procs
  PROVE  /\ WalletOf(p) \in LevelDBs
         /\ Datastore \in LevelDBs
         /\ WalletOf(p) # Datastore
  BY StartupAssumption DEF WalletOf, Wallets, LevelDBs, Standalone, Datastore

\* Taking a step of start-up moves that process on along After, and no other.
LEMMA ProceedStep ==
  ASSUME NEW p \in Procs, NEW step \in Steps, TypeOK, Proceed(p, step)
  PROVE  /\ pc' \in [Procs -> Steps \cup {"down", "serving"}]
         /\ pc[p] = step
         /\ pc'[p] = After[step]
         /\ \A q \in Procs : q # p => pc'[q] = pc[q]
         /\ UNCHANGED <<saves, saved, torn>>
  <1>1. After[step] \in Steps \cup {"serving"}
    BY DEF Steps, After
  <1> QED
    BY <1>1 DEF Proceed, TypeOK

\* Whoever ends keeps nothing open and nobody else's directory changes hands; if
\* it was not serving, or the end counts as a fault, a torn file is accounted for.
LEMMA EndStep ==
  ASSUME NEW p \in Procs, StartupInv, End(p), UNCHANGED metadata,
         \/ pc[p] # "serving" /\ UNCHANGED faults
         \/ faults' = faults + 1
  PROVE  StartupInv'
  <1>1. TypeOK'
    BY StartupAssumption DEF End, StartupInv, TypeOK, metadata, NoSaves, SaveStates
  <1>2. \A q \in Procs : pc'[q] \in Opened => owner'[Datastore] = q
    BY WalletDirs DEF End, StartupInv, TypeOK, Opened
  <1>3. /\ \A q \in Procs : pc'[q] \in Loaded /\ ~blank' => saved' \subseteq uploads'[q]
        /\ \A q \in Procs : pc'[q] \notin Loaded => uploads'[q] = {}
    BY DEF End, StartupInv, TypeOK, Loaded, metadata
  <1>4. \A q \in Procs : pc'[q] # "serving" => saves'[q] = NoSaves
    BY DEF End, StartupInv, TypeOK
  <1>5. torn' => faults' > 0 \/ \E q \in Procs, f \in Files : saves'[q][f] = "writing"
    <2>1. CASE faults' = faults + 1
      BY <2>1 DEF StartupInv, TypeOK
    <2>2. CASE pc[p] # "serving" /\ UNCHANGED faults
      <3>1. saves' = saves
        BY <2>2 DEF End, StartupInv, TypeOK
      <3> QED
        BY <2>2, <3>1 DEF StartupInv, metadata
    <2> QED
      BY <2>1, <2>2
  <1>6. blank' => faults' > 0
    BY DEF StartupInv, TypeOK, metadata
  <1> QED
    BY <1>1, <1>2, <1>3, <1>4, <1>5, <1>6 DEF StartupInv

-------------------------------------------------------------------------------
(* Every step of start-up.                                                 *)

\* A step that opens nothing and loads nothing.
LEMMA QuietStep ==
  ASSUME NEW p \in Procs, NEW step \in Steps \ {"datastore", "services"},
         StartupInv, Proceed(p, step), UNCHANGED <<owner, uploads, blank, faults>>
  PROVE  StartupInv'
  <1>1. /\ After[step] \in Opened => step \in Opened
        /\ After[step] \in Loaded <=> step \in Loaded
        /\ step # "serving"
    BY DEF Steps, After, Opened, Loaded
  <1>2. TypeOK
    BY DEF StartupInv
  <1>3. /\ pc' \in [Procs -> Steps \cup {"down", "serving"}]
        /\ pc[p] = step
        /\ pc'[p] = After[step]
        /\ \A q \in Procs : q # p => pc'[q] = pc[q]
        /\ UNCHANGED <<saves, saved, torn>>
    BY ProceedStep, <1>2
  <1> QED
    BY <1>1, <1>2, <1>3 DEF StartupInv, TypeOK

\* A process between config and listening takes a step.
LEMMA StepKeepsInv ==
  ASSUME NEW p \in Procs, StartupInv, Step(p)
  PROVE  StartupInv'
  <1>0. TypeOK
    BY DEF StartupInv
  <1>a. {"config", "data", "wallet", "key", "address", "datastore", "chain", "state",
         "services", "start", "listen"} = Steps
    BY DEF Steps, After
  <1>1. CASE LoadConfig(p)
    BY <1>1, <1>a, QuietStep DEF LoadConfig
  <1>2. CASE OpenDataDir(p)
    BY <1>2, <1>a, QuietStep DEF OpenDataDir
  <1>3. CASE NewWalletManager(p)
    <2>1. /\ pc' \in [Procs -> Steps \cup {"down", "serving"}]
          /\ pc[p] = "wallet"
          /\ pc'[p] = After["wallet"]
          /\ \A q \in Procs : q # p => pc'[q] = pc[q]
          /\ UNCHANGED <<saves, saved, torn>>
      BY <1>0, <1>3, <1>a, ProceedStep DEF NewWalletManager
    <2>2. After["wallet"] \notin Opened \cup Loaded /\ "wallet" \notin Loaded
      BY DEF After, Opened, Loaded
    <2>3. owner' \in [LevelDBs -> Procs \cup {Nobody}] /\ owner'[Datastore] = owner[Datastore]
      BY <1>0, <1>3, WalletDirs DEF NewWalletManager, OpenLevelDB, TypeOK
    <2>4. UNCHANGED <<uploads, blank, faults>> /\ "wallet" # "serving"
      BY <1>3 DEF NewWalletManager
    <2> QED
      BY <2>1, <2>2, <2>3, <2>4 DEF StartupInv, TypeOK
  <1>4. CASE ImportKey(p)
    BY <1>4, <1>a, QuietStep DEF ImportKey
  <1>5. CASE HasAddress(p)
    BY <1>5, <1>a, QuietStep DEF HasAddress
  <1>6. CASE OpenDatastore(p)
    <2>1. /\ pc' \in [Procs -> Steps \cup {"down", "serving"}]
          /\ pc[p] = "datastore"
          /\ pc'[p] = After["datastore"]
          /\ \A q \in Procs : q # p => pc'[q] = pc[q]
          /\ UNCHANGED <<saves, saved, torn>>
      BY <1>0, <1>6, <1>a, ProceedStep DEF OpenDatastore
    <2>2. After["datastore"] \notin Loaded /\ "datastore" \notin Loaded
      BY DEF After, Loaded
    <2>3. /\ owner[Datastore] = Nobody
          /\ owner' \in [LevelDBs -> Procs \cup {Nobody}]
          /\ owner'[Datastore] = p
      BY <1>0, <1>6, WalletDirs DEF OpenDatastore, OpenLevelDB, TypeOK
    <2>4. \A q \in Procs : pc[q] \notin Opened
      BY <2>3, StartupAssumption DEF StartupInv
    <2>5. UNCHANGED <<uploads, blank, faults>> /\ "datastore" # "serving"
      BY <1>6 DEF OpenDatastore
    <2> QED
      BY <2>1, <2>2, <2>3, <2>4, <2>5 DEF StartupInv, TypeOK
  <1>7. CASE ConnectChain(p)
    BY <1>7, <1>a, QuietStep DEF ConnectChain
  <1>8. CASE OpenStateDB(p)
    BY <1>8, <1>a, QuietStep DEF OpenStateDB
  <1>9. CASE NewPDPServer(p)
    <2>1. /\ pc' \in [Procs -> Steps \cup {"down", "serving"}]
          /\ pc[p] = "services"
          /\ pc'[p] = "start"
          /\ \A q \in Procs : q # p => pc'[q] = pc[q]
          /\ UNCHANGED <<saves, saved, torn, owner>>
      BY <1>0, <1>9, <1>a, ProceedStep DEF NewPDPServer, After
    <2>2. \A q \in Procs : pc[q] \in Opened => q = p
      BY <2>1 DEF StartupInv, Opened
    <2>3. \A f \in Files, q \in Procs : saves[q][f] # "writing"
      BY <2>1, <2>2 DEF StartupInv, Opened, NoSaves
    <2>4. torn => faults > 0
      BY <2>3 DEF StartupInv
    <2>5. /\ uploads' \in [Procs -> SUBSET Files]
          /\ \A q \in Procs : q # p => uploads'[q] = uploads[q]
          /\ blank' \in BOOLEAN
          /\ ~blank' => uploads'[p] = saved
      BY <1>0, <1>9 DEF NewPDPServer, LoadMetadata, TypeOK
    <2>8. /\ faults' \in Nat
          /\ faults > 0 => faults' > 0
          /\ blank' => faults' > 0
      <3>1. faults \in Nat
        BY <1>0 DEF TypeOK
      <3>2. \/ ~blank' /\ faults' = faults
            \/ torn /\ faults' = faults
            \/ faults' = faults + 1
        BY <1>9 DEF NewPDPServer, LoadMetadata
      <3> QED
        BY <2>4, <3>1, <3>2
    <2>6. "start" \in Loaded /\ "start" # "serving" /\ "services" # "serving"
      BY DEF Loaded
    <2>7. \A q \in Procs : q # p => pc[q] \notin Loaded
      BY <2>2 DEF Opened, Loaded
    <2> QED
      BY <1>0, <2>1, <2>2, <2>4, <2>5, <2>6, <2>7, <2>8 DEF StartupInv, TypeOK, Opened
  <1>10. CASE Start(p)
    BY <1>10, <1>a, QuietStep DEF Start
  <1>11. CASE Listen(p)
    BY <1>11, <1>a, QuietStep DEF Listen
  <1> QED
    BY <1>1, <1>2, <1>3, <1>4, <1>5, <1>6, <1>7, <1>8, <1>9, <1>10, <1>11 DEF Step

-------------------------------------------------------------------------------
(* Theorems.                                                               *)

\* At most one process is past Piri's datastore, by the lock of that directory.
LEMMA OnlyOwner ==
  ASSUME StartupInv
  PROVE  OneServer
  BY DEF StartupInv, OneServer

\* Only the process that has the datastore open tracks and saves uploads.
LEMMA SaverHolds ==
  ASSUME NEW p \in Procs, NEW f \in Files, StartupInv, Upload(p, f)
  PROVE  /\ pc[p] = "serving" /\ pc[p] \in Opened /\ pc[p] \in Loaded
         /\ owner[Datastore] = p
         /\ \A q \in Procs : pc[q] \in Loaded => q = p
         /\ ~blank => saved \subseteq uploads[p]
  <1>1. pc[p] = "serving"
    BY DEF Upload, TrackFile, BeginSave, EndSave, FailSave, StartupInv, NoSaves
  <1> QED
    BY <1>1, OnlyOwner DEF OneServer, StartupInv, Opened, Loaded

\* The saver writes all it knows, and that is at least what was saved before,
\* unless it started without the list.
LEMMA UploadKeeps ==
  ASSUME NEW p \in Procs, NEW f \in Files, StartupInv, Upload(p, f)
  PROVE  StartupInv' /\ (~blank => saved \subseteq saved')
  <1>1. /\ pc[p] = "serving" /\ pc[p] \in Opened /\ pc[p] \in Loaded
        /\ \A q \in Procs : pc[q] \in Loaded => q = p
        /\ ~blank => saved \subseteq uploads[p]
    BY SaverHolds
  <1>2. TypeOK
    BY DEF StartupInv
  <1>3. CASE TrackFile(p, f)
    <2>1. /\ uploads' \in [Procs -> SUBSET Files] /\ saves' \in [Procs -> [Files -> SaveStates]]
          /\ uploads'[p] = uploads[p] \cup {f}
          /\ \A q \in Procs : q # p => uploads'[q] = uploads[q] /\ saves'[q] = saves[q]
          /\ \A g \in Files : saves'[p][g] # saves[p][g] => saves[p][g] = "none"
          /\ UNCHANGED <<pc, owner, saved, torn, blank, faults>>
      BY <1>2, <1>3 DEF TrackFile, TypeOK, SaveStates, metadata
    <2>2. torn => faults > 0 \/ \E q \in Procs, g \in Files : saves'[q][g] = "writing"
      BY <2>1 DEF StartupInv
    <2> QED
      BY <1>1, <2>1, <2>2 DEF StartupInv, TypeOK
  <1>4. CASE BeginSave(p, f)
    <2>1. /\ saves' \in [Procs -> [Files -> SaveStates]]
          /\ saves'[p][f] = "writing"
          /\ \A q \in Procs : q # p => saves'[q] = saves[q]
      BY <1>2, <1>4 DEF BeginSave, TypeOK, SaveStates
    <2> QED
      BY <1>1, <1>4, <2>1 DEF BeginSave, StartupInv, TypeOK
  <1>5. CASE EndSave(p, f)
    <2>1. /\ saves' \in [Procs -> [Files -> SaveStates]]
          /\ \A q \in Procs : q # p => saves'[q] = saves[q]
      BY <1>2, <1>5 DEF EndSave, TypeOK, SaveStates
    <2> QED
      BY <1>1, <1>5, <2>1 DEF EndSave, StartupInv, TypeOK
  <1>6. CASE FailSave(p, f)
    <2>1. /\ saves' \in [Procs -> [Files -> SaveStates]]
          /\ \A q \in Procs : q # p => saves'[q] = saves[q]
      BY <1>2, <1>6 DEF FailSave, TypeOK, SaveStates
    <2>2. torn' \in BOOLEAN
      BY <1>2, <1>6 DEF FailSave, TypeOK
    <2>3. faults' \in Nat /\ faults' > 0
      BY <1>2, <1>6 DEF FailSave, TypeOK
    <2> QED
      BY <1>1, <1>6, <2>1, <2>2, <2>3 DEF FailSave, StartupInv, TypeOK
  <1> QED
    BY <1>3, <1>4, <1>5, <1>6 DEF Upload

\* Every step keeps the invariant, and no step loses a saved upload.
LEMMA NextStep ==
  ASSUME StartupInv, [Next]_vars
  PROVE  StartupInv' /\ (~blank => saved \subseteq saved')
  <1>1. CASE UNCHANGED vars
    BY <1>1 DEF vars, memory, metadata, StartupInv, TypeOK
  <1>2. CASE Next
    <2> SUFFICES ASSUME NEW p \in Procs,
                        \/ Launch(p) \/ Step(p) \/ Refuse(p) \/ Fail(p)
                        \/ \E f \in Files : Upload(p, f)
                 PROVE  StartupInv' /\ (~blank => saved \subseteq saved')
      BY <1>2 DEF Next
    <2>1. CASE Launch(p)
      <3>1. /\ "config" \in Steps /\ {"down", "config"} \cap (Opened \cup Loaded) = {}
            /\ "down" # "serving" /\ "config" # "serving"
        BY DEF Steps, After, Opened, Loaded
      <3> QED
        BY <2>1, <3>1 DEF Launch, memory, metadata, StartupInv, TypeOK
    <2>2. CASE Step(p)
      <3>1. UNCHANGED saved
        BY <2>2 DEF Step, LoadConfig, OpenDataDir, NewWalletManager, ImportKey, HasAddress,
                    OpenDatastore, ConnectChain, OpenStateDB, NewPDPServer, Start, Listen,
                    Proceed
      <3> QED
        BY <2>2, <3>1, StepKeepsInv
    <2>3. CASE Refuse(p)
      <3>1. pc[p] # "serving" /\ UNCHANGED <<metadata, faults>> /\ End(p)
        BY <2>3 DEF Refuse, Impossible
      <3> QED
        BY <3>1, EndStep DEF metadata
    <2>4. CASE Fail(p)
      <3>1. faults' = faults + 1 /\ UNCHANGED metadata /\ End(p)
        BY <2>4 DEF Fail
      <3> QED
        BY <3>1, EndStep DEF metadata
    <2>5. CASE \E f \in Files : Upload(p, f)
      BY <2>5, UploadKeeps
    <2> QED
      BY <2>1, <2>2, <2>3, <2>4, <2>5
  <1> QED
    BY <1>1, <1>2

\* The start-up invariant, for any number of processes, wallets, uploads and
\* faults: whoever is past the datastore has it open, whoever made its upload
\* service knows every upload of the list that was last written whole, unless it
\* found the file torn or unreadable, and without a kill or a fault it never does.
THEOREM StartupInvariance == Spec => []StartupInv
  <1>1. Init => StartupInv
    <2> SUFFICES ASSUME Init PROVE StartupInv
      OBVIOUS
    <2>1. NoSaves \in [Files -> SaveStates]
      BY DEF NoSaves, SaveStates
    <2>2. TypeOK
      BY <2>1 DEF Init, TypeOK
    <2> QED
      BY <2>2 DEF Init, StartupInv, Opened, Loaded
  <1>2. StartupInv /\ [Next]_vars => StartupInv'
    BY NextStep
  <1> QED
    BY <1>1, <1>2, PTL DEF Spec

\* Two processes over one data directory, whatever wallets they use, never both
\* get past Piri's datastore to its tasks, the watcher and the port.
THEOREM OneServerAtATime == Spec => []OneServer
  BY StartupInvariance, OnlyOwner, PTL

\* A save never drops an upload of the list that was last written whole, whatever
\* other processes saved before, unless its process could not load that list.
THEOREM UploadsSurvive == Spec => UploadsKept
  <1>1. StartupInv /\ [Next]_vars => [~blank => saved \subseteq saved']_vars
    BY NextStep
  <1> QED
    BY <1>1, StartupInvariance, PTL DEF Spec, UploadsKept

-------------------------------------------------------------------------------
(* The processes implement the data directory.                             *)

\* A process that ends releases the directory if it was the holder.
LEMMA EndReleases ==
  ASSUME StartupInv, NEW p \in Procs, End(p), UNCHANGED metadata
  PROVE  [Directory!Next]_(Directory!directoryVars)
  <1>1. /\ owner' = [d \in LevelDBs |-> IF owner[d] = p THEN Nobody ELSE owner[d]]
        /\ \A q \in Procs \ {p} : uploads'[q] = uploads[q] /\ pc'[q] = pc[q]
        /\ UNCHANGED <<saved, torn>>
    BY DEF End, StartupInv, TypeOK, metadata
  <1>2. CASE Holder = p
    BY <1>1, <1>2, WalletDirs, StartupAssumption
    DEF Holder, Directory!Release, Directory!Next
  <1>3. CASE Holder # p
    <2>1. Holder' = Holder
      BY <1>1, <1>3, WalletDirs DEF Holder
    <2>2. Holder = Nobody \/ (uploads'[Holder] = uploads[Holder] /\ pc'[Holder] = pc[Holder])
      BY <1>1, <1>3, WalletDirs DEF Holder, StartupInv, TypeOK
    <2>3. QED
      BY <1>1, <2>1, <2>2 DEF Directory!directoryVars
  <1>4. QED
    BY <1>2, <1>3

\* A step of start-up that leaves the holder where it is, short of the services or
\* past them, is none of the directory's.
LEMMA SameDirectory ==
  ASSUME StartupInv, NEW p \in Procs, NEW step \in Steps \ {"services"}, Proceed(p, step),
         UNCHANGED <<Holder, uploads>>
  PROVE  UNCHANGED Directory!directoryVars
  <1>1. After[step] \in Loaded <=> step \in Loaded
    BY DEF Steps, After, Loaded
  <1>2. /\ pc[p] = step /\ pc'[p] = After[step]
        /\ \A q \in Procs : q # p => pc'[q] = pc[q]
        /\ UNCHANGED <<saved, torn>>
    BY ProceedStep DEF StartupInv
  <1>3. Holder = Nobody \/ Holder \in Procs
    BY WalletDirs DEF Holder, StartupInv, TypeOK
  <1> QED
    BY <1>1, <1>2, <1>3 DEF Directory!directoryVars

\* Of an upload's steps the first adds to the holder's list, and the others tear
\* the file or write it.
LEMMA UploadDirectory ==
  ASSUME StartupInv, NEW p \in Procs, NEW f \in Files, Upload(p, f)
  PROVE  [Directory!Next]_(Directory!directoryVars)
  <1>1. /\ Holder = p /\ p # Nobody
        /\ pc[Holder] \in Loaded
    BY SaverHolds, StartupAssumption DEF Holder
  <1>2. UNCHANGED <<pc, owner>>
    BY DEF Upload, TrackFile, BeginSave, EndSave, FailSave
  <1>3. Holder' = Holder
    BY <1>2 DEF Holder
  <1>4. CASE TrackFile(p, f)
    <2>1. uploads'[p] = uploads[p] \cup {f} /\ UNCHANGED <<saved, torn>>
      BY <1>4 DEF TrackFile, metadata, StartupInv, TypeOK
    <2>2. Directory!Add(f)
      BY <1>1, <1>2, <1>3, <2>1 DEF Directory!Add
    <2> QED
      BY <2>2 DEF Directory!Next
  <1>5. CASE torn' = TRUE /\ UNCHANGED <<uploads, saved>>
    <2>1. Directory!Tear
      BY <1>1, <1>2, <1>3, <1>5 DEF Directory!Tear
    <2> QED
      BY <2>1 DEF Directory!Next
  <1>6. CASE UNCHANGED <<uploads, saved, torn>>
    BY <1>1, <1>2, <1>3, <1>6 DEF Directory!directoryVars
  <1>7. CASE EndSave(p, f)
    <2>1. Directory!Save
      BY <1>1, <1>2, <1>3, <1>7 DEF Directory!Save, EndSave
    <2> QED
      BY <2>1 DEF Directory!Next
  <1>8. BeginSave(p, f) \/ FailSave(p, f) =>
          UNCHANGED <<uploads, saved>> /\ (torn' = TRUE \/ UNCHANGED torn)
    BY DEF BeginSave, FailSave
  <1> QED
    BY <1>4, <1>5, <1>6, <1>7, <1>8 DEF Upload

LEMMA DirectoryStep ==
  ASSUME StartupInv, StartupInv', [Next]_vars
  PROVE  [Directory!Next]_(Directory!directoryVars)
  <1>0. {"config", "data", "wallet", "key", "address", "datastore", "chain", "state",
         "services", "start", "listen"} = Steps
    BY DEF Steps, After
  <1>1. ASSUME NEW p \in Procs, Launch(p) PROVE UNCHANGED Directory!directoryVars
    <2>1. /\ \A q \in Procs : pc'[q] \in Loaded <=> pc[q] \in Loaded
          /\ UNCHANGED <<owner, uploads, saved, torn>>
      BY <1>1 DEF Launch, memory, metadata, StartupInv, TypeOK, Loaded
    <2>2. Holder = Nobody \/ Holder \in Procs
      BY WalletDirs DEF Holder, StartupInv, TypeOK
    <2>3. QED
      BY <2>1, <2>2 DEF Holder, Directory!directoryVars
  <1>2. ASSUME NEW p \in Procs, OpenDatastore(p) PROVE Directory!Next
    <2>1. Holder = Nobody /\ Holder' = p /\ UNCHANGED <<uploads, saved, torn>>
      BY <1>2, WalletDirs
      DEF OpenDatastore, OpenLevelDB, Proceed, Holder, StartupInv, TypeOK
    <2>2. uploads[p] = {}
      BY <1>2 DEF OpenDatastore, Proceed, StartupInv, Loaded
    <2>3. pc'[p] \notin Loaded
      BY <1>2 DEF OpenDatastore, Proceed, StartupInv, TypeOK, After, Loaded
    <2>4. Directory!Acquire(p)
      BY <2>1, <2>2, <2>3, StartupAssumption DEF Directory!Acquire
    <2>5. QED
      BY <2>4 DEF Directory!Next
  <1>3. ASSUME NEW p \in Procs, NewPDPServer(p) PROVE Directory!Next
    <2>1. Holder = p /\ Holder' = p
      BY <1>3 DEF NewPDPServer, Proceed, StartupInv, Opened, Holder
    <2>2. /\ uploads'[p] \in {saved, {}} /\ (torn => uploads'[p] = {})
          /\ UNCHANGED <<saved, torn>>
      BY <1>3 DEF NewPDPServer, LoadMetadata, Proceed, StartupInv, TypeOK
    <2>3. pc[p] \notin Loaded /\ pc'[p] \in Loaded
      BY <1>3 DEF NewPDPServer, Proceed, StartupInv, TypeOK, After, Loaded
    <2>4. Directory!Load
      BY <2>1, <2>2, <2>3, StartupAssumption DEF Directory!Load
    <2>5. QED
      BY <2>4 DEF Directory!Next
  <1>4. ASSUME NEW p \in Procs, NEW f \in Files, Upload(p, f)
        PROVE  [Directory!Next]_(Directory!directoryVars)
    BY <1>4, UploadDirectory
  <1>5. ASSUME NEW p \in Procs, Refuse(p) \/ Fail(p)
        PROVE  [Directory!Next]_(Directory!directoryVars)
    BY <1>5, EndReleases DEF Refuse, Fail
  <1>6. ASSUME NEW p \in Procs, NewWalletManager(p) PROVE UNCHANGED Directory!directoryVars
    <2>1. UNCHANGED <<Holder, uploads>>
      BY <1>6, WalletDirs DEF NewWalletManager, OpenLevelDB, Holder
    <2>2. QED
      BY <1>0, <1>6, <2>1, SameDirectory DEF NewWalletManager
  <1>7. ASSUME NEW p \in Procs,
               \/ LoadConfig(p) \/ OpenDataDir(p) \/ ImportKey(p) \/ HasAddress(p)
               \/ ConnectChain(p) \/ OpenStateDB(p) \/ Start(p) \/ Listen(p)
        PROVE  UNCHANGED Directory!directoryVars
    <2>1. PICK step \in Steps \ {"services"} : Proceed(p, step)
      BY <1>0, <1>7 DEF LoadConfig, OpenDataDir, ImportKey, HasAddress, ConnectChain,
                        OpenStateDB, Start, Listen
    <2>2. UNCHANGED <<Holder, uploads>>
      BY <1>7 DEF LoadConfig, OpenDataDir, ImportKey, HasAddress, ConnectChain,
                  OpenStateDB, Start, Listen, Holder
    <2>3. QED
      BY <2>1, <2>2, SameDirectory
  <1>8. CASE UNCHANGED vars
    BY <1>8 DEF vars, memory, metadata, Holder, Directory!directoryVars
  <1>9. QED
    BY <1>1, <1>2, <1>3, <1>4, <1>5, <1>6, <1>7, <1>8 DEF Next, Step

\* Whatever order processes start, fail and die in, they hold the data directory
\* one after the other; only the holder writes uploads.json, after it looked for a
\* list there, and what it writes is its own list whole or a torn file.
THEOREM ImplementsDirectory == Spec => DirectorySpec
  <1>1. Init => Directory!Init
    BY WalletDirs, StartupAssumption DEF Init, Directory!Init, Holder, LevelDBs
  <1>2. StartupInv /\ StartupInv' /\ [Next]_vars =>
          [Directory!Next]_(Directory!directoryVars)
    BY DirectoryStep
  <1>3. QED
    BY <1>1, <1>2, StartupInvariance, PTL DEF Spec, DirectorySpec, Directory!Spec

===============================================================================
