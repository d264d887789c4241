------------------------------- MODULE Startup -------------------------------
(***************************************************************************)
(* From launch to serving requests: main and initializePDPServer           *)
(* (cmd/server/main.go) with the constructors they call in order           *)
(* (pkg/config, pkg/wallet, pkg/piri, pkg/api), for processes that a       *)
(* supervisor launches again and again over one data directory.            *)
(*                                                                         *)
(* Any step may fail, and then main exits; the directories it made stay,   *)
(* which os.MkdirAll and the migrations of the databases do not mind.      *)
(* Two steps open a LevelDB directory, which the library lets one process  *)
(* have open at a time.  The uploads that a process knows are loaded from  *)
(* uploads.json in the data directory once, and written back whole with    *)
(* every upload: a save that is cut off leaves a torn file, and NewUpload- *)
(* Service starts with an empty list when it cannot load the file.  How    *)
(* savers of one process share their lock is the subject of UploadService. *)
(***************************************************************************)
EXTENDS Naturals, Sequences

CONSTANTS
  Procs,          \* processes, each launched again when it ended
  HomeWallet,     \* process -> the wallet in its user's home, or NoWallet
  NoWallet,
  WithAddress,    \* wallets that hold the address ImportKey answers
  Files,          \* files that clients upload
  MaxFaults,      \* bound on steps and saves that fail by a fault, and on kills
  Nobody

Standalone == "standalone"      \* <data dir>/wallet
Datastore == "datastore"        \* <data dir>/datastore
Wallets == {HomeWallet[p] : p \in Procs} \cup {Standalone}
LevelDBs == Wallets \cup {Datastore}

ASSUME StartupAssumption ==
  /\ Nobody \notin Procs
  /\ {NoWallet, Datastore} \cap {HomeWallet[p] : p \in Procs} \subseteq {NoWallet}
  /\ HomeWallet \in [Procs -> Wallets]
  /\ NoWallet # Standalone /\ NoWallet # Datastore
  /\ NoWallet \notin WithAddress
  /\ MaxFaults \in Nat

VARIABLES
  pc,             \* the step each process is about to take
  owner,          \* the process that has each LevelDB directory open
  uploads,        \* what each process knows of uploaded files
  saves,          \* how far the upload of each file is in each process
  saved,          \* the list that was last written whole to uploads.json
  torn,           \* uploads.json has been truncated since
  blank,          \* history: the file was not loaded, and not written since
  faults          \* what failed by a fault, and kills, so far

memory == <<uploads, saves>>
metadata == <<saved, torn, blank>>
vars == <<pc, owner, memory, metadata, faults>>

-------------------------------------------------------------------------------
(* The order of start-up.                                                  *)

\* Slip: the services are made, and uploads.json is read, before Piri's server.
AfterServicesFirst ==
  [config |-> "data", data |-> "wallet", wallet |-> "key", key |-> "address",
   address |-> "services", services |-> "datastore", datastore |-> "chain",
   chain |-> "state", state |-> "start", start |-> "listen", listen |-> "serving"]

\* The step after each step.
After ==
  [config |-> "data", data |-> "wallet", wallet |-> "key", key |-> "address",
   address |-> "datastore", datastore |-> "chain", chain |-> "state",
   state |-> "services", services |-> "start", start |-> "listen", listen |-> "serving"]

Steps == DOMAIN After

\* A process that has taken its step at the datastore, or at the services.
Opened == {"chain", "state", "services", "start", "listen", "serving"}
Loaded == {"start", "listen", "serving"}

\* An upload is tracked and still to be saved, or its save has truncated the
\* file and not written it yet.
SaveStates == {"none", "tracked", "writing"}
NoSaves == [f \in Files |-> "none"]

TypeOK ==
  /\ pc \in [Procs -> Steps \cup {"down", "serving"}]
  /\ owner \in [LevelDBs -> Procs \cup {Nobody}]
  /\ uploads \in [Procs -> SUBSET Files]
  /\ saves \in [Procs -> [Files -> SaveStates]]
  /\ saved \subseteq Files
  /\ torn \in BOOLEAN /\ blank \in BOOLEAN
  /\ faults \in Nat

Init ==
  /\ pc = [p \in Procs |-> "down"]
  /\ owner = [d \in LevelDBs |-> Nobody]
  /\ uploads = [p \in Procs |-> {}]
  /\ saves = [p \in Procs |-> NoSaves]
  /\ saved = {} /\ torn = FALSE /\ blank = FALSE
  /\ faults = 0

\* The supervisor launches the process.
Launch(p) ==
  /\ pc[p] = "down"
  /\ pc' = [pc EXCEPT ![p] = "config"]
  /\ UNCHANGED <<owner, memory, metadata, faults>>

Proceed(p, step) ==
  /\ pc[p] = step
  /\ pc' = [pc EXCEPT ![p] = After[step]]
  /\ UNCHANGED <<saves, saved, torn>>

\* Slip: a directory that is open elsewhere is opened all the same.
OpenShared(p, dir) == owner' = [owner EXCEPT ![dir] = p]

OpenLevelDB(p, dir) ==
  /\ owner[dir] = Nobody
  /\ owner' = [owner EXCEPT ![dir] = p]

-------------------------------------------------------------------------------
(* The steps.                                                              *)

\* Nothing is made; defaults fill in what the file leaves out.
LoadConfig(p) == Proceed(p, "config") /\ UNCHANGED <<owner, uploads, blank, faults>>

\* The data directory, the database with its tables, and both blob stores.
OpenDataDir(p) == Proceed(p, "data") /\ UNCHANGED <<owner, uploads, blank, faults>>

\* Slip: the wallet of the user's home is not looked for.
WalletInDataDir(p) == Standalone

WalletOf(p) == IF HomeWallet[p] # NoWallet THEN HomeWallet[p] ELSE Standalone

\* The wallet of the user's home if it is there, else one in the data directory.
NewWalletManager(p) ==
  /\ Proceed(p, "wallet")
  /\ OpenLevelDB(p, WalletOf(p))
  /\ UNCHANGED <<uploads, blank, faults>>

\* The key file is read if there is one, and nothing is imported.
ImportKey(p) == Proceed(p, "key") /\ UNCHANGED <<owner, uploads, blank, faults>>

HasAddress(p) ==
  /\ Proceed(p, "address")
  /\ WalletOf(p) \in WithAddress
  /\ UNCHANGED <<owner, uploads, blank, faults>>

\* piri.NewServer, in three: its datastore; the wallet again, the Lotus URL and
\* the clients of the chain; its own database.
OpenDatastore(p) ==
  /\ Proceed(p, "datastore")
  /\ OpenLevelDB(p, Datastore)
  /\ UNCHANGED <<uploads, blank, faults>>

ConnectChain(p) == Proceed(p, "chain") /\ UNCHANGED <<owner, uploads, blank, faults>>

OpenStateDB(p) == Proceed(p, "state") /\ UNCHANGED <<owner, uploads, blank, faults>>

\* NewUploadService loads uploads.json (no file is an empty list) and ignores
\* that the file is torn, or that it cannot be read.
LoadMetadata(p) ==
  \/ /\ ~torn
     /\ uploads' = [uploads EXCEPT ![p] = saved]
     /\ blank' = FALSE /\ UNCHANGED faults
  \/ /\ \/ torn /\ UNCHANGED faults
        \/ ~torn /\ faults < MaxFaults /\ faults' = faults + 1
     /\ uploads' = [uploads EXCEPT ![p] = {}]
     /\ blank' = TRUE

\* The services.
NewPDPServer(p) == Proceed(p, "services") /\ LoadMetadata(p) /\ UNCHANGED owner

\* Piri's tasks, and then the watcher.
Start(p) == Proceed(p, "start") /\ UNCHANGED <<owner, uploads, blank, faults>>

\* Echo.Start: the port must be free, of other servers too.
Listen(p) ==
  /\ \A q \in Procs : pc[q] # "serving"
  /\ Proceed(p, "listen")
  /\ UNCHANGED <<owner, uploads, blank, faults>>

\* An upload enters the map, which savers do not let change while they write;
\* each file is uploaded by one request at a time.
TrackFile(p, f) ==
  /\ pc[p] = "serving" /\ saves[p][f] = "none"
  /\ \A g \in Files : saves[p][g] # "writing"
  /\ uploads' = [uploads EXCEPT ![p] = @ \cup {f}]
  /\ saves' = [saves EXCEPT ![p][f] = "tracked"]
  /\ UNCHANGED <<pc, owner, metadata, faults>>

\* os.WriteFile truncates the file, ...
BeginSave(p, f) ==
  /\ saves[p][f] = "tracked"
  /\ saves' = [saves EXCEPT ![p][f] = "writing"]
  /\ torn' = TRUE
  /\ UNCHANGED <<pc, owner, uploads, saved, blank, faults>>

\* ... and writes the whole map.
EndSave(p, f) ==
  /\ saves[p][f] = "writing"
  /\ saves' = [saves EXCEPT ![p][f] = "none"]
  /\ saved' = uploads[p]
  /\ torn' = FALSE /\ blank' = FALSE
  /\ UNCHANGED <<pc, owner, uploads, faults>>

\* The file cannot be opened, or not written whole: a warning, and that is all.
FailSave(p, f) ==
  /\ faults < MaxFaults
  /\ faults' = faults + 1
  /\ \/ saves[p][f] = "tracked" /\ UNCHANGED torn
     \/ saves[p][f] = "writing" /\ torn' \in {torn, TRUE}
  /\ saves' = [saves EXCEPT ![p][f] = "none"]
  /\ UNCHANGED <<pc, owner, uploads, saved, blank>>

Upload(p, f) == TrackFile(p, f) \/ BeginSave(p, f) \/ EndSave(p, f) \/ FailSave(p, f)

\* The process ends; the operating system releases what it had open.
End(p) ==
  /\ pc' = [pc EXCEPT ![p] = "down"]
  /\ owner' = [d \in LevelDBs |-> IF owner[d] = p THEN Nobody ELSE owner[d]]
  /\ uploads' = [uploads EXCEPT ![p] = {}]
  /\ saves' = [saves EXCEPT ![p] = NoSaves]

\* Why a step has to fail: the directory is open elsewhere, the wallet lacks the
\* address, the port is taken.
Impossible(p) ==
  \/ pc[p] = "wallet" /\ owner[WalletOf(p)] # Nobody
  \/ pc[p] = "address" /\ WalletOf(p) \notin WithAddress
  \/ pc[p] = "datastore" /\ owner[Datastore] # Nobody
  \/ pc[p] = "listen" /\ \E q \in Procs : pc[q] = "serving"

\* log.Fatalf.
Refuse(p) ==
  /\ Impossible(p)
  /\ End(p)
  /\ UNCHANGED <<metadata, faults>>

\* Any step of start-up may fail by some fault of what it uses, or the process
\* may be killed, during start-up or when it serves, in the middle of a save too.
Fail(p) ==
  /\ pc[p] # "down" /\ faults < MaxFaults
  /\ faults' = faults + 1
  /\ End(p)
  /\ UNCHANGED metadata

Step(p) ==
  \/ LoadConfig(p) \/ OpenDataDir(p) \/ NewWalletManager(p) \/ ImportKey(p) \/ HasAddress(p)
  \/ OpenDatastore(p) \/ ConnectChain(p) \/ OpenStateDB(p) \/ NewPDPServer(p)
  \/ Start(p) \/ Listen(p)

Next ==
  \E p \in Procs :
    \/ Launch(p) \/ Step(p) \/ Refuse(p) \/ Fail(p)
    \/ \E f \in Files : Upload(p, f)

Spec == Init /\ [][Next]_vars

\* The supervisor launches what ended (Restart=always), and start-up goes on.
Fairness ==
  \A p \in Procs : WF_vars(Launch(p)) /\ WF_vars(Step(p)) /\ WF_vars(Refuse(p))

FairSpec == Spec /\ Fairness

-------------------------------------------------------------------------------
(* Properties.                                                             *)

\* Of the processes that share the data directory at most one gets to Piri's
\* database and tasks, the watcher and the port, also when each uses a wallet of
\* its own: the wallet's lock does not do it.
OneServer ==
  \A p, q \in Procs : pc[p] \in Opened /\ pc[q] \in Opened => p = q

\* Processes that come and go do not overwrite each other's uploads: a save
\* drops nothing of the list that was last written whole, with the list some
\* process loaded before another one saved.  It drops entries only if its process
\* could not load the file and started with an empty list, which takes a kill
\* or a fault (StartupInv).
UploadsKept == [][~blank => saved \subseteq saved']_vars

\* Startup implements DataDirectory: through every order of start-up steps,
\* refusals, kills and failed saves the directory passes from one process to the
\* next, which writes nothing before it has it and has loaded its list.
Holder == owner[Datastore]
Directory == INSTANCE DataDirectory
               WITH holder <- Holder,
                    loaded <- Holder # Nobody /\ pc[Holder] \in Loaded,
                    known <- IF Holder = Nobody THEN {} ELSE uploads[Holder]
DirectorySpec == Directory!Spec

\* If some wallet has the address there is a server again and again, wherever
\* start-up failed or the server died before, and although the others keep trying:
\* what they leave behind, or have open, stops nobody for ever.
ServesAgain == []<>(\E p \in Procs : pc[p] = "serving")

-------------------------------------------------------------------------------
(* Why they hold: what every step preserves.                               *)

StartupInv ==
  /\ TypeOK
  /\ \A p \in Procs : pc[p] \in Opened => owner[Datastore] = p
  /\ \A p \in Procs : pc[p] \in Loaded /\ ~blank => saved \subseteq uploads[p]
  /\ \A p \in Procs : pc[p] \notin Loaded => uploads[p] = {}
  /\ \A p \in Procs : pc[p] # "serving" => saves[p] = NoSaves
  /\ torn => faults > 0 \/ \E p \in Procs, f \in Files : saves[p][f] = "writing"
  /\ blank => faults > 0

===============================================================================
