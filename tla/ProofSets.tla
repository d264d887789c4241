------------------------------ MODULE ProofSets ------------------------------
(***************************************************************************)
(* The two proof set services (pkg/proofset) and their HTTP handlers       *)
(* (pkg/api/server.go).  SimpleProofSetService keeps a table of its own;   *)
(* ProofSetService reads what Piri wrote about proof sets, in queries that *)
(* are not one transaction, while Piri goes on writing.                    *)
(*                                                                         *)
(* main gives ProofSetService the server's own database, which has none of *)
(* Piri's tables but a table of the same name as one of them; the code is  *)
(* written for Piri's database.  Both are behaviours of this model.        *)
(***************************************************************************)
EXTENDS Naturals, Sequences

CONSTANTS
  Handlers,       \* goroutines serving proof set requests
  Hashes,         \* hashes of the transactions Piri sends
  Names,          \* names clients give to proof sets
  MaxSets,        \* bound on the proof sets of either table
  Databases,      \* what ProofSetService may have been given: "own", "piri"
  Faults          \* which of "db" queries and "piri" calls may fail

NoHash == ""      \* Go's zero value of CreateMessageHash
NoID == 0         \* Go's zero value of an ID

ASSUME ProofSetsAssumption ==
  /\ NoHash \notin Hashes
  /\ MaxSets \in Nat
  /\ Databases \subseteq {"own", "piri"} /\ Faults \subseteq {"db", "piri"}

SetIDs == 1 .. MaxSets

VARIABLES
  database,       \* the database ProofSetService was given
  simpleSets,     \* rows of the simple service's table, by ID
  creates,        \* Piri's creations: hash -> ProofsetCreated
  proofSets,      \* Piri's proof sets: hash of the creation -> ID
  waits,          \* Piri's transactions: hash -> what became of it
  pc,             \* the next thing each request does, or how it ended
  req,            \* what each request asks for
  read,           \* what each request has read: its answer, once it ended
  told,           \* history: creations somebody was told are done
  known           \* history: what told was when each request came

piri == <<creates, proofSets, waits>>
requests == <<pc, req, read, told, known>>
vars == <<database, simpleSets, piri, requests>>

-------------------------------------------------------------------------------
(* Data.                                                                   *)

Request ==
       [op: {"post"}, name: Names]
  \cup [op: {"getSimple", "status", "getByID"}, id: SetIDs]
  \cup [op: {"get"}, hash: Hashes]
  \cup [op: {"list", "roots", "addRoots", "create"}]

NoRequest == [op |-> "none"]

PartialFunctions(S, T) == UNION {[D -> T] : D \in SUBSET S}

\* hash: the creation a request is about; flags and ids: what it has read of
\* ProofsetCreated and of the ID of each; missed: those whose ID query failed.
Answers == [hash: Hashes \cup {NoHash},
            flags: PartialFunctions(Hashes \cup {NoHash}, BOOLEAN),
            ids: PartialFunctions(Hashes \cup {NoHash}, SetIDs \cup {NoID}),
            missed: SUBSET Hashes]

Nothing == [hash |-> NoHash, flags |-> << >>, ids |-> << >>, missed |-> {}]

Ended == {"idle", "answered", "failed"}
Labels == Ended \cup {"insert", "first", "creates", "sets", "roots", "waits", "call"}

TypeOK ==
  /\ database \in Databases
  /\ simpleSets \in Seq(Names)
  /\ creates \in PartialFunctions(Hashes, BOOLEAN)
  /\ proofSets \in PartialFunctions(Hashes, SetIDs)
  /\ waits \in PartialFunctions(Hashes, {"pending", "succeeded", "reverted"})
  /\ pc \in [Handlers -> Labels]
  /\ req \in [Handlers -> Request \cup {NoRequest}]
  /\ read \in [Handlers -> Answers]
  /\ told \subseteq Hashes
  /\ known \in [Handlers -> SUBSET Hashes]

Init ==
  /\ database \in Databases
  /\ simpleSets = << >>
  /\ creates = << >> /\ proofSets = << >> /\ waits = << >>
  /\ pc = [h \in Handlers |-> "idle"]
  /\ req = [h \in Handlers |-> NoRequest]
  /\ read = [h \in Handlers |-> Nothing]
  /\ told = {}
  /\ known = [h \in Handlers |-> {}]

\* f with t mapped to x
With(f, t, x) == [u \in DOMAIN f \cup {t} |-> IF u = t THEN x ELSE f[u]]

\* A query on a table that only Piri's database has.
PiriTables == database = "piri"

-------------------------------------------------------------------------------
(* Requests.                                                               *)

Accept(h, r, label) ==
  /\ pc[h] \in Ended
  /\ pc' = [pc EXCEPT ![h] = label]
  /\ req' = [req EXCEPT ![h] = r]
  /\ read' = [read EXCEPT ![h] = [Nothing EXCEPT !.hash = IF r.op = "get" THEN r.hash ELSE NoHash]]
  /\ known' = [known EXCEPT ![h] = told]
  /\ UNCHANGED <<database, simpleSets, piri, told>>

\* MaxSets bounds the creations.
HandleCreateProofSet(h) ==
  /\ Len(simpleSets) < MaxSets /\ \A g \in Handlers : pc[g] # "insert"
  /\ \E n \in Names : Accept(h, [op |-> "post", name |-> n], "insert")

HandleGetProofSet(h) == \E id \in SetIDs : Accept(h, [op |-> "getSimple", id |-> id], "first")

HandleListProofSets(h) == Accept(h, [op |-> "list"], "creates")

HandleAddRootsToProofSet(h) == Accept(h, [op |-> "addRoots"], "call")

HandleGetProofSetRoots(h) == Accept(h, [op |-> "roots"], "roots")

HandleGetProofSetStatus(h) == \E id \in SetIDs : Accept(h, [op |-> "status", id |-> id], "first")

\* ProofSetService's operations that no route reaches.
CallCreateProofSet(h) == Accept(h, [op |-> "create"], "call")

CallGetProofSet(h) == \E t \in Hashes : Accept(h, [op |-> "get", hash |-> t], "creates")

CallGetProofSetByID(h) == \E id \in SetIDs : Accept(h, [op |-> "getByID", id |-> id], "first")

\* The request goes on with the query of label, or ends, having read r.
GoOn(h, label, r) ==
  /\ pc' = [pc EXCEPT ![h] = label]
  /\ read' = [read EXCEPT ![h] = r]
  /\ told' = IF label = "answered" THEN told \cup {t \in DOMAIN r.flags : r.flags[t]} ELSE told
  /\ UNCHANGED <<database, req, known>>

-------------------------------------------------------------------------------
(* SimpleProofSetService.                                                  *)

CreateProofSet(h) ==
  /\ pc[h] = "insert"
  /\ simpleSets' = Append(simpleSets, req[h].name)
  /\ GoOn(h, "answered", read[h])
  /\ UNCHANGED piri

GetProofSet(h) ==
  /\ pc[h] = "first" /\ req[h].op = "getSimple"
  /\ req[h].id \in DOMAIN simpleSets
  /\ GoOn(h, "answered", read[h])
  /\ UNCHANGED <<simpleSets, piri>>

-------------------------------------------------------------------------------
(* ProofSetService, one action per query.                                  *)

\* The rows of creations, newest first: all of them, in one query.
ListCreates(h) ==
  /\ pc[h] = "creates" /\ req[h].op = "list" /\ PiriTables
  /\ GoOn(h, "sets", [read[h] EXCEPT !.flags = creates])
  /\ UNCHANGED <<simpleSets, piri>>

AfterCreates == [get |-> "sets", create |-> "sets", getByID |-> "answered", status |-> "roots"]

\* Slip: the error of the query is dropped, as that of the list's ID query is.
FindCreateUnchecked(h) ==
  /\ pc[h] = "creates" /\ req[h].op # "list"
  /\ LET t == read[h].hash IN
       GoOn(h, AfterCreates[req[h].op],
            [read[h] EXCEPT !.flags = With(@, t, t \in DOMAIN creates /\ PiriTables /\ creates[t])])
  /\ UNCHANGED <<simpleSets, piri>>

\* The row of the creation that a request is about.
FindCreate(h) ==
  /\ pc[h] = "creates" /\ req[h].op # "list" /\ PiriTables
  /\ LET t == read[h].hash IN
       /\ t \in DOMAIN creates
       /\ GoOn(h, AfterCreates[req[h].op], [read[h] EXCEPT !.flags = With(@, t, creates[t])])
  /\ UNCHANGED <<simpleSets, piri>>

\* The ID of the proof set that the creation of t led to, 0 if there is no row.
IDOf(t) == IF t \in DOMAIN proofSets THEN proofSets[t] ELSE NoID

AskedID(h, t) == pc[h] = "sets" /\ t \in DOMAIN read[h].flags \ DOMAIN read[h].ids

AfterID(h) == IF req[h].op = "list" THEN "sets" ELSE "answered"

\* Slip: what has no ID is not created.
FindIDAndStatus(h, t) ==
  /\ AskedID(h, t)
  /\ \E id \in {IDOf(t)} \cup (IF "db" \in Faults THEN {NoID} ELSE {}) :
       GoOn(h, AfterID(h), [read[h] EXCEPT !.ids = With(@, t, id), !.flags[t] = id # NoID])
  /\ UNCHANGED <<simpleSets, piri>>

\* The ID of one of the creations read before.
FindID(h, t) ==
  /\ AskedID(h, t)
  /\ GoOn(h, AfterID(h), [read[h] EXCEPT !.ids = With(@, t, IDOf(t))])
  /\ UNCHANGED <<simpleSets, piri>>

\* That query fails, and nobody looks at its error: the ID is 0.
MissID(h, t) ==
  /\ AskedID(h, t) /\ req[h].op \in {"list", "create"} /\ "db" \in Faults
  /\ GoOn(h, AfterID(h), [read[h] EXCEPT !.ids = With(@, t, NoID), !.missed = @ \cup {t}])
  /\ UNCHANGED <<simpleSets, piri>>

\* Slip: the status of each entry is looked up with the entry, at the end.
EndListAfresh(h) ==
  /\ pc[h] = "sets" /\ req[h].op = "list" /\ DOMAIN read[h].ids = DOMAIN read[h].flags
  /\ GoOn(h, "answered", [read[h] EXCEPT !.flags = [t \in DOMAIN @ |-> creates[t]]])
  /\ UNCHANGED <<simpleSets, piri>>

EndList(h) ==
  /\ pc[h] = "sets" /\ req[h].op = "list" /\ DOMAIN read[h].ids = DOMAIN read[h].flags
  /\ GoOn(h, "answered", read[h])
  /\ UNCHANGED <<simpleSets, piri>>

\* The first query of GetProofSetStatus and GetProofSetByID.  The server's own
\* database has a table of that name too: the simple service's, whose rows have
\* an ID and no hash.
SetsWithID(id) ==
  IF PiriTables THEN {t \in DOMAIN proofSets : proofSets[t] = id}
                ELSE {t \in {NoHash} : id \in DOMAIN simpleSets}

FindSet(h) ==
  /\ pc[h] = "first" /\ req[h].op \in {"status", "getByID"}
  /\ \E t \in SetsWithID(req[h].id) :
       GoOn(h, "creates", [read[h] EXCEPT !.hash = t, !.ids = With(@, t, req[h].id)])
  /\ UNCHANGED <<simpleSets, piri>>

\* The rows of the roots, all that GetProofSetRoots asks for.
GetProofSetRoots(h) ==
  /\ pc[h] = "roots" /\ PiriTables
  /\ GoOn(h, IF req[h].op = "status" THEN "waits" ELSE "answered", read[h])
  /\ UNCHANGED <<simpleSets, piri>>

\* The last query of GetProofSetStatus; that there is no row is no error.
GetTxStatus(h) ==
  /\ pc[h] = "waits" /\ PiriTables
  /\ GoOn(h, "answered", read[h])
  /\ UNCHANGED <<simpleSets, piri>>

\* A query finds no row where there must be one, or fails: the database does,
\* or the table does not exist in it.
FailQuery(h) ==
  /\ \/ "db" \in Faults /\ pc[h] \notin Ended \cup {"call", "sets"}
     \/ "db" \in Faults /\ pc[h] = "sets" /\ req[h].op = "get"
     \/ ~PiriTables /\ pc[h] \in {"creates", "roots", "waits"}
     \/ pc[h] = "creates" /\ req[h].op # "list" /\ read[h].hash \notin DOMAIN creates
     \/ /\ pc[h] = "first"
        /\ IF req[h].op = "getSimple" THEN req[h].id \notin DOMAIN simpleSets
                                      ELSE SetsWithID(req[h].id) = {}
  /\ GoOn(h, "failed", Nothing)
  /\ UNCHANGED <<simpleSets, piri>>

\* ProofSetCreate and ProofSetAddRoot send a transaction and record it in Piri's
\* database; CreateProofSet then reads that record, in the database it has.
SendTransaction(h, t) ==
  /\ pc[h] = "call" /\ t \notin DOMAIN waits
  /\ waits' = With(waits, t, "pending")
  /\ IF req[h].op = "create"
     THEN /\ creates' = With(creates, t, FALSE)
          /\ GoOn(h, "creates", [read[h] EXCEPT !.hash = t])
     ELSE UNCHANGED creates /\ GoOn(h, "answered", read[h])
  /\ UNCHANGED <<simpleSets, proofSets>>

\* Piri fails, and has sent nothing.
FailCall(h) ==
  /\ pc[h] = "call" /\ "piri" \in Faults
  /\ GoOn(h, "failed", Nothing)
  /\ UNCHANGED <<simpleSets, piri>>

-------------------------------------------------------------------------------
(* Piri, which follows the chain.                                          *)

PiriDecides(t, x) ==
  /\ t \in DOMAIN waits /\ waits[t] = "pending"
  /\ waits' = With(waits, t, x)
  /\ UNCHANGED <<database, simpleSets, creates, proofSets, requests>>

\* The creation was mined: Piri inserts the proof set with the chain's ID, ...
PiriInserts(t, id) ==
  /\ t \in DOMAIN creates \ DOMAIN proofSets /\ waits[t] = "succeeded"
  /\ \A u \in DOMAIN proofSets : proofSets[u] # id
  /\ proofSets' = With(proofSets, t, id)
  /\ UNCHANGED <<database, simpleSets, creates, waits, requests>>

\* ... and not before that marks the creation as done.
PiriMarks(t) ==
  /\ t \in DOMAIN creates \cap DOMAIN proofSets /\ ~creates[t]
  /\ creates' = With(creates, t, TRUE)
  /\ UNCHANGED <<database, simpleSets, proofSets, waits, requests>>

Handle(h) ==
  \/ HandleCreateProofSet(h) \/ HandleGetProofSet(h) \/ HandleListProofSets(h)
  \/ HandleAddRootsToProofSet(h) \/ HandleGetProofSetRoots(h) \/ HandleGetProofSetStatus(h)
  \/ CallCreateProofSet(h) \/ CallGetProofSet(h) \/ CallGetProofSetByID(h)

Query(h) ==
  \/ CreateProofSet(h) \/ GetProofSet(h)
  \/ ListCreates(h) \/ FindCreate(h) \/ FindSet(h)
  \/ \E t \in Hashes : FindID(h, t) \/ MissID(h, t)
  \/ EndList(h) \/ GetProofSetRoots(h) \/ GetTxStatus(h)
  \/ FailQuery(h)

Call(h) == FailCall(h) \/ \E t \in Hashes : SendTransaction(h, t)

Piri(t) ==
  \/ \E x \in {"succeeded", "reverted"} : PiriDecides(t, x)
  \/ \E id \in SetIDs : PiriInserts(t, id)
  \/ PiriMarks(t)

Next ==
  \/ \E h \in Handlers : Handle(h) \/ Query(h) \/ Call(h)
  \/ \E t \in Hashes : Piri(t)

Spec == Init /\ [][Next]_vars

-------------------------------------------------------------------------------
(* Properties.                                                             *)

\* An entry that says "created" has its ID, although status and ID come from
\* two queries with Piri writing in between; only a failed ID query, whose error
\* the list ignores, makes it 0.  It is the order of the two queries that does
\* it: status first.
CreatedHasID ==
  \A h \in Handlers : LET r == read[h] IN
    \A t \in DOMAIN r.flags \cap DOMAIN r.ids :
      r.flags[t] /\ t \notin r.missed => r.ids[t] # NoID

\* Whoever asks after somebody was told that a creation is done is told so too:
\* no list leaves it out, no answer calls it pending, whatever queries failed.
AnswersNeverGoBack ==
  \A h \in Handlers : pc[h] = "answered" =>
    /\ \A t \in known[h] \cap DOMAIN read[h].flags : read[h].flags[t]
    /\ req[h].op = "list" => known[h] \subseteq DOMAIN read[h].flags

\* What ProofSetService answers is about Piri's proof sets and says what Piri
\* wrote, also when its database is the one in which the table of proof sets is
\* the simple service's: there a later query of each operation fails.
AnswersArePiris ==
  \A h \in Handlers : pc[h] = "answered" =>
    /\ DOMAIN read[h].ids \subseteq DOMAIN creates
    /\ \A t \in DOMAIN read[h].ids : read[h].ids[t] \in {NoID, IDOf(t)}

-------------------------------------------------------------------------------
(* Why they hold: what every step preserves.                               *)

\* What Piri writes only grows, the proof set before the mark.
PiriInv ==
  /\ \A t \in DOMAIN creates : creates[t] => t \in DOMAIN proofSets
  /\ DOMAIN proofSets \subseteq DOMAIN creates /\ DOMAIN creates \subseteq DOMAIN waits
  /\ \A t \in told : t \in DOMAIN creates /\ creates[t]

\* What a request for op that came when seen had been told, and is at label, may
\* have read: no more than Piri wrote, the ID of what it read as created, and
\* as created what seen says.  A row of the simple service's table is only held
\* until the next query.
Justified(op, seen, label, r) ==
  /\ seen \subseteq told
  /\ \A t \in DOMAIN r.flags : t \in DOMAIN creates /\ (r.flags[t] => creates[t])
  /\ \A t \in DOMAIN r.ids :
       \/ t \in DOMAIN creates /\ r.ids[t] \in {NoID, IDOf(t)}
       \/ ~PiriTables /\ t = NoHash /\ label = "creates"
  /\ label = "creates" => \A t \in DOMAIN r.ids : r.ids[t] # NoID
  /\ label \in {"call", "creates", "first", "insert"} => DOMAIN r.flags = {}
  /\ label \in {"call", "first", "insert"} => DOMAIN r.ids = {}
  /\ \A t \in DOMAIN r.flags \cap DOMAIN r.ids :
       r.flags[t] /\ t \notin r.missed => r.ids[t] # NoID
  /\ \A t \in seen \cap DOMAIN r.flags : r.flags[t]
  /\ label = "insert" => op = "post"
  /\ label = "creates" => op \in DOMAIN AfterCreates \cup {"list"}
  /\ op = "list" => /\ label \in Ended \cup {"creates", "sets"}
                    /\ label \in {"sets", "answered"} => seen \subseteq DOMAIN r.flags

ReadsInv == \A h \in Handlers : Justified(req[h].op, known[h], pc[h], read[h])

ProofSetsInv == TypeOK /\ PiriInv /\ ReadsInv

-------------------------------------------------------------------------------
(* What the documentation says, and the code does not do.                  *)

\* docs/API.md:214 "List all proof sets.": when POST /proofsets created proof sets
\* before, GET /proofsets is answered and shows them (nobody creates one
\* meanwhile: one handler).  In the server's own database, which main gives the
\* service, the table that it lists does not exist: every such request ends in an
\* error, with nothing gone wrong but that.
ListShowsCreated ==
  [][\A h \in Handlers :
       req[h].op = "list" /\ pc[h] \notin Ended /\ pc'[h] \in Ended /\ simpleSets # << >> =>
         /\ pc'[h] = "answered"
         /\ \A id \in DOMAIN simpleSets :
              \E t \in DOMAIN read'[h].ids : read'[h].ids[t] = id]_vars

===============================================================================
