---------------------------- MODULE ProofSetsProofs ----------------------------
(* The answers about proof sets, for any number of requests, proof sets and *)
(* transactions, and whichever database the service was given.              *)
EXTENDS ProofSets, TLAPS

-------------------------------------------------------------------------------
(* Partial functions.                                                      *)

LEMMA PartialFact ==
  ASSUME NEW S, NEW T, NEW f
  PROVE  f \in PartialFunctions(S, T) <=> DOMAIN f \subseteq S /\ f \in [DOMAIN f -> T]
  BY DEF PartialFunctions

LEMMA EmptyFact == DOMAIN << >> = {} /\ \A S, T : << >> \in PartialFunctions(S, T)
  <1>1. DOMAIN << >> = {} /\ \A T : << >> \in [DOMAIN << >> -> T]
    OBVIOUS
  <1>2. QED
    BY <1>1, PartialFact

LEMMA WithFact ==
  ASSUME NEW f, NEW t, NEW x
  PROVE  /\ DOMAIN With(f, t, x) = DOMAIN f \cup {t}
         /\ With(f, t, x)[t] = x
         /\ \A u \in DOMAIN f \ {t} : With(f, t, x)[u] = f[u]
         /\ \A S, T : f \in PartialFunctions(S, T) /\ t \in S /\ x \in T =>
                        With(f, t, x) \in PartialFunctions(S, T)
  <1> DEFINE g == With(f, t, x)
  <1>1. /\ DOMAIN g = DOMAIN f \cup {t} /\ g[t] = x
        /\ \A u \in DOMAIN f \ {t} : g[u] = f[u]
        /\ g = [u \in DOMAIN g |-> g[u]]
    BY DEF With
  <1> HIDE DEF g
  <1>2. ASSUME NEW S, NEW T, f \in PartialFunctions(S, T), t \in S, x \in T
        PROVE  g \in PartialFunctions(S, T)
    <2>1. DOMAIN f \subseteq S /\ f \in [DOMAIN f -> T]
      BY <1>2, PartialFact
    <2>2. \A u \in DOMAIN g : g[u] \in T
      BY <1>1, <1>2, <2>1
    <2>3. DOMAIN g \subseteq S /\ g \in [DOMAIN g -> T]
      BY <1>1, <1>2, <2>1, <2>2
    <2>4. QED
      BY <2>3, PartialFact
  <1>3. QED
    BY <1>1, <1>2 DEF g

LEMMA NothingFact ==
  /\ Nothing \in Answers /\ DOMAIN Nothing.flags = {} /\ DOMAIN Nothing.ids = {}
  BY EmptyFact DEF Nothing, Answers

-------------------------------------------------------------------------------
(* A request's step.                                                       *)

\* A request that reads what it may read, and goes on, keeps the invariant.
LEMMA GoOnKeeps ==
  ASSUME ProofSetsInv, NEW h \in Handlers, NEW label \in Labels, NEW r \in Answers,
         GoOn(h, label, r), UNCHANGED piri, simpleSets' \in Seq(Names),
         Justified(req[h].op, known[h], label, r)
  PROVE  ProofSetsInv'
  <1> DEFINE done == {t \in DOMAIN r.flags : r.flags[t]}
  <1>1. /\ pc' = [pc EXCEPT ![h] = label] /\ read' = [read EXCEPT ![h] = r]
        /\ UNCHANGED <<database, req, known, creates, proofSets, waits>>
        /\ told' = told \/ told' = told \cup done
    BY DEF GoOn, piri
  <1>2. /\ pc \in [Handlers -> Labels] /\ read \in [Handlers -> Answers]
        /\ creates \in PartialFunctions(Hashes, BOOLEAN) /\ told \subseteq Hashes
    BY DEF ProofSetsInv, TypeOK
  <1>3. \A t \in done : t \in DOMAIN creates /\ creates[t]
    BY DEF Justified
  <1>4. TypeOK'
    <2>1. DOMAIN creates \subseteq Hashes
      BY <1>2, PartialFact
    <2>2. told' \subseteq Hashes
      BY <1>1, <1>2, <1>3, <2>1
    <2>3. pc' \in [Handlers -> Labels] /\ read' \in [Handlers -> Answers]
      BY <1>1, <1>2
    <2>4. QED
      BY <1>1, <2>2, <2>3 DEF ProofSetsInv, TypeOK
  <1>5. PiriInv'
    BY <1>1, <1>3 DEF ProofSetsInv, PiriInv
  <1>6. ReadsInv'
    <2>1. /\ pc'[h] = label /\ read'[h] = r
          /\ \A g \in Handlers \ {h} : pc'[g] = pc[g] /\ read'[g] = read[g]
      BY <1>1, <1>2
    <2>2. Justified(req[h].op, known[h], pc[h], read[h])'
      BY <1>1, <2>1 DEF Justified, IDOf, PiriTables
    <2>3. ASSUME NEW g \in Handlers \ {h}
          PROVE  Justified(req[g].op, known[g], pc[g], read[g])'
      <3>1. Justified(req[g].op, known[g], pc[g], read[g])
        BY DEF ProofSetsInv, ReadsInv
      <3>2. QED
        BY <1>1, <2>1, <3>1 DEF Justified, IDOf, PiriTables
    <2>4. QED
      BY <2>2, <2>3 DEF ReadsInv
  <1>7. QED
    BY <1>4, <1>5, <1>6 DEF ProofSetsInv

\* What the invariant says of one request.
LEMMA RequestFact ==
  ASSUME ProofSetsInv, NEW h \in Handlers
  PROVE  /\ pc[h] \in Labels /\ read[h] \in Answers /\ simpleSets \in Seq(Names)
         /\ DOMAIN creates \subseteq Hashes /\ creates \in [DOMAIN creates -> BOOLEAN]
         /\ DOMAIN proofSets \subseteq Hashes /\ proofSets \in [DOMAIN proofSets -> SetIDs]
         /\ Justified(req[h].op, known[h], pc[h], read[h])
  BY PartialFact DEF ProofSetsInv, TypeOK, ReadsInv

\* An answer to which a flag or an ID is added is one.
LEMMA AnswersFact ==
  ASSUME NEW r \in Answers
  PROVE  /\ \A t \in Hashes \cup {NoHash}, b \in BOOLEAN :
              [r EXCEPT !.flags = With(@, t, b)] \in Answers
         /\ \A t \in Hashes \cup {NoHash}, id \in SetIDs \cup {NoID} :
              [r EXCEPT !.ids = With(@, t, id)] \in Answers
         /\ \A t \in Hashes \cup {NoHash} : [r EXCEPT !.hash = t] \in Answers
         /\ \A f \in PartialFunctions(Hashes \cup {NoHash}, BOOLEAN) :
              [r EXCEPT !.flags = f] \in Answers
  <1>1. /\ r.flags \in PartialFunctions(Hashes \cup {NoHash}, BOOLEAN)
        /\ r.ids \in PartialFunctions(Hashes \cup {NoHash}, SetIDs \cup {NoID})
    BY DEF Answers
  <1>2. /\ \A t \in Hashes \cup {NoHash}, b \in BOOLEAN :
             With(r.flags, t, b) \in PartialFunctions(Hashes \cup {NoHash}, BOOLEAN)
        /\ \A t \in Hashes \cup {NoHash}, id \in SetIDs \cup {NoID} :
             With(r.ids, t, id) \in PartialFunctions(Hashes \cup {NoHash}, SetIDs \cup {NoID})
    BY <1>1, WithFact
  <1>3. QED
    BY <1>1, <1>2 DEF Answers

\* The steps that read nothing.
LEMMA PlainStep ==
  ASSUME ProofSetsInv, NEW h \in Handlers,
         CreateProofSet(h) \/ GetProofSet(h) \/ EndList(h) \/ GetProofSetRoots(h) \/ GetTxStatus(h)
  PROVE  ProofSetsInv'
  <1>1. simpleSets' \in Seq(Names) /\ UNCHANGED piri
    <2>1. CASE CreateProofSet(h)
      <3>1. req[h].op = "post" /\ simpleSets' = Append(simpleSets, req[h].name)
        BY <2>1, RequestFact DEF CreateProofSet, Justified
      <3>2. req[h].name \in Names
        BY <3>1 DEF ProofSetsInv, TypeOK, Request, NoRequest
      <3>3. QED
        BY <2>1, <3>1, <3>2, RequestFact DEF CreateProofSet
    <2>2. QED
      BY <2>1, RequestFact DEF GetProofSet, EndList, GetProofSetRoots, GetTxStatus
  <1>2. PICK label \in {"answered", "waits"} :
          /\ GoOn(h, label, read[h])
          /\ pc[h] \in {"insert", "first", "sets", "roots", "waits"}
          /\ label = "waits" => req[h].op = "status"
    BY DEF CreateProofSet, GetProofSet, EndList, GetProofSetRoots, GetTxStatus
  <1>3. label \in Labels /\ Justified(req[h].op, known[h], label, read[h])
    BY <1>2, RequestFact DEF Justified, Labels, Ended
  <1>4. QED
    BY <1>1, <1>2, <1>3, RequestFact, GoOnKeeps

\* A request ends without an answer.
LEMMA FailStep ==
  ASSUME ProofSetsInv, NEW h \in Handlers, FailQuery(h) \/ FailCall(h)
  PROVE  ProofSetsInv'
  <1>1. GoOn(h, "failed", Nothing) /\ UNCHANGED <<simpleSets, piri>>
    BY DEF FailQuery, FailCall
  <1>2. "failed" \in Labels /\ Justified(req[h].op, known[h], "failed", Nothing)
    BY RequestFact, NothingFact DEF Justified, Labels, Ended
  <1>3. QED
    BY <1>1, <1>2, RequestFact, NothingFact, GoOnKeeps

LEMMA ListCreatesStep ==
  ASSUME ProofSetsInv, NEW h \in Handlers, ListCreates(h) PROVE ProofSetsInv'
  <1> DEFINE r == [read[h] EXCEPT !.flags = creates]
  <1>1. GoOn(h, "sets", r) /\ UNCHANGED <<simpleSets, piri>> /\ pc[h] = "creates" /\ PiriTables
    BY DEF ListCreates
  <1>2. r \in Answers /\ r.flags = creates /\ r.ids = read[h].ids /\ r.missed = read[h].missed
    <2>1. creates \in PartialFunctions(Hashes \cup {NoHash}, BOOLEAN)
      BY RequestFact, PartialFact
    <2>2. read[h] \in Answers
      BY RequestFact
    <2>3. r \in Answers
      BY <2>1, <2>2, AnswersFact
    <2>4. r.flags = creates /\ r.ids = read[h].ids /\ r.missed = read[h].missed
      BY <2>2 DEF Answers
    <2>5. QED
      BY <2>3, <2>4
  <1> HIDE DEF r
  <1>3. "sets" \in Labels /\ Justified(req[h].op, known[h], "sets", r)
    BY <1>1, <1>2, RequestFact DEF Justified, Labels, Ended, ProofSetsInv, PiriInv
  <1>4. QED
    BY <1>1, <1>2, <1>3, RequestFact, GoOnKeeps

LEMMA FindCreateStep ==
  ASSUME ProofSetsInv, NEW h \in Handlers, FindCreate(h) PROVE ProofSetsInv'
  <1> DEFINE t == read[h].hash
             r == [read[h] EXCEPT !.flags = With(@, t, creates[t])]
  <1>1. /\ GoOn(h, AfterCreates[req[h].op], r) /\ UNCHANGED <<simpleSets, piri>>
        /\ pc[h] = "creates" /\ req[h].op # "list" /\ PiriTables /\ t \in DOMAIN creates
    BY DEF FindCreate
  <1> DEFINE label == AfterCreates[req[h].op]
  <1>a. GoOn(h, label, r) /\ label \in {"sets", "answered", "roots"}
    BY <1>1, RequestFact DEF Justified, AfterCreates
  <1>2. /\ r \in Answers /\ r.ids = read[h].ids /\ r.missed = read[h].missed
        /\ r.flags = With(read[h].flags, t, creates[t])
    <2>1. t \in Hashes /\ creates[t] \in BOOLEAN /\ read[h] \in Answers
      BY <1>1, RequestFact
    <2>2. r \in Answers
      BY <2>1, AnswersFact
    <2>3. QED
      BY <2>1, <2>2 DEF Answers
  <1>3. DOMAIN r.flags = {t} /\ r.flags[t] = creates[t]
    <2>1. DOMAIN read[h].flags = {}
      BY <1>1, RequestFact DEF Justified
    <2>2. QED
      BY <1>2, <2>1 DEF With
  <1> HIDE DEF r
  <1>4. t \in known[h] => creates[t]
    BY RequestFact DEF Justified, ProofSetsInv, PiriInv
  <1> HIDE DEF t, label
  <1>5. label \in Labels /\ Justified(req[h].op, known[h], label, r)
    BY <1>1, <1>a, <1>2, <1>3, <1>4, RequestFact DEF Justified, Labels, Ended
  <1>6. QED
    BY <1>1, <1>a, <1>2, <1>5, RequestFact, GoOnKeeps

\* An ID, or the lack of it, read after the flag.
LEMMA FindIDStep ==
  ASSUME ProofSetsInv, NEW h \in Handlers, NEW t \in Hashes, FindID(h, t) \/ MissID(h, t)
  PROVE  ProofSetsInv'
  <1> DEFINE found == [read[h] EXCEPT !.ids = With(@, t, IDOf(t))]
             lost == [read[h] EXCEPT !.ids = With(@, t, NoID), !.missed = @ \cup {t}]
             label == AfterID(h)
  <1>1. /\ UNCHANGED <<simpleSets, piri>> /\ AskedID(h, t)
        /\ GoOn(h, label, found) \/ GoOn(h, label, lost)
    BY DEF FindID, MissID
  <1>2. label \in {"sets", "answered"} /\ pc[h] = "sets" /\ t \in DOMAIN read[h].flags
    BY <1>1 DEF AfterID, AskedID
  <1>3. IDOf(t) \in SetIDs \cup {NoID} /\ read[h] \in Answers
    BY RequestFact DEF IDOf
  <1>4. /\ found \in Answers /\ found.flags = read[h].flags /\ found.missed = read[h].missed
        /\ found.ids = With(read[h].ids, t, IDOf(t))
    <2>1. found \in Answers
      BY <1>3, AnswersFact
    <2>2. QED
      BY <1>3, <2>1 DEF Answers
  <1>5. /\ lost \in Answers /\ lost.flags = read[h].flags /\ lost.missed = read[h].missed \cup {t}
        /\ lost.ids = With(read[h].ids, t, NoID)
    <2>1. [read[h] EXCEPT !.ids = With(@, t, NoID)] \in Answers
      BY <1>3, AnswersFact
    <2>2. QED
      BY <1>3, <2>1 DEF Answers
  <1> HIDE DEF found, lost, label
  <1>6. /\ t \in DOMAIN creates
        /\ read[h].flags[t] => IDOf(t) # NoID
    <2>1. t \in DOMAIN creates /\ (read[h].flags[t] => creates[t])
      BY <1>2, RequestFact DEF Justified
    <2>2. creates[t] => IDOf(t) \in SetIDs
      BY <2>1, RequestFact DEF ProofSetsInv, PiriInv, IDOf
    <2>3. QED
      BY <2>1, <2>2 DEF SetIDs, NoID
  <1>7. ASSUME NEW r \in Answers, NEW id \in {IDOf(t), NoID}, r.flags = read[h].flags,
               r.ids = With(read[h].ids, t, id), read[h].missed \subseteq r.missed,
               t \notin r.missed => id = IDOf(t)
        PROVE  Justified(req[h].op, known[h], label, r)
    <2>1. /\ DOMAIN r.ids = DOMAIN read[h].ids \cup {t} /\ r.ids[t] = id
          /\ \A u \in DOMAIN read[h].ids \ {t} : r.ids[u] = read[h].ids[u]
      BY <1>7 DEF With
    <2>2. QED
      BY <1>2, <1>6, <1>7, <2>1, RequestFact DEF Justified, Ended
  <1>8. /\ Justified(req[h].op, known[h], label, found)
        /\ Justified(req[h].op, known[h], label, lost)
    BY <1>4, <1>5, <1>7
  <1>9. label \in Labels
    BY <1>2 DEF Labels, Ended
  <1>10. QED
    BY <1>1, <1>4, <1>5, <1>8, <1>9, RequestFact, GoOnKeeps

LEMMA FindSetStep ==
  ASSUME ProofSetsInv, NEW h \in Handlers, FindSet(h) PROVE ProofSetsInv'
  <1>1. PICK t \in SetsWithID(req[h].id) :
          GoOn(h, "creates", [read[h] EXCEPT !.hash = t, !.ids = With(@, t, req[h].id)])
    BY DEF FindSet
  <1> DEFINE id == req[h].id
             r == [read[h] EXCEPT !.hash = t, !.ids = With(@, t, id)]
  <1>2. /\ UNCHANGED <<simpleSets, piri>> /\ pc[h] = "first" /\ req[h].op \in {"status", "getByID"}
        /\ GoOn(h, "creates", r)
    BY <1>1 DEF FindSet
  <1>3. id \in SetIDs /\ id # NoID
    BY <1>2 DEF ProofSetsInv, TypeOK, Request, NoRequest, SetIDs, NoID
  <1>4. /\ t \in Hashes \cup {NoHash}
        /\ \/ t \in DOMAIN creates /\ id = IDOf(t)
           \/ ~PiriTables /\ t = NoHash
    BY RequestFact DEF SetsWithID, IDOf, ProofSetsInv, PiriInv
  <1>5. r \in Answers /\ r.flags = read[h].flags /\ r.ids = With(read[h].ids, t, id)
    <2>1. read[h] \in Answers /\ [read[h] EXCEPT !.ids = With(@, t, id)] \in Answers
      BY <1>3, <1>4, RequestFact, AnswersFact
    <2>2. QED
      BY <1>4, <2>1 DEF Answers
  <1>6. DOMAIN r.flags = {} /\ DOMAIN r.ids = {t} /\ r.ids[t] = id
    <2>1. DOMAIN read[h].flags = {} /\ DOMAIN read[h].ids = {}
      BY <1>2, RequestFact DEF Justified
    <2>2. QED
      BY <1>5, <2>1 DEF With
  <1> HIDE DEF r, id
  <1>7. "creates" \in Labels /\ Justified(req[h].op, known[h], "creates", r)
    BY <1>2, <1>3, <1>4, <1>6, RequestFact DEF Justified, Labels, Ended, AfterCreates
  <1>8. QED
    BY <1>2, <1>5, <1>7, RequestFact, GoOnKeeps

-------------------------------------------------------------------------------
(* Steps that write Piri's tables.                                         *)

\* What Piri may do to its tables.
Grows ==
  /\ DOMAIN creates \subseteq DOMAIN creates'
  /\ \A t \in DOMAIN creates : creates[t] => creates'[t]
  /\ DOMAIN proofSets \subseteq DOMAIN proofSets'
  /\ \A t \in DOMAIN proofSets : proofSets'[t] = proofSets[t]

\* Piri's tables grow: nothing a request read before becomes wrong.
LEMMA ReadsKept ==
  ASSUME ProofSetsInv, Grows, UNCHANGED <<database, told>>, NEW h \in Handlers,
         (req[h])' = req[h], (known[h])' = known[h], (pc[h])' = pc[h], (read[h])' = read[h]
  PROVE  Justified(req[h].op, known[h], pc[h], read[h])'
  <1>1. Justified(req[h].op, known[h], pc[h], read[h])
    BY DEF ProofSetsInv, ReadsInv
  <1>2. \A t \in DOMAIN proofSets : t \in DOMAIN proofSets' /\ proofSets'[t] = proofSets[t]
    BY DEF Grows
  <1>3. \A t \in DOMAIN read[h].ids \cap DOMAIN creates :
          read[h].ids[t] \in {NoID, IDOf(t)} => read[h].ids[t] \in {NoID, IDOf(t)'}
    BY <1>2 DEF IDOf
  <1>4. QED
    BY <1>1, <1>3 DEF Justified, Grows, PiriTables

LEMMA SendStep ==
  ASSUME ProofSetsInv, NEW h \in Handlers, NEW t \in Hashes, SendTransaction(h, t)
  PROVE  ProofSetsInv'
  <1> DEFINE sent == With(waits, t, "pending")
             created == With(creates, t, FALSE)
             r == [read[h] EXCEPT !.hash = t]
  <1>1. /\ pc[h] = "call" /\ t \notin DOMAIN waits /\ waits' = sent
        /\ UNCHANGED <<simpleSets, proofSets, database, req, known, told>>
        /\ \/ /\ req[h].op = "create" /\ creates' = created
              /\ pc' = [pc EXCEPT ![h] = "creates"] /\ read' = [read EXCEPT ![h] = r]
           \/ /\ creates' = creates
              /\ pc' = [pc EXCEPT ![h] = "answered"] /\ read' = [read EXCEPT ![h] = read[h]]
    <2>1. DOMAIN read[h].flags = {} /\ pc[h] = "call"
      BY RequestFact DEF SendTransaction, Justified
    <2>2. QED
      BY <2>1 DEF SendTransaction, GoOn
  <1>2. /\ sent \in PartialFunctions(Hashes, {"pending", "succeeded", "reverted"})
        /\ DOMAIN sent = DOMAIN waits \cup {t}
    BY WithFact DEF ProofSetsInv, TypeOK
  <1>3. /\ created \in PartialFunctions(Hashes, BOOLEAN)
        /\ DOMAIN created = DOMAIN creates \cup {t} /\ created[t] = FALSE
        /\ \A u \in DOMAIN creates \ {t} : created[u] = creates[u]
    <2>1. creates \in PartialFunctions(Hashes, BOOLEAN) /\ FALSE \in BOOLEAN
      BY DEF ProofSetsInv, TypeOK
    <2>2. created \in PartialFunctions(Hashes, BOOLEAN)
      BY <2>1, WithFact
    <2>3. QED
      BY <2>2 DEF With
  <1>4. r \in Answers /\ r.flags = read[h].flags /\ r.ids = read[h].ids
    <2>1. read[h] \in Answers
      BY RequestFact
    <2>2. QED
      BY <2>1 DEF Answers
  <1>5. t \notin DOMAIN creates
    BY <1>1 DEF ProofSetsInv, PiriInv
  <1> HIDE DEF sent, created, r
  <1>6. TypeOK'
    <2>1. /\ pc' \in [Handlers -> Labels] /\ read' \in [Handlers -> Answers]
          /\ creates' \in PartialFunctions(Hashes, BOOLEAN)
      BY <1>1, <1>3, <1>4 DEF ProofSetsInv, TypeOK, Labels, Ended
    <2>2. QED
      BY <1>1, <1>2, <2>1 DEF ProofSetsInv, TypeOK
  <1>7. Grows
    BY <1>1, <1>3, <1>5 DEF Grows
  <1>8. PiriInv'
    BY <1>1, <1>2, <1>3, <1>5 DEF ProofSetsInv, PiriInv
  <1>9. ASSUME NEW g \in Handlers PROVE Justified(req[g].op, known[g], pc[g], read[g])'
    <2>1. CASE g # h
      <3>1. pc'[g] = pc[g] /\ read'[g] = read[g]
        BY <1>1, <2>1, RequestFact DEF ProofSetsInv, TypeOK
      <3>2. QED
        BY <1>1, <1>7, <3>1, ReadsKept
    <2>2. CASE g = h
      <3>1. /\ (pc'[h] = "creates" /\ req[h].op = "create") \/ pc'[h] = "answered"
            /\ read'[h].flags = read[h].flags /\ read'[h].ids = read[h].ids
        BY <1>1, <1>4 DEF ProofSetsInv, TypeOK
      <3>2. /\ DOMAIN read[h].flags = {} /\ DOMAIN read[h].ids = {} /\ known[h] \subseteq told
            /\ req[h].op # "list"
        BY <1>1, RequestFact DEF Justified, Ended
      <3>3. QED
        BY <1>1, <2>2, <3>1, <3>2 DEF Justified, Ended, AfterCreates
    <2>3. QED
      BY <2>1, <2>2
  <1>10. QED
    BY <1>6, <1>8, <1>9 DEF ProofSetsInv, ReadsInv

LEMMA PiriStep ==
  ASSUME ProofSetsInv, NEW t \in Hashes, Piri(t) PROVE ProofSetsInv'
  <1>1. /\ UNCHANGED <<database, simpleSets, requests>>
        /\ UNCHANGED <<creates, proofSets>> \/ UNCHANGED <<waits, creates>> \/ UNCHANGED <<waits, proofSets>>
    BY DEF Piri, PiriDecides, PiriInserts, PiriMarks
  <1>2. SUFFICES /\ Grows /\ PiriInv'
                 /\ creates' \in PartialFunctions(Hashes, BOOLEAN)
                 /\ proofSets' \in PartialFunctions(Hashes, SetIDs)
                 /\ waits' \in PartialFunctions(Hashes, {"pending", "succeeded", "reverted"})
    <2>1. TypeOK'
      BY <1>1, <1>2 DEF ProofSetsInv, TypeOK, requests
    <2>2. ReadsInv'
      BY <1>1, <1>2, ReadsKept DEF ReadsInv, requests
    <2>3. QED
      BY <1>2, <2>1, <2>2 DEF ProofSetsInv
  <1>3. ASSUME NEW x \in {"succeeded", "reverted"}, PiriDecides(t, x)
        PROVE  /\ waits' \in PartialFunctions(Hashes, {"pending", "succeeded", "reverted"})
               /\ DOMAIN waits' = DOMAIN waits
    <2> DEFINE written == With(waits, t, x)
    <2>1. /\ written \in PartialFunctions(Hashes, {"pending", "succeeded", "reverted"})
          /\ DOMAIN written = DOMAIN waits \cup {t}
      BY WithFact DEF ProofSetsInv, TypeOK
    <2>2. waits' = written /\ t \in DOMAIN waits
      BY <1>3 DEF PiriDecides
    <2> HIDE DEF written
    <2>3. QED
      BY <2>1, <2>2
  <1>4. ASSUME NEW id \in SetIDs, PiriInserts(t, id)
        PROVE  /\ proofSets' \in PartialFunctions(Hashes, SetIDs) /\ t \in DOMAIN creates
               /\ DOMAIN proofSets' = DOMAIN proofSets \cup {t}
               /\ \A u \in DOMAIN proofSets : proofSets'[u] = proofSets[u]
    <2> DEFINE written == With(proofSets, t, id)
    <2>1. /\ written \in PartialFunctions(Hashes, SetIDs)
          /\ DOMAIN written = DOMAIN proofSets \cup {t}
          /\ \A u \in DOMAIN proofSets \ {t} : written[u] = proofSets[u]
      <3>1. proofSets \in PartialFunctions(Hashes, SetIDs)
        BY DEF ProofSetsInv, TypeOK
      <3>2. written \in PartialFunctions(Hashes, SetIDs)
        BY <3>1, WithFact
      <3>3. QED
        BY <3>2 DEF With
    <2>2. proofSets' = written /\ t \in DOMAIN creates \ DOMAIN proofSets
      BY <1>4 DEF PiriInserts
    <2> HIDE DEF written
    <2>3. QED
      BY <2>1, <2>2
  <1>5. ASSUME PiriMarks(t)
        PROVE  /\ creates' \in PartialFunctions(Hashes, BOOLEAN) /\ t \in DOMAIN proofSets
               /\ DOMAIN creates' = DOMAIN creates /\ creates'[t] = TRUE
               /\ \A u \in DOMAIN creates \ {t} : creates'[u] = creates[u]
    <2> DEFINE written == With(creates, t, TRUE)
    <2>1. /\ written \in PartialFunctions(Hashes, BOOLEAN)
          /\ DOMAIN written = DOMAIN creates \cup {t} /\ written[t] = TRUE
          /\ \A u \in DOMAIN creates \ {t} : written[u] = creates[u]
      <3>1. creates \in PartialFunctions(Hashes, BOOLEAN) /\ TRUE \in BOOLEAN
        BY DEF ProofSetsInv, TypeOK
      <3>2. written \in PartialFunctions(Hashes, BOOLEAN)
        BY <3>1, WithFact
      <3>3. QED
        BY <3>2 DEF With
    <2>2. creates' = written /\ t \in DOMAIN creates \cap DOMAIN proofSets
      BY <1>5 DEF PiriMarks
    <2> HIDE DEF written
    <2>3. QED
      BY <2>1, <2>2
  <1>6. CASE \E x \in {"succeeded", "reverted"} : PiriDecides(t, x)
    <2>1. UNCHANGED <<creates, proofSets, told>>
      BY <1>6 DEF PiriDecides, requests
    <2>2. QED
      BY <1>3, <1>6, <2>1 DEF ProofSetsInv, TypeOK, PiriInv, Grows
  <1>7. CASE \E id \in SetIDs : PiriInserts(t, id)
    <2>1. UNCHANGED <<creates, waits, told>>
      BY <1>7 DEF PiriInserts, requests
    <2>2. QED
      BY <1>4, <1>7, <2>1 DEF ProofSetsInv, TypeOK, PiriInv, Grows
  <1>8. CASE PiriMarks(t)
    <2>1. UNCHANGED <<proofSets, waits, told>>
      BY <1>8 DEF PiriMarks, requests
    <2>2. QED
      BY <1>5, <1>8, <2>1 DEF ProofSetsInv, TypeOK, PiriInv, Grows
  <1>9. QED
    BY <1>6, <1>7, <1>8 DEF Piri

LEMMA AcceptStep ==
  ASSUME ProofSetsInv, NEW h \in Handlers, Handle(h) PROVE ProofSetsInv'
  <1>1. PICK r \in Request, label \in {"insert", "first", "creates", "roots", "call"} :
          /\ Accept(h, r, label)
          /\ label = "insert" => r.op = "post"
          /\ label = "creates" => r.op \in {"list", "get"}
          /\ r.op = "list" => label = "creates"
    <2>1. CASE HandleCreateProofSet(h)
      <3>1. PICK n \in Names : Accept(h, [op |-> "post", name |-> n], "insert")
        BY <2>1 DEF HandleCreateProofSet
      <3>2. [op |-> "post", name |-> n] \in Request
        BY DEF Request
      <3>3. QED
        BY <3>1, <3>2
    <2>2. CASE \E o \in {"getSimple", "status", "getByID"}, i \in SetIDs :
                 Accept(h, [op |-> o, id |-> i], "first")
      <3>1. PICK o \in {"getSimple", "status", "getByID"}, i \in SetIDs :
              Accept(h, [op |-> o, id |-> i], "first")
        BY <2>2
      <3>2. [op |-> o, id |-> i] \in Request
        BY DEF Request
      <3>3. QED
        BY <3>1, <3>2
    <2>3. CASE \E t \in Hashes : Accept(h, [op |-> "get", hash |-> t], "creates")
      <3>1. PICK t \in Hashes : Accept(h, [op |-> "get", hash |-> t], "creates")
        BY <2>3
      <3>2. [op |-> "get", hash |-> t] \in Request
        BY DEF Request
      <3>3. QED
        BY <3>1, <3>2
    <2>4. CASE \/ Accept(h, [op |-> "list"], "creates")
               \/ \E o \in {"create", "addRoots"} : Accept(h, [op |-> o], "call")
               \/ Accept(h, [op |-> "roots"], "roots")
      <3>1. \A o \in {"list", "roots", "addRoots", "create"} : [op |-> o] \in Request
        BY DEF Request
      <3>2. QED
        BY <2>4, <3>1
    <2>5. QED
      BY <2>1, <2>2, <2>3, <2>4
      DEF Handle, HandleGetProofSet, HandleListProofSets, HandleAddRootsToProofSet,
          HandleGetProofSetRoots, HandleGetProofSetStatus, CallCreateProofSet,
          CallGetProofSet, CallGetProofSetByID
  <1> DEFINE fresh == [Nothing EXCEPT !.hash = IF r.op = "get" THEN r.hash ELSE NoHash]
  <1>2. /\ pc' = [pc EXCEPT ![h] = label] /\ req' = [req EXCEPT ![h] = r]
        /\ read' = [read EXCEPT ![h] = fresh] /\ known' = [known EXCEPT ![h] = told]
        /\ UNCHANGED <<database, simpleSets, creates, proofSets, waits, told>>
    BY <1>1 DEF Accept, piri
  <1>3. fresh \in Answers /\ fresh.flags = Nothing.flags /\ fresh.ids = Nothing.ids
    <2>1. r.op = "get" => r.hash \in Hashes
      BY DEF Request
    <2>2. QED
      BY <2>1, NothingFact, AnswersFact DEF Answers
  <1> HIDE DEF fresh
  <1>4. TypeOK'
    <2>1. /\ pc' \in [Handlers -> Labels] /\ read' \in [Handlers -> Answers]
          /\ req' \in [Handlers -> Request \cup {NoRequest}]
          /\ known' \in [Handlers -> SUBSET Hashes]
      BY <1>1, <1>2, <1>3 DEF ProofSetsInv, TypeOK, Labels, Ended
    <2>2. QED
      BY <1>2, <2>1 DEF ProofSetsInv, TypeOK
  <1>5. PiriInv'
    BY <1>2 DEF ProofSetsInv, PiriInv
  <1>6. ASSUME NEW g \in Handlers PROVE Justified(req[g].op, known[g], pc[g], read[g])'
    <2>1. CASE g # h
      <3>1. /\ pc'[g] = pc[g] /\ read'[g] = read[g] /\ req'[g] = req[g] /\ known'[g] = known[g]
        BY <1>2, <2>1 DEF ProofSetsInv, TypeOK
      <3>2. QED
        BY <1>2, <3>1, ReadsKept DEF Grows
    <2>2. CASE g = h
      <3>1. /\ pc'[h] = label /\ req'[h] = r /\ known'[h] = told
            /\ DOMAIN read'[h].flags = {} /\ DOMAIN read'[h].ids = {}
        BY <1>2, <1>3, NothingFact DEF ProofSetsInv, TypeOK
      <3>2. QED
        BY <1>1, <1>2, <2>2, <3>1 DEF Justified, Ended, AfterCreates
    <2>3. QED
      BY <2>1, <2>2
  <1>7. QED
    BY <1>4, <1>5, <1>6 DEF ProofSetsInv, ReadsInv

-------------------------------------------------------------------------------
(* The theorems.                                                           *)

LEMMA InitProofSetsInv == Init => ProofSetsInv
  <1> SUFFICES ASSUME Init PROVE ProofSetsInv
    OBVIOUS
  <1>1. TypeOK
    BY EmptyFact, NothingFact DEF Init, TypeOK, Labels, Ended
  <1>2. PiriInv /\ ReadsInv
    BY EmptyFact, NothingFact DEF Init, PiriInv, ReadsInv, Justified, Ended, NoRequest
  <1>3. QED
    BY <1>1, <1>2 DEF ProofSetsInv

LEMMA NextProofSetsInv == ProofSetsInv /\ [Next]_vars => ProofSetsInv'
  <1>1. ASSUME ProofSetsInv, NEW h \in Handlers, Query(h) PROVE ProofSetsInv'
    BY <1>1, PlainStep, FailStep, ListCreatesStep, FindCreateStep, FindIDStep, FindSetStep DEF Query
  <1>2. ASSUME ProofSetsInv, NEW h \in Handlers, Call(h) PROVE ProofSetsInv'
    BY <1>2, FailStep, SendStep DEF Call
  <1>3. ASSUME ProofSetsInv, UNCHANGED vars PROVE ProofSetsInv'
    BY <1>3 DEF vars, piri, requests, ProofSetsInv, TypeOK, PiriInv, ReadsInv, Justified, IDOf,
                PiriTables
  <1>4. QED
    BY <1>1, <1>2, <1>3, PiriStep, AcceptStep DEF Next

\* What every step preserves holds of every state.
THEOREM ProofSetsInvariance == Spec => []ProofSetsInv
  <1>1. QED
    BY InitProofSetsInv, NextProofSetsInv, PTL DEF Spec

\* The state is well typed: -1 and other IDs no table has are never answered.
THEOREM ProofSetsTypeCorrect == Spec => []TypeOK
  <1>1. ProofSetsInv => TypeOK
    BY DEF ProofSetsInv
  <1>2. QED
    BY <1>1, ProofSetsInvariance, PTL

\* An entry answered as created has its ID, unless the query for it failed.
THEOREM CreatedIsIdentified == Spec => []CreatedHasID
  <1>1. ProofSetsInv => CreatedHasID
    BY DEF ProofSetsInv, ReadsInv, Justified, CreatedHasID
  <1>2. QED
    BY <1>1, ProofSetsInvariance, PTL

\* What was answered as created is never answered as pending afterwards.
THEOREM AnswersMonotone == Spec => []AnswersNeverGoBack
  <1>1. ProofSetsInv => AnswersNeverGoBack
    BY DEF ProofSetsInv, ReadsInv, Justified, AnswersNeverGoBack
  <1>2. QED
    BY <1>1, ProofSetsInvariance, PTL

\* No answer comes from the simple service's table.
THEOREM OnlyPirisAnswers == Spec => []AnswersArePiris
  <1>1. ProofSetsInv => AnswersArePiris
    BY DEF ProofSetsInv, ReadsInv, Justified, AnswersArePiris
  <1>2. QED
    BY <1>1, ProofSetsInvariance, PTL

===============================================================================
