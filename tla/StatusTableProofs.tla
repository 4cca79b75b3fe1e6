--------------------------- MODULE StatusTableProofs ---------------------------
(***************************************************************************)
(* Theorems about the two sides of a table with a status: StateRoots, which *)
(* implements StatusTable for every number of roots and of L1 blocks, and   *)
(* Api, whose handlers read it, for all handlers, requests and rows.        *)
(***************************************************************************)
EXTENDS StateRoots, Api, TLAPS

-----------------------------------------------------------------------------
(* The state roots. *)

(* The inductive invariant: what the ticker has read was true of L1 when it was
   read, which the types say (safeRead <= safe, finalRead <= finalized), and L1
   never takes it back. *)
RootInv == RootTypeOK /\ StatusBelowHeads

(* What the type of the table says of its rows. *)
LEMMA RootRows ==
  ASSUME RootTypeOK
  PROVE  /\ DOMAIN roots = 1..Len(roots) /\ Len(roots) \in Nat
         /\ \A n \in DOMAIN roots : roots[n].block \in Nat /\ roots[n].status \in 0..2
<1>1. roots \in Seq(Root)
  BY DEF RootTypeOK
<1>2. DOMAIN roots = 1..Len(roots) /\ Len(roots) \in Nat /\ \A n \in 1..Len(roots) : roots[n] \in Root
  BY <1>1
<1>3. ASSUME NEW r \in Root PROVE r.block \in Nat /\ r.status \in 0..2
  BY StateRootsAssumption DEF Root
<1> QED  BY <1>2, <1>3

(* An update of a set of rows keeps blocks and table size. *)
LEMMA SetStatusRows ==
  ASSUME RootTypeOK, NEW S, NEW status \in 0..2, SetStatus(S, status)
  PROVE  /\ roots' \in Seq(Root) /\ Len(roots') = Len(roots)
         /\ DOMAIN roots' = DOMAIN roots
         /\ \A n \in DOMAIN roots :
              /\ roots'[n].block = roots[n].block
              /\ roots'[n].status = IF n \in S THEN status ELSE roots[n].status
<1>1. /\ roots \in Seq(Root) /\ Len(roots) \in Nat /\ DOMAIN roots = 1..Len(roots)
      /\ \A n \in 1..Len(roots) : roots[n] \in Root
  BY DEF RootTypeOK
<1> DEFINE f == [n \in 1..Len(roots) |->
                   IF n \in S THEN [roots[n] EXCEPT !.status = status] ELSE roots[n]]
<1>2. roots' = f
  BY <1>1 DEF SetStatus
<1>3. f \in [1..Len(roots) -> Root]
  BY <1>1 DEF Root
<1> HIDE DEF f
<1>4. f \in Seq(Root) /\ Len(f) = Len(roots) /\ DOMAIN f = 1..Len(roots)
  BY <1>1, <1>3
<1>5. ASSUME NEW n \in 1..Len(roots)
      PROVE  /\ f[n].block = roots[n].block
             /\ f[n].status = IF n \in S THEN status ELSE roots[n].status
  BY <1>1 DEF f, Root
<1> QED  BY <1>1, <1>2, <1>4, <1>5

(* A new root is the last row, and the others are as they were. *)
LEMMA StoreRootRows ==
  ASSUME RootTypeOK, StoreRoot
  PROVE  /\ roots' \in Seq(Root) /\ Len(roots') = Len(roots) + 1 /\ Len(roots') <= MaxRoots
         /\ DOMAIN roots' = 1..(Len(roots) + 1) /\ DOMAIN roots = 1..Len(roots)
         /\ \A n \in DOMAIN roots : roots'[n] = roots[n]
         /\ roots'[Len(roots) + 1].status = 0
<1>1. roots \in Seq(Root) /\ Len(roots) \in Nat /\ DOMAIN roots = 1..Len(roots)
  BY DEF RootTypeOK
<1>2. PICK b \in 1..head : roots' = Append(roots, [block |-> b, status |-> 0])
  BY DEF StoreRoot
<1>3. [block |-> b, status |-> 0] \in Root
  BY StateRootsAssumption DEF RootTypeOK, Root
<1>4. Len(roots) < MaxRoots /\ MaxRoots \in Nat
  BY StateRootsAssumption DEF StoreRoot
<1> QED  BY <1>1, <1>2, <1>3, <1>4

(* Every step keeps the types. *)
LEMMA RootTypeStep == RootTypeOK /\ [RootNext]_rootVars => RootTypeOK'
<1> SUFFICES ASSUME RootTypeOK, [RootNext]_rootVars PROVE RootTypeOK'
  OBVIOUS
<1> USE StateRootsAssumption
<1>1. CASE ChainStep
  BY <1>1 DEF ChainStep, RootTypeOK, readVars
<1>2. CASE StoreRoot
  BY <1>2, StoreRootRows DEF StoreRoot, RootTypeOK, chainVars, readVars
<1>3. CASE OnRollup \/ SyncMantleDaData \/ RetrieverSilent
  BY <1>3 DEF OnRollup, SyncMantleDaData, RetrieverSilent, RootTypeOK, chainVars, readVars
<1>4. CASE ReadSafe
  BY <1>4 DEF ReadSafe, RootTypeOK, chainVars
<1>5. CASE ReadFinalized
  BY <1>5 DEF ReadFinalized, LatestFinalizedBlockHeader, RootTypeOK, chainVars
<1>6. CASE UpdateSafeStatus
  <2>1. roots' \in Seq(Root) /\ Len(roots') = Len(roots)
    BY <1>6, SetStatusRows DEF UpdateSafeStatus
  <2> QED  BY <1>6, <2>1 DEF UpdateSafeStatus, RootTypeOK, chainVars, readVars
<1>7. CASE UpdateFinalizedStatus
  <2>1. roots' \in Seq(Root) /\ Len(roots') = Len(roots)
    BY <1>7, SetStatusRows DEF UpdateFinalizedStatus
  <2> QED  BY <1>7, <2>1 DEF UpdateFinalizedStatus, RootTypeOK, chainVars, readVars
<1>8. CASE EndTick
  BY <1>8 DEF EndTick, RootTypeOK, chainVars, readVars
<1>9. CASE UNCHANGED rootVars
  BY <1>9 DEF rootVars, RootTypeOK, chainVars, readVars
<1> QED  BY <1>1, <1>2, <1>3, <1>4, <1>5, <1>6, <1>7, <1>8, <1>9 DEF RootNext

(* Every step keeps the status below the blocks of L1. *)
LEMMA StatusStep == RootInv /\ [RootNext]_rootVars => StatusBelowHeads'
<1> SUFFICES ASSUME RootInv, [RootNext]_rootVars PROVE StatusBelowHeads'
  OBVIOUS
<1>1. RootTypeOK /\ StatusBelowHeads
  BY DEF RootInv
<1>2. /\ DOMAIN roots = 1..Len(roots) /\ Len(roots) \in Nat
      /\ \A n \in DOMAIN roots : roots[n].block \in Nat /\ roots[n].status \in 0..2
  BY <1>1, RootRows
<1>3. safe \in Nat /\ finalized \in Nat /\ safeRead <= safe /\ finalRead <= finalized
      /\ safeRead \in Nat /\ finalRead \in Nat
  BY <1>1, StateRootsAssumption DEF RootTypeOK
<1>4. CASE ChainStep
  BY <1>1, <1>2, <1>3, <1>4 DEF ChainStep, StatusBelowHeads
<1>5. CASE StoreRoot
  <2>1. UNCHANGED <<safe, finalized>>
    BY <1>5 DEF StoreRoot, chainVars
  <2>2. \A n \in DOMAIN roots' :
          (n \in DOMAIN roots /\ roots'[n] = roots[n]) \/ roots'[n].status = 0
    BY <1>1, <1>2, <1>5, StoreRootRows
  <2> QED  BY <1>1, <2>1, <2>2 DEF StatusBelowHeads
<1>6. CASE UpdateSafeStatus
  <2>1. UNCHANGED <<safe, finalized>> /\ SetStatus(SafeRows, 1)
    BY <1>6 DEF UpdateSafeStatus, chainVars
  <2>2. ASSUME NEW n \in DOMAIN roots'
        PROVE  /\ roots'[n].status = 1 => roots'[n].block < safe
               /\ roots'[n].status = 2 => roots'[n].block < finalized
    <3>1. n \in DOMAIN roots /\ roots'[n].block = roots[n].block
          /\ roots'[n].status = IF n \in SafeRows THEN 1 ELSE roots[n].status
      BY <1>1, <2>1, <2>2, SetStatusRows
    <3>2. n \in SafeRows => roots[n].block < safe
      BY <1>2, <1>3, <3>1 DEF SafeRows
    <3> QED  BY <1>1, <3>1, <3>2 DEF StatusBelowHeads
  <2> QED  BY <2>1, <2>2 DEF StatusBelowHeads
<1>7. CASE UpdateFinalizedStatus
  <2>1. UNCHANGED <<safe, finalized>> /\ SetStatus(FinalRows, 2)
    BY <1>7 DEF UpdateFinalizedStatus, chainVars
  <2>2. ASSUME NEW n \in DOMAIN roots'
        PROVE  /\ roots'[n].status = 1 => roots'[n].block < safe
               /\ roots'[n].status = 2 => roots'[n].block < finalized
    <3>1. n \in DOMAIN roots /\ roots'[n].block = roots[n].block
          /\ roots'[n].status = IF n \in FinalRows THEN 2 ELSE roots[n].status
      BY <1>1, <2>1, <2>2, SetStatusRows
    <3>2. n \in FinalRows => roots[n].block < finalized
      BY <1>2, <1>3, <3>1 DEF FinalRows
    <3> QED  BY <1>1, <3>1, <3>2 DEF StatusBelowHeads
  <2> QED  BY <2>1, <2>2 DEF StatusBelowHeads
<1>8. CASE \/ OnRollup \/ SyncMantleDaData \/ RetrieverSilent
           \/ ReadSafe \/ ReadFinalized \/ EndTick \/ UNCHANGED rootVars
  <2>1. UNCHANGED <<roots, safe, finalized>>
    BY <1>8 DEF OnRollup, SyncMantleDaData, RetrieverSilent, ReadSafe, ReadFinalized, EndTick,
                rootVars, chainVars
  <2> QED  BY <1>1, <2>1 DEF StatusBelowHeads
<1> QED  BY <1>4, <1>5, <1>6, <1>7, <1>8 DEF RootNext

(* The inductive invariant holds throughout. *)
THEOREM RootInvariant == RootSpec => []RootInv
<1>1. RootInit => RootInv
  BY StateRootsAssumption DEF RootInit, RootInv, RootTypeOK, StatusBelowHeads
<1>2. RootInv /\ [RootNext]_rootVars => RootInv'
  BY RootTypeStep, StatusStep DEF RootInv
<1> QED  BY <1>1, <1>2, PTL DEF RootSpec

(* Type correctness: the ticker never holds a block that L1 does not call safe,
   or finalized, any more. *)
THEOREM RootTypeCorrect == RootSpec => []RootTypeOK
<1>1. RootInv => RootTypeOK
  BY DEF RootInv
<1> QED  BY <1>1, RootInvariant, PTL

(* The status of a root says no more than L1 does. *)
THEOREM RootStatusBelowHeads == RootSpec => []StatusBelowHeads
<1>1. RootInv => StatusBelowHeads
  BY DEF RootInv
<1> QED  BY <1>1, RootInvariant, PTL

(* The table is the one that Api reads: every step adds a row with status 0,
   raises the status of some rows, or leaves all of them alone. *)
THEOREM RootImplementsStatusTable == RootSpec => ImplementsStatusTable
<1> DEFINE st == [n \in DOMAIN roots |-> roots[n].status]
<1>1. RootInit => Table!TableInit
  BY DEF RootInit, Table!TableInit
<1>2. ASSUME RootTypeOK, [RootNext]_rootVars PROVE [Table!TableNext]_st
  <2>1. DOMAIN roots = 1..Len(roots) /\ Len(roots) \in Nat /\ \A n \in DOMAIN roots : roots[n].status \in 0..2
    BY <1>2, RootRows
  <2>2. st \in Seq(0..2) /\ Len(st) = Len(roots)
    BY <2>1
  <2>3. ASSUME NEW S \in SUBSET DOMAIN roots, NEW s \in 0..2, SetStatus(S, s),
               \A n \in S : roots[n].status <= s
        PROVE  Table!RaiseStatus
    <3>1. /\ DOMAIN roots' = DOMAIN roots
          /\ \A n \in DOMAIN roots : roots'[n].status = IF n \in S THEN s ELSE roots[n].status
      BY <1>2, <2>3, SetStatusRows
    <3>2. st' = [n \in DOMAIN st |-> IF n \in S THEN s ELSE st[n]]
      BY <3>1
    <3>3. S \in SUBSET DOMAIN st /\ \A n \in S : st[n] <= s
      BY <2>3
    <3> QED  BY <3>2, <3>3 DEF Table!RaiseStatus, Table!Status
  <2>4. CASE StoreRoot
    <3>1. /\ Len(roots') = Len(roots) + 1 /\ Len(roots') <= MaxRoots
          /\ DOMAIN roots' = 1..(Len(roots) + 1)
          /\ \A n \in DOMAIN roots : roots'[n] = roots[n]
          /\ roots'[Len(roots) + 1].status = 0
      BY <1>2, <2>4, StoreRootRows
    <3>2. DOMAIN st' = 1..(Len(roots) + 1) /\ \A n \in 1..(Len(roots) + 1) :
            st'[n] = IF n = Len(roots) + 1 THEN 0 ELSE st[n]
      BY <2>1, <3>1
    <3>3. Append(st, 0) = [n \in 1..(Len(roots) + 1) |-> IF n = Len(roots) + 1 THEN 0 ELSE st[n]]
      BY <2>1, <2>2
    <3>4. st' = Append(st, 0)
      BY <3>2, <3>3
    <3>5. Len(st) < MaxRoots
      BY <2>1, <2>2, <3>1, StateRootsAssumption
    <3> QED  BY <3>4, <3>5 DEF Table!TableNext, Table!AddRow
  <2>5. CASE UpdateSafeStatus
    <3>1. SetStatus(SafeRows, 1) /\ SafeRows \in SUBSET DOMAIN roots
          /\ \A n \in SafeRows : roots[n].status <= 1
      BY <2>5 DEF UpdateSafeStatus, SafeRows
    <3> QED  BY <2>3, <3>1 DEF Table!TableNext
  <2>6. CASE UpdateFinalizedStatus
    <3>1. SetStatus(FinalRows, 2) /\ FinalRows \in SUBSET DOMAIN roots
          /\ \A n \in FinalRows : roots[n].status <= 2
      BY <2>1, <2>6 DEF UpdateFinalizedStatus, FinalRows
    <3> QED  BY <2>3, <3>1 DEF Table!TableNext
  <2>7. CASE \/ ChainStep \/ OnRollup \/ SyncMantleDaData \/ RetrieverSilent
             \/ ReadSafe \/ ReadFinalized \/ EndTick \/ UNCHANGED rootVars
    BY <2>7 DEF ChainStep, OnRollup, SyncMantleDaData, RetrieverSilent, ReadSafe, ReadFinalized,
                EndTick, rootVars
  <2> QED  BY <1>2, <2>4, <2>5, <2>6, <2>7 DEF RootNext
<1> QED  BY <1>1, <1>2, RootTypeCorrect, PTL DEF RootSpec, ImplementsStatusTable, Table!TableSpec

-----------------------------------------------------------------------------
(* The handlers of the API. *)

(* What body says of req is true of the table: it can be out of date. *)
TrueOf(req, body) ==
  body.kind = "record" =>
    /\ req.route = "record" /\ body.of = req.of
    /\ body.of \in DOMAIN rows /\ body.status <= rows[body.of]

(* What is in the cache, in a handler's hands and in the last answer is true of
   the request it was read for; who asked for a record that was there has not
   read null. *)
CacheInv == \A req \in DOMAIN cache : TrueOf(req, cache[req])

HandlerInv ==
  \A h \in Handlers :
    /\ handler[h].pc # "idle" /\ handler[h].had =>
         handler[h].req.route = "record" /\ handler[h].req.of \in DOMAIN rows
    /\ handler[h].pc = "add" =>
         /\ TrueOf(handler[h].req, handler[h].got)
         /\ handler[h].had => handler[h].got.kind # "null"

AnswerInv ==
  IF answer.req = Idle
  THEN answer.body.kind = "none"
  ELSE TrueOf(answer.req, answer.body) /\ ~ answer.had

(* The inductive invariant.  AnswerTrue alone says nothing of the answers to come,
   which are already in the cache or with a handler that has queried. *)
ApiInv == ApiTypeOK /\ CacheInv /\ HandlerInv /\ AnswerInv

(* Rows are only added, and a status only rises. *)
LEMMA TableRises ==
  ASSUME rows \in Seq(Status), Len(rows) <= MaxRows, TableNext
  PROVE  /\ rows' \in Seq(Status) /\ Len(rows') <= MaxRows
         /\ \A n \in DOMAIN rows : n \in DOMAIN rows' /\ rows[n] <= rows'[n]
<1>1. /\ DOMAIN rows = 1..Len(rows) /\ Len(rows) \in Nat
      /\ \A n \in 1..Len(rows) : rows[n] \in 0..MaxStatus /\ MaxStatus \in Nat
  BY StatusTableAssumption DEF Status
<1>2. CASE AddRow
  <2>1. 0 \in Status /\ rows' = Append(rows, 0) /\ Len(rows) < MaxRows /\ MaxRows \in Nat
    BY <1>2, StatusTableAssumption DEF AddRow, Status
  <2>2. /\ rows' \in Seq(Status) /\ Len(rows') = Len(rows) + 1
        /\ \A n \in 1..Len(rows) : rows'[n] = rows[n]
    BY <2>1
  <2>3. DOMAIN rows' = 1..(Len(rows) + 1)
    BY <2>2
  <2> QED  BY <1>1, <2>1, <2>2, <2>3
<1>3. CASE RaiseStatus
  <2>1. PICK S \in SUBSET DOMAIN rows, s \in Status :
          /\ \A n \in S : rows[n] <= s
          /\ rows' = [n \in DOMAIN rows |-> IF n \in S THEN s ELSE rows[n]]
    BY <1>3 DEF RaiseStatus
  <2>2. rows' \in [1..Len(rows) -> Status]
    BY <1>1, <2>1 DEF Status
  <2>3. rows' \in Seq(Status) /\ Len(rows') = Len(rows) /\ DOMAIN rows' = DOMAIN rows
    BY <1>1, <2>2
  <2>4. \A n \in DOMAIN rows : rows[n] <= rows'[n]
    BY <1>1, <2>1
  <2> QED  BY <2>3, <2>4
<1> QED  BY <1>2, <1>3 DEF TableNext

(* What was true of the table stays true of it, however the table goes on. *)
LEMMA TrueStays ==
  ASSUME ApiTypeOK, [TableNext]_rows, NEW req, NEW body \in Body, TrueOf(req, body)
  PROVE  TrueOf(req, body)'
<1>1. CASE rows' = rows
  BY <1>1 DEF TrueOf
<1>2. CASE TableNext
  <2>1. /\ rows' \in Seq(Status)
        /\ \A n \in DOMAIN rows : n \in DOMAIN rows' /\ rows[n] <= rows'[n]
    BY <1>2, TableRises DEF ApiTypeOK
  <2> SUFFICES ASSUME body.kind = "record" PROVE TrueOf(req, body)'
    BY DEF TrueOf
  <2>2. /\ req.route = "record" /\ body.of = req.of
        /\ body.of \in DOMAIN rows /\ body.status <= rows[body.of]
    BY DEF TrueOf
  <2>3. body.status \in Nat
    BY StatusTableAssumption DEF Body, Status
  <2>4. rows[body.of] \in Nat /\ rows'[body.of] \in Nat
    BY <2>1, <2>2, StatusTableAssumption DEF ApiTypeOK, Status
  <2>5. body.of \in DOMAIN rows' /\ body.status <= rows'[body.of]
    BY <2>1, <2>2, <2>3, <2>4
  <2> QED  BY <2>2, <2>5 DEF TrueOf
<1> QED  BY <1>1, <1>2

(* A query of the table is a body that is true of it, and no null where there is a
   record; so is what an error of the database leaves. *)
LEMMA ReadTrue ==
  ASSUME rows \in Seq(Status), Len(rows) <= MaxRows, NEW req \in Asked
  PROVE  /\ Read(req) \in Body /\ TrueOf(req, Read(req))
         /\ req.route = "record" /\ req.of \in DOMAIN rows => Read(req).kind = "record"
<1>1. req \in Request
  BY ApiAssumption
<1>2. CASE req.route \in {"page", "roots"}
  BY <1>2 DEF Read, Body, TrueOf
<1>3. CASE req.route = "record"
  <2>1. req.of \in 1..MaxRows
    BY <1>1, <1>3 DEF Request
  <2>2. CASE req.of \in DOMAIN rows
    <3>1. Read(req) = [kind |-> "record", of |-> req.of, status |-> rows[req.of]]
      BY <1>3, <2>2 DEF Read
    <3>2. rows[req.of] \in Status /\ rows[req.of] \in Nat
      BY <2>2, StatusTableAssumption DEF Status
    <3> QED  BY <1>3, <2>1, <2>2, <3>1, <3>2 DEF Body, TrueOf
  <2>3. CASE req.of \notin DOMAIN rows
    <3>1. Read(req) = [kind |-> "null"]
      BY <1>3, <2>3 DEF Read
    <3> QED  BY <2>3, <3>1 DEF Body, TrueOf
  <2> QED  BY <2>2, <2>3
<1>4. CASE req.route = "blocks"
  <2>1. req.of \in 1..MaxRows
    BY <1>1, <1>4 DEF Request
  <2>2. Read(req) \in {[kind |-> "blocks", of |-> req.of], [kind |-> "zero"]}
    BY <1>4 DEF Read
  <2> QED  BY <1>4, <2>1, <2>2 DEF Body, TrueOf
<1> QED  BY <1>1, <1>2, <1>3, <1>4 DEF Request

LEMMA FailedTrue ==
  ASSUME NEW req \in Asked
  PROVE  /\ Failed(req) \in Body /\ TrueOf(req, Failed(req))
         /\ req.route = "record" => Failed(req).kind = "zero"
  BY DEF Failed, Body, TrueOf

(* An entry is left or taken out, the others stay. *)
LEMMA DropCache ==
  ASSUME ApiTypeOK, NEW req \in Asked, Drop(req)
  PROVE  /\ DOMAIN cache' \subseteq DOMAIN cache
         /\ cache' \in [DOMAIN cache' -> Body]
         /\ \A r \in DOMAIN cache' : cache'[r] = cache[r]
  BY DEF Drop, Restrict, ApiTypeOK

LEMMA AddCache ==
  ASSUME ApiTypeOK, NEW h \in Handlers, Add(h)
  PROVE  /\ handler[h].req \in Asked /\ handler[h].got \in Body /\ handler[h].had \in BOOLEAN
         /\ DOMAIN cache' = DOMAIN cache \cup {handler[h].req}
         /\ cache' \in [DOMAIN cache' -> Body]
         /\ \A r \in DOMAIN cache' :
              cache'[r] = IF r = handler[h].req THEN handler[h].got ELSE cache[r]
<1>1. handler[h] \in Handler /\ handler[h].pc = "add"
  BY DEF Add, ApiTypeOK
<1>2. handler[h].req \in Asked /\ handler[h].got \in Body /\ handler[h].had \in BOOLEAN
  BY <1>1 DEF Handler, Idle
<1> QED  BY <1>2 DEF Add, ApiTypeOK

(* A query of a handler hands it a body that is true of the table. *)
LEMMA GotBody ==
  ASSUME ApiTypeOK, NEW h \in Handlers, Query(h) \/ QueryFails(h)
  PROVE  /\ handler[h].pc = "query" /\ handler[h].req \in Asked /\ handler[h].had \in BOOLEAN
         /\ \E body \in Body :
              /\ handler' = [handler EXCEPT ![h] =
                   [pc |-> "add", req |-> handler[h].req, had |-> handler[h].had, got |-> body]]
              /\ TrueOf(handler[h].req, body)
              /\ (handler[h].had => handler[h].req.route = "record"
                                    /\ handler[h].req.of \in DOMAIN rows)
                   => (handler[h].had => body.kind # "null")
         /\ UNCHANGED <<rows, cache, answer>>
<1> DEFINE req == handler[h].req
<1>1. handler[h] \in Handler /\ handler[h].pc = "query"
  BY DEF Query, QueryFails, ApiTypeOK
<1>2. req \in Asked /\ handler[h].had \in BOOLEAN
  BY <1>1 DEF Handler, Idle
<1>3. CASE Query(h)
  <2>1. /\ Read(req) \in Body /\ TrueOf(req, Read(req))
        /\ req.route = "record" /\ req.of \in DOMAIN rows => Read(req).kind = "record"
    BY <1>2, ReadTrue DEF ApiTypeOK
  <2>2. Got(h, Read(req)) /\ UNCHANGED <<rows, cache, answer>>
    BY <1>3 DEF Query
  <2> QED  BY <1>1, <1>2, <2>1, <2>2 DEF Got
<1>4. CASE QueryFails(h)
  <2>1. /\ Failed(req) \in Body /\ TrueOf(req, Failed(req))
        /\ req.route = "record" => Failed(req).kind = "zero"
    BY <1>2, FailedTrue
  <2>2. Got(h, Failed(req)) /\ UNCHANGED <<rows, cache, answer>>
    BY <1>4 DEF QueryFails
  <2> QED  BY <1>1, <1>2, <2>1, <2>2 DEF Got
<1> QED  BY <1>3, <1>4

(* An answer from the cache is an entry that is not null, or the panic. *)
LEMMA HitBody ==
  ASSUME ApiTypeOK, CacheInv, NEW req \in Asked, Hit(req)
  PROVE  Cached(req) \in Body /\ TrueOf(req, Cached(req)) /\ Cached(req).kind # "null"
<1>1. req \in DOMAIN cache /\ cache[req] \in Body /\ cache[req].kind # "null"
  BY DEF Hit, ApiTypeOK
<1>2. CASE req.route = "roots"
  BY <1>2 DEF Cached, Body, TrueOf
<1>3. CASE req.route # "roots"
  BY <1>1, <1>3 DEF Cached, CacheInv
<1> QED  BY <1>2, <1>3

(* Every step keeps the types. *)
LEMMA ApiTypeStep == ApiInv /\ [ApiNext]_apiVars => ApiTypeOK'
<1> SUFFICES ASSUME ApiInv, [ApiNext]_apiVars PROVE ApiTypeOK'
  OBVIOUS
<1>1. ApiTypeOK /\ CacheInv
  BY DEF ApiInv
<1>2. CASE TableStep
  BY <1>1, <1>2, TableRises DEF TableStep, ApiTypeOK
<1>3. ASSUME NEW req \in Asked, Drop(req) PROVE ApiTypeOK'
  <2>1. DOMAIN cache' \subseteq DOMAIN cache /\ cache' \in [DOMAIN cache' -> Body]
    BY <1>1, <1>3, DropCache
  <2> QED  BY <1>1, <1>3, <2>1 DEF Drop, ApiTypeOK
<1>4. ASSUME NEW req \in Asked, NEW h \in Handlers, Ask(h, req) PROVE ApiTypeOK'
  <2> DEFINE had == req.route = "record" /\ req.of \in DOMAIN rows
  <2>1. CASE Hit(req)
    <3>1. Cached(req) \in Body
      BY <1>1, <2>1, HitBody
    <3>2. Tell(req, Cached(req), had) /\ UNCHANGED <<rows, cache, handler>>
      BY <1>4, <2>1 DEF Ask
    <3>3. answer' \in [req : Request \cup {Idle}, body : Body, had : BOOLEAN]
      BY <3>1, <3>2, ApiAssumption DEF Tell
    <3> QED  BY <1>1, <3>2, <3>3 DEF ApiTypeOK
  <2>2. CASE ~ Hit(req)
    <3>1. [pc |-> "query", req |-> req, had |-> had] \in Handler
      BY DEF Handler
    <3> QED  BY <1>1, <1>4, <2>2, <3>1 DEF Ask, ApiTypeOK
  <2> QED  BY <2>1, <2>2
<1>5. ASSUME NEW h \in Handlers, Query(h) \/ QueryFails(h) PROVE ApiTypeOK'
  <2>1. /\ handler[h].req \in Asked /\ handler[h].had \in BOOLEAN
        /\ UNCHANGED <<rows, cache, answer>>
    BY <1>1, <1>5, GotBody
  <2>2. PICK body \in Body : handler' = [handler EXCEPT ![h] =
          [pc |-> "add", req |-> handler[h].req, had |-> handler[h].had, got |-> body]]
    BY <1>1, <1>5, GotBody
  <2>3. [pc |-> "add", req |-> handler[h].req, had |-> handler[h].had, got |-> body] \in Handler
    BY <2>1 DEF Handler
  <2> QED  BY <1>1, <2>1, <2>2, <2>3 DEF ApiTypeOK
<1>6. ASSUME NEW h \in Handlers, Add(h) PROVE ApiTypeOK'
  <2>1. /\ handler[h].req \in Asked /\ handler[h].got \in Body /\ handler[h].had \in BOOLEAN
        /\ DOMAIN cache' = DOMAIN cache \cup {handler[h].req}
        /\ cache' \in [DOMAIN cache' -> Body]
    BY <1>1, <1>6, AddCache
  <2>2. answer' \in [req : Request \cup {Idle}, body : Body, had : BOOLEAN]
    BY <1>6, <2>1, ApiAssumption DEF Add, Tell
  <2>3. handler' \in [Handlers -> Handler] /\ rows' = rows
    BY <1>1, <1>6 DEF Add, Handler, ApiTypeOK
  <2> QED  BY <1>1, <2>1, <2>2, <2>3 DEF ApiTypeOK
<1>7. CASE UNCHANGED apiVars
  BY <1>1, <1>7 DEF apiVars, ApiTypeOK
<1> QED  BY <1>2, <1>3, <1>4, <1>5, <1>6, <1>7 DEF ApiNext

(* Every step keeps what is kept, held and answered true. *)
LEMMA ApiTrueStep ==
  ApiInv /\ [ApiNext]_apiVars => CacheInv' /\ HandlerInv' /\ AnswerInv'
<1> SUFFICES ASSUME ApiInv, [ApiNext]_apiVars PROVE CacheInv' /\ HandlerInv' /\ AnswerInv'
  OBVIOUS
<1>1. ApiTypeOK /\ CacheInv /\ HandlerInv /\ AnswerInv
  BY DEF ApiInv
<1>2. ASSUME NEW h \in Handlers PROVE handler[h] \in Handler
  BY <1>1 DEF ApiTypeOK
<1>3. CASE TableStep
  <2>1. TableNext /\ UNCHANGED <<cache, handler, answer>>
    BY <1>3 DEF TableStep
  <2>2. CacheInv'
    <3>1. ASSUME NEW req \in DOMAIN cache PROVE TrueOf(req, cache[req])'
      <4>1. cache[req] \in Body /\ TrueOf(req, cache[req])
        BY <1>1 DEF ApiTypeOK, CacheInv
      <4>2. ASSUME NEW body \in Body, TrueOf(req, body) PROVE TrueOf(req, body)'
        BY <1>1, <2>1, <4>2, TrueStays
      <4> QED  BY <2>1, <4>1, <4>2 DEF TrueOf
    <3> QED  BY <2>1, <3>1 DEF CacheInv
  <2>3. HandlerInv'
    <3>1. ASSUME NEW h \in Handlers, handler[h].pc = "add"
          PROVE  TrueOf(handler[h].req, handler[h].got)'
      <4>1. handler[h].got \in Body /\ TrueOf(handler[h].req, handler[h].got)
        BY <1>1, <1>2, <3>1 DEF HandlerInv, Handler, Idle
      <4>2. ASSUME NEW req, NEW body \in Body, TrueOf(req, body) PROVE TrueOf(req, body)'
        BY <1>1, <2>1, <4>2, TrueStays
      <4> QED  BY <2>1, <4>1, <4>2 DEF TrueOf
    <3>2. \A n \in DOMAIN rows : n \in DOMAIN rows'
      BY <1>1, <2>1, TableRises DEF ApiTypeOK
    <3> QED  BY <1>1, <2>1, <3>1, <3>2 DEF HandlerInv
  <2>4. AnswerInv'
    <3>1. CASE answer.req # Idle
      <4>1. answer.body \in Body /\ TrueOf(answer.req, answer.body) /\ ~ answer.had
        BY <1>1, <3>1 DEF AnswerInv, ApiTypeOK
      <4>2. ASSUME NEW req, NEW body \in Body, TrueOf(req, body) PROVE TrueOf(req, body)'
        BY <1>1, <2>1, <4>2, TrueStays
      <4> QED  BY <2>1, <3>1, <4>1, <4>2 DEF AnswerInv, TrueOf
    <3>2. CASE answer.req = Idle
      BY <1>1, <2>1, <3>2 DEF AnswerInv
    <3> QED  BY <3>1, <3>2
  <2> QED  BY <2>2, <2>3, <2>4
<1>4. ASSUME NEW req \in Asked, Drop(req) PROVE CacheInv' /\ HandlerInv' /\ AnswerInv'
  <2>1. /\ DOMAIN cache' \subseteq DOMAIN cache
        /\ \A r \in DOMAIN cache' : cache'[r] = cache[r]
    BY <1>1, <1>4, DropCache
  <2>2. UNCHANGED <<rows, handler, answer>>
    BY <1>4 DEF Drop
  <2> QED  BY <1>1, <2>1, <2>2 DEF CacheInv, HandlerInv, AnswerInv, TrueOf
<1>5. ASSUME NEW req \in Asked, NEW h \in Handlers, Ask(h, req)
      PROVE  CacheInv' /\ HandlerInv' /\ AnswerInv'
  <2> DEFINE had == req.route = "record" /\ req.of \in DOMAIN rows
  <2>1. UNCHANGED <<rows, cache>>
    BY <1>5 DEF Ask
  <2>2. CacheInv'
    BY <1>1, <2>1 DEF CacheInv, TrueOf
  <2>3. CASE Hit(req)
    <3>1. TrueOf(req, Cached(req)) /\ Cached(req).kind # "null"
      BY <1>1, <2>3, HitBody
    <3>2. answer' = [req |-> req, body |-> Cached(req), had |-> FALSE] /\ handler' = handler
      BY <1>5, <2>3, <3>1 DEF Ask, Tell
    <3>3. req # Idle
      BY ApiAssumption DEF Request, Idle
    <3> QED  BY <1>1, <2>1, <2>2, <3>1, <3>2, <3>3 DEF HandlerInv, AnswerInv, TrueOf
  <2>4. CASE ~ Hit(req)
    <3>1. /\ handler' = [handler EXCEPT ![h] = [pc |-> "query", req |-> req, had |-> had]]
          /\ answer' = answer
      BY <1>5, <2>4 DEF Ask
    <3>2. AnswerInv'
      BY <1>1, <2>1, <3>1 DEF AnswerInv, TrueOf
    <3>3. HandlerInv'
      BY <1>1, <2>1, <3>1 DEF HandlerInv, ApiTypeOK, TrueOf
    <3> QED  BY <2>2, <3>2, <3>3
  <2> QED  BY <2>3, <2>4
<1>6. ASSUME NEW h \in Handlers, Query(h) \/ QueryFails(h)
      PROVE  CacheInv' /\ HandlerInv' /\ AnswerInv'
  <2>1. /\ handler[h].pc = "query" /\ UNCHANGED <<rows, cache, answer>>
    BY <1>1, <1>6, GotBody
  <2>2. handler[h].had => handler[h].req.route = "record" /\ handler[h].req.of \in DOMAIN rows
    BY <1>1, <2>1 DEF HandlerInv
  <2>3. PICK body \in Body :
          /\ handler' = [handler EXCEPT ![h] =
               [pc |-> "add", req |-> handler[h].req, had |-> handler[h].had, got |-> body]]
          /\ TrueOf(handler[h].req, body)
          /\ handler[h].had => body.kind # "null"
    BY <1>1, <1>6, <2>2, GotBody
  <2>4. HandlerInv'
    BY <1>1, <2>1, <2>2, <2>3 DEF HandlerInv, ApiTypeOK, TrueOf
  <2> QED  BY <1>1, <2>1, <2>4 DEF CacheInv, AnswerInv, TrueOf
<1>7. ASSUME NEW h \in Handlers, Add(h) PROVE CacheInv' /\ HandlerInv' /\ AnswerInv'
  <2> DEFINE req == handler[h].req
             got == handler[h].got
  <2>1. /\ req \in Asked
        /\ DOMAIN cache' = DOMAIN cache \cup {req}
        /\ \A r \in DOMAIN cache' : cache'[r] = IF r = req THEN got ELSE cache[r]
    BY <1>1, <1>7, AddCache
  <2>2. handler[h].pc = "add" /\ rows' = rows
    BY <1>7 DEF Add
  <2>3. TrueOf(req, got) /\ (handler[h].had => got.kind # "null")
    BY <1>1, <2>2 DEF HandlerInv
  <2>4. CacheInv'
    BY <1>1, <2>1, <2>2, <2>3 DEF CacheInv, TrueOf
  <2>5. HandlerInv'
    BY <1>1, <1>7, <2>2 DEF Add, HandlerInv, ApiTypeOK, Idle, TrueOf
  <2>6. answer' = [req |-> req, body |-> got, had |-> FALSE]
    BY <1>7, <2>3, <1>1, AddCache DEF Add, Tell
  <2>7. req # Idle
    BY <2>1, ApiAssumption DEF Request, Idle
  <2>8. AnswerInv'
    BY <2>2, <2>3, <2>6, <2>7 DEF AnswerInv, TrueOf
  <2> QED  BY <2>4, <2>5, <2>8
<1>8. CASE UNCHANGED apiVars
  BY <1>1, <1>8 DEF apiVars, CacheInv, HandlerInv, AnswerInv, TrueOf
<1> QED  BY <1>3, <1>4, <1>5, <1>6, <1>7, <1>8 DEF ApiNext

(* The inductive invariant holds throughout. *)
THEOREM ApiInvariant == ApiSpec => []ApiInv
<1>1. ApiInit => ApiInv
  <2> SUFFICES ASSUME ApiInit PROVE ApiInv
    OBVIOUS
  <2>1. rows = <<>> /\ cache = <<>> /\ handler = [h \in Handlers |-> Idle]
        /\ answer = [req |-> Idle, body |-> [kind |-> "none"], had |-> FALSE]
    BY DEF ApiInit, TableInit
  <2>2. ApiTypeOK
    BY <2>1, StatusTableAssumption DEF ApiTypeOK, Handler, Body
  <2>3. CacheInv /\ HandlerInv /\ AnswerInv
    BY <2>1 DEF CacheInv, HandlerInv, AnswerInv, Idle
  <2> QED  BY <2>2, <2>3 DEF ApiInv
<1>2. ApiInv /\ [ApiNext]_apiVars => ApiInv'
  BY ApiTypeStep, ApiTrueStep DEF ApiInv
<1> QED  BY <1>1, <1>2, PTL DEF ApiSpec

(* Type correctness: a handler, the cache and the last answer hold what a route can
   return. *)
THEOREM ApiTypeCorrect == ApiSpec => []ApiTypeOK
<1>1. ApiInv => ApiTypeOK
  BY DEF ApiInv
<1> QED  BY <1>1, ApiInvariant, PTL

(* A record that is answered is the one asked for, with a status it has or had,
   however old the entry of the cache is. *)
THEOREM ApiAnswerTrue == ApiSpec => []AnswerTrue
<1>1. ApiInv => AnswerTrue
  BY DEF ApiInv, AnswerInv, TrueOf, AnswerTrue
<1> QED  BY <1>1, ApiInvariant, PTL

(* Nobody who asks for a record that is there is answered null. *)
THEOREM ApiNullMeansAbsent == ApiSpec => []NullMeansAbsent
<1>1. ApiInv => NullMeansAbsent
  BY DEF ApiInv, AnswerInv, NullMeansAbsent
<1> QED  BY <1>1, ApiInvariant, PTL
================================================================================
