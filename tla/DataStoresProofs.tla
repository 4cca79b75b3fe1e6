---------------------------- MODULE DataStoresProofs ----------------------------
(***************************************************************************)
(* Type correctness of DataStores, and that the start id passes no recorded *)
(* data store that was not asked for.  The argument follows a data store i  *)
(* that is due: above the configured start, not confirmed late and not      *)
(* skipped by a restart.  Whatever larger id the ticker has listed or asked *)
(* for is confirmed after i, so i was recorded, or a row of the same open   *)
(* scan, when that id was listed; and then it was in the range of the list  *)
(* or asked for before.                                                     *)
(***************************************************************************)
EXTENDS DataStores, TLAPS

(* i is confirmed. *)
OnChain(i) == \E n \in DOMAIN chain : chain[n].id = i

Due(i) == OnChain(i) /\ i > StartDataStoreId /\ ~ Late(i) /\ i \notin skipped

(* An id is confirmed once, and before the ticker has to do with it. *)
Confirmed ==
  /\ \A i \in Id : \A m, n \in DOMAIN chain :
       chain[m].id = i /\ chain[n].id = i => m = n
  /\ \A i \in Id : events[i] > 0 \/ listed[i] > 0 \/ i \in asked => OnChain(i)

(* What is confirmed up to the watermark, or before a recorded data store, is
   recorded or was skipped. *)
InOrder ==
  /\ \A i \in Id : \A n \in 1..pos : chain[n].id = i => events[i] > 0 \/ i \in skipped
  /\ \A i, j \in Id : \A m, n \in DOMAIN chain :
       m < n /\ chain[m].id = i /\ chain[n].id = j /\ events[j] > 0 =>
         events[i] > 0 \/ i \in skipped

(* What is stored or passed was asked for, and what a tick lists to store is not
   stored yet. *)
AskedFirst ==
  /\ \A i \in Id : stores[i] > 0 => i \in asked
  /\ \A i \in Id : biz = "retrieve" /\ listed[i] > 0 => stores[i] = 0
  /\ startId \in asked \cup {0, StartDataStoreId}

(* Nothing due is left out below what was asked for or is about to be. *)
NoneLeftOut ==
  /\ \A i, j \in Id : Due(i) /\ i < j /\ j \in asked => i \in asked
  /\ \A i, j \in Id : Due(i) /\ i < j /\ listed[j] > 0 => i \in asked \/ listed[i] > 0

DaInv == DaTypeOK /\ Confirmed /\ InOrder /\ AskedFirst /\ NoneLeftOut

-----------------------------------------------------------------------------
(* Types. *)

(* A scan that begins ends above the watermark, on the chain. *)
LEMMA UptoType ==
  ASSUME DaTypeOK, pos < Len(chain)
  PROVE  Upto \in pos + 1..Len(chain)
  BY DataStoresAssumption DEF DaTypeOK, Upto

(* The initial state is well typed. *)
LEMMA InitType == DaInit => DaTypeOK
  BY DataStoresAssumption DEF DaInit, DaTypeOK, NoRow, Id

(* Every step keeps the types. *)
LEMMA NextType ==
  ASSUME DaTypeOK, [DaNext]_daVars
  PROVE  DaTypeOK'
<1> USE DataStoresAssumption
<1>1. CASE NewBlock
  <2>1. PICK b \in Block : chain' = Append(chain, b)
    BY <1>1 DEF NewBlock
  <2>2. chain' \in Seq(Block) /\ Len(chain') = Len(chain) + 1 /\ Len(chain') <= MaxL1
    BY <2>1, <1>1 DEF DaTypeOK, NewBlock
  <2> QED  BY <2>2, <1>1 DEF DaTypeOK, NewBlock, streamVars, tickVars
<1>2. CASE ScanBegin
  BY <1>2, UptoType DEF ScanBegin, DaTypeOK, tickVars
<1>3. CASE ScanCommit
  <2>1. events' \in [Id -> Nat]
    <3>1. \A i \in Id : Scanned(i, pending) \in Nat /\ events[i] \in Nat
      BY DEF Scanned, DaTypeOK
    <3>2. events' = [i \in Id |-> events[i] + Scanned(i, pending)]
      BY <1>3 DEF ScanCommit, Record
    <3> QED  BY <3>1, <3>2
  <2> QED  BY <2>1, <1>3 DEF ScanCommit, Record, DaTypeOK, tickVars
<1>4. CASE ScanAbort
  BY <1>4 DEF ScanAbort, DaTypeOK, tickVars
<1>5. CASE List \/ ListUnasked \/ ListFails
  <2>1. startId' \in Id \cup {0, StartDataStoreId}
    <3>1. CASE StartFrom(startId')
      <4>1. PICK i \in 0..MaxId : startId' = IF i # 0 THEN i ELSE startId
        BY <3>1 DEF StartFrom
      <4>2. CASE i # 0
        BY <4>1, <4>2 DEF Id
      <4>3. CASE i = 0
        BY <4>1, <4>3 DEF DaTypeOK
      <4> QED  BY <4>2, <4>3
    <3>2. CASE UNCHANGED startId
      BY <3>2 DEF DaTypeOK
    <3> QED  BY <1>5, <3>1, <3>2 DEF List, ListUnasked, ListFails
  <2>2. listed' \in [Id -> Nat]
    <3>1. ASSUME NEW s, ListFrom(s)  PROVE listed' \in [Id -> Nat]
      <4>1. PICK to \in {pos, pending} :
              listed' = [i \in Id |-> IF InRange(i, s) THEN events[i] + Scanned(i, to) ELSE 0]
        BY <3>1 DEF ListFrom
      <4>2. \A i \in Id : Scanned(i, to) \in Nat /\ events[i] \in Nat
        BY DEF Scanned, DaTypeOK
      <4> QED  BY <4>1, <4>2
    <3>2. CASE ListFails
      BY <3>2 DEF ListFails, DaTypeOK
    <3> QED  BY <1>5, <3>1, <3>2 DEF List, ListUnasked
  <2>3. /\ UNCHANGED <<chain, streamVars, stores, asked, skipped>>
        /\ biz' \in {"idle", "retrieve", "doomed"} /\ faults' \in 0..MaxFaults
    BY <1>5 DEF List, ListUnasked, ListFrom, ListFails, DaTypeOK
  <2> QED  BY <2>1, <2>2, <2>3 DEF DaTypeOK, streamVars
<1>6. CASE Retrieve
  <2>1. startId' \in Id \cup {0, StartDataStoreId}
    BY <1>6 DEF Retrieve, LatestListed, Id
  <2>2. stores' \in [Id -> Nat]
    <3>1. CASE UNCHANGED stores
      BY <3>1 DEF DaTypeOK
    <3>2. CASE \E got \in [Id -> UNION {0..listed[i] : i \in Id}] :
                 stores' = [i \in Id |-> stores[i] + got[i]]
      <4>1. PICK got \in [Id -> UNION {0..listed[i] : i \in Id}] :
              stores' = [i \in Id |-> stores[i] + got[i]]
        BY <3>2
      <4>2. \A i \in Id : got[i] \in Nat /\ stores[i] \in Nat
        BY <4>1 DEF DaTypeOK
      <4> QED  BY <4>1, <4>2
    <3> QED  BY <3>1, <3>2, <1>6 DEF Retrieve
  <2>3. faults' \in 0..MaxFaults /\ asked' \subseteq Id
    <3>1. /\ faults' = faults \/ (faults < MaxFaults /\ faults' = faults + 1)
          /\ asked' = asked \cup {i \in Id : listed[i] > 0}
      BY <1>6 DEF Retrieve
    <3> QED  BY <3>1 DEF DaTypeOK
  <2>4. UNCHANGED <<chain, streamVars, skipped>> /\ biz' = "idle" /\ listed' = NoRow
    BY <1>6 DEF Retrieve
  <2>5. NoRow \in [Id -> Nat]
    BY DEF NoRow
  <2> QED  BY <2>1, <2>2, <2>3, <2>4, <2>5 DEF DaTypeOK, streamVars
<1>7. CASE Restart
  BY <1>7 DEF Restart, DaTypeOK, NoRow
<1>8. CASE UNCHANGED daVars
  BY <1>8 DEF daVars, streamVars, tickVars, DaTypeOK
<1> QED  BY <1>1, <1>2, <1>3, <1>4, <1>5, <1>6, <1>7, <1>8 DEF DaNext

(* The types are kept by every behaviour. *)
THEOREM DaTypeCorrect == DaSpec => []DaTypeOK
<1>1. DaInit => DaTypeOK
  BY InitType
<1>2. DaTypeOK /\ [DaNext]_daVars => DaTypeOK'
  BY NextType
<1> QED  BY <1>1, <1>2, PTL DEF DaSpec

-----------------------------------------------------------------------------
(* The invariant. *)

(* A block confirms nothing that was confirmed before, and nothing that is on the
   chain becomes late. *)
LEMMA NewBlockInv ==
  ASSUME DaInv, DaTypeOK', NewBlock
  PROVE  DaInv'
<1>1. PICK b \in Block :
        /\ chain' = Append(chain, b)
        /\ IF b.id = 0 THEN b.ref = 0
                       ELSE b.ref <= Len(chain) /\ \A n \in DOMAIN chain : chain[n].id # b.id
  BY DEF NewBlock
<1>2. /\ chain \in Seq(Block) /\ pos \in 0..Len(chain)
      /\ DOMAIN chain = 1..Len(chain) /\ DOMAIN chain' = 1..Len(chain) + 1
      /\ \A n \in DOMAIN chain : chain'[n] = chain[n]
      /\ chain'[Len(chain) + 1] = b
  <2>1. chain \in Seq(Block) /\ pos \in 0..Len(chain)
    BY DEF DaInv, DaTypeOK
  <2> QED  BY <1>1, <2>1
<1>3. \A i \in Id : \A n \in DOMAIN chain' :
        chain'[n].id = i =>
          \/ n \in DOMAIN chain /\ chain[n].id = i
          \/ n = Len(chain) + 1 /\ ~ OnChain(i)
  <2> SUFFICES ASSUME NEW i \in Id, NEW n \in DOMAIN chain', chain'[n].id = i,
                      ~ (n \in DOMAIN chain)
               PROVE  n = Len(chain) + 1 /\ ~ OnChain(i)
    BY <1>2
  <2>1. Len(chain) \in Nat /\ n = Len(chain) + 1 /\ b.id = i
    BY <1>2
  <2>2. i # 0
    BY DEF Id
  <2> QED  BY <1>1, <2>1, <2>2 DEF OnChain
<1>4. \A i : OnChain(i) => OnChain(i)'
  BY <1>2 DEF OnChain
<1>5. /\ UNCHANGED <<pos, pending, events, stores, startId, biz, listed, asked, skipped>>
  BY DEF NewBlock, streamVars, tickVars
<1>6. Confirmed'
  BY <1>2, <1>3, <1>4, <1>5 DEF DaInv, Confirmed, OnChain
<1>7. InOrder'
  <2>1. ASSUME NEW i \in Id, NEW n \in 1..pos, chain'[n].id = i
        PROVE  events[i] > 0 \/ i \in skipped
    BY <1>2, <2>1 DEF DaInv, InOrder
  <2>2. ASSUME NEW i \in Id, NEW j \in Id, NEW m \in DOMAIN chain', NEW n \in DOMAIN chain',
               m < n, chain'[m].id = i, chain'[n].id = j, events[j] > 0
        PROVE  events[i] > 0 \/ i \in skipped
    <3>1. OnChain(j)
      BY <2>2 DEF DaInv, Confirmed
    <3>2. n \in DOMAIN chain /\ chain[n].id = j
      BY <1>3, <2>2, <3>1
    <3>3. m \in DOMAIN chain /\ chain[m].id = i
      BY <1>2, <2>2, <3>2
    <3> QED  BY <2>2, <3>2, <3>3 DEF DaInv, InOrder
  <2> QED  BY <2>1, <2>2, <1>5 DEF InOrder
<1>8. AskedFirst'
  BY <1>5 DEF DaInv, AskedFirst
<1>9. ASSUME NEW i \in Id, NEW j \in Id, Due(i)', i < j, OnChain(j)
      PROVE  Due(i)
  <2>1. \A m, n \in DOMAIN chain : ~ (m < n /\ chain[n].id = i /\ chain[m].id > i)
    BY <1>2, <1>9 DEF Due, Late
  <2>2. OnChain(i)
    <3>1. PICK n \in DOMAIN chain' : chain'[n].id = i
      BY <1>9 DEF Due, OnChain
    <3>2. PICK m \in DOMAIN chain : chain[m].id = j
      BY <1>9 DEF OnChain
    <3>3. ~ (m < n /\ chain'[n].id = i /\ chain'[m].id > i)
      BY <1>2, <1>9 DEF Due, Late
    <3>4. chain'[m].id > i
      BY <1>2, <1>9, <3>2 DEF Id
    <3>5. n # Len(chain) + 1
      BY <1>2, <3>1, <3>3, <3>4
    <3> QED  BY <1>2, <1>3, <3>1, <3>5 DEF OnChain
  <2> QED  BY <2>1, <2>2, <1>5, <1>9 DEF Due, Late
<1>10. NoneLeftOut'
  BY <1>5, <1>9 DEF DaInv, Confirmed, NoneLeftOut
<1> QED  BY <1>6, <1>7, <1>8, <1>10 DEF DaInv

(* A commit records what precedes a data store with it or has recorded it before. *)
LEMMA ScanCommitInv ==
  ASSUME DaInv, DaTypeOK', ScanCommit
  PROVE  DaInv'
<1>1. /\ UNCHANGED <<chain, stores, startId, biz, listed, asked, skipped>>
      /\ pos' = pending /\ pending \in pos + 1..Len(chain)
      /\ pos \in 0..Len(chain) /\ DOMAIN chain = 1..Len(chain)
      /\ events' = [i \in Id |-> events[i] + Scanned(i, pending)]
      /\ events \in [Id -> Nat]
  BY DEF ScanCommit, Record, tickVars, DaInv, DaTypeOK
<1>2. \A i \in Id : /\ events'[i] > 0 => events[i] > 0 \/ Scanned(i, pending) = 1
                    /\ events[i] > 0 \/ Scanned(i, pending) = 1 => events'[i] > 0
  BY <1>1 DEF Scanned
<1>3. \A i \in Id : Scanned(i, pending) = 1 <=> \E n \in pos + 1..pending : chain[n].id = i
  BY DEF Scanned
<1>4. Confirmed'
  <2>1. \A i \in Id : events'[i] > 0 => OnChain(i)
    BY <1>1, <1>2, <1>3 DEF DaInv, Confirmed, OnChain
  <2> QED  BY <1>1, <2>1 DEF DaInv, Confirmed, OnChain
<1>5. InOrder'
  <2>1. ASSUME NEW i \in Id, NEW n \in 1..pending, chain[n].id = i
        PROVE  events'[i] > 0 \/ i \in skipped
    <3>1. CASE n \in 1..pos
      BY <1>2, <2>1, <3>1 DEF DaInv, InOrder
    <3>2. CASE n \in pos + 1..pending
      BY <1>2, <1>3, <2>1, <3>2
    <3> QED  BY <1>1, <2>1, <3>1, <3>2
  <2>2. ASSUME NEW i \in Id, NEW j \in Id, NEW m \in DOMAIN chain, NEW n \in DOMAIN chain,
               m < n, chain[m].id = i, chain[n].id = j, events'[j] > 0
        PROVE  events'[i] > 0 \/ i \in skipped
    <3>1. CASE events[j] > 0
      BY <1>2, <2>2, <3>1 DEF DaInv, InOrder
    <3>2. CASE Scanned(j, pending) = 1
      <4>1. n \in pos + 1..pending
        <5>1. PICK k \in pos + 1..pending : chain[k].id = j
          BY <1>3, <3>2
        <5>2. k \in DOMAIN chain
          BY <1>1
        <5>3. k = n
          BY <2>2, <5>1, <5>2 DEF DaInv, Confirmed
        <5> QED  BY <5>3
      <4>2. m \in 1..pending
        BY <1>1, <2>2, <4>1
      <4> QED  BY <2>1, <2>2, <4>2
    <3> QED  BY <1>2, <2>2, <3>1, <3>2
  <2> QED  BY <1>1, <2>1, <2>2 DEF InOrder
<1>6. AskedFirst' /\ NoneLeftOut'
  BY <1>1 DEF DaInv, AskedFirst, NoneLeftOut, Due, OnChain, Late
<1> QED  BY <1>4, <1>5, <1>6 DEF DaInv

(* The tick starts above what is stored, at an id that was asked for or at the
   configured one, or at 0. *)
LEMMA StartFromAsked ==
  ASSUME DaInv, NEW s, StartFrom(s)
  PROVE  /\ s \in Nat
         /\ s \in asked \cup {0, StartDataStoreId}
         /\ \A j \in Id : stores[j] > 0 => j <= s
<1>1. PICK i \in 0..MaxId : IsLatest(i) /\ s = IF i # 0 THEN i ELSE startId
  BY DEF StartFrom
<1>2. CASE i = 0
  <2>1. \A j \in Id : stores[j] = 0
    BY <1>1, <1>2 DEF IsLatest, NoRow
  <2> QED  BY <1>1, <1>2, <2>1, DataStoresAssumption DEF DaInv, DaTypeOK, AskedFirst, Id
<1>3. CASE i # 0
  BY <1>1, <1>3, DataStoresAssumption DEF IsLatest, DaInv, AskedFirst, Id
<1> QED  BY <1>2, <1>3

(* What lies between the start id and an id in range is in range. *)
LEMMA InRangeBelow ==
  ASSUME NEW s \in Nat, NEW i \in Id, NEW j \in Id, s < i, i < j, InRange(j, s)
  PROVE  InRange(i, s)
  BY DataStoresAssumption DEF InRange, Id

(* What the list leaves out below one of its ids was asked for, or is not due. *)
LEMMA ListInv ==
  ASSUME DaInv, DaTypeOK', List \/ ListUnasked
  PROVE  DaInv'
<1>1. PICK to \in {pos, pending} :
        listed' = [i \in Id |-> IF InRange(i, startId') THEN events[i] + Scanned(i, to) ELSE 0]
  BY DEF List, ListUnasked, ListFrom
<1>2. /\ UNCHANGED <<chain, pos, events, stores, asked, skipped>>
      /\ pos \in 0..Len(chain) /\ to \in 0..Len(chain) /\ DOMAIN chain = 1..Len(chain)
      /\ events \in [Id -> Nat] /\ stores \in [Id -> Nat]
  BY <1>1 DEF List, ListUnasked, ListFrom, streamVars, DaInv, DaTypeOK
<1>3. /\ startId' \in Nat
      /\ startId' \in asked \cup {0, StartDataStoreId}
      /\ biz' = "retrieve" => \A j \in Id : stores[j] > 0 => j <= startId'
  <2>1. CASE List
    <3>1. StartFrom(startId')
      BY <2>1 DEF List
    <3> QED  BY <3>1, StartFromAsked
  <2>2. CASE ListUnasked
    BY <2>2, DataStoresAssumption DEF ListUnasked, DaInv, DaTypeOK, AskedFirst, Id
  <2> QED  BY <2>1, <2>2
<1>4. \A i \in Id : listed'[i] > 0 <=>
        InRange(i, startId') /\ (events[i] > 0 \/ \E n \in pos + 1..to : chain[n].id = i)
  BY <1>1, <1>2 DEF Scanned
<1>5. Confirmed'
  <2>1. \A i \in Id : listed'[i] > 0 => OnChain(i)
    BY <1>2, <1>4 DEF DaInv, Confirmed, OnChain
  <2> QED  BY <1>2, <2>1 DEF DaInv, Confirmed, OnChain
<1>6. InOrder'
  BY <1>2 DEF DaInv, InOrder
<1>7. AskedFirst'
  <2>1. \A i \in Id : biz' = "retrieve" /\ listed'[i] > 0 => stores[i] = 0
    <3> SUFFICES ASSUME NEW i \in Id, biz' = "retrieve", listed'[i] > 0, stores[i] # 0
                 PROVE  FALSE
      OBVIOUS
    <3>1. startId' < i /\ stores[i] > 0
      BY <1>2, <1>4 DEF InRange
    <3> QED  BY <1>3, <3>1 DEF Id
  <2> QED  BY <1>2, <1>3, <2>1 DEF DaInv, AskedFirst
<1>8. ASSUME NEW i \in Id, NEW j \in Id, Due(i), i < j, listed'[j] > 0
      PROVE  i \in asked \/ listed'[i] > 0
  <2>1. i <= startId' => i \in asked
    <3>1. ASSUME i <= startId'  PROVE startId' \in asked
      BY <1>3, <1>8, <3>1, DataStoresAssumption DEF Due, Id
    <3>2. ASSUME i < startId', startId' \in asked  PROVE i \in asked
      BY <1>8, <3>2 DEF DaInv, DaTypeOK, NoneLeftOut
    <3> QED  BY <1>3, <3>1, <3>2 DEF Id
  <2>2. startId' < i => InRange(i, startId')
    BY <1>3, <1>4, <1>8, InRangeBelow
  <2>3. PICK m \in DOMAIN chain : chain[m].id = i
    BY <1>8 DEF Due, OnChain
  <2>4. PICK n \in DOMAIN chain : chain[n].id = j
    BY <1>2, <1>5, <1>8 DEF Confirmed, OnChain
  <2>5. m < n
    <3>1. m # n /\ ~ (n < m)
      BY <1>8, <2>3, <2>4 DEF Due, Late, Id
    <3> QED  BY <1>2, <3>1
  <2>6. events[i] > 0 \/ \E k \in pos + 1..to : chain[k].id = i
    <3>1. CASE events[j] > 0
      BY <1>8, <2>3, <2>4, <2>5, <3>1 DEF DaInv, InOrder, Due
    <3>2. CASE \E k \in pos + 1..to : chain[k].id = j
      <4>1. n \in pos + 1..to
        BY <1>2, <2>4, <3>2 DEF DaInv, Confirmed
      <4>2. m \in 1..pos \/ m \in pos + 1..to
        BY <1>2, <2>5, <4>1
      <4> QED  BY <1>8, <2>3, <4>2 DEF DaInv, InOrder, Due
    <3> QED  BY <1>4, <1>8, <3>1, <3>2
  <2> QED  BY <1>3, <1>4, <2>1, <2>2, <2>6 DEF Id
<1>9. NoneLeftOut'
  BY <1>2, <1>8 DEF DaInv, NoneLeftOut, Due, OnChain, Late
<1> QED  BY <1>5, <1>6, <1>7, <1>9 DEF DaInv

(* Nothing is left out by what is asked for now. *)
LEMMA RetrieveInv ==
  ASSUME DaInv, DaTypeOK', Retrieve
  PROVE  DaInv'
<1>1. /\ UNCHANGED <<chain, pos, events, skipped>>
      /\ asked' = asked \cup {i \in Id : listed[i] > 0}
      /\ \A i \in Id : ~ (listed'[i] > 0)
      /\ listed \in [Id -> Nat] /\ stores \in [Id -> Nat]
  <2>1. /\ UNCHANGED <<chain, streamVars, skipped>> /\ listed' = NoRow
        /\ asked' = asked \cup {i \in Id : listed[i] > 0}
    BY DEF Retrieve
  <2>2. listed \in [Id -> Nat] /\ stores \in [Id -> Nat]
    BY DEF DaInv, DaTypeOK
  <2> QED  BY <2>1, <2>2 DEF streamVars, NoRow
<1>2. \A i \in Id : stores'[i] > 0 => stores[i] > 0 \/ listed[i] > 0
  <2>1. CASE UNCHANGED stores
    BY <2>1
  <2>2. CASE \E got \in [Id -> UNION {0..listed[i] : i \in Id}] :
               /\ \A i \in Id : got[i] <= listed[i]
               /\ stores' = [i \in Id |-> stores[i] + got[i]]
    <3>1. PICK got \in [Id -> UNION {0..listed[i] : i \in Id}] :
            /\ \A i \in Id : got[i] <= listed[i]
            /\ stores' = [i \in Id |-> stores[i] + got[i]]
      BY <2>2
    <3>2. \A i \in Id : got[i] \in Nat
      BY <1>1, <3>1
    <3> QED  BY <1>1, <3>1, <3>2
  <2> QED  BY <2>1, <2>2 DEF Retrieve
<1>3. startId' = 0 \/ startId' \in asked'
  BY <1>1 DEF Retrieve, LatestListed
<1>4. Confirmed'
  BY <1>1 DEF DaInv, Confirmed, OnChain
<1>5. InOrder'
  BY <1>1 DEF DaInv, InOrder
<1>6. AskedFirst'
  BY <1>1, <1>2, <1>3 DEF DaInv, AskedFirst
<1>7. NoneLeftOut'
  BY <1>1 DEF DaInv, NoneLeftOut, Due, OnChain, Late
<1> QED  BY <1>4, <1>5, <1>6, <1>7 DEF DaInv

(* What a restart puts behind the watermark unrecorded is no longer due. *)
LEMMA RestartInv ==
  ASSUME DaInv, DaTypeOK', Restart
  PROVE  DaInv'
<1>1. /\ UNCHANGED <<chain, events, stores, asked>>
      /\ startId' = StartDataStoreId
      /\ skipped \subseteq skipped'
      /\ \A i \in Id : ~ (listed'[i] > 0)
      /\ \A i \in Id : \A n \in 1..pos' :
           chain[n].id = i => events[i] # 0 \/ i \in skipped'
      /\ events \in [Id -> Nat]
  BY DEF Restart, NoRow, DaInv, DaTypeOK
<1>2. Confirmed'
  BY <1>1 DEF DaInv, Confirmed, OnChain
<1>3. InOrder'
  <2>1. \A i \in Id : events[i] # 0 => events[i] > 0
    BY <1>1
  <2> QED  BY <1>1, <2>1 DEF DaInv, InOrder
<1>4. AskedFirst'
  BY <1>1 DEF DaInv, AskedFirst
<1>5. NoneLeftOut'
  BY <1>1 DEF DaInv, NoneLeftOut, Due, OnChain, Late
<1> QED  BY <1>2, <1>3, <1>4, <1>5 DEF DaInv

(* The initial state satisfies the invariant. *)
LEMMA InitInv == DaInit => DaInv
<1> SUFFICES ASSUME DaInit  PROVE DaInv
  OBVIOUS
<1>1. /\ DOMAIN chain = {} /\ pos = 0 /\ asked = {} /\ startId = StartDataStoreId
      /\ \A i \in Id : ~ (events[i] > 0) /\ ~ (listed[i] > 0) /\ ~ (stores[i] > 0)
  BY DEF DaInit, NoRow
<1>2. Confirmed /\ AskedFirst /\ NoneLeftOut
  BY <1>1 DEF Confirmed, AskedFirst, NoneLeftOut
<1>3. InOrder
  BY <1>1 DEF InOrder
<1> QED  BY <1>2, <1>3, InitType DEF DaInv

(* Every step keeps the invariant. *)
LEMMA NextInv ==
  ASSUME DaInv, [DaNext]_daVars
  PROVE  DaInv'
<1>1. DaTypeOK'
  BY NextType DEF DaInv
<1>2. CASE ScanBegin \/ ScanAbort \/ UNCHANGED daVars
  <2>1. UNCHANGED <<chain, pos, events, stores, startId, biz, listed, asked, skipped>>
    BY <1>2 DEF ScanBegin, ScanAbort, daVars, streamVars, tickVars
  <2> QED  BY <1>1, <2>1 DEF DaInv, Confirmed, InOrder, AskedFirst, NoneLeftOut, Due, OnChain, Late
<1>3. CASE ListFails
  <2>1. UNCHANGED <<chain, pos, events, stores, biz, listed, asked, skipped>>
    BY <1>3 DEF ListFails, streamVars
  <2>2. startId' \in asked \cup {0, StartDataStoreId}
    BY <1>3, StartFromAsked DEF ListFails
  <2> QED
    BY <1>1, <2>1, <2>2 DEF DaInv, Confirmed, InOrder, AskedFirst, NoneLeftOut, Due, OnChain, Late
<1> QED
  BY <1>1, <1>2, <1>3, NewBlockInv, ScanCommitInv, ListInv, RetrieveInv, RestartInv DEF DaNext

(* The inductive invariant holds in every reachable state. *)
THEOREM DaInvariant == DaSpec => []DaInv
  BY InitInv, NextInv, PTL DEF DaSpec

(* The start id passes no recorded data store that was not asked for, whatever
   the order of scans, ticks, faults and restarts (business/run.go:164-181). *)
THEOREM DaPassedWasAsked == DaSpec => []PassedWasAsked
<1>1. DaInv => PassedWasAsked
  <2> SUFFICES ASSUME DaInv, NEW i \in Id, NEW j \in Id, events[i] > 0, i <= j, stores[j] > 0,
                      ~ (i <= StartDataStoreId), ~ Late(i), i \notin skipped
               PROVE  i \in asked
    BY DEF PassedWasAsked
  <2>1. j \in asked
    BY DEF DaInv, AskedFirst
  <2>2. Due(i)
    BY DataStoresAssumption DEF Due, DaInv, Confirmed, Id
  <2>3. CASE i = j
    BY <2>1, <2>3
  <2>4. CASE i < j
    BY <2>1, <2>2, <2>4 DEF DaInv, NoneLeftOut
  <2> QED  BY <2>3, <2>4 DEF Id
<1> QED  BY <1>1, DaInvariant, PTL

(* The rows of a data store come from one tick (business/run.go:164-171). *)
THEOREM DaRetrievedInOneTick == DaSpec => RetrievedInOneTick
<1>1. DaInv /\ [DaNext]_daVars =>
        [\A i \in Id : stores[i] > 0 => stores'[i] = stores[i]]_daVars
  <2> SUFFICES ASSUME DaInv, DaNext, NEW i \in Id, stores[i] > 0
               PROVE  stores'[i] = stores[i]
    OBVIOUS
  <2>1. CASE Retrieve
    <3>1. (biz = "retrieve" => listed[i] = 0) /\ stores[i] \in Nat
      <4>1. listed[i] \in Nat /\ stores[i] \in Nat
        BY DEF DaInv, DaTypeOK
      <4>2. biz = "retrieve" => ~ (listed[i] > 0)
        BY <4>1 DEF DaInv, AskedFirst
      <4> QED  BY <4>1, <4>2
    <3>2. CASE UNCHANGED stores
      BY <3>2
    <3>3. CASE /\ biz = "retrieve"
               /\ \E got \in [Id -> UNION {0..listed[k] : k \in Id}] :
                    /\ \A k \in Id : got[k] <= listed[k]
                    /\ stores' = [k \in Id |-> stores[k] + got[k]]
      <4>1. PICK got \in [Id -> UNION {0..listed[k] : k \in Id}] :
              /\ \A k \in Id : got[k] <= listed[k]
              /\ stores' = [k \in Id |-> stores[k] + got[k]]
        BY <3>3
      <4>2. got[i] \in Nat
        BY <4>1 DEF DaInv, DaTypeOK
      <4> QED  BY <3>1, <3>3, <4>1, <4>2
    <3> QED  BY <2>1, <3>2, <3>3 DEF Retrieve
  <2>2. CASE ~ Retrieve
    BY <2>2 DEF DaNext, NewBlock, ScanBegin, ScanCommit, ScanAbort, List, ListUnasked,
                ListFrom, ListFails, Restart, tickVars
  <2> QED  BY <2>1, <2>2
<1> QED  BY <1>1, DaInvariant, PTL DEF DaSpec, RetrievedInOneTick
=============================================================================
