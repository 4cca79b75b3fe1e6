-------------------------- MODULE WithdrawalsProofs --------------------------
(* Theorems about the tables of withdrawals and their events, for every number
   of withdrawals, events, proofs and faults and every challenge period. *)
EXTENDS Withdrawals, SequenceTheorems, TLAPS

(* The withdrawal of event i shows the event. *)
Recorded(i) ==
  LET w == l1Log[i].w IN
  /\ w \in DOMAIN row
  /\ l1Log[i].kind = "proven"    => row[w].prove # 0
  /\ l1Log[i].kind = "finalized" => row[w].final = i

(* The L1 contracts finalize a withdrawal once. *)
FinalOnce ==
  \A i, j \in 1..Len(l1Log) :
    l1Log[i] = l1Log[j] /\ l1Log[i].kind = "finalized" => i = j

(* The withdrawals of the events the lookups found are there; the loops only
   see such events; what a loop has passed is recorded; and nothing but Save
   writes the hashes of the row Take returned. *)
TickInv ==
  /\ \A i \in found : l1Log[i].w \in DOMAIN row
  /\ biz \in {"take", "save", "relate"} => todo \subseteq found
  /\ biz \in {"take", "save"} => \A i \in found \ todo : Recorded(i)
  /\ biz = "relate" => \A i \in found : Recorded(i)
  /\ biz = "save" =>
       /\ taken.event \in todo
       /\ taken.row.prove = row[l1Log[taken.event].w].prove
       /\ taken.row.final = row[l1Log[taken.event].w].final

(* The invariant of the tables of the business processor. *)
WdInv == WdTypeOK /\ FinalOnce /\ TickInv /\ StatusMatchesRow /\ RelatedMeansRecorded

(* While the tickers stand still, no stored event goes away and no event gets
   related, the types of the tables and the streams are all there is to check. *)
LEMMA QuietType ==
  ASSUME WdTypeOK, UNCHANGED <<biz, phase, todo, found, taken, clock>>,
         initiated' \in 0..N, l1Log' \in Seq(Entry), Len(l1Log') <= MaxLog,
         Len(l1Log) <= Len(l1Log'),
         pos' \in [Kind -> 0..Len(l1Log')], copies' \in [1..MaxLog -> Nat],
         \E n \in 0..initiated' : row' \in [1..n -> Row],
         related' \subseteq related,
         finTx' \in [to: 0..Len(l1Log'), stale: SUBSET Stored("finalized")'],
         faults' \in 0..MaxFaults,
         \A k \in Kind : Stored(k) \subseteq Stored(k)'
  PROVE  WdTypeOK'
<1>1. /\ Stored("proven") \subseteq Stored("proven")'
      /\ Stored("finalized") \subseteq Stored("finalized")'
  BY DEF Kind
<1>2. /\ phase \in {"proven", "finalized"} /\ phase' = phase
      /\ todo \subseteq Stored(phase) /\ found \subseteq Stored(phase)
      /\ todo' = todo /\ found' = found
  BY DEF WdTypeOK
<1>3. todo' \subseteq Stored(phase)' /\ found' \subseteq Stored(phase)'
  <2>1. CASE phase = "proven"
    BY <1>1, <1>2, <2>1
  <2>2. CASE phase = "finalized"
    BY <1>1, <1>2, <2>2
  <2> QED  BY <1>2, <2>1, <2>2
<1>4. related' \subseteq Stored("proven")' \cup Stored("finalized")'
  <2>1. related \subseteq Stored("proven") \cup Stored("finalized")
    BY DEF WdTypeOK
  <2> QED  BY <1>1, <2>1
<1>5. taken' \in [event: 0..Len(l1Log'), row: Row]
  <2>1. taken \in [event: 0..Len(l1Log), row: Row] /\ taken' = taken
    BY DEF WdTypeOK
  <2>2. 0..Len(l1Log) \subseteq 0..Len(l1Log')
    <3>1. Len(l1Log) \in Nat /\ Len(l1Log') \in Nat
      BY LenProperties DEF WdTypeOK
    <3> QED  BY <3>1
  <2> QED  BY <2>1, <2>2
<1>6. /\ biz' \in {"idle", "list", "lookup", "take", "save", "relate"}
      /\ phase' \in {"proven", "finalized"} /\ clock' \in {"idle", "ready"}
  BY DEF WdTypeOK
<1> QED  BY <1>3, <1>4, <1>5, <1>6 DEF WdTypeOK

(* What the streams' cases of the type invariant start from. *)
LEMMA LogType ==
  ASSUME WdTypeOK
  PROVE  /\ l1Log \in Seq(Entry) /\ Len(l1Log) \in Nat /\ MaxLog \in Nat /\ Len(l1Log) <= MaxLog
         /\ initiated \in 0..N /\ N \in Nat
         /\ pos \in [Kind -> 0..Len(l1Log)] /\ copies \in [1..MaxLog -> Nat]
         /\ \E n \in 0..initiated : row \in [1..n -> Row]
         /\ finTx \in [to: 0..Len(l1Log), stale: SUBSET Stored("finalized")]
         /\ faults \in 0..MaxFaults
<1>1. MaxLog \in Nat /\ N \in Nat
  BY WithdrawalsAssumption
<1>2. l1Log \in Seq(Entry) /\ Len(l1Log) <= MaxLog
  BY DEF WdTypeOK
<1>3. Len(l1Log) \in Nat
  BY <1>2, LenProperties
<1> QED  BY <1>1, <1>2, <1>3 DEF WdTypeOK

(* Emitting an event leaves the events before it alone. *)
LEMMA EmitLog ==
  ASSUME WdTypeOK, NEW k \in Kind, NEW w \in Withdrawal, Emit(k, w)
  PROVE  /\ l1Log' \in Seq(Entry) /\ Len(l1Log') = Len(l1Log) + 1 /\ Len(l1Log') <= MaxLog
         /\ \A i \in 1..Len(l1Log) : l1Log'[i] = l1Log[i]
         /\ l1Log'[Len(l1Log) + 1] = [kind |-> k, w |-> w]
<1>1. l1Log \in Seq(Entry) /\ Len(l1Log) \in Nat /\ [kind |-> k, w |-> w] \in Entry
  BY DEF WdTypeOK, Entry
<1>2. MaxLog \in Nat
  BY WithdrawalsAssumption
<1> QED  BY <1>1, <1>2 DEF Emit

(* What a step of the chains can be. *)
LEMMA ChainCases ==
  ASSUME WdTypeOK, ChainStep
  PROVE  \/ initiated' = initiated + 1 /\ initiated < N /\ UNCHANGED l1Log
         \/ \E k \in Kind, w \in Withdrawal :
              Emit(k, w) /\ (k = "finalized" => Events("finalized", w) = {})
<1>1. 1..initiated \subseteq Withdrawal
  BY WithdrawalsAssumption DEF WdTypeOK, Withdrawal
<1> QED  BY <1>1 DEF ChainStep, Kind

(* A step of the chains keeps every variable's type. *)
LEMMA ChainType == ASSUME WdTypeOK, ChainStep PROVE WdTypeOK'
<1> USE WithdrawalsAssumption
<1>1. UNCHANGED <<pos, copies, finTx, row, related, biz, phase, todo, found, taken, clock, faults>>
  BY DEF ChainStep, streamVars, bizVars
<1>2. CASE initiated' = initiated + 1 /\ initiated < N /\ UNCHANGED l1Log
  <2>1. initiated' \in 0..N /\ initiated \in Nat
    BY <1>2 DEF WdTypeOK
  <2>2. \E n \in 0..initiated' : row' \in [1..n -> Row]
    <3>1. PICK n \in 0..initiated : row \in [1..n -> Row]
      BY DEF WdTypeOK
    <3> QED  BY <1>1, <1>2, <2>1, <3>1
  <2>3. \A k \in Kind : Stored(k)' = Stored(k)
    BY <1>1, <1>2 DEF Stored, OnChain
  <2>4. finTx' \in [to: 0..Len(l1Log'), stale: SUBSET Stored("finalized")']
    BY <1>1, <1>2, <2>3, LogType DEF Kind
  <2>5. l1Log' = l1Log
    BY <1>2
  <2>6. /\ l1Log' \in Seq(Entry) /\ Len(l1Log') <= MaxLog /\ Len(l1Log) <= Len(l1Log')
        /\ pos' \in [Kind -> 0..Len(l1Log')] /\ copies' \in [1..MaxLog -> Nat]
        /\ faults' \in 0..MaxFaults
    BY <1>1, <2>5, LogType
  <2>7. \A k \in Kind : Stored(k) \subseteq Stored(k)'
    BY <2>3
  <2> QED  BY <1>1, <2>1, <2>2, <2>4, <2>6, <2>7, QuietType
<1>3. CASE \E k \in Kind, w \in Withdrawal : Emit(k, w)
  <2>1. PICK k \in Kind, w \in Withdrawal : Emit(k, w)
    BY <1>3
  <2>2. /\ l1Log' \in Seq(Entry) /\ Len(l1Log') = Len(l1Log) + 1 /\ Len(l1Log') <= MaxLog
        /\ \A i \in 1..Len(l1Log) : l1Log'[i] = l1Log[i]
    BY <2>1, EmitLog
  <2>3. \A kk \in Kind : Stored(kk) \subseteq Stored(kk)'
    BY <1>1, <2>2 DEF Stored, OnChain, WdTypeOK
  <2>4. Len(l1Log) \in Nat
    BY DEF WdTypeOK
  <2>5. initiated' = initiated
    BY <2>1 DEF Emit
  <2>6. pos' \in [Kind -> 0..Len(l1Log')] /\ taken' \in [event: 0..Len(l1Log'), row: Row]
    BY <1>1, <2>2, <2>4 DEF WdTypeOK
  <2>7. finTx' \in [to: 0..Len(l1Log'), stale: SUBSET Stored("finalized")']
    BY <1>1, <2>2, <2>3, <2>4 DEF WdTypeOK, Kind
  <2>8. Len(l1Log) <= Len(l1Log')
    BY <2>2, <2>4
  <2> QED  BY <1>1, <2>2, <2>3, <2>5, <2>6, <2>7, <2>8, LogType, QuietType
<1> QED  BY <1>2, <1>3, ChainCases

(* A stream's scan keeps the types of the watermarks and the tables; no row
   goes away. *)
LEMMA ScanType ==
  ASSUME WdTypeOK, NEW k \in Kind, NEW n \in 0..Len(l1Log), Scan(k, n), UNCHANGED l1Log
  PROVE  /\ pos' \in [Kind -> 0..Len(l1Log)] /\ copies' \in [1..MaxLog -> Nat]
         /\ \A kk \in Kind : Stored(kk) \subseteq Stored(kk)'
<1>1. Len(l1Log) \in Nat /\ MaxLog \in Nat /\ Len(l1Log) <= MaxLog
  BY WithdrawalsAssumption DEF WdTypeOK
<1>2. pos' \in [Kind -> 0..Len(l1Log)]
  BY LogType DEF Scan
<1>3. \A i \in 1..MaxLog : copies[i] \in Nat /\ copies'[i] \in Nat /\ copies'[i] >= copies[i]
  BY LogType DEF Scan
<1>4. copies' \in [1..MaxLog -> Nat]
  BY <1>3 DEF Scan
<1>5. ASSUME NEW kk \in Kind, NEW i \in Stored(kk) PROVE i \in Stored(kk)'
  <2>1. i \in OnChain(kk) /\ copies[i] > 0
    BY DEF Stored
  <2>2. i \in 1..MaxLog
    BY <1>1, <2>1 DEF OnChain
  <2>3. copies'[i] > 0
    BY <1>3, <2>1, <2>2
  <2>4. i \in OnChain(kk)'
    BY <2>1 DEF OnChain
  <2> QED  BY <2>3, <2>4 DEF Stored
<1> QED  BY <1>2, <1>4, <1>5

(* Every step of a stream keeps every variable's type. *)
LEMMA StreamType ==
  ASSUME WdTypeOK,
         \/ IndexInitiated \/ IndexL1("root") \/ IndexL1("proven")
         \/ FinalizedBegin \/ FinalizedCommit \/ FinalizedAbort
  PROVE  WdTypeOK'
<1>0. Len(l1Log) \in Nat /\ initiated \in Nat
  BY WithdrawalsAssumption DEF WdTypeOK
<1>1. CASE IndexInitiated
  <2>1. UNCHANGED <<initiated, l1Log, pos, copies, finTx, related, biz, phase, todo, found, taken, clock, faults>>
    BY <1>1 DEF IndexInitiated, chainVars, streamVars, bizVars
  <2>2. PICK n \in 1..initiated :
          row' = [w \in 1..n |-> IF w \in DOMAIN row THEN row[w] ELSE NewRow]
    BY <1>1 DEF IndexInitiated
  <2>3. NewRow \in Row
    BY WithdrawalsAssumption DEF NewRow, Row, Pending, Claimed
  <2>4. \A w \in DOMAIN row : row[w] \in Row
    BY DEF WdTypeOK
  <2>5. row' \in [1..n -> Row]
    BY <2>2, <2>3, <2>4
  <2>6. \A k \in Kind : Stored(k)' = Stored(k)
    BY <2>1 DEF Stored, OnChain
  <2>7. finTx' \in [to: 0..Len(l1Log'), stale: SUBSET Stored("finalized")']
    BY <2>1, <2>6, LogType DEF Kind
  <2>8. \E k \in 0..initiated' : row' \in [1..k -> Row]
    BY <1>0, <2>1, <2>2, <2>5
  <2> QED  BY <2>1, <2>6, <2>7, <2>8, LogType, QuietType
<1>2. CASE IndexL1("root") \/ IndexL1("proven")
  <2>1. PICK k \in Kind : IndexL1(k)
    BY <1>2 DEF Kind
  <2>2. PICK n \in 0..Len(l1Log) : Scan(k, n)
    BY <1>0, <2>1 DEF IndexL1, WdTypeOK
  <2>3. UNCHANGED <<initiated, l1Log, finTx, row, related, biz, phase, todo, found, taken, clock, faults>>
    BY <2>1 DEF IndexL1, chainVars, bizVars
  <2>4. /\ pos' \in [Kind -> 0..Len(l1Log)] /\ copies' \in [1..MaxLog -> Nat]
        /\ \A kk \in Kind : Stored(kk) \subseteq Stored(kk)'
    BY <2>2, <2>3, ScanType
  <2>5. finTx' \in [to: 0..Len(l1Log'), stale: SUBSET Stored("finalized")']
    BY <2>3, <2>4, LogType DEF Kind
  <2> QED  BY <2>3, <2>4, <2>5, LogType, QuietType
<1>3. CASE FinalizedBegin
  <2>1. UNCHANGED <<initiated, l1Log, pos, copies, row, related, biz, phase, todo, found, taken, clock, faults>>
    BY <1>3 DEF FinalizedBegin, chainVars, bizVars
  <2>2. finTx' \in [to: 0..Len(l1Log), stale: SUBSET Stored("finalized")]
    BY <1>0, <1>3 DEF FinalizedBegin, WdTypeOK, Kind
  <2>3. \A k \in Kind : Stored(k)' = Stored(k)
    BY <2>1 DEF Stored, OnChain
  <2>4. finTx' \in [to: 0..Len(l1Log'), stale: SUBSET Stored("finalized")']
    BY <2>1, <2>2, <2>3 DEF Kind
  <2> QED  BY <2>1, <2>3, <2>4, LogType, QuietType
<1>4. CASE FinalizedCommit
  <2>1. UNCHANGED <<initiated, l1Log, row, biz, phase, todo, found, taken, clock, faults>>
    BY <1>4 DEF FinalizedCommit, chainVars, bizVars
  <2>2. finTx' = NoTx /\ related' \subseteq related
    BY <1>4 DEF FinalizedCommit
  <2>3. /\ pos' \in [Kind -> 0..Len(l1Log)] /\ copies' \in [1..MaxLog -> Nat]
        /\ \A kk \in Kind : Stored(kk) \subseteq Stored(kk)'
    <3>1. finTx.to \in 0..Len(l1Log) /\ Scan("finalized", finTx.to)
      BY <1>4 DEF FinalizedCommit, WdTypeOK
    <3> QED  BY <2>1, <3>1, ScanType DEF Kind
  <2>4. finTx' \in [to: 0..Len(l1Log'), stale: SUBSET Stored("finalized")']
    BY <1>0, <2>1, <2>2 DEF NoTx
  <2>5. faults' = faults
    BY <1>4 DEF FinalizedCommit
  <2> QED  BY <2>1, <2>2, <2>3, <2>4, <2>5, LogType, QuietType
<1>5. CASE FinalizedAbort
  <2>1. UNCHANGED <<initiated, l1Log, pos, copies, row, related, biz, phase, todo, found, taken, clock>>
    BY <1>5 DEF FinalizedAbort, chainVars, bizVars
  <2>2. finTx' = NoTx /\ faults' \in 0..MaxFaults
    BY <1>5, WithdrawalsAssumption DEF FinalizedAbort, WdTypeOK
  <2>3. finTx' \in [to: 0..Len(l1Log), stale: SUBSET Stored("finalized")]
    BY <1>0, <2>2 DEF NoTx
  <2>4. \A k \in Kind : Stored(k)' = Stored(k)
    BY <2>1 DEF Stored, OnChain
  <2>5. finTx' \in [to: 0..Len(l1Log'), stale: SUBSET Stored("finalized")']
    BY <2>1, <2>3, <2>4 DEF Kind
  <2> QED  BY <2>1, <2>2, <2>4, <2>5, LogType, QuietType
<1> QED  BY <1>1, <1>2, <1>3, <1>4, <1>5

(* When the chains and the streams stand still, the types of the other
   variables are all there is to check. *)
LEMMA StillType ==
  ASSUME WdTypeOK, UNCHANGED <<chainVars, streamVars>>,
         \E n \in 0..initiated : row' \in [1..n -> Row],
         related' \subseteq Stored("proven") \cup Stored("finalized"),
         biz' \in {"idle", "list", "lookup", "take", "save", "relate"},
         phase' \in {"proven", "finalized"},
         todo' \subseteq Stored(phase'), found' \subseteq Stored(phase'),
         taken' \in [event: 0..Len(l1Log), row: Row],
         clock' \in {"idle", "ready"}, faults' \in 0..MaxFaults
  PROVE  WdTypeOK'
<1>1. UNCHANGED <<initiated, l1Log, pos, copies, finTx>>
  BY DEF chainVars, streamVars
<1>2. \A k \in Kind : Stored(k)' = Stored(k)
  BY <1>1 DEF Stored, OnChain
<1>3. Stored(phase)' = Stored(phase')
  BY <1>1 DEF Stored, OnChain
<1> QED  BY <1>1, <1>2, <1>3 DEF WdTypeOK, Kind

(* Save's assignments to single columns of a row: the other columns stay. *)
LEMMA SetStatus ==
  ASSUME NEW r \in Row, NEW s \in Pending..Claimed
  PROVE  /\ [r EXCEPT !.status = s] \in Row
         /\ [r EXCEPT !.status = s].status = s
         /\ [r EXCEPT !.status = s].timeLeft = r.timeLeft
         /\ [r EXCEPT !.status = s].prove = r.prove
         /\ [r EXCEPT !.status = s].final = r.final
BY DEF Row

(* The same of the column of the time left. *)
LEMMA SetTimeLeft ==
  ASSUME NEW r \in Row, NEW t \in 0..FraudProofWindows
  PROVE  /\ [r EXCEPT !.timeLeft = t] \in Row
         /\ [r EXCEPT !.timeLeft = t].status = r.status
         /\ [r EXCEPT !.timeLeft = t].timeLeft = t
         /\ [r EXCEPT !.timeLeft = t].prove = r.prove
         /\ [r EXCEPT !.timeLeft = t].final = r.final
BY DEF Row

(* The same of the hash of the proof. *)
LEMMA SetProve ==
  ASSUME NEW r \in Row, NEW i \in 0..MaxLog
  PROVE  /\ [r EXCEPT !.prove = i] \in Row
         /\ [r EXCEPT !.prove = i].status = r.status
         /\ [r EXCEPT !.prove = i].timeLeft = r.timeLeft
         /\ [r EXCEPT !.prove = i].prove = i
         /\ [r EXCEPT !.prove = i].final = r.final
BY DEF Row

(* The same of the hash of the finalization. *)
LEMMA SetFinal ==
  ASSUME NEW r \in Row, NEW i \in 0..MaxLog
  PROVE  /\ [r EXCEPT !.final = i] \in Row
         /\ [r EXCEPT !.final = i].status = r.status
         /\ [r EXCEPT !.final = i].timeLeft = r.timeLeft
         /\ [r EXCEPT !.final = i].prove = r.prove
         /\ [r EXCEPT !.final = i].final = i
BY DEF Row

(* What UpdateReadyForProvedStatus makes of a row. *)
LEMMA ReadyRowIs ==
  ASSUME NEW r \in Row
  PROVE  /\ ReadyRow(r) \in Row
         /\ ReadyRow(r).status = ReadyForProved /\ ReadyRow(r).timeLeft = FraudProofWindows
         /\ ReadyRow(r).prove = r.prove /\ ReadyRow(r).final = r.final
<1> DEFINE r1 == [r EXCEPT !.status = ReadyForProved]
<1>0. ReadyForProved \in Pending..Claimed
  BY DEF Pending, ReadyForProved, Claimed
<1>1. /\ r1 \in Row /\ r1.status = ReadyForProved
      /\ r1.prove = r.prove /\ r1.final = r.final
  BY <1>0, SetStatus
<1>2. ReadyRow(r) = [r1 EXCEPT !.timeLeft = FraudProofWindows]
  BY DEF ReadyRow
<1>3. FraudProofWindows \in 0..FraudProofWindows
  BY WithdrawalsAssumption
<1> HIDE DEF r1
<1> QED  BY <1>1, <1>2, <1>3, SetTimeLeft

(* What MarkL2ToL1TransactionWithdrawalProven makes of a row. *)
LEMMA ProvenIs ==
  ASSUME NEW r \in Row, NEW i \in 0..MaxLog
  PROVE  /\ Proven(r, i) \in Row
         /\ Proven(r, i).status = IF r.timeLeft > 0 THEN InChallenge ELSE ReadyForClaim
         /\ Proven(r, i).timeLeft = r.timeLeft
         /\ Proven(r, i).prove = i /\ Proven(r, i).final = r.final
<1> DEFINE r1 == [r EXCEPT !.prove = i]
           s  == IF r.timeLeft > 0 THEN InChallenge ELSE ReadyForClaim
<1>1. r1 \in Row /\ r1.timeLeft = r.timeLeft /\ r1.prove = i /\ r1.final = r.final
  BY SetProve
<1>2. Proven(r, i) = [r1 EXCEPT !.status = s]
  BY DEF Proven
<1>3. s \in Pending..Claimed
  BY DEF Pending, InChallenge, ReadyForClaim, Claimed
<1> HIDE DEF r1, s
<1>4. /\ Proven(r, i) \in Row /\ Proven(r, i).status = s
      /\ Proven(r, i).timeLeft = r.timeLeft
      /\ Proven(r, i).prove = i /\ Proven(r, i).final = r.final
  BY <1>1, <1>2, <1>3, SetStatus
<1> QED  BY <1>4 DEF s

(* What MarkL2ToL1TransactionWithdrawalFinalized makes of a row. *)
LEMMA FinalizedIs ==
  ASSUME NEW r \in Row, NEW i \in 0..MaxLog
  PROVE  /\ Finalized(r, i) \in Row
         /\ Finalized(r, i).status = Claimed
         /\ Finalized(r, i).timeLeft = r.timeLeft
         /\ Finalized(r, i).prove = r.prove /\ Finalized(r, i).final = i
<1> DEFINE r1 == [r EXCEPT !.final = i]
<1>1. r1 \in Row /\ r1.timeLeft = r.timeLeft /\ r1.prove = r.prove /\ r1.final = i
  BY SetFinal
<1>2. Finalized(r, i) = [r1 EXCEPT !.status = Claimed]
  BY DEF Finalized
<1>3. Claimed \in Pending..Claimed
  BY DEF Pending, Claimed
<1> HIDE DEF r1
<1> QED  BY <1>1, <1>2, <1>3, SetStatus

(* The withdrawal ticker keeps every variable's type. *)
LEMMA BusinessType == ASSUME WdTypeOK, TickInv, Business PROVE WdTypeOK'
<1>0. /\ Len(l1Log) \in Nat /\ MaxFaults \in Nat /\ FraudProofWindows \in Nat \ {0}
      /\ MaxLog \in Nat /\ faults \in 0..MaxFaults /\ Len(l1Log) <= MaxLog
      /\ phase \in {"proven", "finalized"} /\ clock \in {"idle", "ready"}
      /\ biz \in {"idle", "list", "lookup", "take", "save", "relate"}
      /\ todo \subseteq Stored(phase) /\ found \subseteq Stored(phase)
      /\ Stored(phase) \subseteq 1..Len(l1Log)
      /\ related \subseteq Stored("proven") \cup Stored("finalized")
      /\ taken \in [event: 0..Len(l1Log), row: Row]
  BY WithdrawalsAssumption DEF WdTypeOK, Stored, OnChain
<1>1. PICK n \in 0..initiated : row \in [1..n -> Row]
  BY DEF WdTypeOK
<1>2. NoTaken \in [event: 0..Len(l1Log), row: Row]
  BY <1>0 DEF NoTaken, NewRow, Row, Pending, Claimed
<1>3. CASE SyncStateRoot
  <2>1. row' \in [1..n -> Row]
    <3>1. \A r \in Row : ReadyRow(r) \in Row
      BY ReadyRowIs
    <3> QED  BY <1>1, <1>3, <3>1 DEF SyncStateRoot
  <2> QED  BY <1>0, <1>3, <2>1, StillType DEF SyncStateRoot
<1>4. CASE ListUnrelated
  BY <1>0, <1>1, <1>4, StillType DEF ListUnrelated
<1>5. CASE Lookup
  <2>1. faults' \in 0..MaxFaults
    BY <1>0, <1>5 DEF Lookup
  <2>2. todo' \subseteq Stored(phase) /\ found' \subseteq Stored(phase)
    BY <1>0, <1>5 DEF Lookup
  <2> QED  BY <1>0, <1>1, <1>5, <2>1, <2>2, StillType DEF Lookup
<1>6. CASE LookedUp
  BY <1>0, <1>1, <1>6, StillType DEF LookedUp
<1>7. CASE TakeRow
  <2>1. PICK i \in todo : taken' = [event |-> i, row |-> row[l1Log[i].w]]
    BY <1>7 DEF TakeRow
  <2>2. taken' \in [event: 0..Len(l1Log), row: Row]
    <3>1. l1Log[i].w \in 1..n /\ row[l1Log[i].w] \in Row /\ i \in 0..Len(l1Log)
      BY <1>0, <1>1, <1>7, <2>1 DEF TickInv, TakeRow
    <3> QED  BY <2>1, <3>1
  <2> QED  BY <1>0, <1>1, <1>7, <2>2, StillType DEF TakeRow
<1>8. CASE SaveRow
  <2>1. \A r \in Row, i \in 0..MaxLog : Proven(r, i) \in Row /\ Finalized(r, i) \in Row
    BY ProvenIs, FinalizedIs
  <2>3. taken.row \in Row /\ taken.event \in 0..MaxLog
    BY <1>0
  <2>2. row' \in [1..n -> Row]
    BY <1>1, <1>8, <2>1, <2>3 DEF SaveRow
  <2> QED  BY <1>0, <1>2, <1>8, <2>2, StillType DEF SaveRow
<1>9. CASE Marked
  BY <1>0, <1>1, <1>9, StillType DEF Marked
<1>10. CASE Relate
  <2>1. related' \subseteq Stored("proven") \cup Stored("finalized")
    BY <1>0, <1>10 DEF Relate
  <2> QED  BY <1>0, <1>1, <1>10, <2>1, StillType DEF Relate
<1>11. CASE Related
  <2>1. todo = {} /\ todo' = {} /\ found' = {} /\ taken' \in [event: 0..Len(l1Log), row: Row]
    BY <1>0, <1>2, <1>11 DEF Related, EndTick
  <2> QED  BY <1>0, <1>1, <1>11, <2>1, StillType DEF Related, EndTick
<1> QED  BY <1>3, <1>4, <1>5, <1>6, <1>7, <1>8, <1>9, <1>10, <1>11 DEF Business

(* The ticker of the challenge period, errors and restarts keep every
   variable's type. *)
LEMMA ClockType ==
  ASSUME WdTypeOK, CountDown \/ ChallengeOver \/ ClockError \/ TickError \/ Restart
  PROVE  WdTypeOK'
<1>0. /\ Len(l1Log) \in Nat /\ faults \in 0..MaxFaults /\ MaxFaults \in Nat
      /\ phase \in {"proven", "finalized"} /\ clock \in {"idle", "ready"}
      /\ biz \in {"idle", "list", "lookup", "take", "save", "relate"}
      /\ todo \subseteq Stored(phase) /\ found \subseteq Stored(phase)
      /\ related \subseteq Stored("proven") \cup Stored("finalized")
      /\ taken \in [event: 0..Len(l1Log), row: Row]
  BY WithdrawalsAssumption DEF WdTypeOK
<1>1. PICK n \in 0..initiated : row \in [1..n -> Row]
  BY DEF WdTypeOK
<1>2. NoTaken \in [event: 0..Len(l1Log), row: Row]
  BY <1>0, WithdrawalsAssumption DEF NoTaken, NewRow, Row, Pending, Claimed
<1>3. CASE CountDown
  <2>1. \A r \in Row : r.timeLeft > 0 => [r EXCEPT !.timeLeft = @ - 1] \in Row
    <3>1. \A r \in Row : r.timeLeft > 0 => r.timeLeft - 1 \in 0..FraudProofWindows
      BY WithdrawalsAssumption DEF Row
    <3> QED  BY <3>1, SetTimeLeft
  <2>2. row' \in [1..n -> Row]
    BY <1>1, <1>3, <2>1 DEF CountDown
  <2> QED  BY <1>0, <1>3, <2>2, StillType DEF CountDown, bizVars
<1>4. CASE ChallengeOver
  <2>1. \A r \in Row : [r EXCEPT !.status = ReadyForClaim] \in Row
    <3>1. ReadyForClaim \in Pending..Claimed
      BY DEF Pending, ReadyForClaim, Claimed
    <3> QED  BY <3>1, SetStatus
  <2>2. row' \in [1..n -> Row]
    BY <1>1, <1>4, <2>1 DEF ChallengeOver
  <2> QED  BY <1>0, <1>4, <2>2, StillType DEF ChallengeOver, bizVars
<1>5. CASE TickError
  BY <1>0, <1>1, <1>2, <1>5, StillType DEF TickError, EndTick
<1>6. CASE Restart
  <2>1. UNCHANGED <<initiated, l1Log, copies, row, related>>
    BY <1>6 DEF Restart, chainVars
  <2>2. \A k \in Kind : Stored(k)' = Stored(k)
    BY <2>1 DEF Stored, OnChain
  <2>3. /\ pos' \in [Kind -> 0..Len(l1Log)] /\ finTx' = NoTx /\ faults' \in 0..MaxFaults
        /\ biz' = "idle" /\ phase' = "proven" /\ todo' = {} /\ found' = {}
        /\ taken' = NoTaken /\ clock' = "idle"
    BY <1>0, <1>6 DEF Restart, EndTick
  <2>4. finTx' \in [to: 0..Len(l1Log), stale: SUBSET Stored("finalized")]
    BY <1>0, <2>3 DEF NoTx
  <2> QED  BY <1>2, <2>1, <2>2, <2>3, <2>4 DEF WdTypeOK, Kind
<1>7. CASE ClockError
  BY <1>0, <1>1, <1>7, StillType DEF ClockError, bizVars
<1> QED  BY <1>3, <1>4, <1>5, <1>6, <1>7

(* Every step keeps every variable's type, given that the ticker's loops only
   see events whose withdrawal is there. *)
LEMMA StepType == ASSUME WdTypeOK, TickInv, [WdNext]_wdVars PROVE WdTypeOK'
<1>1. CASE UNCHANGED wdVars
  BY <1>1 DEF wdVars, chainVars, streamVars, bizVars, WdTypeOK, Stored, OnChain
<1> QED  BY <1>1, ChainType, StreamType, BusinessType, ClockType DEF WdNext

-----------------------------------------------------------------------------
(* The events of the log stay, and rows keep their hashes: so does every step
   but Save. *)
LogKept ==
  /\ l1Log' \in Seq(Entry) /\ Len(l1Log) <= Len(l1Log')
  /\ \A i \in 1..Len(l1Log) : l1Log'[i] = l1Log[i]

RowsKept ==
  \A w \in DOMAIN row :
    w \in DOMAIN row' /\ row'[w].prove = row[w].prove /\ row'[w].final = row[w].final

(* What is recorded stays recorded while the rows keep their hashes. *)
LEMMA StaysRecorded ==
  ASSUME LogKept, RowsKept, NEW i \in 1..Len(l1Log), Recorded(i)
  PROVE  Recorded(i)'
<1>1. l1Log'[i] = l1Log[i]
  BY DEF LogKept
<1> QED  BY <1>1 DEF Recorded, RowsKept

(* Marked events and events in a list are events of the log. *)
LEMMA InLog ==
  ASSUME WdTypeOK
  PROVE  /\ related \subseteq 1..Len(l1Log)
         /\ todo \subseteq 1..Len(l1Log) /\ found \subseteq 1..Len(l1Log)
BY DEF WdTypeOK, Stored, OnChain

(* RelatedMeansRecorded, in terms of Recorded. *)
LEMMA RelatedIs == RelatedMeansRecorded <=> \A i \in related : Recorded(i)
BY DEF RelatedMeansRecorded, Recorded

(* A step that leaves the ticker, the hashes and the marks alone keeps what is
   known of the ticker and the marks. *)
LEMMA BystanderStep ==
  ASSUME WdTypeOK, TickInv, RelatedMeansRecorded,
         LogKept, RowsKept, UNCHANGED bizVars, related' \subseteq related
  PROVE  TickInv' /\ RelatedMeansRecorded'
<1>1. /\ UNCHANGED <<biz, phase, todo, found, taken>>
      /\ \A i \in 1..Len(l1Log) : l1Log'[i] = l1Log[i]
  BY DEF bizVars, LogKept
<1>2. \A i \in 1..Len(l1Log) : Recorded(i) => Recorded(i)'
  BY StaysRecorded
<1>3. RelatedMeansRecorded'
  <2>1. \A i \in related' : Recorded(i)'
    BY <1>2, InLog, RelatedIs
  <2> QED  BY <2>1, <1>1 DEF RelatedMeansRecorded, Recorded
<1>4. \A i \in found : l1Log'[i].w \in DOMAIN row'
  BY <1>1, InLog DEF TickInv, RowsKept
<1>5. biz = "save" =>
        /\ taken.row.prove = row'[l1Log'[taken.event].w].prove
        /\ taken.row.final = row'[l1Log'[taken.event].w].final
  <2>1. biz = "save" => taken.event \in found /\ l1Log[taken.event].w \in DOMAIN row
    BY DEF TickInv
  <2> QED  BY <1>1, <2>1, InLog DEF TickInv, RowsKept
<1>6. TickInv'
  BY <1>1, <1>2, <1>4, <1>5, InLog DEF TickInv
<1> QED  BY <1>3, <1>6

(* The status of one row agrees with its hashes and its time left. *)
RowOK(r) ==
  /\ r.status \in {Pending, ReadyForProved} <=> r.prove = 0 /\ r.final = 0
  /\ r.status = Claimed => r.final # 0
  /\ r.status = ReadyForClaim => r.timeLeft = 0

(* StatusMatchesRow, in terms of RowOK. *)
LEMMA StatusIs == StatusMatchesRow <=> \A w \in DOMAIN row : RowOK(row[w])
BY DEF StatusMatchesRow, RowOK

(* Each writer leaves rows that agree. *)
LEMMA RowsOK ==
  /\ RowOK(NewRow)
  /\ \A r \in Row : RowOK(r) /\ r.status = Pending => RowOK(ReadyRow(r))
  /\ \A r \in Row, i \in 1..MaxLog : RowOK(Proven(r, i)) /\ RowOK(Finalized(r, i))
  /\ \A r \in Row : RowOK(r) /\ r.status = InChallenge /\ r.timeLeft > 0 =>
       RowOK([r EXCEPT !.timeLeft = @ - 1])
  /\ \A r \in Row : RowOK(r) /\ r.status = InChallenge /\ r.timeLeft = 0 =>
       RowOK([r EXCEPT !.status = ReadyForClaim])
<1> USE DEF Pending, ReadyForProved, InChallenge, ReadyForClaim, Claimed
<1>1. RowOK(NewRow)
  BY DEF RowOK, NewRow
<1>2. ASSUME NEW r \in Row, RowOK(r), r.status = Pending PROVE RowOK(ReadyRow(r))
  BY <1>2, ReadyRowIs DEF RowOK
<1>3. ASSUME NEW r \in Row, NEW i \in 1..MaxLog
      PROVE  RowOK(Proven(r, i)) /\ RowOK(Finalized(r, i))
  <2>1. i \in 0..MaxLog /\ i # 0 /\ r.timeLeft \in Nat
    BY WithdrawalsAssumption DEF Row
  <2> QED  BY <2>1, ProvenIs, FinalizedIs DEF RowOK
<1>4. ASSUME NEW r \in Row, RowOK(r), r.status = InChallenge, r.timeLeft > 0
      PROVE  RowOK([r EXCEPT !.timeLeft = @ - 1])
  BY <1>4 DEF RowOK, Row
<1>5. ASSUME NEW r \in Row, RowOK(r), r.status = InChallenge, r.timeLeft = 0
      PROVE  RowOK([r EXCEPT !.status = ReadyForClaim])
  BY <1>5 DEF RowOK, Row
<1> QED  BY <1>1, <1>2, <1>3, <1>4, <1>5

(* Steps of the chains, the streams and the clock keep the invariant. *)
LEMMA ChainInv ==
  ASSUME WdInv, ChainStep
  PROVE  FinalOnce' /\ TickInv' /\ StatusMatchesRow' /\ RelatedMeansRecorded'
<1> USE DEF WdInv
<1>1. UNCHANGED <<related, row, biz, phase, todo, found, taken>>
  BY DEF ChainStep, bizVars
<1>2. Len(l1Log) \in Nat /\ l1Log \in Seq(Entry)
  BY DEF WdTypeOK
<1>3. RowsKept /\ UNCHANGED bizVars /\ related' \subseteq related
  BY <1>1 DEF RowsKept, bizVars
<1>4. StatusMatchesRow'
  BY <1>1 DEF StatusMatchesRow
<1>5. CASE UNCHANGED l1Log
  <2>1. LogKept /\ FinalOnce'
    BY <1>2, <1>5 DEF LogKept, FinalOnce
  <2> QED  BY <1>3, <1>4, <2>1, BystanderStep
<1>6. CASE \E k \in Kind, w \in Withdrawal :
             Emit(k, w) /\ (k = "finalized" => Events("finalized", w) = {})
  <2>1. PICK k \in Kind, w \in Withdrawal :
          Emit(k, w) /\ (k = "finalized" => Events("finalized", w) = {})
    BY <1>6
  <2>2. /\ l1Log' \in Seq(Entry) /\ Len(l1Log') = Len(l1Log) + 1
        /\ \A i \in 1..Len(l1Log) : l1Log'[i] = l1Log[i]
        /\ l1Log'[Len(l1Log) + 1] = [kind |-> k, w |-> w]
    BY <2>1, EmitLog
  <2>3. LogKept
    BY <1>2, <2>2 DEF LogKept
  <2>4. k = "finalized" =>
          \A i \in 1..Len(l1Log) : ~ (l1Log[i].kind = "finalized" /\ l1Log[i].w = w)
    BY <2>1 DEF Events, OnChain
  <2>5. FinalOnce'
    <3>1. SUFFICES ASSUME NEW i \in 1..Len(l1Log'), NEW j \in 1..Len(l1Log'),
                          l1Log'[i] = l1Log'[j], l1Log'[i].kind = "finalized"
                   PROVE  i = j
      BY DEF FinalOnce
    <3>2. CASE i \in 1..Len(l1Log) /\ j \in 1..Len(l1Log)
      BY <2>2, <3>1, <3>2 DEF FinalOnce
    <3>3. CASE i = Len(l1Log) + 1 \/ j = Len(l1Log) + 1
      BY <1>2, <2>2, <2>4, <3>1, <3>3
    <3> QED  BY <1>2, <2>2, <3>2, <3>3
  <2> QED  BY <1>3, <1>4, <2>3, <2>5, BystanderStep
<1> QED  BY <1>5, <1>6, ChainCases

(* The same of the streams, the clock, errors and restarts. *)
LEMMA OthersInv ==
  ASSUME WdInv,
         \/ IndexInitiated \/ IndexL1("root") \/ IndexL1("proven")
         \/ FinalizedBegin \/ FinalizedCommit \/ FinalizedAbort
         \/ CountDown \/ ChallengeOver \/ ClockError \/ TickError \/ Restart
  PROVE  FinalOnce' /\ TickInv' /\ StatusMatchesRow' /\ RelatedMeansRecorded'
<1> USE DEF WdInv
<1>1. l1Log' = l1Log
  BY DEF IndexInitiated, IndexL1, FinalizedBegin, FinalizedCommit, FinalizedAbort,
         CountDown, ChallengeOver, ClockError, TickError, Restart, chainVars
<1>2. LogKept /\ FinalOnce'
  <2>1. l1Log \in Seq(Entry) /\ Len(l1Log) \in Nat
    BY DEF WdTypeOK
  <2> QED  BY <1>1, <2>1 DEF LogKept, FinalOnce
<1>3. PICK n \in 0..initiated : row \in [1..n -> Row]
  BY DEF WdTypeOK
<1>4. \A w \in DOMAIN row : RowOK(row[w])
  BY StatusIs
<1>5. CASE IndexInitiated
  <2>1. UNCHANGED bizVars /\ related' = related
    BY <1>5 DEF IndexInitiated
  <2>2. PICK m \in 1..initiated \ DOMAIN row :
          row' = [w \in 1..m |-> IF w \in DOMAIN row THEN row[w] ELSE NewRow]
    BY <1>5 DEF IndexInitiated
  <2>3. initiated \in Nat /\ DOMAIN row \subseteq 1..m
    BY <1>3, <2>2, WithdrawalsAssumption DEF WdTypeOK
  <2>4. RowsKept
    BY <2>2, <2>3 DEF RowsKept
  <2>5. \A w \in DOMAIN row' : RowOK(row'[w])
    BY <1>4, <2>2, RowsOK
  <2> QED  BY <1>2, <2>1, <2>4, <2>5, BystanderStep DEF StatusMatchesRow, RowOK
<1>6. CASE \/ IndexL1("root") \/ IndexL1("proven")
           \/ FinalizedBegin \/ FinalizedCommit \/ FinalizedAbort \/ ClockError
  <2>1. UNCHANGED bizVars /\ related' \subseteq related /\ row' = row
    BY <1>6 DEF IndexL1, FinalizedBegin, FinalizedCommit, FinalizedAbort, ClockError
  <2> QED  BY <1>2, <2>1, BystanderStep DEF RowsKept, StatusMatchesRow
<1>7. CASE CountDown
  <2>1. UNCHANGED bizVars /\ related' = related
    BY <1>7 DEF CountDown
  <2>2. row' = [w \in DOMAIN row |->
          IF row[w].status = InChallenge /\ row[w].timeLeft > 0
          THEN [row[w] EXCEPT !.timeLeft = @ - 1] ELSE row[w]]
    BY <1>7 DEF CountDown
  <2>3. \A r \in Row : r.timeLeft > 0 => r.timeLeft - 1 \in 0..FraudProofWindows
    BY WithdrawalsAssumption DEF Row
  <2>4. RowsKept
    BY <1>3, <2>2, <2>3, SetTimeLeft DEF RowsKept
  <2>5. \A w \in DOMAIN row' : RowOK(row'[w])
    BY <1>3, <1>4, <2>2, RowsOK
  <2> QED  BY <1>2, <2>1, <2>4, <2>5, BystanderStep DEF StatusMatchesRow, RowOK
<1>8. CASE ChallengeOver
  <2>1. UNCHANGED bizVars /\ related' = related
    BY <1>8 DEF ChallengeOver
  <2>2. row' = [w \in DOMAIN row |->
          IF row[w].status = InChallenge /\ row[w].timeLeft = 0
          THEN [row[w] EXCEPT !.status = ReadyForClaim] ELSE row[w]]
    BY <1>8 DEF ChallengeOver
  <2>3. ReadyForClaim \in Pending..Claimed
    BY DEF Pending, ReadyForClaim, Claimed
  <2>4. RowsKept
    BY <1>3, <2>2, <2>3, SetStatus DEF RowsKept
  <2>5. \A w \in DOMAIN row' : RowOK(row'[w])
    BY <1>3, <1>4, <2>2, RowsOK
  <2> QED  BY <1>2, <2>1, <2>4, <2>5, BystanderStep DEF StatusMatchesRow, RowOK
<1>9. CASE TickError \/ Restart
  <2>1. /\ row' = row /\ related' = related
        /\ biz' = "idle" /\ todo' = {} /\ found' = {}
    BY <1>9 DEF TickError, Restart, EndTick
  <2>2. TickInv'
    BY <2>1 DEF TickInv
  <2> QED  BY <1>1, <1>2, <2>1, <2>2 DEF StatusMatchesRow, RelatedMeansRecorded
<1> QED  BY <1>5, <1>6, <1>7, <1>8, <1>9

(* A step of the withdrawal ticker keeps the invariant. *)
LEMMA BusinessInv ==
  ASSUME WdInv, Business
  PROVE  FinalOnce' /\ TickInv' /\ StatusMatchesRow' /\ RelatedMeansRecorded'
<1> USE DEF WdInv
<1>1. UNCHANGED l1Log
  BY DEF Business, SyncStateRoot, ListUnrelated, Lookup, LookedUp, TakeRow, SaveRow, Marked,
         Relate, Related, chainVars
<1>2. FinalOnce'
  BY <1>1 DEF FinalOnce
<1>3. PICK n \in 0..initiated : row \in [1..n -> Row]
  BY DEF WdTypeOK
<1>4. \A w \in DOMAIN row : RowOK(row[w])
  BY StatusIs
<1>5. CASE SyncStateRoot
  <2>1. /\ UNCHANGED <<phase, todo, found, taken, related>> /\ biz' = "list"
        /\ row' = [w \in DOMAIN row |->
             IF Rooted(w, Stored("root")) /\ row[w].status = Pending THEN ReadyRow(row[w])
             ELSE row[w]]
    BY <1>5 DEF SyncStateRoot
  <2>2. \A w \in DOMAIN row' : RowOK(row'[w])
    BY <1>3, <1>4, <2>1, RowsOK
  <2>3. /\ DOMAIN row' = DOMAIN row
        /\ \A w \in DOMAIN row : row'[w].prove = row[w].prove /\ row'[w].final = row[w].final
    BY <1>3, <2>1, ReadyRowIs
  <2>4. TickInv'
    BY <1>1, <2>1, <2>3 DEF TickInv
  <2>5. RelatedMeansRecorded'
    BY <1>1, <2>1, <2>3 DEF RelatedMeansRecorded
  <2> QED  BY <1>2, <2>2, <2>4, <2>5 DEF StatusMatchesRow, RowOK
<1>6. CASE ListUnrelated \/ LookedUp \/ Marked \/ Related
  <2>1. UNCHANGED <<row, related>>
    BY <1>6 DEF ListUnrelated, LookedUp, Marked, Related
  <2>2. TickInv'
    BY <1>1, <1>6, <2>1 DEF TickInv, Recorded, ListUnrelated, LookedUp, Marked, Related, EndTick
  <2> QED  BY <1>1, <1>2, <2>1, <2>2 DEF StatusMatchesRow, RelatedMeansRecorded
<1>7. CASE Lookup
  <2>1. /\ UNCHANGED <<row, related, biz, phase, taken>> /\ biz = "lookup"
        /\ \A i \in found' : i \in found \/ l1Log[i].w \in DOMAIN row
    BY <1>7 DEF Lookup
  <2>2. TickInv'
    BY <1>1, <2>1 DEF TickInv
  <2> QED  BY <1>1, <1>2, <2>1, <2>2 DEF StatusMatchesRow, RelatedMeansRecorded
<1>8. CASE TakeRow
  <2>1. PICK i \in todo : taken' = [event |-> i, row |-> row[l1Log[i].w]]
    BY <1>8 DEF TakeRow
  <2>2. UNCHANGED <<row, related, phase, todo, found>> /\ biz = "take" /\ biz' = "save"
    BY <1>8 DEF TakeRow
  <2>3. TickInv'
    BY <1>1, <2>1, <2>2 DEF TickInv, Recorded
  <2> QED  BY <1>1, <1>2, <2>2, <2>3 DEF StatusMatchesRow, RelatedMeansRecorded
<1>9. CASE SaveRow
  <2>0. PICK i \in todo : i = taken.event
    BY <1>9 DEF SaveRow, TickInv
  <2> DEFINE w   == l1Log[i].w
             new == IF phase = "proven" THEN Proven(taken.row, i) ELSE Finalized(taken.row, i)
  <2>1. /\ biz = "save" /\ biz' = "take" /\ todo' = todo \ {i}
        /\ UNCHANGED <<related, phase, found>>
        /\ row' = [row EXCEPT ![w] = new]
    BY <1>9, <2>0 DEF SaveRow
  <2>2. /\ i \in todo /\ i \in found /\ w \in DOMAIN row
        /\ taken.row.prove = row[w].prove /\ taken.row.final = row[w].final
    BY <2>0, <2>1 DEF TickInv
  <2>3. /\ i \in 1..Len(l1Log) /\ i \in 1..MaxLog /\ i \in 0..MaxLog /\ i # 0
        /\ l1Log[i] \in Entry /\ l1Log[i].kind = phase /\ taken.row \in Row
        /\ phase \in {"proven", "finalized"}
    BY <2>2, InLog, WithdrawalsAssumption DEF WdTypeOK, Stored, OnChain
  <2>4. /\ phase = "proven"    => new.prove = i /\ new.final = row[w].final
        /\ phase = "finalized" => new.prove = row[w].prove /\ new.final = i
        /\ RowOK(new)
    BY <2>2, <2>3, ProvenIs, FinalizedIs, RowsOK
  <2> HIDE DEF w, new
  <2>5. /\ DOMAIN row' = DOMAIN row /\ row'[w] = new
        /\ \A v \in DOMAIN row : v # w => row'[v] = row[v]
    BY <1>3, <2>1, <2>2
  <2>6. \A v \in DOMAIN row' : RowOK(row'[v])
    BY <1>4, <2>4, <2>5
  <2>7. Recorded(i)'
    BY <1>1, <2>2, <2>3, <2>4, <2>5 DEF Recorded, w
  <2>8. ASSUME NEW j \in 1..Len(l1Log), Recorded(j) PROVE Recorded(j)'
    <3>1. CASE l1Log[j].w # w
      BY <1>1, <2>5, <2>8, <3>1 DEF Recorded
    <3>2. CASE l1Log[j].w = w /\ l1Log[j].kind = "finalized" /\ phase = "finalized"
      <4>1. l1Log[j] \in Entry
        BY DEF WdTypeOK
      <4>2. l1Log[j] = l1Log[i]
        BY <2>3, <3>2, <4>1 DEF Entry, w
      <4> QED  BY <2>3, <2>7, <3>2, <4>2 DEF FinalOnce
    <3>3. CASE l1Log[j].w = w /\ (l1Log[j].kind = "finalized" => phase = "proven")
      BY <1>1, <2>2, <2>3, <2>4, <2>5, <2>8, <3>3 DEF Recorded
    <3> QED  BY <2>3, <3>1, <3>2, <3>3
  <2>9. TickInv'
    <3>1. todo' \subseteq found'
      BY <2>1 DEF TickInv
    <3>2. \A j \in found' : l1Log'[j].w \in DOMAIN row'
      BY <1>1, <2>1, <2>5 DEF TickInv
    <3>3. \A j \in found' \ todo' : Recorded(j)'
      BY <2>1, <2>7, <2>8, InLog DEF TickInv
    <3> QED  BY <2>1, <3>1, <3>2, <3>3 DEF TickInv
  <2>10. RelatedMeansRecorded'
    <3>1. \A j \in related' : Recorded(j)'
      BY <2>1, <2>8, InLog, RelatedIs
    <3> QED  BY <3>1 DEF RelatedMeansRecorded, Recorded
  <2> QED  BY <1>2, <2>6, <2>9, <2>10 DEF StatusMatchesRow, RowOK
<1>10. CASE Relate
  <2>1. /\ UNCHANGED <<row, biz, phase, found, taken>> /\ biz = "relate"
        /\ todo' \subseteq todo
    BY <1>10 DEF Relate
  <2>2. TickInv'
    BY <1>1, <2>1 DEF TickInv, Recorded
  <2>3a. PICK i \in todo :
           \E j \in Stored(phase) \cap Events(phase, l1Log[i].w) : related' = related \cup {j}
    BY <1>10 DEF Relate
  <2>3. PICK j \in Stored(phase) \cap Events(phase, l1Log[i].w) : related' = related \cup {j}
    BY <2>3a
  <2>4. Recorded(i) /\ i \in 1..Len(l1Log) /\ j \in 1..Len(l1Log)
    BY <2>1, <2>3, InLog DEF TickInv, Stored, OnChain
  <2>5. l1Log[i] \in Entry /\ l1Log[j] \in Entry
    BY <2>4 DEF WdTypeOK
  <2>6. l1Log[i].kind = phase /\ l1Log[j].kind = phase /\ l1Log[j].w = l1Log[i].w
    BY <2>1, <2>3 DEF WdTypeOK, Stored, Events, OnChain
  <2>7. l1Log[i] = l1Log[j]
    BY <2>5, <2>6 DEF Entry
  <2>8. Recorded(j)
    BY <2>4, <2>7 DEF Recorded, FinalOnce
  <2>9. RelatedMeansRecorded'
    BY <1>1, <2>1, <2>3, <2>8, RelatedIs DEF RelatedMeansRecorded, Recorded
  <2> QED  BY <1>2, <2>1, <2>2, <2>9 DEF StatusMatchesRow
<1> QED  BY <1>5, <1>6, <1>7, <1>8, <1>9, <1>10 DEF Business

(* The invariant is inductive. *)
LEMMA WdInvStep == ASSUME WdInv, [WdNext]_wdVars PROVE WdInv'
<1>1. WdTypeOK'
  BY StepType DEF WdInv
<1>2. CASE UNCHANGED wdVars
  BY <1>1, <1>2 DEF WdInv, FinalOnce, TickInv, Recorded, StatusMatchesRow, RelatedMeansRecorded,
    wdVars, chainVars, streamVars, bizVars
<1>3. CASE WdNext
  BY <1>1, <1>3, ChainInv, OthersInv, BusinessInv DEF WdInv, WdNext
<1> QED  BY <1>2, <1>3

(* The invariant holds at the start. *)
LEMMA WdInvInit == ASSUME WdInit PROVE WdInv
<1>1. /\ initiated = 0 /\ l1Log = <<>> /\ pos = [k \in Kind |-> 0] /\ finTx = NoTx
      /\ copies = [i \in 1..MaxLog |-> 0] /\ row = <<>> /\ related = {}
      /\ biz = "idle" /\ phase = "proven" /\ todo = {} /\ found = {} /\ taken = NoTaken
      /\ clock = "idle" /\ faults = 0
  BY DEF WdInit
<1>2. WdTypeOK
  <2>1. 0 \in 0..0 /\ row \in [1..0 -> Row]
    BY <1>1
  <2>2. initiated \in 0..N /\ \E n \in 0..initiated : row \in [1..n -> Row]
    BY <1>1, <2>1, WithdrawalsAssumption
  <2>3. l1Log \in Seq(Entry) /\ Len(l1Log) = 0 /\ Len(l1Log) <= MaxLog
    BY <1>1, WithdrawalsAssumption
  <2>4. pos \in [Kind -> 0..Len(l1Log)] /\ copies \in [1..MaxLog -> Nat] /\ faults \in 0..MaxFaults
    BY <1>1, <2>3, WithdrawalsAssumption
  <2>5. taken \in [event: 0..Len(l1Log), row: Row]
    BY <1>1, <2>3, WithdrawalsAssumption DEF NoTaken, NewRow, Row, Pending, Claimed
  <2>6. finTx \in [to: 0..Len(l1Log), stale: SUBSET Stored("finalized")]
    BY <1>1, <2>3 DEF NoTx
  <2> QED  BY <1>1, <2>2, <2>3, <2>4, <2>5, <2>6 DEF WdTypeOK
<1>3. FinalOnce /\ TickInv /\ StatusMatchesRow /\ RelatedMeansRecorded
  BY <1>1 DEF FinalOnce, TickInv, StatusMatchesRow, RelatedMeansRecorded
<1> QED  BY <1>2, <1>3 DEF WdInv

(* The invariant of the tables of withdrawals: types, what the loops of the
   ticker know of the rows, and what a status and a mark say of them. *)
THEOREM WdInvariant == WdSpec => []WdInv
BY WdInvInit, WdInvStep, PTL DEF WdSpec

(* Every reachable state of the tables and tickers has its type. *)
THEOREM WdTypeCorrect == WdSpec => []WdTypeOK
<1>1. WdInv => WdTypeOK
  BY DEF WdInv
<1> QED  BY <1>1, WdInvariant, PTL

(* For any number of withdrawals, events, repeated proofs, errors and kills:
   an event is marked related only when its withdrawal shows it. *)
THEOREM WdRelatedMeansRecorded == WdSpec => []RelatedMeansRecorded
<1>1. WdInv => RelatedMeansRecorded
  BY DEF WdInv
<1> QED  BY <1>1, WdInvariant, PTL

(* For any challenge period and any interleaving of the three writers, the
   status of a withdrawal agrees with the hashes and the time left of its row. *)
THEOREM WdStatusMatchesRow == WdSpec => []StatusMatchesRow
<1>1. WdInv => StatusMatchesRow
  BY DEF WdInv
<1> QED  BY <1>1, WdInvariant, PTL

-----------------------------------------------------------------------------
(* The tables hold what is on the chain up to the watermarks, once, and
   nothing beyond; the transaction in progress is ahead of its watermark. *)
StoreInv ==
  /\ \A k \in Kind : \A i \in OnChain(k) : copies[i] = IF i <= pos[k] THEN 1 ELSE 0
  /\ \A i \in 1..MaxLog : i > Len(l1Log) => copies[i] = 0
  /\ finTx # NoTx => finTx.to > pos["finalized"]

(* A scan that moves a watermark ahead stores what it passes, once. *)
LEMMA ScanStores ==
  ASSUME WdTypeOK, StoreInv, UNCHANGED l1Log,
         NEW k \in Kind, NEW n \in 0..Len(l1Log), n > pos[k], Scan(k, n)
  PROVE  /\ \A kk \in Kind : \A i \in OnChain(kk)' : copies'[i] = IF i <= pos'[kk] THEN 1 ELSE 0
         /\ \A i \in 1..MaxLog : i > Len(l1Log') => copies'[i] = 0
         /\ \A kk \in Kind : kk # k => pos'[kk] = pos[kk]
<1>1. /\ Len(l1Log) \in Nat /\ MaxLog \in Nat /\ Len(l1Log) <= MaxLog
      /\ pos \in [Kind -> 0..Len(l1Log)] /\ copies \in [1..MaxLog -> Nat]
  BY WithdrawalsAssumption DEF WdTypeOK
<1>2. pos'[k] = n /\ \A kk \in Kind : kk # k => pos'[kk] = pos[kk]
  BY <1>1 DEF Scan
<1>3. \A i \in 1..MaxLog :
        copies'[i] = copies[i] + IF i \in OnChain(k) /\ pos[k] < i /\ i <= n THEN 1 ELSE 0
  BY DEF Scan
<1>4. ASSUME NEW kk \in Kind, NEW i \in OnChain(kk)
      PROVE  copies'[i] = IF i <= pos'[kk] THEN 1 ELSE 0
  <2>1. i \in 1..MaxLog /\ copies[i] = IF i <= pos[kk] THEN 1 ELSE 0
    BY <1>1 DEF OnChain, StoreInv
  <2>2. CASE kk = k
    <3>1. copies'[i] = copies[i] + IF pos[k] < i /\ i <= n THEN 1 ELSE 0
      BY <1>3, <2>1, <2>2
    <3>2. copies[i] = (IF i <= pos[k] THEN 1 ELSE 0) /\ pos'[kk] = n
      BY <1>2, <2>1, <2>2
    <3>3. i \in Nat /\ pos[k] \in Nat /\ n \in Nat
      BY <1>1, <2>1
    <3> QED  BY <3>1, <3>2, <3>3
  <2>3. CASE kk # k
    <3>1. i \notin OnChain(k)
      BY <2>3 DEF OnChain
    <3> QED  BY <1>1, <1>2, <1>3, <2>1, <2>3, <3>1
  <2> QED  BY <2>2, <2>3
<1>5. \A i \in 1..MaxLog : i > Len(l1Log) => copies'[i] = 0
  BY <1>1, <1>3 DEF StoreInv, OnChain
<1>6. l1Log' = l1Log /\ \A kk \in Kind : OnChain(kk)' = OnChain(kk)
  BY DEF OnChain
<1>7. \A kk \in Kind : \A i \in OnChain(kk)' : copies'[i] = IF i <= pos'[kk] THEN 1 ELSE 0
  BY <1>4, <1>6
<1> QED  BY <1>2, <1>5, <1>6, <1>7

(* The streams, the chains and restarts keep the tables exact; the tickers do
   not touch them. *)
LEMMA StoreStep == ASSUME WdInv, StoreInv, [WdNext]_wdVars PROVE StoreInv'
<1> USE DEF WdInv
<1>1. /\ Len(l1Log) \in Nat /\ MaxLog \in Nat /\ Len(l1Log) <= MaxLog
      /\ pos \in [Kind -> 0..Len(l1Log)] /\ copies \in [1..MaxLog -> Nat]
  BY WithdrawalsAssumption DEF WdTypeOK
<1>2. CASE UNCHANGED <<l1Log, pos, copies, finTx>>
  BY <1>2 DEF StoreInv, OnChain
<1>3. CASE ChainStep
  <2>1. UNCHANGED <<pos, copies, finTx>>
    BY <1>3 DEF ChainStep, streamVars
  <2>2. CASE \E k \in Kind, w \in Withdrawal : Emit(k, w)
    <3>1. PICK k \in Kind, w \in Withdrawal : Emit(k, w)
      BY <2>2
    <3>2. /\ Len(l1Log') = Len(l1Log) + 1 /\ Len(l1Log') <= MaxLog
          /\ \A i \in 1..Len(l1Log) : l1Log'[i] = l1Log[i]
      BY <3>1, EmitLog
    <3>3. copies[Len(l1Log) + 1] = 0
      BY <1>1, <3>2 DEF StoreInv
    <3>4. ASSUME NEW kk \in Kind, NEW i \in OnChain(kk)'
          PROVE  copies[i] = IF i <= pos[kk] THEN 1 ELSE 0
      <4>1. CASE i \in 1..Len(l1Log)
        BY <3>2, <4>1 DEF OnChain, StoreInv
      <4>2. CASE i = Len(l1Log) + 1
        BY <1>1, <3>3, <4>2
      <4> QED  BY <1>1, <3>2, <4>1, <4>2 DEF OnChain
    <3> QED  BY <1>1, <2>1, <3>2, <3>4 DEF StoreInv
  <2> QED  BY <1>2, <1>3, <2>1, <2>2, ChainCases
<1>4. CASE IndexL1("root") \/ IndexL1("proven")
  <2>1. PICK k \in {"root", "proven"} : IndexL1(k)
    BY <1>4
  <2>2. PICK n \in pos[k] + 1..Len(l1Log) : Scan(k, n)
    BY <2>1 DEF IndexL1
  <2>3. k \in Kind /\ "finalized" \in Kind /\ n \in 0..Len(l1Log) /\ n > pos[k]
    BY <1>1, <2>2 DEF Kind
  <2>4. UNCHANGED <<l1Log, finTx>>
    BY <2>1 DEF IndexL1, chainVars
  <2> QED  BY <2>2, <2>3, <2>4, ScanStores DEF StoreInv
<1>5. CASE FinalizedBegin
  <2>1. UNCHANGED <<l1Log, pos, copies>> /\ finTx'.to > pos["finalized"]
    BY <1>1, <1>5 DEF FinalizedBegin, chainVars, Kind
  <2> QED  BY <2>1 DEF StoreInv, OnChain
<1>6. CASE FinalizedCommit
  <2>1. UNCHANGED l1Log /\ finTx' = NoTx /\ Scan("finalized", finTx.to)
    BY <1>6 DEF FinalizedCommit, chainVars
  <2>2. "finalized" \in Kind /\ finTx.to \in 0..Len(l1Log) /\ finTx.to > pos["finalized"]
    BY <1>6 DEF FinalizedCommit, WdTypeOK, Kind, StoreInv
  <2> QED  BY <2>1, <2>2, ScanStores DEF StoreInv
<1>7. CASE Restart
  <2>1. /\ UNCHANGED <<l1Log, copies>> /\ finTx' = NoTx
        /\ pos' \in [Kind -> 0..Len(l1Log)] /\ \A k \in Kind : Watermark(k, pos'[k])
    BY <1>7 DEF Restart, chainVars
  <2>2. ASSUME NEW k \in Kind, NEW i \in OnChain(k)
        PROVE  copies[i] = IF i <= pos'[k] THEN 1 ELSE 0
    <3>1. copies[i] = IF i <= pos[k] THEN 1 ELSE 0
      BY DEF StoreInv
    <3>2. i \in 1..Len(l1Log) /\ pos[k] \in 0..Len(l1Log) /\ pos'[k] \in 0..Len(l1Log)
      BY <1>1, <2>1 DEF OnChain
    <3>3. CASE Stored(k) = {}
      <4>1. pos'[k] = 0
        BY <2>1, <3>3 DEF Watermark
      <4>2. ~ copies[i] > 0
        BY <3>3 DEF Stored
      <4> QED  BY <3>1, <3>2, <4>1, <4>2
    <3>4. CASE Stored(k) # {}
      <4>1. pos'[k] \in Stored(k) /\ \A j \in Stored(k) : j <= pos'[k]
        BY <2>1, <3>4 DEF Watermark, IsNewest
      <4>2. pos'[k] <= pos[k]
        BY <3>2, <4>1 DEF Stored, StoreInv
      <4>3. i <= pos[k] => i <= pos'[k]
        BY <3>1, <4>1 DEF Stored
      <4> QED  BY <3>1, <3>2, <4>2, <4>3
    <3> QED  BY <3>3, <3>4
  <2> QED  BY <2>1, <2>2 DEF StoreInv, OnChain
<1>8. CASE \/ IndexInitiated \/ Business \/ TickError
           \/ CountDown \/ ChallengeOver \/ ClockError
  <2>1. UNCHANGED <<l1Log, pos, copies, finTx>>
    BY <1>8 DEF IndexInitiated, TickError, CountDown, ChallengeOver, ClockError, Business, SyncStateRoot,
      ListUnrelated, Lookup, LookedUp, TakeRow, SaveRow, Marked, Relate, Related,
      chainVars, streamVars
  <2> QED  BY <1>2, <2>1
<1>9. CASE FinalizedAbort
  <2>1. UNCHANGED <<l1Log, pos, copies>> /\ finTx' = NoTx
    BY <1>9 DEF FinalizedAbort, chainVars
  <2> QED  BY <2>1 DEF StoreInv, OnChain
<1>10. CASE UNCHANGED wdVars
  BY <1>2, <1>10 DEF wdVars, chainVars, streamVars
<1> QED  BY <1>3, <1>4, <1>5, <1>6, <1>7, <1>8, <1>9, <1>10 DEF WdNext

(* For any number of kills and restarts: every event up to the watermark of
   its stream is stored, and none twice. *)
THEOREM WdStoredOnce == WdSpec => []StoredOnce
<1>1. WdInit => StoreInv
  BY WithdrawalsAssumption DEF WdInit, StoreInv, OnChain, NoTx
<1>2. WdTypeOK /\ StoreInv => StoredOnce
  <2>1. ASSUME WdTypeOK, StoreInv, NEW k \in Kind, NEW i \in OnChain(k)
        PROVE  copies[i] <= 1 /\ (i <= pos[k] => copies[i] = 1)
    BY <2>1 DEF StoreInv
  <2> QED  BY <2>1 DEF StoredOnce
<1>3. WdInv => WdTypeOK
  BY DEF WdInv
<1> QED  BY <1>1, <1>2, <1>3, WdInvariant, StoreStep, PTL DEF WdSpec

-----------------------------------------------------------------------------
(* What a step does to the stream of a kind: it adds to its chain, if anything; it
   stores what the watermark passes; or it takes the watermark back over blocks
   without events of the kind. *)
StreamGrows(k) ==
  /\ Len(l1Log) <= Len(l1Log') /\ OnChain(k) \subseteq OnChain(k)'
  /\ \A i \in OnChain(k)' \ OnChain(k) : Len(l1Log) < i
  /\ pos'[k] = pos[k] /\ RowsOf(k)' = RowsOf(k)

Passed(k) == {i \in OnChain(k) : i <= pos'[k] /\ ~ (i <= pos[k])}

StreamScans(k) ==
  /\ l1Log' = l1Log /\ pos[k] < pos'[k] /\ pos'[k] <= Len(l1Log)
  /\ RowsOf(k)' = [i \in 1..MaxLog |-> RowsOf(k)[i] +
       IF i \in Passed(k) THEN 1 ELSE 0]

StreamFalls(k) ==
  /\ l1Log' = l1Log /\ 0 <= pos'[k] /\ pos'[k] <= pos[k]
  /\ \A i \in OnChain(k) : i <= pos'[k] <=> i <= pos[k]
  /\ RowsOf(k)' = RowsOf(k)

(* A scan of a kind scans its stream, and leaves those of the other kinds alone. *)
LEMMA ScanIsStream ==
  ASSUME WdTypeOK, UNCHANGED l1Log,
         NEW k \in Kind, NEW n \in 0..Len(l1Log), n > pos[k], Scan(k, n)
  PROVE  StreamScans(k) /\ \A kk \in Kind \ {k} : StreamGrows(kk)
<1>1. /\ Len(l1Log) \in Nat /\ MaxLog \in Nat /\ Len(l1Log) <= MaxLog
      /\ pos \in [Kind -> 0..Len(l1Log)] /\ copies \in [1..MaxLog -> Nat]
  BY WithdrawalsAssumption DEF WdTypeOK
<1>2. pos'[k] = n /\ \A kk \in Kind : kk # k => pos'[kk] = pos[kk]
  BY <1>1 DEF Scan
<1>3. \A i \in 1..MaxLog :
        copies'[i] = copies[i] + IF i \in OnChain(k) /\ pos[k] < i /\ i <= n THEN 1 ELSE 0
  BY DEF Scan
<1>4. l1Log' = l1Log /\ \A kk \in Kind : OnChain(kk)' = OnChain(kk)
  BY DEF OnChain
<1>5. StreamScans(k)
  <2>1. \A i \in 1..MaxLog : RowsOf(k)'[i] = IF i \in OnChain(k) THEN copies'[i] ELSE 0
    BY <1>4 DEF RowsOf
  <2>2. \A i \in 1..MaxLog : RowsOf(k)[i] = IF i \in OnChain(k) THEN copies[i] ELSE 0
    BY DEF RowsOf
  <2>3. \A i \in 1..MaxLog : RowsOf(k)'[i] = RowsOf(k)[i] + IF i \in Passed(k) THEN 1 ELSE 0
    <3>1. \A i \in 1..MaxLog : i \in Passed(k) <=> i \in OnChain(k) /\ pos[k] < i /\ i <= n
      BY <1>1, <1>2 DEF Passed
    <3>2. \A i \in 1..MaxLog : i \in Passed(k) => i \in OnChain(k)
      BY DEF Passed
    <3> QED  BY <1>1, <1>3, <2>1, <2>2, <3>1, <3>2
  <2>4. RowsOf(k)' = [i \in 1..MaxLog |-> RowsOf(k)'[i]]
    BY DEF RowsOf
  <2> QED  BY <1>1, <1>2, <1>4, <2>3, <2>4 DEF StreamScans
<1>6. ASSUME NEW kk \in Kind \ {k} PROVE StreamGrows(kk)
  <2>1. \A i \in OnChain(kk) : i \notin OnChain(k)
    BY <1>6 DEF OnChain
  <2>2. \A i \in 1..MaxLog : i \in OnChain(kk) => copies'[i] = copies[i]
    BY <1>1, <1>3, <2>1
  <2>3. RowsOf(kk)' = RowsOf(kk)
    BY <1>4, <2>2 DEF RowsOf
  <2> QED  BY <1>1, <1>2, <1>4, <2>3 DEF StreamGrows
<1> QED  BY <1>5, <1>6

LEMMA KindStep ==
  ASSUME WdInv, StoreInv, [WdNext]_wdVars, NEW k \in Kind
  PROVE  StreamGrows(k) \/ StreamScans(k) \/ StreamFalls(k)
<1> USE DEF WdInv
<1>1. /\ Len(l1Log) \in Nat /\ MaxLog \in Nat /\ Len(l1Log) <= MaxLog
      /\ pos \in [Kind -> 0..Len(l1Log)] /\ copies \in [1..MaxLog -> Nat]
  BY WithdrawalsAssumption DEF WdTypeOK
<1>2. CASE UNCHANGED <<l1Log, pos, copies>>
  BY <1>1, <1>2 DEF StreamGrows, RowsOf, OnChain
<1>3. CASE ChainStep
  <2>1. UNCHANGED <<pos, copies>>
    BY <1>3 DEF ChainStep, streamVars
  <2>2. CASE \E kk \in Kind, w \in Withdrawal : Emit(kk, w)
    <3>1. PICK kk \in Kind, w \in Withdrawal : Emit(kk, w)
      BY <2>2
    <3>2. /\ Len(l1Log') = Len(l1Log) + 1 /\ Len(l1Log') <= MaxLog
          /\ \A i \in 1..Len(l1Log) : l1Log'[i] = l1Log[i]
      BY <3>1, EmitLog
    <3>3. OnChain(k) \subseteq OnChain(k)'
          /\ \A i \in OnChain(k)' \ OnChain(k) : i \in 1..Len(l1Log') /\ Len(l1Log) < i
      <4>1. \A i \in 1..Len(l1Log') : i \in 1..Len(l1Log) \/ Len(l1Log) < i
        BY <1>1, <3>2
      <4>2. \A i \in 1..Len(l1Log) : i \in 1..Len(l1Log')
        BY <1>1, <3>2
      <4> QED  BY <3>2, <4>1, <4>2 DEF OnChain
    <3>4. \A i \in OnChain(k)' \ OnChain(k) : i \in 1..MaxLog /\ copies[i] = 0
      BY <1>1, <3>2, <3>3 DEF StoreInv
    <3>5. RowsOf(k)' = RowsOf(k)
      BY <2>1, <3>3, <3>4 DEF RowsOf
    <3> QED  BY <1>1, <2>1, <3>2, <3>3, <3>5 DEF StreamGrows
  <2> QED  BY <1>2, <1>3, <2>1, <2>2, ChainCases
<1>4. CASE IndexL1("root") \/ IndexL1("proven")
  <2>1. PICK kk \in {"root", "proven"} : IndexL1(kk)
    BY <1>4
  <2>2. PICK n \in pos[kk] + 1..Len(l1Log) : Scan(kk, n)
    BY <2>1 DEF IndexL1
  <2>3. kk \in Kind /\ n \in 0..Len(l1Log) /\ n > pos[kk] /\ UNCHANGED l1Log
    BY <1>1, <2>1, <2>2 DEF Kind, IndexL1, chainVars
  <2> QED  BY <2>2, <2>3, ScanIsStream
<1>5. CASE FinalizedCommit
  <2>1. UNCHANGED l1Log /\ Scan("finalized", finTx.to)
    BY <1>5 DEF FinalizedCommit, chainVars
  <2>2. "finalized" \in Kind /\ finTx.to \in 0..Len(l1Log) /\ finTx.to > pos["finalized"]
    BY <1>5 DEF FinalizedCommit, WdTypeOK, Kind, StoreInv
  <2> QED  BY <2>1, <2>2, ScanIsStream
<1>6. CASE Restart
  <2>1. /\ UNCHANGED <<l1Log, copies>>
        /\ pos' \in [Kind -> 0..Len(l1Log)] /\ Watermark(k, pos'[k])
    BY <1>6 DEF Restart, chainVars
  <2>2. pos[k] \in 0..Len(l1Log) /\ pos'[k] \in 0..Len(l1Log)
    BY <1>1, <2>1
  <2>3. \A i \in OnChain(k) : i \in 1..Len(l1Log) /\ (i \in Stored(k) <=> i <= pos[k])
    BY DEF StoreInv, Stored, OnChain
  <2>4. CASE Stored(k) = {}
    <3>1. pos'[k] = 0
      BY <2>1, <2>4 DEF Watermark
    <3>2. \A i \in OnChain(k) : ~ (i <= 0) /\ ~ (i <= pos[k])
      BY <1>1, <2>3, <2>4
    <3> QED  BY <2>1, <2>2, <3>1, <3>2 DEF StreamFalls, RowsOf, OnChain
  <2>5. CASE Stored(k) # {}
    <3>1. pos'[k] \in Stored(k) /\ \A j \in Stored(k) : j <= pos'[k]
      BY <2>1, <2>5 DEF Watermark, IsNewest
    <3>2. pos'[k] <= pos[k]
      BY <2>3, <3>1 DEF Stored
    <3>3. \A i \in OnChain(k) : i <= pos'[k] <=> i <= pos[k]
      BY <2>2, <2>3, <3>1, <3>2
    <3> QED  BY <2>1, <2>2, <3>2, <3>3 DEF StreamFalls, RowsOf, OnChain
  <2> QED  BY <2>4, <2>5
<1>7. CASE \/ FinalizedBegin \/ FinalizedAbort \/ IndexInitiated \/ Business \/ TickError
           \/ CountDown \/ ChallengeOver \/ ClockError
  <2>1. UNCHANGED <<l1Log, pos, copies>>
    BY <1>7 DEF FinalizedBegin, FinalizedAbort, IndexInitiated, TickError, CountDown,
      ChallengeOver, ClockError, Business, SyncStateRoot, ListUnrelated, Lookup, LookedUp,
      TakeRow, SaveRow, Marked, Relate, Related, chainVars, streamVars
  <2> QED  BY <1>2, <2>1
<1>8. CASE UNCHANGED wdVars
  BY <1>2, <1>8 DEF wdVars, chainVars, streamVars
<1> QED  BY <1>3, <1>4, <1>5, <1>6, <1>7, <1>8 DEF WdNext

(* Such a step is one of EventStream. *)
LEMMA RootsStep ==
  ASSUME StreamGrows("root") \/ StreamScans("root") \/ StreamFalls("root")
  PROVE  Roots!Next
<1>1. /\ DOMAIN BlocksOf("root") = OnChain("root")
      /\ \A i \in OnChain("root") : BlocksOf("root")[i] = i
  BY DEF BlocksOf
<1>2. CASE StreamGrows("root")
  <2>1. /\ DOMAIN (BlocksOf("root")') = OnChain("root")'
        /\ \A i \in OnChain("root")' : (BlocksOf("root")')[i] = i
    BY DEF BlocksOf
  <2> QED  BY <1>1, <1>2, <2>1 DEF StreamGrows, Roots!Next, Roots!Grow
<1>3. CASE StreamScans("root")
  <2>1. BlocksOf("root")' = BlocksOf("root")
    BY <1>3 DEF StreamScans, BlocksOf, OnChain
  <2>2. PICK from, to : from = pos["root"] /\ to = pos'["root"]
    OBVIOUS
  <2>3. Passed("root") = Roots!Upto(to) \ Roots!Upto(from)
    BY <1>1, <2>2 DEF Passed, Roots!Upto
  <2>4. RowsOf("root")' = [i \in 1..MaxLog |-> RowsOf("root")[i] +
          IF i \in Roots!Upto(to) \ Roots!Upto(from) THEN 1 ELSE 0]
    BY <1>3, <2>3 DEF StreamScans
  <2>5. Roots!Scan
    BY <1>3, <2>1, <2>2, <2>4 DEF StreamScans, Roots!Scan
  <2> QED  BY <2>5 DEF Roots!Next
<1>4. CASE StreamFalls("root")
  <2>1. BlocksOf("root")' = BlocksOf("root")
    BY <1>4 DEF StreamFalls, BlocksOf, OnChain
  <2>2. Roots!FallBack
    BY <1>1, <1>4, <2>1 DEF StreamFalls, Roots!FallBack, Roots!Upto
  <2> QED  BY <2>2 DEF Roots!Next
<1> QED  BY <1>2, <1>3, <1>4

LEMMA ProofsStep ==
  ASSUME StreamGrows("proven") \/ StreamScans("proven") \/ StreamFalls("proven")
  PROVE  Proofs!Next
<1>1. /\ DOMAIN BlocksOf("proven") = OnChain("proven")
      /\ \A i \in OnChain("proven") : BlocksOf("proven")[i] = i
  BY DEF BlocksOf
<1>2. CASE StreamGrows("proven")
  <2>1. /\ DOMAIN (BlocksOf("proven")') = OnChain("proven")'
        /\ \A i \in OnChain("proven")' : (BlocksOf("proven")')[i] = i
    BY DEF BlocksOf
  <2> QED  BY <1>1, <1>2, <2>1 DEF StreamGrows, Proofs!Next, Proofs!Grow
<1>3. CASE StreamScans("proven")
  <2>1. BlocksOf("proven")' = BlocksOf("proven")
    BY <1>3 DEF StreamScans, BlocksOf, OnChain
  <2>2. PICK from, to : from = pos["proven"] /\ to = pos'["proven"]
    OBVIOUS
  <2>3. Passed("proven") = Proofs!Upto(to) \ Proofs!Upto(from)
    BY <1>1, <2>2 DEF Passed, Proofs!Upto
  <2>4. RowsOf("proven")' = [i \in 1..MaxLog |-> RowsOf("proven")[i] +
          IF i \in Proofs!Upto(to) \ Proofs!Upto(from) THEN 1 ELSE 0]
    BY <1>3, <2>3 DEF StreamScans
  <2>5. Proofs!Scan
    BY <1>3, <2>1, <2>2, <2>4 DEF StreamScans, Proofs!Scan
  <2> QED  BY <2>5 DEF Proofs!Next
<1>4. CASE StreamFalls("proven")
  <2>1. BlocksOf("proven")' = BlocksOf("proven")
    BY <1>4 DEF StreamFalls, BlocksOf, OnChain
  <2>2. Proofs!FallBack
    BY <1>1, <1>4, <2>1 DEF StreamFalls, Proofs!FallBack, Proofs!Upto
  <2> QED  BY <2>2 DEF Proofs!Next
<1> QED  BY <1>2, <1>3, <1>4

LEMMA FinalizationsStep ==
  ASSUME StreamGrows("finalized") \/ StreamScans("finalized") \/ StreamFalls("finalized")
  PROVE  Finalizations!Next
<1>1. /\ DOMAIN BlocksOf("finalized") = OnChain("finalized")
      /\ \A i \in OnChain("finalized") : BlocksOf("finalized")[i] = i
  BY DEF BlocksOf
<1>2. CASE StreamGrows("finalized")
  <2>1. /\ DOMAIN (BlocksOf("finalized")') = OnChain("finalized")'
        /\ \A i \in OnChain("finalized")' : (BlocksOf("finalized")')[i] = i
    BY DEF BlocksOf
  <2> QED  BY <1>1, <1>2, <2>1 DEF StreamGrows, Finalizations!Next, Finalizations!Grow
<1>3. CASE StreamScans("finalized")
  <2>1. BlocksOf("finalized")' = BlocksOf("finalized")
    BY <1>3 DEF StreamScans, BlocksOf, OnChain
  <2>2. PICK from, to : from = pos["finalized"] /\ to = pos'["finalized"]
    OBVIOUS
  <2>3. Passed("finalized") = Finalizations!Upto(to) \ Finalizations!Upto(from)
    BY <1>1, <2>2 DEF Passed, Finalizations!Upto
  <2>4. RowsOf("finalized")' = [i \in 1..MaxLog |-> RowsOf("finalized")[i] +
          IF i \in Finalizations!Upto(to) \ Finalizations!Upto(from) THEN 1 ELSE 0]
    BY <1>3, <2>3 DEF StreamScans
  <2>5. Finalizations!Scan
    BY <1>3, <2>1, <2>2, <2>4 DEF StreamScans, Finalizations!Scan
  <2> QED  BY <2>5 DEF Finalizations!Next
<1>4. CASE StreamFalls("finalized")
  <2>1. BlocksOf("finalized")' = BlocksOf("finalized")
    BY <1>4 DEF StreamFalls, BlocksOf, OnChain
  <2>2. Finalizations!FallBack
    BY <1>1, <1>4, <2>1 DEF StreamFalls, Finalizations!FallBack, Finalizations!Upto
  <2> QED  BY <2>2 DEF Finalizations!Next
<1> QED  BY <1>2, <1>3, <1>4

(* The three streams of withdrawals implement EventStream, over any number of kills and
   restarts; every step of theirs is a step or a stutter (event.go:274-362). *)
THEOREM WdImplementsStreams == WdSpec => ImplementsStreams
<1>1. WdInit => StoreInv /\ Roots!Init /\ Proofs!Init /\ Finalizations!Init
  <2> SUFFICES ASSUME WdInit PROVE StoreInv /\ Roots!Init /\ Proofs!Init /\ Finalizations!Init
    OBVIOUS
  <2>1. StoreInv
    BY WithdrawalsAssumption DEF WdInit, StoreInv, OnChain, NoTx
  <2>2. \A k \in Kind : /\ DOMAIN BlocksOf(k) = {} /\ pos[k] = 0
                        /\ RowsOf(k) = [i \in 1..MaxLog |-> 0]
    BY DEF WdInit, BlocksOf, RowsOf, OnChain
  <2> QED  BY <2>1, <2>2 DEF Kind, Roots!Init, Proofs!Init, Finalizations!Init
<1>2. ASSUME WdInv, StoreInv, [WdNext]_wdVars
      PROVE  Roots!Next /\ Proofs!Next /\ Finalizations!Next
  <2>1. \A k \in Kind : StreamGrows(k) \/ StreamScans(k) \/ StreamFalls(k)
    BY <1>2, KindStep
  <2> QED  BY <2>1, RootsStep, ProofsStep, FinalizationsStep DEF Kind
<1> QED
  BY <1>1, <1>2, WdInvariant, StoreStep, PTL
  DEF WdSpec, ImplementsStreams, Roots!Spec, Proofs!Spec, Finalizations!Spec
=============================================================================
