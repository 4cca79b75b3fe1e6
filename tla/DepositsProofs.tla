----------------------------- MODULE DepositsProofs -----------------------------
(* Theorems about the tables of deposits and of their relays, for every number
   of deposits, blocks, scans and faults. *)
EXTENDS Deposits, SequenceTheorems, TLAPS

(* What the deposits' stream has done: rows, and one of each, for exactly the
   deposits up to the watermark. *)
StreamInv ==
  /\ DOMAIN row = {i \in Made : block[i] <= l1Pos}
  /\ \A i \in Deposit : inserts[i] = IF i \in DOMAIN row THEN 1 ELSE 0

(* What the loops of the ticker know: a message still to come is stored, and a
   message found has its deposit in the table; the loops of the claims and the
   marks see messages found only. *)
LoopInv ==
  /\ \A i \in Deposit : todo[i] > 0 => copies[i] > 0
  /\ \A i \in Deposit : found[i] > 0 => copies[i] > 0 /\ Known(i)
  /\ biz \in {"claim", "relate"} => \A i \in Deposit : todo[i] > 0 => found[i] > 0

(* The inductive invariant. *)
DepInv == DepTypeOK /\ StreamInv /\ LoopInv /\ RelayNotSkipped /\ ClaimTraced

-----------------------------------------------------------------------------
(* Facts about the operators. *)

(* A counter of a function goes up or down by one at one place. *)
LEMMA CountOne ==
  ASSUME NEW f \in [Deposit -> Nat], NEW i \in Deposit, NEW d \in Int, f[i] + d >= 0
  PROVE  /\ [f EXCEPT ![i] = @ + d] \in [Deposit -> Nat]
         /\ \A j \in Deposit \ {i} : [f EXCEPT ![i] = @ + d][j] = f[j]
         /\ [f EXCEPT ![i] = @ + d][i] = f[i] + d
  OBVIOUS

LEMMA WithoutOne ==
  ASSUME NEW f \in [Deposit -> Nat], NEW i \in Deposit, f[i] > 0
  PROVE  /\ Without(f, i) \in [Deposit -> Nat]
         /\ \A j \in Deposit : Without(f, i)[j] > 0 => f[j] > 0
  BY DEF Without

(* A scan ends above the watermark and at most at the newest header. *)
LEMMA UptoBounds ==
  ASSUME NEW pos \in Nat, NEW to \in Nat, pos < to
  PROVE  Upto(pos, to) \in Nat /\ pos < Upto(pos, to) /\ Upto(pos, to) <= to
  BY DepositsAssumption DEF Upto

(* The numbers behind the types. *)
LEMMA Numbers ==
  ASSUME DepTypeOK
  PROVE  /\ N \in Nat /\ MaxL1 \in Nat /\ MaxL2 \in Nat
         /\ l1Head \in Nat /\ l2Head \in Nat /\ l1Pos \in Nat /\ finPos \in Nat
         /\ l1Pos <= l1Head /\ finPos <= l2Head /\ Len(block) \in Nat
         /\ Made \subseteq Deposit
         /\ \A i \in Made : block[i] \in 1..l1Head
         /\ \A i \in Deposit : relayed[i] \in Nat /\ relayed[i] <= l2Head
<1>1. N \in Nat /\ MaxL1 \in Nat /\ MaxL2 \in Nat
  BY DepositsAssumption
<1>2. l1Head \in 0..MaxL1 /\ l2Head \in 0..MaxL2 /\ l1Pos \in 0..l1Head /\ finPos \in 0..l2Head
  BY DEF DepTypeOK
<1>3. /\ l1Head \in Nat /\ l2Head \in Nat /\ l1Pos \in Nat /\ finPos \in Nat
      /\ l1Pos <= l1Head /\ finPos <= l2Head
  BY <1>1, <1>2
<1>4. block \in Seq(1..l1Head) /\ Len(block) <= N
  BY DEF DepTypeOK
<1>5. Len(block) \in Nat /\ block \in [1..Len(block) -> 1..l1Head]
  BY <1>4, LenProperties
<1>6. Made \subseteq Deposit
  BY <1>1, <1>4, <1>5 DEF Made, Deposit
<1>7. \A i \in Made : block[i] \in 1..l1Head
  BY <1>5 DEF Made
<1>8. relayed \in [Deposit -> 0..l2Head]
  BY DEF DepTypeOK
<1>9. \A i \in Deposit : relayed[i] \in Nat /\ relayed[i] <= l2Head
  BY <1>3, <1>8
<1> QED  BY <1>1, <1>3, <1>5, <1>6, <1>7, <1>9

LEMMA SeqOfMore ==
  ASSUME NEW S, NEW T, S \subseteq T, NEW s \in Seq(S)
  PROVE  s \in Seq(T)
<1>1. Len(s) \in Nat /\ s \in [1..Len(s) -> S]
  BY LenProperties
<1>2. s \in [1..Len(s) -> T]
  BY <1>1
<1> QED  BY <1>1, <1>2

(* A new block of L1 leaves the deposits made alone; the new ones are in it. *)
LEMMA NewDeposits ==
  ASSUME DepTypeOK, L1Block
  PROVE  /\ block' \in Seq(1..l1Head') /\ Len(block') <= N /\ Made \subseteq Made'
         /\ \A i \in Made : block'[i] = block[i]
         /\ \A i \in Made' \ Made : block'[i] = l1Head'
<1>1. l1Head' = l1Head + 1 /\ l1Head \in Nat /\ Len(block) \in Nat /\ Len(block) <= N /\ N \in Nat
  BY Numbers DEF L1Block, DepTypeOK
<1>2. PICK k \in 0..(N - Len(block)) : block' = block \o [j \in 1..k |-> l1Head']
  BY DEF L1Block
<1> DEFINE new == [j \in 1..k |-> l1Head']
<1>3. new \in [1..k -> 1..l1Head'] /\ k \in Nat
  BY <1>1
<1>4. new \in Seq(1..l1Head') /\ Len(new) = k
  BY <1>3
<1>5. block \in Seq(1..l1Head')
  <2>1. block \in Seq(1..l1Head) /\ 1..l1Head \subseteq 1..l1Head'
    BY <1>1 DEF DepTypeOK
  <2> QED  BY <2>1, SeqOfMore
<1>6. /\ block' \in Seq(1..l1Head') /\ Len(block') = Len(block) + k
      /\ \A i \in 1..(Len(block) + k) :
           block'[i] = IF i <= Len(block) THEN block[i] ELSE new[i - Len(block)]
  <2> HIDE DEF new
  <2>1. block' = block \o new
    BY <1>2 DEF new
  <2> QED  BY <1>4, <1>5, <2>1, ConcatProperties
<1>7. \A i \in (Len(block) + 1)..(Len(block) + k) : new[i - Len(block)] = l1Head'
  BY <1>1, <1>3
<1> QED  BY <1>1, <1>3, <1>6, <1>7 DEF Made

(* A new block of L2 relays in that block some deposits not relayed before. *)
LEMMA NewRelays ==
  ASSUME DepTypeOK, L2Block
  PROVE  /\ l2Head' \in 0..MaxL2 /\ relayed' \in [Deposit -> 0..l2Head']
         /\ finPos \in 0..l2Head'
         /\ \A i \in Deposit : relayed'[i] = relayed[i] \/ relayed'[i] > finPos
<1>1. l2Head < MaxL2 /\ l2Head' = l2Head + 1
  BY DEF L2Block
<1>2. PICK S \in SUBSET {i \in Made : relayed[i] = 0} :
        relayed' = [i \in Deposit |-> IF i \in S THEN l2Head' ELSE relayed[i]]
  BY DEF L2Block
<1>3. l2Head' \in 0..MaxL2 /\ finPos \in 0..l2Head' /\ l2Head' > finPos
  BY <1>1, Numbers
<1>4. \A i \in Deposit : relayed[i] \in 0..l2Head'
  BY <1>1, Numbers
<1> QED  BY <1>2, <1>3, <1>4

(* What a scan of the deposits' stream leaves: the rows that were there, and
   pending rows, whose message is that of a deposit or none. *)
LEMMA NewRows ==
  ASSUME DepTypeOK, StreamInv, IndexDeposits
  PROVE  /\ l1Pos' \in 0..l1Head /\ l1Pos < l1Pos'
         /\ DOMAIN row' = {i \in Made : block[i] <= l1Pos'}
         /\ row' \in [DOMAIN row' -> Row]
         /\ \A r \in DOMAIN row : row'[r] = row[r]
         /\ \A r \in DOMAIN row' \ DOMAIN row : row'[r].status = Pending /\ row'[r].claim = 0
         /\ inserts' \in [Deposit -> Nat]
         /\ \A i \in Deposit : inserts'[i] = IF i \in DOMAIN row' THEN 1 ELSE 0
<1> DEFINE to  == Upto(l1Pos, l1Head)
           New == {i \in Made : l1Pos < block[i] /\ block[i] <= to}
<1>1. to \in Nat /\ l1Pos < to /\ to <= l1Head /\ l1Pos' = to
  BY Numbers, UptoBounds DEF IndexDeposits
<1>2. PICK m \in Landing(New) :
        row' = [i \in DOMAIN row \cup New |->
                  IF i \in New THEN [status |-> Pending, msg |-> m[i], claim |-> 0] ELSE row[i]]
  BY DEF IndexDeposits
<1>3. \A i \in New : m[i] \in 0..N
  <2>1. m \in [New -> New \cup {0}]
    BY <1>2 DEF Landing
  <2>2. New \subseteq 1..N
    BY Numbers DEF Deposit
  <2> QED  BY <2>1, <2>2, Numbers
<1>4. DOMAIN row = {i \in Made : block[i] <= l1Pos}
  BY DEF StreamInv
<1>5. \A i \in Made : block[i] \in Nat
  BY Numbers
<1>6. DOMAIN row \cup New = {i \in Made : block[i] <= to} /\ DOMAIN row \cap New = {}
  BY <1>1, <1>4, <1>5, Numbers
<1>7. \A i \in New : [status |-> Pending, msg |-> m[i], claim |-> 0] \in Row
  BY <1>3, Numbers DEF Row, Pending, Claimed
<1>8. \A r \in DOMAIN row : row[r] \in Row
  BY DEF DepTypeOK
<1>9. DOMAIN row' = DOMAIN row \cup New
  BY <1>2
<1>10. /\ row' \in [DOMAIN row' -> Row]
       /\ \A r \in DOMAIN row : row'[r] = row[r]
       /\ \A r \in DOMAIN row' \ DOMAIN row : row'[r].status = Pending /\ row'[r].claim = 0
  <2> HIDE DEF New
  <2>1. \A r \in DOMAIN row : row'[r] = row[r]
    BY <1>2, <1>6
  <2>2. \A r \in New : row'[r] = [status |-> Pending, msg |-> m[r], claim |-> 0]
    BY <1>2
  <2>3. \A r \in DOMAIN row' : row'[r] \in Row
    BY <1>7, <1>8, <1>9, <2>1, <2>2
  <2>4. row' = [r \in DOMAIN row' |-> row'[r]]
    BY <1>2, <1>9
  <2> QED  BY <1>9, <2>1, <2>2, <2>3, <2>4
<1>11. inserts' = [i \in Deposit |-> inserts[i] + IF i \in New THEN 1 ELSE 0]
  BY DEF IndexDeposits
<1>12. \A i \in Deposit : inserts[i] = IF i \in DOMAIN row THEN 1 ELSE 0
  BY DEF StreamInv
<1>13. \A i \in Deposit : inserts'[i] = IF i \in DOMAIN row' THEN 1 ELSE 0
  <2> HIDE DEF New
  <2> QED  BY <1>6, <1>9, <1>11, <1>12
<1>14. inserts' \in [Deposit -> Nat]
  <2> HIDE DEF New
  <2> QED  BY <1>11, <1>12
<1> QED  BY <1>1, <1>6, <1>9, <1>10, <1>13, <1>14

(* The scan of the relays: the copies only grow, and no message up to the new
   watermark is without one. *)
LEMMA NewCopies ==
  ASSUME DepTypeOK, RelayNotSkipped, ScanRelays
  PROVE  /\ copies' \in [Deposit -> Nat] /\ finPos' \in 0..l2Head /\ idle' \in 0..MaxIdle
         /\ \A i \in Deposit : copies[i] <= copies'[i]
         /\ \A i \in Deposit : relayed[i] \in 1..finPos' => copies'[i] > 0
<1> USE DepositsAssumption
<1>1. copies \in [Deposit -> Nat] /\ idle \in 0..MaxIdle
  BY DEF DepTypeOK
<1>2. CASE /\ finPos = l2Head /\ idle < MaxIdle
           /\ finPos' = 0 /\ idle' = idle + 1 /\ UNCHANGED copies
  BY <1>1, <1>2, Numbers
<1>3. CASE finPos < l2Head /\ StoreRelays(finPos, Upto(finPos, l2Head)) /\ UNCHANGED idle
  <2> DEFINE to == Upto(finPos, l2Head)
  <2>1. to \in Nat /\ finPos < to /\ to <= l2Head /\ finPos' = to
    BY <1>3, Numbers, UptoBounds DEF StoreRelays
  <2>2. copies' = [i \in Deposit |->
                     copies[i] + IF finPos < relayed[i] /\ relayed[i] <= to THEN 1 ELSE 0]
    BY <1>3 DEF StoreRelays
  <2> HIDE DEF to
  <2>3. copies' \in [Deposit -> Nat] /\ \A i \in Deposit : copies[i] <= copies'[i]
    BY <1>1, <2>2
  <2>4. ASSUME NEW i \in Deposit, relayed[i] \in 1..finPos' PROVE copies'[i] > 0
    <3>1. relayed[i] \in Nat /\ finPos \in Nat /\ copies[i] \in Nat
      BY <1>1, Numbers
    <3>2. CASE relayed[i] <= finPos
      BY <2>3, <2>4, <3>1, <3>2, Numbers DEF RelayNotSkipped
    <3>3. CASE finPos < relayed[i]
      <4>1. copies'[i] = copies[i] + 1
        BY <2>1, <2>2, <2>4, <3>1, <3>3
      <4> QED  BY <3>1, <4>1
    <3> QED  BY <3>1, <3>2, <3>3
  <2> QED  BY <1>1, <1>3, <2>1, <2>3, <2>4, Numbers
<1> QED  BY <1>2, <1>3 DEF ScanRelays

(* A claim writes status and transaction of one row and leaves the messages. *)
LEMMA ClaimOne ==
  ASSUME DepTypeOK, NEW r \in DOMAIN row, NEW i \in Deposit, Claim(r, i)
  PROVE  /\ DOMAIN row' = DOMAIN row /\ row' \in [DOMAIN row -> Row]
         /\ \A q \in DOMAIN row : row'[q].msg = row[q].msg
         /\ \A q \in DOMAIN row \ {r} : row'[q] = row[q]
         /\ row'[r].status = Claimed /\ row'[r].claim = i
<1>1. row \in [DOMAIN row -> Row] /\ i \in 0..N
  <2>1. row \in [DOMAIN row -> Row]
    BY DEF DepTypeOK
  <2>2. i \in 0..N
    BY Numbers DEF Deposit
  <2> QED  BY <2>1, <2>2
<1>2. row' = [q \in DOMAIN row |->
                IF q = r THEN [row[r] EXCEPT !.status = Claimed, !.claim = i] ELSE row[q]]
  BY <1>1 DEF Claim
<1>3. \A q \in DOMAIN row : row[q] \in Row
  BY <1>1
<1>4. /\ [row[r] EXCEPT !.status = Claimed, !.claim = i] \in Row
      /\ [row[r] EXCEPT !.status = Claimed, !.claim = i].msg = row[r].msg
      /\ [row[r] EXCEPT !.status = Claimed, !.claim = i].status = Claimed
      /\ [row[r] EXCEPT !.status = Claimed, !.claim = i].claim = i
  BY <1>1, <1>3 DEF Row, Claimed, Pending
<1> DEFINE new == [row[r] EXCEPT !.status = Claimed, !.claim = i]
<1> HIDE DEF new
<1>5. row' = [q \in DOMAIN row |-> IF q = r THEN new ELSE row[q]]
  BY <1>2 DEF new
<1>6. new \in Row /\ new.msg = row[r].msg /\ new.status = Claimed /\ new.claim = i
  BY <1>4 DEF new
<1> QED  BY <1>3, <1>5, <1>6

-----------------------------------------------------------------------------
(* Every step keeps the types. *)
LEMMA DepTypeStep == DepInv /\ [DepNext]_depVars => DepTypeOK'
<1> SUFFICES ASSUME DepInv, [DepNext]_depVars PROVE DepTypeOK'
  OBVIOUS
<1> USE DepositsAssumption
<1>1. DepTypeOK /\ StreamInv /\ LoopInv /\ RelayNotSkipped
  BY DEF DepInv
<1>2. CASE ChainStep /\ L1Block
  <2>1. UNCHANGED <<relayed, l2Head, streamVars, row, related, bizVars, faults>>
    BY <1>2 DEF ChainStep, L1Block
  <2>2. block' \in Seq(1..l1Head') /\ Len(block') <= N /\ Made \subseteq Made'
    BY <1>1, <1>2, NewDeposits
  <2>3. l1Head' = l1Head + 1 /\ l1Head < MaxL1
    BY <1>2 DEF L1Block
  <2>4. l1Head' \in 0..MaxL1 /\ l1Pos \in 0..l1Head'
    BY <1>1, <2>3, Numbers
  <2> QED  BY <1>1, <2>1, <2>2, <2>4 DEF DepTypeOK, streamVars, bizVars
<1>3. CASE ChainStep /\ L2Block
  <2>1. UNCHANGED <<block, l1Head, streamVars, row, related, bizVars, faults>>
    BY <1>3 DEF ChainStep, L2Block
  <2>2. l2Head' \in 0..MaxL2 /\ relayed' \in [Deposit -> 0..l2Head'] /\ finPos \in 0..l2Head'
    BY <1>1, <1>3, NewRelays
  <2> QED  BY <1>1, <2>1, <2>2 DEF DepTypeOK, streamVars, bizVars, Made
<1>4. CASE IndexDeposits
  <2>1. /\ l1Pos' \in 0..l1Head /\ DOMAIN row' \subseteq Made
        /\ row' \in [DOMAIN row' -> Row] /\ inserts' \in [Deposit -> Nat]
    BY <1>1, <1>4, NewRows
  <2> QED  BY <1>1, <1>4, <2>1 DEF IndexDeposits, DepTypeOK, chainVars, bizVars, Made
<1>5. CASE ScanRelays
  <2>1. /\ copies' \in [Deposit -> Nat] /\ finPos' \in 0..l2Head /\ idle' \in 0..MaxIdle
        /\ \A i \in Deposit : copies[i] <= copies'[i]
    BY <1>1, <1>5, NewCopies
  <2>2. /\ related \in [Deposit -> Nat] /\ copies \in [Deposit -> Nat]
        /\ \A i \in Deposit : related[i] <= copies[i]
    BY <1>1 DEF DepTypeOK
  <2>3. \A i \in Deposit : related[i] <= copies'[i]
    <3> SUFFICES ASSUME NEW i \in Deposit PROVE related[i] <= copies'[i]
      OBVIOUS
    <3>1. related[i] \in Nat /\ copies[i] \in Nat /\ copies'[i] \in Nat
      BY <2>1, <2>2
    <3>2. related[i] <= copies[i] /\ copies[i] <= copies'[i]
      BY <2>1, <2>2
    <3> QED  BY <3>1, <3>2
  <2> QED  BY <1>1, <1>5, <2>1, <2>3 DEF ScanRelays, DepTypeOK, chainVars, bizVars, Made
<1>6. CASE ListUnrelated
  <2>1. \A i \in Deposit : related[i] \in Nat /\ copies[i] \in Nat /\ related[i] <= copies[i]
    BY <1>1 DEF DepTypeOK
  <2>2. todo' \in [Deposit -> Nat] /\ biz' \in {"idle", "lookup"}
    BY <1>6, <2>1 DEF ListUnrelated
  <2> QED
    BY <1>1, <1>6, <2>2 DEF ListUnrelated, DepTypeOK, chainVars, streamVars, Made
<1>7. CASE Lookup
  <2>1. PICK i \in Deposit :
          /\ todo[i] > 0 /\ todo' = Without(todo, i)
          /\ \/ Known(i) /\ found' = [found EXCEPT ![i] = @ + 1] /\ UNCHANGED faults
             \/ ~ Known(i) /\ UNCHANGED <<found, faults>>
             \/ faults < MaxFaults /\ faults' = faults + 1 /\ UNCHANGED found
    BY <1>7 DEF Lookup
  <2>2. todo \in [Deposit -> Nat] /\ found \in [Deposit -> Nat] /\ faults \in 0..MaxFaults
    BY <1>1 DEF DepTypeOK
  <2>3. todo' \in [Deposit -> Nat]
    BY <2>1, <2>2, WithoutOne
  <2>4. [found EXCEPT ![i] = @ + 1] \in [Deposit -> Nat]
    BY <2>2
  <2>5. found' \in [Deposit -> Nat]
    BY <2>1, <2>2, <2>4
  <2>6. faults' \in 0..MaxFaults
    BY <2>1, <2>2
  <2> QED  BY <1>1, <1>7, <2>3, <2>5, <2>6 DEF Lookup, DepTypeOK, chainVars, streamVars, Made
<1>8. CASE NextLoop
  <2>1. /\ todo' \in [Deposit -> Nat] /\ found' \in [Deposit -> Nat]
        /\ biz' \in {"idle", "lookup", "claim", "relate"}
    <3>1. todo \in [Deposit -> Nat] /\ found \in [Deposit -> Nat]
      BY <1>1 DEF DepTypeOK
    <3>2. None \in [Deposit -> Nat]
      BY DEF None
    <3> QED  BY <1>8, <3>1, <3>2 DEF NextLoop, EndTick
  <2> QED  BY <1>1, <1>8, <2>1 DEF NextLoop, DepTypeOK, chainVars, streamVars, Made
<1>9. CASE ClaimRow
  <2>1. PICK i \in Deposit, r \in DOMAIN row :
          todo[i] > 0 /\ todo' = Without(todo, i) /\ Claim(r, i)
    BY <1>9 DEF ClaimRow
  <2>2. todo' \in [Deposit -> Nat]
    BY <1>1, <2>1, WithoutOne DEF DepTypeOK
  <2>3. DOMAIN row' = DOMAIN row /\ row' \in [DOMAIN row -> Row]
    BY <1>1, <2>1, ClaimOne
  <2> QED  BY <1>1, <1>9, <2>2, <2>3 DEF ClaimRow, DepTypeOK, chainVars, streamVars, Made
<1>10. CASE Relate
  <2>1. PICK i \in Deposit : todo[i] > 0 /\ todo' = Without(todo, i) /\ MarkRelated(i)
    BY <1>10 DEF Relate
  <2>2. todo' \in [Deposit -> Nat]
    BY <1>1, <2>1, WithoutOne DEF DepTypeOK
  <2>3. related' \in [Deposit -> Nat] /\ \A j \in Deposit : related'[j] <= copies[j]
    <3>1. /\ related \in [Deposit -> Nat] /\ copies \in [Deposit -> Nat]
          /\ \A j \in Deposit : related[j] <= copies[j]
      BY <1>1 DEF DepTypeOK
    <3>2. CASE UNCHANGED related
      BY <3>1, <3>2
    <3>3. CASE related[i] < copies[i] /\ related' = [related EXCEPT ![i] = @ + 1]
      BY <3>1, <3>3
    <3> QED  BY <2>1, <3>2, <3>3 DEF MarkRelated
  <2>4. UNCHANGED <<chainVars, streamVars, row, biz, found, faults>>
    BY <1>10 DEF Relate
  <2>5. \A j \in Deposit : related'[j] <= copies'[j]
    BY <2>3, <2>4 DEF streamVars
  <2> QED  BY <1>1, <2>2, <2>3, <2>4, <2>5 DEF DepTypeOK, chainVars, streamVars, Made
<1>11. CASE TickError
  <2>1. UNCHANGED <<chainVars, streamVars, row, related>>
    BY <1>11 DEF TickError
  <2>2. biz' = "idle" /\ todo' \in [Deposit -> Nat] /\ found' \in [Deposit -> Nat]
    BY <1>11 DEF TickError, EndTick, None
  <2>3. faults' \in 0..MaxFaults
    BY <1>1, <1>11 DEF TickError, DepTypeOK
  <2> QED  BY <1>1, <2>1, <2>2, <2>3 DEF DepTypeOK, chainVars, streamVars, Made
<1>12. CASE Restart
  <2>1. /\ l1Pos' \in 0..l1Head /\ finPos' = 0 /\ faults' \in 0..MaxFaults
        /\ biz' = "idle" /\ todo' \in [Deposit -> Nat] /\ found' \in [Deposit -> Nat]
    <3>1. biz' = "idle" /\ todo' \in [Deposit -> Nat] /\ found' \in [Deposit -> Nat]
      BY <1>12 DEF Restart, EndTick, None
    <3>2. faults' \in 0..MaxFaults
      BY <1>1, <1>12 DEF Restart, DepTypeOK
    <3>3. l1Pos' \in 0..l1Pos /\ finPos' = 0
      BY <1>12 DEF Restart
    <3>4. l1Pos' \in 0..l1Head
      BY <1>1, <3>3, Numbers
    <3> QED  BY <3>1, <3>2, <3>3, <3>4
  <2>2. finPos' \in 0..l2Head
    BY <1>1, <2>1, Numbers
  <2> QED  BY <1>1, <1>12, <2>1, <2>2 DEF Restart, DepTypeOK, chainVars, Made
<1>13. CASE UNCHANGED depVars
  BY <1>1, <1>13 DEF depVars, DepTypeOK, chainVars, streamVars, bizVars, Made
<1> QED
  BY <1>2, <1>3, <1>4, <1>5, <1>6, <1>7, <1>8, <1>9, <1>10, <1>11, <1>12, <1>13
  DEF DepNext, Business, ChainStep

(* A relay stored stays stored, and so does the message of a deposit. *)
LEMMA Kept ==
  ASSUME DepInv, [DepNext]_depVars
  PROVE  \A i \in Deposit : /\ copies[i] > 0 => copies'[i] > 0
                            /\ Known(i) => Known(i)'
<1>1. DepTypeOK /\ StreamInv /\ RelayNotSkipped
  BY DEF DepInv
<1>2. CASE ScanRelays
  <2>1. copies \in [Deposit -> Nat] /\ copies' \in [Deposit -> Nat]
        /\ \A i \in Deposit : copies[i] <= copies'[i]
    BY <1>1, <1>2, NewCopies DEF DepTypeOK
  <2>2. row' = row
    BY <1>2 DEF ScanRelays
  <2> QED  BY <2>1, <2>2 DEF Known
<1>3. CASE IndexDeposits
  <2>1. copies' = copies
    BY <1>3 DEF IndexDeposits
  <2>2. DOMAIN row \subseteq DOMAIN row' /\ \A r \in DOMAIN row : row'[r] = row[r]
    <3>1. /\ l1Pos < l1Pos' /\ l1Pos' \in 0..l1Head
          /\ DOMAIN row' = {i \in Made : block[i] <= l1Pos'}
          /\ \A r \in DOMAIN row : row'[r] = row[r]
      BY <1>1, <1>3, NewRows
    <3>2. DOMAIN row = {i \in Made : block[i] <= l1Pos}
      BY <1>1 DEF StreamInv
    <3>3. l1Pos \in Nat /\ l1Head \in Nat /\ \A i \in Made : block[i] \in Nat
      BY <1>1, Numbers
    <3> QED  BY <3>1, <3>2, <3>3
  <2> QED  BY <2>1, <2>2 DEF Known
<1>4. CASE ClaimRow
  <2>1. copies' = copies
    BY <1>4 DEF ClaimRow, streamVars
  <2>2. PICK i \in Deposit, r \in DOMAIN row : Claim(r, i)
    BY <1>4 DEF ClaimRow
  <2>3. DOMAIN row' = DOMAIN row /\ \A q \in DOMAIN row : row'[q].msg = row[q].msg
    BY <1>1, <2>2, ClaimOne
  <2> QED  BY <2>1, <2>3 DEF Known
<1>5. CASE ChainStep \/ ListUnrelated \/ Lookup \/ NextLoop \/ Relate \/ TickError \/ Restart
  <2>1. copies' = copies /\ row' = row
    BY <1>5 DEF ChainStep, ListUnrelated, Lookup, NextLoop, Relate, TickError, Restart, streamVars
  <2> QED  BY <2>1 DEF Known
<1>6. CASE UNCHANGED depVars
  BY <1>6 DEF depVars, streamVars, Known
<1> QED  BY <1>2, <1>3, <1>4, <1>5, <1>6 DEF DepNext, Business

(* Every step keeps the rows those of the deposits up to the watermark. *)
LEMMA StreamStep == DepInv /\ [DepNext]_depVars => StreamInv'
<1> SUFFICES ASSUME DepInv, [DepNext]_depVars PROVE StreamInv'
  OBVIOUS
<1>1. DepTypeOK /\ StreamInv
  BY DEF DepInv
<1>2. /\ DOMAIN row = {i \in Made : block[i] <= l1Pos}
      /\ \A i \in Deposit : inserts[i] = IF i \in DOMAIN row THEN 1 ELSE 0
  BY <1>1 DEF StreamInv
<1>3. CASE ChainStep /\ L1Block
  <2>1. row' = row /\ inserts' = inserts /\ l1Pos' = l1Pos
    BY <1>3 DEF ChainStep, streamVars
  <2>2. /\ Made \subseteq Made' /\ \A i \in Made : block'[i] = block[i]
        /\ \A i \in Made' \ Made : block'[i] = l1Head'
    BY <1>1, <1>3, NewDeposits
  <2>3. ~ (l1Head' <= l1Pos)
    BY <1>1, <1>3, Numbers DEF L1Block
  <2>4. {i \in Made' : block'[i] <= l1Pos} = {i \in Made : block[i] <= l1Pos}
    BY <2>2, <2>3
  <2> QED  BY <1>2, <2>1, <2>4 DEF StreamInv
<1>4. CASE IndexDeposits
  <2>1. block' = block
    BY <1>4 DEF IndexDeposits, chainVars
  <2>2. /\ DOMAIN row' = {i \in Made : block[i] <= l1Pos'}
        /\ \A i \in Deposit : inserts'[i] = IF i \in DOMAIN row' THEN 1 ELSE 0
    BY <1>1, <1>4, NewRows
  <2> QED  BY <2>1, <2>2 DEF StreamInv, Made
<1>5. CASE ClaimRow
  <2>1. block' = block /\ l1Pos' = l1Pos /\ inserts' = inserts
    BY <1>5 DEF ClaimRow, chainVars, streamVars
  <2>2. PICK i \in Deposit, r \in DOMAIN row : Claim(r, i)
    BY <1>5 DEF ClaimRow
  <2>3. DOMAIN row' = DOMAIN row
    BY <1>1, <2>2, ClaimOne
  <2> QED  BY <1>2, <2>1, <2>3 DEF StreamInv, Made
<1>6. CASE Restart
  <2>1. row' = row /\ inserts' = inserts /\ block' = block
    BY <1>6 DEF Restart, chainVars
  <2>2. l1Pos' \in 0..l1Pos /\ Watermark(l1Pos')
    BY <1>6 DEF Restart
  <2>3. \A i \in DOMAIN row : block[i] <= l1Pos'
    BY <2>2 DEF Watermark
  <2>4. l1Pos \in Nat /\ \A i \in Made : block[i] \in Nat
    BY <1>1, Numbers
  <2>5. DOMAIN row = {i \in Made : block[i] <= l1Pos'}
    BY <1>2, <2>2, <2>3, <2>4
  <2> QED  BY <1>2, <2>1, <2>5 DEF StreamInv, Made
<1>7. CASE \/ ChainStep /\ L2Block
           \/ ScanRelays \/ ListUnrelated \/ Lookup \/ NextLoop \/ Relate \/ TickError
  <2>1. UNCHANGED <<block, l1Pos, row, inserts>>
    BY <1>7 DEF ChainStep, L2Block, ScanRelays, ListUnrelated, Lookup, NextLoop, Relate,
                TickError, streamVars, chainVars
  <2> QED  BY <1>2, <2>1 DEF StreamInv, Made
<1>8. CASE UNCHANGED depVars
  BY <1>2, <1>8 DEF depVars, streamVars, chainVars, StreamInv, Made
<1> QED
  BY <1>3, <1>4, <1>5, <1>6, <1>7, <1>8 DEF DepNext, Business, ChainStep

(* Every step of the ticker, or beside it, keeps what its loops know. *)
LEMMA LoopStep == DepInv /\ [DepNext]_depVars => LoopInv'
<1> SUFFICES ASSUME DepInv, [DepNext]_depVars PROVE LoopInv'
  OBVIOUS
<1>1. /\ todo \in [Deposit -> Nat] /\ found \in [Deposit -> Nat]
      /\ copies \in [Deposit -> Nat] /\ related \in [Deposit -> Nat]
  BY DEF DepInv, DepTypeOK
<1>2. /\ \A i \in Deposit : todo[i] > 0 => copies[i] > 0
      /\ \A i \in Deposit : found[i] > 0 => copies[i] > 0 /\ Known(i)
      /\ biz \in {"claim", "relate"} => \A i \in Deposit : todo[i] > 0 => found[i] > 0
  BY DEF DepInv, LoopInv
<1>3. \A i \in Deposit : (copies[i] > 0 => copies'[i] > 0) /\ (Known(i) => Known(i)')
  BY Kept
<1> HIDE DEF Known
<1>4. CASE UNCHANGED bizVars
  BY <1>2, <1>3, <1>4 DEF LoopInv, bizVars
<1>5. CASE ListUnrelated
  <2>1. \A i \in Deposit : todo'[i] > 0 => copies[i] > 0
    BY <1>1, <1>5 DEF ListUnrelated
  <2>2. found' = found /\ biz' \in {"idle", "lookup"}
    BY <1>5 DEF ListUnrelated
  <2> QED  BY <1>2, <1>3, <2>1, <2>2 DEF LoopInv
<1>6. CASE Lookup
  <2>1. PICK i \in Deposit :
          /\ todo[i] > 0 /\ todo' = Without(todo, i)
          /\ \/ Known(i) /\ found' = [found EXCEPT ![i] = @ + 1]
             \/ found' = found
    BY <1>6 DEF Lookup
  <2>2. \A j \in Deposit : todo'[j] > 0 => todo[j] > 0
    BY <1>1, <2>1, WithoutOne
  <2>3. \A j \in Deposit : found'[j] > 0 => copies[j] > 0 /\ Known(j)
    <3>1. CASE found' = found
      BY <1>2, <3>1
    <3>2. CASE Known(i) /\ found' = [found EXCEPT ![i] = @ + 1]
      <4>1. \A j \in Deposit \ {i} : found'[j] = found[j]
        BY <1>1, <3>2
      <4>2. copies[i] > 0
        BY <1>2, <2>1
      <4> QED  BY <1>2, <3>2, <4>1, <4>2
    <3> QED  BY <2>1, <3>1, <3>2
  <2>4. biz' = "lookup"
    BY <1>6 DEF Lookup
  <2> QED  BY <1>2, <1>3, <2>2, <2>3, <2>4 DEF LoopInv
<1>7. CASE EndTick
  <2>1. \A i \in Deposit : todo'[i] = 0 /\ found'[i] = 0
    BY <1>7 DEF EndTick, None
  <2> QED  BY <2>1 DEF LoopInv
<1>8. CASE NextLoop
  <2>1. CASE todo' = found /\ found' = found
    BY <1>2, <1>3, <2>1 DEF LoopInv
  <2> QED  BY <1>7, <1>8, <2>1 DEF NextLoop
<1>9. CASE ClaimRow \/ Relate
  <2>1. PICK i \in Deposit : todo[i] > 0 /\ todo' = Without(todo, i)
    BY <1>9 DEF ClaimRow, Relate
  <2>2. \A j \in Deposit : todo'[j] > 0 => todo[j] > 0
    BY <1>1, <2>1, WithoutOne
  <2>3. found' = found /\ biz' = biz
    BY <1>9 DEF ClaimRow, Relate
  <2> QED  BY <1>2, <1>3, <2>2, <2>3 DEF LoopInv
<1>10. CASE ChainStep \/ IndexDeposits \/ ScanRelays
  BY <1>4, <1>10 DEF ChainStep, IndexDeposits, ScanRelays
<1>11. CASE TickError \/ Restart
  BY <1>7, <1>11 DEF TickError, Restart
<1> QED
  BY <1>4, <1>5, <1>6, <1>8, <1>9, <1>10, <1>11 DEF DepNext, Business, depVars

(* Every step leaves no relay up to the watermark without a row. *)
LEMMA RelayStep == DepInv /\ [DepNext]_depVars => RelayNotSkipped'
<1> SUFFICES ASSUME DepInv, [DepNext]_depVars PROVE RelayNotSkipped'
  OBVIOUS
<1>1. DepTypeOK /\ RelayNotSkipped
  BY DEF DepInv
<1>2. CASE ChainStep /\ L2Block
  <2>1. copies' = copies /\ finPos' = finPos
    BY <1>2 DEF ChainStep, streamVars
  <2>2. \A i \in Deposit : relayed'[i] = relayed[i] \/ relayed'[i] > finPos
    BY <1>1, <1>2, NewRelays
  <2>3. finPos \in Nat
    BY <1>1, Numbers
  <2> QED  BY <1>1, <2>1, <2>2, <2>3 DEF RelayNotSkipped
<1>3. CASE ScanRelays
  <2>1. relayed' = relayed
    BY <1>3 DEF ScanRelays, chainVars
  <2> QED  BY <1>1, <1>3, <2>1, NewCopies DEF RelayNotSkipped
<1>4. CASE Restart
  <2>1. finPos' = 0
    BY <1>4 DEF Restart
  <2> QED  BY <2>1 DEF RelayNotSkipped
<1>5. CASE \/ ChainStep /\ L1Block
           \/ IndexDeposits \/ ListUnrelated \/ Lookup \/ NextLoop \/ ClaimRow \/ Relate
           \/ TickError
  <2>1. UNCHANGED <<relayed, finPos, copies>>
    BY <1>5 DEF ChainStep, L1Block, IndexDeposits, ListUnrelated, Lookup, NextLoop, ClaimRow,
                Relate, TickError, streamVars, chainVars
  <2> QED  BY <1>1, <2>1 DEF RelayNotSkipped
<1>6. CASE UNCHANGED depVars
  BY <1>1, <1>6 DEF depVars, streamVars, chainVars, RelayNotSkipped
<1> QED
  BY <1>2, <1>3, <1>4, <1>5, <1>6 DEF DepNext, Business, ChainStep

(* Every step leaves the claimed rows traced to a relay and a deposit. *)
LEMMA ClaimStep == DepInv /\ [DepNext]_depVars => ClaimTraced'
<1> SUFFICES ASSUME DepInv, [DepNext]_depVars PROVE ClaimTraced'
  OBVIOUS
<1> DEFINE Traced(r) ==
      IF row[r].status = Claimed
      THEN \E i \in Deposit : row[r].claim = i /\ copies[i] > 0 /\ Known(i)
      ELSE row[r].claim = 0
<1>1. DepTypeOK /\ StreamInv /\ \A r \in DOMAIN row : Traced(r)
  BY DEF DepInv, ClaimTraced
<1>2. \A i \in Deposit : (copies[i] > 0 => copies'[i] > 0) /\ (Known(i) => Known(i)')
  BY Kept
<1>3. ASSUME NEW r \in DOMAIN row, row'[r] = row[r] PROVE Traced(r)'
  BY <1>1, <1>2, <1>3
<1>4. SUFFICES ASSUME NEW r \in DOMAIN row' PROVE Traced(r)'
  BY DEF ClaimTraced
<1>5. CASE IndexDeposits
  <2>1. CASE r \in DOMAIN row
    BY <1>1, <1>3, <1>5, <2>1, NewRows
  <2>2. CASE r \notin DOMAIN row
    <3>1. row'[r].status = Pending /\ row'[r].claim = 0
      BY <1>1, <1>4, <1>5, <2>2, NewRows
    <3> QED  BY <3>1 DEF Pending, Claimed
  <2> QED  BY <2>1, <2>2
<1>6. CASE ClaimRow
  <2>1. PICK i \in Deposit, q \in DOMAIN row : todo[i] > 0 /\ Claim(q, i)
    BY <1>6 DEF ClaimRow
  <2>2. copies'[i] > 0 /\ Known(i)'
    <3>1. biz = "claim"
      BY <1>6 DEF ClaimRow
    <3>2. copies[i] > 0 /\ Known(i)
      BY <2>1, <3>1 DEF DepInv, LoopInv
    <3> QED  BY <1>2, <3>2
  <2>3. /\ DOMAIN row' = DOMAIN row /\ \A p \in DOMAIN row \ {q} : row'[p] = row[p]
        /\ row'[q].status = Claimed /\ row'[q].claim = i
    BY <1>1, <2>1, ClaimOne
  <2>4. CASE r = q
    BY <2>2, <2>3, <2>4
  <2>5. CASE r # q
    BY <1>3, <1>4, <2>3, <2>5
  <2> QED  BY <2>4, <2>5
<1>7. CASE ChainStep \/ ScanRelays \/ ListUnrelated \/ Lookup \/ NextLoop \/ Relate
           \/ TickError \/ Restart \/ UNCHANGED depVars
  <2>1. row' = row
    BY <1>7 DEF ChainStep, ScanRelays, ListUnrelated, Lookup, NextLoop, Relate, TickError,
                Restart, depVars
  <2> QED  BY <1>3, <1>4, <2>1
<1> QED  BY <1>5, <1>6, <1>7 DEF DepNext, Business

-----------------------------------------------------------------------------
(* The empty tables. *)
LEMMA DepStart == DepInit => DepInv
<1> SUFFICES ASSUME DepInit PROVE DepInv
  OBVIOUS
<1> USE DepositsAssumption
<1>1. block = <<>> /\ row = <<>> /\ Made = {} /\ DOMAIN row = {}
  BY DEF DepInit, Made
<1>2. None \in [Deposit -> Nat] /\ \A i \in Deposit : None[i] = 0
  BY DEF None
<1>3. DepTypeOK
  <2>1. block \in Seq(1..l1Head) /\ Len(block) <= N
    BY <1>1
  <2>2. row \in [DOMAIN row -> Row]
    BY <1>1
  <2>3. relayed \in [Deposit -> 0..l2Head]
    BY <1>2 DEF DepInit, None
  <2> QED  BY <1>1, <1>2, <2>1, <2>2, <2>3 DEF DepInit, DepTypeOK
<1>4. StreamInv
  BY <1>1, <1>2 DEF StreamInv, DepInit
<1>5. LoopInv
  BY <1>2 DEF LoopInv, DepInit
<1>6. RelayNotSkipped /\ ClaimTraced
  BY <1>1, <1>2 DEF RelayNotSkipped, ClaimTraced, DepInit
<1> QED  BY <1>3, <1>4, <1>5, <1>6 DEF DepInv

(* The invariant: the rows are those of the deposits up to the watermark, and
   the ticker works on stored relays of stored deposits (event.go:21-227,
   business/run.go:256-291). *)
THEOREM DepInvariant == DepSpec => []DepInv
<1>1. DepInit => DepInv
  BY DepStart
<1>2. DepInv /\ [DepNext]_depVars => DepInv'
  BY DepTypeStep, StreamStep, LoopStep, RelayStep, ClaimStep DEF DepInv
<1> QED  BY <1>1, <1>2, PTL DEF DepSpec

(* The variables keep their types: a watermark never passes the newest header,
   and no more relays are marked than there are. *)
THEOREM DepTypeCorrect == DepSpec => []DepTypeOK
<1>1. DepInv => DepTypeOK
  BY DEF DepInv
<1> QED  BY <1>1, DepInvariant, PTL

(* One row for every deposit up to the watermark, and no second one however
   often the watermark moves back (event.go:178-225). *)
THEOREM DepStoredOnce == DepSpec => []DepositsStoredOnce
<1>1. ASSUME DepInv PROVE DepositsStoredOnce
  <2>1. Made \subseteq Deposit
    BY <1>1, Numbers DEF DepInv
  <2>2. /\ DOMAIN row = {i \in Made : block[i] <= l1Pos}
        /\ \A i \in Deposit : inserts[i] = IF i \in DOMAIN row THEN 1 ELSE 0
    BY <1>1 DEF DepInv, StreamInv
  <2> QED  BY <2>1, <2>2 DEF DepositsStoredOnce
<1> QED  BY <1>1, DepInvariant, PTL

(* No message relayed up to the watermark is missing in relay_message, although
   the watermark goes back to nil again and again (event.go:364-427). *)
THEOREM DepRelayNotSkipped == DepSpec => []RelayNotSkipped
<1>1. DepInv => RelayNotSkipped
  BY DEF DepInv
<1> QED  BY <1>1, DepInvariant, PTL

(* A claimed row names the transaction of a stored relay whose deposit is in
   the table (l1_to_l2.go:168-192). *)
THEOREM DepClaimTraced == DepSpec => []ClaimTraced
<1>1. DepInv => ClaimTraced
  BY DEF DepInv
<1> QED  BY <1>1, DepInvariant, PTL

(* A step stores the deposits that the watermark passes, or moves the watermark
   back to the newest deposit stored, or adds blocks; or none of it. *)
LEMMA StreamSteps ==
  ASSUME DepInv, [DepNext]_depVars
  PROVE  [Stream!Next]_<<block, l1Head, l1Pos, inserts>>
<1>1. /\ DepTypeOK /\ DOMAIN row = {i \in Made : block[i] <= l1Pos}
      /\ \A i \in Deposit : inserts[i] = IF i \in DOMAIN row THEN 1 ELSE 0
  BY DEF DepInv, StreamInv
<1>2. /\ DOMAIN block = Made /\ Made \subseteq Deposit /\ l1Pos \in Nat /\ l1Head \in Nat
      /\ \A i \in Made : block[i] \in 1..l1Head
  <2>1. DOMAIN block = Made
    BY <1>1 DEF Made, DepTypeOK
  <2> QED  BY <1>1, <2>1, Numbers
<1>3. CASE ChainStep /\ L1Block
  <2>1. l1Pos' = l1Pos /\ inserts' = inserts /\ l1Head' = l1Head + 1
    BY <1>3 DEF ChainStep, L1Block, streamVars
  <2>2. /\ block' \in Seq(1..l1Head') /\ Made \subseteq Made'
        /\ \A i \in Made : block'[i] = block[i]
        /\ \A i \in Made' \ Made : block'[i] = l1Head'
    BY <1>1, <1>3, NewDeposits
  <2>3. DOMAIN block' = Made'
    BY <2>2 DEF Made
  <2>4. Stream!Grow
    BY <1>2, <2>1, <2>2, <2>3 DEF Stream!Grow
  <2> QED  BY <2>4 DEF Stream!Next
<1>4. CASE IndexDeposits
  <2>1. /\ l1Pos' = Upto(l1Pos, l1Head) /\ block' = block /\ l1Head' = l1Head
        /\ inserts' = [i \in Deposit |-> inserts[i] +
             IF i \in {j \in Made : l1Pos < block[j] /\ block[j] <= Upto(l1Pos, l1Head)}
             THEN 1 ELSE 0]
    BY <1>4 DEF IndexDeposits, chainVars
  <2>2. l1Pos' \in 0..l1Head /\ l1Pos < l1Pos'
    BY <1>1, <1>4, NewRows DEF DepInv
  <2>3. PICK to : to = l1Pos'
    OBVIOUS
  <2>4. {j \in Made : l1Pos < block[j] /\ block[j] <= to} = Stream!Upto(to) \ Stream!Upto(l1Pos)
    BY <1>2, <2>2, <2>3 DEF Stream!Upto
  <2>5. inserts' = [i \in Deposit |-> inserts[i] +
          IF i \in Stream!Upto(to) \ Stream!Upto(l1Pos) THEN 1 ELSE 0]
    BY <2>1, <2>3, <2>4
  <2>6. Stream!Scan
    BY <1>2, <2>1, <2>2, <2>3, <2>5 DEF Stream!Scan
  <2> QED  BY <2>6 DEF Stream!Next
<1>5. CASE Restart
  <2>1. block' = block /\ l1Head' = l1Head /\ inserts' = inserts
    BY <1>5 DEF Restart, chainVars
  <2>2. PICK b \in 0..l1Pos : Watermark(b) /\ l1Pos' = b
    BY <1>5 DEF Restart
  <2>3. \A i \in DOMAIN row : block[i] <= b
    BY <2>2 DEF Watermark
  <2>4. Stream!Upto(b) = Stream!Upto(l1Pos)
    BY <1>1, <1>2, <2>2, <2>3 DEF Stream!Upto
  <2>5. Stream!FallBack
    BY <1>2, <2>1, <2>2, <2>4 DEF Stream!FallBack
  <2> QED  BY <2>5 DEF Stream!Next
<1>6. CASE \/ ChainStep /\ L2Block
           \/ ScanRelays \/ ListUnrelated \/ Lookup \/ NextLoop \/ ClaimRow \/ Relate
           \/ TickError \/ UNCHANGED depVars
  BY <1>6 DEF ChainStep, L2Block, ScanRelays, ListUnrelated, Lookup, NextLoop, ClaimRow,
              Relate, TickError, depVars, streamVars, chainVars
<1> QED
  BY <1>3, <1>4, <1>5, <1>6 DEF DepNext, Business, ChainStep

(* The deposits are stored as EventStream promises: the steps of the ticker and of the
   relays are stutters to it, every other step is one of its own (event.go:178-225). *)
THEOREM DepImplementsStream == DepSpec => ImplementsStream
<1>1. DepInit => Stream!Init
  BY DEF DepInit, Stream!Init, None
<1>2. DepInv /\ [DepNext]_depVars => [Stream!Next]_<<block, l1Head, l1Pos, inserts>>
  BY StreamSteps
<1> QED  BY <1>1, <1>2, DepInvariant, PTL DEF DepSpec, ImplementsStream, Stream!Spec
=============================================================================
