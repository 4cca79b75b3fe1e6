--------------------------- MODULE BridgeCheckProofs ---------------------------
(***************************************************************************)
(* Theorems about the account check, for all tokens, chains, transfers and  *)
(* losses: what a checkpoint says stays true of the chains, so a difference *)
(* between two checkpoints is what happened between them.                   *)
(***************************************************************************)
EXTENDS BridgeCheck, FiniteSetTheorems, WellFoundedInduction, TLAPS

(* A pass holds heights that were read together, at or above those of every
   checkpoint that is there. *)
PassInv ==
  pass.l1 > 0 =>
    /\ pass.i > 0 /\ pass.l2 > 0
    /\ \A k \in DOMAIN points : points[k].l1 <= pass.l1 /\ points[k].l2 <= pass.l2

(* The difference of a checkpoint is that of the chains at its heights. *)
DiffInv ==
  \A k \in DOMAIN points :
    points[k].diff = Balance(points[k].token, points[k].l1) - Supply(points[k].token, points[k].l2)

(* The inductive invariant.  What is compared is only meaningful because the past
   of the chains does not change: a checkpoint goes on to say what they said. *)
CheckInv == CheckTypeOK /\ PassInv /\ DiffInv

-----------------------------------------------------------------------------
(* Types. *)

PassType  == [i : 0..Len(Tokens), known : 0..Len(points), l1 : 0..head.l1, l2 : 0..head.l2]
DepType   == [token : Token, l1 : 2..head.l1, l2 : 0..head.l2]
WdType    == [token : Token, l1 : 0..head.l1, l2 : 2..head.l2, proofs : SUBSET (1..head.l1)]
LostType  == [token : Token, l1 : 2..head.l1]
PointType == [token : Token, l1 : 1..head.l1, l2 : 1..head.l2, diff : Int, checked : BOOLEAN]
DepRows   == Seq([marked : BOOLEAN, l2 : {0}])
WdRows    == Seq([l1 : Nat, claimed : BOOLEAN])

(* A withdrawal is proved before it is claimed. *)
ProvedFirst == \A n \in DOMAIN wd : wd[n].l1 > 0 => \A b \in wd[n].proofs : b < wd[n].l1

(* What the row of a withdrawal says of its proofs and claim. *)
RowsFit == \A n \in DOMAIN wdRow :
  /\ wdRow[n].claimed => wd[n].l1 > 0 /\ wdRow[n].l1 \in wd[n].proofs \cup {wd[n].l1}
  /\ ~wdRow[n].claimed => wdRow[n].l1 \in wd[n].proofs \cup {0}

(* What the types say of heads and rows. *)
LEMMA CheckRows ==
  ASSUME CheckTypeOK
  PROVE  /\ head.l1 \in 1..MaxBlock /\ head.l2 \in 1..MaxBlock /\ MaxBlock \in Nat
         /\ dep \in Seq(DepType) /\ wd \in Seq(WdType) /\ lost \in Seq(LostType)
         /\ points \in Seq(PointType) /\ pass \in PassType
         /\ depRow \in DepRows /\ wdRow \in WdRows /\ ProvedFirst /\ RowsFit
         /\ DOMAIN depRow = 1..Len(depRow) /\ Len(depRow) \in Nat /\ Len(depRow) <= Len(dep)
         /\ DOMAIN wdRow = 1..Len(wdRow) /\ Len(wdRow) \in Nat /\ Len(wdRow) <= Len(wd)
         /\ DOMAIN dep = 1..Len(dep) /\ Len(dep) \in Nat
         /\ DOMAIN wd = 1..Len(wd) /\ Len(wd) \in Nat
         /\ DOMAIN lost = 1..Len(lost) /\ Len(lost) \in Nat
         /\ DOMAIN points = 1..Len(points) /\ Len(points) \in Nat
         /\ \A n \in DOMAIN dep : dep[n] \in DepType
         /\ \A n \in DOMAIN wd : wd[n] \in WdType
         /\ \A n \in DOMAIN lost : lost[n] \in LostType
         /\ \A n \in DOMAIN points : points[n] \in PointType
<1>1. /\ head.l1 \in 1..MaxBlock /\ head.l2 \in 1..MaxBlock /\ MaxBlock \in Nat
      /\ dep \in Seq(DepType) /\ wd \in Seq(WdType) /\ lost \in Seq(LostType)
      /\ points \in Seq(PointType) /\ pass \in PassType
      /\ Len(depRow) <= Len(dep) /\ Len(wdRow) <= Len(wd)
  BY BridgeCheckAssumption
  DEF CheckTypeOK, DepType, WdType, LostType, PointType, PassType
<1>2. depRow \in DepRows /\ wdRow \in WdRows /\ ProvedFirst /\ RowsFit
  BY DEF CheckTypeOK, DepRows, WdRows, ProvedFirst, RowsFit
<1>3. /\ DOMAIN depRow = 1..Len(depRow) /\ Len(depRow) \in Nat
      /\ DOMAIN wdRow = 1..Len(wdRow) /\ Len(wdRow) \in Nat
  BY <1>2 DEF DepRows, WdRows
<1> QED  BY <1>1, <1>2, <1>3

(* A sequence over a set is one over a larger set. *)
LEMMA WiderSeq ==
  ASSUME NEW S, NEW T, S \subseteq T, NEW q \in Seq(S)
  PROVE  q \in Seq(T)
  OBVIOUS

(* Completing a transfer sets one of its blocks. *)
LEMMA DepCompleted ==
  ASSUME head.l1 \in Nat, head.l2 \in Nat, NEW r \in DepType, NEW b
  PROVE  [r EXCEPT !.l2 = b] = [token |-> r.token, l1 |-> r.l1, l2 |-> b]
  BY DEF DepType

LEMMA WdCompleted ==
  ASSUME head.l1 \in Nat, head.l2 \in Nat, NEW r \in WdType, NEW b
  PROVE  [r EXCEPT !.l1 = b] = [token |-> r.token, l1 |-> b, l2 |-> r.l2, proofs |-> r.proofs]
  BY DEF WdType

LEMMA WdProved ==
  ASSUME head.l1 \in Nat, head.l2 \in Nat, NEW r \in WdType, NEW S
  PROVE  [r EXCEPT !.proofs = S] = [token |-> r.token, l1 |-> r.l1, l2 |-> r.l2, proofs |-> S]
  BY DEF WdType

(* A new block raises the head of its chain, so that all types get wider. *)
LEMMA NewBlockHead ==
  ASSUME CheckTypeOK, NEW layer \in {"l1", "l2"}, NewBlock(layer)
  PROVE  /\ head' \in [{"l1", "l2"} -> 1..MaxBlock]
         /\ head'.l1 = IF layer = "l1" THEN head.l1 + 1 ELSE head.l1
         /\ head'.l2 = IF layer = "l2" THEN head.l2 + 1 ELSE head.l2
         /\ DepType \subseteq DepType' /\ WdType \subseteq WdType'
         /\ LostType \subseteq LostType' /\ points' \in Seq(PointType)'
         /\ pass' \in PassType'
         /\ UNCHANGED <<depRow, wdRow, points, pass, faults>>
<1>1. head \in [{"l1", "l2"} -> 1..MaxBlock] /\ MaxBlock \in Nat
  BY BridgeCheckAssumption DEF CheckTypeOK
<1>2. /\ head[layer] < MaxBlock /\ head' = [head EXCEPT ![layer] = head[layer] + 1]
      /\ UNCHANGED <<depRow, wdRow, points, pass, faults>>
  BY DEF NewBlock
<1>3. /\ head' \in [{"l1", "l2"} -> 1..MaxBlock]
      /\ head'.l1 = IF layer = "l1" THEN head.l1 + 1 ELSE head.l1
      /\ head'.l2 = IF layer = "l2" THEN head.l2 + 1 ELSE head.l2
  BY <1>1, <1>2
<1>4. 0..head.l1 \subseteq 0..head'.l1 /\ 2..head.l1 \subseteq 2..head'.l1
      /\ 1..head.l1 \subseteq 1..head'.l1
  BY <1>1, <1>3
<1>5. 0..head.l2 \subseteq 0..head'.l2 /\ 2..head.l2 \subseteq 2..head'.l2
      /\ 1..head.l2 \subseteq 1..head'.l2
  BY <1>1, <1>3
<1>6. PointType \subseteq PointType' /\ PassType \subseteq PassType'
  BY <1>2, <1>4, <1>5 DEF PointType, PassType
<1>7. points \in Seq(PointType) /\ pass \in PassType
  BY CheckRows
<1>8. points' \in Seq(PointType)' /\ pass' \in PassType'
  BY <1>2, <1>6, <1>7, WiderSeq
<1> QED  BY <1>2, <1>3, <1>4, <1>5, <1>8 DEF DepType, WdType, LostType

(* What a row of the chains becomes: the rows that are there stay, but for the block
   in which a transfer is completed, which is a new one. *)
LEMMA ChainRows ==
  ASSUME CheckTypeOK, NEW t \in Token, Deposit(t) \/ Withdraw(t) \/ Lose(t)
  PROVE  /\ dep' \in Seq(DepType)' /\ wd' \in Seq(WdType)' /\ lost' \in Seq(LostType)'
         /\ Len(dep') >= Len(dep) /\ Len(wd') >= Len(wd) /\ Len(lost') <= MaxLost
         /\ \A n \in DOMAIN dep : n \in DOMAIN dep' /\ dep'[n] = dep[n]
         /\ \A n \in DOMAIN wd : n \in DOMAIN wd' /\ wd'[n] = wd[n]
         /\ \A n \in DOMAIN lost : n \in DOMAIN lost' /\ lost'[n] = lost[n]
         /\ \A n \in DOMAIN dep' \ DOMAIN dep : dep'[n].l1 = head.l1 + 1 /\ dep'[n].l2 = 0
         /\ \A n \in DOMAIN wd' \ DOMAIN wd : wd'[n].l2 = head.l2 + 1 /\ wd'[n].l1 = 0
         /\ \A n \in DOMAIN lost' \ DOMAIN lost : lost'[n].l1 = head.l1 + 1
<1>1. /\ head.l1 \in 1..MaxBlock /\ head.l2 \in 1..MaxBlock /\ MaxBlock \in Nat
      /\ dep \in Seq(DepType) /\ wd \in Seq(WdType) /\ lost \in Seq(LostType)
      /\ DOMAIN dep = 1..Len(dep) /\ Len(dep) \in Nat
      /\ DOMAIN wd = 1..Len(wd) /\ Len(wd) \in Nat
      /\ DOMAIN lost = 1..Len(lost) /\ Len(lost) \in Nat
  BY CheckRows
<1>2. Len(lost) <= MaxLost /\ MaxLost \in Nat
  BY BridgeCheckAssumption DEF CheckTypeOK
<1>3. CASE Deposit(t)
  <2> DEFINE row == [token |-> t, l1 |-> head.l1 + 1, l2 |-> 0]
  <2>1. dep' = Append(dep, row) /\ UNCHANGED <<wd, lost>> /\ NewBlock("l1")
    BY <1>3 DEF Deposit
  <2>2. /\ DepType \subseteq DepType' /\ WdType \subseteq WdType' /\ LostType \subseteq LostType'
        /\ head'.l1 = head.l1 + 1 /\ head'.l2 = head.l2
    BY <2>1, NewBlockHead
  <2>3. dep \in Seq(DepType)' /\ wd' \in Seq(WdType)' /\ lost' \in Seq(LostType)'
    BY <1>1, <2>1, <2>2, WiderSeq
  <2>4. row \in DepType'
    BY <1>1, <2>2 DEF DepType
  <2>5. /\ dep' \in Seq(DepType)' /\ Len(dep') = Len(dep) + 1 /\ DOMAIN dep' = 1..(Len(dep) + 1)
        /\ \A n \in 1..Len(dep) : dep'[n] = dep[n]
        /\ dep'[Len(dep) + 1] = row
    BY <1>1, <2>1, <2>3, <2>4
  <2> QED  BY <1>1, <1>2, <2>1, <2>3, <2>5
<1>4. CASE Withdraw(t)
  <2> DEFINE row == [token |-> t, l2 |-> head.l2 + 1, proofs |-> {}, l1 |-> 0]
  <2>1. wd' = Append(wd, row) /\ UNCHANGED <<dep, lost>> /\ NewBlock("l2")
    BY <1>4 DEF Withdraw
  <2>2. /\ DepType \subseteq DepType' /\ WdType \subseteq WdType' /\ LostType \subseteq LostType'
        /\ head'.l1 = head.l1 /\ head'.l2 = head.l2 + 1
    BY <2>1, NewBlockHead
  <2>3. wd \in Seq(WdType)' /\ dep' \in Seq(DepType)' /\ lost' \in Seq(LostType)'
    BY <1>1, <2>1, <2>2, WiderSeq
  <2>4. row \in WdType'
    BY <1>1, <2>2 DEF WdType
  <2>5. /\ wd' \in Seq(WdType)' /\ Len(wd') = Len(wd) + 1 /\ DOMAIN wd' = 1..(Len(wd) + 1)
        /\ \A n \in 1..Len(wd) : wd'[n] = wd[n]
        /\ wd'[Len(wd) + 1] = row
    BY <1>1, <2>1, <2>3, <2>4
  <2> QED  BY <1>1, <1>2, <2>1, <2>3, <2>5
<1>5. CASE Lose(t)
  <2> DEFINE row == [token |-> t, l1 |-> head.l1 + 1]
  <2>1. lost' = Append(lost, row) /\ UNCHANGED <<dep, wd>> /\ NewBlock("l1") /\ Len(lost) < MaxLost
    BY <1>5 DEF Lose
  <2>2. /\ DepType \subseteq DepType' /\ WdType \subseteq WdType' /\ LostType \subseteq LostType'
        /\ head'.l1 = head.l1 + 1 /\ head'.l2 = head.l2
    BY <2>1, NewBlockHead
  <2>3. dep' \in Seq(DepType)' /\ wd' \in Seq(WdType)' /\ lost \in Seq(LostType)'
    BY <1>1, <2>1, <2>2, WiderSeq
  <2>4. row \in LostType'
    BY <1>1, <2>2 DEF LostType
  <2>5. /\ lost' \in Seq(LostType)' /\ Len(lost') = Len(lost) + 1
        /\ DOMAIN lost' = 1..(Len(lost) + 1)
        /\ \A n \in 1..Len(lost) : lost'[n] = lost[n]
        /\ lost'[Len(lost) + 1] = row
    BY <1>1, <2>1, <2>3, <2>4
  <2> QED  BY <1>1, <1>2, <2>1, <2>3, <2>5
<1> QED  BY <1>3, <1>4, <1>5

LEMMA RelayRows ==
  ASSUME CheckTypeOK, NEW n \in DOMAIN dep, Relay(n)
  PROVE  /\ dep' \in Seq(DepType)' /\ wd' \in Seq(WdType)' /\ lost' \in Seq(LostType)'
         /\ DOMAIN dep' = DOMAIN dep /\ Len(dep') = Len(dep) /\ UNCHANGED <<wd, lost>>
         /\ dep[n].l2 = 0 /\ dep'[n].l2 = head.l2 + 1
         /\ dep'[n].token = dep[n].token /\ dep'[n].l1 = dep[n].l1
         /\ \A m \in DOMAIN dep \ {n} : dep'[m] = dep[m]
<1>1. /\ head.l1 \in 1..MaxBlock /\ head.l2 \in 1..MaxBlock /\ MaxBlock \in Nat
      /\ dep \in Seq(DepType) /\ wd \in Seq(WdType) /\ lost \in Seq(LostType)
      /\ DOMAIN dep = 1..Len(dep) /\ Len(dep) \in Nat /\ dep[n] \in DepType
  BY CheckRows
<1> DEFINE row == [dep[n] EXCEPT !.l2 = head.l2 + 1]
<1>2. dep[n].l2 = 0 /\ dep' = [dep EXCEPT ![n] = row] /\ UNCHANGED <<wd, lost>> /\ NewBlock("l2")
  BY DEF Relay
<1>3. /\ DepType \subseteq DepType' /\ WdType \subseteq WdType' /\ LostType \subseteq LostType'
      /\ head'.l1 = head.l1 /\ head'.l2 = head.l2 + 1
  BY <1>2, NewBlockHead
<1>4. dep \in Seq(DepType)' /\ wd' \in Seq(WdType)' /\ lost' \in Seq(LostType)'
  BY <1>1, <1>2, <1>3, WiderSeq
<1>5. row \in DepType' /\ row.token = dep[n].token /\ row.l1 = dep[n].l1 /\ row.l2 = head.l2 + 1
  <2>1. row = [token |-> dep[n].token, l1 |-> dep[n].l1, l2 |-> head.l2 + 1]
    BY <1>1, DepCompleted
  <2>3. head.l2 + 1 \in 0..head'.l2
    BY <1>1, <1>3
  <2>4. [token |-> dep[n].token, l1 |-> dep[n].l1, l2 |-> head.l2 + 1] \in DepType'
    BY <1>1, <1>3, <2>3 DEF DepType
  <2> QED  BY <2>1, <2>4
<1>6. /\ dep' \in Seq(DepType)' /\ DOMAIN dep' = DOMAIN dep /\ Len(dep') = Len(dep)
      /\ dep'[n] = row /\ \A m \in DOMAIN dep \ {n} : dep'[m] = dep[m]
  BY <1>1, <1>2, <1>4, <1>5
<1> QED  BY <1>1, <1>2, <1>4, <1>5, <1>6

LEMMA ClaimRows ==
  ASSUME CheckTypeOK, NEW n \in DOMAIN wd, Claim(n)
  PROVE  /\ dep' \in Seq(DepType)' /\ wd' \in Seq(WdType)' /\ lost' \in Seq(LostType)'
         /\ DOMAIN wd' = DOMAIN wd /\ Len(wd') = Len(wd) /\ UNCHANGED <<dep, lost>>
         /\ wd[n].l1 = 0 /\ wd'[n].l1 = head.l1 + 1
         /\ wd'[n].token = wd[n].token /\ wd'[n].l2 = wd[n].l2
         /\ wd'[n].proofs = wd[n].proofs /\ wd'[n].proofs \subseteq 1..head.l1
         /\ \A m \in DOMAIN wd \ {n} : wd'[m] = wd[m]
<1>1. /\ head.l1 \in 1..MaxBlock /\ head.l2 \in 1..MaxBlock /\ MaxBlock \in Nat
      /\ dep \in Seq(DepType) /\ wd \in Seq(WdType) /\ lost \in Seq(LostType)
      /\ DOMAIN wd = 1..Len(wd) /\ Len(wd) \in Nat /\ wd[n] \in WdType
  BY CheckRows
<1> DEFINE row == [wd[n] EXCEPT !.l1 = head.l1 + 1]
<1>2. wd[n].l1 = 0 /\ wd' = [wd EXCEPT ![n] = row] /\ UNCHANGED <<dep, lost>> /\ NewBlock("l1")
  BY DEF Claim
<1>3. /\ DepType \subseteq DepType' /\ WdType \subseteq WdType' /\ LostType \subseteq LostType'
      /\ head'.l1 = head.l1 + 1 /\ head'.l2 = head.l2
  BY <1>2, NewBlockHead
<1>4. wd \in Seq(WdType)' /\ dep' \in Seq(DepType)' /\ lost' \in Seq(LostType)'
  BY <1>1, <1>2, <1>3, WiderSeq
<1>5. /\ row \in WdType' /\ row.token = wd[n].token /\ row.l2 = wd[n].l2 /\ row.l1 = head.l1 + 1
      /\ row.proofs = wd[n].proofs /\ row.proofs \subseteq 1..head.l1
  <2>1. row = [token |-> wd[n].token, l1 |-> head.l1 + 1, l2 |-> wd[n].l2, proofs |-> wd[n].proofs]
    BY <1>1, WdCompleted
  <2>2. /\ wd[n].token \in Token /\ wd[n].l2 \in 2..head.l2 /\ wd[n].proofs \in SUBSET (1..head.l1)
    BY <1>1 DEF WdType
  <2>3. /\ head.l1 + 1 \in 0..head'.l1 /\ wd[n].l2 \in 2..head'.l2
        /\ wd[n].proofs \in SUBSET (1..head'.l1)
    BY <1>1, <1>3, <2>2
  <2>4. row \in WdType'
    BY <2>1, <2>2, <2>3 DEF WdType
  <2> QED  BY <2>1, <2>2, <2>4
<1>6. /\ wd' \in Seq(WdType)' /\ DOMAIN wd' = DOMAIN wd /\ Len(wd') = Len(wd)
      /\ wd'[n] = row /\ \A m \in DOMAIN wd \ {n} : wd'[m] = wd[m]
  BY <1>1, <1>2, <1>4, <1>5
<1> QED  BY <1>1, <1>2, <1>4, <1>5, <1>6

(* A proof adds its block to those of the row, and nothing else. *)
LEMMA ProveRows ==
  ASSUME CheckTypeOK, NEW n \in DOMAIN wd, Prove(n)
  PROVE  /\ wd' \in Seq(WdType)' /\ DOMAIN wd' = DOMAIN wd /\ Len(wd') = Len(wd)
         /\ wd[n].l1 = 0 /\ wd'[n].l1 = 0
         /\ wd'[n].token = wd[n].token /\ wd'[n].l2 = wd[n].l2
         /\ wd[n].proofs \subseteq wd'[n].proofs
         /\ \A m \in DOMAIN wd \ {n} : wd'[m] = wd[m]
<1>1. /\ head.l1 \in 1..MaxBlock /\ head.l2 \in 1..MaxBlock /\ MaxBlock \in Nat
      /\ wd \in Seq(WdType) /\ DOMAIN wd = 1..Len(wd) /\ Len(wd) \in Nat /\ wd[n] \in WdType
  BY CheckRows
<1> DEFINE proofs == wd[n].proofs \cup {head.l1}
           row == [wd[n] EXCEPT !.proofs = proofs]
<1>2. wd[n].l1 = 0 /\ wd' = [wd EXCEPT ![n] = row] /\ head' = head
  BY DEF Prove
<1>3. row = [token |-> wd[n].token, l1 |-> wd[n].l1, l2 |-> wd[n].l2, proofs |-> proofs]
  <2> HIDE DEF proofs
  <2> QED  BY <1>1, WdProved DEF row
<1>4. proofs \in SUBSET (1..head.l1)
  BY <1>1 DEF WdType
<1>5. row \in WdType
  BY <1>1, <1>3, <1>4 DEF WdType
<1>6. /\ wd' \in Seq(WdType) /\ DOMAIN wd' = DOMAIN wd /\ Len(wd') = Len(wd)
      /\ wd'[n] = row /\ \A m \in DOMAIN wd \ {n} : wd'[m] = wd[m]
  BY <1>1, <1>2, <1>5
<1>7. wd' \in Seq(WdType)'
  BY <1>2, <1>6 DEF WdType
<1> QED  BY <1>2, <1>3, <1>6, <1>7

-----------------------------------------------------------------------------
(* The past of the chains. *)

(* The transfers that balance and supply are counted from. *)
Ins(t, b)    == {n \in DOMAIN dep : dep[n].token = t /\ dep[n].l1 <= b}
Outs(t, b)   == {n \in DOMAIN wd : wd[n].token = t /\ In(wd[n].l1, 0, b)}
Gone(t, b)   == {n \in DOMAIN lost : lost[n].token = t /\ lost[n].l1 <= b}
Minted(t, b) == {n \in DOMAIN dep : dep[n].token = t /\ In(dep[n].l2, 0, b)}
Burnt(t, b)  == {n \in DOMAIN wd : wd[n].token = t /\ wd[n].l2 <= b}

LEMMA Counted ==
  ASSUME NEW t, NEW b
  PROVE  /\ Balance(t, b) = Cardinality(Ins(t, b)) - Cardinality(Outs(t, b)) - Cardinality(Gone(t, b))
         /\ Supply(t, b) = Cardinality(Minted(t, b)) - Cardinality(Burnt(t, b))
  BY DEF Balance, Supply, Ins, Outs, Gone, Minted, Burnt

(* They are finite. *)
LEMMA CountedFinite ==
  ASSUME CheckTypeOK, NEW t, NEW b
  PROVE  /\ IsFiniteSet(DOMAIN dep) /\ IsFiniteSet(DOMAIN wd) /\ IsFiniteSet(DOMAIN lost)
         /\ IsFiniteSet(Ins(t, b)) /\ Cardinality(Ins(t, b)) \in Nat
         /\ IsFiniteSet(Outs(t, b)) /\ Cardinality(Outs(t, b)) \in Nat
         /\ IsFiniteSet(Gone(t, b)) /\ Cardinality(Gone(t, b)) \in Nat
         /\ IsFiniteSet(Minted(t, b)) /\ Cardinality(Minted(t, b)) \in Nat
         /\ IsFiniteSet(Burnt(t, b)) /\ Cardinality(Burnt(t, b)) \in Nat
<1>1. IsFiniteSet(DOMAIN dep) /\ IsFiniteSet(DOMAIN wd) /\ IsFiniteSet(DOMAIN lost)
  BY CheckRows, FS_Interval
<1>2. /\ IsFiniteSet(Ins(t, b)) /\ IsFiniteSet(Outs(t, b)) /\ IsFiniteSet(Gone(t, b))
      /\ IsFiniteSet(Minted(t, b)) /\ IsFiniteSet(Burnt(t, b))
  <2>1. Ins(t, b) \in SUBSET DOMAIN dep /\ Minted(t, b) \in SUBSET DOMAIN dep
    BY DEF Ins, Minted
  <2>2. Outs(t, b) \in SUBSET DOMAIN wd /\ Burnt(t, b) \in SUBSET DOMAIN wd
    BY DEF Outs, Burnt
  <2>3. Gone(t, b) \in SUBSET DOMAIN lost
    BY DEF Gone
  <2> QED  BY <1>1, <2>1, <2>2, <2>3, FS_Subset
<1> QED  BY <1>1, <1>2, FS_CardinalityType

LEMMA CountedInt ==
  ASSUME CheckTypeOK, NEW t, NEW b
  PROVE  Balance(t, b) \in Int /\ Supply(t, b) \in Int
  BY Counted, CountedFinite

(* A step of the chains changes nothing up to their heads. *)
LEMMA PastStays ==
  ASSUME CheckTypeOK,
         \/ \E t \in Token : Deposit(t) \/ Withdraw(t) \/ Lose(t)
         \/ \E n \in DOMAIN dep : Relay(n)
         \/ \E n \in DOMAIN wd : Claim(n),
         NEW t, NEW b \in 0..head.l1, NEW c \in 0..head.l2
  PROVE  Balance(t, b)' = Balance(t, b) /\ Supply(t, c)' = Supply(t, c)
<1>1. /\ head.l1 \in 1..MaxBlock /\ head.l2 \in 1..MaxBlock /\ MaxBlock \in Nat
      /\ \A n \in DOMAIN dep : dep[n] \in DepType
      /\ \A n \in DOMAIN wd : wd[n] \in WdType
  BY CheckRows
<1>2. /\ \A n \in DOMAIN dep : dep[n].l1 \in Nat /\ dep[n].l2 \in Nat
      /\ \A n \in DOMAIN wd : wd[n].l1 \in Nat /\ wd[n].l2 \in Nat
  BY <1>1 DEF DepType, WdType
<1>3. SUFFICES /\ Ins(t, b)' = Ins(t, b) /\ Outs(t, b)' = Outs(t, b) /\ Gone(t, b)' = Gone(t, b)
               /\ Minted(t, c)' = Minted(t, c) /\ Burnt(t, c)' = Burnt(t, c)
  BY <1>3 DEF Balance, Supply, Ins, Outs, Gone, Minted, Burnt
<1>4. CASE \E u \in Token : Deposit(u) \/ Withdraw(u) \/ Lose(u)
  <2>1. PICK u \in Token : Deposit(u) \/ Withdraw(u) \/ Lose(u)
    BY <1>4
  <2>2. /\ \A n \in DOMAIN dep : n \in DOMAIN dep' /\ dep'[n] = dep[n]
        /\ \A n \in DOMAIN wd : n \in DOMAIN wd' /\ wd'[n] = wd[n]
        /\ \A n \in DOMAIN lost : n \in DOMAIN lost' /\ lost'[n] = lost[n]
        /\ \A n \in DOMAIN dep' \ DOMAIN dep : dep'[n].l1 = head.l1 + 1 /\ dep'[n].l2 = 0
        /\ \A n \in DOMAIN wd' \ DOMAIN wd : wd'[n].l2 = head.l2 + 1 /\ wd'[n].l1 = 0
        /\ \A n \in DOMAIN lost' \ DOMAIN lost : lost'[n].l1 = head.l1 + 1
    BY <2>1, ChainRows
  <2>3. /\ \A n \in DOMAIN dep' \ DOMAIN dep : ~ (dep'[n].l1 <= b) /\ ~ In(dep'[n].l2, 0, c)
        /\ \A n \in DOMAIN wd' \ DOMAIN wd : ~ (wd'[n].l2 <= c) /\ ~ In(wd'[n].l1, 0, b)
        /\ \A n \in DOMAIN lost' \ DOMAIN lost : ~ (lost'[n].l1 <= b)
    BY <1>1, <2>2 DEF In
  <2> QED  BY <2>2, <2>3 DEF Ins, Outs, Gone, Minted, Burnt
<1>5. CASE \E n \in DOMAIN dep : Relay(n)
  <2>1. PICK n \in DOMAIN dep : Relay(n)
    BY <1>5
  <2>2. /\ DOMAIN dep' = DOMAIN dep /\ UNCHANGED <<wd, lost>>
        /\ dep[n].l2 = 0 /\ dep'[n].l2 = head.l2 + 1
        /\ dep'[n].token = dep[n].token /\ dep'[n].l1 = dep[n].l1
        /\ \A m \in DOMAIN dep \ {n} : dep'[m] = dep[m]
    BY <2>1, RelayRows
  <2>3. ~ In(dep[n].l2, 0, c) /\ ~ In(dep'[n].l2, 0, c)
    BY <1>1, <2>2 DEF In
  <2> QED  BY <2>2, <2>3 DEF Ins, Outs, Gone, Minted, Burnt
<1>6. CASE \E n \in DOMAIN wd : Claim(n)
  <2>1. PICK n \in DOMAIN wd : Claim(n)
    BY <1>6
  <2>2. /\ DOMAIN wd' = DOMAIN wd /\ UNCHANGED <<dep, lost>>
        /\ wd[n].l1 = 0 /\ wd'[n].l1 = head.l1 + 1
        /\ wd'[n].token = wd[n].token /\ wd'[n].l2 = wd[n].l2
        /\ \A m \in DOMAIN wd \ {n} : wd'[m] = wd[m]
    BY <2>1, ClaimRows
  <2>3. ~ In(wd[n].l1, 0, b) /\ ~ In(wd'[n].l1, 0, b)
    BY <1>1, <2>2 DEF In
  <2> QED  BY <2>2, <2>3 DEF Ins, Outs, Gone, Minted, Burnt
<1> QED  BY <1>4, <1>5, <1>6

-----------------------------------------------------------------------------
(* What each group of steps preserves. *)

ChainAction ==
  \/ \E t \in Token : Deposit(t) \/ Withdraw(t) \/ Lose(t)
  \/ \E n \in DOMAIN dep : Relay(n)
  \/ \E n \in DOMAIN wd : Claim(n)

IndexAction ==
  \/ \E n \in DOMAIN depRow : RecordRelay(n)
  \/ \E n \in DOMAIN wdRow : RecordProof(n) \/ RecordClaim(n)
  \/ IndexDeposit \/ IndexWithdrawal

(* The types, variable by variable. *)
LEMMA TypesFrom ==
  (/\ head \in [{"l1", "l2"} -> 1..MaxBlock]
   /\ dep \in Seq(DepType) /\ wd \in Seq(WdType)
   /\ lost \in Seq(LostType) /\ Len(lost) <= MaxLost
   /\ depRow \in DepRows /\ Len(depRow) <= Len(dep)
   /\ wdRow \in WdRows /\ Len(wdRow) <= Len(wd)
   /\ ProvedFirst /\ RowsFit
   /\ points \in Seq(PointType) /\ pass \in PassType /\ faults \in 0..MaxFaults)
  <=> CheckTypeOK
<1>1. WdType = [token : Token, l2 : 2..head.l2, proofs : SUBSET (1..head.l1), l1 : 0..head.l1]
  BY DEF WdType
<1> QED  BY <1>1
  DEF DepType, LostType, PointType, PassType, DepRows, WdRows, ProvedFirst, RowsFit, CheckTypeOK

(* What a step of the chains leaves of the types. *)
ChainKept ==
  /\ \E layer \in {"l1", "l2"} : NewBlock(layer)
  /\ dep' \in Seq(DepType)' /\ wd' \in Seq(WdType)'
  /\ lost' \in Seq(LostType)' /\ Len(lost') <= MaxLost
  /\ Len(depRow) <= Len(dep') /\ Len(wdRow) <= Len(wd')
  /\ ProvedFirst' /\ RowsFit'

LEMMA ChainRowsKept ==
  ASSUME CheckTypeOK, ChainAction
  PROVE  ChainKept
<1>1. /\ DOMAIN depRow = 1..Len(depRow) /\ Len(depRow) \in Nat /\ Len(depRow) <= Len(dep)
      /\ DOMAIN wdRow = 1..Len(wdRow) /\ Len(wdRow) \in Nat /\ Len(wdRow) <= Len(wd)
      /\ DOMAIN dep = 1..Len(dep) /\ Len(dep) \in Nat
      /\ DOMAIN wd = 1..Len(wd) /\ Len(wd) \in Nat
  BY CheckRows
<1>2. Len(lost) <= MaxLost /\ ProvedFirst /\ RowsFit
  BY CheckRows DEF CheckTypeOK
<1>3. ASSUME NEW t \in Token, Deposit(t) \/ Withdraw(t) \/ Lose(t)
      PROVE  ChainKept
  <2>1. /\ dep' \in Seq(DepType)' /\ wd' \in Seq(WdType)' /\ lost' \in Seq(LostType)'
        /\ Len(dep') >= Len(dep) /\ Len(wd') >= Len(wd) /\ Len(lost') <= MaxLost
        /\ \A n \in DOMAIN dep : dep'[n] = dep[n]
        /\ \A n \in DOMAIN wd : wd'[n] = wd[n]
        /\ \A n \in DOMAIN wd' \ DOMAIN wd : wd'[n].l1 = 0
    BY <1>3, ChainRows
  <2>2. Len(dep') \in Nat /\ Len(wd') \in Nat
    BY <2>1
  <2>3. (\E layer \in {"l1", "l2"} : NewBlock(layer)) /\ wdRow' = wdRow
    BY <1>3 DEF Deposit, Withdraw, Lose, NewBlock
  <2>4. ProvedFirst'
    BY <1>2, <2>1 DEF ProvedFirst
  <2>5. RowsFit'
    BY <1>1, <1>2, <2>1, <2>3 DEF RowsFit
  <2> QED  BY <1>1, <2>1, <2>2, <2>3, <2>4, <2>5 DEF ChainKept
<1>4. ASSUME NEW m \in DOMAIN dep, Relay(m)
      PROVE  ChainKept
  <2>1. /\ dep' \in Seq(DepType)' /\ wd' \in Seq(WdType)' /\ lost' \in Seq(LostType)'
        /\ Len(dep') = Len(dep) /\ wd' = wd /\ lost' = lost
    BY <1>4, RelayRows
  <2>2. (\E layer \in {"l1", "l2"} : NewBlock(layer)) /\ wdRow' = wdRow
    BY <1>4 DEF Relay, NewBlock
  <2>3. ProvedFirst' /\ RowsFit'
    BY <1>2, <2>1, <2>2 DEF ProvedFirst, RowsFit
  <2> QED  BY <1>1, <1>2, <2>1, <2>2, <2>3 DEF ChainKept
<1>5. ASSUME NEW m \in DOMAIN wd, Claim(m)
      PROVE  ChainKept
  <2>1. /\ dep' \in Seq(DepType)' /\ wd' \in Seq(WdType)' /\ lost' \in Seq(LostType)'
        /\ Len(wd') = Len(wd) /\ DOMAIN wd' = DOMAIN wd /\ dep' = dep /\ lost' = lost
        /\ wd[m].l1 = 0 /\ wd'[m].l1 = head.l1 + 1
        /\ wd'[m].proofs = wd[m].proofs /\ wd'[m].proofs \subseteq 1..head.l1
        /\ \A n \in DOMAIN wd \ {m} : wd'[n] = wd[n]
    BY <1>5, ClaimRows
  <2>2. (\E layer \in {"l1", "l2"} : NewBlock(layer)) /\ wdRow' = wdRow
    BY <1>5 DEF Claim, NewBlock
  <2>3. ProvedFirst'
    <3>1. head.l1 \in Nat
      BY CheckRows
    <3>2. \A b \in wd'[m].proofs : b < wd'[m].l1
      BY <2>1, <3>1
    <3> QED  BY <1>2, <2>1, <3>2 DEF ProvedFirst
  <2>4. RowsFit'
    <3>1. ASSUME NEW n \in DOMAIN wdRow, wdRow[n].claimed
          PROVE  wd'[n].l1 > 0 /\ wdRow[n].l1 \in wd'[n].proofs \cup {wd'[n].l1}
      <4>1. n \in DOMAIN wd /\ wd[n].l1 > 0 /\ wdRow[n].l1 \in wd[n].proofs \cup {wd[n].l1}
        BY <1>1, <1>2, <3>1 DEF RowsFit
      <4>2. n # m
        BY <2>1, <4>1
      <4> QED  BY <2>1, <4>1, <4>2
    <3>2. ASSUME NEW n \in DOMAIN wdRow, ~wdRow[n].claimed
          PROVE  wdRow[n].l1 \in wd'[n].proofs \cup {0}
      BY <1>1, <1>2, <2>1, <3>2 DEF RowsFit
    <3> QED  BY <2>2, <3>1, <3>2 DEF RowsFit
  <2> QED  BY <1>1, <1>2, <2>1, <2>2, <2>3, <2>4 DEF ChainKept
<1> QED  BY <1>3, <1>4, <1>5 DEF ChainAction

(* A step of the chains preserves the invariant: it leaves what a checkpoint says
   of the past, and the heights of a pass. *)
LEMMA ChainStepInv == ASSUME CheckInv, ChainAction PROVE CheckInv'
<1>1. CheckTypeOK /\ PassInv /\ DiffInv
  BY DEF CheckInv
<1>2. PICK layer \in {"l1", "l2"} : NewBlock(layer)
  BY <1>1, ChainRowsKept DEF ChainKept
<1>3. /\ head' \in [{"l1", "l2"} -> 1..MaxBlock]
      /\ points' \in Seq(PointType)' /\ pass' \in PassType'
      /\ UNCHANGED <<depRow, wdRow, points, pass, faults>>
  BY <1>1, <1>2, NewBlockHead
<1>4. /\ dep' \in Seq(DepType)' /\ wd' \in Seq(WdType)'
      /\ lost' \in Seq(LostType)' /\ Len(lost') <= MaxLost
      /\ Len(depRow) <= Len(dep') /\ Len(wdRow) <= Len(wd')
      /\ ProvedFirst' /\ RowsFit'
  BY <1>1, ChainRowsKept DEF ChainKept
<1>5. CheckTypeOK'
  <2>1. depRow' \in DepRows /\ wdRow' \in WdRows /\ faults' \in 0..MaxFaults
    BY <1>1, <1>3, CheckRows DEF CheckTypeOK
  <2>2. WdType' = [token : Token, l2 : 2..head.l2, proofs : SUBSET (1..head.l1), l1 : 0..head.l1]'
    BY DEF WdType
  <2>3. /\ wd' \in Seq([token : Token, l2 : 2..head.l2, proofs : SUBSET (1..head.l1), l1 : 0..head.l1])'
        /\ depRow' \in Seq([marked : BOOLEAN, l2 : {0}]) /\ wdRow' \in Seq([l1 : Nat, claimed : BOOLEAN])
    BY <1>4, <2>1, <2>2 DEF DepRows, WdRows
  <2> QED  BY <1>3, <1>4, <2>1, <2>3
    DEF DepType, LostType, PointType, PassType, ProvedFirst, RowsFit, CheckTypeOK
<1>6. PassInv'
  BY <1>1, <1>3 DEF PassInv
<1>7. DiffInv'
  <2>1. ASSUME NEW k \in DOMAIN points
        PROVE  points[k].diff =
                 Balance(points[k].token, points[k].l1)' - Supply(points[k].token, points[k].l2)'
    <3>1. points[k] \in PointType /\ head.l1 \in Nat /\ head.l2 \in Nat
      BY <1>1, CheckRows
    <3>2. PICK t \in Token, b \in 0..head.l1, c \in 0..head.l2 :
            t = points[k].token /\ b = points[k].l1 /\ c = points[k].l2
      BY <3>1 DEF PointType
    <3>3. Balance(t, b)' = Balance(t, b) /\ Supply(t, c)' = Supply(t, c)
      BY <1>1, PastStays DEF ChainAction
    <3>4. t = points[k].token' /\ b = points[k].l1' /\ c = points[k].l2'
      BY <1>3, <3>2
    <3>5. Balance(points[k].token, points[k].l1)' = Balance(t, b)'
      BY <3>4 DEF Balance
    <3>6. Supply(points[k].token, points[k].l2)' = Supply(t, c)'
      BY <3>4 DEF Supply
    <3>7. points[k].diff = Balance(t, b) - Supply(t, c)
      BY <1>1, <3>2 DEF DiffInv
    <3> QED  BY <3>3, <3>5, <3>6, <3>7
  <2> QED  BY <1>3, <2>1 DEF DiffInv
<1> QED  BY <1>5, <1>6, <1>7 DEF CheckInv

(* A proof preserves the invariant: it is in no balance. *)
LEMMA ProveStepInv == ASSUME CheckInv, NEW m \in DOMAIN wd, Prove(m) PROVE CheckInv'
<1>1. CheckTypeOK /\ PassInv /\ DiffInv
  BY DEF CheckInv
<1>2. UNCHANGED <<head, dep, lost, depRow, wdRow, points, pass, faults>>
  BY DEF Prove
<1>3. /\ wd' \in Seq(WdType)' /\ DOMAIN wd' = DOMAIN wd /\ Len(wd') = Len(wd)
      /\ wd[m].l1 = 0 /\ wd'[m].l1 = 0
      /\ wd'[m].token = wd[m].token /\ wd'[m].l2 = wd[m].l2
      /\ wd[m].proofs \subseteq wd'[m].proofs
      /\ \A n \in DOMAIN wd \ {m} : wd'[n] = wd[n]
  BY <1>1, ProveRows
<1>4. /\ ProvedFirst /\ RowsFit
      /\ DOMAIN wdRow = 1..Len(wdRow) /\ Len(wdRow) \in Nat /\ Len(wdRow) <= Len(wd)
      /\ DOMAIN wd = 1..Len(wd) /\ Len(wd) \in Nat
  BY <1>1, CheckRows
<1>5. ProvedFirst'
  BY <1>3, <1>4 DEF ProvedFirst
<1>6. RowsFit'
  <2>1. ASSUME NEW n \in DOMAIN wdRow, wdRow[n].claimed
        PROVE  wd'[n].l1 > 0 /\ wdRow[n].l1 \in wd'[n].proofs \cup {wd'[n].l1}
    <3>1. n \in DOMAIN wd /\ wd[n].l1 > 0 /\ wdRow[n].l1 \in wd[n].proofs \cup {wd[n].l1}
      BY <1>4, <2>1 DEF RowsFit
    <3>2. n # m
      BY <1>3, <3>1
    <3> QED  BY <1>3, <3>1, <3>2
  <2>2. ASSUME NEW n \in DOMAIN wdRow, ~wdRow[n].claimed
        PROVE  wdRow[n].l1 \in wd'[n].proofs \cup {0}
    <3>1. n \in DOMAIN wd /\ wdRow[n].l1 \in wd[n].proofs \cup {0}
      BY <1>4, <2>2 DEF RowsFit
    <3>2. wd[n].proofs \subseteq wd'[n].proofs
      BY <1>3, <3>1
    <3> QED  BY <3>1, <3>2
  <2> QED  BY <1>2, <2>1, <2>2 DEF RowsFit
<1>7. CheckTypeOK'
  <2>1. WdType' = [token : Token, l2 : 2..head.l2, proofs : SUBSET (1..head.l1), l1 : 0..head.l1]'
    BY DEF WdType
  <2>2. wd' \in Seq([token : Token, l2 : 2..head.l2, proofs : SUBSET (1..head.l1), l1 : 0..head.l1])'
    BY <1>3, <2>1
  <2> QED  BY <1>1, <1>2, <1>3, <1>5, <1>6, <2>2 DEF ProvedFirst, RowsFit, CheckTypeOK
<1>8. PassInv'
  BY <1>1, <1>2 DEF PassInv
<1>9. \A u, b : Outs(u, b)' = Outs(u, b) /\ Burnt(u, b)' = Burnt(u, b)
  <2>1. \A n \in DOMAIN wd : wd'[n].token = wd[n].token /\ wd'[n].l1 = wd[n].l1 /\ wd'[n].l2 = wd[n].l2
    BY <1>3
  <2> TAKE u, b
  <2> QED  BY <1>3, <2>1 DEF Outs, Burnt
<1>10. \A u, b : Balance(u, b)' = Balance(u, b) /\ Supply(u, b)' = Supply(u, b)
  <2> TAKE u, b
  <2>1. Ins(u, b)' = Ins(u, b) /\ Gone(u, b)' = Gone(u, b) /\ Minted(u, b)' = Minted(u, b)
    BY <1>2 DEF Ins, Gone, Minted
  <2>2. Outs(u, b)' = Outs(u, b) /\ Burnt(u, b)' = Burnt(u, b)
    BY <1>9
  <2> QED  BY <2>1, <2>2 DEF Balance, Supply, Ins, Outs, Gone, Minted, Burnt
<1>11. DiffInv'
  BY <1>1, <1>2, <1>10 DEF DiffInv
<1> QED  BY <1>7, <1>8, <1>11 DEF CheckInv

(* The relay of any deposit marks a row, and records no block in it. *)
LEMMA DepRowsKept ==
  ASSUME CheckTypeOK, IndexDeposit \/ \E m \in DOMAIN depRow : RecordRelay(m)
  PROVE  depRow' \in DepRows /\ Len(depRow') <= Len(dep)
<1>1. depRow \in DepRows /\ Len(depRow) <= Len(dep) /\ Len(dep) \in Nat
  BY CheckRows
<1> DEFINE Row == [marked : BOOLEAN, l2 : {0}]
<1>2. CASE IndexDeposit
  <2> DEFINE row == [marked |-> FALSE, l2 |-> 0]
  <2>1. depRow' = Append(depRow, row) /\ Len(depRow) < Len(dep) /\ row \in Row
    BY <1>2 DEF IndexDeposit
  <2> HIDE DEF row, Row
  <2>2. depRow \in Seq(Row)
    BY <1>1 DEF DepRows, Row
  <2>3. depRow' \in Seq(Row) /\ Len(depRow') = Len(depRow) + 1 /\ Len(depRow) \in Nat
    BY <2>1, <2>2
  <2> QED  BY <1>1, <2>1, <2>3 DEF DepRows, Row
<1>3. ASSUME NEW m \in DOMAIN depRow, RecordRelay(m)
      PROVE  depRow' \in DepRows /\ Len(depRow') <= Len(dep)
  <2> DEFINE row == [marked |-> TRUE, l2 |-> 0]
  <2>1. depRow' = [depRow EXCEPT ![m] = row] /\ row \in Row
    BY <1>3 DEF RecordRelay
  <2> HIDE DEF row, Row
  <2>2. depRow \in Seq(Row)
    BY <1>1 DEF DepRows, Row
  <2>3. depRow' \in Seq(Row) /\ Len(depRow') = Len(depRow)
    BY <1>3, <2>1, <2>2
  <2> QED  BY <1>1, <2>3 DEF DepRows, Row
<1> QED  BY <1>2, <1>3

(* A row of a withdrawal takes the block of one of its proofs or of its claim. *)
LEMMA WdRowsKept ==
  ASSUME CheckTypeOK, \/ IndexWithdrawal
                      \/ \E m \in DOMAIN wdRow : RecordProof(m) \/ RecordClaim(m)
  PROVE  wdRow' \in WdRows /\ Len(wdRow') <= Len(wd) /\ RowsFit'
<1>1. /\ wdRow \in WdRows /\ Len(wdRow) <= Len(wd) /\ Len(wd) \in Nat /\ RowsFit
      /\ DOMAIN wdRow = 1..Len(wdRow) /\ Len(wdRow) \in Nat /\ DOMAIN wd = 1..Len(wd)
      /\ head.l1 \in Nat /\ head.l2 \in Nat /\ \A n \in DOMAIN wd : wd[n] \in WdType
  BY CheckRows
<1>2. wd' = wd
  BY DEF IndexWithdrawal, RecordProof, RecordClaim, chainVars
<1>3. \A n \in DOMAIN wd : wd[n].l1 \in Nat /\ wd[n].proofs \subseteq Nat
  BY <1>1 DEF WdType
<1> DEFINE Row == [l1 : Nat, claimed : BOOLEAN]
           Fits(n, x) == /\ x.claimed => wd[n].l1 > 0 /\ x.l1 \in wd[n].proofs \cup {wd[n].l1}
                         /\ ~x.claimed => x.l1 \in wd[n].proofs \cup {0}
<1>4. wdRow \in Seq(Row) /\ \A n \in DOMAIN wdRow : Fits(n, wdRow[n])
  BY <1>1 DEF WdRows, RowsFit
<1>5. ASSUME wdRow' \in Seq(Row), Len(wdRow') <= Len(wd), \A n \in DOMAIN wdRow' : Fits(n, wdRow'[n])
      PROVE  wdRow' \in WdRows /\ Len(wdRow') <= Len(wd) /\ RowsFit'
  BY <1>2, <1>5 DEF WdRows, RowsFit
<1>6. CASE IndexWithdrawal
  <2> DEFINE row == [l1 |-> 0, claimed |-> FALSE]
  <2>1. wdRow' = Append(wdRow, row) /\ Len(wdRow) < Len(wd)
    BY <1>6 DEF IndexWithdrawal
  <2>2. row \in Row /\ Fits(Len(wdRow) + 1, row)
    OBVIOUS
  <2> HIDE DEF row, Row, Fits
  <2>3. /\ wdRow' \in Seq(Row) /\ Len(wdRow') = Len(wdRow) + 1
        /\ \A n \in 1..Len(wdRow) : wdRow'[n] = wdRow[n]
        /\ wdRow'[Len(wdRow) + 1] = row
    BY <1>1, <1>4, <2>1, <2>2
  <2>4. \A n \in DOMAIN wdRow' : n \in DOMAIN wdRow \/ n = Len(wdRow) + 1
    BY <1>1, <2>3
  <2>5. \A n \in DOMAIN wdRow' : Fits(n, wdRow'[n])
    BY <1>1, <1>4, <2>2, <2>3, <2>4
  <2> QED  BY <1>1, <1>5, <2>1, <2>3, <2>5
<1>7. ASSUME NEW m \in DOMAIN wdRow, NEW x \in Row, Fits(m, x), wdRow' = [wdRow EXCEPT ![m] = x]
      PROVE  wdRow' \in WdRows /\ Len(wdRow') <= Len(wd) /\ RowsFit'
  <2> HIDE DEF Row, Fits
  <2>1. /\ wdRow' \in Seq(Row) /\ Len(wdRow') = Len(wdRow) /\ DOMAIN wdRow' = DOMAIN wdRow
        /\ wdRow'[m] = x /\ \A n \in DOMAIN wdRow \ {m} : wdRow'[n] = wdRow[n]
    BY <1>1, <1>4, <1>7
  <2>2. \A n \in DOMAIN wdRow' : Fits(n, wdRow'[n])
    BY <1>4, <1>7, <2>1
  <2> QED  BY <1>1, <1>5, <2>1, <2>2
<1>8. ASSUME NEW m \in DOMAIN wdRow, RecordProof(m)
      PROVE  wdRow' \in WdRows /\ Len(wdRow') <= Len(wd) /\ RowsFit'
  <2>1. PICK b \in wd[m].proofs : wdRow' = [wdRow EXCEPT ![m].l1 = b]
    BY <1>8 DEF RecordProof
  <2> DEFINE x == [l1 |-> b, claimed |-> wdRow[m].claimed]
  <2>2. wdRow[m] \in Row /\ b \in Nat /\ m \in DOMAIN wd /\ Fits(m, wdRow[m])
    <3>1. m \in DOMAIN wd
      BY <1>1, <1>8
    <3>2. b \in Nat
      BY <1>3, <2>1, <3>1
    <3>3. wdRow[m] \in Row /\ Fits(m, wdRow[m])
      <4> HIDE DEF Row, Fits
      <4> QED  BY <1>1, <1>4, <1>8
    <3> QED  BY <3>1, <3>2, <3>3
  <2>3. x \in Row /\ [wdRow[m] EXCEPT !.l1 = b] = x
    BY <2>2
  <2>4. Fits(m, x)
    BY <2>1, <2>2
  <2>5. wdRow' = [wdRow EXCEPT ![m] = x]
    BY <2>1, <2>3
  <2> QED  BY <1>7, <2>3, <2>4, <2>5
<1>9. ASSUME NEW m \in DOMAIN wdRow, RecordClaim(m)
      PROVE  wdRow' \in WdRows /\ Len(wdRow') <= Len(wd) /\ RowsFit'
  <2> DEFINE x == [l1 |-> wd[m].l1, claimed |-> TRUE]
  <2>1. wd[m].l1 > 0 /\ wdRow' = [wdRow EXCEPT ![m] = x] /\ m \in DOMAIN wd
    BY <1>1, <1>9 DEF RecordClaim
  <2>2. x \in Row /\ Fits(m, x)
    BY <1>3, <2>1
  <2> QED  BY <1>7, <2>1, <2>2
<1> QED  BY <1>6, <1>8, <1>9

(* Rows that are stored or completed leave the chains and the pass alone. *)
LEMMA IndexStepInv == ASSUME CheckInv, IndexAction PROVE CheckInv'
<1>1. CheckTypeOK /\ PassInv /\ DiffInv
  BY DEF CheckInv
<1>2. UNCHANGED <<chainVars, points, pass, faults>>
  BY DEF IndexAction, RecordRelay, RecordProof, RecordClaim, IndexDeposit, IndexWithdrawal
<1>3. /\ depRow \in DepRows /\ Len(depRow) <= Len(dep)
      /\ wdRow \in WdRows /\ Len(wdRow) <= Len(wd) /\ ProvedFirst /\ RowsFit
  BY <1>1, CheckRows
<1>4. depRow' \in DepRows /\ Len(depRow') <= Len(dep)
  <2>1. CASE IndexDeposit \/ \E m \in DOMAIN depRow : RecordRelay(m)
    BY <1>1, <2>1, DepRowsKept
  <2>2. CASE depRow' = depRow
    BY <1>3, <2>2
  <2> QED  BY <2>1, <2>2 DEF IndexAction, RecordProof, RecordClaim, IndexWithdrawal
<1>5. wdRow' \in WdRows /\ Len(wdRow') <= Len(wd) /\ RowsFit'
  <2>1. CASE IndexWithdrawal \/ \E m \in DOMAIN wdRow : RecordProof(m) \/ RecordClaim(m)
    BY <1>1, <2>1, WdRowsKept
  <2>2. CASE wdRow' = wdRow
    BY <1>2, <1>3, <2>2 DEF RowsFit, chainVars
  <2> QED  BY <2>1, <2>2 DEF IndexAction, RecordRelay, IndexDeposit
<1>6. CheckTypeOK'
  <2>1. ProvedFirst'
    BY <1>2, <1>3 DEF ProvedFirst, chainVars
  <2> QED  BY <1>1, <1>2, <1>4, <1>5, <2>1
    DEF DepRows, WdRows, ProvedFirst, RowsFit, CheckTypeOK, chainVars
<1>7. PassInv' /\ DiffInv'
  BY <1>1, <1>2 DEF PassInv, DiffInv, Balance, Supply, chainVars
<1> QED  BY <1>6, <1>7 DEF CheckInv

-----------------------------------------------------------------------------
(* The last checkpoint of a token. *)

(* A set of numbers with a bound has a greatest. *)
LEMMA MaxExists ==
  ASSUME NEW n \in Nat, NEW S \in SUBSET (1..n), S # {}
  PROVE  \E k \in S : \A j \in S : j <= k
<1> DEFINE R == OpToRel(<, Nat)
           T == {n - k : k \in S}
<1>1. IsWellFoundedOn(R, Nat)
  BY NatLessThanWellFounded
<1>2. /\ T \subseteq Nat /\ T # {}
      /\ \A k \in S : n - k \in T
  <2>1. \A k \in S : n - k \in Nat
    OBVIOUS
  <2> QED  BY <2>1, Zenon
<1>3. PICK x \in T : \A y \in T : <<y, x>> \notin R
  <2> HIDE DEF R, T
  <2> QED  BY <1>1, <1>2, WFMin
<1>4. \A y \in T : ~ (y < x)
  <2>1. ASSUME NEW y \in T, y < x PROVE <<y, x>> \in R
    BY <1>2, <2>1 DEF OpToRel
  <2> QED  BY <1>3, <2>1
<1>5. PICK k \in S : x = n - k
  BY Zenon
<1>6. ASSUME NEW j \in S PROVE j <= k
  <2>1. n - j \in Nat /\ n - k \in Nat /\ n - j \in T
    BY <1>2, Zenon
  <2> HIDE DEF T
  <2>2. ~ (n - j < n - k)
    BY <1>4, <1>5, <2>1
  <2> QED  BY <2>1, <2>2
<1> QED  BY <1>6

(* It is one of the checkpoints that were known. *)
LEMMA LastPoint ==
  ASSUME CheckTypeOK, NEW t, NEW n \in 0..Len(points), Of(t, n) # {}
  PROVE  \E k \in DOMAIN points : points[k].token = t /\ Last(t, n) = points[k]
<1>1. DOMAIN points = 1..Len(points) /\ Len(points) \in Nat
  BY CheckRows
<1>2. Of(t, n) \in SUBSET (1..n) /\ n \in Nat
  BY <1>1 DEF Of
<1>3. \E k \in Of(t, n) : \A j \in Of(t, n) : j <= k
  BY <1>2, MaxExists
<1> DEFINE k == CHOOSE k \in Of(t, n) : \A j \in Of(t, n) : j <= k
<1>4. k \in Of(t, n)
  BY <1>3
<1>5. k \in DOMAIN points /\ points[k].token = t
  BY <1>1, <1>4 DEF Of
<1> QED  BY <1>5 DEF Last

(* A token of a pass is a configured one. *)
LEMMA PassToken ==
  ASSUME CheckTypeOK, pass.i > 0
  PROVE  Tokens[pass.i] \in Token /\ pass.i \in 1..Len(Tokens)
<1>1. pass.i \in 0..Len(Tokens) /\ Len(Tokens) \in Nat /\ DOMAIN Tokens = 1..Len(Tokens)
  BY BridgeCheckAssumption, CheckRows DEF PassType
<1> QED  BY <1>1 DEF Token, Range

-----------------------------------------------------------------------------
(* The steps of a pass. *)

PassAction == Check \/ StartBlind \/ CompareUnread \/ Fail

(* What a comparison stores. *)
Verdict(t, p, known, failed) ==
  known = 0 \/ p.diff \in {Difference(t), Adjusted(t, p, failed)}

LEMMA CompareStores ==
  ASSUME CheckInv, NEW failed, CompareWithout(failed)
  PROVE  LET t == Tokens[pass.i]
             point == [token |-> t, l1 |-> pass.l1, l2 |-> pass.l2, diff |-> Difference(t),
                       checked |-> Verdict(t, Last(t, pass.known), pass.known, failed)]
         IN  /\ point \in PointType
             /\ \/ points' = points
                \/ points' = Append(points, point) /\ (pass.known > 0 => Of(t, pass.known) # {})
             /\ pass' \in PassType' /\ pass'.l1 = 0 /\ UNCHANGED <<chainVars, depRow, wdRow>>
<1> DEFINE t == Tokens[pass.i]
           verdict == Verdict(t, Last(t, pass.known), pass.known, failed)
           point == [token |-> t, l1 |-> pass.l1, l2 |-> pass.l2, diff |-> Difference(t),
                     checked |-> verdict]
<1>1. CheckTypeOK /\ PassInv
  BY DEF CheckInv
<1>2. pass.i > 0 /\ pass.l1 > 0 /\ pass.l2 > 0 /\ UNCHANGED <<chainVars, depRow, wdRow>>
  BY <1>1 DEF CompareWithout, PassInv
<1>3. t \in Token /\ pass.i \in 1..Len(Tokens)
  BY <1>1, <1>2, PassToken
<1>4. pass \in PassType /\ head.l1 \in Nat /\ head.l2 \in Nat /\ points \in Seq(PointType)
  BY <1>1, CheckRows
<1>5. pass.l1 \in 1..head.l1 /\ pass.l2 \in 1..head.l2 /\ pass.known \in 0..Len(points)
  BY <1>2, <1>4 DEF PassType
<1>6. Difference(t) \in Int
  BY <1>1, CountedInt DEF Difference
<1>7. verdict \in BOOLEAN
  BY DEF Verdict
<1>8. point \in PointType
  BY <1>3, <1>5, <1>6, <1>7 DEF PointType
<1>9. \/ points' = points
      \/ points' = Append(points, point) /\ (pass.known > 0 => Of(t, pass.known) # {})
  BY <1>5 DEF CompareWithout, Known, Verdict
<1>10. pass' \in PassType' /\ pass'.l1 = 0
  <2>1. Len(points') \in Nat /\ Len(points) <= Len(points') /\ Len(points) \in Nat
    BY <1>4, <1>8, <1>9
  <2>2. head' = head
    BY <1>2 DEF chainVars
  <2>3. CASE pass.i = Len(Tokens)
    BY <1>2, <1>3, <1>4, <2>1, <2>2, <2>3 DEF CompareWithout, Idle, PassType
  <2>4. CASE pass.i # Len(Tokens)
    <3>1. pass' = [pass EXCEPT !.i = pass.i + 1, !.l1 = 0, !.l2 = 0]
      BY <2>4 DEF CompareWithout
    <3>2. pass.i + 1 \in 0..Len(Tokens)
      BY <1>3, <2>4, BridgeCheckAssumption
    <3>3. pass' = [i |-> pass.i + 1, known |-> pass.known, l1 |-> 0, l2 |-> 0]
      BY <1>4, <3>1 DEF PassType
    <3> QED  BY <1>4, <1>5, <2>1, <2>2, <3>2, <3>3 DEF PassType
  <2> QED  BY <2>3, <2>4
<1> QED  BY <1>2, <1>8, <1>9, <1>10

(* A comparison preserves the invariant: the new checkpoint holds the difference of
   the chains at the heights of the pass. *)
LEMMA CompareInv ==
  ASSUME CheckInv, NEW failed, CompareWithout(failed), faults' \in 0..MaxFaults
  PROVE  CheckInv'
<1> DEFINE t == Tokens[pass.i]
           point == [token |-> t, l1 |-> pass.l1, l2 |-> pass.l2, diff |-> Difference(t),
                     checked |-> Verdict(t, Last(t, pass.known), pass.known, failed)]
<1>1. CheckTypeOK /\ PassInv /\ DiffInv
  BY DEF CheckInv
<1>2. /\ point \in PointType
      /\ points' = points \/ points' = Append(points, point)
      /\ pass' \in PassType' /\ pass'.l1 = 0 /\ UNCHANGED <<chainVars, depRow, wdRow>>
  BY CompareStores
<1>3. points \in Seq(PointType) /\ DOMAIN points = 1..Len(points) /\ Len(points) \in Nat
  BY <1>1, CheckRows
<1>4. /\ points' \in Seq(PointType)
      /\ \A k \in DOMAIN points' : (k \in DOMAIN points /\ points'[k] = points[k]) \/ points'[k] = point
  <2>1. CASE points' = points
    BY <1>3, <2>1
  <2>2. CASE points' = Append(points, point)
    <3> HIDE DEF point
    <3>1. points' \in Seq(PointType) /\ Len(points') = Len(points) + 1
      BY <1>2, <1>3, <2>2
    <3>2. DOMAIN points' = 1..(Len(points) + 1)
      BY <3>1
    <3> QED  BY <1>3, <2>2, <3>1, <3>2
  <2> QED  BY <1>2, <2>1, <2>2
<1>5. CheckTypeOK'
  <2>1. points' \in Seq(PointType)'
    BY <1>2, <1>4 DEF PointType, chainVars
  <2> QED  BY <1>1, <1>2, <2>1 DEF CheckTypeOK, PointType, PassType, chainVars
<1>6. PassInv'
  BY <1>2 DEF PassInv
<1>7. DiffInv'
  <2>1. \A u, b : Balance(u, b)' = Balance(u, b) /\ Supply(u, b)' = Supply(u, b)
    BY <1>2 DEF Balance, Supply, chainVars
  <2>2. point.diff = Balance(point.token, point.l1) - Supply(point.token, point.l2)
    BY DEF Difference
  <2>3. ASSUME NEW k \in DOMAIN points'
        PROVE  points'[k].diff =
                 Balance(points'[k].token, points'[k].l1) - Supply(points'[k].token, points'[k].l2)
    <3> HIDE DEF point
    <3> QED  BY <1>1, <1>4, <2>2, <2>3 DEF DiffInv
  <2> QED  BY <1>2, <2>3 DEF DiffInv, Balance, Supply, chainVars
<1> QED  BY <1>5, <1>6, <1>7 DEF CheckInv

(* Every step of a pass preserves the invariant. *)
LEMMA PassStepInv == ASSUME CheckInv, PassAction PROVE CheckInv'
<1>1. CheckTypeOK /\ PassInv /\ DiffInv
  BY DEF CheckInv
<1>2. /\ pass \in PassType /\ points \in Seq(PointType)
      /\ Len(points) \in Nat /\ DOMAIN points = 1..Len(points)
      /\ head.l1 \in 1..MaxBlock /\ head.l2 \in 1..MaxBlock
      /\ \A k \in DOMAIN points : points[k] \in PointType
  BY <1>1, CheckRows
<1>3. faults \in 0..MaxFaults /\ MaxFaults \in Nat /\ Len(Tokens) \in Nat /\ Len(Tokens) > 0
  <2>1. faults \in 0..MaxFaults
    BY <1>1 DEF CheckTypeOK
  <2>2. Tokens \in Seq(Range(Tokens)) /\ Tokens # <<>>
    BY BridgeCheckAssumption
  <2>3. Len(Tokens) \in Nat /\ Len(Tokens) > 0
    BY <2>2
  <2> QED  BY <2>1, <2>3, BridgeCheckAssumption
<1>4. ASSUME pass' \in PassType, pass'.l1 = 0, faults' \in 0..MaxFaults,
             UNCHANGED <<chainVars, depRow, wdRow, points>>
      PROVE  CheckInv'
  <2>1. CheckTypeOK'
    BY <1>1, <1>4 DEF CheckTypeOK, PassType, chainVars
  <2>2. PassInv'
    BY <1>4 DEF PassInv
  <2>3. DiffInv'
    BY <1>1, <1>4 DEF DiffInv, Balance, Supply, chainVars
  <2> QED  BY <2>1, <2>2, <2>3 DEF CheckInv
<1>5. CASE StartPass
  <2>1. pass' = [i |-> 1, known |-> Len(points), l1 |-> 0, l2 |-> 0]
    BY <1>5 DEF StartPass, Idle
  <2>2. pass' \in PassType /\ pass'.l1 = 0
    BY <1>2, <1>3, <2>1 DEF PassType
  <2> QED  BY <1>3, <1>4, <1>5, <2>2 DEF StartPass
<1>6. CASE StartBlind
  <2>1. pass' = [i |-> 1, known |-> 0, l1 |-> 0, l2 |-> 0]
    BY <1>6 DEF StartBlind, Idle
  <2>2. pass' \in PassType /\ pass'.l1 = 0
    BY <1>2, <1>3, <2>1 DEF PassType
  <2>3. faults' \in 0..MaxFaults
    BY <1>3, <1>6 DEF StartBlind
  <2> QED  BY <1>4, <1>6, <2>2, <2>3 DEF StartBlind
<1>7. CASE ReadHeads
  <2>1. /\ pass' = [pass EXCEPT !.l1 = head.l1, !.l2 = head.l2] /\ pass.i > 0
        /\ UNCHANGED <<chainVars, depRow, wdRow, points, faults>>
    BY <1>7 DEF ReadHeads
  <2>2. pass' = [i |-> pass.i, known |-> pass.known, l1 |-> head.l1, l2 |-> head.l2]
    BY <1>2, <2>1 DEF PassType
  <2>3. CheckTypeOK'
    BY <1>1, <1>2, <2>1, <2>2 DEF CheckTypeOK, PassType, chainVars
  <2>4. \A k \in DOMAIN points : points[k].l1 <= head.l1 /\ points[k].l2 <= head.l2
    BY <1>2 DEF PointType
  <2>5. PassInv'
    BY <1>2, <2>1, <2>2, <2>4 DEF PassInv
  <2>6. DiffInv'
    BY <1>1, <2>1 DEF DiffInv, Balance, Supply, chainVars
  <2> QED  BY <2>3, <2>5, <2>6 DEF CheckInv
<1>8. CASE Compare
  BY <1>3, <1>8, CompareInv DEF Compare
<1>9. CASE CompareUnread
  <2>1. faults' \in 0..MaxFaults
    BY <1>3, <1>9 DEF CompareUnread
  <2>2. PICK query \in Query : CompareWithout({query})
    BY <1>9 DEF CompareUnread
  <2> QED  BY <2>1, <2>2, CompareInv
<1>10. CASE Fail
  <2>1. faults' \in 0..MaxFaults
    BY <1>3, <1>10 DEF Fail
  <2>2. pass' \in PassType /\ pass'.l1 = 0
    BY <1>2, <1>3, <1>10 DEF Fail, Idle, PassType
  <2> QED  BY <1>4, <1>10, <2>1, <2>2 DEF Fail
<1> QED  BY <1>5, <1>6, <1>7, <1>8, <1>9, <1>10 DEF PassAction, Check

(* Every step preserves the invariant. *)
LEMMA CheckStepInv == CheckInv /\ [CheckNext]_checkVars => CheckInv'
<1> SUFFICES ASSUME CheckInv, [CheckNext]_checkVars PROVE CheckInv'
  OBVIOUS
<1>1. CASE ChainAction
  BY <1>1, ChainStepInv
<1>2. CASE \E n \in DOMAIN wd : Prove(n)
  BY <1>2, ProveStepInv
<1>3. CASE IndexAction
  BY <1>3, IndexStepInv
<1>4. CASE PassAction
  BY <1>4, PassStepInv
<1>5. CASE UNCHANGED checkVars
  BY <1>5 DEF CheckInv, CheckTypeOK, PassInv, DiffInv, Balance, Supply, checkVars, chainVars
<1> QED  BY <1>1, <1>2, <1>3, <1>4, <1>5 DEF CheckNext, ChainAction, IndexAction, PassAction

(* The inductive invariant holds throughout. *)
THEOREM CheckInvariant == CheckSpec => []CheckInv
<1>1. CheckInit => CheckInv
  <2> SUFFICES ASSUME CheckInit PROVE CheckInv
    OBVIOUS
  <2>1. MaxBlock \in Nat \ {0} /\ MaxFaults \in Nat /\ MaxLost \in Nat /\ Len(Tokens) \in Nat
    BY BridgeCheckAssumption
  <2>2. PassInv /\ DiffInv
    BY DEF CheckInit, Idle, PassInv, DiffInv
  <2>3. /\ dep \in Seq(DepType) /\ wd \in Seq(WdType) /\ lost \in Seq(LostType)
        /\ points \in Seq(PointType) /\ Len(points) = 0 /\ Len(lost) = 0
        /\ depRow \in DepRows /\ wdRow \in WdRows /\ ProvedFirst /\ RowsFit
        /\ Len(depRow) <= Len(dep) /\ Len(wdRow) <= Len(wd)
    BY DEF CheckInit, DepRows, WdRows, ProvedFirst, RowsFit
  <2>4. head = [l1 |-> 1, l2 |-> 1] /\ pass = Idle /\ faults = 0
    BY DEF CheckInit
  <2>5. head \in [{"l1", "l2"} -> 1..MaxBlock]
    BY <2>1, <2>4
  <2>6. pass \in PassType
    BY <2>1, <2>3, <2>4 DEF Idle, PassType
  <2>7. CheckTypeOK
    BY <2>1, <2>3, <2>4, <2>5, <2>6, TypesFrom
  <2> QED  BY <2>2, <2>7 DEF CheckInv
<1>2. CheckInv /\ [CheckNext]_checkVars => CheckInv'
  BY CheckStepInv
<1> QED  BY <1>1, <1>2, PTL DEF CheckSpec

(* Type correctness: rows are those of the chains, a pass knows only checkpoints that
   are there and blocks that the chains have. *)
THEOREM CheckTypeCorrect == CheckSpec => []CheckTypeOK
<1>1. CheckInv => CheckTypeOK
  BY DEF CheckInv
<1> QED  BY <1>1, CheckInvariant, PTL

-----------------------------------------------------------------------------
(* The verdicts. *)

(* The sizes of two sets without a common element add up. *)
LEMMA DisjointSize ==
  ASSUME NEW A, NEW B, IsFiniteSet(A), IsFiniteSet(B), A \cap B = {}
  PROVE  Cardinality(A \cup B) = Cardinality(A) + Cardinality(B)
         /\ Cardinality(A) \in Nat /\ Cardinality(B) \in Nat
<1>1. Cardinality(A \cup B) = Cardinality(A) + Cardinality(B) - Cardinality(A \cap B)
  BY FS_Union
<1>2. Cardinality(A \cap B) = 0
  BY FS_EmptySet
<1> QED  BY <1>1, <1>2, FS_CardinalityType

(* A step that compares t with checkpoint p: what p says, where the heights are, and
   what is stored. *)
LEMMA ComparedFacts ==
  ASSUME CheckInv, [CheckNext]_checkVars, NEW t \in Token, NEW p, Compared(t, p)
  PROVE  /\ p.l1 \in Nat /\ p.l2 \in Nat /\ p.l1 > 0 /\ p.l2 > 0
         /\ pass.l1 \in Nat /\ pass.l2 \in Nat
         /\ p.l1 <= pass.l1 /\ p.l2 <= pass.l2
         /\ p.diff = Balance(t, p.l1) - Supply(t, p.l2)
         /\ \E failed : /\ faults' = faults => failed = {}
                        /\ Newest.checked = (p.diff \in {Difference(t), Adjusted(t, p, failed)})
<1>1. CheckTypeOK /\ PassInv /\ DiffInv
  BY DEF CheckInv
<1>2. points' # points /\ pass.known > 0 /\ t = Tokens[pass.i] /\ p = Last(t, pass.known)
  BY DEF Compared
<1>3. PICK failed : CompareWithout(failed) /\ (faults' = faults => failed = {})
  <2>1. Compare \/ CompareUnread
    BY <1>2 DEF CheckNext, checkVars, Deposit, Withdraw, Lose, Relay, Prove, Claim, NewBlock, RecordRelay,
         RecordProof, RecordClaim, IndexDeposit, IndexWithdrawal, Check, StartPass, ReadHeads, StartBlind, Fail
  <2>2. CASE Compare
    BY <2>2 DEF Compare
  <2>3. CASE CompareUnread
    <3>1. faults \in Nat /\ faults' = faults + 1
      BY <1>1, <2>3, BridgeCheckAssumption DEF CheckTypeOK, CompareUnread
    <3> QED  BY <2>3, <3>1 DEF CompareUnread
  <2> QED  BY <2>1, <2>2, <2>3
<1>4. pass.l1 > 0 /\ pass.l2 > 0
  BY <1>1, <1>3 DEF CompareWithout, PassInv
<1>5. /\ pass \in PassType /\ points \in Seq(PointType)
      /\ DOMAIN points = 1..Len(points) /\ Len(points) \in Nat
      /\ head.l1 \in Nat /\ head.l2 \in Nat
      /\ \A k \in DOMAIN points : points[k] \in PointType
  BY <1>1, CheckRows
<1>6. pass.known \in 0..Len(points) /\ pass.l1 \in Nat /\ pass.l2 \in Nat
  BY <1>5 DEF PassType
<1> DEFINE point == [token |-> t, l1 |-> pass.l1, l2 |-> pass.l2, diff |-> Difference(t),
                     checked |-> Verdict(t, p, pass.known, failed)]
<1>7. point \in PointType /\ points' = Append(points, point) /\ Of(t, pass.known) # {}
  BY <1>2, <1>3, CompareStores
<1>8. PICK k \in DOMAIN points : points[k].token = t /\ p = points[k]
  BY <1>1, <1>2, <1>6, <1>7, LastPoint
<1>9. p.l1 \in Nat /\ p.l2 \in Nat /\ p.l1 > 0 /\ p.l2 > 0
  BY <1>5, <1>8 DEF PointType
<1>10. p.l1 <= pass.l1 /\ p.l2 <= pass.l2
  BY <1>1, <1>4, <1>8 DEF PassInv
<1>11. p.diff = Balance(t, p.l1) - Supply(t, p.l2)
  BY <1>1, <1>8 DEF DiffInv
<1>12. Newest = point
  <2> HIDE DEF point
  <2>1. Len(points') = Len(points) + 1 /\ points'[Len(points) + 1] = point
    BY <1>5, <1>7
  <2> QED  BY <2>1 DEF Newest
<1>13. Newest.checked = (p.diff \in {Difference(t), Adjusted(t, p, failed)})
  BY <1>2, <1>6, <1>12 DEF Verdict
<1> QED  BY <1>3, <1>6, <1>9, <1>10, <1>11, <1>13

(* Deposits that have both their ends or none at p and at the heights of the pass
   cancel out, and the queries for them have no rows. *)
LEMMA SettledDeposits ==
  ASSUME CheckTypeOK, NEW t, NEW p, p.l1 \in Nat, p.l2 \in Nat, p.l1 > 0, p.l2 > 0,
         pass.l1 \in Nat, pass.l2 \in Nat, p.l1 <= pass.l1, p.l2 <= pass.l2,
         DepositsSettled(t, p)
  PROVE  /\ Ins(t, p.l1) = Minted(t, p.l2) /\ Ins(t, pass.l1) = Minted(t, pass.l2)
         /\ Unrelayed(t, p) = {} /\ Relayed(t, p) = {}
<1>1. /\ DOMAIN depRow = 1..Len(depRow) /\ Len(depRow) \in Nat /\ Len(depRow) <= Len(dep)
      /\ DOMAIN dep = 1..Len(dep) /\ Len(dep) \in Nat
      /\ \A n \in DOMAIN dep : dep[n] \in DepType
      /\ head.l1 \in Nat /\ head.l2 \in Nat
  BY CheckRows
<1>2. \A n \in DOMAIN dep : dep[n].l1 \in Nat /\ dep[n].l2 \in Nat
  BY <1>1 DEF DepType
<1>3. \A n \in DOMAIN depRow : n \in DOMAIN dep
  BY <1>1
<1>4. \A n \in DOMAIN depRow : depRow[n].l2 = 0
  <2> DEFINE Row == [marked : BOOLEAN, l2 : {0}]
  <2>1. depRow \in Seq(Row)
    BY DEF CheckTypeOK
  <2>2. \A n \in DOMAIN depRow : depRow[n] \in Row
    <3> HIDE DEF Row
    <3> QED  BY <1>1, <2>1
  <2> QED  BY <2>2
<1>5. ASSUME NEW n \in DOMAIN dep, dep[n].token = t
      PROVE  \/ dep[n].l1 <= p.l1 /\ 0 < dep[n].l2 /\ dep[n].l2 <= p.l2
             \/ /\ p.l1 < dep[n].l1 /\ dep[n].l1 <= pass.l1
                /\ p.l2 < dep[n].l2 /\ dep[n].l2 <= pass.l2
                /\ n \in DOMAIN depRow => depRow[n].marked
  BY <1>5 DEF DepositsSettled, In
<1>6. ASSUME NEW n \in DOMAIN dep, dep[n].token = t
      PROVE  /\ dep[n].l1 <= p.l1 <=> In(dep[n].l2, 0, p.l2)
             /\ dep[n].l1 <= pass.l1 <=> In(dep[n].l2, 0, pass.l2)
  BY <1>2, <1>5, <1>6 DEF In
<1>7. Ins(t, p.l1) = Minted(t, p.l2) /\ Ins(t, pass.l1) = Minted(t, pass.l2)
  BY <1>6 DEF Ins, Minted
<1>8. ASSUME NEW n \in DOMAIN depRow, dep[n].token = t
      PROVE  /\ ~ (In(dep[n].l1, p.l1, pass.l1) /\ ~depRow[n].marked)
             /\ ~ (depRow[n].l2 > p.l2)
  <2>1. n \in DOMAIN dep /\ depRow[n].l2 = 0 /\ dep[n].l1 \in Nat /\ dep[n].l2 \in Nat
    BY <1>2, <1>3, <1>4
  <2> QED  BY <1>5, <1>8, <2>1 DEF In
<1>9. Unrelayed(t, p) = {} /\ Relayed(t, p) = {}
  BY <1>8 DEF Unrelayed, Relayed
<1> QED  BY <1>7, <1>9

(* The losses since p are those at the heights of the pass without those at p. *)
LEMMA LossesSince ==
  ASSUME CheckTypeOK, NEW t, NEW p, p.l1 \in Nat, pass.l1 \in Nat, p.l1 <= pass.l1
  PROVE  /\ Cardinality(Gone(t, pass.l1)) = Cardinality(Gone(t, p.l1)) + Cardinality(Stolen(t, p))
         /\ Cardinality(Stolen(t, p)) \in Nat /\ IsFiniteSet(Stolen(t, p))
<1>1. \A n \in DOMAIN lost : lost[n].l1 \in Nat
  BY CheckRows DEF LostType
<1>2. Gone(t, pass.l1) = Gone(t, p.l1) \cup Stolen(t, p) /\ Gone(t, p.l1) \cap Stolen(t, p) = {}
  BY <1>1 DEF Gone, Stolen, In
<1>3. IsFiniteSet(Gone(t, p.l1)) /\ IsFiniteSet(DOMAIN lost)
  BY CountedFinite
<1>4. IsFiniteSet(Stolen(t, p))
  <2>1. Stolen(t, p) \in SUBSET DOMAIN lost
    BY DEF Stolen
  <2> QED  BY <1>3, <2>1, FS_Subset
<1> QED  BY <1>2, <1>3, <1>4, DisjointSize

(* The row of a claimed withdrawal has the block of the claim or one before it. *)
LEMMA ClaimedRow ==
  ASSUME CheckTypeOK, NEW n \in DOMAIN wdRow, wdRow[n].claimed
  PROVE  wdRow[n].l1 \in Nat /\ wdRow[n].l1 <= wd[n].l1
<1>1. /\ wdRow \in WdRows /\ ProvedFirst /\ RowsFit /\ n \in DOMAIN wd
      /\ head.l1 \in Nat /\ head.l2 \in Nat /\ wd[n] \in WdType
  <2>1. /\ DOMAIN wdRow = 1..Len(wdRow) /\ Len(wdRow) \in Nat /\ Len(wdRow) <= Len(wd)
        /\ DOMAIN wd = 1..Len(wd) /\ Len(wd) \in Nat
    BY CheckRows
  <2>2. n \in DOMAIN wd
    BY <2>1
  <2> QED  BY <2>2, CheckRows
<1>2. wd[n].l1 > 0 /\ wdRow[n].l1 \in wd[n].proofs \cup {wd[n].l1}
  BY <1>1 DEF RowsFit
<1>3. wd[n].l1 \in Nat /\ wd[n].proofs \subseteq Nat /\ \A b \in wd[n].proofs : b < wd[n].l1
  BY <1>1, <1>2 DEF WdType, ProvedFirst
<1> QED  BY <1>2, <1>3

(* When the table knows the withdrawals, those started since p wait for their claim,
   and the claims since p are those of the table. *)
LEMMA KnownWithdrawals ==
  ASSUME CheckTypeOK, NEW t, NEW p, p.l1 \in Nat, p.l2 \in Nat,
         pass.l1 \in Nat, pass.l2 \in Nat, p.l1 <= pass.l1, p.l2 <= pass.l2,
         WithdrawalsKnown(t, p)
  PROVE  /\ Cardinality(Burnt(t, pass.l2)) =
              Cardinality(Burnt(t, p.l2)) + Cardinality(Unclaimed(t, p))
         /\ Cardinality(Outs(t, pass.l1)) =
              Cardinality(Outs(t, p.l1)) + Cardinality(Claimed(t, p))
         /\ Cardinality(Unclaimed(t, p)) \in Nat /\ Cardinality(Claimed(t, p)) \in Nat
<1>1. /\ DOMAIN wdRow = DOMAIN wd
      /\ \A n \in DOMAIN wd : wd[n] \in WdType
      /\ head.l1 \in Nat /\ head.l2 \in Nat
  BY CheckRows DEF WithdrawalsKnown
<1>2. \A n \in DOMAIN wd : wd[n].l1 \in Nat /\ wd[n].l2 \in Nat
  BY <1>1 DEF WdType
<1>3. \A n \in DOMAIN wd : wd[n].token = t =>
        /\ wd[n].l1 <= pass.l1 /\ (wdRow[n].claimed <=> wd[n].l1 > 0)
        /\ wd[n].l1 > 0 => wd[n].l2 <= p.l2 /\ (wdRow[n].l1 <= p.l1 <=> wd[n].l1 <= p.l1)
        /\ wd[n].l2 <= pass.l2
  BY DEF WithdrawalsKnown
<1>4. /\ Burnt(t, pass.l2) = Burnt(t, p.l2) \cup Unclaimed(t, p)
      /\ Burnt(t, p.l2) \cap Unclaimed(t, p) = {}
  <2>1. ASSUME NEW n \in DOMAIN wd, wd[n].token = t
        PROVE  /\ wd[n].l2 <= pass.l2 <=>
                    (wd[n].l2 <= p.l2 \/ (In(wd[n].l2, p.l2, pass.l2) /\ ~wdRow[n].claimed))
               /\ ~ (wd[n].l2 <= p.l2 /\ In(wd[n].l2, p.l2, pass.l2))
    BY <1>2, <1>3, <2>1 DEF In
  <2> QED  BY <1>1, <2>1 DEF Burnt, Unclaimed
<1>5. /\ Outs(t, pass.l1) = Outs(t, p.l1) \cup Claimed(t, p)
      /\ Outs(t, p.l1) \cap Claimed(t, p) = {}
  <2>1. ASSUME NEW n \in DOMAIN wd, wd[n].token = t
        PROVE  /\ In(wd[n].l1, 0, pass.l1) <=>
                    (In(wd[n].l1, 0, p.l1) \/ (In(wdRow[n].l1, p.l1, pass.l1) /\ wdRow[n].claimed))
               /\ ~ (In(wd[n].l1, 0, p.l1) /\ In(wdRow[n].l1, p.l1, pass.l1) /\ wdRow[n].claimed)
    <3>1. CASE wd[n].l1 > 0
      <4>1. /\ wdRow[n].claimed /\ wdRow[n].l1 \in Nat /\ wdRow[n].l1 <= wd[n].l1
            /\ (wdRow[n].l1 <= p.l1 <=> wd[n].l1 <= p.l1)
            /\ wd[n].l1 \in Nat /\ wd[n].l1 <= pass.l1
        BY <1>1, <1>2, <1>3, <2>1, <3>1, ClaimedRow
      <4> QED  BY <3>1, <4>1 DEF In
    <3>2. CASE ~(wd[n].l1 > 0)
      BY <1>3, <2>1, <3>2 DEF In
    <3> QED  BY <3>1, <3>2
  <2> QED  BY <1>1, <2>1 DEF Outs, Claimed
<1>6. IsFiniteSet(Burnt(t, p.l2)) /\ IsFiniteSet(Outs(t, p.l1)) /\ IsFiniteSet(DOMAIN wd)
  BY CountedFinite
<1>7. IsFiniteSet(Unclaimed(t, p)) /\ IsFiniteSet(Claimed(t, p))
  <2>1. Unclaimed(t, p) \in SUBSET DOMAIN wd /\ Claimed(t, p) \in SUBSET DOMAIN wd
    BY <1>1 DEF Unclaimed, Claimed
  <2> QED  BY <1>6, <2>1, FS_Subset
<1> QED  BY <1>4, <1>5, <1>6, <1>7, DisjointSize

(* When all withdrawals were started and claimed before p, they cancel out, and the
   queries for them have no rows. *)
LEMMA SettledWithdrawals ==
  ASSUME CheckTypeOK, NEW t, NEW p, p.l1 \in Nat, p.l2 \in Nat,
         pass.l1 \in Nat, pass.l2 \in Nat, p.l1 <= pass.l1, p.l2 <= pass.l2,
         WithdrawalsSettled(t, p)
  PROVE  /\ Outs(t, p.l1) = Burnt(t, p.l2) /\ Outs(t, pass.l1) = Burnt(t, pass.l2)
         /\ Unclaimed(t, p) = {} /\ Claimed(t, p) = {}
<1>1. /\ DOMAIN wdRow = 1..Len(wdRow) /\ Len(wdRow) \in Nat /\ Len(wdRow) <= Len(wd)
      /\ DOMAIN wd = 1..Len(wd) /\ Len(wd) \in Nat
      /\ \A n \in DOMAIN wd : wd[n] \in WdType
      /\ head.l1 \in Nat /\ head.l2 \in Nat
  BY CheckRows
<1>2. \A n \in DOMAIN wd : wd[n].l1 \in Nat /\ wd[n].l2 \in Nat
  BY <1>1 DEF WdType
<1>3. \A n \in DOMAIN wdRow : n \in DOMAIN wd
  BY <1>1
<1>4. \A n \in DOMAIN wdRow : wdRow[n].claimed => wdRow[n].l1 \in Nat /\ wdRow[n].l1 <= wd[n].l1
  BY ClaimedRow
<1>5. \A n \in DOMAIN wd : wd[n].token = t =>
        wd[n].l2 <= p.l2 /\ 0 < wd[n].l1 /\ wd[n].l1 <= p.l1
  BY DEF WithdrawalsSettled, In
<1>6. ASSUME NEW n \in DOMAIN wd, wd[n].token = t
      PROVE  /\ wd[n].l2 <= p.l2 /\ wd[n].l2 <= pass.l2
             /\ In(wd[n].l1, 0, p.l1) /\ In(wd[n].l1, 0, pass.l1)
  BY <1>2, <1>5, <1>6 DEF In
<1>7. Outs(t, p.l1) = Burnt(t, p.l2) /\ Outs(t, pass.l1) = Burnt(t, pass.l2)
  BY <1>6 DEF Outs, Burnt
<1>8. ASSUME NEW n \in DOMAIN wdRow, wd[n].token = t
      PROVE  ~ In(wd[n].l2, p.l2, pass.l2) /\ ~ (In(wdRow[n].l1, p.l1, pass.l1) /\ wdRow[n].claimed)
  <2>1. /\ n \in DOMAIN wd /\ wd[n].l1 \in Nat /\ wd[n].l2 \in Nat
        /\ wdRow[n].claimed => wdRow[n].l1 \in Nat /\ wdRow[n].l1 <= wd[n].l1
    BY <1>2, <1>3, <1>4
  <2> QED  BY <1>5, <1>8, <2>1 DEF In
<1>9. Unclaimed(t, p) = {} /\ Claimed(t, p) = {}
  BY <1>8 DEF Unclaimed, Claimed
<1> QED  BY <1>7, <1>9

(* Without deposits half way and losses, and with the withdrawals known, what the
   tables add and subtract makes up for the withdrawals under way. *)
LEMMA SoundDifference ==
  ASSUME CheckTypeOK, NEW t, NEW p, p.l1 \in Nat, p.l2 \in Nat, p.l1 > 0, p.l2 > 0,
         pass.l1 \in Nat, pass.l2 \in Nat, p.l1 <= pass.l1, p.l2 <= pass.l2,
         DepositsSettled(t, p), WithdrawalsKnown(t, p), Stolen(t, p) = {}
  PROVE  Balance(t, p.l1) - Supply(t, p.l2) = Adjusted(t, p, {})
<1> DEFINE gone == Cardinality(Gone(t, p.l1))
           in0  == Cardinality(Ins(t, p.l1))
           in1  == Cardinality(Ins(t, pass.l1))
           out  == Cardinality(Outs(t, p.l1))
           burn == Cardinality(Burnt(t, p.l2))
           un   == Cardinality(Unclaimed(t, p))
           cl   == Cardinality(Claimed(t, p))
<1>1. /\ Minted(t, p.l2) = Ins(t, p.l1) /\ Minted(t, pass.l2) = Ins(t, pass.l1)
      /\ Cardinality(Unrelayed(t, p)) = 0 /\ Cardinality(Relayed(t, p)) = 0
  BY SettledDeposits, FS_EmptySet
<1>2. Cardinality(Gone(t, pass.l1)) = gone + Cardinality(Stolen(t, p))
  BY LossesSince
<1>3. /\ Cardinality(Burnt(t, pass.l2)) = burn + un
      /\ Cardinality(Outs(t, pass.l1)) = out + cl
      /\ un \in Nat /\ cl \in Nat
  BY KnownWithdrawals
<1>4. gone \in Nat /\ in0 \in Nat /\ in1 \in Nat /\ out \in Nat /\ burn \in Nat
  BY CountedFinite, FS_CardinalityType
<1>5. Cardinality(Stolen(t, p)) = 0
  BY FS_EmptySet
<1>6. Cardinality(Gone(t, pass.l1)) = gone
  BY <1>2, <1>4, <1>5
<1>7. Balance(t, p.l1) - Supply(t, p.l2) = (in0 - out - gone) - (in0 - burn)
  BY <1>1, Counted
<1>8. Difference(t) = (in1 - (out + cl) - gone) - (in1 - (burn + un))
  BY <1>1, <1>3, <1>6, Counted DEF Difference
<1>9. Adjusted(t, p, {}) = Difference(t) - 0 - un + 0 + cl
  BY <1>1 DEF Adjusted
<1> HIDE DEF gone, in0, in1, out, burn, un, cl
<1> QED  BY <1>3, <1>4, <1>7, <1>8, <1>9

(* Without transfers under way, a loss shows in the difference, and the tables have
   nothing to explain it with, whichever query fails. *)
LEMMA LossDifference ==
  ASSUME CheckTypeOK, NEW t, NEW p, p.l1 \in Nat, p.l2 \in Nat, p.l1 > 0, p.l2 > 0,
         pass.l1 \in Nat, pass.l2 \in Nat, p.l1 <= pass.l1, p.l2 <= pass.l2,
         DepositsSettled(t, p), WithdrawalsSettled(t, p), Stolen(t, p) # {}, NEW failed
  PROVE  Balance(t, p.l1) - Supply(t, p.l2) \notin {Difference(t), Adjusted(t, p, failed)}
<1> DEFINE gone == Cardinality(Gone(t, p.l1))
           in0  == Cardinality(Ins(t, p.l1))
           in1  == Cardinality(Ins(t, pass.l1))
           out0 == Cardinality(Outs(t, p.l1))
           out1 == Cardinality(Outs(t, pass.l1))
           more == Cardinality(Stolen(t, p))
<1>1. /\ Minted(t, p.l2) = Ins(t, p.l1) /\ Minted(t, pass.l2) = Ins(t, pass.l1)
      /\ Cardinality(Unrelayed(t, p)) = 0 /\ Cardinality(Relayed(t, p)) = 0
  BY SettledDeposits, FS_EmptySet
<1>2. /\ Burnt(t, p.l2) = Outs(t, p.l1) /\ Burnt(t, pass.l2) = Outs(t, pass.l1)
      /\ Cardinality(Unclaimed(t, p)) = 0 /\ Cardinality(Claimed(t, p)) = 0
  BY SettledWithdrawals, FS_EmptySet
<1>3. Cardinality(Gone(t, pass.l1)) = gone + more /\ more \in Nat /\ IsFiniteSet(Stolen(t, p))
  BY LossesSince
<1>4. more # 0
  BY <1>3, FS_EmptySet
<1>5. gone \in Nat /\ in0 \in Nat /\ in1 \in Nat /\ out0 \in Nat /\ out1 \in Nat
  BY CountedFinite, FS_CardinalityType
<1>6. Balance(t, p.l1) - Supply(t, p.l2) = (in0 - out0 - gone) - (in0 - out0)
  BY <1>1, <1>2, Counted
<1>7. Difference(t) = (in1 - out1 - (gone + more)) - (in1 - out1)
  BY <1>1, <1>2, <1>3, Counted DEF Difference
<1>8. Adjusted(t, p, failed) = Difference(t) - 0 - 0 + 0 + 0
  BY <1>1, <1>2 DEF Adjusted
<1> HIDE DEF gone, in0, in1, out0, out1, more
<1> QED  BY <1>3, <1>4, <1>5, <1>6, <1>7, <1>8

(* A sound bridge is found aligned, in every chain and with any number of withdrawals
   under way. *)
THEOREM CheckSoundIsAligned == CheckSpec => SoundIsAligned
<1> DEFINE Sound == \A t \in Token, p \in Range(points) :
       Compared(t, p) /\ DepositsSettled(t, p) /\ WithdrawalsKnown(t, p)
         /\ Stolen(t, p) = {} /\ faults' = faults => Newest.checked
<1>1. CheckInv /\ [CheckNext]_checkVars => Sound
  <2> SUFFICES ASSUME CheckInv, [CheckNext]_checkVars, NEW t \in Token, NEW p \in Range(points),
                      Compared(t, p), DepositsSettled(t, p), WithdrawalsKnown(t, p),
                      Stolen(t, p) = {}, faults' = faults
               PROVE  Newest.checked
    OBVIOUS
  <2>1. /\ p.l1 \in Nat /\ p.l2 \in Nat /\ p.l1 > 0 /\ p.l2 > 0
        /\ pass.l1 \in Nat /\ pass.l2 \in Nat /\ p.l1 <= pass.l1 /\ p.l2 <= pass.l2
        /\ p.diff = Balance(t, p.l1) - Supply(t, p.l2)
        /\ Newest.checked = (p.diff \in {Difference(t), Adjusted(t, p, {})})
    BY ComparedFacts
  <2>2. p.diff = Adjusted(t, p, {})
    BY <2>1, SoundDifference DEF CheckInv
  <2> QED  BY <2>1, <2>2
<1> QED  BY <1>1, CheckInvariant, PTL DEF CheckSpec, SoundIsAligned

(* A loss is noticed, in every chain and whichever query fails. *)
THEOREM CheckLossIsNoticed == CheckSpec => LossIsNoticed
<1> DEFINE Noticed == \A t \in Token, p \in Range(points) :
       Compared(t, p) /\ DepositsSettled(t, p) /\ Stolen(t, p) # {}
         /\ WithdrawalsSettled(t, p) => ~Newest.checked
<1>1. CheckInv /\ [CheckNext]_checkVars => Noticed
  <2> SUFFICES ASSUME CheckInv, [CheckNext]_checkVars, NEW t \in Token, NEW p \in Range(points),
                      Compared(t, p), DepositsSettled(t, p), WithdrawalsSettled(t, p),
                      Stolen(t, p) # {}
               PROVE  ~Newest.checked
    OBVIOUS
  <2>1. PICK failed :
           /\ p.l1 \in Nat /\ p.l2 \in Nat /\ p.l1 > 0 /\ p.l2 > 0
           /\ pass.l1 \in Nat /\ pass.l2 \in Nat /\ p.l1 <= pass.l1 /\ p.l2 <= pass.l2
           /\ p.diff = Balance(t, p.l1) - Supply(t, p.l2)
           /\ Newest.checked = (p.diff \in {Difference(t), Adjusted(t, p, failed)})
    BY ComparedFacts
  <2>2. p.diff \notin {Difference(t), Adjusted(t, p, failed)}
    BY <2>1, LossDifference DEF CheckInv
  <2> QED  BY <2>1, <2>2
<1> QED  BY <1>1, CheckInvariant, PTL DEF CheckSpec, LossIsNoticed
================================================================================
