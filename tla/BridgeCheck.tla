------------------------------ MODULE BridgeCheck ------------------------------
(***************************************************************************)
(* The account check of the business processor, syncTokenBalance: for every *)
(* configured token it stores a checkpoint with the balance of the bridge   *)
(* on L1 and the supply on L2, and compares their difference with that of   *)
(* the token's last checkpoint, adjusted by the deposits and withdrawals    *)
(* that are under way according to the tables.                              *)
(***************************************************************************)
EXTENDS Integers, FiniteSets, Sequences, Functions

CONSTANTS
  Tokens,    \* the configured tokens, in their order
  MaxBlock,  \* bound: blocks of each chain
  MaxMoved,  \* bound: deposits, withdrawals and losses
  MaxLost,   \* bound: units that leave the bridge without a withdrawal
  MaxPoints, \* bound: passes start while there are fewer checkpoints
  MaxFaults  \* bound: errors of a provider or the database

ASSUME BridgeCheckAssumption ==
  /\ Tokens \in Seq(Range(Tokens)) /\ Tokens # <<>>
  /\ MaxBlock \in Nat \ {0} /\ {MaxMoved, MaxLost, MaxPoints, MaxFaults} \subseteq Nat

VARIABLES
  head,    \* the newest indexed header of each chain
  dep,     \* deposits on the chains: block on L1, block of the relay or 0
  wd,      \* withdrawals on the chains: block on L2, L1 blocks of proofs and claim
  lost,    \* where a unit left the bridge on L1
  depRow,  \* l1_to_l2: marked has the hash of a relay, l2 its block
  wdRow,   \* l2_to_l1: claimed has the hash of the claim, l1 is l1_block_number
  points,  \* bridge_checkpoints
  pass,    \* the pass: its token, checkpoints it has read, heights of the token
  faults

chainVars == <<head, dep, wd, lost>>
checkVars == <<chainVars, depRow, wdRow, points, pass, faults>>

Token == Range(Tokens)
Idle  == [i |-> 0, known |-> 0, l1 |-> 0, l2 |-> 0]

(* The check runs every six hours: both chains have headers by then. *)
CheckInit ==
  /\ head = [l1 |-> 1, l2 |-> 1]
  /\ dep = <<>> /\ wd = <<>> /\ lost = <<>>
  /\ depRow = <<>> /\ wdRow = <<>> /\ points = <<>>
  /\ pass = Idle /\ faults = 0

(* The chains: every transfer is of one unit and in a block of its own. *)
NewBlock(layer) ==
  /\ head[layer] < MaxBlock
  /\ head' = [head EXCEPT ![layer] = @ + 1]
  /\ UNCHANGED <<depRow, wdRow, points, pass, faults>>

Deposit(t) ==
  /\ NewBlock("l1") /\ Len(dep) + Len(wd) + Len(lost) < MaxMoved
  /\ dep' = Append(dep, [token |-> t, l1 |-> head.l1 + 1, l2 |-> 0])
  /\ UNCHANGED <<wd, lost>>

Relay(n) ==
  /\ NewBlock("l2") /\ dep[n].l2 = 0
  /\ dep' = [dep EXCEPT ![n].l2 = head.l2 + 1]
  /\ UNCHANGED <<wd, lost>>

Withdraw(t) ==
  /\ NewBlock("l2") /\ Len(dep) + Len(wd) + Len(lost) < MaxMoved
  /\ wd' = Append(wd, [token |-> t, l2 |-> head.l2 + 1, proofs |-> {}, l1 |-> 0])
  /\ UNCHANGED <<dep, lost>>

(* A proof moves nothing and needs no block of its own: the newest has it.  Only its
   stream looks for it there. *)
Prove(n) ==
  /\ wd[n].l1 = 0 /\ wd' = [wd EXCEPT ![n].proofs = @ \cup {head.l1}]
  /\ UNCHANGED <<head, dep, lost, depRow, wdRow, points, pass, faults>>

Claim(n) ==
  /\ NewBlock("l1") /\ wd[n].l1 = 0 /\ wd[n].proofs # {}
  /\ wd' = [wd EXCEPT ![n].l1 = head.l1 + 1]
  /\ UNCHANGED <<dep, lost>>

Lose(t) ==
  /\ NewBlock("l1") /\ Len(lost) < MaxLost /\ Len(dep) + Len(wd) + Len(lost) < MaxMoved
  /\ lost' = Append(lost, [token |-> t, l1 |-> head.l1 + 1])
  /\ UNCHANGED <<dep, wd>>

(* The streams store the rows and record relays, proofs and claims, later, and again
   when the event could not be marked. *)
IndexDeposit ==
  /\ Len(depRow) < Len(dep) /\ depRow' = Append(depRow, [marked |-> FALSE, l2 |-> 0])
  /\ UNCHANGED <<chainVars, wdRow, points, pass, faults>>

(* The relay of a deposit that has a row.  What is marked carries neither a message
   hash nor an L2 block: any row is taken, and no block is recorded. *)
RecordRelay(m) ==
  /\ \E n \in DOMAIN depRow : dep[n].l2 > 0
  /\ depRow' = [depRow EXCEPT ![m] = [marked |-> TRUE, l2 |-> 0]]
  /\ UNCHANGED <<chainVars, wdRow, points, pass, faults>>

IndexWithdrawal ==
  /\ Len(wdRow) < Len(wd) /\ wdRow' = Append(wdRow, [l1 |-> 0, claimed |-> FALSE])
  /\ UNCHANGED <<chainVars, depRow, points, pass, faults>>

(* Proofs and claims are marked by streams of their own and share the column of the
   L1 block: the one that is recorded last stays. *)
RecordProof(n) ==
  /\ \E b \in wd[n].proofs : wdRow' = [wdRow EXCEPT ![n].l1 = b]
  /\ UNCHANGED <<chainVars, depRow, points, pass, faults>>

(* Mutant of RecordClaim: the newest block is recorded, not that of the claim. *)
RecordClaimLate(n) ==
  /\ wd[n].l1 > 0
  /\ wdRow' = [wdRow EXCEPT ![n] = [l1 |-> head.l1, claimed |-> TRUE]]
  /\ UNCHANGED <<chainVars, depRow, points, pass, faults>>

RecordClaim(n) ==
  /\ wd[n].l1 > 0
  /\ wdRow' = [wdRow EXCEPT ![n] = [l1 |-> wd[n].l1, claimed |-> TRUE]]
  /\ UNCHANGED <<chainVars, depRow, points, pass, faults>>

In(b, from, to) == from < b /\ b <= to

(* What the providers answer: balance of the bridge, supply of the token. *)
Balance(t, b) ==
  Cardinality({n \in DOMAIN dep : dep[n].token = t /\ dep[n].l1 <= b})
  - Cardinality({n \in DOMAIN wd : wd[n].token = t /\ In(wd[n].l1, 0, b)})
  - Cardinality({n \in DOMAIN lost : lost[n].token = t /\ lost[n].l1 <= b})

Supply(t, b) ==
  Cardinality({n \in DOMAIN dep : dep[n].token = t /\ In(dep[n].l2, 0, b)})
  - Cardinality({n \in DOMAIN wd : wd[n].token = t /\ wd[n].l2 <= b})

(* What the tables say of the time since checkpoint p. *)
Unrelayed(t, p) == {n \in DOMAIN depRow :
  dep[n].token = t /\ In(dep[n].l1, p.l1, pass.l1) /\ ~depRow[n].marked}

Relayed(t, p) == {n \in DOMAIN depRow :
  dep[n].token = t /\ dep[n].l1 < p.l1 /\ depRow[n].marked /\ depRow[n].l2 > p.l2}

(* Mutant of Unclaimed: by the block of the claim, as for the claimed ones. *)
UnclaimedByClaim(t, p) == {n \in DOMAIN wdRow :
  wd[n].token = t /\ In(wdRow[n].l1, p.l1, pass.l1) /\ ~wdRow[n].claimed}

Unclaimed(t, p) == {n \in DOMAIN wdRow :
  wd[n].token = t /\ In(wd[n].l2, p.l2, pass.l2) /\ ~wdRow[n].claimed}

(* Mutant of Claimed: claims of all times. *)
ClaimedEver(t, p) == {n \in DOMAIN wdRow : wd[n].token = t /\ wdRow[n].claimed}

Claimed(t, p) == {n \in DOMAIN wdRow :
  wd[n].token = t /\ In(wdRow[n].l1, p.l1, pass.l1) /\ wdRow[n].claimed}

Of(t, n) == {k \in 1..n : points[k].token = t}

Last(t, n) == points[CHOOSE k \in Of(t, n) : \A j \in Of(t, n) : j <= k]

(* Mutant of Known: the checkpoints are read again for every token. *)
KnownNow(n) == Len(points)

(* Checkpoints as they are when the pass starts. *)
Known(n) == n

StartPass ==
  /\ pass = Idle /\ Len(points) < MaxPoints
  /\ pass' = [Idle EXCEPT !.i = 1, !.known = Len(points)]
  /\ UNCHANGED <<chainVars, depRow, wdRow, points, faults>>

(* An error of the query for the checkpoints is dropped: there are none. *)
StartBlind ==
  /\ pass = Idle /\ Len(points) < MaxPoints
  /\ faults < MaxFaults /\ faults' = faults + 1
  /\ pass' = [Idle EXCEPT !.i = 1]
  /\ UNCHANGED <<chainVars, depRow, wdRow, points>>

(* The newest headers, for which balance and supply are asked. *)
ReadHeads ==
  /\ pass.i > 0 /\ pass.l1 = 0
  /\ pass' = [pass EXCEPT !.l1 = head.l1, !.l2 = head.l2]
  /\ UNCHANGED <<chainVars, depRow, wdRow, points, faults>>

Difference(t) == Balance(t, pass.l1) - Supply(t, pass.l2)

Query == {"unrelayed", "relayed", "unclaimed", "claimed"}

(* Without the rows of the queries that failed. *)
Adjusted(t, p, failed) ==
  LET Sum(query, ids) == IF query \in failed THEN 0 ELSE Cardinality(ids)
  IN  Difference(t) - Sum("relayed", Relayed(t, p)) - Sum("unclaimed", Unclaimed(t, p))
        + Sum("unrelayed", Unrelayed(t, p)) + Sum("claimed", Claimed(t, p))

(* A checkpoint is stored unless there are checkpoints, but none of the token. *)
CompareWithout(failed) ==
  /\ pass.i > 0 /\ pass.l1 > 0
  /\ LET t     == Tokens[pass.i]
         known == Known(pass.known)
         p     == Last(t, known)
         checked == known = 0 \/ p.diff \in {Difference(t), Adjusted(t, p, failed)}
     IN  points' = IF known > 0 /\ Of(t, known) = {} THEN points
                   ELSE Append(points, [token |-> t, l1 |-> pass.l1, l2 |-> pass.l2,
                                        diff |-> Difference(t), checked |-> checked])
  /\ pass' = IF pass.i = Len(Tokens) THEN Idle
             ELSE [pass EXCEPT !.i = @ + 1, !.l1 = 0, !.l2 = 0]
  /\ UNCHANGED <<chainVars, depRow, wdRow>>

Compare == CompareWithout({}) /\ UNCHANGED faults

(* An error of one of the four queries is dropped: it has no rows. *)
CompareUnread ==
  /\ faults < MaxFaults /\ faults' = faults + 1
  /\ \E query \in Query : CompareWithout({query})

(* An error ends the pass; the tokens after it wait for the next one. *)
Fail ==
  /\ pass # Idle /\ faults < MaxFaults /\ faults' = faults + 1
  /\ pass' = Idle
  /\ UNCHANGED <<chainVars, depRow, wdRow, points>>

Check == StartPass \/ ReadHeads \/ Compare

CheckNext ==
  \/ \E t \in Token : Deposit(t) \/ Withdraw(t) \/ Lose(t)
  \/ \E n \in DOMAIN dep : Relay(n)
  \/ \E n \in DOMAIN wd : Prove(n) \/ Claim(n)
  \/ \E n \in DOMAIN depRow : RecordRelay(n)
  \/ \E n \in DOMAIN wdRow : RecordProof(n) \/ RecordClaim(n)
  \/ IndexDeposit \/ IndexWithdrawal \/ Check
  \/ StartBlind \/ CompareUnread \/ Fail

(* The ticker of the check never stops. *)
CheckSpec == CheckInit /\ [][CheckNext]_checkVars /\ WF_checkVars(Check)

-----------------------------------------------------------------------------
(* Types; rows are a prefix of what is on the chains, no relay's block is ever
   recorded, the L1 block of a withdrawal is that of one of its proofs or, once it
   is claimed, of the claim; a pass has read only checkpoints that are there. *)
CheckTypeOK ==
  /\ head \in [{"l1", "l2"} -> 1..MaxBlock]
  /\ dep \in Seq([token : Token, l1 : 2..head.l1, l2 : 0..head.l2])
  /\ wd \in Seq([token : Token, l2 : 2..head.l2, proofs : SUBSET (1..head.l1), l1 : 0..head.l1])
  /\ \A n \in DOMAIN wd : wd[n].l1 > 0 => \A b \in wd[n].proofs : b < wd[n].l1
  /\ lost \in Seq([token : Token, l1 : 2..head.l1]) /\ Len(lost) <= MaxLost
  /\ depRow \in Seq([marked : BOOLEAN, l2 : {0}]) /\ Len(depRow) <= Len(dep)
  /\ wdRow \in Seq([l1 : Nat, claimed : BOOLEAN]) /\ Len(wdRow) <= Len(wd)
  /\ \A n \in DOMAIN wdRow :
       /\ wdRow[n].claimed => wd[n].l1 > 0 /\ wdRow[n].l1 \in wd[n].proofs \cup {wd[n].l1}
       /\ ~wdRow[n].claimed => wdRow[n].l1 \in wd[n].proofs \cup {0}
  /\ points \in Seq([token : Token, l1 : 1..head.l1, l2 : 1..head.l2,
                     diff : Int, checked : BOOLEAN])
  /\ pass \in [i : 0..Len(Tokens), known : 0..Len(points), l1 : 0..head.l1, l2 : 0..head.l2]
  /\ faults \in 0..MaxFaults

(* Between checkpoint p and the heights of the pass every deposit of t has both
   its ends or none, and its row has been taken for some relay. *)
DepositsSettled(t, p) ==
  \A n \in DOMAIN dep : dep[n].token = t =>
    \/ dep[n].l1 <= p.l1 /\ In(dep[n].l2, 0, p.l2)
    \/ In(dep[n].l1, p.l1, pass.l1) /\ In(dep[n].l2, p.l2, pass.l2)
       /\ (n \in DOMAIN depRow => depRow[n].marked)

(* No withdrawal of t is both started and claimed since p, nor claimed past the
   heights of the pass, and the table knows them all: also when a proof has taken the
   place of a claim, if both are on the same side of p. *)
WithdrawalsKnown(t, p) ==
  /\ Len(wdRow) = Len(wd)
  /\ \A n \in DOMAIN wd : wd[n].token = t =>
       /\ wd[n].l1 <= pass.l1 /\ (wdRow[n].claimed <=> wd[n].l1 > 0)
       /\ wd[n].l1 > 0 => wd[n].l2 <= p.l2 /\ (wdRow[n].l1 <= p.l1 <=> wd[n].l1 <= p.l1)
       /\ wd[n].l2 <= pass.l2

(* Every withdrawal of t was started and claimed before p. *)
WithdrawalsSettled(t, p) ==
  \A n \in DOMAIN wd : wd[n].token = t => wd[n].l2 <= p.l2 /\ In(wd[n].l1, 0, p.l1)

Stolen(t, p) ==
  {n \in DOMAIN lost : lost[n].token = t /\ In(lost[n].l1, p.l1, pass.l1)}

(* The step that compares t with its checkpoint p. *)
Compared(t, p) ==
  /\ points' # points /\ pass.known > 0
  /\ t = Tokens[pass.i] /\ p = Last(t, pass.known)

Newest == points'[Len(points')]

(* A bridge that is sound is found aligned: when no deposit is half way and no query
   failed, whatever withdrawals wait for their claim or were claimed since the last
   checkpoint (business/run.go:525-593). *)
SoundIsAligned ==
  [][\A t \in Token, p \in Range(points) :
       Compared(t, p) /\ DepositsSettled(t, p) /\ WithdrawalsKnown(t, p)
         /\ Stolen(t, p) = {} /\ faults' = faults => Newest.checked]_checkVars

(* A unit that left the bridge without a withdrawal is noticed when its token is
   compared with its last checkpoint and no transfer is half way, whichever query
   fails (business/run.go:510, 593). *)
LossIsNoticed ==
  [][\A t \in Token, p \in Range(points) :
       Compared(t, p) /\ DepositsSettled(t, p) /\ Stolen(t, p) # {}
         /\ WithdrawalsSettled(t, p) => ~Newest.checked]_checkVars

(* Not even a pass that reads no checkpoints takes such a loss for checked. *)
LossNotAccepted ==
  [][\A t \in Token, p \in Range(points) :
       /\ Len(points') > Len(points) /\ Newest.token = t
       /\ Of(t, Len(points)) # {} /\ p = Last(t, Len(points))
       /\ DepositsSettled(t, p) /\ Stolen(t, p) # {} /\ WithdrawalsSettled(t, p)
       => ~Newest.checked]_checkVars

(* Without an error every configured token gets a checkpoint. *)
FirstPassCompletes ==
  [](faults = 0) => <>(\A t \in Token : Of(t, Len(points)) # {})

(* Every configured token gets a checkpoint. *)
EveryTokenChecked == <>(\A t \in Token : Of(t, Len(points)) # {})

(* A deposit that waits for its relay, as the table knows, is no misalignment. *)
WaitingIsAligned ==
  [][\A t \in Token, p \in Range(points) :
       Compared(t, p) /\ WithdrawalsKnown(t, p) /\ Stolen(t, p) = {}
         /\ (\A n \in DOMAIN dep : dep[n].token = t =>
               n \in DOMAIN depRow /\ In(dep[n].l1, p.l1, pass.l1) /\ dep[n].l2 = 0)
         => Newest.checked]_checkVars

(* Nor is one that was made before the checkpoint and relayed after it, once its row
   has the hash of the relay (business/run.go:537). *)
RelayedIsAligned ==
  [][\A t \in Token, p \in Range(points) :
       Compared(t, p) /\ WithdrawalsKnown(t, p) /\ Stolen(t, p) = {} /\ faults' = faults
         /\ (\A n \in DOMAIN dep : dep[n].token = t =>
               /\ n \in DOMAIN depRow /\ depRow[n].marked
               /\ dep[n].l1 < p.l1 /\ In(dep[n].l2, p.l2, pass.l2))
         => Newest.checked]_checkVars

=============================================================================
