------------------------------- MODULE Exporter -------------------------------
(***************************************************************************)
(* The exporter, a program of its own beside the indexer.  Two of its loops *)
(* keep totals: of the deposits, by a window of timestamps, and of the      *)
(* claimed withdrawals, by a window of L1 blocks; the tables grow between   *)
(* their two queries.  A third loop polls the sequencer and keeps its       *)
(* health behind a mutex, from which requests are answered.                 *)
(***************************************************************************)
EXTENDS Integers, FiniteSetsExt, Sequences

CONSTANTS
  Withdrawals, \* withdrawals of l2_to_l1
  MaxBlock,    \* bound: L1 blocks, and timestamps
  Amounts,     \* amounts of a deposit
  Word,        \* 2^64 in the code: amounts are added as uint64
  Patience,    \* UnhealthyTimePeriod, in polls
  MaxHeight,   \* bound: heights of the sequencer
  MaxFaults    \* bound: errors, and rows that are set back

ASSUME ExporterAssumption ==
  /\ {MaxBlock, MaxFaults} \subseteq Nat /\ MaxHeight \in Nat \ {0}
  /\ Word \in Nat \ {0} /\ Patience \in Nat \ {0} /\ Amounts \subseteq Nat

VARIABLES
  deposit,  \* l1_to_l2: timestamp and amount of the rows, as they were stored
  claim,    \* l2_to_l1: recorded block of a proof or the claim; block of the claim or 0
  from,     \* startTimestamp, startBlockNumber
  to,       \* endTimestamp, endBlockNumber of the pass in progress, or NoEnd
  total,    \* the counter lithosphere_deposit_amount
  counted,  \* how often a withdrawal was added to the other counter
  upset,    \* history: loops whose newest row was not read or was set back
  health,   \* height, healthy
  polls,    \* polls since the height changed
  lock,     \* the mutex of health: "free" or "held" for ever
  height,   \* the height of the sequencer
  faults

tables    == <<deposit, claim>>
counters  == <<from, to, total, counted, upset>>
sequencer == <<health, polls, lock, height>>
expVars   == <<tables, counters, sequencer, faults>>

Loop  == {"deposits", "claims"}
NoEnd == -1

(* Start: unhealthy until the sequencer answers. *)
NewHealth == [height |-> 0, healthy |-> FALSE]

(* Every loop starts at 0. *)
ExpInit ==
  /\ deposit = <<>> /\ claim = [w \in Withdrawals |-> [l1 |-> 0, claimed |-> 0]]
  /\ from = [c \in Loop |-> 0] /\ to = [c \in Loop |-> NoEnd]
  /\ total = 0 /\ counted = [w \in Withdrawals |-> 0] /\ upset = {}
  /\ health = NewHealth
  /\ polls = 0 /\ lock = "free" /\ height = 1 /\ faults = 0

(* The indexer stores the deposits of L1 in the order of their blocks. *)
Deposit ==
  /\ \E t \in 1..MaxBlock, a \in Amounts :
       /\ \A n \in DOMAIN deposit : deposit[n].time < t
       /\ deposit' = Append(deposit, [time |-> t, amount |-> a])
  /\ UNCHANGED <<claim, counters, sequencer, faults>>

(* It records proofs and the claim of a withdrawal when it comes to relate them:
   any of them can be recorded late, or again. *)
Record(w, b, claimed) ==
  /\ claim' = [claim EXCEPT ![w] = [l1 |-> b, claimed |-> claimed]]
  /\ IF b < claim[w].l1
     THEN /\ faults < MaxFaults /\ faults' = faults + 1
          /\ upset' = upset \cup {"claims"}
     ELSE UNCHANGED <<upset, faults>>
  /\ UNCHANGED <<deposit, from, to, total, counted, sequencer>>

RecordProof(w) ==
  \E b \in 1..MaxBlock :
    (claim[w].claimed > 0 => b < claim[w].claimed) /\ Record(w, b, claim[w].claimed)

RecordClaim(w) ==
  \E b \in 1..MaxBlock :
    /\ IF claim[w].claimed > 0 THEN b = claim[w].claimed ELSE b > claim[w].l1
    /\ Record(w, b, b)

Newest(c) ==
  Max({0} \cup IF c = "deposits" THEN {deposit[n].time : n \in DOMAIN deposit}
               ELSE {claim[w].l1 : w \in Withdrawals})

(* Mutant of In: the start of the window is in it. *)
InBoth(b, c) == from[c] <= b /\ b <= to[c]

In(b, c) == from[c] < b /\ b <= to[c]

(* The end of the window is the newest row. *)
ReadEnd(c) ==
  /\ to[c] = NoEnd /\ to' = [to EXCEPT ![c] = Newest(c)]
  /\ UNCHANGED <<tables, from, total, counted, upset, sequencer, faults>>

(* An error of this query is dropped, and the end is 0. *)
EndUnread(c) ==
  /\ to[c] = NoEnd /\ to' = [to EXCEPT ![c] = 0]
  /\ faults < MaxFaults /\ faults' = faults + 1
  /\ upset' = upset \cup {c}
  /\ UNCHANGED <<tables, from, total, counted, sequencer>>

(* The sum that the query returns. *)
AmountOf(rows, ids) == MapThenSumSet(LAMBDA n : rows[n].amount, ids)

Windowed == {n \in DOMAIN deposit : In(deposit[n].time, "deposits")}

(* Mutant of Advance: the end is read once. *)
AdvanceOnce(c) == from' = [from EXCEPT ![c] = to[c]] /\ to' = to

Advance(c) ==
  /\ from' = [from EXCEPT ![c] = to[c]] /\ to' = [to EXCEPT ![c] = NoEnd]

AddDeposits ==
  /\ to["deposits"] # NoEnd
  /\ total' = total + (AmountOf(deposit, Windowed) % Word)
  /\ Advance("deposits")
  /\ UNCHANGED <<tables, counted, upset, sequencer, faults>>

AddClaims ==
  /\ to["claims"] # NoEnd
  /\ counted' = [w \in Withdrawals |->
       IF claim[w].claimed > 0 /\ In(claim[w].l1, "claims") THEN counted[w] + 1 ELSE counted[w]]
  /\ Advance("claims")
  /\ UNCHANGED <<tables, total, upset, sequencer, faults>>

(* The second query fails: the window stays where it is. *)
QueryFails(c) ==
  /\ to[c] # NoEnd /\ faults < MaxFaults /\ faults' = faults + 1
  /\ to' = [to EXCEPT ![c] = NoEnd]
  /\ UNCHANGED <<tables, from, total, counted, upset, sequencer>>

NewHeight ==
  /\ height < MaxHeight /\ height' = height + 1
  /\ UNCHANGED <<tables, counters, health, polls, lock, faults>>

RestUnchanged == UNCHANGED <<tables, counters, height>>

(* Mutant of Poll: every poll sets the time. *)
PollRenews ==
  /\ lock = "free" /\ polls' = 0
  /\ health' = [height |-> height, healthy |-> health.healthy \/ height # health.height]
  /\ RestUnchanged /\ UNCHANGED <<lock, faults>>

(* The sequencer answers with its height. *)
Poll ==
  /\ lock = "free"
  /\ IF height = health.height
     THEN /\ polls' = Min({polls + 1, Patience})
          /\ health' = [health EXCEPT !.healthy = @ /\ polls' < Patience]
     ELSE polls' = 0 /\ health' = [height |-> height, healthy |-> TRUE]
  /\ RestUnchanged /\ UNCHANGED <<lock, faults>>

PollFails ==
  /\ lock = "free" /\ faults < MaxFaults /\ faults' = faults + 1
  /\ health' = [health EXCEPT !.healthy = FALSE]
  /\ polls' = Min({polls + 1, Patience})
  /\ RestUnchanged /\ UNCHANGED lock

(* An answer that is not a number: the loop goes on without unlocking, and the
   next answer finds the mutex held by the loop itself. *)
PollGarbled ==
  /\ lock = "free" /\ faults < MaxFaults /\ faults' = faults + 1
  /\ lock' = "held"
  /\ RestUnchanged /\ UNCHANGED <<health, polls>>

ExpNext ==
  \/ Deposit \/ \E w \in Withdrawals : RecordProof(w) \/ RecordClaim(w)
  \/ \E c \in Loop : ReadEnd(c) \/ EndUnread(c) \/ QueryFails(c)
  \/ AddDeposits \/ AddClaims
  \/ NewHeight \/ Poll \/ PollFails \/ PollGarbled

(* Every loop has its ticker or sleeps between its rounds. *)
ExpSpec ==
  /\ ExpInit /\ [][ExpNext]_expVars
  /\ WF_expVars(ReadEnd("deposits") \/ AddDeposits)
  /\ WF_expVars(ReadEnd("claims") \/ AddClaims)
  /\ WF_expVars(Poll)

-----------------------------------------------------------------------------
(* Types; a window ends no later than the newest row, if that was read and has not
   been set back. *)
ExpTypeOK ==
  /\ deposit \in Seq([time : 1..MaxBlock, amount : Amounts])
  /\ claim \in [Withdrawals -> [l1 : 0..MaxBlock, claimed : 0..MaxBlock]]
  /\ from \in [Loop -> 0..MaxBlock] /\ to \in [Loop -> NoEnd..MaxBlock]
  /\ upset \subseteq Loop
  /\ \A c \in Loop \ upset :
       from[c] <= Newest(c) /\ to[c] \in {NoEnd} \cup from[c]..Newest(c)
  /\ total \in Nat /\ counted \in [Withdrawals -> Nat]
  /\ health \in [height : 0..height, healthy : BOOLEAN]
  /\ polls \in 0..Patience /\ lock \in {"free", "held"}
  /\ height \in 1..MaxHeight /\ faults \in 0..MaxFaults

Deposited(t) == AmountOf(deposit, {n \in DOMAIN deposit : deposit[n].time <= t})

(* Up to where the loop has come every deposit is in the total once, but for
   multiples of the word, and no withdrawal is added twice to the claimed ones,
   whatever is stored between the two queries of a window and whichever of them
   fails; unless the newest row could not be read, or a row was set back to an
   earlier block (exporter.go:308-404). *)
CountedOnce ==
  /\ ExpTypeOK
  /\ "deposits" \notin upset => (Deposited(from["deposits"]) - total) % Word = 0
  /\ "claims" \notin upset =>
       \A w \in Withdrawals : counted[w] <= (IF claim[w].claimed > 0 THEN 1 ELSE 0)

(* All deposits are counted again and again. *)
DepositsCaughtUp == []<>(from["deposits"] = Newest("deposits"))

(* A sequencer that stands still, as it does at the bound, is reported in the end,
   if its answers can be read. *)
StallNoticed == <>[](~health.healthy \/ lock = "held")

(* The total is that of the deposits. *)
TotalIsExact == total = Deposited(from["deposits"])

(* The total is what was deposited, up to multiples of the word. *)
NotCountedAgain == (Deposited(from["deposits"]) - total) % Word = 0

(* Every claimed withdrawal is added in the end. *)
ClaimsCounted == \A w \in Withdrawals : claim[w].claimed > 0 ~> counted[w] = 1

(* The health can always be read. *)
HealthAnswered == lock = "free"

=============================================================================
