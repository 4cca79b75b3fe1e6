----------------------------- MODULE ProcessProofs -----------------------------
(* Theorems about the two programs as processes: the start and the stop of the
   indexer, for any number of goroutines of the processors and of signals, and the
   counters of the exporter, for any tables, amounts and number of faults. *)
EXTENDS Lifecycle, Exporter, FiniteSetTheorems, WellFoundedInduction, TLAPS

(* Nothing is stopped before the stop, nothing starts before everything is set
   up, the exit comes after the last part, and every service that the stop has
   come past has no goroutine left, whether it was closed or never made. *)
OrderInv ==
  /\ main = "setup" => started = 0
  /\ main = "start" \/ started > 0 => made = Len(Setup)
  /\ main \in {"setup", "start", "wait"} => stopped = 0 /\ ~ closing
  /\ closing => stopped < Len(StopOrder)
  /\ main = "exited" => stopped = Len(StopOrder)
  /\ \A n \in 1..stopped : StopOrder[n] \in Services => tasks[StopOrder[n]] = 0

LifeInv == LifeTypeOK /\ OrderInv

(* The three orders: their lengths, the services in them, and that the clients
   and the database come after every service. *)
LEMMA Orders ==
  /\ Len(Setup) = 8 /\ Len(StartOrder) = 4 /\ Len(StopOrder) = 8
  /\ Services = {StartOrder[n] : n \in 1..4}
  /\ Services = {StopOrder[n] : n \in 1..4}
  /\ Services \subseteq {Setup[n] : n \in 1..8}
  /\ {Setup[n] : n \in 1..8} \subseteq {StopOrder[n] : n \in 1..8}
  /\ \A n \in 1..8 : StopOrder[n] \in {"clients", "db"} => n > 4
<1>1. Len(Setup) = 8 /\ Len(StartOrder) = 4 /\ Len(StopOrder) = 8
  BY DEF Setup, StartOrder, StopOrder
<1>2. 1..4 = {1, 2, 3, 4} /\ 1..8 = {1, 2, 3, 4, 5, 6, 7, 8}
  OBVIOUS
<1>3. /\ StartOrder[1] = "L1Sync" /\ StartOrder[2] = "L2Sync"
      /\ StartOrder[3] = "BridgeProcessor" /\ StartOrder[4] = "BusinessProcessor"
  BY DEF StartOrder
<1>4. /\ StopOrder[1] = "L1Sync" /\ StopOrder[2] = "L2Sync"
      /\ StopOrder[3] = "BridgeProcessor" /\ StopOrder[4] = "BusinessProcessor"
      /\ StopOrder[5] = "clients" /\ StopOrder[6] = "api"
      /\ StopOrder[7] = "db" /\ StopOrder[8] = "metrics"
  BY DEF StopOrder
<1>5. /\ Setup[1] = "clients" /\ Setup[2] = "db" /\ Setup[3] = "L1Sync" /\ Setup[4] = "L2Sync"
      /\ Setup[5] = "BridgeProcessor" /\ Setup[6] = "BusinessProcessor"
      /\ Setup[7] = "api" /\ Setup[8] = "metrics"
  BY DEF Setup
<1>6. Services = {"L1Sync", "L2Sync", "BridgeProcessor", "BusinessProcessor"}
  BY DEF Services, Syncs, Processors
<1>7. Services = {StartOrder[n] : n \in 1..4} /\ Services = {StopOrder[n] : n \in 1..4}
  BY <1>2, <1>3, <1>4, <1>6
<1>8. Services \subseteq {Setup[n] : n \in 1..8}
  BY <1>2, <1>5, <1>6
<1>9. {Setup[n] : n \in 1..8} \subseteq {StopOrder[n] : n \in 1..8}
  BY <1>2, <1>4, <1>5
<1>10. \A n \in 1..8 : StopOrder[n] \in {"clients", "db"} => n > 4
  BY <1>2, <1>4
<1> QED  BY <1>1, <1>7, <1>8, <1>9, <1>10

(* A goroutine that ends: the counts stay counts, and no count rises. *)
LEMMA TaskEnds ==
  ASSUME LifeTypeOK, NEW s \in Services, tasks[s] > 0,
         tasks' = [tasks EXCEPT ![s] = @ - 1]
  PROVE  /\ tasks' \in [Services -> Nat]
         /\ \A t \in Services : tasks'[t] <= tasks[t]
  BY DEF LifeTypeOK

(* Every step keeps the types. *)
LEMMA LifeTypeStep == LifeInv /\ [LifeNext]_lifeVars => LifeTypeOK'
<1> SUFFICES ASSUME LifeInv, [LifeNext]_lifeVars PROVE LifeTypeOK'
  OBVIOUS
<1>1. /\ LifeTypeOK /\ OrderInv
      /\ Len(Setup) = 8 /\ Len(StartOrder) = 4 /\ Len(StopOrder) = 8
      /\ Syncs \subseteq Services
  BY Orders DEF LifeInv, Services
<1> USE LifecycleAssumption
<1>2. CASE Signal
  BY <1>1, <1>2 DEF Signal, LifeTypeOK, Blocker, setupVars, stopVars, taskVars, Started
<1>3. CASE BlockerEnds
  BY <1>1, <1>3 DEF BlockerEnds, LifeTypeOK, Blocker, setupVars, stopVars, taskVars, Started
<1>4. CASE MakePart
  BY <1>1, <1>4 DEF MakePart, LifeTypeOK, stopVars, taskVars, signalVars, Started
<1>5. CASE SetupFails
  BY <1>1, <1>5 DEF SetupFails, LifeTypeOK, setupVars, stopVars, taskVars, signalVars, Started
<1>6. CASE StartService
  <2>1. CASE started < Len(StartOrder)
    <3> DEFINE p == StartOrder[started + 1]
    <3>1. /\ started' = started + 1 /\ started + 1 \in 1..4
          /\ tasks' = [tasks EXCEPT ![p] = IF p \in Syncs THEN 1 ELSE Workers[p]]
          /\ main' = main
      BY <1>1, <1>6, <2>1 DEF StartService, LifeTypeOK
    <3>2. p \in Services
      BY <3>1, Orders
    <3>3. (IF p \in Syncs THEN 1 ELSE Workers[p]) \in Nat
      BY <3>2 DEF Services
    <3>4. tasks' \in [Services -> Nat] /\ \A s \in Services \ {p} : tasks'[s] = tasks[s]
      BY <1>1, <3>1, <3>2, <3>3 DEF LifeTypeOK
    <3>5. \A s \in Services : tasks'[s] > 0 => s \in Started'
      BY <1>1, <3>1, <3>4 DEF LifeTypeOK, Started
    <3> QED
      BY <1>1, <1>6, <3>1, <3>4, <3>5 DEF StartService, LifeTypeOK, stopVars, signalVars
  <2>2. CASE ~ started < Len(StartOrder)
    BY <1>1, <1>6, <2>2 DEF StartService, LifeTypeOK, stopVars, signalVars, Started
  <2> QED  BY <2>1, <2>2
<1>7. CASE BeginStop
  BY <1>1, <1>7 DEF BeginStop, LifeTypeOK, Blocker, setupVars, stopVars, taskVars, Started
<1>8. ASSUME NEW s \in Services, Panic(s) PROVE LifeTypeOK'
  <2>1. tasks[s] > 0 /\ tasks' = [tasks EXCEPT ![s] = @ - 1]
    BY <1>8 DEF Panic, Running
  <2>2. stuck' \subseteq Syncs
    BY <1>1, <1>8 DEF Panic, LifeTypeOK
  <2>3. /\ UNCHANGED <<main, setupVars, stopVars, signalVars>> /\ appDone' = TRUE
    BY <1>8 DEF Panic, HandleCrit
  <2>4. tasks' \in [Services -> Nat] /\ \A t \in Services : tasks'[t] > 0 => t \in Started'
    BY <1>1, <2>1, <2>3, TaskEnds DEF LifeTypeOK, Started, setupVars
  <2> QED  BY <1>1, <2>2, <2>3, <2>4 DEF LifeTypeOK, setupVars, stopVars, signalVars
<1>9. ASSUME NEW s \in Syncs, HandlerFails(s) \/ HandlerEnds(s) PROVE LifeTypeOK'
  <2>1. tasks[s] > 0 /\ tasks' = [tasks EXCEPT ![s] = @ - 1]
    BY <1>9 DEF HandlerFails, HandlerEnds, CanEnd, Running
  <2>2. stuck' \subseteq Syncs
    BY <1>1, <1>9 DEF HandlerFails, HandlerEnds, LifeTypeOK
  <2>3. UNCHANGED <<main, setupVars, stopVars, signalVars, appDone>>
    BY <1>9 DEF HandlerFails, HandlerEnds
  <2>4. tasks' \in [Services -> Nat] /\ \A t \in Services : tasks'[t] > 0 => t \in Started'
    BY <1>1, <2>1, <2>3, TaskEnds DEF LifeTypeOK, Started, setupVars
  <2> QED  BY <1>1, <2>2, <2>3, <2>4 DEF LifeTypeOK, setupVars, stopVars, signalVars
<1>10. CASE StopPart
  <2>1. stopped \in 0..8 /\ (closing => stopped < 8)
    BY <1>1 DEF LifeTypeOK, OrderInv
  <2>2. stopped' \in 0..8 /\ main' \in {main, "exited"}
    BY <1>1, <1>10, <2>1 DEF StopPart
  <2>3. closing' = TRUE \/ closing' = FALSE \/ closing' = closing
    BY <1>10 DEF StopPart
  <2>4. closing \in BOOLEAN
    BY <1>1 DEF LifeTypeOK
  <2>5. closing' \in BOOLEAN
    BY <2>3, <2>4
  <2> QED
    BY <1>1, <1>10, <2>2, <2>5 DEF StopPart, LifeTypeOK, setupVars, taskVars, signalVars, Started
<1>11. CASE UNCHANGED lifeVars
  BY <1>1, <1>11 DEF lifeVars, LifeTypeOK, setupVars, stopVars, taskVars, signalVars, Started
<1> QED
  BY <1>2, <1>3, <1>4, <1>5, <1>6, <1>7, <1>8, <1>9, <1>10, <1>11 DEF LifeNext

(* Every step keeps the order. *)
LEMMA OrderStep == LifeInv /\ [LifeNext]_lifeVars => OrderInv'
<1> SUFFICES ASSUME LifeInv, [LifeNext]_lifeVars PROVE OrderInv'
  OBVIOUS
<1>1. /\ LifeTypeOK /\ OrderInv
      /\ Len(Setup) = 8 /\ Len(StartOrder) = 4 /\ Len(StopOrder) = 8
      /\ Syncs \subseteq Services /\ stopped \in 0..8 /\ started \in 0..4 /\ made \in 0..8
  BY Orders DEF LifeInv, LifeTypeOK, Services
<1>2. CASE Signal \/ BlockerEnds
  <2>1. UNCHANGED <<made, started, stopped, closing, tasks>> /\ main' \in {main, "killed"}
    BY <1>2 DEF Signal, BlockerEnds, setupVars, stopVars, taskVars
  <2> QED  BY <1>1, <2>1 DEF OrderInv
<1>3. CASE MakePart
  BY <1>1, <1>3 DEF MakePart, OrderInv, stopVars, taskVars
<1>4. CASE SetupFails
  BY <1>1, <1>4 DEF SetupFails, OrderInv, setupVars, stopVars, taskVars
<1>5. CASE StartService
  <2>1. UNCHANGED <<made, stopped, closing>> /\ stopped = 0 /\ ~ closing /\ made = 8
        /\ main' \in {"start", "wait"}
    BY <1>1, <1>5 DEF StartService, OrderInv, stopVars
  <2> QED  BY <1>1, <2>1 DEF OrderInv
<1>6. CASE BeginStop
  BY <1>1, <1>6 DEF BeginStop, OrderInv, setupVars, stopVars, taskVars
<1>7. ASSUME NEW s \in Services, Panic(s) \/ HandlerFails(s) \/ HandlerEnds(s) PROVE OrderInv'
  <2>1. tasks[s] > 0 /\ tasks' = [tasks EXCEPT ![s] = @ - 1]
    BY <1>7 DEF Panic, HandlerFails, HandlerEnds, CanEnd, Running
  <2>2. UNCHANGED <<main, made, started, stopped, closing>>
    BY <1>7 DEF Panic, HandlerFails, HandlerEnds, setupVars, stopVars
  <2>3. \A t \in Services : tasks[t] = 0 => tasks'[t] = 0
    BY <1>1, <2>1 DEF LifeTypeOK
  <2> QED  BY <1>1, <2>2, <2>3 DEF OrderInv
<1>8. CASE StopPart
  <2>1. UNCHANGED <<made, started, tasks>> /\ main = "stop"
    BY <1>8 DEF StopPart, setupVars, taskVars
  <2>2. CASE stopped < Len(StopOrder) /\ ~ closing /\ closing' /\ UNCHANGED <<main, stopped>>
    BY <1>1, <2>1, <2>2 DEF OrderInv
  <2>3. CASE /\ closing /\ (StopOrder[stopped + 1] \in Made => Awaited(StopOrder[stopped + 1]))
             /\ closing' = FALSE /\ stopped' = stopped + 1 /\ UNCHANGED main
    <3> DEFINE p == StopOrder[stopped + 1]
    <3>1. ASSUME p \in Services PROVE tasks[p] = 0
      <4>1. CASE p \in Made
        BY <2>3, <3>1, <4>1 DEF Awaited
      <4>2. CASE p \notin Made
        <5>1. made # 8
          BY <3>1, <4>2, Orders DEF Made
        <5>2. started = 0
          BY <1>1, <5>1 DEF OrderInv
        <5>3. p \notin Started
          BY <5>2 DEF Started
        <5> QED  BY <1>1, <3>1, <5>3 DEF LifeTypeOK
      <4> QED  BY <4>1, <4>2
    <3>2. stopped + 1 <= 8 /\ main' = "stop"
      BY <1>1, <2>1, <2>3 DEF OrderInv
    <3>3. \A n \in 1..stopped' : StopOrder[n] \in Services => tasks'[StopOrder[n]] = 0
      BY <1>1, <2>1, <2>3, <3>1 DEF OrderInv
    <3> QED  BY <1>1, <2>1, <2>3, <3>2, <3>3 DEF OrderInv
  <2>4. CASE stopped = Len(StopOrder) /\ main' = "exited" /\ UNCHANGED <<stopped, closing>>
    BY <1>1, <2>1, <2>4 DEF OrderInv
  <2> QED  BY <1>8, <2>2, <2>3, <2>4 DEF StopPart
<1>9. CASE UNCHANGED lifeVars
  BY <1>1, <1>9 DEF lifeVars, OrderInv, setupVars, stopVars, taskVars
<1> QED  BY <1>1, <1>2, <1>3, <1>4, <1>5, <1>6, <1>7, <1>8, <1>9 DEF LifeNext

(* The inductive invariant holds throughout. *)
THEOREM LifeInvariant == LifeSpec => []LifeInv
<1>1. ASSUME LifeInit PROVE LifeInv
  <2>1. LifeTypeOK
    <3>1. tasks = [s \in Services |-> 0]
      BY <1>1 DEF LifeInit
    <3>2. tasks \in [Services -> Nat] /\ \A s \in Services : ~ tasks[s] > 0
      BY <3>1
    <3>3. closing \in BOOLEAN /\ appDone \in BOOLEAN /\ stopDone \in BOOLEAN
      BY <1>1 DEF LifeInit
    <3>4. signals \in 0..MaxSignals
      BY <1>1, LifecycleAssumption DEF LifeInit
    <3>5. /\ main = "setup" /\ stuck \subseteq Syncs
          /\ made \in 0..Len(Setup) /\ started \in 0..Len(StartOrder) /\ stopped \in 0..Len(StopOrder)
      BY <1>1, Orders DEF LifeInit
    <3>6. first \in Blocker /\ second \in Blocker
      BY <1>1 DEF LifeInit, Blocker
    <3> QED  BY <3>2, <3>3, <3>4, <3>5, <3>6 DEF LifeTypeOK
  <2>2. OrderInv
    BY <1>1, Orders DEF LifeInit, OrderInv
  <2> QED  BY <2>1, <2>2 DEF LifeInv
<1>2. LifeInv /\ [LifeNext]_lifeVars => LifeInv'
  BY LifeTypeStep, OrderStep DEF LifeInv
<1> QED  BY <1>1, <1>2, PTL DEF LifeSpec

(* Type correctness of the life of the process. *)
THEOREM LifeTypeCorrect == LifeSpec => []LifeTypeOK
<1>1. LifeInv => LifeTypeOK
  BY DEF LifeInv
<1> QED  BY <1>1, LifeInvariant, PTL

(* No goroutine of a service runs while the clients or the database are closed,
   however many goroutines there are and whenever they fail. *)
THEOREM LifeNoUseAfterClose == LifeSpec => []NoUseAfterClose
<1>1. ASSUME LifeInv PROVE NoUseAfterClose
  <2>1. /\ LifeTypeOK /\ OrderInv
        /\ stopped \in 0..8 /\ made \in 0..8 /\ tasks \in [Services -> Nat]
        /\ Len(StopOrder) = 8
    BY <1>1, Orders DEF LifeInv, LifeTypeOK
  <2>2. ASSUME stopped >= 4 PROVE Running = {}
    <3>1. ASSUME NEW s \in Services PROVE tasks[s] = 0
      <4>1. PICK n \in 1..4 : StopOrder[n] = s
        BY Orders
      <4> QED  BY <2>1, <2>2, <4>1 DEF OrderInv
    <3> QED  BY <3>1 DEF Running
  <2>3. ASSUME Closed \cap {"clients", "db"} # {} PROVE stopped >= 4
    <3>1. PICK n \in 1..stopped : StopOrder[n] \in {"clients", "db"}
      BY <2>3 DEF Closed
    <3>2. n \in 1..8 /\ n <= stopped
      BY <2>1
    <3> QED  BY <2>1, <3>1, <3>2, Orders
  <2>4. ASSUME main = "exited" PROVE stopped = 8 /\ Closed = Made
    <3>1. stopped = 8
      BY <2>1, <2>4 DEF OrderInv
    <3>2. Made \subseteq {Setup[n] : n \in 1..8}
      BY <2>1 DEF Made
    <3> QED  BY <3>1, <3>2, Orders DEF Closed
  <2> QED  BY <2>2, <2>3, <2>4 DEF NoUseAfterClose
<1> QED  BY <1>1, LifeInvariant, PTL

-----------------------------------------------------------------------------
(* The exporter: sums over sets of rows.  A recursion over sets is a function on the
   subsets of one, and what holds of all subsets is shown from the least number that
   would be an exception. *)

(* A set of numbers with 0 and every successor is Nat. *)
LEMMA AllNumbers ==
  ASSUME NEW Good \in SUBSET Nat, 0 \in Good, \A n \in Good : n + 1 \in Good
  PROVE  Good = Nat
<1> SUFFICES ASSUME Good # Nat PROVE FALSE
  OBVIOUS
<1> DEFINE R == OpToRel(<, Nat)
           Bad == Nat \ Good
<1>1. IsWellFoundedOn(R, Nat)
  BY NatLessThanWellFounded
<1>2. Bad \subseteq Nat /\ Bad # {}
  OBVIOUS
<1>3. PICK x \in Bad : \A y \in Bad : <<y, x>> \notin R
  <2> HIDE DEF R, Bad
  <2> QED  BY <1>1, <1>2, WFMin
<1>4. x \in Nat /\ x # 0
  OBVIOUS
<1>5. x - 1 \in Nat /\ x - 1 < x
  BY <1>4
<1>6. CASE x - 1 \in Bad
  <2>1. <<x - 1, x>> \in R
    BY <1>4, <1>5 DEF OpToRel
  <2> QED  BY <1>3, <1>6, <2>1
<1>7. CASE x - 1 \in Good
  <2>1. x - 1 + 1 \in Good /\ x - 1 + 1 = x
    BY <1>4, <1>7
  <2> QED  BY <2>1
<1> QED  BY <1>5, <1>6, <1>7

(* What holds of the empty set, and of a set when it holds of it without any of its
   elements, holds of every finite set. *)
LEMMA AllSubsets ==
  ASSUME NEW S, IsFiniteSet(S), NEW Good \in SUBSET SUBSET S, {} \in Good,
         \A s \in SUBSET S : s # {} /\ (\A x \in s : s \ {x} \in Good) => s \in Good
  PROVE  Good = SUBSET S
<1> DEFINE Sizes == {n \in Nat : \A s \in SUBSET S : Cardinality(s) <= n => s \in Good}
<1>1. ASSUME NEW s \in SUBSET S
      PROVE  IsFiniteSet(s) /\ Cardinality(s) \in Nat /\ (Cardinality(s) = 0 <=> s = {})
  BY FS_Subset, FS_CardinalityType, FS_EmptySet
<1>2. 0 \in Sizes
  <2>1. ASSUME NEW s \in SUBSET S, Cardinality(s) <= 0 PROVE s \in Good
    <3>1. Cardinality(s) \in Nat /\ (Cardinality(s) = 0 <=> s = {})
      BY <1>1
    <3>2. s = {}
      BY <2>1, <3>1
    <3> QED  BY <3>2
  <2> QED  BY <2>1
<1>3. ASSUME NEW n \in Sizes PROVE n + 1 \in Sizes
  <2>1. ASSUME NEW s \in SUBSET S, Cardinality(s) <= n + 1 PROVE s \in Good
    <3>1. CASE s = {}
      BY <3>1
    <3>2. CASE s # {}
      <4>1. ASSUME NEW x \in s PROVE s \ {x} \in Good
        <5>1. IsFiniteSet(s) /\ Cardinality(s) \in Nat
          BY <1>1
        <5>2. Cardinality(s \ {x}) = Cardinality(s) - 1
          BY <5>1, FS_RemoveElement
        <5>3. Cardinality(s \ {x}) <= n /\ s \ {x} \in SUBSET S
          BY <2>1, <5>1, <5>2
        <5> QED  BY <5>3
      <4> QED  BY <3>2, <4>1
    <3> QED  BY <3>1, <3>2
  <2> QED  BY <2>1
<1>4. Sizes = Nat
  <2>1. Sizes \in SUBSET Nat
    OBVIOUS
  <2> HIDE DEF Sizes
  <2> QED  BY <1>2, <1>3, <2>1, AllNumbers
<1>5. ASSUME NEW s \in SUBSET S PROVE s \in Good
  <2>1. Cardinality(s) \in Sizes
    BY <1>1, <1>4
  <2> QED  BY <2>1, <1>1
<1> QED  BY <1>5

Chosen(s) == CHOOSE x \in s : TRUE

(* The function behind MapThenSumSet. *)
Sums(g, d, S) ==
  g = [s \in SUBSET S |-> IF s = {} THEN 0 ELSE d[Chosen(s)].amount + g[s \ {Chosen(s)}]]

LEMMA AmountIter ==
  ASSUME NEW d, NEW S, NEW g, Sums(g, d, S)
  PROVE  \E h : Sums(h, d, S) /\ AmountOf(d, S) = h[S]
<1> DEFINE h == CHOOSE h : h = [s \in SUBSET S |->
             IF s = {} THEN 0 ELSE d[Chosen(s)].amount + h[s \ {Chosen(s)}]]
<1>1. h = [s \in SUBSET S |-> IF s = {} THEN 0 ELSE d[Chosen(s)].amount + h[s \ {Chosen(s)}]]
  BY DEF Sums
<1>2. AmountOf(d, S) = h[S]
  BY Zenon DEF AmountOf, MapThenSumSet, MapThenFoldSet, Chosen
<1> QED BY <1>1, <1>2 DEF Sums

LEMMA ChosenIn == ASSUME NEW s, s # {} PROVE Chosen(s) \in s
BY DEF Chosen

(* There is such a function: one for the sets up to a size gives one for the next size. *)
LEMMA SumsExist ==
  ASSUME NEW d, NEW S, IsFiniteSet(S), \A n \in S : d[n].amount \in Int
  PROVE  \E g : Sums(g, d, S)
<1> DEFINE Small(n) == {s \in SUBSET S : Cardinality(s) <= n}
           One(g, s) == IF s = {} THEN 0 ELSE d[Chosen(s)].amount + g[s \ {Chosen(s)}]
           Good == {n \in Nat : \E g : /\ g = [s \in Small(n) |-> One(g, s)]}
<1>1. ASSUME NEW s \in SUBSET S
      PROVE  IsFiniteSet(s) /\ Cardinality(s) \in Nat /\ (Cardinality(s) = 0 <=> s = {})
  BY FS_Subset, FS_CardinalityType, FS_EmptySet
<1>2. 0 \in Good
  <2> DEFINE g == [s \in Small(0) |-> 0]
  <2>1. \A s \in Small(0) : s = {}
    BY <1>1
  <2>2. g = [s \in Small(0) |-> One(g, s)]
    BY <2>1
  <2> QED  BY <2>2
<1>3. ASSUME NEW n \in Good PROVE n + 1 \in Good
  <2>1. PICK g : g = [s \in Small(n) |-> One(g, s)]
    OBVIOUS
  <2> DEFINE h == [s \in Small(n + 1) |-> One(g, s)]
  <2>2. ASSUME NEW s \in Small(n + 1), s # {}
        PROVE  s \ {Chosen(s)} \in Small(n)
    <3>1. IsFiniteSet(s) /\ Cardinality(s) \in Nat /\ Chosen(s) \in s
      BY <1>1, <2>2, ChosenIn
    <3>2. Cardinality(s \ {Chosen(s)}) = Cardinality(s) - 1
      BY <3>1, FS_RemoveElement
    <3> QED  BY <3>1, <3>2
  <2>3. ASSUME NEW s \in Small(n) PROVE s \in Small(n + 1) /\ h[s] = g[s]
    <3>1. s \in Small(n + 1)
      BY <1>1
    <3>2. g[s] = One(g, s)
      BY <2>1
    <3> QED  BY <3>1, <3>2
  <2>4. ASSUME NEW s \in Small(n + 1) PROVE One(g, s) = One(h, s)
    <3>1. CASE s = {}
      BY <3>1
    <3>2. CASE s # {}
      <4>1. g[s \ {Chosen(s)}] = h[s \ {Chosen(s)}]
        BY <2>2, <2>3, <3>2
      <4> HIDE DEF h
      <4> QED  BY <4>1
    <3> QED  BY <3>1, <3>2
  <2>5. h = [s \in Small(n + 1) |-> One(h, s)]
    <3> HIDE DEF One, Small
    <3> QED  BY <2>4
  <2>6. n + 1 \in Nat
    OBVIOUS
  <2> HIDE DEF h
  <2> QED  BY <2>5, <2>6
<1>4. Good = Nat
  <2>1. Good \in SUBSET Nat
    OBVIOUS
  <2> HIDE DEF Good
  <2> QED  BY <1>2, <1>3, <2>1, AllNumbers
<1>5. PICK g : g = [s \in Small(Cardinality(S)) |-> One(g, s)]
  <2>1. Cardinality(S) \in Good
    BY <1>4, FS_CardinalityType
  <2> QED  BY <2>1
<1>6. Small(Cardinality(S)) = SUBSET S
  BY FS_Subset
<1> QED  BY <1>5, <1>6 DEF Sums

(* What it says of no elements, and of some. *)
LEMMA SumsNone ==
  ASSUME NEW d, NEW S, NEW g, Sums(g, d, S)
  PROVE  g[{}] = 0
<1>1. {} \in SUBSET S
  OBVIOUS
<1> QED  BY <1>1 DEF Sums

LEMMA SumsSome ==
  ASSUME NEW d, NEW S, NEW g, Sums(g, d, S), NEW s \in SUBSET S, s # {}
  PROVE  Chosen(s) \in s /\ g[s] = d[Chosen(s)].amount + g[s \ {Chosen(s)}]
<1>1. g[s] = d[Chosen(s)].amount + g[s \ {Chosen(s)}]
  BY DEF Sums
<1>2. Chosen(s) \in s
  BY ChosenIn
<1> QED  BY <1>1, <1>2

LEMMA SumsInt ==
  ASSUME NEW d, NEW S, IsFiniteSet(S), \A n \in S : d[n].amount \in Int, NEW g, Sums(g, d, S)
  PROVE  \A s \in SUBSET S : g[s] \in Int
<1> DEFINE Good == {s \in SUBSET S : g[s] \in Int}
<1>1. {} \in Good
  BY SumsNone
<1>2. ASSUME NEW s \in SUBSET S, s # {}, \A x \in s : s \ {x} \in Good PROVE s \in Good
  <2>0. Chosen(s) \in s /\ g[s] = d[Chosen(s)].amount + g[s \ {Chosen(s)}]
    BY <1>2, SumsSome
  <2>1. PICK x \in s : x = Chosen(s) /\ g[s] = d[x].amount + g[s \ {x}]
    BY <2>0
  <2>2. d[x].amount \in Int /\ g[s \ {x}] \in Int
    BY <1>2
  <2> QED  BY <2>1, <2>2
<1>3. Good = SUBSET S
  <2>1. Good \in SUBSET SUBSET S
    OBVIOUS
  <2> HIDE DEF Good
  <2> QED  BY <1>1, <1>2, <2>1, AllSubsets
<1> QED  BY <1>3

(* Any element can be added last. *)
LEMMA SumsAny ==
  ASSUME NEW d, NEW S, IsFiniteSet(S), \A n \in S : d[n].amount \in Int, NEW g, Sums(g, d, S)
  PROVE  \A y, s : s \in SUBSET S /\ y \in s => g[s] = d[y].amount + g[s \ {y}]
<1> DEFINE Good == {s \in SUBSET S : \A y \in s : g[s] = d[y].amount + g[s \ {y}]}
<1>1. {} \in Good
  OBVIOUS
<1>2. ASSUME NEW s \in SUBSET S, s # {}, \A x \in s : s \ {x} \in Good PROVE s \in Good
  <2>0. Chosen(s) \in s /\ g[s] = d[Chosen(s)].amount + g[s \ {Chosen(s)}]
    BY <1>2, SumsSome
  <2>1. PICK x \in s : x = Chosen(s) /\ g[s] = d[x].amount + g[s \ {x}]
    BY <2>0
  <2>2. ASSUME NEW y \in s, y # x PROVE g[s] = d[y].amount + g[s \ {y}]
    <3>1. PICK r \in SUBSET S : r = (s \ {x}) \ {y} /\ r = (s \ {y}) \ {x}
      OBVIOUS
    <3>2. g[s \ {x}] = d[y].amount + g[r]
      BY <1>2, <2>1, <2>2, <3>1
    <3>3. g[s \ {y}] = d[x].amount + g[r]
      BY <1>2, <2>1, <2>2, <3>1
    <3>4. \A n \in SUBSET S : g[n] \in Int
      BY SumsInt
    <3>5. d[x].amount \in Int /\ d[y].amount \in Int /\ g[r] \in Int
      BY <3>4
    <3> QED  BY <2>1, <3>2, <3>3, <3>5
  <2> QED  BY <2>1, <2>2
<1>3. Good = SUBSET S
  <2>1. Good \in SUBSET SUBSET S
    OBVIOUS
  <2> HIDE DEF Good
  <2> QED  BY <1>1, <1>2, <2>1, AllSubsets
<1> QED  BY <1>3

(* The sum of a set is the same in whatever larger set it is taken. *)
LEMMA SumsAgree ==
  ASSUME NEW d, NEW T, IsFiniteSet(T), NEW S \in SUBSET T,
         NEW g, Sums(g, d, S), NEW h, Sums(h, d, T)
  PROVE  \A s \in SUBSET S : g[s] = h[s]
<1> DEFINE Good == {s \in SUBSET S : g[s] = h[s]}
<1>1. {} \in Good
  <2>1. g[{}] = 0 /\ h[{}] = 0
    BY SumsNone
  <2> QED  BY <2>1
<1>2. ASSUME NEW s \in SUBSET S, s # {}, \A x \in s : s \ {x} \in Good PROVE s \in Good
  <2>0. Chosen(s) \in s /\ g[s] = d[Chosen(s)].amount + g[s \ {Chosen(s)}]
    BY <1>2, SumsSome
  <2>1. PICK x \in s : x = Chosen(s) /\ g[s] = d[x].amount + g[s \ {x}]
    BY <2>0
  <2>2. h[s] = d[x].amount + h[s \ {x}]
    <3>1. s \in SUBSET T
      OBVIOUS
    <3>2. h[s] = d[Chosen(s)].amount + h[s \ {Chosen(s)}]
      BY <1>2, <3>1, SumsSome
    <3> QED  BY <2>1, <3>2
  <2>3. g[s \ {x}] = h[s \ {x}]
    BY <1>2, <2>1
  <2> QED  BY <2>1, <2>2, <2>3
<1>3. Good = SUBSET S
  <2>1. Good \in SUBSET SUBSET S /\ IsFiniteSet(S)
    BY FS_Subset
  <2> HIDE DEF Good
  <2> QED  BY <1>1, <1>2, <2>1, AllSubsets
<1> QED  BY <1>3

(* Amounts of sets: a number, 0 for none, and additive. *)
LEMMA AmountIs ==
  ASSUME NEW d, NEW S, IsFiniteSet(S), \A n \in S : d[n].amount \in Int
  PROVE  \E g : Sums(g, d, S) /\ \A s \in SUBSET S : AmountOf(d, s) = g[s]
<1>1. PICK g : Sums(g, d, S)
  BY SumsExist
<1>2. ASSUME NEW s \in SUBSET S PROVE AmountOf(d, s) = g[s]
  <2>1. IsFiniteSet(s) /\ \A n \in s : d[n].amount \in Int
    BY FS_Subset
  <2>2. PICK f : Sums(f, d, s)
    BY <2>1, SumsExist
  <2>3. PICK h : Sums(h, d, s) /\ AmountOf(d, s) = h[s]
    BY <2>2, AmountIter
  <2> QED  BY <1>1, <2>3, SumsAgree
<1> QED  BY <1>1, <1>2

LEMMA AmountUnion ==
  ASSUME NEW d, NEW A, NEW B, IsFiniteSet(A), IsFiniteSet(B), A \cap B = {},
         \A n \in A \cup B : d[n].amount \in Nat
  PROVE  /\ AmountOf(d, A \cup B) = AmountOf(d, A) + AmountOf(d, B)
         /\ AmountOf(d, A) \in Nat /\ AmountOf(d, B) \in Nat
<1> DEFINE S == A \cup B
<1>1. IsFiniteSet(S) /\ \A n \in S : d[n].amount \in Int
  <2>1. IsFiniteSet(A \cup B)
    BY FS_Union
  <2> QED  BY <2>1
<1>2. PICK g : Sums(g, d, S) /\ \A s \in SUBSET S : AmountOf(d, s) = g[s]
  <2> HIDE DEF S
  <2> QED  BY <1>1, AmountIs
<1>3. \A s \in SUBSET S : g[s] \in Int /\ \A y \in s : g[s] = d[y].amount + g[s \ {y}]
  <2> HIDE DEF S
  <2>1. \A s \in SUBSET S : g[s] \in Int
    BY <1>1, <1>2, SumsInt
  <2>2. \A y, s : s \in SUBSET S /\ y \in s => g[s] = d[y].amount + g[s \ {y}]
    BY <1>1, <1>2, SumsAny
  <2> QED  BY <2>1, <2>2
<1>4. g[{}] = 0
  <2> HIDE DEF S
  <2> QED  BY <1>2, SumsNone
<1>5. \A s \in SUBSET S : g[s] \in Nat
  <2> DEFINE Good == {s \in SUBSET S : g[s] \in Nat}
  <2>1. {} \in Good
    BY <1>4
  <2>2. ASSUME NEW s \in SUBSET S, s # {}, \A x \in s : s \ {x} \in Good PROVE s \in Good
    <3>1. PICK x : x \in s
      BY <2>2
    <3>2. g[s] = d[x].amount + g[s \ {x}] /\ g[s \ {x}] \in Nat /\ d[x].amount \in Nat
      BY <1>3, <2>2, <3>1
    <3> QED  BY <3>2
  <2>3. Good = SUBSET S
    <3>1. Good \in SUBSET SUBSET S
      OBVIOUS
    <3> HIDE DEF Good, S
    <3> QED  BY <1>1, <2>1, <2>2, <3>1, AllSubsets
  <2> QED  BY <2>3
<1>6. \A s \in SUBSET B : g[A \cup s] = g[A] + g[s]
  <2> DEFINE Good == {s \in SUBSET B : g[A \cup s] = g[A] + g[s]}
  <2>1. {} \in Good
    <3>1. A \cup {} = A /\ g[A] \in Int
      BY <1>3
    <3> QED  BY <1>4, <3>1
  <2>2. ASSUME NEW s \in SUBSET B, s # {}, \A x \in s : s \ {x} \in Good PROVE s \in Good
    <3>1. PICK x : x \in s
      BY <2>2
    <3>2. g[s] = d[x].amount + g[s \ {x}] /\ d[x].amount \in Nat /\ g[s \ {x}] \in Int
          /\ g[A] \in Int
      BY <1>3, <3>1
    <3>3. (A \cup s) \ {x} = A \cup (s \ {x}) /\ x \in A \cup s /\ A \cup s \in SUBSET S
      BY <3>1
    <3>4. g[A \cup s] = d[x].amount + g[A \cup (s \ {x})]
      BY <1>3, <3>3
    <3>5. g[A \cup (s \ {x})] = g[A] + g[s \ {x}]
      BY <2>2, <3>1
    <3> QED  BY <3>2, <3>4, <3>5
  <2>3. Good = SUBSET B
    <3>1. Good \in SUBSET SUBSET B
      OBVIOUS
    <3> HIDE DEF Good, S
    <3> QED  BY <2>1, <2>2, <3>1, AllSubsets
  <2> QED  BY <2>3
<1> QED  BY <1>2, <1>5, <1>6

(* It is the same for rows that have the same amounts. *)
LEMMA AmountSame ==
  ASSUME NEW d, NEW e, NEW A, IsFiniteSet(A),
         \A n \in A : d[n].amount \in Int /\ d[n].amount = e[n].amount
  PROVE  AmountOf(d, A) = AmountOf(e, A)
<1>1. PICK g : Sums(g, d, A)
  BY SumsExist
<1>2. \A s \in SUBSET A : s # {} => Chosen(s) \in A
  BY ChosenIn
<1>3. Sums(g, e, A)
  <2>1. \A s \in SUBSET A : s # {} => d[Chosen(s)].amount = e[Chosen(s)].amount
    BY <1>2
  <2> QED  BY <1>1, <2>1 DEF Sums
<1>4. PICK h : Sums(h, d, A) /\ AmountOf(d, A) = h[A]
  BY <1>1, AmountIter
<1>5. PICK f : Sums(f, e, A) /\ AmountOf(e, A) = f[A]
  BY <1>3, AmountIter
<1>6. Sums(f, d, A)
  <2>1. \A s \in SUBSET A : s # {} => d[Chosen(s)].amount = e[Chosen(s)].amount
    BY <1>2
  <2> QED  BY <1>5, <2>1 DEF Sums
<1>7. A \in SUBSET A
  OBVIOUS
<1>8. \A s \in SUBSET A : h[s] = f[s]
  BY <1>4, <1>6, <1>7, SumsAgree
<1> QED  BY <1>4, <1>5, <1>7, <1>8

(* A set of numbers up to a bound has a greatest one. *)
LEMMA HasMax ==
  ASSUME NEW m \in Nat, NEW S \in SUBSET (0..m), S # {}
  PROVE  Max(S) \in S /\ \A j \in S : j <= Max(S)
<1> DEFINE Good == {n \in Nat : (\E j \in S : n <= j) \/ \E k \in S : \A j \in S : j <= k}
<1>1. 0 \in Good
  <2>1. PICK j \in S : j \in 0..m
    OBVIOUS
  <2>2. 0 <= j
    BY <2>1
  <2> QED  BY <2>2
<1>2. ASSUME NEW n \in Good PROVE n + 1 \in Good
  <2>1. CASE \E k \in S : \A j \in S : j <= k
    BY <2>1
  <2>2. CASE ~ \E k \in S : \A j \in S : j <= k
    <3>1. PICK j \in S : n <= j
      BY <2>2
    <3>2. PICK i \in S : ~ (i <= j)
      BY <2>2
    <3>3. n + 1 <= i
      BY <3>1, <3>2
    <3> QED  BY <3>3
  <2> QED  BY <2>1, <2>2
<1>3. Good = Nat
  <2>1. Good \in SUBSET Nat
    OBVIOUS
  <2> HIDE DEF Good
  <2> QED  BY <1>1, <1>2, <2>1, AllNumbers
<1>4. m + 1 \in Good
  BY <1>3
<1>5. \E k \in S : \A j \in S : j <= k
  BY <1>4
<1>6. PICK k \in S : \A j \in S : j <= k
  BY <1>5
<1>7. Max(S) \in S /\ \A j \in S : Max(S) >= j
  <2>1. \E k_1 \in S : \A j \in S : k_1 >= j
    BY <1>6
  <2> QED  BY <2>1, Zenon DEF Max
<1>8. PICK x : x = Max(S)
  OBVIOUS
<1>9. x \in S /\ \A j \in S : x >= j
  BY <1>7, <1>8, Zenon
<1>10. x \in S /\ \A j \in S : j <= x
  BY <1>9
<1> QED  BY <1>8, <1>10, Zenon

(* Numbers modulo a word: a multiple of it is 0, and a sum can be added modulo it. *)
LEMMA DivMod ==
  ASSUME NEW w \in Nat \ {0}, NEW a \in Int
  PROVE  /\ a = w * (a \div w) + (a % w) /\ 0 <= a % w /\ a % w < w
         /\ a \div w \in Int /\ a % w \in Int
OBVIOUS

LEMMA MulMod ==
  ASSUME NEW w \in Nat \ {0}, NEW m \in Int
  PROVE  (w * m) % w = 0
<1> DEFINE a == w * m
           q == a \div w
           r == a % w
<1>1. a = w * q + r /\ 0 <= r /\ r < w /\ q \in Int /\ r \in Int
  <2>1. a \in Int
    OBVIOUS
  <2> HIDE DEF a
  <2> QED  BY <2>1, DivMod
<1> HIDE DEF q, r
<1>2. r = w * (m - q)
  BY <1>1
<1>3. m - q < 1
  <2> SUFFICES ASSUME m - q >= 1 PROVE FALSE
    BY <1>1
  <2>1. w * (m - q) >= w
    BY <1>1
  <2> QED BY <1>1, <1>2, <2>1
<1>4. m - q > -1
  <2> SUFFICES ASSUME m - q <= -1 PROVE FALSE
    BY <1>1
  <2>1. w * (m - q) <= -w
    BY <1>1
  <2> QED BY <1>1, <1>2, <2>1
<1>5. m - q = 0
  BY <1>1, <1>3, <1>4
<1>6. r = 0
  BY <1>2, <1>5
<1> QED BY <1>6 DEF r

LEMMA ModAdd ==
  ASSUME NEW w \in Nat \ {0}, NEW d \in Int, NEW t \in Int, NEW x \in Int, (d - t) % w = 0
  PROVE  ((d + x) - (t + (x % w))) % w = 0
<1>1. PICK k \in Int : d - t = w * k
  <2>1. PICK a \in Int : a = d - t /\ a % w = 0
    OBVIOUS
  <2>2. a = w * (a \div w) + (a % w) /\ a \div w \in Int
    BY DivMod
  <2> QED  BY <2>1, <2>2
<1>2. PICK q \in Int : x = w * q + (x % w) /\ x % w \in Int
  BY DivMod
<1>3. (d + x) - (t + (x % w)) = w * k + w * q
  BY <1>1, <1>2
<1>4. w * k + w * q = w * (k + q) /\ k + q \in Int
  OBVIOUS
<1>5. (w * (k + q)) % w = 0
  BY <1>4, MulMod
<1> QED BY <1>3, <1>4, <1>5

-----------------------------------------------------------------------------
(* The parts of the type invariant: what is stored, the windows, the health. *)
Stored ==
  /\ deposit \in Seq([time : 1..MaxBlock, amount : Amounts])
  /\ claim \in [Withdrawals -> [l1 : 0..MaxBlock, claimed : 0..MaxBlock]]

Windows ==
  /\ from \in [Loop -> 0..MaxBlock] /\ to \in [Loop -> NoEnd..MaxBlock]
  /\ upset \subseteq Loop
  /\ \A c \in Loop \ upset :
       from[c] <= Newest(c) /\ to[c] \in {NoEnd} \cup from[c]..Newest(c)

Healthy ==
  /\ health \in [height : 0..height, healthy : BOOLEAN]
  /\ polls \in 0..Patience /\ lock \in {"free", "held"}
  /\ height \in 1..MaxHeight

Counts == total \in Nat /\ counted \in [Withdrawals -> Nat] /\ faults \in 0..MaxFaults

(* The deposits are in the total once. *)
DepositsInv ==
  "deposits" \notin upset => (Deposited(from["deposits"]) - total) % Word = 0

(* A withdrawal that was added is claimed, at a block that the window has passed:
   the block that is recorded for a claimed one is that of the claim. *)
ClaimsInv ==
  "claims" \notin upset =>
    \A w \in Withdrawals :
      /\ claim[w].claimed > 0 => claim[w].l1 = claim[w].claimed
      /\ counted[w] > 0 =>
           counted[w] = 1 /\ claim[w].claimed > 0 /\ claim[w].l1 <= from["claims"]

ExpInv == ExpTypeOK /\ DepositsInv /\ ClaimsInv

LEMMA ExpParts == ExpTypeOK = (Stored /\ Windows /\ Healthy /\ Counts)
  BY DEF ExpTypeOK, Stored, Windows, Healthy, Counts

LEMMA Least ==
  ASSUME NEW a \in Int, NEW b \in Int
  PROVE  Min({a, b}) \in {a, b} /\ Min({a, b}) <= a /\ Min({a, b}) <= b
<1>1. \E x \in {a, b} : \A y \in {a, b} : x <= y
  <2>1. CASE a <= b
    BY <2>1
  <2>2. CASE b <= a
    BY <2>2
  <2> QED  BY <2>1, <2>2
<1>2. Min({a, b}) \in {a, b} /\ \A y \in {a, b} : Min({a, b}) <= y
  BY <1>1, Zenon DEF Min
<1> QED  BY <1>2, Zenon

(* The newest of some rows. *)
LEMMA NewestOf ==
  ASSUME NEW T \in SUBSET (0..MaxBlock), NEW m, m = Max({0} \cup T)
  PROVE  m \in 0..MaxBlock /\ m \in {0} \cup T /\ \A j \in T : j <= m
<1>1. {0} \cup T \in SUBSET (0..MaxBlock) /\ {0} \cup T # {} /\ MaxBlock \in Nat
  BY ExporterAssumption
<1>2. m \in {0} \cup T /\ \A j \in {0} \cup T : j <= m
  BY <1>1, HasMax
<1> QED  BY <1>1, <1>2

LEMMA RowTyped ==
  ASSUME NEW d \in Seq([time : 1..MaxBlock, amount : Amounts]), NEW n \in DOMAIN d
  PROVE  d[n].time \in 1..MaxBlock /\ d[n].amount \in Amounts
<1> DEFINE R == [time : 1..MaxBlock, amount : Amounts]
<1>1. d[n] \in R
  <2>1. d \in Seq(R)
    OBVIOUS
  <2> HIDE DEF R
  <2>2. DOMAIN d = 1..Len(d) /\ d \in [1..Len(d) -> R]
    BY <2>1
  <2> QED  BY <2>2
<1> QED  BY <1>1

LEMMA NewestDeposit ==
  ASSUME NEW d \in Seq([time : 1..MaxBlock, amount : Amounts]),
         NEW m, m = Max({0} \cup {d[n].time : n \in DOMAIN d})
  PROVE  /\ m \in 0..MaxBlock /\ \A n \in DOMAIN d : d[n].time <= m
         /\ m \in {0} \cup {d[n].time : n \in DOMAIN d}
<1>1. PICK T : T = {d[n].time : n \in DOMAIN d}
  OBVIOUS
<1>2. T \in SUBSET (0..MaxBlock)
  <2>1. \A n \in DOMAIN d : d[n].time \in 0..MaxBlock
    <3>1. \A n \in DOMAIN d : d[n].time \in 1..MaxBlock
      BY RowTyped
    <3> QED  BY <3>1, ExporterAssumption
  <2> QED  BY <1>1, <2>1
<1>3. m \in 0..MaxBlock /\ m \in {0} \cup T /\ \A j \in T : j <= m
  BY <1>1, <1>2, NewestOf
<1> QED  BY <1>1, <1>3

LEMMA NewestClaim ==
  ASSUME NEW e \in [Withdrawals -> [l1 : 0..MaxBlock, claimed : 0..MaxBlock]],
         NEW m, m = Max({0} \cup {e[w].l1 : w \in Withdrawals})
  PROVE  /\ m \in 0..MaxBlock /\ \A w \in Withdrawals : e[w].l1 <= m
         /\ m \in {0} \cup {e[w].l1 : w \in Withdrawals}
<1>1. PICK T : T = {e[w].l1 : w \in Withdrawals}
  OBVIOUS
<1>2. T \in SUBSET (0..MaxBlock)
  BY <1>1
<1>3. m \in 0..MaxBlock /\ m \in {0} \cup T /\ \A j \in T : j <= m
  BY <1>1, <1>2, NewestOf
<1> QED  BY <1>1, <1>3

LEMMA NewestTyped == Stored => \A c \in Loop : Newest(c) \in 0..MaxBlock
<1> SUFFICES ASSUME Stored, NEW c \in Loop PROVE Newest(c) \in 0..MaxBlock
  OBVIOUS
<1>1. CASE c = "deposits"
  <2>1. Newest(c) = Max({0} \cup {deposit[n].time : n \in DOMAIN deposit})
    BY <1>1 DEF Newest
  <2> QED  BY <2>1, NewestDeposit DEF Stored
<1>2. CASE c = "claims"
  <2>1. Newest(c) = Max({0} \cup {claim[w].l1 : w \in Withdrawals})
    BY <1>2 DEF Newest
  <2> QED  BY <2>1, NewestClaim DEF Stored
<1> QED  BY <1>1, <1>2 DEF Loop

(* The rows up to a time: a finite set, of amounts that are numbers. *)
Upto(d, b) == {n \in DOMAIN d : d[n].time <= b}

LEMMA RowsFinite ==
  ASSUME NEW d \in Seq([time : 1..MaxBlock, amount : Amounts]), NEW A \in SUBSET DOMAIN d
  PROVE  IsFiniteSet(A) /\ \A n \in A : d[n].amount \in Nat /\ d[n].time \in Nat
<1>1. DOMAIN d = 1..Len(d) /\ Len(d) \in Nat
  OBVIOUS
<1>2. IsFiniteSet(1..Len(d))
  BY <1>1, FS_Interval
<1>3. IsFiniteSet(A)
  BY <1>1, <1>2, FS_Subset
<1>4. \A n \in DOMAIN d : d[n].amount \in Amounts /\ d[n].time \in 1..MaxBlock
  BY RowTyped
<1>5. Amounts \subseteq Nat /\ MaxBlock \in Nat
  BY ExporterAssumption
<1>6. ASSUME NEW n \in A PROVE d[n].amount \in Nat /\ d[n].time \in Nat
  <2>1. d[n].amount \in Amounts /\ d[n].time \in 1..MaxBlock
    BY <1>4
  <2>2. (\A a \in Amounts : a \in Nat) /\ \A t \in 1..MaxBlock : t \in Nat
    BY <1>5
  <2> QED  BY <2>1, <2>2, Zenon
<1> QED  BY <1>3, <1>6

LEMMA ExpInitial == ExpInit => ExpInv
<1> SUFFICES ASSUME ExpInit PROVE ExpInv
  OBVIOUS
<1>1. Stored /\ Healthy /\ Counts
  BY ExporterAssumption DEF ExpInit, NewHealth, Stored, Healthy, Counts
<1>2. \A c \in Loop : Newest(c) \in 0..MaxBlock
  BY <1>1, NewestTyped
<1>3. Windows
  BY <1>2, ExporterAssumption DEF ExpInit, NewHealth, Windows, NoEnd
<1>4. DepositsInv
  <2>1. Deposited(0) = AmountOf(deposit, {})
    <3>1. {n \in DOMAIN deposit : deposit[n].time <= 0} = {}
      BY DEF ExpInit, NewHealth
    <3> QED  BY <3>1 DEF Deposited
  <2>2. AmountOf(deposit, {}) = 0
    <3>1. PICK d : d = deposit
      OBVIOUS
    <3>2. PICK g : Sums(g, d, {}) /\ \A s \in SUBSET {} : AmountOf(d, s) = g[s]
      BY AmountIs, FS_EmptySet
    <3>3. g[{}] = 0
      BY <3>2, SumsNone
    <3> QED  BY <3>1, <3>2, <3>3
  <2>3. from["deposits"] = 0 /\ total = 0 /\ 0 % Word = 0
    BY ExporterAssumption DEF ExpInit, NewHealth, Loop
  <2>4. Deposited(from["deposits"]) = 0
    BY <2>1, <2>2, <2>3
  <2> QED  BY <2>3, <2>4 DEF DepositsInv
<1>5. ClaimsInv
  BY DEF ExpInit, NewHealth, ClaimsInv
<1> QED  BY <1>1, <1>3, <1>4, <1>5, ExpParts DEF ExpInv

(* What is not touched is kept. *)
LEMMA DepositsKept ==
  ASSUME DepositsInv, deposit' = deposit, total' = total, upset \subseteq upset',
         from'["deposits"] = from["deposits"]
  PROVE  DepositsInv'
<1> SUFFICES ASSUME "deposits" \notin upset'
             PROVE  (Deposited(from["deposits"])' - total) % Word = 0
  BY DEF DepositsInv
<1>1. PICK d, b : d = deposit /\ b = from["deposits"]
  OBVIOUS
<1>2. Deposited(b) = AmountOf(d, Upto(d, b))
  BY <1>1 DEF Deposited, Upto
<1>3. Deposited(from["deposits"])' = AmountOf(d, Upto(d, b))
  BY <1>1 DEF Deposited, Upto
<1>4. (Deposited(b) - total) % Word = 0
  BY <1>1 DEF DepositsInv
<1> QED  BY <1>2, <1>3, <1>4

LEMMA ClaimsKept ==
  ASSUME ClaimsInv, claim' = claim, counted' = counted, upset \subseteq upset',
         from'["claims"] = from["claims"]
  PROVE  ClaimsInv'
BY DEF ClaimsInv

LEMMA NewestKept == UNCHANGED tables => \A c \in Loop : Newest(c)' = Newest(c)
BY DEF tables, Newest

(* The steps that store nothing and count nothing: of the polls, of the window's end
   and of a query that fails. *)
LEMMA SequencerStep ==
  ASSUME ExpInv, NewHeight \/ Poll \/ PollFails \/ PollGarbled
  PROVE  ExpInv'
<1>1. Stored /\ Windows /\ Healthy /\ Counts /\ DepositsInv /\ ClaimsInv
  BY ExpParts DEF ExpInv
<1>2. UNCHANGED <<tables, counters>>
  BY DEF NewHeight, Poll, PollFails, PollGarbled, RestUnchanged
<1>3. /\ deposit' = deposit /\ claim' = claim /\ from' = from /\ to' = to /\ total' = total
      /\ counted' = counted /\ upset' = upset
  BY <1>2 DEF tables, counters
<1>4. Stored' /\ DepositsInv' /\ ClaimsInv'
  BY <1>1, <1>3, DepositsKept, ClaimsKept DEF Stored
<1>5. Windows'
  <2>1. \A c \in Loop : Newest(c)' = Newest(c)
    BY <1>2, NewestKept
  <2> QED  BY <1>1, <1>3, <2>1 DEF Windows
<1>6. Counts'
  <2>1. faults' = faults \/ (faults < MaxFaults /\ faults' = faults + 1)
    BY DEF NewHeight, Poll, PollFails, PollGarbled, RestUnchanged
  <2> QED  BY <1>1, <1>3, <2>1, ExporterAssumption DEF Counts
<1>7. Healthy'
  <2>1. /\ health.height \in 0..height /\ health.healthy \in BOOLEAN
        /\ health = [height |-> health.height, healthy |-> health.healthy]
        /\ polls \in 0..Patience /\ Patience \in Nat /\ height \in 1..MaxHeight
        /\ MaxHeight \in Nat
    BY <1>1, ExporterAssumption DEF Healthy
  <2>2. Min({polls + 1, Patience}) \in 0..Patience
    <3>1. polls + 1 \in Int /\ Patience \in Int
      BY <2>1
    <3>2. /\ Min({polls + 1, Patience}) \in {polls + 1, Patience}
          /\ Min({polls + 1, Patience}) <= Patience
      BY <3>1, Least
    <3> QED  BY <2>1, <3>2
  <2>3. CASE NewHeight
    <3>1. /\ health' = health /\ polls' = polls /\ lock' = lock /\ height' = height + 1
          /\ height < MaxHeight
      BY <2>3 DEF NewHeight
    <3> QED  BY <1>1, <2>1, <3>1 DEF Healthy
  <2>4. CASE Poll
    <3>1. height' = height /\ lock' = lock /\ lock = "free"
      BY <2>4 DEF Poll, RestUnchanged
    <3>2. CASE height = health.height
      <4>1. /\ polls' = Min({polls + 1, Patience})
            /\ health' = [health EXCEPT !.healthy = @ /\ polls' < Patience]
        BY <2>4, <3>2 DEF Poll
      <4>2. PICK h \in BOOLEAN : h = (health.healthy /\ polls' < Patience)
        OBVIOUS
      <4>3. health' = [health EXCEPT !.healthy = h]
        BY <4>1, <4>2, Zenon
      <4>4. health' \in [height : 0..height, healthy : BOOLEAN]
        BY <2>1, <4>3
      <4> QED  BY <1>1, <2>1, <2>2, <3>1, <4>1, <4>4 DEF Healthy
    <3>3. CASE height # health.height
      <4>1. polls' = 0 /\ health' = [height |-> height, healthy |-> TRUE]
        BY <2>4, <3>3 DEF Poll
      <4> QED  BY <1>1, <2>1, <3>1, <4>1 DEF Healthy
    <3> QED  BY <3>2, <3>3
  <2>5. CASE PollFails
    <3>1. /\ health' = [health EXCEPT !.healthy = FALSE] /\ height' = height /\ lock' = lock
          /\ polls' = Min({polls + 1, Patience})
      BY <2>5 DEF PollFails, RestUnchanged
    <3>2. health' \in [height : 0..height, healthy : BOOLEAN]
      BY <2>1, <3>1
    <3> QED  BY <1>1, <2>1, <2>2, <3>1, <3>2 DEF Healthy
  <2>6. CASE PollGarbled
    <3>1. height' = height /\ health' = health /\ polls' = polls /\ lock' = "held"
      BY <2>6 DEF PollGarbled, RestUnchanged
    <3> QED  BY <1>1, <3>1 DEF Healthy
  <2> QED  BY <2>3, <2>4, <2>5, <2>6
<1>8. ExpTypeOK'
  BY <1>4, <1>5, <1>6, <1>7 DEF ExpTypeOK, Stored, Windows, Healthy, Counts
<1> QED  BY <1>4, <1>8 DEF ExpInv

LEMMA HealthKept == ASSUME Healthy, UNCHANGED sequencer PROVE Healthy'
BY DEF Healthy, sequencer

LEMMA WindowStep ==
  ASSUME ExpInv, NEW c \in Loop, ReadEnd(c) \/ EndUnread(c) \/ QueryFails(c)
  PROVE  ExpInv'
<1>1. Stored /\ Windows /\ Healthy /\ Counts /\ DepositsInv /\ ClaimsInv
  BY ExpParts DEF ExpInv
<1>2. /\ UNCHANGED <<tables, from, total, counted, sequencer>>
      /\ upset \subseteq upset'
  BY DEF ReadEnd, EndUnread, QueryFails
<1>3. /\ deposit' = deposit /\ claim' = claim /\ from' = from /\ total' = total
      /\ counted' = counted
  BY <1>2 DEF tables
<1>4. Stored' /\ DepositsInv' /\ ClaimsInv' /\ Healthy'
  BY <1>1, <1>2, <1>3, DepositsKept, ClaimsKept, HealthKept DEF Stored
<1>5. Counts'
  <2>1. faults' = faults \/ (faults < MaxFaults /\ faults' = faults + 1)
    BY DEF ReadEnd, EndUnread, QueryFails
  <2> QED  BY <1>1, <1>3, <2>1, ExporterAssumption DEF Counts
<1>6. Windows'
  <2>1. \A x \in Loop : Newest(x)' = Newest(x) /\ Newest(x) \in 0..MaxBlock
    BY <1>1, <1>2, NewestKept, NewestTyped
  <2>2. /\ from \in [Loop -> 0..MaxBlock] /\ to \in [Loop -> NoEnd..MaxBlock]
        /\ upset \subseteq Loop
        /\ \A x \in Loop \ upset :
             from[x] <= Newest(x) /\ to[x] \in {NoEnd} \cup from[x]..Newest(x)
    BY <1>1 DEF Windows
  <2>3. NoEnd = -1 /\ MaxBlock \in Nat
    BY ExporterAssumption DEF NoEnd
  <2>4. CASE ReadEnd(c)
    <3>1. to' = [to EXCEPT ![c] = Newest(c)] /\ upset' = upset
      BY <2>4 DEF ReadEnd
    <3>2. to' \in [Loop -> NoEnd..MaxBlock]
      BY <2>1, <2>2, <2>3, <3>1
    <3>3. ASSUME NEW x \in Loop \ upset
          PROVE  from[x] <= Newest(x) /\ to'[x] \in {NoEnd} \cup from[x]..Newest(x)
      <4>1. from[x] \in 0..MaxBlock /\ from[x] <= Newest(x)
        BY <2>2
      <4>2. to'[x] = IF x = c THEN Newest(x) ELSE to[x]
        BY <2>2, <3>1
      <4> QED  BY <2>1, <2>2, <4>1, <4>2
    <3> QED  BY <1>3, <2>1, <2>2, <3>1, <3>2, <3>3 DEF Windows
  <2>5. CASE EndUnread(c)
    <3>1. to' = [to EXCEPT ![c] = 0] /\ upset' = upset \cup {c}
      BY <2>5 DEF EndUnread
    <3>2. to' \in [Loop -> NoEnd..MaxBlock]
      BY <2>2, <2>3, <3>1
    <3>3. \A x \in Loop \ upset' : x \in Loop \ upset /\ to'[x] = to[x]
      BY <2>2, <3>1
    <3> QED  BY <1>3, <2>1, <2>2, <3>1, <3>2, <3>3 DEF Windows
  <2>6. CASE QueryFails(c)
    <3>1. to' = [to EXCEPT ![c] = NoEnd] /\ upset' = upset
      BY <2>6 DEF QueryFails
    <3>2. to' \in [Loop -> NoEnd..MaxBlock]
      BY <2>2, <2>3, <3>1
    <3>3. \A x \in Loop \ upset : to'[x] \in {NoEnd, to[x]}
      BY <2>2, <3>1
    <3> QED  BY <1>3, <2>1, <2>2, <3>1, <3>2, <3>3 DEF Windows
  <2> QED  BY <2>4, <2>5, <2>6
<1>7. ExpTypeOK'
  BY <1>4, <1>5, <1>6 DEF ExpTypeOK, Stored, Windows, Healthy, Counts
<1> QED  BY <1>4, <1>7 DEF ExpInv

(* A deposit that comes is newer than what the window has reached. *)
LEMMA DepositStep == ASSUME ExpInv, Deposit PROVE ExpInv'
<1>1. Stored /\ Windows /\ Healthy /\ Counts /\ DepositsInv /\ ClaimsInv
  BY ExpParts DEF ExpInv
<1>2. PICK t \in 1..MaxBlock, a \in Amounts :
        /\ \A n \in DOMAIN deposit : deposit[n].time < t
        /\ deposit' = Append(deposit, [time |-> t, amount |-> a])
  BY DEF Deposit
<1>3. /\ UNCHANGED sequencer /\ claim' = claim /\ from' = from /\ to' = to /\ total' = total
      /\ counted' = counted /\ upset' = upset /\ faults' = faults
  BY DEF Deposit, counters
<1>4. PICK d, e, b, m : /\ d = deposit /\ e = deposit' /\ b = from["deposits"]
                        /\ m = Newest("deposits")
  OBVIOUS
<1>5. /\ d \in Seq([time : 1..MaxBlock, amount : Amounts])
      /\ e = Append(d, [time |-> t, amount |-> a])
      /\ b \in 0..MaxBlock /\ MaxBlock \in Nat
  BY <1>1, <1>2, <1>4, ExporterAssumption DEF Stored, Windows, Loop
<1>6. /\ e \in Seq([time : 1..MaxBlock, amount : Amounts])
      /\ DOMAIN e = DOMAIN d \cup {Len(d) + 1} /\ \A n \in DOMAIN d : e[n] = d[n]
      /\ e[Len(d) + 1].time = t
  <2>1. PICK row \in [time : 1..MaxBlock, amount : Amounts] :
          row = [time |-> t, amount |-> a]
    OBVIOUS
  <2>2. PICK R : R = [time : 1..MaxBlock, amount : Amounts]
    OBVIOUS
  <2>3. d \in Seq(R) /\ row \in R /\ e = Append(d, row)
    BY <1>5, <2>1, <2>2
  <2>4. e \in Seq(R) /\ Len(e) = Len(d) + 1 /\ DOMAIN e = 1..(Len(d) + 1)
        /\ DOMAIN d = 1..Len(d) /\ Len(d) \in Nat
        /\ (\A n \in 1..Len(d) : e[n] = d[n]) /\ e[Len(d) + 1] = row
    BY <2>3
  <2> QED  BY <2>1, <2>2, <2>4
<1>7. /\ m \in 0..MaxBlock /\ \A n \in DOMAIN d : d[n].time <= m
      /\ m \in {0} \cup {d[n].time : n \in DOMAIN d}
  <2>1. m = Max({0} \cup {d[n].time : n \in DOMAIN d})
    BY <1>4 DEF Newest
  <2> QED  BY <1>5, <2>1, NewestDeposit
<1>8. m < t
  BY <1>2, <1>4, <1>7
<1>9. PICK k : k = Newest("deposits")'
  OBVIOUS
<1>10. /\ k \in 0..MaxBlock /\ \A n \in DOMAIN e : e[n].time <= k
  <2>1. k = Max({0} \cup {e[n].time : n \in DOMAIN e})
    BY <1>4, <1>9 DEF Newest
  <2> QED  BY <1>6, <2>1, NewestDeposit
<1>11. m <= k
  BY <1>6, <1>7, <1>8, <1>10
<1>12. Stored' /\ Healthy' /\ Counts' /\ ClaimsInv'
  <2>1. Stored'
    BY <1>1, <1>3, <1>4, <1>6 DEF Stored
  <2>2. Healthy' /\ Counts' /\ ClaimsInv'
    BY <1>1, <1>3, HealthKept, ClaimsKept DEF Counts
  <2> QED  BY <2>1, <2>2
<1>13. Windows'
  <2>1. Newest("claims")' = Newest("claims")
    BY <1>3 DEF Newest
  <2>2. /\ from \in [Loop -> 0..MaxBlock] /\ to \in [Loop -> NoEnd..MaxBlock]
        /\ upset \subseteq Loop
        /\ \A x \in Loop \ upset :
             from[x] <= Newest(x) /\ to[x] \in {NoEnd} \cup from[x]..Newest(x)
    BY <1>1 DEF Windows
  <2>3. ASSUME NEW x \in Loop \ upset
        PROVE  from[x] <= Newest(x)' /\ to[x] \in {NoEnd} \cup from[x]..(Newest(x)')
    <3>1. CASE x = "claims"
      BY <2>1, <2>2, <3>1
    <3>2. CASE x = "deposits"
      <4>1. from[x] <= m /\ to[x] \in {NoEnd} \cup from[x]..m /\ from[x] \in 0..MaxBlock
        BY <1>4, <2>2, <3>2
      <4>2. from[x] <= k /\ to[x] \in {NoEnd} \cup from[x]..k
        BY <1>7, <1>10, <1>11, <4>1
      <4> QED  BY <1>9, <3>2, <4>2
    <3> QED  BY <3>1, <3>2 DEF Loop
  <2> QED  BY <1>3, <2>2, <2>3 DEF Windows
<1>14. DepositsInv'
  <2> SUFFICES ASSUME "deposits" \notin upset
               PROVE  (Deposited(from["deposits"])' - total) % Word = 0
    BY <1>3 DEF DepositsInv
  <2>1. b <= m
    BY <1>1, <1>4 DEF Windows, Loop
  <2>2. Upto(e, b) = Upto(d, b)
    BY <1>5, <1>6, <1>7, <1>8, <2>1 DEF Upto
  <2>3. AmountOf(d, Upto(d, b)) = AmountOf(e, Upto(d, b))
    <3>1. PICK A : A = Upto(d, b)
      OBVIOUS
    <3>2. A \in SUBSET DOMAIN d
      BY <3>1 DEF Upto
    <3>3. IsFiniteSet(A) /\ \A n \in A : d[n].amount \in Nat
      BY <1>5, <3>2, RowsFinite
    <3>4. \A n \in A : d[n].amount \in Int /\ d[n].amount = e[n].amount
      BY <1>6, <3>2, <3>3
    <3> QED  BY <3>1, <3>3, <3>4, AmountSame
  <2>4. Deposited(b) = AmountOf(d, Upto(d, b))
    BY <1>4 DEF Deposited, Upto
  <2>5. Deposited(from["deposits"])' = AmountOf(e, Upto(e, b))
    BY <1>3, <1>4 DEF Deposited, Upto
  <2>6. (Deposited(b) - total) % Word = 0
    BY <1>1, <1>4 DEF DepositsInv
  <2> QED  BY <2>2, <2>3, <2>4, <2>5, <2>6
<1>15. ExpTypeOK'
  BY <1>12, <1>13 DEF ExpTypeOK, Stored, Windows, Healthy, Counts
<1> QED  BY <1>12, <1>14, <1>15 DEF ExpInv

(* The sum over a window is what is missing in the total, up to the word. *)
LEMMA AddDepositsStep == ASSUME ExpInv, AddDeposits PROVE ExpInv'
<1>1. Stored /\ Windows /\ Healthy /\ Counts /\ DepositsInv /\ ClaimsInv
  BY ExpParts DEF ExpInv
<1>2. /\ to["deposits"] # NoEnd
      /\ total' = total + (AmountOf(deposit, Windowed) % Word)
      /\ from' = [from EXCEPT !["deposits"] = to["deposits"]]
      /\ to' = [to EXCEPT !["deposits"] = NoEnd]
      /\ UNCHANGED <<tables, counted, upset, sequencer, faults>>
  BY DEF AddDeposits, Advance
<1>3. deposit' = deposit /\ claim' = claim
  BY <1>2 DEF tables
<1>4. PICK d, b, f, W : /\ d = deposit /\ b = from["deposits"] /\ f = to["deposits"]
                        /\ W = Windowed
  OBVIOUS
<1>5. /\ d \in Seq([time : 1..MaxBlock, amount : Amounts])
      /\ b \in 0..MaxBlock /\ f \in 0..MaxBlock /\ MaxBlock \in Nat
      /\ from' \in [Loop -> 0..MaxBlock] /\ to' \in [Loop -> NoEnd..MaxBlock]
      /\ from'["deposits"] = f /\ to'["deposits"] = NoEnd
      /\ from'["claims"] = from["claims"] /\ to'["claims"] = to["claims"]
  <2>1. /\ from \in [Loop -> 0..MaxBlock] /\ to \in [Loop -> NoEnd..MaxBlock]
        /\ "deposits" \in Loop /\ "claims" \in Loop /\ MaxBlock \in Nat /\ NoEnd = -1
    BY <1>1, ExporterAssumption DEF Windows, Loop, NoEnd
  <2>2. f \in 0..MaxBlock
    BY <1>2, <1>4, <2>1
  <2> QED  BY <1>1, <1>2, <1>4, <2>1, <2>2 DEF Stored
<1>6. W = {n \in DOMAIN d : b < d[n].time /\ d[n].time <= f}
  BY <1>4 DEF Windowed, In
<1>7. PICK A : A = Upto(d, b)
  OBVIOUS
<1>8. /\ IsFiniteSet(A) /\ IsFiniteSet(W) /\ A \cap W = {}
      /\ \A n \in A \cup W : d[n].amount \in Nat
  <2>1. A \in SUBSET DOMAIN d /\ W \in SUBSET DOMAIN d
    BY <1>6, <1>7 DEF Upto
  <2>2. /\ IsFiniteSet(A) /\ IsFiniteSet(W)
        /\ \A n \in A : d[n].amount \in Nat /\ d[n].time \in Nat
        /\ \A n \in W : d[n].amount \in Nat /\ d[n].time \in Nat
    BY <1>5, <2>1, RowsFinite
  <2>3. A \cap W = {}
    BY <1>5, <1>6, <1>7, <2>2 DEF Upto
  <2> QED  BY <2>2, <2>3
<1>9. PICK x, y, z : x = AmountOf(d, A) /\ y = AmountOf(d, W) /\ z = AmountOf(d, A \cup W)
  OBVIOUS
<1>10. z = x + y /\ x \in Nat /\ y \in Nat
  BY <1>8, <1>9, AmountUnion
<1>11. total' = total + (y % Word) /\ y % Word \in Nat /\ total \in Nat /\ Word \in Nat \ {0}
  <2>1. total \in Nat /\ Word \in Nat \ {0}
    BY <1>1, ExporterAssumption DEF Counts
  <2>2. y % Word \in Nat
    BY <1>10, <2>1, DivMod
  <2> QED  BY <1>2, <1>4, <1>9, <2>1, <2>2
<1>12. Stored' /\ Healthy' /\ Counts' /\ ClaimsInv'
  <2>1. Stored' /\ Healthy'
    BY <1>1, <1>2, <1>3, HealthKept DEF Stored
  <2>2. total' \in Nat
    BY <1>11
  <2>3. Counts'
    BY <1>1, <1>2, <2>2 DEF Counts
  <2>4. ClaimsInv'
    BY <1>1, <1>2, <1>3, <1>5, ClaimsKept
  <2> QED  BY <2>1, <2>3, <2>4
<1>13. Windows'
  <2>1. \A c \in Loop : Newest(c)' = Newest(c)
    BY <1>2, NewestKept
  <2>2. upset \subseteq Loop /\ \A c \in Loop \ upset :
          from[c] <= Newest(c) /\ to[c] \in {NoEnd} \cup from[c]..Newest(c)
    BY <1>1 DEF Windows
  <2>3. ASSUME NEW c \in Loop \ upset
        PROVE  from'[c] <= Newest(c) /\ to'[c] \in {NoEnd} \cup (from'[c])..Newest(c)
    <3>1. CASE c = "claims"
      BY <1>5, <2>2, <3>1
    <3>2. CASE c = "deposits"
      <4>1. f \in b..Newest(c)
        BY <1>2, <1>4, <2>2, <3>2
      <4>2. f <= Newest(c)
        BY <1>5, <4>1
      <4> QED  BY <1>5, <3>2, <4>2
    <3> QED  BY <3>1, <3>2 DEF Loop
  <2> QED  BY <1>2, <1>5, <2>1, <2>2, <2>3 DEF Windows
<1>14. DepositsInv'
  <2> SUFFICES ASSUME "deposits" \notin upset
               PROVE  (Deposited(from["deposits"])' - total') % Word = 0
    BY <1>2 DEF DepositsInv
  <2>1. b <= f
    <3>1. f \in b..Newest("deposits")
      BY <1>1, <1>2, <1>4 DEF Windows, Loop
    <3> QED  BY <1>5, <3>1
  <2>2. Upto(d, f) = A \cup W
    <3>1. \A n \in DOMAIN d : d[n].time \in Nat
      BY <1>5, RowsFinite
    <3> QED  BY <1>5, <1>6, <1>7, <2>1, <3>1 DEF Upto
  <2>3. Deposited(from["deposits"])' = AmountOf(d, Upto(d, f))
    BY <1>3, <1>4, <1>5 DEF Deposited, Upto
  <2>4. Deposited(b) = AmountOf(d, Upto(d, b))
    BY <1>4 DEF Deposited, Upto
  <2>5. (x - total) % Word = 0
    BY <1>1, <1>4, <1>7, <1>9, <2>4 DEF DepositsInv
  <2>6. ((x + y) - (total + (y % Word))) % Word = 0
    <3>1. x \in Int /\ y \in Int /\ total \in Int /\ Word \in Nat \ {0}
      BY <1>10, <1>11
    <3> QED  BY <2>5, <3>1, ModAdd
  <2> QED  BY <1>9, <1>10, <1>11, <2>2, <2>3, <2>6
<1>15. ExpTypeOK'
  BY <1>12, <1>13 DEF ExpTypeOK, Stored, Windows, Healthy, Counts
<1> QED  BY <1>12, <1>14, <1>15 DEF ExpInv

(* A withdrawal whose block is in the window was not counted before. *)
LEMMA AddClaimsStep == ASSUME ExpInv, AddClaims PROVE ExpInv'
<1>1. Stored /\ Windows /\ Healthy /\ Counts /\ DepositsInv /\ ClaimsInv
  BY ExpParts DEF ExpInv
<1>2. /\ to["claims"] # NoEnd
      /\ counted' = [w \in Withdrawals |->
           IF claim[w].claimed > 0 /\ In(claim[w].l1, "claims") THEN counted[w] + 1 ELSE counted[w]]
      /\ from' = [from EXCEPT !["claims"] = to["claims"]]
      /\ to' = [to EXCEPT !["claims"] = NoEnd]
      /\ UNCHANGED <<tables, total, upset, sequencer, faults>>
  BY DEF AddClaims, Advance
<1>3. deposit' = deposit /\ claim' = claim
  BY <1>2 DEF tables
<1>4. PICK b, f : b = from["claims"] /\ f = to["claims"]
  OBVIOUS
<1>5. /\ b \in 0..MaxBlock /\ f \in 0..MaxBlock /\ MaxBlock \in Nat
      /\ from' \in [Loop -> 0..MaxBlock] /\ to' \in [Loop -> NoEnd..MaxBlock]
      /\ from'["claims"] = f /\ to'["claims"] = NoEnd
      /\ from'["deposits"] = from["deposits"] /\ to'["deposits"] = to["deposits"]
  <2>1. /\ from \in [Loop -> 0..MaxBlock] /\ to \in [Loop -> NoEnd..MaxBlock]
        /\ "deposits" \in Loop /\ "claims" \in Loop /\ MaxBlock \in Nat /\ NoEnd = -1
    BY <1>1, ExporterAssumption DEF Windows, Loop, NoEnd
  <2>2. f \in 0..MaxBlock
    BY <1>2, <1>4, <2>1
  <2> QED  BY <1>2, <1>4, <2>1, <2>2
<1>6. Stored' /\ Healthy' /\ Counts' /\ DepositsInv'
  <2>1. Stored' /\ Healthy'
    BY <1>1, <1>2, <1>3, HealthKept DEF Stored
  <2>2. counted' \in [Withdrawals -> Nat]
    BY <1>1, <1>2 DEF Counts
  <2>3. Counts'
    BY <1>1, <1>2, <2>2 DEF Counts
  <2>4. DepositsInv'
    BY <1>1, <1>2, <1>3, <1>5, DepositsKept
  <2> QED  BY <2>1, <2>3, <2>4
<1>7. "claims" \in upset \/ (b <= f /\ f <= Newest("claims"))
  <2>1. f \in b..Newest("claims") \/ "claims" \in upset
    BY <1>1, <1>2, <1>4 DEF Windows, Loop
  <2> QED  BY <1>5, <2>1
<1>8. Windows'
  <2>1. \A c \in Loop : Newest(c)' = Newest(c)
    BY <1>2, NewestKept
  <2>2. upset \subseteq Loop /\ \A c \in Loop \ upset :
          from[c] <= Newest(c) /\ to[c] \in {NoEnd} \cup from[c]..Newest(c)
    BY <1>1 DEF Windows
  <2>3. ASSUME NEW c \in Loop \ upset
        PROVE  from'[c] <= Newest(c) /\ to'[c] \in {NoEnd} \cup (from'[c])..Newest(c)
    <3>1. CASE c = "deposits"
      BY <1>5, <2>2, <3>1
    <3>2. CASE c = "claims"
      BY <1>5, <1>7, <3>2
    <3> QED  BY <3>1, <3>2 DEF Loop
  <2> QED  BY <1>2, <1>5, <2>1, <2>2, <2>3 DEF Windows
<1>9. ClaimsInv'
  <2> SUFFICES ASSUME "claims" \notin upset, NEW w \in Withdrawals
               PROVE  /\ claim[w].claimed > 0 => claim[w].l1 = claim[w].claimed
                      /\ counted'[w] > 0 =>
                           counted'[w] = 1 /\ claim[w].claimed > 0 /\ claim[w].l1 <= f
    BY <1>2, <1>3, <1>5 DEF ClaimsInv
  <2>1. /\ claim[w].claimed > 0 => claim[w].l1 = claim[w].claimed
        /\ counted[w] > 0 => counted[w] = 1 /\ claim[w].claimed > 0 /\ claim[w].l1 <= b
    BY <1>1, <1>4 DEF ClaimsInv
  <2>2. counted[w] \in Nat /\ claim[w].l1 \in Nat
    BY <1>1, <1>5 DEF Counts, Stored
  <2>3. counted'[w] = IF claim[w].claimed > 0 /\ b < claim[w].l1 /\ claim[w].l1 <= f
                      THEN counted[w] + 1 ELSE counted[w]
    BY <1>2, <1>4 DEF In
  <2>4. b <= f
    BY <1>7
  <2>5. CASE claim[w].claimed > 0 /\ b < claim[w].l1 /\ claim[w].l1 <= f
    <3>1. counted[w] = 0
      BY <1>5, <2>1, <2>2, <2>5
    <3> QED  BY <2>1, <2>3, <2>5, <3>1
  <2>6. CASE ~ (claim[w].claimed > 0 /\ b < claim[w].l1 /\ claim[w].l1 <= f)
    <3>1. counted'[w] = counted[w]
      BY <2>3, <2>6
    <3>2. claim[w].l1 <= b => claim[w].l1 <= f
      BY <1>5, <2>2, <2>4
    <3> QED  BY <2>1, <3>1, <3>2
  <2> QED  BY <2>5, <2>6
<1>10. ExpTypeOK'
  BY <1>6, <1>8 DEF ExpTypeOK, Stored, Windows, Healthy, Counts
<1> QED  BY <1>6, <1>9, <1>10 DEF ExpInv

(* A claim is recorded once; what is recorded after it puts the row back. *)
LEMMA RecordStep ==
  ASSUME ExpInv, NEW w \in Withdrawals, RecordProof(w) \/ RecordClaim(w)
  PROVE  ExpInv'
<1>1. Stored /\ Windows /\ Healthy /\ Counts /\ DepositsInv /\ ClaimsInv
  BY ExpParts DEF ExpInv
<1>2. PICK b, x :
        /\ b \in 1..MaxBlock /\ Record(w, b, x)
        /\ \/ x = claim[w].claimed /\ (claim[w].claimed > 0 => b < claim[w].claimed)
           \/ x = b /\ IF claim[w].claimed > 0 THEN b = claim[w].claimed ELSE b > claim[w].l1
  <2>1. CASE RecordProof(w)
    BY <2>1 DEF RecordProof
  <2>2. CASE RecordClaim(w)
    BY <2>2 DEF RecordClaim
  <2> QED  BY <2>1, <2>2
<1>3. /\ claim' = [claim EXCEPT ![w] = [l1 |-> b, claimed |-> x]]
      /\ deposit' = deposit /\ from' = from /\ to' = to /\ total' = total
      /\ counted' = counted /\ UNCHANGED sequencer
      /\ \/ b < claim[w].l1 /\ faults < MaxFaults /\ faults' = faults + 1
            /\ upset' = upset \cup {"claims"}
         \/ ~ (b < claim[w].l1) /\ upset' = upset /\ faults' = faults
  BY <1>2 DEF Record
<1>4. PICK e, h : e = claim /\ h = claim'
  OBVIOUS
<1>5. /\ e \in [Withdrawals -> [l1 : 0..MaxBlock, claimed : 0..MaxBlock]]
      /\ h = [e EXCEPT ![w] = [l1 |-> b, claimed |-> x]]
      /\ b \in 1..MaxBlock /\ x \in 0..MaxBlock /\ MaxBlock \in Nat
      /\ upset \subseteq upset' /\ upset' \subseteq Loop
      /\ "deposits" \in upset' => "deposits" \in upset
  <2>1. /\ e \in [Withdrawals -> [l1 : 0..MaxBlock, claimed : 0..MaxBlock]]
        /\ h = [e EXCEPT ![w] = [l1 |-> b, claimed |-> x]]
    BY <1>1, <1>3, <1>4 DEF Stored
  <2>2. MaxBlock \in Nat /\ b \in 1..MaxBlock /\ e[w].claimed \in 0..MaxBlock
    BY <1>2, <2>1, ExporterAssumption
  <2>3. x \in 0..MaxBlock
    BY <1>2, <1>4, <2>2
  <2>4. /\ upset \subseteq upset' /\ upset' \subseteq Loop
        /\ "deposits" \in upset' => "deposits" \in upset
    BY <1>1, <1>3 DEF Windows, Loop
  <2> QED  BY <2>1, <2>2, <2>3, <2>4
<1>6. h \in [Withdrawals -> [l1 : 0..MaxBlock, claimed : 0..MaxBlock]]
  BY <1>5
<1>7. Stored' /\ Healthy' /\ Counts' /\ DepositsInv'
  <2>1. Stored' /\ Healthy'
    BY <1>1, <1>3, <1>4, <1>6, HealthKept DEF Stored
  <2>2. Counts'
    BY <1>1, <1>3, ExporterAssumption DEF Counts
  <2>3. DepositsInv'
    BY <1>1, <1>3, <1>5, DepositsKept
  <2> QED  BY <2>1, <2>2, <2>3
<1>8. Windows'
  <2>1. Newest("deposits")' = Newest("deposits")
    BY <1>3 DEF Newest
  <2>2. /\ from \in [Loop -> 0..MaxBlock] /\ to \in [Loop -> NoEnd..MaxBlock]
        /\ \A c \in Loop \ upset :
             from[c] <= Newest(c) /\ to[c] \in {NoEnd} \cup from[c]..Newest(c)
    BY <1>1 DEF Windows
  <2>3. PICK m, k : m = Newest("claims") /\ k = Newest("claims")'
    OBVIOUS
  <2>4. m \in 0..MaxBlock /\ m \in {0} \cup {e[v].l1 : v \in Withdrawals}
    <3>1. m = Max({0} \cup {e[v].l1 : v \in Withdrawals})
      BY <1>4, <2>3 DEF Newest
    <3> QED  BY <1>5, <3>1, NewestClaim
  <2>5. k \in 0..MaxBlock /\ \A v \in Withdrawals : h[v].l1 <= k
    <3>1. k = Max({0} \cup {h[v].l1 : v \in Withdrawals})
      BY <1>4, <2>3 DEF Newest
    <3> QED  BY <1>6, <3>1, NewestClaim
  <2>6. ASSUME "claims" \notin upset' PROVE m <= k
    <3>1. ~ (b < e[w].l1)
      BY <1>3, <1>4, <2>6
    <3>2. ASSUME NEW v \in Withdrawals PROVE e[v].l1 <= h[v].l1
      <4>1. e[v].l1 \in 0..MaxBlock /\ h[v].l1 = IF v = w THEN b ELSE e[v].l1
        BY <1>5
      <4> QED  BY <1>5, <3>1, <4>1
    <3>3. ASSUME NEW v \in Withdrawals, m = e[v].l1 PROVE m <= k
      <4>1. e[v].l1 \in Int /\ h[v].l1 \in Int /\ e[v].l1 <= h[v].l1 /\ h[v].l1 <= k
        BY <1>5, <1>6, <2>5, <3>2
      <4> QED  BY <2>5, <3>3, <4>1
    <3>4. m = 0 => m <= k
      BY <2>5
    <3> QED  BY <2>4, <3>3, <3>4
  <2>7. ASSUME NEW c \in Loop \ upset'
        PROVE  from[c] <= Newest(c)' /\ to[c] \in {NoEnd} \cup from[c]..(Newest(c)')
    <3>1. CASE c = "deposits"
      BY <1>5, <2>1, <2>2, <3>1
    <3>2. CASE c = "claims"
      <4>1. from[c] <= m /\ to[c] \in {NoEnd} \cup from[c]..m /\ from[c] \in 0..MaxBlock
        BY <1>5, <2>2, <2>3, <3>2
      <4>2. from[c] <= k /\ to[c] \in {NoEnd} \cup from[c]..k
        BY <2>4, <2>5, <2>6, <2>7, <3>2, <4>1
      <4> QED  BY <2>3, <3>2, <4>2
    <3> QED  BY <3>1, <3>2 DEF Loop
  <2> QED  BY <1>3, <1>5, <2>2, <2>7 DEF Windows
<1>9. ClaimsInv'
  <2> SUFFICES ASSUME "claims" \notin upset', NEW v \in Withdrawals
               PROVE  /\ h[v].claimed > 0 => h[v].l1 = h[v].claimed
                      /\ counted[v] > 0 =>
                           counted[v] = 1 /\ h[v].claimed > 0 /\ h[v].l1 <= from["claims"]
    BY <1>3, <1>4 DEF ClaimsInv
  <2>1. /\ e[v].claimed > 0 => e[v].l1 = e[v].claimed
        /\ counted[v] > 0 =>
             counted[v] = 1 /\ e[v].claimed > 0 /\ e[v].l1 <= from["claims"]
    BY <1>1, <1>4, <1>5 DEF ClaimsInv
  <2>2. CASE v # w
    <3>1. h[v] = e[v]
      BY <1>5, <2>2
    <3> QED  BY <2>1, <3>1
  <2>3. CASE v = w
    <3>1. h[w].l1 = b /\ h[w].claimed = x /\ e[w].l1 \in 0..MaxBlock /\ e[w].claimed \in 0..MaxBlock
      BY <1>5
    <3>2. ~ (b < e[w].l1)
      BY <1>3, <1>4
    <3>3. CASE x = e[w].claimed /\ (e[w].claimed > 0 => b < e[w].claimed)
      <4>1. ~ (e[w].claimed > 0)
        BY <2>1, <2>3, <3>2, <3>3
      <4> QED  BY <2>1, <2>3, <3>1, <3>3, <4>1
    <3>4. CASE x = b /\ IF e[w].claimed > 0 THEN b = e[w].claimed ELSE b > e[w].l1
      BY <2>1, <2>3, <3>1, <3>4
    <3> QED  BY <1>2, <1>4, <3>3, <3>4
  <2> QED  BY <2>2, <2>3
<1>10. ExpTypeOK'
  BY <1>7, <1>8 DEF ExpTypeOK, Stored, Windows, Healthy, Counts
<1> QED  BY <1>7, <1>9, <1>10 DEF ExpInv

(* The windows and the counters: typed, the deposits in the total, and every
   withdrawal that was added behind the window. *)
THEOREM ExpInvariant == ExpSpec => []ExpInv
<1>1. ExpInv /\ [ExpNext]_expVars => ExpInv'
  <2> SUFFICES ASSUME ExpInv, [ExpNext]_expVars PROVE ExpInv'
    OBVIOUS
  <2>1. CASE Deposit
    BY <2>1, DepositStep
  <2>2. ASSUME NEW w \in Withdrawals, RecordProof(w) \/ RecordClaim(w) PROVE ExpInv'
    BY <2>2, RecordStep
  <2>3. ASSUME NEW c \in Loop, ReadEnd(c) \/ EndUnread(c) \/ QueryFails(c) PROVE ExpInv'
    BY <2>3, WindowStep
  <2>4. CASE AddDeposits
    BY <2>4, AddDepositsStep
  <2>5. CASE AddClaims
    BY <2>5, AddClaimsStep
  <2>6. CASE NewHeight \/ Poll \/ PollFails \/ PollGarbled
    BY <2>6, SequencerStep
  <2>7. CASE UNCHANGED expVars
    <3>1. UNCHANGED <<tables, counters, sequencer, faults>>
      BY <2>7 DEF expVars
    <3>2. /\ deposit' = deposit /\ claim' = claim /\ from' = from /\ to' = to
          /\ total' = total /\ counted' = counted /\ upset' = upset /\ faults' = faults
      BY <3>1 DEF tables, counters
    <3>3. Stored /\ Windows /\ Healthy /\ Counts /\ DepositsInv /\ ClaimsInv
      BY ExpParts DEF ExpInv
    <3>4. Stored' /\ Healthy' /\ Counts' /\ DepositsInv' /\ ClaimsInv'
      BY <3>1, <3>2, <3>3, HealthKept, DepositsKept, ClaimsKept DEF Stored, Counts
    <3>5. \A c \in Loop : Newest(c)' = Newest(c)
      BY <3>1, NewestKept
    <3>6. Windows'
      BY <3>2, <3>3, <3>5 DEF Windows
    <3>7. ExpTypeOK'
      BY <3>4, <3>6 DEF ExpTypeOK, Stored, Windows, Healthy, Counts
    <3> QED  BY <3>4, <3>7 DEF ExpInv
  <2> QED  BY <2>1, <2>2, <2>3, <2>4, <2>5, <2>6, <2>7 DEF ExpNext
<1> QED  BY <1>1, ExpInitial, PTL DEF ExpSpec

(* Whatever is stored between the two queries of a window and whichever of them
   fails, every deposit up to where the loop has come is in the total once, but for
   multiples of the word, and no withdrawal is added twice, unless the newest row
   could not be read or a row was set back. *)
THEOREM ExpCountedOnce == ExpSpec => []CountedOnce
<1>1. ExpInv => CountedOnce
  <2> SUFFICES ASSUME ExpInv PROVE CountedOnce
    OBVIOUS
  <2>1. ASSUME "claims" \notin upset, NEW w \in Withdrawals
        PROVE  counted[w] <= (IF claim[w].claimed > 0 THEN 1 ELSE 0)
    <3>1. counted[w] \in Nat
      BY ExpParts DEF ExpInv, Counts
    <3>2. counted[w] > 0 => counted[w] = 1 /\ claim[w].claimed > 0
      BY <2>1 DEF ExpInv, ClaimsInv
    <3>3. CASE counted[w] = 0
      BY <3>3
    <3>4. CASE counted[w] # 0
      BY <3>1, <3>2, <3>4
    <3> QED  BY <3>3, <3>4
  <2> QED  BY <2>1 DEF ExpInv, DepositsInv, CountedOnce
<1> QED  BY <1>1, ExpInvariant, PTL

=============================================================================
