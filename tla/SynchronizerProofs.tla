------------------------- MODULE SynchronizerProofs -------------------------
(***************************************************************************)
(* Theorems about the two synchronizers, for every chain, buffer size,      *)
(* start height and number of attempts.  First what their shared steps       *)
(* preserve: one lemma per group of actions and invariant; then L1, then L2. *)
(***************************************************************************)
EXTENDS L1Sync, L2Sync, TLAPS

-----------------------------------------------------------------------------
(* What Clamp returns when nothing leaves the width of a machine word. *)

(* A number below the word size is its own low word. *)
LEMMA SmallWord ==
  ASSUME NEW x \in Nat, x < WordSize
  PROVE  x % WordSize = x
  BY WordAssumption

(* The range that Clamp cuts off is not empty, ends at `end` at the latest and
   holds at most `size` heights. *)
THEOREM ClampBounds ==
  ASSUME NEW start \in Nat, NEW end \in Nat, NEW size \in Nat \ {0},
         start <= end, end + 1 < WordSize, 2 * size <= WordSize
  PROVE  /\ Clamp(start, end, size) \in start..end
         /\ Clamp(start, end, size) < start + size
<1> DEFINE count == (Uint64(end - start) + 1) % WordSize
<1>1. Uint64(end - start) = end - start
  <2>1. end - start \in Nat /\ end - start < WordSize
    BY WordAssumption
  <2> QED  BY <2>1, SmallWord DEF Uint64
<1>2. count = end - start + 1
  <2>1. end - start + 1 \in Nat /\ end - start + 1 < WordSize
    BY WordAssumption
  <2> QED  BY <2>1, <1>1, SmallWord
<1>3. Int64((size - 1) % WordSize) = size - 1
  <2>1. size - 1 \in Nat /\ 2 * (size - 1) < WordSize /\ size - 1 < WordSize
    BY WordAssumption
  <2>2. (size - 1) % WordSize = size - 1
    BY <2>1, SmallWord
  <2> QED  BY <2>1, <2>2, WordAssumption DEF Int64
<1> QED  BY <1>2, <1>3 DEF Clamp

-----------------------------------------------------------------------------
(* Types. *)

(* The initial state is well typed. *)
LEMMA InitType == SyncInit => SyncTypeOK
  BY ProviderAssumption, SyncAssumption
  DEF SyncInit, ProviderInit, SyncTypeOK, ProviderTypeOK, Header, NoBatch

(* A new tip keeps the chain well formed and leaves everything up to `final`
   as it was. *)
LEMMA TipType ==
  ASSUME ProviderTypeOK, NEW n \in 0..MaxHeight, final < n, n <= head + 1,
         NEW f \in 0..MaxForks, Tip(n, f)
  PROVE  ProviderTypeOK'
<1>1. head' \in 0..MaxHeight /\ fork' \in 0..MaxForks
  BY DEF Tip
<1>2. final' \in 0..head'
  BY ProviderAssumption DEF Tip, Deeper, ProviderTypeOK
<1>3. chain' \in [0..head' -> Header]
  BY ProviderAssumption DEF Tip, ProviderTypeOK, Header
<1> QED  BY <1>1, <1>2, <1>3 DEF ProviderTypeOK

(* The chain stays well formed when a block is mined or a branch replaced. *)
LEMMA ProviderType == ASSUME ProviderTypeOK, ProviderNext PROVE ProviderTypeOK'
<1>1. CASE Mine
  BY <1>1, TipType, ProviderAssumption DEF Mine, ProviderTypeOK
<1>2. ASSUME NEW n \in final..head, Reorg(n) PROVE ProviderTypeOK'
  BY <1>2, TipType, ProviderAssumption DEF Reorg, ProviderTypeOK
<1> QED  BY <1>1, <1>2 DEF ProviderNext

(* The range that NextHeaders asks for is not empty and is confirmed. *)
LEMMA NextRange ==
  ASSUME SyncTypeOK, NextHeaders
  PROVE  endHeight' \in (last + 1)..(head - ConfDepth)
<1>1. /\ last + 1 \in Nat /\ head - ConfDepth \in Nat
      /\ last + 1 <= head - ConfDepth
      /\ head - ConfDepth + 1 < WordSize
  BY SyncAssumption, ProviderAssumption, WordAssumption
  DEF SyncTypeOK, ProviderTypeOK, NextHeaders
<1>2. HeaderBufferSize \in Nat \ {0} /\ 2 * HeaderBufferSize <= WordSize
  BY SyncAssumption
<1> QED  BY <1>1, <1>2, ClampBounds DEF NextHeaders

(* The producer's steps keep every variable's type. *)
LEMMA ProduceType == ASSUME SyncTypeOK, Produce PROVE SyncTypeOK'
<1> USE DEF SyncTypeOK, chainVars, producerVars, handlerVars, dbVars, lifeVars, ProviderTypeOK
<1>1. CASE RetryBatch
  BY <1>1 DEF RetryBatch
<1>2. CASE NextHeaders
  <2>1. endHeight' \in 0..MaxHeight
    BY <1>2, NextRange, SyncAssumption, ProviderAssumption
  <2> QED  BY <1>2, <2>1 DEF NextHeaders
<1>3. CASE BlockHeadersByRange
  <2>1. headers' \subseteq Header /\ last' \in -1..MaxHeight
    BY <1>3, ProviderAssumption DEF BlockHeadersByRange, Segment
  <2> QED  BY <1>3, <2>1, ProviderAssumption DEF BlockHeadersByRange
<1>4. CASE FilterToBlock
  BY <1>4 DEF FilterToBlock
<1>5. CASE FilterLogs
  <2>1. logs' \subseteq Header
    BY <1>5 DEF FilterLogs
  <2> QED  BY <1>5, <2>1 DEF FilterLogs
<1>6. CASE SendBatch
  BY <1>6 DEF SendBatch
<1> QED  BY <1>1, <1>2, <1>3, <1>4, <1>5, <1>6 DEF Produce

(* An attempt of the transaction keeps every variable's type. *)
LEMMA PersistType ==
  ASSUME SyncTypeOK, NEW rows, rows \subseteq Header, Persist(rows)
  PROVE  SyncTypeOK'
<1> USE DEF SyncTypeOK, chainVars, producerVars, handlerVars, dbVars, lifeVars, ProviderTypeOK
<1>1. ASSUME Insert(rows) PROVE store' \subseteq Header /\ events' \in [Hashes -> Nat]
  BY <1>1 DEF Insert
<1>2. ASSUME RetryOrGiveUp
      PROVE  /\ cons' \in {cons, "dead"}
             /\ batch' \in [headers: SUBSET Header, logs: SUBSET Header]
             /\ attempt' \in 0..(MaxAttempts - 1)
  BY <1>2, SyncAssumption DEF RetryOrGiveUp, Finished, NoBatch
<1>3. CASE PersistCommit(rows)
  BY <1>1, <1>3, SyncAssumption DEF PersistCommit, Finished, NoBatch
<1>4. CASE PersistFail
  BY <1>2, <1>4 DEF PersistFail
<1>5. CASE PersistAckLost(rows)
  BY <1>1, <1>2, <1>5 DEF PersistAckLost
<1>6. CASE PersistAbort
  BY <1>6, SyncAssumption DEF PersistAbort, Finished, NoBatch
<1> QED  BY <1>3, <1>4, <1>5, <1>6 DEF Persist

(* Start, stop and crash keep every variable's type. *)
LEMMA LifecycleType == ASSUME SyncTypeOK, Lifecycle PROVE SyncTypeOK'
<1> USE DEF SyncTypeOK, chainVars, producerVars, handlerVars, dbVars, lifeVars, ProviderTypeOK
<1>1. CASE Start
  <2>1. last' \in -1..MaxHeight
    BY <1>1, SyncAssumption, ProviderAssumption DEF Start, IsNewest, Header
  <2> QED  BY <1>1, <2>1 DEF Start
<1>2. CASE StopSignal
  BY <1>2, SyncAssumption DEF StopSignal, Close
<1>3. CASE ExitLoop
  BY <1>3 DEF ExitLoop
<1>4. CASE CloseChannel
  BY <1>4 DEF CloseChannel
<1>5. CASE DrainedChannel
  BY <1>5, SyncAssumption DEF DrainedChannel, Finished, NoBatch
<1>6. ASSUME Halt, faults' \in 0..MaxFaults PROVE SyncTypeOK'
  BY <1>6, SyncAssumption, ProviderAssumption DEF Halt, Finished, NoBatch
<1>7. CASE Stopped
  BY <1>6, <1>7 DEF Stopped
<1>8. CASE Crash
  BY <1>6, <1>8, SyncAssumption DEF Crash
<1> QED  BY <1>1, <1>2, <1>3, <1>4, <1>5, <1>7, <1>8 DEF Lifecycle

(* So does a step that changes nothing. *)
LEMMA StutterType == ASSUME SyncTypeOK, UNCHANGED syncVars PROVE SyncTypeOK'
  BY DEF SyncTypeOK, ProviderTypeOK, syncVars, chainVars, producerVars, handlerVars,
         dbVars, lifeVars

-----------------------------------------------------------------------------
(* The inductive invariant behind StoreIsPrefix and EventsExactlyOnce, for a
   confirmation depth that covers the deepest reorganisation.  It places the
   database, the batch being handled and the batch being fetched on the final
   chain: the table ends at b (at a, when an acknowledgement was lost), the
   handler's batch is b+1..a, the producer's is a+1..last. *)

LogsOf(hs) == {h \in hs : HasLogs(h)}
KeptOf(hs) == {h \in hs : h.payload \in Kept}

ChainInv ==
  /\ \A n \in 0..head : chain[n].number = n
  /\ head - ReorgDepth <= final

ProducerInv ==
  /\ worker = "range" => headers = {} /\ last < endHeight /\ endHeight <= final
  /\ worker \in {"filter", "logs", "send"} => headers # {}
  /\ worker = "send" => logs = LogsOf(headers)

(* A height whose block is final, or the one before the first height. *)
Settled(n) == n <= final \/ n = First - 1

Place(a, b) ==
  /\ First - 1 <= b /\ b <= a /\ a <= last
  /\ Settled(last)
  /\ headers = Segment(a + 1, last)
  /\ cons = "ready" => store = Index!Prefix(a)
  /\ cons \in {"handle", "persist"} =>
       /\ batch = [headers |-> Segment(b + 1, a), logs |-> LogsOf(Segment(b + 1, a))]
       /\ store = Index!Prefix(b) \/ store = Index!Prefix(a)
  /\ cons = "handle" => store = Index!Prefix(b)

PlaceInv ==
  /\ StoreIsPrefix
  /\ IF life = "down" THEN worker = "off" /\ cons = "off" /\ headers = {}
     ELSE \E a, b \in -1..MaxHeight : Place(a, b)

SyncInv == SyncTypeOK /\ ChainInv /\ ProducerInv /\ PlaceInv /\ EventsExactlyOnce

(* The first height is a height, and IndexedChain counts from the same one. *)
LEMMA FirstHeight == First \in Nat /\ Index!First = First
  BY SyncAssumption, ProviderAssumption DEF First, Index!First

(* What lies below a settled height is settled. *)
LEMMA SettledBelow ==
  ASSUME SyncTypeOK, NEW a \in Int, NEW b \in Int, First - 1 <= b, b <= a, Settled(a)
  PROVE  Settled(b)
  BY FirstHeight DEF Settled, SyncTypeOK, ProviderTypeOK

(* The table of a settled height is the table of a final one. *)
LEMMA SettledIsPrefix ==
  ASSUME SyncTypeOK, NEW a \in -1..MaxHeight, Settled(a), store = Index!Prefix(a)
  PROVE  StoreIsPrefix
<1>1. CASE a <= final
  BY <1>1, ProviderAssumption DEF StoreIsPrefix, SyncTypeOK, ProviderTypeOK
<1>2. CASE a = First - 1
  <2>1. Index!Prefix(a) = {} /\ Index!Prefix(-1) = {}
    BY <1>2, FirstHeight DEF Index!Prefix
  <2> QED  BY <2>1 DEF StoreIsPrefix, SyncTypeOK, ProviderTypeOK
<1> QED  BY <1>1, <1>2 DEF Settled

(* A table placed on the chain by the handler's batch is a prefix of it. *)
LEMMA PlaceIsPrefix ==
  ASSUME SyncTypeOK, NEW a \in -1..MaxHeight, NEW b \in -1..MaxHeight, Place(a, b),
         cons \in {"ready", "handle", "persist"}
  PROVE  StoreIsPrefix
<1>1. Settled(a) /\ Settled(b)
  <2>1. /\ last \in -1..MaxHeight
        /\ First - 1 <= b /\ b <= a /\ a <= last /\ Settled(last)
    BY DEF Place, SyncTypeOK
  <2>2. First - 1 <= a /\ b <= last
    BY <2>1, FirstHeight
  <2> QED  BY <2>1, <2>2, SettledBelow
<1>2. store = Index!Prefix(a) \/ store = Index!Prefix(b)
  BY DEF Place
<1> QED  BY <1>1, <1>2, SettledIsPrefix

(* Nothing up to `final` is ever replaced. *)
LEMMA Frozen ==
  ASSUME ProviderTypeOK, ProviderNext
  PROVE  /\ final <= final'
         /\ \A k \in 0..final : chain'[k] = chain[k]
<1>1. ASSUME NEW n \in 0..MaxHeight, final < n, NEW f, Tip(n, f)
      PROVE  final <= final' /\ \A k \in 0..final : chain'[k] = chain[k]
  BY <1>1, ProviderAssumption DEF Tip, Deeper, ProviderTypeOK
<1>2. CASE Mine
  BY <1>1, <1>2, ProviderAssumption DEF Mine, ProviderTypeOK
<1>3. ASSUME NEW n \in final..head, Reorg(n)
      PROVE  final <= final' /\ \A k \in 0..final : chain'[k] = chain[k]
  BY <1>1, <1>3, ProviderAssumption DEF Reorg, ProviderTypeOK
<1> QED  BY <1>2, <1>3 DEF ProviderNext

(* Heights stay numbered, and the tip at most ReorgDepth above `final`. *)
LEMMA ProviderChain == ASSUME ProviderTypeOK, ChainInv, ProviderNext PROVE ChainInv'
<1>1. ASSUME NEW n \in 0..MaxHeight, n <= head + 1, NEW f, Tip(n, f)
      PROVE  ChainInv'
  BY <1>1, ProviderAssumption DEF Tip, Deeper, ProviderTypeOK, ChainInv
<1>2. CASE Mine
  BY <1>1, <1>2, ProviderAssumption DEF Mine, ProviderTypeOK
<1>3. ASSUME NEW n \in final..head, Reorg(n) PROVE ChainInv'
  BY <1>1, <1>3, ProviderAssumption DEF Reorg, ProviderTypeOK
<1> QED  BY <1>2, <1>3 DEF ProviderNext

(* A step of the provider leaves settled prefixes and segments as they are. *)
LEMMA SettledStable ==
  ASSUME ProviderTypeOK, ProviderNext
  PROVE  /\ \A n \in -1..MaxHeight : Settled(n) =>
              Index!Prefix(n)' = Index!Prefix(n) /\ Settled(n)'
         /\ \A n, m \in -1..MaxHeight : (First - 1 <= n /\ Settled(m)) =>
              Segment(n + 1, m)' = Segment(n + 1, m)
<1> USE FirstHeight, Frozen
<1>1. final \in Nat /\ final' \in Nat
  BY ProviderType DEF ProviderTypeOK
<1>2. ASSUME NEW n \in -1..MaxHeight, Settled(n)
      PROVE  Index!Prefix(n)' = Index!Prefix(n) /\ Settled(n)'
  <2>1. \A k \in First..n : chain'[k] = chain[k]
    BY <1>1, <1>2 DEF Settled
  <2>2. Index!Prefix(n)' = Index!Prefix(n)
    BY <2>1 DEF Index!Prefix, Index!First, First
  <2> QED  BY <1>1, <1>2, <2>2 DEF Settled, First
<1>3. ASSUME NEW n \in -1..MaxHeight, NEW m \in -1..MaxHeight, First - 1 <= n, Settled(m)
      PROVE  Segment(n + 1, m)' = Segment(n + 1, m)
  <2>1. \A k \in (n + 1)..m : chain'[k] = chain[k]
    BY <1>1, <1>3 DEF Settled
  <2> QED  BY <2>1 DEF Segment
<1> QED  BY <1>2, <1>3

(* A step of the provider preserves the invariant: all it relates is settled. *)
LEMMA ProviderSafe ==
  ASSUME SyncInv, ProviderNext, UNCHANGED <<producerVars, handlerVars, dbVars, lifeVars>>
  PROVE  SyncInv'
<1> USE DEF producerVars, handlerVars, dbVars, lifeVars
<1>1. ProviderTypeOK /\ ChainInv
  BY DEF SyncInv, SyncTypeOK
<1>2. SyncTypeOK' /\ ChainInv'
  BY <1>1, ProviderType, ProviderChain DEF SyncInv, SyncTypeOK
<1>3. ProducerInv'
  BY <1>1, <1>2, Frozen DEF SyncInv, ProducerInv, LogsOf, HasLogs, SyncTypeOK, ProviderTypeOK
<1>4. EventsExactlyOnce'
  BY DEF SyncInv, EventsExactlyOnce, Hashes, Hash, HasLogs
<1>5. StoreIsPrefix'
  <2>1. PICK n \in -1..final : store = Index!Prefix(n)
    BY DEF SyncInv, PlaceInv, StoreIsPrefix
  <2>2. n \in -1..MaxHeight /\ Settled(n) /\ n \in -1..final'
    BY <1>1, <1>2, Frozen, ProviderAssumption DEF Settled, ProviderTypeOK, SyncTypeOK
  <2>3. store' = Index!Prefix(n)'
    BY <1>1, <2>1, <2>2, SettledStable
  <2> QED  BY <2>2, <2>3 DEF StoreIsPrefix
<1>6. ASSUME NEW a \in -1..MaxHeight, NEW b \in -1..MaxHeight, Place(a, b)
      PROVE  Place(a, b)'
  <2>1. last \in -1..MaxHeight /\ Settled(last) /\ Settled(a) /\ Settled(b)
    <3>1. /\ SyncTypeOK /\ last \in -1..MaxHeight
          /\ First - 1 <= b /\ b <= a /\ a <= last /\ Settled(last)
      BY <1>6 DEF SyncInv, SyncTypeOK, Place
    <3>2. First - 1 <= a /\ b <= last
      BY <3>1, FirstHeight
    <3> QED  BY <3>1, <3>2, SettledBelow
  <2>2. /\ Index!Prefix(a)' = Index!Prefix(a) /\ Index!Prefix(b)' = Index!Prefix(b)
        /\ Settled(last)'
        /\ Segment(a + 1, last)' = Segment(a + 1, last)
        /\ Segment(b + 1, a)' = Segment(b + 1, a)
    BY <1>1, <1>6, <2>1, SettledStable, FirstHeight DEF Place, Settled
  <2> QED  BY <1>6, <2>2 DEF Place, LogsOf, HasLogs, First
<1>7. PlaceInv'
  BY <1>5, <1>6 DEF SyncInv, PlaceInv
<1> QED  BY <1>2, <1>3, <1>4, <1>7 DEF SyncInv

(* The batches are segments, so their ends are the headers at the ends. *)
LEMMA SegmentEnds ==
  ASSUME SyncTypeOK, ChainInv, NEW from \in 0..MaxHeight, NEW to \in from..head
  PROVE  /\ Newest(Segment(from, to)) = chain[to]
         /\ Oldest(Segment(from, to)) = chain[from]
<1>1. /\ chain[to] \in Segment(from, to) /\ chain[from] \in Segment(from, to)
      /\ \A h \in Segment(from, to) : h.number \in from..to /\ h = chain[h.number]
      /\ chain[to].number = to /\ chain[from].number = from
  BY DEF Segment, ChainInv, SyncTypeOK, ProviderTypeOK
<1>2. IsNewest(chain[to], Segment(from, to))
  BY <1>1 DEF IsNewest
<1>3. \A h \in Segment(from, to) : IsNewest(h, Segment(from, to)) => h = chain[to]
  BY <1>1 DEF IsNewest
<1>4. \A h \in Segment(from, to) :
        (\A g \in Segment(from, to) : h.number <= g.number) => h = chain[from]
  BY <1>1
<1>5. \A g \in Segment(from, to) : chain[from].number <= g.number
  BY <1>1
<1> QED  BY <1>1, <1>2, <1>3, <1>4, <1>5 DEF Newest, Oldest

(* The producer's steps preserve the invariant when the confirmation depth
   covers the deepest reorganisation: only final blocks enter a batch. *)
LEMMA ProduceSafe ==
  ASSUME ReorgDepth <= ConfDepth, SyncInv, Produce, life # "down"
  PROVE  SyncInv'
<1> USE DEF chainVars, producerVars, handlerVars, dbVars, lifeVars
<1>1. SyncTypeOK /\ ChainInv /\ ProducerInv /\ StoreIsPrefix /\ EventsExactlyOnce
  BY DEF SyncInv, PlaceInv
<1>2. SyncTypeOK'
  BY <1>1, ProduceType
<1>3. PICK a, b \in -1..MaxHeight : Place(a, b)
  BY DEF SyncInv, PlaceInv
<1>4. UNCHANGED <<chainVars, dbVars, lifeVars>>
  BY DEF Produce, RetryBatch, NextHeaders, BlockHeadersByRange, FilterToBlock,
         FilterLogs, SendBatch
<1>5. ChainInv' /\ StoreIsPrefix' /\ EventsExactlyOnce'
  BY <1>1, <1>4 DEF ChainInv, StoreIsPrefix, EventsExactlyOnce, Index!Prefix,
                    Index!First, Hashes, Hash, HasLogs
<1>6. SUFFICES ProducerInv' /\ \E x, y \in -1..MaxHeight : Place(x, y)'
  BY <1>2, <1>4, <1>5 DEF SyncInv, PlaceInv
<1>7. ASSUME UNCHANGED <<headers, last, cons, batch>>
      PROVE  \E x, y \in -1..MaxHeight : Place(x, y)'
  BY <1>3, <1>4, <1>7 DEF Place, Settled, First, Segment, LogsOf, HasLogs,
                          Index!Prefix, Index!First
<1>8. CASE RetryBatch
  BY <1>1, <1>7, <1>8 DEF RetryBatch, ProducerInv
<1>9. CASE NextHeaders
  <2>1. endHeight' \in (last + 1)..(head - ConfDepth) /\ head - ConfDepth <= final
    BY <1>1, <1>9, NextRange, SyncAssumption, ProviderAssumption
    DEF ChainInv, SyncTypeOK, ProviderTypeOK
  <2>2. last' < endHeight' /\ endHeight' <= final'
    BY <1>1, <1>4, <1>9, <2>1, SyncAssumption DEF NextHeaders, SyncTypeOK, ProviderTypeOK
  <2>3. ProducerInv'
    BY <1>9, <2>2 DEF NextHeaders, ProducerInv
  <2> QED  BY <1>7, <1>9, <2>3 DEF NextHeaders
<1>10. CASE BlockHeadersByRange
  <2>1. CASE UNCHANGED <<headers, last>> /\ worker' = "idle"
    BY <1>7, <1>10, <2>1 DEF BlockHeadersByRange, ProducerInv
  <2>2. ASSUME NEW to \in (last + 1)..endHeight, to <= head, last' = to,
               headers' = Segment(last + 1, to), worker' = "filter"
        PROVE  ProducerInv' /\ \E x, y \in -1..MaxHeight : Place(x, y)'
    <3>1. headers = {} /\ to <= final /\ last < to /\ last + 1 \in 0..head
      BY <1>1, <1>10, <2>2, ProviderAssumption
      DEF BlockHeadersByRange, ProducerInv, SyncTypeOK, ProviderTypeOK
    <3>2. ProducerInv'
      <4>1. chain[to] \in headers'
        BY <2>2, <3>1 DEF Segment
      <4> QED  BY <2>2, <4>1 DEF ProducerInv
    <3>3. a = last
      <4>1. a < last => chain[last] \in Segment(a + 1, last)
        BY <1>1, ProviderAssumption DEF Segment, SyncTypeOK
      <4> QED  BY <1>1, <1>3, <3>1, <4>1 DEF Place, SyncTypeOK
    <3>4. Settled(last)' /\ headers' = Segment(a + 1, last)' /\ a <= last'
      BY <1>1, <1>4, <2>2, <3>1, <3>3, ProviderAssumption
      DEF Settled, Segment, SyncTypeOK
    <3>5. UNCHANGED <<cons, batch>>
      BY <1>10 DEF BlockHeadersByRange
    <3>6. Place(a, b)'
      <4>1. /\ Index!Prefix(a)' = Index!Prefix(a) /\ Index!Prefix(b)' = Index!Prefix(b)
            /\ Segment(b + 1, a)' = Segment(b + 1, a) /\ First' = First
        BY <1>4 DEF First, Segment, Index!Prefix, Index!First
      <4>2. LogsOf(Segment(b + 1, a))' = LogsOf(Segment(b + 1, a))
        BY <1>4, <4>1 DEF LogsOf, HasLogs
      <4> QED  BY <1>3, <1>4, <3>4, <3>5, <4>1, <4>2 DEF Place
    <3> QED  BY <3>2, <3>6
  <2> QED  BY <1>10, <2>1, <2>2 DEF BlockHeadersByRange
<1>11. CASE FilterToBlock
  BY <1>1, <1>7, <1>11 DEF FilterToBlock, ProducerInv
<1>12. CASE FilterLogs
  <2>1. CASE worker' = "idle"
    BY <1>1, <1>7, <1>12, <2>1 DEF FilterLogs, ProducerInv
  <2>2. CASE worker' = "send"
    <3>1. headers # {} /\ headers = Segment(a + 1, last) /\ Settled(last)
      BY <1>1, <1>3, <1>12 DEF FilterLogs, ProducerInv, Place
    <3>2. a + 1 \in 0..MaxHeight /\ last \in (a + 1)..head
      <4>1. First - 1 <= a /\ First \in Nat /\ a \in -1..MaxHeight /\ last \in -1..MaxHeight
        BY <1>1, <1>3, FirstHeight DEF Place, SyncTypeOK
      <4>2. a + 1 <= last
        BY <3>1, <4>1 DEF Segment
      <4>3. last <= final /\ final <= head /\ head \in 0..MaxHeight /\ final \in Int
        BY <1>1, <3>1, <4>1, <4>2, ProviderAssumption DEF Settled, SyncTypeOK, ProviderTypeOK
      <4> QED  BY <4>1, <4>2, <4>3, ProviderAssumption
    <3>3. Newest(headers).number = last /\ Oldest(headers).number = a + 1
      BY <1>1, <3>1, <3>2, SegmentEnds DEF ChainInv, SyncTypeOK, ProviderTypeOK
    <3>4. logs' = LogsOf(headers)
      BY <1>12, <2>2, <3>1, <3>2, <3>3 DEF FilterLogs, LogsOf
    <3>5. UNCHANGED <<headers, last, endHeight, cons, batch>>
      BY <1>12 DEF FilterLogs
    <3>6. ProducerInv'
      BY <2>2, <3>1, <3>4, <3>5 DEF ProducerInv, LogsOf, HasLogs
    <3> QED  BY <1>7, <3>5, <3>6
  <2> QED  BY <1>12, <2>1, <2>2 DEF FilterLogs
<1>13. CASE SendBatch
  <2>1. ProducerInv'
    BY <1>13 DEF SendBatch, ProducerInv
  <2>2. /\ batch' = [headers |-> Segment(a + 1, last), logs |-> LogsOf(Segment(a + 1, last))]
        /\ store = Index!Prefix(a)
        /\ cons' = "handle" /\ headers' = {} /\ last' = last
    BY <1>1, <1>3, <1>13 DEF SendBatch, ProducerInv, Place
  <2>3. First - 1 <= last /\ Segment(last + 1, last) = {} /\ last \in -1..MaxHeight
    BY <1>1, <1>3, FirstHeight DEF Segment, Place, SyncTypeOK
  <2>4. Place(last, a)'
    BY <1>1, <1>3, <1>4, <2>2, <2>3, FirstHeight
    DEF Place, Settled, First, Segment, LogsOf, HasLogs, Index!Prefix, Index!First, SyncTypeOK
  <2> QED  BY <2>1, <2>2, <2>3, <2>4
<1> QED  BY <1>8, <1>9, <1>10, <1>11, <1>12, <1>13 DEF Produce

(* The initial state satisfies the invariant. *)
LEMMA InitSafe == SyncInit => SyncInv
<1> SUFFICES ASSUME SyncInit PROVE SyncInv
  OBVIOUS
<1>1. SyncTypeOK
  BY InitType
<1>2. ChainInv /\ ProducerInv /\ EventsExactlyOnce
  BY ProviderAssumption DEF SyncInit, ProviderInit, ChainInv, ProducerInv, EventsExactlyOnce
<1>3. StoreIsPrefix
  <2>1. Index!Prefix(-1) = {}
    BY FirstHeight DEF Index!Prefix
  <2> QED  BY <2>1 DEF SyncInit, ProviderInit, StoreIsPrefix
<1> QED  BY <1>1, <1>2, <1>3 DEF SyncInit, SyncInv, PlaceInv

(* Nothing but the provider moves while the service is down. *)
LEMMA Awake ==
  ASSUME SyncInv
  PROVE  /\ Produce => life # "down"
         /\ cons # "off" => life # "down"
  BY DEF SyncInv, PlaceInv, Produce, RetryBatch, NextHeaders, BlockHeadersByRange,
         FilterToBlock, FilterLogs, SendBatch

(* A transaction is attempted only while the process lives. *)
LEMMA PersistAwake ==
  ASSUME SyncInv, NEW rows, Persist(rows)
  PROVE  cons = "persist" /\ life # "down"
  BY Awake DEF Persist, PersistCommit, PersistFail, PersistAckLost, PersistAbort

(* The kept part of a batch is what its prefix lacks of the longer prefix. *)
LEMMA PrefixExtends ==
  ASSUME SyncTypeOK, NEW a \in -1..MaxHeight, NEW b \in -1..MaxHeight,
         First - 1 <= b, b <= a
  PROVE  Index!Prefix(a) = Index!Prefix(b) \cup KeptOf(Segment(b + 1, a))
<1>1. First..a = (First..b) \cup ((b + 1)..a)
  BY FirstHeight
<1> QED  BY <1>1, FirstHeight DEF Index!Prefix, KeptOf, Segment

(* An attempt whose rows do not conflict appends the kept blocks of the batch,
   and counts their events for the first time. *)
LEMMA InsertSafe ==
  ASSUME SyncInv, NEW a \in -1..MaxHeight, NEW b \in -1..MaxHeight, Place(a, b),
         cons = "persist", NEW rows, rows = KeptOf(batch.headers), Insert(rows)
  PROVE  store' = Index!Prefix(a) /\ EventsExactlyOnce'
<1>1. /\ SyncTypeOK /\ EventsExactlyOnce
      /\ store = Index!Prefix(b) \/ store = Index!Prefix(a)
      /\ batch.headers = Segment(b + 1, a)
      /\ batch.logs = LogsOf(batch.headers)
      /\ First - 1 <= b /\ b <= a
  BY DEF SyncInv, Place
<1>2. store' = Index!Prefix(a)
  BY <1>1, PrefixExtends DEF Insert
<1>3. batch.logs = LogsOf(rows)
  BY <1>1, SyncAssumption DEF LogsOf, KeptOf, HasLogs
<1>4. \A r \in rows, s \in store : Hash(r) # Hash(s)
  BY DEF Insert, Conflict, Hash
<1>5. ASSUME NEW k \in Hashes
      PROVE  events'[k] = IF \E s \in store' : Hash(s) = k /\ HasLogs(s) THEN 1 ELSE 0
  <2>1. /\ events[k] = IF \E s \in store : Hash(s) = k /\ HasLogs(s) THEN 1 ELSE 0
        /\ events'[k] = IF \E l \in batch.logs : Hash(l) = k THEN events[k] + 1 ELSE events[k]
        /\ store' = store \cup rows
    BY <1>1 DEF EventsExactlyOnce, Insert
  <2>2. CASE \E l \in batch.logs : Hash(l) = k
    BY <1>3, <1>4, <2>1, <2>2 DEF LogsOf
  <2>3. CASE ~ \E l \in batch.logs : Hash(l) = k
    BY <1>3, <2>1, <2>3 DEF LogsOf
  <2> QED  BY <2>2, <2>3
<1>6. events' = [k \in Hashes |-> events'[k]]
  BY DEF Insert
<1> QED  BY <1>2, <1>5, <1>6 DEF EventsExactlyOnce, Hashes, Hash, HasLogs

(* A step of the handler that leaves the table alone. *)
LEMMA HandlerSafe ==
  ASSUME SyncInv, SyncTypeOK', life # "down",
         UNCHANGED <<chainVars, producerVars, dbVars, life>>,
         \/ cons' \notin {"ready", "handle", "persist"}
         \/ cons' = cons /\ batch' = batch
         \/ cons = "handle" /\ cons' = "persist" /\ batch' = batch
         \/ cons = "handle" /\ cons' = "ready" /\ KeptOf(batch.headers) = {}
  PROVE  SyncInv'
<1> USE DEF chainVars, producerVars, dbVars
<1>1. /\ ChainInv' /\ ProducerInv' /\ StoreIsPrefix' /\ EventsExactlyOnce'
  BY DEF SyncInv, PlaceInv, ChainInv, ProducerInv, StoreIsPrefix, EventsExactlyOnce,
         LogsOf, Hashes, Hash, HasLogs, Index!Prefix, Index!First
<1>2. ASSUME NEW a \in -1..MaxHeight, NEW b \in -1..MaxHeight, Place(a, b)
      PROVE  Place(a, b)'
  <2>1. cons = "handle" /\ KeptOf(batch.headers) = {} => Index!Prefix(a) = Index!Prefix(b)
    <3>1. /\ SyncTypeOK /\ First - 1 <= b /\ b <= a
          /\ cons = "handle" => batch.headers = Segment(b + 1, a)
      BY <1>2 DEF SyncInv, Place
    <3>2. Index!Prefix(a) = Index!Prefix(b) \cup KeptOf(Segment(b + 1, a))
      BY <3>1, PrefixExtends
    <3> QED  BY <3>1, <3>2
  <2> QED  BY <1>2, <2>1 DEF Place, Settled, First, Segment, LogsOf, HasLogs,
                             Index!Prefix, Index!First
<1> QED  BY <1>1, <1>2 DEF SyncInv, PlaceInv

(* An attempt that inserts exactly the kept blocks of the batch preserves the
   invariant, whether it commits, fails or commits without an acknowledgement. *)
LEMMA PersistSafe ==
  ASSUME SyncInv, NEW rows, rows = KeptOf(batch.headers), life # "down", Persist(rows)
  PROVE  SyncInv'
<1> USE DEF chainVars, producerVars, dbVars, lifeVars
<1>1. rows \subseteq Header /\ SyncTypeOK
  BY DEF SyncInv, SyncTypeOK, KeptOf
<1>2. SyncTypeOK'
  BY <1>1, PersistType
<1>3. cons = "persist" /\ UNCHANGED <<chainVars, producerVars, lifeVars>>
  BY DEF Persist, PersistCommit, PersistFail, PersistAckLost, PersistAbort
<1>4. ASSUME RetryOrGiveUp
      PROVE  cons' = "dead" \/ UNCHANGED <<cons, batch>>
  BY <1>4 DEF RetryOrGiveUp, Finished
<1>5. ASSUME Insert(rows),
             \/ cons' \notin {"handle", "persist"}
             \/ cons' = cons /\ batch' = batch
      PROVE  SyncInv'
  <2>1. PICK a, b \in -1..MaxHeight : Place(a, b)
    BY DEF SyncInv, PlaceInv
  <2>2. store' = Index!Prefix(a) /\ EventsExactlyOnce'
    BY <1>3, <1>5, <2>1, InsertSafe
  <2>3. ChainInv' /\ ProducerInv'
    BY <1>3 DEF SyncInv, ChainInv, ProducerInv, LogsOf, HasLogs
  <2>4. Index!Prefix(a)' = Index!Prefix(a) /\ Settled(last)' /\ cons' # "handle"
    BY <1>3, <1>5, <2>1 DEF Index!Prefix, Index!First, Place, Settled, First
  <2>5. Place(a, b)'
    BY <1>3, <1>5, <2>1, <2>2, <2>4 DEF Place, First, Segment, LogsOf, HasLogs
  <2>6. Settled(a)
    BY <1>1, <2>1, SettledBelow, FirstHeight DEF Place, SyncTypeOK
  <2>7. StoreIsPrefix'
    <3>1. Settled(a)' /\ store' = Index!Prefix(a)'
      BY <1>3, <2>2, <2>4, <2>6 DEF Settled, First
    <3>2. CASE a <= final
      BY <1>1, <1>3, <2>2, <2>4, <3>2 DEF StoreIsPrefix, SyncTypeOK, ProviderTypeOK
    <3>3. CASE a = First - 1
      <4>1. Index!Prefix(a) = {} /\ (Index!Prefix(-1))' = {} /\ -1 \in -1..final'
        BY <1>1, <1>3, <3>3, FirstHeight DEF Index!Prefix, SyncTypeOK, ProviderTypeOK
      <4> QED  BY <2>2, <4>1 DEF StoreIsPrefix
    <3> QED  BY <2>6, <3>2, <3>3 DEF Settled
  <2> QED  BY <1>2, <1>3, <2>2, <2>3, <2>5, <2>7 DEF SyncInv, PlaceInv
<1>6. CASE PersistCommit(rows)
  BY <1>5, <1>6 DEF PersistCommit, Finished
<1>7. CASE PersistFail
  BY <1>2, <1>4, <1>7, HandlerSafe DEF PersistFail
<1>8. CASE PersistAckLost(rows)
  BY <1>4, <1>5, <1>8 DEF PersistAckLost
<1>9. CASE PersistAbort
  BY <1>2, <1>9, HandlerSafe DEF PersistAbort, Finished
<1> QED  BY <1>6, <1>7, <1>8, <1>9 DEF Persist

(* The service starts where the table ends. *)
LEMMA StartSafe == ASSUME SyncInv, Start PROVE SyncInv'
<1> USE DEF chainVars, producerVars, handlerVars, dbVars, lifeVars
<1>1. /\ SyncTypeOK /\ ChainInv /\ StoreIsPrefix /\ EventsExactlyOnce
      /\ worker = "off" /\ headers = {}
      /\ UNCHANGED <<headers, logs, batch, chainVars, dbVars>>
      /\ life' = "up" /\ worker' = "idle" /\ cons' = "ready"
  BY DEF SyncInv, PlaceInv, Start
<1>2. SyncTypeOK'
  BY <1>1, LifecycleType DEF Lifecycle
<1>3. ChainInv' /\ ProducerInv' /\ StoreIsPrefix' /\ EventsExactlyOnce'
  <2>1. ChainInv' /\ ProducerInv'
    BY <1>1 DEF ChainInv, ProducerInv
  <2>2. StoreIsPrefix'
    BY <1>1 DEF StoreIsPrefix, Index!Prefix, Index!First
  <2>3. EventsExactlyOnce'
    BY <1>1 DEF EventsExactlyOnce, Hashes, Hash, HasLogs
  <2> QED  BY <2>1, <2>2, <2>3
<1>4. last' \in -1..MaxHeight /\ First - 1 <= last' /\ Settled(last') /\ store = Index!Prefix(last')
  <2>1. ASSUME NEW h \in store, IsNewest(h, store), last' = h.number
        PROVE  last' \in -1..MaxHeight /\ First - 1 <= last' /\ Settled(last') /\ store = Index!Prefix(last')
    <3>1. PICK n \in -1..final : store = Index!Prefix(n)
      BY <1>1 DEF StoreIsPrefix
    <3>2. \A k \in First..n : chain[k].number = k
      BY <3>1, FirstHeight DEF SyncInv, ChainInv, SyncTypeOK, ProviderTypeOK
    <3>3. PICK m \in First..n : h = chain[m] /\ h.payload \in Kept
      BY <2>1, <3>1, FirstHeight DEF Index!Prefix
    <3>4. h.number = m /\ m \in Nat
      BY <3>2, <3>3, FirstHeight
    <3>5. \A k \in First..n : chain[k].payload \in Kept => k <= m
      BY <2>1, <3>1, <3>2, <3>4, FirstHeight DEF IsNewest, Index!Prefix
    <3>6. Index!Prefix(m) = Index!Prefix(n)
      <4>1. First \in Nat /\ n \in Int /\ m \in First..n
        BY <3>1, <3>3, FirstHeight
      <4>2. {k \in First..m : chain[k].payload \in Kept} = {k \in First..n : chain[k].payload \in Kept}
        BY <3>5, <4>1
      <4> QED  BY <4>2, FirstHeight DEF Index!Prefix
    <3>7. final \in Int /\ final <= MaxHeight /\ First \in Nat /\ MaxHeight \in Nat
      <4>1. First \in Nat /\ MaxHeight \in Nat
        BY FirstHeight, ProviderAssumption
      <4>2. head \in 0..MaxHeight /\ final \in 0..head
        BY <1>1 DEF SyncTypeOK, ProviderTypeOK
      <4> QED  BY <4>1, <4>2
    <3>8. n \in Int /\ n <= final /\ First <= m /\ m <= n /\ last' = m
      BY <2>1, <3>1, <3>3, <3>4, <3>7
    <3>9. last' \in -1..MaxHeight /\ First - 1 <= last'
      BY <3>4, <3>7, <3>8
    <3>10. Settled(last')
      BY <3>4, <3>7, <3>8 DEF Settled
    <3> QED  BY <3>1, <3>6, <3>8, <3>9, <3>10
  <2>2. ASSUME store = {}, last' = IF StartHeight > 0 THEN StartHeight ELSE -1
        PROVE  last' \in -1..MaxHeight /\ First - 1 <= last' /\ Settled(last') /\ store = Index!Prefix(last')
    <3>1. last' = First - 1 /\ last' \in -1..MaxHeight
      BY <2>2, SyncAssumption, ProviderAssumption DEF First
    <3>2. Index!Prefix(last') = {}
      BY <3>1, FirstHeight DEF Index!Prefix
    <3> QED  BY <2>2, <3>1, <3>2 DEF Settled
  <2> QED  BY <2>1, <2>2 DEF Start
<1>5. \E a, b \in -1..MaxHeight : Place(a, b)'
  <2>1. PICK a \in -1..MaxHeight : a = last'
    BY <1>4
  <2>2. Segment(a + 1, a) = {}
    BY DEF Segment
  <2>3. First - 1 <= a /\ Settled(last)' /\ (First - 1)' = First - 1
    BY <1>1, <1>4, <2>1 DEF Settled, First
  <2>4. headers' = Segment(a + 1, last)'
    BY <1>1, <2>1, <2>2 DEF Segment
  <2>5. store' = Index!Prefix(a)'
    BY <1>1, <1>4, <2>1 DEF Index!Prefix, Index!First
  <2>6. Place(a, a)'
    BY <1>1, <2>1, <2>3, <2>4, <2>5 DEF Place
  <2> QED  BY <2>6
<1> QED  BY <1>1, <1>2, <1>3, <1>5 DEF SyncInv, PlaceInv

(* The steps of a stop, until the handler has ended too. *)
LEMMA ShutSafe ==
  ASSUME SyncInv, SyncTypeOK', life # "down", life' # "down",
         UNCHANGED <<chainVars, dbVars, last, endHeight, headers, logs, handlerVars>>,
         worker' \in {worker, "exited"}
  PROVE  SyncInv'
<1> USE DEF chainVars, producerVars, handlerVars, dbVars, lifeVars
<1>1. ChainInv' /\ ProducerInv'
  BY DEF SyncInv, ChainInv, ProducerInv, LogsOf, HasLogs
<1>2. StoreIsPrefix' /\ EventsExactlyOnce'
  BY DEF SyncInv, PlaceInv, StoreIsPrefix, EventsExactlyOnce, Hashes, Hash, HasLogs,
         Index!Prefix, Index!First
<1>3. ASSUME NEW a \in -1..MaxHeight, NEW b \in -1..MaxHeight, Place(a, b)
      PROVE  Place(a, b)'
  BY <1>3 DEF Place, Settled, First, Segment, LogsOf, HasLogs, Index!Prefix, Index!First
<1> QED  BY <1>1, <1>2, <1>3 DEF SyncInv, PlaceInv

(* Start, stop and crash preserve the invariant. *)
LEMMA LifecycleSafe == ASSUME SyncInv, Lifecycle PROVE SyncInv'
<1> USE DEF chainVars, producerVars, handlerVars, dbVars, lifeVars
<1>1. SyncTypeOK'
  BY LifecycleType DEF SyncInv
<1>2. ASSUME UNCHANGED <<chainVars, dbVars>>
      PROVE  ChainInv' /\ StoreIsPrefix' /\ EventsExactlyOnce'
  BY <1>2 DEF SyncInv, PlaceInv, ChainInv, StoreIsPrefix, EventsExactlyOnce,
              Hashes, Hash, HasLogs, Index!Prefix, Index!First
<1>3. ASSUME Halt PROVE SyncInv'
  BY <1>1, <1>2, <1>3 DEF Halt, Finished, SyncInv, PlaceInv, ProducerInv
<1>4. CASE StopSignal
  BY <1>1, <1>4, ShutSafe DEF StopSignal, Close
<1>5. CASE ExitLoop
  BY <1>1, <1>5, ShutSafe DEF ExitLoop
<1>6. CASE CloseChannel
  BY <1>1, <1>6, ShutSafe DEF CloseChannel
<1>7. CASE DrainedChannel
  BY <1>1, <1>7, HandlerSafe DEF DrainedChannel, Finished
<1>8. CASE Stopped
  BY <1>3, <1>8 DEF Stopped
<1>9. CASE Crash
  BY <1>3, <1>9 DEF Crash
<1> QED  BY <1>4, <1>5, <1>6, <1>7, <1>8, <1>9, StartSafe DEF Lifecycle

(* So does a step that changes nothing. *)
LEMMA StutterSafe == ASSUME SyncInv, UNCHANGED syncVars PROVE SyncInv'
<1> USE DEF syncVars, chainVars, producerVars, handlerVars, dbVars, lifeVars
<1>1. SyncTypeOK'
  BY StutterType DEF SyncInv
<1>2. CASE life # "down"
  BY <1>1, <1>2, HandlerSafe
<1>3. CASE life = "down"
  BY <1>1, <1>3 DEF SyncInv, PlaceInv, ChainInv, ProducerInv, StoreIsPrefix,
     EventsExactlyOnce, Hashes, Hash, HasLogs, LogsOf, Index!Prefix, Index!First
<1> QED  BY <1>2, <1>3

-----------------------------------------------------------------------------
(* Refinement: only the provider and a commit move the state that IndexedChain
   sees, and both do what it allows. *)

(* A step of the provider is a step of IndexedChain. *)
LEMMA ProviderRefines ==
  ASSUME ProviderTypeOK, ProviderNext, store' = store
  PROVE  Index!Next
  BY Frozen DEF Index!Next

(* A commit extends the table to a longer final prefix, or changes nothing. *)
LEMMA PersistRefines ==
  ASSUME SyncInv, NEW rows, rows = KeptOf(batch.headers), life # "down", Persist(rows)
  PROVE  Index!Next \/ UNCHANGED <<chain, final, store>>
<1>1. UNCHANGED <<chain, final>> /\ cons = "persist"
  BY DEF Persist, PersistCommit, PersistFail, PersistAckLost, PersistAbort,
         chainVars
<1>2. CASE store' = store
  BY <1>1, <1>2
<1>3. CASE Insert(rows)
  <2>1. PICK a, b \in -1..MaxHeight : Place(a, b)
    BY DEF SyncInv, PlaceInv
  <2>2. store' = Index!Prefix(a) /\ store \subseteq Index!Prefix(a)
    BY <1>1, <1>3, <2>1, InsertSafe DEF Insert
  <2>3. First - 1 <= a /\ Settled(a)
    <3>1. /\ SyncTypeOK /\ last \in -1..MaxHeight
          /\ First - 1 <= b /\ b <= a /\ a <= last /\ Settled(last)
      BY <2>1 DEF SyncInv, SyncTypeOK, Place
    <3>2. First - 1 <= a
      BY <3>1, FirstHeight
    <3> QED  BY <3>1, <3>2, SettledBelow
  <2>4. final \in Int
    BY DEF SyncInv, SyncTypeOK, ProviderTypeOK
  <2>5. CASE a = First - 1
    <3>1. Index!Prefix(a) = {}
      BY <2>5, FirstHeight DEF Index!Prefix
    <3> QED  BY <1>1, <2>2, <3>1
  <2>6. CASE a # First - 1
    <3>1. a \in Index!First..final
      BY <2>3, <2>4, <2>6, FirstHeight DEF Settled
    <3> QED  BY <1>1, <2>2, <2>4, <3>1 DEF Index!Next
  <2> QED  BY <2>5, <2>6
<1> QED  BY <1>2, <1>3 DEF Persist, PersistCommit, PersistFail, PersistAckLost, PersistAbort, dbVars

(* The other steps do not touch what IndexedChain sees. *)
LEMMA OthersRefine ==
  ASSUME Produce \/ Lifecycle \/ UNCHANGED syncVars
  PROVE  UNCHANGED <<chain, final, store>>
<1> USE DEF chainVars, dbVars
<1>1. CASE Produce
  BY <1>1 DEF Produce, RetryBatch, NextHeaders, BlockHeadersByRange, FilterToBlock,
              FilterLogs, SendBatch
<1>2. CASE Lifecycle
  BY <1>2 DEF Lifecycle, Start, StopSignal, Close, ExitLoop, CloseChannel,
              DrainedChannel, Stopped, Crash, Halt
<1>3. CASE UNCHANGED syncVars
  BY <1>3 DEF syncVars
<1> QED  BY <1>1, <1>2, <1>3

-----------------------------------------------------------------------------
(* The L1 synchronizer. *)

(* The L1 handler's rows are the kept blocks of its batch: those with logs. *)
LEMMA L1KeptRows ==
  ASSUME L1Keeps, SyncInv, life # "down", cons \in {"handle", "persist"}
  PROVE  L1Rows = KeptOf(batch.headers)
<1>1. PICK a, b \in -1..MaxHeight : Place(a, b)
  BY DEF SyncInv, PlaceInv
<1>2. batch.logs = LogsOf(batch.headers)
  BY <1>1 DEF Place
<1> QED  BY <1>2 DEF L1Keeps, L1Rows, LogsOf, KeptOf, HasLogs

(* Taking up a batch keeps every variable's type. *)
LEMMA L1HandleType == ASSUME SyncTypeOK, L1HandleBatch PROVE SyncTypeOK'
  BY SyncAssumption DEF L1HandleBatch, BeginPersist, SyncTypeOK, ProviderTypeOK, Finished, NoBatch,
     chainVars, producerVars, dbVars, lifeVars

(* Every step keeps every variable's type. *)
LEMMA L1Type == ASSUME SyncTypeOK, [L1Next]_syncVars PROVE SyncTypeOK'
<1>1. CASE ProviderNext /\ UNCHANGED <<producerVars, handlerVars, dbVars, lifeVars>>
  BY <1>1, ProviderType DEF SyncTypeOK, producerVars, handlerVars, dbVars, lifeVars
<1>2. CASE Produce
  BY <1>2, ProduceType
<1>3. CASE L1HandleBatch
  BY <1>3, L1HandleType
<1>4. CASE Persist(L1Rows)
  <2>1. L1Rows \subseteq Header
    BY DEF L1Rows, SyncTypeOK
  <2> QED  BY <1>4, <2>1, PersistType
<1>5. CASE Lifecycle
  BY <1>5, LifecycleType
<1>6. CASE UNCHANGED syncVars
  BY <1>6, StutterType
<1> QED  BY <1>1, <1>2, <1>3, <1>4, <1>5, <1>6 DEF L1Next

(* Every variable of the L1 synchronizer keeps its type: heights stay in the
   chain although the range of a batch is computed in machine words, and a
   batch is attempted at most MaxAttempts times. *)
THEOREM L1TypeCorrect == L1Spec => []SyncTypeOK
<1>1. SyncInit => SyncTypeOK
  BY InitType
<1>2. SyncTypeOK /\ [L1Next]_syncVars => SyncTypeOK'
  BY L1Type
<1> QED  BY <1>1, <1>2, PTL DEF L1Spec

(* Safety, when the confirmation depth covers the deepest reorganisation. *)

(* Taking up a batch preserves the invariant. *)
LEMMA L1HandleSafe == ASSUME L1Keeps, SyncInv, life # "down", L1HandleBatch PROVE SyncInv'
<1>1. SyncTypeOK'
  BY L1HandleType DEF SyncInv
<1>2. L1Rows = KeptOf(batch.headers)
  BY L1KeptRows DEF L1HandleBatch
<1> QED  BY <1>1, <1>2, HandlerSafe DEF L1HandleBatch, BeginPersist, Finished, lifeVars

(* Every step preserves the invariant. *)
LEMMA L1Safe ==
  ASSUME L1Keeps, ReorgDepth <= ConfDepth, SyncInv, [L1Next]_syncVars
  PROVE  SyncInv'
<1>1. CASE ProviderNext /\ UNCHANGED <<producerVars, handlerVars, dbVars, lifeVars>>
  BY <1>1, ProviderSafe
<1>2. CASE Produce
  BY <1>2, Awake, ProduceSafe
<1>3. CASE L1HandleBatch
  BY <1>3, Awake, L1HandleSafe DEF L1HandleBatch
<1>4. CASE Persist(L1Rows)
  BY <1>4, PersistAwake, L1KeptRows, PersistSafe
<1>5. CASE Lifecycle
  BY <1>5, LifecycleSafe
<1>6. CASE UNCHANGED syncVars
  BY <1>6, StutterSafe
<1> QED  BY <1>1, <1>2, <1>3, <1>4, <1>5, <1>6 DEF L1Next

(* The inductive invariant holds in every reachable state: database, batch in
   hand and batch being fetched are consecutive pieces of the final chain. *)
THEOREM L1Invariant == ASSUME L1Keeps, ReorgDepth <= ConfDepth PROVE L1Spec => []SyncInv
<1>1. SyncInit => SyncInv
  BY InitSafe
<1>2. SyncInv /\ [L1Next]_syncVars => SyncInv'
  BY L1Safe
<1> QED  BY <1>1, <1>2, PTL DEF L1Spec

(* The header table never has a gap below a stored block, nor a block that a
   reorganisation removes, whatever is retried, lost or interrupted. *)
THEOREM L1StoreIsPrefix == ASSUME L1Keeps, ReorgDepth <= ConfDepth PROVE L1Spec => []StoreIsPrefix
<1>1. SyncInv => StoreIsPrefix
  BY DEF SyncInv, PlaceInv
<1> QED  BY <1>1, L1Invariant, PTL

(* The logs of every stored block are in the event table exactly once. *)
THEOREM L1EventsExactlyOnce == ASSUME L1Keeps, ReorgDepth <= ConfDepth PROVE L1Spec => []EventsExactlyOnce
<1>1. SyncInv => EventsExactlyOnce
  BY DEF SyncInv
<1> QED  BY <1>1, L1Invariant, PTL

(* Every step is a step of IndexedChain or leaves what it sees unchanged. *)
LEMMA L1Refines ==
  ASSUME L1Keeps, SyncInv, [L1Next]_syncVars
  PROVE  [Index!Next]_<<chain, final, store>>
<1>1. CASE ProviderNext /\ UNCHANGED <<producerVars, handlerVars, dbVars, lifeVars>>
  BY <1>1, ProviderRefines DEF SyncInv, SyncTypeOK, dbVars
<1>2. CASE Persist(L1Rows)
  BY <1>2, PersistAwake, L1KeptRows, PersistRefines
<1>3. CASE L1HandleBatch
  BY <1>3 DEF L1HandleBatch, chainVars, dbVars
<1>4. CASE Produce \/ Lifecycle \/ UNCHANGED syncVars
  BY <1>4, OthersRefine
<1> QED  BY <1>1, <1>2, <1>3, <1>4 DEF L1Next

(* The L1 synchronizer implements IndexedChain: the table only ever grows to
   the kept blocks of a longer prefix of the final chain. *)
THEOREM L1ImplementsIndexedChain ==
  ASSUME L1Keeps, ReorgDepth <= ConfDepth PROVE L1Spec => ImplementsIndexedChain
<1>1. SyncInit => Index!Init
  BY DEF SyncInit, Index!Init
<1>2. SyncInv /\ [L1Next]_syncVars => [Index!Next]_<<chain, final, store>>
  BY L1Refines
<1> QED  BY <1>1, <1>2, L1Invariant, PTL DEF L1Spec, ImplementsIndexedChain, Index!Spec

-----------------------------------------------------------------------------
(* The L2 synchronizer. *)

(* The L2 handler's rows are the kept blocks of its batch: it keeps all. *)
LEMMA L2KeptRows == ASSUME L2Keeps, SyncTypeOK PROVE L2Rows = KeptOf(batch.headers)
  BY DEF L2Keeps, L2Rows, KeptOf, SyncTypeOK, Header

(* The handler's own steps keep every variable's type. *)
LEMMA L2HandlerType ==
  ASSUME SyncTypeOK, L2HandleBatch \/ HandleCrit
  PROVE  SyncTypeOK'
<1> USE SyncAssumption DEF SyncTypeOK, ProviderTypeOK, Finished, NoBatch, Close,
        chainVars, producerVars, handlerVars, dbVars, lifeVars
<1>1. CASE L2HandleBatch
  BY <1>1 DEF L2HandleBatch, BeginPersist
<1>2. CASE HandleCrit
  BY <1>2 DEF HandleCrit
<1> QED  BY <1>1, <1>2

(* The transaction of the L2 handler takes steps of the shared one. *)
LEMMA L2PersistShared == L2Persist => Persist(L2Rows)
  BY DEF L2Persist, Persist

(* Every step keeps every variable's type. *)
LEMMA L2Type == ASSUME SyncTypeOK, [L2Next]_syncVars PROVE SyncTypeOK'
<1>1. CASE ProviderNext /\ UNCHANGED <<producerVars, handlerVars, dbVars, lifeVars>>
  BY <1>1, ProviderType DEF SyncTypeOK, producerVars, handlerVars, dbVars, lifeVars
<1>2. CASE Produce
  BY <1>2, ProduceType
<1>3. CASE L2HandleBatch \/ HandleCrit
  BY <1>3, L2HandlerType
<1>4. CASE Persist(L2Rows)
  <2>1. L2Rows \subseteq Header
    BY DEF L2Rows, SyncTypeOK
  <2> QED  BY <1>4, <2>1, PersistType
<1>5. CASE Lifecycle
  BY <1>5, LifecycleType
<1>6. CASE UNCHANGED syncVars
  BY <1>6, StutterType
<1> QED  BY <1>1, <1>2, <1>3, <1>4, <1>5, <1>6, L2PersistShared DEF L2Next

(* Every variable of the L2 synchronizer keeps its type. *)
THEOREM L2TypeCorrect == L2Spec => []SyncTypeOK
<1>1. SyncInit => SyncTypeOK
  BY InitType
<1>2. SyncTypeOK /\ [L2Next]_syncVars => SyncTypeOK'
  BY L2Type
<1> QED  BY <1>1, <1>2, PTL DEF L2Spec

(* Safety, when the confirmation depth covers the deepest reorganisation. *)

(* Taking up a batch preserves the invariant. *)
LEMMA L2HandleSafe == ASSUME SyncInv, L2HandleBatch PROVE SyncInv'
<1>1. SyncTypeOK'
  BY L2HandlerType DEF SyncInv
<1>2. life # "down"
  BY Awake DEF L2HandleBatch
<1> QED  BY <1>1, <1>2, HandlerSafe DEF L2HandleBatch, BeginPersist, Finished, lifeVars

(* The stop after a panic preserves the invariant. *)
LEMMA HandleCritSafe == ASSUME SyncInv, HandleCrit PROVE SyncInv'
<1>1. SyncTypeOK'
  BY L2HandlerType DEF SyncInv
<1> QED  BY <1>1, ShutSafe DEF HandleCrit, Close, producerVars

(* Every step preserves the invariant. *)
LEMMA L2Safe ==
  ASSUME L2Keeps, ReorgDepth <= ConfDepth, SyncInv, [L2Next]_syncVars
  PROVE  SyncInv'
<1>1. CASE ProviderNext /\ UNCHANGED <<producerVars, handlerVars, dbVars, lifeVars>>
  BY <1>1, ProviderSafe
<1>2. CASE Produce
  BY <1>2, Awake, ProduceSafe
<1>3. CASE L2HandleBatch
  BY <1>3, L2HandleSafe
<1>4. CASE Persist(L2Rows)
  BY <1>4, PersistAwake, L2KeptRows, PersistSafe DEF SyncInv
<1>5. CASE HandleCrit
  BY <1>5, HandleCritSafe
<1>6. CASE Lifecycle
  BY <1>6, LifecycleSafe
<1>7. CASE UNCHANGED syncVars
  BY <1>7, StutterSafe
<1> QED  BY <1>1, <1>2, <1>3, <1>4, <1>5, <1>6, <1>7, L2PersistShared DEF L2Next

(* The inductive invariant holds in every reachable state: database, batch in
   hand and batch being fetched are consecutive pieces of the final chain. *)
THEOREM L2Invariant == ASSUME L2Keeps, ReorgDepth <= ConfDepth PROVE L2Spec => []SyncInv
<1>1. SyncInit => SyncInv
  BY InitSafe
<1>2. SyncInv /\ [L2Next]_syncVars => SyncInv'
  BY L2Safe
<1> QED  BY <1>1, <1>2, PTL DEF L2Spec

(* The L2 header table never has a gap below a stored block, nor a block that a
   reorganisation removes. *)
THEOREM L2StoreIsPrefix == ASSUME L2Keeps, ReorgDepth <= ConfDepth PROVE L2Spec => []StoreIsPrefix
<1>1. SyncInv => StoreIsPrefix
  BY DEF SyncInv, PlaceInv
<1> QED  BY <1>1, L2Invariant, PTL

(* Every step is a step of IndexedChain or leaves what it sees unchanged. *)
LEMMA L2Refines ==
  ASSUME L2Keeps, SyncInv, [L2Next]_syncVars
  PROVE  [Index!Next]_<<chain, final, store>>
<1>1. CASE ProviderNext /\ UNCHANGED <<producerVars, handlerVars, dbVars, lifeVars>>
  BY <1>1, ProviderRefines DEF SyncInv, SyncTypeOK, dbVars
<1>2. CASE Persist(L2Rows)
  BY <1>2, PersistAwake, L2KeptRows, PersistRefines DEF SyncInv
<1>3. CASE L2HandleBatch \/ HandleCrit
  BY <1>3 DEF L2HandleBatch, HandleCrit, Close, chainVars, dbVars
<1>4. CASE Produce \/ Lifecycle \/ UNCHANGED syncVars
  BY <1>4, OthersRefine
<1> QED  BY <1>1, <1>2, <1>3, <1>4, L2PersistShared DEF L2Next

(* The L2 synchronizer implements IndexedChain. *)
THEOREM L2ImplementsIndexedChain ==
  ASSUME L2Keeps, ReorgDepth <= ConfDepth PROVE L2Spec => ImplementsIndexedChain
<1>1. SyncInit => Index!Init
  BY DEF SyncInit, Index!Init
<1>2. SyncInv /\ [L2Next]_syncVars => [Index!Next]_<<chain, final, store>>
  BY L2Refines
<1> QED  BY <1>1, <1>2, L2Invariant, PTL DEF L2Spec, ImplementsIndexedChain, Index!Spec
=============================================================================
