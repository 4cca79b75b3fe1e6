---------------------------- MODULE BridgeLogsProofs ----------------------------
(***************************************************************************)
(* Theorems about the scans that turn the logs of a bridge into rows, for   *)
(* all chains, bedrock heights and scan lengths: the table holds the rows   *)
(* of whole blocks, and a row knows only what its own transaction says.     *)
(***************************************************************************)
EXTENDS BridgeLogs, SequenceTheorems, WellFoundedInduction, TLAPS

(* What rows know is from their own transaction. *)
MessageKnown(rows) ==
  \A r \in DOMAIN rows : rows[r].msg # <<>> =>
    LET s == rows[r].msg[1]
        e == rows[r].msg[2]
    IN  SameTx(r, s) /\ e[1] = s[1] /\ (With("sent", {s[1]}) = {s} => e = s)

TokenKnown(rows) ==
  \A r \in DOMAIN rows : rows[r].token # <<>> => SameTx(r, rows[r].token)

(* Each transaction that sent a message in the blocks has a row that knows one. *)
Told(rows, blocks) ==
  \A s \in With("sent", blocks) : \E r \in DOMAIN rows : SameTx(r, s) /\ rows[r].msg # <<>>

(* The steps after the legacy processor, and those with the rows of the scan. *)
Passed == {"rows", "messages", "bridges", "commit"}
Stored == {"messages", "bridges", "commit"}

(* The open transaction: the table, then also the rows of the entries of the range,
   then also the messages; the part of the range below bedrock has nothing in it. *)
DraftInv ==
  /\ step \in {"legacy", "rows"} => draft = table
  /\ step \in Passed => Unfit(LegacyRange) = {}
  /\ step \in Stored =>
       /\ DOMAIN draft = DOMAIN table \cup With("entry", ModernRange)
       /\ \A r \in DOMAIN table : draft[r] = table[r]
  /\ step \in {"bridges", "commit"} => Told(draft, ModernRange)
  /\ MessageKnown(draft) /\ TokenKnown(draft)

(* The table: the rows of the blocks up to the watermark, on both sides of the
   bedrock height. *)
Below == {n \in 1..pos : n < Bedrock}
Above == {n \in 1..pos : n >= Bedrock}

TableInv ==
  /\ DOMAIN table = With("sent", Below) \cup With("entry", Above)
  /\ Told(table, Above) /\ MessageKnown(table) /\ TokenKnown(table)

(* The inductive invariant. *)
LogsInv == LogsTypeOK /\ TableInv /\ DraftInv

-----------------------------------------------------------------------------
(* The logs of a transfer. *)

HasLog(n, kind, name) == \E i \in DOMAIN Emitted(n, kind) : Emitted(n, kind)[i] = name

(* With, element by element. *)
LEMMA WithElement ==
  ASSUME NEW name, NEW blocks, NEW r
  PROVE  r \in With(name, blocks) <=>
           \E n \in blocks : \E g \in DOMAIN chain[n] :
             r = <<n, g>> /\ HasLog(n, chain[n][g].kind, name)
  BY DEF With, HasLog

LogName == {"entry", "sent", "ext", "bridge", "other"}

(* The last logs of a transfer. *)
LEMMA LastLogs ==
  ASSUME NEW S, NEW q \in Seq(S), NEW a \in S, NEW b \in S, NEW c \in S
  PROVE  /\ Len(q) + 2 \in DOMAIN (q \o <<a, b, c>>) /\ (q \o <<a, b, c>>)[Len(q) + 2] = b
         /\ Len(q) + 3 \in DOMAIN (q \o <<a, b, c>>) /\ (q \o <<a, b, c>>)[Len(q) + 3] = c
<1> DEFINE t == <<a, b, c>>
<1>1. t \in Seq(S) /\ Len(t) = 3 /\ t[2] = b /\ t[3] = c
  OBVIOUS
<1> HIDE DEF t
<1>2. q \o t \in Seq(S) /\ Len(q \o t) = Len(q) + 3 /\ Len(q) \in Nat
  <2>1. Len(q) \in Nat
    BY LenProperties
  <2>2. q \o t \in Seq(S) /\ Len(q \o t) = Len(q) + Len(t)
    BY <1>1, ConcatProperties
  <2> QED  BY <1>1, <2>1, <2>2
<1>3. DOMAIN (q \o t) = 1..Len(q) + 3
  BY <1>2, LenProperties
<1>4. (q \o t)[Len(q) + 2] = t[2] /\ (q \o t)[Len(q) + 3] = t[3]
  BY <1>1, <1>2
<1>5. Len(q) + 2 \in DOMAIN (q \o t) /\ Len(q) + 3 \in DOMAIN (q \o t)
  BY <1>2, <1>3
<1> QED  BY <1>1, <1>4, <1>5 DEF t

(* On L1 a transfer below the bedrock height has an entry. *)
LEMMA OldEntry ==
  ASSUME NEW n, NEW kind, n < Bedrock, side = "l1"
  PROVE  HasLog(n, kind, "entry")
<1> DEFINE sent   == IF kind = "entry" THEN <<>> ELSE <<"sent">>
           bridge == IF kind \in {"entry", "message"} THEN <<>> ELSE <<"bridge">>
<1>1. Emitted(n, kind) = <<"entry">> \o sent \o bridge
  BY DEF Emitted
<1>2. <<>> \in Seq(LogName) /\ <<"entry">> \in Seq(LogName)
      /\ <<"sent">> \in Seq(LogName) /\ <<"bridge">> \in Seq(LogName)
  BY EmptySeq DEF LogName
<1>3. sent \in Seq(LogName) /\ bridge \in Seq(LogName)
  BY <1>2
<1> HIDE DEF sent, bridge
<1>4. <<"entry">> \o sent \in Seq(LogName) /\ Len(<<"entry">> \o sent) = 1 + Len(sent)
      /\ (<<"entry">> \o sent)[1] = "entry" /\ Len(sent) \in Nat
  BY <1>2, <1>3
<1>5. 1 \in DOMAIN Emitted(n, kind) /\ Emitted(n, kind)[1] = "entry"
  BY <1>1, <1>3, <1>4
<1> QED  BY <1>5 DEF HasLog

(* From the bedrock height on, what sends a message emits its extension and the
   other way round. *)
LEMMA SentWithExt ==
  ASSUME NEW n, NEW kind, ~ (n < Bedrock)
  PROVE  HasLog(n, kind, "sent") <=> HasLog(n, kind, "ext")
<1>1. CASE kind = "entry"
  <2>1. Emitted(n, kind) = <<"entry">>
    BY <1>1 DEF Emitted
  <2> QED  BY <2>1 DEF HasLog
<1>2. CASE kind = "message"
  <2>1. Emitted(n, kind) = <<"entry", "sent", "ext">>
    BY <1>2 DEF Emitted
  <2>2. /\ 2 \in DOMAIN Emitted(n, kind) /\ Emitted(n, kind)[2] = "sent"
        /\ 3 \in DOMAIN Emitted(n, kind) /\ Emitted(n, kind)[3] = "ext"
    BY <2>1
  <2> QED  BY <2>2 DEF HasLog
<1>3. CASE kind # "entry" /\ kind # "message"
  <2> DEFINE others == CASE <<side, kind>> = <<"l1", "mnt">> -> [i \in 1..5 |-> "other"]
                         [] <<side, kind>> = <<"l2", "eth">> -> [i \in 1..4 |-> "other"]
                         [] OTHER -> <<>>
             q == <<"bridge">> \o others
  <2>1. Emitted(n, kind) = q \o <<"entry", "sent", "ext">>
    BY <1>3 DEF Emitted
  <2>2. [i \in 1..5 |-> "other"] \in Seq(LogName) /\ [i \in 1..4 |-> "other"] \in Seq(LogName)
    BY SeqDef DEF LogName
  <2>3. others \in Seq(LogName)
    BY <2>2, EmptySeq
  <2> HIDE DEF others
  <2>4. q \in Seq(LogName)
    BY <2>3, ConcatProperties DEF LogName
  <2> HIDE DEF q
  <2>5. /\ Len(q) + 2 \in DOMAIN Emitted(n, kind) /\ Emitted(n, kind)[Len(q) + 2] = "sent"
        /\ Len(q) + 3 \in DOMAIN Emitted(n, kind) /\ Emitted(n, kind)[Len(q) + 3] = "ext"
    BY <2>1, <2>4, LastLogs DEF LogName
  <2> QED  BY <2>5 DEF HasLog
<1> QED  BY <1>1, <1>2, <1>3

-----------------------------------------------------------------------------
(* The chain and the logs of some of its blocks. *)

(* What the types say of the numbers and of the chain. *)
LEMMA LogsFacts ==
  ASSUME LogsTypeOK
  PROVE  /\ Bedrock \in Nat /\ MaxBlocks \in Nat /\ BlocksLimit \in Nat \ {0} /\ MaxFaults \in Nat
         /\ chain \in Seq(Blocks \cup OldBlocks) /\ Len(chain) \in Nat
         /\ DOMAIN chain = 1..Len(chain)
         /\ \A n \in DOMAIN chain : DOMAIN chain[n] \subseteq Nat
         /\ pos \in Nat /\ upto \in Nat /\ faults \in Nat
<1>1. /\ Bedrock \in Nat /\ MaxBlocks \in Nat /\ BlocksLimit \in Nat \ {0} /\ MaxFaults \in Nat
  BY BridgeLogsAssumption
<1>2. chain \in Seq(Blocks \cup OldBlocks)
  BY DEF LogsTypeOK
<1>3. Len(chain) \in Nat /\ DOMAIN chain = 1..Len(chain)
  BY <1>2, LenProperties
<1>4. \A n \in DOMAIN chain : chain[n] \in Blocks \cup OldBlocks
  BY <1>2
<1>5. ASSUME NEW n \in DOMAIN chain PROVE DOMAIN chain[n] \subseteq Nat
  <2>1. chain[n] \in Seq([kind : Kind, tx : Nat])
    BY <1>4, BridgeLogsAssumption
  <2>2. DOMAIN chain[n] = 1..Len(chain[n]) /\ Len(chain[n]) \in Nat
    BY <2>1, LenProperties
  <2> QED  BY <2>2
<1>6. pos \in Nat /\ upto \in Nat /\ faults \in Nat
  BY <1>1, <1>3 DEF LogsTypeOK
<1> QED  BY <1>1, <1>2, <1>3, <1>5, <1>6

(* Blocks add up. *)
LEMMA WithUnion ==
  ASSUME NEW name, NEW A, NEW B
  PROVE  With(name, A \cup B) = With(name, A) \cup With(name, B)
<1>1. ASSUME NEW r
      PROVE  r \in With(name, A \cup B) <=> r \in With(name, A) \/ r \in With(name, B)
  <2>1. r \in With(name, A \cup B) <=>
          \E n \in A \cup B : \E g \in DOMAIN chain[n] :
            r = <<n, g>> /\ HasLog(n, chain[n][g].kind, name)
    BY WithElement
  <2>2. r \in With(name, A) <=>
          \E n \in A : \E g \in DOMAIN chain[n] :
            r = <<n, g>> /\ HasLog(n, chain[n][g].kind, name)
    BY WithElement
  <2>3. r \in With(name, B) <=>
          \E n \in B : \E g \in DOMAIN chain[n] :
            r = <<n, g>> /\ HasLog(n, chain[n][g].kind, name)
    BY WithElement
  <2> QED  BY <2>1, <2>2, <2>3
<1> QED  BY <1>1

LEMMA WithNone ==
  ASSUME NEW name
  PROVE  With(name, {}) = {}
  BY DEF With

(* A transfer is known by its block. *)
LEMMA WithIn ==
  ASSUME NEW name, NEW blocks, NEW r \in With(name, blocks)
  PROVE  r[1] \in blocks /\ r[2] \in DOMAIN chain[r[1]] /\ r = <<r[1], r[2]>>
         /\ HasLog(r[1], chain[r[1]][r[2]].kind, name)
<1>1. PICK n \in blocks : \E g \in DOMAIN chain[n] :
        r = <<n, g>> /\ HasLog(n, chain[n][g].kind, name)
  BY WithElement
<1> QED  BY <1>1

LEMMA WithIds ==
  ASSUME LogsTypeOK, NEW name, NEW blocks, blocks \subseteq DOMAIN chain
  PROVE  With(name, blocks) \subseteq Id
<1> SUFFICES ASSUME NEW r \in With(name, blocks) PROVE r \in Id
  OBVIOUS
<1>1. r[1] \in blocks /\ r[2] \in DOMAIN chain[r[1]] /\ r = <<r[1], r[2]>>
  BY WithIn
<1>2. r[1] \in Nat /\ r[2] \in Nat
  BY <1>1, LogsFacts
<1> QED  BY <1>1, <1>2 DEF Id

(* Some of the blocks, some of the transfers. *)
LEMMA WithFewer ==
  ASSUME NEW name, NEW A, NEW B, A \subseteq B
  PROVE  With(name, A) \subseteq With(name, B)
<1>1. A \cup B = B
  OBVIOUS
<1> QED  BY <1>1, WithUnion

(* Where the legacy processor has nothing to refuse, there are no messages. *)
LEMMA OldPart ==
  ASSUME LogsTypeOK, NEW blocks, Unfit(blocks) = {}
  PROVE  With("sent", {n \in blocks : n < Bedrock}) = {}
<1>1. side \in {"l1", "l2"}
  BY DEF LogsTypeOK
<1>2. CASE side = "l2"
  BY <1>2 DEF Unfit
<1>3. CASE side = "l1"
  <2>1. With("entry", {n \in blocks : n < Bedrock}) = {}
    BY <1>3 DEF Unfit
  <2> SUFFICES ASSUME NEW r \in With("sent", {n \in blocks : n < Bedrock}) PROVE FALSE
    OBVIOUS
  <2>2. /\ r[1] \in {n \in blocks : n < Bedrock} /\ r[2] \in DOMAIN chain[r[1]]
        /\ r = <<r[1], r[2]>>
    BY WithIn
  <2>3. HasLog(r[1], chain[r[1]][r[2]].kind, "entry")
    BY <1>3, <2>2, OldEntry
  <2>4. r \in With("entry", {n \in blocks : n < Bedrock})
    BY <2>2, <2>3, WithElement
  <2> QED  BY <2>1, <2>4
<1> QED  BY <1>1, <1>2, <1>3

(* From the bedrock height on, messages and extensions are those of the same
   transfers. *)
LEMMA ModernPart ==
  ASSUME NEW blocks, \A n \in blocks : ~ (n < Bedrock)
  PROVE  With("ext", blocks) = With("sent", blocks)
<1>1. ASSUME NEW r PROVE r \in With("ext", blocks) <=> r \in With("sent", blocks)
  <2>1. \A n \in blocks : \A kind : HasLog(n, kind, "sent") <=> HasLog(n, kind, "ext")
    BY SentWithExt
  <2>2. r \in With("ext", blocks) <=>
          \E n \in blocks : \E g \in DOMAIN chain[n] :
            r = <<n, g>> /\ HasLog(n, chain[n][g].kind, "ext")
    BY WithElement
  <2>3. r \in With("sent", blocks) <=>
          \E n \in blocks : \E g \in DOMAIN chain[n] :
            r = <<n, g>> /\ HasLog(n, chain[n][g].kind, "sent")
    BY WithElement
  <2> QED  BY <2>1, <2>2, <2>3
<1> QED  BY <1>1

(* A new block changes nothing of the blocks that are there. *)
LEMMA Grown ==
  ASSUME LogsTypeOK, NewBlock
  PROVE  /\ chain' \in Seq(Blocks \cup OldBlocks) /\ Len(chain') <= MaxBlocks
         /\ Len(chain') = Len(chain) + 1 /\ DOMAIN chain' = 1..Len(chain')
         /\ \A n \in DOMAIN chain : chain'[n] = chain[n]
<1>1. chain \in Seq(Blocks \cup OldBlocks) /\ Len(chain) \in Nat /\ DOMAIN chain = 1..Len(chain)
      /\ MaxBlocks \in Nat /\ Len(chain) < MaxBlocks
  BY LogsFacts DEF NewBlock
<1>2. PICK b \in Blocks \cup OldBlocks : chain' = Append(chain, b)
  BY DEF NewBlock
<1> QED  BY <1>1, <1>2

LEMMA GrownWith ==
  ASSUME LogsTypeOK, NewBlock, NEW name, NEW blocks, blocks \subseteq DOMAIN chain
  PROVE  With(name, blocks)' = With(name, blocks)
<1>1. \A n \in blocks : chain'[n] = chain[n]
  BY Grown
<1>2. side' = side
  BY DEF NewBlock
<1>3. ASSUME NEW n \in blocks, NEW g
      PROVE  Emitted(n, chain[n][g].kind)' = Emitted(n, chain[n][g].kind)
  BY <1>1, <1>2 DEF Emitted
<1>4. ASSUME NEW r PROVE r \in With(name, blocks)' <=> r \in With(name, blocks)
  <2>1. r \in With(name, blocks)' <=>
          \E n \in blocks : \E g \in DOMAIN chain'[n] : r = <<n, g>> /\
            \E i \in DOMAIN Emitted(n, chain[n][g].kind)' : Emitted(n, chain[n][g].kind)'[i] = name
    BY DEF With
  <2>2. r \in With(name, blocks) <=>
          \E n \in blocks : \E g \in DOMAIN chain[n] : r = <<n, g>> /\
            \E i \in DOMAIN Emitted(n, chain[n][g].kind) : Emitted(n, chain[n][g].kind)[i] = name
    BY DEF With
  <2> QED  BY <1>1, <1>3, <2>1, <2>2
<1> QED  BY <1>4

LEMMA GrownTx ==
  ASSUME LogsTypeOK, NewBlock, NEW r, NEW s, r[1] \in DOMAIN chain, s[1] \in DOMAIN chain
  PROVE  SameTx(r, s)' = SameTx(r, s)
  BY Grown DEF SameTx, TxOf

-----------------------------------------------------------------------------
(* What stays. *)

(* Rows are of blocks that are indexed, those of the table up to the watermark. *)
LEMMA RowBlocks ==
  ASSUME LogsInv
  PROVE  /\ \A r \in DOMAIN table : r[1] \in 1..pos
         /\ \A r \in DOMAIN draft : r[1] \in DOMAIN chain
         /\ 1..pos \subseteq DOMAIN chain /\ 1..upto \subseteq DOMAIN chain
<1>1. DOMAIN table = With("sent", Below) \cup With("entry", Above)
  BY DEF LogsInv, TableInv
<1>2. LogsTypeOK /\ DraftInv
  BY DEF LogsInv
<1>3. pos \in 0..Len(chain) /\ upto \in 0..Len(chain)
  BY <1>2 DEF LogsTypeOK
<1>4. DOMAIN chain = 1..Len(chain) /\ Len(chain) \in Nat
  BY <1>2, LogsFacts
<1>5. \A r \in DOMAIN table : r[1] \in 1..pos
  BY <1>1, WithIn DEF Below, Above
<1>6. 1..pos \subseteq DOMAIN chain /\ 1..upto \subseteq DOMAIN chain
  BY <1>3, <1>4
<1>7. \A r \in DOMAIN draft : r[1] \in DOMAIN chain
  <2>1. step \in {"idle", "legacy", "rows"} \/ step \in Stored
    BY <1>2 DEF LogsTypeOK, Stored
  <2>2. CASE step = "idle"
    <3>1. DOMAIN draft = {}
      BY <1>2, <2>2 DEF LogsTypeOK
    <3> QED  BY <3>1
  <2>3. CASE step \in {"legacy", "rows"}
    BY <1>2, <1>5, <1>6, <2>3 DEF DraftInv
  <2>4. CASE step \in Stored
    <3>1. DOMAIN draft = DOMAIN table \cup With("entry", ModernRange)
      BY <1>2, <2>4 DEF DraftInv
    <3>2. \A r \in With("entry", ModernRange) : r[1] \in pos + 1..upto
      BY WithIn DEF ModernRange
    <3>3. pos + 1..upto \subseteq 1..upto
      BY <1>3, <1>4
    <3> QED  BY <1>5, <1>6, <3>1, <3>2, <3>3
  <2> QED  BY <2>1, <2>2, <2>3, <2>4
<1> QED  BY <1>5, <1>6, <1>7

(* What is said of one block. *)
LEMMA KnownBlock ==
  ASSUME NEW r, NEW s, SameTx(r, s)
  PROVE  s[1] = r[1]
  BY DEF SameTx, TxOf

(* A new block changes nothing of what rows of earlier blocks know. *)
LEMMA GrownKnown ==
  ASSUME LogsTypeOK, NewBlock, NEW rows, \A r \in DOMAIN rows : r[1] \in DOMAIN chain,
         MessageKnown(rows), TokenKnown(rows)
  PROVE  MessageKnown(rows)' /\ TokenKnown(rows)'
<1>1. ASSUME NEW r \in DOMAIN rows, rows[r].msg # <<>>
      PROVE  LET s == rows[r].msg[1]
                 e == rows[r].msg[2]
             IN  SameTx(r, s)' /\ e[1] = s[1] /\ (With("sent", {s[1]})' = {s} => e = s)
  <2>1. PICK s, e : s = rows[r].msg[1] /\ e = rows[r].msg[2]
    OBVIOUS
  <2>2. SameTx(r, s) /\ e[1] = s[1] /\ (With("sent", {s[1]}) = {s} => e = s)
    BY <1>1, <2>1 DEF MessageKnown
  <2>3. r[1] \in DOMAIN chain /\ s[1] \in DOMAIN chain
    BY <2>2, KnownBlock
  <2>4. PICK b : b = s[1]
    OBVIOUS
  <2>5. With("sent", {b})' = With("sent", {b})
    BY <2>3, <2>4, GrownWith
  <2>6. SameTx(r, s)'
    BY <2>2, <2>3, GrownTx
  <2> QED  BY <2>1, <2>2, <2>4, <2>5, <2>6
<1>2. ASSUME NEW r \in DOMAIN rows, rows[r].token # <<>>
      PROVE  SameTx(r, rows[r].token)'
  <2>1. PICK s : s = rows[r].token
    OBVIOUS
  <2>2. SameTx(r, s)
    BY <1>2, <2>1 DEF TokenKnown
  <2>3. r[1] \in DOMAIN chain /\ s[1] \in DOMAIN chain
    BY <2>2, KnownBlock
  <2>4. SameTx(r, s)'
    BY <2>2, <2>3, GrownTx
  <2> QED  BY <2>1, <2>4
<1>3. MessageKnown(rows)'
  BY <1>1 DEF MessageKnown
<1>4. TokenKnown(rows)'
  BY <1>2 DEF TokenKnown
<1> QED  BY <1>3, <1>4

LEMMA GrownTold ==
  ASSUME LogsTypeOK, NewBlock, NEW rows, \A r \in DOMAIN rows : r[1] \in DOMAIN chain,
         NEW blocks, blocks \subseteq DOMAIN chain, Told(rows, blocks)
  PROVE  Told(rows, blocks)'
<1>1. With("sent", blocks)' = With("sent", blocks)
  BY GrownWith
<1>2. ASSUME NEW s \in With("sent", blocks)
      PROVE  \E r \in DOMAIN rows : SameTx(r, s)' /\ rows[r].msg # <<>>
  <2>1. PICK r \in DOMAIN rows : SameTx(r, s) /\ rows[r].msg # <<>>
    BY DEF Told
  <2>2. r[1] \in DOMAIN chain /\ s[1] \in DOMAIN chain
    BY <2>1, KnownBlock
  <2>3. SameTx(r, s)'
    BY <2>1, <2>2, GrownTx
  <2> QED  BY <2>1, <2>3
<1> QED  BY <1>1, <1>2 DEF Told

LEMMA NewBlockInv ==
  ASSUME LogsInv, NewBlock
  PROVE  LogsInv'
<1>1. LogsTypeOK /\ TableInv /\ DraftInv /\ UNCHANGED <<side, pos, table, step, upto, draft, faults>>
  BY DEF LogsInv, NewBlock
<1>2. /\ chain' \in Seq(Blocks \cup OldBlocks) /\ Len(chain') <= MaxBlocks
      /\ Len(chain') = Len(chain) + 1 /\ Len(chain) \in Nat
      /\ DOMAIN chain = 1..Len(chain)
  BY <1>1, Grown, LogsFacts
<1>3. LogsTypeOK'
  BY <1>1, <1>2 DEF LogsTypeOK
<1>4. /\ \A r \in DOMAIN table : r[1] \in DOMAIN chain
      /\ \A r \in DOMAIN draft : r[1] \in DOMAIN chain
      /\ 1..pos \subseteq DOMAIN chain /\ 1..upto \subseteq DOMAIN chain
      /\ pos \in Nat
  BY <1>1, RowBlocks, LogsFacts
<1>5. PICK rows, open : rows = table /\ open = draft
  OBVIOUS
<1>6. PICK below, above : below = Below /\ above = Above
  OBVIOUS
<1>7. below' = below /\ above' = above /\ Below' = below /\ Above' = above
      /\ below \subseteq DOMAIN chain /\ above \subseteq DOMAIN chain
  BY <1>1, <1>4, <1>6 DEF Below, Above
<1>8. With("sent", below)' = With("sent", below) /\ With("entry", above)' = With("entry", above)
  BY <1>1, <1>7, GrownWith
<1>9. Told(rows, above)' /\ MessageKnown(rows)' /\ TokenKnown(rows)'
  BY <1>1, <1>4, <1>5, <1>6, <1>7, GrownTold, GrownKnown DEF TableInv
<1>10. TableInv'
  BY <1>1, <1>5, <1>6, <1>7, <1>8, <1>9 DEF TableInv
<1>11. MessageKnown(open)' /\ TokenKnown(open)'
  BY <1>1, <1>4, <1>5, GrownKnown DEF DraftInv
<1>12. PICK legacy, modern, old : legacy = LegacyRange /\ modern = ModernRange
         /\ old = {n \in legacy : n < Bedrock}
  OBVIOUS
<1>13. LegacyRange' = legacy /\ ModernRange' = modern /\ old \subseteq DOMAIN chain
       /\ modern \subseteq DOMAIN chain
  BY <1>1, <1>4, <1>12 DEF LegacyRange, ModernRange
<1>14. Unfit(legacy)' = Unfit(legacy)
  <2>1. PICK name : name = IF side = "l1" THEN "entry" ELSE "sent"
    OBVIOUS
  <2>2. With(name, old)' = With(name, old)
    BY <1>1, <1>13, GrownWith
  <2> QED  BY <1>1, <1>12, <2>1, <2>2 DEF Unfit
<1>15. With("entry", modern)' = With("entry", modern)
  BY <1>1, <1>13, GrownWith
<1>16. step \in {"bridges", "commit"} => Told(open, modern)'
  BY <1>1, <1>4, <1>5, <1>12, <1>13, GrownTold DEF DraftInv
<1>17. DraftInv'
  BY <1>1, <1>5, <1>11, <1>12, <1>13, <1>14, <1>15, <1>16 DEF DraftInv
<1> QED  BY <1>3, <1>10, <1>17 DEF LogsInv

(* The logs and transactions of a chain that stays. *)
LEMMA ChainStays ==
  ASSUME UNCHANGED <<side, chain>>
  PROVE  /\ \A name, blocks : With(name, blocks)' = With(name, blocks)
         /\ \A r, s : SameTx(r, s)' <=> SameTx(r, s)
<1>1. ASSUME NEW name, NEW blocks PROVE With(name, blocks)' = With(name, blocks)
  BY DEF With, Emitted
<1>2. ASSUME NEW r, NEW s PROVE SameTx(r, s)' <=> SameTx(r, s)
  BY DEF SameTx, TxOf
<1> QED  BY <1>1, <1>2

LEMMA KnownStays ==
  ASSUME UNCHANGED <<side, chain>>, NEW rows
  PROVE  /\ MessageKnown(rows) => MessageKnown(rows)'
         /\ TokenKnown(rows) => TokenKnown(rows)'
         /\ \A blocks : Told(rows, blocks) => Told(rows, blocks)'
  BY ChainStays DEF Told, MessageKnown, TokenKnown

(* A step of a scan keeps what is said of the table while it keeps the table. *)
LEMMA TableKept ==
  ASSUME TableInv, UNCHANGED <<side, chain, pos, table>>
  PROVE  TableInv'
<1>1. PICK rows, below, above : rows = table /\ below = Below /\ above = Above
  OBVIOUS
<1>2. Below' = below /\ Above' = above
  BY <1>1 DEF Below, Above
<1>3. With("sent", below)' = With("sent", below) /\ With("entry", above)' = With("entry", above)
  BY ChainStays
<1>4. Told(rows, above)' /\ MessageKnown(rows)' /\ TokenKnown(rows)'
  BY <1>1, KnownStays DEF TableInv
<1> QED  BY <1>1, <1>2, <1>3, <1>4 DEF TableInv

(* A step of the transaction keeps the range and what the chain says of it. *)
LEMMA RangeStays ==
  ASSUME UNCHANGED <<side, chain, pos, upto>>
  PROVE  /\ Unfit(LegacyRange) = {} => Unfit(LegacyRange)' = {}
         /\ ModernRange' = ModernRange
         /\ \A name : With(name, ModernRange)' = With(name, ModernRange)
<1>1. LegacyRange' = LegacyRange /\ ModernRange' = ModernRange
  BY DEF LegacyRange, ModernRange
<1>2. Unfit(LegacyRange)' = Unfit(LegacyRange)
  BY <1>1, ChainStays DEF Unfit
<1>3. \A name : With(name, ModernRange)' = With(name, ModernRange)
  BY <1>1, ChainStays
<1> QED  BY <1>1, <1>2, <1>3

(* When a scan ends without a commit nothing is left of its transaction. *)
LEMMA IdleDraft ==
  ASSUME step' = "idle", draft' = <<>>
  PROVE  DraftInv'
  BY DEF DraftInv, Passed, Stored, MessageKnown, TokenKnown

-----------------------------------------------------------------------------
(* The steps of a scan. *)

LEMMA BeginInv ==
  ASSUME LogsInv, Begin
  PROVE  LogsInv'
<1>1. LogsTypeOK /\ TableInv /\ pos \in Nat /\ Len(chain) \in Nat
      /\ Bedrock \in Nat /\ BlocksLimit \in Nat \ {0}
  BY LogsFacts DEF LogsInv
<1>2. /\ pos < Len(chain) /\ upto' = Min({Len(chain), pos + BlocksLimit}) /\ draft' = table
      /\ step' = (IF pos + 1 < Bedrock THEN "legacy" ELSE "rows")
      /\ UNCHANGED <<side, chain, pos, table, faults>>
  BY DEF Begin
<1>3. upto' \in 0..Len(chain) /\ pos < upto'
  <2> DEFINE S == {Len(chain), pos + BlocksLimit}
  <2>1. \E x \in S : \A y \in S : x =< y
    BY <1>1
  <2>2. Min(S) \in S /\ \A y \in S : Min(S) =< y
    BY <2>1 DEF Min
  <2> QED  BY <1>1, <1>2, <2>2
<1>4. LogsTypeOK'
  BY <1>1, <1>2, <1>3 DEF LogsTypeOK
<1>5. TableInv'
  BY <1>1, <1>2, TableKept
<1>6. step' \in Passed => Unfit(LegacyRange)' = {}
  <2> SUFFICES ASSUME step' \in Passed PROVE Unfit(LegacyRange)' = {}
    OBVIOUS
  <2>1. ~ (pos + 1 < Bedrock)
    BY <1>2 DEF Passed
  <2>2. LegacyRange' = {}
    BY <1>1, <1>2, <1>3, <2>1 DEF LegacyRange
  <2> QED  BY <2>2 DEF Unfit, With
<1>7. MessageKnown(draft)' /\ TokenKnown(draft)'
  BY <1>2, <1>5 DEF TableInv, MessageKnown, TokenKnown
<1>8. DraftInv'
  BY <1>2, <1>6, <1>7 DEF DraftInv, Stored
<1> QED  BY <1>4, <1>5, <1>8 DEF LogsInv

LEMMA LegacyPassesInv ==
  ASSUME LogsInv, Legacy
  PROVE  LogsInv'
<1>1. LogsTypeOK /\ TableInv /\ DraftInv
  BY DEF LogsInv
<1>2. /\ Unfit(LegacyRange) = {} /\ step = "legacy"
      /\ step' = (IF ModernRange = {} THEN "commit" ELSE "rows")
      /\ UNCHANGED <<side, chain, pos, table, upto, faults, draft>>
  BY DEF Legacy, Go
<1>3. LogsTypeOK'
  BY <1>1, <1>2 DEF LogsTypeOK
<1>4. TableInv'
  BY <1>1, <1>2, TableKept
<1>5. draft = table
  BY <1>1, <1>2 DEF DraftInv
<1>6. Unfit(LegacyRange)' = {}
  BY <1>2, RangeStays
<1>7. step' = "commit" => ModernRange' = {}
  BY <1>2 DEF ModernRange
<1>8. step' = "commit" => With("entry", ModernRange)' = {} /\ With("sent", ModernRange)' = {}
  BY <1>7 DEF With
<1>9. MessageKnown(draft)' /\ TokenKnown(draft)'
  BY <1>2, <1>4, <1>5 DEF TableInv, MessageKnown, TokenKnown
<1>10. step' = "commit" => Told(draft, ModernRange)'
  BY <1>8 DEF Told
<1>11. DraftInv'
  BY <1>2, <1>5, <1>6, <1>8, <1>9, <1>10 DEF DraftInv, Stored
<1> QED  BY <1>3, <1>4, <1>11 DEF LogsInv

LEMMA RollbackInv ==
  ASSUME LogsInv, Rollback, faults' \in 0..MaxFaults
  PROVE  LogsInv'
<1>1. LogsTypeOK /\ TableInv
      /\ step' = "idle" /\ draft' = <<>> /\ UNCHANGED <<side, chain, pos, table, upto>>
  BY DEF LogsInv, Rollback
<1>2. LogsTypeOK'
  BY <1>1 DEF LogsTypeOK
<1> QED  BY <1>1, <1>2, TableKept, IdleDraft DEF LogsInv

(* A bounded set of numbers has a greatest one. *)
LEMMA GreatestExists ==
  ASSUME NEW n \in Nat, NEW S \in SUBSET (0..n), S # {}
  PROVE  Max(S) \in S /\ \A j \in S : j <= Max(S)
<1> DEFINE R == OpToRel(<, Nat)
           T == {n - k : k \in S}
<1>1. IsWellFoundedOn(R, Nat)
  BY NatLessThanWellFounded
<1>2. T \subseteq Nat /\ T # {} /\ \A k \in S : n - k \in T
  <2>1. \A k \in S : n - k \in Nat
    OBVIOUS
  <2> QED  BY <2>1, Zenon
<1>3. PICK x \in T : \A y \in T : <<y, x>> \notin R
  <2> HIDE DEF R, T
  <2> QED  BY <1>1, <1>2, WFMin
<1>4. \A y \in T : ~ (y < x)
  <2>1. ASSUME NEW y \in T, y < x PROVE <<y, x>> \in R
    BY <1>2, <2>1 DEF OpToRel
  <2> QED  BY <1>3, <2>1
<1>5. PICK k \in S : x = n - k
  BY Zenon
<1>6. ASSUME NEW j \in S PROVE k >= j
  <2>1. n - j \in Nat /\ n - k \in Nat /\ n - j \in T
    BY <1>2, Zenon
  <2> HIDE DEF T
  <2>2. ~ (n - j < n - k)
    BY <1>4, <1>5, <2>1
  <2> QED  BY <2>1, <2>2
<1>7. Max(S) \in S /\ \A j \in S : Max(S) >= j
  BY <1>6 DEF Max
<1> QED  BY <1>7

(* After the panic the stream goes on at the last block with a row: between it and
   the old watermark no block has one, and no message that needs one. *)
LEMMA LegacyPanicsInv ==
  ASSUME LogsInv, LegacyPanics
  PROVE  LogsInv'
<1>1. LogsTypeOK /\ TableInv /\ pos \in Nat /\ Bedrock \in Nat
      /\ pos \in 0..Len(chain) /\ Len(chain) \in Nat
  BY LogsFacts DEF LogsInv, LogsTypeOK
<1> DEFINE S == {r[1] : r \in DOMAIN table} \cup {0}
<1>2. /\ pos' = Max(S) /\ step' = "idle" /\ draft' = <<>>
      /\ UNCHANGED <<side, chain, table, upto, faults>>
  BY DEF LegacyPanics
<1>3. S \in SUBSET (0..pos) /\ S # {} /\ \A r \in DOMAIN table : r[1] \in S
  BY <1>1, RowBlocks
<1>4. pos' \in 0..pos /\ \A r \in DOMAIN table : r[1] <= pos'
  <2> HIDE DEF S
  <2>1. Max(S) \in S /\ \A j \in S : j <= Max(S)
    BY <1>1, <1>3, GreatestExists
  <2> QED  BY <1>2, <1>3, <2>1
<1> HIDE DEF S
<1>5. LogsTypeOK'
  BY <1>1, <1>2, <1>4 DEF LogsTypeOK
<1>6. PICK below, above, rows : below = Below' /\ above = Above' /\ rows = table
  OBVIOUS
<1>7. /\ below = {n \in Below : n <= pos'} /\ above = {n \in Above : n <= pos'}
      /\ below \subseteq Below /\ above \subseteq Above
  BY <1>1, <1>4, <1>6 DEF Below, Above
<1>8. DOMAIN table = With("sent", below) \cup With("entry", above)
  <2>1. DOMAIN table = With("sent", Below) \cup With("entry", Above)
    BY <1>1 DEF TableInv
  <2>2. With("sent", below) \subseteq With("sent", Below)
        /\ With("entry", above) \subseteq With("entry", Above)
    BY <1>7, WithFewer
  <2>3. ASSUME NEW r \in With("sent", Below) PROVE r \in With("sent", below)
    <3>1. r[1] \in Below /\ r[2] \in DOMAIN chain[r[1]] /\ r = <<r[1], r[2]>>
          /\ HasLog(r[1], chain[r[1]][r[2]].kind, "sent")
      BY WithIn
    <3>2. r[1] \in below
      BY <1>4, <1>7, <2>1, <3>1
    <3> QED  BY <3>1, <3>2, WithElement
  <2>4. ASSUME NEW r \in With("entry", Above) PROVE r \in With("entry", above)
    <3>1. r[1] \in Above /\ r[2] \in DOMAIN chain[r[1]] /\ r = <<r[1], r[2]>>
          /\ HasLog(r[1], chain[r[1]][r[2]].kind, "entry")
      BY WithIn
    <3>2. r[1] \in above
      BY <1>4, <1>7, <2>1, <3>1
    <3> QED  BY <3>1, <3>2, WithElement
  <2> QED  BY <2>1, <2>2, <2>3, <2>4
<1>9. Told(rows, above)
  <2>1. With("sent", above) \subseteq With("sent", Above)
    BY <1>7, WithFewer
  <2> QED  BY <1>1, <1>6, <2>1 DEF TableInv, Told
<1>10. With("sent", below)' = With("sent", below) /\ With("entry", above)' = With("entry", above)
  BY <1>2, ChainStays
<1>11. Told(rows, above)' /\ MessageKnown(rows)' /\ TokenKnown(rows)'
  BY <1>1, <1>2, <1>6, <1>9, KnownStays DEF TableInv
<1>12. TableInv'
  BY <1>2, <1>6, <1>8, <1>10, <1>11 DEF TableInv
<1> QED  BY <1>2, <1>5, <1>12, IdleDraft DEF LogsInv

(* The blocks of a scan from the bedrock height on: they are indexed, and the table
   has nothing of them. *)
LEMMA RangeFacts ==
  ASSUME LogsInv
  PROVE  /\ ModernRange \subseteq DOMAIN chain /\ \A n \in ModernRange : ~ (n < Bedrock)
         /\ \A name : With(name, ModernRange) \subseteq Id
         /\ DOMAIN table \cap With("entry", ModernRange) = {}
         /\ With("ext", ModernRange) = With("sent", ModernRange)
<1>1. LogsTypeOK /\ pos \in Nat /\ upto \in Nat /\ Bedrock \in Nat
  BY LogsFacts DEF LogsInv
<1>2. ModernRange \subseteq 1..upto /\ 1..upto \subseteq DOMAIN chain
      /\ \A n \in ModernRange : ~ (n < Bedrock) /\ n > pos
  <2>1. 1..upto \subseteq DOMAIN chain
    BY RowBlocks
  <2> QED  BY <1>1, <2>1 DEF ModernRange
<1>3. \A name : With(name, ModernRange) \subseteq Id
  BY <1>1, <1>2, WithIds
<1>4. DOMAIN table \cap With("entry", ModernRange) = {}
  <2> SUFFICES ASSUME NEW r \in DOMAIN table, r \in With("entry", ModernRange) PROVE FALSE
    OBVIOUS
  <2>1. r[1] \in 1..pos /\ r[1] \in ModernRange
    BY RowBlocks, WithIn
  <2> QED  BY <1>1, <1>2, <2>1
<1>5. With("ext", ModernRange) = With("sent", ModernRange)
  BY <1>2, ModernPart
<1> QED  BY <1>2, <1>3, <1>4, <1>5

LEMMA StoreRowsInv ==
  ASSUME LogsInv, StoreRows
  PROVE  LogsInv'
<1>1. LogsTypeOK /\ TableInv /\ DraftInv
  BY DEF LogsInv
<1>2. step = "rows" /\ step' = "messages" /\ UNCHANGED <<side, chain, pos, table, upto, faults>>
  BY DEF StoreRows, Go
<1>3. draft = table /\ Unfit(LegacyRange) = {}
  BY <1>1, <1>2 DEF DraftInv, Passed
<1> DEFINE rows == With("entry", ModernRange)
<1>4. /\ DOMAIN draft' = DOMAIN table \cup rows
      /\ \A r \in DOMAIN table : draft'[r] = table[r]
      /\ \A r \in rows \ DOMAIN table : draft'[r] = NoRow
  BY <1>3 DEF StoreRows
<1>5. rows \subseteq Id
  BY RangeFacts
<1> HIDE DEF rows
<1>6. NoRow \in Row /\ NoRow.msg = <<>> /\ NoRow.token = <<>>
  BY DEF NoRow, Row
<1>7. \A r \in DOMAIN draft' : r \in Id /\ draft'[r] \in Row
  <2>1. \A r \in DOMAIN table : r \in Id /\ table[r] \in Row
    BY <1>1 DEF LogsTypeOK
  <2> QED  BY <1>4, <1>5, <1>6, <2>1
<1>8. LogsTypeOK'
  BY <1>1, <1>2, <1>4, <1>7 DEF LogsTypeOK
<1>9. TableInv'
  BY <1>1, <1>2, TableKept
<1>10. PICK open, old : open = draft' /\ old = table
  OBVIOUS
<1>11. MessageKnown(old) /\ TokenKnown(old)
  BY <1>1, <1>10 DEF TableInv
<1>12. MessageKnown(open)
  <2>1. ASSUME NEW r \in DOMAIN open, open[r].msg # <<>>
        PROVE  r \in DOMAIN old /\ open[r] = old[r]
    BY <1>4, <1>6, <1>10, <2>1
  <2> QED  BY <1>11, <2>1 DEF MessageKnown
<1>13. TokenKnown(open)
  <2>1. ASSUME NEW r \in DOMAIN open, open[r].token # <<>>
        PROVE  r \in DOMAIN old /\ open[r] = old[r]
    BY <1>4, <1>6, <1>10, <2>1
  <2> QED  BY <1>11, <2>1 DEF TokenKnown
<1>14. MessageKnown(open)' /\ TokenKnown(open)'
  BY <1>2, <1>12, <1>13, KnownStays
<1>15. Unfit(LegacyRange)' = {} /\ With("entry", ModernRange)' = rows
  BY <1>2, <1>3, RangeStays DEF rows
<1>16. DraftInv'
  BY <1>2, <1>4, <1>10, <1>14, <1>15 DEF DraftInv
<1> QED  BY <1>8, <1>9, <1>16 DEF LogsInv

LEMMA CommitInv ==
  ASSUME LogsInv, Commit
  PROVE  LogsInv'
<1>1. LogsTypeOK /\ TableInv /\ DraftInv /\ pos \in Nat /\ upto \in Nat /\ Bedrock \in Nat
  BY LogsFacts DEF LogsInv
<1>2. /\ step = "commit" /\ table' = draft /\ pos' = upto /\ step' = "idle" /\ draft' = <<>>
      /\ UNCHANGED <<side, chain, upto, faults>>
  BY DEF Commit
<1>3. pos < upto
  BY <1>1, <1>2 DEF LogsTypeOK
<1>4. LogsTypeOK'
  BY <1>1, <1>2 DEF LogsTypeOK
<1>5. /\ Unfit(LegacyRange) = {} /\ Told(draft, ModernRange)
      /\ DOMAIN draft = DOMAIN table \cup With("entry", ModernRange)
      /\ \A r \in DOMAIN table : draft[r] = table[r]
      /\ MessageKnown(draft) /\ TokenKnown(draft)
  BY <1>1, <1>2 DEF DraftInv, Passed, Stored
<1> DEFINE old == {n \in LegacyRange : n < Bedrock}
<1>6. Below' = Below \cup old /\ Above' = Above \cup ModernRange
  BY <1>1, <1>2, <1>3 DEF Below, Above, LegacyRange, ModernRange
<1>7. With("sent", old) = {}
  BY <1>1, <1>5, OldPart
<1> HIDE DEF old
<1>8. With("sent", Below \cup old) = With("sent", Below)
  <2>1. With("sent", Below \cup old) = With("sent", Below) \cup With("sent", old)
    BY WithUnion
  <2> QED  BY <1>7, <2>1
<1>9. With("entry", Above \cup ModernRange) = With("entry", Above) \cup With("entry", ModernRange)
      /\ With("sent", Above \cup ModernRange) = With("sent", Above) \cup With("sent", ModernRange)
  BY WithUnion
<1>10. PICK rows, below, above : rows = draft /\ below = Below \cup old
         /\ above = Above \cup ModernRange
  OBVIOUS
<1>11. DOMAIN rows = With("sent", below) \cup With("entry", above)
  BY <1>1, <1>5, <1>8, <1>9, <1>10 DEF TableInv
<1>12. Told(rows, above)
  <2>1. Told(table, Above) /\ DOMAIN table \subseteq DOMAIN rows
    BY <1>1, <1>5, <1>10 DEF TableInv
  <2> SUFFICES ASSUME NEW s \in With("sent", above)
               PROVE  \E r \in DOMAIN rows : SameTx(r, s) /\ rows[r].msg # <<>>
    BY DEF Told
  <2>2. CASE s \in With("sent", Above)
    <3>1. PICK r \in DOMAIN table : SameTx(r, s) /\ table[r].msg # <<>>
      BY <2>1, <2>2 DEF Told
    <3> QED  BY <1>5, <1>10, <2>1, <3>1
  <2>3. CASE s \in With("sent", ModernRange)
    BY <1>5, <1>10, <2>3 DEF Told
  <2> QED  BY <1>9, <1>10, <2>2, <2>3
<1>13. With("sent", below)' = With("sent", below) /\ With("entry", above)' = With("entry", above)
  BY <1>2, ChainStays
<1>14. Told(rows, above)' /\ MessageKnown(rows)' /\ TokenKnown(rows)'
  BY <1>2, <1>5, <1>10, <1>12, KnownStays
<1>15. TableInv'
  BY <1>2, <1>6, <1>10, <1>11, <1>13, <1>14 DEF TableInv
<1> QED  BY <1>2, <1>4, <1>15, IdleDraft DEF LogsInv

(* Saving sets one field of the rows that got something. *)
Fits(r, got) == r \in DOMAIN got /\ got[r] # <<>>

LEMMA SavedMessages ==
  ASSUME NEW rows, NEW got, \A r \in DOMAIN rows : rows[r] \in Row
  PROVE  /\ DOMAIN Saved(rows, "msg", got) = DOMAIN rows
         /\ \A r \in DOMAIN rows : Saved(rows, "msg", got)[r] =
              [msg |-> IF Fits(r, got) THEN got[r] ELSE rows[r].msg, token |-> rows[r].token]
<1>1. ASSUME NEW r \in DOMAIN rows
      PROVE  Saved(rows, "msg", got)[r] =
               [msg |-> IF Fits(r, got) THEN got[r] ELSE rows[r].msg, token |-> rows[r].token]
  <2>1. rows[r] \in Row
    OBVIOUS
  <2>2. CASE Fits(r, got)
    <3>1. Saved(rows, "msg", got)[r] = [rows[r] EXCEPT !.msg = got[r]]
      BY <2>2 DEF Saved, Fits
    <3> QED  BY <2>1, <2>2, <3>1 DEF Row
  <2>3. CASE ~ Fits(r, got)
    <3>1. Saved(rows, "msg", got)[r] = rows[r]
      BY <2>3 DEF Saved, Fits
    <3> QED  BY <2>1, <2>3, <3>1 DEF Row
  <2> QED  BY <2>2, <2>3
<1> QED  BY <1>1 DEF Saved

LEMMA SavedTokens ==
  ASSUME NEW rows, NEW got, \A r \in DOMAIN rows : rows[r] \in Row
  PROVE  /\ DOMAIN Saved(rows, "token", got) = DOMAIN rows
         /\ \A r \in DOMAIN rows : Saved(rows, "token", got)[r] =
              [msg |-> rows[r].msg, token |-> IF Fits(r, got) THEN got[r] ELSE rows[r].token]
<1>1. ASSUME NEW r \in DOMAIN rows
      PROVE  Saved(rows, "token", got)[r] =
               [msg |-> rows[r].msg, token |-> IF Fits(r, got) THEN got[r] ELSE rows[r].token]
  <2>1. rows[r] \in Row
    OBVIOUS
  <2>2. CASE Fits(r, got)
    <3>1. Saved(rows, "token", got)[r] = [rows[r] EXCEPT !.token = got[r]]
      BY <2>2 DEF Saved, Fits
    <3> QED  BY <2>1, <2>2, <3>1 DEF Row
  <2>3. CASE ~ Fits(r, got)
    <3>1. Saved(rows, "token", got)[r] = rows[r]
      BY <2>3 DEF Saved, Fits
    <3> QED  BY <2>1, <2>3, <3>1 DEF Row
  <2> QED  BY <2>2, <2>3
<1> QED  BY <1>1 DEF Saved

(* What a message and its extension are when they are saved in a row: the message is
   of the row's transaction; the extension is of its block, so it is its own when the
   block has no other. *)
LEMMA Hashed ==
  ASSUME LogsInv, NEW ext \in Pairings, NEW s \in With("sent", ModernRange)
  PROVE  /\ ext[s] \in With("sent", ModernRange) /\ ext[s][1] = s[1]
         /\ With("sent", {s[1]}) = {s} => ext[s] = s
<1>1. /\ ext \in [With("sent", ModernRange) -> With("ext", ModernRange)]
      /\ \A r \in DOMAIN ext : ext[r][1] = r[1]
  BY DEF Pairings
<1>2. ext[s] \in With("sent", ModernRange) /\ ext[s][1] = s[1]
  BY <1>1, RangeFacts
<1>3. ext[s] \in With("sent", {s[1]})
  <2> DEFINE e == ext[s]
  <2>1. e[2] \in DOMAIN chain[e[1]] /\ e = <<e[1], e[2]>>
        /\ HasLog(e[1], chain[e[1]][e[2]].kind, "sent")
    BY <1>2, WithIn
  <2> HIDE DEF e
  <2>2. e[1] = s[1]
    BY <1>2 DEF e
  <2>3. e \in With("sent", {s[1]})
    BY <2>1, <2>2, WithElement
  <2> QED  BY <2>3 DEF e
<1> QED  BY <1>2, <1>3

(* The rows, the items and the places of a landing, taken apart. *)
LEMMA Landed ==
  ASSUME NEW rows, NEW items, NEW fits, NEW got \in Landings(rows, items, fits)
  PROVE  /\ DOMAIN got = rows
         /\ \A r \in rows : got[r] # <<>> => got[r] \in items /\ <<r, got[r]>> \in fits
         /\ \A i \in items : \E r \in rows : <<r, i>> \in fits /\ got[r] # <<>>
<1>1. got \in [rows -> items \cup {<<>>}]
  BY DEF Landings
<1>2. /\ \A r \in rows : got[r] # <<>> => <<r, got[r]>> \in fits
      /\ \A i \in items : \E r \in rows : <<r, i>> \in fits /\ got[r] # <<>>
  BY DEF Landings
<1> QED  BY <1>1, <1>2

(* The messages that land: all of the range, each in a row of its transaction. *)
LEMMA MessagesLand ==
  ASSUME LogsInv, SaveMessages
  PROVE  \E got :
           /\ draft' = Saved(draft, "msg", got)
           /\ DOMAIN got = With("entry", ModernRange)
           /\ \A r \in DOMAIN got : got[r] # <<>> =>
                /\ got[r] \in Id \X Id /\ SameTx(r, got[r][1]) /\ got[r][2][1] = got[r][1][1]
                /\ With("sent", {got[r][1][1]}) = {got[r][1]} => got[r][2] = got[r][1]
           /\ \A s \in With("sent", ModernRange) :
                \E r \in DOMAIN got : SameTx(r, s) /\ got[r] # <<>>
<1> DEFINE rows == With("entry", ModernRange)
           hashed(ext) == {<<s, ext[s]>> : s \in DOMAIN ext}
           fits(ext) == {p \in rows \X hashed(ext) : SameTx(p[1], p[2][1])}
<1>1. PICK ext \in Pairings :
        \E got \in Landings(rows, hashed(ext), fits(ext)) : draft' = Saved(draft, "msg", got)
  BY DEF SaveMessages
<1>2. PICK got \in Landings(rows, hashed(ext), fits(ext)) : draft' = Saved(draft, "msg", got)
  BY <1>1
<1>3. /\ DOMAIN got = rows
      /\ \A r \in rows : got[r] # <<>> => got[r] \in hashed(ext) /\ <<r, got[r]>> \in fits(ext)
      /\ \A i \in hashed(ext) : \E r \in rows : <<r, i>> \in fits(ext) /\ got[r] # <<>>
  <2> HIDE DEF rows, hashed, fits
  <2> QED  BY Landed
<1>4. DOMAIN ext = With("sent", ModernRange)
  BY DEF Pairings
<1> HIDE DEF rows
<1>5. ASSUME NEW r \in rows, got[r] # <<>>
      PROVE  /\ got[r] \in Id \X Id /\ SameTx(r, got[r][1]) /\ got[r][2][1] = got[r][1][1]
             /\ With("sent", {got[r][1][1]}) = {got[r][1]} => got[r][2] = got[r][1]
  <2>1. PICK s \in With("sent", ModernRange) : got[r] = <<s, ext[s]>>
    BY <1>3, <1>4, <1>5
  <2>2. SameTx(r, got[r][1])
    BY <1>3, <1>5
  <2>3. /\ ext[s] \in With("sent", ModernRange) /\ ext[s][1] = s[1]
        /\ With("sent", {s[1]}) = {s} => ext[s] = s
    BY Hashed
  <2>4. s \in Id /\ ext[s] \in Id
    BY <2>3, RangeFacts
  <2>5. got[r][1] = s /\ got[r][2] = ext[s] /\ got[r] \in Id \X Id
    BY <2>1, <2>4
  <2>6. With("sent", {got[r][1][1]}) = {got[r][1]} => got[r][2] = got[r][1]
    BY <2>3, <2>5
  <2> QED  BY <2>2, <2>3, <2>5, <2>6
<1>6. ASSUME NEW s \in With("sent", ModernRange)
      PROVE  \E r \in rows : SameTx(r, s) /\ got[r] # <<>>
  <2>1. <<s, ext[s]>> \in hashed(ext)
    BY <1>4
  <2>2. PICK r \in rows : <<r, <<s, ext[s]>>>> \in fits(ext) /\ got[r] # <<>>
    BY <1>3, <2>1
  <2>3. SameTx(r, s)
    BY <2>2
  <2> QED  BY <2>2, <2>3
<1>7. DOMAIN got = With("entry", ModernRange)
  BY <1>3 DEF rows
<1>8. \A r \in DOMAIN got : got[r] # <<>> =>
        /\ got[r] \in Id \X Id /\ SameTx(r, got[r][1]) /\ got[r][2][1] = got[r][1][1]
        /\ With("sent", {got[r][1][1]}) = {got[r][1]} => got[r][2] = got[r][1]
  BY <1>3, <1>5
<1>9. \A s \in With("sent", ModernRange) : \E r \in DOMAIN got : SameTx(r, s) /\ got[r] # <<>>
  BY <1>3, <1>6
<1> QED  BY <1>2, <1>7, <1>8, <1>9

LEMMA SaveMessagesInv ==
  ASSUME LogsInv, SaveMessages
  PROVE  LogsInv'
<1>1. LogsTypeOK /\ TableInv /\ DraftInv
  BY DEF LogsInv
<1>2. step = "messages" /\ step' = "bridges" /\ UNCHANGED <<side, chain, pos, table, upto, faults>>
  BY DEF SaveMessages, Go
<1>3. /\ Unfit(LegacyRange) = {} /\ DOMAIN draft = DOMAIN table \cup With("entry", ModernRange)
      /\ \A r \in DOMAIN table : draft[r] = table[r]
      /\ MessageKnown(draft) /\ TokenKnown(draft)
  BY <1>1, <1>2 DEF DraftInv, Passed, Stored
<1>4. PICK got :
        /\ draft' = Saved(draft, "msg", got)
        /\ DOMAIN got = With("entry", ModernRange)
        /\ \A r \in DOMAIN got : got[r] # <<>> =>
             /\ got[r] \in Id \X Id /\ SameTx(r, got[r][1]) /\ got[r][2][1] = got[r][1][1]
             /\ With("sent", {got[r][1][1]}) = {got[r][1]} => got[r][2] = got[r][1]
        /\ \A s \in With("sent", ModernRange) :
             \E r \in DOMAIN got : SameTx(r, s) /\ got[r] # <<>>
  BY MessagesLand
<1>5. \A r \in DOMAIN draft : r \in Id /\ draft[r] \in Row
  BY <1>1 DEF LogsTypeOK
<1>6. /\ DOMAIN draft' = DOMAIN draft
      /\ \A r \in DOMAIN draft : draft'[r] =
           [msg |-> IF Fits(r, got) THEN got[r] ELSE draft[r].msg, token |-> draft[r].token]
  BY <1>4, <1>5, SavedMessages
<1>7. \A r \in DOMAIN draft' : r \in Id /\ draft'[r] \in Row
  <2> SUFFICES ASSUME NEW r \in DOMAIN draft PROVE r \in Id /\ draft'[r] \in Row
    BY <1>6
  <2>1. draft[r].msg \in (Id \X Id) \cup {<<>>} /\ draft[r].token \in Id \cup {<<>>} /\ r \in Id
    BY <1>5 DEF Row
  <2>2. Fits(r, got) => got[r] \in Id \X Id
    BY <1>4 DEF Fits
  <2> QED  BY <1>6, <2>1, <2>2 DEF Row
<1>8. LogsTypeOK'
  BY <1>1, <1>2, <1>6, <1>7 DEF LogsTypeOK
<1>9. TableInv'
  BY <1>1, <1>2, TableKept
<1>10. PICK open : open = draft'
  OBVIOUS
<1>11. MessageKnown(open)
  <2> SUFFICES ASSUME NEW r \in DOMAIN open, open[r].msg # <<>>
               PROVE  LET s == open[r].msg[1]
                          e == open[r].msg[2]
                      IN  /\ SameTx(r, s) /\ e[1] = s[1]
                          /\ With("sent", {s[1]}) = {s} => e = s
    BY DEF MessageKnown
  <2>1. CASE Fits(r, got)
    <3>1. open[r].msg = got[r] /\ r \in DOMAIN got /\ got[r] # <<>>
      BY <1>6, <1>10, <2>1 DEF Fits
    <3> QED  BY <1>4, <3>1
  <2>2. CASE ~ Fits(r, got)
    <3>1. open[r].msg = draft[r].msg /\ r \in DOMAIN draft
      BY <1>6, <1>10, <2>2
    <3> QED  BY <1>3, <3>1 DEF MessageKnown
  <2> QED  BY <2>1, <2>2
<1>12. TokenKnown(open)
  <2>1. \A r \in DOMAIN open : r \in DOMAIN draft /\ open[r].token = draft[r].token
    BY <1>6, <1>10
  <2> QED  BY <1>3, <2>1 DEF TokenKnown
<1>13. Told(open, ModernRange)
  <2> SUFFICES ASSUME NEW s \in With("sent", ModernRange)
               PROVE  \E r \in DOMAIN open : SameTx(r, s) /\ open[r].msg # <<>>
    BY DEF Told
  <2>1. PICK r \in DOMAIN got : SameTx(r, s) /\ got[r] # <<>>
    BY <1>4
  <2>2. r \in DOMAIN draft /\ Fits(r, got)
    BY <1>3, <1>4, <2>1 DEF Fits
  <2>3. r \in DOMAIN open /\ open[r].msg = got[r]
    BY <1>6, <1>10, <2>2
  <2> QED  BY <2>1, <2>3
<1>14. PICK modern : modern = ModernRange
  OBVIOUS
<1>15. MessageKnown(open)' /\ TokenKnown(open)' /\ Told(open, modern)'
  BY <1>2, <1>11, <1>12, <1>13, <1>14, KnownStays
<1>16. /\ Unfit(LegacyRange)' = {} /\ ModernRange' = modern
       /\ With("entry", ModernRange)' = With("entry", ModernRange)
  BY <1>2, <1>3, <1>14, RangeStays
<1>17. \A r \in DOMAIN table : draft'[r] = table[r]
  <2> SUFFICES ASSUME NEW r \in DOMAIN table PROVE draft'[r] = table[r]
    OBVIOUS
  <2>1. ~ Fits(r, got) /\ r \in DOMAIN draft /\ draft[r] = table[r] /\ draft[r] \in Row
    BY <1>3, <1>4, <1>5, RangeFacts DEF Fits
  <2> QED  BY <1>6, <2>1 DEF Row
<1>18. DraftInv'
  BY <1>2, <1>3, <1>6, <1>10, <1>15, <1>16, <1>17 DEF DraftInv
<1> QED  BY <1>8, <1>9, <1>18 DEF LogsInv

(* The bridge logs land in rows of their own transaction. *)
LEMMA TokensLand ==
  ASSUME LogsInv, SaveBridges, ~ Rollback
  PROVE  \E got :
           /\ draft' = Saved(draft, "token", got)
           /\ DOMAIN got = With("entry", ModernRange)
           /\ \A r \in DOMAIN got : got[r] # <<>> => got[r] \in Id /\ SameTx(r, got[r])
<1> DEFINE rows == With("entry", ModernRange)
           bridges == With("bridge", ModernRange)
           fits == {p \in rows \X bridges : BridgeRow(p[1], p[2])}
<1>1. PICK got \in Landings(rows, bridges, fits) : draft' = Saved(draft, "token", got)
  BY DEF SaveBridges
<1>2. /\ DOMAIN got = rows
      /\ \A r \in rows : got[r] # <<>> => got[r] \in bridges /\ <<r, got[r]>> \in fits
  <2> HIDE DEF rows, bridges, fits
  <2> QED  BY Landed
<1>3. bridges \subseteq Id
  BY RangeFacts
<1>4. \A r \in DOMAIN got : got[r] # <<>> => got[r] \in Id /\ SameTx(r, got[r])
  <2> HIDE DEF rows, bridges
  <2> QED  BY <1>2, <1>3 DEF BridgeRow
<1> QED  BY <1>1, <1>2, <1>4

LEMMA SaveBridgesInv ==
  ASSUME LogsInv, SaveBridges
  PROVE  LogsInv'
<1>1. LogsTypeOK /\ TableInv /\ DraftInv
  BY DEF LogsInv
<1>2. step = "bridges" /\ UNCHANGED faults
  BY DEF SaveBridges
<1>3. CASE Rollback
  <2>1. faults' \in 0..MaxFaults
    BY <1>1, <1>2 DEF LogsTypeOK
  <2> QED  BY <1>3, <2>1, RollbackInv
<1>4. CASE ~ Rollback
  <2>1. step' = "commit" /\ UNCHANGED <<side, chain, pos, table, upto>>
    BY <1>4 DEF SaveBridges, Go
  <2>2. /\ Unfit(LegacyRange) = {} /\ DOMAIN draft = DOMAIN table \cup With("entry", ModernRange)
        /\ \A r \in DOMAIN table : draft[r] = table[r]
        /\ Told(draft, ModernRange) /\ MessageKnown(draft) /\ TokenKnown(draft)
    BY <1>1, <1>2 DEF DraftInv, Passed, Stored
  <2>3. PICK got :
          /\ draft' = Saved(draft, "token", got)
          /\ DOMAIN got = With("entry", ModernRange)
          /\ \A r \in DOMAIN got : got[r] # <<>> => got[r] \in Id /\ SameTx(r, got[r])
    BY <1>4, TokensLand
  <2>4. \A r \in DOMAIN draft : r \in Id /\ draft[r] \in Row
    BY <1>1 DEF LogsTypeOK
  <2>5. /\ DOMAIN draft' = DOMAIN draft
        /\ \A r \in DOMAIN draft : draft'[r] =
             [msg |-> draft[r].msg, token |-> IF Fits(r, got) THEN got[r] ELSE draft[r].token]
    BY <2>3, <2>4, SavedTokens
  <2>6. \A r \in DOMAIN draft' : r \in Id /\ draft'[r] \in Row
    <3> SUFFICES ASSUME NEW r \in DOMAIN draft PROVE r \in Id /\ draft'[r] \in Row
      BY <2>5
    <3>1. draft[r].msg \in (Id \X Id) \cup {<<>>} /\ draft[r].token \in Id \cup {<<>>} /\ r \in Id
      BY <2>4 DEF Row
    <3>2. Fits(r, got) => got[r] \in Id
      BY <2>3 DEF Fits
    <3> QED  BY <2>5, <3>1, <3>2 DEF Row
  <2>7. LogsTypeOK'
    BY <1>1, <1>2, <2>1, <2>5, <2>6 DEF LogsTypeOK
  <2>8. TableInv'
    BY <1>1, <2>1, TableKept
  <2>9. PICK open, modern : open = draft' /\ modern = ModernRange
    OBVIOUS
  <2>10. \A r \in DOMAIN open : r \in DOMAIN draft /\ open[r].msg = draft[r].msg
    BY <2>5, <2>9
  <2>11. MessageKnown(open)
    BY <2>2, <2>10 DEF MessageKnown
  <2>12. Told(open, modern)
    BY <2>2, <2>5, <2>9, <2>10 DEF Told
  <2>13. TokenKnown(open)
    <3> SUFFICES ASSUME NEW r \in DOMAIN open, open[r].token # <<>>
                 PROVE  SameTx(r, open[r].token)
      BY DEF TokenKnown
    <3>1. CASE Fits(r, got)
      <4>1. open[r].token = got[r] /\ r \in DOMAIN got /\ got[r] # <<>>
        BY <2>5, <2>9, <3>1 DEF Fits
      <4> QED  BY <2>3, <4>1
    <3>2. CASE ~ Fits(r, got)
      <4>1. open[r].token = draft[r].token /\ r \in DOMAIN draft
        BY <2>5, <2>9, <3>2
      <4> QED  BY <2>2, <4>1 DEF TokenKnown
    <3> QED  BY <3>1, <3>2
  <2>14. MessageKnown(open)' /\ TokenKnown(open)' /\ Told(open, modern)'
    BY <2>1, <2>11, <2>12, <2>13, KnownStays
  <2>15. /\ Unfit(LegacyRange)' = {} /\ ModernRange' = modern
         /\ With("entry", ModernRange)' = With("entry", ModernRange)
    BY <2>1, <2>2, <2>9, RangeStays
  <2>16. \A r \in DOMAIN table : draft'[r] = table[r]
    <3> SUFFICES ASSUME NEW r \in DOMAIN table PROVE draft'[r] = table[r]
      OBVIOUS
    <3>1. ~ Fits(r, got) /\ r \in DOMAIN draft /\ draft[r] = table[r] /\ draft[r] \in Row
      BY <2>2, <2>3, <2>4, RangeFacts DEF Fits
    <3> QED  BY <2>5, <3>1 DEF Row
  <2>17. DraftInv'
    BY <2>1, <2>2, <2>5, <2>9, <2>14, <2>15, <2>16 DEF DraftInv
  <2> QED  BY <2>7, <2>8, <2>17 DEF LogsInv
<1> QED  BY <1>3, <1>4

-----------------------------------------------------------------------------
(* The theorems. *)

LEMMA LogsStepInv == LogsInv /\ [LogsNext]_logVars => LogsInv'
<1> SUFFICES ASSUME LogsInv, [LogsNext]_logVars PROVE LogsInv'
  OBVIOUS
<1>1. CASE NewBlock
  BY <1>1, NewBlockInv
<1>2. CASE Begin
  BY <1>2, BeginInv
<1>3. CASE Legacy
  BY <1>3, LegacyPassesInv
<1>4. CASE LegacyPanics
  BY <1>4, LegacyPanicsInv
<1>5. CASE LegacyRefused
  <2>1. Rollback /\ faults' \in 0..MaxFaults
    BY <1>5 DEF LegacyRefused, LogsInv, LogsTypeOK
  <2> QED  BY <2>1, RollbackInv
<1>6. CASE StoreRows
  BY <1>6, StoreRowsInv
<1>7. CASE SaveMessages
  BY <1>7, SaveMessagesInv
<1>8. CASE SaveBridges
  BY <1>8, SaveBridgesInv
<1>9. CASE Commit
  BY <1>9, CommitInv
<1>10. CASE Fail
  <2>1. faults \in 0..MaxFaults /\ MaxFaults \in Nat
    BY LogsFacts DEF LogsInv, LogsTypeOK
  <2>2. Rollback /\ faults' \in 0..MaxFaults
    BY <1>10, <2>1 DEF Fail
  <2> QED  BY <2>2, RollbackInv
<1>11. CASE UNCHANGED logVars
  <2>1. LogsTypeOK' /\ UNCHANGED <<side, chain, pos, upto, table, draft, step>>
    BY <1>11 DEF logVars, LogsInv, LogsTypeOK
  <2>2. TableInv' /\ DraftInv
    BY <2>1, TableKept DEF LogsInv
  <2>3. PICK open, modern : open = draft /\ modern = ModernRange
    OBVIOUS
  <2>4. /\ MessageKnown(open)' /\ TokenKnown(open)'
        /\ step \in {"bridges", "commit"} => Told(open, modern)'
    BY <2>1, <2>2, <2>3, KnownStays DEF DraftInv
  <2>5. DraftInv'
    BY <2>1, <2>2, <2>3, <2>4, RangeStays DEF DraftInv
  <2> QED  BY <2>1, <2>2, <2>5 DEF LogsInv
<1> QED  BY <1>1, <1>2, <1>3, <1>4, <1>5, <1>6, <1>7, <1>8, <1>9, <1>10, <1>11
         DEF LogsNext, Scan

(* The inductive invariant holds of every scan of every chain. *)
THEOREM LogsInvariant == LogsSpec => []LogsInv
<1>1. LogsInit => LogsInv
  <2> SUFFICES ASSUME LogsInit PROVE LogsInv
    OBVIOUS
  <2>1. /\ side \in {"l1", "l2"} /\ chain = <<>> /\ pos = 0 /\ upto = 0
        /\ table = <<>> /\ draft = <<>> /\ step = "idle" /\ faults = 0
    BY DEF LogsInit
  <2>2. LogsTypeOK
    BY <2>1, BridgeLogsAssumption DEF LogsTypeOK
  <2>3. Below = {} /\ Above = {}
    BY <2>1 DEF Below, Above
  <2>4. TableInv
    BY <2>1, <2>3, WithNone DEF TableInv, Told, MessageKnown, TokenKnown
  <2>5. DraftInv
    BY <2>1 DEF DraftInv, Passed, Stored, MessageKnown, TokenKnown
  <2> QED  BY <2>2, <2>4, <2>5 DEF LogsInv
<1> QED  BY <1>1, LogsStepInv, PTL DEF LogsSpec

(* The table holds whole blocks, however long the scans are, wherever the bedrock
   height lies and whenever a scan is undone. *)
THEOREM LogsWholeBlocks == LogsSpec => []WholeBlocks
<1>1. LogsInv => WholeBlocks
  BY DEF LogsInv, TableInv, Told, WholeBlocks, Below, Above
<1> QED  BY <1>1, LogsInvariant, PTL

(* What a row knows of a message is from its own transaction, for every layout of the
   transfers in a block. *)
THEOREM LogsMessageOfTx == LogsSpec => []MessageOfTx
<1>1. LogsInv => MessageOfTx
  BY DEF LogsInv, TableInv, MessageKnown, MessageOfTx
<1> QED  BY <1>1, LogsInvariant, PTL

(* So are its tokens. *)
THEOREM LogsTokenOfTx == LogsSpec => []TokenOfTx
<1>1. LogsInv => TokenOfTx
  BY DEF LogsInv, TableInv, TokenKnown, TokenOfTx
<1> QED  BY <1>1, LogsInvariant, PTL
================================================================================
