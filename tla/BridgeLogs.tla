------------------------------- MODULE BridgeLogs -------------------------------
(***************************************************************************)
(* How the logs of a bridge become rows: the bodies of the scans of started *)
(* deposits (side "l1") and withdrawals (side "l2") that Deposits and       *)
(* Withdrawals take as one step.  A transfer is several logs at fixed       *)
(* distances in a block.  A scan stores a row for every log of the portal   *)
(* or the message passer, then finds rows by transaction to save what the   *)
(* message and the bridge logs say, all in one database transaction.        *)
(* Blocks below the bedrock height go to the legacy processor.              *)
(***************************************************************************)
EXTENDS Naturals, SequencesExt

CONSTANTS
  Blocks,      \* blocks of the chain: sequences of transfers
  OldBlocks,   \* blocks below the bedrock height
  Bedrock,     \* L1BedrockStartingHeight or L2BedrockStartingHeight
  MaxBlocks,   \* bound: blocks of the chain
  BlocksLimit, \* blocks of one scan at most
  MaxFaults    \* bound: database errors

Kind == {"eth", "mnt", "erc20", "message", "entry"}

ASSUME BridgeLogsAssumption ==
  /\ {Bedrock, MaxBlocks, MaxFaults} \subseteq Nat /\ BlocksLimit \in Nat \ {0}
  /\ \A b \in Blocks \cup OldBlocks : b \in Seq([kind : Kind, tx : Nat])

VARIABLES
  side,    \* "l1" or "l2"
  chain,   \* the blocks that are indexed
  pos,     \* the watermark of the stream
  table,   \* the rows, by block and transfer
  step,    \* where the scan is
  upto,    \* toHeight of the scan
  draft,   \* the table as the open transaction sees it
  faults

logVars == <<side, chain, pos, table, step, upto, draft, faults>>

(* What the contracts emit for a transfer in block n: "entry" is
   TransactionDeposited or MessagePassed, "sent" and "ext" are SentMessage and
   SentMessageExtension1, "bridge" an initiated event of the standard bridge. *)
Emitted(n, kind) ==
  IF n < Bedrock
  THEN (IF side = "l1" THEN <<"entry">> ELSE <<>>)
       \o (IF kind = "entry" THEN <<>> ELSE <<"sent">>)
       \o (IF kind \in {"entry", "message"} THEN <<>> ELSE <<"bridge">>)
  ELSE CASE kind = "entry"   -> <<"entry">>
         [] kind = "message" -> <<"entry", "sent", "ext">>
         [] OTHER -> <<"bridge">>
              \o (CASE <<side, kind>> = <<"l1", "mnt">> -> [i \in 1..5 |-> "other"]
                    [] <<side, kind>> = <<"l2", "eth">> -> [i \in 1..4 |-> "other"]
                    [] OTHER -> <<>>)
              \o <<"entry", "sent", "ext">>

(* The transfers with a log "name": a row, a message and a bridge log are known by
   block and transfer. *)
With(name, blocks) ==
  UNION {{<<n, g>> : g \in {g \in DOMAIN chain[n] :
    \E i \in DOMAIN Emitted(n, chain[n][g].kind) : Emitted(n, chain[n][g].kind)[i] = name}} :
      n \in blocks}

(* The logs of block n in the order of their index: a transfer and a name each. *)
Logs(n) ==
  FlattenSeq([g \in DOMAIN chain[n] |->
    LET names == Emitted(n, chain[n][g].kind)
    IN  [k \in DOMAIN names |-> <<g, names[k]>>]])

TxOf(r) == <<r[1], chain[r[1]][r[2]].tx>>

(* The range of a scan is split at the bedrock height. *)
LegacyRange == {n \in pos + 1..upto : n < Bedrock}

(* Mutant of ModernRange: the bedrock block itself is left out. *)
AfterBedrock == {n \in pos + 1..upto : n > Bedrock}

ModernRange == {n \in pos + 1..upto : n >= Bedrock}

NoRow == [msg |-> <<>>, token |-> <<>>]

LogsInit ==
  /\ side \in {"l1", "l2"}
  /\ chain = <<>> /\ pos = 0 /\ upto = 0
  /\ table = <<>> /\ draft = <<>>
  /\ step = "idle" /\ faults = 0

NewBlock ==
  /\ Len(chain) < MaxBlocks
  /\ \E b \in IF Len(chain) + 1 < Bedrock THEN OldBlocks ELSE Blocks :
       chain' = Append(chain, b)
  /\ UNCHANGED <<side, pos, table, step, upto, draft, faults>>

(* What the rows can have got when each of items, in no fixed order, is saved in
   some row that fits it: a later save replaces an earlier one. *)
Landings(rows, items, fits) ==
  {got \in [rows -> items \cup {<<>>}] :
     /\ \A r, s \in rows : got[r] = got[s] /\ got[r] # <<>> => r = s
     /\ \A r \in rows : got[r] # <<>> => <<r, got[r]>> \in fits
     /\ \A i \in items : \E r \in rows : <<r, i>> \in fits /\ got[r] # <<>>}

Saved(rows, field, got) ==
  [r \in DOMAIN rows |->
     IF r \in DOMAIN got /\ got[r] # <<>>
     THEN [rows[r] EXCEPT ![field] = got[r]]
     ELSE rows[r]]

(* The first BlocksLimit headers after pos. *)
Begin ==
  /\ step = "idle" /\ pos < Len(chain)
  /\ upto' = Min({Len(chain), pos + BlocksLimit})
  /\ draft' = table
  /\ step' = IF pos + 1 < Bedrock THEN "legacy" ELSE "rows"
  /\ UNCHANGED <<side, chain, pos, table, faults>>

Go(from, to) ==
  /\ step = from /\ step' = to
  /\ UNCHANGED <<side, chain, pos, table, upto, faults>>

Rollback ==
  /\ step' = "idle" /\ draft' = <<>>
  /\ UNCHANGED <<side, chain, pos, table, upto>>

(* What the legacy processors cannot store in the given blocks.  The one of L1
   fills a list that it makes with the length of an empty map; the rows of the
   one of L2 have no l2_block_number, which the table requires. *)
Unfit(blocks) ==
  With(IF side = "l1" THEN "entry" ELSE "sent", {n \in blocks : n < Bedrock})

Legacy ==
  /\ Unfit(LegacyRange) = {}
  /\ Go("legacy", IF ModernRange = {} THEN "commit" ELSE "rows")
  /\ UNCHANGED draft

(* The panic ends the program; it starts again from the last block with a row. *)
LegacyPanics ==
  /\ step = "legacy" /\ side = "l1" /\ Unfit(LegacyRange) # {}
  /\ pos' = Max({r[1] : r \in DOMAIN table} \cup {0})
  /\ step' = "idle" /\ draft' = <<>>
  /\ UNCHANGED <<side, chain, table, upto, faults>>

LegacyRefused ==
  /\ step = "legacy" /\ side = "l2" /\ Unfit(LegacyRange) # {}
  /\ Rollback /\ UNCHANGED faults

StoreRows ==
  /\ Go("rows", "messages")
  /\ draft' = [r \in DOMAIN draft \cup With("entry", ModernRange) |->
                 IF r \in DOMAIN draft THEN draft[r] ELSE NoRow]

SameTx(r, i) == TxOf(r) = TxOf(i)

(* Mutant of Pairings: the queries are not ordered by block. *)
PairedAnyhow ==
  {p \in [With("sent", ModernRange) -> With("ext", ModernRange)] :
     \A r, s \in DOMAIN p : p[r] = p[s] => r = s}

(* The i-th message is paired with the i-th extension, both ordered by block only. *)
Pairings ==
  {p \in [With("sent", ModernRange) -> With("ext", ModernRange)] :
     \A r, s \in DOMAIN p : p[r][1] = r[1] /\ (p[r] = p[s] => r = s)}

(* On L1 the hash of the message, on L2 its addresses and amounts. *)
SaveMessages ==
  /\ Go("messages", "bridges")
  /\ \E ext \in Pairings :
       LET rows   == With("entry", ModernRange)
           hashed == {<<s, ext[s]>> : s \in DOMAIN ext}
           fits   == {p \in rows \X hashed : SameTx(p[1], p[2][1])}
       IN  \E got \in Landings(rows, hashed, fits) : draft' = Saved(draft, "msg", got)

(* Mutant of Distance: the MNT bridge is taken to emit what the ETH bridge does. *)
DistanceOne(kind) == IF <<side, kind>> = <<"l2", "eth">> THEN 5 ELSE 1

(* The distance from a bridge log to the entry; the message is one further. *)
Distance(kind) ==
  CASE <<side, kind>> = <<"l1", "mnt">> -> 6
    [] <<side, kind>> = <<"l2", "eth">> -> 5
    [] OTHER -> 1

(* The transfers whose log "name" is at distance d from the bridge log of b. *)
At(b, d, name) ==
  LET logs == Logs(b[1])
  IN  {<<b[1], g>> : g \in {g \in DOMAIN chain[b[1]] :
         \E i \in DOMAIN logs :
           /\ logs[i] = <<b[2], "bridge">>
           /\ i + d \in DOMAIN logs /\ logs[i + d] = <<g, name>>}}

Followed(b) ==
  LET d == Distance(chain[b[1]][b[2]].kind)
  IN  At(b, d, "entry") # {} /\ At(b, d + 1, "sent") # {}

(* Mutant of BridgeRow: the list that is saved has no transaction hash. *)
BridgeRowUnasked(r, b) == r[1] = b[1]

(* The rows that are asked for with a bridge log. *)
BridgeRow(r, b) == SameTx(r, b)

(* A bridge log without its entry or message is an error, and the scan is undone. *)
SaveBridges ==
  /\ step = "bridges" /\ faults' = faults
  /\ IF \A b \in With("bridge", ModernRange) : Followed(b)
     THEN /\ Go("bridges", "commit")
          /\ LET rows    == With("entry", ModernRange)
                 bridges == With("bridge", ModernRange)
                 fits    == {p \in rows \X bridges : BridgeRow(p[1], p[2])}
             IN  \E got \in Landings(rows, bridges, fits) : draft' = Saved(draft, "token", got)
     ELSE Rollback

Commit ==
  /\ step = "commit"
  /\ table' = draft /\ pos' = upto
  /\ step' = "idle" /\ draft' = <<>>
  /\ UNCHANGED <<side, chain, upto, faults>>

(* A database error. *)
Fail ==
  /\ step # "idle" /\ faults < MaxFaults /\ faults' = faults + 1
  /\ Rollback

Scan ==
  \/ Begin \/ Legacy \/ LegacyPanics \/ LegacyRefused
  \/ StoreRows \/ SaveMessages \/ SaveBridges \/ Commit

LogsNext == NewBlock \/ Scan \/ Fail

(* The ticker of the stream never stops. *)
LogsSpec == LogsInit /\ [][LogsNext]_logVars /\ WF_logVars(Scan)

Id  == Nat \X Nat
Row == [msg : (Id \X Id) \cup {<<>>}, token : Id \cup {<<>>}]

(* Types; a transaction is open only in the middle of a scan. *)
LogsTypeOK ==
  /\ side \in {"l1", "l2"}
  /\ chain \in Seq(Blocks \cup OldBlocks) /\ Len(chain) <= MaxBlocks
  /\ pos \in 0..Len(chain) /\ upto \in 0..Len(chain)
  /\ step \in {"idle", "legacy", "rows", "messages", "bridges", "commit"}
  /\ step = "idle" => draft = <<>>
  /\ step # "idle" => pos < upto /\ DOMAIN table \subseteq DOMAIN draft
  /\ \A rows \in {table, draft} : \A r \in DOMAIN rows : r \in Id /\ rows[r] \in Row
  /\ faults \in 0..MaxFaults

(* The table holds the rows of whole blocks: of every block up to the watermark,
   on whichever side of the bedrock height, each portal or message passer log has
   its row and each transaction that sent a message has a row that knows one; of
   the other blocks there is nothing, and nothing of a scan in progress is seen
   before it commits. *)
WholeBlocks ==
  LET modern == {n \in 1..pos : n >= Bedrock}
  IN  /\ LogsTypeOK
      /\ DOMAIN table = With("sent", {n \in 1..pos : n < Bedrock}) \cup With("entry", modern)
      /\ \A s \in With("sent", modern) :
           \E r \in DOMAIN table : SameTx(r, s) /\ table[r].msg # <<>>

(* What a row knows of a message is from a message of its own transaction; the
   extension that was hashed with it is of the same block, and is its own when
   the block has one message. *)
MessageOfTx ==
  \A r \in DOMAIN table : table[r].msg # <<>> =>
    LET s == table[r].msg[1]
        e == table[r].msg[2]
    IN  /\ SameTx(r, s) /\ e[1] = s[1]
        /\ With("sent", {s[1]}) = {s} => e = s

(* The tokens of a row are those of a bridge log of its own transaction. *)
TokenOfTx ==
  \A r \in DOMAIN table : table[r].token # <<>> => SameTx(r, table[r].token)

(* Every message is hashed with its own extension. *)
OwnExtension ==
  \A r \in DOMAIN table : table[r].msg # <<>> => table[r].msg[1] = table[r].msg[2]

(* Again and again the stream catches up with the indexed chain, or there is a
   transfer below the bedrock height. *)
ModernScanned == []<>(pos = Len(chain) \/ Unfit(DOMAIN chain) # {})

(* Again and again the stream catches up with the indexed chain. *)
EveryBlockScanned == []<>(pos = Len(chain))

=============================================================================
