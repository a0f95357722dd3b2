------------------------------- MODULE Codecs -------------------------------
(***************************************************************************)
(* How the chain's tables are written and read: variable length numbers,   *)
(* compressed amounts and scripts (blockchain/compress.go), unspent        *)
(* outputs, the spend journal, the block index and the best state          *)
(* (blockchain/chainio.go).                                                *)
(*                                                                         *)
(* Serialized data is a sequence of bytes.  A byte has a continuation bit  *)
(* and a digit to the base Digit (128 in the code); a bitmap byte has      *)
(* BitmapBits bits (8), a hash HashSize bytes, a public key KeySize and    *)
(* NumSpecialScripts sizes (64) are not those of a script.  Scripts are    *)
(* records of their form and the bytes that vary; a decoder gives what it  *)
(* read and where it stopped, or ok = FALSE.                               *)
(***************************************************************************)
EXTENDS Integers, Sequences, SequencesExt, FiniteSetsExt

CONSTANTS Digit, BitmapBits, HashSize, KeySize, NumSpecialScripts,
          Entries,        \* Unspent entries, and
          Journals,       \* spend journals: both are small sets of them.
          IndexEntries, BestStates, Undos, StakeStates

VARIABLE sample           \* What was last written, and its bytes.

From(s, offset) == SubSeq(s, offset + 1, Len(s))
Flatten(ss) == FlattenSeq(ss)
Bool(b) == IF b THEN 1 ELSE 0
Bit(n, k) == (n \div 2^k) % 2 = 1

(***************************************************************************)
(* Numbers.                                                                *)
(***************************************************************************)
\* The digits, highest first: every digit but the last stands for one more.
VLQDigits[n \in Nat] ==
    IF n < Digit THEN <<n>> ELSE Append(VLQDigits[(n \div Digit) - 1], n % Digit)

putVLQ(n) ==
    LET d == VLQDigits[n]
    IN  [i \in DOMAIN d |-> IF i < Len(d) THEN d[i] + Digit ELSE d[i]]

serializeSizeVLQ(n) == Len(VLQDigits[n])

deserializeVLQ(s) ==
    LET add(n, byte) == n * Digit + (byte % Digit) + (IF byte >= Digit THEN 1 ELSE 0)
        upTo(size) == [n |-> FoldLeft(add, 0, SubSeq(s, 1, size)), size |-> size]
    IN  upTo(Min({i \in DOMAIN s : s[i] < Digit} \cup {Len(s)}))

\* Several numbers one after the other from `at' on, none of them empty; the
\* result's `at' is where they end.
ReadNumbers(s, at, count) ==
    LET with(r, v) == [at |-> r.at + v.size, ok |-> r.ok /\ v.size > 0, ns |-> Append(r.ns, v.n)]
    IN  FoldLeft(LAMBDA r, i : with(r, deserializeVLQ(From(s, r.at))),
                 [at |-> at, ok |-> TRUE, ns |-> <<>>], [i \in 1..count |-> i])

\* Trailing zeros, up to nine, go into the last digit.
compressTxOutAmount(amount) ==
    LET e == Max({k \in 0..9 : amount % 10^k = 0})
        m == amount \div 10^e
    IN  IF amount = 0 THEN 0
        ELSE IF e < 9 THEN 1 + 10 * (9 * (m \div 10) + (m % 10) - 1) + e
        ELSE 10 + 10 * (m - 1)

decompressTxOutAmount(c) ==
    LET e == (c - 1) % 10
        m == (c - 1) \div 10
        n == IF e < 9 THEN (m \div 9) * 10 + (m % 9) + 1 ELSE m + 1
    IN  IF c = 0 THEN 0 ELSE n * 10^e

(***************************************************************************)
(* Scripts and outputs.                                                    *)
(***************************************************************************)
\* What the first number of a compressed script says; any other form is raw.
SpecialForms == <<"pubKeyHash", "scriptHash", "keyEven", "keyOdd", "longKeyEven", "longKeyOdd">>
SpecialCode(script) == (CHOOSE i \in DOMAIN SpecialForms : SpecialForms[i] = script.form) - 1
IsSpecial(script) == \E i \in DOMAIN SpecialForms : SpecialForms[i] = script.form
SpecialSize(code) == 1 + (IF code <= 1 THEN HashSize ELSE KeySize)

compressedScriptSize(script) ==
    IF IsSpecial(script) THEN SpecialSize(SpecialCode(script))
    ELSE serializeSizeVLQ(Len(script.data) + NumSpecialScripts) + Len(script.data)

\* Of an uncompressed key the first coordinate and the parity of the second
\* are kept: the code is the parity, and the data the first coordinate.
putCompressedScript(script) ==
    IF IsSpecial(script) THEN <<SpecialCode(script)>> \o script.data
    ELSE putVLQ(Len(script.data) + NumSpecialScripts) \o script.data

decodeCompressedScriptSize(s) ==
    LET size(r) == IF r.size = 0 THEN 0
                   ELSE IF r.n < Len(SpecialForms) THEN SpecialSize(r.n)
                   ELSE r.n - NumSpecialScripts + r.size
    IN  size(deserializeVLQ(s))

decompressScript(s) ==
    LET script(r) ==
          IF r.n < Len(SpecialForms)
          THEN [form |-> SpecialForms[r.n + 1], data |-> From(s, 1)]
          ELSE [form |-> "raw", data |-> SubSeq(s, r.size + 1, r.size + r.n - NumSpecialScripts)]
    IN  script(deserializeVLQ(s))

\* An output that was read is kept compressed, and written back as it is.
ScriptBytes(out) == IF out.compressed THEN out.script ELSE putCompressedScript(out.script)

compressedTxOutSize(out, hasAmount) ==
    serializeSizeVLQ(out.scriptVersion)
      + (IF hasAmount THEN serializeSizeVLQ(compressTxOutAmount(out.amount)) ELSE 0)
      + (IF out.compressed THEN Len(out.script) ELSE compressedScriptSize(out.script))

putCompressedTxOut(out, hasAmount) ==
    (IF hasAmount THEN putVLQ(compressTxOutAmount(out.amount)) ELSE <<>>)
      \o putVLQ(out.scriptVersion) \o ScriptBytes(out)

Refused == [ok |-> FALSE]

\* The amount, if there is one, and the version; then the script.
decodeCompressedTxOut(s, hasAmount) ==
    LET whole(head, size) ==
          IF ~head.ok \/ size < 0 \/ Len(s) - head.at < size THEN Refused
          ELSE [ok |-> TRUE, size |-> head.at + size,
                out |-> [amount |-> IF hasAmount THEN decompressTxOutAmount(head.ns[1]) ELSE 0,
                         scriptVersion |-> Last(head.ns),
                         script |-> SubSeq(s, head.at + 1, head.at + size),
                         compressed |-> TRUE]]
        script(head) == whole(head, decodeCompressedScriptSize(From(s, head.at)))
    IN  script(ReadNumbers(s, 0, IF hasAmount THEN 2 ELSE 1))

\* The same output, with its script written out.
Expanded(out) ==
    IF out.compressed
    THEN [out EXCEPT !.script = decompressScript(out.script), !.compressed = FALSE]
    ELSE out

\* The type of a transaction is a number below four; a ticket is one.
Ticket == 1
encodeFlags(x, fullySpent) ==
    Bool(x.isCoinBase) + 2 * Bool(x.hasExpiry) + 4 * x.txType + 16 * Bool(fullySpent)
decodeFlags(n) ==
    [isCoinBase |-> Bit(n, 0), hasExpiry |-> Bit(n, 1), txType |-> (n \div 4) % 4,
     fullySpent |-> Bit(n, 4)]

\* The outputs a ticket had, kept with it: a count, then amount, version and
\* script of each, not compressed.
putMinimalOutputs(outs) ==
    putVLQ(Len(outs))
      \o Flatten([i \in DOMAIN outs |->
                    putVLQ(compressTxOutAmount(outs[i].amount)) \o putVLQ(outs[i].version)
                      \o putVLQ(Len(outs[i].script)) \o outs[i].script])

\* One output further; `at' is where it ends.
ReadMinimal(s, r) ==
    LET with(head) ==
          IF ~r.ok \/ ~head.ok \/ Len(s) - head.at < head.ns[3] THEN [r EXCEPT !.ok = FALSE]
          ELSE [ok |-> TRUE, at |-> head.at + head.ns[3],
                outs |-> Append(r.outs,
                           [amount |-> decompressTxOutAmount(head.ns[1]), version |-> head.ns[2],
                            script |-> SubSeq(s, head.at + 1, head.at + head.ns[3])])]
    IN  with(ReadNumbers(s, r.at, 3))

deserializeToMinimalOutputs(s) ==
    LET read(c) == FoldLeft(LAMBDA r, i : ReadMinimal(s, r),
                            [ok |-> c.size > 0, at |-> c.size, outs |-> <<>>],
                            [i \in 1..c.n |-> i])
    IN  read(deserializeVLQ(s))

readDeserializeSizeOfMinimalOutputs(s) ==
    LET size(r) == [ok |-> r.ok, size |-> r.at] IN size(deserializeToMinimalOutputs(s))

(***************************************************************************)
(* Unspent outputs.  An entry has the fields of its transaction and a      *)
(* function from output indexes to outputs; spent ones may still be there. *)
(***************************************************************************)
IsOutputSpent(entry, i) == i \notin DOMAIN entry.outputs \/ entry.outputs[i].spent
Unspent(entry) == {i \in DOMAIN entry.outputs : ~entry.outputs[i].spent}
InOrder(S) == SetToSortSeq(S, <)

\* The header says whether outputs 0 and 1 are unspent, and how many bitmap
\* bytes follow: one fewer when both are spent, since then there is one.
BitmapBytes(entry) == (Max(DOMAIN entry.outputs) + BitmapBits - 2) \div BitmapBits

\* Mutant: the count is not lowered when the first two outputs are spent.
utxoEntryHeaderCodeFull(entry) ==
    4 * BitmapBytes(entry) + Bool(~IsOutputSpent(entry, 0)) + 2 * Bool(~IsOutputSpent(entry, 1))

utxoEntryHeaderCode(entry) ==
    LET bothSpent == IsOutputSpent(entry, 0) /\ IsOutputSpent(entry, 1)
    IN  4 * (BitmapBytes(entry) - Bool(bothSpent))
          + Bool(~IsOutputSpent(entry, 0)) + 2 * Bool(~IsOutputSpent(entry, 1))

BitmapByte(entry, i) ==
    MapThenSumSet(LAMBDA j : 2^j,
                  {j \in 0..(BitmapBits - 1) : ~IsOutputSpent(entry, 2 + i * BitmapBits + j)})

serializeUtxoEntry(entry) ==
    LET order == InOrder(Unspent(entry))
    IN  IF Unspent(entry) = {} THEN <<>>
        ELSE putVLQ(entry.txVersion) \o putVLQ(entry.height) \o putVLQ(entry.index)
               \o putVLQ(encodeFlags(entry, FALSE)) \o putVLQ(utxoEntryHeaderCode(entry))
               \o [i \in 1..BitmapBytes(entry) |-> BitmapByte(entry, i - 1)]
               \o Flatten([k \in DOMAIN order |->
                             putCompressedTxOut(entry.outputs[order[k]].out, TRUE)])
               \o (IF entry.txType = Ticket THEN entry.stakeExtra ELSE <<>>)

\* The outputs in their order from `at' on.
ReadOutputs(s, at, order) ==
    LET with(r, k, o) ==
          IF ~r.ok \/ ~o.ok THEN [r EXCEPT !.ok = FALSE]
          ELSE [ok |-> TRUE, at |-> r.at + o.size,
                outs |-> [x \in DOMAIN r.outs \cup {k} |->
                            IF x = k THEN [out |-> o.out, spent |-> FALSE] ELSE r.outs[x]]]
    IN  FoldLeft(LAMBDA r, k : with(r, k, decodeCompressedTxOut(From(s, r.at), TRUE)),
                 [ok |-> TRUE, at |-> at, outs |-> <<>>], order)

\* Five numbers that are followed by data, the bitmap, the outputs that the
\* code and the bitmap name, and what a ticket keeps.
deserializeUtxoEntry(s) ==
    LET bytes(code) == code \div 4 + Bool(~Bit(code, 0) /\ ~Bit(code, 1))
        inMap(n) == {2 + i * BitmapBits + j : i \in 0..(n - 1), j \in 0..(BitmapBits - 1)}
        set(at, k) == Bit(s[at + 1 + (k - 2) \div BitmapBits], (k - 2) % BitmapBits)
        entry(ns, flags, outs) ==
          IF ~outs.ok THEN Refused
          ELSE [ok |-> TRUE,
                entry |-> [txVersion |-> ns[1], height |-> ns[2], index |-> ns[3],
                           isCoinBase |-> flags.isCoinBase, hasExpiry |-> flags.hasExpiry,
                           txType |-> flags.txType, outputs |-> outs.outs,
                           stakeExtra |-> IF flags.txType = Ticket THEN From(s, outs.at)
                                          ELSE <<>>]]
        body(head, code, n) ==
          IF ~head.ok \/ head.at >= Len(s) \/ Len(s) - head.at < n THEN Refused
          ELSE entry(head.ns, decodeFlags(head.ns[4]),
                     ReadOutputs(s, head.at + n,
                        InOrder({k \in {0, 1} : Bit(code, k)}
                                  \cup {k \in inMap(n) : set(head.at, k)})))
        rest(head) == body(head, head.ns[5], bytes(head.ns[5]))
    IN  rest(ReadNumbers(s, 0, 5))

(***************************************************************************)
(* The spend journal of a block: the outputs its transactions spend.       *)
(* Amounts, heights and indexes are not written: the inputs have them.     *)
(***************************************************************************)
putSpentTxOut(stxo) ==
    putVLQ(encodeFlags(stxo, stxo.txFullySpent)) \o putCompressedTxOut(stxo.out, FALSE)
      \o (IF ~stxo.txFullySpent THEN <<>>
          ELSE putVLQ(stxo.txVersion) \o (IF stxo.txType = Ticket THEN stxo.stakeExtra ELSE <<>>))

spentTxOutSerializeSize(stxo) ==
    serializeSizeVLQ(encodeFlags(stxo, stxo.txFullySpent)) + compressedTxOutSize(stxo.out, FALSE)
      + (IF ~stxo.txFullySpent THEN 0
         ELSE serializeSizeVLQ(stxo.txVersion)
                + (IF stxo.txType = Ticket THEN Len(stxo.stakeExtra) ELSE 0))

\* Only the output that was the last of its transaction brings that one's
\* fields along.
decodeSpentTxOut(s, amount) ==
    LET notLast(out, at) ==
          [ok |-> TRUE, size |-> at,
           stxo |-> [out |-> out, txFullySpent |-> FALSE, isCoinBase |-> FALSE,
                     hasExpiry |-> FALSE, txType |-> 0, txVersion |-> 0, stakeExtra |-> <<>>]]
        last(out, flags, v, extra) ==
          IF ~v.ok \/ ~extra.ok THEN Refused
          ELSE [ok |-> TRUE, size |-> v.at + extra.size,
                stxo |-> [out |-> out, txFullySpent |-> TRUE, isCoinBase |-> flags.isCoinBase,
                          hasExpiry |-> flags.hasExpiry, txType |-> flags.txType,
                          txVersion |-> v.ns[1],
                          stakeExtra |-> SubSeq(s, v.at + 1, v.at + extra.size)]]
        details(out, flags, v) ==
          last(out, flags, v,
               IF flags.txType = Ticket THEN readDeserializeSizeOfMinimalOutputs(From(s, v.at))
               ELSE [ok |-> TRUE, size |-> 0])
        whole(f, flags, o) ==
          IF ~f.ok \/ ~o.ok THEN Refused
          ELSE IF ~flags.fullySpent THEN notLast([o.out EXCEPT !.amount = amount], f.at + o.size)
          ELSE details([o.out EXCEPT !.amount = amount], flags, ReadNumbers(s, f.at + o.size, 1))
        start(f) == whole(f, decodeFlags(f.ns[1]), decodeCompressedTxOut(From(s, f.at), FALSE))
    IN  start(ReadNumbers(s, 0, 1))

\* Written last to first.
serializeSpendJournalEntry(stxos) ==
    Flatten([i \in DOMAIN stxos |-> putSpentTxOut(stxos[Len(stxos) + 1 - i])])

\* Read with the inputs of the block's transactions, a vote's first one
\* excepted; `amounts' are theirs.
deserializeSpendJournalEntry(s, amounts) ==
    LET with(r, d) == IF ~r.ok \/ ~d.ok THEN [r EXCEPT !.ok = FALSE]
                      ELSE [ok |-> TRUE, at |-> r.at + d.size, stxos |-> <<d.stxo>> \o r.stxos]
        read(r, i) == with(r, decodeSpentTxOut(From(s, r.at), amounts[Len(amounts) + 1 - i]))
    IN  IF s = <<>> THEN [ok |-> amounts = <<>>, at |-> 0, stxos |-> <<>>]
        ELSE FoldLeft(read, [ok |-> TRUE, at |-> 0, stxos |-> <<>>], [i \in DOMAIN amounts |-> i])

(***************************************************************************)
(* The block index and the best state.  A header and a hash are one        *)
(* fixed-size field, and so is each fixed-size number.                     *)
(***************************************************************************)
serializeBlockIndexEntry(e) ==
    <<e.header, e.status>> \o putVLQ(Len(e.votes))
      \o Flatten([i \in DOMAIN e.votes |->
                    <<e.votes[i].ticket>> \o putVLQ(e.votes[i].version) \o putVLQ(e.votes[i].bits)])
      \o putVLQ(Len(e.revoked)) \o e.revoked

ReadVote(s, r) ==
    LET with(head) ==
          IF ~r.ok \/ ~head.ok THEN [r EXCEPT !.ok = FALSE]
          ELSE [ok |-> TRUE, at |-> head.at,
                votes |-> Append(r.votes, [ticket |-> s[r.at + 1], version |-> head.ns[1],
                                           bits |-> head.ns[2]])]
    IN  with(ReadNumbers(s, r.at + 1, 2))

decodeBlockIndexEntry(s) ==
    LET votes(n) == FoldLeft(LAMBDA x, i : ReadVote(s, x),
                             [ok |-> n.ok, at |-> n.at, votes |-> <<>>], [i \in 1..n.ns[1] |-> i])
        whole(r, m) ==
          IF Len(s) < 2 \/ ~r.ok \/ ~m.ok \/ m.at + m.ns[1] > Len(s) THEN Refused
          ELSE [ok |-> TRUE,
                entry |-> [header |-> s[1], status |-> s[2], votes |-> r.votes,
                           revoked |-> SubSeq(s, m.at + 1, m.at + m.ns[1])]]
        rest(r) == whole(r, ReadNumbers(s, r.at, 1))
    IN  rest(votes(ReadNumbers(s, 2, 1)))

serializeBestChainState(b) ==
    <<b.hash, b.height, b.totalTxns, b.totalSubsidy, Len(b.workSum)>> \o b.workSum

deserializeBestChainState(s) ==
    IF Len(s) < 5 THEN Refused
    ELSE IF Len(s) - 5 < s[5] THEN Refused
    ELSE [ok |-> TRUE, state |-> [hash |-> s[1], height |-> s[2], totalTxns |-> s[3],
                                  totalSubsidy |-> s[4], workSum |-> SubSeq(s, 6, 5 + s[5])]]

(***************************************************************************)
(* The stake tables (stake/internal/ticketdb/chainio.go).                  *)
(***************************************************************************)
undoBitFlagsToByte(t) ==
    Bool(t.missed) + 2 * Bool(t.revoked) + 4 * Bool(t.spent) + 8 * Bool(t.expired)

\* A ticket has a hash, a height and the flags.
serializeTicket(t) == <<t.hash, t.height, undoBitFlagsToByte(t)>>

readTicket(s, i) ==
    LET f == s[3 * i]
    IN  [hash |-> s[3 * i - 2], height |-> s[3 * i - 1], missed |-> Bit(f, 0),
         revoked |-> Bit(f, 1), spent |-> Bit(f, 2), expired |-> Bit(f, 3)]

serializeBlockUndoData(utds) == Flatten([i \in DOMAIN utds |-> serializeTicket(utds[i])])

deserializeBlockUndoData(s) ==
    IF Len(s) % 3 # 0 THEN Refused
    ELSE [ok |-> TRUE, utds |-> [i \in 1..(Len(s) \div 3) |-> readTicket(s, i)]]

\* There is room for all winners of a block: missing ones are zero hashes.
ZeroHash == 0
serializeStakeState(b) ==
    <<b.hash, b.height, b.live, b.missed, b.revoked, b.perBlock>> \o b.nextWinners
      \o [i \in 1..(b.perBlock - Len(b.nextWinners)) |-> ZeroHash]

deserializeStakeState(s) ==
    IF Len(s) < 6 THEN Refused
    ELSE [ok |-> TRUE,
          state |-> [hash |-> s[1], height |-> s[2], live |-> s[3], missed |-> s[4],
                     revoked |-> s[5], perBlock |-> s[6], nextWinners |-> SubSeq(s, 7, 6 + s[6])]]

(***************************************************************************)
(* The tables: an entry of one of them is written.                         *)
(***************************************************************************)
Init == sample = [table |-> "none", value |-> <<>>, bytes |-> <<>>]

\* Bound: one entry is written.
Write(table, value, bytes) ==
    sample.table = "none" /\ sample' = [table |-> table, value |-> value, bytes |-> bytes]

dbPutUtxo == \E e \in Entries : Write("utxo", e, serializeUtxoEntry(e))
dbPutSpendJournalEntry == \E j \in Journals : Write("journal", j, serializeSpendJournalEntry(j))
dbPutBlockNode == \E e \in IndexEntries : Write("index", e, serializeBlockIndexEntry(e))
dbPutBestState == \E b \in BestStates : Write("best", b, serializeBestChainState(b))
DbPutBlockUndoData == \E u \in Undos : Write("undo", u, serializeBlockUndoData(u))
DbPutBestState == \E b \in StakeStates : Write("stake", b, serializeStakeState(b))

Next == dbPutUtxo \/ dbPutSpendJournalEntry \/ dbPutBlockNode \/ dbPutBestState
          \/ DbPutBlockUndoData \/ DbPutBestState

Spec == Init /\ [][Next]_sample

(***************************************************************************)
(* What must hold.                                                         *)
(***************************************************************************)
Amounts(stxos) == [i \in DOMAIN stxos |-> stxos[i].out.amount]

\* What an entry is when only unspent outputs count and scripts are written out.
Meaning(e) ==
    [e EXCEPT !.outputs = [i \in Unspent(e) |-> [out |-> Expanded(e.outputs[i].out),
                                                 spent |-> FALSE]]]

\* An unspent entry or a spent output read from its table is the one that was
\* written, whichever outputs are spent and however its scripts are kept;
\* writing it again gives the same bytes, also of the outputs kept of a ticket.
UtxoRoundTrip ==
    sample.table = "utxo" =>
      IF Unspent(sample.value) = {} THEN sample.bytes = <<>>
      ELSE \E r \in {deserializeUtxoEntry(sample.bytes)} :
             /\ r.ok
             /\ Meaning(r.entry) = Meaning(sample.value)
             /\ r.entry.stakeExtra # <<>> =>
                  putMinimalOutputs(deserializeToMinimalOutputs(r.entry.stakeExtra).outs)
                    = sample.value.stakeExtra
             /\ Max(DOMAIN sample.value.outputs) \in Unspent(sample.value) =>
                  serializeUtxoEntry(r.entry) = sample.bytes

\* A journal read with the amounts of the inputs gives the outputs in their
\* order and ends where the data ends, and the space set aside for each one is
\* what it takes.  Block index entries, best states and undo data come back
\* too, and missing data is noticed.
JournalRoundTrip ==
    LET shorter(n) == SubSeq(sample.bytes, 1, n)
        short == 0..(Len(sample.bytes) - 1)
    IN  CASE sample.table = "journal" ->
               /\ \E r \in {deserializeSpendJournalEntry(sample.bytes, Amounts(sample.value))} :
                    /\ r.ok /\ r.at = Len(sample.bytes)
                    /\ Len(r.stxos) = Len(sample.value)
                    /\ \A i \in DOMAIN r.stxos :
                         [r.stxos[i] EXCEPT !.out = Expanded(@)]
                           = [sample.value[i] EXCEPT !.out = Expanded(@)]
               /\ \A i \in DOMAIN sample.value :
                    Len(putSpentTxOut(sample.value[i])) = spentTxOutSerializeSize(sample.value[i])
          [] sample.table = "index" ->
               /\ decodeBlockIndexEntry(sample.bytes) = [ok |-> TRUE, entry |-> sample.value]
               /\ \A n \in short : ~decodeBlockIndexEntry(shorter(n)).ok
          [] sample.table = "best" ->
               /\ deserializeBestChainState(sample.bytes) = [ok |-> TRUE, state |-> sample.value]
               /\ \A n \in short : ~deserializeBestChainState(shorter(n)).ok
          [] sample.table = "undo" ->
               deserializeBlockUndoData(sample.bytes) = [ok |-> TRUE, utds |-> sample.value]
          [] sample.table = "stake" ->
               LET back == deserializeStakeState(sample.bytes).state
               IN  /\ IsPrefix(sample.value.nextWinners, back.nextWinners)
                   /\ Len(back.nextWinners) = sample.value.perBlock
                   /\ [back EXCEPT !.nextWinners = sample.value.nextWinners] = sample.value
          [] OTHER -> TRUE
=============================================================================
