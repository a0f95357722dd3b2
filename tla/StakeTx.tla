------------------------------ MODULE StakeTx -------------------------------
(***************************************************************************)
(* The kinds of stake transactions and what is read from their scripts     *)
(* (blockchain/stake/staketx.go), and the Merkle trees over the            *)
(* transactions of a block (blockchain/standalone).                        *)
(*                                                                         *)
(* A script is a record of its class, as txscript tells it, its second     *)
(* byte op, its length in bytes, and the number that it encodes.  A script *)
(* of class "nulldata" is OP_RETURN and one push: op <= 75 pushes as many  *)
(* bytes from offset 2 on, OP_PUSHDATA1 has its own length byte first.  An *)
(* amount has AmountBits bits (64), the highest of which tells a script    *)
(* hash from a key hash.  Indexes of outputs are the code's plus one.      *)
(***************************************************************************)
EXTENDS Integers, Sequences, FiniteSets, SequencesExt

CONSTANTS MaxInputsPerSStx,   \* 64
          AmountBits,
          TxIns, Scripts,     \* inputs and scripts that a transaction may have
          LogSteps            \* the exponents 2 ^ (LogSteps - 1), ..., 2, 1 are tried

VARIABLE stx                  \* a transaction that grows

consensusVersion == 0
MaxOutputsPerSStx == MaxInputsPerSStx * 2 + 1
NumInputsPerSSGen == 2
MaxOutputsPerSSGen == MaxInputsPerSStx + 2
NumInputsPerSSRtx == 1
MaxOutputsPerSSRtx == MaxInputsPerSStx
SStxPKHMinOutSize == 32
SStxPKHMaxOutSize == 77
SSGenBlockReferenceOutSize == 38
SSGenVoteBitsOutputMinSize == 4
SSGenVoteBitsOutputMaxSize == 77
MaxSingleBytePushLength == 75

\* Scripts of another version have no class of their own.
GetScriptClass(out) == IF out.version = consensusVersion THEN out.class ELSE "nonstandard"

-----------------------------------------------------------------------------
(* Identification                                                          *)

IsStakeBase(tx) == Len(tx.ins) = 2 /\ tx.ins[1].null /\ tx.ins[1].nullProof

ConsensusVersions(tx) == \A i \in DOMAIN tx.outs : tx.outs[i].version = consensusVersion

\* A push of at least min bytes in a script of one of these lengths.
Pushes(out, min, lengths) ==
    /\ GetScriptClass(out) = "nulldata"
    /\ out.length \in lengths
    /\ out.op \in min .. MaxSingleBytePushLength

IsSStx(tx) ==
    /\ Len(tx.ins) <= MaxInputsPerSStx
    /\ Len(tx.outs) \in 1 .. MaxOutputsPerSStx
    /\ ConsensusVersions(tx)
    /\ GetScriptClass(tx.outs[1]) = "submission"
    /\ Len(tx.ins) * 2 + 1 = Len(tx.outs)
    /\ \A i \in 2 .. Len(tx.outs) :
         IF i % 2 = 1 THEN GetScriptClass(tx.outs[i]) = "change"
         ELSE Pushes(tx.outs[i], 30, SStxPKHMinOutSize .. SStxPKHMaxOutSize)

IsSSGen(tx) ==
    /\ Len(tx.ins) = NumInputsPerSSGen
    /\ Len(tx.outs) \in 2 .. MaxOutputsPerSSGen
    /\ IsStakeBase(tx)
    /\ tx.ins[2].index = 0 /\ tx.ins[2].tree = "stake"
    /\ ConsensusVersions(tx)
    /\ GetScriptClass(tx.outs[1]) = "nulldata"
    /\ tx.outs[1].length = SSGenBlockReferenceOutSize /\ tx.outs[1].op = 36
    /\ Pushes(tx.outs[2], 2, SSGenVoteBitsOutputMinSize .. SSGenVoteBitsOutputMaxSize)
    /\ \A i \in 3 .. Len(tx.outs) : GetScriptClass(tx.outs[i]) = "gen"

IsSSRtx(tx) ==
    /\ Len(tx.ins) = NumInputsPerSSRtx
    /\ Len(tx.outs) \in 1 .. MaxOutputsPerSSRtx
    /\ ConsensusVersions(tx)
    /\ tx.ins[1].tree = "stake"
    /\ \A i \in DOMAIN tx.outs : GetScriptClass(tx.outs[i]) = "revocation"

DetermineTxType(tx) ==
    IF IsSStx(tx) THEN "ticket" ELSE IF IsSSGen(tx) THEN "vote"
    ELSE IF IsSSRtx(tx) THEN "revocation" ELSE "regular"

-----------------------------------------------------------------------------
(* What is read from them.  Read gives the number in a script when the     *)
(* bytes from offset from up to to are in it.                              *)

Outside == -1
Read(script, from, to) == IF to <= script.length THEN script.data ELSE Outside

P2SHFlag == 2^(AmountBits - 1)
IsP2SH(script) == (Read(script, 22, 30) \div P2SHFlag) % 2 = 1
AddrFromSStxPkScrCommitment(script) ==
    IF script.length < SStxPKHMinOutSize THEN "error"
    ELSE IF IsP2SH(script) THEN "script hash" ELSE "key hash"
AmountFromSStxPkScrCommitment(script) ==
    IF script.length < SStxPKHMinOutSize THEN "error" ELSE Read(script, 22, 30) % P2SHFlag

\* Commitments are the odd outputs of a ticket, its change the even ones.
SStxStakeOutputInfo(tx) ==
    [k \in 1 .. Len(tx.outs) \div 2 |->
       [isP2SH |-> IsP2SH(tx.outs[2 * k]),
        amount |-> Read(tx.outs[2 * k], 22, 30) % P2SHFlag,
        change |-> tx.outs[2 * k + 1].value]]

SSGenBlockVotedOn(tx) == Read(tx.outs[1], 2, 38)
SSGenVoteBits(tx) == Read(tx.outs[2], 2, 4)
VoteConsensusVersionAbsent == 0
SSGenVersion(tx) ==
    IF tx.outs[2].length < 8 THEN VoteConsensusVersionAbsent ELSE Read(tx.outs[2], 4, 8)

\* The tickets that the stake transactions of a block spend, read off their
\* inputs: with the votes' bits, and as the upgrade to version 2 reads them.
FindSpentTicketsInBlock(stxs) ==
    LET votes == SelectSeq(stxs, IsSSGen)
        revocations == SelectSeq(stxs, LAMBDA tx : ~IsSSGen(tx) /\ IsSSRtx(tx))
    IN  [VotedTickets |-> [i \in DOMAIN votes |-> votes[i].ins[2]],
         Votes |-> [i \in DOMAIN votes |-> <<SSGenVersion(votes[i]), SSGenVoteBits(votes[i])>>],
         RevokedTickets |-> [i \in DOMAIN revocations |-> revocations[i].ins[1]]]

ticketsVotedInBlock(stxs) ==
    LET votes == SelectSeq(stxs, LAMBDA tx : DetermineTxType(tx) = "vote")
    IN  [i \in DOMAIN votes |-> votes[i].ins[2]]
ticketsRevokedInBlock(stxs) ==
    LET revocations == SelectSeq(stxs, LAMBDA tx : DetermineTxType(tx) = "revocation")
    IN  [i \in DOMAIN revocations |-> revocations[i].ins[1]]

-----------------------------------------------------------------------------
(* Shares of a reward                                                      *)

Total(s) == FoldLeft(LAMBDA n, x : n + x, 0, s)

\* What each contributor paid towards the ticket, and the fees.
SStxNullOutputAmounts(amounts, changeAmounts, amountTicket) ==
    LET contrib == [i \in DOMAIN amounts |-> amounts[i] - changeAmounts[i]] IN
      IF \/ Len(amounts) # Len(changeAmounts) \/ amountTicket <= 0
         \/ \E i \in DOMAIN contrib : contrib[i] < 0
      THEN [ok |-> FALSE]
      ELSE [ok |-> TRUE, fees |-> Total(contrib) - amountTicket, contrib |-> contrib]

\* The product is shifted up 32 bits before it is divided by all contributions
\* and down after: both round down.
CalculateRewards(amounts, amountTicket, subsidy) ==
    [i \in DOMAIN amounts |->
       (((amounts[i] * (amountTicket + subsidy) * 2^2) \div Total(amounts)) \div 2^2)]

-----------------------------------------------------------------------------
StakeTxInit == stx = [ins |-> <<>>, outs |-> <<>>]

AddTxIn ==
    /\ stx.outs = <<>> /\ Len(stx.ins) <= MaxInputsPerSStx
    /\ \E in \in TxIns : stx' = [stx EXCEPT !.ins = Append(@, in)]
AddTxOut ==
    /\ stx.ins # <<>> /\ Len(stx.outs) < MaxOutputsPerSStx
    /\ \E out \in Scripts : stx' = [stx EXCEPT !.outs = Append(@, out)]

StakeTxNext == AddTxIn \/ AddTxOut

-----------------------------------------------------------------------------
\* A transaction is of at most one kind, so that the order of the tests does
\* not matter; what the accessors read of it was pushed by its script, with no
\* index outside; and the readers of one thing agree: both decoders of a
\* commitment, and both ways to find the tickets that a block spends.
ReadsAreInside ==
    LET kinds == {k \in 1 .. 3 : <<IsSStx(stx), IsSSGen(stx), IsSSRtx(stx)>>[k]}
        spent == FindSpentTicketsInBlock(<<stx>>)
    IN /\ Cardinality(kinds) <= 1
       /\ IsSStx(stx) =>
            /\ Len(SStxStakeOutputInfo(stx)) = Len(stx.ins)
            /\ \A k \in DOMAIN SStxStakeOutputInfo(stx) :
                 LET info == SStxStakeOutputInfo(stx)[k] IN
                   /\ info.amount = AmountFromSStxPkScrCommitment(stx.outs[2 * k])
                   /\ info.isP2SH <=> AddrFromSStxPkScrCommitment(stx.outs[2 * k]) = "script hash"
                   /\ stx.outs[2 * k].op + 2 = stx.outs[2 * k].length
       /\ IsSSGen(stx) => Outside \notin {SSGenBlockVotedOn(stx), SSGenVoteBits(stx), SSGenVersion(stx)}
       /\ spent.VotedTickets = ticketsVotedInBlock(<<stx>>)
       /\ spent.RevokedTickets = ticketsRevokedInBlock(<<stx>>)

\* No more is paid than there is, the rest that rounding leaves is less than an
\* atom for each contributor, and a revocation gives nobody more than was paid.
RewardsAddUp(amounts, change, price, subsidy) ==
    LET paid == SStxNullOutputAmounts(amounts, change, price) IN
      paid.ok /\ Total(paid.contrib) > 0 =>
        LET rewards == CalculateRewards(paid.contrib, price, subsidy)
            refunds == CalculateRewards(paid.contrib, price, 0)
        IN /\ Total(rewards) \in price + subsidy + 1 - Len(amounts) .. price + subsidy
           /\ paid.fees >= 0 => \A i \in DOMAIN refunds : refunds[i] <= paid.contrib[i]

-----------------------------------------------------------------------------
(***************************************************************************)
(* Merkle roots and inclusion proofs.  A hash is the pair of what was      *)
(* hashed, so that two hashes are equal only if what they stand for is.    *)
(***************************************************************************)
Hash(left, right) == <<left, right>>
ZeroHash == <<>>
Leaf(i) == <<i>>

\* The next level of the tree: the last hash is paired with itself if need be.
Level(hashes) ==
    LET even == IF Len(hashes) % 2 = 0 THEN hashes ELSE Append(hashes, Last(hashes))
    IN  [i \in 1 .. Len(even) \div 2 |-> Hash(even[2 * i - 1], even[2 * i])]

RECURSIVE CalcMerkleRoot(_)
CalcMerkleRoot(hashes) ==
    CASE hashes = <<>> -> ZeroHash
      [] Len(hashes) = 1 -> hashes[1]
      [] OTHER -> CalcMerkleRoot(Level(hashes))

CalcCombinedTxTreeMerkleRoot(regular, stake) == Hash(CalcMerkleRoot(regular), CalcMerkleRoot(stake))

fastLog2Ceil(n) ==
    LET isPower == \E k \in 0 .. 2 ^ LogSteps : n = 2 ^ k
        floor == FoldLeft(LAMBDA x, i :
                            LET e == 2 ^ (LogSteps - i) IN
                              IF x.n >= 2 ^ e THEN [n |-> x.n \div 2 ^ e, rv |-> x.rv + e] ELSE x,
                          [n |-> n, rv |-> 0], [i \in 1 .. LogSteps |-> i]).rv
    IN  floor + (IF isPower \/ n = 0 THEN 0 ELSE 1)

\* The siblings on the way from the leaf of index i (from zero) to the root.
RECURSIVE GenerateInclusionProof(_, _)
GenerateInclusionProof(hashes, i) ==
    IF i >= Len(hashes) \/ Len(hashes) = 1 THEN <<>>
    ELSE LET sibling == IF i % 2 = 1 THEN i - 1 ELSE i + 1
         IN  <<hashes[IF sibling < Len(hashes) THEN sibling + 1 ELSE Len(hashes)]>>
               \o GenerateInclusionProof(Level(hashes), i \div 2)

VerifyInclusionProof(root, leaf, index, proof) ==
    /\ index <= 2 ^ Len(proof) - 1
    /\ root = FoldLeft(LAMBDA x, h :
                         [hash |-> IF x.index % 2 = 1 THEN Hash(h, x.hash) ELSE Hash(x.hash, h),
                          index |-> x.index \div 2],
                       [hash |-> leaf, index |-> index], proof).hash

-----------------------------------------------------------------------------
\* The leaf of n that stands at position j of the tree when every level is
\* filled up with copies of its end.
RECURSIVE StandsAt(_, _)
StandsAt(n, j) ==
    IF n = 1 THEN 0
    ELSE LET below == 2 * StandsAt((n + 1) \div 2, j \div 2) + (j % 2)
         IN  IF below = n THEN n - 1 ELSE below

\* merkle.go, inclusionproof.go: with n transactions the proof made for a leaf
\* has as many hashes as the tree has levels and verifies that leaf, where it is
\* and where a copy of it fills up the tree, and no other leaf or position; another
\* order of the transactions gives another root.
ProofsAreExact(n) ==
    LET txns == [i \in 1 .. n |-> Leaf(i - 1)]
        root == CalcMerkleRoot(txns)
    IN /\ \A i \in 0 .. n - 1 :
            LET proof == GenerateInclusionProof(txns, i) IN
              /\ Len(proof) = fastLog2Ceil(n)
              /\ \A j \in 0 .. 2 ^ Len(proof), k \in 0 .. n :
                   VerifyInclusionProof(root, Leaf(k), j, proof)
                     <=> j < 2 ^ Len(proof) /\ StandsAt(n, j) = i /\ k = i
       /\ \A i, j \in 1 .. n :
            i # j => CalcMerkleRoot([txns EXCEPT ![i] = txns[j], ![j] = txns[i]]) # root
       /\ CalcCombinedTxTreeMerkleRoot(txns, <<>>) = CalcMerkleRoot(<<root, ZeroHash>>)
=============================================================================
