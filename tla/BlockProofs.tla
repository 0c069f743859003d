----------------------------- MODULE BlockProofs -----------------------------
(***************************************************************************)
(* Calls that join several concurrent reads of a moving chain: traceBlock  *)
(* (traceBlock.ts), verifyERC20Proof and verifyChainlinkProof              *)
(* (prover/verifyProof.ts).  The node's answers, and what a Merkle proof   *)
(* shows, are modelled by the block they are taken from.                   *)
(***************************************************************************)
EXTENDS Chain

CONSTANTS
    Tags,           \* values of blockTag: [by |-> a kind of tag, n |-> block]
    Numbers,        \* values of blockNumber, 0 if absent
    Expected        \* values of balance or expectedAnswers, None if absent

\* A block may be numbered by a number, a bigint or a string of hexadecimal digits.
Numeric == {"number", "bigint", "hex"}
TagType == [by : Numeric \cup {"latest", "hash"}, n : Nat]

ASSUME BlockProofsAssumption ==
    /\ Tags \subseteq TagType
    /\ Numbers \subseteq Nat
    /\ Expected \subseteq Nat \cup {None}
    /\ None \notin {"traces", "proved", "invalid", "error"}

VARIABLES
    call,       \* arguments, and Clock (of a trace also forks) at the call
    reads,      \* replies, by name
    result      \* None, or how the call ended

proofVars == <<call, reads, result>>

Proving == kind \in {"erc20", "chainlink"}

ProofsInit ==
    /\ \/ kind = "trace" /\ \E tag \in Tags : call = [tag |-> tag, since |-> Clock, era |-> forks]
       \/ Proving /\ \E n \in Numbers, v \in Expected :
              n <= Height /\ call = [number |-> n, value |-> v, since |-> Clock]
       \/ kind = "hashes" /\ call = None
    /\ reads = [r \in {} |-> None]
    /\ result = None

Unread(r) == result = None /\ r \notin DOMAIN reads
Replied(r, reply) ==
    /\ reads' = [q \in DOMAIN reads \cup {r} |-> IF q = r THEN reply ELSE reads[q]]
    /\ UNCHANGED <<chainVars, call, result>>
Resolve(value) == result' = value /\ UNCHANGED <<chainVars, call, reads>>

-----------------------------------------------------------------------------
(* traceBlock *)

\* blockTag ? _getBlockTag(blockTag) : 'latest': 0 and 0n are taken for an absent tag.
ParsedBlock(tag) ==
    IF tag.by \in {"number", "bigint"} /\ tag.n = 0 THEN [tag EXCEPT !.by = "latest"] ELSE tag

\* The block the node finds; one named by its hash may have been replaced.
BlockOf(tag) == CASE tag.by = "latest" -> HashOf(Height)
                  [] tag.by \in Numeric -> IF tag.n <= Height THEN HashOf(tag.n) ELSE None
                  [] tag.by = "hash" -> IF tag.n <= Height /\ BlockAt(tag.n).fork = 0
                                        THEN HashOf(tag.n) ELSE None

\* Mutant: a hash is traced by number.
TracedNumber(tag) == BlockOf(IF tag.by = "hash" THEN [tag EXCEPT !.by = "number"] ELSE tag)

\* debug_traceBlockByHash or debug_traceBlockByNumber
Traced(tag) == BlockOf(tag)

\* The block that will be named in the traces: not asked for if given as a number, but
\* for a bigint or a string it is, at the same time as the traces.
ReadBlock ==
    /\ kind = "trace" /\ Unread("block")
    /\ Replied("block", IF call.tag.by = "number" THEN [number |-> call.tag.n, fork |-> None]
                        ELSE BlockOf(ParsedBlock(call.tag)))

ReadTraces ==
    /\ kind = "trace" /\ Unread("traces")
    /\ Replied("traces", Traced(ParsedBlock(call.tag)))

\* 'Invalid block' and 'No trace results'
TraceReturns ==
    /\ kind = "trace" /\ result = None /\ DOMAIN reads = {"block", "traces"}
    /\ Resolve(IF None \in {reads["block"], reads["traces"]} THEN "error" ELSE "traces")

-----------------------------------------------------------------------------
(* verifyERC20Proof and verifyChainlinkProof *)

NumberKnown == call.number # 0 \/ "number" \in DOMAIN reads

\* Mutant: the proof is taken one block before the value.
BlockBefore == IF call.number # 0 THEN call.number ELSE reads["number"] - 1

BlockNumber == IF call.number # 0 THEN call.number ELSE reads["number"]
ValueKnown == call.value # None \/ "value" \in DOMAIN reads
Value == IF call.value # None THEN call.value ELSE reads["value"]

ReadNumber ==
    /\ Proving /\ call.number = 0 /\ Unread("number")
    /\ Replied("number", Height)

\* balanceOf after the block number, latestRoundData beside it; both at the latest block.
ReadValue ==
    /\ Proving /\ call.value = None /\ Unread("value")
    /\ kind = "erc20" => NumberKnown
    /\ Replied("value", BlockAt(Height).value)

\* getBlock and getProof: with the value for a token; a round is the key of its proof.
Ready == Proving /\ NumberKnown /\ (kind = "chainlink" => ValueKnown)

\* A block's state root, or a proof from it: the block and what its state holds.
StateOf(n) == [block |-> HashOf(n), value |-> BlockAt(n).value]

ReadRoot ==
    /\ Ready /\ Unread("root")
    /\ Replied("root", StateOf(BlockNumber))

ReadProof ==
    /\ Ready /\ Unread("proof")
    /\ Replied("proof", StateOf(BlockNumber))

\* Any request may fail.
ReadFails ==
    /\ result = None /\ kind # "hashes"
    /\ Resolve("error")

\* The slot of a round holds its answer from the round on; an empty slot has no proof.
Stored(value, state) == IF kind = "erc20" THEN value = state ELSE value <= state

\* Mutant: the proof is not held against the root of the block.
ProofOfAnyRoot(proof, root) == proof.value # 0

\* verifyStorageProof: account and storage proof lead to the root, to a slot not empty.
VerifyStorageProof(proof, root) == proof.block = root.block /\ proof.value # 0

ProofReturns ==
    /\ Proving /\ result = None /\ ValueKnown /\ {"root", "proof"} \subseteq DOMAIN reads
    /\ Resolve(IF /\ Stored(Value, reads["proof"].value)
                  /\ VerifyStorageProof(reads["proof"], reads["root"])
               THEN "proved" ELSE "invalid")

ProofsNext == ReadBlock \/ ReadTraces \/ TraceReturns \/ ReadNumber \/ ReadValue
              \/ ReadRoot \/ ReadProof \/ ReadFails \/ ProofReturns

-----------------------------------------------------------------------------
(* Properties *)

\* The call ended before the chain changed.
Still == Clock = call.since

\* A block asked for by its hash is the one that was traced and is named.  One asked for by
\* its number is named by that number; a number leaves its hash open, while for a bigint or
\* a string the hash is that of the traced block unless the chain was reorganised between
\* the two requests (traceBlock.ts, line 64).  For an absent tag (or 0n, taken for one) the
\* traces may come from a later block than the one they name, if the chain changed.
TracesNameTheirBlock ==
    result = "traces" =>
        LET named == reads["block"]  traced == reads["traces"]  tag == ParsedBlock(call.tag) IN
        /\ tag.by = "hash" => named = traced /\ traced.fork = 0
        /\ tag.by \in Numeric => named.number = traced.number
        /\ tag.by \in {"bigint", "hex"} => traced = named \/ forks # call.era
        /\ tag.by = "latest" /\ call.tag.by # "number" => traced = named \/ ~Still

\* What verifyERC20Proof and verifyChainlinkProof resolve with is proved for the block
\* they return, whatever the chain did while they read.
ProofIsSound ==
    result = "proved" =>
        /\ Stored(Value, reads["root"].value)
        /\ reads["root"].block.number = BlockNumber
        /\ reads["root"].value # 0

\* On a chain that stands still, a call that reads number and value by itself, or is
\* given the head's number, fails for no other reason than an empty slot.
ProofIsFound ==
    result = "invalid" /\ Still /\ call.value = None /\ call.number \in {0, Height}
        => BlockAt(Height).value = 0
=============================================================================
