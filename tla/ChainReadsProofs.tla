-------------------------- MODULE ChainReadsProofs --------------------------
(***************************************************************************)
(* Proofs about the calls that join several reads of a changing chain, for *)
(* chains of any length, any number of new blocks and any reorganisations; *)
(* those about block hashes need that a contract still sees the blocks it  *)
(* is asked for when as many blocks as there may be were added meanwhile.  *)
(***************************************************************************)
EXTENDS ChainReads, FiniteSetTheorems, SequenceTheorems, TLAPS

(* A block carries the number of the reorganisation it came with, so that the pair of
   its number and that one never names two blocks. *)
ChainSound ==
    /\ chain \in Seq([fork : Nat, value : Nat]) /\ Len(chain) > 0
    /\ grown \in Nat /\ forks \in Nat
    /\ \A i \in 1 .. Len(chain) : chain[i].fork <= forks

CallSound ==
    /\ kind \in {"hashes", "trace", "erc20", "chainlink"}
    /\ kind = "trace" => call \in [tag : TagType, since : Nat, era : Nat] /\ call.era <= forks
    /\ Proving => /\ call \in [number : Nat, value : Nat \cup {None}, since : Nat]
                  /\ call.number <= Height
    /\ kind # "hashes" => call.since <= Clock

\* A hash is traced as the block that had it; a number as a block of that number, which
\* is the chain's as long as no reorganisation replaced it.
TraceSound ==
    kind = "trace" =>
        /\ \A r \in DOMAIN reads \cap {"block", "traces"} : reads[r] # None =>
               /\ ParsedBlock(call.tag).by = "hash" => reads[r] = [number |-> call.tag.n, fork |-> 0]
               /\ ParsedBlock(call.tag).by \in Numeric => reads[r].number = call.tag.n
               /\ ParsedBlock(call.tag).by \in {"bigint", "hex"} /\ forks = call.era =>
                      call.tag.n <= Height /\ reads[r] = HashOf(call.tag.n)
               /\ ParsedBlock(call.tag).by = "latest" /\ call.tag.by # "number" /\ Still =>
                      reads[r] = HashOf(Height)
        /\ result = "traces" => /\ {"block", "traces"} \subseteq DOMAIN reads
                                /\ reads["block"] # None /\ reads["traces"] # None

\* A root or a proof tells the value of its block, as long as the chain has that block,
\* and for ever after if it was replaced.
Taken(s) ==
    /\ s \in [block : [number : Nat, fork : Nat], value : Nat]
    /\ s.block.number = BlockNumber
    /\ s.block.fork <= forks
    /\ BlockAt(BlockNumber).fork = s.block.fork => BlockAt(BlockNumber).value = s.value

ReadsSound ==
    Proving =>
        /\ "number" \in DOMAIN reads => reads["number"] \in 0 .. Height
        /\ \A r \in DOMAIN reads \cap {"root", "proof"} : NumberKnown /\ Taken(reads[r])
        /\ {"root", "proof"} \subseteq DOMAIN reads /\ reads["root"].block = reads["proof"].block
               => reads["root"].value = reads["proof"].value

\* On a chain that stands still, every reply is that of the head.
ReadsFresh ==
    Proving /\ Still /\ call.number \in {0, Height} =>
        /\ "number" \in DOMAIN reads => reads["number"] = Height
        /\ "value" \in DOMAIN reads => reads["value"] = BlockAt(Height).value
        /\ \A r \in DOMAIN reads \cap {"root", "proof"} : reads[r] = StateOf(Height)

Ends == /\ ProofIsSound /\ ProofIsFound
        /\ ~Proving => result # "proved" /\ result # "invalid"
        /\ kind # "trace" => result # "traces"

ReadsInv == ChainSound /\ CallSound /\ TraceSound /\ ReadsSound /\ ReadsFresh /\ Ends

USE DEF Proving

-----------------------------------------------------------------------------
(* The chain *)

Block == [fork : Nat, value : Nat]

\* Values are numbers.
LEMMA NextValueType ==
    ASSUME NEW v \in Nat, NEW w \in NextValues(v)
    PROVE  w \in Nat
    BY ChainAssumption DEF NextValues

\* The blocks of the chain, by number.
LEMMA BlockType ==
    ASSUME ChainSound
    PROVE  /\ Height \in Nat /\ Len(chain) = Height + 1 /\ Clock \in Nat
           /\ \A n \in 0 .. Height : BlockAt(n) \in Block /\ BlockAt(n).fork <= forks
<1>1. chain \in Seq(Block) /\ Len(chain) \in Nat /\ Len(chain) > 0
    BY DEF ChainSound, Block
<1>2. ASSUME NEW n \in 0 .. Height PROVE BlockAt(n) \in Block /\ BlockAt(n).fork <= forks
    <2>1. n + 1 \in 1 .. Len(chain)
        BY <1>1 DEF Height
    <2>. QED
        BY <1>1, <2>1, ElementOfSeq DEF BlockAt, ChainSound
<1>. QED
    BY <1>1, <1>2 DEF ChainSound, Height, Clock

\* A new block.
LEMMA NewBlockSound ==
    ASSUME ChainSound, NewBlock
    PROVE  /\ ChainSound'
           /\ Clock' = Clock + 1 /\ Height' = Height + 1 /\ forks' = forks
           /\ \A n \in 0 .. Height : BlockAt(n)' = BlockAt(n)
<1>1. PICK v \in NextValues(BlockAt(Height).value) :
          chain' = Append(chain, [fork |-> forks, value |-> v])
    BY DEF NewBlock
<1>2. v \in Nat
    BY <1>1, BlockType, NextValueType DEF Block
<1>3. chain \in Seq(Block) /\ Len(chain) \in Nat /\ forks \in Nat /\ grown \in Nat
    BY DEF ChainSound, Block
<1>4. [fork |-> forks, value |-> v] \in Block
    BY <1>2, <1>3 DEF Block
<1>5. /\ chain' \in Seq(Block) /\ Len(chain') = Len(chain) + 1
      /\ \A i \in 1 .. Len(chain) : chain'[i] = chain[i]
      /\ chain'[Len(chain) + 1] = [fork |-> forks, value |-> v]
    BY <1>1, <1>3, <1>4, AppendProperties
<1>6. grown' = grown + 1 /\ forks' = forks
    BY DEF NewBlock
<1>7. ASSUME NEW i \in 1 .. Len(chain') PROVE chain'[i].fork <= forks'
    <2>1. CASE i \in 1 .. Len(chain)
        BY <2>1, <1>5, <1>6 DEF ChainSound
    <2>2. CASE i = Len(chain) + 1
        BY <2>2, <1>3, <1>5, <1>6
    <2>. QED
        BY <1>3, <1>5, <2>1, <2>2
<1>8. ChainSound'
    BY <1>3, <1>5, <1>6, <1>7 DEF ChainSound, Block
<1>9. \A n \in 0 .. Height : BlockAt(n)' = BlockAt(n)
    BY <1>3, <1>5 DEF BlockAt, Height
<1>. QED
    BY <1>3, <1>5, <1>6, <1>8, <1>9 DEF Height, Clock

\* A reorganisation: every block is as it was, or is new.
LEMMA ReorgSound ==
    ASSUME ChainSound, Reorg
    PROVE  /\ ChainSound'
           /\ Clock' = Clock + 1 /\ Height' = Height /\ forks' = forks + 1
           /\ \A n \in 0 .. Height : BlockAt(n)' = BlockAt(n) \/ BlockAt(n)'.fork = forks'
<1>1. PICK n \in 1 .. Height : \E v \in NextValues(BlockAt(n - 1).value) :
           chain' = [i \in 1 .. Len(chain) |->
                        IF i > n THEN [fork |-> forks', value |-> v] ELSE chain[i]]
    BY DEF Reorg
<1>2. PICK v \in NextValues(BlockAt(n - 1).value) :
           chain' = [i \in 1 .. Len(chain) |->
                        IF i > n THEN [fork |-> forks', value |-> v] ELSE chain[i]]
    BY <1>1
<1>3. n - 1 \in 0 .. Height
    BY BlockType
<1>4. v \in Nat
    BY <1>2, <1>3, BlockType, NextValueType DEF Block
<1>5. chain \in Seq(Block) /\ Len(chain) \in Nat /\ forks \in Nat /\ grown \in Nat
    BY DEF ChainSound, Block
<1>6. forks' = forks + 1 /\ grown' = grown
    BY DEF Reorg
<1>7. ASSUME NEW i \in 1 .. Len(chain)
      PROVE  chain'[i] \in Block /\ (chain'[i] = chain[i] \/ chain'[i].fork = forks')
    <2>1. CASE i > n
        BY <2>1, <1>2, <1>4, <1>5, <1>6 DEF Block
    <2>2. CASE ~(i > n)
        BY <2>2, <1>2, <1>5, ElementOfSeq
    <2>. QED
        BY <2>1, <2>2
<1>8. chain' \in [1 .. Len(chain) -> Block]
    BY <1>2, <1>7
<1>9. chain' \in Seq(Block) /\ Len(chain') = Len(chain)
    BY <1>5, <1>8
<1>10. ASSUME NEW i \in 1 .. Len(chain') PROVE chain'[i].fork <= forks'
    <2>1. i \in 1 .. Len(chain) /\ chain[i] \in Block /\ chain[i].fork <= forks
        BY <1>5, <1>9, ElementOfSeq DEF ChainSound
    <2>2. chain[i].fork \in Nat
        BY <2>1 DEF Block
    <2>. QED
        BY <1>5, <1>6, <1>7, <2>1, <2>2
<1>11. ChainSound'
    BY <1>5, <1>6, <1>9, <1>10 DEF ChainSound, Block
<1>12. \A m \in 0 .. Height : BlockAt(m)' = BlockAt(m) \/ BlockAt(m)'.fork = forks'
    BY <1>5, <1>7 DEF BlockAt, Height
<1>. QED
    BY <1>5, <1>6, <1>9, <1>11, <1>12 DEF Height, Clock

\* The number of the block that is read, once known, is one of the chain.
LEMMA NumberOfChain ==
    ASSUME ChainSound, CallSound, ReadsSound, Proving, NumberKnown
    PROVE  BlockNumber \in 0 .. Height
    BY BlockType DEF CallSound, ReadsSound, NumberKnown, BlockNumber

\* What was read stays true when the chain changes, and is no longer fresh.
LEMMA ChainKeeps ==
    ASSUME ReadsInv, ChainNext, UNCHANGED proofVars, ~Ended
    PROVE  ReadsInv'
<1>1. /\ ChainSound' /\ Clock' = Clock + 1 /\ Height' >= Height /\ Height' \in Nat
      /\ forks' \in Nat /\ forks' >= forks /\ kind' = kind
      /\ \A n \in 0 .. Height : BlockAt(n)' = BlockAt(n)
                                \/ (BlockAt(n)'.fork = forks' /\ forks' = forks + 1)
    <2>1. CASE NewBlock
        <3>1. kind' = kind
            BY <2>1 DEF NewBlock
        <3>2. ChainSound /\ forks \in Nat /\ Height \in Nat
            BY BlockType DEF ReadsInv, ChainSound
        <3>3. /\ ChainSound'
              /\ Clock' = Clock + 1 /\ Height' = Height + 1 /\ forks' = forks
              /\ \A n \in 0 .. Height : BlockAt(n)' = BlockAt(n)
            BY <2>1, <3>2, NewBlockSound
        <3>. QED
            BY <3>1, <3>2, <3>3
    <2>2. CASE Reorg
        <3>1. kind' = kind
            BY <2>2 DEF Reorg
        <3>2. ChainSound /\ forks \in Nat
            BY DEF ReadsInv, ChainSound
        <3>. QED
            BY <2>2, <3>1, <3>2, ReorgSound, BlockType
    <2>. QED
        BY <2>1, <2>2 DEF ChainNext
<1>2. call' = call /\ reads' = reads /\ result' = result
    BY DEF proofVars
<1>3. Clock \in Nat /\ Height \in Nat /\ forks \in Nat
    BY BlockType DEF ReadsInv, ChainSound
<1>4. CallSound'
    <2>1. CASE kind = "trace"
        <3>1. call.since \in Nat /\ call.since <= Clock
            BY <2>1 DEF ReadsInv, CallSound
        <3>. QED
            BY <1>1, <1>2, <1>3, <2>1, <3>1 DEF ReadsInv, CallSound
    <2>2. CASE Proving
        <3>1. call.since \in Nat /\ call.since <= Clock /\ call.number \in Nat /\ call.number <= Height
            BY <2>2 DEF ReadsInv, CallSound
        <3>2. call'.since <= Clock' /\ call'.number <= Height'
            BY <1>1, <1>2, <1>3, <3>1
        <3>. QED
            BY <1>1, <1>2, <2>2, <3>2 DEF ReadsInv, CallSound
    <2>3. CASE kind = "hashes"
        BY <1>1, <2>3 DEF CallSound
    <2>. QED
        BY <2>1, <2>2, <2>3 DEF ReadsInv, CallSound
<1>5. kind # "hashes" => ~Still'
    BY <1>1, <1>2, <1>3 DEF ReadsInv, CallSound, Still
<1>6. TraceSound'
    <2> SUFFICES ASSUME kind = "trace" PROVE TraceSound'
        BY <1>1 DEF TraceSound
    <2>1. call.tag.n \in Nat /\ call.era \in Nat /\ call.era <= forks
        BY DEF ReadsInv, CallSound, TagType
    <2>2. ASSUME forks' = call.era, call.tag.n <= Height
          PROVE  forks = call.era /\ call.tag.n <= Height' /\ HashOf(call.tag.n)' = HashOf(call.tag.n)
        <3>1. forks = call.era /\ forks' # forks + 1 /\ call.tag.n <= Height'
            BY <1>1, <1>3, <2>1, <2>2
        <3>2. call.tag.n \in 0 .. Height
            BY <1>3, <2>1, <2>2
        <3>3. BlockAt(call.tag.n)' = BlockAt(call.tag.n)
            BY <1>1, <1>2, <3>1, <3>2
        <3>. QED
            BY <1>2, <3>1, <3>3 DEF HashOf
    <2>3. TraceSound /\ ~Still'
        BY <1>5 DEF ReadsInv
    <2>4. ASSUME NEW r \in DOMAIN reads \cap {"block", "traces"}, reads[r] # None,
                 ParsedBlock(call.tag).by \in {"bigint", "hex"}, forks' = call.era
          PROVE  call.tag.n <= Height' /\ reads[r] = HashOf(call.tag.n)'
        <3>1. forks = call.era
            BY <1>1, <1>3, <2>1, <2>4
        <3>2. call.tag.n <= Height /\ reads[r] = HashOf(call.tag.n)
            BY <2>3, <2>4, <3>1 DEF TraceSound
        <3>. QED
            BY <2>2, <2>4, <3>2
    <2>5. ParsedBlock(call.tag)' = ParsedBlock(call.tag)
        BY <1>2 DEF ParsedBlock
    <2>. QED
        BY <1>1, <1>2, <2>3, <2>4, <2>5 DEF TraceSound
<1>7. ReadsSound'
    <2> SUFFICES ASSUME Proving PROVE ReadsSound'
        BY <1>1 DEF ReadsSound
    <2>1. NumberKnown' = NumberKnown /\ BlockNumber' = BlockNumber
        BY <1>2 DEF NumberKnown, BlockNumber
    <2>2. ASSUME NEW r \in DOMAIN reads \cap {"root", "proof"} PROVE NumberKnown /\ Taken(reads[r])'
        <3>1. NumberKnown /\ Taken(reads[r])
            BY DEF ReadsInv, ReadsSound
        <3>2. BlockNumber \in 0 .. Height
            BY <3>1, NumberOfChain DEF ReadsInv
        <3>3. CASE BlockAt(BlockNumber)' = BlockAt(BlockNumber)
            BY <1>1, <1>2, <1>3, <2>1, <3>1, <3>2, <3>3 DEF Taken
        <3>4. CASE BlockAt(BlockNumber)'.fork = forks' /\ forks' = forks + 1
            BY <1>1, <1>2, <1>3, <2>1, <3>1, <3>2, <3>4 DEF Taken
        <3>. QED
            BY <1>1, <2>1, <3>1, <3>2, <3>3, <3>4
    <2>. QED
        BY <1>1, <1>2, <1>3, <2>1, <2>2 DEF ReadsInv, ReadsSound
<1>8. ReadsFresh'
    BY <1>1, <1>5 DEF ReadsFresh
<1>9. Ends'
    <2>1. CASE Proving
        <3>1. result' = None
            BY <1>2, <2>1 DEF Ended
        <3>. QED
            BY <1>1, <2>1, <3>1, BlockProofsAssumption DEF Ends, ProofIsSound, ProofIsFound
    <2>2. CASE ~Proving
        BY <1>1, <1>2, <2>2 DEF ReadsInv, Ends, ProofIsSound, ProofIsFound
    <2>. QED
        BY <2>1, <2>2
<1>. QED
    BY <1>1, <1>4, <1>6, <1>7, <1>8, <1>9 DEF ReadsInv

-----------------------------------------------------------------------------
(* The calls *)

\* A reply is added to those there are.
LEMMA RepliedAdds ==
    ASSUME NEW r, NEW reply, Unread(r), Replied(r, reply)
    PROVE  /\ DOMAIN reads' = DOMAIN reads \cup {r}
           /\ reads'[r] = reply
           /\ \A q \in DOMAIN reads : q # r /\ reads'[q] = reads[q]
           /\ call' = call /\ result' = None /\ result = None
           /\ kind' = kind /\ chain' = chain /\ grown' = grown /\ forks' = forks
    BY DEF Unread, Replied, chainVars

\* While the chain stays as it is, so do the facts about it, and no call has ended.
LEMMA Unchanged ==
    ASSUME ReadsInv, kind' = kind, chain' = chain, grown' = grown, forks' = forks, call' = call
    PROVE  /\ ChainSound' /\ CallSound'
           /\ Height' = Height /\ Clock' = Clock /\ Still' = Still
           /\ \A n : BlockAt(n)' = BlockAt(n) /\ HashOf(n)' = HashOf(n)
           /\ result' = None => Ends'
<1>1. Height' = Height /\ Clock' = Clock /\ Still' = Still
    BY DEF Height, Clock, Still
<1>2. \A n : BlockAt(n)' = BlockAt(n) /\ HashOf(n)' = HashOf(n)
    BY DEF BlockAt, HashOf
<1>3. ChainSound' /\ CallSound'
    BY <1>1 DEF ReadsInv, ChainSound, CallSound
<1>4. result' = None => Ends'
    BY BlockProofsAssumption DEF Ends, ProofIsSound, ProofIsFound
<1>. QED
    BY <1>1, <1>2, <1>3, <1>4

\* The block to be named in the traces.
LEMMA ReadBlockKeeps ==
    ASSUME ReadsInv, ReadBlock
    PROVE  ReadsInv'
<1> DEFINE reply == IF call.tag.by = "number" THEN [number |-> call.tag.n, fork |-> None]
                    ELSE BlockOf(ParsedBlock(call.tag))
<1>1. kind = "trace" /\ Unread("block") /\ Replied("block", reply)
    BY DEF ReadBlock
<1>. HIDE DEF reply
<1>2. /\ DOMAIN reads' = DOMAIN reads \cup {"block"} /\ reads'["block"] = reply
      /\ \A q \in DOMAIN reads : q # "block" /\ reads'[q] = reads[q]
      /\ call' = call /\ result' = None /\ kind' = kind
      /\ chain' = chain /\ grown' = grown /\ forks' = forks
    BY <1>1, RepliedAdds
<1>3. call.tag \in TagType
    BY <1>1 DEF ReadsInv, CallSound
<1>4. reply # None =>
          /\ ParsedBlock(call.tag).by = "hash" => reply = [number |-> call.tag.n, fork |-> 0]
          /\ ParsedBlock(call.tag).by \in Numeric => reply.number = call.tag.n
          /\ ParsedBlock(call.tag).by \in {"bigint", "hex"} =>
                 call.tag.n <= Height /\ reply = HashOf(call.tag.n)
          /\ ParsedBlock(call.tag).by = "latest" /\ call.tag.by # "number" => reply = HashOf(Height)
    BY <1>3 DEF reply, ParsedBlock, BlockOf, HashOf, TagType, Numeric
<1>5. TraceSound'
    BY <1>1, <1>2, <1>4, Unchanged, BlockProofsAssumption DEF ReadsInv, TraceSound, ParsedBlock
<1>6. ReadsSound' /\ ReadsFresh'
    BY <1>1, <1>2 DEF ReadsSound, ReadsFresh
<1>. QED
    BY <1>2, <1>5, <1>6, Unchanged DEF ReadsInv

\* The traces.
LEMMA ReadTracesKeeps ==
    ASSUME ReadsInv, ReadTraces
    PROVE  ReadsInv'
<1> DEFINE reply == Traced(ParsedBlock(call.tag))
<1>1. kind = "trace" /\ Unread("traces") /\ Replied("traces", reply)
    BY DEF ReadTraces
<1>. HIDE DEF reply
<1>2. /\ DOMAIN reads' = DOMAIN reads \cup {"traces"} /\ reads'["traces"] = reply
      /\ \A q \in DOMAIN reads : q # "traces" /\ reads'[q] = reads[q]
      /\ call' = call /\ result' = None /\ kind' = kind
      /\ chain' = chain /\ grown' = grown /\ forks' = forks
    BY <1>1, RepliedAdds
<1>3. call.tag \in TagType
    BY <1>1 DEF ReadsInv, CallSound
<1>4. reply # None =>
          /\ ParsedBlock(call.tag).by = "hash" => reply = [number |-> call.tag.n, fork |-> 0]
          /\ ParsedBlock(call.tag).by \in Numeric => reply.number = call.tag.n
          /\ ParsedBlock(call.tag).by \in {"bigint", "hex"} =>
                 call.tag.n <= Height /\ reply = HashOf(call.tag.n)
          /\ ParsedBlock(call.tag).by = "latest" /\ call.tag.by # "number" => reply = HashOf(Height)
    BY <1>3 DEF reply, Traced, ParsedBlock, BlockOf, HashOf, TagType, Numeric
<1>5. TraceSound'
    BY <1>1, <1>2, <1>4, Unchanged, BlockProofsAssumption DEF ReadsInv, TraceSound, ParsedBlock
<1>6. ReadsSound' /\ ReadsFresh'
    BY <1>1, <1>2 DEF ReadsSound, ReadsFresh
<1>. QED
    BY <1>2, <1>5, <1>6, Unchanged DEF ReadsInv

\* The call for the traces ends.
LEMMA TraceReturnsKeeps ==
    ASSUME ReadsInv, TraceReturns
    PROVE  ReadsInv'
<1>1. /\ kind = "trace" /\ DOMAIN reads = {"block", "traces"} /\ reads' = reads
      /\ call' = call /\ kind' = kind /\ chain' = chain /\ grown' = grown /\ forks' = forks
      /\ result' = IF None \in {reads["block"], reads["traces"]} THEN "error" ELSE "traces"
    BY DEF TraceReturns, Resolve, chainVars
<1>2. TraceSound'
    BY <1>1, Unchanged DEF ReadsInv, TraceSound, ParsedBlock
<1>3. ReadsSound' /\ ReadsFresh'
    BY <1>1 DEF ReadsSound, ReadsFresh
<1>4. Ends'
    BY <1>1 DEF Ends, ProofIsSound, ProofIsFound
<1>. QED
    BY <1>1, <1>2, <1>3, <1>4, Unchanged DEF ReadsInv

\* The number of the latest block, or a value at the latest block.
LEMMA ReadLatestKeeps ==
    ASSUME ReadsInv, ReadNumber \/ ReadValue
    PROVE  ReadsInv'
<1>1. PICK r \in {"number", "value"} :
          /\ Unread(r) /\ Replied(r, IF r = "number" THEN Height ELSE BlockAt(Height).value)
          /\ r = "number" => call.number = 0
    BY DEF ReadNumber, ReadValue
<1>2. Proving
    BY DEF ReadNumber, ReadValue
<1>3. /\ DOMAIN reads' = DOMAIN reads \cup {r}
      /\ reads'[r] = IF r = "number" THEN Height ELSE BlockAt(Height).value
      /\ \A q \in DOMAIN reads : q # r /\ reads'[q] = reads[q]
      /\ call' = call /\ result' = None /\ kind' = kind
      /\ chain' = chain /\ grown' = grown /\ forks' = forks
    BY <1>1, RepliedAdds
<1>4. Height \in Nat
    BY BlockType DEF ReadsInv
<1>5. ASSUME NumberKnown PROVE NumberKnown' /\ BlockNumber' = BlockNumber
    BY <1>1, <1>3, <1>5 DEF NumberKnown, BlockNumber
<1>6. ASSUME NEW q \in DOMAIN reads' \cap {"root", "proof"}
      PROVE  /\ q \in DOMAIN reads /\ reads'[q] = reads[q]
             /\ NumberKnown' /\ Taken(reads[q])'
    <2>1. q \in DOMAIN reads /\ reads'[q] = reads[q]
        BY <1>1, <1>3
    <2>2. NumberKnown /\ Taken(reads[q])
        BY <1>2, <2>1 DEF ReadsInv, ReadsSound
    <2>. QED
        BY <1>3, <1>5, <2>1, <2>2, Unchanged DEF Taken
<1>7. ReadsSound'
    <2>1. "number" \in DOMAIN reads' => reads'["number"] \in 0 .. Height'
        BY <1>2, <1>3, <1>4, Unchanged DEF ReadsInv, ReadsSound
    <2>2. {"root", "proof"} \subseteq DOMAIN reads' /\ reads'["root"].block = reads'["proof"].block
              => reads'["root"].value = reads'["proof"].value
        BY <1>2, <1>6 DEF ReadsInv, ReadsSound
    <2>. QED
        BY <1>6, <2>1, <2>2 DEF ReadsSound
<1>8. ReadsFresh'
    <2> SUFFICES ASSUME Still, call.number \in {0, Height} PROVE ReadsFresh'
        BY <1>3, Unchanged DEF ReadsFresh
    <2>1. \A q \in DOMAIN reads' \cap {"root", "proof"} : reads'[q] = StateOf(Height)'
        BY <1>2, <1>3, <1>6, Unchanged DEF ReadsInv, ReadsFresh, StateOf
    <2>2. /\ "number" \in DOMAIN reads' => reads'["number"] = Height'
          /\ "value" \in DOMAIN reads' => reads'["value"] = BlockAt(Height)'.value
        BY <1>2, <1>3, Unchanged DEF ReadsInv, ReadsFresh
    <2>. QED
        BY <2>1, <2>2 DEF ReadsFresh
<1>. QED
    BY <1>2, <1>3, <1>7, <1>8, Unchanged DEF ReadsInv, TraceSound

\* The state root of the block, or a proof from it: the second one tells the value that
\* the first one told, unless its block is another.
LEMMA ReadStateKeeps ==
    ASSUME ReadsInv, ReadRoot \/ ReadProof
    PROVE  ReadsInv'
<1>1. PICK r \in {"root", "proof"} : Unread(r) /\ Replied(r, StateOf(BlockNumber))
    BY DEF ReadRoot, ReadProof
<1>2. Proving /\ NumberKnown
    BY DEF ReadRoot, ReadProof, Ready
<1>3. /\ DOMAIN reads' = DOMAIN reads \cup {r} /\ reads'[r] = StateOf(BlockNumber)
      /\ \A q \in DOMAIN reads : q # r /\ reads'[q] = reads[q]
      /\ call' = call /\ result' = None /\ kind' = kind
      /\ chain' = chain /\ grown' = grown /\ forks' = forks
    BY <1>1, RepliedAdds
<1>4. NumberKnown' /\ BlockNumber' = BlockNumber /\ BlockNumber \in 0 .. Height
    <2>1. BlockNumber \in 0 .. Height
        BY <1>2, NumberOfChain DEF ReadsInv
    <2>. QED
        BY <1>2, <1>3, <2>1 DEF NumberKnown, BlockNumber
<1>5. BlockAt(BlockNumber) \in Block /\ BlockAt(BlockNumber).fork <= forks /\ Height \in Nat
    BY <1>4, BlockType DEF ReadsInv
<1>6. ASSUME NEW q \in DOMAIN reads' \cap {"root", "proof"} PROVE Taken(reads[q])'
    <2>1. CASE q = r
        BY <1>3, <1>4, <1>5, <2>1, Unchanged DEF Taken, StateOf, HashOf, Block
    <2>2. CASE q # r
        <3>1. q \in DOMAIN reads /\ reads'[q] = reads[q] /\ Taken(reads[q])
            BY <1>2, <1>3, <2>2 DEF ReadsInv, ReadsSound
        <3>. QED
            BY <1>3, <1>4, <3>1, Unchanged DEF Taken
    <2>. QED
        BY <2>1, <2>2
<1>7. ASSUME {"root", "proof"} \subseteq DOMAIN reads', reads'["root"].block = reads'["proof"].block
      PROVE  reads'["root"].value = reads'["proof"].value
    <2>1. PICK q \in {"root", "proof"} : q # r
        OBVIOUS
    <2>2. reads'[q] = reads[q] /\ Taken(reads[q])
        BY <1>2, <1>3, <1>7, <2>1 DEF ReadsInv, ReadsSound
    <2>3. reads'[q].block = reads'[r].block
        BY <1>7, <2>1
    <2>4. reads'[r].block.fork = BlockAt(BlockNumber).fork
          /\ reads'[r].value = BlockAt(BlockNumber).value
        BY <1>3 DEF StateOf, HashOf
    <2>5. reads'[q].value = reads'[r].value
        BY <2>2, <2>3, <2>4 DEF Taken
    <2>. QED
        BY <2>1, <2>5
<1>8. ReadsSound'
    <2>1. "number" \in DOMAIN reads' => reads'["number"] \in 0 .. Height'
        BY <1>1, <1>2, <1>3, Unchanged DEF ReadsInv, ReadsSound
    <2>. QED
        BY <1>4, <1>6, <1>7, <2>1 DEF ReadsSound
<1>9. ReadsFresh'
    <2> SUFFICES ASSUME Still, call.number \in {0, Height} PROVE ReadsFresh'
        BY <1>3, Unchanged DEF ReadsFresh
    <2>1. BlockNumber = Height
        BY <1>2, <1>5 DEF BlockNumber, NumberKnown, ReadsInv, ReadsFresh
    <2>2. \A q \in DOMAIN reads' \cap {"root", "proof"} : reads'[q] = StateOf(Height)'
        BY <1>2, <1>3, <2>1, Unchanged DEF ReadsInv, ReadsFresh, StateOf
    <2>3. /\ "number" \in DOMAIN reads' => reads'["number"] = Height'
          /\ "value" \in DOMAIN reads' => reads'["value"] = BlockAt(Height)'.value
        BY <1>2, <1>3, Unchanged DEF ReadsInv, ReadsFresh
    <2>. QED
        BY <2>2, <2>3 DEF ReadsFresh
<1>. QED
    BY <1>2, <1>3, <1>8, <1>9, Unchanged DEF ReadsInv, TraceSound

\* A request fails, and the call with it.
LEMMA ReadFailsKeeps ==
    ASSUME ReadsInv, ReadFails
    PROVE  ReadsInv'
<1>1. /\ result' = "error" /\ reads' = reads /\ call' = call /\ kind' = kind
      /\ chain' = chain /\ grown' = grown /\ forks' = forks
    BY DEF ReadFails, Resolve, chainVars
<1>2. TraceSound'
    BY <1>1, Unchanged DEF ReadsInv, TraceSound, ParsedBlock
<1>3. ReadsSound' /\ ReadsFresh'
    BY <1>1, Unchanged
       DEF ReadsInv, ReadsSound, ReadsFresh, Taken, NumberKnown, BlockNumber, StateOf
<1>4. Ends'
    BY <1>1 DEF Ends, ProofIsSound, ProofIsFound
<1>. QED
    BY <1>1, <1>2, <1>3, <1>4, Unchanged DEF ReadsInv

\* The proof is held against the root: accepted, it speaks of the root's own block; on a
\* chain that stands still only an empty slot is refused.
LEMMA ProofReturnsKeeps ==
    ASSUME ReadsInv, ProofReturns
    PROVE  ReadsInv'
<1> DEFINE accepted == /\ Stored(Value, reads["proof"].value)
                       /\ VerifyStorageProof(reads["proof"], reads["root"])
<1>1. /\ Proving /\ ValueKnown /\ {"root", "proof"} \subseteq DOMAIN reads
      /\ result' = (IF accepted THEN "proved" ELSE "invalid")
      /\ reads' = reads /\ call' = call /\ kind' = kind
      /\ chain' = chain /\ grown' = grown /\ forks' = forks
    BY DEF ProofReturns, Resolve, chainVars
<1>2. /\ Taken(reads["root"]) /\ NumberKnown
      /\ reads["root"].block = reads["proof"].block => reads["root"].value = reads["proof"].value
    BY <1>1 DEF ReadsInv, ReadsSound
<1>3. ProofIsSound'
    <2> SUFFICES ASSUME result' = "proved" PROVE ProofIsSound'
        BY DEF ProofIsSound
    <2>1. accepted
        BY <1>1
    <2>2. Stored(Value, reads["root"].value) /\ reads["root"].value # 0
          /\ reads["root"].block.number = BlockNumber
        BY <1>2, <2>1 DEF VerifyStorageProof, Taken
    <2>. QED
        BY <1>1, <2>2 DEF ProofIsSound, Stored, Value, BlockNumber
<1>4. ProofIsFound'
    <2> SUFFICES ASSUME result' = "invalid", Still, call.value = None, call.number \in {0, Height}
                 PROVE  BlockAt(Height).value = 0
        BY <1>1, Unchanged DEF ProofIsFound
    <2>1. reads["root"] = StateOf(Height) /\ reads["proof"] = StateOf(Height)
          /\ reads["value"] = BlockAt(Height).value /\ Value = BlockAt(Height).value
        BY <1>1 DEF ReadsInv, ReadsFresh, ValueKnown, Value
    <2>2. BlockAt(Height).value \in Nat
        BY BlockType DEF ReadsInv, Block
    <2>3. Stored(Value, reads["proof"].value)
        BY <2>1, <2>2 DEF Stored, StateOf
    <2>4. ~accepted
        BY <1>1
    <2>. QED
        BY <2>1, <2>3, <2>4 DEF VerifyStorageProof, StateOf
<1>5. Ends'
    BY <1>1, <1>3, <1>4 DEF Ends
<1>6. ReadsSound' /\ ReadsFresh'
    BY <1>1, Unchanged
       DEF ReadsInv, ReadsSound, ReadsFresh, Taken, NumberKnown, BlockNumber, StateOf
<1>7. TraceSound'
    BY <1>1 DEF TraceSound
<1>. QED
    BY <1>1, <1>5, <1>6, <1>7, Unchanged DEF ReadsInv

-----------------------------------------------------------------------------
(* The system *)

\* Nothing was read yet.
LEMMA InitReads == Init => ReadsInv
<1> SUFFICES ASSUME Init PROVE ReadsInv
    OBVIOUS
<1>1. PICK h \in Heights, v \in Values : \E w \in NextValues(v) :
          chain = [i \in 1 .. h + 1 |-> [fork |-> 0, value |-> IF i > h THEN w ELSE v]]
    BY DEF Init, ChainInit
<1>2. PICK w \in NextValues(v) :
          chain = [i \in 1 .. h + 1 |-> [fork |-> 0, value |-> IF i > h THEN w ELSE v]]
    BY <1>1
<1>3. h \in Nat /\ v \in Nat /\ w \in Nat
    BY <1>2, ChainAssumption, NextValueType
<1>4. chain \in [1 .. h + 1 -> Block] /\ \A i \in 1 .. h + 1 : chain[i].fork = 0
    BY <1>2, <1>3 DEF Block
<1>5. chain \in Seq(Block) /\ Len(chain) = h + 1
    BY <1>3, <1>4
<1>6. kind \in {"hashes", "trace", "erc20", "chainlink"} /\ grown = 0 /\ forks = 0
    BY ChainAssumption DEF Init, ChainInit
<1>7. ChainSound
    BY <1>3, <1>4, <1>5, <1>6 DEF ChainSound, Block
<1>8. result = None /\ DOMAIN reads = {}
    BY DEF Init, ProofsInit
<1>9. Height \in Nat /\ Clock = 0
    BY <1>3, <1>5, <1>6 DEF Height, Clock
<1>10. CallSound
    <2>1. CASE kind = "trace"
        <3>1. PICK tag \in Tags : call = [tag |-> tag, since |-> Clock, era |-> forks]
            BY <2>1 DEF Init, ProofsInit
        <3>2. tag \in TagType
            BY <3>1, BlockProofsAssumption
        <3>3. call \in [tag : TagType, since : Nat, era : Nat] /\ call.era = 0 /\ call.since = 0
            BY <1>6, <1>9, <3>1, <3>2
        <3>. QED
            BY <1>6, <1>9, <2>1, <3>3 DEF CallSound
    <2>2. CASE Proving
        <3>1. PICK n \in Numbers, x \in Expected :
                  n <= Height /\ call = [number |-> n, value |-> x, since |-> Clock]
            BY <2>2 DEF Init, ProofsInit
        <3>2. n \in Nat /\ x \in Nat \cup {None}
            BY <3>1, BlockProofsAssumption
        <3>3. /\ call \in [number : Nat, value : Nat \cup {None}, since : Nat]
              /\ call.number <= Height /\ call.since = 0
            BY <1>9, <3>1, <3>2
        <3>. QED
            BY <1>6, <1>9, <2>2, <3>3 DEF CallSound
    <2>3. CASE kind = "hashes"
        BY <2>3 DEF CallSound
    <2>. QED
        BY <1>6, <2>1, <2>2, <2>3
<1>11. TraceSound /\ ReadsSound /\ ReadsFresh /\ Ends
    BY <1>8, BlockProofsAssumption
       DEF TraceSound, ReadsSound, ReadsFresh, Ends, ProofIsSound, ProofIsFound
<1>. QED
    BY <1>7, <1>10, <1>11 DEF ReadsInv

\* Steps of the fetches of hashes do not touch the other calls.
LEMMA HashesKeep ==
    ASSUME ReadsInv, UNCHANGED <<chainVars, proofVars>>
    PROVE  ReadsInv'
<1>1. /\ kind' = kind /\ chain' = chain /\ grown' = grown /\ forks' = forks
      /\ call' = call /\ reads' = reads /\ result' = result
    BY DEF chainVars, proofVars
<1>2. TraceSound' /\ ReadsSound' /\ ReadsFresh'
    BY <1>1, Unchanged DEF ReadsInv, TraceSound, ParsedBlock, ReadsSound, ReadsFresh, Taken,
                           NumberKnown, BlockNumber, StateOf
<1>3. Ends'
    BY <1>1, Unchanged DEF ReadsInv, Ends, ProofIsSound, ProofIsFound, Stored, Value, BlockNumber
<1>. QED
    BY <1>1, <1>2, <1>3, Unchanged DEF ReadsInv

\* The invariant is inductive.
LEMMA NextReads == ReadsInv /\ [Next]_vars => ReadsInv'
<1> SUFFICES ASSUME ReadsInv, [Next]_vars PROVE ReadsInv'
    OBVIOUS
<1>1. CASE ~Ended /\ ChainNext /\ UNCHANGED <<hashVars, proofVars>>
    BY <1>1, ChainKeeps
<1>2. CASE HashesNext /\ UNCHANGED proofVars
    <2>1. UNCHANGED chainVars
        BY <1>2 DEF HashesNext, ReadHead, FetchFails, FetchReturns, ByContract, ByBlock, Found
    <2>. QED
        BY <1>2, <2>1, HashesKeep
<1>3. CASE ProofsNext
    BY <1>3, ReadBlockKeeps, ReadTracesKeeps, TraceReturnsKeeps, ReadLatestKeeps, ReadStateKeeps,
       ReadFailsKeeps, ProofReturnsKeeps DEF ProofsNext
<1>4. CASE UNCHANGED vars
    BY <1>4, HashesKeep DEF vars
<1>. QED
    BY <1>1, <1>2, <1>3, <1>4 DEF Next

\* The invariant holds in every behaviour.
LEMMA ReadsAlways == Spec => []ReadsInv
    BY InitReads, NextReads, PTL DEF Spec

\* The traces that traceBlock returns belong to the block they name: asked for by hash
\* always, by a bigint or a string unless a reorganisation came between its two requests,
\* without a tag unless the chain changed; by a number they have its number.
THEOREM TracesNameBlock == Spec => []TracesNameTheirBlock
<1>1. ReadsInv => TracesNameTheirBlock
    <2> SUFFICES ASSUME ReadsInv, result = "traces" PROVE TracesNameTheirBlock
        BY DEF TracesNameTheirBlock
    <2>1. kind = "trace"
        BY DEF ReadsInv, CallSound, Ends
    <2>. QED
        BY <2>1 DEF ReadsInv, TraceSound, CallSound, TracesNameTheirBlock, ParsedBlock
<1>. QED
    BY <1>1, ReadsAlways, PTL

\* What verifyERC20Proof and verifyChainlinkProof (verifyProof.ts) accept holds in the
\* block they return.
THEOREM ProofsAreSound == Spec => []ProofIsSound
<1>1. ReadsInv => ProofIsSound
    BY DEF ReadsInv, Ends
<1>. QED
    BY <1>1, ReadsAlways, PTL

\* While the chain stands still, a call that reads the value itself, of the head, refuses
\* nothing but an empty slot; calls given an earlier number or a value may be refused.
THEOREM ProofsAreFound == Spec => []ProofIsFound
<1>1. ReadsInv => ProofIsFound
    BY DEF ReadsInv, Ends
<1>. QED
    BY <1>1, ReadsAlways, PTL

-----------------------------------------------------------------------------
(* compareBlockHashes *)

\* A set of integers within an interval has a least one: the intervals below its elements
\* are finite sets, which have a minimal one.
LEMMA LeastInteger ==
    ASSUME NEW T, NEW a \in Int, NEW b \in Int, T \subseteq a .. b, T # {}
    PROVE  \E x \in T : \A y \in T : x <= y
<1> DEFINE S == a .. b
           Below == {a .. x : x \in T}
<1>1. IsFiniteSet(S) /\ FiniteSubsetsOf(S) = SUBSET S
    BY FS_Interval, FS_FiniteSubsetsOfFinite
<1>2. IsWellFoundedOn(StrictSubsetOrdering(S), SUBSET S)
    BY <1>1, FS_StrictSubsetOrderingWellFounded
<1>3. Below \subseteq SUBSET S /\ Below # {}
    <2>1. \A x \in T : a .. x \subseteq S
        OBVIOUS
    <2>. QED
        BY <2>1
<1>. HIDE DEF Below
<1>4. PICK m \in Below : \A n \in Below : ~ (<<n, m>> \in StrictSubsetOrdering(S))
    BY <1>2, <1>3, WFMin
<1>5. PICK x \in T : m = a .. x
    BY <1>4 DEF Below
<1>6. ASSUME NEW y \in T, y < x
      PROVE  FALSE
    <2>1. a .. y \in Below
        BY DEF Below
    <2>2. a .. y \subseteq m /\ a .. y # m
        BY <1>5, <1>6
    <2>. QED
        BY <1>3, <1>4, <2>1, <2>2 DEF StrictSubsetOrdering
<1>. QED
    BY <1>6

\* compareBlockHashes returns the first difference, if there is one.
LEMMA CompareFinds ==
    ASSUME NEW p, NEW q, NEW a \in Int, NEW b \in Int, DOMAIN p \subseteq a .. b
    PROVE  LET r == compareBlockHashes(p, q) IN
           IF Differ(p, q) = {} THEN r = None
           ELSE r \in Differ(p, q) /\ r # None /\ \A n \in Differ(p, q) : r <= n
<1> DEFINE D == Differ(p, q)
<1>1. D \subseteq a .. b
    BY DEF Differ
<1>2. D # {} => \E n \in D : \A m \in D : n <= m
    BY <1>1, LeastInteger
<1>3. D # {} => /\ (CHOOSE n \in D : \A m \in D : n <= m) \in D
                /\ \A m \in D : (CHOOSE n \in D : \A k \in D : n <= k) <= m
    BY <1>2
<1>. HIDE DEF D
<1>4. compareBlockHashes(p, q) = IF D = {} THEN None ELSE CHOOSE n \in D : \A m \in D : n <= m
    BY DEF compareBlockHashes, D
<1>5. \A n \in D : n # None
    BY <1>1, ChainAssumption
<1>. QED
    BY <1>3, <1>4, <1>5 DEF D

-----------------------------------------------------------------------------
(* fetchBlockHashes *)

Hash == [number : Int, fork : Int]
Hashes == UNION {[W -> Hash] : W \in SUBSET Int}
Fetching == [head : Nat, hashes : Hashes, since : Nat]
Fetch == [head : Nat, hashes : Hashes, quiet : BOOLEAN, now : Seq(Block)]

\* Blocks that multicall is asked for stay in sight of the contract.
StaysInSight == MaxGrown + Recent <= EvmWindow + 1

\* The hashes found below the head are those of the chain c.
Faithful(f, c) ==
    \A n \in DOMAIN f.hashes :
        0 <= n /\ n < f.head => f.hashes[n] = [number |-> n, fork |-> c[n + 1].fork]

\* A block of the later chain d that came with the same reorganisation as the one of c at
\* its place is that block.
SameBlocks(c, d) ==
    Len(c) <= Len(d) /\ \A i \in 1 .. Len(c) : c[i].fork = d[i].fork => c[i] = d[i]

FetchingSound ==
    /\ fetching \in Fetching
    /\ fetching.head <= Height /\ Height <= fetching.head + grown
    /\ fetching.since <= forks
    /\ DOMAIN fetching.hashes \subseteq Window(fetching.head)
    /\ fetching.since = forks => Faithful(fetching, chain)
    /\ Len(fetched) < 2 /\ \A i \in 1 .. Len(fetched) : fetched[i].head <= fetching.head

FetchedSound(f) ==
    /\ f.head < Len(f.now) /\ f.head <= Height
    /\ DOMAIN f.hashes = Window(f.head)
    /\ f.quiet => Faithful(f, f.now)
    /\ SameBlocks(f.now, chain)
    /\ \A i \in 1 .. Len(f.now) : f.now[i].fork <= forks

Ordered ==
    Len(fetched) = 2 => /\ fetched[1].head <= fetched[2].head
                        /\ SameBlocks(fetched[1].now, fetched[2].now)

HashInv ==
    /\ knownBlock \in Nat /\ grown <= MaxGrown
    /\ fetched \in Seq(Fetch) /\ Len(fetched) <= 2
    /\ fetching # None => FetchingSound
    /\ \A i \in 1 .. Len(fetched) : FetchedSound(fetched[i])
    /\ Ordered

\* The window is an interval of integers.
LEMMA WindowType ==
    ASSUME knownBlock \in Nat, NEW head \in Nat
    PROVE  /\ Last(head) \in Int /\ Last(head) + 1 - Depth \in Int
           /\ Window(head) \subseteq Int
    BY BlockHashesAssumption DEF Last, Window

\* Nothing is fetched at first.
LEMMA InitHashes == Init => HashInv
<1> SUFFICES ASSUME Init PROVE HashInv
    OBVIOUS
<1>1. knownBlock \in Nat
    <2>1. knownBlock \in Knowns \cup {0}
        BY DEF Init, HashesInit
    <2>. QED
        BY <2>1, BlockHashesAssumption
<1>2. grown <= MaxGrown
    BY ChainAssumption DEF Init, ChainInit
<1>3. fetching = None /\ fetched = <<>>
    BY DEF Init, HashesInit
<1>. QED
    BY <1>1, <1>2, <1>3 DEF HashInv, Ordered

\* A changing chain keeps what was fetched below the head, or is not quiet.
LEMMA ChainKeepsHashes ==
    ASSUME ReadsInv, HashInv, ChainNext, UNCHANGED hashVars
    PROVE  HashInv'
<1>1. /\ ChainSound /\ forks \in Nat /\ grown \in Nat /\ Height \in Nat /\ Len(chain) = Height + 1
      /\ \A n \in 0 .. Height : BlockAt(n) \in Block /\ BlockAt(n).fork <= forks
    BY BlockType DEF ReadsInv, ChainSound
<1>2. /\ ChainSound' /\ grown' <= MaxGrown /\ grown' \in Nat
      /\ Height' - Height = grown' - grown /\ grown <= grown' /\ Height' \in Nat
      /\ Len(chain') = Height' + 1 /\ forks' \in Nat /\ forks' >= forks
      /\ forks' = forks => \A n \in 0 .. Height : BlockAt(n)' = BlockAt(n)
      /\ \A n \in 0 .. Height : BlockAt(n)' = BlockAt(n) \/ BlockAt(n)'.fork > forks
    <2>1. CASE NewBlock
        <3>1. grown' = grown + 1 /\ grown' <= MaxGrown
            BY <1>1, <2>1, ChainAssumption DEF NewBlock
        <3>2. /\ forks' = forks /\ Height' = Height + 1 /\ ChainSound'
              /\ \A n \in 0 .. Height : BlockAt(n)' = BlockAt(n)
            BY <1>1, <2>1, NewBlockSound
        <3>3. Len(chain') = Height' + 1
            BY <3>2 DEF Height, ChainSound
        <3>. QED
            BY <1>1, <3>1, <3>2, <3>3
    <2>2. CASE Reorg
        <3>1. grown' = grown
            BY <2>2 DEF Reorg
        <3>2. forks' = forks + 1 /\ Height' = Height /\ ChainSound'
            BY <1>1, <2>2, ReorgSound
        <3>3. \A n \in 0 .. Height : BlockAt(n)' = BlockAt(n) \/ BlockAt(n)'.fork > forks
            BY <1>1, <2>2, <3>2, ReorgSound
        <3>4. Len(chain') = Height' + 1
            BY <3>2 DEF Height, ChainSound
        <3>. QED
            BY <1>1, <3>1, <3>2, <3>3, <3>4 DEF HashInv
    <2>. QED
        BY <2>1, <2>2 DEF ChainNext
<1>3. UNCHANGED <<knownBlock, fetching, fetched>>
    BY DEF hashVars
<1>4. /\ {grown, grown', forks, forks', Height, Height'} \subseteq Nat
      /\ forks <= forks' /\ Height <= Height' /\ Height' + grown = Height + grown'
    BY <1>1, <1>2
<1>5. \A f : FetchedSound(f) /\ f \in Fetch => FetchedSound(f)'
    <2> SUFFICES ASSUME NEW f \in Fetch, FetchedSound(f) PROVE FetchedSound(f)'
        OBVIOUS
    <2>1. f.now \in Seq(Block) /\ Len(f.now) \in Nat /\ f.head \in Nat
        BY DEF Fetch
    <2>2. Len(f.now) <= Len(chain) /\ Len(f.now) <= Len(chain')
        BY <1>1, <1>2, <2>1 DEF FetchedSound, SameBlocks
    <2>3. ASSUME NEW i \in 1 .. Len(f.now)
          PROVE  (f.now[i].fork = chain'[i].fork => f.now[i] = chain'[i]) /\ f.now[i].fork <= forks'
        <3>1. f.now[i] \in Block /\ f.now[i].fork <= forks
            BY <2>1, ElementOfSeq DEF FetchedSound
        <3>2. i - 1 \in 0 .. Height /\ BlockAt(i - 1) = chain[i] /\ BlockAt(i - 1)' = chain'[i]
            BY <1>1, <2>1, <2>2 DEF BlockAt
        <3>3. chain'[i] = chain[i] \/ chain'[i].fork > forks
            BY <1>2, <3>2
        <3>4. f.now[i].fork = chain[i].fork => f.now[i] = chain[i]
            BY DEF FetchedSound, SameBlocks
        <3>5. f.now[i].fork \in Nat /\ f.now[i].fork <= forks
            BY <3>1 DEF Block
        <3>6. f.now[i].fork <= forks'
            BY <1>4, <3>5
        <3>7. chain'[i].fork > forks => f.now[i].fork # chain'[i].fork
            BY <1>4, <3>5
        <3>. QED
            BY <3>3, <3>4, <3>6, <3>7
    <2>4. SameBlocks(f.now, chain')
        BY <2>2, <2>3 DEF SameBlocks
    <2>5. Window(f.head)' = Window(f.head)
        BY <1>3 DEF Window, Last
    <2>6. f.head <= Height'
        BY <1>4, <2>1 DEF FetchedSound
    <2>. QED
        BY <2>3, <2>4, <2>5, <2>6 DEF FetchedSound
<1>6. fetching # None => FetchingSound'
    <2> SUFFICES ASSUME fetching # None PROVE FetchingSound'
        OBVIOUS
    <2>1. FetchingSound
        BY DEF HashInv
    <2>2. fetching \in Fetching /\ fetching.head \in Nat /\ fetching.since \in Nat
          /\ DOMAIN fetching.hashes \subseteq Int
        BY <2>1, WindowType DEF FetchingSound, Fetching, HashInv
    <2>3. ASSUME fetching.since = forks' PROVE Faithful(fetching, chain')
        <3>1. fetching.since = forks /\ forks' = forks
            BY <1>1, <1>2, <2>1, <2>2, <2>3 DEF FetchingSound
        <3>2. Faithful(fetching, chain)
            BY <2>1, <3>1 DEF FetchingSound
        <3>3. ASSUME NEW n \in DOMAIN fetching.hashes, 0 <= n, n < fetching.head
              PROVE  chain'[n + 1] = chain[n + 1]
            <4>1. n \in 0 .. Height
                BY <1>1, <2>1, <2>2, <3>3 DEF FetchingSound
            <4>. QED
                BY <1>2, <3>1, <4>1 DEF BlockAt
        <3>. QED
            BY <3>2, <3>3 DEF Faithful
    <2>4. Window(fetching.head)' = Window(fetching.head)
        BY <1>3 DEF Window, Last
    <2>5. fetching.head <= Height' /\ Height' <= fetching.head + grown' /\ fetching.since <= forks'
        <3>1. fetching.head <= Height /\ Height <= fetching.head + grown /\ fetching.since <= forks
            BY <2>1 DEF FetchingSound
        <3>. QED
            BY <1>4, <2>2, <3>1
    <2>. QED
        BY <1>3, <2>1, <2>3, <2>4, <2>5 DEF FetchingSound
<1>7. \A i \in 1 .. Len(fetched) : fetched[i] \in Fetch
    BY ElementOfSeq DEF HashInv
<1>8. Ordered'
    BY <1>3 DEF HashInv, Ordered
<1>. QED
    BY <1>2, <1>3, <1>5, <1>6, <1>7, <1>8 DEF HashInv

\* The head is read when nothing has been found yet.
LEMMA ReadHeadKeeps ==
    ASSUME ReadsInv, HashInv, ReadHead
    PROVE  HashInv'
<1>1. UNCHANGED <<chain, grown, forks, knownBlock, fetched>>
    BY DEF ReadHead, chainVars
<1>2. Height \in Nat /\ forks \in Nat /\ grown \in Nat
    BY BlockType DEF ReadsInv, ChainSound
<1> DEFINE f == [head |-> Height, hashes |-> NoHashes, since |-> forks]
<1>3. NoHashes \in Hashes /\ DOMAIN NoHashes = {}
    <2>1. NoHashes \in [{} -> Hash]
        BY DEF NoHashes
    <2>. QED
        BY <2>1 DEF Hashes
<1>4. fetching' = f /\ f \in Fetching
    BY <1>2, <1>3 DEF ReadHead, Fetching
<1>5. f.head = Height /\ f.since = forks /\ DOMAIN f.hashes = {}
    BY <1>3
<1>. HIDE DEF f
<1>6. \A i \in 1 .. Len(fetched) : fetched[i].head <= Height
    BY DEF HashInv, FetchedSound
<1>7. Height' = Height
    BY <1>1 DEF Height
<1>8. FetchingSound'
    BY <1>1, <1>2, <1>4, <1>5, <1>6, <1>7 DEF FetchingSound, Faithful, ReadHead
<1>9. (\A i \in 1 .. Len(fetched) : FetchedSound(fetched[i]))'
    BY <1>1, <1>7 DEF HashInv, FetchedSound, Window, Last
<1>. QED
    BY <1>1, <1>8, <1>9 DEF HashInv, Ordered

\* A hash that is found is that of the chain, if its block lies below the head: a
\* contract sees all the blocks it is asked for.
LEMMA FoundKeeps ==
    ASSUME StaysInSight, ReadsInv, HashInv, Running,
           NEW n \in Window(fetching.head), ByContract(n) \/ ByBlock(n)
    PROVE  HashInv'
<1>1. UNCHANGED <<chain, grown, forks, knownBlock, fetched>>
    BY DEF ByContract, ByBlock, Found, chainVars
<1>2. /\ Height \in Nat /\ forks \in Nat /\ grown \in Nat /\ knownBlock \in Nat
      /\ grown <= MaxGrown /\ MaxGrown \in Nat /\ Recent \in Nat /\ EvmWindow \in Nat
      /\ \A m \in 0 .. Height : BlockAt(m) \in Block
    BY BlockType, ChainAssumption, BlockHashesAssumption DEF ReadsInv, ChainSound, HashInv
<1>3. FetchingSound
    BY DEF HashInv, Running
<1>4. fetching \in Fetching /\ fetching.head \in Nat /\ fetching.head <= Height
      /\ Height <= fetching.head + grown /\ n \in Int
    BY <1>2, <1>3, WindowType DEF FetchingSound, Fetching
<1>5. \A m \in 0 .. Height : HashOf(m) \in Hash /\ HashOf(m) = [number |-> m, fork |-> chain[m + 1].fork]
    BY <1>2 DEF HashOf, Hash, Block, BlockAt
<1>6. PICK hash \in Hash : /\ Found(n, hash)
                           /\ 0 <= n /\ n < fetching.head => hash = HashOf(n)
    <2>1. CASE ByContract(n)
        <3>1. 0 <= n /\ n + Recent > fetching.head /\ Found(n, HashByContract(n))
            BY <1>2, <1>4, <2>1 DEF ByContract, OutsideState
        <3>2. HashByContract(n) \in Hash
            BY <1>2, <1>4, <1>5, <3>1 DEF HashByContract, Zero, Hash
        <3>3. n < fetching.head => n < Height /\ n >= Height - EvmWindow
            BY <1>2, <1>4, <3>1 DEF StaysInSight
        <3>. QED
            BY <3>1, <3>2, <3>3 DEF HashByContract
    <2>2. CASE ByBlock(n)
        <3>1. NumberMeant(n) \in 0 .. Height /\ Found(n, HashOf(NumberMeant(n)))
            BY <2>2 DEF ByBlock
        <3>2. 0 <= n => NumberMeant(n) = n
            BY <1>4 DEF NumberMeant
        <3>. QED
            BY <1>5, <3>1, <3>2
    <2>. QED
        BY <2>1, <2>2
<1> DEFINE old == fetching.hashes
           new == [m \in DOMAIN old \cup {n} |-> IF m = n THEN hash ELSE old[m]]
<1>7. old \in Hashes /\ DOMAIN old \subseteq Window(fetching.head)
    BY <1>3, <1>4 DEF FetchingSound, Fetching
<1>8. new \in Hashes /\ DOMAIN new = DOMAIN old \cup {n}
    <2>1. PICK W \in SUBSET Int : old \in [W -> Hash]
        BY <1>7 DEF Hashes
    <2>2. new \in [W \cup {n} -> Hash]
        BY <2>1
    <2>3. W \cup {n} \in SUBSET Int
        BY <1>4
    <2>. HIDE DEF new
    <2>. QED
        BY <2>1, <2>2, <2>3 DEF Hashes
<1>9. new[n] = hash /\ \A m \in DOMAIN old : m # n => new[m] = old[m]
    OBVIOUS
<1>10. fetching' = [fetching EXCEPT !.hashes = new]
    BY <1>4, <1>6 DEF Found, Fetching
<1>. HIDE DEF old, new
<1>11. /\ fetching' \in Fetching /\ fetching'.head = fetching.head
       /\ fetching'.since = fetching.since /\ fetching'.hashes = new
    BY <1>4, <1>8, <1>10 DEF Fetching
<1>12. Height' = Height
    BY <1>1 DEF Height
<1>13. Window(fetching.head)' = Window(fetching.head)
    BY <1>1, <1>11 DEF Window, Last
<1>14. fetching.since = forks => Faithful(fetching', chain)
    <2> SUFFICES ASSUME fetching.since = forks,
                        NEW m \in DOMAIN new, 0 <= m, m < fetching.head
                 PROVE  new[m] = [number |-> m, fork |-> chain[m + 1].fork]
        BY <1>11 DEF Faithful
    <2>1. CASE m = n
        BY <1>2, <1>4, <1>5, <1>6, <1>9, <2>1
    <2>2. CASE m # n
        BY <1>3, <1>8, <1>9, <2>2 DEF FetchingSound, Faithful, old
    <2>. QED
        BY <2>1, <2>2
<1>15. FetchingSound'
    BY <1>1, <1>3, <1>7, <1>8, <1>11, <1>12, <1>13, <1>14 DEF FetchingSound
<1>16. (\A i \in 1 .. Len(fetched) : FetchedSound(fetched[i]))'
    BY <1>1, <1>12 DEF HashInv, FetchedSound, Window, Last
<1>. QED
    BY <1>1, <1>15, <1>16 DEF HashInv, Ordered

\* Steps that touch neither the chain nor the fetches.
LEMMA HashesStay ==
    ASSUME HashInv, UNCHANGED <<chainVars, hashVars>>
    PROVE  HashInv'
<1>1. UNCHANGED <<chain, grown, forks, knownBlock, fetching, fetched>> /\ Height' = Height
    BY DEF chainVars, hashVars, Height
<1>2. (\A i \in 1 .. Len(fetched) : FetchedSound(fetched[i]))'
    BY <1>1 DEF HashInv, FetchedSound, Window, Last
<1>3. (fetching # None => FetchingSound)'
    BY <1>1 DEF HashInv, FetchingSound, Window, Last
<1>. QED
    BY <1>1, <1>2, <1>3 DEF HashInv, Ordered

\* A failed fetch leaves nothing.
LEMMA FetchFailsKeeps ==
    ASSUME HashInv, FetchFails
    PROVE  HashInv'
<1>1. UNCHANGED <<chain, grown, forks, knownBlock, fetched>> /\ fetching' = None /\ Height' = Height
    BY DEF FetchFails, chainVars, Height
<1>2. (\A i \in 1 .. Len(fetched) : FetchedSound(fetched[i]))'
    BY <1>1 DEF HashInv, FetchedSound, Window, Last
<1>. QED
    BY <1>1, <1>2 DEF HashInv, Ordered

\* What a fetch returns was true of the chain as it is then.
LEMMA FetchReturnsKeeps ==
    ASSUME ReadsInv, HashInv, FetchReturns
    PROVE  HashInv'
<1>1. UNCHANGED <<chain, grown, forks, knownBlock>> /\ fetching' = None
    BY DEF FetchReturns, chainVars
<1>2. FetchingSound /\ DOMAIN fetching.hashes = Window(fetching.head)
    BY DEF HashInv, FetchReturns, Running
<1>3. /\ fetching \in Fetching /\ fetching.head \in Nat /\ fetching.head <= Height
      /\ Height \in Nat /\ Len(chain) = Height + 1 /\ chain \in Seq(Block) /\ forks \in Nat
    BY <1>2, BlockType DEF FetchingSound, Fetching, ReadsInv, ChainSound, Block
<1> DEFINE e == [head |-> fetching.head, hashes |-> fetching.hashes,
                 quiet |-> fetching.since = forks, now |-> chain]
<1>4. e \in Fetch
    BY <1>3 DEF Fetch, Fetching
<1>5. /\ e.head = fetching.head /\ e.hashes = fetching.hashes /\ e.now = chain
      /\ e.quiet => fetching.since = forks
    OBVIOUS
<1>6. fetched' = Append(fetched, e)
    BY DEF FetchReturns
<1>. HIDE DEF e
<1>7. fetched \in Seq(Fetch) /\ Len(fetched) \in Nat /\ Len(fetched) < 2
    BY <1>2 DEF HashInv, FetchingSound
<1>8. /\ fetched' \in Seq(Fetch) /\ Len(fetched') = Len(fetched) + 1
      /\ fetched'[Len(fetched) + 1] = e
      /\ \A i \in 1 .. Len(fetched) : fetched'[i] = fetched[i]
    BY <1>4, <1>6, <1>7, AppendProperties
<1>9. Height' = Height
    BY <1>1 DEF Height
<1>10. FetchedSound(e)
    <2>1. SameBlocks(e.now, chain)
        BY <1>3, <1>5 DEF SameBlocks
    <2>2. \A i \in 1 .. Len(e.now) : e.now[i].fork <= forks
        BY <1>5 DEF ReadsInv, ChainSound
    <2>3. e.quiet => Faithful(e, e.now)
        BY <1>2, <1>5 DEF FetchingSound, Faithful
    <2>. QED
        BY <1>2, <1>3, <1>5, <2>1, <2>2, <2>3 DEF FetchedSound
<1>11. (\A i \in 1 .. Len(fetched) : FetchedSound(fetched[i]))'
    <2> SUFFICES ASSUME NEW i \in 1 .. Len(fetched') PROVE FetchedSound(fetched[i])'
        OBVIOUS
    <2>1. FetchedSound(fetched'[i])
        <3>1. i \in 1 .. Len(fetched) \/ i = Len(fetched) + 1
            BY <1>7, <1>8
        <3>. QED
            BY <1>8, <1>10, <3>1 DEF HashInv
    <2>. QED
        BY <1>1, <1>9, <2>1 DEF FetchedSound, Window, Last
<1>12. Ordered'
    <2> SUFFICES ASSUME Len(fetched') = 2
                 PROVE  /\ fetched'[1].head <= fetched'[2].head
                        /\ SameBlocks(fetched'[1].now, fetched'[2].now)
        BY DEF Ordered
    <2>1. Len(fetched) = 1
        BY <1>7, <1>8
    <2>2. fetched'[1] = fetched[1] /\ fetched'[2] = e
        BY <1>8, <2>1
    <2>3. fetched[1].head <= fetching.head /\ SameBlocks(fetched[1].now, chain)
        BY <1>2, <2>1 DEF HashInv, FetchingSound, FetchedSound
    <2>. QED
        BY <1>5, <2>2, <2>3
<1>. QED
    BY <1>1, <1>7, <1>8, <1>11, <1>12 DEF HashInv

\* The invariant of the fetches is inductive.
LEMMA NextHashes == StaysInSight /\ ReadsInv /\ HashInv /\ [Next]_vars => HashInv'
<1> SUFFICES ASSUME StaysInSight, ReadsInv, HashInv, [Next]_vars PROVE HashInv'
    OBVIOUS
<1>1. CASE ChainNext /\ UNCHANGED <<hashVars, proofVars>>
    BY <1>1, ChainKeepsHashes
<1>2. CASE HashesNext
    BY <1>2, ReadHeadKeeps, FoundKeeps, FetchFailsKeeps, FetchReturnsKeeps DEF HashesNext
<1>3. CASE UNCHANGED <<chainVars, hashVars>>
    BY <1>3, HashesStay
<1>4. ProofsNext => UNCHANGED chainVars
    BY DEF ProofsNext, ReadBlock, ReadTraces, TraceReturns, ReadNumber, ReadValue, ReadRoot, ReadProof,
           ReadFails, ProofReturns, Replied, Resolve
<1>. QED
    BY <1>1, <1>2, <1>3, <1>4 DEF Next, vars

\* The invariant holds in every behaviour.
LEMMA HashesAlways ==
    ASSUME StaysInSight
    PROVE  Spec => []HashInv
<1>1. ReadsInv /\ HashInv /\ [Next]_vars => HashInv'
    BY NextHashes
<1>. QED
    BY <1>1, InitHashes, ReadsAlways, PTL DEF Spec

\* What two quiet fetches found below both of their heads.
LEMMA FoundHashes ==
    ASSUME HashInv, Comparable
    PROVE  /\ fetched[1].head <= fetched[2].head
           /\ fetched[1].head \in Nat /\ fetched[2].head \in Nat
           /\ \A i \in {1, 2} : /\ DOMAIN fetched[i].hashes = Window(fetched[i].head)
                                /\ Faithful(fetched[i], fetched[i].now)
           /\ \A n \in Nat : n < fetched[1].head =>
                  (Replaced(n) <=> fetched[1].now[n + 1].fork # fetched[2].now[n + 1].fork)
<1>1. fetched \in Seq(Fetch) /\ Len(fetched) = 2 /\ fetched[1] \in Fetch /\ fetched[2] \in Fetch
    <2>1. fetched \in Seq(Fetch) /\ Len(fetched) = 2
        BY DEF HashInv, Comparable
    <2>. QED
        BY <2>1, ElementOfSeq
<1>2. FetchedSound(fetched[1]) /\ FetchedSound(fetched[2]) /\ Ordered
    BY <1>1 DEF HashInv
<1>3. /\ fetched[1].head \in Nat /\ fetched[2].head \in Nat
      /\ Len(fetched[1].now) \in Nat /\ fetched[1].head < Len(fetched[1].now)
    BY <1>1, <1>2 DEF Fetch, FetchedSound
<1>4. SameBlocks(fetched[1].now, fetched[2].now) /\ fetched[1].head <= fetched[2].head
    BY <1>1, <1>2 DEF Ordered
<1>5. ASSUME NEW n \in Nat, n < fetched[1].head
      PROVE  Replaced(n) <=> fetched[1].now[n + 1].fork # fetched[2].now[n + 1].fork
    <2>1. n + 1 \in 1 .. Len(fetched[1].now)
        BY <1>3, <1>5
    <2>. QED
        BY <1>4, <2>1 DEF SameBlocks, Replaced
<1>6. \A i \in {1, 2} : /\ DOMAIN fetched[i].hashes = Window(fetched[i].head)
                        /\ Faithful(fetched[i], fetched[i].now)
    BY <1>2 DEF FetchedSound, Comparable
<1>. QED
    BY <1>3, <1>4, <1>5, <1>6

\* The comparison of two fetches, whose window is an interval.
LEMMA ReorgedFound ==
    ASSUME HashInv, Comparable
    PROVE  LET D == Differ(fetched[1].hashes, fetched[2].hashes) IN
           /\ D \subseteq Int
           /\ IF D = {} THEN Reorged = None
              ELSE Reorged \in D /\ Reorged # None /\ \A n \in D : Reorged <= n
<1>1. fetched[1].head \in Nat /\ DOMAIN fetched[1].hashes = Window(fetched[1].head)
      /\ knownBlock \in Nat
    BY FoundHashes DEF HashInv
<1>2. /\ Last(fetched[1].head) \in Int /\ Last(fetched[1].head) + 1 - Depth \in Int
      /\ Window(fetched[1].head) \subseteq Int
    BY <1>1, WindowType
<1>3. DOMAIN fetched[1].hashes \subseteq Last(fetched[1].head) + 1 - Depth .. Last(fetched[1].head)
    BY <1>1 DEF Window
<1>. QED
    BY <1>1, <1>2, <1>3, CompareFinds DEF Reorged, Differ

\* A reorganisation between two fetches is reported, at or before the first block that was
\* replaced, for windows of any depth: as long as the contract sees what it is asked for.
THEOREM ReorgsAreReported ==
    ASSUME StaysInSight
    PROVE  Spec => []ReorgIsReported
<1>1. ASSUME HashInv, Comparable,
             NEW n \in Window(fetched[1].head) \cap Window(fetched[2].head),
             0 <= n, n < fetched[1].head, n < fetched[2].head, Replaced(n)
      PROVE  Reorged # None /\ Reorged <= n
    <2>1. fetched[1].head \in Nat /\ knownBlock \in Nat
        BY <1>1, FoundHashes DEF HashInv
    <2>2. n \in Nat
        BY <1>1, <2>1, WindowType
    <2>3. /\ n \in DOMAIN fetched[1].hashes /\ n \in DOMAIN fetched[2].hashes
          /\ fetched[1].hashes[n] = [number |-> n, fork |-> fetched[1].now[n + 1].fork]
          /\ fetched[2].hashes[n] = [number |-> n, fork |-> fetched[2].now[n + 1].fork]
        BY <1>1, FoundHashes DEF Faithful
    <2>4. fetched[1].now[n + 1].fork # fetched[2].now[n + 1].fork
        BY <1>1, <2>2, FoundHashes
    <2>5. n \in Differ(fetched[1].hashes, fetched[2].hashes)
        BY <2>3, <2>4 DEF Differ
    <2>. QED
        BY <1>1, <2>5, ReorgedFound
<1>2. HashInv => ReorgIsReported
    BY <1>1 DEF ReorgIsReported
<1>. QED
    BY <1>2, HashesAlways, PTL

\* What is reported below the head of the earlier fetch was replaced.
THEOREM AlarmsAreTrue ==
    ASSUME StaysInSight
    PROVE  Spec => []NoFalseAlarm
<1>1. ASSUME HashInv, Comparable, Reorged # None, 0 <= Reorged, Reorged < fetched[1].head
      PROVE  Replaced(Reorged)
    <2> DEFINE n == Reorged
    <2>1. n \in Differ(fetched[1].hashes, fetched[2].hashes) /\ n \in Int
        BY <1>1, ReorgedFound
    <2>. HIDE DEF n
    <2>2. n \in Nat /\ n < fetched[1].head /\ n < fetched[2].head
        BY <1>1, <2>1, FoundHashes DEF n
    <2>3. /\ fetched[1].hashes[n] # fetched[2].hashes[n]
          /\ n \in DOMAIN fetched[1].hashes /\ n \in DOMAIN fetched[2].hashes
        BY <2>1 DEF Differ
    <2>4. /\ fetched[1].hashes[n] = [number |-> n, fork |-> fetched[1].now[n + 1].fork]
          /\ fetched[2].hashes[n] = [number |-> n, fork |-> fetched[2].now[n + 1].fork]
        BY <1>1, <2>2, <2>3, FoundHashes DEF Faithful
    <2>5. Replaced(n)
        BY <1>1, <2>2, <2>3, <2>4, FoundHashes
    <2>. QED
        BY <2>5 DEF n
<1>2. HashInv => NoFalseAlarm
    BY <1>1 DEF NoFalseAlarm
<1>. QED
    BY <1>2, HashesAlways, PTL
=============================================================================
