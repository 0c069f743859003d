-------------------------------- MODULE Utils --------------------------------
(***************************************************************************)
(* The arithmetic under the batch methods (utils.ts and the getEvents and  *)
(* findStorageKey methods of EthersBatcher): which block ranges a query is *)
(* cut into, how an array is cut into chunks, how many calls a rate limit  *)
(* allows per batch, and where the search for a storage slot ends; and the *)
(* search for the resolver of a name (EnsResolver.fromName, ens/eth.ts).   *)
(***************************************************************************)
EXTENDS Integers, FiniteSets, Sequences

CONSTANTS
    Blocks,     \* block numbers, or slot indexes, that calls may name
    Sizes,      \* batch sizes
    Rates,      \* values of ratePerSecond
    Delays,     \* values of delays, in milliseconds
    Names       \* names to resolve, as sequences of labels

ASSUME UtilsAssumption ==
    /\ Blocks \subseteq Nat
    /\ Sizes \subseteq Nat \ {0}
    /\ Rates \subseteq Nat \ {0}
    /\ Delays \subseteq Nat
    /\ Names \subseteq Seq(STRING)

Min2(a, b) == IF a < b THEN a ELSE b
Max2(a, b) == IF a < b THEN b ELSE a
ReverseOf(s) == [k \in 1 .. Len(s) |-> s[Len(s) + 1 - k]]
ElementsOf(s) == {s[k] : k \in 1 .. Len(s)}

\* No array is returned: the call throws.
Thrown == <<>>

-----------------------------------------------------------------------------
(* createBlockTags *)

\* Mutant: the ranges overlap by one block.
RangeEndLate(i, batchSize, toBlock) == Min2(i + batchSize, toBlock)

\* The last block of the range that begins at i.
RangeEnd(i, batchSize, toBlock) == Min2(i + batchSize - 1, toBlock)

\* Mutant: the loop stops before toBlock.
StepsShort(fromBlock, toBlock, batchSize) == ((toBlock - fromBlock - 1) \div batchSize) + 1

\* i < toBlock + 1
Steps(fromBlock, toBlock, batchSize) == ((toBlock - fromBlock) \div batchSize) + 1

\* The loop runs over i = fromBlock, fromBlock + batchSize, ... up to toBlock.
Stepped(fromBlock, toBlock, batchSize) ==
    [k \in 1 .. Steps(fromBlock, toBlock, batchSize) |->
        LET i == fromBlock + (k - 1) * batchSize
        IN  [fromBlock |-> i, toBlock |-> RangeEnd(i, batchSize, toBlock)]]

createBlockTags(fromBlock, toBlock, batchSize, reverse) ==
    IF toBlock < fromBlock THEN Thrown
    ELSE LET batches == IF toBlock - fromBlock > batchSize
                        THEN Stepped(fromBlock, toBlock, batchSize)
                        ELSE <<[fromBlock |-> fromBlock, toBlock |-> toBlock]>>
         IN  IF reverse THEN ReverseOf(batches) ELSE batches

\* No toBlock is given.
Absent == -1

\* getEvents: if (!toBlock), which block 0 is taken for as well, up to the latest block.
EventTags(fromBlock, toBlock, latest, eventRange, reverse) ==
    createBlockTags(fromBlock, IF toBlock \in {Absent, 0} THEN latest ELSE toBlock,
                    eventRange, reverse)

-----------------------------------------------------------------------------
(* chunk and range *)

\* Mutant: every chunk but the first starts one element late.
SliceStartLate(i, size) == size * i + (IF i > 0 THEN 1 ELSE 0)

SliceStart(i, size) == size * i

chunk(arr, size) ==
    [k \in 1 .. ((Len(arr) + size - 1) \div size) |->
        SubSeq(arr, SliceStart(k - 1, size) + 1, Min2(SliceStart(k - 1, size) + size, Len(arr)))]

\* Array(Math.ceil((stop - start) / step) + 1), as every caller has it: with step 1.
range(start, stop) == [k \in 1 .. stop - start + 1 |-> start + k - 1]

-----------------------------------------------------------------------------
(* createBatchRateConfig.  ratePerBatch is ratePerSecond * _delays / 1000; the
   model keeps its product with 1000, so that it stays an integer. *)

\* Mutant: the remainder is used up.
PerBatchUp(ratePerBatch1000, batch) == (ratePerBatch1000 + 1000 * batch - 1) \div (1000 * batch)

\* Math.floor(ratePerBatch / batch)
PerBatch(ratePerBatch1000, batch) == ratePerBatch1000 \div (1000 * batch)

BatchLength(delays) == Max2(delays, 1000)

createBatchRateConfig(ratePerSecond, maxBatch, delays) ==
    LET ratePerBatch1000 == ratePerSecond * BatchLength(delays)
        safeBatch == Max2(Min2(maxBatch, ratePerBatch1000 \div 1000), 1)
    IN  [concurrency |-> Max2(1, PerBatch(ratePerBatch1000, safeBatch)),
         batchSize |-> safeBatch, delays |-> delays]

-----------------------------------------------------------------------------
(* findStorageKey, over a storage whose non-zero slots are the set nonZero. *)

\* Mutant: the last hit of a batch wins.
FirstHitLast(tag, nonZero) ==
    CHOOSE i \in nonZero : /\ i \in tag.fromBlock .. tag.toBlock
                           /\ \A j \in nonZero : j \in tag.fromBlock .. tag.toBlock => j <= i

\* storages.findIndex: the first non-zero slot of a batch.
FirstHit(tag, nonZero) ==
    CHOOSE i \in nonZero : /\ i \in tag.fromBlock .. tag.toBlock
                           /\ \A j \in nonZero : j \in tag.fromBlock .. tag.toBlock => i <= j

findStorageKey(fromIndex, toIndex, callsPerBatch, reverse, nonZero) ==
    LET tags == createBlockTags(fromIndex, toIndex, callsPerBatch, reverse)
        hits == {k \in 1 .. Len(tags) :
                    nonZero \cap ElementsOf(range(tags[k].fromBlock, tags[k].toBlock)) # {}}
    IN  IF hits = {} THEN {}
        ELSE {FirstHit(tags[CHOOSE k \in hits : \A m \in hits : k <= m], nonZero)}

-----------------------------------------------------------------------------
(* EnsResolver.fromName.  A registry gives resolvers to the names in has, those in
   wildcard (EIP-2544) also answer for their subnames; on the chains of
   ensStaticResolvers one resolver answers for every name. *)

\* Mutant: a legacy resolver above the name is passed over.
EndsAtUsable(node, name, has, wildcard) == node \in has /\ (node = name \/ node \in wildcard)

\* #getResolver(node) is not null.
EndsAt(node, name, has, wildcard) == node \in has

fromName(name, has, wildcard, static) ==
    LET node(i) == SubSeq(name, i, Len(name))
        walk[i \in 1 .. Len(name) + 1] ==
            IF i > Len(name) \/ (i > 1 /\ node(i) = <<"eth">>) THEN {}
            ELSE IF static \/ EndsAt(node(i), name, has, wildcard)
                 THEN IF i > 1 /\ node(i) \notin wildcard THEN {} ELSE {node(i)}
                 ELSE walk[i + 1]
    IN  walk[1]

-----------------------------------------------------------------------------
(* The calls a program may make, one at a time: the last call and its result. *)

VARIABLES op, args, returned

vars == <<op, args, returned>>

Init == op = "none" /\ args = <<>> /\ returned = <<>>

CreateBlockTags ==
    \E f \in Blocks, t \in Blocks, s \in Sizes, r \in BOOLEAN :
        /\ op' = "createBlockTags"
        /\ args' = <<f, t, s, r>>
        /\ returned' = createBlockTags(f, t, s, r)

GetEvents ==
    \E f \in Blocks, t \in Blocks \cup {Absent}, latest \in Blocks, s \in Sizes, r \in BOOLEAN :
        /\ op' = "getEvents"
        /\ args' = <<f, t, latest, s, r>>
        /\ returned' = EventTags(f, t, latest, s, r)

Chunk ==
    \E n \in Blocks, s \in Sizes :
        /\ op' = "chunk"
        /\ args' = <<n, s>>
        /\ returned' = chunk(range(1, n), s)

RateConfig ==
    \E rate \in Rates, s \in Sizes, d \in Delays :
        /\ op' = "createBatchRateConfig"
        /\ args' = <<rate, s, d>>
        /\ returned' = createBatchRateConfig(rate, s, d)

FindStorageKey ==
    \E f \in Blocks, t \in Blocks, s \in Sizes, r \in BOOLEAN, nonZero \in SUBSET Blocks :
        /\ f <= t
        /\ op' = "findStorageKey"
        /\ args' = <<f, t, s, r, nonZero>>
        /\ returned' = findStorageKey(f, t, s, r, nonZero)

FromName ==
    \E name \in Names, has \in SUBSET Names, static \in BOOLEAN : \E wildcard \in SUBSET has :
        /\ op' = "fromName"
        /\ args' = <<name, has, wildcard, static>>
        /\ returned' = fromName(name, has, wildcard, static)

Next ==
    /\ op = "none"
    /\ CreateBlockTags \/ GetEvents \/ Chunk \/ RateConfig \/ FindStorageKey \/ FromName

Spec == Init /\ [][Next]_vars

-----------------------------------------------------------------------------
(* Properties *)

BlocksOf(tag) == tag.fromBlock .. tag.toBlock

Partition(tags, from, to, size, reverse) ==
    IF to < from THEN tags = Thrown
    ELSE /\ UNION {BlocksOf(tag) : tag \in ElementsOf(tags)} = from .. to
         /\ to - from # size => \A tag \in ElementsOf(tags) : Cardinality(BlocksOf(tag)) <= size
         /\ \A k \in 1 .. Len(tags) - 1 :
               IF reverse THEN tags[k].fromBlock = tags[k + 1].toBlock + 1
                          ELSE tags[k + 1].fromBlock = tags[k].toBlock + 1

\* The ranges of a query cover its blocks without gap or overlap, in ascending order
\* or, reversed, in descending order: every event is fetched once and only once.  No
\* range holds more than batchSize blocks; nothing is claimed of the size for a query of
\* batchSize + 1 blocks, which the code leaves in one piece against its documentation
\* (utils.ts, line 61).  getEvents goes up to the block it is told, or the latest if it is
\* told none; nothing is claimed for block 0, which the code takes for none.
RangesPartition ==
    /\ op = "createBlockTags" => Partition(returned, args[1], args[2], args[3], args[4])
    /\ op = "getEvents" /\ args[2] # 0 =>
          Partition(returned, args[1], IF args[2] = Absent THEN args[3] ELSE args[2],
                    args[4], args[5])

\* The chunks hold every element once, in order, and none is empty or too long.
ChunksPartition ==
    op = "chunk" =>
        /\ \A k \in 1 .. Len(returned) : Len(returned[k]) \in 1 .. args[2]
        /\ \A i \in 1 .. args[1] :
              LET k == ((i - 1) \div args[2]) + 1
              IN  returned[k][i - (k - 1) * args[2]] = i
        /\ Len(returned) * args[2] < args[1] + args[2]

\* A batch never exceeds what the limit allows for its duration, and neither the
\* concurrency nor the batch size could be larger by one.
RateIsTight ==
    op = "createBatchRateConfig" =>
        LET budget == args[1] * BatchLength(args[3])
            c == returned.concurrency
            b == returned.batchSize
        IN  /\ 1000 * c * b <= budget
            /\ 1000 * (c + 1) * b > budget
            /\ b = args[2] \/ 1000 * c * (b + 1) > budget

\* findStorageKey finds a slot exactly when the interval holds one, and, unless it
\* searches in reverse, the first one.
FindsFirst ==
    op = "findStorageKey" =>
        LET hits == args[5] \cap (args[1] .. args[2]) IN
        /\ returned \subseteq hits
        /\ hits # {} => \E i \in returned : ~args[4] => \A j \in hits : i <= j

\* A name is resolved by its own resolver or by the nearest one above it, and then only
\* if that one is made for subnames: never by one further up.  The resolver of "eth"
\* answers for no other name.
NearestResolver ==
    op = "fromName" /\ ~args[4] =>
        LET name == args[1]
            above == {SubSeq(name, i, Len(name)) : i \in 1 .. Len(name)} \cap args[2]
            near == above \ (IF name = <<"eth">> THEN {} ELSE {<<"eth">>})
            nearest == {n \in near : \A m \in near : Len(m) <= Len(n)}
        IN  returned = nearest \cap ({name} \cup args[3])
=============================================================================
