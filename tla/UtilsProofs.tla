---------------------------- MODULE UtilsProofs ----------------------------
(***************************************************************************)
(* The arithmetic of utils.ts, for any block numbers, sizes, rates and     *)
(* delays: ranges partition an interval and chunks an array, rates are     *)
(* kept and used up, and the search for a storage slot ends at the first;  *)
(* and a name of any length is resolved by the nearest name above it.      *)
(***************************************************************************)
EXTENDS Utils, FiniteSetTheorems, SequenceTheorems, WellFoundedInduction, TLAPS

-----------------------------------------------------------------------------
(* Numbers *)

\* What a quotient is.
LEMMA Quotient ==
    ASSUME NEW a \in Nat, NEW b \in Nat \ {0}
    PROVE  /\ a \div b \in Nat
           /\ (a \div b) * b <= a
           /\ a < (a \div b) * b + b
OBVIOUS

\* Multiples keep the order of their factors.
LEMMA Multiples ==
    ASSUME NEW a \in Int, NEW b \in Int, NEW s \in Nat \ {0}
    PROVE  /\ a * s \in Int /\ b * s \in Int
           /\ a < b => a * s + s <= b * s
           /\ a <= b => a * s <= b * s
           /\ a * s < b * s => a < b
           /\ (a - 1) * s = a * s - s
OBVIOUS

\* Function constructors over 1 .. n are sequences of length n.
LEMMA Length ==
    ASSUME NEW S, NEW n \in Nat, NEW f \in [1 .. n -> S]
    PROVE  f \in Seq(S) /\ Len(f) = n
OBVIOUS

LEMMA OneElement ==
    ASSUME NEW S, NEW x \in S
    PROVE  <<x>> \in Seq(S)
OBVIOUS

-----------------------------------------------------------------------------
(* createBlockTags *)

Tag == [fromBlock : Int, toBlock : Int]

\* The tags are ranges of blocks from f to t, none of them of more than s blocks (unless
\* there are s + 1 in all), and
\* each block is in one of them.
Pieces(tags, f, t, s) ==
    /\ tags \in Seq(Tag)
    /\ \A k \in 1 .. Len(tags) :
           /\ f <= tags[k].fromBlock /\ tags[k].toBlock <= t
           /\ tags[k].fromBlock <= tags[k].toBlock
           /\ t - f # s => tags[k].toBlock - tags[k].fromBlock < s
    /\ \A x \in f .. t : \E k \in 1 .. Len(tags) : x \in BlocksOf(tags[k])

\* They ascend, and each begins where the one before it ends.
Ascending(tags) ==
    /\ \A k \in 1 .. Len(tags) - 1 : tags[k + 1].fromBlock = tags[k].toBlock + 1
    /\ \A k, m \in 1 .. Len(tags) : k < m => tags[k].toBlock < tags[m].fromBlock

\* Or they descend.
Descending(tags) ==
    \A k \in 1 .. Len(tags) - 1 : tags[k].fromBlock = tags[k + 1].toBlock + 1

\* The loop of createBlockTags.
LEMMA SteppedPieces ==
    ASSUME NEW f \in Nat, NEW t \in Nat, NEW s \in Nat \ {0}, f <= t
    PROVE  Pieces(Stepped(f, t, s), f, t, s) /\ Ascending(Stepped(f, t, s))
<1> DEFINE q == (t - f) \div s
           n == Steps(f, t, s)
           tags == Stepped(f, t, s)
<1>1. t - f \in Nat /\ q \in Nat /\ n = q + 1 /\ q * s <= t - f /\ t - f < q * s + s
    BY Quotient DEF Steps
<1>2. \A k \in 1 .. n : /\ tags[k].fromBlock = f + (k - 1) * s
                        /\ tags[k].toBlock = RangeEnd(f + (k - 1) * s, s, t)
    BY <1>1 DEF Stepped
<1>3. ASSUME NEW k \in 1 .. n
      PROVE  /\ (k - 1) * s \in Nat /\ k * s \in Int /\ (k - 1) * s = k * s - s
             /\ (k - 1) * s <= t - f
             /\ k < n => k * s <= t - f
             /\ k = n => t - f < k * s
    <2>1. k \in Int /\ 0 <= k - 1 /\ k - 1 <= q /\ k - 1 \in Int /\ q \in Int
        BY <1>1
    <2>2. 0 * s <= (k - 1) * s /\ (k - 1) * s <= q * s /\ (k - 1) * s \in Int
        BY <2>1, Multiples
    <2>3. (k - 1) * s = k * s - s /\ k * s \in Int
        BY <2>1, Multiples
    <2>4. k < n => k * s <= q * s
        BY <1>1, <2>1, Multiples
    <2>5. q * s \in Int /\ 0 * s = 0
        BY <1>1
    <2>6. k = n => k - 1 = q
        BY <1>1, <2>1
    <2>. QED
        BY <1>1, <2>2, <2>3, <2>4, <2>5, <2>6
<1>4. ASSUME NEW k \in 1 .. n
      PROVE  /\ tags[k].fromBlock = f + (k - 1) * s
             /\ k < n => tags[k].toBlock = f + k * s - 1
             /\ k = n => tags[k].toBlock = t
    BY <1>2, <1>3 DEF RangeEnd, Min2
<1>5. ASSUME NEW k \in 1 .. n
      PROVE  [fromBlock |-> f + (k - 1) * s, toBlock |-> RangeEnd(f + (k - 1) * s, s, t)] \in Tag
    BY <1>3 DEF Tag, RangeEnd, Min2
<1>6. tags \in [1 .. n -> Tag]
    BY <1>5 DEF Stepped
<1>7. tags \in Seq(Tag) /\ Len(tags) = n
    BY <1>1, <1>6, Length
<1>8. ASSUME NEW k \in 1 .. n
      PROVE  /\ f <= tags[k].fromBlock /\ tags[k].toBlock <= t
             /\ tags[k].fromBlock <= tags[k].toBlock
             /\ t - f # s => tags[k].toBlock - tags[k].fromBlock < s
    <2>1. CASE k = n
        BY <2>1, <1>3, <1>4
    <2>2. CASE k < n
        BY <2>2, <1>3, <1>4
    <2>. QED
        BY <1>1, <2>1, <2>2
<1>9. ASSUME NEW x \in f .. t
      PROVE  \E k \in 1 .. n : x \in BlocksOf(tags[k])
    <2> DEFINE k == ((x - f) \div s) + 1
    <2>1. x - f \in Nat /\ x - f <= t - f
        OBVIOUS
    <2>2. k - 1 \in Nat /\ (k - 1) * s <= x - f /\ x - f < (k - 1) * s + s
        BY <2>1, Quotient
    <2>3. (k - 1) * s < (q + 1) * s
        <3>1. (q + 1 - 1) * s = (q + 1) * s - s /\ (q + 1) * s \in Int /\ (k - 1) * s \in Int
            BY <1>1, <2>2, Multiples
        <3>2. q * s = (q + 1) * s - s /\ q * s \in Int
            BY <1>1, <3>1
        <3>. QED
            BY <1>1, <2>1, <2>2, <3>1, <3>2
    <2>4. k - 1 < q + 1
        BY <1>1, <2>2, <2>3, Multiples
    <2>5. k \in 1 .. n
        BY <1>1, <2>2, <2>4
    <2>6. x \in BlocksOf(tags[k])
        <3> HIDE DEF k, tags, n, q
        <3>1. x \in Int /\ f <= x /\ x <= t
            OBVIOUS
        <3>2. tags[k].fromBlock = f + (k - 1) * s /\ (k - 1) * s \in Nat /\ (k - 1) * s = k * s - s /\ k * s \in Int
            BY <2>5, <1>3, <1>4
        <3>3. tags[k].toBlock = f + k * s - 1 \/ tags[k].toBlock = t
            BY <1>1, <2>5, <1>4
        <3>. QED
            BY <2>2, <3>1, <3>2, <3>3 DEF BlocksOf
    <2>. QED
        BY <2>5, <2>6
<1>10. ASSUME NEW k \in 1 .. n - 1
       PROVE  tags[k + 1].fromBlock = tags[k].toBlock + 1
    <2>1. k \in 1 .. n /\ k < n /\ k + 1 \in 1 .. n /\ k + 1 - 1 = k
        BY <1>1
    <2>2. k * s \in Int
        BY <2>1, <1>3
    <2>. QED
        BY <2>1, <2>2, <1>4
<1>11. ASSUME NEW k \in 1 .. n, NEW m \in 1 .. n, k < m
       PROVE  tags[k].toBlock < tags[m].fromBlock
    <2>1. k < n /\ k \in Int /\ m - 1 \in Int /\ k <= m - 1
        BY <1>1, <1>11
    <2>2. k * s <= (m - 1) * s /\ k * s \in Int /\ (m - 1) * s \in Int
        BY <2>1, Multiples
    <2>. QED
        BY <2>1, <2>2, <1>4
<1>. HIDE DEF n, tags
<1>12. Pieces(tags, f, t, s)
    BY <1>7, <1>8, <1>9 DEF Pieces
<1>13. Ascending(tags)
    BY <1>7, <1>10, <1>11 DEF Ascending
<1>. QED
    BY <1>12, <1>13 DEF tags

\* Reversing keeps the ranges, and turns their order.
LEMMA ReversedPieces ==
    ASSUME NEW f, NEW t, NEW s, NEW tags, Pieces(tags, f, t, s), Ascending(tags)
    PROVE  /\ Pieces(ReverseOf(tags), f, t, s)
           /\ Descending(ReverseOf(tags))
<1> DEFINE n == Len(tags)
           back == ReverseOf(tags)
<1>1. tags \in Seq(Tag) /\ n \in Nat
    BY DEF Pieces
<1>2. \A k \in 1 .. n : n + 1 - k \in 1 .. n /\ tags[n + 1 - k] \in Tag /\ back[k] = tags[n + 1 - k]
    BY <1>1 DEF ReverseOf
<1>3. back \in [1 .. n -> Tag]
    BY <1>2 DEF ReverseOf
<1>4. back \in Seq(Tag) /\ Len(back) = n
    BY <1>1, <1>3, Length
<1>5. ASSUME NEW x \in f .. t
      PROVE  \E k \in 1 .. n : x \in BlocksOf(back[k])
    <2>1. PICK k \in 1 .. n : x \in BlocksOf(tags[k])
        BY DEF Pieces
    <2>2. n + 1 - k \in 1 .. n /\ n + 1 - (n + 1 - k) = k
        BY <1>1
    <2>. QED
        BY <2>1, <2>2, <1>2
<1>6. ASSUME NEW k \in 1 .. n - 1
      PROVE  back[k].fromBlock = back[k + 1].toBlock + 1
    <2>1. /\ k \in 1 .. n /\ k + 1 \in 1 .. n
          /\ n + 1 - (k + 1) = n - k /\ n + 1 - k = (n - k) + 1
          /\ n - k \in 1 .. n - 1
        BY <1>1
    <2>2. tags[(n - k) + 1].fromBlock = tags[n - k].toBlock + 1
        BY <2>1 DEF Ascending
    <2>3. back[k] = tags[n + 1 - k] /\ back[k + 1] = tags[n + 1 - (k + 1)]
        BY <2>1, <1>2
    <2>. QED
        BY <2>1, <2>2, <2>3
<1>7. Pieces(back, f, t, s)
    <2> HIDE DEF back
    <2>1. ASSUME NEW k \in 1 .. n
          PROVE  /\ f <= back[k].fromBlock /\ back[k].toBlock <= t
                 /\ back[k].fromBlock <= back[k].toBlock
                 /\ t - f # s => back[k].toBlock - back[k].fromBlock < s
        BY <1>2 DEF Pieces
    <2>. QED
        BY <1>4, <1>5, <2>1 DEF Pieces
<1>8. Descending(back)
    BY <1>4, <1>6 DEF Descending
<1>. QED
    BY <1>7, <1>8

\* The ranges createBlockTags returns.
LEMMA TagsFit ==
    ASSUME NEW f \in Nat, NEW t \in Nat, NEW s \in Nat \ {0}, NEW r \in BOOLEAN, f <= t
    PROVE  LET tags == createBlockTags(f, t, s, r) IN
           /\ Pieces(tags, f, t, s)
           /\ ~r => Ascending(tags)
           /\ r => Descending(tags)
<1> DEFINE whole == [fromBlock |-> f, toBlock |-> t]
           batches == IF t - f > s THEN Stepped(f, t, s) ELSE <<whole>>
<1>1. Pieces(batches, f, t, s) /\ Ascending(batches)
    <2>1. CASE t - f > s
        BY <2>1, SteppedPieces
    <2>2. CASE ~(t - f > s)
        <3>1. batches = <<whole>> /\ whole \in Tag /\ Len(batches) = 1 /\ batches[1] = whole
            BY <2>2 DEF Tag
        <3>2. batches \in Seq(Tag)
            BY <3>1, OneElement
        <3>3. Pieces(batches, f, t, s)
            <4> HIDE DEF batches
            <4>1. \A k \in 1 .. Len(batches) : k = 1
                BY <3>1
            <4>2. \A x \in f .. t : x \in BlocksOf(batches[1])
                BY <3>1 DEF BlocksOf
            <4>. QED
                BY <2>2, <3>1, <3>2, <4>1, <4>2 DEF Pieces
        <3>4. Ascending(batches)
            <4> HIDE DEF batches
            <4>. QED
                BY <3>1 DEF Ascending
        <3>. QED
            BY <3>3, <3>4
    <2>. QED
        BY <2>1, <2>2
<1>2. createBlockTags(f, t, s, r) = IF r THEN ReverseOf(batches) ELSE batches
    BY DEF createBlockTags
<1>. HIDE DEF batches
<1>3. CASE r
    BY <1>1, <1>2, <1>3, ReversedPieces
<1>4. CASE ~r
    BY <1>1, <1>2, <1>4
<1>. QED
    BY <1>3, <1>4

\* Pieces of an interval are all of it.
LEMMA PiecesCover ==
    ASSUME NEW f \in Nat, NEW t \in Nat, NEW s, NEW tags, Pieces(tags, f, t, s)
    PROVE  UNION {BlocksOf(tag) : tag \in ElementsOf(tags)} = f .. t
<1>1. ASSUME NEW x \in f .. t
      PROVE  x \in UNION {BlocksOf(tag) : tag \in ElementsOf(tags)}
    BY DEF Pieces, ElementsOf
<1>2. ASSUME NEW k \in 1 .. Len(tags), NEW x \in BlocksOf(tags[k])
      PROVE  x \in f .. t
    <2>1. tags[k] \in Tag
        BY DEF Pieces
    <2>2. f <= tags[k].fromBlock /\ tags[k].toBlock <= t
        BY DEF Pieces
    <2>. QED
        BY <2>1, <2>2 DEF BlocksOf, Tag
<1>. QED
    BY <1>1, <1>2 DEF ElementsOf

\* What createBlockTags returns partitions the interval.
LEMMA TagsPartition ==
    ASSUME NEW f \in Nat, NEW t \in Nat, NEW s \in Nat \ {0}, NEW r \in BOOLEAN
    PROVE  Partition(createBlockTags(f, t, s, r), f, t, s, r)
<1>1. CASE t < f
    BY <1>1 DEF Partition, createBlockTags
<1>2. CASE f <= t
    <2> DEFINE tags == createBlockTags(f, t, s, r)
    <2>1. /\ Pieces(tags, f, t, s)
          /\ ~r => Ascending(tags)
          /\ r => Descending(tags)
        BY <1>2, TagsFit
    <2>. HIDE DEF tags
    <2>2. UNION {BlocksOf(tag) : tag \in ElementsOf(tags)} = f .. t
        BY <2>1, PiecesCover
    <2>3. ASSUME NEW tag \in ElementsOf(tags)
          PROVE  t - f # s => Cardinality(BlocksOf(tag)) <= s
        <3>1. PICK k \in 1 .. Len(tags) : tag = tags[k]
            BY DEF ElementsOf
        <3>2. /\ tag.fromBlock \in Int /\ tag.toBlock \in Int
              /\ tag.fromBlock <= tag.toBlock /\ (t - f # s => tag.toBlock - tag.fromBlock < s)
            <4>1. tag \in Tag
                BY <2>1, <3>1 DEF Pieces
            <4>. QED
                BY <2>1, <3>1, <4>1 DEF Pieces, Tag
        <3>3. Cardinality(tag.fromBlock .. tag.toBlock)
                  = IF tag.fromBlock > tag.toBlock THEN 0 ELSE tag.toBlock - tag.fromBlock + 1
            BY <3>2, FS_Interval
        <3>. QED
            BY <3>2, <3>3 DEF BlocksOf
    <2>4. ASSUME NEW k \in 1 .. Len(tags) - 1
          PROVE  IF r THEN tags[k].fromBlock = tags[k + 1].toBlock + 1
                      ELSE tags[k + 1].fromBlock = tags[k].toBlock + 1
        BY <2>1 DEF Ascending, Descending
    <2>5. ~(t < f)
        BY <1>2
    <2>6. Partition(tags, f, t, s, r)
        BY <2>2, <2>3, <2>4, <2>5 DEF Partition
    <2>. QED
        BY <2>6 DEF tags
<1>. QED
    BY <1>1, <1>2

\* The ranges of a query, getEvents' included, cover its blocks without gap or overlap, in
\* either order, and none holds more than batchSize blocks: for all blocks and sizes but the
\* two cases RangesPartition leaves out, a query of batchSize + 1 blocks (nothing is shown of
\* the size of its range) and a toBlock of 0.
THEOREM RangesAreExact == Spec => []RangesPartition
<1>1. Init => RangesPartition
    BY DEF Init, RangesPartition
<1>2. ASSUME RangesPartition, [Next]_vars
      PROVE  RangesPartition'
    <2>1. CASE CreateBlockTags
        <3>1. PICK f \in Blocks, t \in Blocks, s \in Sizes, r \in BOOLEAN :
                  /\ op' = "createBlockTags"
                  /\ args' = <<f, t, s, r>> /\ returned' = createBlockTags(f, t, s, r)
            BY <2>1 DEF CreateBlockTags
        <3>2. Partition(createBlockTags(f, t, s, r), f, t, s, r)
            BY UtilsAssumption, TagsPartition
        <3>3. args'[1] = f /\ args'[2] = t /\ args'[3] = s /\ args'[4] = r
            BY <3>1
        <3>4. Partition(returned', args'[1], args'[2], args'[3], args'[4])
            BY <3>1, <3>2, <3>3
        <3>. QED
            BY <3>1, <3>4 DEF RangesPartition, Partition, BlocksOf, ElementsOf
    <2>2. CASE GetEvents
        <3>1. PICK f \in Blocks, t \in Blocks \cup {Absent}, latest \in Blocks, s \in Sizes,
                   r \in BOOLEAN :
                  /\ op' = "getEvents"
                  /\ args' = <<f, t, latest, s, r>> /\ returned' = EventTags(f, t, latest, s, r)
            BY <2>2 DEF GetEvents
        <3> DEFINE last == IF t = Absent THEN latest ELSE t
        <3>2. last \in Nat
            BY UtilsAssumption DEF Absent
        <3>3. t # 0 => returned' = createBlockTags(f, last, s, r)
            BY <3>1 DEF EventTags
        <3>4. /\ args'[1] = f /\ args'[2] = t /\ args'[4] = s /\ args'[5] = r
              /\ last = IF args'[2] = Absent THEN args'[3] ELSE args'[2]
            BY <3>1
        <3>. HIDE DEF last
        <3>5. Partition(createBlockTags(f, last, s, r), f, last, s, r)
            BY <3>2, UtilsAssumption, TagsPartition
        <3>6. t # 0 => Partition(returned', args'[1], last, args'[4], args'[5])
            BY <3>3, <3>4, <3>5
        <3>7. args'[2] # 0 =>
                  Partition(returned', args'[1], IF args'[2] = Absent THEN args'[3] ELSE args'[2],
                            args'[4], args'[5])
            BY <3>4, <3>6
        <3>. QED
            BY <3>1, <3>7 DEF RangesPartition, Partition, BlocksOf, ElementsOf
    <2>3. CASE Next /\ ~CreateBlockTags /\ ~GetEvents
        BY <2>3 DEF Next, RangesPartition, Chunk, RateConfig, FindStorageKey, FromName
    <2>4. CASE UNCHANGED vars
        <3>1. op' = op /\ args' = args /\ returned' = returned
            BY <2>4 DEF vars
        <3>. QED
            BY <1>2, <3>1 DEF RangesPartition
    <2>. QED
        BY <1>2, <2>1, <2>2, <2>3, <2>4
<1>. QED
    BY <1>1, <1>2, PTL DEF Spec

-----------------------------------------------------------------------------
(* chunk and range *)

LEMMA RangeValue ==
    ASSUME NEW a \in Int, NEW b \in Int, a <= b + 1
    PROVE  /\ range(a, b) \in Seq(Int) /\ Len(range(a, b)) = b - a + 1
           /\ \A k \in 1 .. b - a + 1 : range(a, b)[k] = a + k - 1
           /\ ElementsOf(range(a, b)) = a .. b
<1> DEFINE n == b - a + 1
<1>1. n \in Nat
    OBVIOUS
<1>2. range(a, b) = [k \in 1 .. n |-> a + k - 1]
    BY DEF range
<1>3. range(a, b) \in [1 .. n -> Int]
    BY <1>2
<1>4. range(a, b) \in Seq(Int) /\ Len(range(a, b)) = n
    BY <1>1, <1>3, Length
<1>5. \A k \in 1 .. n : range(a, b)[k] = a + k - 1
    BY <1>2
<1>6. ASSUME NEW x \in a .. b
      PROVE  \E k \in 1 .. n : range(a, b)[k] = x
    <2>1. x - a + 1 \in 1 .. n /\ a + (x - a + 1) - 1 = x
        OBVIOUS
    <2>. QED
        BY <2>1, <1>5
<1>7. ASSUME NEW k \in 1 .. n
      PROVE  range(a, b)[k] \in a .. b
    BY <1>5
<1>. QED
    BY <1>4, <1>5, <1>6, <1>7 DEF ElementsOf

\* An array is cut into chunks without loss, in order, none of them empty or too long.
THEOREM ChunksAreExact == Spec => []ChunksPartition
<1>1. Init => ChunksPartition
    BY DEF Init, ChunksPartition
<1>2. ASSUME ChunksPartition, [Next]_vars
      PROVE  ChunksPartition'
    <2>1. CASE Chunk
        <3>1. PICK n \in Blocks, s \in Sizes :
                  args' = <<n, s>> /\ returned' = chunk(range(1, n), s)
            BY <2>1 DEF Chunk
        <3> DEFINE arr == range(1, n)
                   last == (n + s - 1) \div s
                   stop(k) == Min2(SliceStart(k - 1, s) + s, n)
                   parts == chunk(arr, s)
        <3>2. n \in Nat /\ s \in Nat \ {0}
            BY UtilsAssumption
        <3>3. arr \in Seq(Int) /\ Len(arr) = n /\ \A i \in 1 .. n : arr[i] = i
            <4>1. 1 \in Int /\ n \in Int /\ 1 <= n + 1 /\ n - 1 + 1 = n /\ \A i \in 1 .. n : 1 + i - 1 = i
                BY <3>2
            <4>2. /\ range(1, n) \in Seq(Int) /\ Len(range(1, n)) = n - 1 + 1
                  /\ \A k \in 1 .. n - 1 + 1 : range(1, n)[k] = 1 + k - 1
                BY <4>1, RangeValue
            <4>. QED
                BY <4>1, <4>2
        <3>4. last \in Nat /\ last * s <= n + s - 1 /\ n <= last * s
            <4>1. n + s - 1 \in Nat
                BY <3>2
            <4>2. last \in Nat /\ last * s <= n + s - 1 /\ n + s - 1 < last * s + s /\ last * s \in Int
                BY <3>2, <4>1, Quotient
            <4>. QED
                BY <3>2, <4>2
        <3>5. parts = [k \in 1 .. last |-> SubSeq(arr, SliceStart(k - 1, s) + 1, stop(k))]
            BY <3>3 DEF chunk
        <3>. HIDE DEF arr, last, parts
        <3>6. ASSUME NEW k \in 1 .. last
              PROVE  /\ (k - 1) * s \in Nat /\ SliceStart(k - 1, s) = (k - 1) * s
                     /\ (k - 1) * s + 1 <= n
                     /\ stop(k) \in (k - 1) * s + 1 .. n
                     /\ stop(k) = Min2((k - 1) * s + s, n)
                     /\ stop(k) - (k - 1) * s \in 1 .. s
            <4>1. k \in Int /\ k - 1 \in Nat /\ k <= last
                BY <3>4
            <4>2. k * s <= last * s /\ k * s \in Int /\ last * s \in Int /\ (k - 1) * s = k * s - s
                BY <3>2, <3>4, <4>1, Multiples
            <4>3. 0 * s <= (k - 1) * s /\ (k - 1) * s \in Int /\ 0 * s = 0
                BY <3>2, <4>1, Multiples
            <4>4. SliceStart(k - 1, s) = (k - 1) * s
                BY <3>2, <4>1 DEF SliceStart
            <4>. QED
                BY <3>2, <3>4, <4>2, <4>3, <4>4 DEF Min2
        <3>7. ASSUME NEW k \in 1 .. last
              PROVE  LET part == SubSeq(arr, SliceStart(k - 1, s) + 1, stop(k)) IN
                     /\ part \in Seq(Int)
                     /\ Len(part) = stop(k) - (k - 1) * s
                     /\ \A j \in 1 .. stop(k) - (k - 1) * s : part[j] = (k - 1) * s + j
            <4> DEFINE a == (k - 1) * s
                       b == stop(k)
            <4>1. a \in Nat /\ b \in a + 1 .. n /\ SliceStart(k - 1, s) = a
                BY <3>6
            <4>. HIDE DEF a, b
            <4>2. SubSeq(arr, a + 1, b) = [j \in 1 .. b - a |-> arr[j + a]]
                BY <3>2, <3>3, <4>1
            <4>3. \A j \in 1 .. b - a : j + a \in 1 .. n /\ arr[j + a] = a + j /\ a + j \in Int
                BY <3>2, <3>3, <4>1
            <4>4. SubSeq(arr, a + 1, b) \in [1 .. b - a -> Int] /\ b - a \in Nat
                <5>1. b - a \in Nat
                    BY <3>2, <4>1
                <5>2. \A j \in 1 .. b - a : arr[j + a] \in Int
                    BY <4>3
                <5>. QED
                    BY <4>2, <5>1, <5>2
            <4>5. SubSeq(arr, a + 1, b) \in Seq(Int) /\ Len(SubSeq(arr, a + 1, b)) = b - a
                BY <4>4, Length
            <4>6. \A j \in 1 .. b - a : SubSeq(arr, a + 1, b)[j] = a + j
                BY <4>2, <4>3
            <4>. QED
                BY <4>1, <4>5, <4>6 DEF a, b
        <3>8. /\ Len(parts) = last
              /\ \A k \in 1 .. last :
                    /\ Len(parts[k]) = stop(k) - (k - 1) * s
                    /\ \A j \in 1 .. stop(k) - (k - 1) * s : parts[k][j] = (k - 1) * s + j
            <4>1. parts \in [1 .. last -> Seq(Int)]
                BY <3>5, <3>7
            <4>2. Len(parts) = last
                BY <3>4, <4>1, Length
            <4>. QED
                BY <3>5, <3>7, <4>2
        <3>9. ASSUME NEW i \in 1 .. n
              PROVE  LET k == ((i - 1) \div s) + 1 IN
                     parts[k][i - (k - 1) * s] = i
            <4> DEFINE q == (i - 1) \div s
                       k == q + 1
            <4>1. i - 1 \in Nat /\ i \in Int /\ i <= n
                BY <3>2
            <4>2. q \in Nat /\ q * s <= i - 1 /\ i - 1 < q * s + s /\ q * s \in Int
                BY <3>2, <4>1, Quotient
            <4>. HIDE DEF q
            <4>3. q * s < last * s
                BY <3>2, <3>4, <4>1, <4>2
            <4>4. q < last
                BY <3>2, <3>4, <4>2, <4>3, Multiples
            <4>5. k \in 1 .. last /\ k - 1 = q
                BY <3>4, <4>2, <4>4
            <4>6. stop(k) = Min2(q * s + s, n)
                BY <3>6, <4>5
            <4>7. i - q * s \in 1 .. stop(k) - q * s
                BY <3>2, <4>1, <4>2, <4>6 DEF Min2
            <4>8. parts[k][i - q * s] = q * s + (i - q * s)
                BY <3>8, <4>5, <4>7
            <4>. QED
                BY <4>1, <4>2, <4>5, <4>8 DEF q
        <3>10. last * s < n + s
            BY <3>2, <3>4
        <3>11. returned' = parts /\ args'[1] = n /\ args'[2] = s
            BY <3>1 DEF parts, arr
        <3>12. \A k \in 1 .. Len(parts) : Len(parts[k]) \in 1 .. s
            BY <3>6, <3>8
        <3>. QED
            BY <3>8, <3>9, <3>10, <3>11, <3>12 DEF ChunksPartition
    <2>2. CASE Next /\ ~Chunk
        BY <2>2 DEF Next, ChunksPartition, CreateBlockTags, GetEvents, RateConfig, FindStorageKey, FromName
    <2>3. CASE UNCHANGED vars
        BY <1>2, <2>3 DEF vars, ChunksPartition
    <2>. QED
        BY <1>2, <2>1, <2>2, <2>3
<1>. QED
    BY <1>1, <1>2, PTL DEF Spec

-----------------------------------------------------------------------------
(* createBatchRateConfig *)

\* A batch keeps within the rate for its duration and leaves no room for one more call:
\* for all rates, batch sizes and delays.
THEOREM RatesAreTight == Spec => []RateIsTight
<1>1. Init => RateIsTight
    BY DEF Init, RateIsTight
<1>2. ASSUME RateIsTight, [Next]_vars
      PROVE  RateIsTight'
    <2>1. CASE RateConfig
        <3>1. PICK rate \in Rates, m \in Sizes, d \in Delays :
                  args' = <<rate, m, d>> /\ returned' = createBatchRateConfig(rate, m, d)
            BY <2>1 DEF RateConfig
        <3> DEFINE budget == rate * BatchLength(d)
                   most == budget \div 1000
                   b == Max2(Min2(m, most), 1)
                   c == Max2(1, budget \div (1000 * b))
        <3>2. rate \in Nat \ {0} /\ m \in Nat \ {0} /\ BatchLength(d) \in Nat /\ BatchLength(d) >= 1000
            BY UtilsAssumption DEF BatchLength, Max2
        <3>3. budget \in Nat /\ budget >= 1000
            <4>1. \A x \in Nat \ {0}, y \in Nat : x * y \in Nat /\ x * y >= y
                OBVIOUS
            <4>. QED
                BY <3>2, <4>1
        <3>4. returned'.concurrency = c /\ returned'.batchSize = b
            BY <3>1 DEF createBatchRateConfig, PerBatch
        <3>5. args'[1] = rate /\ args'[2] = m /\ args'[3] = d
            BY <3>1
        <3>. HIDE DEF budget
        <3>6. most \in Nat /\ most * 1000 <= budget /\ budget < most * 1000 + 1000 /\ most >= 1
            BY <3>3
        <3>. HIDE DEF most
        <3>7. b \in Nat \ {0} /\ b <= most /\ (b = m \/ b = most)
            BY <3>2, <3>6 DEF Max2, Min2
        <3>. HIDE DEF b
        <3>8. c \in Nat \ {0} /\ c * (1000 * b) <= budget /\ budget < c * (1000 * b) + 1000 * b
            <4> DEFINE w == 1000 * b
                       q == budget \div w
            <4>1. w \in Nat \ {0} /\ w <= budget
                BY <3>3, <3>6, <3>7
            <4>. HIDE DEF w
            <4>2. q \in Nat /\ q * w <= budget /\ budget < q * w + w
                BY <3>3, <4>1, Quotient
            <4>. HIDE DEF q
            <4>3. q # 0
                <5>1. 0 * w = 0
                    BY <4>1
                <5>. QED
                    BY <3>3, <4>1, <4>2, <5>1
            <4>4. c = q
                BY <4>2, <4>3 DEF Max2, q, w
            <4>. QED
                BY <4>2, <4>3, <4>4 DEF w
        <3>. HIDE DEF c
        <3>9. /\ 1000 * c * b = c * (1000 * b)
              /\ 1000 * (c + 1) * b = c * (1000 * b) + 1000 * b
              /\ 1000 * c * (b + 1) >= 1000 * b + 1000
            <4>1. c * b \in Nat /\ c * b >= b
                BY <3>7, <3>8
            <4>. QED
                BY <3>7, <3>8, <4>1
        <3>10. /\ 1000 * c * b <= budget
               /\ 1000 * (c + 1) * b > budget
               /\ b = m \/ 1000 * c * (b + 1) > budget
            BY <3>3, <3>6, <3>7, <3>8, <3>9
        <3>11. budget = args'[1] * BatchLength(args'[3])
            BY <3>5 DEF budget
        <3>. QED
            BY <3>4, <3>5, <3>10, <3>11 DEF RateIsTight
    <2>2. CASE Next /\ ~RateConfig
        BY <2>2 DEF Next, RateIsTight, CreateBlockTags, GetEvents, Chunk, FindStorageKey, FromName
    <2>3. CASE UNCHANGED vars
        BY <1>2, <2>3 DEF vars, RateIsTight
    <2>. QED
        BY <1>2, <2>1, <2>2, <2>3
<1>. QED
    BY <1>1, <1>2, PTL DEF Spec

-----------------------------------------------------------------------------
(* findStorageKey *)

\* A set of numbers has a least one.
LEMMA LeastNumber ==
    ASSUME NEW T \in SUBSET Nat, T # {}
    PROVE  \E x \in T : \A y \in T : x <= y
<1> DEFINE below == OpToRel(<, Nat)
<1>1. IsWellFoundedOn(below, Nat)
    BY NatLessThanWellFounded
<1>2. PICK x \in T : \A y \in T : <<y, x>> \notin below
    BY <1>1, WFMin
<1>3. \A y \in T : ~(y < x)
    BY <1>2 DEF OpToRel
<1>. QED
    BY <1>3

\* The first non-zero slot of a batch that has one.
LEMMA FirstHitValue ==
    ASSUME NEW tag \in Tag, NEW nonZero \in SUBSET Nat, nonZero \cap BlocksOf(tag) # {}
    PROVE  /\ FirstHit(tag, nonZero) \in nonZero \cap BlocksOf(tag)
           /\ \A j \in nonZero \cap BlocksOf(tag) : FirstHit(tag, nonZero) <= j
<1> DEFINE T == nonZero \cap BlocksOf(tag)
           First(i) == /\ i \in tag.fromBlock .. tag.toBlock
                       /\ \A j \in nonZero : j \in tag.fromBlock .. tag.toBlock => i <= j
<1>1. PICK i \in T : \A j \in T : i <= j
    <2>1. T \in SUBSET Nat /\ T # {}
        OBVIOUS
    <2>. HIDE DEF T
    <2>. QED
        BY <2>1, LeastNumber
<1>2. \E k \in nonZero : First(k)
    BY <1>1 DEF BlocksOf
<1>3. FirstHit(tag, nonZero) = CHOOSE k \in nonZero : First(k)
    BY DEF FirstHit
<1>. HIDE DEF First
<1>4. FirstHit(tag, nonZero) \in nonZero /\ First(FirstHit(tag, nonZero))
    BY <1>2, <1>3
<1>. QED
    BY <1>4 DEF First, BlocksOf

\* The search ends in the interval at a non-zero slot if there is one, and forwards at the
\* first one.
LEMMA SearchEnds ==
    ASSUME NEW f \in Nat, NEW t \in Nat, NEW s \in Nat \ {0}, NEW r \in BOOLEAN, f <= t,
           NEW nonZero \in SUBSET Nat
    PROVE  LET found == findStorageKey(f, t, s, r, nonZero)
               there == nonZero \cap (f .. t)
           IN  /\ found \subseteq there
               /\ there # {} => \E i \in found : ~r => \A j \in there : i <= j
<1> DEFINE tags == createBlockTags(f, t, s, r)
           hits == {k \in 1 .. Len(tags) :
                       nonZero \cap ElementsOf(range(tags[k].fromBlock, tags[k].toBlock)) # {}}
           first == CHOOSE k \in hits : \A m \in hits : k <= m
           found == findStorageKey(f, t, s, r, nonZero)
           there == nonZero \cap (f .. t)
<1>1. Pieces(tags, f, t, s) /\ (~r => Ascending(tags))
    BY TagsFit
<1>2. found = IF hits = {} THEN {} ELSE {FirstHit(tags[first], nonZero)}
    BY DEF findStorageKey
<1>. HIDE DEF tags, found
<1>3. ASSUME NEW k \in 1 .. Len(tags)
      PROVE  /\ tags[k] \in Tag
             /\ ElementsOf(range(tags[k].fromBlock, tags[k].toBlock)) = BlocksOf(tags[k])
             /\ BlocksOf(tags[k]) \subseteq f .. t
    <2>1. tags[k] \in Tag
        BY <1>1 DEF Pieces
    <2>2. /\ f <= tags[k].fromBlock /\ tags[k].toBlock <= t /\ tags[k].fromBlock <= tags[k].toBlock + 1
          /\ tags[k].fromBlock \in Int /\ tags[k].toBlock \in Int
        BY <1>1, <2>1 DEF Pieces, Tag
    <2>3. ElementsOf(range(tags[k].fromBlock, tags[k].toBlock)) = tags[k].fromBlock .. tags[k].toBlock
        BY <2>2, RangeValue
    <2>4. tags[k].fromBlock .. tags[k].toBlock \subseteq f .. t
        BY <2>2
    <2>. QED
        BY <2>1, <2>2, <2>3, <2>4 DEF BlocksOf
<1>4. hits = {k \in 1 .. Len(tags) : nonZero \cap BlocksOf(tags[k]) # {}}
    BY <1>3
<1>5. ASSUME NEW j \in there
      PROVE  \E k \in hits : j \in BlocksOf(tags[k])
    <2>1. PICK k \in 1 .. Len(tags) : j \in BlocksOf(tags[k])
        BY <1>1 DEF Pieces
    <2>. QED
        BY <2>1, <1>4
<1>6. hits \in SUBSET Nat
    OBVIOUS
<1>. HIDE DEF hits
<1>7. CASE hits = {}
    <2>1. there = {}
        BY <1>5, <1>7
    <2>2. found = {}
        BY <1>2, <1>7
    <2>. QED
        BY <2>1, <2>2 DEF found
<1>8. CASE hits # {}
    <2>1. first \in hits /\ \A m \in hits : first <= m
        BY <1>6, <1>8, LeastNumber
    <2>. HIDE DEF first
    <2> DEFINE i == FirstHit(tags[first], nonZero)
    <2>2. first \in 1 .. Len(tags) /\ nonZero \cap BlocksOf(tags[first]) # {}
        BY <1>4, <2>1
    <2>3. /\ i \in nonZero \cap BlocksOf(tags[first])
          /\ \A j \in nonZero \cap BlocksOf(tags[first]) : i <= j
        BY <1>3, <2>2, FirstHitValue
    <2>4. found = {i} /\ i \in there
        BY <1>2, <1>3, <1>8, <2>2, <2>3
    <2>. HIDE DEF i
    <2>5. ASSUME ~r, NEW j \in there
          PROVE  i <= j
        <3>1. PICK m \in hits : j \in BlocksOf(tags[m])
            BY <1>5
        <3>2. CASE m = first
            BY <2>3, <3>1, <3>2
        <3>3. CASE m # first
            <4>1. first < m /\ m \in 1 .. Len(tags)
                BY <1>4, <1>6, <2>1, <3>1, <3>3
            <4>2. tags[first].toBlock < tags[m].fromBlock
                BY <1>1, <2>2, <2>5, <4>1 DEF Ascending
            <4>3. tags[first] \in Tag /\ tags[m] \in Tag
                BY <1>3, <2>2, <4>1
            <4>. QED
                BY <2>3, <3>1, <4>2, <4>3 DEF BlocksOf, Tag
        <3>. QED
            BY <3>2, <3>3
    <2>. QED
        BY <2>4, <2>5 DEF found, there
<1>. QED
    BY <1>7, <1>8

\* findStorageKey finds a slot exactly when the interval holds one, and the first one unless
\* it searches in reverse: for all intervals, batch sizes and storages.
THEOREM SearchFindsFirst == Spec => []FindsFirst
<1>1. Init => FindsFirst
    BY DEF Init, FindsFirst
<1>2. ASSUME FindsFirst, [Next]_vars
      PROVE  FindsFirst'
    <2>1. CASE FindStorageKey
        <3>1. PICK f \in Blocks, t \in Blocks, s \in Sizes, r \in BOOLEAN, nonZero \in SUBSET Blocks :
                  /\ f <= t
                  /\ args' = <<f, t, s, r, nonZero>>
                  /\ returned' = findStorageKey(f, t, s, r, nonZero)
            BY <2>1 DEF FindStorageKey
        <3>2. f \in Nat /\ t \in Nat /\ s \in Nat \ {0} /\ nonZero \in SUBSET Nat
            BY UtilsAssumption
        <3> DEFINE there == nonZero \cap (f .. t)
        <3>3. /\ returned' \subseteq there
              /\ there # {} => \E i \in returned' : ~r => \A j \in there : i <= j
            BY <3>1, <3>2, SearchEnds
        <3>4. args'[1] = f /\ args'[2] = t /\ args'[4] = r /\ args'[5] = nonZero
            BY <3>1
        <3>. QED
            BY <3>3, <3>4 DEF FindsFirst
    <2>2. CASE Next /\ ~FindStorageKey
        BY <2>2 DEF Next, FindsFirst, CreateBlockTags, GetEvents, Chunk, RateConfig, FromName
    <2>3. CASE UNCHANGED vars
        BY <1>2, <2>3 DEF vars, FindsFirst
    <2>. QED
        BY <1>2, <2>1, <2>2, <2>3
<1>. QED
    BY <1>1, <1>2, PTL DEF Spec

-----------------------------------------------------------------------------
(* fromName.  What a recursive function computes is shown here without induction: the
   function that looks the end of each walk up satisfies the same equation. *)

\* From i on the walk goes up to the least number of stops.
Ahead(i, stops) == {j \in stops : i <= j}
NextStop(i, stops) == CHOOSE j \in Ahead(i, stops) : \A k \in Ahead(i, stops) : j <= k

\* The walk from a number that is no stop ends where the walk from the next one does.
LEMMA NextStopValue ==
    ASSUME NEW n \in Nat, NEW stops \in SUBSET (1 .. n), n \in stops, NEW i \in 1 .. n
    PROVE  /\ NextStop(i, stops) \in stops /\ i <= NextStop(i, stops)
           /\ \A k \in stops : i <= k => NextStop(i, stops) <= k
           /\ i \in stops => NextStop(i, stops) = i
           /\ i \notin stops => i + 1 \in 1 .. n /\ NextStop(i + 1, stops) = NextStop(i, stops)
<1>0. \A j \in stops : j \in Nat /\ 1 <= j /\ j <= n
    OBVIOUS
<1>1. ASSUME NEW a \in 1 .. n
      PROVE  /\ NextStop(a, stops) \in stops /\ a <= NextStop(a, stops)
             /\ \A k \in stops : a <= k => NextStop(a, stops) <= k
    <2>1. Ahead(a, stops) \in SUBSET Nat /\ n \in Ahead(a, stops)
        <3>1. \A j \in Ahead(a, stops) : j \in Nat
            BY <1>0 DEF Ahead
        <3>2. a <= n
            OBVIOUS
        <3>3. n \in Ahead(a, stops)
            BY <3>2 DEF Ahead
        <3>. QED
            BY <3>1, <3>3
    <2>2. \E j \in Ahead(a, stops) : \A k \in Ahead(a, stops) : j <= k
        BY <2>1, LeastNumber
    <2>3. /\ NextStop(a, stops) \in Ahead(a, stops)
          /\ \A k \in Ahead(a, stops) : NextStop(a, stops) <= k
        BY <2>2 DEF NextStop
    <2>. QED
        BY <2>3 DEF Ahead
<1>2. PICK x : x = NextStop(i, stops)
    OBVIOUS
<1>3. x \in stops /\ x \in Nat /\ i <= x /\ \A k \in stops : i <= k => x <= k
    <2>1. x \in stops /\ i <= x /\ \A k \in stops : i <= k => x <= k
        BY <1>1, <1>2
    <2>. QED
        BY <1>0, <2>1
<1>4. i \in stops => x = i
    BY <1>3
<1>5. ASSUME i \notin stops
      PROVE  i + 1 \in 1 .. n /\ NextStop(i + 1, stops) = x
    <2>1. i + 1 \in 1 .. n
        BY <1>0, <1>3, <1>5
    <2>2. PICK y : y = NextStop(i + 1, stops)
        OBVIOUS
    <2>3. y \in stops /\ i + 1 <= y /\ \A k \in stops : i + 1 <= k => y <= k
        BY <1>1, <2>1, <2>2
    <2>4. y \in Nat
        BY <1>0, <2>3
    <2>5. x <= y /\ y <= x
        BY <1>0, <1>3, <1>5, <2>3, <2>4
    <2>. QED
        BY <1>3, <2>1, <2>2, <2>4, <2>5
<1>. QED
    BY <1>2, <1>3, <1>4, <1>5

\* There is a walk.
LEMMA WalkExists ==
    ASSUME NEW n \in Nat, NEW stops \in SUBSET (1 .. n), n \in stops, NEW end
    PROVE  \E w : w = [i \in 1 .. n |-> IF i \in stops THEN end[i] ELSE w[i + 1]]
<1> DEFINE w == [i \in 1 .. n |-> end[NextStop(i, stops)]]
<1>1. ASSUME NEW i \in 1 .. n
      PROVE  w[i] = IF i \in stops THEN end[i] ELSE w[i + 1]
    BY NextStopValue
<1>2. w = [i \in 1 .. n |-> IF i \in stops THEN end[i] ELSE w[i + 1]]
    BY <1>1
<1>. QED
    BY <1>2

\* Every walk ends at the first stop.
LEMMA WalkEnds ==
    ASSUME NEW n \in Nat, NEW stops \in SUBSET (1 .. n), n \in stops, NEW end, NEW w,
           \A i \in 1 .. n : w[i] = IF i \in stops THEN end[i] ELSE w[i + 1]
    PROVE  /\ NextStop(1, stops) \in stops
           /\ \A k \in stops : NextStop(1, stops) <= k
           /\ w[1] = end[NextStop(1, stops)]
<1> DEFINE right == {i \in 1 .. n : w[i] = end[NextStop(i, stops)]}
           wrong == {k \in 0 .. n : n - k \notin right /\ n - k \in 1 .. n}
<1>1. \A i \in stops : i \in right
    BY NextStopValue
<1>2. \A i \in 1 .. n : i \notin stops /\ i + 1 \in right => i \in right
    BY NextStopValue
<1>3. wrong = {}
    <2>1. SUFFICES ASSUME wrong # {} PROVE FALSE
        OBVIOUS
    <2>2. PICK k \in wrong : \A m \in wrong : k <= m
        <3>1. wrong \in SUBSET Nat
            OBVIOUS
        <3>. HIDE DEF wrong
        <3>. QED
            BY <2>1, <3>1, LeastNumber
    <2> DEFINE i == n - k
    <2>3. i \in 1 .. n /\ i \notin right /\ i \notin stops
        BY <1>1
    <2>4. i + 1 \in 1 .. n /\ i + 1 \notin right
        BY <1>2, <2>3, NextStopValue
    <2>5. k - 1 \in wrong
        <3>. HIDE DEF right
        <3>. QED
            BY <2>4
    <2>. QED
        BY <2>2, <2>5
<1>4. 1 \in 1 .. n
    OBVIOUS
<1>5. 1 \in right
    <2>1. n - 1 \in 0 .. n /\ n - (n - 1) = 1
        BY <1>4
    <2>. HIDE DEF right
    <2>. QED
        BY <1>3, <1>4, <2>1
<1>. QED
    BY <1>4, <1>5, NextStopValue

\* The names above a name, from itself on, and where the walk of fromName stops.
Above(name, i) == SubSeq(name, i, Len(name))

Stops(name, has) ==
    {i \in 1 .. Len(name) + 1 : \/ i > Len(name)
                                \/ i > 1 /\ Above(name, i) = <<"eth">>
                                \/ Above(name, i) \in has}

\* What fromName returns at a stop.
ResolverAt(name, wildcard) ==
    [i \in 1 .. Len(name) + 1 |->
        IF \/ i > Len(name)
           \/ i > 1 /\ (Above(name, i) = <<"eth">> \/ Above(name, i) \notin wildcard)
        THEN {} ELSE {Above(name, i)}]

\* fromName walks up to the first stop.
LEMMA FromNameValue ==
    ASSUME NEW name \in Seq(STRING), NEW has, NEW wildcard
    PROVE  fromName(name, has, wildcard, FALSE)
               = ResolverAt(name, wildcard)[NextStop(1, Stops(name, has))]
<1> DEFINE node(i) == SubSeq(name, i, Len(name))
           Step(w, i) ==
               IF i > Len(name) \/ (i > 1 /\ node(i) = <<"eth">>) THEN {}
               ELSE IF FALSE \/ EndsAt(node(i), name, has, wildcard)
                    THEN IF i > 1 /\ node(i) \notin wildcard THEN {} ELSE {node(i)}
                    ELSE w[i + 1]
           walk == CHOOSE w : w = [i \in 1 .. Len(name) + 1 |-> Step(w, i)]
<1>1. fromName(name, has, wildcard, FALSE) = walk[1]
    BY DEF fromName
<1>2. PICK n \in Nat : n = Len(name) + 1
    OBVIOUS
<1>3. PICK stops : stops = Stops(name, has)
    OBVIOUS
<1>4. PICK end : end = ResolverAt(name, wildcard)
    OBVIOUS
<1>5. stops \in SUBSET (1 .. n) /\ n \in stops
    BY <1>2, <1>3 DEF Stops
<1>6. ASSUME NEW w, NEW i \in 1 .. n
      PROVE  Step(w, i) = IF i \in stops THEN end[i] ELSE w[i + 1]
    <2>1. PICK a : a = Above(name, i)
        OBVIOUS
    <2>2. i \in stops <=> i > Len(name) \/ (i > 1 /\ a = <<"eth">>) \/ a \in has
        BY <1>2, <1>3, <2>1 DEF Stops
    <2>3. end[i] = IF i > Len(name) \/ (i > 1 /\ (a = <<"eth">> \/ a \notin wildcard))
                   THEN {} ELSE {a}
        BY <1>2, <1>4, <2>1 DEF ResolverAt
    <2>4. Step(w, i) = IF i > Len(name) \/ (i > 1 /\ a = <<"eth">>) THEN {}
                       ELSE IF a \in has THEN IF i > 1 /\ a \notin wildcard THEN {} ELSE {a}
                       ELSE w[i + 1]
        <3>1. node(i) = a
            BY <2>1 DEF Above
        <3>. HIDE DEF node
        <3>. QED
            BY <3>1 DEF EndsAt
    <2>. HIDE DEF Step
    <2>. QED
        BY <2>2, <2>3, <2>4
<1>. HIDE DEF Step
<1>7. \E w : w = [i \in 1 .. n |-> Step(w, i)]
    <2>1. PICK w : w = [i \in 1 .. n |-> IF i \in stops THEN end[i] ELSE w[i + 1]]
        BY <1>5, WalkExists
    <2>2. w = [i \in 1 .. n |-> Step(w, i)]
        BY <1>6, <2>1
    <2>. QED
        BY <2>2
<1>8. walk = [i \in 1 .. n |-> Step(walk, i)]
    BY <1>2, <1>7
<1>. HIDE DEF walk
<1>9. \A i \in 1 .. n : walk[i] = IF i \in stops THEN end[i] ELSE walk[i + 1]
    <2>1. \A i \in 1 .. n : walk[i] = Step(walk, i)
        BY <1>8
    <2>. QED
        BY <1>6, <2>1
<1>10. walk[1] = end[NextStop(1, stops)]
    BY <1>5, <1>9, WalkEnds
<1>. QED
    BY <1>1, <1>3, <1>4, <1>10

\* The names above a name differ in length, and only the last can be "eth".
LEMMA AboveValue ==
    ASSUME NEW name \in Seq(STRING), NEW i \in 1 .. Len(name)
    PROVE  /\ Len(Above(name, i)) = Len(name) - i + 1
           /\ i = 1 => Above(name, i) = name
           /\ Above(name, i) = <<"eth">> => i = Len(name)
<1>1. \A k \in i .. Len(name) : name[k] \in STRING
    OBVIOUS
<1>2. Len(Above(name, i)) = Len(name) - i + 1
    BY <1>1, SubSeqProperties DEF Above
<1>3. i = 1 => Above(name, i) = name
    BY SubSeqFull DEF Above
<1>4. Above(name, i) = <<"eth">> => i = Len(name)
    <2>1. PICK a : a = Above(name, i)
        OBVIOUS
    <2>2. Len(a) = Len(name) - i + 1
        BY <1>2, <2>1
    <2>3. a = <<"eth">> => Len(a) = 1
        OBVIOUS
    <2>. QED
        BY <2>1, <2>2, <2>3
<1>. QED
    BY <1>2, <1>3, <1>4

\* The nearest name from name on that has a resolver of use.
Nearest(name, has) ==
    LET above == {SubSeq(name, i, Len(name)) : i \in 1 .. Len(name)} \cap has
        near == above \ (IF name = <<"eth">> THEN {} ELSE {<<"eth">>})
    IN  {n \in near : \A m \in near : Len(m) <= Len(n)}

\* What the walk finds at its first stop is the nearest resolver, if it may answer.
LEMMA NearestAtStop ==
    ASSUME NEW name \in Seq(STRING), NEW has, NEW wildcard
    PROVE  fromName(name, has, wildcard, FALSE) = Nearest(name, has) \cap ({name} \cup wildcard)
<1> DEFINE above == {SubSeq(name, i, Len(name)) : i \in 1 .. Len(name)} \cap has
           near == above \ (IF name = <<"eth">> THEN {} ELSE {<<"eth">>})
           nearest == {n \in near : \A m \in near : Len(m) <= Len(n)}
<1>1. PICK L \in Nat : L = Len(name)
    OBVIOUS
<1>2. PICK m : m = NextStop(1, Stops(name, has))
    OBVIOUS
<1>3. PICK found : found = fromName(name, has, wildcard, FALSE)
    OBVIOUS
<1>4. /\ m \in 1 .. L + 1
      /\ m > L \/ (m > 1 /\ Above(name, m) = <<"eth">>) \/ Above(name, m) \in has
      /\ \A k \in 1 .. L : Above(name, k) \in has => m <= k
    <2>1. Stops(name, has) \in SUBSET (1 .. L + 1) /\ L + 1 \in Stops(name, has)
        BY <1>1 DEF Stops
    <2>2. m \in Stops(name, has) /\ \A k \in Stops(name, has) : 1 <= k => m <= k
        <3>. HIDE DEF Stops
        <3>. QED
            BY <1>1, <1>2, <2>1, NextStopValue
    <2>. QED
        BY <1>1, <2>1, <2>2 DEF Stops
<1>5. found = IF m > L \/ (m > 1 /\ (Above(name, m) = <<"eth">> \/ Above(name, m) \notin wildcard))
              THEN {} ELSE {Above(name, m)}
    <2>1. found = ResolverAt(name, wildcard)[m]
        BY <1>2, <1>3, FromNameValue
    <2>. QED
        BY <1>1, <1>4, <2>1 DEF ResolverAt
<1>6. \A a : a \in near <=> /\ \E i \in 1 .. L : a = Above(name, i)
                            /\ a \in has
                            /\ name = <<"eth">> \/ a # <<"eth">>
    BY <1>1 DEF Above
<1>7. \A i \in 1 .. L : /\ Len(Above(name, i)) = L - i + 1
                        /\ i = 1 => Above(name, i) = name
                        /\ Above(name, i) = <<"eth">> => i = L
    BY <1>1, AboveValue
<1>. HIDE DEF near
<1>8. ASSUME m > L
      PROVE  found = nearest \cap ({name} \cup wildcard)
    <2>1. near = {}
        <3>1. \A i \in 1 .. L : Above(name, i) \notin has
            BY <1>4, <1>8
        <3>. QED
            BY <1>6, <3>1
    <2>. QED
        BY <1>5, <1>8, <2>1
<1>9. ASSUME m <= L, m > 1, Above(name, m) = <<"eth">>
      PROVE  found = nearest \cap ({name} \cup wildcard)
    <2>1. m = L
        BY <1>4, <1>7, <1>9
    <2>2. name # <<"eth">>
        <3>1. 1 \in 1 .. L
            BY <1>4, <1>9
        <3>. QED
            BY <1>7, <1>9, <2>1, <3>1
    <2>3. near = {}
        <3>1. ASSUME NEW i \in 1 .. L, Above(name, i) \in has PROVE i = m
            BY <1>4, <2>1, <3>1
        <3>. QED
            BY <1>6, <1>9, <2>2, <3>1
    <2>. QED
        BY <1>5, <1>9, <2>3
<1>10. ASSUME m <= L, ~(m > 1 /\ Above(name, m) = <<"eth">>)
       PROVE  found = nearest \cap ({name} \cup wildcard)
    <2>1. m \in 1 .. L /\ Above(name, m) \in has
        BY <1>4, <1>10
    <2>2. Above(name, m) \in near
        BY <1>6, <1>7, <1>10, <2>1
    <2>3. ASSUME NEW i \in 1 .. L, Above(name, i) \in near
          PROVE  /\ Len(Above(name, i)) <= Len(Above(name, m))
                 /\ Len(Above(name, m)) <= Len(Above(name, i)) => i = m
        <3>1. m <= i
            BY <1>4, <1>6, <2>3
        <3>2. Len(Above(name, i)) = L - i + 1 /\ Len(Above(name, m)) = L - m + 1
            BY <1>7, <2>1
        <3>. QED
            BY <2>1, <3>1, <3>2
    <2>4. nearest = {Above(name, m)}
        BY <1>6, <2>2, <2>3
    <2>5. m = 1 => Above(name, m) = name
        BY <1>7, <2>1
    <2>6. m # 1 => Above(name, m) # name
        <3>1. Len(Above(name, m)) = L - m + 1
            BY <1>7, <2>1
        <3>. QED
            BY <1>1, <2>1, <3>1
    <2>. HIDE DEF nearest
    <2>7. PICK a : a = Above(name, m)
        OBVIOUS
    <2>8. found = IF m > 1 /\ a \notin wildcard THEN {} ELSE {a}
        BY <1>5, <1>10, <2>1, <2>7
    <2>9. CASE m = 1
        <3>1. found = {a} /\ a = name
            BY <2>5, <2>7, <2>8, <2>9
        <3>. QED
            BY <2>4, <2>7, <3>1
    <2>10. CASE m # 1
        <3>1. m > 1
            BY <2>1, <2>10
        <3>2. found = (IF a \in wildcard THEN {a} ELSE {}) /\ a # name
            BY <2>6, <2>7, <2>8, <2>10, <3>1
        <3>. QED
            BY <2>4, <2>7, <3>2
    <2>. QED
        BY <2>9, <2>10
<1>11. found = nearest \cap ({name} \cup wildcard)
    <2>1. m <= L \/ m > L
        BY <1>4
    <2>. QED
        BY <1>8, <1>9, <1>10, <2>1
<1>. QED
    BY <1>3, <1>11 DEF nearest, near, Nearest

\* EnsResolver.fromName answers with a name's own resolver or with the nearest one above
\* it, and with that one only if it is made for subnames.
THEOREM NamesResolveNearest == Spec => []NearestResolver
<1>1. Init => NearestResolver
    BY DEF Init, NearestResolver
<1>2. NearestResolver /\ [Next]_vars => NearestResolver'
    <2>. SUFFICES ASSUME NearestResolver, [Next]_vars PROVE NearestResolver'
        OBVIOUS
    <2>1. CASE FromName
        <3>1. PICK name \in Names, has \in SUBSET Names, static \in BOOLEAN :
                  \E wildcard \in SUBSET has :
                      /\ op' = "fromName"
                      /\ args' = <<name, has, wildcard, static>>
                      /\ returned' = fromName(name, has, wildcard, static)
            BY <2>1 DEF FromName
        <3>2. PICK wildcard \in SUBSET has :
                  /\ op' = "fromName"
                  /\ args' = <<name, has, wildcard, static>>
                  /\ returned' = fromName(name, has, wildcard, static)
            BY <3>1
        <3>3. name \in Seq(STRING)
            BY UtilsAssumption
        <3>4. CASE static
            BY <3>2, <3>4 DEF NearestResolver
        <3>5. CASE ~static
            <4>1. static = FALSE
                BY <3>5
            <4>2. /\ args'[1] = name /\ args'[2] = has /\ args'[3] = wildcard
                  /\ returned' = fromName(name, has, wildcard, FALSE)
                BY <3>2, <4>1
            <4>. QED
                <5>1. returned' = Nearest(name, has) \cap ({name} \cup wildcard)
                    BY <3>3, <4>2, NearestAtStop
                <5>2. returned' = Nearest(args'[1], args'[2]) \cap ({args'[1]} \cup args'[3])
                    BY <4>2, <5>1
                <5>. QED
                    BY <5>2 DEF NearestResolver, Nearest
        <3>. QED
            BY <3>4, <3>5
    <2>2. CASE CreateBlockTags \/ GetEvents \/ Chunk \/ RateConfig \/ FindStorageKey
        BY <2>2 DEF CreateBlockTags, GetEvents, Chunk, RateConfig, FindStorageKey, NearestResolver
    <2>3. CASE UNCHANGED vars
        BY <2>3 DEF vars, NearestResolver
    <2>. QED
        BY <2>1, <2>2, <2>3 DEF Next
<1>. QED
    BY <1>1, <1>2, PTL DEF Spec

=============================================================================
