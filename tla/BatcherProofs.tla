---------------------------- MODULE BatcherProofs ----------------------------
(***************************************************************************)
(* What createBatchRequest guarantees for every number of inputs and every *)
(* choice of options, proved with TLAPS.                                   *)
(***************************************************************************)
EXTENDS Batcher, FiniteSetTheorems, WellFoundedInduction, TLAPS

-----------------------------------------------------------------------------
(* Chunks of chunks *)

\* Zero options are replaced, so that no size is zero.
LEMMA SizesPositive ==
    /\ concurrencySize \in Nat \ {0}
    /\ batchSize \in Nat \ {0}
    /\ retryMax \in Nat \ {0}
    /\ InputCount \in Nat \ {0}
BY BatcherAssumption DEF concurrencySize, batchSize, retryMax, Or

\* Division keeps the order of numbers.
LEMMA DivMonotone ==
    ASSUME NEW a \in Nat, NEW b \in Nat, NEW k \in Nat \ {0}, a <= b
    PROVE  a \div k \in Nat /\ b \div k \in Nat /\ a \div k <= b \div k
OBVIOUS

\* Inputs go to sub-batches, and sub-batches to groups, in their order.
LEMMA BatchOrder ==
    /\ \A i, j \in Inputs : i <= j => BatchOf(i) <= BatchOf(j)
    /\ \A i \in Inputs : BatchOf(i) \in Batches
    /\ BatchOf(InputCount) \in Nat \ {0}
<1>1. ASSUME NEW i \in Inputs, NEW j \in Inputs, i <= j
      PROVE  BatchOf(i) \in Nat \ {0} /\ BatchOf(j) \in Nat \ {0} /\ BatchOf(i) <= BatchOf(j)
    <2>1. i - 1 \in Nat /\ j - 1 \in Nat /\ i - 1 <= j - 1
        BY <1>1, SizesPositive DEF Inputs
    <2>. QED
        BY <2>1, SizesPositive, DivMonotone DEF BatchOf
<1>2. InputCount \in Inputs /\ \A i \in Inputs : i <= InputCount /\ i <= i
    BY SizesPositive DEF Inputs
<1>. QED
    BY <1>1, <1>2 DEF Batches

LEMMA GroupOrder ==
    /\ \A a, b \in Batches : a <= b => GroupOf(a) <= GroupOf(b)
    /\ \A b \in Batches : GroupOf(b) \in 1 .. LastGroup
    /\ LastGroup \in Nat \ {0}
<1>1. ASSUME NEW a \in Batches, NEW b \in Batches, a <= b
      PROVE  GroupOf(a) \in Nat \ {0} /\ GroupOf(b) \in Nat \ {0} /\ GroupOf(a) <= GroupOf(b)
    <2>1. a - 1 \in Nat /\ b - 1 \in Nat /\ a - 1 <= b - 1
        BY <1>1, BatchOrder DEF Batches
    <2>. QED
        BY <2>1, SizesPositive, DivMonotone DEF GroupOf
<1>2. BatchOf(InputCount) \in Batches /\ \A b \in Batches : b <= BatchOf(InputCount) /\ b <= b
    BY BatchOrder DEF Batches
<1>. QED
    BY <1>1, <1>2 DEF LastGroup

\* The inputs of the first g groups.
UpTo(g) == {i \in Inputs : GroupOf(BatchOf(i)) <= g}

\* A set of numbers has a least element.
LEMMA LeastNumber ==
    ASSUME NEW T \in SUBSET Nat, T # {}
    PROVE  \E x \in T : \A y \in T : x <= y
<1> DEFINE less == OpToRel(<, Nat)
<1>1. PICK x \in T : \A y \in T : <<y, x>> \notin less
    <2>1. IsWellFoundedOn(less, Nat)
        BY NatLessThanWellFounded
    <2>. QED
        BY <2>1, WFMin
<1>2. less = {p \in Nat \X Nat : p[1] < p[2]}
    BY DEF OpToRel
<1>3. \A y \in T : ~(y < x)
    BY <1>1, <1>2
<1>. QED
    BY <1>3

\* They are the first inputs, as many as there are.
LEMMA UpToInterval ==
    ASSUME NEW g \in Nat
    PROVE  /\ Cardinality(UpTo(g)) \in 0 .. InputCount
           /\ UpTo(g) = 1 .. Cardinality(UpTo(g))
<1> DEFINE T == {k \in Nat : k >= 1 /\ k \notin UpTo(g)}
<1>1. \A i \in UpTo(g), j \in Inputs : j <= i => j \in UpTo(g)
    <2> SUFFICES ASSUME NEW i \in UpTo(g), NEW j \in Inputs, j <= i PROVE j \in UpTo(g)
        OBVIOUS
    <2>1. i \in Inputs /\ GroupOf(BatchOf(i)) <= g
        BY DEF UpTo
    <2>2. GroupOf(BatchOf(j)) <= GroupOf(BatchOf(i))
        BY <2>1, BatchOrder, GroupOrder
    <2>3. GroupOf(BatchOf(j)) \in Nat /\ GroupOf(BatchOf(i)) \in Nat
        BY <2>1, BatchOrder, GroupOrder
    <2>. QED
        BY <2>1, <2>2, <2>3 DEF UpTo
<1>2. InputCount + 1 \in T
    BY SizesPositive DEF UpTo, Inputs
<1>3. PICK k \in T : \A m \in T : k <= m
    BY <1>2, LeastNumber
<1>4. UpTo(g) = 1 .. (k - 1)
    <2>1. ASSUME NEW i \in UpTo(g) PROVE i \in 1 .. (k - 1)
        <3>1. i \in Inputs /\ i \in Nat /\ i >= 1 /\ i <= InputCount
            BY <2>1 DEF UpTo, Inputs
        <3>2. k \in Nat /\ k >= 1 /\ k \notin UpTo(g)
            BY <1>3
        <3>3. ~(k <= i)
            <4>1. k <= i => k \in Inputs
                BY <3>1, <3>2, SizesPositive DEF Inputs
            <4>. QED
                BY <1>1, <2>1, <3>2, <4>1
        <3>. QED
            BY <3>1, <3>2, <3>3
    <2>2. ASSUME NEW i \in 1 .. (k - 1) PROVE i \in UpTo(g)
        BY <1>3, <2>2
    <2>. QED
        BY <2>1, <2>2
<1>5. k - 1 \in 0 .. InputCount
    BY <1>2, <1>3, SizesPositive
<1>6. Cardinality(1 .. (k - 1)) = k - 1
    BY <1>5, FS_Interval
<1>. QED
    BY <1>4, <1>5, <1>6

\* Each group follows the one before it without a gap.
LEMMA GroupFollows ==
    ASSUME NEW g \in Nat \ {0}
    PROVE  /\ Cardinality(UpTo(g)) = Cardinality(UpTo(g - 1)) + Cardinality(GroupInputs(g))
           /\ Cardinality(GroupInputs(g)) \in Nat
           /\ \A k \in 1 .. Cardinality(GroupInputs(g)) :
                 Cardinality(UpTo(g - 1)) + k \in GroupInputs(g)
<1> DEFINE a == Cardinality(UpTo(g - 1))
           b == Cardinality(UpTo(g))
<1>1. /\ a \in 0 .. InputCount /\ UpTo(g - 1) = 1 .. a
      /\ b \in 0 .. InputCount /\ UpTo(g) = 1 .. b
    BY UpToInterval
<1>2. \A i \in Inputs : GroupOf(BatchOf(i)) \in Nat
    BY BatchOrder, GroupOrder
<1>3. GroupInputs(g) = UpTo(g) \ UpTo(g - 1) /\ UpTo(g - 1) \subseteq UpTo(g)
    BY <1>2 DEF GroupInputs, UpTo
<1>. HIDE DEF a, b
<1>4. a <= b
    <2>1. CASE a = 0
        BY <1>1, <2>1
    <2>2. CASE a # 0
        <3>1. a \in 1 .. a
            BY <1>1, <2>2
        <3>2. a \in 1 .. b
            BY <1>1, <1>3, <3>1
        <3>. QED
            BY <1>1, <3>2
    <2>. QED
        BY <2>1, <2>2
<1>5. GroupInputs(g) = (a + 1) .. b
    BY <1>1, <1>3, <1>4
<1>6. Cardinality(GroupInputs(g)) = b - a
    <2>1. a + 1 \in Int /\ b \in Int
        BY <1>1
    <2>2. Cardinality((a + 1) .. b) = IF a + 1 > b THEN 0 ELSE b - (a + 1) + 1
        BY <2>1, FS_Interval
    <2>. QED
        BY <1>1, <1>4, <1>5, <2>2
<1>7. /\ b = a + Cardinality(GroupInputs(g))
      /\ Cardinality(GroupInputs(g)) \in Nat
      /\ \A k \in 1 .. Cardinality(GroupInputs(g)) : a + k \in GroupInputs(g)
    BY <1>1, <1>4, <1>5, <1>6
<1>. QED
    BY <1>7 DEF a, b

-----------------------------------------------------------------------------
(* The inductive invariant *)

\* How often the inputs of a sub-batch were tried follows from its state.
Tries ==
    \A b \in Batches :
        /\ state[b] \in {"idle", "asleep"} => retries[b] = 0
        /\ state[b] \in {"trying", "done"} => retries[b] <= retryMax
        /\ state[b] = "failed" => retries[b] = retryMax + 1
        /\ \A i \in InputsOf(b) :
              issued[i] = retries[b] + (IF state[b] \in {"trying", "done"} THEN 1 ELSE 0)

\* A sub-batch under way holds answers of its current attempt only, and one that is
\* done holds them all.
Answers ==
    \A b \in Batches : \A i \in InputsOf(b) :
        /\ state[b] = "trying" => answered[i] \in {None, retries[b]}
        /\ state[b] = "done" => answered[i] = retries[b]

\* The groups whose outputs were appended.
Finished == IF main \in {"pausing", "resolved"} THEN group ELSE group - 1

\* The outputs are those of the inputs of the finished groups.
Collected ==
    /\ Len(results) = Cardinality(UpTo(Finished))
    /\ \A k \in 1 .. Len(results) : results[k] = [input |-> k, attempt |-> retries[BatchOf(k)]]

\* The main loop pauses or returns after a complete group, and is rejected by a
\* sub-batch that failed.
MainLoop ==
    /\ main \in {"pausing", "resolved"} => GroupComplete(group)
    /\ main = "resolved" => group = LastGroup
    /\ main = "rejected" => \E b \in Batches : state[b] = "failed"

BatcherSound == TypeOK /\ GroupBarrier /\ Tries /\ Answers /\ Collected /\ MainLoop

\* An input belongs to one sub-batch.
LEMMA InputHome ==
    /\ \A i \in Inputs : BatchOf(i) \in Batches /\ i \in InputsOf(BatchOf(i))
    /\ \A b \in Batches : \A i \in InputsOf(b) : i \in Inputs /\ BatchOf(i) = b
BY BatchOrder DEF InputsOf

\* The inputs collected so far belong to sub-batches that are done.
LEMMA CollectedDone ==
    ASSUME BatcherSound, NEW k \in 1 .. Len(results)
    PROVE  k \in Inputs /\ BatchOf(k) \in Batches /\ state[BatchOf(k)] = "done"
<1> USE DEF BatcherSound
<1>1. group \in 1 .. LastGroup /\ LastGroup \in Nat
    BY GroupOrder DEF TypeOK
<1>2. Finished \in Nat
    BY <1>1 DEF Finished
<1>3. k \in UpTo(Finished)
    BY <1>2, UpToInterval DEF Collected
<1>4. k \in Inputs /\ BatchOf(k) \in Batches /\ GroupOf(BatchOf(k)) <= Finished
      /\ GroupOf(BatchOf(k)) \in Nat
    BY <1>3, BatchOrder, GroupOrder DEF UpTo
<1>5. CASE GroupOf(BatchOf(k)) < group
    BY <1>4, <1>5 DEF GroupBarrier
<1>6. CASE ~(GroupOf(BatchOf(k)) < group)
    <2>1. GroupOf(BatchOf(k)) = group /\ main \in {"pausing", "resolved"}
        BY <1>1, <1>4, <1>6 DEF Finished
    <2>. QED
        BY <1>4, <2>1 DEF MainLoop, GroupComplete, BatchesOf
<1>. QED
    BY <1>4, <1>5, <1>6

LEMMA BatcherInit == Init => BatcherSound
<1> SUFFICES ASSUME Init PROVE BatcherSound
    OBVIOUS
<1> USE DEF Init
<1>1. 1 \in 1 .. LastGroup /\ \A b \in Batches : GroupOf(b) \in Nat /\ GroupOf(b) >= 1
    BY GroupOrder
<1>2. TypeOK
    BY <1>1, SizesPositive DEF TypeOK, None
<1>3. GroupBarrier
    BY <1>1 DEF GroupBarrier
<1>4. Tries
    BY InputHome, SizesPositive DEF Tries
<1>5. Answers
    BY DEF Answers
<1>6. Collected
    <2>1. UpTo(0) = {}
        BY <1>1, BatchOrder DEF UpTo
    <2>2. Cardinality(UpTo(0)) = 0
        BY <2>1, FS_EmptySet
    <2>. QED
        BY <2>2 DEF Collected, Finished
<1>7. MainLoop
    BY DEF MainLoop
<1>. QED
    BY <1>2, <1>3, <1>4, <1>5, <1>6, <1>7 DEF BatcherSound

-----------------------------------------------------------------------------
(* One lemma for each action *)

\* A sub-batch starts an attempt, its first or a later one.
LEMMA TrySound ==
    ASSUME BatcherSound, NEW b \in Batches, state[b] \in {"asleep", "backoff"},
           retries[b] <= retryMax, Try(b, retries[b]), UNCHANGED <<main, group, retries, results>>
    PROVE  BatcherSound'
<1> USE DEF BatcherSound
<1>1. /\ state' = [state EXCEPT ![b] = "trying"]
      /\ inFlight' = inFlight \cup CallsOf(b, retries[b])
      /\ \A i \in Inputs : answered'[i] = IF i \in InputsOf(b) THEN None ELSE answered[i]
      /\ \A i \in Inputs : issued'[i] = issued[i] + IF i \in InputsOf(b) THEN 1 ELSE 0
    BY DEF Try
<1>2. retries[b] \in 0 .. retryMax
    BY SizesPositive DEF TypeOK
<1>3. TypeOK'
    <2>1. state' \in [Batches -> {"idle", "asleep", "trying", "backoff", "done", "failed"}]
        BY <1>1 DEF TypeOK
    <2>2. inFlight' \subseteq [input : Inputs, attempt : 0 .. retryMax]
        BY <1>1, <1>2, InputHome DEF TypeOK, CallsOf
    <2>3. answered' \in [Inputs -> (0 .. retryMax) \cup {None}]
        BY DEF TypeOK, Try
    <2>4. issued' \in [Inputs -> Nat]
        BY DEF TypeOK, Try
    <2>. QED
        BY <2>1, <2>2, <2>3, <2>4 DEF TypeOK
<1>4. \A a \in Batches : a # b => state'[a] = state[a]
    BY <1>1 DEF TypeOK
<1>5. state'[b] = "trying"
    BY <1>1 DEF TypeOK
<1>6. GroupBarrier'
    BY <1>4, <1>5 DEF GroupBarrier, TypeOK
<1>7. Tries'
    <2> SUFFICES ASSUME NEW a \in Batches
                 PROVE  /\ state'[a] \in {"idle", "asleep"} => retries[a] = 0
                        /\ state'[a] \in {"trying", "done"} => retries[a] <= retryMax
                        /\ state'[a] = "failed" => retries[a] = retryMax + 1
                        /\ \A i \in InputsOf(a) : issued'[i] =
                              retries[a] + (IF state'[a] \in {"trying", "done"} THEN 1 ELSE 0)
        BY DEF Tries
    <2>1. CASE a = b
        BY <1>1, <1>2, <1>5, <2>1, InputHome DEF Tries
    <2>2. CASE a # b
        <3>1. \A i \in InputsOf(a) : i \in Inputs /\ i \notin InputsOf(b)
            BY <2>2, InputHome
        <3>2. \A i \in InputsOf(a) : issued'[i] = issued[i]
            BY <1>1, <3>1 DEF TypeOK
        <3>. QED
            BY <1>4, <2>2, <3>2 DEF Tries
    <2>. QED
        BY <2>1, <2>2
<1>8. Answers'
    <2> SUFFICES ASSUME NEW a \in Batches, NEW i \in InputsOf(a)
                 PROVE  /\ state'[a] = "trying" => answered'[i] \in {None, retries[a]}
                        /\ state'[a] = "done" => answered'[i] = retries[a]
        BY DEF Answers
    <2>1. CASE a = b
        BY <1>1, <1>5, <2>1, InputHome
    <2>2. CASE a # b
        <3>1. i \in Inputs /\ i \notin InputsOf(b)
            BY <2>2, InputHome
        <3>. QED
            BY <1>1, <1>4, <2>2, <3>1 DEF Answers
    <2>. QED
        BY <2>1, <2>2
<1>9. Collected'
    BY DEF Collected, Finished
<1>10. MainLoop'
    BY <1>4, <1>5 DEF MainLoop, GroupComplete, BatchesOf
<1>. QED
    BY <1>3, <1>6, <1>7, <1>8, <1>9, <1>10

\* A sub-batch whose current attempt is at stake is neither done nor beyond reach.
LEMMA LiveBatch ==
    ASSUME BatcherSound, NEW call \in inFlight
    PROVE  /\ call.input \in Inputs /\ call.attempt \in 0 .. retryMax
           /\ BatchOf(call.input) \in Batches
           /\ call.input \in InputsOf(BatchOf(call.input))
           /\ Live(call) => /\ state[BatchOf(call.input)] = "trying"
                            /\ retries[BatchOf(call.input)] = call.attempt
BY InputHome DEF BatcherSound, TypeOK, Live

LEMMA AnswerSound ==
    ASSUME BatcherSound, NEW call \in inFlight, Answer(call)
    PROVE  BatcherSound'
<1> USE DEF BatcherSound
<1> DEFINE b == BatchOf(call.input)
<1>1. /\ call.input \in Inputs /\ call.attempt \in 0 .. retryMax
      /\ b \in Batches /\ call.input \in InputsOf(b)
      /\ Live(call) => state[b] = "trying" /\ retries[b] = call.attempt
    BY LiveBatch
<1>2. /\ UNCHANGED <<main, group, retries, issued, results>>
      /\ inFlight' = inFlight \ {call}
    BY DEF Answer
<1>3. CASE ~Live(call)
    <2>1. UNCHANGED <<answered, state>>
        BY <1>3 DEF Answer
    <2>. QED
        BY <1>2, <2>1 DEF TypeOK, GroupBarrier, Tries, Answers, Collected, Finished, MainLoop,
                          GroupComplete
<1>4. CASE Live(call)
    <2>1. /\ answered' = [answered EXCEPT ![call.input] = call.attempt]
          /\ state' = IF \A i \in InputsOf(b) \ {call.input} : answered[i] # None
                      THEN [state EXCEPT ![b] = "done"] ELSE state
        BY <1>4 DEF Answer
    <2>2. state[b] = "trying" /\ retries[b] = call.attempt
        BY <1>1, <1>4
    <2>. HIDE DEF b
    <2>3. /\ \A a \in Batches : a # b => state'[a] = state[a]
          /\ state'[b] \in {"trying", "done"}
          /\ state'[b] = "done" => \A i \in InputsOf(b) \ {call.input} : answered[i] # None
        BY <1>1, <2>1, <2>2 DEF TypeOK
    <2>4. TypeOK'
        <3>1. state' \in [Batches -> {"idle", "asleep", "trying", "backoff", "done", "failed"}]
            BY <1>1, <2>1 DEF TypeOK
        <3>2. answered' \in [Inputs -> (0 .. retryMax) \cup {None}]
            BY <1>1, <2>1 DEF TypeOK
        <3>. QED
            BY <1>2, <3>1, <3>2 DEF TypeOK
    <2>5. GroupBarrier'
        BY <1>1, <1>2, <2>2, <2>3 DEF GroupBarrier
    <2>6. Tries'
        BY <1>1, <1>2, <2>2, <2>3 DEF Tries
    <2>7. Answers'
        <3> SUFFICES ASSUME NEW a \in Batches, NEW i \in InputsOf(a)
                     PROVE  /\ state'[a] = "trying" => answered'[i] \in {None, retries[a]}
                            /\ state'[a] = "done" => answered'[i] = retries[a]
            BY <1>2 DEF Answers
        <3>1. i \in Inputs /\ BatchOf(i) = a
            BY InputHome
        <3>2. CASE i = call.input
            <4>1. a = b /\ answered'[i] = retries[b]
                BY <1>1, <2>1, <2>2, <3>1, <3>2 DEF TypeOK, b
            <4>. QED
                BY <4>1
        <3>3. CASE i # call.input
            <4>1. answered'[i] = answered[i]
                BY <2>1, <3>1, <3>3 DEF TypeOK
            <4>2. CASE a = b
                BY <2>2, <2>3, <3>3, <4>1, <4>2 DEF Answers
            <4>3. CASE a # b
                BY <2>3, <4>1, <4>3 DEF Answers
            <4>. QED
                BY <4>2, <4>3
        <3>. QED
            BY <3>2, <3>3
    <2>8. Collected'
        BY <1>2 DEF Collected, Finished
    <2>9. MainLoop'
        BY <1>1, <1>2, <2>2, <2>3 DEF MainLoop, GroupComplete, BatchesOf
    <2>. QED
        BY <2>4, <2>5, <2>6, <2>7, <2>8, <2>9
<1>. QED
    BY <1>3, <1>4

LEMMA FailSound ==
    ASSUME BatcherSound, NEW call \in inFlight, Fail(call)
    PROVE  BatcherSound'
<1> USE DEF BatcherSound
<1> DEFINE b == BatchOf(call.input)
<1>1. /\ b \in Batches /\ call.attempt \in 0 .. retryMax
      /\ Live(call) => state[b] = "trying" /\ retries[b] = call.attempt
    BY LiveBatch
<1>2. /\ UNCHANGED <<main, group, answered, issued, results>>
      /\ inFlight' = inFlight \ {call}
    BY DEF Fail
<1>3. CASE ~Live(call)
    <2>1. UNCHANGED <<retries, state>>
        BY <1>3 DEF Fail
    <2>. QED
        BY <1>2, <2>1 DEF TypeOK, GroupBarrier, Tries, Answers, Collected, Finished, MainLoop,
                          GroupComplete
<1>4. CASE Live(call)
    <2>1. /\ retries' = [retries EXCEPT ![b] = @ + 1]
          /\ state' = [state EXCEPT ![b] = "backoff"]
        BY <1>4 DEF Fail
    <2>2. state[b] = "trying" /\ retries[b] \in 0 .. retryMax
        BY <1>1, <1>4
    <2>3. \A k \in 1 .. Len(results) : BatchOf(k) \in Batches /\ BatchOf(k) # b
        BY <2>2, CollectedDone
    <2>. HIDE DEF b
    <2>4. /\ \A a \in Batches : a # b => state'[a] = state[a] /\ retries'[a] = retries[a]
          /\ state'[b] = "backoff" /\ retries'[b] = retries[b] + 1
        BY <1>1, <2>1 DEF TypeOK
    <2>5. TypeOK'
        <3>1. state' \in [Batches -> {"idle", "asleep", "trying", "backoff", "done", "failed"}]
            BY <1>1, <2>1 DEF TypeOK
        <3>2. retries' \in [Batches -> 0 .. retryMax + 1]
            BY <1>1, <2>1, <2>2, SizesPositive DEF TypeOK
        <3>. QED
            BY <1>2, <3>1, <3>2 DEF TypeOK
    <2>6. GroupBarrier'
        BY <1>1, <1>2, <2>2, <2>4 DEF GroupBarrier
    <2>7. Tries'
        BY <1>1, <1>2, <2>2, <2>4, SizesPositive DEF Tries
    <2>8. Answers'
        BY <1>2, <2>4 DEF Answers
    <2>9. Collected'
        BY <1>2, <2>3, <2>4 DEF Collected, Finished
    <2>10. MainLoop'
        BY <1>1, <1>2, <2>2, <2>4 DEF MainLoop, GroupComplete, BatchesOf
    <2>. QED
        BY <2>5, <2>6, <2>7, <2>8, <2>9, <2>10
<1>. QED
    BY <1>3, <1>4

LEMMA GiveUpSound ==
    ASSUME BatcherSound, NEW b \in Batches, GiveUp(b)
    PROVE  BatcherSound'
<1> USE DEF BatcherSound
<1>1. /\ state[b] = "backoff" /\ retries[b] > retryMax
      /\ state' = [state EXCEPT ![b] = "failed"]
      /\ main' = IF main = "running" THEN "rejected" ELSE main
      /\ UNCHANGED <<group, retries, inFlight, answered, issued, results>>
    BY DEF GiveUp, Exhausted
<1>2. /\ \A a \in Batches : a # b => state'[a] = state[a]
      /\ state'[b] = "failed"
    BY <1>1 DEF TypeOK
<1>3. TypeOK'
    BY <1>1 DEF TypeOK
<1>4. GroupBarrier'
    BY <1>1, <1>2 DEF GroupBarrier
<1>5. Tries'
    <2>1. retries[b] = retryMax + 1
        BY <1>1, SizesPositive DEF TypeOK
    <2>. QED
        BY <1>1, <1>2, <2>1 DEF Tries
<1>6. Answers'
    BY <1>1, <1>2 DEF Answers
<1>7. Collected'
    BY <1>1 DEF Collected, Finished
<1>8. MainLoop'
    BY <1>1, <1>2 DEF MainLoop, GroupComplete, BatchesOf
<1>. QED
    BY <1>3, <1>4, <1>5, <1>6, <1>7, <1>8

\* The main loop goes on, once the outputs of a complete group were appended.
LEMMA AdvanceSound ==
    ASSUME BatcherSound, GroupComplete(group), Advance,
           UNCHANGED <<retries, inFlight, answered, issued>>,
           results' \in Seq([input : Inputs, attempt : 0 .. retryMax]),
           Len(results') = Cardinality(UpTo(group)),
           \A k \in 1 .. Len(results') :
               results'[k] = [input |-> k, attempt |-> retries[BatchOf(k)]]
    PROVE  BatcherSound'
<1> USE DEF BatcherSound
<1>1. group \in 1 .. LastGroup /\ LastGroup \in Nat
    BY GroupOrder DEF TypeOK
<1>2. CASE group = LastGroup
    <2>1. main' = "resolved" /\ UNCHANGED <<group, state>>
        BY <1>2 DEF Advance
    <2>2. TypeOK'
        BY <2>1 DEF TypeOK
    <2>3. GroupBarrier' /\ Tries' /\ Answers'
        BY <2>1 DEF GroupBarrier, Tries, Answers
    <2>4. Collected'
        BY <2>1 DEF Collected, Finished
    <2>5. MainLoop'
        BY <1>2, <2>1 DEF MainLoop, GroupComplete
    <2>. QED
        BY <2>2, <2>3, <2>4, <2>5
<1>3. CASE group # LastGroup
    <2>1. /\ main' = "running"
          /\ group' = group + 1
          /\ state' = [b \in Batches |-> IF GroupOf(b) = group + 1 THEN "asleep" ELSE state[b]]
        BY <1>3 DEF Advance
    <2>2. \A b \in Batches : /\ GroupOf(b) \in Nat
                             /\ GroupOf(b) < group => state[b] = "done"
                             /\ GroupOf(b) = group => state[b] = "done"
                             /\ GroupOf(b) > group => state[b] = "idle"
        BY GroupOrder DEF GroupBarrier, GroupComplete, BatchesOf
    <2>3. \A b \in Batches :
             state'[b] = IF GroupOf(b) = group + 1 THEN "asleep" ELSE state[b]
        BY <2>1
    <2>4. TypeOK'
        BY <1>1, <1>3, <2>1 DEF TypeOK
    <2>5. GroupBarrier'
        BY <1>1, <2>1, <2>2, <2>3 DEF GroupBarrier
    <2>6. Tries'
        BY <1>1, <2>2, <2>3 DEF Tries
    <2>7. Answers'
        BY <2>3 DEF Answers
    <2>8. Collected'
        BY <1>1, <2>1 DEF Collected, Finished
    <2>9. MainLoop'
        BY <2>1 DEF MainLoop
    <2>. QED
        BY <2>4, <2>5, <2>6, <2>7, <2>8, <2>9
<1>. QED
    BY <1>2, <1>3

\* A function on the first numbers is a sequence.
LEMMA FunctionIsSeq ==
    ASSUME NEW S, NEW n \in Nat, NEW f \in [1 .. n -> S]
    PROVE  f \in Seq(S) /\ Len(f) = n
<1>1. f \in Seq(S)
    OBVIOUS
<1>. QED
    BY <1>1

LEMMA FinishGroupSound ==
    ASSUME BatcherSound, FinishGroup
    PROVE  BatcherSound'
<1> USE DEF BatcherSound
<1> DEFINE m == Cardinality(GroupInputs(group))
           outputs == [k \in 1 .. m |-> [input |-> Len(results) + k,
                                         attempt |-> answered[Len(results) + k]]]
<1>1. /\ main = "running"
      /\ GroupComplete(group)
      /\ results' = results \o outputs
      /\ (main' = "pausing" /\ UNCHANGED <<group, state>>) \/ Advance
      /\ UNCHANGED <<retries, inFlight, answered, issued>>
    BY DEF FinishGroup
<1>2. group \in Nat \ {0}
    BY GroupOrder DEF TypeOK
<1>3. Len(results) = Cardinality(UpTo(group - 1))
    BY <1>1 DEF Collected, Finished
<1>4. /\ Cardinality(UpTo(group)) = Len(results) + m
      /\ m \in Nat
      /\ \A k \in 1 .. m : Len(results) + k \in GroupInputs(group)
    BY <1>2, <1>3, GroupFollows
<1>. HIDE DEF m
<1>5. \A k \in 1 .. m : LET i == Len(results) + k IN
         /\ i \in Inputs
         /\ answered[i] = retries[BatchOf(i)]
         /\ answered[i] \in 0 .. retryMax
    <2> SUFFICES ASSUME NEW k \in 1 .. m, NEW i, i = Len(results) + k
                 PROVE  /\ i \in Inputs
                        /\ answered[i] = retries[BatchOf(i)]
                        /\ answered[i] \in 0 .. retryMax
        OBVIOUS
    <2>1. i \in Inputs /\ GroupOf(BatchOf(i)) = group
        BY <1>4 DEF GroupInputs
    <2>2. BatchOf(i) \in Batches /\ i \in InputsOf(BatchOf(i)) /\ state[BatchOf(i)] = "done"
        BY <1>1, <2>1, InputHome DEF GroupComplete, BatchesOf
    <2>3. answered[i] = retries[BatchOf(i)] /\ retries[BatchOf(i)] <= retryMax
        BY <2>2 DEF Answers, Tries
    <2>. QED
        BY <2>1, <2>2, <2>3, SizesPositive DEF TypeOK
<1>6. /\ outputs \in Seq([input : Inputs, attempt : 0 .. retryMax])
      /\ Len(outputs) = m
      /\ \A k \in 1 .. m : outputs[k] = [input |-> Len(results) + k,
                                         attempt |-> retries[BatchOf(Len(results) + k)]]
    <2>1. ASSUME NEW k \in 1 .. m
          PROVE  /\ outputs[k] = [input |-> Len(results) + k,
                                  attempt |-> retries[BatchOf(Len(results) + k)]]
                 /\ outputs[k] \in [input : Inputs, attempt : 0 .. retryMax]
        BY <1>5, <2>1
    <2>2. outputs \in [1 .. m -> [input : Inputs, attempt : 0 .. retryMax]]
        BY <2>1
    <2>. HIDE DEF outputs
    <2>3. m \in Nat
        BY <1>4
    <2>4. outputs \in Seq([input : Inputs, attempt : 0 .. retryMax]) /\ Len(outputs) = m
        BY <2>2, <2>3, FunctionIsSeq, Zenon
    <2>. QED
        BY <2>1, <2>4
<1>. HIDE DEF outputs
<1>7. /\ results \in Seq([input : Inputs, attempt : 0 .. retryMax])
      /\ \A k \in 1 .. Len(results) :
            results[k] = [input |-> k, attempt |-> retries[BatchOf(k)]]
    BY DEF TypeOK, Collected
<1>8. /\ results' \in Seq([input : Inputs, attempt : 0 .. retryMax])
      /\ Len(results') = Len(results) + m
    BY <1>1, <1>4, <1>6, <1>7
<1>9. \A k \in 1 .. Len(results') :
         results'[k] = [input |-> k, attempt |-> retries[BatchOf(k)]]
    <2> SUFFICES ASSUME NEW k \in 1 .. Len(results')
                 PROVE  results'[k] = [input |-> k, attempt |-> retries[BatchOf(k)]]
        OBVIOUS
    <2>1. CASE k <= Len(results)
        BY <1>1, <1>6, <1>7, <1>8, <2>1
    <2>2. CASE ~(k <= Len(results))
        <3>1. k - Len(results) \in 1 .. m /\ Len(results) + (k - Len(results)) = k
            BY <1>4, <1>7, <1>8, <2>2
        <3>2. results'[k] = outputs[k - Len(results)]
            BY <1>1, <1>4, <1>6, <1>7, <1>8, <2>2
        <3>. QED
            BY <1>6, <3>1, <3>2
    <2>. QED
        BY <2>1, <2>2
<1>10. CASE Advance
    BY <1>1, <1>4, <1>8, <1>9, <1>10, AdvanceSound
<1>11. CASE main' = "pausing" /\ UNCHANGED <<group, state>>
    <2>1. TypeOK'
        BY <1>1, <1>8, <1>11 DEF TypeOK
    <2>2. GroupBarrier' /\ Tries' /\ Answers'
        BY <1>1, <1>11 DEF GroupBarrier, Tries, Answers
    <2>3. Collected'
        BY <1>1, <1>4, <1>8, <1>9, <1>11 DEF Collected, Finished
    <2>4. MainLoop'
        BY <1>1, <1>11 DEF MainLoop, GroupComplete
    <2>. QED
        BY <2>1, <2>2, <2>3, <2>4
<1>. QED
    BY <1>1, <1>10, <1>11

LEMMA ResumeSound ==
    ASSUME BatcherSound, Resume
    PROVE  BatcherSound'
<1>1. /\ main = "pausing"
      /\ Advance
      /\ UNCHANGED <<retries, inFlight, answered, issued, results>>
    BY DEF Resume
<1>2. GroupComplete(group) /\ Finished = group
    BY <1>1 DEF BatcherSound, MainLoop, Finished
<1>. QED
    BY <1>1, <1>2, AdvanceSound DEF BatcherSound, TypeOK, Collected

LEMMA BatcherNext == BatcherSound /\ [Next]_vars => BatcherSound'
<1> SUFFICES ASSUME BatcherSound, [Next]_vars PROVE BatcherSound'
    OBVIOUS
<1>1. ASSUME NEW b \in Batches, BatchStep(b) PROVE BatcherSound'
    <2>1. CASE Wake(b)
        <3>1. state[b] = "asleep" /\ Try(b, 0) /\ UNCHANGED <<main, group, retries, results>>
            BY <2>1 DEF Wake
        <3>2. retries[b] = 0
            BY <3>1 DEF BatcherSound, Tries
        <3>. QED
            BY <3>1, <3>2, SizesPositive, TrySound
    <2>2. CASE Retry(b)
        <3>1. /\ state[b] = "backoff" /\ ~(retries[b] > retryMax)
              /\ Try(b, retries[b]) /\ UNCHANGED <<main, group, retries, results>>
            BY <2>2 DEF Retry, Exhausted
        <3>2. retries[b] <= retryMax
            BY <3>1, SizesPositive DEF BatcherSound, TypeOK
        <3>. QED
            BY <3>1, <3>2, TrySound
    <2>3. CASE GiveUp(b)
        BY <2>3, GiveUpSound
    <2>. QED
        BY <1>1, <2>1, <2>2, <2>3 DEF BatchStep
<1>2. ASSUME NEW call \in inFlight, Answer(call) \/ Fail(call) PROVE BatcherSound'
    BY <1>2, AnswerSound, FailSound
<1>3. CASE FinishGroup \/ Resume
    BY <1>3, FinishGroupSound, ResumeSound
<1>4. CASE UNCHANGED vars
    BY <1>4 DEF vars, BatcherSound, TypeOK, GroupBarrier, Tries, Answers, Collected, Finished,
                MainLoop, GroupComplete
<1>. QED
    BY <1>1, <1>2, <1>3, <1>4 DEF Next

LEMMA BatcherAlways == Spec => []BatcherSound
BY BatcherInit, BatcherNext, PTL DEF Spec

-----------------------------------------------------------------------------
(* The theorems *)

\* Every field of a batch request keeps its type; in particular no attempt beyond
\* the last one allowed is ever made.
THEOREM BatcherTypeCorrect == Spec => []TypeOK
<1>1. BatcherSound => TypeOK
    BY DEF BatcherSound
<1>. QED
    BY <1>1, BatcherAlways, PTL

\* A group starts only when every sub-batch of the groups before it is done, and
\* a rejection starts no further group, whatever the sub-batches left behind do.
THEOREM GroupsDoNotOverlap == Spec => []GroupBarrier
<1>1. BatcherSound => GroupBarrier
    BY DEF BatcherSound
<1>. QED
    BY <1>1, BatcherAlways, PTL

\* The outputs are those of the inputs, in order, from the last attempt of their
\* sub-batch, and a request that resolves has all of them.
THEOREM OutputsMatchInputs == Spec => []ResultsMatchInputs
<1>1. BatcherSound => ResultsMatchInputs
    <2> SUFFICES ASSUME BatcherSound, main = "resolved" PROVE Len(results) = InputCount
        BY DEF BatcherSound, Collected, ResultsMatchInputs
    <2>1. Finished = LastGroup
        BY DEF BatcherSound, MainLoop, Finished
    <2>2. UpTo(LastGroup) = 1 .. InputCount
        BY BatchOrder, GroupOrder DEF UpTo, Inputs
    <2>3. Cardinality(1 .. InputCount) = InputCount
        BY SizesPositive, FS_Interval
    <2>. QED
        BY <2>1, <2>2, <2>3 DEF BatcherSound, Collected
<1>. QED
    BY <1>1, BatcherAlways, PTL

\* No input is tried more often than allowed, and the request is rejected only when
\* some sub-batch used up its tries.
THEOREM TriesAreBounded == Spec => []TriesBeforeReject
<1>1. BatcherSound => TriesBeforeReject
    <2> SUFFICES ASSUME BatcherSound PROVE TriesBeforeReject
        OBVIOUS
    <2> USE DEF BatcherSound
    <2>1. \A i \in Inputs : issued[i] <= retryMax + 1
        <3> SUFFICES ASSUME NEW i \in Inputs PROVE issued[i] <= retryMax + 1
            OBVIOUS
        <3>1. BatchOf(i) \in Batches /\ i \in InputsOf(BatchOf(i))
            BY InputHome
        <3> DEFINE b == BatchOf(i)
        <3>2. retries[b] \in 0 .. retryMax + 1 /\ retryMax \in Nat
            BY <3>1, SizesPositive DEF TypeOK
        <3>3. /\ state[b] \in {"trying", "done"} => retries[b] <= retryMax
              /\ issued[i] = retries[b] + (IF state[b] \in {"trying", "done"} THEN 1 ELSE 0)
            BY <3>1 DEF Tries
        <3>. QED
            BY <3>2, <3>3
    <2>2. ASSUME main = "rejected"
          PROVE  \E b \in Batches : \A i \in InputsOf(b) : issued[i] = retryMax + 1
        <3>1. PICK b \in Batches : state[b] = "failed"
            BY <2>2 DEF MainLoop
        <3>2. \A i \in InputsOf(b) : issued[i] = retryMax + 1
            BY <3>1, SizesPositive DEF Tries
        <3>. QED
            BY <3>2
    <2>. QED
        BY <2>1, <2>2 DEF TriesBeforeReject
<1>. QED
    BY <1>1, BatcherAlways, PTL

-----------------------------------------------------------------------------
(* How many calls are awaited *)

\* The larger factor gives the larger product.
LEMMA ProductMonotone ==
    ASSUME NEW k \in Nat, NEW x \in Nat, NEW y \in Nat, x <= y
    PROVE  k * x \in Nat /\ k * x <= k * y
OBVIOUS

\* A group has no more inputs than concurrencySize sub-batches hold.
LEMMA GroupSize ==
    ASSUME NEW g \in Nat \ {0}
    PROVE  /\ IsFiniteSet(GroupInputs(g))
           /\ Cardinality(GroupInputs(g)) <= concurrencySize * batchSize
<1> DEFINE cs == concurrencySize
           bs == batchSize
<1>1. cs \in Nat \ {0} /\ bs \in Nat \ {0}
    BY SizesPositive
<1>2. ASSUME NEW i \in GroupInputs(g)
      PROVE  i \in bs * (cs * (g - 1)) + 1 .. bs * (cs * (g - 1)) + bs * cs
    <2> DEFINE q == (i - 1) \div bs
    <2>1. i \in Nat /\ i - 1 \in Nat
        BY <1>2, SizesPositive DEF GroupInputs, Inputs
    <2>2. q \in Nat /\ bs * q <= i - 1 /\ i - 1 < bs * q + bs
        BY <1>1, <2>1
    <2>3. q \div cs = g - 1
        <3>1. GroupOf(BatchOf(i)) = g
            BY <1>2 DEF GroupInputs
        <3>2. (BatchOf(i) - 1) \div cs = g - 1
            <4>1. (BatchOf(i) - 1) \div cs \in Int
                BY <1>1, <2>2 DEF BatchOf
            <4>. QED
                BY <3>1, <4>1 DEF GroupOf
        <3>3. BatchOf(i) - 1 = q
            BY <2>2 DEF BatchOf
        <3>. QED
            BY <3>2, <3>3
    <2>. HIDE DEF q, cs, bs
    <2>4. cs * (g - 1) <= q /\ q < cs * (g - 1) + cs
        BY <1>1, <2>2, <2>3
    <2>5. cs * (g - 1) \in Nat
        BY <1>1
    <2>6. bs * (cs * (g - 1)) <= bs * q
        BY <1>1, <2>2, <2>4, <2>5, ProductMonotone
    <2>7. bs * (q + 1) <= bs * (cs * (g - 1) + cs)
        <3>1. q + 1 \in Nat /\ cs * (g - 1) + cs \in Nat /\ q + 1 <= cs * (g - 1) + cs
            BY <1>1, <2>2, <2>4, <2>5
        <3>. QED
            BY <1>1, <3>1, ProductMonotone
    <2>8. bs * (q + 1) = bs * q + bs
        BY <1>1, <2>2
    <2>9. bs * (cs * (g - 1) + cs) = bs * (cs * (g - 1)) + bs * cs
        BY <1>1, <2>5
    <2>10. bs * (cs * (g - 1)) \in Nat /\ bs * cs \in Nat /\ bs * q \in Nat
        BY <1>1, <2>2, <2>5, ProductMonotone
    <2> DEFINE first == bs * (cs * (g - 1))
               size == bs * cs
               mine == bs * q
               next == bs * (q + 1)
    <2>11. /\ first \in Nat /\ size \in Nat /\ mine \in Nat
           /\ first <= mine /\ next <= first + size /\ next = mine + bs
           /\ mine <= i - 1 /\ i - 1 < mine + bs
        BY <2>2, <2>6, <2>7, <2>8, <2>9, <2>10
    <2>. HIDE DEF first, size, mine, next
    <2>12. i \in first + 1 .. first + size
        BY <1>1, <2>1, <2>11
    <2>. QED
        BY <2>12 DEF first, size
<1>. HIDE DEF cs, bs
<1>3. bs * (cs * (g - 1)) \in Nat /\ bs * cs \in Nat /\ bs * cs = cs * bs /\ bs * cs > 0
    <2>1. cs * (g - 1) \in Nat
        BY <1>1
    <2>. QED
        BY <1>1, <2>1
<1> DEFINE a == bs * (cs * (g - 1))
           w == bs * cs
<1>4. GroupInputs(g) \in SUBSET (a + 1 .. a + w)
    BY <1>2
<1>5. a \in Nat /\ w \in Nat /\ w > 0 /\ w = cs * bs
    BY <1>3
<1>. HIDE DEF a, w
<1>6. IsFiniteSet(a + 1 .. a + w) /\ Cardinality(a + 1 .. a + w) = w
    <2>1. a + 1 \in Int /\ a + w \in Int
        BY <1>5
    <2> DEFINE lo == a + 1
               hi == a + w
    <2>2. lo <= hi /\ hi - lo + 1 = w
        BY <1>5
    <2>3. lo \in Int /\ hi \in Int
        BY <2>1
    <2>. HIDE DEF lo, hi
    <2>4. /\ IsFiniteSet(lo .. hi)
          /\ Cardinality(lo .. hi) = IF lo > hi THEN 0 ELSE hi - lo + 1
        BY <2>3, FS_Interval
    <2>5. IsFiniteSet(lo .. hi) /\ Cardinality(lo .. hi) = w
        BY <2>2, <2>3, <2>4
    <2>. QED
        BY <2>5 DEF lo, hi
<1>7. IsFiniteSet(GroupInputs(g)) /\ Cardinality(GroupInputs(g)) <= w
    BY <1>4, <1>6, FS_Subset
<1>. QED
    BY <1>5, <1>7 DEF cs, bs

\* At no moment are more calls awaited than the caller's two sizes allow: those of
\* abandoned attempts come on top, those of other groups do not.
THEOREM AwaitedIsBounded == Spec => []AwaitedBound
<1>1. BatcherSound => AwaitedBound
    <2> SUFFICES ASSUME BatcherSound PROVE AwaitedBound
        OBVIOUS
    <2> DEFINE awaited == {c \in inFlight : Live(c)}
               f == [c \in awaited |-> c.input]
    <2>1. group \in Nat \ {0}
        BY GroupOrder DEF BatcherSound, TypeOK
    <2>2. ASSUME NEW c \in awaited
          PROVE  /\ c.input \in GroupInputs(group)
                 /\ c = [input |-> c.input, attempt |-> retries[BatchOf(c.input)]]
        <3>1. /\ c \in [input : Inputs, attempt : 0 .. retryMax]
              /\ c.input \in Inputs /\ BatchOf(c.input) \in Batches
              /\ state[BatchOf(c.input)] = "trying"
              /\ retries[BatchOf(c.input)] = c.attempt
            BY LiveBatch DEF BatcherSound, TypeOK
        <3>2. GroupOf(BatchOf(c.input)) = group
            BY <2>1, <3>1, GroupOrder DEF BatcherSound, GroupBarrier
        <3>. QED
            BY <3>1, <3>2 DEF GroupInputs
    <2>3. f \in Injection(awaited, GroupInputs(group))
        <3>1. f \in [awaited -> GroupInputs(group)]
            BY <2>2
        <3>2. \A c, d \in awaited : f[c] = f[d] => c = d
            <4> SUFFICES ASSUME NEW c \in awaited, NEW d \in awaited, c.input = d.input
                         PROVE  c = d
                OBVIOUS
            <4>1. /\ c = [input |-> c.input, attempt |-> retries[BatchOf(c.input)]]
                  /\ d = [input |-> d.input, attempt |-> retries[BatchOf(d.input)]]
                BY <2>2
            <4>. QED
                BY <4>1
        <3>. QED
            BY <3>1, <3>2 DEF Injection, IsInjective
    <2>4. IsFiniteSet(GroupInputs(group))
          /\ Cardinality(GroupInputs(group)) <= concurrencySize * batchSize
        BY <2>1, GroupSize
    <2>. HIDE DEF f
    <2>5. IsFiniteSet(awaited) /\ Cardinality(awaited) <= Cardinality(GroupInputs(group))
        BY <2>3, <2>4, FS_Injection
    <2>6. Cardinality(awaited) \in Nat /\ Cardinality(GroupInputs(group)) \in Nat
        BY <2>4, <2>5, FS_CardinalityType
    <2>7. concurrencySize * batchSize \in Nat
        BY SizesPositive
    <2>. QED
        BY <2>4, <2>5, <2>6, <2>7 DEF AwaitedBound
<1>. QED
    BY <1>1, BatcherAlways, PTL

-----------------------------------------------------------------------------
(* Every run comes to an end *)

\* No sub-batch is empty.
LEMMA BatchesNonEmpty == \A b \in Batches : InputsOf(b) # {}
<1> SUFFICES ASSUME NEW b \in Batches PROVE InputsOf(b) # {}
    OBVIOUS
<1> DEFINE bs == batchSize
           q == (InputCount - 1) \div bs
           m == (b - 1) * bs
<1>1. bs \in Nat \ {0} /\ InputCount \in Nat \ {0} /\ b \in Nat \ {0} /\ b - 1 <= q
    BY SizesPositive DEF Batches, BatchOf
<1>2. q \in Nat /\ q * bs <= InputCount - 1
    BY <1>1
<1>3. m \in Nat /\ m <= q * bs
    <2>. HIDE DEF q, bs
    <2>1. b - 1 \in Nat
        BY <1>1
    <2>2. bs * (b - 1) <= bs * q /\ bs * (b - 1) \in Nat
        BY <1>1, <1>2, <2>1, ProductMonotone
    <2>. QED
        BY <1>1, <1>2, <2>1, <2>2
<1>4. m \div bs = b - 1
    <2>. HIDE DEF bs
    <2>. QED
        BY <1>1
<1>. HIDE DEF m, q
<1>5. m + 1 \in Inputs
    <2>1. q * bs \in Int
        BY <1>1, <1>2
    <2>. QED
        BY <1>1, <1>2, <1>3, <2>1 DEF Inputs
<1>6. BatchOf(m + 1) = b
    BY <1>1, <1>3, <1>4 DEF BatchOf
<1>. QED
    BY <1>5, <1>6 DEF InputsOf

\* An attempt under way lacks an answer, whose call is still in flight; only a failed
\* sub-batch has given up, and it rejected the request; the sub-batches of the current
\* group have started; and a call in flight was counted.
Underway ==
    /\ \A b \in Batches :
          /\ state[b] = "trying" => \E i \in InputsOf(b) : answered[i] = None
          /\ state[b] = "failed" => main = "rejected"
          /\ state[b] = "idle" => GroupOf(b) # group
    /\ \A b \in Batches : \A i \in InputsOf(b) :
          state[b] = "trying" /\ answered[i] = None
              => [input |-> i, attempt |-> retries[b]] \in inFlight
    /\ \A call \in inFlight : call.attempt < issued[call.input]

LEMMA UnderwayInit == Init => Underway
<1> SUFFICES ASSUME Init PROVE Underway
    OBVIOUS
<1> USE DEF Init
<1>1. \A b \in Batches : state[b] = IF GroupOf(b) = 1 THEN "asleep" ELSE "idle"
    OBVIOUS
<1>. QED
    BY <1>1 DEF Underway

LEMMA UnderwayTry ==
    ASSUME BatcherSound, Underway, NEW b \in Batches, state[b] \in {"asleep", "backoff"},
           retries[b] <= retryMax, Try(b, retries[b]), UNCHANGED <<main, group, retries, results>>
    PROVE  Underway'
<1> USE DEF BatcherSound
<1>1. /\ state' = [state EXCEPT ![b] = "trying"]
      /\ inFlight' = inFlight \cup CallsOf(b, retries[b])
      /\ \A i \in Inputs : answered'[i] = IF i \in InputsOf(b) THEN None ELSE answered[i]
      /\ \A i \in Inputs : issued'[i] = issued[i] + IF i \in InputsOf(b) THEN 1 ELSE 0
    BY DEF Try
<1>2. /\ \A a \in Batches : a # b => state'[a] = state[a]
      /\ state'[b] = "trying"
    BY <1>1 DEF TypeOK
<1>3. \A a \in Batches : /\ state'[a] = "failed" => main' = "rejected"
                         /\ state'[a] = "idle" => GroupOf(a) # group'
    BY <1>2 DEF Underway
<1>4. ASSUME NEW a \in Batches, state'[a] = "trying"
      PROVE  \E i \in InputsOf(a) : answered'[i] = None
    <2>1. CASE a = b
        <3>1. PICK i : i \in InputsOf(b)
            BY BatchesNonEmpty
        <3>. QED
            BY <1>1, <2>1, <3>1, InputHome
    <2>2. CASE a # b
        <3>1. PICK i \in InputsOf(a) : answered[i] = None
            BY <1>2, <1>4, <2>2 DEF Underway
        <3>2. i \in Inputs /\ i \notin InputsOf(b)
            BY <2>2, InputHome
        <3>. QED
            BY <1>1, <3>1, <3>2
    <2>. QED
        BY <2>1, <2>2
<1>5. ASSUME NEW a \in Batches, NEW i \in InputsOf(a), state'[a] = "trying", answered'[i] = None
      PROVE  [input |-> i, attempt |-> retries[a]] \in inFlight'
    <2>1. CASE a = b
        BY <1>1, <2>1 DEF CallsOf
    <2>2. CASE a # b
        <3>1. i \in Inputs /\ i \notin InputsOf(b)
            BY <2>2, InputHome
        <3>2. state[a] = "trying" /\ answered[i] = None
            BY <1>1, <1>2, <1>5, <2>2, <3>1
        <3>. QED
            BY <1>1, <3>2 DEF Underway
    <2>. QED
        BY <2>1, <2>2
<1>6. ASSUME NEW call \in inFlight' PROVE call.attempt < issued'[call.input]
    <2>1. CASE call \in inFlight
        <3>1. call.input \in Inputs /\ call.attempt \in Nat /\ call.attempt < issued[call.input]
            BY <2>1, LiveBatch, SizesPositive DEF Underway
        <3>2. PICK n \in Nat : n = issued[call.input]
            BY <3>1 DEF TypeOK
        <3>3. issued'[call.input] \in {n, n + 1}
            BY <1>1, <3>1, <3>2
        <3>. QED
            BY <3>1, <3>2, <3>3
    <2>2. CASE call \in CallsOf(b, retries[b])
        <3>1. call.input \in InputsOf(b) /\ call.input \in Inputs /\ call.attempt = retries[b]
            BY <2>2, InputHome DEF CallsOf
        <3>2. PICK n \in Nat : n = retries[b]
            BY SizesPositive DEF TypeOK
        <3>3. issued[call.input] = n
            BY <3>1, <3>2 DEF Tries
        <3>4. issued'[call.input] = n + 1
            BY <1>1, <3>1, <3>3
        <3>. QED
            BY <3>1, <3>2, <3>4
    <2>. QED
        BY <1>1, <2>1, <2>2
<1>. QED
    BY <1>3, <1>4, <1>5, <1>6 DEF Underway

LEMMA UnderwayAnswer ==
    ASSUME BatcherSound, Underway, NEW call \in inFlight, Answer(call)
    PROVE  Underway'
<1> USE DEF BatcherSound
<1> DEFINE b == BatchOf(call.input)
<1>1. /\ call.input \in Inputs /\ call.attempt \in 0 .. retryMax
      /\ b \in Batches /\ call.input \in InputsOf(b)
      /\ Live(call) => state[b] = "trying" /\ retries[b] = call.attempt
    BY LiveBatch
<1>2. /\ UNCHANGED <<main, group, retries, issued, results>>
      /\ inFlight' = inFlight \ {call}
    BY DEF Answer
<1>3. CASE ~Live(call)
    <2>1. UNCHANGED <<answered, state>>
        BY <1>3 DEF Answer
    <2>2. ASSUME NEW a \in Batches, NEW i \in InputsOf(a), state[a] = "trying"
          PROVE  [input |-> i, attempt |-> retries[a]] # call
        BY <1>3, <2>2, InputHome DEF Live
    <2>. QED
        BY <1>2, <2>1, <2>2 DEF Underway
<1>4. CASE Live(call)
    <2>1. /\ answered' = [answered EXCEPT ![call.input] = call.attempt]
          /\ state' = IF \A i \in InputsOf(b) \ {call.input} : answered[i] # None
                      THEN [state EXCEPT ![b] = "done"] ELSE state
        BY <1>4 DEF Answer
    <2>2. state[b] = "trying" /\ retries[b] = call.attempt
        BY <1>1, <1>4
    <2>. HIDE DEF b
    <2>3. /\ \A a \in Batches : a # b => state'[a] = state[a]
          /\ state'[b] \in {"trying", "done"}
          /\ state'[b] = "trying" => \E i \in InputsOf(b) \ {call.input} : answered[i] = None
        BY <1>1, <2>1, <2>2 DEF TypeOK
    <2>4. /\ answered'[call.input] # None
          /\ \A i \in Inputs : i # call.input => answered'[i] = answered[i]
        BY <1>1, <2>1, SizesPositive DEF TypeOK, None
    <2>5. \A a \in Batches : /\ state'[a] = "failed" => main' = "rejected"
                             /\ state'[a] = "idle" => GroupOf(a) # group'
        BY <1>2, <2>2, <2>3 DEF Underway
    <2>6. ASSUME NEW a \in Batches, state'[a] = "trying"
          PROVE  \E i \in InputsOf(a) : answered'[i] = None
        <3>1. CASE a = b
            <4>1. PICK i \in InputsOf(b) \ {call.input} : answered[i] = None
                BY <2>3, <2>6, <3>1
            <4>. QED
                BY <2>4, <3>1, <4>1, InputHome
        <3>2. CASE a # b
            <4>1. PICK i \in InputsOf(a) : answered[i] = None
                BY <2>3, <2>6, <3>2 DEF Underway
            <4>2. i \in Inputs /\ i # call.input
                BY <1>1, <3>2, InputHome
            <4>. QED
                BY <2>4, <4>1, <4>2
        <3>. QED
            BY <3>1, <3>2
    <2>7. ASSUME NEW a \in Batches, NEW i \in InputsOf(a), state'[a] = "trying", answered'[i] = None
          PROVE  [input |-> i, attempt |-> retries'[a]] \in inFlight'
        <3>1. i \in Inputs /\ i # call.input
            BY <2>4, <2>7, InputHome
        <3>2. answered[i] = None /\ state[a] = "trying"
            BY <2>2, <2>3, <2>4, <2>7, <3>1
        <3>3. [input |-> i, attempt |-> retries[a]] \in inFlight
            BY <3>2 DEF Underway
        <3>4. [input |-> i, attempt |-> retries[a]] # call
            BY <3>1
        <3>. QED
            BY <1>2, <3>3, <3>4
    <2>8. \A c \in inFlight' : c.attempt < issued'[c.input]
        BY <1>2 DEF Underway
    <2>. QED
        BY <2>5, <2>6, <2>7, <2>8 DEF Underway
<1>. QED
    BY <1>3, <1>4

LEMMA UnderwayFail ==
    ASSUME BatcherSound, Underway, NEW call \in inFlight, Fail(call)
    PROVE  Underway'
<1> USE DEF BatcherSound
<1> DEFINE b == BatchOf(call.input)
<1>1. /\ b \in Batches /\ call.input \in InputsOf(b)
      /\ Live(call) => state[b] = "trying" /\ retries[b] = call.attempt
    BY LiveBatch
<1>2. /\ UNCHANGED <<main, group, answered, issued, results>>
      /\ inFlight' = inFlight \ {call}
    BY DEF Fail
<1>3. CASE ~Live(call)
    <2>1. UNCHANGED <<retries, state>>
        BY <1>3 DEF Fail
    <2>2. ASSUME NEW a \in Batches, NEW i \in InputsOf(a), state[a] = "trying"
          PROVE  [input |-> i, attempt |-> retries[a]] # call
        BY <1>3, <2>2, InputHome DEF Live
    <2>. QED
        BY <1>2, <2>1, <2>2 DEF Underway
<1>4. CASE Live(call)
    <2>1. /\ retries' = [retries EXCEPT ![b] = @ + 1]
          /\ state' = [state EXCEPT ![b] = "backoff"]
        BY <1>4 DEF Fail
    <2>. HIDE DEF b
    <2>2. /\ \A a \in Batches : a # b => state'[a] = state[a] /\ retries'[a] = retries[a]
          /\ state'[b] = "backoff"
        BY <1>1, <2>1 DEF TypeOK
    <2>3. ASSUME NEW a \in Batches, NEW i \in InputsOf(a), a # b
          PROVE  [input |-> i, attempt |-> retries[a]] # call
        BY <1>1, <2>3, InputHome
    <2>. QED
        BY <1>2, <2>2, <2>3 DEF Underway
<1>. QED
    BY <1>3, <1>4

\* A sub-batch gives up only in the current group, while the request is not resolved.
LEMMA UnderwayGiveUp ==
    ASSUME BatcherSound, Underway, NEW b \in Batches, GiveUp(b)
    PROVE  Underway'
<1> USE DEF BatcherSound
<1>1. /\ state[b] = "backoff"
      /\ state' = [state EXCEPT ![b] = "failed"]
      /\ main' = IF main = "running" THEN "rejected" ELSE main
      /\ UNCHANGED <<group, retries, inFlight, answered, issued, results>>
    BY DEF GiveUp
<1>2. GroupOf(b) = group
    <2>1. group \in Nat /\ GroupOf(b) \in Nat
        BY GroupOrder DEF TypeOK
    <2>. QED
        BY <1>1, <2>1 DEF GroupBarrier
<1>3. main \notin {"pausing", "resolved"}
    BY <1>1, <1>2 DEF MainLoop, GroupComplete, BatchesOf
<1>4. main' = "rejected"
    BY <1>1, <1>3 DEF TypeOK
<1>5. \A a \in Batches : state'[a] = state[a] \/ state'[a] = "failed"
    BY <1>1 DEF TypeOK
<1>. QED
    BY <1>1, <1>4, <1>5 DEF Underway

LEMMA UnderwayAdvance ==
    ASSUME BatcherSound, Underway, main \in {"running", "pausing"},
           UNCHANGED <<retries, inFlight, answered, issued>>,
           \/ Advance
           \/ main' = "pausing" /\ UNCHANGED <<group, state>>
    PROVE  Underway'
<1> USE DEF BatcherSound
<1>1. \A b \in Batches : state[b] # "failed"
    BY DEF Underway
<1>2. \A b \in Batches : /\ state'[b] # "failed"
                         /\ state'[b] = "trying" => state[b] = "trying"
                         /\ state'[b] = "idle" => GroupOf(b) # group'
    <2>1. CASE main' = "pausing" /\ UNCHANGED <<group, state>>
        BY <1>1, <2>1 DEF Underway
    <2>2. CASE group = LastGroup /\ Advance
        BY <1>1, <2>2 DEF Underway, Advance
    <2>3. CASE group # LastGroup /\ Advance
        <3>1. /\ group' = group + 1
              /\ \A b \in Batches :
                    state'[b] = IF GroupOf(b) = group + 1 THEN "asleep" ELSE state[b]
            BY <2>3 DEF Advance
        <3>. QED
            BY <1>1, <3>1
    <2>. QED
        BY <2>1, <2>2, <2>3
<1>. QED
    BY <1>2 DEF Underway

LEMMA UnderwayNext == BatcherSound /\ Underway /\ [Next]_vars => Underway'
<1> SUFFICES ASSUME BatcherSound, Underway, [Next]_vars PROVE Underway'
    OBVIOUS
<1>1. ASSUME NEW b \in Batches, Wake(b) PROVE Underway'
    <2>1. state[b] = "asleep" /\ Try(b, 0) /\ UNCHANGED <<main, group, retries, results>>
        BY <1>1 DEF Wake
    <2>2. retries[b] = 0
        BY <2>1 DEF BatcherSound, Tries
    <2>. QED
        BY <2>1, <2>2, SizesPositive, UnderwayTry
<1>2. ASSUME NEW b \in Batches, Retry(b) PROVE Underway'
    <2>1. /\ state[b] = "backoff" /\ ~(retries[b] > retryMax)
          /\ Try(b, retries[b]) /\ UNCHANGED <<main, group, retries, results>>
        BY <1>2 DEF Retry, Exhausted
    <2>2. retries[b] <= retryMax
        BY <2>1, SizesPositive DEF BatcherSound, TypeOK
    <2>. QED
        BY <2>1, <2>2, UnderwayTry
<1>3. ASSUME NEW b \in Batches, GiveUp(b) PROVE Underway'
    BY <1>3, UnderwayGiveUp
<1>4. ASSUME NEW call \in inFlight, Answer(call) \/ Fail(call) PROVE Underway'
    BY <1>4, UnderwayAnswer, UnderwayFail
<1>5. CASE FinishGroup
    BY <1>5, UnderwayAdvance DEF FinishGroup
<1>6. CASE Resume
    BY <1>6, UnderwayAdvance DEF Resume
<1>7. CASE UNCHANGED vars
    BY <1>7 DEF vars, Underway
<1>. QED
    BY <1>1, <1>2, <1>3, <1>4, <1>5, <1>6, <1>7 DEF Next, BatchStep

LEMMA UnderwayAlways == Spec => []Underway
BY BatcherAlways, UnderwayInit, UnderwayNext, PTL DEF Spec

\* A request that has not settled, or that has left something running, can always go on:
\* no sub-batch waits for one that waits for it, and no answer is waited for in vain.
THEOREM BatcherNeverStuck == Spec => []NeverStuck
<1>1. BatcherSound /\ Underway => NeverStuck
    <2> SUFFICES ASSUME BatcherSound, Underway,
                        \A b \in Batches : /\ state[b] # "backoff"
                                           /\ state[b] = "asleep" => ~EarlierAwake(b),
                        inFlight = {},
                        main = "running" => ~GroupComplete(group),
                        main # "pausing"
                 PROVE  /\ main \in {"resolved", "rejected"}
                        /\ \A b \in Batches : state[b] \notin {"asleep", "trying", "backoff"}
        BY DEF NeverStuck
    <2>1. \A b \in Batches : state[b] # "trying"
        BY DEF Underway
    <2>2. \A b \in Batches : state[b] # "asleep"
        <3> DEFINE asleep == {b \in Batches : state[b] = "asleep"}
        <3>1. SUFFICES ASSUME asleep # {} PROVE FALSE
            OBVIOUS
        <3>2. asleep \in SUBSET Nat
            BY DEF Batches
        <3>3. PICK b \in asleep : \A a \in asleep : b <= a
            <4>. HIDE DEF asleep
            <4>. QED
                BY <3>1, <3>2, LeastNumber
        <3>4. EarlierAwake(b)
            <4>1. ASSUME NEW a \in Batches, a < b PROVE state[a] # "asleep"
                BY <3>2, <3>3, <4>1 DEF Batches
            <4>. QED
                BY <4>1 DEF EarlierAwake
        <3>. QED
            BY <3>3, <3>4
    <2>3. main # "running"
        <3>1. SUFFICES ASSUME main = "running" PROVE GroupComplete(group)
            OBVIOUS
        <3>2. ASSUME NEW b \in BatchesOf(group) PROVE state[b] = "done"
            <4>1. b \in Batches /\ GroupOf(b) = group
                BY DEF BatchesOf
            <4>2. state[b] \in {"idle", "asleep", "trying", "backoff", "done", "failed"}
                BY <4>1 DEF BatcherSound, TypeOK
            <4>3. state[b] # "idle" /\ state[b] # "failed"
                BY <3>1, <4>1 DEF Underway
            <4>. QED
                BY <2>1, <2>2, <4>1, <4>2, <4>3
        <3>. QED
            BY <3>2 DEF GroupComplete
    <2>. QED
        BY <2>1, <2>2, <2>3 DEF BatcherSound, TypeOK
<1>. QED
    BY <1>1, BatcherAlways, UnderwayAlways, PTL

\* The five parts of what is left.
LeftAttempts == {call \in [input : Inputs, attempt : 0 .. retryMax] :
                    issued[call.input] <= call.attempt}
LeftBatches == {b \in Batches : state[b] # "failed"}
LeftOutputs == {g \in 1 .. LastGroup : g > group \/ (g = group /\ main \notin {"pausing", "resolved"})}
LeftGroups == {g \in 1 .. LastGroup : group <= g /\ main # "resolved"}

Together(attempts, calls, batches, outputs, groups) ==
    {<<"attempt", call>> : call \in attempts}
    \cup {<<"call", call>> : call \in calls}
    \cup {<<"batch", b>> : b \in batches}
    \cup {<<"outputs", g>> : g \in outputs}
    \cup {<<"group", g>> : g \in groups}

LEMMA LeftParts ==
    /\ Left = Together(LeftAttempts, LeftAttempts \cup inFlight,
                       LeftBatches, LeftOutputs, LeftGroups)
    /\ Left' = Together(LeftAttempts', LeftAttempts' \cup inFlight',
                        LeftBatches', LeftOutputs', LeftGroups')
BY DEF Left, Together, LeftAttempts, LeftBatches, LeftOutputs, LeftGroups

\* Parts that do not grow, one of which shrinks, leave less.
LEMMA TogetherLess ==
    ASSUME NEW a, NEW c, NEW b, NEW o, NEW g, NEW a2, NEW c2, NEW b2, NEW o2, NEW g2,
           a2 \subseteq a, c2 \subseteq c, b2 \subseteq b, o2 \subseteq o, g2 \subseteq g,
           a2 # a \/ c2 # c \/ b2 # b \/ o2 # o \/ g2 # g
    PROVE  /\ Together(a2, c2, b2, o2, g2) \subseteq Together(a, c, b, o, g)
           /\ Together(a2, c2, b2, o2, g2) # Together(a, c, b, o, g)
<1>1. Together(a2, c2, b2, o2, g2) \subseteq Together(a, c, b, o, g)
    BY DEF Together
<1>2. PICK old : old = Together(a, c, b, o, g)
    OBVIOUS
<1>3. PICK new : new = Together(a2, c2, b2, o2, g2)
    OBVIOUS
<1>4. /\ \A x : <<"attempt", x>> \in old <=> x \in a
      /\ \A x : <<"call", x>> \in old <=> x \in c
      /\ \A x : <<"batch", x>> \in old <=> x \in b
      /\ \A x : <<"outputs", x>> \in old <=> x \in o
      /\ \A x : <<"group", x>> \in old <=> x \in g
    <2>1. \A x : <<"attempt", x>> \in old <=> x \in a
        BY <1>2 DEF Together
    <2>2. \A x : <<"call", x>> \in old <=> x \in c
        BY <1>2 DEF Together
    <2>3. \A x : <<"batch", x>> \in old <=> x \in b
        BY <1>2 DEF Together
    <2>4. \A x : <<"outputs", x>> \in old <=> x \in o
        BY <1>2 DEF Together
    <2>5. \A x : <<"group", x>> \in old <=> x \in g
        BY <1>2 DEF Together
    <2>. QED
        BY <2>1, <2>2, <2>3, <2>4, <2>5
<1>5. /\ \A x : <<"attempt", x>> \in new <=> x \in a2
      /\ \A x : <<"call", x>> \in new <=> x \in c2
      /\ \A x : <<"batch", x>> \in new <=> x \in b2
      /\ \A x : <<"outputs", x>> \in new <=> x \in o2
      /\ \A x : <<"group", x>> \in new <=> x \in g2
    <2>1. \A x : <<"attempt", x>> \in new <=> x \in a2
        BY <1>3 DEF Together
    <2>2. \A x : <<"call", x>> \in new <=> x \in c2
        BY <1>3 DEF Together
    <2>3. \A x : <<"batch", x>> \in new <=> x \in b2
        BY <1>3 DEF Together
    <2>4. \A x : <<"outputs", x>> \in new <=> x \in o2
        BY <1>3 DEF Together
    <2>5. \A x : <<"group", x>> \in new <=> x \in g2
        BY <1>3 DEF Together
    <2>. QED
        BY <2>1, <2>2, <2>3, <2>4, <2>5
<1>6. ASSUME new = old PROVE FALSE
    <2>1. a2 = a
        BY <1>4, <1>5, <1>6
    <2>2. c2 = c
        BY <1>4, <1>5, <1>6
    <2>3. b2 = b
        BY <1>4, <1>5, <1>6
    <2>4. o2 = o
        BY <1>4, <1>5, <1>6
    <2>5. g2 = g
        BY <1>4, <1>5, <1>6
    <2>. QED
        BY <2>1, <2>2, <2>3, <2>4, <2>5
<1>. QED
    BY <1>1, <1>2, <1>3, <1>6

\* An attempt uses up one attempt of each of its inputs.
LEMMA LessByTry ==
    ASSUME BatcherSound, NEW b \in Batches, state[b] \in {"asleep", "backoff"},
           retries[b] <= retryMax, Try(b, retries[b]), UNCHANGED <<main, group, retries, results>>
    PROVE  Left' \subseteq Left /\ Left' # Left
<1> USE DEF BatcherSound
<1>1. /\ state' = [state EXCEPT ![b] = "trying"]
      /\ inFlight' = inFlight \cup CallsOf(b, retries[b])
      /\ \A i \in Inputs : issued'[i] = issued[i] + IF i \in InputsOf(b) THEN 1 ELSE 0
    BY DEF Try
<1>2. PICK n \in 0 .. retryMax : n = retries[b]
    BY SizesPositive DEF TypeOK
<1>3. \A i \in InputsOf(b) : i \in Inputs /\ issued[i] = n /\ issued'[i] = n + 1
    BY <1>1, <1>2, InputHome DEF Tries
<1>4. \A i \in Inputs : issued[i] \in Nat /\ issued'[i] \in {issued[i], issued[i] + 1}
    BY <1>1 DEF TypeOK
<1>5. LeftAttempts' \subseteq LeftAttempts
    BY <1>4, SizesPositive DEF LeftAttempts
<1>6. \A c \in CallsOf(b, n) : c \in LeftAttempts /\ c \notin LeftAttempts'
    BY <1>2, <1>3 DEF LeftAttempts, CallsOf
<1>7. LeftAttempts' \cup inFlight' \subseteq LeftAttempts \cup inFlight
    BY <1>1, <1>2, <1>5, <1>6
<1>8. LeftAttempts' # LeftAttempts
    <2>1. PICK i : i \in InputsOf(b)
        BY BatchesNonEmpty
    <2>2. [input |-> i, attempt |-> n] \in CallsOf(b, n)
        BY <2>1 DEF CallsOf
    <2>. QED
        BY <1>6, <2>2
<1>9. LeftBatches' = LeftBatches /\ LeftOutputs' = LeftOutputs /\ LeftGroups' = LeftGroups
    BY <1>1 DEF LeftBatches, LeftOutputs, LeftGroups, TypeOK
<1>. QED
    BY <1>5, <1>7, <1>8, <1>9, LeftParts, TogetherLess

\* An answer or a failure settles a call for good.
LEMMA LessBySettling ==
    ASSUME BatcherSound, Underway, NEW call \in inFlight, Answer(call) \/ Fail(call)
    PROVE  Left' \subseteq Left /\ Left' # Left
<1> USE DEF BatcherSound
<1>1. inFlight' = inFlight \ {call} /\ UNCHANGED <<main, group, issued>>
    BY DEF Answer, Fail
<1>2. call.input \in Inputs /\ call.attempt \in Nat /\ call.attempt < issued[call.input]
    BY LiveBatch, SizesPositive DEF Underway
<1>3. call \notin LeftAttempts
    <2>1. issued[call.input] \in Nat
        BY <1>2 DEF TypeOK
    <2>. QED
        BY <1>2, <2>1 DEF LeftAttempts
<1>4. LeftAttempts' = LeftAttempts
    BY <1>1 DEF LeftAttempts
<1>5. /\ LeftAttempts' \cup inFlight' \subseteq LeftAttempts \cup inFlight
      /\ LeftAttempts' \cup inFlight' # LeftAttempts \cup inFlight
    BY <1>1, <1>3, <1>4
<1>6. LeftBatches' = LeftBatches
    <2>1. \A b \in Batches : state'[b] = "failed" <=> state[b] = "failed"
        <3>1. CASE ~Live(call)
            BY <3>1 DEF Answer, Fail
        <3>2. CASE Live(call)
            <4>1. BatchOf(call.input) \in Batches /\ state[BatchOf(call.input)] = "trying"
                BY <3>2, LiveBatch
            <4>. QED
                BY <3>2, <4>1 DEF Answer, Fail, TypeOK
        <3>. QED
            BY <3>1, <3>2
    <2>. QED
        BY <2>1 DEF LeftBatches
<1>7. LeftOutputs' = LeftOutputs /\ LeftGroups' = LeftGroups
    BY <1>1 DEF LeftOutputs, LeftGroups
<1>. QED
    BY <1>4, <1>5, <1>6, <1>7, LeftParts, TogetherLess

LEMMA LessByGivingUp ==
    ASSUME BatcherSound, NEW b \in Batches, GiveUp(b)
    PROVE  Left' \subseteq Left /\ Left' # Left
<1> USE DEF BatcherSound
<1>1. /\ state[b] = "backoff"
      /\ state' = [state EXCEPT ![b] = "failed"]
      /\ main' = IF main = "running" THEN "rejected" ELSE main
      /\ UNCHANGED <<group, inFlight, issued>>
    BY DEF GiveUp
<1>2. LeftAttempts' = LeftAttempts
    BY <1>1 DEF LeftAttempts
<1>3. LeftBatches' \subseteq LeftBatches /\ LeftBatches' # LeftBatches
    BY <1>1 DEF LeftBatches, TypeOK
<1>4. LeftOutputs' = LeftOutputs /\ LeftGroups' = LeftGroups
    BY <1>1 DEF LeftOutputs, LeftGroups
<1>. QED
    BY <1>1, <1>2, <1>3, <1>4, LeftParts, TogetherLess

\* The main loop hands in the outputs of a group or leaves it behind.
LEMMA LessByMain ==
    ASSUME BatcherSound, FinishGroup \/ Resume
    PROVE  Left' \subseteq Left /\ Left' # Left
<1> USE DEF BatcherSound
<1>1. /\ main \in {"running", "pausing"}
      /\ UNCHANGED <<inFlight, issued>>
      /\ \/ main = "running" /\ main' = "pausing" /\ UNCHANGED <<group, state>>
         \/ Advance
    BY DEF FinishGroup, Resume
<1>2. group \in 1 .. LastGroup /\ group \in Nat /\ LastGroup \in Nat
    BY GroupOrder DEF TypeOK
<1>3. LeftAttempts' = LeftAttempts
    BY <1>1 DEF LeftAttempts
<1>4. CASE main = "running" /\ main' = "pausing" /\ UNCHANGED <<group, state>>
    <2>1. LeftBatches' = LeftBatches /\ LeftGroups' = LeftGroups
        BY <1>4 DEF LeftBatches, LeftGroups
    <2>2. LeftOutputs' \subseteq LeftOutputs /\ group \in LeftOutputs /\ group \notin LeftOutputs'
        BY <1>2, <1>4 DEF LeftOutputs
    <2>. QED
        BY <1>1, <1>3, <2>1, <2>2, LeftParts, TogetherLess
<1>5. CASE Advance
    <2>1. \/ group = LastGroup /\ main' = "resolved" /\ UNCHANGED <<group, state>>
          \/ /\ main' = "running" /\ group' = group + 1
             /\ \A b \in Batches :
                    state'[b] = IF GroupOf(b) = group + 1 THEN "asleep" ELSE state[b]
        BY <1>5 DEF Advance
    <2>2. LeftBatches' = LeftBatches
        <3>1. \A b \in Batches : GroupOf(b) = group + 1 => state[b] = "idle"
            BY <1>2 DEF GroupBarrier
        <3>. QED
            BY <2>1, <3>1 DEF LeftBatches
    <2>3. LeftGroups' \subseteq LeftGroups /\ group \in LeftGroups /\ group \notin LeftGroups'
        BY <1>1, <1>2, <2>1 DEF LeftGroups
    <2>4. LeftOutputs' \subseteq LeftOutputs
        BY <1>2, <2>1 DEF LeftOutputs
    <2>. QED
        BY <1>1, <1>3, <2>2, <2>3, <2>4, LeftParts, TogetherLess
<1>. QED
    BY <1>1, <1>4, <1>5

\* Whatever fails and whenever, each step of a batch request uses up something of what is
\* left to do, and nothing is ever added to it.
THEOREM BatcherRunsOut == Spec => StepsRunOut
<1>1. BatcherSound /\ Underway /\ [Next]_vars => [Left' \subseteq Left /\ Left' # Left]_vars
    <2> SUFFICES ASSUME BatcherSound, Underway, Next PROVE Left' \subseteq Left /\ Left' # Left
        OBVIOUS
    <2>1. ASSUME NEW b \in Batches, Wake(b) PROVE Left' \subseteq Left /\ Left' # Left
        <3>1. state[b] = "asleep" /\ Try(b, 0) /\ UNCHANGED <<main, group, retries, results>>
            BY <2>1 DEF Wake
        <3>2. retries[b] = 0
            BY <3>1 DEF BatcherSound, Tries
        <3>. QED
            BY <3>1, <3>2, SizesPositive, LessByTry
    <2>2. ASSUME NEW b \in Batches, Retry(b) PROVE Left' \subseteq Left /\ Left' # Left
        <3>1. /\ state[b] = "backoff" /\ ~(retries[b] > retryMax)
              /\ Try(b, retries[b]) /\ UNCHANGED <<main, group, retries, results>>
            BY <2>2 DEF Retry, Exhausted
        <3>2. retries[b] <= retryMax
            BY <3>1, SizesPositive DEF BatcherSound, TypeOK
        <3>. QED
            BY <3>1, <3>2, LessByTry
    <2>3. ASSUME NEW b \in Batches, GiveUp(b) PROVE Left' \subseteq Left /\ Left' # Left
        BY <2>3, LessByGivingUp
    <2>4. ASSUME NEW call \in inFlight, Answer(call) \/ Fail(call)
          PROVE  Left' \subseteq Left /\ Left' # Left
        BY <2>4, LessBySettling
    <2>5. CASE FinishGroup \/ Resume
        BY <2>5, LessByMain
    <2>. QED
        BY <2>1, <2>2, <2>3, <2>4, <2>5 DEF Next, BatchStep
<1>. QED
    BY <1>1, BatcherAlways, UnderwayAlways, PTL DEF Spec, StepsRunOut

\* What is left to do is finite at the start, and therefore always: no request goes on
\* for ever.
THEOREM LeftIsFinite == Spec => []IsFiniteSet(Left)
<1>1. BatcherSound => IsFiniteSet(Left)
    <2> SUFFICES ASSUME BatcherSound PROVE IsFiniteSet(Left)
        OBVIOUS
    <2>1. /\ IsFiniteSet(Inputs) /\ IsFiniteSet(0 .. retryMax)
          /\ IsFiniteSet(Batches) /\ IsFiniteSet(1 .. LastGroup)
        <3>1. /\ 0 \in Int /\ 1 \in Int /\ InputCount \in Int /\ retryMax \in Int
              /\ BatchOf(InputCount) \in Int /\ LastGroup \in Int
            BY SizesPositive, BatchOrder, GroupOrder
        <3>. QED
            BY <3>1, FS_Interval DEF Inputs, Batches
    <2> DEFINE pairs == Inputs \X (0 .. retryMax)
               calls == [input : Inputs, attempt : 0 .. retryMax]
    <2>2. IsFiniteSet(calls)
        <3>1. IsFiniteSet(pairs)
            BY <2>1, FS_Product
        <3> DEFINE f == [p \in pairs |-> [input |-> p[1], attempt |-> p[2]]]
        <3>2. f \in Surjection(pairs, calls)
            <4>1. f \in [pairs -> calls]
                OBVIOUS
            <4>2. \A c \in calls : <<c.input, c.attempt>> \in pairs /\ f[<<c.input, c.attempt>>] = c
                OBVIOUS
            <4>. HIDE DEF f, pairs, calls
            <4>. QED
                BY <4>1, <4>2 DEF Surjection
        <3>. HIDE DEF f, pairs, calls
        <3>. QED
            BY <3>1, <3>2, FS_Surjection
    <2> DEFINE all == calls \cup Batches \cup (1 .. LastGroup)
               tags == {"attempt", "call", "batch", "outputs", "group"}
    <2>3. IsFiniteSet(all)
        <3>. HIDE DEF calls
        <3>. QED
            BY <2>1, <2>2, FS_Union
    <2>4. IsFiniteSet(tags)
        <3>1. tags = {"attempt"} \cup {"call"} \cup {"batch"} \cup {"outputs"} \cup {"group"}
            OBVIOUS
        <3>2. IsFiniteSet({"attempt"} \cup {"call"} \cup {"batch"})
            BY FS_Singleton, FS_Union
        <3>3. IsFiniteSet({"outputs"}) /\ IsFiniteSet({"group"})
            BY FS_Singleton
        <3>4. IsFiniteSet(({"attempt"} \cup {"call"} \cup {"batch"}) \cup {"outputs"})
            BY <3>2, <3>3, FS_Union
        <3>5. PICK T : T = ({"attempt"} \cup {"call"} \cup {"batch"}) \cup {"outputs"}
            OBVIOUS
        <3>6. IsFiniteSet(T \cup {"group"})
            BY <3>3, <3>4, <3>5, FS_Union
        <3>. QED
            BY <3>1, <3>5, <3>6
    <2>5. Left \subseteq tags \X all
        BY DEF Left, BatcherSound, TypeOK
    <2>6. IsFiniteSet(tags \X all)
        <3>. HIDE DEF tags, all
        <3>. QED
            BY <2>3, <2>4, FS_Product
    <2>. HIDE DEF tags, all
    <2>. QED
        BY <2>5, <2>6, FS_Subset
<1>. QED
    BY <1>1, BatcherAlways, PTL

=============================================================================
