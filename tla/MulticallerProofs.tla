-------------------------- MODULE MulticallerProofs --------------------------
(***************************************************************************)
(* What Multicaller guarantees for every set of calls, every limit and     *)
(* every assignment of ids, proved with TLAPS.                             *)
(***************************************************************************)
EXTENDS Multicaller, FiniteSetTheorems, WellFoundedInduction, TLAPS

\* The position of a handle in a finite set of handles is a number.
LEMMA ChunkIndexNat ==
    ASSUME NEW S \in SUBSET Calls, NEW c \in Calls, NEW size \in Nat, size > 0
    PROVE  ChunkIndex(c, S, size) \in Nat
<1> DEFINE before == {d \in S : order[d] < order[c]}
<1>1. IsFiniteSet(before)
    BY FS_Subset, ConstantsAssumption
<1>2. Cardinality(before) \in Nat
    BY <1>1, FS_CardinalityType
<1>. QED
    BY <1>2 DEF ChunkIndex

\* The number of handles pushed so far is a number.
LEMMA PushedNat == Cardinality({d \in Calls : Pushed(d)}) \in Nat
<1>1. IsFiniteSet({d \in Calls : Pushed(d)})
    BY FS_Subset, ConstantsAssumption
<1>. QED
    BY <1>1, FS_CardinalityType

\* The chunks of a drain are well formed.
LEMMA ChunksOfType ==
    ASSUME NEW S \in SUBSET Calls, NEW size \in Nat, size > 0,
           NEW n \in Nat, NEW drain \in 1 .. n
    PROVE  ChunksOf(S, size, drain) \subseteq
               [drain : 1 .. n, index : Nat, state : ChunkState, block : Nat,
                calls : SUBSET Calls]
<1> SUFFICES ASSUME NEW i \in {ChunkIndex(c, S, size) : c \in S}
             PROVE  [drain |-> drain, index |-> i, state |-> "sleeping", block |-> 0,
                     calls |-> {c \in S : ChunkIndex(c, S, size) = i}]
                    \in [drain : 1 .. n, index : Nat, state : ChunkState, block : Nat,
                         calls : SUBSET Calls]
    BY DEF ChunksOf
<1>1. i \in Nat
    BY ChunkIndexNat
<1>2. {c \in S : ChunkIndex(c, S, size) = i} \in SUBSET Calls
    OBVIOUS
<1>. QED
    BY <1>1, <1>2 DEF ChunkState

\* Every handle of a drain is in one of its chunks.
LEMMA ChunksCover ==
    ASSUME NEW S, NEW c \in S, NEW size, NEW drain
    PROVE  \E ch \in ChunksOf(S, size, drain) : c \in ch.calls
<1> DEFINE i == ChunkIndex(c, S, size)
           ch == [drain |-> drain, index |-> i, state |-> "sleeping", block |-> 0,
                  calls |-> {d \in S : ChunkIndex(d, S, size) = i}]
<1>1. ch \in ChunksOf(S, size, drain)
    BY DEF ChunksOf
<1>2. c \in ch.calls
    OBVIOUS
<1>. QED
    BY <1>1, <1>2

\* A chunk that moves on stays a chunk, and brings no other into being.
LEMMA ReplaceType ==
    ASSUME TypeOK, NEW ch \in chunks, NEW new,
           new \subseteq [drain : 1 .. Len(drains), index : Nat, state : ChunkState,
                          block : Nat, calls : SUBSET Calls],
           Replace(ch, new)
    PROVE  chunks' \subseteq [drain : 1 .. Len(drains), index : Nat, state : ChunkState,
                              block : Nat, calls : SUBSET Calls]
BY DEF TypeOK, Replace

\* Settling leaves every caller with an outcome.
LEMMA AnswerType ==
    ASSUME NEW c \in Calls, NEW h \in Nat
    PROVE  Service!Answer(c, h) \in Service!Outcomes
BY DEF Service!Answer, Service!Outcomes

LEMMA FailedType == Service!Failed \in Service!Outcomes
BY DEF Service!Failed, Service!Outcomes

\* A set of numbers has a least element.
LEMMA LeastNat ==
    ASSUME NEW T \in SUBSET Nat, T # {}
    PROVE  \E x \in T : \A y \in T : x <= y
<1> DEFINE less == OpToRel(<, Nat)
<1>1. PICK x \in T : \A y \in T : <<y, x>> \notin less
    <2>1. IsWellFoundedOn(less, Nat)
        BY NatLessThanWellFounded
    <2>. QED
        BY <2>1, WFMin
<1>2. less = {p \in Nat \X Nat : p[1] < p[2]}
    BY DEF OpToRel
<1>3. \A y \in T : ~(y < x)
    BY <1>1, <1>2
<1>. QED
    BY <1>3

\* A handle that findIndex returns for the ids of S is paired with a call of S.
LEMMA GiverIn ==
    ASSUME TypeOK, NEW S \in SUBSET Calls, NEW c \in Found(S)
    PROVE  Giver(c, S) \in S
<1> DEFINE same == {s \in S : id[s] = id[c]}
           places == {order[s] : s \in same}
<1>1. same # {} /\ places \in SUBSET Nat
    BY DEF Found, TypeOK
<1>2. PICK n \in places : \A m \in places : n <= m
    BY <1>1, LeastNat
<1>3. PICK s \in same : order[s] = n
    OBVIOUS
<1>4. IsFirst(s, S)
    BY <1>2, <1>3 DEF IsFirst
<1>5. s \in S /\ id[s] = id[c] /\ IsFirst(s, S)
    BY <1>3, <1>4
<1>. QED
    BY <1>5 DEF Giver

-----------------------------------------------------------------------------
(* Type correctness. *)

\* The program starts in a state of the declared type.
LEMMA InitType == Init => TypeOK
<1> SUFFICES ASSUME Init PROVE TypeOK
    OBVIOUS
<1>1. /\ multicallQueue \subseteq Calls
      /\ multicallTimer \in BOOLEAN
      /\ multicallMaxCount \in Limits
      /\ id \in [Calls -> Ids \cup {NoId}]
      /\ order \in [Calls -> Nat]
      /\ called \subseteq Calls
      /\ resolved \subseteq Calls
      /\ direct \subseteq Calls
      /\ chunks = {}
      /\ executions \in [Calls -> Nat]
    BY DEF Init
<1>2. drains \in Seq({"running", "failing", "ended"})
    BY DEF Init
<1>3. /\ head \in Nat
      /\ invokedAt \in [Calls -> Nat]
      /\ outcome \in [Calls -> Service!Outcomes]
    BY DEF Init, Service!Init, Service!Idle, Service!Outcomes
<1>. QED
    BY <1>1, <1>2, <1>3 DEF TypeOK

\* Handing out results, or rejections, keeps the outcomes typed.
LEMMA SettleType ==
    ASSUME TypeOK, NEW S, NEW value, SettleWith(S, value),
           \A c \in S \cap Calls : value[c] \in Service!Outcomes
    PROVE  outcome' \in [Calls -> Service!Outcomes]
BY DEF TypeOK, SettleWith

\* Every step keeps the declared type.
LEMMA NextType == TypeOK /\ [Next]_vars => TypeOK'
<1> SUFFICES ASSUME TypeOK, [Next]_vars PROVE TypeOK'
    OBVIOUS
<1> USE DEF TypeOK
<1>1. ASSUME NEW c \in Calls, QueueCall(c) PROVE TypeOK'
    <2>1. Draws[c] \subseteq Ids
        BY ConstantsAssumption
    <2>2. id' \in [Calls -> Ids \cup {NoId}]
        BY <1>1, <2>1 DEF QueueCall
    <2>3. order' \in [Calls -> Nat]
        BY <1>1, PushedNat DEF QueueCall
    <2>4. /\ outcome' \in [Calls -> Service!Outcomes]
          /\ invokedAt' \in [Calls -> Nat]
          /\ head' = head
        BY <1>1 DEF QueueCall, Service!Invoke, Service!Waiting, Service!Outcomes
    <2>. QED
        BY <1>1, <2>2, <2>3, <2>4 DEF QueueCall, work
<1>2. ASSUME NEW c \in Calls, DirectCall(c) PROVE TypeOK'
    <2>1. /\ outcome' \in [Calls -> Service!Outcomes]
          /\ invokedAt' \in [Calls -> Nat]
          /\ head' = head
        BY <1>2 DEF DirectCall, Service!Invoke, Service!Waiting, Service!Outcomes
    <2>. QED
        BY <1>2, <2>1 DEF DirectCall, array, handles, work
<1>3. ASSUME NEW c \in Calls, DirectAnswer(c) PROVE TypeOK'
    <2>1. Service!Settlements(c) \subseteq Service!Outcomes
        <3>1. Service!Blocks(c) \subseteq Nat
            BY DEF Service!Blocks, Service!PinnedBlock
        <3>. QED
            BY <3>1, AnswerType, FailedType DEF Service!Settlements
    <2>2. outcome' \in [Calls -> Service!Outcomes]
        BY <1>3, <2>1 DEF DirectAnswer
    <2>. QED
        BY <1>3, <2>2 DEF DirectAnswer, array, handles, work
<1>4. CASE TimerFires
    <2> DEFINE waiting == multicallQueue \ called
    <2>1. drains' \in Seq({"running", "failing", "ended"}) /\ Len(drains') = Len(drains) + 1
        BY <1>4 DEF TimerFires
    <2>2. multicallMaxCount \in Nat /\ multicallMaxCount > 0
        BY <1>4, ConstantsAssumption DEF TimerFires
    <2>3. ChunksOf(waiting, multicallMaxCount, Len(drains) + 1)
            \subseteq [drain : 1 .. Len(drains'), index : Nat, state : ChunkState,
                       block : Nat, calls : SUBSET Calls]
        <3>1. waiting \in SUBSET Calls /\ Len(drains) + 1 \in 1 .. Len(drains')
            BY <2>1
        <3>2. Len(drains') \in Nat
            BY <2>1
        <3>. HIDE DEF TypeOK, waiting
        <3>. QED
            BY <2>2, <3>1, <3>2, ChunksOfType
    <2>4. chunks \subseteq [drain : 1 .. Len(drains'), index : Nat, state : ChunkState,
                            block : Nat, calls : SUBSET Calls]
        BY <2>1
    <2>5. chunks' \subseteq [drain : 1 .. Len(drains'), index : Nat, state : ChunkState,
                             block : Nat, calls : SUBSET Calls]
        BY <1>4, <2>3, <2>4 DEF TimerFires
    <2>6. called' \subseteq Calls
        BY <1>4 DEF TimerFires, MarkCalled, Found
    <2>. QED
        BY <1>4, <2>1, <2>5, <2>6 DEF TimerFires, service
<1>5. CASE TimerFiresDisabled
    <2>1. drains' \in Seq({"running", "failing", "ended"}) /\ Len(drains') = Len(drains) + 1
        BY <1>5 DEF TimerFiresDisabled
    <2>2. outcome' \in [Calls -> Service!Outcomes]
        BY <1>5, SettleType, FailedType DEF TimerFiresDisabled, RejectAll
    <2>3. called' \subseteq Calls
        BY <1>5 DEF TimerFiresDisabled, MarkCalled, Found
    <2>4. chunks' \subseteq [drain : 1 .. Len(drains'), index : Nat, state : ChunkState,
                             block : Nat, calls : SUBSET Calls]
        BY <1>5, <2>1 DEF TimerFiresDisabled
    <2>. QED
        BY <1>5, <2>1, <2>2, <2>3, <2>4 DEF TimerFiresDisabled, RejectAll, DropResolved
<1>6. ASSUME NEW ch \in chunks, SendChunk(ch) PROVE TypeOK'
    <2>1. [ch EXCEPT !.state = "sent"]
            \in [drain : 1 .. Len(drains), index : Nat, state : ChunkState,
                 block : Nat, calls : SUBSET Calls]
        BY DEF ChunkState
    <2>. QED
        BY <1>6, <2>1, ReplaceType DEF SendChunk, array, handles, service
<1>7. ASSUME NEW ch \in chunks, NodeAnswers(ch) PROVE TypeOK'
    <2>1. [ch EXCEPT !.state = "answered", !.block = head]
            \in [drain : 1 .. Len(drains), index : Nat, state : ChunkState,
                 block : Nat, calls : SUBSET Calls]
        BY DEF ChunkState
    <2>2. executions' \in [Calls -> Nat]
        BY <1>7 DEF NodeAnswers
    <2>. QED
        BY <1>7, <2>1, <2>2, ReplaceType DEF NodeAnswers, array, handles, service
<1>8. ASSUME NEW ch \in chunks, ChunkResults(ch) PROVE TypeOK'
    <2>1. ch.calls \subseteq Calls /\ ch.block \in Nat
        OBVIOUS
    <2>2. \A c \in Found(ch.calls) : Giver(c, ch.calls) \in Calls
        BY <2>1, GiverIn
    <2>3. outcome' \in [Calls -> Service!Outcomes]
        BY <1>8, <2>1, <2>2, SettleType, AnswerType DEF ChunkResults
    <2>4. resolved' \subseteq Calls
        BY <1>8 DEF ChunkResults, Found
    <2>. QED
        BY <1>8, <2>3, <2>4 DEF ChunkResults, Replace
<1>9. ASSUME NEW ch \in chunks, ChunkFails(ch) PROVE TypeOK'
    <2>1. drains' \in Seq({"running", "failing", "ended"}) /\ Len(drains') = Len(drains)
        BY <1>9 DEF ChunkFails
    <2>. QED
        BY <1>9, <2>1 DEF ChunkFails, Replace, array, handles, service
<1>10. ASSUME NEW d \in DOMAIN drains, DrainFinishes(d) PROVE TypeOK'
    <2>1. drains' \in Seq({"running", "failing", "ended"}) /\ Len(drains') = Len(drains)
        BY <1>10 DEF DrainFinishes
    <2>. QED
        BY <1>10, <2>1 DEF DrainFinishes, DropResolved, handles, service
<1>11. ASSUME NEW d \in DOMAIN drains, DrainCatches(d) PROVE TypeOK'
    <2>1. drains' \in Seq({"running", "failing", "ended"}) /\ Len(drains') = Len(drains)
        BY <1>11 DEF DrainCatches
    <2>2. outcome' \in [Calls -> Service!Outcomes]
        BY <1>11, SettleType, FailedType DEF DrainCatches, RejectAll
    <2>. QED
        BY <1>11, <2>1, <2>2 DEF DrainCatches, RejectAll, DropResolved
<1>12. ASSUME NEW n \in Limits, SetMaxCount(n) PROVE TypeOK'
    BY <1>12 DEF SetMaxCount, array, handles, work, service
<1>13. CASE NewBlock
    BY <1>13 DEF NewBlock, Service!NewBlock, array, handles, work
<1>14. CASE UNCHANGED vars
    BY <1>14 DEF vars, array, handles, work, service
<1>. QED
    BY <1>1, <1>2, <1>3, <1>4, <1>5, <1>6, <1>7, <1>8, <1>9, <1>10, <1>11, <1>12, <1>13, <1>14
    DEF Next, ChunkStep, DrainStep

\* Whatever the calls, the limits and the ids drawn, the queue, the drains and
\* the chunks stay what the code takes them for.
THEOREM TypeCorrect == Spec => []TypeOK
BY InitType, NextType, PTL DEF Spec

-----------------------------------------------------------------------------
(* No call is forgotten, and no caller gets another's answer. *)

Settled(c) == outcome[c] # Service!Idle /\ outcome[c] # Service!Waiting

\* Handles belong to calls that were made and may be aggregated; a direct call
\* has none and waits; a handle marked resolved has settled its promise; a call
\* was made at a block the chain has reached.
Bookkeeping ==
    /\ \A c \in Calls : Pushed(c) => outcome[c] # Service!Idle /\ c \notin Pinned
    /\ \A c \in direct : Waiting(c) /\ ~Pushed(c)
    /\ \A c \in multicallQueue \cup called : Pushed(c)
    /\ \A c \in resolved : Settled(c)
    /\ \A c \in Calls : outcome[c] # Service!Idle => invokedAt[c] <= head

\* A chunk carries calls that were made before the node evaluated it.
ChunksSound ==
    \A ch \in chunks : \A c \in ch.calls :
        /\ Pushed(c)
        /\ ch.state = "answered" => invokedAt[c] <= ch.block /\ ch.block <= head

\* The inductive invariant.
Sound == TypeOK /\ Bookkeeping /\ ChunksSound /\ OwnAnswer /\ NoLostCall

\* What a caller can be told is told apart from having been told nothing.
LEMMA Kinds ==
    /\ Service!Idle # Service!Waiting
    /\ Service!Failed # Service!Idle /\ Service!Failed # Service!Waiting
    /\ Service!Failed.kind \notin {"result", "exception"}
    /\ Service!Idle.kind \notin {"result", "exception"}
    /\ Service!Waiting.kind \notin {"result", "exception"}
    /\ \A c, h : Service!Answer(c, h) # Service!Idle /\ Service!Answer(c, h) # Service!Waiting
<1>1. /\ Service!Idle.kind = "idle"
      /\ Service!Waiting.kind = "waiting"
      /\ Service!Failed.kind = "error"
    BY DEF Service!Idle, Service!Waiting, Service!Failed
<1>2. \A c, h : Service!Answer(c, h).kind \in {"result", "exception"}
    BY DEF Service!Answer
<1>. QED
    BY <1>1, <1>2

\* Settling promises: only callers that waited are told anything.
LEMMA Settling ==
    ASSUME TypeOK, NEW S, NEW value, SettleWith(S, value),
           \A c \in S \cap Calls : value[c] # Service!Idle /\ value[c] # Service!Waiting
    PROVE  \A c \in Calls :
               /\ Settled(c) => outcome'[c] = outcome[c]
               /\ outcome'[c] = Service!Idle <=> outcome[c] = Service!Idle
               /\ Waiting(c)' <=> Waiting(c) /\ c \notin S
               /\ Waiting(c) /\ c \in S => outcome'[c] = value[c]
               /\ ~(Waiting(c) /\ c \in S) => outcome'[c] = outcome[c]
BY Kinds DEF TypeOK, SettleWith, Settled, Waiting

\* The catch block rejects the whole queue, so that no handle is left waiting.
LEMMA Rejecting ==
    ASSUME Sound, RejectAll
    PROVE  /\ \A c \in Calls :
                 /\ Settled(c) => outcome'[c] = outcome[c]
                 /\ outcome'[c] = Service!Idle <=> outcome[c] = Service!Idle
                 /\ Waiting(c)' <=> Waiting(c) /\ c \notin multicallQueue
                 /\ outcome'[c] = outcome[c] \/ outcome'[c] = Service!Failed
           /\ multicallQueue' = {}
           /\ \A c \in resolved' : Settled(c)'
<1>1. SettleWith(multicallQueue, [c \in multicallQueue |-> Service!Failed])
    BY DEF RejectAll
<1>2. \A c \in Calls :
         /\ Settled(c) => outcome'[c] = outcome[c]
         /\ outcome'[c] = Service!Idle <=> outcome[c] = Service!Idle
         /\ Waiting(c)' <=> Waiting(c) /\ c \notin multicallQueue
         /\ outcome'[c] = outcome[c] \/ outcome'[c] = Service!Failed
    BY <1>1, Kinds, Settling DEF Sound
<1>3. multicallQueue' = {}
    BY DEF RejectAll, DropResolved
<1>4. \A c \in resolved' : Settled(c)'
    BY <1>2 DEF RejectAll, Sound, TypeOK, Bookkeeping, Settled, Waiting
<1>. QED
    BY <1>2, <1>3, <1>4

\* findIndex finds a handle whose id no other handle has, and nothing else.
LEMMA FoundAlone ==
    ASSUME TypeOK, NEW S \in SUBSET Calls, NEW c \in Calls, Alone(c)
    PROVE  /\ c \in Found(S) <=> c \in S /\ c \in multicallQueue
           /\ c \in Found(S) => Giver(c, S) = c
<1>1. IsFirst(c, multicallQueue) /\ IsFirst(c, S)
    BY DEF IsFirst, Alone, TypeOK
<1>2. \A s \in S : id[s] = id[c] <=> s = c
    BY DEF Alone
<1>3. c \in Found(S) <=> c \in S /\ c \in multicallQueue
    BY <1>1, <1>2 DEF Found
<1>4. c \in Found(S) => Giver(c, S) = c
    BY <1>1, <1>2, <1>3 DEF Giver
<1>. QED
    BY <1>3, <1>4

\* An answer stays truthful as the chain grows.
LEMMA AnswerKept ==
    ASSUME Sound, NEW c \in Calls, outcome'[c] = outcome[c], invokedAt'[c] = invokedAt[c],
           head' \in Nat, head <= head', Pushed(c) => Alone(c), Answered(c)'
    PROVE  \E h \in Service!Blocks(c)' : outcome'[c] = Service!Answer(c, h)
<1>1. PICK h \in Service!Blocks(c) : outcome[c] = Service!Answer(c, h)
    BY DEF Sound, OwnAnswer, Answered
<1>2. h \in Service!Blocks(c)'
    BY DEF Service!Blocks, Sound, TypeOK
<1>. QED
    BY <1>1, <1>2

\* Initially there is nothing to lose.
LEMMA InitSound == Init => Sound
<1> SUFFICES ASSUME Init PROVE Sound
    OBVIOUS
<1>1. TypeOK
    BY InitType
<1>2. \A c \in Calls : ~Pushed(c) /\ outcome[c] = Service!Idle
    BY DEF Init, Pushed, Service!Init
<1>3. Bookkeeping
    BY <1>2 DEF Init, Bookkeeping
<1>4. ChunksSound
    BY DEF Init, ChunksSound
<1>5. OwnAnswer
    BY <1>2, Kinds DEF OwnAnswer, Answered
<1>6. NoLostCall
    BY <1>2 DEF NoLostCall, Alone
<1>. QED
    BY <1>1, <1>3, <1>4, <1>5, <1>6 DEF Sound

\* A new call: its handle is fresh, and the timer is armed for it.
LEMMA QueueCallSound ==
    ASSUME Sound, TypeOK', NEW c \in Calls, QueueCall(c)
    PROVE  Sound'
<1> USE DEF Sound
<1>1. /\ outcome[c] = Service!Idle
      /\ outcome' = [outcome EXCEPT ![c] = Service!Waiting]
      /\ invokedAt' = [invokedAt EXCEPT ![c] = head]
      /\ head' = head
    BY DEF QueueCall, Service!Invoke
<1>2. /\ ~Pushed(c) /\ c \notin Pinned /\ c \notin direct /\ c \notin called
      /\ c \notin resolved
    BY <1>1, Kinds DEF QueueCall, Aggregates, Pinned, Bookkeeping, Settled, Waiting
<1>3. PICK i \in Ids : id' = [id EXCEPT ![c] = i]
    BY ConstantsAssumption DEF QueueCall
<1>4. \A d \in Calls : d # c =>
         /\ Pushed(d)' <=> Pushed(d)
         /\ Alone(d)' => Alone(d)
         /\ outcome'[d] = outcome[d] /\ invokedAt'[d] = invokedAt[d]
    <2> SUFFICES ASSUME NEW d \in Calls, d # c
                 PROVE  /\ Pushed(d)' <=> Pushed(d)
                        /\ Alone(d)' => Alone(d)
                        /\ outcome'[d] = outcome[d] /\ invokedAt'[d] = invokedAt[d]
        OBVIOUS
    <2>1. outcome'[d] = outcome[d] /\ invokedAt'[d] = invokedAt[d] /\ id'[d] = id[d]
        BY <1>1, <1>3 DEF TypeOK
    <2>2. Alone(d)' => Alone(d)
        BY <1>2, <1>3, <2>1 DEF Alone, Pushed, TypeOK
    <2>. QED
        BY <2>1, <2>2 DEF Pushed
<1>5. Pushed(c)' /\ Waiting(c)' /\ invokedAt'[c] = head
    BY <1>1, <1>3, ConstantsAssumption DEF Pushed, Waiting, TypeOK
<1>6. Bookkeeping'
    <2>1. \A d \in Calls : Pushed(d)' => outcome'[d] # Service!Idle /\ d \notin Pinned
        BY <1>2, <1>4, <1>5, Kinds DEF Bookkeeping, Waiting
    <2>2. \A d \in direct' : Waiting(d)' /\ ~Pushed(d)'
        BY <1>2, <1>4 DEF Bookkeeping, Waiting, QueueCall, TypeOK
    <2>3. \A d \in multicallQueue' \cup called' : Pushed(d)'
        BY <1>4, <1>5 DEF Bookkeeping, QueueCall, TypeOK
    <2>4. \A d \in resolved' : Settled(d)'
        BY <1>2, <1>4 DEF Bookkeeping, QueueCall, Settled, TypeOK
    <2>5. \A d \in Calls : outcome'[d] # Service!Idle => invokedAt'[d] <= head'
        BY <1>1, <1>4, <1>5 DEF Bookkeeping, TypeOK
    <2>. QED
        BY <2>1, <2>2, <2>3, <2>4, <2>5 DEF Bookkeeping
<1>7. ChunksSound'
    <2>1. \A ch \in chunks : \A d \in ch.calls : d \in Calls /\ d # c
        BY <1>2 DEF ChunksSound, TypeOK
    <2>. QED
        BY <1>1, <1>4, <2>1 DEF ChunksSound, QueueCall, work
<1>8. OwnAnswer'
    <2> SUFFICES ASSUME NEW d \in Calls, Answered(d)', Pushed(d)' => Alone(d)'
                 PROVE  \E h \in Service!Blocks(d)' : outcome'[d] = Service!Answer(d, h)
        BY DEF OwnAnswer
    <2>1. d # c
        BY <1>5, Kinds DEF Answered, Waiting
    <2>. QED
        BY <1>1, <1>4, <2>1, AnswerKept DEF TypeOK
<1>9. NoLostCall'
    <2> SUFFICES ASSUME NEW d \in Calls, Alone(d)', Waiting(d)'
                 PROVE  /\ d \in multicallQueue'
                        /\ \/ d \notin called' /\ multicallTimer'
                           \/ d \in called' /\ \E ch \in chunks' :
                                  d \in ch.calls /\ drains'[ch.drain] # "ended"
                           \/ d \in called' /\ \E k \in DOMAIN drains' : drains'[k] = "failing"
        BY DEF NoLostCall
    <2>1. CASE d = c
        BY <1>2, <2>1 DEF QueueCall
    <2>2. CASE d # c
        BY <1>4, <2>2 DEF QueueCall, NoLostCall, Waiting, work
    <2>. QED
        BY <2>1, <2>2
<1>. QED
    BY <1>6, <1>7, <1>8, <1>9

\* What is left to show of a step that pushes no handle, once its effect on the
\* outcomes is known.
LEMMA NoPush ==
    ASSUME TypeOK, id' = id
    PROVE  \A c \in Calls : (Pushed(c)' <=> Pushed(c)) /\ (Alone(c)' <=> Alone(c))
BY DEF Pushed, Alone

\* A call that goes its own way touches neither queue nor chunks.
LEMMA DirectCallSound ==
    ASSUME Sound, TypeOK', NEW c \in Calls, DirectCall(c)
    PROVE  Sound'
<1> USE DEF Sound
<1>1. /\ outcome[c] = Service!Idle
      /\ outcome' = [outcome EXCEPT ![c] = Service!Waiting]
      /\ invokedAt' = [invokedAt EXCEPT ![c] = head]
      /\ head' = head
    BY DEF DirectCall, Service!Invoke
<1>2. UNCHANGED <<multicallQueue, id, order, called, resolved, multicallTimer, drains, chunks>>
    BY DEF DirectCall, array, handles, work
<1>3. ~Pushed(c) /\ c \notin resolved
    BY <1>1 DEF Bookkeeping, Settled
<1>4. \A d \in Calls : (Pushed(d)' <=> Pushed(d)) /\ (Alone(d)' <=> Alone(d))
    BY <1>2, NoPush
<1>5. \A d \in Calls : d # c => outcome'[d] = outcome[d] /\ invokedAt'[d] = invokedAt[d]
    BY <1>1 DEF TypeOK
<1>6. Waiting(c)' /\ invokedAt'[c] = head
    BY <1>1 DEF Waiting, TypeOK
<1>7. Bookkeeping'
    <2>1. \A d \in Calls : Pushed(d)' => outcome'[d] # Service!Idle /\ d \notin Pinned
        BY <1>3, <1>4, <1>5 DEF Bookkeeping
    <2>2. \A d \in direct' : Waiting(d)' /\ ~Pushed(d)'
        BY <1>3, <1>4, <1>5, <1>6 DEF Bookkeeping, Waiting, DirectCall, TypeOK
    <2>3. \A d \in multicallQueue' \cup called' : Pushed(d)'
        BY <1>2, <1>4 DEF Bookkeeping, TypeOK
    <2>4. \A d \in resolved' : Settled(d)'
        BY <1>2, <1>3, <1>5 DEF Bookkeeping, Settled, TypeOK
    <2>5. \A d \in Calls : outcome'[d] # Service!Idle => invokedAt'[d] <= head'
        BY <1>1, <1>5, <1>6 DEF Bookkeeping, TypeOK
    <2>. QED
        BY <2>1, <2>2, <2>3, <2>4, <2>5 DEF Bookkeeping
<1>8. ChunksSound'
    BY <1>1, <1>2, <1>3, <1>4, <1>5 DEF ChunksSound, TypeOK
<1>9. OwnAnswer'
    <2> SUFFICES ASSUME NEW d \in Calls, Answered(d)', Pushed(d)' => Alone(d)'
                 PROVE  \E h \in Service!Blocks(d)' : outcome'[d] = Service!Answer(d, h)
        BY DEF OwnAnswer
    <2>1. d # c
        BY <1>6, Kinds DEF Answered, Waiting
    <2>. QED
        BY <1>1, <1>4, <1>5, <2>1, AnswerKept DEF TypeOK
<1>10. NoLostCall'
    <2>1. \A d \in Calls : Alone(d)' /\ Waiting(d)' => Alone(d) /\ Waiting(d)
        BY <1>3, <1>4, <1>5 DEF Alone, Waiting
    <2>. QED
        BY <1>2, <2>1 DEF NoLostCall
<1>. QED
    BY <1>7, <1>8, <1>9, <1>10

\* The answer to a direct call is one its caller may be given.
LEMMA DirectAnswerSound ==
    ASSUME Sound, TypeOK', NEW c \in Calls, DirectAnswer(c)
    PROVE  Sound'
<1> USE DEF Sound
<1>1. UNCHANGED <<multicallQueue, id, order, called, resolved, multicallTimer, drains, chunks,
                  head, invokedAt>>
    BY DEF DirectAnswer, array, handles, work
<1>2. PICK answer \in Service!Settlements(c) : outcome' = [outcome EXCEPT ![c] = answer]
    BY DEF DirectAnswer
<1>3. Waiting(c) /\ ~Pushed(c) /\ outcome'[c] = answer
    BY <1>2 DEF DirectAnswer, Bookkeeping, TypeOK
<1>4. answer # Service!Idle /\ answer # Service!Waiting
    BY Kinds DEF Service!Settlements
<1>5. \A d \in Calls : d # c => outcome'[d] = outcome[d]
    BY <1>2 DEF TypeOK
<1>6. \A d \in Calls : (Pushed(d)' <=> Pushed(d)) /\ (Alone(d)' <=> Alone(d))
    BY <1>1, NoPush
<1>7. Bookkeeping'
    <2>1. \A d \in direct' : Waiting(d)' /\ ~Pushed(d)'
        BY <1>5, <1>6 DEF DirectAnswer, Bookkeeping, Waiting, TypeOK
    <2>2. \A d \in resolved' : Settled(d)'
        BY <1>1, <1>3, <1>4, <1>5 DEF Bookkeeping, Settled, TypeOK
    <2>. QED
        BY <1>1, <1>3, <1>4, <1>5, <1>6, <2>1, <2>2, Kinds DEF Bookkeeping, TypeOK, Waiting
<1>8. ChunksSound'
    BY <1>1, <1>6 DEF ChunksSound, TypeOK
<1>9. OwnAnswer'
    <2> SUFFICES ASSUME NEW d \in Calls, Answered(d)', Pushed(d)' => Alone(d)'
                 PROVE  \E h \in Service!Blocks(d)' : outcome'[d] = Service!Answer(d, h)
        BY DEF OwnAnswer
    <2>1. CASE d = c
        <3>1. answer # Service!Failed
            BY <1>3, <2>1, Kinds DEF Answered
        <3>2. PICK h \in Service!Blocks(c) : answer = Service!Answer(c, h)
            BY <3>1 DEF Service!Settlements
        <3>3. Service!Blocks(c)' = Service!Blocks(c)
            BY <1>1 DEF Service!Blocks
        <3>. QED
            BY <1>3, <2>1, <3>2, <3>3
    <2>2. CASE d # c
        BY <1>1, <1>5, <1>6, <2>2, AnswerKept DEF TypeOK
    <2>. QED
        BY <2>1, <2>2
<1>10. NoLostCall'
    <2>1. \A d \in Calls : Alone(d)' /\ Waiting(d)' => Alone(d) /\ Waiting(d)
        BY <1>3, <1>5, <1>6 DEF Alone, Waiting
    <2>. QED
        BY <1>1, <2>1 DEF NoLostCall
<1>. QED
    BY <1>7, <1>8, <1>9, <1>10

\* A step that neither makes nor settles a call.
LEMMA QuietStep ==
    ASSUME Sound, TypeOK', UNCHANGED <<id, outcome, invokedAt, direct, resolved>>,
           head <= head', multicallQueue' \subseteq multicallQueue,
           called' \subseteq called \cup multicallQueue
    PROVE  /\ Bookkeeping'
           /\ OwnAnswer'
           /\ \A c \in Calls : /\ Pushed(c)' <=> Pushed(c)
                               /\ Alone(c)' <=> Alone(c)
                               /\ Waiting(c)' <=> Waiting(c)
<1> USE DEF Sound
<1>1. \A c \in Calls : /\ Pushed(c)' <=> Pushed(c)
                       /\ Alone(c)' <=> Alone(c)
                       /\ Waiting(c)' <=> Waiting(c)
    BY NoPush DEF Waiting
<1>2. Bookkeeping'
    <2>1. \A d \in multicallQueue' \cup called' : Pushed(d)'
        BY <1>1 DEF Bookkeeping, TypeOK
    <2>2. \A d \in direct' : Waiting(d)' /\ ~Pushed(d)'
        BY <1>1 DEF Bookkeeping, TypeOK
    <2>3. \A d \in resolved' : Settled(d)'
        BY DEF Bookkeeping, Settled
    <2>4. \A d \in Calls : outcome'[d] # Service!Idle => invokedAt'[d] <= head'
        BY DEF Bookkeeping, TypeOK
    <2>. QED
        BY <1>1, <2>1, <2>2, <2>3, <2>4 DEF Bookkeeping
<1>3. OwnAnswer'
    <2> SUFFICES ASSUME NEW d \in Calls, Answered(d)', Pushed(d)' => Alone(d)'
                 PROVE  \E h \in Service!Blocks(d)' : outcome'[d] = Service!Answer(d, h)
        BY DEF OwnAnswer
    <2>. QED
        BY <1>1, AnswerKept DEF TypeOK
<1>. QED
    BY <1>1, <1>2, <1>3

\* The timer picks up every handle that was waiting for it.
LEMMA TimerFiresSound ==
    ASSUME Sound, TypeOK', TimerFires
    PROVE  Sound'
<1> USE DEF Sound
<1> DEFINE waiting == multicallQueue \ called
           new == ChunksOf(waiting, multicallMaxCount, Len(drains) + 1)
<1>1. /\ UNCHANGED <<multicallQueue, id, outcome, invokedAt, direct, resolved, head>>
      /\ called' = called \cup Found(waiting)
      /\ chunks' = chunks \cup new
      /\ drains' = Append(drains, "running")
    BY DEF TimerFires, MarkCalled, service
<1>2. called' \subseteq called \cup multicallQueue
    BY <1>1 DEF Found
<1>3. head <= head'
    BY <1>1 DEF TypeOK
<1>4. /\ Bookkeeping'
      /\ OwnAnswer'
      /\ \A c \in Calls : /\ Pushed(c)' <=> Pushed(c)
                          /\ Alone(c)' <=> Alone(c)
                          /\ Waiting(c)' <=> Waiting(c)
    BY <1>1, <1>2, <1>3, QuietStep
<1>5. \A ch \in new : ch.calls \subseteq waiting /\ ch.state = "sleeping"
                      /\ ch.drain = Len(drains) + 1
    BY DEF ChunksOf
<1>6. ChunksSound'
    <2>1. \A c \in waiting : c \in Calls /\ Pushed(c)
        BY DEF Bookkeeping, TypeOK
    <2>. QED
        BY <1>1, <1>4, <1>5, <2>1 DEF ChunksSound, TypeOK
<1>7. NoLostCall'
    <2> SUFFICES ASSUME NEW c \in Calls, Alone(c), Waiting(c)
                 PROVE  /\ c \in multicallQueue'
                        /\ \/ c \notin called' /\ multicallTimer'
                           \/ c \in called' /\ \E ch \in chunks' :
                                  c \in ch.calls /\ drains'[ch.drain] # "ended"
                           \/ c \in called' /\ \E k \in DOMAIN drains' : drains'[k] = "failing"
        BY <1>4 DEF NoLostCall
    <2>1. c \in multicallQueue
        BY DEF NoLostCall
    <2>2. /\ drains'[Len(drains) + 1] = "running"
          /\ \A k \in DOMAIN drains : k \in DOMAIN drains' /\ drains'[k] = drains[k]
          /\ \A ch \in chunks : ch.drain \in DOMAIN drains
        BY <1>1 DEF TypeOK
    <2>3. CASE c \in called
        <3>1. CASE \E ch \in chunks : c \in ch.calls /\ drains[ch.drain] # "ended"
            BY <1>1, <2>1, <2>2, <2>3, <3>1
        <3>2. CASE \E k \in DOMAIN drains : drains[k] = "failing"
            BY <1>1, <2>1, <2>2, <2>3, <3>2 DEF TypeOK
        <3>. QED
            BY <2>3, <3>1, <3>2 DEF NoLostCall
    <2>4. CASE c \notin called
        <3>1. c \in waiting
            BY <2>1, <2>4
        <3>2. c \in Found(waiting)
            BY <2>1, <3>1, FoundAlone DEF TypeOK
        <3>3. PICK ch \in new : c \in ch.calls
            BY <3>1, ChunksCover
        <3>4. ch \in chunks'
            BY <1>1, <3>3
        <3>5. ch.drain = Len(drains) + 1
            BY <1>5, <3>3
        <3>6. drains'[ch.drain] # "ended"
            BY <2>2, <3>5
        <3>. QED
            BY <1>1, <2>1, <3>2, <3>3, <3>4, <3>6
    <2>. QED
        BY <2>3, <2>4
<1>. QED
    BY <1>4, <1>6, <1>7

\* A step that rejects the whole queue and leaves the chunks alone.
LEMMA RejectSound ==
    ASSUME Sound, TypeOK', RejectAll, UNCHANGED <<id, invokedAt, head, direct, chunks>>,
           called' \subseteq called \cup multicallQueue
    PROVE  Sound'
<1> USE DEF Sound
<1>1. /\ \A c \in Calls :
           /\ Settled(c) => outcome'[c] = outcome[c]
           /\ outcome'[c] = Service!Idle <=> outcome[c] = Service!Idle
           /\ Waiting(c)' <=> Waiting(c) /\ c \notin multicallQueue
           /\ outcome'[c] = outcome[c] \/ outcome'[c] = Service!Failed
      /\ multicallQueue' = {}
      /\ \A c \in resolved' : Settled(c)'
    BY Rejecting
<1>2. \A c \in Calls : (Pushed(c)' <=> Pushed(c)) /\ (Alone(c)' <=> Alone(c))
    BY NoPush
<1>3. Bookkeeping'
    <2>1. \A d \in direct' : Waiting(d)' /\ ~Pushed(d)'
        BY <1>1, <1>2 DEF Bookkeeping, TypeOK
    <2>2. \A d \in multicallQueue' \cup called' : Pushed(d)'
        BY <1>1, <1>2 DEF Bookkeeping, TypeOK
    <2>. QED
        BY <1>1, <1>2, <2>1, <2>2 DEF Bookkeeping
<1>4. ChunksSound'
    BY <1>2 DEF ChunksSound, TypeOK
<1>5. OwnAnswer'
    <2> SUFFICES ASSUME NEW d \in Calls, Answered(d)', Pushed(d)' => Alone(d)'
                 PROVE  \E h \in Service!Blocks(d)' : outcome'[d] = Service!Answer(d, h)
        BY DEF OwnAnswer
    <2>1. outcome'[d] = outcome[d]
        BY <1>1, Kinds DEF Answered
    <2>. QED
        BY <1>2, <2>1, AnswerKept DEF TypeOK
<1>6. NoLostCall'
    BY <1>1, <1>2 DEF NoLostCall
<1>. QED
    BY <1>3, <1>4, <1>5, <1>6

\* Steps on one chunk.
LEMMA ChunkStepSound ==
    ASSUME Sound, TypeOK', NEW ch \in chunks, ChunkStep(ch)
    PROVE  Sound'
<1> USE DEF Sound
<1>0. ch.calls \in SUBSET Calls /\ ch.drain \in DOMAIN drains /\ ch.block \in Nat
    BY DEF TypeOK
<1>1. ASSUME UNCHANGED <<array, multicallTimer, direct, drains, service>>,
             NEW new, chunks' = (chunks \ {ch}) \cup {new},
             new.calls = ch.calls, new.drain = ch.drain,
             new.state = "answered" => new.block = head
      PROVE  Sound'
    <2>1. UNCHANGED <<multicallQueue, id, called, resolved, head, outcome, invokedAt>>
        BY <1>1 DEF array, handles, service
    <2>2. /\ Bookkeeping'
          /\ OwnAnswer'
          /\ \A c \in Calls : /\ Pushed(c)' <=> Pushed(c)
                              /\ Alone(c)' <=> Alone(c)
                              /\ Waiting(c)' <=> Waiting(c)
        BY <1>1, <2>1, QuietStep DEF TypeOK
    <2>3. ChunksSound'
        <3>1. \A c \in ch.calls : invokedAt[c] <= head
            BY DEF ChunksSound, Bookkeeping, TypeOK
        <3>. QED
            BY <1>0, <1>1, <2>1, <2>2, <3>1 DEF ChunksSound, TypeOK
    <2>4. NoLostCall'
        BY <1>1, <2>1, <2>2 DEF NoLostCall
    <2>. QED
        BY <2>2, <2>3, <2>4
<1>2. CASE SendChunk(ch)
    <2> DEFINE new == [ch EXCEPT !.state = "sent"]
    <2>1. new.calls = ch.calls /\ new.drain = ch.drain /\ new.state = "sent"
        BY DEF TypeOK
    <2>2. /\ UNCHANGED <<array, multicallTimer, direct, drains, service>>
          /\ chunks' = (chunks \ {ch}) \cup {new}
        BY <1>2 DEF SendChunk, Replace
    <2>. HIDE DEF new
    <2>. QED
        BY <1>1, <2>1, <2>2
<1>3. CASE NodeAnswers(ch)
    <2> DEFINE new == [ch EXCEPT !.state = "answered", !.block = head]
    <2>1. new.calls = ch.calls /\ new.drain = ch.drain /\ new.block = head
        BY DEF TypeOK
    <2>2. /\ UNCHANGED <<array, multicallTimer, direct, drains, service>>
          /\ chunks' = (chunks \ {ch}) \cup {new}
        BY <1>3 DEF NodeAnswers, Replace
    <2>. HIDE DEF new
    <2>. QED
        BY <1>1, <2>1, <2>2
<1>4. CASE ChunkFails(ch)
    <2>1. /\ UNCHANGED <<multicallQueue, id, called, resolved, head, outcome, invokedAt,
                         direct, multicallTimer>>
          /\ chunks' = chunks \ {ch}
          /\ drains' = [drains EXCEPT ![ch.drain] = IF @ = "running" THEN "failing" ELSE @]
        BY <1>4 DEF ChunkFails, Replace, array, handles, service
    <2>2. /\ Bookkeeping'
          /\ OwnAnswer'
          /\ \A c \in Calls : /\ Pushed(c)' <=> Pushed(c)
                              /\ Alone(c)' <=> Alone(c)
                              /\ Waiting(c)' <=> Waiting(c)
        BY <2>1, QuietStep DEF TypeOK
    <2>3. ChunksSound'
        BY <2>1, <2>2 DEF ChunksSound, TypeOK
    <2>4. /\ DOMAIN drains' = DOMAIN drains
          /\ \A k \in DOMAIN drains : /\ drains[k] # "ended" => drains'[k] # "ended"
                                      /\ drains[k] = "failing" => drains'[k] = "failing"
          /\ drains[ch.drain] # "ended" => drains'[ch.drain] = "failing"
          /\ \A other \in chunks : other.drain \in DOMAIN drains
        BY <1>0, <2>1 DEF TypeOK
    <2>5. NoLostCall'
        <3> SUFFICES ASSUME NEW c \in Calls, Alone(c), Waiting(c), c \in called
                     PROVE  \/ \E other \in chunks' :
                                   c \in other.calls /\ drains'[other.drain] # "ended"
                            \/ \E k \in DOMAIN drains' : drains'[k] = "failing"
            BY <2>1, <2>2 DEF NoLostCall
        <3>1. CASE \E other \in chunks : c \in other.calls /\ drains[other.drain] # "ended"
            BY <1>0, <2>1, <2>4, <3>1
        <3>2. CASE \E k \in DOMAIN drains : drains[k] = "failing"
            BY <2>4, <3>2
        <3>. QED
            BY <3>1, <3>2 DEF NoLostCall
    <2>. QED
        BY <2>2, <2>3, <2>5
<1>5. CASE ChunkResults(ch)
    <2> DEFINE found == Found(ch.calls)
               answers == [c \in found |-> Service!Answer(Giver(c, ch.calls), ch.block)]
    <2>1. /\ UNCHANGED <<multicallQueue, id, called, head, invokedAt, direct,
                         multicallTimer, drains>>
          /\ chunks' = chunks \ {ch}
          /\ resolved' = resolved \cup found
          /\ SettleWith(found, answers)
          /\ ch.state = "answered"
        BY <1>5 DEF ChunkResults, Replace
    <2>2. \A c \in Calls :
             /\ Settled(c) => outcome'[c] = outcome[c]
             /\ outcome'[c] = Service!Idle <=> outcome[c] = Service!Idle
             /\ Waiting(c)' <=> Waiting(c) /\ c \notin found
             /\ Waiting(c) /\ c \in found => outcome'[c] = answers[c]
             /\ ~(Waiting(c) /\ c \in found) => outcome'[c] = outcome[c]
        <3>1. \A c \in found : answers[c] # Service!Idle /\ answers[c] # Service!Waiting
            BY Kinds
        <3>2. \A c \in found \cap Calls : answers[c] # Service!Idle /\ answers[c] # Service!Waiting
            BY <3>1
        <3>. HIDE DEF answers, found
        <3>. QED
            BY <2>1, <3>2, Settling
    <2>3. \A c \in Calls : (Pushed(c)' <=> Pushed(c)) /\ (Alone(c)' <=> Alone(c))
        BY <2>1, NoPush
    <2>4. found \subseteq multicallQueue
        BY DEF Found
    <2>5. Bookkeeping'
        <3>1. \A d \in direct' : Waiting(d)' /\ ~Pushed(d)'
            BY <2>1, <2>2, <2>3, <2>4 DEF Bookkeeping, TypeOK
        <3>2. \A d \in resolved' : Settled(d)'
            BY <2>1, <2>2, <2>4 DEF Bookkeeping, Settled, Waiting, TypeOK
        <3>. QED
            BY <2>1, <2>2, <2>3, <3>1, <3>2 DEF Bookkeeping, TypeOK
    <2>6. ChunksSound'
        BY <2>1, <2>3 DEF ChunksSound, TypeOK
    <2>7. OwnAnswer'
        <3> SUFFICES ASSUME NEW c \in Calls, Answered(c)', Pushed(c)' => Alone(c)'
                     PROVE  \E h \in Service!Blocks(c)' : outcome'[c] = Service!Answer(c, h)
            BY DEF OwnAnswer
        <3>1. CASE Waiting(c) /\ c \in found
            <4>1. Pushed(c) /\ c \notin Pinned /\ Alone(c)
                BY <2>3, <2>4, <3>1 DEF Bookkeeping
            <4>2. c \in ch.calls /\ Giver(c, ch.calls) = c
                BY <1>0, <3>1, <4>1, FoundAlone
            <4>3. outcome'[c] = Service!Answer(c, ch.block)
                BY <2>2, <3>1, <4>2
            <4>4. ch.block \in invokedAt[c] .. head
                BY <1>0, <2>1, <4>2 DEF ChunksSound, TypeOK
            <4>5. ch.block \in Service!Blocks(c)'
                BY <2>1, <4>1, <4>4 DEF Service!Blocks
            <4>. QED
                BY <4>3, <4>5
        <3>2. CASE ~(Waiting(c) /\ c \in found)
            <4>1. outcome'[c] = outcome[c]
                BY <2>2, <3>2
            <4>. QED
                BY <2>1, <2>3, <4>1, AnswerKept DEF TypeOK
        <3>. QED
            BY <3>1, <3>2
    <2>8. NoLostCall'
        <3> SUFFICES ASSUME NEW c \in Calls, Alone(c), Waiting(c), c \notin found
                     PROVE  /\ c \in multicallQueue'
                            /\ \/ c \notin called' /\ multicallTimer'
                               \/ c \in called' /\ \E other \in chunks' :
                                      c \in other.calls /\ drains'[other.drain] # "ended"
                               \/ c \in called' /\ \E k \in DOMAIN drains' :
                                      drains'[k] = "failing"
            BY <2>2, <2>3 DEF NoLostCall
        <3>1. c \notin ch.calls
            BY <1>0, FoundAlone DEF NoLostCall
        <3>. QED
            BY <2>1, <3>1 DEF NoLostCall
    <2>. QED
        BY <2>5, <2>6, <2>7, <2>8
<1>. QED
    BY <1>2, <1>3, <1>4, <1>5 DEF ChunkStep

\* The end of a drain.
LEMMA DrainStepSound ==
    ASSUME Sound, TypeOK', NEW d \in DOMAIN drains, DrainStep(d)
    PROVE  Sound'
<1> USE DEF Sound
<1>1. CASE DrainFinishes(d)
    <2>1. /\ UNCHANGED <<id, called, resolved, head, outcome, invokedAt, direct,
                         multicallTimer, chunks>>
          /\ multicallQueue' = multicallQueue \ resolved
          /\ drains' = [drains EXCEPT ![d] = "ended"]
          /\ drains[d] = "running"
          /\ \A ch \in chunks : ch.drain # d
        BY <1>1 DEF DrainFinishes, DropResolved, handles, service
    <2>2. /\ Bookkeeping'
          /\ OwnAnswer'
          /\ \A c \in Calls : /\ Pushed(c)' <=> Pushed(c)
                              /\ Alone(c)' <=> Alone(c)
                              /\ Waiting(c)' <=> Waiting(c)
        BY <2>1, QuietStep DEF TypeOK
    <2>3. ChunksSound'
        BY <2>1, <2>2 DEF ChunksSound, TypeOK
    <2>4. /\ DOMAIN drains' = DOMAIN drains
          /\ \A k \in DOMAIN drains : k # d => drains'[k] = drains[k]
          /\ \A ch \in chunks : ch.drain \in DOMAIN drains
        BY <2>1 DEF TypeOK
    <2>5. NoLostCall'
        <3> SUFFICES ASSUME NEW c \in Calls, Alone(c), Waiting(c)
                     PROVE  /\ c \in multicallQueue'
                            /\ \/ c \notin called' /\ multicallTimer'
                               \/ c \in called' /\ \E ch \in chunks' :
                                      c \in ch.calls /\ drains'[ch.drain] # "ended"
                               \/ c \in called' /\ \E k \in DOMAIN drains' :
                                      drains'[k] = "failing"
            BY <2>2 DEF NoLostCall
        <3>1. c \notin resolved
            BY Kinds DEF Bookkeeping, Settled, Waiting
        <3>2. c \in multicallQueue'
            BY <2>1, <3>1 DEF NoLostCall
        <3>3. CASE c \notin called /\ multicallTimer
            BY <2>1, <3>2, <3>3
        <3>4. CASE c \in called /\ \E ch \in chunks : c \in ch.calls /\ drains[ch.drain] # "ended"
            BY <2>1, <2>4, <3>2, <3>4
        <3>5. CASE c \in called /\ \E k \in DOMAIN drains : drains[k] = "failing"
            BY <2>1, <2>4, <3>2, <3>5
        <3>. QED
            BY <3>3, <3>4, <3>5 DEF NoLostCall
    <2>. QED
        BY <2>2, <2>3, <2>5
<1>2. CASE DrainCatches(d)
    <2>1. /\ RejectAll
          /\ UNCHANGED <<id, invokedAt, head, direct, chunks, called>>
        BY <1>2 DEF DrainCatches
    <2>. QED
        BY <2>1, RejectSound
<1>. QED
    BY <1>1, <1>2 DEF DrainStep

\* Steps outside the aggregator.
LEMMA OtherStepSound ==
    ASSUME Sound, TypeOK',
           \/ \E n \in Limits : SetMaxCount(n)
           \/ NewBlock
           \/ UNCHANGED vars
    PROVE  Sound'
<1> USE DEF Sound
<1>1. /\ UNCHANGED <<multicallQueue, id, called, resolved, outcome, invokedAt, direct,
                     multicallTimer, chunks, drains>>
      /\ head' = head \/ head' = head + 1
    BY DEF SetMaxCount, NewBlock, Service!NewBlock, vars, array, handles, work, service
<1>2. head \in Nat /\ head <= head'
    BY <1>1 DEF TypeOK
<1>3. /\ Bookkeeping'
      /\ OwnAnswer'
      /\ \A c \in Calls : /\ Pushed(c)' <=> Pushed(c)
                          /\ Alone(c)' <=> Alone(c)
                          /\ Waiting(c)' <=> Waiting(c)
    BY <1>1, <1>2, QuietStep
<1>4. ChunksSound'
    BY <1>1, <1>2, <1>3 DEF ChunksSound, TypeOK
<1>5. NoLostCall'
    BY <1>1, <1>3 DEF NoLostCall
<1>. QED
    BY <1>3, <1>4, <1>5

\* The invariant is inductive.
LEMMA NextSound == Sound /\ [Next]_vars => Sound'
<1> SUFFICES ASSUME Sound, [Next]_vars PROVE Sound'
    OBVIOUS
<1>1. TypeOK'
    BY NextType DEF Sound
<1>2. ASSUME NEW c \in Calls, QueueCall(c) \/ DirectCall(c) \/ DirectAnswer(c) PROVE Sound'
    BY <1>1, <1>2, QueueCallSound, DirectCallSound, DirectAnswerSound
<1>3. CASE TimerFires
    BY <1>1, <1>3, TimerFiresSound
<1>4. CASE TimerFiresDisabled
    <2>1. called' \subseteq called \cup multicallQueue
        BY <1>4 DEF TimerFiresDisabled, MarkCalled, Found
    <2>. QED
        BY <1>1, <1>4, <2>1, RejectSound DEF TimerFiresDisabled
<1>5. ASSUME NEW ch \in chunks, ChunkStep(ch) PROVE Sound'
    BY <1>1, <1>5, ChunkStepSound
<1>6. ASSUME NEW d \in DOMAIN drains, DrainStep(d) PROVE Sound'
    BY <1>1, <1>6, DrainStepSound
<1>7. CASE (\E n \in Limits : SetMaxCount(n)) \/ NewBlock \/ UNCHANGED vars
    BY <1>1, <1>7, OtherStepSound
<1>. QED
    BY <1>2, <1>3, <1>4, <1>5, <1>6, <1>7 DEF Next

\* Every behaviour of the multicaller satisfies the invariant.
LEMMA SoundAlways == Spec => []Sound
BY InitSound, NextSound, PTL DEF Spec

\* Whatever the calls, limits, failures and ids, a caller whose handle shares its
\* id with no other is told nothing but the answer to its own call, evaluated at
\* a block reached while the call was pending.
THEOREM AnswersAreOwn == Spec => []OwnAnswer
<1>1. Sound => OwnAnswer
    BY DEF Sound
<1>. QED
    BY <1>1, SoundAlways, PTL

\* And while it waits, its handle is in the queue and some timer, chunk or failing
\* drain is there to settle it: no interleaving of drains forgets a call.
THEOREM NoCallIsLost == Spec => []NoLostCall
<1>1. Sound => NoLostCall
    BY DEF Sound
<1>. QED
    BY <1>1, SoundAlways, PTL

-----------------------------------------------------------------------------
(* A reverting call fails alone. *)

\* Calls may fail within an aggregate, but no aggregate fails as a whole.
Calm == AllowFailure /\ ~Unreliable /\ 0 \notin Limits

\* No drain fails, and nobody is told of a failure.
Unharmed ==
    /\ \A d \in DOMAIN drains : drains[d] # "failing"
    /\ \A c \in Calls : outcome[c] # Service!Failed

\* Nothing is rejected as long as no drain fails.
LEMMA UnharmedStep ==
    ASSUME Calm, TypeOK, TypeOK', Unharmed, [Next]_vars
    PROVE  Unharmed'
<1>1. ASSUME NEW c \in Calls, QueueCall(c) \/ DirectCall(c) PROVE Unharmed'
    <2>1. drains' = drains /\ outcome' = [outcome EXCEPT ![c] = Service!Waiting]
        BY <1>1 DEF QueueCall, DirectCall, Service!Invoke, work
    <2>. QED
        BY <2>1, Kinds DEF Unharmed, TypeOK
<1>2. ASSUME NEW c \in Calls, DirectAnswer(c) PROVE Unharmed'
    <2>1. PICK answer \in Service!Settlements(c) :
             answer # Service!Failed /\ outcome' = [outcome EXCEPT ![c] = answer]
        BY <1>2 DEF DirectAnswer, Calm
    <2>2. drains' = drains
        BY <1>2 DEF DirectAnswer, work
    <2>. QED
        BY <2>1, <2>2 DEF Unharmed, TypeOK
<1>3. CASE TimerFires
    <2>1. outcome' = outcome /\ drains' = Append(drains, "running")
        BY <1>3 DEF TimerFires, service
    <2>. QED
        BY <2>1 DEF Unharmed, TypeOK
<1>4. ~TimerFiresDisabled
    BY DEF TimerFiresDisabled, TypeOK, Calm
<1>5. ASSUME NEW ch \in chunks, ChunkStep(ch) PROVE Unharmed'
    <2>1. ~ChunkFails(ch)
        BY DEF ChunkFails, CanFail, Evaluable, Calm
    <2>2. drains' = drains
        BY <1>5, <2>1 DEF ChunkStep, SendChunk, NodeAnswers, ChunkResults
    <2>3. \A c \in Calls : outcome'[c] # Service!Failed
        <3>1. CASE outcome' = outcome
            BY <3>1 DEF Unharmed
        <3>2. CASE ChunkResults(ch)
            <4>1. \A c, h : Service!Answer(c, h) # Service!Failed
                BY Kinds DEF Service!Answer
            <4>. QED
                BY <3>2, <4>1 DEF ChunkResults, SettleWith, Unharmed
        <3>. QED
            BY <1>5, <2>1, <3>1, <3>2 DEF ChunkStep, SendChunk, NodeAnswers, service
    <2>. QED
        BY <2>2, <2>3 DEF Unharmed
<1>6. ASSUME NEW d \in DOMAIN drains, DrainStep(d) PROVE Unharmed'
    <2>1. DrainFinishes(d)
        BY <1>6 DEF DrainStep, DrainCatches, Unharmed
    <2>2. outcome' = outcome /\ drains' = [drains EXCEPT ![d] = "ended"]
        BY <2>1 DEF DrainFinishes, service
    <2>. QED
        BY <2>2 DEF Unharmed, TypeOK
<1>7. CASE (\E n \in Limits : SetMaxCount(n)) \/ NewBlock \/ UNCHANGED vars
    BY <1>7 DEF SetMaxCount, NewBlock, Service!NewBlock, vars, work, service, Unharmed
<1>. QED
    BY <1>1, <1>2, <1>3, <1>4, <1>5, <1>6, <1>7 DEF Next

\* With multicallAllowFailure, over a connection that does not fail, a reverting
\* call costs none of its neighbours their answer, whatever ids are drawn.
THEOREM RevertsAreIsolated == Spec => []RevertIsolated
<1>1. CASE Calm
    <2>1. Init => Unharmed
        BY Kinds DEF Init, Unharmed, Service!Init
    <2>2. TypeOK /\ TypeOK' /\ Unharmed /\ [Next]_vars => Unharmed'
        BY <1>1, UnharmedStep
    <2>3. Unharmed => RevertIsolated
        BY DEF Unharmed, RevertIsolated
    <2>. QED
        BY <2>1, <2>2, <2>3, TypeCorrect, PTL DEF Spec
<1>2. CASE ~Calm
    <2>1. RevertIsolated
        BY <1>2 DEF Calm, RevertIsolated
    <2>. QED
        BY <2>1, PTL
<1>. QED
    BY <1>1, <1>2
=============================================================================
