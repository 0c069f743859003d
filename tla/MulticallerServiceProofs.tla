---------------------- MODULE MulticallerServiceProofs ---------------------
(***************************************************************************)
(* What the node and the callers see of the multicaller.                   *)
(* No call is put to the node twice, and no settled handle is left behind. *)
(* Both rest on where the handle of a call may be: MulticallerProofs says  *)
(* that a waiting call is in some chunk, this module that a call is in no  *)
(* more than one and that its handle is gone when the chunk's drain ends.  *)
(* Its second part shows that the multicaller implements CallService.      *)
(***************************************************************************)
EXTENDS MulticallerProofs

\* A call that no drain marked is in no chunk; one that was marked is in at most
\* one, and the node sees it only when that chunk moves from sent to answered.
PlacedOnce ==
    /\ \A c \in Calls : ~Pushed(c) => executions[c] = 0
    /\ \A c \in Calls : Alone(c) =>
          /\ c \notin called => executions[c] = 0 /\ \A ch \in chunks : c \notin ch.calls
          /\ \A ch, other \in chunks : c \in ch.calls /\ c \in other.calls => ch = other
          /\ \A ch \in chunks : c \in ch.calls /\ ch.state # "answered" => executions[c] = 0
          /\ executions[c] <= 1

\* When a drain has ended, the handles it sent are no longer in the array; and a
\* settled handle still in the array has a drain to come that will drop it.
Released ==
    /\ \A ch \in chunks : drains[ch.drain] = "ended" => ch.calls \cap multicallQueue = {}
    /\ \A c \in multicallQueue : Alone(c) /\ ~Waiting(c) =>
          c \in resolved /\ \E d \in DOMAIN drains : drains[d] # "ended"

\* The inductive invariant.
SoundOnce == Sound /\ PlacedOnce /\ Released

\* Initially no call has a handle and no chunk exists.
LEMMA InitOnce == Init => SoundOnce
<1> SUFFICES ASSUME Init PROVE SoundOnce
    OBVIOUS
<1>1. Sound
    BY InitSound
<1>2. PlacedOnce
    BY DEF Init, PlacedOnce, Alone, Pushed
<1>3. Released
    BY DEF Init, Released
<1>. QED
    BY <1>1, <1>2, <1>3 DEF SoundOnce

-----------------------------------------------------------------------------
(* Chunks *)

\* Two chunks of one drain share no call.
LEMMA ChunksApart ==
    ASSUME NEW S, NEW size, NEW drain, NEW c,
           NEW ch \in ChunksOf(S, size, drain), NEW other \in ChunksOf(S, size, drain),
           c \in ch.calls, c \in other.calls
    PROVE  ch = other
<1> DEFINE Chunk(i) == [drain |-> drain, index |-> i, state |-> "sleeping", block |-> 0,
                        calls |-> {d \in S : ChunkIndex(d, S, size) = i}]
<1>1. PICK i : ch = Chunk(i)
    BY DEF ChunksOf
<1>2. PICK j : other = Chunk(j)
    BY DEF ChunksOf
<1>3. ChunkIndex(c, S, size) = i /\ ChunkIndex(c, S, size) = j
    BY <1>1, <1>2
<1>. QED
    BY <1>1, <1>2, <1>3

\* A step that forms, moves and evaluates no chunk.
LEMMA UnmovedOnce ==
    ASSUME TypeOK, PlacedOnce, UNCHANGED <<id, chunks, executions>>, called \subseteq called'
    PROVE  PlacedOnce'
<1>1. \A c \in Calls : (Pushed(c)' <=> Pushed(c)) /\ (Alone(c)' <=> Alone(c))
    BY NoPush
<1>. QED
    BY <1>1 DEF PlacedOnce

\* A new handle is in no chunk, as its call was not made before.
LEMMA QueueCallOnce ==
    ASSUME SoundOnce, Sound', NEW c \in Calls, QueueCall(c)
    PROVE  SoundOnce'
<1> USE DEF SoundOnce, Sound
<1>1. /\ UNCHANGED <<called, resolved, chunks, drains, executions>>
      /\ multicallQueue' = multicallQueue \cup {c}
    BY DEF QueueCall, work
<1>2. /\ outcome[c] = Service!Idle
      /\ outcome' = [outcome EXCEPT ![c] = Service!Waiting]
    BY DEF QueueCall, Service!Invoke
<1>3. ~Pushed(c) /\ c \notin called
    BY <1>2 DEF Bookkeeping
<1>4. PICK i \in Ids : id' = [id EXCEPT ![c] = i]
    BY ConstantsAssumption DEF QueueCall
<1>5. \A ch \in chunks : c \notin ch.calls
    BY <1>3 DEF ChunksSound
<1>6. \A d \in Calls : d # c =>
         /\ Pushed(d)' <=> Pushed(d)
         /\ Alone(d)' => Alone(d)
         /\ Waiting(d)' <=> Waiting(d)
    <2> SUFFICES ASSUME NEW d \in Calls, d # c
                 PROVE  /\ Pushed(d)' <=> Pushed(d)
                        /\ Alone(d)' => Alone(d)
                        /\ Waiting(d)' <=> Waiting(d)
        OBVIOUS
    <2>1. outcome'[d] = outcome[d] /\ id'[d] = id[d]
        BY <1>2, <1>4 DEF TypeOK
    <2>2. Alone(d)' => Alone(d)
        BY <1>3, <1>4, <2>1 DEF Alone, Pushed, TypeOK
    <2>. QED
        BY <2>1, <2>2 DEF Pushed, Waiting
<1>7. Pushed(c)' /\ Waiting(c)'
    BY <1>2, <1>4, ConstantsAssumption DEF Pushed, Waiting, TypeOK
<1>8. executions[c] = 0
    BY <1>3 DEF PlacedOnce
<1>9. PlacedOnce'
    BY <1>1, <1>3, <1>5, <1>6, <1>7, <1>8 DEF PlacedOnce
<1>10. Released'
    BY <1>1, <1>5, <1>6, <1>7 DEF Released, TypeOK
<1>. QED
    BY <1>9, <1>10

\* The answer to a direct call, or the making of one, moves no handle.
LEMMA DirectOnce ==
    ASSUME SoundOnce, Sound', NEW c \in Calls, DirectCall(c) \/ DirectAnswer(c)
    PROVE  SoundOnce'
<1> USE DEF SoundOnce, Sound
<1>1. UNCHANGED <<multicallQueue, id, called, resolved, chunks, drains, executions>>
    BY DEF DirectCall, DirectAnswer, array, handles, work
<1>2. ~Pushed(c)
    BY DEF DirectCall, DirectAnswer, Service!Invoke, Bookkeeping
<1>3. \A d \in Calls : d # c => outcome'[d] = outcome[d]
    BY DEF DirectCall, DirectAnswer, Service!Invoke, TypeOK
<1>4. \A d \in Calls : (Pushed(d)' <=> Pushed(d)) /\ (Alone(d)' <=> Alone(d))
    BY <1>1, NoPush
<1>5. PlacedOnce'
    BY <1>1, UnmovedOnce
<1>6. \A d \in multicallQueue : d \in Calls /\ d # c
    BY <1>2 DEF Bookkeeping, TypeOK
<1>7. Released'
    BY <1>1, <1>3, <1>4, <1>6 DEF Released, Waiting
<1>. QED
    BY <1>5, <1>7

\* The timer puts each unmarked handle into one chunk, and marks it.
LEMMA TimerFiresOnce ==
    ASSUME SoundOnce, Sound', TimerFires
    PROVE  SoundOnce'
<1> USE DEF SoundOnce, Sound
<1> DEFINE waiting == multicallQueue \ called
           new == ChunksOf(waiting, multicallMaxCount, Len(drains) + 1)
<1>1. /\ UNCHANGED <<multicallQueue, id, outcome, resolved, executions>>
      /\ called' = called \cup Found(waiting)
      /\ chunks' = chunks \cup new
      /\ drains' = Append(drains, "running")
    BY DEF TimerFires, MarkCalled, service, work
<1>2. \A c \in Calls : /\ Pushed(c)' <=> Pushed(c)
                       /\ Alone(c)' <=> Alone(c)
                       /\ Waiting(c)' <=> Waiting(c)
    BY <1>1, NoPush DEF Waiting
<1>3. \A ch \in new : ch.calls \subseteq waiting /\ ch.drain = Len(drains) + 1
    BY DEF ChunksOf
<1>4. /\ drains'[Len(drains) + 1] = "running"
      /\ \A k \in DOMAIN drains : k \in DOMAIN drains' /\ drains'[k] = drains[k]
      /\ \A ch \in chunks : ch.drain \in DOMAIN drains
    BY <1>1 DEF TypeOK
<1>5. PlacedOnce'
    <2> SUFFICES ASSUME NEW c \in Calls, Alone(c)
                 PROVE  /\ c \notin called' =>
                               executions[c] = 0 /\ \A ch \in chunks' : c \notin ch.calls
                        /\ \A ch, other \in chunks' :
                              c \in ch.calls /\ c \in other.calls => ch = other
                        /\ \A ch \in chunks' :
                              c \in ch.calls /\ ch.state # "answered" => executions[c] = 0
                        /\ executions[c] <= 1
        BY <1>1, <1>2 DEF PlacedOnce
    <2>1. c \in waiting => c \in called'
        BY <1>1, FoundAlone DEF TypeOK
    <2>2. \A ch, other \in chunks : c \in ch.calls /\ c \in other.calls => ch = other
        BY DEF PlacedOnce
    <2>3. \A ch, other \in new : c \in ch.calls /\ c \in other.calls => ch = other
        BY ChunksApart
    <2>4. \A ch \in new : c \in ch.calls => c \notin called
        BY <1>3
    <2>5. c \notin called => executions[c] = 0 /\ \A ch \in chunks : c \notin ch.calls
        BY DEF PlacedOnce
    <2>6. \A ch \in chunks : c \in ch.calls /\ ch.state # "answered" => executions[c] = 0
        BY DEF PlacedOnce
    <2>7. executions[c] <= 1
        BY DEF PlacedOnce
    <2>. HIDE DEF new
    <2>8. \A ch, other \in chunks' : c \in ch.calls /\ c \in other.calls => ch = other
        BY <1>1, <2>2, <2>3, <2>4, <2>5
    <2>9. \A ch \in chunks' : c \in ch.calls /\ ch.state # "answered" => executions[c] = 0
        BY <1>1, <2>4, <2>5, <2>6
    <2>10. c \notin called' => executions[c] = 0 /\ \A ch \in chunks' : c \notin ch.calls
        BY <1>1, <1>3, <2>1, <2>5
    <2>. QED
        BY <2>7, <2>8, <2>9, <2>10
<1>6. Released'
    <2>1. \A ch \in chunks' : drains'[ch.drain] = "ended" => ch.calls \cap multicallQueue' = {}
        <3> SUFFICES ASSUME NEW ch \in chunks', drains'[ch.drain] = "ended"
                     PROVE  ch.calls \cap multicallQueue' = {}
            OBVIOUS
        <3>1. ch \notin new
            BY <1>3, <1>4
        <3>2. ch \in chunks
            BY <1>1, <3>1
        <3>3. drains[ch.drain] = "ended"
            BY <1>4, <3>2
        <3>. QED
            BY <1>1, <3>2, <3>3 DEF Released
    <2>2. \A c \in multicallQueue' : Alone(c)' /\ ~Waiting(c)' =>
              c \in resolved' /\ \E d \in DOMAIN drains' : drains'[d] # "ended"
        BY <1>1, <1>2, <1>4 DEF Released, TypeOK
    <2>. QED
        BY <2>1, <2>2 DEF Released
<1>. QED
    BY <1>5, <1>6

\* A step that rejects the whole queue empties the array.
LEMMA RejectOnce ==
    ASSUME SoundOnce, Sound', RejectAll, UNCHANGED <<id, chunks, executions>>,
           called \subseteq called'
    PROVE  SoundOnce'
<1>1. multicallQueue' = {}
    BY Rejecting DEF SoundOnce
<1>2. Released'
    BY <1>1 DEF Released
<1>3. PlacedOnce'
    BY UnmovedOnce DEF SoundOnce, Sound
<1>. QED
    BY <1>2, <1>3 DEF SoundOnce

-----------------------------------------------------------------------------
(* Steps on one chunk *)

\* A chunk that is sent, or evaluated, stays the only one of its calls.
LEMMA ChunkMovesOnce ==
    ASSUME SoundOnce, Sound', NEW ch \in chunks, SendChunk(ch) \/ NodeAnswers(ch)
    PROVE  SoundOnce'
<1> USE DEF SoundOnce, Sound
<1>0. ch.calls \in SUBSET Calls /\ ch.drain \in DOMAIN drains
    BY DEF TypeOK
<1>1. PICK new : /\ chunks' = (chunks \ {ch}) \cup {new}
                 /\ new.calls = ch.calls /\ new.drain = ch.drain
                 /\ new.state = (IF SendChunk(ch) THEN "sent" ELSE "answered")
    <2>1. CASE SendChunk(ch)
        <3> DEFINE sent == [ch EXCEPT !.state = "sent"]
        <3>1. sent.calls = ch.calls /\ sent.drain = ch.drain /\ sent.state = "sent"
            BY DEF TypeOK
        <3>2. chunks' = (chunks \ {ch}) \cup {sent}
            BY <2>1 DEF SendChunk, Replace
        <3>. HIDE DEF sent
        <3>. QED
            BY <2>1, <3>1, <3>2
    <2>2. CASE NodeAnswers(ch) /\ ~SendChunk(ch)
        <3> DEFINE done == [ch EXCEPT !.state = "answered", !.block = head]
        <3>1. done.calls = ch.calls /\ done.drain = ch.drain /\ done.state = "answered"
            BY DEF TypeOK
        <3>2. chunks' = (chunks \ {ch}) \cup {done}
            BY <2>2 DEF NodeAnswers, Replace
        <3>. HIDE DEF done
        <3>. QED
            BY <2>2, <3>1, <3>2
    <2>. QED
        BY <2>1, <2>2
<1>2. UNCHANGED <<multicallQueue, id, called, resolved, drains, outcome>>
    BY DEF SendChunk, NodeAnswers, array, handles, service
<1>3. \A c \in Calls : /\ Pushed(c)' <=> Pushed(c)
                       /\ Alone(c)' <=> Alone(c)
                       /\ Waiting(c)' <=> Waiting(c)
    BY <1>2, NoPush DEF Waiting
<1>4. ch.state # "answered"
    BY DEF SendChunk, NodeAnswers
<1>5. /\ SendChunk(ch) => executions' = executions
      /\ ~SendChunk(ch) => \A c \in Calls :
            executions'[c] = executions[c] + IF c \in ch.calls THEN 1 ELSE 0
    BY DEF SendChunk, NodeAnswers
<1>6. \A c \in Calls : executions[c] \in Nat
    BY DEF TypeOK
<1>7. PlacedOnce'
    <2>1. \A c \in Calls : ~Pushed(c)' => executions'[c] = 0
        BY <1>0, <1>3, <1>5 DEF PlacedOnce, ChunksSound
    <2> SUFFICES ASSUME NEW c \in Calls, Alone(c)
                 PROVE  /\ c \notin called' =>
                               executions'[c] = 0 /\ \A other \in chunks' : c \notin other.calls
                        /\ \A one, other \in chunks' :
                              c \in one.calls /\ c \in other.calls => one = other
                        /\ \A other \in chunks' :
                              c \in other.calls /\ other.state # "answered" => executions'[c] = 0
                        /\ executions'[c] <= 1
        BY <1>3, <2>1 DEF PlacedOnce
    <2>2. CASE c \in ch.calls
        <3>1. \A other \in chunks' : c \in other.calls => other = new
            BY <1>1, <2>2 DEF PlacedOnce
        <3>2. c \in called /\ executions[c] = 0
            BY <1>4, <2>2 DEF PlacedOnce
        <3>3. executions'[c] = IF SendChunk(ch) THEN 0 ELSE 1
            BY <1>5, <2>2, <3>2
        <3>. QED
            BY <1>1, <1>2, <3>1, <3>2, <3>3
    <2>3. CASE c \notin ch.calls
        <3>1. executions'[c] = executions[c]
            BY <1>5, <1>6, <2>3
        <3>2. \A other \in chunks' : c \in other.calls => other \in chunks
            BY <1>1, <2>3
        <3>. QED
            BY <1>2, <3>1, <3>2 DEF PlacedOnce
    <2>. QED
        BY <2>2, <2>3
<1>8. Released'
    BY <1>1, <1>2, <1>3 DEF Released, TypeOK
<1>. QED
    BY <1>7, <1>8

\* A chunk that is done with leaves its calls in no chunk; the handles it settled
\* wait for the end of its drain.
LEMMA ChunkEndsOnce ==
    ASSUME SoundOnce, Sound', NEW ch \in chunks, ChunkResults(ch) \/ ChunkFails(ch)
    PROVE  SoundOnce'
<1> USE DEF SoundOnce, Sound
<1>0. ch.calls \in SUBSET Calls /\ ch.drain \in DOMAIN drains
    BY DEF TypeOK
<1>1. /\ UNCHANGED <<multicallQueue, id, called, executions>>
      /\ chunks' = chunks \ {ch}
      /\ resolved \subseteq resolved'
    BY DEF ChunkResults, ChunkFails, Replace, array, handles
<1>2. \A c \in Calls : (Pushed(c)' <=> Pushed(c)) /\ (Alone(c)' <=> Alone(c))
    BY <1>1, NoPush
<1>3. PlacedOnce'
    BY <1>1, <1>2 DEF PlacedOnce
<1>4. /\ DOMAIN drains' = DOMAIN drains
      /\ \A d \in DOMAIN drains : drains'[d] = "ended" <=> drains[d] = "ended"
    BY <1>0 DEF ChunkResults, ChunkFails, TypeOK
<1>5. \A other \in chunks' : drains'[other.drain] = "ended" =>
          other.calls \cap multicallQueue' = {}
    BY <1>1, <1>4 DEF Released, TypeOK
<1>6. ASSUME NEW c \in multicallQueue', Alone(c)', ~Waiting(c)'
      PROVE  c \in resolved' /\ \E d \in DOMAIN drains' : drains'[d] # "ended"
    <2>1. c \in Calls /\ c \in multicallQueue /\ Alone(c)
        BY <1>1, <1>2, <1>6 DEF TypeOK
    <2>2. CASE ~Waiting(c)
        BY <1>1, <1>4, <2>1, <2>2 DEF Released
    <2>3. CASE Waiting(c)
        <3>1. ChunkResults(ch) /\ c \in Found(ch.calls)
            BY <1>6, <2>1, <2>3 DEF ChunkResults, ChunkFails, SettleWith, Waiting, service
        <3>2. c \in ch.calls
            BY <1>0, <2>1, <3>1, FoundAlone
        <3>3. drains[ch.drain] # "ended"
            BY <2>1, <3>2 DEF Released
        <3>. QED
            BY <1>0, <1>4, <3>1, <3>3 DEF ChunkResults
    <2>. QED
        BY <2>2, <2>3
<1>7. Released'
    BY <1>5, <1>6 DEF Released
<1>. QED
    BY <1>3, <1>7

-----------------------------------------------------------------------------
(* The remaining steps *)

\* A drain that ends has no chunk left, and drops what it settled.
LEMMA DrainFinishesOnce ==
    ASSUME SoundOnce, Sound', NEW d \in DOMAIN drains, DrainFinishes(d)
    PROVE  SoundOnce'
<1> USE DEF SoundOnce, Sound
<1>1. /\ UNCHANGED <<id, called, resolved, outcome, chunks, executions>>
      /\ multicallQueue' = multicallQueue \ resolved
      /\ drains' = [drains EXCEPT ![d] = "ended"]
      /\ \A ch \in chunks : ch.drain # d
    BY DEF DrainFinishes, DropResolved, handles, service
<1>2. \A c \in Calls : (Alone(c)' <=> Alone(c)) /\ (Waiting(c)' <=> Waiting(c))
    BY <1>1, NoPush DEF Waiting
<1>3. PlacedOnce'
    BY <1>1, UnmovedOnce
<1>4. \A ch \in chunks : drains'[ch.drain] = drains[ch.drain]
    BY <1>1 DEF TypeOK
<1>5. Released'
    BY <1>1, <1>2, <1>4 DEF Released, TypeOK
<1>. QED
    BY <1>3, <1>5

\* Steps outside the aggregator.
LEMMA OtherStepOnce ==
    ASSUME SoundOnce, Sound',
           \/ \E n \in Limits : SetMaxCount(n)
           \/ NewBlock
           \/ UNCHANGED vars
    PROVE  SoundOnce'
<1> USE DEF SoundOnce, Sound
<1>1. UNCHANGED <<multicallQueue, id, called, resolved, outcome, chunks, drains, executions>>
    BY DEF SetMaxCount, NewBlock, Service!NewBlock, vars, array, handles, work, service
<1>2. \A c \in Calls : (Alone(c)' <=> Alone(c)) /\ (Waiting(c)' <=> Waiting(c))
    BY <1>1, NoPush DEF Waiting
<1>3. PlacedOnce'
    BY <1>1, UnmovedOnce
<1>4. Released'
    BY <1>1, <1>2 DEF Released, TypeOK
<1>. QED
    BY <1>3, <1>4

\* The invariant is inductive.
LEMMA NextOnce == SoundOnce /\ [Next]_vars => SoundOnce'
<1> SUFFICES ASSUME SoundOnce, [Next]_vars PROVE SoundOnce'
    OBVIOUS
<1>1. Sound'
    BY NextSound DEF SoundOnce
<1>2. ASSUME NEW c \in Calls, QueueCall(c) \/ DirectCall(c) \/ DirectAnswer(c)
      PROVE  SoundOnce'
    BY <1>1, <1>2, QueueCallOnce, DirectOnce
<1>3. CASE TimerFires
    BY <1>1, <1>3, TimerFiresOnce
<1>4. CASE TimerFiresDisabled
    <2>1. UNCHANGED <<id, chunks, executions>> /\ RejectAll /\ called \subseteq called'
        BY <1>4 DEF TimerFiresDisabled, MarkCalled
    <2>. QED
        BY <1>1, <2>1, RejectOnce
<1>5. ASSUME NEW ch \in chunks, ChunkStep(ch) PROVE SoundOnce'
    BY <1>1, <1>5, ChunkMovesOnce, ChunkEndsOnce DEF ChunkStep
<1>6. ASSUME NEW d \in DOMAIN drains, DrainStep(d) PROVE SoundOnce'
    <2>1. CASE DrainFinishes(d)
        BY <1>1, <2>1, DrainFinishesOnce
    <2>2. CASE DrainCatches(d)
        <3>1. UNCHANGED <<id, called, chunks, executions>> /\ RejectAll
            BY <2>2 DEF DrainCatches
        <3>. QED
            BY <1>1, <3>1, RejectOnce
    <2>. QED
        BY <1>6, <2>1, <2>2 DEF DrainStep
<1>7. CASE (\E n \in Limits : SetMaxCount(n)) \/ NewBlock \/ UNCHANGED vars
    BY <1>1, <1>7, OtherStepOnce
<1>. QED
    BY <1>2, <1>3, <1>4, <1>5, <1>6, <1>7 DEF Next

\* Every behaviour of the multicaller satisfies the invariant.
LEMMA SoundOnceAlways == Spec => []SoundOnce
BY InitOnce, NextOnce, PTL DEF Spec

\* However many drains overlap, fail or find aggregation switched off, no call
\* with an id of its own is evaluated twice by the node on behalf of the queue.
THEOREM CallsAreSentOnce == Spec => []SentOnce
<1>1. SoundOnce => SentOnce
    BY DEF SoundOnce, PlacedOnce, SentOnce
<1>. QED
    BY <1>1, SoundOnceAlways, PTL

\* When no timer is armed and every drain has ended, the array holds no handle
\* with an id of its own: settled handles were dropped, and none still waits.
THEOREM QueueDoesNotLeak == Spec => []NoLeak
<1>1. SoundOnce => NoLeak
    <2> SUFFICES ASSUME SoundOnce, ~multicallTimer, \A d \in DOMAIN drains : drains[d] = "ended",
                        NEW c \in multicallQueue, Alone(c)
                 PROVE  FALSE
        BY DEF NoLeak
    <2> USE DEF SoundOnce, Sound
    <2>1. c \in Calls
        BY DEF TypeOK
    <2>2. Waiting(c)
        BY DEF Released
    <2>3. \A ch \in chunks : ch.drain \in DOMAIN drains
        BY DEF TypeOK
    <2>. QED
        BY <2>1, <2>2, <2>3 DEF NoLostCall
<1>. QED
    BY <1>1, SoundOnceAlways, PTL

-----------------------------------------------------------------------------
(* The multicaller implements CallService, as long as no two handles draw the
   same id: the queue, the timer, the drains and the chunks are invisible to
   callers. *)

\* The ids that may be drawn for different calls differ.
DistinctDraws == \A c, d \in Calls : c # d => Draws[c] \cap Draws[d] = {}

\* A handle's id was drawn for its call.
Drawn == \A c \in Calls : Pushed(c) => id[c] \in Draws[c]

\* Ids are drawn once, by the push.
LEMMA DrawnStep == TypeOK /\ Drawn /\ [Next]_vars => Drawn'
<1> SUFFICES ASSUME TypeOK, Drawn, [Next]_vars PROVE Drawn'
    OBVIOUS
<1>1. ASSUME NEW c \in Calls, QueueCall(c) PROVE Drawn'
    <2>1. PICK i \in Draws[c] : id' = [id EXCEPT ![c] = i]
        BY <1>1 DEF QueueCall
    <2>. QED
        BY <2>1 DEF Drawn, Pushed, TypeOK
<1>2. CASE id' = id
    BY <1>2 DEF Drawn, Pushed
<1>3. (\E c \in Calls : QueueCall(c)) \/ id' = id
    BY DEF Next, vars, array, handles, DirectCall, DirectAnswer, TimerFires,
           TimerFiresDisabled, ChunkStep, SendChunk, NodeAnswers, ChunkResults, ChunkFails,
           DrainStep, DrainFinishes, DrainCatches, SetMaxCount, NewBlock
<1>. QED
    BY <1>1, <1>2, <1>3

\* So that no handle shares its id with another.
LEMMA EachAlone ==
    ASSUME DistinctDraws, Drawn, NEW c \in Calls, Pushed(c)
    PROVE  Alone(c)
<1> SUFFICES ASSUME NEW d \in Calls, id[d] = id[c], d # c PROVE FALSE
    BY DEF Alone
<1>1. Pushed(d)
    BY DEF Pushed
<1>. QED
    BY <1>1 DEF DistinctDraws, Drawn

\* A step that settles some of the calls, each in a way the service allows.
LEMMA SettleStep ==
    ASSUME TypeOK', UNCHANGED <<head, invokedAt>>,
           \A c \in Calls : outcome'[c] # outcome[c] =>
               Waiting(c) /\ outcome'[c] \in Service!Settlements(c)
    PROVE  Service!Next
<1> DEFINE S == {c \in Calls : outcome'[c] # outcome[c]}
<1>1. DOMAIN outcome' = Calls
    BY DEF TypeOK
<1>2. Service!Settle(S)
    BY <1>1 DEF Service!Settle, Waiting
<1>3. S \in SUBSET Calls
    OBVIOUS
<1>. QED
    BY <1>2, <1>3 DEF Service!Next

\* Rejecting the queue tells every caller in it of the error.
LEMMA RejectRefines ==
    ASSUME Sound, TypeOK', RejectAll, UNCHANGED <<head, invokedAt>>
    PROVE  Service!Next
<1>1. \A c \in Calls : /\ Settled(c) => outcome'[c] = outcome[c]
                       /\ outcome'[c] = Service!Idle <=> outcome[c] = Service!Idle
                       /\ outcome'[c] = outcome[c] \/ outcome'[c] = Service!Failed
    BY Rejecting
<1>2. \A c \in Calls : outcome'[c] # outcome[c] =>
         Waiting(c) /\ outcome'[c] \in Service!Settlements(c)
    BY <1>1 DEF Settled, Waiting, Service!Settlements
<1>. QED
    BY <1>2, SettleStep

\* Handing out the results of a chunk tells each caller the answer to its own call,
\* from the block at which the node evaluated the chunk.
LEMMA ResultsRefine ==
    ASSUME Sound, DistinctDraws, Drawn, TypeOK', NEW ch \in chunks, ChunkResults(ch)
    PROVE  Service!Next
<1> USE DEF Sound
<1> DEFINE found == Found(ch.calls)
           answers == [c \in found |-> Service!Answer(Giver(c, ch.calls), ch.block)]
<1>1. /\ UNCHANGED <<head, invokedAt>>
      /\ SettleWith(found, answers)
      /\ ch.state = "answered"
    BY DEF ChunkResults
<1>2. ch.calls \in SUBSET Calls /\ ch.block \in Nat
    BY DEF TypeOK
<1>3. \A c \in Calls : outcome'[c] # outcome[c] =>
         Waiting(c) /\ outcome'[c] \in Service!Settlements(c)
    <2> SUFFICES ASSUME NEW c \in Calls, outcome'[c] # outcome[c]
                 PROVE  Waiting(c) /\ outcome'[c] \in Service!Settlements(c)
        OBVIOUS
    <2>1. c \in found /\ Waiting(c) /\ outcome'[c] = answers[c]
        BY <1>1 DEF SettleWith
    <2>2. c \in multicallQueue
        BY <2>1 DEF Found
    <2>3. Pushed(c) /\ c \notin Pinned
        BY <2>2 DEF Bookkeeping
    <2>4. c \in ch.calls /\ Giver(c, ch.calls) = c
        BY <1>2, <2>1, <2>3, EachAlone, FoundAlone
    <2>5. outcome'[c] = Service!Answer(c, ch.block)
        BY <2>1, <2>4
    <2>6. ch.block \in Service!Blocks(c)
        BY <1>1, <1>2, <2>3, <2>4 DEF ChunksSound, Service!Blocks, TypeOK
    <2>. QED
        BY <2>1, <2>5, <2>6 DEF Service!Settlements
<1>. QED
    BY <1>1, <1>3, SettleStep

\* Every step is a step of the service, or none.
LEMMA StepRefines ==
    DistinctDraws /\ Sound /\ Sound' /\ Drawn /\ [Next]_vars => [Service!Next]_(Service!svars)
<1> SUFFICES ASSUME DistinctDraws, Sound, Sound', Drawn, [Next]_vars
             PROVE  Service!Next \/ UNCHANGED <<head, invokedAt, outcome>>
    BY DEF Service!svars
<1>0. TypeOK'
    BY DEF Sound
<1>1. ASSUME NEW c \in Calls, QueueCall(c) \/ DirectCall(c) PROVE Service!Next
    BY <1>1 DEF QueueCall, DirectCall, Service!Next
<1>2. ASSUME NEW c \in Calls, DirectAnswer(c) PROVE Service!Next
    <2>1. UNCHANGED <<head, invokedAt>> /\ Waiting(c)
        BY <1>2 DEF DirectAnswer, Sound, Bookkeeping
    <2>2. PICK answer \in Service!Settlements(c) : outcome' = [outcome EXCEPT ![c] = answer]
        BY <1>2 DEF DirectAnswer
    <2>3. \A d \in Calls : outcome'[d] # outcome[d] =>
             Waiting(d) /\ outcome'[d] \in Service!Settlements(d)
        BY <2>1, <2>2 DEF Sound, TypeOK
    <2>. QED
        BY <1>0, <2>1, <2>3, SettleStep
<1>3. CASE TimerFires
    BY <1>3 DEF TimerFires, service
<1>4. CASE TimerFiresDisabled
    BY <1>0, <1>4, RejectRefines DEF TimerFiresDisabled
<1>5. ASSUME NEW ch \in chunks, ChunkStep(ch)
      PROVE  Service!Next \/ UNCHANGED <<head, invokedAt, outcome>>
    <2>1. CASE ChunkResults(ch)
        BY <1>0, <2>1, ResultsRefine
    <2>2. CASE ~ChunkResults(ch)
        BY <1>5, <2>2 DEF ChunkStep, SendChunk, NodeAnswers, ChunkFails, service
    <2>. QED
        BY <2>1, <2>2
<1>6. ASSUME NEW d \in DOMAIN drains, DrainStep(d)
      PROVE  Service!Next \/ UNCHANGED <<head, invokedAt, outcome>>
    <2>1. CASE DrainFinishes(d)
        BY <2>1 DEF DrainFinishes, service
    <2>2. CASE DrainCatches(d)
        BY <1>0, <2>2, RejectRefines DEF DrainCatches
    <2>. QED
        BY <1>6, <2>1, <2>2 DEF DrainStep
<1>7. CASE NewBlock
    BY <1>7 DEF NewBlock, Service!Next
<1>8. CASE (\E n \in Limits : SetMaxCount(n)) \/ UNCHANGED vars
    BY <1>8 DEF SetMaxCount, vars, service
<1>. QED
    BY <1>1, <1>2, <1>3, <1>4, <1>5, <1>6, <1>7, <1>8 DEF Next

\* If ids never collide, callers cannot tell the multicaller from a provider that
\* answers each call by itself, whatever drains overlap, fail or are switched off.
THEOREM MulticallerIsCallService ==
    ASSUME DistinctDraws
    PROVE  Spec => ImplementsCallService
<1>1. Init => Drawn /\ Service!Init
    BY DEF Init, Drawn, Pushed
<1>2. Sound => TypeOK
    BY DEF Sound
<1>. QED
    BY <1>1, <1>2, DrawnStep, StepRefines, SoundAlways, PTL DEF Spec, ImplementsCallService
=============================================================================
