----------------------------- MODULE Multicaller -----------------------------
(***************************************************************************)
(* The call aggregator of Provider (provider.ts): _perform decides whether *)
(* a call may be aggregated, _queueCall stores it in multicallQueue and    *)
(* arms multicallTimer, and every firing of the timer starts one run of    *)
(* _drainCalls ("a drain"), which marks the waiting handles as called,     *)
(* splits them into chunks and sends each chunk as one aggregate3 call.    *)
(* Drains overlap: the timer may be armed again, and fire again, while the *)
(* chunks of earlier drains still sleep, travel or wait to be processed.   *)
(*                                                                         *)
(* JavaScript runs one callback at a time, so each action is the code from *)
(* one await (or event) to the next.                                       *)
(***************************************************************************)
EXTENDS Naturals, FiniteSets, Sequences

CONSTANTS
    Calls,      \* provider.call invocations, each made once
    Tx,         \* the request each of them makes
    Reverts,    \* the calls whose target contract reverts
    Ids, NoId,  \* the values of Math.floor(Math.random() * Date.now()), and none
    Draws,      \* the ids that may be drawn for each call
    Limits,     \* the values multicallMaxCount may be set to
    AllowFailure,   \* multicallAllowFailure
    Unreliable, \* whether requests may fail on their way
    MaxHead     \* bound on the chain height

TxType == [from : BOOLEAN, to : {"none", "contract", "multicall"}, value : BOOLEAN,
           blockTag : {"none", "latest", "pinned"}, selector : {"aggregate3", "other"},
           gas : BOOLEAN]

ASSUME ConstantsAssumption ==
    /\ IsFiniteSet(Calls)
    /\ Tx \in [Calls -> TxType]
    /\ Reverts \subseteq Calls
    /\ Draws \in [Calls -> SUBSET Ids]
    /\ NoId \notin Ids
    /\ Limits \subseteq Nat
    /\ AllowFailure \in BOOLEAN
    /\ Unreliable \in BOOLEAN
    /\ MaxHead \in Nat

VARIABLES
    multicallQueue,     \* the calls whose handle is in the array
    multicallTimer,     \* whether the timer is armed
    multicallMaxCount,
    id,                 \* handle fields: the random id,
    order,              \*   the place in the array's push order,
    called, resolved,   \*   and the two flags, as sets of calls
    direct,             \* calls handed to super._perform
    drains,             \* the state of each run of _drainCalls so far
    chunks,             \* the chunks not yet done with
    executions,         \* how often the node evaluated an aggregated call
    head, invokedAt, outcome    \* as in CallService

handles == <<id, order, called, resolved>>
array == <<multicallQueue, handles>>
work == <<drains, chunks, executions>>
service == <<head, invokedAt, outcome>>
vars == <<array, multicallTimer, multicallMaxCount, direct, work, service>>

Pinned == {c \in Calls : Tx[c].blockTag = "pinned"}

\* The promise each caller holds: see CallService for the values of outcome.
Service == INSTANCE CallService WITH head <- head, invokedAt <- invokedAt, outcome <- outcome

Waiting(c) == outcome[c] = Service!Waiting
Pushed(c) == id[c] # NoId

-----------------------------------------------------------------------------
(* _perform: which calls are aggregated. *)

\* The call that carries a chunk, as the multicall contract object makes it.
AggregateTx == [from |-> FALSE, to |-> "multicall", value |-> FALSE,
                blockTag |-> "latest", selector |-> "aggregate3", gas |-> FALSE]

\* Mutant: the aggregate is not told from an ordinary call.
IsAggregate3Never(tx) == FALSE

IsAggregate3(tx) == tx.to = "multicall" /\ tx.selector = "aggregate3"

Aggregates(tx) ==
    /\ multicallMaxCount > 0
    /\ ~tx.from /\ tx.to # "none" /\ ~tx.value
    /\ tx.blockTag \in {"none", "latest"}
    /\ ~IsAggregate3(tx)

-----------------------------------------------------------------------------
(* The array of handles, whose order is always the order of the pushes. *)

\* The handles findIndex returns for the ids of the calls of S.
IsFirst(c, S) == \A d \in S : id[d] = id[c] => order[c] <= order[d]
Found(S) == {c \in multicallQueue : /\ \E s \in S : id[s] = id[c]
                                    /\ IsFirst(c, multicallQueue)}

\* Mutant: every handle is given the first result.
GiverFirst(c, S) == CHOOSE s \in S : \A d \in S : order[s] <= order[d]

\* The call whose result the handle of c is given: a promise keeps the first.
Giver(c, S) == CHOOSE s \in S : id[s] = id[c] /\ IsFirst(s, S)

\* chunk(queue, size): the position of c in S decides its chunk.
ChunkIndex(c, S, size) == Cardinality({d \in S : order[d] < order[c]}) \div size

\* Mutant: the number of chunks is rounded down.
ChunksOfFullOnly(S, size, drain) ==
    {[drain |-> drain, index |-> i, state |-> "sleeping", block |-> 0,
      calls |-> {c \in S : ChunkIndex(c, S, size) = i}] :
        i \in 0 .. (Cardinality(S) \div size) - 1}

\* Mutant: the chunks are filed under the drain to come.
ChunksOfNext(S, size, drain) ==
    {[drain |-> drain + 1, index |-> ChunkIndex(c, S, size), state |-> "sleeping",
      block |-> 0, calls |-> S] : c \in S}

ChunksOf(S, size, drain) ==
    {[drain |-> drain, index |-> i, state |-> "sleeping", block |-> 0,
      calls |-> {c \in S : ChunkIndex(c, S, size) = i}] :
        i \in {ChunkIndex(c, S, size) : c \in S}}

-----------------------------------------------------------------------------
Init ==
    /\ multicallQueue = {}
    /\ multicallTimer = FALSE
    /\ multicallMaxCount \in Limits
    /\ id = [c \in Calls |-> NoId]
    /\ order = [c \in Calls |-> 0]
    /\ called = {}
    /\ resolved = {}
    /\ direct = {}
    /\ drains = <<>>
    /\ chunks = {}
    /\ executions = [c \in Calls |-> 0]
    /\ Service!Init

\* _perform takes the aggregated path and _queueCall pushes a handle.
QueueCall(c) ==
    /\ Aggregates(Tx[c])
    /\ Service!Invoke(c)
    /\ multicallTimer' = TRUE
    /\ multicallQueue' = multicallQueue \cup {c}
    /\ \E i \in Draws[c] : id' = [id EXCEPT ![c] = i]
    /\ order' = [order EXCEPT ![c] = Cardinality({d \in Calls : Pushed(d)})]
    /\ UNCHANGED <<multicallMaxCount, called, resolved, direct, work>>

\* _perform hands the call to super._perform.
DirectCall(c) ==
    /\ ~Aggregates(Tx[c])
    /\ Service!Invoke(c)
    /\ direct' = direct \cup {c}
    /\ UNCHANGED <<array, multicallTimer, multicallMaxCount, work>>

\* The node answers a direct call, or the request fails.
DirectAnswer(c) ==
    /\ c \in direct
    /\ direct' = direct \ {c}
    /\ \E answer \in Service!Settlements(c) :
          /\ Unreliable \/ answer # Service!Failed
          /\ outcome' = [outcome EXCEPT ![c] = answer]
    /\ UNCHANGED <<array, multicallTimer, multicallMaxCount, work, head, invokedAt>>

-----------------------------------------------------------------------------
(* _drainCalls *)

\* Mutant: a settled promise is settled again.
SettleAgain(S, value) ==
    outcome' = [c \in Calls |-> IF c \in S THEN value[c] ELSE outcome[c]]

\* resolve or reject: a promise that is settled already ignores it.
SettleWith(S, value) ==
    outcome' = [c \in Calls |-> IF c \in S /\ Waiting(c) THEN value[c] ELSE outcome[c]]

\* Mutant: the filter sees the flags as they were.
DropResolvedBefore == multicallQueue' = multicallQueue \ resolved

\* The last statement of _drainCalls.
DropResolved == multicallQueue' = multicallQueue \ resolved'

\* The catch block, with the filter that follows it: every handle in the array
\* is rejected, whichever drain it belongs to and whether or not it was called.
RejectAll ==
    /\ SettleWith(multicallQueue, [c \in multicallQueue |-> Service!Failed])
    /\ resolved' = resolved \cup multicallQueue
    /\ DropResolved

\* Mutant: the flag is never set.
MarkCalledNever(S) == called' = called

\* "Exclude from called": the flag is set on the handles findIndex returns.
MarkCalled(S) == called' = called \cup Found(S)

\* The timer fires and _drainCalls runs to its first await.
TimerFires ==
    LET waiting == multicallQueue \ called IN
    /\ multicallTimer
    /\ multicallMaxCount > 0
    /\ multicallTimer' = FALSE
    /\ MarkCalled(waiting)
    /\ drains' = Append(drains, "running")
    /\ chunks' = chunks \cup ChunksOf(waiting, multicallMaxCount, Len(drains) + 1)
    /\ UNCHANGED <<multicallQueue, multicallMaxCount, id, order, resolved, direct,
                   executions, service>>

\* The same when aggregation was switched off in between: chunk(queue, 0) throws
\* a RangeError and the catch block runs in the same callback.
TimerFiresDisabled ==
    /\ multicallTimer
    /\ multicallMaxCount = 0
    /\ multicallTimer' = FALSE
    /\ MarkCalled(multicallQueue \ called)
    /\ drains' = Append(drains, "ended")
    /\ RejectAll
    /\ UNCHANGED <<multicallMaxCount, id, order, direct, chunks, executions, head,
                   invokedAt>>

Replace(ch, new) == chunks' = (chunks \ {ch}) \cup new

\* sleep(40 * chunkIndex) is over and the chunk is sent, past _perform's test.
SendChunk(ch) ==
    /\ ch.state = "sleeping"
    /\ \A other \in chunks :
          other.drain = ch.drain /\ other.state = "sleeping" => ch.index <= other.index
    /\ ~Aggregates(AggregateTx)
    /\ Replace(ch, {[ch EXCEPT !.state = "sent"]})
    /\ UNCHANGED <<array, multicallTimer, multicallMaxCount, direct, drains,
                   executions, service>>

\* Mutant: allowFailure is not passed on.
EvaluableStrict(S) == S \cap Reverts = {}

\* Without allowFailure a single reverting call makes the aggregate revert.
Evaluable(S) == AllowFailure \/ S \cap Reverts = {}

\* The node evaluates the whole chunk at its latest block.
NodeAnswers(ch) ==
    /\ ch.state = "sent"
    /\ Evaluable(ch.calls)
    /\ Replace(ch, {[ch EXCEPT !.state = "answered", !.block = head]})
    /\ executions' = [c \in Calls |-> executions[c] + IF c \in ch.calls THEN 1 ELSE 0]
    /\ UNCHANGED <<array, multicallTimer, multicallMaxCount, direct, drains, service>>

\* results.forEach: every result is given to the handle found under its id.
ChunkResults(ch) ==
    /\ ch.state = "answered"
    /\ Replace(ch, {})
    /\ SettleWith(Found(ch.calls),
                  [c \in Found(ch.calls) |-> Service!Answer(Giver(c, ch.calls), ch.block)])
    /\ resolved' = resolved \cup Found(ch.calls)
    /\ UNCHANGED <<multicallQueue, multicallTimer, multicallMaxCount, id, order,
                   called, direct, drains, executions, head, invokedAt>>

CanFail(ch) ==
    \/ Unreliable /\ ch.state \in {"sent", "answered"}
    \/ ch.state = "sent" /\ ~Evaluable(ch.calls)

\* The aggregate call rejects, before or after the node evaluated it; the first
\* chunk of a drain to do so makes its Promise.all reject.
ChunkFails(ch) ==
    /\ CanFail(ch)
    /\ Replace(ch, {})
    /\ drains' = [drains EXCEPT ![ch.drain] = IF @ = "running" THEN "failing" ELSE @]
    /\ UNCHANGED <<array, multicallTimer, multicallMaxCount, direct, executions, service>>

\* A drain whose chunks were all processed drops the resolved handles.
DrainFinishes(d) ==
    /\ drains[d] = "running"
    /\ \A ch \in chunks : ch.drain # d
    /\ drains' = [drains EXCEPT ![d] = "ended"]
    /\ UNCHANGED <<handles, multicallTimer, multicallMaxCount, direct, chunks,
                   executions, service>>
    /\ DropResolved

\* A failed drain runs the catch block; its other chunks go on regardless.
DrainCatches(d) ==
    /\ drains[d] = "failing"
    /\ drains' = [drains EXCEPT ![d] = "ended"]
    /\ RejectAll
    /\ UNCHANGED <<multicallTimer, multicallMaxCount, id, order, called, direct,
                   chunks, executions, head, invokedAt>>

-----------------------------------------------------------------------------
\* multicallMaxCount is a public field, which hardhat/fixtures sets to 0 and back.
SetMaxCount(n) ==
    /\ multicallMaxCount # n
    /\ multicallMaxCount' = n
    /\ UNCHANGED <<array, multicallTimer, direct, work, service>>

NewBlock ==
    /\ Service!NewBlock
    /\ UNCHANGED <<array, multicallTimer, multicallMaxCount, direct, work>>

ChunkStep(ch) == SendChunk(ch) \/ NodeAnswers(ch) \/ ChunkResults(ch) \/ ChunkFails(ch)

DrainStep(d) == DrainFinishes(d) \/ DrainCatches(d)

Next ==
    \/ \E c \in Calls : QueueCall(c) \/ DirectCall(c) \/ DirectAnswer(c)
    \/ TimerFires
    \/ TimerFiresDisabled
    \/ \E ch \in chunks : ChunkStep(ch)
    \/ \E d \in DOMAIN drains : DrainStep(d)
    \/ \E n \in Limits : SetMaxCount(n)
    \/ NewBlock

Spec == Init /\ [][Next]_vars

\* Timers fire, promise callbacks run, and getUrl's and ethers' request timeouts
\* settle every request; nothing makes the program call or the chain advance.
Fairness ==
    /\ WF_vars(TimerFires \/ TimerFiresDisabled)
    /\ WF_vars(\E ch \in chunks : ChunkStep(ch))
    /\ WF_vars(\E d \in DOMAIN drains : DrainStep(d))
    /\ WF_vars(\E c \in Calls : DirectAnswer(c))

FairSpec == Spec /\ Fairness

-----------------------------------------------------------------------------
(* Properties *)

ChunkState == {"sleeping", "sent", "answered"}

TypeOK ==
    /\ multicallQueue \subseteq Calls
    /\ multicallTimer \in BOOLEAN
    /\ multicallMaxCount \in Limits
    /\ id \in [Calls -> Ids \cup {NoId}]
    /\ order \in [Calls -> Nat]
    /\ called \subseteq Calls
    /\ resolved \subseteq Calls
    /\ direct \subseteq Calls
    /\ drains \in Seq({"running", "failing", "ended"})
    /\ chunks \subseteq [drain : 1 .. Len(drains), index : Nat, state : ChunkState,
                         block : Nat, calls : SUBSET Calls]
    /\ executions \in [Calls -> Nat]
    /\ head \in Nat
    /\ invokedAt \in [Calls -> Nat]
    /\ outcome \in [Calls -> Service!Outcomes]

\* The call's handle shares its id with no other handle pushed so far.
Alone(c) == Pushed(c) /\ \A d \in Calls : id[d] = id[c] => d = c

Answered(c) == outcome[c].kind \in {"result", "exception"}

\* A caller is only ever told the answer to its own call, evaluated at a block
\* the chain reached while the call was pending, or at the block it pinned: the
\* results of overlapping drains, matched to handles by id, never go astray.
OwnAnswer ==
    \A c \in Calls : Answered(c) /\ (Pushed(c) => Alone(c)) =>
        \E h \in Service!Blocks(c) : outcome[c] = Service!Answer(c, h)

\* No call is forgotten: a caller that still waits has a handle in the queue, and
\* either the timer is armed to pick it up, or a chunk carries it in a drain that
\* has not ended, or some drain is about to reject the whole queue.
NoLostCall ==
    \A c \in Calls : Alone(c) /\ Waiting(c) =>
        /\ c \in multicallQueue
        /\ \/ c \notin called /\ multicallTimer
           \/ c \in called /\ \E ch \in chunks : c \in ch.calls /\ drains[ch.drain] # "ended"
           \/ c \in called /\ \E d \in DOMAIN drains : drains[d] = "failing"

\* No call is put to the node twice, whatever the drains that overlap.
SentOnce == \A c \in Calls : Alone(c) => executions[c] <= 1

\* When no timer is armed and no drain is under way the queue holds no handle:
\* settled handles do not pile up in the array.
NoLeak ==
    ~multicallTimer /\ (\A d \in DOMAIN drains : drains[d] = "ended")
        => \A c \in multicallQueue : ~Alone(c)

\* With allowFailure, over a connection that does not fail, a reverting call
\* rejects nobody: its neighbours in the chunk and in the queue get their answers.
RevertIsolated ==
    AllowFailure /\ ~Unreliable /\ 0 \notin Limits =>
        \A c \in Calls : outcome[c] # Service!Failed

\* README.md, line 29, has calls aggregated only "if they don't specify any
\* additional override params": an aggregated call would carry no gas override.
OverridesGoDirect == \A ch \in chunks : \A c \in ch.calls : ~Tx[c].gas

\* The multicaller keeps the promise of CallService, whatever the interleaving.
ImplementsCallService ==
    Service!Init /\ [][Service!Next]_(Service!svars)

\* Every call settles in the end: no wakeup is lost and no drain hangs, as long as
\* timers fire and requests end.
EverySettles == \A c \in Calls : Waiting(c) ~> ~Waiting(c)
=============================================================================
