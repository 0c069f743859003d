------------------------------ MODULE Batcher ------------------------------
(***************************************************************************)
(* createBatchRequest (batcher.ts), the engine under every EthersBatcher   *)
(* method: the inputs are cut into groups of concurrencySize * batchSize,  *)
(* processed one after the other; a group is cut into sub-batches of       *)
(* batchSize, started 40 ms apart and then run side by side; a sub-batch   *)
(* calls outputFunc for all its inputs at once and does so again, for all  *)
(* of them, after any failure.                                             *)
(*                                                                         *)
(* A failed attempt leaves its other calls in flight (Promise.all does not *)
(* cancel), and a failed sub-batch leaves the others of its group running  *)
(* after the whole request has been rejected.  Both are part of the model. *)
(***************************************************************************)
EXTENDS Naturals, FiniteSets, Sequences

CONSTANTS
    InputCount, \* inputs.length
    Options     \* params: concurrencySize, batchSize, retryMax, delays

ASSUME BatcherAssumption ==
    /\ InputCount \in Nat \ {0}
    /\ Options \in [concurrencySize : Nat, batchSize : Nat, retryMax : Nat, delays : BOOLEAN]

\* params.x || default: zero counts as absent.
Or(option, default) == IF option = 0 THEN default ELSE option

concurrencySize == Or(Options.concurrencySize, 10)
batchSize == Or(Options.batchSize, 10)
retryMax == Or(Options.retryMax, 2)

Inputs == 1 .. InputCount
\* The inner chunks are those of chunk(inputs, batchSize), concurrencySize to a group.
BatchOf(i) == ((i - 1) \div batchSize) + 1
\* Mutant: a group too wide by one sub-batch.
GroupOfWide(b) == ((b - 1) \div (concurrencySize + 1)) + 1

GroupOf(b) == ((b - 1) \div concurrencySize) + 1
Batches == 1 .. BatchOf(InputCount)
InputsOf(b) == {i \in Inputs : BatchOf(i) = b}
BatchesOf(g) == {b \in Batches : GroupOf(b) = g}
LastGroup == GroupOf(BatchOf(InputCount))

VARIABLES
    main,       \* the request: running, pausing between groups, resolved, rejected
    group,      \* the group being processed
    state,      \* of each sub-batch
    retries,    \* failed attempts of each sub-batch
    inFlight,   \* calls of outputFunc not yet settled, stale ones included
    answered,   \* the attempt whose answer each input holds
    issued,     \* how often outputFunc was called on each input
    results     \* the outputs collected so far

vars == <<main, group, state, retries, inFlight, answered, issued, results>>

None == retryMax + 1    \* no attempt has this number

CallsOf(b, attempt) == {[input |-> i, attempt |-> attempt] : i \in InputsOf(b)}

\* Mutant: an attempt is not told from the one before.
LiveAnyAttempt(call) == state[BatchOf(call.input)] = "trying"

\* A call whose attempt is still the one its sub-batch waits for.
Live(call) ==
    LET b == BatchOf(call.input)
    IN  state[b] = "trying" /\ retries[b] = call.attempt

-----------------------------------------------------------------------------
Init ==
    /\ main = "running"
    /\ group = 1
    /\ state = [b \in Batches |-> IF GroupOf(b) = 1 THEN "asleep" ELSE "idle"]
    /\ retries = [b \in Batches |-> 0]
    /\ inFlight = {}
    /\ answered = [i \in Inputs |-> None]
    /\ issued = [i \in Inputs |-> 0]
    /\ results = <<>>

\* _inputs.map((input) => outputFunc(input))
Try(b, attempt) ==
    /\ state' = [state EXCEPT ![b] = "trying"]
    /\ inFlight' = inFlight \cup CallsOf(b, attempt)
    /\ answered' = [i \in Inputs |-> IF i \in InputsOf(b) THEN None ELSE answered[i]]
    /\ issued' = [i \in Inputs |-> issued[i] + IF i \in InputsOf(b) THEN 1 ELSE 0]

\* sleep(40 * batchIndex): the timers of a group expire in order.
EarlierAwake(b) ==
    \A a \in Batches : GroupOf(a) = GroupOf(b) /\ a < b => state[a] # "asleep"

Wake(b) ==
    /\ state[b] = "asleep"
    /\ EarlierAwake(b)
    /\ Try(b, 0)
    /\ UNCHANGED <<main, group, retries, results>>

\* A call resolves; with the last call of its attempt the sub-batch is done.
Answer(call) ==
    LET b == BatchOf(call.input)
        others == InputsOf(b) \ {call.input}
    IN  /\ call \in inFlight
        /\ inFlight' = inFlight \ {call}
        /\ IF Live(call)
           THEN /\ answered' = [answered EXCEPT ![call.input] = call.attempt]
                /\ state' = IF \A i \in others : answered[i] # None
                            THEN [state EXCEPT ![b] = "done"] ELSE state
           ELSE UNCHANGED <<answered, state>>
        /\ UNCHANGED <<main, group, retries, issued, results>>

\* A call rejects: the first one of a live attempt sends its sub-batch to sleep.
Fail(call) ==
    LET b == BatchOf(call.input)
    IN  /\ call \in inFlight
        /\ inFlight' = inFlight \ {call}
        /\ IF Live(call)
           THEN /\ retries' = [retries EXCEPT ![b] = @ + 1]
                /\ state' = [state EXCEPT ![b] = "backoff"]
           ELSE UNCHANGED <<retries, state>>
        /\ UNCHANGED <<main, group, answered, issued, results>>

\* Mutant: one attempt too many.
ExhaustedLate(b) == retries[b] > retryMax + 1

\* while (retries <= retryMax)
Exhausted(b) == retries[b] > retryMax

\* sleep(retryOn) is over.
Retry(b) ==
    /\ state[b] = "backoff"
    /\ ~Exhausted(b)
    /\ Try(b, retries[b])
    /\ UNCHANGED <<main, group, retries, results>>

\* throw err: the first sub-batch to give up rejects the request.
GiveUp(b) ==
    /\ state[b] = "backoff"
    /\ Exhausted(b)
    /\ state' = [state EXCEPT ![b] = "failed"]
    /\ main' = IF main = "running" THEN "rejected" ELSE main
    /\ UNCHANGED <<group, retries, inFlight, answered, issued, results>>

GroupInputs(g) == {i \in Inputs : GroupOf(BatchOf(i)) = g}

\* The loop goes on with the next group, or returns.
Advance ==
    IF group = LastGroup
    THEN main' = "resolved" /\ UNCHANGED <<group, state>>
    ELSE /\ main' = "running"
         /\ group' = group + 1
         /\ state' = [b \in Batches |-> IF GroupOf(b) = group + 1 THEN "asleep" ELSE state[b]]

\* Mutant: one sub-batch is enough.
GroupCompleteAny(g) == \E b \in BatchesOf(g) : state[b] = "done"

\* Mutant: groups to come are waited for.
GroupCompleteAll(g) == \A b \in Batches : state[b] = "done"

GroupComplete(g) == \A b \in BatchesOf(g) : state[b] = "done"

\* Promise.all of the group resolves and its outputs are appended in input order;
\* unless the group took longer than params.delays, a pause follows.
FinishGroup ==
    /\ main = "running"
    /\ GroupComplete(group)
    /\ results' = results \o
           [k \in 1 .. Cardinality(GroupInputs(group)) |->
               [input |-> Len(results) + k, attempt |-> answered[Len(results) + k]]]
    /\ \/ Options.delays /\ main' = "pausing" /\ UNCHANGED <<group, state>>
       \/ Advance
    /\ UNCHANGED <<retries, inFlight, answered, issued>>

Resume ==
    /\ main = "pausing"
    /\ Advance
    /\ UNCHANGED <<retries, inFlight, answered, issued, results>>

BatchStep(b) == Wake(b) \/ Retry(b) \/ GiveUp(b)

Next ==
    \/ \E b \in Batches : BatchStep(b)
    \/ \E call \in inFlight : Answer(call) \/ Fail(call)
    \/ FinishGroup
    \/ Resume

Spec == Init /\ [][Next]_vars

\* Sleeps end, outputFunc settles and the event loop runs what is ready.
FairSpec ==
    /\ Spec
    /\ WF_vars(\E b \in Batches : BatchStep(b))
    /\ WF_vars(\E call \in inFlight : Answer(call) \/ Fail(call))
    /\ WF_vars(FinishGroup \/ Resume)

-----------------------------------------------------------------------------
(* Properties *)

TypeOK ==
    /\ main \in {"running", "pausing", "resolved", "rejected"}
    /\ group \in 1 .. LastGroup
    /\ state \in [Batches -> {"idle", "asleep", "trying", "backoff", "done", "failed"}]
    /\ retries \in [Batches -> 0 .. retryMax + 1]
    /\ inFlight \subseteq [input : Inputs, attempt : 0 .. retryMax]
    /\ answered \in [Inputs -> (0 .. retryMax) \cup {None}]
    /\ issued \in [Inputs -> Nat]
    /\ results \in Seq([input : Inputs, attempt : 0 .. retryMax])

\* The outputs are those of the inputs, in their order, each of them from the last
\* attempt of its sub-batch: no answer of an attempt that was given up is used.
ResultsMatchInputs ==
    /\ \A k \in 1 .. Len(results) :
          results[k] = [input |-> k, attempt |-> retries[BatchOf(k)]]
    /\ main = "resolved" => Len(results) = InputCount

\* Groups never overlap: while one is processed every earlier sub-batch is done and
\* no later one has started, not even once the request was rejected.
GroupBarrier ==
    \A b \in Batches : /\ GroupOf(b) < group => state[b] = "done"
                       /\ GroupOf(b) > group => state[b] = "idle"

\* At most concurrencySize * batchSize calls are awaited at any moment.
AwaitedBound == Cardinality({c \in inFlight : Live(c)}) <= concurrencySize * batchSize

\* The request is rejected only when the inputs of some sub-batch were all tried
\* as often as allowed, and no input is ever tried more often than that.
TriesBeforeReject ==
    /\ \A i \in Inputs : issued[i] <= retryMax + 1
    /\ main = "rejected" => \E b \in Batches : \A i \in InputsOf(b) : issued[i] = retryMax + 1

\* batcher.ts, line 159, has retryMax as the "Number of retries for failed batches":
\* no input would be tried again more often than the caller asked for.
RetriesAsAsked == \A i \in Inputs : issued[i] <= Options.retryMax + 1

\* What is left to do: attempts to begin, calls to settle, sub-batches that have not given
\* up, groups whose outputs are missing, and groups to go through.
Left ==
    LET calls == [input : Inputs, attempt : 0 .. retryMax]
        ahead == {call \in calls : issued[call.input] <= call.attempt}
    IN  {<<"attempt", call>> : call \in ahead}
        \cup {<<"call", call>> : call \in ahead \cup inFlight}
        \cup {<<"batch", b>> : b \in {b \in Batches : state[b] # "failed"}}
        \cup {<<"outputs", g>> : g \in {g \in 1 .. LastGroup :
                    g > group \/ (g = group /\ main \notin {"pausing", "resolved"})}}
        \cup {<<"group", g>> : g \in {g \in 1 .. LastGroup : group <= g /\ main # "resolved"}}

\* Whatever fails and whenever it does, each step uses up some of what is left and brings
\* nothing back: retries, stale answers and groups come to an end.
StepsRunOut == [][Left' \subseteq Left /\ Left' # Left]_vars

\* Until the request has settled and nothing is left running, something can happen: a
\* sleep ends, a call settles, or the main loop goes on.
NeverStuck ==
    \/ /\ main \in {"resolved", "rejected"}
       /\ inFlight = {}
       /\ \A b \in Batches : state[b] \notin {"asleep", "trying", "backoff"}
    \/ \E b \in Batches : state[b] = "backoff" \/ (state[b] = "asleep" /\ EarlierAwake(b))
    \/ inFlight # {}
    \/ main = "running" /\ GroupComplete(group)
    \/ main = "pausing"

\* The request settles, and after a rejection the sub-batches left behind stop too.
SettlesAndStops ==
    /\ <>(main \in {"resolved", "rejected"})
    /\ <>[](inFlight = {} /\ \A b \in Batches : state[b] \notin {"asleep", "trying", "backoff"})
=============================================================================
