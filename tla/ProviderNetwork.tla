--------------------------- MODULE ProviderNetwork ---------------------------
(***************************************************************************)
(* How a Provider learns its network (provider.ts): staticNetwork is the   *)
(* network it was given, that of a Hardhat provider, or found by a request *)
(* (HttpRequest) and held against options.chainId; _detectNetwork hands it *)
(* to getNetwork and to the bootstrap loop of ethers, and destroys the     *)
(* provider when there is none.  The loop, the queue of requests, which    *)
(* does not wait for it, and destroy belong to ethers and are external.    *)
(***************************************************************************)
EXTENDS HttpRequest

CONSTANTS
    Calls,      \* calls that need the network
    Modes       \* ways of construction: "network", "hardhat", "detect"

ASSUME NetworkAssumption == Modes \subseteq {"network", "hardhat", "detect"}

VARIABLES
    mode,       \* how this provider was built
    fits,       \* the node's chain is the one options.chainId names, if any
    static,     \* staticNetwork: "pending", "known" or "failed"
    network,    \* #network is set
    destroyed,
    loop,       \* ethers' bootstrap: "off", "detecting" or "over"
    calls       \* what each call waits for, and how it ended

networkVars == <<mode, fits, static, network, destroyed, loop, calls>>
providerVars == <<httpVars, networkVars>>

NetworkInit ==
    /\ HttpInit
    /\ mode \in Modes /\ fits \in BOOLEAN
    /\ static = "pending" /\ network = FALSE
    /\ destroyed = FALSE /\ loop = "off"
    /\ calls = [c \in Calls |-> "none"]

-----------------------------------------------------------------------------
(* staticNetwork *)

\* Network.from(network)
GivenNetwork ==
    /\ mode = "network" /\ static = "pending"
    /\ static' = "known"
    /\ UNCHANGED <<httpVars, mode, fits, network, destroyed, loop, calls>>

\* options.hardhatProvider.getNetwork()
HardhatNetwork ==
    /\ mode = "hardhat" /\ static = "pending"
    /\ static' \in {"known", "failed"}
    /\ UNCHANGED <<httpVars, mode, fits, network, destroyed, loop, calls>>

\* 'Wrong network'
ChainAccepted == fits

\* new JsonRpcProvider(fetchRequest).getNetwork(), by a request of its own.
Detected ==
    /\ mode = "detect" /\ static = "pending" /\ stage = "done"
    /\ network' = (reply = "answer" /\ ChainAccepted)
    /\ static' = IF network' THEN "known" ELSE "failed"
    /\ UNCHANGED <<httpVars, mode, fits, destroyed, loop, calls>>

-----------------------------------------------------------------------------
(* Calls, and ethers' bootstrap loop *)

Reject(S) == calls' = [c \in Calls |-> IF c \in S THEN "rejected" ELSE calls[c]]
Queued == {c \in Calls : calls[c] = "queued"}

\* Mutant: the error is only passed on.
DestroyedNot == destroyed

\* _detectNetwork destroys the provider before it throws.
DestroyedByError == TRUE

\* getNetwork awaits _detectNetwork.
GetNetwork(c) ==
    /\ calls[c] = "none"
    /\ calls' = [calls EXCEPT ![c] = "detecting"]
    /\ UNCHANGED <<httpVars, mode, fits, static, network, destroyed, loop>>

NetworkTold(c) ==
    /\ calls[c] = "detecting" /\ static = "known"
    /\ calls' = [calls EXCEPT ![c] = "told"]
    /\ UNCHANGED <<httpVars, mode, fits, static, network, destroyed, loop>>

\* destroy also rejects what is queued.
NetworkRefused(c) ==
    /\ calls[c] = "detecting" /\ static = "failed"
    /\ destroyed' = DestroyedByError
    /\ calls' = [d \in Calls |-> IF d = c THEN "refused"
                                ELSE IF destroyed' /\ d \in Queued THEN "rejected" ELSE calls[d]]
    /\ UNCHANGED <<httpVars, mode, fits, static, network, loop>>

\* send starts the loop and queues the request; a Hardhat provider takes it directly.
Send(c) ==
    /\ calls[c] = "none"
    /\ \/ mode = "hardhat" /\ calls' = [calls EXCEPT ![c] = "sent"] /\ UNCHANGED loop
       \/ mode # "hardhat" /\ destroyed /\ Reject({c}) /\ UNCHANGED loop
       \/ /\ mode # "hardhat" /\ ~destroyed
          /\ calls' = [calls EXCEPT ![c] = "queued"]
          /\ loop' = IF loop = "off" THEN "detecting" ELSE loop
    /\ UNCHANGED <<httpVars, mode, fits, static, network, destroyed>>

\* Mutant: a detection that failed is made again.
BootstrapAnew ==
    /\ loop = "detecting" /\ static # "pending"
    /\ static' = IF static = "failed" THEN "pending" ELSE static
    /\ loop' = IF static = "known" THEN "over" ELSE loop
    /\ UNCHANGED <<httpVars, mode, fits, network, destroyed, calls>>

\* while (#network == null && !destroyed): try again a second later, or go on.
Bootstrap ==
    /\ loop = "detecting" /\ static # "pending"
    /\ destroyed' = IF static = "failed" THEN DestroyedByError ELSE destroyed
    /\ loop' = IF destroyed' \/ static = "known" THEN "over" ELSE loop
    /\ Reject(IF destroyed' THEN Queued ELSE {})
    /\ UNCHANGED <<httpVars, mode, fits, static, network>>

\* The queue is drained by a timer of its own, whatever the loop has found by then.
Dispatch(c) ==
    /\ calls[c] = "queued" /\ ~destroyed
    /\ calls' = [calls EXCEPT ![c] = "sent"]
    /\ UNCHANGED <<httpVars, mode, fits, static, network, destroyed, loop>>

\* The node answers, or the request ends otherwise; a destroyed provider passes no answer
\* on, except one of the Hardhat provider, which did not go through its queue.
Answered(c) ==
    /\ calls[c] = "sent"
    /\ \E how \in {"rejected"} \cup (IF destroyed /\ mode # "hardhat" THEN {} ELSE {"answered"}) :
           calls' = [calls EXCEPT ![c] = how]
    /\ UNCHANGED <<httpVars, mode, fits, static, network, destroyed, loop>>

\* The program destroys the provider.
Destroy ==
    /\ ~destroyed
    /\ destroyed' = TRUE
    /\ Reject(Queued)
    /\ UNCHANGED <<httpVars, mode, fits, static, network, loop>>

RequestStep == mode = "detect" /\ (Server \/ Library \/ Cancel) /\ UNCHANGED networkVars

Learn == GivenNetwork \/ HardhatNetwork \/ Detected \/ Bootstrap
Serve(c) == NetworkTold(c) \/ NetworkRefused(c) \/ Dispatch(c) \/ Answered(c)

NetworkNext ==
    \/ RequestStep \/ Learn \/ Destroy
    \/ \E c \in Calls : GetNetwork(c) \/ Send(c) \/ Serve(c)

\* The library and ethers go on; of the network only the timeout is sure to come.
NetworkFairness ==
    /\ WF_providerVars(mode = "detect" /\ Library /\ UNCHANGED networkVars)
    /\ WF_providerVars(Learn)
    /\ \A c \in Calls : WF_providerVars(Serve(c))

-----------------------------------------------------------------------------
(* Properties *)

Settled == {"told", "refused", "answered", "rejected"}

\* A provider that detects its network tells no call of another one than it is configured
\* for, and once it has refused a call the network (it found another chain, or none), no
\* other call is sent to that chain or answered from it.  Calls that do not ask for the
\* network may have been sent and answered before, while the chain was being detected.
WrongChainIsLeft ==
    [][mode = "detect" =>
        \A c \in Calls : calls'[c] # calls[c] =>
            /\ calls'[c] = "told" => fits /\ network
            /\ (\E d \in Calls : calls[d] = "refused") => calls'[c] \notin {"sent", "answered"}
      ]_calls

\* Every call ends, unless a server stalls a detection that has no timeout: when no
\* network is learned, the bootstrap loop stops and the queue is emptied.
EveryCallEnds ==
    timeout \/ mode # "detect" =>
        \A c \in Calls : calls[c] # "none" ~> calls[c] \in Settled

Under(c) == calls[c] \in {"detecting", "queued", "sent"}

\* While a call is under way something goes on that is sure to: its answer is at hand, the
\* loop or staticNetwork can go on, or the request that detects the network is still to be
\* sent or will be ended by its timer.
CallsNeverStuck ==
    (timeout \/ mode # "detect") /\ (\E c \in Calls : Under(c)) =>
        \/ \E c \in Calls :
              \/ calls[c] = "detecting" /\ static # "pending"
              \/ calls[c] = "queued" /\ ~destroyed
              \/ calls[c] = "sent"
        \/ loop = "detecting" /\ static # "pending"
        \/ static = "pending" /\ (mode # "detect" \/ stage = "done")
        \/ mode = "detect" /\ (stage = "unsent" \/ armed \/ (InFlight /\ aborted))

\* What is left to do: stages of the request, its timer, cancellation and listener; learning
\* the network, starting and ending the loop, destroying; making, sending and settling
\* each call.
Left ==
    {<<"request", what>> : what \in
        {w \in {"send", "headers", "body", "timer", "cancel", "listener"} :
            \/ w = "send" /\ stage = "unsent"
            \/ w = "headers" /\ stage \in {"unsent", "headers"}
            \/ w = "body" /\ stage # "done"
            \/ w = "timer" /\ (stage = "unsent" \/ armed)
            \/ w = "cancel" /\ ~cancelled
            \/ w = "listener" /\ (~cancelled \/ due)}}
    \cup {<<"provider", what>> : what \in
        {w \in {"learn", "start", "loop", "destroy"} :
            \/ w = "learn" /\ static = "pending"
            \/ w = "start" /\ loop = "off"
            \/ w = "loop" /\ loop \in {"off", "detecting"}
            \/ w = "destroy" /\ ~destroyed}}
    \cup {<<"make", c>> : c \in {c \in Calls : calls[c] = "none"}}
    \cup {<<"send", c>> : c \in {c \in Calls : calls[c] \in {"none", "queued"}}}
    \cup {<<"settle", c>> : c \in {c \in Calls : calls[c] = "none" \/ Under(c)}}

\* Each step uses up some of it and brings nothing back: the loop, which tries until it
\* is told a network, goes round once.
CallsRunOut == [][Left' \subseteq Left /\ Left' # Left]_providerVars

\* provider.ts, line 228: _network "Gets the detected or static network."; it throws
\* while #network is not set.
NetworkIsAvailable == \A c \in Calls : calls[c] = "told" => network
=============================================================================
