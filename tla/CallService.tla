----------------------------- MODULE CallService -----------------------------
(***************************************************************************)
(* What Provider.call promises its callers, whatever happens underneath:   *)
(* each call is accepted once and settled at most once, and it settles     *)
(* either with the answer to that very call, read from the chain at a      *)
(* block the chain had reached while the call was pending (or at the block *)
(* the caller pinned), or with an error.  Any number of pending calls may  *)
(* settle in one step: the results of one aggregate are handed out by one  *)
(* callback.  The module knows nothing of queues, timers, ids or chunks.   *)
(***************************************************************************)
EXTENDS Naturals

CONSTANTS
    Calls,      \* the calls the program makes, each of them once
    Reverts,    \* the calls whose target contract reverts
    Pinned,     \* the calls that name a block other than the latest
    MaxHead     \* bound on the chain height

VARIABLES
    head,       \* the latest block of the chain
    invokedAt,  \* the latest block when the call was made
    outcome     \* what the caller has been told of each call

svars == <<head, invokedAt, outcome>>

PinnedBlock == 0

Idle    == [kind |-> "idle"]
Waiting == [kind |-> "waiting"]
Failed  == [kind |-> "error"]

\* What call c returns, or throws, when it is evaluated at block h.
Answer(c, h) ==
    [kind |-> IF c \in Reverts THEN "exception" ELSE "result", of |-> c, block |-> h]

Outcomes == [kind : {"idle", "waiting", "error"}]
            \cup [kind : {"exception", "result"}, of : Calls, block : Nat]

\* The blocks at which c may truthfully have been evaluated by now.
Blocks(c) == IF c \in Pinned THEN {PinnedBlock} ELSE invokedAt[c] .. head

Settlements(c) == {Answer(c, h) : h \in Blocks(c)} \cup {Failed}

Init ==
    /\ head = 1
    /\ invokedAt = [c \in Calls |-> 0]
    /\ outcome = [c \in Calls |-> Idle]

Invoke(c) ==
    /\ outcome[c] = Idle
    /\ outcome' = [outcome EXCEPT ![c] = Waiting]
    /\ invokedAt' = [invokedAt EXCEPT ![c] = head]
    /\ UNCHANGED head

\* All the calls of S settle at once, each in its own way.
Settle(S) ==
    /\ \A c \in S : outcome[c] = Waiting
    /\ \A c \in Calls \ S : outcome'[c] = outcome[c]
    /\ \A c \in S : outcome'[c] \in Settlements(c)
    /\ DOMAIN outcome' = Calls
    /\ UNCHANGED <<head, invokedAt>>

NewBlock ==
    /\ head < MaxHead
    /\ head' = head + 1
    /\ UNCHANGED <<invokedAt, outcome>>

Next ==
    \/ NewBlock
    \/ \E c \in Calls : Invoke(c)
    \/ \E S \in SUBSET Calls : Settle(S)

Spec == Init /\ [][Next]_svars
=============================================================================
