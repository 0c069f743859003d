----------------------------- MODULE BlockHashes -----------------------------
(***************************************************************************)
(* Detecting a reorganisation (blockHashes.ts): fetchBlockHashes reads the *)
(* head once and then the hash of every block of its window at the same    *)
(* time, from the multicall contract or from the node; compareBlockHashes  *)
(* compares what an earlier fetch kept with what a later one found.        *)
(***************************************************************************)
EXTENDS Chain

CONSTANTS
    Knowns,         \* values of knownBlock, 0 if absent
    Depth,          \* depth
    Recent,         \* 100: blocks for which multicall is asked
    EvmWindow       \* 256: blocks whose hash a contract can see

ASSUME BlockHashesAssumption ==
    /\ Knowns \subseteq Nat /\ Depth \in Nat \ {0}
    /\ Recent \in Nat /\ EvmWindow \in Nat /\ Recent <= EvmWindow

VARIABLES
    knownBlock,     \* argument of the fetches
    fetching,       \* the fetch in progress: its head, the hashes so far
    fetched         \* the finished ones: the first is kept, the second compared with it

hashVars == <<knownBlock, fetching, fetched>>

Zero == [number |-> -1, fork |-> -1]
NoHashes == [n \in {} |-> Zero]

HashesInit ==
    /\ IF kind = "hashes" THEN knownBlock \in Knowns ELSE knownBlock = 0
    /\ fetching = None
    /\ fetched = <<>>

Running == kind = "hashes" /\ fetching # None
Last(head) == IF knownBlock = 0 THEN head ELSE knownBlock
\* range(knownBlock + 1 - depth, knownBlock): negative on a chain shorter than depth.
Window(head) == Last(head) + 1 - Depth .. Last(head)

\* head = await provider.getBlockNumber()
ReadHead ==
    /\ kind = "hashes" /\ fetching = None /\ Len(fetched) < 2
    /\ fetching' = [head |-> Height, hashes |-> NoHashes, since |-> forks]
    /\ UNCHANGED <<chainVars, knownBlock, fetched>>

\* Mutant: every block is looked up by contract.
OutsideNever(n, head) == FALSE

OutsideState(n, head) == n + Recent <= head

\* BLOCKHASH, in a call at the latest block: that block and older ones have none.
HashByContract(n) == IF n < Height /\ n >= Height - EvmWindow THEN HashOf(n) ELSE Zero

\* provider.getBlock; ethers counts a negative number from the head.
NumberMeant(n) == IF n < 0 THEN Height + n ELSE n

Found(n, hash) ==
    /\ fetching' = [fetching EXCEPT !.hashes = [m \in DOMAIN @ \cup {n} |-> IF m = n THEN hash ELSE @[m]]]
    /\ UNCHANGED <<chainVars, knownBlock, fetched>>

Wanted(n) == n \in Window(fetching.head) \ DOMAIN fetching.hashes

ByContract(n) ==
    /\ Running /\ Wanted(n)
    /\ n >= 0 /\ ~OutsideState(n, fetching.head)
    /\ Found(n, HashByContract(n))

\* Also when multicall was asked first and failed.
ByBlock(n) ==
    /\ Running /\ Wanted(n)
    /\ NumberMeant(n) \in 0 .. Height
    /\ Found(n, HashOf(NumberMeant(n)))

\* 'Block hash not available', or the request fails: the caller may fetch again.
FetchFails ==
    /\ Running
    /\ DOMAIN fetching.hashes # Window(fetching.head)
    /\ fetching' = None
    /\ UNCHANGED <<chainVars, knownBlock, fetched>>

\* The fetch returns.  until, now: history, for the properties.
FetchReturns ==
    /\ Running
    /\ DOMAIN fetching.hashes = Window(fetching.head)
    /\ fetched' = Append(fetched, [head |-> fetching.head, hashes |-> fetching.hashes,
                                   quiet |-> fetching.since = forks, now |-> chain])
    /\ fetching' = None
    /\ UNCHANGED <<chainVars, knownBlock>>

HashesNext ==
    \/ ReadHead \/ FetchFails \/ FetchReturns
    \/ Running /\ \E n \in Window(fetching.head) : ByContract(n) \/ ByBlock(n)

-----------------------------------------------------------------------------
(* compareBlockHashes *)

\* Mutant: a block the node did not report counts as replaced.
DifferOrMissing(fromLocal, fromNode) ==
    {n \in DOMAIN fromLocal : n \in DOMAIN fromNode => fromLocal[n] # fromNode[n]}

Differ(fromLocal, fromNode) ==
    {n \in DOMAIN fromLocal \cap DOMAIN fromNode : fromLocal[n] # fromNode[n]}

compareBlockHashes(fromLocal, fromNode) ==
    LET D == Differ(fromLocal, fromNode)
    IN  IF D = {} THEN None ELSE CHOOSE n \in D : \A m \in D : n <= m

-----------------------------------------------------------------------------
(* Properties *)

\* Two fetches to compare, during neither of which the chain was reorganised.
Comparable == Len(fetched) = 2 /\ fetched[1].quiet /\ fetched[2].quiet
Reorged == compareBlockHashes(fetched[1].hashes, fetched[2].hashes)
Replaced(n) == fetched[1].now[n + 1] # fetched[2].now[n + 1]

\* A reorganisation between two fetches is reported, at or before the first replaced
\* block: unless that block was the head of one of them, whose hash a contract does
\* not know.
ReorgIsReported ==
    Comparable =>
        \A n \in Window(fetched[1].head) \cap Window(fetched[2].head) :
            0 <= n /\ n < fetched[1].head /\ n < fetched[2].head /\ Replaced(n)
                => Reorged # None /\ Reorged <= n

\* Nothing is reported of a block that both fetches saw, that was not replaced and lay
\* below the head of the first fetch.
NoFalseAlarm ==
    Comparable /\ Reorged # None /\ 0 <= Reorged /\ Reorged < fetched[1].head
        => Replaced(Reorged)
=============================================================================
