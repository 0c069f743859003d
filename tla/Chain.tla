-------------------------------- MODULE Chain --------------------------------
(***************************************************************************)
(* The chain behind the provider, which is external to this library: it    *)
(* grows and is reorganised between any two requests.  One value stands    *)
(* for the part of the state a call reads: a token balance, or the latest  *)
(* round of a price feed.                                                  *)
(***************************************************************************)
EXTENDS Integers, Sequences

CONSTANTS
    Heights,        \* numbers of the head in the beginning
    MaxGrown,       \* bound: new blocks
    MaxForks,       \* bound: reorganisations
    Values,         \* of the state that is read
    Kinds,          \* the call a behaviour is about
    None

ASSUME ChainAssumption ==
    /\ Heights \subseteq Nat /\ MaxGrown \in Nat /\ MaxForks \in Nat
    /\ Values \subseteq Nat
    /\ Kinds \subseteq {"hashes", "trace", "erc20", "chainlink"}
    /\ None \notin Int

VARIABLES
    kind,       \* the call under consideration
    chain,      \* the blocks, from the genesis block on
    grown,      \* new blocks so far
    forks       \* reorganisations so far; a block remembers the one it came with

chainVars == <<kind, chain, grown, forks>>

Height == Len(chain) - 1
BlockAt(n) == chain[n + 1]
HashOf(n) == [number |-> n, fork |-> BlockAt(n).fork]
\* It grows with every change of the chain.
Clock == grown + forks

\* Rounds only grow along a chain; blocks that nobody reads a value of keep it.
NextValues(v) == CASE kind = "erc20" -> Values
                   [] kind = "chainlink" -> {w \in Values : w >= v}
                   [] OTHER -> {v}

ChainInit ==
    /\ kind \in Kinds
    /\ \E h \in Heights, v \in Values : \E w \in NextValues(v) :
           /\ kind = "chainlink" => v > 0
           /\ chain = [i \in 1 .. h + 1 |-> [fork |-> 0, value |-> IF i > h THEN w ELSE v]]
    /\ grown = 0 /\ forks = 0

NewBlock ==
    /\ grown < MaxGrown
    /\ grown' = grown + 1
    /\ \E v \in NextValues(BlockAt(Height).value) :
           chain' = Append(chain, [fork |-> forks, value |-> v])
    /\ UNCHANGED <<kind, forks>>

\* The blocks from number n on are replaced by as many others.
Reorg ==
    /\ forks < MaxForks
    /\ forks' = forks + 1
    /\ \E n \in 1 .. Height : \E v \in NextValues(BlockAt(n - 1).value) :
           chain' = [i \in 1 .. Len(chain) |->
                        IF i > n THEN [fork |-> forks', value |-> v] ELSE chain[i]]
    /\ UNCHANGED <<kind, grown>>

ChainNext == NewBlock \/ Reorg
=============================================================================
