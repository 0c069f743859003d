--------------------------- MODULE MCMulticaller ---------------------------
EXTENDS Multicaller, TLC

\* A plain call, and one that names an old block.
Plain == [from |-> FALSE, to |-> "contract", value |-> FALSE, blockTag |-> "none",
          selector |-> "other", gas |-> FALSE]
Old == [Plain EXCEPT !.blockTag = "pinned"]
WithGas == [Plain EXCEPT !.blockTag = "latest", !.gas = TRUE]

CONSTANTS c1, c2, c3, c4

\* Calls c1 and c2 are plain, c2 reverts, c3 carries a gas limit and c4 an old block.
AllTx == (c1 :> Plain) @@ (c2 :> Plain) @@ (c3 :> WithGas) @@ (c4 :> Old)
MCTx == [c \in Calls |-> AllTx[c]]

\* Ids never collide: each call draws one of its own.
OwnDraws == [c \in Calls |-> {c}]
\* c1 and c2 draw the same id or not; c3 draws another one.
CollidingDraws == [c \in Calls |-> IF c = c3 THEN {c3} ELSE {c1, c2}]
=============================================================================
