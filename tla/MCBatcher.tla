------------------------------ MODULE MCBatcher ------------------------------
EXTENDS Batcher

\* Two sub-batches of two inputs to a group, and one retry.
TwoByTwo == [concurrencySize |-> 2, batchSize |-> 2, retryMax |-> 1, delays |-> TRUE]
\* The caller asks for no retry at all.
NoRetry == [concurrencySize |-> 1, batchSize |-> 1, retryMax |-> 0, delays |-> FALSE]
=============================================================================
