---------------------------- MODULE MCChainReads ----------------------------
EXTENDS ChainReads

MCKinds == {"hashes", "trace", "erc20", "chainlink"}
MCTags == [by : {"latest", "number", "bigint", "hex", "hash"}, n : {0, 1, 2}]
=============================================================================
