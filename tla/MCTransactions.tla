--------------------------- MODULE MCTransactions ---------------------------
EXTENDS Transactions

MCBalance == 200

Plain == [from |-> "absent", chainId |-> FALSE, type |-> None, gasPrice |-> None,
          maxFee |-> None, maxPriority |-> None, nonce |-> None, gasLimit |-> None,
          value |-> None, txCost |-> None, l1Fee |-> None]

MCGiven == {
    Plain,
    [Plain EXCEPT !.value = MCBalance],                          \* empties the account
    [Plain EXCEPT !.value = MCBalance, !.gasPrice = 2, !.gasLimit = 4],
    [Plain EXCEPT !.maxFee = 5, !.maxPriority = 1, !.type = 2, !.chainId = TRUE],
    [Plain EXCEPT !.maxPriority = 3, !.type = 0, !.value = 150],
    [Plain EXCEPT !.from = "other"] }

Option(bases, l1, oracle, custom, hardhat, failover, autoValue) ==
    [bases |-> bases, l1 |-> l1, oracle |-> oracle, custom |-> custom, hardhat |-> hardhat,
     failover |-> failover, autoValue |-> autoValue]

MCSettings == {
    Option({1, 6}, 0, FALSE, None, FALSE, FALSE, TRUE),
    Option({None}, 4, TRUE, None, FALSE, FALSE, TRUE),
    Option({None}, 4, FALSE, None, FALSE, TRUE, TRUE),      \* an L1 fee, and no oracle
    Option({1}, 4, TRUE, 2, FALSE, TRUE, TRUE),
    Option({0}, 0, TRUE, None, TRUE, TRUE, FALSE) }

MCTips == {3}
MCGasPrices == {4}
MCCallGas == {4, 7}
=============================================================================
