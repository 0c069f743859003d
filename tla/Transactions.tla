---------------------------- MODULE Transactions ----------------------------
(***************************************************************************)
(* ProxySigner.sendTransaction (signer.ts): populateTransaction fills the  *)
(* missing fields of the caller's own object, between concurrent reads of  *)
(* the nonce, the balance and the fees (provider.ts, getFeeData), and the  *)
(* parent signer broadcasts a copy.  Several sends of one account overlap, *)
(* and may be given the same object.  The node that answers the reads and  *)
(* takes the transactions is external.                                     *)
(***************************************************************************)
EXTENDS Integers, FiniteSets, Sequences

CONSTANTS
    Sends,          \* calls of sendTransaction
    Objects,        \* transaction objects of the caller
    Given,          \* the objects as the caller may build them
    Settings,       \* of the signer and its chain, see TransactionsAssumption
    Tips,           \* priority fees a node may suggest
    GasPrices,      \* gas prices a node may suggest
    GasBump,        \* gasPriceBump
    ReserveGas,     \* DEFAULT_GAS_LIMIT, or ARB_GAS_LIMIT on Arbitrum
    FailoverGas,    \* GAS_LIMIT_FAILOVER
    TransferGas,    \* 21000
    CallGas,        \* other gas limits a node may estimate
    Margin,         \* by which maxFeePerGas is raised above the priority fee
    Balance,        \* of the account in the beginning
    None            \* an absent field

\* A transaction request of ethers.
Field(S) == S \cup {None}
TxType == [from : {"absent", "signer", "other"}, chainId : BOOLEAN, type : Field({0, 1, 2}),
           gasPrice : Field(Nat), maxFee : Field(Nat), maxPriority : Field(Nat),
           nonce : Field(Nat), gasLimit : Field(Nat), value : Field(Int),
           txCost : Field(Nat), l1Fee : Field(Nat)]

ASSUME TransactionsAssumption ==
    /\ Given \subseteq TxType
    /\ Tips \subseteq Nat /\ GasPrices \subseteq Nat /\ CallGas \subseteq Nat \ {0}
    /\ {GasBump, ReserveGas, FailoverGas, TransferGas, Margin, Balance} \subseteq Nat \ {0}
    /\ None \notin Int
    /\ \A e \in Settings : /\ e.bases # {} /\ e.bases \subseteq Nat \cup {None}
                           /\ e.l1 \in Nat /\ e.custom \in Nat \cup {None}
                           /\ {e.oracle, e.hardhat, e.failover, e.autoValue} \subseteq BOOLEAN

VARIABLES
    setting,        \* the signer's options; base fees and L1 fee of the chain
    objectOf,       \* the object each send is given
    tx,             \* the objects, filled in place
    pc,             \* how far a send is
    asked, got,     \* what it reads, and the replies
    rate,           \* its gasPrice and l1Fee, and whether it empties the account
    sent,           \* txObj: the copy populateTransaction returns
    outcome,        \* what the parent signer's sendTransaction answered
    mined, pending, \* the node: transactions mined, cost of each waiting one
    balance, free,  \* the node: balance at the latest block, and what the waiting ones leave
    overlapped,     \* history: sends running at some time of a send
    crowded         \* history: waiting ones took from the balance it read

node == <<mined, pending, balance, free>>
vars == <<setting, objectOf, tx, pc, asked, got, rate, sent, outcome, node, overlapped, crowded>>

Active(s) == pc[s] \notin {"idle", "done"}
Accepted == mined + Len(pending)
\* JavaScript's x || y, where an absent field and zero count as false.
Truthy(x) == x # None /\ x # 0
OrZero(x) == IF x = None THEN 0 ELSE x

-----------------------------------------------------------------------------
(* Fees *)

\* Provider.getFeeData: a failed call for either price is answered with zero.
FeeData == [gasPrice : GasPrices \cup {0}, maxFee : setting.bases, priority : Tips \cup {0}]

\* Op.getL1Fee raises the oracle's answer by 30 %.
L1Fee == (setting.l1 * 13) \div 10

\* The priority fee is the object's own, else the signer's, else the node's.
PriorityFee(t, fee) == IF t.maxPriority # None THEN t.maxPriority
                       ELSE IF setting.custom # None THEN setting.custom ELSE fee.priority

\* Mutant: the node's maxFeePerGas is used as it is.
MaxFeeUncorrected(fee, priority) == fee.maxFee * GasBump

MaxFee(fee, priority) ==
    (IF fee.maxFee <= priority THEN priority + Margin ELSE fee.maxFee) * GasBump

WithFees(t, fee) ==
    IF Truthy(fee.maxFee)
    THEN [t EXCEPT !.type = IF Truthy(@) THEN @ ELSE 2,
                   !.maxPriority = PriorityFee(t, fee),
                   !.maxFee = MaxFee(fee, PriorityFee(t, fee)),
                   !.gasPrice = None]
    ELSE [t EXCEPT !.type = IF @ = None THEN 0 ELSE @,
                   !.gasPrice = fee.gasPrice, !.maxFee = None, !.maxPriority = None]

\* Mutant: the fees of an object that has them already are not priced.
PriceFetched(t, fetched) == IF ~fetched THEN 0 ELSE OrZero(t.maxFee) + OrZero(t.gasPrice)

\* gasPrice: fees that were just written, or those the object came with.
Price(t, fetched) == IF Truthy(t.maxFee) THEN t.maxFee + OrZero(t.maxPriority)
                     ELSE OrZero(t.gasPrice)

Bumped(gas) == IF gas = TransferGas THEN gas ELSE (gas * 13) \div 10

\* Mutant: the fee of the first layer is left out of the value.
RestL2(funds, r, gas) == funds - r.price * gas

\* The value that leaves nothing behind.
Rest(funds, r, gas) == funds - (r.price * gas + r.l1)

-----------------------------------------------------------------------------
(* populateTransaction *)

Init ==
    /\ setting \in Settings
    /\ objectOf \in [Sends -> Objects]
    /\ tx \in [Objects -> Given]
    /\ pc = [s \in Sends |-> "idle"]
    /\ asked = [s \in Sends |-> {}]
    /\ got = [s \in Sends |-> [nonce |-> None, balance |-> None]]
    /\ rate = [s \in Sends |-> [price |-> 0, l1 |-> 0, whole |-> FALSE]]
    /\ sent = [s \in Sends |-> None]
    /\ outcome = [s \in Sends |-> "none"]
    /\ mined = 0 /\ pending = <<>> /\ balance = Balance /\ free = Balance
    /\ overlapped = [s \in Sends |-> {}]
    /\ crowded = [s \in Sends |-> FALSE]

Settle(s, why) == pc' = [pc EXCEPT ![s] = "done"] /\ outcome' = [outcome EXCEPT ![s] = why]

\* What Promise.all reads: only what the object does not have yet, and the fee of the
\* first layer only through an opGasPriceOracle, which is optional on every chain.
Reads(t) ==
    {f \in {"chain", "fees", "nonce", "balance", "l1"} :
        CASE f = "chain" -> ~t.chainId
          [] f = "fees" -> t.maxFee = None /\ t.gasPrice = None
          [] f = "nonce" -> t.nonce = None
          [] f = "balance" -> t.txCost = None /\ setting.autoValue
          [] f = "l1" -> ~Truthy(t.l1Fee) /\ setting.oracle}

Begin(s) ==
    LET o == objectOf[s]
        running == {t \in Sends : Active(t)}
    IN  /\ pc[s] = "idle"
        /\ tx[o].from # "other"
        /\ tx' = [tx EXCEPT ![o].from = "signer"]
        /\ pc' = [pc EXCEPT ![s] = "reading"]
        /\ asked' = [asked EXCEPT ![s] = Reads(tx[o])]
        /\ overlapped' = [t \in Sends |-> IF t = s THEN running
                                          ELSE overlapped[t] \cup (IF t \in running THEN {s} ELSE {})]
        /\ UNCHANGED <<setting, objectOf, got, rate, sent, outcome, node, crowded>>

\* 'Wrong signer for transaction'
WrongSigner(s) ==
    /\ pc[s] = "idle"
    /\ tx[objectOf[s]].from = "other"
    /\ Settle(s, "failed")
    /\ UNCHANGED <<setting, objectOf, tx, asked, got, rate, sent, node, overlapped, crowded>>

\* Mutant: the count of mined transactions, that of the latest block.
LatestCount == mined

\* Mutant: the last nonce used, not the next one.
LastUsed == mined + Len(pending) - 1

\* getTransactionCount(address, 'pending')
PendingCount == mined + Len(pending)

ReadNonce(s) ==
    /\ pc[s] = "reading" /\ "nonce" \in asked[s] /\ got[s].nonce = None
    /\ got' = [got EXCEPT ![s].nonce = PendingCount]
    /\ UNCHANGED <<setting, objectOf, tx, pc, asked, rate, sent, outcome, node, overlapped, crowded>>

\* multicall.getEthBalance: the balance at the latest block, waiting ones not counted.
ReadBalance(s) ==
    /\ pc[s] = "reading" /\ "balance" \in asked[s] /\ got[s].balance = None
    /\ got' = [got EXCEPT ![s].balance = balance]
    /\ crowded' = [crowded EXCEPT ![s] = free # balance]
    /\ UNCHANGED <<setting, objectOf, tx, pc, asked, rate, sent, outcome, node, overlapped>>

\* The block behind the base fee, or any other read, fails.
ReadFails(s) ==
    /\ pc[s] = "reading" /\ asked[s] # {}
    /\ Settle(s, "failed")
    /\ UNCHANGED <<setting, objectOf, tx, asked, got, rate, sent, node, overlapped, crowded>>

\* Mutant: the nonce goes into the copy that is sent, not into the object.
NonceDropped(s, t) == t

\* On a Hardhat chain the parent signer numbers the transaction.
WithNonce(s, t) ==
    IF got[s].nonce # None /\ ~("chain" \in asked[s] /\ setting.hardhat)
    THEN [t EXCEPT !.nonce = got[s].nonce] ELSE t

\* The last statements: l1Fee and txCost are kept, and the object is copied.
Finish(s, t, r) ==
    LET done == [t EXCEPT !.l1Fee = IF r.l1 > 0 THEN r.l1 ELSE @,
                          !.txCost = IF Truthy(@) THEN @ ELSE r.price * t.gasLimit + r.l1]
    IN  /\ tx' = [tx EXCEPT ![objectOf[s]] = done]
        /\ sent' = [sent EXCEPT ![s] = done]
        /\ pc' = [pc EXCEPT ![s] = "sending"]

\* balance && BigInt(tx.value || 0) >= balance
IsWhole(s, t) == Truthy(got[s].balance) /\ OrZero(t.value) >= got[s].balance

\* The object with the fees of any reply, or untouched if none were asked for.
PricedObjects(s) ==
    LET t == tx[objectOf[s]]
    IN  IF "fees" \in asked[s] THEN {WithFees(t, fee) : fee \in FeeData} ELSE {t}

\* Promise.all is fulfilled: everything up to the estimate of the gas.
Fill(s) ==
    /\ pc[s] = "reading"
    /\ "nonce" \in asked[s] => got[s].nonce # None
    /\ "balance" \in asked[s] => got[s].balance # None
    /\ \E priced \in PricedObjects(s) :
        LET o == objectOf[s]
            t == WithNonce(s, [priced EXCEPT !.chainId = TRUE])
            r == [price |-> Price(priced, "fees" \in asked[s]),
                  l1 |-> IF "l1" \in asked[s] THEN L1Fee ELSE 0, whole |-> IsWhole(s, t)]
        IN  /\ rate' = [rate EXCEPT ![s] = r]
            /\ IF r.whole
               THEN /\ tx' = [tx EXCEPT ![o] = [t EXCEPT !.value = Rest(got[s].balance, r, ReserveGas)]]
                    /\ pc' = [pc EXCEPT ![s] = "valuing"]
                    /\ UNCHANGED sent
               ELSE IF Truthy(t.gasLimit) THEN Finish(s, t, r)
               ELSE /\ tx' = [tx EXCEPT ![o] = t]
                    /\ pc' = [pc EXCEPT ![s] = "estimating"]
                    /\ UNCHANGED sent
    /\ UNCHANGED <<setting, objectOf, asked, got, outcome, node, overlapped, crowded>>

\* Mutant: the value keeps the reserve of the first guess.
RevaluedNot(s, t, gas) == [t EXCEPT !.gasLimit = gas]

\* With the gas known, the value of an emptying transaction is computed again.
Revalued(s, t, gas) ==
    [t EXCEPT !.gasLimit = gas,
              !.value = IF pc[s] = "valuing" THEN Rest(got[s].balance, rate[s], gas) ELSE @]

\* A negative value cannot be encoded, so that the estimate rejects.
Estimated(s) ==
    /\ pc[s] \in {"valuing", "estimating"}
    /\ OrZero(tx[objectOf[s]].value) >= 0
    /\ \E gas \in CallGas \cup {TransferGas} :
           Finish(s, Revalued(s, tx[objectOf[s]], Bumped(gas)), rate[s])
    /\ UNCHANGED <<setting, objectOf, asked, got, rate, outcome, node, overlapped, crowded>>

\* gasLimitFailover covers the plain estimate only.
EstimateFails(s) ==
    /\ pc[s] \in {"valuing", "estimating"}
    /\ IF pc[s] = "estimating" /\ setting.failover
       THEN /\ Finish(s, [tx[objectOf[s]] EXCEPT !.gasLimit = FailoverGas], rate[s])
            /\ UNCHANGED outcome
       ELSE Settle(s, "failed") /\ UNCHANGED <<tx, sent>>
    /\ UNCHANGED <<setting, objectOf, asked, got, rate, node, overlapped, crowded>>

-----------------------------------------------------------------------------
(* The parent signer and the node (external) *)

Cost(t) == OrZero(t.value) + t.gasLimit * OrZero(IF t.maxFee = None THEN t.gasPrice ELSE t.maxFee)
           + setting.l1
Nonce(t) == IF t.nonce = None THEN Accepted ELSE t.nonce

Answer(t) == IF OrZero(t.value) < 0 THEN "failed"
             ELSE IF Nonce(t) # Accepted THEN "nonce"
             ELSE IF Cost(t) > free THEN "funds" ELSE "accepted"

Broadcast(s) ==
    /\ pc[s] = "sending"
    /\ Settle(s, Answer(sent[s]))
    /\ IF Answer(sent[s]) = "accepted"
       THEN pending' = Append(pending, Cost(sent[s])) /\ free' = free - Cost(sent[s])
       ELSE UNCHANGED <<pending, free>>
    /\ UNCHANGED <<setting, objectOf, tx, asked, got, rate, sent, mined, balance, overlapped, crowded>>

Mine ==
    /\ pending # <<>>
    /\ mined' = mined + 1
    /\ pending' = Tail(pending)
    /\ balance' = balance - Head(pending)
    /\ UNCHANGED <<setting, objectOf, tx, pc, asked, got, rate, sent, outcome, free, overlapped, crowded>>

Next ==
    \/ \E s \in Sends : \/ Begin(s) \/ WrongSigner(s)
                        \/ ReadNonce(s) \/ ReadBalance(s) \/ ReadFails(s)
                        \/ Fill(s) \/ Estimated(s) \/ EstimateFails(s) \/ Broadcast(s)
    \/ Mine

Spec == Init /\ [][Next]_vars

-----------------------------------------------------------------------------
(* Properties *)

\* The objects keep the shape of a transaction request whatever sends fill them.
TypeOK ==
    /\ tx \in [Objects -> TxType]
    /\ sent \in [Sends -> TxType \cup {None}]
    /\ pc \in [Sends -> {"idle", "reading", "valuing", "estimating", "sending", "done"}]
    /\ got \in [Sends -> [nonce : Field(Nat), balance : Field(Int)]]
    /\ rate \in [Sends -> [price : Nat, l1 : Nat, whole : BOOLEAN]]
    /\ outcome \in [Sends -> {"none", "failed", "nonce", "funds", "accepted"}]
    /\ mined \in Nat /\ pending \in Seq(Nat) /\ balance \in Int /\ free \in Int

\* Other sends of the object of s that overlapped it.
Sharing(s) == {t \in overlapped[s] : objectOf[t] = objectOf[s]}

\* The object is broadcast with the fees of one scheme only, that of its type, and with
\* a maxFeePerGas no lower than its priority fee, whatever the node suggests
\* (provider.ts, line 252), however often the object was filled or sent before.
FeesConsistent ==
    \A s \in Sends : sent[s] # None =>
        LET t == sent[s] IN
        /\ t.gasPrice = None \/ t.maxFee = None
        /\ t.type = 2 => t.gasPrice = None
        /\ t.type = 0 => t.maxFee = None /\ t.maxPriority = None
        /\ t.maxFee # None => OrZero(t.maxPriority) <= t.maxFee

\* A send that read its nonce and overlapped no other is never refused for it, even
\* though earlier transactions may still wait to be mined.
LoneNonceFits ==
    \A s \in Sends : outcome[s] = "nonce" /\ "nonce" \in asked[s] => overlapped[s] # {}

\* Sending one object again, as a caller does to retry, executes it once: a send that
\* begins after the others of its object have ended finds the nonce in the object.
\* Hardhat apart, where sends leave the object without a nonce.
RetryIsIdempotent ==
    ~setting.hardhat =>
        \A s, t \in Sends :
            /\ objectOf[s] = objectOf[t] /\ Sharing(s) = {} /\ Sharing(t) = {}
            /\ outcome[s] = "accepted" /\ outcome[t] = "accepted"
            => s = t

\* What the signer can know of the fee of the first layer: nothing without an oracle,
\* whatever the chain charges.
KnownL1 == IF setting.oracle THEN setting.l1 ELSE 0

\* A transaction that empties the account is affordable, with the gas found by the
\* estimate and with its L1 fee, unless other sends or transactions of the account that
\* waited when the balance was read took from it.  On a chain with an L1 fee this needs
\* the signer's opGasPriceOracle (signer.ts, line 91): without one the value leaves
\* nothing for the fee, and the send is refused.
EmptyingIsCovered ==
    setting.l1 = KnownL1 =>
        \A s \in Sends : rate[s].whole /\ ~crowded[s] /\ overlapped[s] = {} => outcome[s] # "funds"

\* No two sends of the object overlap.
Unshared(o) == \A t \in Sends : objectOf[t] = o => Sharing(t) = {}

\* The txCost handed to the caller bounds what the node may charge for gas, and for the
\* first layer too if the signer has an oracle for it, also for an object that was filled
\* by earlier, failed sends: if two of them overlap, the txCost of one may stay with the
\* gas limit of the other.  Without an oracle an L1 fee comes on top of txCost.
TxCostBounds ==
    \A s \in Sends : outcome[s] = "accepted" /\ Unshared(objectOf[s]) =>
        sent[s].txCost >= Cost(sent[s]) - OrZero(sent[s].value) - (setting.l1 - KnownL1)
=============================================================================
