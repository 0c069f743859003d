------------------------- MODULE TransactionsProofs -------------------------
(***************************************************************************)
(* Nonces, fees and costs of ProxySigner.sendTransaction (signer.ts), for  *)
(* any number of overlapping sends, objects, settings and replies.         *)
(***************************************************************************)
EXTENDS Transactions, TLAPS

Fields == {"chain", "fees", "nonce", "balance", "l1"}
Filled == {"valuing", "estimating"}
RateType == [price : Nat, l1 : Nat, whole : BOOLEAN]

BaseOK == /\ setting \in Settings
          /\ objectOf \in [Sends -> Objects]
          /\ asked \in [Sends -> SUBSET Fields]
          /\ overlapped \in [Sends -> SUBSET Sends]

\* What a send has read and done fits the point it is at.
StepsFit ==
    \A s \in Sends :
        /\ got[s].nonce # None => pc[s] # "idle" /\ "nonce" \in asked[s]
        /\ outcome[s] # "none" => pc[s] = "done"
        /\ pc[s] = "valuing" => got[s].balance # None
        /\ pc[s] = "sending" => sent[s] \in TxType /\ sent[s].gasLimit # None

\* Sends that run at one time know of each other.
Overlaps == \A s, t \in Sends : Active(s) /\ Active(t) /\ s # t => t \in overlapped[s]

\* The nonce of a lone send is the next one all along, or left to the node.
LoneNonce ==
    \A s \in Sends : "nonce" \in asked[s] /\ overlapped[s] = {} =>
        /\ pc[s] = "reading" => /\ tx[objectOf[s]].nonce = None
                                /\ got[s].nonce \in {None, Accepted}
        /\ pc[s] \in Filled => tx[objectOf[s]].nonce \in {None, Accepted}
        /\ pc[s] = "sending" => sent[s].nonce \in {None, Accepted}
        /\ outcome[s] # "nonce"

\* The nonce that is sent stays in an object that no other send shares.
ObjectNonce ==
    ~setting.hardhat => \A s \in Sends :
        /\ pc[s] = "reading" => "nonce" \in asked[s] \/ tx[objectOf[s]].nonce # None
        /\ pc[s] \in Filled => tx[objectOf[s]].nonce # None
        /\ pc[s] = "sending" => /\ sent[s].nonce # None
                                /\ Sharing(s) = {} => sent[s].nonce = tx[objectOf[s]].nonce

\* An object that was sent once holds a used nonce, and later sends of it ask for none.
UsedNonce ==
    ~setting.hardhat => \A s \in Sends : outcome[s] = "accepted" /\ Sharing(s) = {} =>
        LET n == tx[objectOf[s]].nonce IN
        /\ n # None /\ n < Accepted
        /\ \A t \in Sends : Active(t) /\ objectOf[t] = objectOf[s] =>
               /\ "nonce" \notin asked[t]
               /\ pc[t] = "sending" => sent[t].nonce = n

SendInv == /\ TypeOK /\ BaseOK /\ StepsFit /\ Overlaps
           /\ LoneNonce /\ ObjectNonce /\ UsedNonce /\ RetryIsIdempotent

-----------------------------------------------------------------------------
(* Arithmetic and types *)

HasFees(t) == t.maxFee # None \/ t.gasPrice # None

\* Fields that pricing leaves alone.
SameCosts(u, t) == u.gasLimit = t.gasLimit /\ u.txCost = t.txCost /\ u.l1Fee = t.l1Fee

\* Products of numbers are numbers: the solver is told so once.
LEMMA ProductNat == \A a, b \in Nat : a * b \in Nat
    OBVIOUS

\* The same of integers.
LEMMA ProductInt == \A a, b \in Int : a * b \in Int
    OBVIOUS

\* The types of the signer's settings, one by one.
LEMMA SettingTyped ==
    ASSUME BaseOK
    PROVE  /\ setting.bases \subseteq Nat \cup {None} /\ setting.l1 \in Nat
           /\ setting.custom \in Nat \cup {None} /\ setting.hardhat \in BOOLEAN
           /\ L1Fee \in Nat
    BY TransactionsAssumption DEF BaseOK, L1Fee

\* Fees are written by whole schemes and touch nothing else of the object.
LEMMA FeesTyped ==
    ASSUME BaseOK, NEW t \in TxType, NEW fee \in FeeData
    PROVE  /\ WithFees(t, fee) \in TxType
           /\ WithFees(t, fee).nonce = t.nonce /\ SameCosts(WithFees(t, fee), t)
           /\ HasFees(WithFees(t, fee))
<1>1. /\ fee.gasPrice \in Nat /\ fee.maxFee \in Nat \cup {None} /\ fee.priority \in Nat
    <2>1. GasPrices \subseteq Nat /\ Tips \subseteq Nat
        BY TransactionsAssumption
    <2>2. setting.bases \subseteq Nat \cup {None}
        BY SettingTyped
    <2>3. fee.gasPrice \in GasPrices \cup {0} /\ fee.maxFee \in setting.bases
          /\ fee.priority \in Tips \cup {0}
        BY DEF FeeData
    <2>4. \A g, m, p : g \in GasPrices \cup {0} /\ m \in setting.bases /\ p \in Tips \cup {0}
              => g \in Nat /\ m \in Nat \cup {None} /\ p \in Nat
        BY <2>1, <2>2
    <2>. QED
        BY <2>3, <2>4, Zenon
<1>2. PriorityFee(t, fee) \in Nat
    BY <1>1, SettingTyped DEF PriorityFee, TxType, Field
<1>3. Truthy(fee.maxFee) => MaxFee(fee, PriorityFee(t, fee)) \in Nat
    <2> DEFINE p == PriorityFee(t, fee)
    <2> SUFFICES ASSUME Truthy(fee.maxFee) PROVE MaxFee(fee, p) \in Nat
        OBVIOUS
    <2>1. (IF fee.maxFee <= p THEN p + Margin ELSE fee.maxFee) \in Nat
        BY <1>1, <1>2, TransactionsAssumption DEF Truthy
    <2>2. GasBump \in Nat
        BY TransactionsAssumption
    <2>. HIDE DEF p
    <2>. QED
        BY <2>1, <2>2, ProductNat DEF MaxFee
<1>. HIDE DEF PriorityFee
<1>4. CASE Truthy(fee.maxFee)
    <2> DEFINE p == PriorityFee(t, fee)
               m == MaxFee(fee, PriorityFee(t, fee))
               k == IF Truthy(t.type) THEN t.type ELSE 2
    <2>1. p \in Field(Nat) /\ m \in Field(Nat) /\ None \in Field(Nat) /\ k \in Field({0, 1, 2})
        BY <1>2, <1>3, <1>4 DEF TxType, Field
    <2>2. WithFees(t, fee) = [t EXCEPT !.type = k, !.maxPriority = p, !.maxFee = m, !.gasPrice = None]
        BY <1>4 DEF WithFees
    <2>3. m # None
        BY <1>3, <1>4, TransactionsAssumption
    <2>. HIDE DEF p, m, k
    <2>. QED
        BY <2>1, <2>2, <2>3 DEF TxType, SameCosts, HasFees
<1>5. CASE ~Truthy(fee.maxFee)
    <2>1. fee.gasPrice # None
        BY <1>1, TransactionsAssumption
    <2> DEFINE k == IF t.type = None THEN 0 ELSE t.type
    <2>2. k \in Field({0, 1, 2}) /\ fee.gasPrice \in Field(Nat) /\ None \in Field(Nat)
        BY <1>1 DEF TxType, Field
    <2>3. WithFees(t, fee) =
              [t EXCEPT !.type = k, !.gasPrice = fee.gasPrice, !.maxFee = None, !.maxPriority = None]
        BY <1>5 DEF WithFees
    <2>. HIDE DEF k
    <2>. QED
        BY <2>1, <2>2, <2>3 DEF TxType, SameCosts, HasFees
<1>. QED
    BY <1>4, <1>5

\* Pricing leaves the nonce of an object alone.
LEMMA PricedTyped ==
    ASSUME BaseOK, TypeOK, NEW s \in Sends, NEW p \in PricedObjects(s)
    PROVE  /\ p \in TxType /\ p.nonce = tx[objectOf[s]].nonce /\ SameCosts(p, tx[objectOf[s]])
           /\ IF "fees" \in asked[s] THEN HasFees(p) ELSE p = tx[objectOf[s]]
    BY FeesTyped DEF PricedObjects, BaseOK, TypeOK, SameCosts

\* The price of the gas is a number, also for fees the caller gave.
LEMMA PriceTyped ==
    ASSUME NEW p \in TxType, NEW f
    PROVE  Price(p, f) \in Nat
    BY DEF Price, TxType, Field, Truthy, OrZero

\* The value of an emptying transaction is an integer, perhaps a negative one.
LEMMA RestTyped ==
    ASSUME NEW funds \in Int, NEW r \in RateType, NEW gas \in Nat
    PROVE  Rest(funds, r, gas) \in Int
    BY ProductInt DEF Rest, RateType

-----------------------------------------------------------------------------
(* Steps that fill the object *)

\* The object of s becomes u, and s goes on with it or has its copy.
Filling(s, u) ==
    /\ u \in TxType
    /\ tx' = [tx EXCEPT ![objectOf[s]] = u]
    /\ rate' \in [Sends -> RateType] /\ \A t \in Sends \ {s} : rate'[t] = rate[t]
    /\ \/ pc' = [pc EXCEPT ![s] = "valuing"] /\ sent' = sent /\ got[s].balance # None
       \/ pc' = [pc EXCEPT ![s] = "estimating"] /\ sent' = sent
       \/ /\ pc' = [pc EXCEPT ![s] = "sending"] /\ sent' = [sent EXCEPT ![s] = u]
          /\ u.gasLimit # None
    /\ UNCHANGED <<setting, objectOf, asked, got, outcome, node, overlapped>>

SameFees(u, t) == /\ u.type = t.type /\ u.gasPrice = t.gasPrice
                  /\ u.maxFee = t.maxFee /\ u.maxPriority = t.maxPriority

\* What a step from p to u does to the gas limit and the costs; r are the prices.
Costing(s, u, p, r) ==
    /\ IF pc[s] = "reading" THEN /\ r.price = Price(p, "fees" \in asked[s])
                                 /\ r.l1 = IF "l1" \in asked[s] THEN L1Fee ELSE 0
                            ELSE r = rate[s]
    /\ pc'[s] # "sending" => rate'[s] = r /\ SameCosts(u, p)
    /\ pc'[s] = "estimating" => ~Truthy(u.gasLimit)
    /\ pc'[s] = "sending" =>
           /\ Truthy(u.gasLimit) /\ (pc[s] = "reading" => u.gasLimit = p.gasLimit)
           /\ u.txCost = IF Truthy(p.txCost) THEN p.txCost ELSE r.price * u.gasLimit + r.l1

\* The object before the last changes of the step, with the fees it goes on with.
FilledFrom(s) == IF pc[s] = "reading" THEN PricedObjects(s) ELSE {tx[objectOf[s]]}

FilledNonce(s) ==
    IF pc[s] = "reading" /\ got[s].nonce # None /\ ~("chain" \in asked[s] /\ setting.hardhat)
    THEN got[s].nonce ELSE tx[objectOf[s]].nonce

Fills(s) == /\ pc[s] \in {"reading"} \cup Filled
            /\ pc[s] = "reading" /\ "nonce" \in asked[s] => got[s].nonce # None
            /\ \E u : /\ Filling(s, u) /\ u.nonce = FilledNonce(s)
                      /\ \E p \in FilledFrom(s), r \in RateType : SameFees(u, p) /\ Costing(s, u, p, r)

\* The copy that is sent is the object as it is then, gas limit included.
LEMMA FinishCopies ==
    ASSUME NEW s \in Sends, NEW t \in TxType, t.gasLimit # None, NEW r \in RateType,
           Finish(s, t, r)
    PROVE  \E u : /\ u \in TxType /\ u.nonce = t.nonce /\ u.gasLimit = t.gasLimit /\ SameFees(u, t)
                  /\ u.txCost = IF Truthy(t.txCost) THEN t.txCost ELSE r.price * t.gasLimit + r.l1
                  /\ tx' = [tx EXCEPT ![objectOf[s]] = u]
                  /\ sent' = [sent EXCEPT ![s] = u]
                  /\ pc' = [pc EXCEPT ![s] = "sending"]
<1> DEFINE u == [t EXCEPT !.l1Fee = IF r.l1 > 0 THEN r.l1 ELSE @,
                          !.txCost = IF Truthy(@) THEN @ ELSE r.price * t.gasLimit + r.l1]
<1>1. r.price * t.gasLimit + r.l1 \in Nat
    <2>1. r.price \in Nat /\ t.gasLimit \in Nat /\ r.l1 \in Nat
        BY DEF RateType, TxType, Field
    <2>2. r.price * t.gasLimit \in Nat
        BY <2>1, ProductNat
    <2>. QED
        BY <2>1, <2>2
<1>2. /\ u \in TxType /\ u.nonce = t.nonce /\ u.gasLimit = t.gasLimit /\ SameFees(u, t)
      /\ u.txCost = IF Truthy(t.txCost) THEN t.txCost ELSE r.price * t.gasLimit + r.l1
    <2> DEFINE l == IF r.l1 > 0 THEN r.l1 ELSE t.l1Fee
               c == IF Truthy(t.txCost) THEN t.txCost ELSE r.price * t.gasLimit + r.l1
    <2>1. l \in Field(Nat) /\ c \in Field(Nat)
        BY <1>1 DEF TxType, Field, RateType
    <2>2. u = [t EXCEPT !.l1Fee = l, !.txCost = c]
        OBVIOUS
    <2>3. c = IF Truthy(t.txCost) THEN t.txCost ELSE r.price * t.gasLimit + r.l1
        OBVIOUS
    <2>. HIDE DEF l, c, u
    <2>4. u \in TxType /\ u.nonce = t.nonce /\ u.gasLimit = t.gasLimit /\ SameFees(u, t) /\ u.txCost = c
        BY <2>1, <2>2 DEF TxType, SameFees
    <2>. QED
        BY <2>3, <2>4
<1>3. /\ tx' = [tx EXCEPT ![objectOf[s]] = u] /\ sent' = [sent EXCEPT ![s] = u]
      /\ pc' = [pc EXCEPT ![s] = "sending"]
    BY DEF Finish
<1>. QED
    BY <1>2, <1>3

\* Fill gives the object the nonce that was read, or leaves its own.
LEMMA FillFills ==
    ASSUME SendInv, NEW s \in Sends, Fill(s)
    PROVE  Fills(s)
<1>. USE DEF SendInv
<1>1. PICK p \in PricedObjects(s) :
        LET o == objectOf[s]
            t == WithNonce(s, [p EXCEPT !.chainId = TRUE])
            r == [price |-> Price(p, "fees" \in asked[s]),
                  l1 |-> IF "l1" \in asked[s] THEN L1Fee ELSE 0, whole |-> IsWhole(s, t)]
        IN  /\ rate' = [rate EXCEPT ![s] = r]
            /\ IF r.whole
               THEN /\ tx' = [tx EXCEPT ![o] = [t EXCEPT !.value = Rest(got[s].balance, r, ReserveGas)]]
                    /\ pc' = [pc EXCEPT ![s] = "valuing"]
                    /\ UNCHANGED sent
               ELSE IF Truthy(t.gasLimit) THEN Finish(s, t, r)
               ELSE /\ tx' = [tx EXCEPT ![o] = t]
                    /\ pc' = [pc EXCEPT ![s] = "estimating"]
                    /\ UNCHANGED sent
    BY DEF Fill
<1> DEFINE t == WithNonce(s, [p EXCEPT !.chainId = TRUE])
           r == [price |-> Price(p, "fees" \in asked[s]),
                 l1 |-> IF "l1" \in asked[s] THEN L1Fee ELSE 0, whole |-> IsWhole(s, t)]
<1>2. p \in TxType /\ p.nonce = tx[objectOf[s]].nonce
    BY PricedTyped
<1>3. pc[s] = "reading" /\ ("nonce" \in asked[s] => got[s].nonce # None)
    BY DEF Fill
<1>4. t \in TxType /\ t.nonce = FilledNonce(s) /\ SameFees(t, p) /\ SameCosts(t, p)
    <2>1. got[s].nonce \in Field(Nat)
        BY DEF TypeOK
    <2>. QED
        BY <1>2, <1>3, <2>1 DEF WithNonce, FilledNonce, TxType, Field, SameFees, SameCosts
<1>5. r \in RateType /\ r.price = Price(p, "fees" \in asked[s])
      /\ r.l1 = IF "l1" \in asked[s] THEN L1Fee ELSE 0
    BY <1>2, PriceTyped, SettingTyped DEF RateType, IsWhole, Truthy
<1>6. /\ rate' \in [Sends -> RateType] /\ rate'[s] = r
      /\ \A a \in Sends \ {s} : rate'[a] = rate[a]
    BY <1>1, <1>5 DEF TypeOK, RateType
<1>7. UNCHANGED <<setting, objectOf, asked, got, outcome, node, overlapped>>
    BY DEF Fill, node
<1>8. \E u : /\ Filling(s, u) /\ u.nonce = t.nonce /\ SameFees(u, t)
             /\ pc'[s] # "sending" => SameCosts(u, t)
             /\ pc'[s] = "estimating" => ~Truthy(u.gasLimit)
             /\ pc'[s] = "sending" =>
                    /\ Truthy(u.gasLimit) /\ u.gasLimit = t.gasLimit
                    /\ u.txCost = IF Truthy(t.txCost) THEN t.txCost ELSE r.price * u.gasLimit + r.l1
    <2>1. CASE r.whole
        <3> DEFINE u == [t EXCEPT !.value = Rest(got[s].balance, r, ReserveGas)]
        <3>1. got[s].balance \in Int
            BY <2>1 DEF IsWhole, Truthy, TypeOK, Field
        <3>2. Rest(got[s].balance, r, ReserveGas) \in Int
            BY <1>5, <3>1, RestTyped, TransactionsAssumption
        <3>3. u \in TxType /\ u.nonce = t.nonce /\ SameFees(u, t) /\ SameCosts(u, t)
            <4> DEFINE v == Rest(got[s].balance, r, ReserveGas)
            <4>1. v \in Field(Int) /\ u = [t EXCEPT !.value = v]
                BY <3>2 DEF Field
            <4>. HIDE DEF v, t, r, u
            <4>. QED
                BY <1>4, <4>1 DEF TxType, SameFees, SameCosts
        <3>4. /\ tx' = [tx EXCEPT ![objectOf[s]] = u]
              /\ pc' = [pc EXCEPT ![s] = "valuing"] /\ sent' = sent /\ pc'[s] = "valuing"
            BY <1>1, <2>1 DEF TypeOK
        <3>5. got[s].balance # None
            BY <3>1, TransactionsAssumption
        <3>. QED
            BY <1>6, <1>7, <3>3, <3>4, <3>5 DEF Filling
    <2>2. CASE ~r.whole /\ Truthy(t.gasLimit)
        <3>1. Finish(s, t, r)
            BY <1>1, <2>2
        <3>2. t.gasLimit # None
            BY <2>2 DEF Truthy
        <3>. HIDE DEF t, r
        <3>3. PICK u : /\ u \in TxType /\ u.nonce = t.nonce /\ u.gasLimit = t.gasLimit /\ SameFees(u, t)
                       /\ u.txCost = IF Truthy(t.txCost) THEN t.txCost ELSE r.price * t.gasLimit + r.l1
                       /\ tx' = [tx EXCEPT ![objectOf[s]] = u]
                       /\ sent' = [sent EXCEPT ![s] = u]
                       /\ pc' = [pc EXCEPT ![s] = "sending"]
            BY <1>4, <1>5, <3>1, <3>2, FinishCopies
        <3>4. pc'[s] = "sending"
            BY <3>3 DEF TypeOK
        <3>. QED
            BY <1>6, <1>7, <2>2, <3>2, <3>3, <3>4 DEF Filling
    <2>3. CASE ~r.whole /\ ~Truthy(t.gasLimit)
        <3>1. /\ tx' = [tx EXCEPT ![objectOf[s]] = t]
              /\ pc' = [pc EXCEPT ![s] = "estimating"] /\ sent' = sent /\ pc'[s] = "estimating"
            BY <1>1, <2>3 DEF TypeOK
        <3>. HIDE DEF t, r
        <3>. QED
            BY <1>4, <1>6, <1>7, <2>3, <3>1 DEF Filling, SameFees, SameCosts
    <2>. QED
        BY <2>1, <2>2, <2>3
<1>. HIDE DEF t, r
<1>9. p \in FilledFrom(s)
    BY <1>3 DEF FilledFrom
<1>10. PICK u : /\ Filling(s, u) /\ u.nonce = t.nonce /\ SameFees(u, t)
                /\ pc'[s] # "sending" => SameCosts(u, t)
                /\ pc'[s] = "estimating" => ~Truthy(u.gasLimit)
                /\ pc'[s] = "sending" =>
                       /\ Truthy(u.gasLimit) /\ u.gasLimit = t.gasLimit
                       /\ u.txCost = IF Truthy(t.txCost) THEN t.txCost ELSE r.price * u.gasLimit + r.l1
    BY <1>8
<1>11. SameFees(u, p) /\ Costing(s, u, p, r)
    BY <1>3, <1>4, <1>5, <1>6, <1>10 DEF SameFees, SameCosts, Costing
<1>. QED
    BY <1>3, <1>4, <1>5, <1>9, <1>10, <1>11 DEF Fills

\* The estimate completes the object and leaves its nonce alone.
LEMMA EstimatedFills ==
    ASSUME SendInv, NEW s \in Sends, Estimated(s)
    PROVE  Fills(s)
<1>. USE DEF SendInv
<1>1. PICK gas \in CallGas \cup {TransferGas} :
          Finish(s, Revalued(s, tx[objectOf[s]], Bumped(gas)), rate[s])
    BY DEF Estimated
<1> DEFINE t == Revalued(s, tx[objectOf[s]], Bumped(gas))
<1>2. gas \in Nat /\ gas > 0
    <2>1. CallGas \subseteq Nat \ {0} /\ TransferGas \in Nat \ {0}
        BY TransactionsAssumption
    <2>. QED
        BY <2>1
<1>3. Bumped(gas) \in Nat /\ Bumped(gas) > 0
    BY <1>2 DEF Bumped
<1>4. tx[objectOf[s]] \in TxType /\ rate[s] \in RateType
    BY DEF BaseOK, TypeOK, RateType
<1>5. pc[s] = "valuing" => Rest(got[s].balance, rate[s], Bumped(gas)) \in Int
    <2>1. pc[s] = "valuing" => got[s].balance \in Int
        BY DEF StepsFit, TypeOK, Field
    <2>. QED
        BY <2>1, <1>3, <1>4, RestTyped
<1>6. /\ t \in TxType /\ Truthy(t.gasLimit) /\ t.nonce = tx[objectOf[s]].nonce
      /\ SameFees(t, tx[objectOf[s]]) /\ t.txCost = tx[objectOf[s]].txCost
    <2> DEFINE v == IF pc[s] = "valuing" THEN Rest(got[s].balance, rate[s], Bumped(gas))
                    ELSE tx[objectOf[s]].value
               b == Bumped(gas)
    <2>1. t = [tx[objectOf[s]] EXCEPT !.gasLimit = b, !.value = v]
        BY DEF Revalued
    <2>2. v \in Field(Int) /\ b \in Field(Nat) /\ b # None /\ b # 0
        BY <1>3, <1>4, <1>5, TransactionsAssumption DEF TxType, Field
    <2>. HIDE DEF t, v, b
    <2>. QED
        BY <1>4, <2>1, <2>2 DEF TxType, SameFees, Truthy
<1>7. /\ UNCHANGED <<setting, objectOf, asked, got, outcome, node, overlapped>>
      /\ rate' \in [Sends -> RateType] /\ rate' = rate
      /\ pc[s] \in Filled
    BY DEF Estimated, node, TypeOK, RateType, Filled
<1>8. FilledNonce(s) = tx[objectOf[s]].nonce /\ pc[s] # "reading"
    BY <1>7 DEF Filled, FilledNonce
<1>9. Finish(s, t, rate[s])
    BY <1>1
<1>. HIDE DEF t
<1>10. PICK u : /\ u \in TxType /\ u.nonce = t.nonce /\ u.gasLimit = t.gasLimit /\ SameFees(u, t)
                /\ u.txCost = IF Truthy(t.txCost) THEN t.txCost ELSE rate[s].price * t.gasLimit + rate[s].l1
                /\ tx' = [tx EXCEPT ![objectOf[s]] = u]
                /\ sent' = [sent EXCEPT ![s] = u]
                /\ pc' = [pc EXCEPT ![s] = "sending"]
    BY <1>4, <1>6, <1>9, FinishCopies DEF Truthy
<1>11. pc'[s] = "sending"
    BY <1>10 DEF TypeOK
<1>12. Costing(s, u, tx[objectOf[s]], rate[s]) /\ SameFees(u, tx[objectOf[s]])
    BY <1>6, <1>8, <1>10, <1>11 DEF Costing, SameFees
<1>13. Filling(s, u) /\ u.nonce = FilledNonce(s)
    BY <1>6, <1>7, <1>8, <1>10 DEF Filling, Truthy
<1>. QED
    BY <1>4, <1>7, <1>8, <1>12, <1>13 DEF Fills, FilledFrom

\* The two ways for the estimate to fail.
LEMMA EstimateFailsFills ==
    ASSUME SendInv, NEW s \in Sends, EstimateFails(s)
    PROVE  Fills(s) \/ (Settle(s, "failed") /\ UNCHANGED <<tx, sent>>)
<1>. USE DEF SendInv
<1> SUFFICES ASSUME pc[s] = "estimating",
                    Finish(s, [tx[objectOf[s]] EXCEPT !.gasLimit = FailoverGas], rate[s]),
                    UNCHANGED outcome
             PROVE  Fills(s)
    BY DEF EstimateFails
<1> DEFINE t == [tx[objectOf[s]] EXCEPT !.gasLimit = FailoverGas]
<1>1. tx[objectOf[s]] \in TxType /\ rate[s] \in RateType
    BY DEF BaseOK, TypeOK, RateType
<1>2. /\ t \in TxType /\ Truthy(t.gasLimit) /\ t.nonce = tx[objectOf[s]].nonce
      /\ SameFees(t, tx[objectOf[s]]) /\ t.txCost = tx[objectOf[s]].txCost
    <2>1. FailoverGas \in Field(Nat) /\ FailoverGas # None /\ FailoverGas # 0
        BY TransactionsAssumption DEF Field
    <2>. QED
        BY <1>1, <2>1 DEF TxType, SameFees, Truthy
<1>3. /\ UNCHANGED <<setting, objectOf, asked, got, outcome, node, overlapped>>
      /\ rate' \in [Sends -> RateType] /\ rate' = rate
      /\ pc[s] \in Filled
    BY DEF EstimateFails, node, TypeOK, RateType, Filled
<1>4. FilledNonce(s) = tx[objectOf[s]].nonce /\ pc[s] # "reading"
    BY DEF FilledNonce
<1>5. Finish(s, t, rate[s])
    OBVIOUS
<1>. HIDE DEF t
<1>6. PICK u : /\ u \in TxType /\ u.nonce = t.nonce /\ u.gasLimit = t.gasLimit /\ SameFees(u, t)
               /\ u.txCost = IF Truthy(t.txCost) THEN t.txCost ELSE rate[s].price * t.gasLimit + rate[s].l1
               /\ tx' = [tx EXCEPT ![objectOf[s]] = u]
               /\ sent' = [sent EXCEPT ![s] = u]
               /\ pc' = [pc EXCEPT ![s] = "sending"]
    BY <1>1, <1>2, <1>5, FinishCopies DEF Truthy
<1>7. pc'[s] = "sending"
    BY <1>6 DEF TypeOK
<1>8. Costing(s, u, tx[objectOf[s]], rate[s]) /\ SameFees(u, tx[objectOf[s]])
    BY <1>2, <1>4, <1>6, <1>7 DEF Costing, SameFees
<1>9. Filling(s, u) /\ u.nonce = FilledNonce(s)
    BY <1>2, <1>3, <1>4, <1>6 DEF Filling, Truthy
<1>. QED
    BY <1>1, <1>3, <1>4, <1>8, <1>9 DEF Fills, FilledFrom

\* Filling gives the object a nonce if it lacks one, and never takes one away.
LEMMA FillsKeep ==
    ASSUME SendInv, NEW s \in Sends, Fills(s)
    PROVE  SendInv'
<1>. USE DEF SendInv
<1>1. PICK u : Filling(s, u) /\ u.nonce = FilledNonce(s)
    BY DEF Fills
<1> DEFINE o == objectOf[s]
<1>2. /\ u \in TxType /\ tx' = [tx EXCEPT ![o] = u] /\ tx'[o] = u
      /\ UNCHANGED <<setting, objectOf, asked, got, outcome, mined, pending, balance, free, overlapped>>
      /\ pc'[s] \in Filled \cup {"sending"}
      /\ \A t \in Sends \ {s} : pc'[t] = pc[t] /\ sent'[t] = sent[t]
      /\ pc'[s] = "valuing" => got[s].balance # None
      /\ pc'[s] = "sending" => sent'[s] = u /\ u.gasLimit # None
      /\ pc'[s] # "sending" => sent' = sent
      /\ o \in Objects
    BY <1>1 DEF Filling, Filled, node, TypeOK, BaseOK
<1>3. pc[s] \in {"reading"} \cup Filled /\ Active(s)
    BY DEF Fills, Filled, Active
<1>4. \A t \in Sends : Active(t)' <=> Active(t)
    BY <1>2, <1>3 DEF Active, Filled
<1>5. Accepted' = Accepted /\ \A t \in Sends : Sharing(t)' = Sharing(t)
    BY <1>2 DEF Accepted, Sharing
<1>6. TypeOK'
    <2>1. tx' \in [Objects -> TxType]
        BY <1>2 DEF TypeOK
    <2>2. sent' \in [Sends -> TxType \cup {None}] /\ rate' \in [Sends -> RateType]
          /\ pc' \in [Sends -> {"idle", "reading", "valuing", "estimating", "sending", "done"}]
        <3>1. /\ sent \in [Sends -> TxType \cup {None}]
              /\ pc \in [Sends -> {"idle", "reading", "valuing", "estimating", "sending", "done"}]
            BY DEF TypeOK
        <3>. QED
            BY <1>1, <3>1 DEF Filling
    <2>. QED
        BY <2>1, <2>2, <1>2 DEF TypeOK, RateType
<1>7. BaseOK' /\ RetryIsIdempotent'
    BY <1>2, <1>5 DEF BaseOK, RetryIsIdempotent
<1>8. StepsFit'
    BY <1>2, <1>3 DEF StepsFit, Filled, Active
<1>9. Overlaps'
    BY <1>2, <1>4 DEF Overlaps
<1>10. \A t \in Sends : Active(t) /\ t # s /\ objectOf[t] = o => Sharing(t) # {} /\ Sharing(s) # {}
    BY <1>3 DEF Overlaps, Sharing, BaseOK
<1>11. LoneNonce'
    <2> SUFFICES ASSUME NEW t \in Sends, "nonce" \in asked[t], overlapped[t] = {}
                 PROVE  /\ pc'[t] = "reading" => /\ tx'[objectOf[t]].nonce = None
                                                 /\ got[t].nonce \in {None, Accepted}
                        /\ pc'[t] \in Filled => tx'[objectOf[t]].nonce \in {None, Accepted}
                        /\ pc'[t] = "sending" => sent'[t].nonce \in {None, Accepted}
                        /\ outcome[t] # "nonce"
        BY <1>2, <1>5 DEF LoneNonce
    <2>1. CASE t = s
        <3>1. u.nonce \in {None, Accepted}
            BY <1>1, <1>3, <2>1 DEF LoneNonce, FilledNonce
        <3>. QED
            BY <3>1, <1>2, <2>1 DEF LoneNonce, Filled
    <2>2. CASE t # s
        <3>1. ~Active(t)
            BY <1>3, <2>2 DEF Overlaps
        <3>. QED
            BY <3>1, <1>2, <2>2 DEF LoneNonce, Filled, Active
    <2>. QED
        BY <2>1, <2>2
<1>12. ~setting.hardhat => u.nonce # None
    <2> SUFFICES ASSUME ~setting.hardhat PROVE u.nonce # None
        OBVIOUS
    <2>1. CASE pc[s] = "reading"
        BY <2>1, <1>1 DEF Fills, FilledNonce, ObjectNonce
    <2>2. CASE pc[s] \in Filled
        BY <2>2, <1>1 DEF Filled, FilledNonce, ObjectNonce
    <2>. QED
        BY <2>1, <2>2, <1>3
<1>13. ObjectNonce'
    <2> SUFFICES ASSUME ~setting.hardhat, NEW t \in Sends
                 PROVE  /\ pc'[t] = "reading" => "nonce" \in asked[t] \/ tx'[objectOf[t]].nonce # None
                        /\ pc'[t] \in Filled => tx'[objectOf[t]].nonce # None
                        /\ pc'[t] = "sending" => /\ sent'[t].nonce # None
                                                 /\ Sharing(t) = {} => sent'[t].nonce = tx'[objectOf[t]].nonce
        BY <1>2, <1>5 DEF ObjectNonce
    <2>1. CASE t = s
        BY <1>2, <1>12, <2>1 DEF Filled
    <2>2. CASE t # s
        <3>1. CASE objectOf[t] = o
            BY <1>2, <1>10, <1>12, <2>2, <3>1 DEF ObjectNonce, Active
        <3>2. CASE objectOf[t] # o
            <4>1. tx'[objectOf[t]] = tx[objectOf[t]]
                BY <1>2, <3>2 DEF TypeOK, BaseOK
            <4>. QED
                BY <1>2, <2>2, <4>1 DEF ObjectNonce
        <3>. QED
            BY <3>1, <3>2
    <2>. QED
        BY <2>1, <2>2
<1>14. UsedNonce'
    <2> SUFFICES ASSUME ~setting.hardhat, NEW t \in Sends, outcome[t] = "accepted", Sharing(t) = {}
                 PROVE  LET n == tx'[objectOf[t]].nonce IN
                        /\ n # None /\ n < Accepted
                        /\ \A a \in Sends : Active(a) /\ objectOf[a] = objectOf[t] =>
                               /\ "nonce" \notin asked[a]
                               /\ pc'[a] = "sending" => sent'[a].nonce = n
        BY <1>2, <1>4, <1>5 DEF UsedNonce
    <2>1. LET n == tx[objectOf[t]].nonce IN
          /\ n # None /\ n < Accepted
          /\ \A a \in Sends : Active(a) /\ objectOf[a] = objectOf[t] =>
                 /\ "nonce" \notin asked[a]
                 /\ pc[a] = "sending" => sent[a].nonce = n
        BY DEF UsedNonce
    <2>2. tx'[objectOf[t]].nonce = tx[objectOf[t]].nonce
        <3>1. CASE objectOf[t] = o
            <4>1. got[s].nonce = None
                BY <1>3, <2>1, <3>1 DEF StepsFit
            <4>. QED
                BY <4>1, <1>1, <1>2, <3>1 DEF FilledNonce
        <3>2. CASE objectOf[t] # o
            BY <1>2, <3>2 DEF TypeOK, BaseOK
        <3>. QED
            BY <3>1, <3>2
    <2>3. \A a \in Sends : Active(a) /\ objectOf[a] = objectOf[t] /\ pc'[a] = "sending"
              => sent'[a].nonce = tx'[objectOf[t]].nonce
        BY <1>2, <2>1, <2>2
    <2>. QED
        BY <2>1, <2>2, <2>3
<1>. QED
    BY <1>6, <1>7, <1>8, <1>9, <1>11, <1>13, <1>14

-----------------------------------------------------------------------------
(* The other steps *)

\* Nothing is sent at first.
LEMMA InitSends == Init => SendInv
<1> SUFFICES ASSUME Init PROVE SendInv
    OBVIOUS
<1>1. /\ setting \in Settings /\ objectOf \in [Sends -> Objects] /\ tx \in [Objects -> TxType]
    BY TransactionsAssumption DEF Init
<1>2. /\ \A s \in Sends : pc[s] = "idle" /\ asked[s] = {} /\ got[s].nonce = None
                          /\ outcome[s] = "none"
    BY DEF Init
<1>3. TypeOK
    <2>1. got \in [Sends -> [nonce : Field(Nat), balance : Field(Int)]]
        BY DEF Init, Field
    <2>2. rate \in [Sends -> RateType]
        BY DEF Init, RateType
    <2>3. /\ sent \in [Sends -> TxType \cup {None}]
          /\ pc \in [Sends -> {"idle", "reading", "valuing", "estimating", "sending", "done"}]
          /\ outcome \in [Sends -> {"none", "failed", "nonce", "funds", "accepted"}]
        BY DEF Init
    <2>4. mined \in Nat /\ pending \in Seq(Nat) /\ balance \in Int /\ free \in Int
        BY TransactionsAssumption DEF Init
    <2>. QED
        BY <1>1, <2>1, <2>2, <2>3, <2>4 DEF TypeOK, RateType
<1>4. BaseOK
    BY <1>1 DEF Init, BaseOK, Fields
<1>5. StepsFit /\ Overlaps
    BY <1>2 DEF StepsFit, Overlaps, Active
<1>6. LoneNonce /\ ObjectNonce /\ UsedNonce /\ RetryIsIdempotent
    BY <1>2 DEF LoneNonce, ObjectNonce, UsedNonce, RetryIsIdempotent, Filled
<1>. QED
    BY <1>3, <1>4, <1>5, <1>6 DEF SendInv

\* A send that begins joins those that run; what it reads depends on the object.
LEMMA BeginKeeps ==
    ASSUME SendInv, NEW s \in Sends, Begin(s)
    PROVE  SendInv'
<1>. USE DEF SendInv
<1> DEFINE o == objectOf[s]
<1>1. /\ UNCHANGED <<setting, objectOf, got, rate, sent, outcome, mined, pending, balance, free>>
      /\ pc[s] = "idle" /\ pc'[s] = "reading" /\ asked'[s] = Reads(tx[o])
      /\ \A t \in Sends \ {s} : pc'[t] = pc[t] /\ asked'[t] = asked[t]
      /\ ~Active(s) /\ Active(s)'
      /\ \A t \in Sends \ {s} : Active(t)' <=> Active(t)
      /\ pc' \in [Sends -> {"idle", "reading", "valuing", "estimating", "sending", "done"}]
    BY DEF Begin, node, TypeOK, BaseOK, Active
<1>2. /\ tx' \in [Objects -> TxType] /\ \A q \in Objects : tx'[q].nonce = tx[q].nonce
      /\ o \in Objects
    <2>1. o \in Objects /\ tx[o] \in TxType /\ tx \in [Objects -> TxType]
        BY DEF TypeOK, BaseOK
    <2>2. tx' = [tx EXCEPT ![o] = [tx[o] EXCEPT !.from = "signer"]]
        BY <2>1 DEF Begin
    <2> DEFINE u == [tx[o] EXCEPT !.from = "signer"]
    <2>3. u \in TxType /\ u.nonce = tx[o].nonce
        BY <2>1 DEF TxType
    <2>. HIDE DEF u
    <2>4. tx' = [tx EXCEPT ![o] = u]
        BY <2>2 DEF u
    <2>. QED
        BY <2>1, <2>3, <2>4
<1>3. /\ asked' \in [Sends -> SUBSET Fields]
      /\ "nonce" \in asked'[s] <=> tx[o].nonce = None
    BY <1>1 DEF Begin, Reads, Fields, BaseOK
<1>4. /\ overlapped' \in [Sends -> SUBSET Sends]
      /\ overlapped'[s] = {t \in Sends : Active(t)}
      /\ \A t \in Sends : Active(t) => s \in overlapped'[t]
      /\ \A t \in Sends \ {s} : overlapped[t] \subseteq overlapped'[t]
      /\ \A t \in Sends \ {s} : ~Active(t) => overlapped'[t] = overlapped[t]
    BY <1>1 DEF Begin, BaseOK
<1>5. Accepted' = Accepted
    BY <1>1 DEF Accepted
<1>6. got[s].nonce = None /\ outcome[s] = "none"
    BY <1>1 DEF StepsFit, TypeOK
<1>7. TypeOK' /\ BaseOK'
    BY <1>1, <1>2, <1>3, <1>4 DEF TypeOK, BaseOK
<1>8. StepsFit'
    BY <1>1, <1>6 DEF StepsFit
<1>9. Overlaps'
    BY <1>1, <1>4 DEF Overlaps
<1>10. \A t \in Sends : objectOf[t] \in Objects
    BY DEF BaseOK
<1>11. LoneNonce'
    <2> SUFFICES ASSUME NEW t \in Sends, "nonce" \in asked'[t], overlapped'[t] = {}
                 PROVE  /\ pc'[t] = "reading" => /\ tx'[objectOf[t]].nonce = None
                                                 /\ got[t].nonce \in {None, Accepted}
                        /\ pc'[t] \in Filled => tx'[objectOf[t]].nonce \in {None, Accepted}
                        /\ pc'[t] = "sending" => sent[t].nonce \in {None, Accepted}
                        /\ outcome[t] # "nonce"
        BY <1>1, <1>5 DEF LoneNonce
    <2>1. CASE t = s
        BY <1>1, <1>2, <1>3, <1>6, <2>1 DEF Filled
    <2>2. CASE t # s
        <3>1. overlapped[t] = {} /\ "nonce" \in asked[t]
            BY <1>1, <1>4, <2>2
        <3>. QED
            BY <1>1, <1>2, <1>10, <2>2, <3>1 DEF LoneNonce
    <2>. QED
        BY <2>1, <2>2
<1>12. \A t \in Sends : Sharing(t)' = {} /\ outcome[t] # "none" => Sharing(t) = {}
    <2> SUFFICES ASSUME NEW t \in Sends, Sharing(t)' = {}, outcome[t] # "none"
                 PROVE  Sharing(t) = {}
        OBVIOUS
    <2>1. t # s /\ overlapped[t] \subseteq overlapped'[t]
        BY <1>4, <1>6
    <2>. QED
        BY <1>1, <2>1 DEF Sharing
<1>13. \A t \in Sends \ {s} : Sharing(t)' = {} => Sharing(t) = {}
    BY <1>1, <1>4 DEF Sharing
<1>14. ObjectNonce'
    BY <1>1, <1>2, <1>3, <1>10, <1>13 DEF ObjectNonce, Filled
<1>15. UsedNonce'
    <2> SUFFICES ASSUME ~setting.hardhat, NEW t \in Sends, outcome[t] = "accepted", Sharing(t)' = {}
                 PROVE  LET n == tx'[objectOf[t]].nonce IN
                        /\ n # None /\ n < Accepted
                        /\ \A a \in Sends : Active(a)' /\ objectOf[a] = objectOf[t] =>
                               /\ "nonce" \notin asked'[a]
                               /\ pc'[a] = "sending" => sent[a].nonce = n
        BY <1>1, <1>5 DEF UsedNonce
    <2>1. LET n == tx[objectOf[t]].nonce IN
          /\ n # None /\ n < Accepted
          /\ \A a \in Sends : Active(a) /\ objectOf[a] = objectOf[t] =>
                 /\ "nonce" \notin asked[a]
                 /\ pc[a] = "sending" => sent[a].nonce = n
        BY <1>12 DEF UsedNonce
    <2>2. tx'[objectOf[t]].nonce = tx[objectOf[t]].nonce
        BY <1>2, <1>10
    <2>3. ASSUME NEW a \in Sends, Active(a)', objectOf[a] = objectOf[t]
          PROVE  /\ "nonce" \notin asked'[a]
                 /\ pc'[a] = "sending" => sent[a].nonce = tx[objectOf[t]].nonce
        <3>1. CASE a = s
            BY <1>1, <1>3, <2>1, <2>3, <3>1
        <3>2. CASE a # s
            BY <1>1, <2>1, <2>3, <3>2
        <3>. QED
            BY <3>1, <3>2
    <2>. QED
        BY <2>1, <2>2, <2>3
<1>16. RetryIsIdempotent'
    BY <1>1, <1>12 DEF RetryIsIdempotent
<1>. QED
    BY <1>7, <1>8, <1>9, <1>11, <1>14, <1>15, <1>16

\* A send that fails on its way leaves the object as it is.
LEMMA SettleKeeps ==
    ASSUME SendInv, NEW s \in Sends, pc[s] # "done", Settle(s, "failed"),
           UNCHANGED <<setting, objectOf, tx, asked, got, rate, sent, mined, pending, balance,
                       free, overlapped>>
    PROVE  SendInv'
<1>. USE DEF SendInv
<1>1. /\ pc'[s] = "done" /\ outcome'[s] = "failed" /\ ~Active(s)'
      /\ \A t \in Sends \ {s} : /\ pc'[t] = pc[t] /\ outcome'[t] = outcome[t]
                                /\ Active(t)' <=> Active(t)
      /\ pc' \in [Sends -> {"idle", "reading", "valuing", "estimating", "sending", "done"}]
      /\ outcome' \in [Sends -> {"none", "failed", "nonce", "funds", "accepted"}]
    BY DEF Settle, TypeOK, Active
<1>2. Accepted' = Accepted /\ \A t \in Sends : Sharing(t)' = Sharing(t)
    BY DEF Accepted, Sharing
<1>3. TypeOK' /\ BaseOK'
    BY <1>1 DEF TypeOK, BaseOK
<1>4. StepsFit' /\ Overlaps'
    BY <1>1 DEF StepsFit, Overlaps, TypeOK, Active
<1>5. LoneNonce' /\ ObjectNonce'
    BY <1>1, <1>2 DEF LoneNonce, ObjectNonce, Filled
<1>6. UsedNonce' /\ RetryIsIdempotent'
    BY <1>1, <1>2 DEF UsedNonce, RetryIsIdempotent
<1>. QED
    BY <1>3, <1>4, <1>5, <1>6

\* The pending count is the next nonce, and stays it while the send is alone.
LEMMA ReadNonceKeeps ==
    ASSUME SendInv, NEW s \in Sends, ReadNonce(s)
    PROVE  SendInv'
<1>. USE DEF SendInv
<1>1. /\ UNCHANGED <<setting, objectOf, tx, pc, asked, rate, sent, outcome, mined, pending, balance,
                     free, overlapped>>
      /\ pc[s] = "reading" /\ "nonce" \in asked[s]
      /\ got' = [got EXCEPT ![s].nonce = PendingCount]
    BY DEF ReadNonce, node
<1>2. PendingCount = Accepted /\ Accepted' = Accepted /\ Accepted \in Nat
    BY <1>1 DEF PendingCount, Accepted, TypeOK
<1>3. /\ got' \in [Sends -> [nonce : Field(Nat), balance : Field(Int)]]
      /\ got'[s].nonce = Accepted /\ got'[s].balance = got[s].balance
      /\ \A t \in Sends \ {s} : got'[t] = got[t]
    BY <1>1, <1>2 DEF TypeOK, Field
<1>4. \A t \in Sends : Sharing(t)' = Sharing(t) /\ (Active(t)' <=> Active(t))
    BY <1>1 DEF Sharing, Active
<1>5. TypeOK' /\ BaseOK'
    BY <1>1, <1>3 DEF TypeOK, BaseOK
<1>6. StepsFit' /\ Overlaps'
    BY <1>1, <1>3, <1>4 DEF StepsFit, Overlaps
<1>7. LoneNonce'
    BY <1>1, <1>2, <1>3 DEF LoneNonce
<1>8. ObjectNonce' /\ UsedNonce' /\ RetryIsIdempotent'
    BY <1>1, <1>2, <1>4 DEF ObjectNonce, UsedNonce, RetryIsIdempotent
<1>. QED
    BY <1>5, <1>6, <1>7, <1>8

\* Reading the balance has no part in the nonces.
LEMMA ReadBalanceKeeps ==
    ASSUME SendInv, NEW s \in Sends, ReadBalance(s)
    PROVE  SendInv'
<1>. USE DEF SendInv
<1>1. /\ UNCHANGED <<setting, objectOf, tx, pc, asked, rate, sent, outcome, mined, pending, balance,
                     free, overlapped>>
      /\ pc[s] = "reading"
      /\ got' = [got EXCEPT ![s].balance = balance]
    BY DEF ReadBalance, node
<1>2. Accepted' = Accepted
    BY <1>1 DEF Accepted
<1>3. /\ got' \in [Sends -> [nonce : Field(Nat), balance : Field(Int)]]
      /\ \A t \in Sends : got'[t].nonce = got[t].nonce
      /\ \A t \in Sends \ {s} : got'[t] = got[t]
    BY <1>1 DEF TypeOK, Field
<1>4. \A t \in Sends : Sharing(t)' = Sharing(t) /\ (Active(t)' <=> Active(t))
    BY <1>1 DEF Sharing, Active
<1>5. TypeOK' /\ BaseOK'
    BY <1>1, <1>3 DEF TypeOK, BaseOK
<1>6. StepsFit' /\ Overlaps'
    BY <1>1, <1>3, <1>4 DEF StepsFit, Overlaps
<1>7. LoneNonce'
    BY <1>1, <1>2, <1>3 DEF LoneNonce
<1>8. ObjectNonce' /\ UsedNonce' /\ RetryIsIdempotent'
    BY <1>1, <1>2, <1>4 DEF ObjectNonce, UsedNonce, RetryIsIdempotent
<1>. QED
    BY <1>5, <1>6, <1>7, <1>8

-----------------------------------------------------------------------------
(* The node *)

\* What the node charges for an accepted transaction.
LEMMA CostTyped ==
    ASSUME BaseOK, NEW t \in TxType, t.gasLimit # None, Answer(t) = "accepted"
    PROVE  Cost(t) \in Nat
<1>1. OrZero(t.value) \in Nat
    BY DEF Answer, OrZero, TxType, Field
<1>2. t.gasLimit \in Nat /\ setting.l1 \in Nat
    BY SettingTyped DEF TxType, Field
<1>3. OrZero(IF t.maxFee = None THEN t.gasPrice ELSE t.maxFee) \in Nat
    BY DEF OrZero, TxType, Field
<1>4. t.gasLimit * OrZero(IF t.maxFee = None THEN t.gasPrice ELSE t.maxFee) \in Nat
    BY <1>2, <1>3, ProductNat
<1>. QED
    BY <1>1, <1>2, <1>4 DEF Cost

\* A broadcast uses up the next nonce, or is refused.
LEMMA BroadcastKeeps ==
    ASSUME SendInv, NEW s \in Sends, Broadcast(s)
    PROVE  SendInv'
<1>. USE DEF SendInv
<1> DEFINE a == Answer(sent[s])
<1>1. /\ UNCHANGED <<setting, objectOf, tx, asked, got, rate, sent, mined, balance, overlapped>>
      /\ pc[s] = "sending" /\ Active(s)
      /\ pc'[s] = "done" /\ outcome'[s] = a /\ ~Active(s)'
      /\ \A t \in Sends \ {s} : /\ pc'[t] = pc[t] /\ outcome'[t] = outcome[t]
                                /\ Active(t)' <=> Active(t)
      /\ pc' \in [Sends -> {"idle", "reading", "valuing", "estimating", "sending", "done"}]
    BY DEF Broadcast, Settle, TypeOK, Active
<1>2. a \in {"failed", "nonce", "funds", "accepted"}
    BY DEF Answer
<1>3. outcome' \in [Sends -> {"none", "failed", "nonce", "funds", "accepted"}]
    <2>1. outcome' = [outcome EXCEPT ![s] = a]
        BY DEF Broadcast, Settle
    <2>. HIDE DEF a
    <2>. QED
        BY <1>2, <2>1 DEF TypeOK
<1>4. sent[s] \in TxType /\ sent[s].gasLimit # None
    BY <1>1 DEF StepsFit
<1>5. /\ pending' \in Seq(Nat) /\ free' \in Int
      /\ Accepted \in Nat
      /\ Accepted' = IF a = "accepted" THEN Accepted + 1 ELSE Accepted
    <2>1. pending \in Seq(Nat) /\ mined \in Nat
        BY DEF TypeOK
    <2>0. free \in Int
        BY DEF TypeOK
    <2>2. CASE a = "accepted"
        <3>1. Cost(sent[s]) \in Nat
            BY <1>4, <2>2, CostTyped
        <3>2. pending' = Append(pending, Cost(sent[s])) /\ free' = free - Cost(sent[s])
            BY <2>2 DEF Broadcast
        <3>. HIDE DEF a
        <3>. QED
            BY <1>1, <2>0, <2>1, <2>2, <3>1, <3>2 DEF Accepted
    <2>3. CASE a # "accepted"
        <3>1. pending' = pending /\ free' = free
            BY <2>3 DEF Broadcast
        <3>. QED
            BY <1>1, <2>0, <2>1, <2>3, <3>1 DEF Accepted
    <2>. QED
        BY <2>2, <2>3
<1>6. /\ a = "accepted" => sent[s].nonce \in {None, Accepted}
      /\ a = "nonce" => sent[s].nonce \notin {None, Accepted}
    BY DEF Answer, Nonce
<1>. HIDE DEF a
<1>7. \A t \in Sends : Sharing(t)' = Sharing(t)
    BY <1>1 DEF Sharing
<1>8. TypeOK' /\ BaseOK'
    BY <1>1, <1>3, <1>5 DEF TypeOK, BaseOK
<1>9. StepsFit' /\ Overlaps'
    BY <1>1 DEF StepsFit, Overlaps
<1>10. LoneNonce'
    <2> SUFFICES ASSUME NEW t \in Sends, "nonce" \in asked[t], overlapped[t] = {}
                 PROVE  /\ pc'[t] = "reading" => /\ tx[objectOf[t]].nonce = None
                                                 /\ got[t].nonce \in {None, Accepted'}
                        /\ pc'[t] \in Filled => tx[objectOf[t]].nonce \in {None, Accepted'}
                        /\ pc'[t] = "sending" => sent[t].nonce \in {None, Accepted'}
                        /\ outcome'[t] # "nonce"
        BY <1>1 DEF LoneNonce
    <2>1. CASE t = s
        BY <1>1, <1>6, <2>1 DEF LoneNonce, Filled
    <2>2. CASE t # s
        <3>1. ~Active(t)
            BY <1>1, <2>2 DEF Overlaps
        <3>. QED
            BY <3>1, <1>1, <2>2 DEF LoneNonce, Filled, Active
    <2>. QED
        BY <2>1, <2>2
<1>11. ObjectNonce'
    BY <1>1, <1>7 DEF ObjectNonce, Filled
<1>12. \A t \in Sends : Active(t) /\ t # s /\ objectOf[t] = objectOf[s] => Sharing(s) # {}
    BY <1>1 DEF Overlaps, Sharing, BaseOK
<1>13. \A t \in Sends : tx[objectOf[t]].nonce \in Field(Nat)
    BY DEF TypeOK, BaseOK, TxType
<1>14. UsedNonce'
    <2> SUFFICES ASSUME ~setting.hardhat, NEW t \in Sends, outcome'[t] = "accepted", Sharing(t) = {}
                 PROVE  LET n == tx[objectOf[t]].nonce IN
                        /\ n # None /\ n < Accepted'
                        /\ \A b \in Sends : Active(b)' /\ objectOf[b] = objectOf[t] =>
                               /\ "nonce" \notin asked[b]
                               /\ pc'[b] = "sending" => sent[b].nonce = n
        BY <1>1, <1>7 DEF UsedNonce
    <2>1. CASE t = s
        <3>1. tx[objectOf[s]].nonce = Accepted /\ Accepted' = Accepted + 1
            BY <1>1, <1>5, <1>6, <2>1 DEF ObjectNonce
        <3>2. \A b \in Sends : Active(b)' => objectOf[b] # objectOf[s]
            BY <1>1, <1>12, <2>1
        <3>. QED
            BY <1>5, <2>1, <3>1, <3>2, TransactionsAssumption
    <2>2. CASE t # s
        <3>1. LET n == tx[objectOf[t]].nonce IN
              /\ n # None /\ n < Accepted
              /\ \A b \in Sends : Active(b) /\ objectOf[b] = objectOf[t] =>
                     /\ "nonce" \notin asked[b]
                     /\ pc[b] = "sending" => sent[b].nonce = n
            BY <1>1, <2>2 DEF UsedNonce
        <3>2. tx[objectOf[t]].nonce < Accepted'
            BY <1>5, <1>13, <3>1 DEF Field
        <3>. QED
            BY <1>1, <3>1, <3>2
    <2>. QED
        BY <2>1, <2>2
<1>15. RetryIsIdempotent'
    <2> SUFFICES ASSUME ~setting.hardhat, NEW t \in Sends, t # s, objectOf[t] = objectOf[s],
                        Sharing(t) = {}, outcome[t] = "accepted", a = "accepted"
                 PROVE  FALSE
        BY <1>1, <1>7 DEF RetryIsIdempotent
    <2>1. LET n == tx[objectOf[t]].nonce IN n # None /\ n < Accepted /\ sent[s].nonce = n
        BY <1>1 DEF UsedNonce
    <2>. QED
        BY <1>5, <1>6, <2>1
<1>. QED
    BY <1>8, <1>9, <1>10, <1>11, <1>14, <1>15

\* A transaction that is mined has been counted as pending.
LEMMA MineKeeps ==
    ASSUME SendInv, Mine
    PROVE  SendInv'
<1>. USE DEF SendInv
<1>1. UNCHANGED <<setting, objectOf, tx, pc, asked, got, rate, sent, outcome, free, overlapped>>
    BY DEF Mine
<1>2. /\ mined' \in Nat /\ pending' \in Seq(Nat) /\ balance' \in Int
      /\ Accepted' = Accepted
    <2>1. pending \in Seq(Nat) /\ pending # <<>> /\ mined \in Nat /\ balance \in Int
        BY DEF Mine, TypeOK
    <2>2. Head(pending) \in Nat /\ Tail(pending) \in Seq(Nat) /\ Len(Tail(pending)) = Len(pending) - 1
          /\ Len(pending) \in Nat
        BY <2>1
    <2>. QED
        BY <2>1, <2>2 DEF Mine, Accepted
<1>3. \A t \in Sends : Sharing(t)' = Sharing(t) /\ (Active(t)' <=> Active(t))
    BY <1>1 DEF Sharing, Active
<1>4. TypeOK' /\ BaseOK'
    BY <1>1, <1>2 DEF TypeOK, BaseOK
<1>5. StepsFit' /\ Overlaps'
    BY <1>1, <1>3 DEF StepsFit, Overlaps
<1>6. LoneNonce' /\ ObjectNonce'
    BY <1>1, <1>2, <1>3 DEF LoneNonce, ObjectNonce
<1>7. UsedNonce' /\ RetryIsIdempotent'
    BY <1>1, <1>2, <1>3 DEF UsedNonce, RetryIsIdempotent
<1>. QED
    BY <1>4, <1>5, <1>6, <1>7

\* The invariant is inductive.
LEMMA NextSends == SendInv /\ [Next]_vars => SendInv'
<1> SUFFICES ASSUME SendInv, [Next]_vars PROVE SendInv'
    OBVIOUS
<1>1. ASSUME NEW s \in Sends, Begin(s) \/ ReadNonce(s) \/ ReadBalance(s) \/ Broadcast(s)
      PROVE  SendInv'
    BY <1>1, BeginKeeps, ReadNonceKeeps, ReadBalanceKeeps, BroadcastKeeps
<1>2. ASSUME NEW s \in Sends, WrongSigner(s) \/ ReadFails(s)
      PROVE  SendInv'
    BY <1>2, SettleKeeps DEF WrongSigner, ReadFails, node
<1>3. ASSUME NEW s \in Sends, Fill(s) \/ Estimated(s)
      PROVE  SendInv'
    BY <1>3, FillFills, EstimatedFills, FillsKeep
<1>4. ASSUME NEW s \in Sends, EstimateFails(s)
      PROVE  SendInv'
    <2>1. CASE Fills(s)
        BY <2>1, FillsKeep
    <2>2. CASE Settle(s, "failed") /\ UNCHANGED <<tx, sent>>
        BY <1>4, <2>2, SettleKeeps DEF EstimateFails, node
    <2>. QED
        BY <1>4, <2>1, <2>2, EstimateFailsFills
<1>5. CASE Mine
    BY <1>5, MineKeeps
<1>6. CASE UNCHANGED vars
    <2>1. \A t \in Sends : Sharing(t)' = Sharing(t) /\ (Active(t)' <=> Active(t))
        BY <1>6 DEF Sharing, Active, vars
    <2>2. Accepted' = Accepted
        BY <1>6 DEF Accepted, vars, node
    <2>3. UNCHANGED <<setting, objectOf, tx, pc, asked, got, rate, sent, outcome, mined, pending,
                      balance, free, overlapped>>
        BY <1>6 DEF vars, node
    <2>4. TypeOK' /\ BaseOK'
        BY <2>3 DEF SendInv, TypeOK, BaseOK
    <2>5. StepsFit' /\ Overlaps'
        BY <2>1, <2>3 DEF SendInv, StepsFit, Overlaps
    <2>6. LoneNonce' /\ ObjectNonce'
        BY <2>1, <2>2, <2>3 DEF SendInv, LoneNonce, ObjectNonce
    <2>7. UsedNonce' /\ RetryIsIdempotent'
        BY <2>1, <2>2, <2>3 DEF SendInv, UsedNonce, RetryIsIdempotent
    <2>. QED
        BY <2>4, <2>5, <2>6, <2>7 DEF SendInv
<1>. QED
    BY <1>1, <1>2, <1>3, <1>4, <1>5, <1>6 DEF Next

\* The invariant holds in every behaviour.
LEMMA SendsAlways == Spec => []SendInv
    BY InitSends, NextSends, PTL DEF Spec

\* The caller's objects, what is sent and what the node accepts keep their types, whatever
\* the node replies: fees are numbers, and a value may turn negative but never vanish.
THEOREM ObjectsTyped == Spec => []TypeOK
<1>1. SendInv => TypeOK
    BY DEF SendInv
<1>. QED
    BY <1>1, SendsAlways, PTL

\* A send that overlaps no other is never refused for the nonce that it read.
THEOREM LoneSendFits == Spec => []LoneNonceFits
<1>1. SendInv => LoneNonceFits
    BY DEF SendInv, LoneNonce, LoneNonceFits
<1>. QED
    BY <1>1, SendsAlways, PTL

\* Sending an object again after an accepted send of it is never accepted a second time.
THEOREM RetriesExecuteOnce == Spec => []RetryIsIdempotent
<1>1. SendInv => RetryIsIdempotent
    BY DEF SendInv
<1>. QED
    BY <1>1, SendsAlways, PTL

-----------------------------------------------------------------------------
(* Fees *)

\* What FeesConsistent says of one object.
Consistent(t) ==
    /\ t.gasPrice = None \/ t.maxFee = None
    /\ t.type = 2 => t.gasPrice = None
    /\ t.type = 0 => t.maxFee = None /\ t.maxPriority = None
    /\ t.maxFee # None => OrZero(t.maxPriority) <= t.maxFee

\* The caller builds no object that contradicts itself, or that asks for a type without
\* its fees; a chain has base fees, or has none.
OneScheme ==
    /\ \A t \in Given : IF HasFees(t) THEN Consistent(t) ELSE t.type \in {None, 0}
    /\ \A e \in Settings : (\A b \in e.bases : Truthy(b)) \/ (\A b \in e.bases : ~Truthy(b))

Legacy == \A b \in setting.bases : ~Truthy(b)

\* Sends that found an object without fees may write them over those of another send,
\* by the one scheme of the chain.
FeeInv ==
    /\ \A q \in Objects : IF HasFees(tx[q]) THEN Consistent(tx[q]) ELSE tx[q].type \in {None, 0}
    /\ \A s \in Sends :
           /\ pc[s] = "reading" /\ "fees" \notin asked[s] => HasFees(tx[objectOf[s]])
           /\ pc[s] = "reading" /\ "fees" \in asked[s] /\ Legacy => tx[objectOf[s]].type \in {None, 0}
           /\ pc[s] \in Filled => HasFees(tx[objectOf[s]])
    /\ FeesConsistent

\* A product with a factor of one at least.
LEMMA ProductBound == \A a \in Nat, b \in Nat \ {0} : a <= a * b
    OBVIOUS

\* What fill writes has the fees of one scheme.
LEMMA FeesWritten ==
    ASSUME BaseOK, OneScheme, NEW t \in TxType, NEW fee \in FeeData,
           Legacy => t.type \in {None, 0}
    PROVE  LET w == WithFees(t, fee)
           IN  HasFees(w) /\ Consistent(w) /\ (Legacy => w.type \in {None, 0})
<1> DEFINE p == PriorityFee(t, fee)
           m == MaxFee(fee, p)
           w == WithFees(t, fee)
<1>1. fee.gasPrice \in Nat /\ fee.maxFee \in Nat \cup {None} /\ fee.priority \in Nat
    <2>1. GasPrices \subseteq Nat /\ Tips \subseteq Nat /\ setting.bases \subseteq Nat \cup {None}
        BY TransactionsAssumption, SettingTyped
    <2>2. fee.gasPrice \in GasPrices \cup {0} /\ fee.maxFee \in setting.bases
          /\ fee.priority \in Tips \cup {0}
        BY DEF FeeData
    <2>3. \A g, x, y : g \in GasPrices \cup {0} /\ x \in setting.bases /\ y \in Tips \cup {0}
              => g \in Nat /\ x \in Nat \cup {None} /\ y \in Nat
        BY <2>1
    <2>. QED
        BY <2>2, <2>3, Zenon
<1>2. fee.maxFee \in setting.bases
    BY DEF FeeData
<1>3. Truthy(fee.maxFee) <=> ~Legacy
    <2>1. (\A b \in setting.bases : Truthy(b)) \/ Legacy
        BY DEF OneScheme, BaseOK, Legacy
    <2>. QED
        BY <1>2, <2>1 DEF Legacy
<1>4. p \in Nat
    BY <1>1, SettingTyped DEF PriorityFee, TxType, Field
<1>5. CASE Truthy(fee.maxFee)
    <2>1. m \in Nat /\ p <= m
        <3> DEFINE x == IF fee.maxFee <= p THEN p + Margin ELSE fee.maxFee
        <3>1. x \in Nat /\ p <= x
            BY <1>1, <1>4, <1>5, TransactionsAssumption DEF Truthy
        <3>2. x <= x * GasBump /\ x * GasBump \in Nat
            BY <3>1, ProductBound, ProductNat, TransactionsAssumption
        <3>3. m = x * GasBump
            BY DEF MaxFee
        <3>. HIDE DEF x, m, p
        <3>. QED
            BY <1>4, <3>1, <3>2, <3>3
    <2> DEFINE k == IF Truthy(t.type) THEN t.type ELSE 2
    <2>2. k \in {1, 2}
        BY DEF Truthy, TxType, Field
    <2>3. w = [t EXCEPT !.type = k, !.maxPriority = p, !.maxFee = m, !.gasPrice = None]
        BY <1>5 DEF WithFees
    <2>. HIDE DEF p, m, k
    <2>4. w.type = k /\ w.maxPriority = p /\ w.maxFee = m /\ w.gasPrice = None
        BY <2>3 DEF TxType
    <2>5. m # None /\ p # None
        BY <1>4, <2>1, TransactionsAssumption
    <2>6. HasFees(w) /\ Consistent(w)
        BY <1>4, <2>1, <2>2, <2>4, <2>5 DEF HasFees, Consistent, OrZero
    <2>. QED
        BY <1>3, <1>5, <2>6
<1>6. CASE ~Truthy(fee.maxFee)
    <2>1. t.type \in {None, 0}
        BY <1>3, <1>6
    <2> DEFINE k == IF t.type = None THEN 0 ELSE t.type
    <2>2. k = 0
        BY <2>1
    <2>3. w = [t EXCEPT !.type = k, !.gasPrice = fee.gasPrice, !.maxFee = None, !.maxPriority = None]
        BY <1>6 DEF WithFees
    <2>. HIDE DEF k
    <2>4. w.type = 0 /\ w.gasPrice = fee.gasPrice /\ w.maxFee = None /\ w.maxPriority = None
        BY <2>2, <2>3 DEF TxType
    <2>5. fee.gasPrice # None
        BY <1>1, TransactionsAssumption
    <2>. QED
        BY <2>4, <2>5 DEF HasFees, Consistent
<1>. QED
    BY <1>5, <1>6

\* Filling leaves the object with fees, in the scheme of the chain or as they were.
LEMMA FillsKeepFees ==
    ASSUME OneScheme, SendInv, FeeInv, NEW s \in Sends, Fills(s)
    PROVE  FeeInv'
<1> DEFINE o == objectOf[s]
<1>1. PICK u : Filling(s, u) /\ \E p \in FilledFrom(s) : SameFees(u, p)
    BY DEF Fills
<1>2. PICK p \in FilledFrom(s) : SameFees(u, p)
    BY <1>1
<1>3. /\ u \in TxType /\ tx' = [tx EXCEPT ![o] = u] /\ tx'[o] = u
      /\ \A q \in Objects \ {o} : tx'[q] = tx[q]
      /\ UNCHANGED <<setting, objectOf, asked>>
      /\ pc'[s] \in Filled \cup {"sending"}
      /\ \A t \in Sends \ {s} : pc'[t] = pc[t] /\ sent'[t] = sent[t]
      /\ sent'[s] \in {sent[s], u}
      /\ o \in Objects /\ tx[o] \in TxType
    BY <1>1 DEF Filling, Filled, SendInv, TypeOK, BaseOK
<1>4. HasFees(p) /\ Consistent(p) /\ (Legacy /\ tx[o].type \in {None, 0} => p.type \in {None, 0})
    <2>1. CASE pc[s] = "reading" /\ "fees" \in asked[s]
        <3>1. PICK fee \in FeeData : p = WithFees(tx[o], fee)
            BY <1>2, <2>1 DEF FilledFrom, PricedObjects
        <3>2. Legacy => tx[o].type \in {None, 0}
            BY <2>1 DEF FeeInv
        <3>. QED
            BY <1>3, <3>1, <3>2, FeesWritten DEF SendInv
    <2>2. CASE ~(pc[s] = "reading" /\ "fees" \in asked[s])
        <3>1. p = tx[o]
            BY <1>2, <2>2 DEF FilledFrom, PricedObjects
        <3>2. HasFees(tx[o])
            BY <2>2 DEF FeeInv, Fills
        <3>. QED
            BY <1>3, <3>1, <3>2 DEF FeeInv
    <2>. QED
        BY <2>1, <2>2
<1>5. HasFees(u) /\ Consistent(u) /\ (Legacy /\ tx[o].type \in {None, 0} => u.type \in {None, 0})
    BY <1>2, <1>4 DEF SameFees, HasFees, Consistent
<1>6. Legacy' <=> Legacy
    BY <1>3 DEF Legacy
<1>7. \A q \in Objects : IF HasFees(tx'[q]) THEN Consistent(tx'[q]) ELSE tx'[q].type \in {None, 0}
    BY <1>3, <1>5 DEF FeeInv
<1>8. FeesConsistent'
    <2>1. \A t \in Sends : sent[t] # None => Consistent(sent[t])
        BY DEF FeeInv, FeesConsistent, Consistent
    <2>2. \A t \in Sends : sent'[t] # None => Consistent(sent'[t])
        BY <1>3, <1>5, <2>1
    <2>. QED
        BY <2>2 DEF FeesConsistent, Consistent
<1>9. ASSUME NEW t \in Sends
      PROVE  /\ pc'[t] = "reading" /\ "fees" \notin asked[t] => HasFees(tx'[objectOf[t]])
             /\ pc'[t] = "reading" /\ "fees" \in asked[t] /\ Legacy
                    => tx'[objectOf[t]].type \in {None, 0}
             /\ pc'[t] \in Filled => HasFees(tx'[objectOf[t]])
    <2>1. CASE t = s
        BY <1>3, <1>5, <2>1 DEF Filled
    <2>2. CASE t # s /\ objectOf[t] = o
        BY <1>3, <1>5, <2>2 DEF FeeInv
    <2>3. CASE t # s /\ objectOf[t] # o
        <3>1. tx'[objectOf[t]] = tx[objectOf[t]]
            BY <1>3, <2>3 DEF SendInv, BaseOK
        <3>. QED
            BY <1>3, <2>3, <3>1 DEF FeeInv
    <2>. QED
        BY <2>1, <2>2, <2>3
<1>. QED
    BY <1>3, <1>6, <1>7, <1>8, <1>9 DEF FeeInv

\* A send asks for fees if its object has none.
LEMMA BeginKeepsFees ==
    ASSUME OneScheme, SendInv, FeeInv, NEW s \in Sends, Begin(s)
    PROVE  FeeInv'
<1> DEFINE o == objectOf[s]
<1>1. /\ UNCHANGED <<setting, objectOf, sent>>
      /\ pc'[s] = "reading" /\ asked'[s] = Reads(tx[o])
      /\ \A t \in Sends \ {s} : pc'[t] = pc[t] /\ asked'[t] = asked[t]
    BY DEF Begin, SendInv, TypeOK, BaseOK
<1>2. \A q \in Objects : SameFees(tx'[q], tx[q])
    <2>1. o \in Objects /\ tx \in [Objects -> TxType]
        BY DEF SendInv, TypeOK, BaseOK
    <2> DEFINE u == [tx[o] EXCEPT !.from = "signer"]
    <2>2. SameFees(u, tx[o])
        BY <2>1 DEF TxType, SameFees
    <2>3. tx' = [tx EXCEPT ![o] = u]
        BY <2>1 DEF Begin
    <2>. HIDE DEF u
    <2>4. \A q \in Objects : tx'[q] = IF q = o THEN u ELSE tx[q]
        BY <2>1, <2>3
    <2>. QED
        BY <2>2, <2>4 DEF SameFees
<1>3. "fees" \in asked'[s] <=> ~HasFees(tx[o])
    BY <1>1 DEF Reads, HasFees
<1>4. \A q \in Objects : /\ HasFees(tx'[q]) <=> HasFees(tx[q])
                         /\ Consistent(tx'[q]) <=> Consistent(tx[q])
                         /\ tx'[q].type = tx[q].type
    BY <1>2 DEF SameFees, HasFees, Consistent
<1>5. \A t \in Sends : objectOf[t] \in Objects
    BY DEF SendInv, BaseOK
<1>6. Legacy' <=> Legacy
    BY <1>1 DEF Legacy
<1>7. FeesConsistent'
    BY <1>1 DEF FeeInv, FeesConsistent
<1>8. \A q \in Objects : IF HasFees(tx'[q]) THEN Consistent(tx'[q]) ELSE tx'[q].type \in {None, 0}
    BY <1>4 DEF FeeInv
<1>9. ASSUME NEW t \in Sends
      PROVE  /\ pc'[t] = "reading" /\ "fees" \notin asked'[t] => HasFees(tx'[objectOf[t]])
             /\ pc'[t] = "reading" /\ "fees" \in asked'[t] /\ Legacy
                    => tx'[objectOf[t]].type \in {None, 0}
             /\ pc'[t] \in Filled => HasFees(tx'[objectOf[t]])
    <2>1. CASE t = s
        BY <1>1, <1>3, <1>4, <1>5, <2>1 DEF FeeInv, Filled
    <2>2. CASE t # s
        BY <1>1, <1>4, <1>5, <2>2 DEF FeeInv
    <2>. QED
        BY <2>1, <2>2
<1>. QED
    BY <1>1, <1>6, <1>7, <1>8, <1>9 DEF FeeInv

\* Other steps write no object.
LEMMA OthersKeepFees ==
    ASSUME FeeInv, UNCHANGED <<setting, objectOf, tx, asked, sent>>,
           \A s \in Sends : pc'[s] \in {pc[s], "done"}
    PROVE  FeeInv'
<1>1. Legacy' <=> Legacy
    BY DEF Legacy
<1>2. FeesConsistent'
    BY DEF FeeInv, FeesConsistent
<1>. QED
    BY <1>1, <1>2 DEF FeeInv, Filled

\* Every step preserves the invariant of the fees.
LEMMA NextFees ==
    ASSUME OneScheme, SendInv, FeeInv, [Next]_vars
    PROVE  FeeInv'
<1>1. ASSUME NEW s \in Sends, Begin(s)
      PROVE  FeeInv'
    BY <1>1, BeginKeepsFees
<1>2. ASSUME NEW s \in Sends, Fill(s) \/ Estimated(s) \/ (EstimateFails(s) /\ Fills(s))
      PROVE  FeeInv'
    BY <1>2, FillFills, EstimatedFills, FillsKeepFees
<1>3. ASSUME NEW s \in Sends,
             \/ WrongSigner(s) \/ ReadNonce(s) \/ ReadBalance(s) \/ ReadFails(s) \/ Broadcast(s)
             \/ EstimateFails(s) /\ Settle(s, "failed") /\ UNCHANGED <<tx, sent>>
      PROVE  FeeInv'
    <2>1. UNCHANGED <<setting, objectOf, tx, asked, sent>>
        BY <1>3 DEF WrongSigner, ReadNonce, ReadBalance, ReadFails, Broadcast, EstimateFails
    <2>2. \A t \in Sends : pc'[t] \in {pc[t], "done"}
        BY <1>3 DEF WrongSigner, ReadNonce, ReadBalance, ReadFails, Broadcast, Settle, SendInv, TypeOK
    <2>. QED
        BY <2>1, <2>2, OthersKeepFees
<1>4. CASE Mine \/ UNCHANGED vars
    BY <1>4, OthersKeepFees DEF Mine, vars
<1>. QED
    BY <1>1, <1>2, <1>3, <1>4, EstimateFailsFills DEF Next

\* The objects of the caller do not contradict themselves.
LEMMA InitFees ==
    ASSUME OneScheme, Init
    PROVE  FeeInv
<1>1. \A q \in Objects : tx[q] \in Given
    BY DEF Init
<1>2. \A s \in Sends : pc[s] = "idle" /\ sent[s] = None
    BY DEF Init
<1>. QED
    BY <1>1, <1>2 DEF FeeInv, FeesConsistent, OneScheme, Filled

\* What is broadcast has the fees of one scheme, that of its type, and a maxFeePerGas
\* that covers its priority fee: for objects that do not contradict themselves, on a
\* chain that has base fees or none.
THEOREM FeesOfOneScheme ==
    ASSUME OneScheme
    PROVE  Spec => []FeesConsistent
<1>1. Init => FeeInv
    BY InitFees
<1>2. SendInv /\ FeeInv /\ [Next]_vars => FeeInv'
    BY NextFees
<1>3. FeeInv => FeesConsistent
    BY DEF FeeInv
<1>. QED
    BY <1>1, <1>2, <1>3, SendsAlways, PTL DEF Spec

-----------------------------------------------------------------------------
(* txCost *)

\* The caller leaves these fields to populateTransaction.
Uncosted == \A t \in Given : t.txCost = None /\ t.l1Fee = None

GasFee(t) == OrZero(IF t.maxFee = None THEN t.gasPrice ELSE t.maxFee)

\* The object has a txCost, and it bounds the charge.
Costed(t) == /\ HasFees(t) /\ Truthy(t.gasLimit)
             /\ t.txCost # None /\ t.txCost >= t.gasLimit * GasFee(t) + KnownL1

\* In an object that no two sends fill at one time, a txCost stays with the fees and the
\* gas limit it was computed from; until there is one, the prices read hold for it.
CostInv ==
    /\ \A q \in Objects : Unshared(q) =>
           /\ tx[q].txCost # None => Costed(tx[q])
           /\ tx[q].l1Fee # None => tx[q].txCost # None
    /\ \A s \in Sends : /\ got[s].balance # None => pc[s] # "idle" /\ "balance" \in asked[s]
                        /\ pc[s] = "idle" => overlapped[s] = {}
                        /\ outcome[s] = "accepted" => pc[s] = "done"
    /\ \A s \in Sends : Unshared(objectOf[s]) =>
           LET t == tx[objectOf[s]] IN
           /\ pc[s] = "reading" => /\ "fees" \in asked[s] <=> ~HasFees(t)
                                   /\ "l1" \in asked[s] \/ Truthy(t.l1Fee) \/ ~setting.oracle
                                   /\ "balance" \in asked[s] => t.txCost = None
           /\ pc[s] \in Filled => /\ HasFees(t) /\ t.txCost = None
                                  /\ rate[s].price >= GasFee(t) /\ rate[s].l1 >= KnownL1
           /\ pc[s] = "sending" \/ outcome[s] = "accepted" => sent[s] \in TxType /\ Costed(sent[s])

\* The oracle's answer, raised, covers the fee; without an oracle there is none to know.
LEMMA KnownTyped ==
    ASSUME BaseOK
    PROVE  /\ KnownL1 \in Nat /\ setting.l1 \in Nat /\ L1Fee \in Nat /\ KnownL1 <= L1Fee
           /\ ~setting.oracle => KnownL1 = 0
    BY SettingTyped DEF KnownL1, L1Fee

\* What is known of the fee depends on the setting alone.
LEMMA KnownSame ==
    ASSUME UNCHANGED setting
    PROVE  KnownL1' = KnownL1
    BY DEF KnownL1

\* A price that covers the fee covers it for all of the gas.
LEMMA ProductMonotone == \A g, a, b \in Nat : a <= b => g * a <= b * g
    OBVIOUS

\* The price counts the priority fee on top of the highest fee per gas.
LEMMA PriceCovers ==
    ASSUME NEW p \in TxType, NEW f
    PROVE  GasFee(p) \in Nat /\ GasFee(p) <= Price(p, f)
    BY TransactionsAssumption DEF GasFee, Price, TxType, Field, Truthy, OrZero

\* The cost that Finish writes.
LEMMA CostWritten ==
    ASSUME BaseOK, NEW u \in TxType, HasFees(u), Truthy(u.gasLimit), NEW r \in RateType,
           r.price >= GasFee(u), r.l1 >= KnownL1, u.txCost = r.price * u.gasLimit + r.l1
    PROVE  Costed(u)
<1>1. u.gasLimit \in Nat /\ GasFee(u) \in Nat /\ KnownL1 \in Nat /\ r.price \in Nat /\ r.l1 \in Nat
    BY KnownTyped, PriceCovers DEF Truthy, TxType, Field, RateType
<1>2. u.gasLimit * GasFee(u) <= r.price * u.gasLimit
    BY <1>1, ProductMonotone
<1>3. u.gasLimit * GasFee(u) \in Nat /\ r.price * u.gasLimit \in Nat
    BY <1>1, ProductNat
<1>4. u.txCost \in Nat /\ u.txCost >= u.gasLimit * GasFee(u) + KnownL1
    BY <1>1, <1>2, <1>3
<1>. QED
    BY <1>4, TransactionsAssumption DEF Costed

\* Nobody else runs on an object that is not shared.
LEMMA AloneOnObject ==
    ASSUME SendInv, NEW s \in Sends, Active(s), Unshared(objectOf[s])
    PROVE  \A t \in Sends \ {s} : objectOf[t] = objectOf[s] => ~Active(t)
    BY DEF SendInv, Overlaps, Unshared, Sharing, BaseOK

\* Filling an object that is not shared.
LEMMA FillsKeepOwnCosts ==
    ASSUME SendInv, CostInv, NEW s \in Sends, Fills(s), Unshared(objectOf[s])
    PROVE  LET u == tx'[objectOf[s]] IN
           /\ HasFees(u)
           /\ pc'[s] \in Filled => /\ u.txCost = None /\ u.l1Fee = None
                                   /\ rate'[s].price >= GasFee(u) /\ rate'[s].l1 >= KnownL1
           /\ pc'[s] = "sending" => Costed(u) /\ sent'[s] = u
<1> DEFINE o == objectOf[s]
<1>1. PICK u : /\ Filling(s, u)
               /\ \E p \in FilledFrom(s), r \in RateType : SameFees(u, p) /\ Costing(s, u, p, r)
    BY DEF Fills
<1> PICK p \in FilledFrom(s), r \in RateType : SameFees(u, p) /\ Costing(s, u, p, r)
    BY <1>1
<1>2. /\ u \in TxType /\ tx'[o] = u /\ tx[o] \in TxType /\ o \in Objects
      /\ pc'[s] \in Filled \cup {"sending"}
      /\ pc'[s] = "valuing" => got[s].balance # None
      /\ pc'[s] = "sending" => sent'[s] = u
    BY <1>1 DEF Filling, Filled, SendInv, TypeOK, BaseOK
<1>3. /\ tx[o].txCost # None => Costed(tx[o])
      /\ tx[o].l1Fee # None => tx[o].txCost # None
    BY <1>2 DEF CostInv
<1>4. /\ p \in TxType /\ SameCosts(p, tx[o]) /\ HasFees(p)
      /\ tx[o].txCost # None => p = tx[o]
    <2>1. CASE pc[s] = "reading"
        <3>1. p \in PricedObjects(s)
            BY <2>1 DEF FilledFrom
        <3>2. "fees" \in asked[s] <=> ~HasFees(tx[o])
            BY <2>1 DEF CostInv
        <3>. QED
            BY <1>3, <3>1, <3>2, PricedTyped DEF SendInv, Costed
    <2>2. CASE pc[s] # "reading"
        <3>1. p = tx[o] /\ pc[s] \in Filled
            BY <2>2 DEF FilledFrom, Fills
        <3>. QED
            BY <1>2, <3>1 DEF CostInv, SameCosts
    <2>. QED
        BY <2>1, <2>2
<1>5. HasFees(u) /\ GasFee(u) = GasFee(p)
    BY <1>1, <1>4 DEF SameFees, HasFees, GasFee
<1>6. r.price >= GasFee(u)
    <2>1. CASE pc[s] = "reading"
        <3>1. r.price = Price(p, "fees" \in asked[s])
            BY <1>1, <2>1 DEF Costing
        <3>. QED
            BY <1>4, <1>5, <3>1, PriceCovers, PriceTyped
    <2>2. CASE pc[s] # "reading"
        BY <1>1, <1>5, <2>2 DEF Costing, FilledFrom, Fills, CostInv
    <2>. QED
        BY <2>1, <2>2
<1>7. tx[o].txCost = None => r.l1 >= KnownL1
    <2>1. CASE pc[s] = "reading" /\ tx[o].txCost = None
        <3>1. "l1" \in asked[s] \/ ~setting.oracle
            BY <1>3, <2>1 DEF CostInv, Truthy
        <3>2. "l1" \in asked[s] => r.l1 = L1Fee
            BY <1>1, <2>1 DEF Costing
        <3>. QED
            BY <3>1, <3>2, KnownTyped DEF SendInv, RateType
    <2>2. CASE pc[s] # "reading"
        BY <1>1, <2>2 DEF Costing, Fills, CostInv
    <2>. QED
        BY <2>1, <2>2
<1>8. CASE pc'[s] \in Filled
    <2>1. rate'[s] = r /\ SameCosts(u, tx[o])
        BY <1>1, <1>4, <1>8 DEF Costing, Filled, SameCosts
    <2>2. tx[o].txCost = None
        <3>1. CASE pc'[s] = "valuing"
            <4>1. "balance" \in asked[s]
                BY <1>2, <3>1 DEF CostInv
            <4>. QED
                BY <4>1 DEF CostInv, Fills
        <3>2. CASE pc'[s] = "estimating"
            <4>1. ~Truthy(tx[o].gasLimit)
                BY <1>1, <2>1, <3>2 DEF Costing, SameCosts
            <4>. QED
                BY <1>3, <4>1 DEF Costed
        <3>. QED
            BY <1>8, <3>1, <3>2 DEF Filled
    <2>3. u.txCost = None /\ u.l1Fee = None
        BY <1>3, <2>1, <2>2 DEF SameCosts
    <2>. QED
        BY <1>2, <1>5, <1>6, <1>7, <1>8, <2>1, <2>2, <2>3 DEF Filled
<1>9. CASE pc'[s] = "sending"
    <2>1. /\ Truthy(u.gasLimit) /\ (pc[s] = "reading" => u.gasLimit = p.gasLimit)
          /\ u.txCost = IF Truthy(p.txCost) THEN p.txCost ELSE r.price * u.gasLimit + r.l1
        BY <1>1, <1>9 DEF Costing
    <2>2. CASE tx[o].txCost = None
        <3>1. u.txCost = r.price * u.gasLimit + r.l1
            BY <1>4, <2>1, <2>2 DEF SameCosts, Truthy
        <3>2. Costed(u)
            BY <1>2, <1>5, <1>6, <1>7, <2>1, <2>2, <3>1, CostWritten DEF SendInv
        <3>. QED
            BY <1>2, <1>5, <1>9, <3>2 DEF Filled
    <2>3. CASE tx[o].txCost # None
        <3>1. p = tx[o] /\ Costed(tx[o]) /\ pc[s] = "reading"
            BY <1>3, <1>4, <2>3 DEF CostInv, Fills
        <3>2. u.gasLimit = tx[o].gasLimit /\ GasFee(u) = GasFee(tx[o])
            BY <1>5, <2>1, <3>1
        <3>3. CASE Truthy(tx[o].txCost)
            <4>1. u.txCost = tx[o].txCost
                BY <2>1, <3>1, <3>3
            <4>2. Costed(u)
                BY <1>5, <3>1, <3>2, <4>1 DEF Costed
            <4>. QED
                BY <1>2, <1>5, <1>9, <4>2 DEF Filled
        <3>4. CASE ~Truthy(tx[o].txCost)
            <4>1. u.txCost = r.price * u.gasLimit + r.l1 /\ tx[o].txCost = 0
                BY <2>1, <2>3, <3>1, <3>4 DEF Truthy
            <4>2. KnownL1 \in Nat /\ u.gasLimit \in Nat /\ GasFee(u) \in Nat
                BY <1>2, <2>1, KnownTyped, PriceCovers DEF SendInv, Truthy, TxType, Field
            <4>3. u.gasLimit * GasFee(u) \in Nat
                BY <4>2, ProductNat
            <4>4. KnownL1 = 0
                BY <3>1, <3>2, <4>1, <4>2, <4>3 DEF Costed
            <4>5. r.l1 >= KnownL1
                BY <4>4 DEF RateType
            <4>6. Costed(u)
                BY <1>2, <1>5, <1>6, <2>1, <4>1, <4>5, CostWritten DEF SendInv
            <4>. QED
                BY <1>2, <1>5, <1>9, <4>6 DEF Filled
        <3>. QED
            BY <3>3, <3>4
    <2>. QED
        BY <2>2, <2>3
<1>. QED
    BY <1>2, <1>8, <1>9

\* Steps that fill an object keep the costs of every other.
LEMMA FillsKeepCosts ==
    ASSUME SendInv, CostInv, NEW s \in Sends, Fills(s)
    PROVE  CostInv'
<1> DEFINE o == objectOf[s]
<1>1. PICK u : Filling(s, u)
    BY DEF Fills
<1>2. /\ UNCHANGED <<setting, objectOf, asked, got, outcome, overlapped>>
      /\ \A q \in Objects \ {o} : tx'[q] = tx[q]
      /\ pc'[s] \in Filled \cup {"sending"}
      /\ \A t \in Sends \ {s} : pc'[t] = pc[t] /\ sent'[t] = sent[t] /\ rate'[t] = rate[t]
      /\ o \in Objects /\ tx'[o] = u /\ u \in TxType
      /\ \A t \in Sends : objectOf[t] \in Objects
    BY <1>1 DEF Filling, Filled, SendInv, TypeOK, BaseOK
<1>3. Active(s) /\ outcome[s] = "none" /\ pc[s] # "idle"
    BY DEF Fills, Filled, Active, SendInv, StepsFit, TypeOK
<1>4. \A q : Unshared(q)' <=> Unshared(q)
    BY <1>2 DEF Unshared, Sharing
<1>5. \A t \in TxType : Costed(t)' <=> Costed(t)
    BY <1>2, KnownSame DEF Costed
<1>6. \A q \in Objects : tx[q] \in TxType
    BY DEF SendInv, TypeOK
<1>7. \A t \in Sends : pc[t] = "sending" \/ outcome[t] = "accepted" => sent[t] \in TxType \cup {None}
    BY DEF SendInv, TypeOK
<1>8. \A x : Costed(x)' <=> Costed(x)
    BY <1>2, KnownSame DEF Costed
<1>9. Unshared(o) =>
          /\ HasFees(u)
          /\ pc'[s] \in Filled => /\ u.txCost = None /\ u.l1Fee = None
                                  /\ rate'[s].price >= GasFee(u) /\ rate'[s].l1 >= KnownL1
          /\ pc'[s] = "sending" => Costed(u) /\ sent'[s] = u
    BY <1>2, FillsKeepOwnCosts
<1>10. ASSUME NEW q \in Objects, Unshared(q)
       PROVE  /\ tx'[q].txCost # None => Costed(tx'[q])
              /\ tx'[q].l1Fee # None => tx'[q].txCost # None
    <2>1. CASE q = o
        BY <1>2, <1>9, <1>10, <2>1 DEF Costed
    <2>2. CASE q # o
        BY <1>2, <1>10, <2>2 DEF CostInv
    <2>. QED
        BY <2>1, <2>2
<1>11. ASSUME NEW t \in Sends, Unshared(objectOf[t])
       PROVE  LET x == tx'[objectOf[t]] IN
              /\ pc'[t] = "reading" => /\ "fees" \in asked[t] <=> ~HasFees(x)
                                       /\ "l1" \in asked[t] \/ Truthy(x.l1Fee) \/ ~setting.oracle
                                       /\ "balance" \in asked[t] => x.txCost = None
              /\ pc'[t] \in Filled => /\ HasFees(x) /\ x.txCost = None
                                      /\ rate'[t].price >= GasFee(x) /\ rate'[t].l1 >= KnownL1
              /\ pc'[t] = "sending" \/ outcome[t] = "accepted" => sent'[t] \in TxType /\ Costed(sent'[t])
    <2>1. CASE t = s
        BY <1>2, <1>3, <1>9, <1>11, <2>1 DEF Filled
    <2>2. CASE t # s /\ objectOf[t] = o
        <3>1. pc[t] \notin {"reading", "sending"} \cup Filled
            BY <1>3, <1>11, <2>2, AloneOnObject DEF Active, Filled
        <3>. QED
            BY <1>2, <1>11, <2>2, <3>1 DEF CostInv, Filled
    <2>3. CASE t # s /\ objectOf[t] # o
        <3>1. tx'[objectOf[t]] = tx[objectOf[t]]
            BY <1>2, <2>3
        <3>. QED
            BY <1>2, <1>11, <2>3, <3>1 DEF CostInv
    <2>. QED
        BY <2>1, <2>2, <2>3
<1>12. \A t \in Sends : /\ got[t].balance # None => pc'[t] # "idle" /\ "balance" \in asked[t]
                        /\ pc'[t] = "idle" => overlapped[t] = {}
                        /\ outcome[t] = "accepted" => pc'[t] = "done"
    BY <1>2, <1>3 DEF CostInv, Filled
<1>. QED
    BY <1>2, <1>4, <1>8, <1>10, <1>11, <1>12, KnownSame DEF CostInv

\* A send reads what its object does not have, and only then is it priced anew.
LEMMA BeginKeepsCosts ==
    ASSUME SendInv, CostInv, NEW s \in Sends, Begin(s)
    PROVE  CostInv'
<1> DEFINE o == objectOf[s]
<1>1. /\ UNCHANGED <<setting, objectOf, got, rate, sent, outcome>>
      /\ pc[s] = "idle" /\ pc'[s] = "reading" /\ asked'[s] = Reads(tx[o])
      /\ \A t \in Sends \ {s} : pc'[t] = pc[t] /\ asked'[t] = asked[t]
      /\ outcome[s] = "none" /\ got[s].balance = None
    BY DEF Begin, SendInv, TypeOK, BaseOK, StepsFit, CostInv
<1>2. \A q \in Objects : SameFees(tx'[q], tx[q]) /\ SameCosts(tx'[q], tx[q])
    <2>1. o \in Objects /\ tx \in [Objects -> TxType]
        BY DEF SendInv, TypeOK, BaseOK
    <2> DEFINE u == [tx[o] EXCEPT !.from = "signer"]
    <2>2. SameFees(u, tx[o]) /\ SameCosts(u, tx[o])
        BY <2>1 DEF TxType, SameFees, SameCosts
    <2>3. tx' = [tx EXCEPT ![o] = u]
        BY <2>1 DEF Begin
    <2>. HIDE DEF u
    <2>4. \A q \in Objects : tx'[q] = IF q = o THEN u ELSE tx[q]
        BY <2>1, <2>3
    <2>. QED
        BY <2>2, <2>4 DEF SameFees, SameCosts
<1>3. /\ "fees" \in asked'[s] <=> ~HasFees(tx[o])
      /\ "l1" \in asked'[s] <=> ~Truthy(tx[o].l1Fee) /\ setting.oracle
      /\ "balance" \in asked'[s] => tx[o].txCost = None
    BY <1>1 DEF Reads, HasFees
<1>4. \A q : Unshared(q)' => Unshared(q)
    <2>1. \A t \in Sends : overlapped[t] \subseteq overlapped'[t] \/ t = s
        BY DEF Begin
    <2>2. overlapped[s] = {}
        BY <1>1 DEF CostInv
    <2>. QED
        BY <1>1, <2>1, <2>2 DEF Unshared, Sharing
<1>5. \A x : Costed(x)' <=> Costed(x)
    BY <1>1, KnownSame DEF Costed
<1>6. \A q \in Objects : /\ HasFees(tx'[q]) <=> HasFees(tx[q])
                         /\ GasFee(tx'[q]) = GasFee(tx[q])
                         /\ Costed(tx'[q]) <=> Costed(tx[q])
                         /\ tx'[q].txCost = tx[q].txCost /\ tx'[q].l1Fee = tx[q].l1Fee
    BY <1>2 DEF SameFees, SameCosts, HasFees, GasFee, Costed
<1>7. \A t \in Sends : objectOf[t] \in Objects
    BY DEF SendInv, BaseOK
<1>8. ASSUME NEW q \in Objects, Unshared(q)'
      PROVE  /\ tx'[q].txCost # None => Costed(tx'[q])
             /\ tx'[q].l1Fee # None => tx'[q].txCost # None
    BY <1>4, <1>6, <1>8 DEF CostInv
<1>9. ASSUME NEW t \in Sends, Unshared(objectOf[t])'
      PROVE  LET x == tx'[objectOf[t]] IN
             /\ pc'[t] = "reading" => /\ "fees" \in asked'[t] <=> ~HasFees(x)
                                      /\ "l1" \in asked'[t] \/ Truthy(x.l1Fee) \/ ~setting.oracle
                                      /\ "balance" \in asked'[t] => x.txCost = None
             /\ pc'[t] \in Filled => /\ HasFees(x) /\ x.txCost = None
                                     /\ rate[t].price >= GasFee(x) /\ rate[t].l1 >= KnownL1
             /\ pc'[t] = "sending" \/ outcome[t] = "accepted" => sent[t] \in TxType /\ Costed(sent[t])
    <2>1. CASE t = s
        BY <1>1, <1>3, <1>6, <1>7, <2>1 DEF Filled
    <2>2. CASE t # s
        <3>1. Unshared(objectOf[t])
            BY <1>1, <1>4, <1>9
        <3>. QED
            BY <1>1, <1>6, <1>7, <2>2, <3>1 DEF CostInv
    <2>. QED
        BY <2>1, <2>2
<1>10. \A t \in Sends : /\ got[t].balance # None => pc'[t] # "idle" /\ "balance" \in asked'[t]
                        /\ pc'[t] = "idle" => overlapped'[t] = {}
                        /\ outcome[t] = "accepted" => pc'[t] = "done"
    BY <1>1 DEF CostInv, Begin, Active
<1>. QED
    BY <1>1, <1>5, <1>8, <1>9, <1>10, KnownSame DEF CostInv

\* Other steps write no object, and end a send or record what it reads.
LEMMA OthersKeepCosts ==
    ASSUME CostInv, UNCHANGED <<setting, objectOf, tx, asked, rate, sent, overlapped>>,
           \A s \in Sends : pc'[s] \in {pc[s], "done"},
           \A s \in Sends : outcome'[s] = "accepted" =>
               /\ pc'[s] = "done"
               /\ outcome[s] = "accepted" \/ pc[s] = "sending",
           \A s \in Sends : got'[s].balance # None =>
               got[s].balance # None \/ (pc[s] = "reading" /\ "balance" \in asked[s])
    PROVE  CostInv'
<1>1. \A q : Unshared(q)' <=> Unshared(q)
    BY DEF Unshared, Sharing
<1>2. \A x : Costed(x)' <=> Costed(x)
    BY KnownSame DEF Costed
<1>3. \A s \in Sends : /\ got'[s].balance # None => pc'[s] # "idle" /\ "balance" \in asked[s]
                       /\ pc'[s] = "idle" => overlapped[s] = {}
                       /\ outcome'[s] = "accepted" => pc'[s] = "done"
    BY DEF CostInv
<1>4. \A q \in Objects : Unshared(q) =>
          /\ tx[q].txCost # None => Costed(tx[q])
          /\ tx[q].l1Fee # None => tx[q].txCost # None
    BY DEF CostInv
<1>5. ASSUME NEW t \in Sends, Unshared(objectOf[t])
      PROVE  LET x == tx[objectOf[t]] IN
             /\ pc'[t] = "reading" => /\ "fees" \in asked[t] <=> ~HasFees(x)
                                      /\ "l1" \in asked[t] \/ Truthy(x.l1Fee) \/ ~setting.oracle
                                      /\ "balance" \in asked[t] => x.txCost = None
             /\ pc'[t] \in Filled => /\ HasFees(x) /\ x.txCost = None
                                     /\ rate[t].price >= GasFee(x) /\ rate[t].l1 >= KnownL1
             /\ pc'[t] = "sending" \/ outcome'[t] = "accepted" => sent[t] \in TxType /\ Costed(sent[t])
    BY <1>5 DEF CostInv, Filled
<1>. QED
    BY <1>1, <1>2, <1>3, <1>4, <1>5, KnownSame DEF CostInv

\* Every step preserves the invariant of the costs.
LEMMA NextCosts ==
    ASSUME SendInv, CostInv, [Next]_vars
    PROVE  CostInv'
<1>1. ASSUME NEW s \in Sends, Begin(s)
      PROVE  CostInv'
    BY <1>1, BeginKeepsCosts
<1>2. ASSUME NEW s \in Sends, Fill(s) \/ Estimated(s) \/ (EstimateFails(s) /\ Fills(s))
      PROVE  CostInv'
    BY <1>2, FillFills, EstimatedFills, FillsKeepCosts
<1>3. ASSUME NEW s \in Sends,
             \/ WrongSigner(s) \/ ReadNonce(s) \/ ReadBalance(s) \/ ReadFails(s) \/ Broadcast(s)
             \/ EstimateFails(s) /\ Settle(s, "failed") /\ UNCHANGED <<tx, sent>>
      PROVE  CostInv'
    <2>1. UNCHANGED <<setting, objectOf, tx, asked, rate, sent, overlapped>>
        BY <1>3 DEF WrongSigner, ReadNonce, ReadBalance, ReadFails, Broadcast, EstimateFails
    <2>2. \A t \in Sends : pc'[t] \in {pc[t], "done"}
        BY <1>3 DEF WrongSigner, ReadNonce, ReadBalance, ReadFails, Broadcast, Settle, SendInv, TypeOK
    <2>3. \A t \in Sends : outcome'[t] = "accepted" =>
              pc'[t] = "done" /\ (outcome[t] = "accepted" \/ pc[t] = "sending")
        BY <1>3 DEF WrongSigner, ReadNonce, ReadBalance, ReadFails, Broadcast, Settle, SendInv, TypeOK,
                    CostInv
    <2>4. \A t \in Sends : got'[t].balance # None =>
              got[t].balance # None \/ (pc[t] = "reading" /\ "balance" \in asked[t])
        <3>1. CASE ReadBalance(s) \/ ReadNonce(s)
            <4>1. PICK f \in {"nonce", "balance"}, x \in {PendingCount, balance} :
                      /\ pc[s] = "reading" /\ f \in asked[s]
                      /\ got' = [got EXCEPT ![s] = [@ EXCEPT ![f] = x]]
                BY <3>1 DEF ReadBalance, ReadNonce
            <4>2. got \in [Sends -> [nonce : Field(Nat), balance : Field(Int)]]
                BY DEF SendInv, TypeOK
            <4>3. \A t \in Sends : got'[t] = IF t = s THEN [got[s] EXCEPT ![f] = x] ELSE got[t]
                BY <4>1, <4>2
            <4>4. f # "balance" => got'[s].balance = got[s].balance
                BY <4>1, <4>2, <4>3
            <4>. QED
                BY <4>1, <4>3, <4>4
        <3>2. CASE ~(ReadBalance(s) \/ ReadNonce(s))
            BY <1>3, <3>2 DEF WrongSigner, ReadFails, Broadcast, EstimateFails
        <3>. QED
            BY <3>1, <3>2
    <2>. QED
        BY <2>1, <2>2, <2>3, <2>4, OthersKeepCosts
<1>4. CASE Mine \/ UNCHANGED vars
    <2>1. UNCHANGED <<setting, objectOf, tx, pc, asked, got, rate, sent, outcome, overlapped>>
        BY <1>4 DEF Mine, vars
    <2>2. \A t \in Sends : outcome'[t] = "accepted" => pc'[t] = "done"
        BY <2>1 DEF CostInv
    <2>. QED
        BY <2>1, <2>2, OthersKeepCosts
<1>. QED
    BY <1>1, <1>2, <1>3, <1>4, EstimateFailsFills DEF Next

\* No object has a txCost in the beginning.
LEMMA InitCosts ==
    ASSUME Uncosted, Init
    PROVE  CostInv
<1>1. \A q \in Objects : tx[q].txCost = None /\ tx[q].l1Fee = None
    BY DEF Init, Uncosted
<1>2. \A s \in Sends : /\ pc[s] = "idle" /\ outcome[s] = "none"
                       /\ overlapped[s] = {} /\ got[s].balance = None
    BY DEF Init
<1>. QED
    BY <1>1, <1>2 DEF CostInv, Filled

\* The txCost of an accepted transaction covers what the node may charge for its gas, and
\* for the first layer if the signer has an oracle for it, if no two sends of its object
\* overlap and the caller left the cost to populateTransaction.
THEOREM TxCostCovers ==
    ASSUME Uncosted
    PROVE  Spec => []TxCostBounds
<1>1. Init => CostInv
    BY InitCosts
<1>2. SendInv /\ CostInv /\ [Next]_vars => CostInv'
    BY NextCosts
<1>3. ASSUME SendInv, CostInv
      PROVE  TxCostBounds
    <2>1. SUFFICES ASSUME NEW s \in Sends, outcome[s] = "accepted", Unshared(objectOf[s])
                   PROVE  sent[s].txCost >= Cost(sent[s]) - OrZero(sent[s].value) - (setting.l1 - KnownL1)
        BY DEF TxCostBounds
    <2> DEFINE t == sent[s]
    <2>2. t \in TxType /\ Costed(t)
        BY <1>3, <2>1 DEF CostInv
    <2>3. t.gasLimit \in Nat /\ GasFee(t) \in Nat /\ OrZero(t.value) \in Int /\ t.txCost \in Nat
        BY <2>2, PriceCovers DEF Costed, Truthy, OrZero, TxType, Field
    <2>4. t.gasLimit * GasFee(t) \in Nat /\ setting.l1 \in Nat /\ KnownL1 \in Nat
        BY <1>3, <2>3, ProductNat, KnownTyped DEF SendInv
    <2>5. Cost(t) = OrZero(t.value) + t.gasLimit * GasFee(t) + setting.l1
        BY DEF Cost, GasFee
    <2>6. t.txCost >= t.gasLimit * GasFee(t) + KnownL1
        BY <2>2 DEF Costed
    <2>. QED
        BY <2>3, <2>4, <2>5, <2>6
<1>. QED
    BY <1>1, <1>2, <1>3, SendsAlways, PTL DEF Spec

-----------------------------------------------------------------------------
(* Emptying the account *)

\* The caller gives no l1Fee but together with the txCost it was part of.
FeeWithCost(t) == t.l1Fee # None => t.txCost # None

\* Of a send that overlaps no other: as long as it runs nobody takes from the balance it
\* read, what it found missing is missing, and the rest it sends is covered.
Affordable(s) ==
    LET t == tx[objectOf[s]] IN
    /\ pc[s] = "reading" /\ "balance" \in asked[s] => "l1" \in asked[s] \/ ~setting.oracle
    /\ pc[s] = "valuing" => rate[s].price >= GasFee(t) /\ rate[s].l1 >= KnownL1
    /\ Active(s) /\ got[s].balance # None /\ ~crowded[s] => got[s].balance = free
    /\ setting.l1 = KnownL1 =>
           /\ pc[s] = "sending" /\ rate[s].whole /\ ~crowded[s] => Cost(sent[s]) <= free
           /\ outcome[s] = "funds" => ~(rate[s].whole /\ ~crowded[s])

EmptyInv ==
    /\ crowded \in [Sends -> BOOLEAN]
    /\ \A q \in Objects : FeeWithCost(tx[q])
    /\ \A s \in Sends : /\ got[s].balance # None => pc[s] # "idle" /\ "balance" \in asked[s]
                        /\ pc[s] \in {"idle", "reading", "estimating"} => ~rate[s].whole
                        /\ overlapped[s] = {} => Affordable(s)

\* While a send runs that overlaps no other, no other runs.
LEMMA LoneIsAlone ==
    ASSUME SendInv, NEW s \in Sends, Active(s), overlapped[s] = {}
    PROVE  \A t \in Sends \ {s} : ~Active(t)
    BY DEF SendInv, Overlaps

\* Steps that do not concern a send.
LEMMA OthersKeepAffordable ==
    ASSUME NEW s \in Sends, overlapped[s] = {} => Affordable(s), overlapped[s] \subseteq overlapped'[s],
           UNCHANGED <<setting, objectOf, pc[s], asked[s], got[s], rate[s], sent[s], outcome[s],
                       crowded[s]>>,
           Active(s) /\ overlapped'[s] = {} =>
               free' = free /\ SameFees(tx'[objectOf[s]], tx[objectOf[s]])
    PROVE  overlapped'[s] = {} => Affordable(s)'
<1> SUFFICES ASSUME overlapped'[s] = {} PROVE Affordable(s)'
    OBVIOUS
<1>1. Affordable(s)
    OBVIOUS
<1>2. Active(s)' <=> Active(s)
    BY DEF Active
<1>3. Cost(sent[s])' = Cost(sent[s])
    BY DEF Cost
<1>4. Active(s) => free' = free /\ GasFee(tx'[objectOf[s]]) = GasFee(tx[objectOf[s]])
    BY DEF SameFees, GasFee
<1>5. pc[s] \in {"valuing", "sending"} => Active(s)
    BY DEF Active
<1>. QED
    BY <1>1, <1>2, <1>3, <1>4, <1>5, KnownSame DEF Affordable

\* The rest, with the gas it was reckoned with, costs no more than the balance.
LEMMA RestIsCovered ==
    ASSUME BaseOK, NEW u \in TxType, NEW funds \in Int, NEW r \in RateType, u.gasLimit \in Nat,
           u.value = Rest(funds, r, u.gasLimit), r.price >= GasFee(u), r.l1 >= KnownL1,
           setting.l1 = KnownL1
    PROVE  Cost(u) <= funds
<1>1. GasFee(u) \in Nat /\ KnownL1 \in Nat /\ r.price \in Nat /\ r.l1 \in Nat
    BY KnownTyped, PriceCovers DEF RateType
<1>2. u.gasLimit * GasFee(u) <= r.price * u.gasLimit
    BY <1>1, ProductMonotone
<1>3. u.gasLimit * GasFee(u) \in Nat /\ r.price * u.gasLimit \in Nat
    BY <1>1, ProductNat
<1>4. u.value = funds - (r.price * u.gasLimit + r.l1) /\ u.value \in Int
    BY <1>1, <1>3 DEF Rest
<1>5. OrZero(u.value) = u.value
    BY <1>4, TransactionsAssumption DEF OrZero
<1>6. Cost(u) = u.value + u.gasLimit * GasFee(u) + KnownL1
    BY <1>5 DEF Cost, GasFee
<1>. QED
    BY <1>1, <1>2, <1>3, <1>4, <1>6

\* A send that ends otherwise than by its broadcast.
LEMMA SettleKeepsAffordable ==
    ASSUME SendInv, NEW s \in Sends, Settle(s, "failed")
    PROVE  /\ Affordable(s)' /\ pc'[s] = "done"
           /\ \A t \in Sends \ {s} : pc'[t] = pc[t] /\ outcome'[t] = outcome[t]
<1>1. /\ pc'[s] = "done" /\ outcome'[s] = "failed"
      /\ \A t \in Sends \ {s} : pc'[t] = pc[t] /\ outcome'[t] = outcome[t]
    BY DEF Settle, SendInv, TypeOK
<1>. QED
    BY <1>1 DEF Affordable, Active

\* What Finish leaves in the object and in the copy.
LEMMA FinishLeaves ==
    ASSUME SendInv, NEW s \in Sends, NEW t \in TxType, t.gasLimit \in Nat, NEW r \in RateType,
           Finish(s, t, r)
    PROVE  \E u \in TxType : /\ u.gasLimit = t.gasLimit /\ u.value = t.value /\ SameFees(u, t)
                            /\ u.txCost # None
                            /\ tx' = [tx EXCEPT ![objectOf[s]] = u]
                            /\ sent' = [sent EXCEPT ![s] = u]
                            /\ pc' = [pc EXCEPT ![s] = "sending"]
<1> DEFINE l == IF r.l1 > 0 THEN r.l1 ELSE t.l1Fee
           c == IF Truthy(t.txCost) THEN t.txCost ELSE r.price * t.gasLimit + r.l1
           u == [t EXCEPT !.l1Fee = l, !.txCost = c]
<1>1. r.price * t.gasLimit + r.l1 \in Nat
    BY ProductNat DEF RateType
<1>2. l \in Field(Nat) /\ c \in Field(Nat) /\ c # None
    BY <1>1, TransactionsAssumption DEF TxType, Field, RateType, Truthy
<1>3. /\ tx' = [tx EXCEPT ![objectOf[s]] = u] /\ sent' = [sent EXCEPT ![s] = u]
      /\ pc' = [pc EXCEPT ![s] = "sending"]
    BY DEF Finish
<1>. HIDE DEF l, c
<1>4. u \in TxType /\ u.gasLimit = t.gasLimit /\ u.value = t.value /\ SameFees(u, t) /\ u.txCost # None
    BY <1>2 DEF TxType, SameFees
<1>. QED
    BY <1>3, <1>4

\* A step of s keeps the invariant, if it keeps what concerns s and if the sends that
\* overlap no other either see nothing of it or now overlap s.
LEMMA StepKeepsEmpty ==
    ASSUME SendInv, EmptyInv, NEW s \in Sends, UNCHANGED <<setting, objectOf>>,
           \A t \in Sends \ {s} :
               /\ UNCHANGED <<pc[t], asked[t], got[t], rate[t], sent[t], outcome[t], crowded[t]>>
               /\ overlapped[t] \subseteq overlapped'[t]
               /\ Active(t) => overlapped'[t] # {} \/ UNCHANGED <<tx, free>>,
           crowded' \in [Sends -> BOOLEAN], \A q \in Objects : FeeWithCost(tx'[q]),
           got'[s].balance # None => pc'[s] # "idle" /\ "balance" \in asked'[s],
           pc'[s] \in {"idle", "reading", "estimating"} => ~rate'[s].whole,
           overlapped'[s] = {} => Affordable(s)'
    PROVE  EmptyInv'
<1>1. ASSUME NEW t \in Sends \ {s}
      PROVE  overlapped'[t] = {} => Affordable(t)'
    <2>1. overlapped[t] = {} => Affordable(t)
        BY DEF EmptyInv
    <2>2. Active(t) /\ overlapped'[t] = {} =>
              free' = free /\ SameFees(tx'[objectOf[t]], tx[objectOf[t]])
        BY DEF SameFees
    <2>. QED
        BY <2>1, <2>2, OthersKeepAffordable
<1>2. ASSUME NEW t \in Sends \ {s}
      PROVE  /\ got'[t].balance # None => pc'[t] # "idle" /\ "balance" \in asked'[t]
             /\ pc'[t] \in {"idle", "reading", "estimating"} => ~rate'[t].whole
    BY DEF EmptyInv
<1>. QED
    BY <1>1, <1>2 DEF EmptyInv, FeeWithCost

\* While s runs, a send that overlaps no other does not.
LEMMA ActiveIsSeen ==
    ASSUME SendInv, NEW s \in Sends, Active(s), UNCHANGED overlapped
    PROVE  \A t \in Sends \ {s} : overlapped[t] \subseteq overlapped'[t]
                                  /\ (Active(t) => overlapped'[t] # {})
    BY LoneIsAlone

\* What a send asks for when it begins includes the L1 fee, if it asks for the balance.
LEMMA BeginKeepsEmpty ==
    ASSUME SendInv, EmptyInv, NEW s \in Sends, Begin(s)
    PROVE  EmptyInv'
<1> DEFINE o == objectOf[s]
<1>1. /\ UNCHANGED <<setting, objectOf, got, rate, sent, outcome, crowded, free>>
      /\ pc[s] = "idle" /\ pc'[s] = "reading" /\ asked'[s] = Reads(tx[o])
      /\ outcome[s] = "none" /\ got[s].balance = None /\ ~rate[s].whole
    BY DEF Begin, node, SendInv, TypeOK, BaseOK, StepsFit, EmptyInv
<1>2. \A t \in Sends \ {s} : /\ pc'[t] = pc[t] /\ asked'[t] = asked[t]
                             /\ overlapped[t] \subseteq overlapped'[t]
                             /\ Active(t) => overlapped'[t] # {}
    BY DEF Begin, SendInv, TypeOK, BaseOK
<1>3. \A q \in Objects : FeeWithCost(tx'[q])
    <2>1. o \in Objects /\ tx \in [Objects -> TxType]
        BY DEF SendInv, TypeOK, BaseOK
    <2> DEFINE u == [tx[o] EXCEPT !.from = "signer"]
    <2>2. u.l1Fee = tx[o].l1Fee /\ u.txCost = tx[o].txCost
        BY <2>1 DEF TxType
    <2>3. tx' = [tx EXCEPT ![o] = u]
        BY <2>1 DEF Begin
    <2>. HIDE DEF u
    <2>4. \A q \in Objects : tx'[q] = IF q = o THEN u ELSE tx[q]
        BY <2>1, <2>3
    <2>. QED
        BY <2>1, <2>2, <2>4 DEF EmptyInv, FeeWithCost
<1>4. "balance" \in asked'[s] => "l1" \in asked'[s] \/ ~setting.oracle
    <2>1. FeeWithCost(tx[o])
        BY DEF EmptyInv, SendInv, BaseOK
    <2>. QED
        BY <1>1, <2>1 DEF Reads, Truthy, FeeWithCost
<1>5. Affordable(s)'
    BY <1>1, <1>4 DEF Affordable
<1>6. crowded' \in [Sends -> BOOLEAN]
    BY <1>1 DEF EmptyInv
<1>. QED
    BY <1>1, <1>2, <1>3, <1>5, <1>6, StepKeepsEmpty

\* A send that fails before its broadcast was refused nothing.
LEMMA FailureKeepsEmpty ==
    ASSUME SendInv, EmptyInv, NEW s \in Sends, Settle(s, "failed"),
           got[s].balance # None => "balance" \in asked[s],
           UNCHANGED <<setting, objectOf, tx, asked, got, rate, sent, node, overlapped, crowded>>
    PROVE  EmptyInv'
<1>1. /\ Affordable(s)' /\ pc'[s] = "done"
      /\ \A t \in Sends \ {s} : pc'[t] = pc[t] /\ outcome'[t] = outcome[t]
    BY SettleKeepsAffordable
<1>2. free' = free
    BY DEF node
<1>3. crowded' \in [Sends -> BOOLEAN] /\ \A q \in Objects : FeeWithCost(tx'[q])
    BY DEF EmptyInv
<1>. QED
    BY <1>1, <1>2, <1>3, StepKeepsEmpty

\* Reading the nonce changes nothing of the balance.
LEMMA ReadNonceKeepsEmpty ==
    ASSUME SendInv, EmptyInv, NEW s \in Sends, ReadNonce(s)
    PROVE  EmptyInv'
<1>1. /\ UNCHANGED <<setting, objectOf, tx, pc, asked, rate, sent, outcome, overlapped, crowded, free>>
      /\ Active(s) /\ pc[s] = "reading"
    BY DEF ReadNonce, node, Active
<1>2. got'[s].balance = got[s].balance /\ \A t \in Sends \ {s} : got'[t] = got[t]
    <2>1. got \in [Sends -> [nonce : Field(Nat), balance : Field(Int)]]
        BY DEF SendInv, TypeOK
    <2> DEFINE g == [got[s] EXCEPT !.nonce = PendingCount]
    <2>2. g.balance = got[s].balance
        BY <2>1
    <2>3. got' = [got EXCEPT ![s] = g]
        BY DEF ReadNonce
    <2>. HIDE DEF g
    <2>. QED
        BY <2>1, <2>2, <2>3
<1>3. overlapped[s] = {} => Affordable(s)'
    BY <1>1, <1>2 DEF EmptyInv, Affordable, Active
<1>4. crowded' \in [Sends -> BOOLEAN] /\ \A q \in Objects : FeeWithCost(tx'[q])
    BY <1>1 DEF EmptyInv
<1>5. /\ got'[s].balance # None => pc'[s] # "idle" /\ "balance" \in asked'[s]
      /\ pc'[s] \in {"idle", "reading", "estimating"} => ~rate'[s].whole
    BY <1>1, <1>2 DEF EmptyInv
<1>. QED
    BY <1>1, <1>2, <1>3, <1>4, <1>5, StepKeepsEmpty, ActiveIsSeen

\* The balance that is read is what is left, unless transactions wait.
LEMMA ReadBalanceKeepsEmpty ==
    ASSUME SendInv, EmptyInv, NEW s \in Sends, ReadBalance(s)
    PROVE  EmptyInv'
<1>1. /\ UNCHANGED <<setting, objectOf, tx, pc, asked, rate, sent, outcome, overlapped, free>>
      /\ Active(s) /\ pc[s] = "reading" /\ "balance" \in asked[s] /\ outcome[s] = "none"
    BY DEF ReadBalance, node, Active, SendInv, StepsFit
<1>2. got'[s].balance = balance /\ \A t \in Sends \ {s} : got'[t] = got[t]
    <2>1. got \in [Sends -> [nonce : Field(Nat), balance : Field(Int)]]
        BY DEF SendInv, TypeOK
    <2> DEFINE g == [got[s] EXCEPT !.balance = balance]
    <2>2. g.balance = balance
        BY <2>1
    <2>3. got' = [got EXCEPT ![s] = g]
        BY DEF ReadBalance
    <2>. HIDE DEF g
    <2>. QED
        BY <2>1, <2>2, <2>3
<1>3. /\ crowded' \in [Sends -> BOOLEAN]
      /\ ~crowded'[s] => balance = free
      /\ \A t \in Sends \ {s} : crowded'[t] = crowded[t]
    BY DEF ReadBalance, EmptyInv
<1>4. overlapped[s] = {} => Affordable(s)'
    <2>1. overlapped[s] = {} => ("balance" \in asked'[s] => "l1" \in asked'[s] \/ ~setting.oracle)
        BY <1>1 DEF EmptyInv, Affordable
    <2>2. pc'[s] = "reading" /\ outcome'[s] = "none"
        BY <1>1
    <2>3. ~crowded'[s] => got'[s].balance = free'
        BY <1>1, <1>2, <1>3
    <2>. QED
        BY <1>1, KnownSame, <2>1, <2>2, <2>3 DEF Affordable
<1>5. \A q \in Objects : FeeWithCost(tx'[q])
    BY <1>1 DEF EmptyInv
<1>6. /\ got'[s].balance # None => pc'[s] # "idle" /\ "balance" \in asked'[s]
      /\ pc'[s] \in {"idle", "reading", "estimating"} => ~rate'[s].whole
    BY <1>1 DEF EmptyInv
<1>. QED
    <2>1. \A t \in Sends \ {s} :
              /\ UNCHANGED <<pc[t], asked[t], got[t], rate[t], sent[t], outcome[t], crowded[t]>>
              /\ overlapped[t] \subseteq overlapped'[t] /\ UNCHANGED <<tx, free>>
        BY <1>1, <1>2, <1>3
    <2>. QED
        BY <1>1, <1>3, <1>4, <1>5, <1>6, <2>1, StepKeepsEmpty

\* The account is emptied with a price, and an L1 fee, that cover those of the object.
LEMMA FillKeepsEmpty ==
    ASSUME SendInv, EmptyInv, NEW s \in Sends, Fill(s)
    PROVE  EmptyInv'
<1>1. PICK p \in PricedObjects(s) :
        LET o == objectOf[s]
            t == WithNonce(s, [p EXCEPT !.chainId = TRUE])
            r == [price |-> Price(p, "fees" \in asked[s]),
                  l1 |-> IF "l1" \in asked[s] THEN L1Fee ELSE 0, whole |-> IsWhole(s, t)]
        IN  /\ rate' = [rate EXCEPT ![s] = r]
            /\ IF r.whole
               THEN /\ tx' = [tx EXCEPT ![o] = [t EXCEPT !.value = Rest(got[s].balance, r, ReserveGas)]]
                    /\ pc' = [pc EXCEPT ![s] = "valuing"]
                    /\ UNCHANGED sent
               ELSE IF Truthy(t.gasLimit) THEN Finish(s, t, r)
               ELSE /\ tx' = [tx EXCEPT ![o] = t]
                    /\ pc' = [pc EXCEPT ![s] = "estimating"]
                    /\ UNCHANGED sent
    BY DEF Fill
<1> DEFINE o == objectOf[s]
           t == WithNonce(s, [p EXCEPT !.chainId = TRUE])
           r == [price |-> Price(p, "fees" \in asked[s]),
                 l1 |-> IF "l1" \in asked[s] THEN L1Fee ELSE 0, whole |-> IsWhole(s, t)]
<1>2. /\ UNCHANGED <<setting, objectOf, asked, got, outcome, overlapped, crowded, free>>
      /\ pc[s] = "reading" /\ Active(s) /\ outcome[s] = "none"
    BY DEF Fill, node, Active, SendInv, StepsFit
<1>3. p \in TxType /\ SameCosts(p, tx[o])
    BY PricedTyped DEF SendInv
<1>4. t \in TxType /\ SameFees(t, p) /\ SameCosts(t, tx[o])
    <2>1. got[s].nonce \in Field(Nat)
        BY DEF SendInv, TypeOK
    <2>. QED
        BY <1>3, <2>1 DEF WithNonce, TxType, Field, SameFees, SameCosts
<1>5. /\ r \in RateType /\ r.price >= GasFee(p) /\ ("l1" \in asked[s] \/ ~setting.oracle => r.l1 >= KnownL1)
      /\ r.whole => got[s].balance \in Int
    <2>1. r \in RateType /\ r.price >= GasFee(p)
        BY <1>3, PriceTyped, PriceCovers, KnownTyped DEF RateType, IsWhole, Truthy, SendInv
    <2>2. "l1" \in asked[s] \/ ~setting.oracle => r.l1 >= KnownL1
        BY <2>1, KnownTyped DEF SendInv, RateType
    <2>3. r.whole => got[s].balance \in Int
        BY DEF IsWhole, Truthy, SendInv, TypeOK, Field
    <2>. QED
        BY <2>1, <2>2, <2>3
<1>6. rate'[s] = r /\ \A a \in Sends \ {s} : rate'[a] = rate[a]
    BY <1>1 DEF SendInv, TypeOK
<1>7. o \in Objects /\ tx \in [Objects -> TxType] /\ sent \in [Sends -> TxType \cup {None}]
      /\ pc \in [Sends -> {"idle", "reading", "valuing", "estimating", "sending", "done"}]
    BY DEF SendInv, TypeOK, BaseOK
<1>8. FeeWithCost(tx[o])
    BY <1>7 DEF EmptyInv
<1>9. \E u : /\ tx' = [tx EXCEPT ![o] = u] /\ FeeWithCost(u) /\ SameFees(u, p)
             /\ \A a \in Sends \ {s} : pc'[a] = pc[a] /\ sent'[a] = sent[a]
             /\ pc'[s] \in {"valuing", "estimating", "sending"}
             /\ pc'[s] = "valuing" <=> r.whole
    <2>1. CASE r.whole
        <3> DEFINE v == Rest(got[s].balance, r, ReserveGas)
                   u == [t EXCEPT !.value = v]
        <3>1. tx' = [tx EXCEPT ![o] = u] /\ pc' = [pc EXCEPT ![s] = "valuing"] /\ sent' = sent
            BY <1>1, <2>1
        <3>. HIDE DEF v, t, r
        <3>2. SameFees(u, p) /\ FeeWithCost(u)
            BY <1>4, <1>8 DEF TxType, SameFees, SameCosts, FeeWithCost
        <3>. QED
            BY <1>7, <2>1, <3>1, <3>2
    <2>2. CASE ~r.whole /\ Truthy(t.gasLimit)
        <3>1. Finish(s, t, r)
            BY <1>1, <2>2
        <3>2. t.gasLimit \in Nat
            BY <1>4, <2>2 DEF Truthy, TxType, Field
        <3>. HIDE DEF t, r
        <3>3. PICK u \in TxType : /\ SameFees(u, t) /\ u.txCost # None
                                  /\ tx' = [tx EXCEPT ![o] = u]
                                  /\ sent' = [sent EXCEPT ![s] = u]
                                  /\ pc' = [pc EXCEPT ![s] = "sending"]
            BY <1>4, <1>5, <3>1, <3>2, FinishLeaves
        <3>. QED
            BY <1>4, <1>7, <2>2, <3>3 DEF SameFees, FeeWithCost
    <2>3. CASE ~r.whole /\ ~Truthy(t.gasLimit)
        <3>1. tx' = [tx EXCEPT ![o] = t] /\ pc' = [pc EXCEPT ![s] = "estimating"] /\ sent' = sent
            BY <1>1, <2>3
        <3>. HIDE DEF t, r
        <3>2. SameFees(t, p) /\ FeeWithCost(t)
            BY <1>4, <1>8 DEF SameCosts, FeeWithCost
        <3>. QED
            BY <1>7, <2>3, <3>1, <3>2
    <2>. QED
        BY <2>1, <2>2, <2>3
<1>. HIDE DEF r, t
<1>10. PICK u : /\ tx' = [tx EXCEPT ![o] = u] /\ FeeWithCost(u) /\ SameFees(u, p)
                /\ \A a \in Sends \ {s} : pc'[a] = pc[a] /\ sent'[a] = sent[a]
                /\ pc'[s] \in {"valuing", "estimating", "sending"}
                /\ pc'[s] = "valuing" <=> r.whole
    BY <1>9
<1>11. crowded' \in [Sends -> BOOLEAN] /\ \A q \in Objects : FeeWithCost(tx'[q])
    <2>1. \A q \in Objects : tx'[q] = IF q = o THEN u ELSE tx[q]
        BY <1>7, <1>10
    <2>. QED
        BY <1>2, <1>10, <2>1 DEF EmptyInv
<1>12. GasFee(tx'[o]) = GasFee(p)
    BY <1>7, <1>10 DEF SameFees, GasFee
<1>13. ASSUME overlapped[s] = {}
       PROVE  Affordable(s)'
    <2>1. Affordable(s)
        BY <1>13 DEF EmptyInv
    <2>2. r.whole => "l1" \in asked[s] \/ ~setting.oracle
        BY <1>2, <1>5, <2>1, TransactionsAssumption DEF EmptyInv, Affordable
    <2>3. pc'[s] = "valuing" => rate'[s].price >= GasFee(tx'[o]) /\ rate'[s].l1 >= KnownL1
        BY <1>5, <1>6, <1>10, <1>12, <2>2
    <2>4. got[s].balance # None /\ ~crowded[s] => got[s].balance = free
        BY <1>2, <2>1 DEF Affordable
    <2>5. pc'[s] = "sending" => ~rate'[s].whole
        BY <1>5, <1>6, <1>10 DEF RateType
    <2>. QED
        BY <1>2, <1>10, <2>3, <2>4, <2>5, KnownSame DEF Affordable
<1>14. got'[s].balance # None => pc'[s] # "idle" /\ "balance" \in asked'[s]
    BY <1>2, <1>10 DEF EmptyInv
<1>15. pc'[s] \in {"idle", "reading", "estimating"} => ~rate'[s].whole
    BY <1>5, <1>6, <1>10 DEF RateType
<1>16. \A a \in Sends \ {s} :
           /\ UNCHANGED <<pc[a], asked[a], got[a], rate[a], sent[a], outcome[a], crowded[a]>>
           /\ overlapped[a] \subseteq overlapped'[a] /\ (Active(a) => overlapped'[a] # {})
    BY <1>2, <1>6, <1>10, ActiveIsSeen
<1>. QED
    BY <1>2, <1>11, <1>13, <1>14, <1>15, <1>16, StepKeepsEmpty

\* The value of an emptying transaction is reckoned again with the gas of the estimate.
LEMMA EstimatedKeepsEmpty ==
    ASSUME SendInv, EmptyInv, NEW s \in Sends, NEW t \in TxType, t.gasLimit \in Nat,
           SameFees(t, tx[objectOf[s]]), pc[s] \in Filled, Finish(s, t, rate[s]),
           IF pc[s] = "valuing" THEN t.value = Rest(got[s].balance, rate[s], t.gasLimit)
                                ELSE t.value = tx[objectOf[s]].value,
           UNCHANGED <<setting, objectOf, asked, got, rate, outcome, node, overlapped, crowded>>
    PROVE  EmptyInv'
<1> DEFINE o == objectOf[s]
<1>1. /\ rate[s] \in RateType /\ BaseOK /\ outcome[s] = "none" /\ Active(s) /\ free' = free
      /\ sent \in [Sends -> TxType \cup {None}] /\ o \in Objects /\ tx \in [Objects -> TxType]
      /\ pc \in [Sends -> {"idle", "reading", "valuing", "estimating", "sending", "done"}]
    BY DEF SendInv, TypeOK, BaseOK, RateType, StepsFit, Active, Filled, node
<1>2. PICK u \in TxType : /\ u.gasLimit = t.gasLimit /\ u.value = t.value /\ SameFees(u, t)
                          /\ u.txCost # None
                          /\ tx' = [tx EXCEPT ![o] = u]
                          /\ sent' = [sent EXCEPT ![s] = u]
                          /\ pc' = [pc EXCEPT ![s] = "sending"]
    BY <1>1, FinishLeaves
<1>3. /\ pc'[s] = "sending" /\ sent'[s] = u
      /\ \A a \in Sends \ {s} : pc'[a] = pc[a] /\ sent'[a] = sent[a]
      /\ \A q \in Objects : tx'[q] = IF q = o THEN u ELSE tx[q]
    BY <1>1, <1>2
<1>4. \A q \in Objects : FeeWithCost(tx'[q])
    BY <1>2, <1>3 DEF EmptyInv, FeeWithCost
<1>5. GasFee(u) = GasFee(tx[o])
    BY <1>2 DEF SameFees, GasFee
<1>6. ASSUME overlapped[s] = {}
      PROVE  Affordable(s)'
    <2>1. Affordable(s)
        BY <1>6 DEF EmptyInv
    <2>2. got[s].balance # None /\ ~crowded[s] => got[s].balance = free
        BY <1>1, <2>1 DEF Affordable
    <2>3. ASSUME rate[s].whole, ~crowded[s], setting.l1 = KnownL1
          PROVE  Cost(u) <= free
        <3>1. pc[s] = "valuing"
            BY <2>3 DEF EmptyInv, Filled
        <3>2. got[s].balance \in Int /\ got[s].balance # None
            BY <3>1 DEF SendInv, StepsFit, TypeOK, Field
        <3>3. rate[s].price >= GasFee(u) /\ rate[s].l1 >= KnownL1
            BY <1>5, <2>1, <3>1 DEF Affordable
        <3>4. u.value = Rest(got[s].balance, rate[s], u.gasLimit) /\ u.gasLimit \in Nat
            BY <1>2, <3>1
        <3>5. Cost(u) <= got[s].balance
            BY <1>1, <2>3, <3>2, <3>3, <3>4, RestIsCovered
        <3>. QED
            BY <2>2, <2>3, <3>2, <3>5
    <2>4. Cost(sent[s])' = Cost(u)
        BY <1>1, <1>3 DEF Cost
    <2>. QED
        BY <1>1, <1>3, <2>2, <2>3, <2>4, KnownSame DEF Affordable, Active
<1>7. \A a \in Sends \ {s} :
          /\ UNCHANGED <<pc[a], asked[a], got[a], rate[a], sent[a], outcome[a], crowded[a]>>
          /\ overlapped[a] \subseteq overlapped'[a] /\ (Active(a) => overlapped'[a] # {})
    BY <1>1, <1>3, ActiveIsSeen
<1>8. /\ got'[s].balance # None => pc'[s] # "idle" /\ "balance" \in asked'[s]
      /\ pc'[s] \in {"idle", "reading", "estimating"} => ~rate'[s].whole
      /\ crowded' \in [Sends -> BOOLEAN]
    BY <1>3 DEF EmptyInv
<1>. QED
    BY <1>4, <1>6, <1>7, <1>8, StepKeepsEmpty

\* Whether the estimate answers or fails.
LEMMA GasKeepsEmpty ==
    ASSUME SendInv, EmptyInv, NEW s \in Sends, Estimated(s) \/ EstimateFails(s)
    PROVE  EmptyInv'
<1> DEFINE o == objectOf[s]
<1>1. tx[o] \in TxType /\ rate[s] \in RateType
    BY DEF SendInv, BaseOK, TypeOK, RateType
<1>2. ASSUME Estimated(s)
      PROVE  EmptyInv'
    <2>1. PICK gas \in CallGas \cup {TransferGas} : Finish(s, Revalued(s, tx[o], Bumped(gas)), rate[s])
        BY <1>2 DEF Estimated
    <2> DEFINE b == Bumped(gas)
               v == IF pc[s] = "valuing" THEN Rest(got[s].balance, rate[s], b) ELSE tx[o].value
               t == [tx[o] EXCEPT !.gasLimit = b, !.value = v]
    <2>2. b \in Nat
        <3>1. CallGas \subseteq Nat /\ TransferGas \in Nat
            BY TransactionsAssumption
        <3>2. gas \in Nat
            BY <3>1
        <3>. QED
            BY <3>2 DEF Bumped
    <2>3. v \in Field(Int)
        <3>1. pc[s] = "valuing" => got[s].balance \in Int
            BY DEF SendInv, StepsFit, TypeOK, Field
        <3>. QED
            BY <1>1, <2>2, <3>1, RestTyped DEF TxType, Field
    <2>4. Finish(s, t, rate[s])
        BY <2>1 DEF Revalued
    <2>5. /\ UNCHANGED <<setting, objectOf, asked, got, rate, outcome, node, overlapped, crowded>>
          /\ pc[s] \in Filled
        BY <1>2 DEF Estimated, Filled
    <2>. HIDE DEF b
    <2>6. IF pc[s] = "valuing" THEN v = Rest(got[s].balance, rate[s], b) ELSE v = tx[o].value
        OBVIOUS
    <2>. HIDE DEF v
    <2>7. t \in TxType /\ t.gasLimit = b /\ t.value = v /\ SameFees(t, tx[o])
        <3>1. b \in Field(Nat)
            BY <2>2 DEF Field
        <3>2. t \in TxType
            BY <1>1, <2>3, <3>1 DEF TxType
        <3>3. /\ t.gasLimit = b /\ t.value = v
              /\ t.type = tx[o].type /\ t.gasPrice = tx[o].gasPrice
              /\ t.maxFee = tx[o].maxFee /\ t.maxPriority = tx[o].maxPriority
            BY <1>1 DEF TxType
        <3>. QED
            BY <3>2, <3>3 DEF SameFees
    <2>. HIDE DEF t
    <2>. QED
        BY <2>2, <2>4, <2>5, <2>6, <2>7, EstimatedKeepsEmpty
<1>3. ASSUME EstimateFails(s)
      PROVE  EmptyInv'
    <2>1. /\ UNCHANGED <<setting, objectOf, asked, got, rate, node, overlapped, crowded>>
          /\ pc[s] \in Filled
        BY <1>3 DEF EstimateFails, Filled
    <2>2. CASE pc[s] = "estimating" /\ setting.failover
        <3> DEFINE t == [tx[o] EXCEPT !.gasLimit = FailoverGas]
        <3>1. Finish(s, t, rate[s]) /\ outcome' = outcome
            BY <1>3, <2>2 DEF EstimateFails
        <3>2. FailoverGas \in Nat
            BY TransactionsAssumption
        <3>3. t \in TxType /\ t.gasLimit \in Nat /\ t.value = tx[o].value /\ SameFees(t, tx[o])
            BY <1>1, <3>2 DEF TxType, Field, SameFees
        <3>. HIDE DEF t
        <3>. QED
            BY <2>1, <2>2, <3>1, <3>3, EstimatedKeepsEmpty
    <2>3. CASE ~(pc[s] = "estimating" /\ setting.failover)
        <3>1. Settle(s, "failed") /\ UNCHANGED <<tx, sent>>
            BY <1>3, <2>3 DEF EstimateFails
        <3>2. got[s].balance # None => "balance" \in asked[s]
            BY DEF EmptyInv
        <3>. QED
            BY <2>1, <3>1, <3>2, FailureKeepsEmpty
    <2>. QED
        BY <2>2, <2>3
<1>. QED
    BY <1>2, <1>3

\* What a lone send empties the account with is not refused.
LEMMA BroadcastKeepsEmpty ==
    ASSUME SendInv, EmptyInv, NEW s \in Sends, Broadcast(s)
    PROVE  EmptyInv'
<1>1. /\ UNCHANGED <<setting, objectOf, tx, asked, got, rate, sent, overlapped, crowded>>
      /\ pc[s] = "sending" /\ Active(s) /\ pc'[s] = "done" /\ outcome'[s] = Answer(sent[s])
      /\ \A a \in Sends \ {s} : pc'[a] = pc[a] /\ outcome'[a] = outcome[a]
    BY DEF Broadcast, Settle, SendInv, TypeOK, Active
<1>2. ASSUME overlapped[s] = {}
      PROVE  Affordable(s)'
    <2>1. Affordable(s)
        BY <1>2 DEF EmptyInv
    <2>2. rate[s].whole /\ ~crowded[s] /\ setting.l1 = KnownL1 => Cost(sent[s]) <= free
        BY <1>1, <2>1 DEF Affordable
    <2>3. Answer(sent[s]) = "funds" => ~(rate[s].whole /\ ~crowded[s] /\ setting.l1 = KnownL1)
        <3>1. Answer(sent[s]) = "funds" => Cost(sent[s]) > free
            BY DEF Answer
        <3>2. Cost(sent[s]) \in Int /\ free \in Int
            <4>1. sent[s] \in TxType /\ sent[s].gasLimit # None /\ BaseOK
                BY <1>1 DEF SendInv, StepsFit
            <4>2. OrZero(sent[s].value) \in Int /\ setting.l1 \in Nat
                BY <4>1, KnownTyped DEF OrZero, TxType, Field
            <4>3. sent[s].gasLimit * GasFee(sent[s]) \in Nat
                BY <4>1, PriceCovers, ProductNat DEF TxType, Field
            <4>. QED
                BY <4>2, <4>3 DEF Cost, GasFee, SendInv, TypeOK
        <3>. QED
            BY <2>2, <3>1, <3>2
    <2>. QED
        BY <1>1, <2>3, KnownSame DEF Affordable, Active
<1>3. \A a \in Sends \ {s} :
          /\ UNCHANGED <<pc[a], asked[a], got[a], rate[a], sent[a], outcome[a], crowded[a]>>
          /\ overlapped[a] \subseteq overlapped'[a] /\ (Active(a) => overlapped'[a] # {})
    BY <1>1, ActiveIsSeen
<1>4. /\ got'[s].balance # None => pc'[s] # "idle" /\ "balance" \in asked'[s]
      /\ pc'[s] \in {"idle", "reading", "estimating"} => ~rate'[s].whole
      /\ crowded' \in [Sends -> BOOLEAN] /\ \A q \in Objects : FeeWithCost(tx'[q])
    BY <1>1 DEF EmptyInv
<1>. QED
    BY <1>1, <1>2, <1>3, <1>4, StepKeepsEmpty

\* Mining moves a cost from what waits to the balance, and leaves the same.
LEMMA MineKeepsEmpty ==
    ASSUME EmptyInv, Mine \/ UNCHANGED vars
    PROVE  EmptyInv'
<1>1. UNCHANGED <<setting, objectOf, tx, pc, asked, got, rate, sent, outcome, free, overlapped, crowded>>
    BY DEF Mine, vars, node
<1>2. ASSUME NEW s \in Sends
      PROVE  overlapped'[s] = {} => Affordable(s)'
    <2>1. overlapped[s] = {} => Affordable(s)
        BY DEF EmptyInv
    <2>2. SameFees(tx'[objectOf[s]], tx[objectOf[s]])
        BY <1>1 DEF SameFees
    <2>. QED
        BY <1>1, <2>1, <2>2, OthersKeepAffordable
<1>. QED
    BY <1>1, <1>2 DEF EmptyInv, FeeWithCost

\* Every step preserves the invariant.
LEMMA NextEmpty ==
    ASSUME SendInv, EmptyInv, [Next]_vars
    PROVE  EmptyInv'
<1>1. ASSUME NEW s \in Sends, WrongSigner(s) \/ ReadFails(s)
      PROVE  EmptyInv'
    <2>1. /\ Settle(s, "failed")
          /\ UNCHANGED <<setting, objectOf, tx, asked, got, rate, sent, node, overlapped, crowded>>
        BY <1>1 DEF WrongSigner, ReadFails
    <2>2. got[s].balance # None => "balance" \in asked[s]
        BY DEF EmptyInv
    <2>. QED
        BY <2>1, <2>2, FailureKeepsEmpty
<1>. QED
    BY <1>1, BeginKeepsEmpty, ReadNonceKeepsEmpty, ReadBalanceKeepsEmpty, FillKeepsEmpty,
       GasKeepsEmpty, BroadcastKeepsEmpty, MineKeepsEmpty DEF Next

\* In the beginning nothing has been read.
LEMMA InitEmpty ==
    ASSUME \A t \in Given : FeeWithCost(t), Init
    PROVE  EmptyInv
<1>1. /\ \A q \in Objects : FeeWithCost(tx[q])
      /\ crowded \in [Sends -> BOOLEAN]
    BY DEF Init
<1>2. \A s \in Sends : /\ pc[s] = "idle" /\ outcome[s] = "none" /\ ~rate[s].whole
                       /\ got[s].balance = None
    BY DEF Init
<1>. QED
    BY <1>1, <1>2 DEF EmptyInv, Affordable, Active

\* A transaction that empties the account is never refused for want of funds, unless
\* another send overlapped it, others of the account waited when the balance was read, or
\* the chain charges an L1 fee that the signer has no oracle for: for every fee, gas limit
\* and L1 fee, and whatever the object came with, except an l1Fee without a txCost.
THEOREM EmptyingIsAffordable ==
    ASSUME \A t \in Given : FeeWithCost(t)
    PROVE  Spec => []EmptyingIsCovered
<1>1. Init => EmptyInv
    BY InitEmpty
<1>2. SendInv /\ EmptyInv /\ [Next]_vars => EmptyInv'
    BY NextEmpty
<1>3. EmptyInv => EmptyingIsCovered
    BY DEF EmptyInv, Affordable, EmptyingIsCovered
<1>. QED
    BY <1>1, <1>2, <1>3, SendsAlways, PTL DEF Spec

=============================================================================
