---------------------------- MODULE BrowserWallet ----------------------------
(***************************************************************************)
(* BrowserProvider (browserProvider.ts) joins a wallet to an appProvider,  *)
(* here a Provider (ProviderNetwork): getSigner reads the wallet's account *)
(* and chain, and has the wallet switched to the chain of the app.  The    *)
(* wallet and its user are external.                                       *)
(***************************************************************************)
EXTENDS ProviderNetwork

CONSTANT Signers    \* calls of getSigner

VARIABLES
    hasApp,     \* an appProvider is given
    built,      \* the BrowserProvider exists
    chain,      \* the wallet's chain: "app" or "other"
    knows,      \* the wallet knows the app's chain
    pc,         \* how far each getSigner is
    seen,       \* the account and the chain it has read
    listening,  \* times each callback is registered with the wallet
    moved,      \* history: the user switched since getSigner read the chain
    returned    \* history: the wallet's chain when getSigner returned

walletVars == <<hasApp, built, chain, knows, pc, seen, listening, moved, returned>>
vars == <<providerVars, walletVars>>

Init ==
    /\ NetworkInit
    /\ hasApp \in BOOLEAN /\ built = FALSE
    /\ chain \in {"app", "other"} /\ knows \in BOOLEAN
    /\ chain = "app" => knows
    /\ pc = [g \in Signers |-> "none"]
    /\ seen = [g \in Signers |-> [account |-> FALSE, chain |-> "none"]]
    /\ listening = 0
    /\ moved = [g \in Signers |-> FALSE]
    /\ returned = [g \in Signers |-> "none"]

\* The constructor, also from discoverProviders: appProvider?._network throws while the
\* app's provider has not detected its network.
Build ==
    /\ ~built
    /\ hasApp => network
    /\ built' = TRUE
    /\ UNCHANGED <<providerVars, hasApp, chain, knows, pc, seen, listening, moved, returned>>

Goto(g, step) == pc' = [pc EXCEPT ![g] = step]

GetSigner(g) ==
    /\ built /\ pc[g] = "none"
    /\ Goto(g, "reading")
    /\ UNCHANGED <<providerVars, hasApp, built, chain, knows, seen, listening, moved, returned>>

\* super.getSigner(address), which may wait for the user.
ReadAccount(g) ==
    /\ pc[g] = "reading" /\ ~seen[g].account
    /\ seen' = [seen EXCEPT ![g].account = TRUE]
    /\ UNCHANGED <<providerVars, hasApp, built, chain, knows, pc, listening, moved, returned>>

ReadChain(g) ==
    /\ pc[g] = "reading" /\ seen[g].chain = "none"
    /\ seen' = [seen EXCEPT ![g].chain = chain]
    /\ UNCHANGED <<providerVars, hasApp, built, chain, knows, pc, listening, moved, returned>>

\* Mutant: whatever the chain is, it is left.
NeedsNoSwitch(g) == FALSE

NeedsSwitch(g) == hasApp /\ seen[g].chain # "app"

\* Register the callbacks and return the signer.
Return(g, current) ==
    /\ Goto(g, "returned")
    /\ listening' = listening + 1
    /\ returned' = [returned EXCEPT ![g] = current]

Compare(g) ==
    /\ pc[g] = "reading" /\ seen[g].account /\ seen[g].chain # "none"
    /\ IF NeedsSwitch(g) THEN Goto(g, "switching") /\ UNCHANGED <<listening, returned>>
       ELSE Return(g, chain)
    /\ UNCHANGED <<providerVars, hasApp, built, chain, knows, seen, moved>>

\* wallet_switchEthereumChain
Switched(g) ==
    /\ pc[g] = "switching" /\ knows
    /\ chain' = "app"
    /\ Return(g, "app")
    /\ UNCHANGED <<providerVars, hasApp, built, knows, seen, moved>>

\* Error 4902, or any error of a wallet that localises them: the chain is to be added.
UnknownChain(g) ==
    /\ pc[g] = "switching"
    /\ Goto(g, "adding")
    /\ UNCHANGED <<providerVars, hasApp, built, chain, knows, seen, listening, moved, returned>>

\* wallet_addEthereumChain: a wallet may add the chain and stay where it is.
Added(g) ==
    /\ pc[g] = "adding"
    /\ knows' = TRUE
    /\ chain' \in {chain, "app"}
    /\ Return(g, chain')
    /\ UNCHANGED <<providerVars, hasApp, built, seen, moved>>

\* The user declines the connection, the switch or the addition.
Declined(g) ==
    /\ pc[g] \in {"reading", "switching", "adding"}
    /\ Goto(g, "rejected")
    /\ UNCHANGED <<providerVars, hasApp, built, chain, knows, seen, listening, moved, returned>>

\* Looked at only while it may matter to a getSigner; the chain at the start is any.
UserSwitches ==
    /\ built /\ \E g \in Signers : pc[g] \notin {"returned", "rejected"}
    /\ chain' \in {"other"} \cup (IF knows THEN {"app"} ELSE {})
    /\ chain' # chain
    /\ moved' = [g \in Signers |-> moved[g] \/ (seen[g].chain # "none" /\ returned[g] = "none")]
    /\ UNCHANGED <<providerVars, hasApp, built, knows, pc, seen, listening, returned>>

WalletNext ==
    \/ Build \/ UserSwitches
    \/ \E g \in Signers : \/ GetSigner(g) \/ ReadAccount(g) \/ ReadChain(g) \/ Compare(g)
                          \/ Switched(g) \/ UnknownChain(g) \/ Added(g) \/ Declined(g)

Next == (NetworkNext /\ UNCHANGED walletVars) \/ WalletNext

Spec == Init /\ [][Next]_vars
FairSpec == Spec /\ NetworkFairness

-----------------------------------------------------------------------------
(* Properties *)

\* With an appProvider, getSigner returns a signer whose wallet is on the app's chain,
\* unless the user switched after the chain was read, or the wallet did not follow the
\* addition of the chain.
SignerOnAppChain ==
    [][\A g \in Signers :
        hasApp /\ pc'[g] = "returned" /\ pc[g] \notin {"returned", "adding"} /\ ~moved[g]
            => returned'[g] = "app"]_vars
=============================================================================
