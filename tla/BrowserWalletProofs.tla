------------------------- MODULE BrowserWalletProofs -------------------------
(***************************************************************************)
(* Proofs about a request, the provider that learns its network by it and  *)
(* the wallet in front of it, for any number of calls and of signers.      *)
(***************************************************************************)
EXTENDS BrowserWallet, TLAPS

(* With a timeout, a cancelled request that is still under way has been aborted, or ethers
   is about to call the listener that aborts it. *)
HttpSound == timeout /\ cancelled /\ InFlight => due \/ aborted

\* What is known of the network was held against the configuration, and once a call was
\* refused the network the provider is destroyed and its queue empty.
NetworkSound ==
    /\ calls \in [Calls -> {"none", "detecting", "queued", "sent", "told", "refused",
                         "answered", "rejected"}]
    /\ mode = "detect" /\ static = "known" => fits /\ network
    /\ \A c \in Calls : calls[c] = "refused" => destroyed
    /\ destroyed => \A c \in Calls : calls[c] # "queued"

\* As long as the user does not interfere, a getSigner that found the wallet on the
\* app's chain finds it there when it returns: other signers only switch it to there.
WalletSound ==
    /\ chain \in {"app", "other"}
    /\ seen \in [Signers -> [account : BOOLEAN, chain : {"none", "app", "other"}]]
    /\ pc \in [Signers -> {"none", "reading", "switching", "adding", "rejected", "returned"}]
    /\ returned \in [Signers -> {"none", "app", "other"}]
    /\ moved \in [Signers -> BOOLEAN]
    /\ \A g \in Signers : pc[g] # "returned" => returned[g] = "none"
    /\ \A g \in Signers : seen[g].chain = "app" /\ ~moved[g] /\ pc[g] # "returned" => chain = "app"

-----------------------------------------------------------------------------
(* The request *)

\* No step of a request, nor a cancellation, leaves a cancelled one without its listener.
LEMMA HttpStep ==
    ASSUME HttpSound, Server \/ Library \/ Cancel
    PROVE  HttpSound'
<1>. USE DEF HttpSound, InFlight
<1>1. CASE SendRequest
    BY <1>1 DEF SendRequest, End
<1>2. CASE Headers
    BY <1>2 DEF Headers
<1>3. CASE Body
    BY <1>3 DEF Body, End
<1>4. CASE ConnectionFails
    BY <1>4 DEF ConnectionFails, End
<1>5. CASE TimerFires
    BY <1>5 DEF TimerFires
<1>6. CASE AbortRejects
    BY <1>6 DEF AbortRejects, End
<1>7. CASE Cancel
    BY <1>7 DEF Cancel, Heard
<1>8. CASE Listener
    BY <1>8 DEF Listener
<1>. QED
    BY <1>1, <1>2, <1>3, <1>4, <1>5, <1>6, <1>7, <1>8 DEF Server, Library

\* All else leaves the request alone.
LEMMA HttpUntouched ==
    ASSUME HttpSound, UNCHANGED httpVars
    PROVE  HttpSound'
    BY DEF HttpSound, InFlight, httpVars

-----------------------------------------------------------------------------
(* The network *)

\* A step of the provider keeps what is known of the network.
LEMMA NetworkStep ==
    ASSUME NetworkSound, NetworkNext
    PROVE  NetworkSound'
<1>. USE DEF NetworkSound
<1>1. CASE RequestStep
    BY <1>1 DEF RequestStep, networkVars
<1>2. CASE GivenNetwork
    BY <1>2 DEF GivenNetwork
<1>3. CASE HardhatNetwork
    BY <1>3 DEF HardhatNetwork
<1>4. CASE Detected
    BY <1>4 DEF Detected, ChainAccepted
<1>5. CASE Bootstrap
    BY <1>5 DEF Bootstrap, Reject, Queued, DestroyedByError
<1>6. CASE Destroy
    BY <1>6 DEF Destroy, Reject, Queued
<1>7. ASSUME NEW c \in Calls, GetNetwork(c) PROVE NetworkSound'
    BY <1>7 DEF GetNetwork
<1>8. ASSUME NEW c \in Calls, Send(c) PROVE NetworkSound'
    BY <1>8 DEF Send, Reject
<1>9. ASSUME NEW c \in Calls, NetworkTold(c) PROVE NetworkSound'
    BY <1>9 DEF NetworkTold
<1>10. ASSUME NEW c \in Calls, NetworkRefused(c) PROVE NetworkSound'
    BY <1>10 DEF NetworkRefused, Queued, DestroyedByError
<1>11. ASSUME NEW c \in Calls, Dispatch(c) PROVE NetworkSound'
    BY <1>11 DEF Dispatch
<1>12. ASSUME NEW c \in Calls, Answered(c) PROVE NetworkSound'
    BY <1>12 DEF Answered
<1>. QED
    BY <1>1, <1>2, <1>3, <1>4, <1>5, <1>6, <1>7, <1>8, <1>9, <1>10, <1>11, <1>12
       DEF NetworkNext, Learn, Serve

\* The request moves by the provider's steps only.
LEMMA NetworkKeepsHttp ==
    ASSUME HttpSound, NetworkNext
    PROVE  HttpSound'
<1>1. CASE RequestStep
    BY <1>1, HttpStep DEF RequestStep
<1>2. CASE ~RequestStep
    <2>1. UNCHANGED httpVars
        BY <1>2 DEF NetworkNext, Learn, Serve, GivenNetwork, HardhatNetwork, Detected, Bootstrap,
                    Destroy, GetNetwork, Send, NetworkTold, NetworkRefused, Dispatch, Answered
    <2>. QED
        BY <2>1, HttpUntouched
<1>. QED
    BY <1>1, <1>2

-----------------------------------------------------------------------------
(* The wallet *)

\* A step of the wallet, its user or getSigner.
LEMMA WalletStep ==
    ASSUME WalletSound, WalletNext
    PROVE  WalletSound'
<1>. USE DEF WalletSound
<1>1. CASE Build
    BY <1>1 DEF Build
<1>2. CASE UserSwitches
    BY <1>2 DEF UserSwitches
<1>3. ASSUME NEW g \in Signers, GetSigner(g) PROVE WalletSound'
    BY <1>3 DEF GetSigner, Goto
<1>4. ASSUME NEW g \in Signers, ReadAccount(g) PROVE WalletSound'
    BY <1>4 DEF ReadAccount
<1>5. ASSUME NEW g \in Signers, ReadChain(g) PROVE WalletSound'
    BY <1>5 DEF ReadChain
<1>6. ASSUME NEW g \in Signers, Compare(g) PROVE WalletSound'
    <2>1. CASE NeedsSwitch(g)
        BY <1>6, <2>1 DEF Compare, Goto
    <2>2. CASE ~NeedsSwitch(g)
        BY <1>6, <2>2 DEF Compare, Return, Goto
    <2>. QED
        BY <2>1, <2>2
<1>7. ASSUME NEW g \in Signers, Switched(g) PROVE WalletSound'
    BY <1>7 DEF Switched, Return, Goto
<1>8. ASSUME NEW g \in Signers, UnknownChain(g) PROVE WalletSound'
    BY <1>8 DEF UnknownChain, Goto
<1>9. ASSUME NEW g \in Signers, Added(g) PROVE WalletSound'
    BY <1>9 DEF Added, Return, Goto
<1>10. ASSUME NEW g \in Signers, Declined(g) PROVE WalletSound'
    BY <1>10 DEF Declined, Goto
<1>. QED
    BY <1>1, <1>2, <1>3, <1>4, <1>5, <1>6, <1>7, <1>8, <1>9, <1>10 DEF WalletNext

\* Steps of the wallet leave the provider alone.
LEMMA WalletKeepsProvider ==
    ASSUME WalletNext
    PROVE  UNCHANGED providerVars
    BY DEF WalletNext, Build, UserSwitches, GetSigner, ReadAccount, ReadChain, Compare, Switched,
           UnknownChain, Added, Declined

-----------------------------------------------------------------------------
(* The system *)

BrowserSound == HttpSound /\ NetworkSound /\ WalletSound

\* Initially nothing is under way.
LEMMA InitBrowser == Init => BrowserSound
<1> SUFFICES ASSUME Init PROVE BrowserSound
    OBVIOUS
<1>. USE DEF Init, NetworkInit
<1>1. HttpSound
    BY DEF HttpInit, HttpSound, InFlight
<1>2. NetworkSound
    BY DEF NetworkSound
<1>3. WalletSound
    BY DEF WalletSound
<1>. QED
    BY <1>1, <1>2, <1>3 DEF BrowserSound

\* Each part is kept by its own steps and untouched by those of the others.
LEMMA NextBrowser == BrowserSound /\ [Next]_vars => BrowserSound'
<1> SUFFICES ASSUME BrowserSound, [Next]_vars PROVE BrowserSound'
    OBVIOUS
<1>. USE DEF BrowserSound
<1>1. CASE NetworkNext /\ UNCHANGED walletVars
    <2>1. WalletSound'
        BY <1>1 DEF walletVars, WalletSound
    <2>. QED
        BY <1>1, <2>1, NetworkKeepsHttp, NetworkStep
<1>2. CASE WalletNext
    <2>1. UNCHANGED <<httpVars, networkVars>>
        BY <1>2, WalletKeepsProvider DEF providerVars
    <2>2. NetworkSound'
        BY <2>1 DEF networkVars, NetworkSound
    <2>. QED
        BY <1>2, <2>1, <2>2, HttpUntouched, WalletStep
<1>3. CASE UNCHANGED vars
    <2>1. NetworkSound' /\ WalletSound'
        BY <1>3 DEF vars, providerVars, walletVars, networkVars, NetworkSound, WalletSound
    <2>. QED
        BY <1>3, <2>1, HttpUntouched DEF vars, providerVars
<1>. QED
    BY <1>1, <1>2, <1>3 DEF Next

\* The invariant holds in every behaviour.
LEMMA BrowserAlways == Spec => []BrowserSound
    BY InitBrowser, NextBrowser, PTL DEF Spec

\* With a timeout (getUrl.ts) a cancelled request is answered at most before ethers calls
\* the listener: one cancelled before it was sent, or whose listener was called, never is.
THEOREM CancelledAreAborted == Spec => CancelledIsAborted
<1>1. HttpSound /\ [Next]_vars =>
          [timeout /\ cancelled /\ reply' = "answer" => reply = "answer" \/ due]_httpVars
    <2> SUFFICES ASSUME HttpSound, [Next]_vars, timeout, cancelled, reply' = "answer",
                        reply # "answer"
                 PROVE  due
        OBVIOUS
    <2>1. Body
        BY DEF Next, vars, providerVars, httpVars, WalletNext, Build, UserSwitches, GetSigner,
               ReadAccount, ReadChain, Compare, Switched, UnknownChain, Added, Declined,
               NetworkNext, Learn, Serve, GivenNetwork, HardhatNetwork, Detected, Bootstrap,
               Destroy, GetNetwork, Send, NetworkTold, NetworkRefused, Dispatch, Answered,
               RequestStep, Server, Library, SendRequest, Headers, ConnectionFails, TimerFires,
               Listener, AbortRejects, Cancel, End
    <2>. QED
        BY <2>1 DEF Body, HttpSound, InFlight
<1>2. BrowserSound => HttpSound
    BY DEF BrowserSound
<1>. QED
    BY <1>1, <1>2, BrowserAlways, PTL DEF Spec, CancelledIsAborted

\* A provider that detects its network (provider.ts), however many calls there are, tells
\* them of the chain it was configured for only; and once it has refused one the network,
\* none is sent to that chain or answered from it any more.
THEOREM WrongChainsAreLeft == Spec => WrongChainIsLeft
<1> DEFINE Leaves(c) ==
        calls'[c] # calls[c] =>
            /\ calls'[c] = "told" => fits /\ network
            /\ (\E d \in Calls : calls[d] = "refused") => calls'[c] \notin {"sent", "answered"}
<1>1. ASSUME NetworkSound, NetworkNext, mode = "detect", NEW c \in Calls PROVE Leaves(c)
    <2>. USE <1>1 DEF NetworkSound
    <2>1. CASE RequestStep
        BY <2>1 DEF RequestStep, networkVars
    <2>2. CASE Learn \/ Destroy
        BY <2>2 DEF Learn, GivenNetwork, HardhatNetwork, Detected, Bootstrap, Destroy, Reject
    <2>3. ASSUME NEW b \in Calls, GetNetwork(b) \/ Send(b) PROVE Leaves(c)
        BY <2>3 DEF GetNetwork, Send, Reject
    <2>4. ASSUME NEW b \in Calls, NetworkTold(b) \/ NetworkRefused(b) PROVE Leaves(c)
        BY <2>4 DEF NetworkTold, NetworkRefused
    <2>5. ASSUME NEW b \in Calls, Dispatch(b) \/ Answered(b) PROVE Leaves(c)
        BY <2>5 DEF Dispatch, Answered
    <2>. QED
        BY <2>1, <2>2, <2>3, <2>4, <2>5 DEF NetworkNext, Serve
<1>2. BrowserSound /\ [Next]_vars => [mode = "detect" => \A c \in Calls : Leaves(c)]_calls
    <2>1. ASSUME WalletNext PROVE UNCHANGED calls
        BY <2>1, WalletKeepsProvider DEF providerVars, networkVars
    <2>2. ASSUME UNCHANGED vars PROVE UNCHANGED calls
        BY <2>2 DEF vars, providerVars, networkVars
    <2>. QED
        BY <1>1, <2>1, <2>2 DEF Next, BrowserSound
<1>. QED
    BY <1>2, BrowserAlways, PTL DEF Spec, WrongChainIsLeft

\* A getSigner (browserProvider.ts) that found the wallet on the app's chain, or switched it
\* there, returns with the wallet on it, whatever other getSigner calls do meanwhile.  One
\* that had the chain added is not meant (the wallet may stay where it is), nor one during
\* which the user switched the chain: the code checks neither again.
THEOREM SignersAreOnAppChain == Spec => SignerOnAppChain
<1> DEFINE Returns(g) == hasApp /\ pc'[g] = "returned" /\ pc[g] \notin {"returned", "adding"}
                         /\ ~moved[g] => returned'[g] = "app"
<1>1. ASSUME WalletSound, [Next]_vars, NEW g \in Signers PROVE Returns(g)
    <2>1. CASE ~WalletNext
        BY <1>1, <2>1 DEF Next, vars, walletVars
    <2>2. CASE Build \/ UserSwitches
        BY <1>1, <2>2 DEF Build, UserSwitches
    <2>3. ASSUME NEW h \in Signers, GetSigner(h) \/ ReadAccount(h) \/ ReadChain(h)
                                    \/ UnknownChain(h) \/ Declined(h)
          PROVE  Returns(g)
        BY <1>1, <2>3 DEF WalletSound, GetSigner, ReadAccount, ReadChain, UnknownChain, Declined, Goto
    <2>4. ASSUME NEW h \in Signers, Compare(h) PROVE Returns(g)
        BY <1>1, <2>4 DEF WalletSound, Compare, NeedsSwitch, Return, Goto
    <2>5. ASSUME NEW h \in Signers, Switched(h) \/ Added(h) PROVE Returns(g)
        BY <1>1, <2>5 DEF WalletSound, Switched, Added, Return, Goto
    <2>. QED
        BY <2>1, <2>2, <2>3, <2>4, <2>5 DEF WalletNext
<1>2. BrowserSound /\ [Next]_vars => [\A g \in Signers : Returns(g)]_vars
    BY <1>1 DEF BrowserSound
<1>. QED
    BY <1>2, BrowserAlways, PTL DEF Spec, SignerOnAppChain

-----------------------------------------------------------------------------
(* Every call comes to an end *)

\* A request under way with a timeout is aborted or has its timer.
Ongoing ==
    /\ mode \in {"network", "hardhat", "detect"}
    /\ stage \in {"unsent", "headers", "body", "done"}
    /\ armed \in BOOLEAN /\ aborted \in BOOLEAN /\ cancelled \in BOOLEAN
    /\ timeout \in BOOLEAN /\ due \in BOOLEAN /\ (due => cancelled)
    /\ timeout /\ InFlight => armed \/ aborted
    /\ armed => InFlight
    /\ static \in {"pending", "known", "failed"}
    /\ destroyed \in BOOLEAN
    /\ loop \in {"off", "detecting", "over"}

LEMMA InitOngoing == Init => Ongoing
BY NetworkAssumption DEF Init, NetworkInit, HttpInit, Ongoing, InFlight

LEMMA HttpOngoing ==
    ASSUME Ongoing, RequestStep
    PROVE  Ongoing'
<1>. USE DEF Ongoing, InFlight, RequestStep, networkVars
<1>1. CASE SendRequest
    BY <1>1 DEF SendRequest, End
<1>2. CASE Headers
    BY <1>2 DEF Headers, ArmedForBody
<1>3. CASE Body
    BY <1>3 DEF Body, End
<1>4. CASE ConnectionFails
    BY <1>4 DEF ConnectionFails, End
<1>5. CASE TimerFires
    BY <1>5 DEF TimerFires
<1>6. CASE AbortRejects
    BY <1>6 DEF AbortRejects, End
<1>7. CASE Cancel
    BY <1>7 DEF Cancel, Heard
<1>8. CASE Listener
    BY <1>8 DEF Listener
<1>. QED
    BY <1>1, <1>2, <1>3, <1>4, <1>5, <1>6, <1>7, <1>8 DEF Server, Library

LEMMA NetworkOngoing ==
    ASSUME NetworkSound, Ongoing, NetworkNext
    PROVE  Ongoing'
<1>. USE DEF Ongoing, NetworkSound, httpVars, InFlight
<1>1. CASE RequestStep
    BY <1>1, HttpOngoing
<1>2. CASE GivenNetwork \/ HardhatNetwork
    BY <1>2 DEF GivenNetwork, HardhatNetwork
<1>3. CASE Detected
    BY <1>3 DEF Detected
<1>4. CASE Bootstrap
    BY <1>4 DEF Bootstrap, Reject, Queued, DestroyedByError
<1>5. CASE Destroy
    BY <1>5 DEF Destroy, Reject, Queued
<1>6. ASSUME NEW c \in Calls, GetNetwork(c) PROVE Ongoing'
    BY <1>6 DEF GetNetwork
<1>7. ASSUME NEW c \in Calls, Send(c) PROVE Ongoing'
    BY <1>7 DEF Send, Reject
<1>8. ASSUME NEW c \in Calls, NetworkTold(c) PROVE Ongoing'
    BY <1>8 DEF NetworkTold
<1>9. ASSUME NEW c \in Calls, NetworkRefused(c) PROVE Ongoing'
    BY <1>9 DEF NetworkRefused, Reject, Queued, DestroyedByError
<1>10. ASSUME NEW c \in Calls, Dispatch(c) PROVE Ongoing'
    BY <1>10 DEF Dispatch
<1>11. ASSUME NEW c \in Calls, Answered(c) PROVE Ongoing'
    BY <1>11 DEF Answered
<1>. QED
    BY <1>1, <1>2, <1>3, <1>4, <1>5, <1>6, <1>7, <1>8, <1>9, <1>10, <1>11
       DEF NetworkNext, Learn, Serve

LEMMA OngoingAlways == Spec => []Ongoing
<1>1. BrowserSound /\ Ongoing /\ [Next]_vars => Ongoing'
    <2>1. ASSUME BrowserSound, Ongoing, NetworkNext PROVE Ongoing'
        BY <2>1, NetworkOngoing DEF BrowserSound
    <2>2. ASSUME Ongoing, UNCHANGED providerVars PROVE Ongoing'
        BY <2>2 DEF Ongoing, InFlight, providerVars, httpVars, networkVars
    <2>. QED
        BY <2>1, <2>2, WalletKeepsProvider DEF Next, vars
<1>. QED
    BY <1>1, InitOngoing, BrowserAlways, PTL DEF Spec

\* A call under way never waits for nothing: with a timeout, or without a detection, the
\* program itself can always go on.
THEOREM NoCallIsStuck == Spec => []CallsNeverStuck
<1>1. BrowserSound /\ Ongoing => CallsNeverStuck
    <2> SUFFICES ASSUME BrowserSound, Ongoing, timeout \/ mode # "detect",
                        NEW c \in Calls, Under(c)
                 PROVE  \/ \E d \in Calls :
                               \/ calls[d] = "detecting" /\ static # "pending"
                               \/ calls[d] = "queued" /\ ~destroyed
                               \/ calls[d] = "sent"
                        \/ loop = "detecting" /\ static # "pending"
                        \/ static = "pending" /\ (mode # "detect" \/ stage = "done")
                        \/ mode = "detect" /\ (stage = "unsent" \/ armed \/ (InFlight /\ aborted))
        BY DEF CallsNeverStuck
    <2>1. CASE calls[c] = "sent"
        BY <2>1
    <2>2. CASE static = "pending"
        BY <2>2 DEF Ongoing, InFlight
    <2>3. CASE static # "pending" /\ calls[c] \in {"detecting", "queued"}
        BY <2>3 DEF BrowserSound, NetworkSound
    <2>. QED
        BY <2>1, <2>2, <2>3 DEF Under
<1>. QED
    BY <1>1, BrowserAlways, OngoingAlways, PTL

\* The five parts of what is left.
LeftOfRequest == {w \in {"send", "headers", "body", "timer", "cancel", "listener"} :
                     \/ w = "send" /\ stage = "unsent"
                     \/ w = "headers" /\ stage \in {"unsent", "headers"}
                     \/ w = "body" /\ stage # "done"
                     \/ w = "timer" /\ (stage = "unsent" \/ armed)
                     \/ w = "cancel" /\ ~cancelled
                     \/ w = "listener" /\ (~cancelled \/ due)}
LeftOfProvider == {w \in {"learn", "start", "loop", "destroy"} :
                      \/ w = "learn" /\ static = "pending"
                      \/ w = "start" /\ loop = "off"
                      \/ w = "loop" /\ loop \in {"off", "detecting"}
                      \/ w = "destroy" /\ ~destroyed}
LeftToMake == {c \in Calls : calls[c] = "none"}
LeftToSend == {c \in Calls : calls[c] \in {"none", "queued"}}
LeftToSettle == {c \in Calls : calls[c] = "none" \/ Under(c)}

Together(request, provider, make, send, settle) ==
    {<<"request", w>> : w \in request} \cup {<<"provider", w>> : w \in provider}
    \cup {<<"make", c>> : c \in make} \cup {<<"send", c>> : c \in send}
    \cup {<<"settle", c>> : c \in settle}

LEMMA LeftParts ==
    /\ Left = Together(LeftOfRequest, LeftOfProvider, LeftToMake, LeftToSend, LeftToSettle)
    /\ Left' = Together(LeftOfRequest', LeftOfProvider', LeftToMake', LeftToSend', LeftToSettle')
BY DEF Left, Together, LeftOfRequest, LeftOfProvider, LeftToMake, LeftToSend, LeftToSettle

\* Parts that do not grow, one of which shrinks, leave less.
LEMMA TogetherLess ==
    ASSUME NEW r, NEW p, NEW m, NEW s, NEW t, NEW r2, NEW p2, NEW m2, NEW s2, NEW t2,
           r2 \subseteq r, p2 \subseteq p, m2 \subseteq m, s2 \subseteq s, t2 \subseteq t,
           r2 # r \/ p2 # p \/ m2 # m \/ s2 # s \/ t2 # t
    PROVE  /\ Together(r2, p2, m2, s2, t2) \subseteq Together(r, p, m, s, t)
           /\ Together(r2, p2, m2, s2, t2) # Together(r, p, m, s, t)
<1>1. Together(r2, p2, m2, s2, t2) \subseteq Together(r, p, m, s, t)
    BY DEF Together
<1>2. PICK old : old = Together(r, p, m, s, t)
    OBVIOUS
<1>3. PICK new : new = Together(r2, p2, m2, s2, t2)
    OBVIOUS
<1>4. ASSUME r2 # r PROVE new # old
    <2>1. PICK x \in r : x \notin r2
        BY <1>4
    <2>2. <<"request", x>> \in old
        BY <1>2, <2>1 DEF Together
    <2>3. <<"request", x>> \notin new
        BY <1>3, <2>1 DEF Together
    <2>. QED
        BY <2>2, <2>3
<1>5. ASSUME p2 # p PROVE new # old
    <2>1. PICK x \in p : x \notin p2
        BY <1>5
    <2>2. <<"provider", x>> \in old
        BY <1>2, <2>1 DEF Together
    <2>3. <<"provider", x>> \notin new
        BY <1>3, <2>1 DEF Together
    <2>. QED
        BY <2>2, <2>3
<1>6. ASSUME m2 # m PROVE new # old
    <2>1. PICK x \in m : x \notin m2
        BY <1>6
    <2>2. <<"make", x>> \in old
        BY <1>2, <2>1 DEF Together
    <2>3. <<"make", x>> \notin new
        BY <1>3, <2>1 DEF Together
    <2>. QED
        BY <2>2, <2>3
<1>7. ASSUME s2 # s PROVE new # old
    <2>1. PICK x \in s : x \notin s2
        BY <1>7
    <2>2. <<"send", x>> \in old
        BY <1>2, <2>1 DEF Together
    <2>3. <<"send", x>> \notin new
        BY <1>3, <2>1 DEF Together
    <2>. QED
        BY <2>2, <2>3
<1>8. ASSUME t2 # t PROVE new # old
    <2>1. PICK x \in t : x \notin t2
        BY <1>8
    <2>2. <<"settle", x>> \in old
        BY <1>2, <2>1 DEF Together
    <2>3. <<"settle", x>> \notin new
        BY <1>3, <2>1 DEF Together
    <2>. QED
        BY <2>2, <2>3
<1>. QED
    BY <1>1, <1>2, <1>3, <1>4, <1>5, <1>6, <1>7, <1>8

\* A step of the request, or its cancellation.
LEMMA LessByRequest ==
    ASSUME Ongoing, RequestStep
    PROVE  Left' \subseteq Left /\ Left' # Left
<1>. USE DEF Ongoing, RequestStep, networkVars
<1>1. /\ LeftOfProvider' = LeftOfProvider /\ LeftToMake' = LeftToMake
      /\ LeftToSend' = LeftToSend /\ LeftToSettle' = LeftToSettle
    BY DEF LeftOfProvider, LeftToMake, LeftToSend, LeftToSettle, Under
<1>2. LeftOfRequest' \subseteq LeftOfRequest /\ LeftOfRequest' # LeftOfRequest
    <2>1. CASE SendRequest
        <3>1. "send" \in LeftOfRequest /\ "send" \notin LeftOfRequest'
            BY <2>1 DEF SendRequest, End, LeftOfRequest
        <3>2. LeftOfRequest' \subseteq LeftOfRequest
            BY <2>1 DEF SendRequest, End, LeftOfRequest
        <3>. QED
            BY <3>1, <3>2
    <2>2. CASE Headers
        <3>1. "headers" \in LeftOfRequest /\ "headers" \notin LeftOfRequest'
            BY <2>2 DEF Headers, LeftOfRequest
        <3>2. LeftOfRequest' \subseteq LeftOfRequest
            BY <2>2 DEF Headers, ArmedForBody, LeftOfRequest
        <3>. QED
            BY <3>1, <3>2
    <2>3. CASE Body \/ ConnectionFails \/ AbortRejects
        <3>1. "body" \in LeftOfRequest /\ "body" \notin LeftOfRequest'
            BY <2>3 DEF Body, ConnectionFails, AbortRejects, InFlight, End, LeftOfRequest
        <3>2. LeftOfRequest' \subseteq LeftOfRequest
            BY <2>3 DEF Body, ConnectionFails, AbortRejects, InFlight, End, LeftOfRequest
        <3>. QED
            BY <3>1, <3>2
    <2>4. CASE TimerFires
        <3>1. "timer" \in LeftOfRequest /\ "timer" \notin LeftOfRequest'
            BY <2>4 DEF TimerFires, InFlight, LeftOfRequest
        <3>2. LeftOfRequest' \subseteq LeftOfRequest
            BY <2>4 DEF TimerFires, LeftOfRequest
        <3>. QED
            BY <3>1, <3>2
    <2>5. CASE Cancel
        <3>1. "cancel" \in LeftOfRequest /\ "cancel" \notin LeftOfRequest'
            BY <2>5 DEF Cancel, LeftOfRequest
        <3>2. LeftOfRequest' \subseteq LeftOfRequest
            BY <2>5 DEF Cancel, LeftOfRequest
        <3>. QED
            BY <3>1, <3>2
    <2>6. CASE Listener
        <3>1. "listener" \in LeftOfRequest /\ "listener" \notin LeftOfRequest'
            BY <2>6 DEF Listener, LeftOfRequest
        <3>2. LeftOfRequest' \subseteq LeftOfRequest
            BY <2>6 DEF Listener, LeftOfRequest
        <3>. QED
            BY <3>1, <3>2
    <2>. QED
        BY <2>1, <2>2, <2>3, <2>4, <2>5, <2>6 DEF Server, Library
<1>. QED
    BY <1>1, <1>2, LeftParts, TogetherLess

\* A step of the provider that leaves the request alone.
LEMMA LessByProvider ==
    ASSUME Ongoing, NetworkSound, Learn \/ Destroy
    PROVE  Left' \subseteq Left /\ Left' # Left
<1>. USE DEF Ongoing
<1>1. LeftOfRequest' = LeftOfRequest
    BY DEF Learn, GivenNetwork, HardhatNetwork, Detected, Bootstrap, Destroy, LeftOfRequest, httpVars
<1>2. LeftOfProvider' \subseteq LeftOfProvider
    BY DEF Learn, GivenNetwork, HardhatNetwork, Detected, Bootstrap, Destroy, LeftOfProvider,
           DestroyedByError
<1>3. LeftOfProvider' # LeftOfProvider
    <2>1. CASE GivenNetwork \/ HardhatNetwork \/ Detected
        <3>1. "learn" \in LeftOfProvider /\ "learn" \notin LeftOfProvider'
            BY <2>1 DEF GivenNetwork, HardhatNetwork, Detected, LeftOfProvider
        <3>. QED
            BY <3>1
    <2>2. CASE Bootstrap
        <3>1. "loop" \in LeftOfProvider /\ "loop" \notin LeftOfProvider'
            BY <2>2 DEF Bootstrap, LeftOfProvider, DestroyedByError
        <3>. QED
            BY <3>1
    <2>3. CASE Destroy
        <3>1. "destroy" \in LeftOfProvider /\ "destroy" \notin LeftOfProvider'
            BY <2>3 DEF Destroy, LeftOfProvider
        <3>. QED
            BY <3>1
    <2>. QED
        BY <2>1, <2>2, <2>3 DEF Learn
<1>4. \A c \in Calls : calls'[c] = calls[c] \/ calls'[c] = "rejected"
    BY DEF Learn, GivenNetwork, HardhatNetwork, Detected, Bootstrap, Destroy, Reject
<1>5. /\ LeftToMake' \subseteq LeftToMake /\ LeftToSend' \subseteq LeftToSend
      /\ LeftToSettle' \subseteq LeftToSettle
    BY <1>4 DEF LeftToMake, LeftToSend, LeftToSettle, Under
<1>. QED
    BY <1>1, <1>2, <1>3, <1>5, LeftParts, TogetherLess

\* A step of a call.
LEMMA LessByCall ==
    ASSUME Ongoing, NetworkSound, NEW c \in Calls, GetNetwork(c) \/ Send(c) \/ Serve(c)
    PROVE  Left' \subseteq Left /\ Left' # Left
<1>. USE DEF Ongoing, NetworkSound
<1>1. LeftOfRequest' = LeftOfRequest
    BY DEF GetNetwork, Send, Serve, NetworkTold, NetworkRefused, Dispatch, Answered,
           LeftOfRequest, httpVars
<1>2. LeftOfProvider' \subseteq LeftOfProvider
    BY DEF GetNetwork, Send, Serve, NetworkTold, NetworkRefused, Dispatch, Answered,
           LeftOfProvider, DestroyedByError
<1>3. /\ calls[c] \notin Settled
      /\ \A d \in Calls : d # c => calls'[d] = calls[d] \/ calls'[d] = "rejected"
      /\ \/ calls[c] = "none" /\ calls'[c] # "none"
         \/ calls[c] = "queued" /\ calls'[c] = "sent"
         \/ calls[c] \in {"detecting", "sent"} /\ calls'[c] \in Settled
    BY DEF Settled, GetNetwork, Send, Serve, NetworkTold, NetworkRefused, Dispatch, Answered, Reject
<1>4. /\ LeftToMake' \subseteq LeftToMake /\ LeftToSend' \subseteq LeftToSend
      /\ LeftToSettle' \subseteq LeftToSettle
    BY <1>3 DEF LeftToMake, LeftToSend, LeftToSettle, Under, Settled
<1>5. LeftToMake' # LeftToMake \/ LeftToSend' # LeftToSend \/ LeftToSettle' # LeftToSettle
    <2>1. CASE calls[c] = "none"
        <3>1. c \in LeftToMake /\ c \notin LeftToMake'
            BY <1>3, <2>1 DEF LeftToMake
        <3>. QED
            BY <3>1
    <2>2. CASE calls[c] = "queued"
        <3>1. c \in LeftToSend /\ c \notin LeftToSend'
            BY <1>3, <2>2 DEF LeftToSend
        <3>. QED
            BY <3>1
    <2>3. CASE calls[c] \in {"detecting", "sent"}
        <3>1. c \in LeftToSettle /\ c \notin LeftToSettle'
            BY <1>3, <2>3 DEF LeftToSettle, Under, Settled
        <3>. QED
            BY <3>1
    <2>. QED
        BY <1>3, <2>1, <2>2, <2>3
<1>. QED
    BY <1>1, <1>2, <1>4, <1>5, LeftParts, TogetherLess

\* Each step of the provider, its request and its calls uses up something of what is left
\* to do, and none brings anything back: detection, retries and queue come to an end.
THEOREM CallsComeToAnEnd == Spec => CallsRunOut
<1>1. BrowserSound /\ Ongoing /\ [Next]_vars => [Left' \subseteq Left /\ Left' # Left]_providerVars
    <2> SUFFICES ASSUME BrowserSound, Ongoing, Next, ~UNCHANGED providerVars
                 PROVE  Left' \subseteq Left /\ Left' # Left
        BY DEF vars
    <2>1. NetworkNext /\ NetworkSound
        BY WalletKeepsProvider DEF Next, BrowserSound
    <2>. QED
        BY <2>1, LessByRequest, LessByProvider, LessByCall DEF NetworkNext
<1>. QED
    BY <1>1, BrowserAlways, OngoingAlways, PTL DEF Spec, CallsRunOut

=============================================================================
