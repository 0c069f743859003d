------------------------------ MODULE ItemStore ------------------------------
(***************************************************************************)
(* What the methods of IndexedDB (idb.ts) promise that write: each of them *)
(* acts on the store at one moment after its call, or not at all.  A       *)
(* method that has returned may still be about to act, and may fail to     *)
(* unheard; only createTransactions returns once it has acted.  On a store *)
(* with a keyPath addItem adds an item exactly if none is there under its  *)
(* key at that moment, and is not refused; on one without, nothing is      *)
(* promised of it.  The module knows nothing of promises, connections,     *)
(* requests, versions or transactions.                                     *)
(***************************************************************************)

CONSTANTS
    Calls,      \* calls of the methods, each made once
    Ops,        \* the methods
    Keys

VARIABLES
    keyed,      \* the store has a keyPath
    saved,      \* what is stored: the key, or none for one the browser made up, the writer,
                \* and whether JavaScript takes the value for true
    asked,      \* what each call that is under way is to do
    outcome     \* how it ended

svars == <<keyed, saved, asked, outcome>>

Nothing == [op |-> "none", key |-> "none"]

Init ==
    /\ keyed \in BOOLEAN /\ saved = {}
    /\ asked = [c \in Calls |-> Nothing]
    /\ outcome = [c \in Calls |-> "none"]

Ask(c, op, key) ==
    /\ asked[c] = Nothing /\ outcome[c] = "none"
    /\ asked' = [asked EXCEPT ![c] = [op |-> op, key |-> key]]
    /\ UNCHANGED <<keyed, saved, outcome>>

Stored(key) == \E i \in saved : i.key = key
Others(key) == {i \in saved : i.key # key}
Item(c, key) == [key |-> IF keyed THEN key ELSE "none", by |-> c, truthy |-> TRUE]

\* createTransactions for a key that is there, and putItem, whose explicit key a store with
\* a keyPath does not take.
Refused(c) ==
    keyed /\ (asked[c].op = "put" \/ (asked[c].op = "create" /\ Stored(asked[c].key)))

Refuse(c) ==
    /\ Refused(c) /\ outcome[c] = "none"
    /\ asked' = [asked EXCEPT ![c] = Nothing]
    /\ outcome' = [outcome EXCEPT ![c] = "rejected"]
    /\ UNCHANGED <<keyed, saved>>

\* A method returns before it acts, or fails in the middle of a list.
Return(c, how) ==
    /\ asked[c] # Nothing /\ outcome[c] = "none"
    /\ \/ how = "done" /\ asked[c].op # "create" /\ ~Refused(c)
       \/ how = "rejected" /\ asked[c].op = "puts"
    /\ outcome' = [outcome EXCEPT ![c] = how]
    /\ UNCHANGED <<keyed, saved, asked>>

\* createTransactions returns when it acts; the others have returned.
Acts(c) ==
    /\ asked' = [asked EXCEPT ![c] = Nothing]
    /\ IF asked[c].op = "create"
       THEN outcome[c] = "none" /\ outcome' = [outcome EXCEPT ![c] = "done"]
       ELSE outcome[c] # "none" /\ UNCHANGED outcome
    /\ UNCHANGED keyed

\* addItem.
Add(c) ==
    /\ asked[c].op = "add" /\ Acts(c)
    /\ \/ ~Stored(asked[c].key) /\ saved' = saved \cup {Item(c, asked[c].key)}
       \/ keyed /\ Stored(asked[c].key) /\ saved' = saved
       \/ ~keyed /\ saved' \in {saved, saved \cup {Item(c, asked[c].key)}}

\* createTransactions.
Create(c) ==
    /\ asked[c].op = "create" /\ ~Refused(c) /\ Acts(c)
    /\ saved' = saved \cup {Item(c, asked[c].key)}

\* putItem.
Put(c) ==
    /\ asked[c].op = "put" /\ ~keyed /\ Acts(c)
    /\ \E truthy \in BOOLEAN :
           saved' = Others(asked[c].key) \cup {[key |-> asked[c].key, by |-> c, truthy |-> truthy]}

\* createMultipleTransactions: some of its list, all of it if it is done.
PutSome(c) ==
    /\ asked[c].op = "puts" /\ Acts(c)
    /\ \E put \in SUBSET Keys :
           saved' = (IF keyed THEN {i \in saved : i.key \notin put} ELSE saved)
                    \cup {Item(c, key) : key \in put}

\* deleteItem and clearStore.
Remove(c) == asked[c].op = "del" /\ Acts(c) /\ saved' = Others(asked[c].key)
Clear(c) == asked[c].op = "clear" /\ Acts(c) /\ saved' = {}

Act(c) == Add(c) \/ Create(c) \/ Put(c) \/ PutSome(c) \/ Remove(c) \/ Clear(c)

\* It does not act: if the method has not returned, it fails.
Lose(c) ==
    /\ asked[c] # Nothing
    /\ asked' = [asked EXCEPT ![c] = Nothing]
    /\ outcome' = [outcome EXCEPT ![c] = IF @ = "none" THEN "aborted" ELSE @]
    /\ UNCHANGED <<keyed, saved>>

\* There is no database: the method returns without having acted.
Ignore(c) ==
    /\ asked[c] = Nothing /\ outcome[c] = "none"
    /\ outcome' = [outcome EXCEPT ![c] = "dropped"]
    /\ UNCHANGED <<keyed, saved, asked>>

\* A tab is closed: nobody hears of its calls any more, and none of them acts.
Abandon(S) ==
    /\ asked' = [c \in Calls |-> IF c \in S THEN Nothing ELSE asked[c]]
    /\ outcome' = [c \in Calls |-> IF c \in S THEN "gone" ELSE outcome[c]]
    /\ UNCHANGED <<keyed, saved>>

\* An upgrade or a reset empties the store, while no method is at work.
Wipe ==
    /\ \A c \in Calls : asked[c] = Nothing
    /\ saved' = {}
    /\ UNCHANGED <<keyed, asked, outcome>>

Next ==
    \/ \E c \in Calls : \/ Act(c) \/ Refuse(c) \/ Lose(c) \/ Ignore(c)
                        \/ \E how \in {"done", "rejected"} : Return(c, how)
                        \/ \E op \in Ops, key \in Keys : Ask(c, op, key)
    \/ \E S \in SUBSET Calls : Abandon(S)
    \/ Wipe

Spec == Init /\ [][Next]_svars
=============================================================================
