---------------------------- MODULE StorageProofs ----------------------------
(***************************************************************************)
(* The methods of IndexedDB (idb.ts), for any number of tabs, versions,    *)
(* calls and keys: addItem never fails for a key that it has looked up     *)
(* itself, calls are dropped only where the database was not open yet, no  *)
(* tab waits for nothing, resets come to an end, and each method acts on   *)
(* the store at one moment, or not at all (ItemStore).                     *)
(***************************************************************************)
EXTENDS Storage, TLAPS

Steps == {"unused", "waiting", "dropped", "found", "writing", "written",
          "rejected", "done", "aborted", "gone"}
CallType == [tab : Tabs \cup {"none"}, op : Ops \cup {"none"}, key : Keys \cup {"none"},
             awaits : Nat, early : BOOLEAN, step : Steps]

CallsOK == calls \in [Calls -> CallType] /\ opens \in [Tabs -> Nat]

\* Only one call is between its lookup and the end of its transaction.
OneWriter ==
    /\ writer = Free \/ (writer \in Calls /\ Running(writer))
    /\ \A c \in Calls : calls[c].step \in {"found", "writing", "written"} => writer = c

\* What it looked up stays true until it writes.
LookupHolds ==
    keyed => \A c \in Calls : calls[c].step = "writing" /\ calls[c].op = "add" => ~Has(calls[c].key)

\* In a store with a keyPath every item is an object of its own key: in what is stored and
\* in what an aborted transaction brings back.
Sound(stored) ==
    /\ \A i, j \in stored : i.key = j.key => i = j
    /\ \A i \in stored : i.truthy

AddsGranted == \A c \in Calls : calls[c].op = "add" => calls[c].step # "rejected"

StorageInv ==
    /\ CallsOK
    /\ OneWriter
    /\ LookupHolds
    /\ keyed => AddsGranted /\ Sound(items) /\ Sound(before)

\* Nothing is called at first.
LEMMA InitStorage == Init => StorageInv
    BY DEF Init, StorageInv, CallsOK, CallType, Steps, OneWriter, LookupHolds, AddsGranted, Sound, Unused

\* A call that goes on.
LEMMA GoesOn ==
    ASSUME CallsOK, NEW c \in Calls, NEW step \in Steps, Goto(c, step)
    PROVE  /\ calls' \in [Calls -> CallType]
           /\ calls'[c].step = step /\ calls'[c].op = calls[c].op
           /\ calls'[c].key = calls[c].key /\ calls'[c].tab = calls[c].tab
           /\ \A d \in Calls : d # c => calls'[d] = calls[d]
    BY DEF Goto, CallsOK, CallType

\* A call that is over.
LEMMA IsOver ==
    ASSUME NEW how \in Steps
    PROVE  /\ Over(how) \in CallType /\ Over(how).step = how
           /\ Over(how).op = "none" /\ Over(how).tab = "none"
    BY DEF Over, Unused, CallType, Steps

\* The steps of a call that is in its transaction.
Moves(c) ==
    \/ Found(c) \/ Refuse(c) \/ Write(c) \/ (\E key \in Keys : PutOne(c, key)) \/ PutsEnd(c)
    \/ Commit(c) \/ Abort(c)

\* What they leave alone, and how they go on.
LEMMA MoveCalls ==
    ASSUME StorageInv, NEW c \in Calls, Moves(c)
    PROVE  /\ writer = c /\ Running(c)
           /\ UNCHANGED <<versionOf, keyed, version, conns, queue, tabVars>>
           /\ calls' \in [Calls -> CallType]
           /\ \A d \in Calls : d # c => calls'[d] = calls[d]
           /\ \/ /\ writer' = writer /\ before' = before /\ Running(c)'
                 /\ calls'[c].op = calls[c].op /\ calls'[c].key = calls[c].key
                 /\ calls'[c].tab = calls[c].tab
              \/ /\ writer' = Free /\ before' = {}
                 /\ calls'[c].step \in {"done", "rejected", "aborted"}
                 /\ calls'[c].op \in {"none", calls[c].op}
           /\ (calls'[c].step = "rejected") =>
                 (calls'[c].op = "none" \/ calls[c].op = "puts"
                     \/ (calls[c].step = "writing" /\ Refused(c)))
           /\ calls'[c].step # "found"
           /\ (calls'[c].step = "writing") => (calls' = calls /\ calls[c].op = "puts")
<1>1. writer = c /\ Running(c)
    <2>1. CASE Commit(c) \/ Abort(c)
        BY <2>1, StorageAssumption DEF Commit, Abort, StorageInv, OneWriter, Free
    <2>2. CASE ~(Commit(c) \/ Abort(c))
        BY <2>2 DEF Moves, Found, Refuse, Write, PutOne, PutsEnd, StorageInv, OneWriter, Running
    <2>. QED
        BY <2>1, <2>2
<1>2. UNCHANGED <<versionOf, keyed, version, conns, queue, tabVars>>
    BY DEF Moves, Found, Refuse, Write, PutOne, PutsEnd, Commit, Abort, browserVars
<1>3. CallsOK
    BY DEF StorageInv
<1>4. CASE Found(c) \/ Write(c) \/ PutsEnd(c)
    <2>1. PICK step \in {"done", "written", "rejected"} :
            Goto(c, step) /\ (step = "rejected" => calls[c].op = "puts")
        BY <1>4 DEF Found, Write, PutsEnd
    <2>2. UNCHANGED <<writer, before>>
        BY <1>4 DEF Found, Write, PutsEnd, browserVars, storeVars
    <2>3. step \in Steps
        BY <2>1 DEF Steps
    <2>4. /\ calls' \in [Calls -> CallType]
          /\ calls'[c].step = step /\ calls'[c].op = calls[c].op
          /\ calls'[c].key = calls[c].key /\ calls'[c].tab = calls[c].tab
          /\ \A d \in Calls : d # c => calls'[d] = calls[d]
        BY <1>3, <2>1, <2>3, GoesOn
    <2>5. step \notin {"found", "writing"} /\ Running(c)'
        BY <2>1, <2>4 DEF Running
    <2>6. /\ writer' = writer /\ before' = before /\ Running(c)'
          /\ calls'[c].op = calls[c].op /\ calls'[c].key = calls[c].key
          /\ calls'[c].tab = calls[c].tab
        BY <2>2, <2>4, <2>5
    <2>7. calls'[c].step = "rejected" => calls[c].op = "puts"
        BY <2>1, <2>4
    <2>8. calls'[c].step # "found" /\ calls'[c].step # "writing"
        BY <2>4, <2>5
    <2>. QED
        BY <1>1, <1>2, <2>4, <2>6, <2>7, <2>8
<1>5. CASE \E key \in Keys : PutOne(c, key)
    BY <1>1, <1>2, <1>3, <1>5 DEF PutOne, Running, CallsOK
<1>6. CASE Commit(c) \/ Abort(c)
    <2>1. PICK how \in {"done", "rejected", "aborted"} : calls' = [calls EXCEPT ![c] = Over(how)]
        BY <1>6 DEF Commit, Abort
    <2>2. how \in Steps
        BY <2>1 DEF Steps
    <2>3. writer' = Free /\ before' = {}
        BY <1>6 DEF Commit, Abort, EndTransaction
    <2>4. Over(how) \in CallType /\ Over(how).step = how /\ Over(how).op = "none"
        BY <2>2, IsOver
    <2>5. /\ calls' \in [Calls -> CallType] /\ calls'[c] = Over(how)
          /\ \A d \in Calls : d # c => calls'[d] = calls[d]
        BY <1>3, <2>1, <2>4 DEF CallsOK
    <2>6. calls'[c].step = how /\ calls'[c].op = "none"
        BY <2>4, <2>5
    <2>7. /\ writer' = Free /\ before' = {}
          /\ calls'[c].step \in {"done", "rejected", "aborted"}
          /\ calls'[c].op \in {"none", calls[c].op}
        BY <2>1, <2>3, <2>6
    <2>8. calls'[c].step # "found" /\ calls'[c].step # "writing"
        BY <2>7
    <2>. QED
        BY <1>1, <1>2, <2>5, <2>6, <2>7, <2>8
<1>7. CASE Refuse(c)
    <2> DEFINE new == [Over("rejected") EXCEPT !.op = calls[c].op]
    <2>1. new \in CallType /\ new.step = "rejected" /\ new.op = calls[c].op
        BY <1>3 DEF Over, Unused, CallType, Steps, CallsOK
    <2>2. /\ writer' = Free /\ before' = {} /\ calls' = [calls EXCEPT ![c] = new]
          /\ calls[c].step = "writing" /\ Refused(c)
        BY <1>7 DEF Refuse, EndTransaction
    <2>. HIDE DEF new
    <2>. QED
        BY <1>1, <1>2, <1>3, <2>1, <2>2 DEF CallsOK
<1>. QED
    BY <1>4, <1>5, <1>6, <1>7 DEF Moves

\* Steps that leave the calls alone, and the stored items or nothing of them.
LEMMA OthersKeep ==
    ASSUME StorageInv, opens' \in [Tabs -> Nat], items' \in {items, {}},
           UNCHANGED <<keyed, writer, before, calls>>
    PROVE  StorageInv'
    BY DEF StorageInv, CallsOK, OneWriter, Running, LookupHolds, AddsGranted, Sound, Has

\* Closing a tab ends its calls, and with them its transaction.
LEMMA CloseKeeps ==
    ASSUME StorageInv, NEW t \in Tabs, Close(t)
    PROVE  StorageInv'
<1>1. \A c \in Calls : calls'[c] = IF calls[c].tab = t THEN Over("gone") ELSE calls[c]
    BY DEF Close
<1>2. /\ Over("gone") \in CallType /\ Over("gone").step = "gone" /\ Over("gone").op = "none"
    BY IsOver DEF Steps
<1>3. UNCHANGED keyed /\ opens' \in [Tabs -> Nat]
    BY DEF Close, StorageInv, CallsOK
<1>4. calls' \in [Calls -> CallType]
    BY <1>1, <1>2 DEF Close, StorageInv, CallsOK
<1>5. CASE writer # Free /\ calls[writer].tab = t
    <2>1. writer' = Free /\ before' = {} /\ items' = before
        BY <1>5 DEF Close, EndTransaction
    <2>2. \A c \in Calls : calls'[c].step \notin {"found", "writing", "written"}
        BY <1>1, <1>2, <1>5 DEF StorageInv, OneWriter
    <2>3. keyed => AddsGranted'
        BY <1>1, <1>2 DEF StorageInv, AddsGranted
    <2>. QED
        BY <1>3, <1>4, <2>1, <2>2, <2>3 DEF StorageInv, CallsOK, OneWriter, LookupHolds, Sound
<1>6. CASE ~(writer # Free /\ calls[writer].tab = t)
    <2>1. UNCHANGED storeVars
        BY <1>6 DEF Close
    <2>2. writer \in Calls => calls'[writer] = calls[writer]
        BY <1>1, <1>6, StorageAssumption DEF Free
    <2>3. \A c \in Calls : calls'[c].step \in {"found", "writing", "written"} => calls'[c] = calls[c]
        BY <1>1, <1>2
    <2>4. keyed => AddsGranted'
        BY <1>1, <1>2 DEF StorageInv, AddsGranted
    <2>. QED
        BY <1>3, <1>4, <2>1, <2>2, <2>3, <2>4
           DEF storeVars, StorageInv, CallsOK, OneWriter, Running, LookupHolds, Sound, Has
<1>. QED
    BY <1>5, <1>6

\* A call that is made, or dropped, writes nothing.
LEMMA CallKeeps ==
    ASSUME StorageInv, NEW c \in Calls, Drop(c) \/ \E t \in Tabs : Call(c, t)
    PROVE  StorageInv'
<1>1. /\ calls' \in [Calls -> CallType]
      /\ calls'[c].step \in {"waiting", "dropped"} /\ calls[c].step \in {"unused", "waiting"}
      /\ \A d \in Calls : d # c => calls'[d] = calls[d]
    <2>1. CASE Drop(c)
        BY <2>1 DEF Drop, StorageInv, CallsOK, CallType, Steps
    <2>2. CASE \E t \in Tabs : Call(c, t)
        <3> PICK t \in Tabs : Call(c, t)
            BY <2>2
        <3> DEFINE k == opens[t]
                   e == db[t][k] = "pending"
                   new == [Unused EXCEPT !.tab = t, !.awaits = k, !.early = e, !.step = "waiting"]
        <3>1. k \in Nat /\ e \in BOOLEAN
            BY DEF StorageInv, CallsOK
        <3>2. calls' = [calls EXCEPT ![c] = new]
            BY DEF Call, ThisDb
        <3>4. calls[c].step = "unused"
            <4>1. calls[c] = Unused
                BY DEF Call
            <4>. QED
                BY <4>1 DEF Unused
        <3>. HIDE DEF k, e
        <3>3. new \in CallType /\ new.step = "waiting"
            BY <3>1 DEF Unused, CallType, Steps
        <3>. HIDE DEF new
        <3>. QED
            BY <3>2, <3>3, <3>4 DEF StorageInv, CallsOK
    <2>. QED
        BY <2>1, <2>2
<1>2. UNCHANGED <<keyed, items, writer, before, opens>>
    BY DEF Drop, Call, browserVars, storeVars, tabVars
<1>3. writer # c
    BY <1>1, StorageAssumption DEF StorageInv, OneWriter, Running, Free
<1>4. OneWriter'
    BY <1>1, <1>2, <1>3, StorageAssumption DEF StorageInv, OneWriter, Running, Free
<1>. QED
    BY <1>1, <1>2, <1>4 DEF StorageInv, CallsOK, LookupHolds, AddsGranted, Sound, Has

\* A transaction begins alone; what is there under a key is seen where there is a keyPath.
LEMMA BeginKeeps ==
    ASSUME StorageInv, NEW c \in Calls, NEW op \in Ops, NEW key \in Keys, Begin(c, op, key)
    PROVE  StorageInv'
<1>1. /\ calls' \in [Calls -> CallType]
      /\ calls'[c].op = op /\ calls'[c].key = key
      /\ calls'[c].step = IF op = "add" /\ Seen(key) THEN "found" ELSE "writing"
      /\ \A d \in Calls : d # c => calls'[d] = calls[d]
    BY DEF Begin, StorageInv, CallsOK, CallType, Steps
<1>2. UNCHANGED <<keyed, items, opens>> /\ writer = Free /\ writer' = c /\ before' = items
    BY DEF Begin, WriterFree, tabVars
<1>3. OneWriter'
    BY <1>1, <1>2, StorageAssumption DEF StorageInv, OneWriter, Running, Free
<1>4. keyed => (Seen(key) <=> Has(key))
    BY DEF StorageInv, Sound, Seen, Has
<1>5. LookupHolds'
    BY <1>1, <1>2, <1>4 DEF StorageInv, LookupHolds, Has
<1>6. keyed => AddsGranted'
    BY <1>1 DEF StorageInv, AddsGranted
<1>. QED
    BY <1>1, <1>2, <1>3, <1>5, <1>6 DEF StorageInv, CallsOK, Sound

\* The one writer finds what it looked up, and an abort brings back what was sound.
LEMMA MoveKeeps ==
    ASSUME StorageInv, NEW c \in Calls, Moves(c)
    PROVE  StorageInv'
<1>1. UNCHANGED <<keyed, opens>>
    BY MoveCalls DEF tabVars
<1>2. OneWriter'
    BY MoveCalls, StorageAssumption DEF StorageInv, OneWriter, Running, Free
<1>3. AddsGranted /\ keyed => AddsGranted'
    <2>1. calls[c].step = "writing" /\ Refused(c) /\ keyed => calls[c].op # "add"
        BY DEF Refused, StorageInv, LookupHolds
    <2>2. calls'[c].op \in {"none", calls[c].op}
        BY MoveCalls
    <2>3. keyed /\ calls'[c].step = "rejected" => calls'[c].op # "add"
        BY <2>1, <2>2, MoveCalls
    <2>4. \A d \in Calls : d # c => calls'[d] = calls[d]
        BY MoveCalls
    <2>. QED
        BY <2>3, <2>4 DEF AddsGranted
<1>4. LookupHolds'
    BY <1>1, MoveCalls DEF StorageInv, LookupHolds, OneWriter
<1>5. keyed => Sound(items')
    <2> SUFFICES ASSUME keyed PROVE Sound(items')
        OBVIOUS
    <2>1. CASE UNCHANGED items \/ items' = before
        BY <2>1 DEF StorageInv
    <2>2. CASE Write(c) \/ \E key \in Keys : PutOne(c, key)
        <3>1. \/ items' \subseteq items
              \/ \E key \in Keys \cup {"none"} : items' = Without(key) \cup {Item(c, key, TRUE)}
            BY <2>2 DEF Write, PutOne, Add, Without, Refused, StorageInv, CallsOK, CallType
        <3>2. \A key : Item(c, key, TRUE).key = key /\ Item(c, key, TRUE).truthy
            BY DEF Item
        <3>. QED
            BY <3>1, <3>2 DEF StorageInv, Sound, Without
    <2>3. CASE Found(c) \/ Refuse(c) \/ PutsEnd(c) \/ Commit(c) \/ Abort(c)
        BY <2>1, <2>3 DEF Found, Refuse, PutsEnd, Commit, Abort, EndTransaction, browserVars, storeVars
    <2>. QED
        BY <2>2, <2>3 DEF Moves
<1>6. keyed => Sound(before')
    BY MoveCalls DEF StorageInv, Sound
<1>. QED
    BY <1>1, <1>2, <1>3, <1>4, <1>5, <1>6, MoveCalls DEF StorageInv, CallsOK

\* The invariant is inductive.
LEMMA NextStorage == StorageInv /\ [Next]_vars => StorageInv'
<1> SUFFICES ASSUME StorageInv, [Next]_vars PROVE StorageInv'
    OBVIOUS
<1>1. CASE \E t \in Tabs : Close(t)
    BY <1>1, CloseKeeps
<1>2. CASE \E c \in Calls : Method(c) \/ Commit(c) \/ Abort(c) \/ \E t \in Tabs : Call(c, t)
    BY <1>2, CallKeeps, BeginKeeps, MoveKeeps DEF Method, Moves
<1>3. CASE \E t \in Tabs : Load(t) \/ Browser(t) \/ OpenFails(t) \/ CallDelete(t)
    <2> PICK t \in Tabs : Load(t) \/ Browser(t) \/ OpenFails(t) \/ CallDelete(t)
        BY <1>3
    <2>1. UNCHANGED <<keyed, writer, before, calls>> /\ items' \in {items, {}}
        BY DEF Load, Browser, Open, Upgrade, VersionError, Delete, Discard, OpenFails, CallDelete,
               tabVars, storeVars
    <2>2. opens' \in [Tabs -> Nat]
        BY DEF Load, Browser, Open, Upgrade, VersionError, Delete, Discard, OpenFails, CallDelete, tabVars,
               StorageInv, CallsOK
    <2>. QED
        BY <2>1, <2>2, OthersKeep
<1>4. CASE UNCHANGED vars
    BY <1>4, OthersKeep DEF vars, browserVars, storeVars, tabVars, StorageInv, CallsOK
<1>. QED
    BY <1>1, <1>2, <1>3, <1>4 DEF Next

\* addItem, on a store with a keyPath, stores one item under a key and is refused to none of
\* its callers, whatever other tabs write, upgrade, delete or leave undone when they are
\* closed, and whichever transactions are aborted after their methods have returned.
THEOREM ItemsAddedOnce == Spec => []AddsOnce
<1>1. StorageInv => AddsOnce
    BY DEF StorageInv, AddsGranted, Sound, AddsOnce
<1>. QED
    BY <1>1, InitStorage, NextStorage, PTL DEF Spec

-----------------------------------------------------------------------------
(* Dropped calls *)

Outcomes == {"pending", "conn", "none"}

\* The promises behind this.db: later ones are not made yet, and the last one resolves
\* without a database only where opening failed.
Promises ==
    /\ opens \in [Tabs -> 0 .. MaxOpens]
    /\ db \in [Tabs -> [1 .. MaxOpens -> Outcomes]]
    /\ \A t \in Tabs : \A k \in 1 .. MaxOpens :
           /\ k > opens[t] => db[t][k] = "pending"
           /\ k = opens[t] /\ db[t][k] = "none" => t \in failed

\* A call that awaits a promise settled before it was made finds a database, unless its
\* tab could not open one.
Waiting(c) ==
    LET t == calls[c].tab IN
    /\ t \in Tabs /\ calls[c].awaits \in 1 .. MaxOpens /\ calls[c].awaits <= opens[t]
    /\ calls[c].early \/ t \in failed \/ Awaited(c) = "conn"

DropInv ==
    /\ calls \in [Calls -> CallType]
    /\ Promises
    /\ \A c \in Calls : calls[c].step = "waiting" => Waiting(c)
    /\ DroppedInResetOnly

\* Nothing is awaited at first.
LEMMA InitDrops == Init => DropInv
<1> SUFFICES ASSUME Init PROVE DropInv
    OBVIOUS
<1>1. \A c \in Calls : calls[c].step = "unused"
    BY DEF Init, Unused
<1>2. calls \in [Calls -> CallType]
    BY DEF Init, CallType, Steps, Unused
<1>3. Promises
    BY StorageAssumption DEF Init, Promises, Outcomes
<1>. QED
    BY <1>1, <1>2, <1>3 DEF DropInv, DroppedInResetOnly

\* Steps that settle or make promises, and end calls or leave them alone.
LEMMA PromisesKeep ==
    ASSUME DropInv, Promises', calls' \in [Calls -> CallType],
           failed \subseteq failed', \A t \in Tabs : opens[t] <= opens'[t],
           \A c \in Calls : calls'[c] = calls[c] \/ calls'[c].step \notin {"waiting", "dropped"},
           \A t \in Tabs : \A k \in 1 .. MaxOpens :
               db[t][k] = "conn" => db'[t][k] = "conn" \/ t \in failed'
    PROVE  DropInv'
<1>1. ASSUME NEW c \in Calls, calls'[c].step = "waiting"
      PROVE  Waiting(c)'
    <2>1. calls'[c] = calls[c] /\ Waiting(c)
        BY <1>1 DEF DropInv
    <2>2. opens \in [Tabs -> 0 .. MaxOpens] /\ opens' \in [Tabs -> 0 .. MaxOpens]
        BY DEF DropInv, Promises
    <2>. QED
        BY <2>1, <2>2 DEF Waiting, Awaited
<1>2. DroppedInResetOnly'
    BY DEF DropInv, DroppedInResetOnly
<1>. QED
    BY <1>1, <1>2 DEF DropInv

\* The promises a settled openDB leaves behind.
LEMMA SettleKeeps ==
    ASSUME DropInv, NEW t \in Tabs, NEW what \in {"conn", "none"}, Settle(t, what),
           UNCHANGED <<opens, calls>>, failed' = IF what = "none" THEN failed \cup {t} ELSE failed
    PROVE  DropInv'
<1>1. \A u \in Tabs : \A k \in 1 .. MaxOpens :
          db'[u][k] = IF u = t /\ k = opens[t] THEN what
                      ELSE IF u = t /\ k < opens[t] /\ db[u][k] = "pending" THEN "none"
                      ELSE db[u][k]
    BY DEF DropInv, Promises, Settle
<1>2. Promises'
    <2>1. db' \in [Tabs -> [1 .. MaxOpens -> Outcomes]]
        <3> DEFINE settled == [k \in 1 .. MaxOpens |->
                                  IF k = opens[t] THEN what
                                  ELSE IF k < opens[t] /\ db[t][k] = "pending" THEN "none" ELSE db[t][k]]
        <3>1. db \in [Tabs -> [1 .. MaxOpens -> Outcomes]]
            BY DEF DropInv, Promises
        <3>2. settled \in [1 .. MaxOpens -> Outcomes]
            BY <3>1 DEF Outcomes
        <3>3. db' = [db EXCEPT ![t] = settled]
            BY <3>1 DEF Settle
        <3>. HIDE DEF settled
        <3>. QED
            BY <3>1, <3>2, <3>3
    <2>2. \A u \in Tabs : \A k \in 1 .. MaxOpens :
              /\ k > opens'[u] => db'[u][k] = "pending"
              /\ k = opens'[u] /\ db'[u][k] = "none" => u \in failed'
        BY <1>1 DEF DropInv, Promises
    <2>. QED
        BY <2>1, <2>2 DEF DropInv, Promises
<1>3. \A u \in Tabs : opens[u] <= opens'[u]
    BY DEF DropInv, Promises
<1>. QED
    BY <1>1, <1>2, <1>3, PromisesKeep DEF DropInv

\* A reset makes the next promise.
LEMMA ResetKeeps ==
    ASSUME DropInv, NEW t \in Tabs, Load(t) \/ Delete(t)
    PROVE  DropInv'
<1>1. /\ opens[t] < MaxOpens /\ opens' = [opens EXCEPT ![t] = opens[t] + 1]
      /\ UNCHANGED <<db, failed, calls>>
    BY StorageAssumption DEF Load, Delete
<1>2. Promises' /\ \A u \in Tabs : opens[u] <= opens'[u]
    BY <1>1, StorageAssumption DEF DropInv, Promises, Outcomes
<1>. QED
    BY <1>1, <1>2, PromisesKeep DEF DropInv

\* A call that is made awaits the last promise; one that finds none was early, or in a
\* tab where opening failed.
LEMMA CallDrops ==
    ASSUME DropInv, NEW c \in Calls, Drop(c) \/ \E t \in Tabs : Call(c, t)
    PROVE  DropInv'
<1>1. UNCHANGED <<opens, db, failed>> /\ Promises'
    <2>1. UNCHANGED <<opens, db, failed>>
        BY DEF Drop, Call, tabVars
    <2>. QED
        BY <2>1 DEF DropInv, Promises
<1>2. CASE Drop(c)
    <2>1. /\ calls'[c] = [calls[c] EXCEPT !.step = "dropped"]
          /\ \A d \in Calls : d # c => calls'[d] = calls[d]
          /\ calls' \in [Calls -> CallType]
        BY <1>2 DEF Drop, DropInv, CallType, Steps
    <2>2. calls[c].early \/ calls[c].tab \in failed
        BY <1>2 DEF Drop, DropInv, Waiting
    <2>3. calls'[c].step = "dropped" /\ calls'[c].early = calls[c].early /\ calls'[c].tab = calls[c].tab
        BY <2>1 DEF DropInv, CallType
    <2>. QED
        BY <1>1, <2>1, <2>2, <2>3 DEF DropInv, DroppedInResetOnly, Waiting, Awaited
<1>3. CASE \E t \in Tabs : Call(c, t)
    <2> PICK t \in Tabs : Call(c, t)
        BY <1>3
    <2> DEFINE k == opens[t]
               e == db[t][k] = "pending"
               new == [Unused EXCEPT !.tab = t, !.awaits = k, !.early = e, !.step = "waiting"]
    <2>1. opens[t] > 0 /\ calls' = [calls EXCEPT ![c] = new]
        BY DEF Call, ThisDb
    <2>2. k \in 1 .. MaxOpens /\ db[t][k] \in Outcomes
        BY <2>1, StorageAssumption DEF DropInv, Promises
    <2>3. k = opens[t] /\ (db[t][k] = "none" => t \in failed)
        BY <2>2 DEF DropInv, Promises
    <2>4. /\ new \in CallType /\ new.tab = t /\ new.awaits = k /\ new.step = "waiting"
          /\ new.early = e
        <3>1. k \in Nat /\ e \in BOOLEAN
            BY <2>2, StorageAssumption
        <3>. HIDE DEF k, e
        <3>. QED
            BY <3>1 DEF Unused, CallType, Steps
    <2>. HIDE DEF k, new
    <2>5. calls'[c] = new /\ (\A d \in Calls : d # c => calls'[d] = calls[d])
          /\ calls' \in [Calls -> CallType]
        BY <2>1, <2>4 DEF DropInv
    <2>6. Waiting(c)'
        <3>1. /\ calls'[c].tab = t /\ calls'[c].awaits = k
              /\ calls'[c].early = (db[t][k] = "pending")
            BY <2>4, <2>5
        <3>2. db[t][k] = "pending" \/ t \in failed \/ db[t][k] = "conn"
            BY <2>2, <2>3 DEF Outcomes
        <3>3. Awaited(c)' = db[t][k]
            BY <1>1, <3>1 DEF Awaited
        <3>4. k \in 1 .. MaxOpens /\ k <= opens'[t] /\ opens' = opens /\ failed' = failed
            BY <1>1, <2>2, <2>3, StorageAssumption
        <3>. QED
            BY <3>1, <3>2, <3>3, <3>4 DEF Waiting
    <2>7. calls'[c].step = "waiting"
        BY <2>4, <2>5
    <2>8. \A d \in Calls : d # c => (Waiting(d) => Waiting(d)')
        BY <1>1, <2>5 DEF Waiting, Awaited
    <2>9. DroppedInResetOnly'
        BY <1>1, <2>5, <2>7 DEF DropInv, DroppedInResetOnly
    <2>. QED
        BY <1>1, <2>5, <2>6, <2>8, <2>9 DEF DropInv
<1>. QED
    BY <1>2, <1>3

\* With a tab its promises and its calls are gone.
LEMMA CloseDrops ==
    ASSUME DropInv, NEW t \in Tabs, Close(t), calls' \in [Calls -> CallType]
    PROVE  DropInv'
<1>1. /\ opens' = [opens EXCEPT ![t] = 0] /\ failed' = failed \ {t}
      /\ db' = [db EXCEPT ![t] = [k \in 1 .. MaxOpens |-> "pending"]]
      /\ \A c \in Calls : calls'[c] = IF calls[c].tab = t THEN Over("gone") ELSE calls[c]
    BY DEF Close
<1>2. Promises'
    BY <1>1, StorageAssumption DEF DropInv, Promises, Outcomes
<1>3. Over("gone").step = "gone"
    BY IsOver DEF Steps
<1>4. ASSUME NEW c \in Calls, calls'[c].step \in {"waiting", "dropped"}
      PROVE  calls'[c] = calls[c] /\ calls[c].tab # t
    BY <1>1, <1>3, <1>4
<1>5. ASSUME NEW c \in Calls, calls'[c].step = "waiting"
      PROVE  Waiting(c)'
    <2>1. calls'[c] = calls[c] /\ calls[c].tab # t /\ Waiting(c)
        BY <1>4, <1>5 DEF DropInv
    <2>2. opens'[calls[c].tab] = opens[calls[c].tab] /\ db'[calls[c].tab] = db[calls[c].tab]
        BY <1>1, <2>1 DEF DropInv, Promises, Waiting
    <2>. QED
        BY <1>1, <2>1, <2>2 DEF Waiting, Awaited
<1>6. DroppedInResetOnly'
    BY <1>1, <1>4 DEF DropInv, DroppedInResetOnly
<1>. QED
    BY <1>2, <1>5, <1>6 DEF DropInv

\* Other steps make no promise, and calls go on or end.
LEMMA NextDrops == StorageInv /\ StorageInv' /\ DropInv /\ [Next]_vars => DropInv'
<1> SUFFICES ASSUME StorageInv, StorageInv', DropInv, [Next]_vars PROVE DropInv'
    OBVIOUS
<1>1. calls' \in [Calls -> CallType]
    BY DEF StorageInv, CallsOK
<1>2. ASSUME UNCHANGED <<opens, db, failed>>,
             \A c \in Calls : calls'[c] = calls[c] \/ calls'[c].step \notin {"waiting", "dropped"}
      PROVE  DropInv'
    <2>1. Promises' /\ \A t \in Tabs : opens[t] <= opens'[t]
        BY <1>2 DEF DropInv, Promises
    <2>. QED
        BY <1>1, <1>2, <2>1, PromisesKeep
<1>3. ASSUME NEW t \in Tabs, Load(t) \/ Delete(t)
      PROVE  DropInv'
    BY <1>3, ResetKeeps
<1>4. ASSUME NEW t \in Tabs, Open(t) \/ Upgrade(t) \/ OpenFails(t)
      PROVE  DropInv'
    BY <1>4, SettleKeeps DEF Open, Upgrade, OpenFails
<1>5. ASSUME NEW t \in Tabs, VersionError(t) \/ Discard(t) \/ CallDelete(t)
      PROVE  DropInv'
    BY <1>2, <1>5 DEF VersionError, Discard, CallDelete, tabVars
<1>6. ASSUME NEW c \in Calls, Drop(c) \/ \E t \in Tabs : Call(c, t)
      PROVE  DropInv'
    BY <1>6, CallDrops
<1>7. ASSUME NEW c \in Calls, Moves(c) \/ \E op \in Ops, key \in Keys : Begin(c, op, key)
      PROVE  DropInv'
    <2>1. UNCHANGED <<opens, db, failed>>
        BY <1>7, MoveCalls DEF Begin, tabVars
    <2>2. /\ calls'[c] = calls[c] \/ calls'[c].step \notin {"waiting", "dropped"}
          /\ \A d \in Calls : d # c => calls'[d] = calls[d]
        <3>1. CASE Moves(c)
            BY <3>1, MoveCalls DEF Running
        <3>2. CASE \E op \in Ops, key \in Keys : Begin(c, op, key)
            BY <3>2 DEF Begin, StorageInv, CallsOK, CallType
        <3>. QED
            BY <1>7, <3>1, <3>2
    <2>. QED
        BY <1>2, <2>1, <2>2
<1>9. ASSUME NEW t \in Tabs, Close(t)
      PROVE  DropInv'
    BY <1>1, <1>9, CloseDrops
<1>8. CASE UNCHANGED vars
    BY <1>2, <1>8 DEF vars, tabVars
<1>. QED
    BY <1>3, <1>4, <1>5, <1>6, <1>7, <1>8, <1>9 DEF Next, Browser, Method, Moves

\* A call of a method is dropped only if it was made while its tab was still opening the
\* database, or where it could not be opened: however often the tabs reset it.
THEOREM DropsAreEarly == Spec => []DroppedInResetOnly
<1>1. DropInv => DroppedInResetOnly
    BY DEF DropInv
<1>. QED
    BY <1>1, InitStorage, NextStorage, InitDrops, NextDrops, PTL DEF Spec

-----------------------------------------------------------------------------
(* Nobody waits for nothing *)

Requests == [tab : Tabs, what : {"open", "delete"}]

Asks(q, t) == \E i \in 1 .. Len(q) : q[i].tab = t
Once(q, t) == \A i, j \in 1 .. Len(q) : q[i].tab = t /\ q[j].tab = t => i = j

\* The last openDB of a tab has not returned.
Pending(t) == opens[t] > 0 /\ db[t][opens[t]] = "pending"

\* A tab that never called deleteDB itself has one request with the browser while its
\* openDB runs, and no connection; earlier promises settle no later than the last.
OneRequest(t) ==
    /\ Asks(queue, t) <=> Pending(t)
    /\ Once(queue, t)
    /\ Pending(t) => t \notin conns
    /\ \A k \in 1 .. opens[t] : db[t][k] = "pending" => Pending(t)

WaitInv ==
    /\ queue \in Seq(Requests)
    /\ conns \subseteq Tabs \ gone
    /\ erased \subseteq conns \cup gone
    /\ \A t \in conns : opens[t] > 0
    /\ \A t \in Tabs \ (gone \cup erased) : OneRequest(t)
    /\ \A c \in Calls : calls[c].step = "waiting" => calls[c].tab \notin gone

\* A request at the end of the queue, and the rest of it.
LEMMA AppendedRequest ==
    ASSUME NEW q \in Seq(Requests), NEW r \in Requests, NEW t
    PROVE  /\ Append(q, r) \in Seq(Requests)
           /\ Asks(Append(q, r), t) <=> (Asks(q, t) \/ r.tab = t)
           /\ Once(q, t) /\ (r.tab = t => ~Asks(q, t)) => Once(Append(q, r), t)
<1> DEFINE n == Len(q)
           p == Append(q, r)
<1>1. n \in Nat /\ Len(p) = n + 1 /\ p[n + 1] = r /\ p \in Seq(Requests)
    OBVIOUS
<1>2. \A i \in 1 .. n : p[i] = q[i]
    OBVIOUS
<1>3. \A i \in 1 .. n + 1 : i \in 1 .. n \/ i = n + 1
    BY <1>1
<1>. HIDE DEF n, p
<1>4. Asks(p, t) <=> (Asks(q, t) \/ r.tab = t)
    <2>1. 1 .. n \subseteq 1 .. n + 1 /\ n + 1 \in 1 .. n + 1
        BY <1>1
    <2>. QED
        BY <1>1, <1>2, <1>3, <2>1 DEF Asks, n
<1>5. Once(q, t) /\ (r.tab = t => ~Asks(q, t)) => Once(p, t)
    BY <1>1, <1>2, <1>3 DEF Asks, Once, n
<1>. QED
    BY <1>1, <1>4, <1>5 DEF p

LEMMA ServedRequest ==
    ASSUME NEW q \in Seq(Requests), q # <<>>, NEW t
    PROVE  /\ Tail(q) \in Seq(Requests) /\ Head(q) \in Requests
           /\ Asks(q, Head(q).tab)
           /\ Once(q, t) => Once(Tail(q), t)
           /\ Head(q).tab # t => (Asks(Tail(q), t) <=> Asks(q, t))
           /\ Head(q).tab = t /\ Once(q, t) => ~Asks(Tail(q), t)
<1> DEFINE n == Len(q)
           p == Tail(q)
<1>1. n \in Nat /\ n > 0 /\ Len(p) = n - 1 /\ p \in Seq(Requests) /\ Head(q) = q[1] /\ q[1] \in Requests
    OBVIOUS
<1>2. \A i \in 1 .. n - 1 : p[i] = q[i + 1] /\ i + 1 \in 1 .. n
    OBVIOUS
<1>3. \A i \in 1 .. n : i = 1 \/ (i - 1 \in 1 .. n - 1 /\ q[i] = p[i - 1])
    BY <1>1, <1>2
<1>. HIDE DEF n, p
<1>4. Asks(q, Head(q).tab)
    <2>1. 1 \in 1 .. n
        BY <1>1
    <2>. QED
        BY <1>1, <2>1 DEF Asks, n
<1>5. Once(q, t) => Once(p, t)
    <2> SUFFICES ASSUME Once(q, t), NEW i \in 1 .. n - 1, NEW j \in 1 .. n - 1, p[i].tab = t, p[j].tab = t
                 PROVE  i = j
        BY <1>1 DEF Once
    <2>1. i + 1 = j + 1
        BY <1>2 DEF Once, n
    <2>. QED
        BY <1>1, <2>1
<1>6. Head(q).tab # t => (Asks(p, t) <=> Asks(q, t))
    BY <1>1, <1>2, <1>3 DEF Asks, n
<1>7. Head(q).tab = t /\ Once(q, t) => ~Asks(p, t)
    <2> SUFFICES ASSUME Head(q).tab = t, Once(q, t), NEW i \in 1 .. n - 1, p[i].tab = t PROVE FALSE
        BY <1>1 DEF Asks
    <2>1. i + 1 \in 1 .. n /\ q[i + 1].tab = t /\ 1 \in 1 .. n /\ q[1].tab = t
        BY <1>1, <1>2
    <2>2. i + 1 = 1
        BY <2>1 DEF Once, n
    <2>. QED
        BY <1>1, <2>2
<1>. QED
    BY <1>1, <1>4, <1>5, <1>6, <1>7 DEF p

LEMMA InitWaits == Init => WaitInv
<1> SUFFICES ASSUME Init PROVE WaitInv
    OBVIOUS
<1>1. \A t : ~Asks(<<>>, t) /\ Once(<<>>, t)
    BY DEF Asks, Once
<1>2. \A t \in Tabs : OneRequest(t)
    BY <1>1 DEF Init, OneRequest, Pending
<1>. QED
    BY <1>2 DEF Init, WaitInv, Unused

\* A tab that a step is not about.
LEMMA OtherTab ==
    ASSUME NEW u \in Tabs, OneRequest(u), opens'[u] = opens[u], db'[u] = db[u],
           u \in conns' => u \in conns, Asks(queue', u) <=> Asks(queue, u),
           Once(queue, u) => Once(queue', u)
    PROVE  OneRequest(u)'
    BY DEF OneRequest, Pending, Asks, Once

\* Steps of the browser, and of tabs that open or delete the database.
LEMMA RequestsKeep ==
    ASSUME WaitInv, UNCHANGED <<calls, gone>>, queue' \in Seq(Requests),
           conns' \subseteq Tabs \ gone, erased' \subseteq conns' \cup gone,
           \A t \in conns' : opens'[t] > 0,
           \A t \in Tabs \ (gone \cup erased') : OneRequest(t)'
    PROVE  WaitInv'
    BY DEF WaitInv

\* A tab opens the database for the first time, or again after its deletion.
LEMMA AskToOpen ==
    ASSUME DropInv, WaitInv, NEW t \in Tabs, Load(t) \/ Delete(t)
    PROVE  WaitInv'
<1>1. /\ UNCHANGED <<calls, gone, erased, conns, db>>
      /\ opens' = [opens EXCEPT ![t] = opens[t] + 1] /\ t \notin gone /\ opens[t] < MaxOpens
    BY StorageAssumption DEF Load, Delete, Served
<1>2. opens \in [Tabs -> 0 .. MaxOpens] /\ opens[t] \in Nat /\ opens'[t] = opens[t] + 1
      /\ \A u \in Tabs : u # t => opens'[u] = opens[u]
    BY <1>1, StorageAssumption DEF DropInv, Promises
<1>3. db[t][opens'[t]] = "pending"
    BY <1>1, <1>2, StorageAssumption DEF DropInv, Promises
<1>4. PICK rest \in Seq(Requests) :
        /\ queue' = Append(rest, Request(t, "open"))
        /\ \A u \in Tabs : /\ Once(queue, u) => Once(rest, u)
                           /\ u # t => (Asks(rest, u) <=> Asks(queue, u))
        /\ t \notin erased => ~Asks(rest, t)
        /\ t \notin conns
    <2>1. CASE Load(t)
        <3>1. opens[t] = 0 /\ queue' = Append(queue, Request(t, "open"))
            BY <2>1 DEF Load
        <3>2. t \notin conns /\ (t \notin erased => ~Asks(queue, t))
            BY <1>1, <3>1 DEF WaitInv, OneRequest, Pending
        <3>. QED
            BY <3>1, <3>2 DEF WaitInv
    <2>2. CASE Delete(t)
        <3>1. /\ queue # <<>> /\ Head(queue).tab = t /\ conns = {}
              /\ queue' = Append(Tail(queue), Request(t, "open"))
            BY <2>2 DEF Delete, Served, Request
        <3>2. t \notin erased => Once(queue, t)
            BY <1>1 DEF WaitInv, OneRequest
        <3>. QED
            BY <3>1, <3>2, ServedRequest DEF WaitInv
    <2>. QED
        BY <2>1, <2>2
<1>5. Request(t, "open") \in Requests /\ Request(t, "open").tab = t
    BY DEF Request, Requests
<1>6. queue' \in Seq(Requests)
      /\ \A u \in Tabs : /\ Asks(queue', u) <=> (Asks(rest, u) \/ u = t)
                         /\ Once(rest, u) /\ (u = t => ~Asks(rest, u)) => Once(queue', u)
    BY <1>4, <1>5, AppendedRequest
<1>7. ASSUME NEW u \in Tabs \ (gone \cup erased') PROVE OneRequest(u)'
    <2>1. OneRequest(u)
        BY <1>1 DEF WaitInv
    <2>2. CASE u # t
        BY <1>1, <1>2, <1>4, <1>6, <2>1, <2>2, OtherTab
    <2>3. CASE u = t
        <3>1. Pending(t)'
            BY <1>1, <1>2, <1>3 DEF Pending
        <3>2. Asks(queue', t) /\ Once(queue', t) /\ t \notin conns'
            BY <1>1, <1>4, <1>6, <2>1, <2>3 DEF OneRequest
        <3>. QED
            BY <2>3, <3>1, <3>2 DEF OneRequest, Asks, Once
    <2>. QED
        BY <2>2, <2>3
<1>8. \A u \in conns' : opens'[u] > 0
    BY <1>1, <1>2 DEF WaitInv
<1>. QED
    BY <1>1, <1>6, <1>7, <1>8, RequestsKeep DEF WaitInv

\* The browser finds a newer version, and the tab asks for its deletion.
LEMMA AskToDelete ==
    ASSUME WaitInv, NEW t \in Tabs, VersionError(t) \/ CallDelete(t)
    PROVE  WaitInv'
<1>1. UNCHANGED <<calls, gone, conns, db, opens>>
    BY DEF VersionError, CallDelete, tabVars
<1>2. Request(t, "delete") \in Requests /\ Request(t, "delete").tab = t
    BY DEF Request, Requests
<1>3. CASE VersionError(t)
    <2> DEFINE rest == Tail(queue)
    <2>1. /\ queue # <<>> /\ Head(queue).tab = t /\ t \notin gone /\ erased' = erased
          /\ queue' = Append(rest, Request(t, "delete"))
        BY <1>3 DEF VersionError, Served, Request, AfterVersionError, tabVars
    <2>2. /\ rest \in Seq(Requests) /\ Asks(queue, t)
          /\ \A u \in Tabs : /\ Once(queue, u) => Once(rest, u)
                             /\ u # t => (Asks(rest, u) <=> Asks(queue, u))
          /\ Once(queue, t) => ~Asks(rest, t)
        BY <2>1, ServedRequest DEF WaitInv
    <2>. HIDE DEF rest
    <2>3. queue' \in Seq(Requests)
          /\ \A u \in Tabs : /\ Asks(queue', u) <=> (Asks(rest, u) \/ u = t)
                             /\ Once(rest, u) /\ (u = t => ~Asks(rest, u)) => Once(queue', u)
        BY <2>1, <2>2, <1>2, AppendedRequest
    <2>4. ASSUME NEW u \in Tabs \ (gone \cup erased') PROVE OneRequest(u)'
        <3>1. OneRequest(u)
            BY <2>1 DEF WaitInv
        <3>2. Asks(queue', u) <=> Asks(queue, u)
            BY <2>2, <2>3
        <3>3. Once(queue, u) => Once(queue', u)
            BY <2>2, <2>3
        <3>. QED
            BY <1>1, <3>1, <3>2, <3>3, OtherTab
    <2>. QED
        BY <1>1, <2>1, <2>3, <2>4, RequestsKeep DEF WaitInv
<1>4. CASE CallDelete(t)
    <2>1. /\ t \in conns /\ erased' = erased \cup {t}
          /\ queue' = Append(queue, Request(t, "delete"))
        BY <1>4 DEF CallDelete
    <2>2. queue' \in Seq(Requests)
          /\ \A u \in Tabs : /\ Asks(queue', u) <=> (Asks(queue, u) \/ u = t)
                             /\ Once(queue, u) /\ u # t => Once(queue', u)
        BY <2>1, <1>2, AppendedRequest DEF WaitInv
    <2>3. ASSUME NEW u \in Tabs \ (gone \cup erased') PROVE OneRequest(u)'
        <3>1. OneRequest(u) /\ u # t
            BY <2>1 DEF WaitInv
        <3>. QED
            BY <1>1, <2>2, <3>1, OtherTab
    <2>. QED
        BY <1>1, <2>1, <2>2, <2>3, RequestsKeep DEF WaitInv
<1>. QED
    BY <1>3, <1>4

\* openDB returns.
LEMMA Returned ==
    ASSUME DropInv, WaitInv, NEW t \in Tabs, Open(t) \/ Upgrade(t) \/ OpenFails(t)
    PROVE  WaitInv'
<1>1. /\ UNCHANGED <<calls, gone, erased, opens>>
      /\ queue # <<>> /\ Head(queue).tab = t /\ t \notin gone /\ queue' = Tail(queue)
      /\ conns' \subseteq conns \cup {t} /\ conns \subseteq conns' \cup {t}
      /\ conns \subseteq conns'
    BY DEF Open, Upgrade, OpenFails, Served, Request
<1>2. /\ queue' \in Seq(Requests) /\ Asks(queue, t)
      /\ \A u \in Tabs : /\ Once(queue, u) => Once(queue', u)
                         /\ u # t => (Asks(queue', u) <=> Asks(queue, u))
      /\ Once(queue, t) => ~Asks(queue', t)
    BY <1>1, ServedRequest DEF WaitInv
<1>3. PICK what \in {"conn", "none"} : Settle(t, what)
    BY DEF Open, Upgrade, OpenFails
<1>4. \A u \in Tabs : \A k \in 1 .. MaxOpens :
          db'[u][k] = IF u = t /\ k = opens[t] THEN what
                      ELSE IF u = t /\ k < opens[t] /\ db[u][k] = "pending" THEN "none"
                      ELSE db[u][k]
    BY <1>3 DEF DropInv, Promises, Settle
<1>5. \A u \in Tabs : u # t => db'[u] = db[u]
    BY <1>3 DEF DropInv, Promises, Settle
<1>6. ASSUME NEW u \in Tabs \ (gone \cup erased') PROVE OneRequest(u)'
    <2>1. OneRequest(u)
        BY <1>1 DEF WaitInv
    <2>2. CASE u # t
        BY <1>1, <1>2, <1>5, <2>1, <2>2, OtherTab
    <2>3. CASE u = t
        <3>1. opens[t] \in 0 .. MaxOpens /\ opens'[t] = opens[t]
            BY <1>1 DEF DropInv, Promises
        <3>2. \A k \in 1 .. opens'[t] : db'[t][k] # "pending"
            BY <1>4, <3>1, StorageAssumption
        <3>3. ~Pending(t)'
            BY <3>1, <3>2, StorageAssumption DEF Pending
        <3>4. Once(queue', t) /\ ~Asks(queue', t)
            BY <1>2, <2>1, <2>3 DEF OneRequest
        <3>. QED
            BY <2>3, <3>2, <3>3, <3>4 DEF OneRequest, Asks, Once
    <2>. QED
        BY <2>2, <2>3
<1>7. \A u \in conns' : opens'[u] > 0
    <2>1. t \notin erased => opens[t] > 0
        BY <1>1, <1>2 DEF WaitInv, OneRequest, Pending
    <2>2. t \in erased => opens[t] > 0
        BY <1>1 DEF WaitInv
    <2>. QED
        BY <1>1, <2>1, <2>2 DEF WaitInv
<1>. QED
    BY <1>1, <1>2, <1>6, <1>7, RequestsKeep DEF WaitInv

\* A tab is closed, or a request of one that was.
LEMMA Closed ==
    ASSUME DropInv, WaitInv, NEW t \in Tabs, Close(t) \/ Discard(t)
    PROVE  WaitInv'
<1>1. CASE Close(t)
    <2>1. /\ queue' = queue /\ erased' = erased \ {t} /\ gone' = gone \cup {t}
          /\ conns' = conns \ {t}
          /\ \A u \in Tabs : u # t => opens'[u] = opens[u] /\ db'[u] = db[u]
        BY <1>1 DEF Close, OtherTabs, DropInv, Promises
    <2>2. \A c \in Calls : calls'[c] = IF calls[c].tab = t THEN Over("gone") ELSE calls[c]
        BY <1>1 DEF Close
    <2>3. Over("gone").step = "gone"
        BY IsOver DEF Steps
    <2>4. ASSUME NEW c \in Calls, calls'[c].step = "waiting" PROVE calls'[c].tab \notin gone'
        <3>1. calls[c].tab # t /\ calls'[c] = calls[c]
            BY <2>2, <2>3, <2>4
        <3>. QED
            BY <2>1, <2>4, <3>1 DEF WaitInv
    <2>5. ASSUME NEW u \in Tabs \ (gone' \cup erased') PROVE OneRequest(u)'
        <3>1. u # t /\ OneRequest(u)
            BY <2>1 DEF WaitInv
        <3>. QED
            BY <2>1, <3>1, OtherTab
    <2>6. \A u \in conns' : opens'[u] > 0
        BY <2>1 DEF WaitInv
    <2>. QED
        BY <2>1, <2>4, <2>5, <2>6 DEF WaitInv
<1>2. CASE Discard(t)
    <2>1. /\ UNCHANGED <<calls, gone, erased, conns, db, opens>>
          /\ t \in gone /\ queue # <<>> /\ Head(queue).tab = t /\ queue' = Tail(queue)
        BY <1>2 DEF Discard, tabVars
    <2>2. /\ queue' \in Seq(Requests)
          /\ \A u \in Tabs : /\ Once(queue, u) => Once(queue', u)
                             /\ u # t => (Asks(queue', u) <=> Asks(queue, u))
        BY <2>1, ServedRequest DEF WaitInv
    <2>3. ASSUME NEW u \in Tabs \ (gone \cup erased') PROVE OneRequest(u)'
        BY <2>1, <2>2, OtherTab DEF WaitInv
    <2>. QED
        BY <2>1, <2>2, <2>3, RequestsKeep DEF WaitInv
<1>. QED
    BY <1>1, <1>2

\* The methods ask the browser for nothing.
LEMMA MethodWaits ==
    ASSUME StorageInv, WaitInv, NEW c \in Calls,
           Method(c) \/ Commit(c) \/ Abort(c) \/ \E t \in Tabs : Call(c, t)
    PROVE  WaitInv'
<1>1. CASE Moves(c)
    <2>1. UNCHANGED <<queue, gone, erased, conns, db, opens>>
        BY <1>1, MoveCalls DEF tabVars
    <2>2. calls'[c].step # "waiting" /\ \A d \in Calls : d # c => calls'[d] = calls[d]
        BY <1>1, MoveCalls DEF Running
    <2>3. \A u \in Tabs \ (gone \cup erased) : OneRequest(u)'
        BY <2>1, OtherTab DEF WaitInv
    <2>. QED
        BY <2>1, <2>2, <2>3 DEF WaitInv
<1>2. ASSUME Drop(c) \/ (\E op \in Ops, key \in Keys : Begin(c, op, key)) \/ \E t \in Tabs : Call(c, t)
      PROVE  WaitInv'
    <2>1. UNCHANGED <<queue, gone, erased, conns, db, opens>>
        BY <1>2 DEF Drop, Begin, Call, browserVars, tabVars
    <2>2. \A u \in Tabs \ (gone \cup erased) : OneRequest(u)'
        BY <2>1, OtherTab DEF WaitInv
    <2>3. \A d \in Calls : d # c => calls'[d] = calls[d]
        BY <1>2 DEF Drop, Begin, Call, StorageInv, CallsOK
    <2>4. calls'[c].step = "waiting" => calls'[c].tab \notin gone
        <3>1. CASE Drop(c)
            BY <3>1 DEF Drop, StorageInv, CallsOK, CallType
        <3>2. CASE \E t \in Tabs : Call(c, t)
            <4> PICK t \in Tabs : Call(c, t)
                BY <3>2
            <4> DEFINE k == ThisDb(t)
                       e == db[t][opens[t]] = "pending"
                       new == [Unused EXCEPT !.tab = t, !.awaits = k, !.early = e, !.step = "waiting"]
            <4>1. t \notin gone /\ calls' = [calls EXCEPT ![c] = new]
                BY DEF Call
            <4>. HIDE DEF k, e
            <4>2. new.tab = t
                BY DEF Unused
            <4>. HIDE DEF new
            <4>. QED
                BY <4>1, <4>2 DEF StorageInv, CallsOK
        <3>3. CASE \E op \in Ops, key \in Keys : Begin(c, op, key)
            BY <3>3 DEF Begin, StorageInv, CallsOK, CallType
        <3>. QED
            BY <1>2, <3>1, <3>2, <3>3
    <2>. QED
        BY <2>1, <2>2, <2>3, <2>4 DEF WaitInv
<1>. QED
    BY <1>1, <1>2 DEF Method, Moves

LEMMA NextWaits == StorageInv /\ DropInv /\ WaitInv /\ [Next]_vars => WaitInv'
<1> SUFFICES ASSUME StorageInv, DropInv, WaitInv, [Next]_vars PROVE WaitInv'
    OBVIOUS
<1>1. ASSUME NEW t \in Tabs, Load(t) \/ Browser(t) \/ OpenFails(t) \/ CallDelete(t) \/ Close(t)
      PROVE  WaitInv'
    BY <1>1, AskToOpen, AskToDelete, Returned, Closed DEF Browser
<1>2. ASSUME NEW c \in Calls, Method(c) \/ Commit(c) \/ Abort(c) \/ \E t \in Tabs : Call(c, t)
      PROVE  WaitInv'
    BY <1>2, MethodWaits
<1>3. CASE UNCHANGED vars
    <2>1. \A u \in Tabs \ (gone \cup erased') : OneRequest(u)'
        BY <1>3, OtherTab DEF vars, browserVars, tabVars, WaitInv
    <2>. QED
        BY <1>3, <2>1 DEF vars, browserVars, tabVars, WaitInv
<1>. QED
    BY <1>1, <1>2, <1>3 DEF Next

\* A promise that is pending is waited for by the browser, and a tab that never called
\* deleteDB has no connection then.
LEMMA HeldByOthersOnly == StorageInv /\ DropInv /\ WaitInv => HeldByConnections
<1> SUFFICES ASSUME StorageInv, DropInv, WaitInv, NEW c \in Calls, calls[c].step = "waiting",
                    Awaited(c) = "pending", conns \subseteq {calls[c].tab} \ erased
             PROVE  queue # <<>> /\ Servable(Head(queue))
    BY DEF HeldByConnections, StorageInv, OneWriter
<1> DEFINE t == calls[c].tab
<1>1. t \in Tabs /\ t \notin gone /\ t \notin erased
    BY DEF DropInv, Waiting, WaitInv
<1>2. opens[t] \in 0 .. MaxOpens /\ calls[c].awaits \in 1 .. opens[t]
    BY <1>1, StorageAssumption DEF DropInv, Promises, Waiting
<1>3. Pending(t) /\ t \notin conns /\ Asks(queue, t)
    BY <1>1, <1>2 DEF WaitInv, OneRequest, Awaited
<1>4. conns = {}
    BY <1>3
<1>5. queue # <<>>
    BY <1>3 DEF Asks
<1>. QED
    BY <1>4, <1>5 DEF Servable

\* No call waits for ever while every other tab is closed: what it waits for can happen,
\* for any number of tabs and versions.
THEOREM WaitsAreForOthers == Spec => []HeldByConnections
<1>1. Spec => []WaitInv
    BY InitStorage, NextStorage, InitDrops, NextDrops, InitWaits, NextWaits, PTL DEF Spec
<1>2. Spec => []StorageInv /\ []DropInv
    BY InitStorage, NextStorage, InitDrops, NextDrops, PTL DEF Spec
<1>. QED
    BY <1>1, <1>2, HeldByOthersOnly, PTL

-----------------------------------------------------------------------------
(* Resets come to an end *)

Requested(q, t, what) == \E i \in 1 .. Len(q) : q[i] = Request(t, what)

\* What the browser has to do before a tab that is left alone is served: a step for each
\* request, two more if it will find a newer database, one more for a deletion.
ToServe(t) ==
    Len(queue) + (IF Requested(queue, t, "open") /\ version > versionOf[t] THEN 2
                  ELSE IF Requested(queue, t, "delete") THEN 1 ELSE 0)

\* Each step of the browser brings a tab that is left alone nearer to its end: no reset
\* is followed by another.
ResetsRunOut ==
    [][\A t \in Tabs :
          /\ Alone(t) /\ Alone(t)' /\ t \notin gone /\ opens[t] > 0
          /\ queue' # queue
          => ToServe(t)' < ToServe(t)]_vars

LEMMA AppendedRequested ==
    ASSUME NEW q \in Seq(Requests), NEW r \in Requests, NEW t, NEW what
    PROVE  Requested(Append(q, r), t, what) <=> (Requested(q, t, what) \/ r = Request(t, what))
<1> DEFINE n == Len(q)
           p == Append(q, r)
<1>1. n \in Nat /\ Len(p) = n + 1 /\ p[n + 1] = r
    OBVIOUS
<1>2. \A i \in 1 .. n : p[i] = q[i]
    OBVIOUS
<1>3. /\ \A i \in 1 .. n + 1 : i \in 1 .. n \/ i = n + 1
      /\ 1 .. n \subseteq 1 .. n + 1 /\ n + 1 \in 1 .. n + 1
    BY <1>1
<1>. HIDE DEF n, p
<1>. QED
    BY <1>1, <1>2, <1>3 DEF Requested, n, p

LEMMA ServedRequested ==
    ASSUME NEW q \in Seq(Requests), q # <<>>, NEW t, NEW what
    PROVE  /\ Head(q).tab # t => (Requested(Tail(q), t, what) <=> Requested(q, t, what))
           /\ Head(q) = Request(t, what) => Requested(q, t, what)
<1> DEFINE n == Len(q)
           p == Tail(q)
<1>1. n \in Nat /\ n > 0 /\ Len(p) = n - 1 /\ Head(q) = q[1]
    OBVIOUS
<1>2. \A i \in 1 .. n - 1 : p[i] = q[i + 1] /\ i + 1 \in 1 .. n
    OBVIOUS
<1>3. \A i \in 1 .. n : i = 1 \/ (i - 1 \in 1 .. n - 1 /\ q[i] = p[i - 1])
    BY <1>1, <1>2
<1>4. 1 \in 1 .. n
    BY <1>1
<1>5. Request(t, what).tab = t
    BY DEF Request
<1> DEFINE r == Request(t, what)
<1>. HIDE DEF n, p, r
<1>6. ASSUME Head(q).tab # t
      PROVE  (\E i \in 1 .. Len(p) : p[i] = r) <=> (\E i \in 1 .. n : q[i] = r)
    <2>1. q[1] # r
        BY <1>1, <1>5, <1>6 DEF r
    <2>2. ASSUME NEW i \in 1 .. n, q[i] = r PROVE \E k \in 1 .. Len(p) : p[k] = r
        BY <1>1, <1>3, <2>1, <2>2
    <2>3. ASSUME NEW i \in 1 .. Len(p), p[i] = r PROVE \E k \in 1 .. n : q[k] = r
        BY <1>1, <1>2, <2>3
    <2>. QED
        BY <2>2, <2>3
<1>7. ASSUME Head(q) = r
      PROVE  \E i \in 1 .. n : q[i] = r
    BY <1>1, <1>4, <1>7
<1>. QED
    BY <1>6, <1>7 DEF Requested, n, p, r

LEMMA RequestedAsks == ASSUME NEW q, NEW t, NEW what, Requested(q, t, what) PROVE Asks(q, t)
    BY DEF Requested, Asks, Request

Versioned == versionOf \in Deployments

LEMMA VersionsStay == (Init => Versioned) /\ (Versioned /\ [Next]_vars => Versioned')
<1>1. Init => Versioned
    BY DEF Init, Versioned
<1>2. [Next]_vars => UNCHANGED versionOf
    BY DEF Next, Browser, Method, Load, Open, Upgrade, VersionError, Delete, Discard, OpenFails,
           CallDelete, Close, Call, Drop, Begin, Found, Refuse, Write, PutOne, PutsEnd, Commit, Abort, vars
<1>. QED
    BY <1>1, <1>2 DEF Versioned

LEMMA ServingAlone ==
    ASSUME WaitInv, Versioned, [Next]_vars, NEW t \in Tabs, Alone(t), Alone(t)',
           t \notin gone, opens[t] > 0, queue' # queue
    PROVE  ToServe(t)' < ToServe(t)
<1>1. OneRequest(t) /\ queue \in Seq(Requests) /\ versionOf[t] \in Nat \ {0}
    BY StorageAssumption DEF WaitInv, Alone, Versioned
<1>2. ASSUME NEW u \in Tabs, Discard(u)
      PROVE  ToServe(t)' < ToServe(t)
    <2>1. /\ queue # <<>> /\ Head(queue).tab # t /\ queue' = Tail(queue)
          /\ UNCHANGED <<version, versionOf>>
        BY <1>2 DEF Discard
    <2>2. /\ Requested(queue', t, "open") <=> Requested(queue, t, "open")
          /\ Requested(queue', t, "delete") <=> Requested(queue, t, "delete")
        BY <1>1, <2>1, ServedRequested
    <2>3. Len(queue) \in Nat /\ Len(queue') = Len(queue) - 1
        BY <1>1, <2>1
    <2> DEFINE extra == IF Requested(queue, t, "open") /\ version > versionOf[t] THEN 2
                        ELSE IF Requested(queue, t, "delete") THEN 1 ELSE 0
    <2>4. extra \in Nat /\ extra' = extra
        BY <2>1, <2>2
    <2>. HIDE DEF extra
    <2>5. ToServe(t) = Len(queue) + extra /\ ToServe(t)' = Len(queue') + extra'
        BY DEF ToServe, extra
    <2>. QED
        BY <2>3, <2>4, <2>5
<1>3. ASSUME NEW u \in Tabs,
             Open(u) \/ Upgrade(u) \/ OpenFails(u) \/ VersionError(u) \/ Delete(u)
      PROVE  ToServe(t)' < ToServe(t)
    <2>1. u = t
        BY <1>3 DEF Open, Upgrade, OpenFails, VersionError, Delete, Served, Alone
    <2>2. queue # <<>> /\ Head(queue).tab = t
        BY <1>3, <2>1 DEF Open, Upgrade, OpenFails, VersionError, Delete, Served, Request
    <2> DEFINE rest == Tail(queue)
    <2>3. /\ Len(queue) \in Nat /\ Len(rest) = Len(queue) - 1 /\ rest \in Seq(Requests)
          /\ \A what : ~Requested(rest, t, what)
        BY <1>1, <2>2, ServedRequest, RequestedAsks DEF OneRequest
    <2>. HIDE DEF rest
    <2>4. CASE Open(u) \/ Upgrade(u) \/ OpenFails(u)
        <3>1. queue' = rest
            BY <2>4 DEF Open, Upgrade, OpenFails, rest
        <3>. QED
            BY <2>3, <3>1 DEF ToServe
    <2>5. CASE VersionError(u)
        <3>1. /\ queue' = Append(rest, Request(t, "delete")) /\ version > versionOf[t]
              /\ Head(queue) = Request(t, "open")
            BY <2>1, <2>5 DEF VersionError, Served, AfterVersionError, rest
        <3>2. Requested(queue, t, "open")
            BY <1>1, <2>2, <3>1, ServedRequested
        <3>3. Request(t, "delete") \in Requests /\ Request(t, "delete") # Request(t, "open")
            BY DEF Request, Requests
        <3>4. ~Requested(queue', t, "open") /\ Len(queue') = Len(queue)
            BY <2>3, <3>1, <3>3, AppendedRequested
        <3>. QED
            BY <2>3, <3>1, <3>2, <3>4 DEF ToServe
    <2>6. CASE Delete(u)
        <3>1. /\ queue' = Append(rest, Request(t, "open")) /\ version' = 0
              /\ versionOf' = versionOf /\ Head(queue) = Request(t, "delete")
            BY <2>1, <2>6 DEF Delete, Served, rest
        <3>2. Requested(queue, t, "delete")
            BY <1>1, <2>2, <3>1, ServedRequested
        <3>3. Request(t, "open") \in Requests /\ Request(t, "delete") # Request(t, "open")
            BY DEF Request, Requests
        <3>4. ~Requested(queue', t, "delete") /\ Len(queue') = Len(queue)
            BY <2>3, <3>1, <3>3, AppendedRequested
        <3>5. ~(version' > versionOf'[t])
            BY <1>1, <3>1
        <3>. QED
            BY <2>3, <3>2, <3>4, <3>5 DEF ToServe
    <2>. QED
        BY <1>3, <2>4, <2>5, <2>6
<1>4. \A u \in Tabs : ~Load(u) /\ ~CallDelete(u)
    <2>1. \A u \in Tabs : Load(u) => u = t
        BY DEF Load, Alone
    <2>2. \A u \in Tabs : CallDelete(u) => u = t
        BY DEF CallDelete, Alone, WaitInv
    <2>. QED
        BY <2>1, <2>2 DEF Load, CallDelete, Alone
<1>5. /\ \A u \in Tabs : ~Close(u)
      /\ \A c \in Calls : ~Method(c) /\ ~Commit(c) /\ ~Abort(c) /\ \A u \in Tabs : ~Call(c, u)
    BY DEF Close, Method, Drop, Begin, Found, Refuse, Write, PutOne, PutsEnd, Commit, Abort, Call,
           browserVars
<1>6. ~UNCHANGED vars
    BY DEF vars, browserVars
<1>. QED
    BY <1>2, <1>3, <1>4, <1>5, <1>6 DEF Next, Browser

\* Where only one tab is left, which did not call deleteDB itself, the browser serves it
\* after finitely many steps: after one reset at most.
THEOREM ResetsComeToAnEnd == Spec => ResetsRunOut
<1>1. WaitInv /\ Versioned /\ [Next]_vars =>
        [\A t \in Tabs :
            /\ Alone(t) /\ Alone(t)' /\ t \notin gone /\ opens[t] > 0
            /\ queue' # queue
            => ToServe(t)' < ToServe(t)]_vars
    BY ServingAlone
<1>2. Spec => []WaitInv
    BY InitStorage, NextStorage, InitDrops, NextDrops, InitWaits, NextWaits, PTL DEF Spec
<1>3. Spec => []Versioned
    BY VersionsStay, PTL DEF Spec
<1>. QED
    BY <1>1, <1>2, <1>3, PTL DEF Spec, ResetsRunOut

-----------------------------------------------------------------------------
(* The methods act at one moment *)

\* Whoever has opened the database and is not closed is connected.
Connected ==
    \A t \in Tabs \ gone : \A k \in 1 .. MaxOpens : db[t][k] = "conn" => t \in conns

Had(key) == \E i \in before : i.key = key
Rest(key) == {i \in before : i.key # key}
Made(c, key) == Item(c, IF keyed THEN key ELSE "none", TRUE)

\* Part of a list is put.
SomePut(c) ==
    \E put \in SUBSET Keys :
        items = (IF keyed THEN {i \in before : i.key \notin put} ELSE before)
                \cup {Made(c, key) : key \in put}

\* What a transaction that has done its work makes of what was stored when it began.
Effect(c, op, key) ==
    \/ /\ op = "add"
       /\ \/ ~Had(key) /\ items = before \cup {Made(c, key)}
          \/ keyed /\ Had(key) /\ items = before
          \/ ~keyed /\ items \in {before, before \cup {Made(c, key)}}
    \/ op = "create" /\ ~(keyed /\ Had(key)) /\ items = before \cup {Made(c, key)}
    \/ op = "put" /\ ~keyed /\ \E truthy \in BOOLEAN : items = Rest(key) \cup {Item(c, key, truthy)}
    \/ op = "puts" /\ SomePut(c)
    \/ op = "del" /\ items = Rest(key)
    \/ op = "clear" /\ items = {}

\* How far a transaction has come by the step of its call.
Progress(c, op, key, step) ==
    \/ step = "found" /\ op = "add" /\ Had(key) /\ items = before
    \/ step = "writing" /\ op = "add" /\ (keyed => ~Had(key)) /\ items = before
    \/ step = "writing" /\ op \in Ops \ {"add", "puts"} /\ items = before
    \/ step = "writing" /\ op = "puts" /\ SomePut(c)
    \/ step = "written" /\ op = "create" /\ Effect(c, op, key)
    \/ step = "done" /\ op # "create" /\ Effect(c, op, key)
    \/ step = "rejected" /\ op = "puts" /\ Effect(c, op, key)

\* A method within its transaction has a connection, so that no upgrade and no deletion
\* comes before its end, and has changed what was stored as far as its step says.
AtWork(c) ==
    LET call == calls[c] IN
    /\ call.tab \in conns /\ call.op \in Ops /\ call.key \in Keys
    /\ Progress(c, call.op, call.key, call.step)

StoreInv == Connected /\ \A c \in Calls : writer = c => AtWork(c)

LEMMA InitStore == Init => StoreInv /\ Store!Init
<1> SUFFICES ASSUME Init PROVE StoreInv /\ Store!Init
    OBVIOUS
<1>1. \A c \in Calls : calls[c].step = "unused" /\ writer # c
    BY StorageAssumption DEF Init, Unused, Free
<1>2. StoreInv
    BY <1>1 DEF Init, StoreInv, Connected
<1>3. Store!Init
    BY <1>1 DEF Init, Ended, Store!Init, Store!Nothing, Asked, Outcome, Saved
<1>. QED
    BY <1>2, <1>3

\* An upgrade or a deletion finds no method at work.
LEMMA NoneAtWork ==
    ASSUME StorageInv, StoreInv, conns = {} PROVE writer = Free
    BY DEF StorageInv, OneWriter, StoreInv, AtWork

\* Steps that leave the transaction alone.
LEMMA WorkStays ==
    ASSUME NEW c \in Calls, AtWork(c), calls'[c] = calls[c], UNCHANGED <<keyed, items, before>>,
           calls[c].tab \in conns => calls[c].tab \in conns'
    PROVE  AtWork(c)'
<1> PICK op, key, step : op = calls[c].op /\ key = calls[c].key /\ step = calls[c].step
    OBVIOUS
<1>1. /\ SomePut(c)' <=> SomePut(c)
      /\ Had(key)' <=> Had(key)
      /\ Rest(key)' = Rest(key) /\ Made(c, key)' = Made(c, key)
    BY DEF SomePut, Had, Rest, Made, Item
<1>2. Effect(c, op, key)' <=> Effect(c, op, key)
    BY <1>1 DEF Effect, Item
<1>3. Progress(c, op, key, step)' <=> Progress(c, op, key, step)
    BY <1>1, <1>2 DEF Progress
<1>. QED
    BY <1>3 DEF AtWork

LEMMA BrowserStore ==
    ASSUME StorageInv, DropInv, WaitInv, StoreInv, NEW t \in Tabs,
           Load(t) \/ Browser(t) \/ OpenFails(t) \/ CallDelete(t)
    PROVE  StoreInv'
<1>1. UNCHANGED <<keyed, writer, before, calls, gone>> /\ conns \subseteq conns'
    BY DEF Load, Browser, Open, Upgrade, VersionError, Delete, Discard, OpenFails, CallDelete, tabVars,
           storeVars
<1>2. Connected'
    <2>1. CASE UNCHANGED db
        BY <1>1, <2>1 DEF StoreInv, Connected
    <2>2. CASE Open(t) \/ Upgrade(t) \/ OpenFails(t)
        <3>1. PICK what \in {"conn", "none"} : Settle(t, what) /\ (what = "conn" => t \in conns')
            BY <2>2 DEF Open, Upgrade, OpenFails
        <3>2. \A u \in Tabs : \A k \in 1 .. MaxOpens :
                  db'[u][k] = IF u = t /\ k = opens[t] THEN what
                              ELSE IF u = t /\ k < opens[t] /\ db[u][k] = "pending" THEN "none"
                              ELSE db[u][k]
            BY <3>1 DEF DropInv, Promises, Settle
        <3>. QED
            BY <1>1, <3>1, <3>2 DEF StoreInv, Connected
    <2>. QED
        BY <2>1, <2>2 DEF Load, Browser, VersionError, Delete, Discard, CallDelete, tabVars
<1>3. CASE items' = items
    <2>1. ASSUME NEW c \in Calls, writer' = c PROVE AtWork(c)'
        BY <1>1, <1>3, <2>1, WorkStays DEF StoreInv
    <2>. QED
        BY <1>2, <2>1 DEF StoreInv
<1>4. CASE conns = {}
    BY <1>1, <1>2, <1>4, NoneAtWork, StorageAssumption DEF StoreInv, Free
<1>. QED
    BY <1>3, <1>4 DEF Load, Browser, Open, Upgrade, VersionError, Delete, Discard, OpenFails, CallDelete,
                      storeVars

LEMMA CloseStore ==
    ASSUME StorageInv, DropInv, StoreInv, NEW t \in Tabs, Close(t)
    PROVE  StoreInv'
<1>1. /\ keyed' = keyed /\ gone' = gone \cup {t} /\ conns' = conns \ {t}
      /\ \A c \in Calls : calls'[c] = IF calls[c].tab = t THEN Over("gone") ELSE calls[c]
      /\ \A u \in Tabs : u # t => db'[u] = db[u]
    BY DEF Close, OtherTabs, DropInv, Promises
<1>2. Connected'
    BY <1>1 DEF StoreInv, Connected
<1>3. ASSUME NEW c \in Calls, writer' = c PROVE AtWork(c)'
    <2>1. ~(writer # Free /\ calls[writer].tab = t)
        BY <1>3, StorageAssumption DEF Close, EndTransaction, Free
    <2>2. UNCHANGED storeVars /\ writer = c
        BY <1>3, <2>1 DEF Close, storeVars
    <2>3. calls'[c] = calls[c] /\ calls[c].tab # t
        BY <1>1, <2>1, <2>2, StorageAssumption DEF Free
    <2>. QED
        BY <1>1, <2>2, <2>3, WorkStays DEF storeVars, StoreInv
<1>. QED
    BY <1>2, <1>3 DEF StoreInv

LEMMA BeginStore ==
    ASSUME StorageInv, DropInv, WaitInv, StoreInv, NEW c \in Calls, NEW op \in Ops, NEW key \in Keys,
           Begin(c, op, key)
    PROVE  StoreInv'
<1>1. UNCHANGED <<keyed, gone, conns, db, items>> /\ Connected' /\ writer' = c /\ before' = items
    <2>1. UNCHANGED <<keyed, gone, conns, db, items>> /\ writer' = c /\ before' = items
        BY DEF Begin, tabVars
    <2>. QED
        BY <2>1 DEF StoreInv, Connected
<1>2. /\ calls'[c].op = op /\ calls'[c].key = key /\ calls'[c].tab = calls[c].tab
      /\ calls'[c].step = IF op = "add" /\ Seen(key) THEN "found" ELSE "writing"
    BY DEF Begin, StorageInv, CallsOK, CallType
<1>3. calls[c].tab \in conns
    <2>1. /\ calls[c].tab \in Tabs \ gone /\ calls[c].awaits \in 1 .. MaxOpens
          /\ db[calls[c].tab][calls[c].awaits] = "conn"
        BY DEF Begin, Awaited, DropInv, Waiting, WaitInv
    <2>. QED
        BY <2>1 DEF StoreInv, Connected
<1>4. Seen(key) => Had(key)'
    BY <1>1 DEF Seen, Had
<1>5. keyed /\ ~Seen(key) => ~Had(key)'
    BY <1>1 DEF Seen, Had, StorageInv, Sound
<1>6. op = "puts" => SomePut(c)'
    <2>1. items' = (IF keyed' THEN {i \in before' : i.key \notin {}} ELSE before')
                   \cup {Made(c, k)' : k \in {}}
        BY <1>1
    <2>. QED
        BY <2>1 DEF SomePut
<1> PICK step : step = calls'[c].step
    OBVIOUS
<1>7. Progress(c, op, key, step)'
    <2>1. CASE op = "add" /\ Seen(key)
        BY <1>1, <1>2, <1>4, <2>1 DEF Progress
    <2>2. CASE op = "add" /\ ~Seen(key)
        BY <1>1, <1>2, <1>5, <2>2 DEF Progress
    <2>3. CASE op # "add"
        BY <1>1, <1>2, <1>6, <2>3 DEF Progress
    <2>. QED
        BY <2>1, <2>2, <2>3
<1>8. AtWork(c)'
    BY <1>1, <1>2, <1>3, <1>7 DEF AtWork
<1>. QED
    BY <1>1, <1>8 DEF StoreInv

\* Each step of a transaction takes it further, and its last one ends it.
LEMMA MoveStore ==
    ASSUME StorageInv, StoreInv, NEW c \in Calls, Moves(c)
    PROVE  StoreInv'
<1>1. Connected'
    BY MoveCalls DEF tabVars, StoreInv, Connected
<1>2. CASE writer' = Free
    BY <1>1, <1>2, StorageAssumption DEF StoreInv, Free
<1>3. CASE writer' # Free
    <2> PICK op, key, step, next :
            /\ op = calls[c].op /\ key = calls[c].key
            /\ step = calls[c].step /\ next = calls'[c].step
        OBVIOUS
    <2>1. /\ writer = c /\ writer' = c /\ UNCHANGED <<keyed, conns, before>>
          /\ calls'[c].op = op /\ calls'[c].key = key /\ calls'[c].tab = calls[c].tab
        BY <1>3, MoveCalls
    <2>2. AtWork(c) /\ Progress(c, op, key, step) /\ op \in Ops /\ key \in Keys
        BY <2>1 DEF StoreInv, AtWork
    <2>3. /\ \A k : Had(k)' = Had(k) /\ Rest(k)' = Rest(k)
          /\ \A k : Made(c, k)' = Made(c, k)
        BY <2>1 DEF Had, Rest, Made
    <2>4. Progress(c, op, key, next)'
        <3>1. CASE Found(c)
            <4>1. step = "found" /\ next = "done" /\ items' = items
                BY <3>1, GoesOn DEF Found, browserVars, storeVars, StorageInv, Steps
            <4>2. Effect(c, op, key)'
                BY <2>1, <2>2, <2>3, <4>1 DEF Progress, Effect
            <4>. QED
                BY <2>2, <4>1, <4>2 DEF Progress
        <3>2. CASE Write(c)
            <4>1. /\ step = "writing" /\ ~Refused(c) /\ op # "puts"
                  /\ next = IF op = "create" THEN "written" ELSE "done"
                BY <3>2, GoesOn DEF Write, StorageInv, Steps
            <4>2. items = before /\ (keyed /\ op = "add" => ~Had(key))
                BY <2>2, <4>1 DEF Progress
            <4>3. \A k : (Had(k) <=> Has(k)) /\ Rest(k) = Without(k)
                BY <4>2 DEF Had, Has, Rest, Without
            <4>4. ~Had(key) => Rest(key) = before
                BY DEF Had, Rest
            <4>5. Effect(c, op, key)'
                <5>1. CASE op \in {"add", "create"}
                    <6>1. items' = Add(c, key) /\ (keyed => ~Had(key))
                        BY <3>2, <4>1, <4>2, <4>3, <5>1 DEF Write, Refused
                    <6>2. items' = before \cup {Made(c, key)}
                        BY <4>2, <4>3, <4>4, <6>1 DEF Add, Made
                    <6>. QED
                        BY <2>1, <2>3, <5>1, <6>1, <6>2 DEF Effect
                <5>2. CASE op = "put"
                    <6>1. ~keyed
                        BY <4>1, <5>2 DEF Refused
                    <6>2. \E truthy \in BOOLEAN : items' = Rest(key) \cup {Item(c, key, truthy)}
                        BY <3>2, <4>3, <5>2 DEF Write
                    <6>. QED
                        BY <2>1, <2>3, <5>2, <6>1, <6>2 DEF Effect, Item
                <5>3. CASE op \in {"del", "clear"}
                    BY <2>1, <2>3, <3>2, <4>3, <5>3 DEF Write, Effect
                <5>. QED
                    BY <3>2, <5>1, <5>2, <5>3 DEF Write
            <4>. QED
                BY <4>1, <4>5 DEF Progress
        <3>3. CASE \E k \in Keys : PutOne(c, k)
            <4> PICK k \in Keys : PutOne(c, k)
                BY <3>3
            <4>1. step = "writing" /\ op = "puts" /\ calls' = calls /\ items' = Add(c, k)
                  /\ next = "writing"
                BY DEF PutOne
            <4>2. SomePut(c)
                BY <2>2, <4>1 DEF Progress
            <4> PICK put \in SUBSET Keys :
                    items = (IF keyed THEN {i \in before : i.key \notin put} ELSE before)
                            \cup {Made(c, l) : l \in put}
                BY <4>2 DEF SomePut
            <4> DEFINE more == put \cup {k}
            <4>3. {Made(c, l) : l \in more} = {Made(c, l) : l \in put} \cup {Made(c, k)}
                OBVIOUS
            <4>4. ASSUME ~keyed
                  PROVE  items' = before \cup {Made(c, l) : l \in more}
                BY <4>1, <4>3, <4>4 DEF Add, Made
            <4>5. ASSUME keyed
                  PROVE  items' = {i \in before : i.key \notin more} \cup {Made(c, l) : l \in more}
                <5>1. \A l : Made(c, l).key = l
                    BY <4>5 DEF Made, Item
                <5>2. items' = {i \in items : i.key # k} \cup {Made(c, k)}
                    BY <4>1, <4>5 DEF Add, Without, Made
                <5>3. {i \in items : i.key # k} =
                         {i \in before : i.key \notin more} \cup ({Made(c, l) : l \in put} \ {Made(c, k)})
                    <6>1. items = {i \in before : i.key \notin put} \cup {Made(c, l) : l \in put}
                        BY <4>5
                    <6>2. \A l \in put : Made(c, l).key # k <=> Made(c, l) # Made(c, k)
                        BY <5>1 DEF Made, Item
                    <6>. QED
                        BY <6>1, <6>2
                <5>. QED
                    BY <4>3, <5>2, <5>3
            <4>6. more \in SUBSET Keys /\ {Made(c, l)' : l \in more} = {Made(c, l) : l \in more}
                BY <2>3
            <4>7. items' = (IF keyed' THEN {i \in before' : i.key \notin more} ELSE before')
                           \cup {Made(c, l)' : l \in more}
                BY <2>1, <4>4, <4>5, <4>6
            <4>. HIDE DEF more
            <4>8. SomePut(c)'
                BY <4>6, <4>7 DEF SomePut
            <4>. QED
                BY <4>1, <4>8 DEF Progress
        <3>4. CASE PutsEnd(c)
            <4>1. /\ step = "writing" /\ op = "puts" /\ items' = items
                  /\ next \in {"done", "rejected"}
                BY <3>4, GoesOn DEF PutsEnd, browserVars, storeVars, StorageInv, Steps
            <4>2. SomePut(c)
                BY <2>2, <4>1 DEF Progress
            <4>3. SomePut(c)'
                BY <2>1, <4>1, <4>2 DEF SomePut, Made
            <4>. QED
                BY <4>1, <4>3 DEF Progress, Effect
        <3>5. ~Refuse(c) /\ ~Commit(c) /\ ~Abort(c)
            BY <1>3 DEF Refuse, Commit, Abort, EndTransaction
        <3>. QED
            BY <3>1, <3>2, <3>3, <3>4, <3>5 DEF Moves
    <2>5. AtWork(c)'
        BY <2>1, <2>2, <2>4 DEF AtWork
    <2>. QED
        BY <1>1, <2>1, <2>5 DEF StoreInv
<1>. QED
    BY <1>2, <1>3

LEMMA NextStore == StorageInv /\ DropInv /\ WaitInv /\ StoreInv /\ [Next]_vars => StoreInv'
<1> SUFFICES ASSUME StorageInv, DropInv, WaitInv, StoreInv, [Next]_vars PROVE StoreInv'
    OBVIOUS
<1>1. ASSUME NEW c \in Calls, Drop(c) \/ \E t \in Tabs : Call(c, t)
      PROVE  StoreInv'
    <2>1. /\ UNCHANGED <<keyed, items, before, writer, gone, conns, db>>
          /\ calls[c].step \in {"waiting", "unused"}
        <3>1. UNCHANGED <<keyed, items, before, writer, gone, conns, db>>
            BY <1>1 DEF Drop, Call, browserVars, storeVars, tabVars
        <3>2. calls[c].step = "waiting" \/ calls[c] = Unused
            BY <1>1 DEF Drop, Call
        <3>. QED
            BY <3>1, <3>2 DEF Unused
    <2>2. \A d \in Calls : d # c => calls'[d] = calls[d]
        BY <1>1 DEF Drop, Call, StorageInv, CallsOK
    <2>3. writer # c
        BY <2>1, StorageAssumption DEF StorageInv, OneWriter, Running, Free
    <2>4. ASSUME NEW d \in Calls, writer' = d PROVE AtWork(d)'
        BY <2>1, <2>2, <2>3, <2>4, WorkStays DEF StoreInv
    <2>. QED
        BY <2>1, <2>4 DEF StoreInv, Connected
<1>2. CASE UNCHANGED vars
    <2>1. ASSUME NEW d \in Calls, writer' = d PROVE AtWork(d)'
        BY <1>2, <2>1, WorkStays DEF vars, browserVars, storeVars, StoreInv
    <2>. QED
        BY <1>2, <2>1 DEF vars, browserVars, tabVars, StoreInv, Connected
<1>. QED
    BY <1>1, <1>2, BrowserStore, CloseStore, BeginStore, MoveStore DEF Next, Method, Moves

\* What the store's clients see of a step that is about one call.
LEMMA OneCall ==
    ASSUME NEW c \in Calls, \A d \in Calls : d # c => calls'[d] = calls[d],
           writer \in {c, Free}, writer' \in {c, Free}
    PROVE  /\ Asked' = [Asked EXCEPT ![c] = Asked'[c]]
           /\ Outcome' = [Outcome EXCEPT ![c] = Outcome'[c]]
<1>1. \A d \in Calls : d # c => Asked'[d] = Asked[d] /\ Outcome'[d] = Outcome[d]
    BY StorageAssumption DEF Asked, Outcome, Ended, Free
<1>. QED
    BY <1>1 DEF Asked, Outcome

\* The steps of a transaction: the method returns, or nothing can be told.
LEMMA WorkIsHidden ==
    ASSUME StorageInv, StoreInv, NEW c \in Calls, Found(c) \/ Write(c) \/ PutsEnd(c)
    PROVE  UNCHANGED Store!svars \/ \E how \in {"done", "rejected"} : Store!Return(c, how)
<1> PICK op, key, step, next :
        /\ op = calls[c].op /\ key = calls[c].key
        /\ step = calls[c].step /\ next = calls'[c].step
    OBVIOUS
<1>1. /\ writer = c /\ writer' = c /\ UNCHANGED <<keyed, before>>
      /\ calls'[c].op = op /\ calls'[c].key = key
      /\ \A d \in Calls : d # c => calls'[d] = calls[d]
    <2>1. writer' = writer
        BY DEF Found, Write, PutsEnd, browserVars, storeVars
    <2>2. c # Free
        BY StorageAssumption DEF Free
    <2>. QED
        BY <2>1, <2>2, MoveCalls DEF Moves, Found, Write, PutsEnd, browserVars, storeVars
<1>2. op \in Ops /\ Progress(c, op, key, step)
    BY <1>1 DEF StoreInv, AtWork
<1>3. /\ step \in {"found", "writing"}
      /\ next = IF op = "create" THEN "written" ELSE IF op = "puts" THEN next ELSE "done"
      /\ next \in {"written", "done"} \/ (op = "puts" /\ next = "rejected")
      /\ op = "put" => ~keyed
    <2>1. CASE Found(c)
        <3>1. step = "found" /\ next = "done"
            BY <2>1, GoesOn DEF Found, StorageInv, Steps
        <3>. QED
            BY <1>2, <3>1 DEF Progress
    <2>2. CASE Write(c)
        <3>1. step = "writing" /\ op # "puts" /\ next = IF op = "create" THEN "written" ELSE "done"
            BY <2>2, GoesOn DEF Write, StorageInv, Steps
        <3>. QED
            BY <2>2, <3>1 DEF Write, Refused
    <2>3. CASE PutsEnd(c)
        BY <2>3, GoesOn DEF PutsEnd, StorageInv, Steps
    <2>. QED
        BY <2>1, <2>2, <2>3
<1>4. Saved' = Saved /\ Asked' = Asked
    <2>1. Asked'[c] = Asked[c]
        BY <1>1 DEF Asked
    <2>. QED
        BY <1>1, <2>1, OneCall, StorageAssumption DEF Saved, Asked, Free
<1>5. Outcome[c] = "none" /\ Asked[c] = [op |-> op, key |-> key] /\ op # "none"
    BY <1>1, <1>2, <1>3, StorageAssumption DEF Outcome, Ended, Asked
<1>6. CASE next = "written"
    <2>1. Outcome'[c] = Outcome[c]
        BY <1>5, <1>6 DEF Outcome, Ended
    <2>2. Outcome' = Outcome
        BY <1>1, <2>1, OneCall DEF Outcome
    <2>. QED
        BY <1>1, <1>4, <2>2 DEF Store!svars
<1>7. CASE next # "written"
    <2>1. next \in {"done", "rejected"} /\ Outcome'[c] = next
        BY <1>3, <1>7 DEF Outcome, Ended
    <2>2. Outcome' = [Outcome EXCEPT ![c] = next]
        BY <1>1, <2>1, OneCall
    <2>3. next = "done" => op # "create" /\ ~Store!Refused(c)
        BY <1>3, <1>5, <1>7 DEF Store!Refused
    <2>4. next = "rejected" => op = "puts"
        BY <1>3
    <2>5. Asked[c] # Store!Nothing /\ Asked[c].op = op
        BY <1>5 DEF Store!Nothing
    <2>6. Store!Return(c, next)
        BY <1>1, <1>4, <1>5, <2>1, <2>2, <2>3, <2>4, <2>5 DEF Store!Return
    <2>. QED
        BY <2>1, <2>6
<1>. QED
    BY <1>6, <1>7

\* The commit of its transaction is the moment at which a method acts.
LEMMA CommitActs ==
    ASSUME StorageInv, StoreInv, NEW c \in Calls, Commit(c)
    PROVE  Store!Act(c)
<1> PICK op, key, step :
        op = calls[c].op /\ key = calls[c].key /\ step = calls[c].step
    OBVIOUS
<1>1. /\ writer = c /\ writer' = Free /\ UNCHANGED <<keyed, items>>
      /\ step \in {"written", "done", "rejected"}
      /\ \A d \in Calls : d # c => calls'[d] = calls[d]
    BY MoveCalls DEF Moves, Commit, EndTransaction
<1>2. op \in Ops /\ Progress(c, op, key, step)
    BY <1>1 DEF StoreInv, AtWork
<1>3. Effect(c, op, key) /\ (step = "written" <=> op = "create")
    BY <1>1, <1>2 DEF Progress
<1>4. calls'[c].step = IF step = "written" THEN "done" ELSE step
    <2>1. PICK how \in Steps : how = (IF step = "written" THEN "done" ELSE step)
        BY <1>1 DEF Steps
    <2>2. calls' = [calls EXCEPT ![c] = Over(how)]
        BY <2>1 DEF Commit
    <2>3. Over(how).step = how
        BY IsOver
    <2>. QED
        BY <2>1, <2>2, <2>3 DEF StorageInv, CallsOK
<1>5. /\ Saved = before /\ Saved' = items
      /\ Asked[c].op = op /\ Asked[c].key = key /\ Asked' = [Asked EXCEPT ![c] = Store!Nothing]
    <2>1. Asked'[c] = Store!Nothing
        BY <1>1, StorageAssumption DEF Asked, Store!Nothing, Free
    <2>2. Asked' = [Asked EXCEPT ![c] = Asked'[c]]
        BY <1>1, OneCall
    <2>. QED
        BY <1>1, <2>1, <2>2, StorageAssumption DEF Saved, Asked, Free
<1>6. /\ op = "create" => Outcome[c] = "none" /\ Outcome' = [Outcome EXCEPT ![c] = "done"]
      /\ op # "create" => Outcome[c] # "none" /\ Outcome' = Outcome
    <2>1. Outcome' = [Outcome EXCEPT ![c] = Outcome'[c]]
        BY <1>1, OneCall
    <2>2. /\ op = "create" => Outcome[c] = "none" /\ Outcome'[c] = "done"
          /\ op # "create" => Outcome[c] = step /\ Outcome'[c] = step /\ step # "none"
        BY <1>1, <1>3, <1>4 DEF Outcome, Ended
    <2>. QED
        BY <2>1, <2>2 DEF Outcome
<1>7. Store!Acts(c)
    BY <1>1, <1>5, <1>6 DEF Store!Acts
<1>8. /\ Store!Stored(key) <=> Had(key)
      /\ Store!Others(key) = Rest(key)
      /\ \A k : Store!Item(c, k) = Made(c, k)
    BY <1>5 DEF Store!Stored, Store!Others, Store!Item, Had, Rest, Made, Item
<1>9. CASE op = "add"
    <2>1. \/ ~Had(key) /\ items = before \cup {Made(c, key)}
          \/ keyed /\ Had(key) /\ items = before
          \/ ~keyed /\ items \in {before, before \cup {Made(c, key)}}
        BY <1>3, <1>9 DEF Effect
    <2>. QED
        BY <1>5, <1>7, <1>8, <1>9, <2>1 DEF Store!Add, Store!Act
<1>10. CASE op = "create"
    <2>1. ~(keyed /\ Had(key)) /\ items = before \cup {Made(c, key)}
        BY <1>3, <1>10 DEF Effect
    <2>. QED
        BY <1>5, <1>7, <1>8, <1>10, <2>1 DEF Store!Create, Store!Refused, Store!Act
<1>11. CASE op = "put"
    <2>1. ~keyed /\ \E truthy \in BOOLEAN : items = Rest(key) \cup {Item(c, key, truthy)}
        BY <1>3, <1>11 DEF Effect
    <2>. QED
        BY <1>5, <1>7, <1>8, <1>11, <2>1 DEF Store!Put, Item, Store!Act
<1>12. CASE op = "puts"
    <2>1. PICK put \in SUBSET Keys :
            items = (IF keyed THEN {i \in before : i.key \notin put} ELSE before)
                    \cup {Made(c, k) : k \in put}
        BY <1>3, <1>12 DEF Effect, SomePut
    <2>2. {Made(c, k) : k \in put} = {Store!Item(c, k) : k \in put}
        BY <1>8
    <2>3. Saved' = (IF keyed THEN {i \in Saved : i.key \notin put} ELSE Saved)
                   \cup {Store!Item(c, k) : k \in put}
        BY <1>5, <2>1, <2>2
    <2>. QED
        BY <1>5, <1>7, <1>12, <2>3 DEF Store!PutSome, Store!Act
<1>13. CASE op = "del"
    <2>1. items = Rest(key)
        BY <1>3, <1>13 DEF Effect
    <2>. QED
        BY <1>5, <1>7, <1>8, <1>13, <2>1 DEF Store!Remove, Store!Act
<1>14. CASE op = "clear"
    <2>1. items = {}
        BY <1>3, <1>14 DEF Effect
    <2>. QED
        BY <1>5, <1>7, <1>14, <2>1 DEF Store!Clear, Store!Act
<1>. QED
    BY <1>2, <1>9, <1>10, <1>11, <1>12, <1>13, <1>14, StorageAssumption

\* A refusal and an abort leave what was stored as it was.
LEMMA EndsWithout ==
    ASSUME StorageInv, StoreInv, NEW c \in Calls, Refuse(c) \/ Abort(c)
    PROVE  Store!Refuse(c) \/ Store!Lose(c)
<1> PICK op, key, step, next :
        /\ op = calls[c].op /\ key = calls[c].key
        /\ step = calls[c].step /\ next = calls'[c].step
    OBVIOUS
<1>1. /\ writer = c /\ writer' = Free /\ keyed' = keyed /\ items' = before
      /\ step \in {"found", "writing", "written", "done", "rejected"}
      /\ \A d \in Calls : d # c => calls'[d] = calls[d]
    BY MoveCalls DEF Moves, Refuse, Abort, EndTransaction, Running
<1>2. op \in Ops /\ Progress(c, op, key, step)
    BY <1>1 DEF StoreInv, AtWork
<1>3. /\ Saved = before /\ Saved' = before
      /\ Asked[c] = [op |-> op, key |-> key] /\ Asked' = [Asked EXCEPT ![c] = Store!Nothing]
    <2>1. Asked'[c] = Store!Nothing
        BY <1>1, StorageAssumption DEF Asked, Store!Nothing, Free
    <2>2. Asked' = [Asked EXCEPT ![c] = Asked'[c]]
        BY <1>1, OneCall
    <2>. QED
        BY <1>1, <2>1, <2>2, StorageAssumption DEF Saved, Asked, Free
<1>4. Asked[c] # Store!Nothing /\ Asked[c].op = op /\ Asked[c].key = key
    BY <1>2, <1>3, StorageAssumption DEF Store!Nothing
<1>5. Outcome' = [Outcome EXCEPT ![c] = Outcome'[c]]
    BY <1>1, OneCall
<1>6. CASE Refuse(c)
    <2>1. step = "writing" /\ Refused(c)
        BY <1>6 DEF Refuse
    <2>2. next = "rejected"
        <3> DEFINE new == [Over("rejected") EXCEPT !.op = calls[c].op]
        <3>1. new.step = "rejected" /\ calls' = [calls EXCEPT ![c] = new]
            BY <1>6 DEF Refuse, Over, Unused
        <3>. HIDE DEF new
        <3>. QED
            BY <3>1 DEF StorageInv, CallsOK
    <2>3. Outcome[c] = "none" /\ Outcome'[c] = "rejected"
        BY <2>1, <2>2 DEF Outcome, Ended
    <2>4. keyed /\ (op = "put" \/ (op = "create" /\ Had(key)))
        <3>1. op = "create" => items = before
            BY <1>2, <2>1 DEF Progress
        <3>2. op # "add"
            BY <2>1 DEF Refused, StorageInv, LookupHolds
        <3>. QED
            BY <2>1, <3>1, <3>2 DEF Refused, Has, Had
    <2>5. Store!Refused(c)
        BY <1>3, <1>4, <2>4 DEF Store!Refused, Store!Stored, Had
    <2>. QED
        BY <1>1, <1>3, <1>5, <2>3, <2>5 DEF Store!Refuse
<1>7. CASE Abort(c)
    <2>1. next = IF step \in {"done", "rejected"} THEN step ELSE "aborted"
        <3>1. PICK how \in Steps : how = (IF step \in {"done", "rejected"} THEN step ELSE "aborted")
            BY <1>1 DEF Steps
        <3>2. calls' = [calls EXCEPT ![c] = Over(how)]
            BY <1>7, <3>1 DEF Abort
        <3>3. Over(how).step = how
            BY IsOver
        <3>. QED
            BY <3>1, <3>2, <3>3 DEF StorageInv, CallsOK
    <2>2. Outcome'[c] = IF Outcome[c] = "none" THEN "aborted" ELSE Outcome[c]
        BY <1>1, <2>1 DEF Outcome, Ended
    <2>3. Outcome' = [Outcome EXCEPT ![c] = IF @ = "none" THEN "aborted" ELSE @]
        BY <1>5, <2>2 DEF Outcome
    <2>. QED
        BY <1>1, <1>3, <1>4, <2>3 DEF Store!Lose
<1>. QED
    BY <1>6, <1>7

\* Every step is a step of the store, or none.
LEMMA StoreStep ==
    StorageInv /\ DropInv /\ StoreInv /\ [Next]_vars => [Store!Next]_(Store!svars)
<1> SUFFICES ASSUME StorageInv, DropInv, StoreInv, [Next]_vars
             PROVE  Store!Next \/ UNCHANGED Store!svars
    BY DEF Store!svars
<1>1. ASSUME NEW t \in Tabs, Load(t) \/ Browser(t) \/ OpenFails(t) \/ CallDelete(t)
      PROVE  Store!Next \/ UNCHANGED Store!svars
    <2>1. UNCHANGED <<keyed, calls, writer, before>>
        BY <1>1 DEF Load, Browser, Open, Upgrade, VersionError, Delete, Discard, OpenFails, CallDelete,
                    storeVars
    <2>2. Asked' = Asked /\ Outcome' = Outcome
        BY <2>1 DEF Asked, Outcome, Ended
    <2>3. CASE items' = items
        BY <2>1, <2>2, <2>3 DEF Store!svars, Saved
    <2>4. CASE items' = {} /\ conns = {}
        <3>1. writer = Free
            BY <2>4, NoneAtWork
        <3>2. \A c \in Calls : Asked[c] = Store!Nothing
            BY <3>1, StorageAssumption DEF Asked, Store!Nothing, Free
        <3>3. Saved' = {}
            BY <2>1, <2>4, <3>1 DEF Saved
        <3>. QED
            BY <2>1, <2>2, <3>2, <3>3 DEF Store!Wipe, Store!Next
    <2>. QED
        BY <1>1, <2>3, <2>4
           DEF Load, Browser, Open, Upgrade, VersionError, Delete, Discard, OpenFails, CallDelete, storeVars
<1>2. ASSUME NEW t \in Tabs, Close(t)
      PROVE  Store!Next
    <2> DEFINE S == {c \in Calls : calls[c].tab = t}
    <2>1. keyed' = keyed
          /\ \A c \in Calls : calls'[c] = IF c \in S THEN Over("gone") ELSE calls[c]
        BY <1>2 DEF Close
    <2>2. /\ writer \in S => writer' = Free /\ items' = before
          /\ writer \notin S => UNCHANGED <<writer, items, before>>
        BY <1>2, StorageAssumption DEF Close, EndTransaction, storeVars, Free, StorageInv, OneWriter
    <2>3. S \in SUBSET Calls /\ Free \notin Calls
        BY StorageAssumption DEF Free
    <2>. HIDE DEF S
    <2>4. Over("gone").step = "gone"
        BY IsOver DEF Steps
    <2>5. Asked' = [c \in Calls |-> IF c \in S THEN Store!Nothing ELSE Asked[c]]
        BY <2>1, <2>2, <2>3 DEF Asked, Store!Nothing
    <2>6. Outcome' = [c \in Calls |-> IF c \in S THEN "gone" ELSE Outcome[c]]
        BY <2>1, <2>4 DEF Outcome, Ended
    <2>7. Saved' = Saved
        BY <2>2, <2>3 DEF Saved
    <2>. QED
        BY <2>1, <2>3, <2>5, <2>6, <2>7 DEF Store!Abandon, Store!Next
<1>3. ASSUME NEW c \in Calls, NEW t \in Tabs, Call(c, t)
      PROVE  UNCHANGED Store!svars
    <2>1. /\ UNCHANGED <<keyed, items, writer, before>> /\ calls[c].step = "unused"
          /\ \A d \in Calls : d # c => calls'[d] = calls[d]
        <3>1. calls[c] = Unused
            BY <1>3 DEF Call
        <3>2. UNCHANGED <<keyed, items, writer, before>> /\ \A d \in Calls : d # c => calls'[d] = calls[d]
            BY <1>3 DEF Call, browserVars, storeVars, StorageInv, CallsOK
        <3>. QED
            BY <3>1, <3>2 DEF Unused
    <2>2. calls'[c].step = "waiting"
        BY <1>3 DEF Call, StorageInv, CallsOK, Unused
    <2>3. writer # c
        BY <2>1, StorageAssumption DEF StorageInv, OneWriter, Running, Free
    <2>4. Asked' = Asked /\ Outcome' = Outcome /\ Saved' = Saved
        BY <2>1, <2>2, <2>3 DEF Asked, Outcome, Ended, Saved
    <2>. QED
        BY <2>1, <2>4 DEF Store!svars
<1>4. ASSUME NEW c \in Calls, Drop(c)
      PROVE  Store!Next
    <2>1. /\ UNCHANGED <<keyed, items, writer, before>>
          /\ calls[c].step = "waiting" /\ calls'[c].step = "dropped"
          /\ \A d \in Calls : d # c => calls'[d] = calls[d]
        BY <1>4 DEF Drop, browserVars, storeVars, StorageInv, CallsOK, CallType
    <2>2. writer # c
        BY <2>1, StorageAssumption DEF StorageInv, OneWriter, Running, Free
    <2>3. /\ Asked' = Asked /\ Asked[c] = Store!Nothing /\ Saved' = Saved
          /\ Outcome[c] = "none" /\ Outcome' = [Outcome EXCEPT ![c] = "dropped"]
        BY <2>1, <2>2 DEF Asked, Outcome, Ended, Saved, Store!Nothing
    <2>. QED
        BY <2>1, <2>3 DEF Store!Ignore, Store!Next
<1>5. ASSUME NEW c \in Calls, NEW op \in Ops, NEW key \in Keys, Begin(c, op, key)
      PROVE  Store!Next
    <2>1. /\ UNCHANGED <<keyed, items>> /\ writer = Free /\ writer' = c /\ before' = items
          /\ calls[c].step = "waiting"
          /\ calls'[c].op = op /\ calls'[c].key = key /\ calls'[c].step \in {"found", "writing"}
          /\ \A d \in Calls : d # c => calls'[d] = calls[d]
        BY <1>5 DEF Begin, WriterFree, StorageInv, CallsOK, CallType
    <2>2. /\ Asked[c] = Store!Nothing /\ Asked'[c] = [op |-> op, key |-> key]
          /\ Outcome[c] = "none" /\ Outcome'[c] = Outcome[c] /\ Saved' = Saved
        BY <2>1, StorageAssumption DEF Asked, Outcome, Ended, Saved, Store!Nothing, Free
    <2>3. Outcome' = Outcome
        BY <2>1, <2>2 DEF Outcome, Ended
    <2>. QED
        BY <2>1, <2>2, <2>3, OneCall DEF Store!Ask, Store!Next
<1>6. ASSUME NEW c \in Calls, Found(c) \/ Write(c) \/ PutsEnd(c)
      PROVE  Store!Next \/ UNCHANGED Store!svars
    BY <1>6, WorkIsHidden DEF Store!Next
<1>7. ASSUME NEW c \in Calls, NEW key \in Keys, PutOne(c, key)
      PROVE  UNCHANGED Store!svars
    <2>1. UNCHANGED <<keyed, writer, before, calls>> /\ writer # Free
        BY <1>7, MoveCalls, StorageAssumption DEF Moves, PutOne, Free
    <2>. QED
        BY <2>1 DEF Store!svars, Asked, Outcome, Ended, Saved
<1>8. ASSUME NEW c \in Calls, Commit(c) \/ Refuse(c) \/ Abort(c)
      PROVE  Store!Next
    BY <1>8, CommitActs, EndsWithout DEF Store!Next
<1>9. CASE UNCHANGED vars
    BY <1>9 DEF vars, browserVars, storeVars, Store!svars, Asked, Outcome, Ended, Saved
<1>. QED
    BY <1>1, <1>2, <1>3, <1>4, <1>5, <1>6, <1>7, <1>8, <1>9 DEF Next, Method

\* The methods of any number of tabs act on the store at one moment each or not at all:
\* addItem's lookup and its write cannot be told from a single moment, a list is put at
\* once, an aborted transaction leaves nothing behind, and none acts on a store that is
\* being upgraded or deleted.  For createTransactions that moment comes before it is done;
\* for the others it may come after they have returned, or never.
THEOREM StorageIsItemStore == Spec => ImplementsItemStore
<1>1. Spec => []StorageInv /\ []DropInv
    BY InitStorage, NextStorage, InitDrops, NextDrops, PTL DEF Spec
<1>2. Spec => []WaitInv
    BY InitStorage, NextStorage, InitDrops, NextDrops, InitWaits, NextWaits, PTL DEF Spec
<1>3. Spec => []StoreInv /\ Store!Init
    BY <1>1, <1>2, InitStore, NextStore, PTL DEF Spec
<1>. QED
    BY <1>1, <1>3, StoreStep, PTL DEF Spec, ImplementsItemStore
=============================================================================
