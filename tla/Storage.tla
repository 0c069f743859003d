------------------------------- MODULE Storage -------------------------------
(***************************************************************************)
(* IndexedDB (idb.ts): browser tabs, perhaps running different versions of *)
(* an application, share one database.  this.db is a promise that every    *)
(* method awaits once; a database of a newer version is deleted and opened *)
(* again under a new promise, while callers wait for the old one.  The     *)
(* browser, which serves requests to open or delete a database in order    *)
(* and waits for other connections to close, is external.                  *)
(***************************************************************************)
EXTENDS Naturals, Sequences, FiniteSets

CONSTANTS
    Tabs,
    Deployments,    \* versions that the tabs may open: [Tabs -> version]
    Versions,       \* the database may have in the beginning, 0 if there is none
    Calls,          \* calls of the methods that write
    Ops,            \* those methods: addItem ("add"), putItem ("put"), deleteItem ("del"),
                    \* clearStore ("clear"), createTransactions ("create") and
                    \* createMultipleTransactions ("puts")
    Keys,
    MaxOpens        \* bound: openDB runs of a tab

ASSUME StorageAssumption ==
    /\ Deployments \subseteq [Tabs -> Nat \ {0}]
    /\ Versions \subseteq Nat /\ MaxOpens \in Nat \ {0}
    /\ Ops \subseteq {"add", "put", "del", "clear", "create", "puts"}
    /\ "free" \notin Calls

VARIABLES
    versionOf,  \* the version each tab opens
    keyed,      \* the store has a keyPath
    version,    \* of the database
    items,      \* stored: a key, or none for one the browser made up, the writer, and
                \* whether JavaScript takes the value for true
    conns,      \* tabs with an open connection
    queue,      \* the browser's requests for this database
    writer,     \* the call whose readwrite transaction runs
    before,     \* what was stored when it began, {} while none runs
    opens,      \* openDB runs of a tab; the last one is this.db
    db,         \* what each of them resolves with: "pending", "conn" or "none"
    gone,       \* tabs that were closed
    erased,     \* history: open tabs that called deleteDB themselves
    failed,     \* history: open tabs whose openDB met another error
    calls       \* each call: where, what, which promise it awaits, how far

storeVars == <<items, writer, before>>
browserVars == <<version, conns, queue, storeVars>>
tabVars == <<opens, db, gone, erased, failed>>
vars == <<versionOf, keyed, browserVars, tabVars, calls>>

Free == "free"
Unused == [tab |-> "none", op |-> "none", key |-> "none", awaits |-> 0, early |-> FALSE, step |-> "unused"]
\* Of a call that is over nothing else is kept.
Over(how) == [Unused EXCEPT !.step = how]
Request(t, what) == [tab |-> t, what |-> what]
OtherTabs(t) == conns \ {t}

Init ==
    /\ versionOf \in Deployments /\ keyed \in BOOLEAN /\ version \in Versions
    /\ items = {} /\ conns = {} /\ queue = <<>> /\ writer = Free /\ before = {}
    /\ opens = [t \in Tabs |-> 0]
    /\ db = [t \in Tabs |-> [k \in 1 .. MaxOpens |-> "pending"]]
    /\ gone = {} /\ erased = {} /\ failed = {}
    /\ calls = [c \in Calls |-> Unused]

-----------------------------------------------------------------------------
(* openDB and deleteDB *)

\* The constructor.
Load(t) ==
    /\ opens[t] = 0 /\ t \notin gone
    /\ opens' = [opens EXCEPT ![t] = 1]
    /\ queue' = Append(queue, Request(t, "open"))
    /\ UNCHANGED <<versionOf, keyed, version, conns, storeVars, db, gone, erased, failed, calls>>

\* Mutant: a run of openDB that awaits deleteDB never returns.
SettleLast(t, what) == db' = [db EXCEPT ![t][opens[t]] = what]

\* The last openDB returns what; those that await a deleteDB return undefined after it.
Settle(t, what) ==
    db' = [db EXCEPT ![t] = [k \in 1 .. MaxOpens |->
              IF k = opens[t] THEN what
              ELSE IF k < opens[t] /\ @[k] = "pending" THEN "none" ELSE @[k]]]

Served(t, what) == t \notin gone /\ queue # <<>> /\ Head(queue) = Request(t, what)

Open(t) ==
    /\ Served(t, "open") /\ version = versionOf[t]
    /\ queue' = Tail(queue)
    /\ conns' = conns \cup {t}
    /\ Settle(t, "conn")
    /\ UNCHANGED <<versionOf, keyed, version, storeVars, opens, gone, erased, failed, calls>>

\* upgrade deletes all stores and creates them anew.
Upgrade(t) ==
    /\ Served(t, "open") /\ version < versionOf[t] /\ conns = {}
    /\ queue' = Tail(queue)
    /\ version' = versionOf[t] /\ items' = {}
    /\ conns' = {t}
    /\ Settle(t, "conn")
    /\ UNCHANGED <<versionOf, keyed, writer, before, opens, gone, erased, failed, calls>>

\* Mutant: the database is opened again without being deleted.
RetryOpen == "open"

AfterVersionError == "delete"

\* 'less than the existing version'
VersionError(t) ==
    /\ Served(t, "open") /\ version > versionOf[t]
    /\ queue' = Append(Tail(queue), Request(t, AfterVersionError))
    /\ UNCHANGED <<versionOf, keyed, version, conns, storeVars, tabVars, calls>>

\* No idb library, no support for mutations, or any other error: undefined.
OpenFails(t) ==
    /\ Served(t, "open")
    /\ queue' = Tail(queue)
    /\ failed' = failed \cup {t}
    /\ Settle(t, "none")
    /\ UNCHANGED <<versionOf, keyed, version, conns, storeVars, opens, gone, erased, calls>>

\* deleteDB, once no connection is open: this.db = this.openDB()
Delete(t) ==
    /\ Served(t, "delete") /\ conns = {} /\ opens[t] < MaxOpens
    /\ version' = 0 /\ items' = {}
    /\ opens' = [opens EXCEPT ![t] = @ + 1]
    /\ queue' = Append(Tail(queue), Request(t, "open"))
    /\ UNCHANGED <<versionOf, keyed, conns, writer, before, db, gone, erased, failed, calls>>

\* The application calls deleteDB; its own connection stays open.
CallDelete(t) ==
    /\ t \in conns /\ t \notin erased
    /\ erased' = erased \cup {t}
    /\ queue' = Append(queue, Request(t, "delete"))
    /\ UNCHANGED <<versionOf, keyed, version, conns, storeVars, opens, db, gone, failed, calls>>

\* Of the transaction that runs, what is stored is left.
EndTransaction(stored) == writer' = Free /\ before' = {} /\ items' = stored

\* The tab is closed, or crashes: its transaction is aborted, its memory gone.
Close(t) ==
    /\ opens[t] > 0 /\ t \notin gone
    /\ gone' = gone \cup {t} /\ conns' = OtherTabs(t)
    /\ IF writer # Free /\ calls[writer].tab = t THEN EndTransaction(before)
                                                ELSE UNCHANGED storeVars
    /\ calls' = [c \in Calls |-> IF calls[c].tab = t THEN Over("gone") ELSE calls[c]]
    /\ opens' = [opens EXCEPT ![t] = 0]
    /\ db' = [db EXCEPT ![t] = [k \in 1 .. MaxOpens |-> "pending"]]
    /\ erased' = erased \ {t} /\ failed' = failed \ {t}
    /\ UNCHANGED <<versionOf, keyed, version, queue>>

\* Its requests are dropped when their turn comes.
Discard(t) ==
    /\ t \in gone /\ queue # <<>> /\ Head(queue).tab = t
    /\ queue' = Tail(queue)
    /\ UNCHANGED <<versionOf, keyed, version, conns, storeVars, tabVars, calls>>

-----------------------------------------------------------------------------
(* The methods *)

\* Mutant: deleteDB leaves this.db as it was.
FirstPromise(t) == 1

ThisDb(t) == opens[t]

\* await this.db.  Which method it is and for which key matters to nobody before its
\* transaction begins, and is chosen there.
Call(c, t) ==
    /\ calls[c] = Unused
    /\ opens[t] > 0 /\ t \notin gone
    /\ calls' = [calls EXCEPT ![c] =
           [Unused EXCEPT !.tab = t, !.awaits = ThisDb(t),
                          !.early = (db[t][opens[t]] = "pending"), !.step = "waiting"]]
    /\ UNCHANGED <<versionOf, keyed, browserVars, tabVars>>

Awaited(c) == db[calls[c].tab][calls[c].awaits]

\* if (!db) return
Drop(c) ==
    /\ calls[c].step = "waiting" /\ Awaited(c) = "none"
    /\ calls' = [calls EXCEPT ![c].step = "dropped"]
    /\ UNCHANGED <<versionOf, keyed, browserVars, tabVars>>

\* Mutant: the key is looked up in a transaction of its own.
WriterAny(c) == TRUE

\* readwrite transactions on one store run one after the other.
WriterFree(c) == writer = Free

Has(key) == \E i \in items : i.key = key

\* isExist: get resolves with the value, which may be 0, '', false or null.
Seen(key) == \E i \in items : i.key = key /\ i.truthy

\* db.transaction(storeName, 'readwrite'), and addItem's get within it.
Begin(c, op, key) ==
    /\ calls[c].step = "waiting" /\ Awaited(c) = "conn"
    /\ WriterFree(c)
    /\ writer' = c /\ before' = items
    /\ calls' = [calls EXCEPT ![c].op = op, ![c].key = key,
                               ![c].step = IF op = "add" /\ Seen(key) THEN "found" ELSE "writing"]
    /\ UNCHANGED <<versionOf, keyed, version, items, conns, queue, tabVars>>

Without(key) == {i \in items : i.key # key}
Item(c, key, truthy) == [key |-> key, by |-> c, truthy |-> truthy]

\* A value for a store with a keyPath carries its key; one without makes a key up.
Add(c, key) == IF keyed THEN Without(key) \cup {Item(c, key, TRUE)}
                        ELSE items \cup {Item(c, "none", TRUE)}

Goto(c, step) == calls' = [calls EXCEPT ![c].step = step]

\* addItem returns; its transaction has still to end.
Found(c) ==
    /\ calls[c].step = "found" /\ Goto(c, "done")
    /\ UNCHANGED <<versionOf, keyed, browserVars, tabVars>>

\* add finds the key in use; put is given a key that a store with a keyPath does not take.
Refused(c) ==
    keyed /\ (calls[c].op = "put" \/ (calls[c].op \in {"add", "create"} /\ Has(calls[c].key)))

\* The transaction is aborted, or ends with nothing done.
Refuse(c) ==
    /\ calls[c].step = "writing" /\ Refused(c)
    /\ EndTransaction(before)
    /\ calls' = [calls EXCEPT ![c] = [Over("rejected") EXCEPT !.op = calls[c].op]]
    /\ UNCHANGED <<versionOf, keyed, version, conns, queue, tabVars>>

\* The request succeeds, and with it the method, but that createTransactions awaits tx.done.
Write(c) ==
    LET call == calls[c] IN
    /\ call.step = "writing" /\ ~Refused(c)
    /\ \/ call.op = "clear" /\ items' = {}
       \/ call.op = "del" /\ items' = Without(call.key)
       \/ call.op \in {"add", "create"} /\ items' = Add(c, call.key)
       \/ /\ call.op = "put"
          /\ \E truthy \in BOOLEAN : items' = Without(call.key) \cup {Item(c, call.key, truthy)}
    /\ Goto(c, IF call.op = "create" THEN "written" ELSE "done")
    /\ UNCHANGED <<versionOf, keyed, version, conns, queue, writer, before, tabVars>>

\* createMultipleTransactions puts one item of its list after another.
PutOne(c, key) ==
    /\ calls[c].step = "writing" /\ calls[c].op = "puts"
    /\ items' = Add(c, key)
    /\ UNCHANGED <<versionOf, keyed, version, conns, queue, writer, before, tabVars, calls>>

\* The list ends, or with an item that cannot be stored, which undoes none of the others.
PutsEnd(c) ==
    /\ calls[c].step = "writing" /\ calls[c].op = "puts"
    /\ \E how \in {"done", "rejected"} : Goto(c, how)
    /\ UNCHANGED <<versionOf, keyed, browserVars, tabVars>>

\* The browser commits the transaction when no request is left in it.
Commit(c) ==
    /\ writer = c /\ calls[c].step \in {"written", "done", "rejected"}
    /\ EndTransaction(items)
    /\ calls' = [calls EXCEPT ![c] = Over(IF @.step = "written" THEN "done" ELSE @.step)]
    /\ UNCHANGED <<versionOf, keyed, version, conns, queue, tabVars>>

\* Or aborts it, at any moment until then: the disk is full, say.
Abort(c) ==
    /\ writer = c
    /\ EndTransaction(before)
    /\ calls' = [calls EXCEPT ![c] =
           Over(IF @.step \in {"done", "rejected"} THEN @.step ELSE "aborted")]
    /\ UNCHANGED <<versionOf, keyed, version, conns, queue, tabVars>>

Browser(t) == Open(t) \/ Upgrade(t) \/ VersionError(t) \/ Delete(t) \/ Discard(t)
Method(c) ==
    \/ Drop(c) \/ (\E op \in Ops, key \in Keys : Begin(c, op, key))
    \/ Found(c) \/ Refuse(c) \/ Write(c) \/ (\E key \in Keys : PutOne(c, key)) \/ PutsEnd(c)

Next ==
    \/ \E t \in Tabs : Load(t) \/ Browser(t) \/ OpenFails(t) \/ CallDelete(t) \/ Close(t)
    \/ \E c \in Calls : Method(c) \/ Commit(c) \/ Abort(c) \/ \E t \in Tabs : Call(c, t)

\* Of what the browser and the methods can do something is done in the end; nobody need
\* close a tab.
Work == (\E t \in Tabs : Browser(t)) \/ \E c \in Calls : Method(c) \/ Commit(c) \/ Abort(c)
Fairness == WF_vars(Work)

Spec == Init /\ [][Next]_vars
FairSpec == Spec /\ Fairness

-----------------------------------------------------------------------------
(* Properties *)

\* addItem, called by several tabs with one key of a store with a keyPath, stores one
\* item, and is refused to none of the callers.
AddsOnce ==
    keyed => /\ \A c \in Calls : calls[c].op = "add" => calls[c].step # "rejected"
             /\ \A i, j \in items : i.key = j.key => i = j

\* A call is silently dropped only if it was made while its tab was still opening the
\* database (it then awaits a promise that a reset has overtaken), or in a tab that
\* could not open the database at all.
DroppedInResetOnly ==
    \A c \in Calls : calls[c].step = "dropped" => calls[c].early \/ calls[c].tab \in failed

Ended(c) == calls[c].step \in {"dropped", "done", "rejected", "aborted", "gone"}

\* What the transactions that are over have stored, what the one that runs is to do, and
\* how the methods ended.
Saved == IF writer = Free THEN items ELSE before
Asked == [c \in Calls |-> IF writer = c THEN [op |-> calls[c].op, key |-> calls[c].key]
                          ELSE [op |-> "none", key |-> "none"]]
Outcome == [c \in Calls |-> IF Ended(c) THEN calls[c].step ELSE "none"]
Store == INSTANCE ItemStore WITH saved <- Saved, asked <- Asked, outcome <- Outcome

\* The methods act on the store at one moment each, although addItem looks its key up in
\* one step and adds in another, a list is put item by item, other tabs call methods too,
\* and any of them may reset the database or crash.  That moment may come after the method
\* has returned, and may not come at all; but once createTransactions is done, it has.
ImplementsItemStore == Store!Init /\ [][Store!Next]_(Store!svars)

\* Requests are served at once, unless they need the database for themselves.
Servable(request) ==
    \/ request.tab \in gone \/ conns = {}
    \/ request.what = "open" /\ version >= versionOf[request.tab]

\* A transaction goes on until it ends: its tab is there.
Running(c) == calls[c].step \in {"found", "writing", "written", "done", "rejected"}

\* A call that waits is kept from its end by an open connection only, one of another tab or
\* one whose own tab called deleteDB: otherwise its promise has settled and its transaction
\* can begin once the one that runs is over, or the browser can serve the request it waits
\* for or one before it.  (Reaching MaxOpens counts as served.)
HeldByConnections ==
    \A c \in Calls : calls[c].step = "waiting" =>
        \/ /\ Awaited(c) # "pending"
           /\ writer = Free \/ Running(writer)
        \/ queue # <<>> /\ Servable(Head(queue))
        \/ \E u \in conns : u # calls[c].tab \/ u \in erased

Alone(t) == t \notin erased /\ Tabs \ {t} \subseteq gone

\* Once the other tabs are closed every call that waits ends, whatever versions they had
\* opened or deleted meanwhile: unless its tab calls deleteDB with its own connection open,
\* which waits for itself.
EndsWhenAlone ==
    \A c \in Calls :
        calls[c].step = "waiting" /\ Alone(calls[c].tab) ~> Ended(c) \/ calls[c].tab \in erased
=============================================================================
