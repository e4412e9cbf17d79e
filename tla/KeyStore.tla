------------------------------ MODULE KeyStore ------------------------------
(***************************************************************************)
(* calleePersistKey.go, the gkvlite file of callee keys, with the          *)
(* goroutines that use it: the index page and the "activateKeys" command   *)
(* (new keys), the /callee: page (a key is used) and BGCleaner (a key is   *)
(* forgotten).                                                             *)
(*                                                                         *)
(* GkvSet and the cleaner take the one token of the channel gkvCanWrite    *)
(* around C.Set and C.Delete, and write the file when they gave it back;   *)
(* GkvGet takes nothing.  All their errors are ignored.  A flush takes the *)
(* collection as it is and then writes it, as a whole or not at all; with  *)
(* the token given back, nothing keeps two of them apart.  A crash of the  *)
(* process loses what is in memory: the collection as changed since the    *)
(* last flush, and MakeKeyMap.                                             *)
(*                                                                         *)
(* A visitor stands for the three keys CreateNewKeys and generateId draw   *)
(* for one load of the index page; they are taken to be fresh.  Of an      *)
(* entry only LastAccessed is kept.  One unit of time is about a month;    *)
(* handlers take no time to speak of, so the clock moves between them.     *)
(***************************************************************************)
EXTENDS Integers, FiniteSets

CONSTANTS Visitors,    \* loads of the index page, with the keys drawn for them
          Workers,     \* goroutines that serve pages and commands
          Cleaner,     \* the goroutine of BGCleaner
          Nobody,      \* no visitor
          MaxIdle,     \* maxEntryIdleTime
          MaxTime,     \* bound: the clock
          MaxCrashes,  \* bound: restarts of the server
          MaxFailures  \* bound: calls of the key store that fail

ASSUME CleanerAssumption == Cleaner \notin Workers
ASSUME NobodyAssumption == Nobody \notin Visitors
ASSUME BoundsAssumption == MaxIdle \in Nat /\ MaxTime \in Nat /\ MaxCrashes \in Nat
                             /\ MaxFailures \in Nat

VARIABLES
    C,            \* the collection in memory: when each key was last accessed
    file,         \* the collection as last flushed to rtcchat.gkv
    gkvCanWrite,  \* tokens in the channel
    MakeKeyMap,   \* the visitors whose keys wait to be activated
    offered,      \* the visitors whose browser shows the page that activates them
    pc,           \* where each goroutine stands
    who,          \* the key a goroutine works on
    user,         \* a goroutine's local copy of an entry
    snapshot,     \* the collection that a goroutine is writing to the file
    visiting,     \* the keys the cleaner's visitor has yet to see
    now,          \* the clock
    crashes,      \* restarts so far
    failures,     \* calls that failed so far
    spoiled,      \* history: a call failed, or a flush began while another wrote
    confirmed,    \* history: visitors that were sent activateConfirm success
    cleaned       \* history: keys the cleaner has deleted

threads == <<pc, who, user, visiting>>
fate == <<failures, spoiled>>
outside == <<now, crashes>>
vars == <<C, file, gkvCanWrite, MakeKeyMap, offered, threads, snapshot, outside, fate,
          confirmed, cleaned>>

Goroutines == Workers \cup {Cleaner}

Missing == -1     \* C.Get finds nothing; GkvGet makes a zero UserInfo of it

Empty == [v \in Visitors |-> Missing]

Stored(v) == C[v] # Missing

Idle(v) == now - C[v] > MaxIdle

-----------------------------------------------------------------------------
Init ==
    /\ C = Empty
    /\ file = Empty
    /\ gkvCanWrite = 1
    /\ MakeKeyMap = {}
    /\ offered = {}
    /\ pc = [g \in Goroutines |-> "idle"]
    /\ who = [g \in Goroutines |-> Nobody]
    /\ user = [g \in Goroutines |-> Missing]
    /\ snapshot = [g \in Goroutines |-> Empty]
    /\ visiting = {}
    /\ now = 0
    /\ crashes = 0
    /\ failures = 0
    /\ spoiled = FALSE
    /\ confirmed = {}
    /\ cleaned = {}

At(g, label) == pc[g] = label

Goto(g, label) == pc' = [pc EXCEPT ![g] = label]

\* The goroutine turns to v's entry, with its new contents at hand.
Begin(g, label, v, entry) ==
    /\ Goto(g, label)
    /\ who' = [who EXCEPT ![g] = v]
    /\ user' = [user EXCEPT ![g] = entry]

Finish(g) ==
    /\ Goto(g, "idle")
    /\ who' = [who EXCEPT ![g] = Nobody]
    /\ user' = [user EXCEPT ![g] = Missing]

\* A call of the key store does its work, or gives an error that nobody looks at.
Works == UNCHANGED fate

Fails ==
    /\ failures < MaxFailures
    /\ failures' = failures + 1
    /\ spoiled' = TRUE

-----------------------------------------------------------------------------
(* New keys.                                                               *)

\* The index page: keys that are not stored, served and noted.  (The page is
\* shorter than the server's buffer, so it leaves after MakeKeyMap is set.)
NewKeys(v) ==
    /\ v \notin offered
    /\ ~Stored(v)
    /\ offered' = offered \cup {v}
    /\ MakeKeyMap' = MakeKeyMap \cup {v}
    /\ UNCHANGED <<C, file, gkvCanWrite, threads, snapshot, outside, fate, confirmed,
                   cleaned>>

\* "activateKeys": StoreNewKeys, if the keys are known ...
Activate(g, v) ==
    /\ At(g, "idle")
    /\ v \in offered
    /\ v \in MakeKeyMap
    /\ Begin(g, "activate", v, now)
    /\ UNCHANGED <<C, file, gkvCanWrite, MakeKeyMap, offered, visiting, snapshot,
                   outside, fate, confirmed, cleaned>>

\* ... and "Please reload page and try again" if they are not.
ActivateFails(g, v) ==
    /\ At(g, "idle")
    /\ v \in offered
    /\ v \notin MakeKeyMap
    /\ offered' = offered \ {v}
    /\ UNCHANGED <<C, file, gkvCanWrite, MakeKeyMap, threads, snapshot, outside, fate,
                   confirmed, cleaned>>

\* StoreNewKeys has returned: the browser goes on to the callee page.
Confirm(g) ==
    /\ At(g, "confirm")
    /\ MakeKeyMap' = MakeKeyMap \ {who[g]}
    /\ confirmed' = confirmed \cup {who[g]}
    /\ Finish(g)
    /\ UNCHANGED <<C, file, gkvCanWrite, offered, visiting, snapshot, outside, fate,
                   cleaned>>

-----------------------------------------------------------------------------
(* A key is used: getPersistedCallerKey.                                   *)

LoadCallee(g, v) ==
    /\ At(g, "idle")
    /\ Stored(v)
    /\ Begin(g, "access", v, now)
    /\ UNCHANGED <<C, file, gkvCanWrite, MakeKeyMap, offered, visiting, snapshot,
                   outside, fate, confirmed, cleaned>>

\* GkvSet waits for the token ...
SetWaits(g) == At(g, "activate") \/ At(g, "access")

TakeToken(g, from, to) ==
    /\ At(g, from)
    /\ gkvCanWrite > 0
    /\ gkvCanWrite' = gkvCanWrite - 1
    /\ Goto(g, to)
    /\ UNCHANGED <<C, file, MakeKeyMap, offered, who, user, visiting, snapshot, outside,
                   fate, confirmed, cleaned>>

\* (Mutant: nobody takes the token.)
SetTakesNoToken(g) ==
    /\ SetWaits(g)
    /\ Goto(g, IF At(g, "activate") THEN "store new" ELSE "store")
    /\ UNCHANGED <<C, file, gkvCanWrite, MakeKeyMap, offered, who, user, visiting,
                   snapshot, outside, fate, confirmed, cleaned>>

SetTakesToken(g) == TakeToken(g, "activate", "store new") \/ TakeToken(g, "access", "store")

InSet(g) == At(g, "store new") \/ At(g, "store")

\* ... changes the collection, if C.Set can, and puts the token back ...
Set(g) ==
    /\ InSet(g)
    /\ \/ Works /\ C' = [C EXCEPT ![who[g]] = user[g]]
       \/ Fails /\ UNCHANGED C
    /\ gkvCanWrite' = gkvCanWrite + 1
    /\ Goto(g, IF At(g, "store new") THEN "flush new" ELSE "flush")
    /\ UNCHANGED <<file, MakeKeyMap, offered, who, user, visiting, snapshot, outside,
                   confirmed, cleaned>>

\* ... and flushes: all of the collection as it is now ...
Flushes(g) == \E label \in {"write new", "write", "write deleted"} : At(g, label)

FlushReads(g, from, to) ==
    /\ At(g, from)
    /\ Goto(g, to)
    /\ snapshot' = [snapshot EXCEPT ![g] = C]
    /\ spoiled' = (spoiled \/ \E h \in Goroutines : Flushes(h))
    /\ UNCHANGED <<C, file, gkvCanWrite, MakeKeyMap, offered, who, user, visiting,
                   outside, failures, confirmed, cleaned>>

\* ... goes to the file, if it can.  (Sync after Flush matters only if the machine dies.)
FlushWrites(g) ==
    /\ \/ Works /\ file' = snapshot[g]
       \/ Fails /\ UNCHANGED file
    /\ snapshot' = [snapshot EXCEPT ![g] = Empty]
    /\ UNCHANGED <<C, gkvCanWrite, MakeKeyMap, offered, visiting, outside, confirmed,
                   cleaned>>

\* (Mutant: StoreNewKeys leaves the flushing to others.)
FlushLater(g) ==
    \/ /\ At(g, "flush new")
       /\ Goto(g, "confirm")
       /\ UNCHANGED <<C, file, gkvCanWrite, MakeKeyMap, offered, who, user, visiting,
                      snapshot, outside, fate, confirmed, cleaned>>
    \/ FlushReads(g, "flush", "write")

Flush(g) == FlushReads(g, "flush new", "write new") \/ FlushReads(g, "flush", "write")

Flushed(g) ==
    /\ \/ At(g, "write new") /\ Goto(g, "confirm") /\ UNCHANGED <<who, user>>
       \/ At(g, "write") /\ Finish(g)
    /\ FlushWrites(g)

-----------------------------------------------------------------------------
(* BGCleaner.                                                              *)

\* Every half an hour: visit the collection as it is now.
WakeUp ==
    /\ At(Cleaner, "idle")
    /\ visiting' = {v \in Visitors : Stored(v)}
    /\ Goto(Cleaner, "visit")
    /\ UNCHANGED <<C, file, gkvCanWrite, MakeKeyMap, offered, who, user, snapshot,
                   outside, fate, confirmed, cleaned>>

\* GkvGet and the comparison.  A key that is gone, or cannot be read, looks as old as
\* can be.
Visit(v) ==
    /\ At(Cleaner, "visit")
    /\ v \in visiting
    /\ visiting' = visiting \ {v}
    /\ \/ /\ Works
          /\ IF Stored(v) => Idle(v) THEN Begin(Cleaner, "remove", v, Missing)
                                     ELSE UNCHANGED <<pc, who, user>>
       \/ Fails /\ Begin(Cleaner, "remove", v, Missing)
    /\ UNCHANGED <<C, file, gkvCanWrite, MakeKeyMap, offered, snapshot, outside,
                   confirmed, cleaned>>

VisitDone ==
    /\ At(Cleaner, "visit")
    /\ visiting = {}
    /\ Finish(Cleaner)
    /\ UNCHANGED <<C, file, gkvCanWrite, MakeKeyMap, offered, visiting, snapshot,
                   outside, fate, confirmed, cleaned>>

DeleteTakesToken == TakeToken(Cleaner, "remove", "delete")

\* (Mutant: the token is not put back.)
DeleteKeepsToken ==
    /\ At(Cleaner, "delete")
    /\ C' = [C EXCEPT ![who[Cleaner]] = Missing]
    /\ cleaned' = cleaned \cup {who[Cleaner]}
    /\ Goto(Cleaner, "flush deleted")
    /\ UNCHANGED <<file, gkvCanWrite, MakeKeyMap, offered, who, user, visiting,
                   snapshot, outside, fate, confirmed>>

Delete ==
    /\ At(Cleaner, "delete")
    /\ \/ /\ Works
          /\ C' = [C EXCEPT ![who[Cleaner]] = Missing]
          /\ cleaned' = cleaned \cup {who[Cleaner]}
       \/ Fails /\ UNCHANGED <<C, cleaned>>
    /\ gkvCanWrite' = gkvCanWrite + 1
    /\ Goto(Cleaner, "flush deleted")
    /\ UNCHANGED <<file, MakeKeyMap, offered, who, user, visiting, snapshot, outside,
                   confirmed>>

\* (Mutant: the file is left to the next GkvSet.)
FlushDeletedNot ==
    /\ At(Cleaner, "flush deleted")
    /\ Begin(Cleaner, "visit", Nobody, Missing)
    /\ UNCHANGED <<C, file, gkvCanWrite, MakeKeyMap, offered, visiting, snapshot,
                   outside, fate, confirmed, cleaned>>

FlushDeleted == FlushReads(Cleaner, "flush deleted", "write deleted")

FlushedDeleted ==
    /\ At(Cleaner, "write deleted")
    /\ Begin(Cleaner, "visit", Nobody, Missing)
    /\ FlushWrites(Cleaner)

-----------------------------------------------------------------------------
(* The world outside.                                                      *)

Tick ==
    /\ now < MaxTime
    /\ \A g \in Goroutines : At(g, "idle")
    /\ now' = now + 1
    /\ UNCHANGED <<C, file, gkvCanWrite, MakeKeyMap, offered, threads, snapshot,
                   crashes, fate, confirmed, cleaned>>

\* The server dies and is started again: GkvInit reads the file.
Crash ==
    /\ crashes < MaxCrashes
    /\ crashes' = crashes + 1
    /\ C' = file
    /\ gkvCanWrite' = 1
    /\ MakeKeyMap' = {}
    /\ pc' = [g \in Goroutines |-> "idle"]
    /\ who' = [g \in Goroutines |-> Nobody]
    /\ user' = [g \in Goroutines |-> Missing]
    /\ visiting' = {}
    /\ snapshot' = [g \in Goroutines |-> Empty]
    /\ UNCHANGED <<file, offered, now, fate, confirmed, cleaned>>

-----------------------------------------------------------------------------
Request(g) == \E v \in Visitors : Activate(g, v) \/ ActivateFails(g, v) \/ LoadCallee(g, v)

\* A goroutine goes on with what it has begun.
Work(g) == Set(g) \/ Flush(g) \/ Flushed(g) \/ Confirm(g)

Clean == \/ WakeUp \/ (\E v \in Visitors : Visit(v)) \/ VisitDone
         \/ Delete \/ FlushDeleted \/ FlushedDeleted

Next == \/ \E v \in Visitors : NewKeys(v)
        \/ \E g \in Workers : Request(g) \/ SetTakesToken(g) \/ Work(g)
        \/ Clean \/ DeleteTakesToken
        \/ Tick \/ Crash

Spec == Init /\ [][Next]_vars

\* Goroutines are scheduled, and a channel serves those who wait in their order.
Fairness == /\ WF_vars(Clean) /\ SF_vars(DeleteTakesToken)
            /\ \A g \in Workers : WF_vars(Work(g)) /\ SF_vars(SetTakesToken(g))

FairSpec == Spec /\ Fairness

-----------------------------------------------------------------------------
(* Properties.                                                             *)

WorkerLabels  == {"idle", "activate", "access", "store new", "store", "flush new",
                  "flush", "write new", "write", "confirm"}
CleanerLabels == {"idle", "visit", "remove", "delete", "flush deleted",
                  "write deleted"}

\* Every variable keeps its type.
TypeOK ==
    /\ C \in [Visitors -> 0..MaxTime \cup {Missing}]
    /\ file \in [Visitors -> 0..MaxTime \cup {Missing}]
    /\ gkvCanWrite \in 0..1
    /\ MakeKeyMap \in SUBSET Visitors
    /\ offered \in SUBSET Visitors
    /\ pc \in [Goroutines -> WorkerLabels \cup CleanerLabels]
    /\ who \in [Goroutines -> Visitors \cup {Nobody}]
    /\ user \in [Goroutines -> 0..MaxTime \cup {Missing}]
    /\ snapshot \in [Goroutines -> [Visitors -> 0..MaxTime \cup {Missing}]]
    /\ visiting \in SUBSET Visitors
    /\ now \in 0..MaxTime
    /\ crashes \in 0..MaxCrashes
    /\ failures \in 0..MaxFailures
    /\ spoiled \in BOOLEAN
    /\ confirmed \in SUBSET Visitors
    /\ cleaned \in SUBSET Visitors

Mutates(g) == InSet(g) \/ At(g, "delete")

\* The collection is changed by one goroutine at a time, as gkvlite requires,
\* and the channel never takes a second token, which would block whoever puts
\* it there (calleePersistKey.go:102-104, 155-159).
OneMutator ==
    /\ \A g, h \in Goroutines : Mutates(g) /\ Mutates(h) => g = h
    /\ \A g \in Goroutines : Mutates(g) => gkvCanWrite = 0

\* As long as no call of the key store fails and no two flushes overlap, keys whose
\* activation was confirmed survive every crash, in memory and in the file, until the
\* cleaner has removed them (calleePersistKey.go:157-162, calleeService.go:219-224).
\* Otherwise they may be confirmed and not stored: nobody looks at an error, and of
\* two overlapping flushes the older collection may reach the file last.
ConfirmedSurvives ==
    ~spoiled => \A v \in confirmed \ cleaned : C[v] # Missing /\ file[v] # Missing

\* Whoever waits for the token gets it and is done with it (calleePersistKey.go:147-164),
\* whatever fails; or a crash ends it all.
WritesEnd == \A g \in Workers : SetWaits(g) ~> At(g, "idle")

\* "after 31 days of no use, delete callee key" (calleePersistKey.go:78): a key
\* that nobody uses any more is removed, in the end from the file as well, also when
\* the server crashes, unless a call failed or flushes overlapped: then the file may
\* keep what the collection has lost, until somebody else flushes or the next start.
IdleKeysGo ==
    \A v \in Visitors :
        (file[v] # Missing /\ now - file[v] > MaxIdle)
            ~> (file[v] = Missing \/ now - file[v] <= MaxIdle \/ spoiled)
=============================================================================
