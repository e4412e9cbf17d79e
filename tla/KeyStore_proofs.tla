--------------------------- MODULE KeyStore_proofs ---------------------------
(***************************************************************************)
(* What KeyStore.tla keeps for any number of visitors and goroutines, any  *)
(* idle time and any number of crashes and failures: one mutator at a      *)
(* time, and, as long as nothing fails and no two flushes overlap,         *)
(* confirmed keys that survive.                                            *)
(***************************************************************************)
EXTENDS KeyStore, TLAPS

Busy == {"activate", "access", "store new", "store", "flush new", "flush", "write new",
         "write", "confirm", "remove", "delete"}
Writing == {"activate", "access", "store new", "store"}

\* A goroutine that is about to write an entry knows which, and what.
CopiesInv == \A g \in Goroutines : /\ pc[g] \in Busy => who[g] \in Visitors
                                   /\ pc[g] \in Writing => user[g] \in 0..MaxTime

\* What the one collection has the other has too, but for what the cleaner deleted.
Within(A, B, gone) == \A v \in Visitors \ gone : A[v] # Missing => B[v] # Missing

\* One flush at a time, and the file lies behind what is being written to it, which
\* lies behind the collection.
DiskInv ==
    /\ \A g, h \in Goroutines : Flushes(g) /\ Flushes(h) => g = h
    /\ Within(file, C, cleaned)
    /\ \A g \in Goroutines : Flushes(g) => /\ Within(file, snapshot[g], cleaned)
                                           /\ Within(snapshot[g], C, cleaned)

\* A new key is in the collection before it is flushed, in what is flushed before it
\* is written, and in the file before it is confirmed, unless the cleaner was faster.
NewInv == \A g \in Goroutines :
    /\ pc[g] = "flush new" => who[g] \in cleaned \/ C[who[g]] # Missing
    /\ pc[g] = "write new" => who[g] \in cleaned \/ snapshot[g][who[g]] # Missing
    /\ pc[g] = "confirm" => who[g] \in cleaned \/ file[who[g]] # Missing

KeptInv == \A v \in confirmed \ cleaned : file[v] # Missing

Promises == ~spoiled => DiskInv /\ NewInv /\ KeptInv

KeysInv == TypeOK /\ CopiesInv /\ Promises

USE DEF Goroutines, Missing

-----------------------------------------------------------------------------
\* The initial state.
LEMMA InitKeys == Init => KeysInv /\ OneMutator
  <1> USE BoundsAssumption, NobodyAssumption
  <1> SUFFICES ASSUME Init PROVE KeysInv /\ OneMutator
    OBVIOUS
  <1>1. TypeOK
    <2>1. Empty \in [Visitors -> 0..MaxTime \cup {Missing}]
      BY DEF Empty
    <2>2. /\ C \in [Visitors -> 0..MaxTime \cup {Missing}]
          /\ file \in [Visitors -> 0..MaxTime \cup {Missing}]
          /\ snapshot \in [Goroutines -> [Visitors -> 0..MaxTime \cup {Missing}]]
      BY <2>1 DEF Init
    <2>3. /\ gkvCanWrite \in 0..1 /\ now \in 0..MaxTime /\ crashes \in 0..MaxCrashes
          /\ failures \in 0..MaxFailures
      BY DEF Init
    <2>4. /\ pc \in [Goroutines -> WorkerLabels \cup CleanerLabels]
          /\ who \in [Goroutines -> Visitors \cup {Nobody}]
          /\ user \in [Goroutines -> 0..MaxTime \cup {Missing}]
      BY DEF Init, WorkerLabels, CleanerLabels
    <2> QED BY <2>2, <2>3, <2>4 DEF Init, TypeOK
  <1>2. CopiesInv
    BY DEF Init, CopiesInv, Busy, Writing
  <1>3. Promises
    BY DEF Init, Promises, DiskInv, NewInv, KeptInv, Within, Flushes, At, Empty
  <1>4. OneMutator
    BY DEF Init, OneMutator, Mutates, InSet, At
  <1> QED BY <1>1, <1>2, <1>3, <1>4 DEF KeysInv

-----------------------------------------------------------------------------
\* The token: every step keeps it with the one goroutine that changes C.
LEMMA TokenStep == TypeOK /\ OneMutator /\ [Next]_vars => OneMutator'
  <1> SUFFICES ASSUME TypeOK, OneMutator, [Next]_vars PROVE OneMutator'
    OBVIOUS
  <1> USE DEF At, InSet, Mutates, Goto
  <1>1. pc \in [Goroutines -> WorkerLabels \cup CleanerLabels] /\ gkvCanWrite \in 0..1
    BY DEF TypeOK
  <1>q. ASSUME gkvCanWrite' = gkvCanWrite, NEW g \in Goroutines, NEW label,
               label \notin {"store new", "store", "delete"},
               pc' = [pc EXCEPT ![g] = label]
        PROVE OneMutator'
    BY <1>1, <1>q DEF OneMutator
  <1>s. ASSUME UNCHANGED <<pc, gkvCanWrite>> PROVE OneMutator'
    BY <1>s DEF OneMutator
  <1>t. ASSUME NEW g \in Goroutines, NEW from, NEW to, TakeToken(g, from, to)
        PROVE OneMutator'
    <2>1. gkvCanWrite # 0 /\ gkvCanWrite' = 0
      BY <1>1, <1>t DEF TakeToken
    <2>2. \A h \in Goroutines : ~Mutates(h)
      BY <2>1 DEF OneMutator
    <2>3. pc' = [pc EXCEPT ![g] = to]
      BY <1>t DEF TakeToken
    <2>4. \A h \in Goroutines : h # g => ~Mutates(h)'
      BY <1>1, <2>2, <2>3
    <2> QED BY <2>1, <2>4 DEF OneMutator
  <1>2. ASSUME NEW v \in Visitors, NewKeys(v) PROVE OneMutator'
    BY <1>2, <1>s DEF NewKeys, threads
  <1>3. ASSUME NEW g \in Workers, NEW v \in Visitors,
               Activate(g, v) \/ ActivateFails(g, v) \/ LoadCallee(g, v)
        PROVE OneMutator'
    BY <1>3, <1>s, <1>q DEF Activate, ActivateFails, LoadCallee, Begin, threads
  <1>4. ASSUME NEW g \in Workers, SetTakesToken(g) PROVE OneMutator'
    BY <1>4, <1>t DEF SetTakesToken
  <1>5. ASSUME NEW g \in Workers, Set(g) PROVE OneMutator'
    BY <1>1, <1>5 DEF Set, OneMutator
  <1>6. ASSUME NEW g \in Workers, Flush(g) PROVE OneMutator'
    BY <1>6, <1>q DEF Flush, FlushReads
  <1>12. ASSUME NEW g \in Workers, Flushed(g) PROVE OneMutator'
    <2>1. gkvCanWrite' = gkvCanWrite
      BY <1>12 DEF Flushed, FlushWrites
    <2>2. \E label \in {"confirm", "idle"} : pc' = [pc EXCEPT ![g] = label]
      BY <1>12 DEF Flushed, Finish
    <2> QED BY <2>1, <2>2, <1>q
  <1>7. ASSUME NEW g \in Workers, Confirm(g) PROVE OneMutator'
    BY <1>7, <1>q DEF Confirm, Finish
  <1>8. ASSUME Clean PROVE OneMutator'
    <2>1. ASSUME Delete PROVE OneMutator'
      BY <1>1, <2>1 DEF Delete, OneMutator
    <2>2. ASSUME NEW v \in Visitors, Visit(v) PROVE OneMutator'
      BY <2>2, <1>s, <1>q DEF Visit, Begin
    <2>3. ASSUME FlushDeleted \/ FlushedDeleted PROVE OneMutator'
      BY <2>3, <1>q DEF FlushDeleted, FlushReads, FlushedDeleted, FlushWrites, Begin
    <2> QED BY <1>8, <2>1, <2>2, <2>3, <1>q DEF Clean, WakeUp, VisitDone, Finish
  <1>9. ASSUME DeleteTakesToken PROVE OneMutator'
    BY <1>9, <1>t DEF DeleteTakesToken
  <1>10. ASSUME Tick \/ UNCHANGED vars PROVE OneMutator'
    BY <1>10, <1>s DEF Tick, threads, vars
  <1>11. ASSUME Crash PROVE OneMutator'
    BY <1>11 DEF Crash, OneMutator
  <1> QED
    BY <1>2, <1>3, <1>4, <1>5, <1>6, <1>7, <1>8, <1>9, <1>10, <1>11, <1>12
    DEF Next, Request, Work

-----------------------------------------------------------------------------
\* Types.  What a goroutine does to its own locals keeps their types.
LEMMA BeginTypes ==
    ASSUME TypeOK, NEW g \in Goroutines, NEW label \in WorkerLabels \cup CleanerLabels,
           NEW v \in Visitors \cup {Nobody}, NEW e \in 0..MaxTime \cup {Missing},
           Begin(g, label, v, e)
    PROVE  /\ pc' \in [Goroutines -> WorkerLabels \cup CleanerLabels]
           /\ who' \in [Goroutines -> Visitors \cup {Nobody}]
           /\ user' \in [Goroutines -> 0..MaxTime \cup {Missing}]
  <1>1. pc' \in [Goroutines -> WorkerLabels \cup CleanerLabels]
    BY DEF TypeOK, Begin, Goto
  <1>2. who' \in [Goroutines -> Visitors \cup {Nobody}]
    BY DEF TypeOK, Begin
  <1>3. user' \in [Goroutines -> 0..MaxTime \cup {Missing}]
    BY DEF TypeOK, Begin
  <1> QED BY <1>1, <1>2, <1>3

LEMMA FinishTypes ==
    ASSUME TypeOK, NEW g \in Goroutines, Finish(g)
    PROVE  /\ pc' \in [Goroutines -> WorkerLabels \cup CleanerLabels]
           /\ who' \in [Goroutines -> Visitors \cup {Nobody}]
           /\ user' \in [Goroutines -> 0..MaxTime \cup {Missing}]
  <1>1. Begin(g, "idle", Nobody, Missing)
    BY DEF Finish, Begin
  <1> QED BY <1>1, BeginTypes DEF WorkerLabels

LEMMA TypeStep == KeysInv /\ OneMutator /\ [Next]_vars => TypeOK'
  <1> SUFFICES ASSUME TypeOK, CopiesInv, OneMutator, [Next]_vars PROVE TypeOK'
    BY DEF KeysInv
  <1> USE BoundsAssumption
  <1>w. \A g \in Workers : g \in Goroutines
    OBVIOUS
  <1>c. Cleaner \in Goroutines
    OBVIOUS
  <1>n. now \in 0..MaxTime
    BY DEF TypeOK
  <1>e. ASSUME Works \/ Fails PROVE failures' \in 0..MaxFailures /\ spoiled' \in BOOLEAN
    <2>1. failures \in 0..MaxFailures /\ spoiled \in BOOLEAN
      BY DEF TypeOK
    <2>2. CASE Works
      BY <2>1, <2>2 DEF Works, fate
    <2>3. CASE Fails
      BY <2>1, <2>3 DEF Fails
    <2> QED BY <1>e, <2>2, <2>3
  <1>1. ASSUME NEW v \in Visitors, NewKeys(v) PROVE TypeOK'
    BY <1>1 DEF NewKeys, TypeOK, threads, outside, fate
  <1>2. ASSUME NEW g \in Workers, NEW v \in Visitors, Activate(g, v) \/ LoadCallee(g, v)
        PROVE TypeOK'
    <2>1. PICK label \in {"activate", "access"} : Begin(g, label, v, now)
      BY <1>2 DEF Activate, LoadCallee
    <2>2. /\ pc' \in [Goroutines -> WorkerLabels \cup CleanerLabels]
          /\ who' \in [Goroutines -> Visitors \cup {Nobody}]
          /\ user' \in [Goroutines -> 0..MaxTime \cup {Missing}]
      BY <2>1, <1>n, <1>w, BeginTypes DEF WorkerLabels
    <2> QED BY <1>2, <2>2 DEF Activate, LoadCallee, TypeOK, outside, fate
  <1>3. ASSUME NEW g \in Workers, NEW v \in Visitors, ActivateFails(g, v) PROVE TypeOK'
    BY <1>3 DEF ActivateFails, TypeOK, threads, outside, fate
  <1>t. ASSUME NEW g \in Goroutines, NEW from, NEW to \in WorkerLabels \cup CleanerLabels,
               TakeToken(g, from, to)
        PROVE TypeOK'
    <2>1. gkvCanWrite' \in 0..1
      BY <1>t DEF TypeOK, TakeToken
    <2>2. pc' \in [Goroutines -> WorkerLabels \cup CleanerLabels]
      BY <1>t DEF TypeOK, TakeToken, Goto
    <2> QED BY <1>t, <2>1, <2>2 DEF TypeOK, TakeToken, outside, fate
  <1>4. ASSUME NEW g \in Workers, SetTakesToken(g) PROVE TypeOK'
    BY <1>4, <1>t, <1>w DEF SetTakesToken, WorkerLabels
  <1>5. ASSUME NEW g \in Workers, Set(g) PROVE TypeOK'
    <2>1. Mutates(g) /\ pc[g] \in Busy \cap Writing
      BY <1>5 DEF Set, InSet, At, Mutates, Busy, Writing
    <2>2. gkvCanWrite' \in 0..1
      <3>1. gkvCanWrite = 0
        BY <2>1, <1>w DEF OneMutator
      <3>2. gkvCanWrite' = gkvCanWrite + 1
        BY <1>5 DEF Set
      <3> QED BY <3>1, <3>2
    <2>3. who[g] \in Visitors /\ user[g] \in 0..MaxTime
      BY <2>1, <1>w DEF CopiesInv
    <2>4. /\ C' \in [Visitors -> 0..MaxTime \cup {Missing}]
          /\ failures' \in 0..MaxFailures /\ spoiled' \in BOOLEAN
      BY <1>5, <1>e, <2>3 DEF Set, TypeOK
    <2>5. pc' \in [Goroutines -> WorkerLabels \cup CleanerLabels]
      BY <1>5 DEF Set, TypeOK, Goto, WorkerLabels
    <2> QED BY <1>5, <2>2, <2>4, <2>5 DEF Set, TypeOK, outside
  <1>r. ASSUME NEW g \in Goroutines, NEW from, NEW to \in WorkerLabels \cup CleanerLabels,
               FlushReads(g, from, to)
        PROVE TypeOK'
    <2>1. pc' \in [Goroutines -> WorkerLabels \cup CleanerLabels]
      BY <1>r DEF TypeOK, FlushReads, Goto
    <2>2. snapshot' \in [Goroutines -> [Visitors -> 0..MaxTime \cup {Missing}]]
      BY <1>r DEF TypeOK, FlushReads
    <2>3. spoiled' \in BOOLEAN
      BY <1>r, Zenon DEF FlushReads
    <2> QED BY <1>r, <2>1, <2>2, <2>3 DEF TypeOK, FlushReads, outside
  <1>d. ASSUME NEW g \in Goroutines, FlushWrites(g)
        PROVE /\ file' \in [Visitors -> 0..MaxTime \cup {Missing}]
              /\ snapshot' \in [Goroutines -> [Visitors -> 0..MaxTime \cup {Missing}]]
              /\ failures' \in 0..MaxFailures /\ spoiled' \in BOOLEAN
    <2>1. /\ snapshot \in [Goroutines -> [Visitors -> 0..MaxTime \cup {Missing}]]
          /\ file \in [Visitors -> 0..MaxTime \cup {Missing}]
          /\ Empty \in [Visitors -> 0..MaxTime \cup {Missing}]
      BY DEF TypeOK, Empty
    <2>2. /\ file' = snapshot[g] \/ file' = file
          /\ snapshot' = [snapshot EXCEPT ![g] = Empty]
      BY <1>d DEF FlushWrites
    <2>3. Works \/ Fails
      BY <1>d, Zenon DEF FlushWrites
    <2> QED BY <1>e, <2>1, <2>2, <2>3
  <1>6. ASSUME NEW g \in Workers, Flush(g) PROVE TypeOK'
    BY <1>6, <1>r, <1>w DEF Flush, WorkerLabels
  <1>17. ASSUME NEW g \in Workers, Flushed(g) PROVE TypeOK'
    <2>1. /\ pc' \in [Goroutines -> WorkerLabels \cup CleanerLabels]
          /\ who' \in [Goroutines -> Visitors \cup {Nobody}]
          /\ user' \in [Goroutines -> 0..MaxTime \cup {Missing}]
      <3>1. CASE Finish(g)
        BY <3>1, <1>w, FinishTypes
      <3>2. CASE Goto(g, "confirm") /\ UNCHANGED <<who, user>>
        BY <3>2 DEF TypeOK, Goto, WorkerLabels
      <3> QED BY <1>17, <3>1, <3>2 DEF Flushed
    <2>2. FlushWrites(g)
      BY <1>17 DEF Flushed
    <2> QED BY <2>1, <2>2, <1>d, <1>w DEF FlushWrites, TypeOK, outside
  <1>7. ASSUME NEW g \in Workers, Confirm(g) PROVE TypeOK'
    <2>1. who[g] \in Visitors
      BY <1>7, <1>w DEF Confirm, At, CopiesInv, Busy
    <2>2. /\ pc' \in [Goroutines -> WorkerLabels \cup CleanerLabels]
          /\ who' \in [Goroutines -> Visitors \cup {Nobody}]
          /\ user' \in [Goroutines -> 0..MaxTime \cup {Missing}]
      BY <1>7, <1>w, FinishTypes DEF Confirm
    <2> QED BY <1>7, <2>1, <2>2 DEF Confirm, TypeOK, outside, fate
  <1>8. ASSUME WakeUp PROVE TypeOK'
    <2>1. pc' \in [Goroutines -> WorkerLabels \cup CleanerLabels]
      BY <1>8, <1>c DEF WakeUp, TypeOK, Goto, CleanerLabels
    <2> QED BY <1>8, <2>1 DEF WakeUp, TypeOK, outside, fate
  <1>9. ASSUME NEW v \in Visitors, Visit(v) PROVE TypeOK'
    <2>1. /\ pc' \in [Goroutines -> WorkerLabels \cup CleanerLabels]
          /\ who' \in [Goroutines -> Visitors \cup {Nobody}]
          /\ user' \in [Goroutines -> 0..MaxTime \cup {Missing}]
      <3>1. CASE Begin(Cleaner, "remove", v, Missing)
        BY <3>1, <1>c, BeginTypes DEF CleanerLabels
      <3>2. CASE UNCHANGED <<pc, who, user>>
        BY <3>2 DEF TypeOK
      <3> QED BY <1>9, <3>1, <3>2 DEF Visit
    <2>2. Works \/ Fails
      BY <1>9 DEF Visit
    <2> QED BY <1>9, <1>e, <2>1, <2>2 DEF Visit, TypeOK, outside
  <1>10. ASSUME VisitDone PROVE TypeOK'
    <2>1. /\ pc' \in [Goroutines -> WorkerLabels \cup CleanerLabels]
          /\ who' \in [Goroutines -> Visitors \cup {Nobody}]
          /\ user' \in [Goroutines -> 0..MaxTime \cup {Missing}]
      BY <1>10, <1>c, FinishTypes DEF VisitDone
    <2> QED BY <1>10, <2>1 DEF VisitDone, TypeOK, outside, fate
  <1>11. ASSUME DeleteTakesToken PROVE TypeOK'
    BY <1>11, <1>t, <1>c DEF DeleteTakesToken, CleanerLabels
  <1>12. ASSUME Delete PROVE TypeOK'
    <2>1. who[Cleaner] \in Visitors /\ Mutates(Cleaner)
      BY <1>12, <1>c DEF Delete, At, CopiesInv, Busy, Mutates
    <2>2. gkvCanWrite' \in 0..1
      <3>1. gkvCanWrite = 0
        BY <2>1, <1>c DEF OneMutator
      <3>2. gkvCanWrite' = gkvCanWrite + 1
        BY <1>12 DEF Delete
      <3> QED BY <3>1, <3>2
    <2>3. pc' \in [Goroutines -> WorkerLabels \cup CleanerLabels]
      BY <1>12, <1>c DEF Delete, TypeOK, Goto, CleanerLabels
    <2>4. C' \in [Visitors -> 0..MaxTime \cup {Missing}] /\ cleaned' \in SUBSET Visitors
      BY <1>12, <2>1 DEF Delete, TypeOK
    <2>5. failures' \in 0..MaxFailures /\ spoiled' \in BOOLEAN
      <3>1. Works \/ Fails
        BY <1>12 DEF Delete
      <3> QED BY <3>1, <1>e
    <2> QED BY <1>12, <2>2, <2>3, <2>4, <2>5 DEF Delete, TypeOK, outside
  <1>13. ASSUME FlushDeleted PROVE TypeOK'
    BY <1>13, <1>r, <1>c DEF FlushDeleted, CleanerLabels
  <1>18. ASSUME FlushedDeleted PROVE TypeOK'
    <2>1. /\ pc' \in [Goroutines -> WorkerLabels \cup CleanerLabels]
          /\ who' \in [Goroutines -> Visitors \cup {Nobody}]
          /\ user' \in [Goroutines -> 0..MaxTime \cup {Missing}]
      BY <1>18, <1>c, BeginTypes DEF FlushedDeleted, CleanerLabels
    <2>2. FlushWrites(Cleaner)
      BY <1>18 DEF FlushedDeleted
    <2> QED BY <2>1, <2>2, <1>d, <1>c DEF FlushWrites, TypeOK, outside
  <1>14. ASSUME Tick PROVE TypeOK'
    <2>1. now' \in 0..MaxTime
      BY <1>14, <1>n DEF Tick
    <2> QED BY <1>14, <2>1 DEF Tick, TypeOK, threads, fate
  <1>15. ASSUME Crash PROVE TypeOK'
    <2>1. crashes' \in 0..MaxCrashes
      BY <1>15 DEF Crash, TypeOK
    <2>2. gkvCanWrite' \in 0..1
      BY <1>15 DEF Crash
    <2>3. /\ pc' \in [Goroutines -> WorkerLabels \cup CleanerLabels]
          /\ who' \in [Goroutines -> Visitors \cup {Nobody}]
          /\ user' \in [Goroutines -> 0..MaxTime \cup {Missing}]
      BY <1>15 DEF Crash, WorkerLabels
    <2>4. snapshot' \in [Goroutines -> [Visitors -> 0..MaxTime \cup {Missing}]]
      BY <1>15 DEF Crash, Empty
    <2> QED BY <1>15, <2>1, <2>2, <2>3, <2>4 DEF Crash, TypeOK, fate
  <1>16. ASSUME UNCHANGED vars PROVE TypeOK'
    BY <1>16 DEF vars, threads, outside, fate, TypeOK
  <1> QED
    BY <1>1, <1>2, <1>3, <1>4, <1>5, <1>6, <1>7, <1>8, <1>9, <1>10, <1>11, <1>12,
       <1>13, <1>14, <1>15, <1>16, <1>17, <1>18 DEF Next, Request, Work, Clean

-----------------------------------------------------------------------------
\* Copies: only the goroutine that takes a step changes its locals.
LEMMA CopiesFrame ==
    ASSUME CopiesInv, NEW g \in Goroutines,
           \A h \in Goroutines \ {g} :
                pc'[h] = pc[h] /\ who'[h] = who[h] /\ user'[h] = user[h],
           pc'[g] \in Busy => who'[g] \in Visitors,
           pc'[g] \in Writing => user'[g] \in 0..MaxTime
    PROVE  CopiesInv'
  BY DEF CopiesInv

LEMMA CopiesStep == TypeOK /\ CopiesInv /\ [Next]_vars => CopiesInv'
  <1> SUFFICES ASSUME TypeOK, CopiesInv, [Next]_vars PROVE CopiesInv'
    OBVIOUS
  <1>f. /\ pc \in [Goroutines -> WorkerLabels \cup CleanerLabels]
        /\ who \in [Goroutines -> Visitors \cup {Nobody}]
        /\ user \in [Goroutines -> 0..MaxTime \cup {Missing}]
        /\ now \in 0..MaxTime
    BY DEF TypeOK
  <1>w. \A g \in Workers : g \in Goroutines
    OBVIOUS
  <1>c. Cleaner \in Goroutines
    OBVIOUS
  <1>b. ASSUME NEW g \in Goroutines, NEW label, NEW v, NEW e, Begin(g, label, v, e),
               label \in Busy => v \in Visitors, label \in Writing => e \in 0..MaxTime
        PROVE CopiesInv'
    <2>1. \A h \in Goroutines \ {g} :
                pc'[h] = pc[h] /\ who'[h] = who[h] /\ user'[h] = user[h]
      BY <1>b, <1>f DEF Begin, Goto
    <2>2. pc'[g] = label /\ who'[g] = v /\ user'[g] = e
      BY <1>b, <1>f DEF Begin, Goto
    <2> QED BY <2>1, <2>2, <1>b, CopiesFrame
  <1>m. ASSUME NEW g \in Goroutines, Finish(g) PROVE CopiesInv'
    <2>1. Begin(g, "idle", Nobody, Missing)
      BY <1>m DEF Finish, Begin
    <2> QED BY <2>1, <1>b DEF Busy, Writing
  <1>g. ASSUME NEW g \in Goroutines, NEW label, Goto(g, label), UNCHANGED <<who, user>>,
               label \in Busy => pc[g] \in Busy, label \in Writing => pc[g] \in Writing
        PROVE CopiesInv'
    <2>1. \A h \in Goroutines \ {g} :
                pc'[h] = pc[h] /\ who'[h] = who[h] /\ user'[h] = user[h]
      BY <1>g, <1>f DEF Goto
    <2>2. pc'[g] = label /\ who'[g] = who[g] /\ user'[g] = user[g]
      BY <1>g, <1>f DEF Goto
    <2>3. /\ pc'[g] \in Busy => who'[g] \in Visitors
          /\ pc'[g] \in Writing => user'[g] \in 0..MaxTime
      BY <2>2, <1>g DEF CopiesInv
    <2> QED BY <2>1, <2>3, CopiesFrame
  <1>u. ASSUME UNCHANGED <<pc, who, user>> PROVE CopiesInv'
    BY <1>u DEF CopiesInv
  <1>1. ASSUME NEW v \in Visitors, NewKeys(v) PROVE CopiesInv'
    BY <1>1, <1>u DEF NewKeys, threads
  <1>2. ASSUME NEW g \in Workers, NEW v \in Visitors, Activate(g, v) \/ LoadCallee(g, v)
        PROVE CopiesInv'
    BY <1>2, <1>b, <1>w, <1>f DEF Activate, LoadCallee
  <1>3. ASSUME NEW g \in Workers, NEW v \in Visitors, ActivateFails(g, v) PROVE CopiesInv'
    BY <1>3, <1>u DEF ActivateFails, threads
  <1>4. ASSUME NEW g \in Workers, SetTakesToken(g) PROVE CopiesInv'
    BY <1>4, <1>w, <1>g DEF SetTakesToken, TakeToken, At, Busy, Writing
  <1>5. ASSUME NEW g \in Workers, Set(g) PROVE CopiesInv'
    BY <1>5, <1>w, <1>g DEF Set, InSet, At, Busy, Writing
  <1>6. ASSUME NEW g \in Workers, Flush(g) PROVE CopiesInv'
    BY <1>6, <1>w, <1>g DEF Flush, FlushReads, At, Busy, Writing
  <1>16. ASSUME NEW g \in Workers, Flushed(g) PROVE CopiesInv'
    <2>1. CASE Finish(g)
      BY <2>1, <1>w, <1>m
    <2>2. CASE At(g, "write new") /\ Goto(g, "confirm") /\ UNCHANGED <<who, user>>
      BY <2>2, <1>w, <1>g DEF At, Busy, Writing
    <2> QED BY <1>16, <2>1, <2>2 DEF Flushed
  <1>7. ASSUME NEW g \in Workers, Confirm(g) PROVE CopiesInv'
    BY <1>7, <1>w, <1>m DEF Confirm
  <1>8. ASSUME WakeUp PROVE CopiesInv'
    BY <1>8, <1>c, <1>g DEF WakeUp, Busy, Writing
  <1>9. ASSUME NEW v \in Visitors, Visit(v) PROVE CopiesInv'
    <2>1. CASE Begin(Cleaner, "remove", v, Missing)
      BY <2>1, <1>c, <1>b DEF Writing
    <2>2. CASE UNCHANGED <<pc, who, user>>
      BY <2>2, <1>u
    <2> QED BY <1>9, <2>1, <2>2 DEF Visit
  <1>10. ASSUME VisitDone PROVE CopiesInv'
    BY <1>10, <1>c, <1>m DEF VisitDone
  <1>11. ASSUME DeleteTakesToken PROVE CopiesInv'
    BY <1>11, <1>c, <1>g DEF DeleteTakesToken, TakeToken, At, Busy, Writing
  <1>12. ASSUME Delete PROVE CopiesInv'
    BY <1>12, <1>c, <1>g DEF Delete, Busy, Writing
  <1>13. ASSUME FlushDeleted PROVE CopiesInv'
    BY <1>13, <1>c, <1>g DEF FlushDeleted, FlushReads, Busy, Writing
  <1>17. ASSUME FlushedDeleted PROVE CopiesInv'
    BY <1>17, <1>c, <1>b DEF FlushedDeleted, Busy, Writing
  <1>14. ASSUME Tick \/ UNCHANGED vars PROVE CopiesInv'
    BY <1>14, <1>u DEF Tick, threads, vars
  <1>15. ASSUME Crash PROVE CopiesInv'
    BY <1>15 DEF Crash, CopiesInv, Busy, Writing
  <1> QED
    BY <1>1, <1>2, <1>3, <1>4, <1>5, <1>6, <1>7, <1>8, <1>9, <1>10, <1>11, <1>12,
       <1>13, <1>14, <1>15, <1>16, <1>17 DEF Next, Request, Work, Clean

-----------------------------------------------------------------------------
\* Durability.  A step takes no entry from memory without the cleaner knowing.
Shrunk == \A v \in Visitors \ cleaned' : C[v] # Missing => C'[v] # Missing

Durable == DiskInv /\ NewInv /\ KeptInv

WriteLabels == {"write new", "write", "write deleted"}

\* Steps that do not touch the file or what is being written to it.
LEMMA DurableFrame ==
    ASSUME CopiesInv, Durable, NEW g \in Goroutines,
           \A h \in Goroutines \ {g} : pc'[h] = pc[h] /\ who'[h] = who[h],
           confirmed \subseteq Visitors, confirmed' = confirmed,
           cleaned \subseteq cleaned', Shrunk, file' = file, snapshot' = snapshot,
           pc'[g] \notin WriteLabels \cup {"confirm"},
           pc'[g] = "flush new" => C'[who'[g]] # Missing
    PROVE  Durable'
  <1>0. DiskInv /\ NewInv /\ KeptInv
    BY DEF Durable
  <1>1. \A h \in Goroutines : Flushes(h)' => h # g /\ Flushes(h)
    BY DEF Flushes, At, WriteLabels
  <1>2. Within(file', C', cleaned')
    BY <1>0 DEF DiskInv, Within, Shrunk
  <1>3. \A h \in Goroutines : Flushes(h)' => /\ Within(file', snapshot'[h], cleaned')
                                             /\ Within(snapshot'[h], C', cleaned')
    BY <1>0, <1>1 DEF DiskInv, Within, Shrunk
  <1>4. DiskInv'
    BY <1>0, <1>1, <1>2, <1>3 DEF DiskInv, Within
  <1>5. ASSUME NEW h \in Goroutines, pc'[h] = "flush new"
        PROVE who'[h] \in cleaned' \/ C'[who'[h]] # Missing
    <2>1. CASE h # g
      <3>1. pc[h] = "flush new" /\ who'[h] = who[h] /\ who[h] \in Visitors
        BY <1>5, <2>1 DEF CopiesInv, Busy
      <3>2. who[h] \in cleaned \/ C[who[h]] # Missing
        BY <3>1, <1>0 DEF NewInv
      <3> QED BY <3>1, <3>2 DEF Shrunk
    <2> QED BY <1>5, <2>1
  <1>6. ASSUME NEW h \in Goroutines
        PROVE /\ pc'[h] = "write new" => who'[h] \in cleaned' \/ snapshot'[h][who'[h]] # Missing
              /\ pc'[h] = "confirm" => who'[h] \in cleaned' \/ file'[who'[h]] # Missing
    BY <1>0 DEF NewInv, WriteLabels
  <1>7. NewInv'
    BY <1>5, <1>6 DEF NewInv
  <1>8. KeptInv'
    BY <1>0 DEF KeptInv
  <1> QED BY <1>4, <1>7, <1>8 DEF Durable

\* A flush begins with all there is in memory, and alone.
LEMMA DurableReads ==
    ASSUME TypeOK, CopiesInv, Durable, NEW g \in Goroutines,
           NEW from, NEW to \in WriteLabels, to = "write new" => from = "flush new",
           FlushReads(g, from, to), ~spoiled'
    PROVE  Durable'
  <1>0. DiskInv /\ NewInv /\ KeptInv
    BY DEF Durable
  <1>1. /\ pc \in [Goroutines -> WorkerLabels \cup CleanerLabels]
        /\ snapshot \in [Goroutines -> [Visitors -> 0..MaxTime \cup {Missing}]]
    BY DEF TypeOK
  <1>2. /\ UNCHANGED <<C, file, who, confirmed, cleaned>> /\ pc[g] = from
        /\ snapshot' = [snapshot EXCEPT ![g] = C] /\ pc' = [pc EXCEPT ![g] = to]
    BY DEF FlushReads, At, Goto
  <1>3. \A h \in Goroutines : ~Flushes(h)
    BY Zenon DEF FlushReads
  <1>4. /\ pc'[g] = to /\ snapshot'[g] = C
        /\ \A h \in Goroutines \ {g} : pc'[h] = pc[h] /\ snapshot'[h] = snapshot[h]
    BY <1>1, <1>2
  <1>5. \A h \in Goroutines : Flushes(h)' => h = g
    BY <1>3, <1>4 DEF Flushes, At
  <1>6. DiskInv'
    <2>1. Within(file, C, cleaned)
      BY <1>0 DEF DiskInv
    <2>2. Within(file', C', cleaned')
      BY <1>2, <2>1 DEF Within
    <2>3. Within(file', snapshot'[g], cleaned') /\ Within(snapshot'[g], C', cleaned')
      BY <1>2, <1>4, <2>1 DEF Within
    <2>4. \A h \in Goroutines : Flushes(h)' => /\ Within(file', snapshot'[h], cleaned')
                                               /\ Within(snapshot'[h], C', cleaned')
      BY <1>5, <2>3, Zenon
    <2>5. \A h, k \in Goroutines : Flushes(h)' /\ Flushes(k)' => h = k
      BY <1>5, Zenon
    <2>6. DiskInv' <=>
            /\ \A h, k \in Goroutines : Flushes(h)' /\ Flushes(k)' => h = k
            /\ Within(file', C', cleaned')
            /\ \A h \in Goroutines : Flushes(h)' => /\ Within(file', snapshot'[h], cleaned')
                                                     /\ Within(snapshot'[h], C', cleaned')
      BY DEF DiskInv, Within
    <2> QED BY <2>2, <2>4, <2>5, <2>6, Zenon
  <1>7. pc[g] = "flush new" => who[g] \in cleaned \/ C[who[g]] # Missing
    BY <1>0 DEF NewInv
  <1>8. NewInv'
    BY <1>0, <1>2, <1>4, <1>7 DEF NewInv, WriteLabels
  <1>9. KeptInv'
    BY <1>0, <1>2 DEF KeptInv
  <1> QED BY <1>6, <1>8, <1>9 DEF Durable

\* What is written lacks nothing that the file has.
LEMMA DurableWrites ==
    ASSUME TypeOK, CopiesInv, Durable, NEW g \in Goroutines, pc[g] \in WriteLabels,
           FlushWrites(g), Works,
           \A h \in Goroutines \ {g} : pc'[h] = pc[h] /\ who'[h] = who[h],
           pc'[g] \notin WriteLabels \cup {"flush new"},
           pc'[g] = "confirm" => pc[g] = "write new" /\ who'[g] = who[g],
           file' = snapshot[g]
    PROVE  Durable'
  <1>0. DiskInv /\ NewInv /\ KeptInv
    BY DEF Durable
  <1>1. /\ snapshot \in [Goroutines -> [Visitors -> 0..MaxTime \cup {Missing}]]
        /\ confirmed \subseteq Visitors
    BY DEF TypeOK
  <1>2. UNCHANGED <<C, confirmed, cleaned>> /\ snapshot' = [snapshot EXCEPT ![g] = Empty]
    BY DEF FlushWrites
  <1>3. Flushes(g)
    BY DEF Flushes, At, WriteLabels
  <1>4. Within(file, snapshot[g], cleaned) /\ Within(snapshot[g], C, cleaned)
    BY <1>0, <1>3 DEF DiskInv
  <1>5. \A h \in Goroutines : ~Flushes(h)'
    <2>1. \A h \in Goroutines : Flushes(h) => h = g
      BY <1>0, <1>3 DEF DiskInv
    <2> QED BY <2>1 DEF Flushes, At, WriteLabels
  <1>6. DiskInv'
    BY <1>2, <1>4, <1>5 DEF DiskInv, Within
  <1>7. \A h \in Goroutines : pc'[h] = "flush new" => who'[h] \in cleaned' \/ C'[who'[h]] # Missing
    BY <1>0, <1>2 DEF NewInv
  <1>8. \A h \in Goroutines : pc'[h] # "write new"
    BY <1>5 DEF Flushes, At
  <1>9. ASSUME NEW h \in Goroutines, pc'[h] = "confirm"
        PROVE who'[h] \in cleaned' \/ file'[who'[h]] # Missing
    <2>1. CASE h = g
      BY <1>0, <1>2, <1>9, <2>1 DEF NewInv
    <2>2. CASE h # g
      <3>1. pc[h] = "confirm" /\ who'[h] = who[h] /\ who[h] \in Visitors
        BY <1>9, <2>2 DEF CopiesInv, Busy
      <3>2. who[h] \in cleaned \/ file[who[h]] # Missing
        BY <3>1, <1>0 DEF NewInv
      <3> QED BY <1>2, <1>4, <3>1, <3>2 DEF Within
    <2> QED BY <2>1, <2>2
  <1>10. NewInv'
    BY <1>7, <1>8, <1>9 DEF NewInv
  <1>11. KeptInv'
    BY <1>0, <1>1, <1>2, <1>4 DEF KeptInv, Within
  <1> QED BY <1>6, <1>10, <1>11 DEF Durable

\* What is spoiled stays so, and what fails is.
LEMMA SpoiledStays == [Next]_vars => (spoiled => spoiled')
  BY Zenon DEF Next, NewKeys, Request, Activate, ActivateFails, LoadCallee, SetTakesToken,
     TakeToken, Work, Set, Flush, FlushReads, Flushed, FlushWrites, Confirm, Clean, WakeUp,
     Visit, VisitDone, Delete, FlushDeleted, FlushedDeleted, DeleteTakesToken, Tick, Crash,
     Works, Fails, fate, vars

LEMMA DurableStep ==
    TypeOK /\ CopiesInv /\ Durable /\ [Next]_vars /\ ~spoiled' => Durable'
  <1> SUFFICES ASSUME TypeOK, CopiesInv, Durable, [Next]_vars, ~spoiled' PROVE Durable'
    OBVIOUS
  <1>f. /\ pc \in [Goroutines -> WorkerLabels \cup CleanerLabels]
        /\ who \in [Goroutines -> Visitors \cup {Nobody}]
        /\ user \in [Goroutines -> 0..MaxTime \cup {Missing}]
        /\ confirmed \subseteq Visitors
    BY DEF TypeOK
  <1>w. \A g \in Workers : g \in Goroutines
    OBVIOUS
  <1>c. Cleaner \in Goroutines
    OBVIOUS
  <1>e. Works \/ Fails => Works
    BY Zenon DEF Fails
  \* Steps that change neither the collection nor the file.
  <1>q. ASSUME NEW g \in Goroutines, UNCHANGED <<C, file, snapshot, confirmed, cleaned>>,
               \A h \in Goroutines \ {g} : pc'[h] = pc[h] /\ who'[h] = who[h],
               pc'[g] \notin WriteLabels \cup {"flush new", "confirm"}
        PROVE Durable'
    <2>1. Shrunk
      BY <1>q DEF Shrunk
    <2> QED BY <2>1, <1>f, <1>q, DurableFrame
  <1>b. ASSUME NEW g \in Goroutines, NEW label, NEW v, NEW e, Begin(g, label, v, e),
               UNCHANGED <<C, file, snapshot, confirmed, cleaned>>,
               label \notin WriteLabels \cup {"flush new", "confirm"}
        PROVE Durable'
    <2>1. pc'[g] = label /\ \A h \in Goroutines \ {g} : pc'[h] = pc[h] /\ who'[h] = who[h]
      BY <1>b, <1>f DEF Begin, Goto
    <2> QED BY <2>1, <1>b, <1>q
  <1>g. ASSUME NEW g \in Goroutines, NEW label, Goto(g, label), who' = who,
               UNCHANGED <<C, file, snapshot, confirmed, cleaned>>,
               label \notin WriteLabels \cup {"flush new", "confirm"}
        PROVE Durable'
    <2>1. pc'[g] = label /\ \A h \in Goroutines \ {g} : pc'[h] = pc[h] /\ who'[h] = who[h]
      BY <1>g, <1>f DEF Goto
    <2> QED BY <2>1, <1>g, <1>q
  <1>u. ASSUME UNCHANGED <<pc, who, C, file, snapshot, confirmed, cleaned>> PROVE Durable'
    BY <1>u DEF Durable, DiskInv, NewInv, KeptInv, Within, Flushes, At
  <1>1. ASSUME NEW v \in Visitors, NewKeys(v) PROVE Durable'
    BY <1>1, <1>u DEF NewKeys, threads
  <1>2. ASSUME NEW g \in Workers, NEW v \in Visitors, Activate(g, v) \/ LoadCallee(g, v)
        PROVE Durable'
    BY <1>2, <1>b, <1>w DEF Activate, LoadCallee, WriteLabels
  <1>3. ASSUME NEW g \in Workers, NEW v \in Visitors, ActivateFails(g, v) PROVE Durable'
    BY <1>3, <1>u DEF ActivateFails, threads
  <1>4. ASSUME NEW g \in Workers, SetTakesToken(g) PROVE Durable'
    BY <1>4, <1>w, <1>g DEF SetTakesToken, TakeToken, WriteLabels
  <1>5. ASSUME NEW g \in Workers, Set(g) PROVE Durable'
    <2>1. pc[g] \in Busy /\ pc[g] \in Writing
      BY <1>5 DEF Set, InSet, At, Busy, Writing
    <2>2. who[g] \in Visitors /\ user[g] \in 0..MaxTime
      BY <2>1, <1>w DEF CopiesInv
    <2>3. user[g] # Missing
      BY <2>2, BoundsAssumption
    <2>4. C \in [Visitors -> 0..MaxTime \cup {Missing}] /\ C' = [C EXCEPT ![who[g]] = user[g]]
      BY <1>5 DEF Set, TypeOK, Fails
    <2>5. Shrunk /\ C'[who[g]] # Missing
      BY <2>2, <2>3, <2>4 DEF Shrunk
    <2>6. /\ \A h \in Goroutines \ {g} : pc'[h] = pc[h] /\ who'[h] = who[h]
          /\ pc'[g] \notin WriteLabels \cup {"confirm"} /\ who'[g] = who[g]
      BY <1>5, <1>f, <1>w DEF Set, Goto, WriteLabels
    <2>7. UNCHANGED <<file, snapshot, confirmed, cleaned>>
      BY <1>5 DEF Set
    <2>8. cleaned \subseteq cleaned' /\ g \in Goroutines /\ C'[who'[g]] # Missing
      BY <2>5, <2>6, <2>7, <1>w
    <2> QED BY <2>5, <2>6, <2>7, <2>8, <1>f, DurableFrame
  <1>6. ASSUME NEW g \in Workers, Flush(g) PROVE Durable'
    <2>1. CASE FlushReads(g, "flush new", "write new")
      BY <2>1, <1>w, DurableReads DEF WriteLabels
    <2>2. CASE FlushReads(g, "flush", "write")
      BY <2>2, <1>w, DurableReads DEF WriteLabels
    <2> QED BY <1>6, <2>1, <2>2 DEF Flush
  <1>16. ASSUME NEW g \in Workers, Flushed(g) PROVE Durable'
    <2>1. Works /\ FlushWrites(g) /\ file' = snapshot[g]
      BY <1>16, <1>e DEF Flushed, FlushWrites, Fails
    <2>2. /\ \A h \in Goroutines \ {g} : pc'[h] = pc[h] /\ who'[h] = who[h]
          /\ pc[g] \in WriteLabels /\ pc'[g] \notin WriteLabels \cup {"flush new"}
          /\ pc'[g] = "confirm" => pc[g] = "write new" /\ who'[g] = who[g]
      <3>1. CASE At(g, "write new") /\ Goto(g, "confirm") /\ UNCHANGED <<who, user>>
        BY <3>1, <1>f, <1>w DEF At, Goto, WriteLabels
      <3>2. CASE At(g, "write") /\ Finish(g)
        BY <3>2, <1>f, <1>w DEF At, Goto, Finish, WriteLabels
      <3> QED BY <1>16, <3>1, <3>2 DEF Flushed
    <2> QED BY <2>1, <2>2, <1>w, DurableWrites
  <1>7. ASSUME NEW g \in Workers, Confirm(g) PROVE Durable'
    <2>1. who[g] \in cleaned \/ file[who[g]] # Missing
      BY <1>7, <1>w DEF Confirm, At, Durable, NewInv
    <2>2. UNCHANGED <<C, file, snapshot, cleaned>> /\ confirmed' = confirmed \cup {who[g]}
      BY <1>7 DEF Confirm
    <2>3. KeptInv'
      BY <2>1, <2>2 DEF Durable, KeptInv
    <2>4. /\ \A h \in Goroutines \ {g} : pc'[h] = pc[h] /\ who'[h] = who[h]
          /\ pc'[g] = "idle"
      BY <1>7, <1>f, <1>w DEF Confirm, Finish, Goto
    <2>5. NewInv'
      BY <2>2, <2>4 DEF Durable, NewInv
    <2>6. \A h \in Goroutines : Flushes(h)' => Flushes(h)
      BY <2>4 DEF Flushes, At
    <2>7. DiskInv'
      BY <2>2, <2>6 DEF Durable, DiskInv, Within
    <2> QED BY <2>3, <2>5, <2>7 DEF Durable
  <1>8. ASSUME WakeUp PROVE Durable'
    BY <1>8, <1>c, <1>g DEF WakeUp, WriteLabels
  <1>9. ASSUME NEW v \in Visitors, Visit(v) PROVE Durable'
    <2>1. UNCHANGED <<C, file, snapshot, confirmed, cleaned>>
      BY <1>9 DEF Visit
    <2>2. CASE Begin(Cleaner, "remove", v, Missing)
      BY <2>1, <2>2, <1>c, <1>b DEF WriteLabels
    <2>3. CASE UNCHANGED <<pc, who, user>>
      BY <2>1, <2>3, <1>u
    <2> QED BY <1>9, <2>2, <2>3 DEF Visit
  <1>10. ASSUME VisitDone PROVE Durable'
    <2>1. /\ \A h \in Goroutines \ {Cleaner} : pc'[h] = pc[h] /\ who'[h] = who[h]
          /\ pc'[Cleaner] = "idle"
      BY <1>10, <1>f, <1>c DEF VisitDone, Finish, Goto
    <2> QED BY <1>10, <2>1, <1>c, <1>q DEF VisitDone, WriteLabels
  <1>11. ASSUME DeleteTakesToken PROVE Durable'
    BY <1>11, <1>c, <1>g DEF DeleteTakesToken, TakeToken, WriteLabels
  <1>12. ASSUME Delete PROVE Durable'
    <2>1. /\ C \in [Visitors -> 0..MaxTime \cup {Missing}]
          /\ C' = [C EXCEPT ![who[Cleaner]] = Missing]
          /\ cleaned' = cleaned \cup {who[Cleaner]}
      BY <1>12 DEF Delete, TypeOK, Fails
    <2>2. Shrunk /\ cleaned \subseteq cleaned'
      BY <2>1 DEF Shrunk
    <2>3. /\ \A h \in Goroutines \ {Cleaner} : pc'[h] = pc[h] /\ who'[h] = who[h]
          /\ pc'[Cleaner] = "flush deleted"
      BY <1>12, <1>f, <1>c DEF Delete, Goto
    <2>4. confirmed' = confirmed /\ file' = file /\ snapshot' = snapshot
      BY <1>12 DEF Delete
    <2>5. pc'[Cleaner] \notin WriteLabels \cup {"confirm"} /\ pc'[Cleaner] # "flush new"
      BY <2>3 DEF WriteLabels
    <2> QED BY <2>2, <2>3, <2>4, <2>5, <1>f, <1>c, DurableFrame
  <1>13. ASSUME FlushDeleted PROVE Durable'
    BY <1>13, <1>c, DurableReads DEF FlushDeleted, WriteLabels
  <1>17. ASSUME FlushedDeleted PROVE Durable'
    <2>1. Works /\ FlushWrites(Cleaner) /\ file' = snapshot[Cleaner]
      BY <1>17, <1>e DEF FlushedDeleted, FlushWrites, Fails
    <2>2. /\ \A h \in Goroutines \ {Cleaner} : pc'[h] = pc[h] /\ who'[h] = who[h]
          /\ pc[Cleaner] \in WriteLabels
          /\ pc'[Cleaner] \notin WriteLabels \cup {"flush new"} /\ pc'[Cleaner] # "confirm"
      BY <1>17, <1>f, <1>c DEF FlushedDeleted, Begin, Goto, At, WriteLabels
    <2> QED BY <2>1, <2>2, <1>c, DurableWrites
  <1>14. ASSUME Tick \/ UNCHANGED vars PROVE Durable'
    BY <1>14, <1>u DEF Tick, threads, vars
  <1>15. ASSUME Crash PROVE Durable'
    <2>1. /\ UNCHANGED <<file, confirmed, cleaned>> /\ C' = file
          /\ \A h \in Goroutines : pc'[h] = "idle"
      BY <1>15 DEF Crash
    <2>2. DiskInv'
      BY <2>1 DEF DiskInv, Within, Flushes, At
    <2>3. NewInv' /\ KeptInv'
      BY <2>1 DEF NewInv, KeptInv, Durable
    <2> QED BY <2>2, <2>3 DEF Durable
  <1> QED
    BY <1>1, <1>2, <1>3, <1>4, <1>5, <1>6, <1>7, <1>8, <1>9, <1>10, <1>11, <1>12,
       <1>13, <1>14, <1>15, <1>16, <1>17 DEF Next, Request, Work, Clean

LEMMA PromisesStep == TypeOK /\ CopiesInv /\ Promises /\ [Next]_vars => Promises'
  <1> SUFFICES ASSUME TypeOK, CopiesInv, Promises, [Next]_vars, ~spoiled' PROVE Durable'
    BY Zenon DEF Promises, Durable
  <1>1. ~spoiled
    BY SpoiledStays
  <1>2. Durable
    BY <1>1, Zenon DEF Promises, Durable
  <1> QED BY <1>2, DurableStep

-----------------------------------------------------------------------------
LEMMA KeysAlways == Spec => [](KeysInv /\ OneMutator)
  <1>1. KeysInv /\ OneMutator /\ [Next]_vars => (KeysInv /\ OneMutator)'
    BY TokenStep, TypeStep, CopiesStep, PromisesStep DEF KeysInv
  <1> QED BY InitKeys, <1>1, PTL DEF Spec

\* Every variable of the key store keeps its type.
THEOREM KeysTyped == Spec => []TypeOK
  <1>1. KeysInv => TypeOK
    BY DEF KeysInv
  <1> QED BY KeysAlways, <1>1, PTL

\* The token of gkvCanWrite is never doubled, and keeps every two goroutines
\* from changing the collection at once.
THEOREM MutatorsExcluded == Spec => []OneMutator
  BY KeysAlways, PTL

\* A confirmed pair of keys survives every crash until the cleaner removes it, as long
\* as no call of the key store fails and no two flushes overlap.
THEOREM ConfirmationLasts == Spec => []ConfirmedSurvives
  <1>1. KeysInv => ConfirmedSurvives
    <2> SUFFICES ASSUME TypeOK, Promises, ~spoiled, NEW v \in confirmed \ cleaned
                 PROVE  C[v] # Missing /\ file[v] # Missing
      BY DEF KeysInv, ConfirmedSurvives
    <2>1. v \in Visitors \ cleaned /\ DiskInv /\ KeptInv
      BY DEF TypeOK, Promises
    <2> QED BY <2>1 DEF DiskInv, KeptInv, Within
  <1> QED BY KeysAlways, <1>1, PTL
=============================================================================
