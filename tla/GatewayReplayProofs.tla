--------------------------- MODULE GatewayReplayProofs ---------------------------
(***************************************************************************)
(* The replay cache's guarantees for any number of threads and grants, any *)
(* skew, any cache bound and any horizon of the clock.                     *)
(***************************************************************************)
EXTENDS GatewayReplay, FiniteSetTheorems, TLAPS

USE GrantAssumption, BoundsAssumption

LEMMA InitIInv == Init => IInv
  BY FS_EmptySet DEF Init, IInv, TypeOK, Task, Stage, ReadingsPast,
     LiveUsesRecorded, UsedOnceWhileLive, CacheWithinBound

\* What one locked pass over the cache keeps is a finite set within the bound.
LEMMA KeptWithinBound ==
  ASSUME IInv, NEW now
  PROVE  /\ IsFiniteSet(Unexpired(now))
         /\ Cardinality(Unexpired(now)) \in Nat
         /\ Cardinality(Unexpired(now)) <= MaxEntries
  <1>1. Unexpired(now) \subseteq entries /\ IsFiniteSet(entries)
    BY DEF IInv, Unexpired
  <1>2. /\ IsFiniteSet(Unexpired(now))
        /\ Cardinality(Unexpired(now)) <= Cardinality(entries)
    BY <1>1, FS_Subset
  <1>3. Cardinality(Unexpired(now)) \in Nat /\ Cardinality(entries) \in Nat
    BY <1>1, <1>2, FS_CardinalityType
  <1> QED
    BY <1>2, <1>3 DEF IInv, CacheWithinBound

LEMMA RememberOnceIInv ==
  ASSUME IInv, NEW t \in Thread, RememberOnce(t)
  PROVE  IInv'
  <1> DEFINE j == task[t].jti
             kept == Unexpired(task[t].now)
             fresh == j \notin kept /\ HasRoom(kept)
  <1>0. /\ entries' = IF fresh THEN kept \cup {j} ELSE kept
        /\ task' = [task EXCEPT ![t].stage = IF fresh THEN "accepted" ELSE "rejected"]
        /\ liveUses' = IF fresh /\ clock < ExpiresAt[j]
                         THEN [liveUses EXCEPT ![j] = @ + 1]
                         ELSE liveUses
        /\ clock' = clock
    BY DEF RememberOnce
  <1>1. TypeOK'
    BY <1>0 DEF IInv, TypeOK, Task, Stage, Unexpired
  <1>2. ReadingsPast'
    BY <1>0 DEF IInv, TypeOK, Task, ReadingsPast
  <1>3. \A i \in Jti : i \in entries => i \in kept \/ ExpiresAt[i] <= clock
    BY DEF IInv, TypeOK, Task, ReadingsPast, Unexpired
  <1>4. j \in Jti
    BY DEF IInv, TypeOK, Task
  <1>5. LiveUsesRecorded'
    BY <1>0, <1>3, <1>4 DEF IInv, TypeOK, LiveUsesRecorded
  <1>6. fresh /\ clock < ExpiresAt[j] => liveUses[j] = 0
    BY <1>3, <1>4 DEF IInv, TypeOK, LiveUsesRecorded
  <1>7. UsedOnceWhileLive'
    BY <1>0, <1>4, <1>6 DEF IInv, TypeOK, UsedOnceWhileLive
  <1>8. IsFiniteSet(entries') /\ CacheWithinBound'
    <2>1. IsFiniteSet(kept) /\ Cardinality(kept) \in Nat /\ Cardinality(kept) <= MaxEntries
      BY KeptWithinBound
    <2>2. CASE fresh
      <3>1. IsFiniteSet(kept \cup {j}) /\ Cardinality(kept \cup {j}) = Cardinality(kept) + 1
        BY <2>1, <2>2, FS_AddElement
      <3>2. Cardinality(kept) < MaxEntries
        BY <2>2 DEF HasRoom
      <3> QED
        BY <1>0, <2>1, <2>2, <3>1, <3>2 DEF CacheWithinBound
    <2>3. CASE ~fresh
      BY <1>0, <2>1, <2>3 DEF CacheWithinBound
    <2> QED
      BY <2>2, <2>3
  <1> QED
    BY <1>1, <1>2, <1>5, <1>7, <1>8 DEF IInv

LEMMA NextIInv == IInv /\ [Next]_vars => IInv'
  <1> SUFFICES ASSUME IInv, [Next]_vars PROVE IInv'
    OBVIOUS
  <1> USE DEF IInv, TypeOK, Task, Stage, ReadingsPast, LiveUsesRecorded,
              UsedOnceWhileLive, CacheWithinBound
  <1>1. ASSUME NEW t \in Thread, NEW i \in Jti, Receive(t, i) PROVE IInv'
    BY <1>1 DEF Receive
  <1>2. ASSUME NEW t \in Thread, Refuse(t) PROVE IInv'
    BY <1>2 DEF Refuse
  <1>3. ASSUME NEW t \in Thread, RequireTemporalValidity(t) PROVE IInv'
    BY <1>3 DEF RequireTemporalValidity
  <1>4. ASSUME NEW t \in Thread, ReadClock(t) PROVE IInv'
    <2>1. task'[t].now = clock /\ \A u \in Thread \ {t} : task'[u].now = task[u].now
      BY <1>4 DEF ReadClock
    <2>2. ReadingsPast'
      BY <1>4, <2>1 DEF ReadClock
    <2>3. TypeOK'
      BY <1>4 DEF ReadClock
    <2> QED
      BY <1>4, <2>2, <2>3 DEF ReadClock
  <1>5. ASSUME NEW t \in Thread, RememberOnce(t) PROVE IInv'
    BY <1>5, RememberOnceIInv
  <1>6. ASSUME NEW t \in Thread, Answer(t) PROVE IInv'
    BY <1>6 DEF Answer
  <1>7. CASE Restart
    BY <1>7, FS_EmptySet DEF Restart
  <1>8. CASE Tick
    BY <1>8 DEF Tick
  <1>9. CASE UNCHANGED vars
    BY <1>9 DEF vars
  <1> QED
    BY <1>1, <1>2, <1>3, <1>4, <1>5, <1>6, <1>7, <1>8, <1>9 DEF Next

\* The invariant holds in every reachable state of the gateway's verifier.
THEOREM Invariance == Spec => []IInv
  BY InitIInv, NextIInv, PTL DEF Spec

\* Whatever the interleaving of the threads inside remember_once, one gateway
\* process accepts a grant at most once before it expires.
THEOREM SpecUsedOnceWhileLive == Spec => []UsedOnceWhileLive
  <1>1. IInv => UsedOnceWhileLive
    BY DEF IInv
  <1> QED
    BY <1>1, Invariance, PTL

\* The cache stays within max_entries.
THEOREM SpecCacheWithinBound == Spec => []CacheWithinBound
  <1>1. IInv => CacheWithinBound
    BY DEF IInv
  <1> QED
    BY <1>1, Invariance, PTL

\* The clock readings, the cache and the tasks stay well typed.
THEOREM SpecTypeOK == Spec => []TypeOK
  <1>1. IInv => TypeOK
    BY DEF IInv
  <1> QED
    BY <1>1, Invariance, PTL
=============================================================================
