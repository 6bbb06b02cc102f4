------------------------------ MODULE GatewayReplay ------------------------------
(***************************************************************************)
(* The local gateway's capability verifier and its replay cache.  Each     *)
(* thread runs Ed25519GatewayProbeVerifier.verify on one grant: it checks  *)
(* the grant (signature, binding, authority), checks its validity period   *)
(* against the clock, checks that the body is the granted request, reads   *)
(* the clock a second time and then, under the cache's lock, evicts, tests *)
(* and records the grant's jti.  Time moves between any two of these.      *)
(***************************************************************************)
EXTENDS Naturals, FiniteSets

CONSTANTS
    Thread,        \* threads that verify requests concurrently
    Jti,           \* grant identifiers
    IssuedAt,      \* [Jti -> Nat], the grant's iat
    ExpiresAt,     \* [Jti -> Nat], the grant's exp
    Skew,          \* clock_skew_seconds
    MaxEntries,    \* max_entries of the replay cache
    MaxClock       \* bound of the model: the last instant considered

ASSUME ThreadAssumption == Thread # {}
ASSUME GrantAssumption == /\ IssuedAt \in [Jti -> Nat]
                          /\ ExpiresAt \in [Jti -> Nat]
ASSUME BoundsAssumption == /\ Skew \in Nat
                           /\ MaxEntries \in Nat \ {0}
                           /\ MaxClock \in Nat

VARIABLES
    clock,      \* time.time(), in whole seconds
    entries,    \* the jtis the cache holds (their values are ExpiresAt)
    task,       \* per thread: the grant being verified and how far it got
    liveUses    \* history: times this process accepted a jti before it expired

vars == <<clock, entries, task, liveUses>>

Stage == {"idle", "claims", "temporal", "cache", "accepted", "rejected"}

Task == [stage : Stage, jti : Jti, now : 0 .. MaxClock]

TypeOK == /\ clock \in 0 .. MaxClock
          /\ entries \in SUBSET Jti
          /\ task \in [Thread -> Task]
          /\ liveUses \in [Jti -> Nat]

Init == /\ clock = 0
        /\ entries = {}
        /\ task \in [Thread -> [stage : {"idle"}, jti : Jti, now : {0}]]
        /\ liveUses = [j \in Jti |-> 0]

----------------------------------------------------------------------------

\* A request with a grant arrives: its body and token decode, the key is known.
Receive(t, j) ==
    /\ task[t].stage = "idle"
    /\ task' = [task EXCEPT ![t] = [@ EXCEPT !.stage = "claims", !.jti = j]]
    /\ UNCHANGED <<clock, entries, liveUses>>

\* A claim binding, the gateway's authority (before the validity period is
\* checked) or the exact request (after it) may not match.
Refuse(t) ==
    /\ task[t].stage \in {"claims", "temporal"}
    /\ task' = [task EXCEPT ![t].stage = "rejected"]
    /\ UNCHANGED <<clock, entries, liveUses>>

\* The period a grant is good for, widened by the skew on both sides.
TemporallyValid(j, now) ==
    /\ IssuedAt[j] <= now + Skew
    /\ now < ExpiresAt[j] + Skew

RequireTemporalValidity(t) ==
    /\ task[t].stage = "claims"
    /\ task' = [task EXCEPT ![t].stage =
                   IF TemporallyValid(task[t].jti, clock) THEN "temporal" ELSE "rejected"]
    /\ UNCHANGED <<clock, entries, liveUses>>

\* Mutant of ReadClock: the reading is rounded up to the next second.
ReadClockRoundedUp(t) ==
    /\ task[t].stage = "temporal"
    /\ task' = [task EXCEPT ![t] = [@ EXCEPT !.stage = "cache", !.now = clock + 1]]
    /\ UNCHANGED <<clock, entries, liveUses>>

\* remember_once reads the clock before it takes the lock ...
ReadClock(t) ==
    /\ task[t].stage = "temporal"
    /\ task' = [task EXCEPT ![t] = [@ EXCEPT !.stage = "cache", !.now = clock]]
    /\ UNCHANGED <<clock, entries, liveUses>>

\* Mutant of Unexpired: entries are dropped a skew before they expire.
UnexpiredBySkew(now) == {j \in entries : now + Skew < ExpiresAt[j]}

Unexpired(now) == {j \in entries : now < ExpiresAt[j]}

\* Mutant of HasRoom: the bound is tested with > instead of >=.
HasRoomPlusOne(kept) == Cardinality(kept) <= MaxEntries

HasRoom(kept) == Cardinality(kept) < MaxEntries

\* ... and under the lock evicts what that reading says has expired, refuses a
\* jti it still holds or a full cache, and otherwise records the jti.
RememberOnce(t) ==
    LET j == task[t].jti
        kept == Unexpired(task[t].now)
        fresh == j \notin kept /\ HasRoom(kept)
    IN  /\ task[t].stage = "cache"
        /\ entries' = IF fresh THEN kept \cup {j} ELSE kept
        /\ task' = [task EXCEPT ![t].stage = IF fresh THEN "accepted" ELSE "rejected"]
        /\ liveUses' = IF fresh /\ clock < ExpiresAt[j]
                          THEN [liveUses EXCEPT ![j] = @ + 1]
                          ELSE liveUses
        /\ UNCHANGED clock

\* The probe handler answers: the probe's result, or the rejection's status.
Answer(t) ==
    /\ task[t].stage \in {"accepted", "rejected"}
    /\ task' = [task EXCEPT ![t].stage = "idle"]
    /\ UNCHANGED <<clock, entries, liveUses>>

\* The gateway process is replaced: its cache was only in memory.
Restart ==
    /\ entries' = {}
    /\ task' = [t \in Thread |-> [task[t] EXCEPT !.stage = "idle"]]
    /\ liveUses' = [j \in Jti |-> 0]
    /\ UNCHANGED clock

Tick == /\ clock < MaxClock
        /\ clock' = clock + 1
        /\ UNCHANGED <<entries, task, liveUses>>

Next == \/ \E t \in Thread : \/ \E j \in Jti : Receive(t, j)
                               \/ Refuse(t)
                               \/ RequireTemporalValidity(t)
                               \/ ReadClock(t)
                               \/ RememberOnce(t)
                               \/ Answer(t)
        \/ Restart
        \/ Tick

Spec == Init /\ [][Next]_vars

----------------------------------------------------------------------------

\* One process accepts a grant at most once before the grant expires, however
\* its threads interleave, although every thread evicts by a clock reading it
\* took before it had the lock (remember_once, verification.py:79-95).
UsedOnceWhileLive == \A j \in Jti : liveUses[j] <= 1

\* The cache never holds more than max_entries grants (verification.py:90).
CacheWithinBound == Cardinality(entries) <= MaxEntries

\* What makes UsedOnceWhileLive inductive: no reading is ahead of the clock, so
\* nothing is evicted early, and a grant accepted while live stays recorded until
\* it expires.
ReadingsPast == \A t \in Thread : task[t].now <= clock
LiveUsesRecorded == \A j \in Jti : \/ liveUses[j] = 0
                                  \/ j \in entries
                                  \/ ExpiresAt[j] <= clock

IInv == /\ TypeOK
        /\ ReadingsPast
        /\ LiveUsesRecorded
        /\ UsedOnceWhileLive
        /\ IsFiniteSet(entries)
        /\ CacheWithinBound
=============================================================================
