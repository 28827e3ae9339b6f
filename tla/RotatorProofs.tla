---------------------------- MODULE RotatorProofs ----------------------------
(***************************************************************************)
(* Theorems about Rotator for every number of keys, every TTL, delay,      *)
(* interval and bound on the disturbances, with proofs that TLAPS checks.  *)
(*                                                                         *)
(* The argument.  A key DNS serves is current or previous (DnsIsLive), so  *)
(* it is never pruned.  A key leaves DNS only by the PUT of R6 or a later  *)
(* one, and from then on its cached copies age: in R7 the deadline counted *)
(* from after that PUT is at least the longest remaining cache lifetime    *)
(* (DeadlineCovers), which needs GracePeriod >= TTL; the entry keeps that  *)
(* deadline (CachedKeysAreKept) until the prune finds it elapsed, and then *)
(* nothing caches the key (TodoIsExpired).                                    *)
(***************************************************************************)
EXTENDS Rotator, TLAPS

\* A key that may be cached has its file and an entry; once the entry is in
\* state grace its deadline outlives the cached copies.
CachedKeysAreKept ==
    \A k \in Key : cache[k] > 0 =>
        /\ k \in keydir
        /\ meta[k] # "none"
        /\ meta[k] = "grace" => cache[k] <= drop[k]

CacheBounded == \A k \in Key : cache[k] <= TTL

\* What DNS serves is current or previous.
DnsIsLive == \A k \in dns : meta[k] \in {"current", "previous"}

LiveHaveFiles == \A k \in Key : meta[k] \in {"current", "previous"} => k \in keydir

\* The generated key is unknown to the world until its entry is written, and
\* the current one from then on.
NewIsPrivate == pc \in {"R2", "R2meta"} => meta[new] = "none"
NewHasFile   == pc = "R2meta" => new \in keydir
NewIsCurrent == pc \in {"R3", "R4", "R4mark", "R5", "R6", "R7", "R7set"} =>
                    meta[new] = "current"

\* Between the PUT of R6 and the end of R7 DNS serves the new key alone, and no
\* other key outlives the deadline in a cache.
SoloIsServed == pc \in {"R7", "R7set"} => dns = {new}
DeadlineCovers == pc = "R7set" => \A k \in Key : k \notin dns => cache[k] <= deadline

\* What the prune is about to delete is a grace entry whose deadline is over.
TodoIsExpired == \A k \in todo : pc = "R8rm" /\ meta[k] = "grace" /\ drop[k] = 0

\* What the steps guarantee whatever the periods are.
StoreInv ==
    /\ TypeOK
    /\ DnsIsLive
    /\ LiveHaveFiles
    /\ NewIsPrivate
    /\ NewHasFile
    /\ NewIsCurrent
    /\ SoloIsServed
    /\ TodoIsExpired

\* What they guarantee about caches when GracePeriod >= TTL.
CacheInv ==
    /\ CacheBounded
    /\ CachedKeysAreKept
    /\ DeadlineCovers

USE DEF vars, storeVars, worldVars, serverVars, stepVars, procVars

-----------------------------------------------------------------------------
(* The invariant holds initially and every step preserves it.              *)

LEMMA InitInv == Init => StoreInv /\ CacheInv
  <1> SUFFICES ASSUME Init PROVE StoreInv /\ CacheInv
    OBVIOUS
  <1>1. TypeOK
    <2>1. rr \in BOOLEAN /\ reloading \in BOOLEAN
      BY DEF Init
    <2>2. meta \in [Key -> LifecycleState \cup {"none"}]
      BY DEF Init, LifecycleState
    <2>3. drop \in [Key -> Nat] /\ cache \in [Key -> Nat]
      BY DEF Init
    <2>4. QED
      BY <2>1, <2>2, <2>3, ConstantsAssumption DEF Init, TypeOK, ConstantsAssumption
  <1>2. QED
    BY <1>1, ConstantsAssumption
    DEF Init, StoreInv, CacheInv, CacheBounded, CachedKeysAreKept, DnsIsLive, LiveHaveFiles,
        NewIsPrivate, NewHasFile, NewIsCurrent, SoloIsServed, DeadlineCovers,
        TodoIsExpired, ConstantsAssumption

\* No step leaves the types.
LEMMA TypePreserved == ASSUME TypeOK, [Next]_vars PROVE TypeOK'
  <1> USE ConstantsAssumption DEF TypeOK, LifecycleState, RotateSteps,
                        Disturb, Return
  <1>1. CASE runDomainLoop
    BY <1>1 DEF runDomainLoop
  <1>2. ASSUME NEW command \in {"rotate", "keygen"}, RunCLI(command) PROVE TypeOK'
    BY <1>2 DEF RunCLI
  <1>3. CASE doInit
    BY <1>3 DEF doInit
  <1>4. CASE pickConfigID
    BY <1>4 DEF pickConfigID, Fresh
  <1>5. CASE AllConfigIDsInUse
    BY <1>5 DEF AllConfigIDsInUse
  <1>6. CASE AddWriteFile
    BY <1>6 DEF AddWriteFile
  <1>7. CASE AddPersist
    BY <1>7 DEF AddPersist
  <1>8. CASE reload
    <2>1. loaded' \subseteq Key /\ reloading' \in BOOLEAN
      BY <1>8 DEF reload, ServerTold
    <2>2. QED
      BY <1>8, <2>1 DEF reload
  <1>9. CASE publishOverlap
    <2>1. new \in Key
      BY <1>9 DEF publishOverlap
    <2>2. dns' \subseteq Key
      BY <1>9, <2>1 DEF publishOverlap, Serve, buildOverlapList, Previous
    <2>3. cache' \in [Key -> Nat]
      BY <1>9 DEF publishOverlap, Serve
    <2>4. QED
      BY <1>9, <2>1, <2>2, <2>3 DEF publishOverlap
  <1>10. CASE OverlapRefused
    BY <1>10 DEF OverlapRefused
  <1>11. CASE markInDNS
    BY <1>11 DEF markInDNS
  <1>12. CASE Sleep
    BY <1>12 DEF Sleep
  <1>13. CASE publishSolo
    BY <1>13 DEF publishSolo, Serve, buildSoloList
  <1>14. CASE ComputeDropAt
    BY <1>14 DEF ComputeDropAt
  <1>15. CASE AllPreviousSet
    BY <1>15 DEF AllPreviousSet
  <1>16. CASE PruneStart
    BY <1>16 DEF PruneStart
  <1>17. CASE PrunePersist
    BY <1>17 DEF PrunePersist
  <1>18. ASSUME NEW k \in Key, SetStateGrace(k) PROVE TypeOK'
    BY <1>18 DEF SetStateGrace
  <1>19. ASSUME NEW k \in Key, PruneRemove(k) PROVE TypeOK'
    BY <1>19 DEF PruneRemove
  <1>20. CASE AddPersistFails
    BY <1>20 DEF AddPersistFails
  <1>21. CASE reloadFails
    <2>1. loaded' \subseteq Key /\ reloading' \in BOOLEAN
      BY <1>21 DEF reloadFails, ServerTold
    <2>2. QED
      BY <1>21, <2>1 DEF reloadFails
  <1>22. CASE publishDNSFails
    <2>1. new \in Key
      BY <1>22 DEF publishDNSFails
    <2>2. dns' \subseteq Key /\ cache' \in [Key -> Nat]
      <3>1. PICK list \in SUBSET Key : Serve(list)
        BY <1>22, <2>1 DEF publishDNSFails, buildOverlapList, buildSoloList, Previous
      <3>2. QED
        BY <3>1 DEF Serve
    <2>3. QED
      BY <1>22, <2>2 DEF publishDNSFails
  <1>23. CASE StepFails
    BY <1>23 DEF StepFails
  <1>24. CASE Crash
    BY <1>24 DEF Crash
  <1>25. CASE ServerReloads
    BY <1>25 DEF ServerReloads
  <1>26. CASE Tick
    BY <1>26 DEF Tick, Dec
  <1>27. CASE UNCHANGED vars
    BY <1>27
  <1>28. QED
    BY <1>1, <1>2, <1>3, <1>4, <1>5, <1>6, <1>7, <1>8, <1>9, <1>10, <1>11, <1>12,
       <1>13, <1>14, <1>15, <1>16, <1>17, <1>18, <1>19, <1>20, <1>21, <1>22, <1>23,
       <1>24, <1>25, <1>26, <1>27
    DEF Next, Rotate, Fault

\* No step breaks what the metadata, the directory and DNS have in common.
LEMMA StorePreserved == ASSUME StoreInv, [Next]_vars PROVE StoreInv'
  <1> USE ConstantsAssumption DEF Disturb, Return
  <1>0. TypeOK /\ TypeOK'
    BY TypePreserved DEF StoreInv
  <1> DEFINE Rest == /\ DnsIsLive /\ LiveHaveFiles /\ NewIsPrivate /\ NewHasFile
                     /\ NewIsCurrent /\ SoloIsServed /\ TodoIsExpired
  <1>r. Rest
    BY DEF StoreInv
  <1> SUFFICES Rest'
    BY <1>0 DEF StoreInv
  <1> USE DEF DnsIsLive, LiveHaveFiles, NewIsPrivate, NewHasFile, NewIsCurrent,
              SoloIsServed, TodoIsExpired
  <1>1. CASE runDomainLoop
    BY <1>0, <1>r, <1>1 DEF TypeOK, runDomainLoop
  <1>2. ASSUME NEW command \in {"rotate", "keygen"}, RunCLI(command) PROVE Rest'
    BY <1>0, <1>r, <1>2 DEF TypeOK, RunCLI
  <1>3. CASE doInit
    BY <1>0, <1>r, <1>3 DEF TypeOK, doInit
  <1>4. CASE pickConfigID
    BY <1>0, <1>r, <1>4 DEF TypeOK, pickConfigID, Fresh
  <1>5. CASE AllConfigIDsInUse
    BY <1>0, <1>r, <1>5 DEF TypeOK, AllConfigIDsInUse
  <1>6. CASE AddWriteFile
    BY <1>0, <1>r, <1>6 DEF TypeOK, AddWriteFile
  <1>7. CASE AddPersist
    <2>1. new \in Key /\ meta[new] = "none" /\ new \in keydir
      BY <1>0, <1>r, <1>7 DEF TypeOK, AddPersist
    <2>2. \A k \in Key : meta'[k] \in {"current", "previous"}
              <=> k = new \/ meta[k] \in {"current", "previous"}
      BY <1>0, <1>7 DEF TypeOK, AddPersist
    <2>3. (DnsIsLive /\ LiveHaveFiles)'
      BY <1>0, <1>r, <1>7, <2>1, <2>2 DEF TypeOK, AddPersist
    <2>4. (NewIsPrivate /\ NewHasFile /\ NewIsCurrent /\ SoloIsServed /\ TodoIsExpired)'
      BY <1>0, <1>r, <1>7, <2>1 DEF TypeOK, AddPersist
    <2>5. QED
      BY <2>3, <2>4
  <1>8. CASE reload
    BY <1>0, <1>r, <1>8 DEF TypeOK, reload
  <1>9. CASE publishOverlap
    <2>1. \A k \in dns' : k = new \/ meta[k] = "previous"
      BY <1>9 DEF publishOverlap, Serve, buildOverlapList, Previous
    <2>2. DnsIsLive'
      BY <1>r, <1>9, <2>1 DEF publishOverlap
    <2>3. (LiveHaveFiles /\ NewIsPrivate /\ NewHasFile /\ NewIsCurrent /\ SoloIsServed
           /\ TodoIsExpired)'
      BY <1>0, <1>r, <1>9 DEF TypeOK, publishOverlap
    <2>4. QED
      BY <2>2, <2>3
  <1>10. CASE OverlapRefused
    BY <1>0, <1>r, <1>10 DEF TypeOK, OverlapRefused
  <1>11. CASE markInDNS
    BY <1>0, <1>r, <1>11 DEF TypeOK, markInDNS
  <1>12. CASE Sleep
    BY <1>0, <1>r, <1>12 DEF TypeOK, Sleep
  <1>13. CASE publishSolo
    BY <1>0, <1>r, <1>13 DEF TypeOK, publishSolo, Serve, buildSoloList
  <1>14. CASE ComputeDropAt
    BY <1>0, <1>r, <1>14 DEF TypeOK, ComputeDropAt
  <1>15. CASE AllPreviousSet
    BY <1>0, <1>r, <1>15 DEF TypeOK, AllPreviousSet, Previous
  <1>16. CASE PruneStart
    BY <1>0, <1>r, <1>16 DEF TypeOK, PruneStart
  <1>17. CASE PrunePersist
    <2>1. \A k \in Key : meta'[k] \in {"current", "previous"}
              <=> meta[k] \in {"current", "previous"}
      BY <1>0, <1>r, <1>17 DEF TypeOK, PrunePersist
    <2>2. (DnsIsLive /\ LiveHaveFiles)'
      BY <1>0, <1>r, <1>17, <2>1 DEF TypeOK, PrunePersist
    <2>3. (NewIsPrivate /\ NewHasFile /\ NewIsCurrent /\ SoloIsServed /\ TodoIsExpired)'
      BY <1>0, <1>r, <1>17 DEF TypeOK, PrunePersist
    <2>4. QED
      BY <2>2, <2>3
  <1>18. ASSUME NEW k \in Key, SetStateGrace(k) PROVE Rest'
    <2>1. meta[new] = "current" /\ dns = {new} /\ k # new
      BY <1>0, <1>r, <1>18 DEF SetStateGrace, Previous
    <2>2. DnsIsLive'
      BY <1>0, <1>r, <1>18, <2>1 DEF TypeOK, SetStateGrace
    <2>3. (LiveHaveFiles /\ NewIsPrivate /\ NewHasFile /\ NewIsCurrent /\ SoloIsServed)'
      BY <1>0, <1>r, <1>18, <2>1 DEF TypeOK, SetStateGrace
    <2>4. TodoIsExpired'
      BY <1>0, <1>r, <1>18 DEF TypeOK, SetStateGrace
    <2>5. QED
      BY <2>2, <2>3, <2>4
  <1>19. ASSUME NEW k \in Key, PruneRemove(k) PROVE Rest'
    <2>1. meta[k] = "grace"
      BY <1>r, <1>19 DEF PruneRemove
    <2>2. LiveHaveFiles'
      BY <1>0, <1>r, <1>19, <2>1 DEF TypeOK, PruneRemove
    <2>3. (DnsIsLive /\ NewIsPrivate /\ NewHasFile /\ NewIsCurrent /\ SoloIsServed
           /\ TodoIsExpired)'
      BY <1>0, <1>r, <1>19 DEF TypeOK, PruneRemove
    <2>4. QED
      BY <2>2, <2>3
  <1>20. CASE AddPersistFails
    BY <1>0, <1>r, <1>20 DEF TypeOK, AddPersistFails
  <1>21. CASE reloadFails
    BY <1>0, <1>r, <1>21 DEF TypeOK, reloadFails
  <1>22. CASE publishDNSFails
    BY <1>0, <1>r, <1>22 DEF TypeOK, publishDNSFails, Serve, buildOverlapList, buildSoloList, Previous
  <1>23. CASE StepFails
    BY <1>0, <1>r, <1>23 DEF TypeOK, StepFails
  <1>24. CASE Crash
    BY <1>0, <1>r, <1>24 DEF TypeOK, Crash
  <1>25. CASE ServerReloads
    BY <1>0, <1>r, <1>25 DEF TypeOK, ServerReloads
  <1>26. CASE Tick
    BY <1>0, <1>r, <1>26 DEF TypeOK, Tick, Dec
  <1>27. CASE UNCHANGED vars
    BY <1>0, <1>r, <1>27
  <1>28. QED
    BY <1>1, <1>2, <1>3, <1>4, <1>5, <1>6, <1>7, <1>8, <1>9, <1>10, <1>11, <1>12,
       <1>13, <1>14, <1>15, <1>16, <1>17, <1>18, <1>19, <1>20, <1>21, <1>22, <1>23, <1>24,
       <1>25, <1>26, <1>27
    DEF Next, Rotate, Fault

\* No step lets a file go, or a deadline pass, while a cache may hold the key,
\* if the grace period is at least the TTL.
LEMMA CachePreserved ==
    ASSUME GracePeriod >= TTL, StoreInv, CacheInv, [Next]_vars
    PROVE  CacheInv'
  <1> USE ConstantsAssumption DEF Disturb, Return
  <1>0. TypeOK /\ TypeOK'
    BY TypePreserved DEF StoreInv
  <1>r. StoreInv /\ CacheInv
    OBVIOUS
  <1> USE DEF StoreInv, CacheInv, DnsIsLive, LiveHaveFiles, NewIsPrivate, NewHasFile,
              NewIsCurrent, SoloIsServed, TodoIsExpired, CacheBounded,
              CachedKeysAreKept, DeadlineCovers
  <1>1. CASE runDomainLoop
    BY <1>0, <1>r, <1>1 DEF TypeOK, runDomainLoop
  <1>2. ASSUME NEW command \in {"rotate", "keygen"}, RunCLI(command) PROVE CacheInv'
    BY <1>0, <1>r, <1>2 DEF TypeOK, RunCLI
  <1>3. CASE doInit
    BY <1>0, <1>r, <1>3 DEF TypeOK, doInit
  <1>4. CASE pickConfigID
    BY <1>0, <1>r, <1>4 DEF TypeOK, pickConfigID, Fresh
  <1>5. CASE AllConfigIDsInUse
    BY <1>0, <1>r, <1>5 DEF TypeOK, AllConfigIDsInUse
  <1>6. CASE AddWriteFile
    BY <1>0, <1>r, <1>6 DEF TypeOK, AddWriteFile
  <1>7. CASE AddPersist
    BY <1>0, <1>r, <1>7 DEF TypeOK, AddPersist
  <1>8. CASE reload
    BY <1>0, <1>r, <1>8 DEF TypeOK, reload
  <1>9. CASE publishOverlap
    <2>1. \A k \in Key : k \in dns' => k \in keydir /\ meta[k] \in {"current", "previous"}
      BY <1>0, <1>r, <1>9 DEF TypeOK, publishOverlap, Serve, buildOverlapList, Previous
    <2>2. CachedKeysAreKept'
      BY <1>0, <1>r, <1>9, <2>1 DEF TypeOK, publishOverlap, Serve
    <2>3. (CacheBounded /\ DeadlineCovers)'
      BY <1>0, <1>r, <1>9 DEF TypeOK, publishOverlap, Serve
    <2>4. QED
      BY <2>2, <2>3
  <1>10. CASE OverlapRefused
    BY <1>0, <1>r, <1>10 DEF TypeOK, OverlapRefused
  <1>11. CASE markInDNS
    BY <1>0, <1>r, <1>11 DEF TypeOK, markInDNS
  <1>12. CASE Sleep
    BY <1>0, <1>r, <1>12 DEF TypeOK, Sleep
  <1>13. CASE publishSolo
    <2>1. new \in keydir /\ meta[new] = "current"
      BY <1>0, <1>r, <1>13 DEF TypeOK, publishSolo
    <2>2. CachedKeysAreKept'
      BY <1>0, <1>r, <1>13, <2>1 DEF TypeOK, publishSolo, Serve, buildSoloList
    <2>3. (CacheBounded /\ DeadlineCovers)'
      BY <1>0, <1>r, <1>13 DEF TypeOK, publishSolo, Serve
    <2>4. QED
      BY <2>2, <2>3
  <1>14. CASE ComputeDropAt
    <2>1. \A k \in Key : cache[k] <= deadline'
      BY <1>0, <1>r, <1>14 DEF TypeOK, ComputeDropAt
    <2>2. QED
      BY <1>0, <1>r, <1>14, <2>1 DEF TypeOK, ComputeDropAt
  <1>15. CASE AllPreviousSet
    BY <1>0, <1>r, <1>15 DEF TypeOK, AllPreviousSet, Previous
  <1>16. CASE PruneStart
    BY <1>0, <1>r, <1>16 DEF TypeOK, PruneStart
  <1>17. CASE PrunePersist
    BY <1>0, <1>r, <1>17 DEF TypeOK, PrunePersist
  <1>18. ASSUME NEW k \in Key, SetStateGrace(k) PROVE CacheInv'
    <2>1. k \notin dns
      BY <1>0, <1>r, <1>18 DEF SetStateGrace, Previous
    <2>2. cache[k] <= drop'[k]
      BY <1>0, <1>r, <1>18, <2>1 DEF TypeOK, SetStateGrace
    <2>3. CachedKeysAreKept'
      BY <1>0, <1>r, <1>18, <2>2 DEF TypeOK, SetStateGrace
    <2>4. (CacheBounded /\ DeadlineCovers)'
      BY <1>0, <1>r, <1>18 DEF TypeOK, SetStateGrace
    <2>5. QED
      BY <2>3, <2>4
  <1>19. ASSUME NEW k \in Key, PruneRemove(k) PROVE CacheInv'
    <2>1. cache[k] = 0
      BY <1>0, <1>r, <1>19 DEF TypeOK, PruneRemove
    <2>2. CachedKeysAreKept'
      BY <1>0, <1>r, <1>19, <2>1 DEF TypeOK, PruneRemove
    <2>3. (CacheBounded /\ DeadlineCovers)'
      BY <1>0, <1>r, <1>19 DEF TypeOK, PruneRemove
    <2>4. QED
      BY <2>2, <2>3
  <1>20. CASE AddPersistFails
    BY <1>0, <1>r, <1>20 DEF TypeOK, AddPersistFails
  <1>21. CASE reloadFails
    BY <1>0, <1>r, <1>21 DEF TypeOK, reloadFails
  <1>22. CASE publishDNSFails
    BY <1>0, <1>r, <1>22 DEF TypeOK, publishDNSFails, Serve, buildOverlapList, buildSoloList, Previous
  <1>23. CASE StepFails
    BY <1>0, <1>r, <1>23 DEF TypeOK, StepFails
  <1>24. CASE Crash
    BY <1>0, <1>r, <1>24 DEF TypeOK, Crash
  <1>25. CASE ServerReloads
    BY <1>0, <1>r, <1>25 DEF TypeOK, ServerReloads
  <1>26. CASE Tick
    <2>1. \A k \in Key : k \notin dns => cache'[k] = Dec(cache[k])
      BY <1>0, <1>26 DEF TypeOK, Tick
    <2>2. \A k \in Key : k \in dns => meta[k] # "grace"
      BY <1>r
    <2>3. CachedKeysAreKept'
      BY <1>0, <1>r, <1>26, <2>1, <2>2 DEF TypeOK, Tick, Dec
    <2>4. CacheBounded'
      BY <1>0, <1>r, <1>26 DEF TypeOK, Tick, Dec
    <2>5. DeadlineCovers'
      BY <1>0, <1>r, <1>26, <2>1 DEF TypeOK, Tick, Dec
    <2>6. QED
      BY <2>3, <2>4, <2>5
  <1>27. CASE UNCHANGED vars
    BY <1>0, <1>r, <1>27
  <1>28. QED
    BY <1>1, <1>2, <1>3, <1>4, <1>5, <1>6, <1>7, <1>8, <1>9, <1>10, <1>11, <1>12,
       <1>13, <1>14, <1>15, <1>16, <1>17, <1>18, <1>19, <1>20, <1>21, <1>22, <1>23, <1>24,
       <1>25, <1>26, <1>27
    DEF Next, Rotate, Fault

-----------------------------------------------------------------------------
(* The theorems.                                                           *)

LEMMA StoreInvariant == Spec => []StoreInv
  <1>1. Init => StoreInv
    BY InitInv
  <1>2. StoreInv /\ [Next]_vars => StoreInv'
    BY StorePreserved
  <1>3. QED
    BY <1>1, <1>2, PTL DEF Spec

LEMMA CacheInvariant == ASSUME GracePeriod >= TTL PROVE Spec => []CacheInv
  <1>1. Init => CacheInv
    BY InitInv
  <1>2. StoreInv /\ CacheInv /\ [Next]_vars => CacheInv'
    BY CachePreserved
  <1>3. QED
    BY <1>1, <1>2, StoreInvariant, PTL DEF Spec

\* Type correctness of the rotation.
THEOREM TypeCorrect == Spec => []TypeOK
  <1>1. StoreInv => TypeOK
    BY DEF StoreInv
  <1>2. QED
    BY <1>1, StoreInvariant, PTL

\* A1 of docs/architecture.md: if keys stay in grace for a TTL at least, the key
\* directory holds every key that a client may have cached, whatever fails.
THEOREM ZeroDowntime ==
    ASSUME GracePeriod >= TTL
    PROVE  Spec => []KeydirCoversCaches
  <1>1. CacheInv => KeydirCoversCaches
    BY DEF CacheInv, CachedKeysAreKept, KeydirCoversCaches
  <1>2. QED
    BY <1>1, CacheInvariant, PTL

\* No crash and no failed step leaves a Current or Previous entry without its
\* file: R4 can always read the keys it has to publish (rotator.go:213-216).
THEOREM NoWedge == Spec => []PreviousReadable
  <1>1. StoreInv => PreviousReadable
    BY DEF StoreInv, LiveHaveFiles, PreviousReadable
  <1>2. QED
    BY <1>1, StoreInvariant, PTL

\* A key in its grace period is not in DNS and does not come back.
THEOREM GraceIsWithdrawn == Spec => []GraceNotAdvertised
  <1>1. StoreInv => GraceNotAdvertised
    BY DEF StoreInv, DnsIsLive, GraceNotAdvertised
  <1>2. QED
    BY <1>1, StoreInvariant, PTL

-----------------------------------------------------------------------------
(* The server's memory.                                                    *)

\* The key is in the server's memory or will be once the server has done the
\* reload it was asked for.
Held(k) == k \in loaded \/ (reloading /\ k \in keydir)

\* The server holds every key a client may have cached and, from R4 to R6 on,
\* every key the rotation is about to publish.
ServerInv ==
    /\ \A k \in Key : cache[k] > 0 \/ k \in dns => Held(k)
    /\ pc \in {"R4", "R4mark", "R5", "R6"} =>
          \A k \in Key : meta[k] \in {"current", "previous"} => Held(k)

LEMMA ServerPreserved ==
    ASSUME StoreInv, CacheInv, ServerInv, [Next]_vars
    PROVE  ServerInv'
  <1> USE ConstantsAssumption DEF Disturb, Return
  <1>0. TypeOK /\ TypeOK'
    BY TypePreserved DEF StoreInv
  <1>r. /\ CachedKeysAreKept /\ DnsIsLive /\ LiveHaveFiles /\ NewIsCurrent /\ ServerInv
        /\ NewIsPrivate /\ TodoIsExpired
    BY DEF StoreInv, CacheInv
  <1> USE DEF CachedKeysAreKept, DnsIsLive, LiveHaveFiles, NewIsCurrent, ServerInv, ServerTold,
              Held
  <1>1. CASE runDomainLoop
    BY <1>0, <1>r, <1>1 DEF TypeOK, runDomainLoop
  <1>2. ASSUME NEW command \in {"rotate", "keygen"}, RunCLI(command)
        PROVE  ServerInv'
    BY <1>0, <1>r, <1>2 DEF TypeOK, RunCLI
  <1>3. CASE doInit
    BY <1>0, <1>r, <1>3 DEF TypeOK, doInit
  <1>4. CASE pickConfigID
    BY <1>0, <1>r, <1>4 DEF TypeOK, pickConfigID, Fresh
  <1>5. CASE AllConfigIDsInUse
    BY <1>0, <1>r, <1>5 DEF TypeOK, AllConfigIDsInUse
  <1>6. CASE AddWriteFile
    BY <1>0, <1>r, <1>6 DEF TypeOK, AddWriteFile
  <1>7. CASE AddPersist
    BY <1>0, <1>r, <1>7 DEF TypeOK, AddPersist
  <1>8. CASE reload
    BY <1>0, <1>r, <1>8 DEF TypeOK, reload
  <1>9. CASE publishOverlap
    BY <1>0, <1>r, <1>9 DEF TypeOK, publishOverlap, Serve, buildOverlapList, Previous
  <1>10. CASE OverlapRefused
    BY <1>0, <1>r, <1>10 DEF TypeOK, OverlapRefused
  <1>11. CASE markInDNS
    BY <1>0, <1>r, <1>11 DEF TypeOK, markInDNS
  <1>12. CASE Sleep
    BY <1>0, <1>r, <1>12 DEF TypeOK, Sleep
  <1>13. CASE publishSolo
    BY <1>0, <1>r, <1>13 DEF TypeOK, publishSolo, Serve, buildSoloList
  <1>14. CASE ComputeDropAt
    BY <1>0, <1>r, <1>14 DEF TypeOK, ComputeDropAt
  <1>15. CASE AllPreviousSet
    BY <1>0, <1>r, <1>15 DEF TypeOK, AllPreviousSet, Previous
  <1>16. CASE PruneStart
    BY <1>0, <1>r, <1>16 DEF TypeOK, PruneStart
  <1>17. CASE PrunePersist
    BY <1>0, <1>r, <1>17 DEF TypeOK, PrunePersist
  <1>18. ASSUME NEW k \in Key, SetStateGrace(k) PROVE ServerInv'
    BY <1>0, <1>r, <1>18 DEF TypeOK, SetStateGrace, Previous
  <1>19. ASSUME NEW k \in Key, PruneRemove(k) PROVE ServerInv'
    <2>1. cache[k] = 0 /\ k \notin dns /\ meta[k] = "grace"
      BY <1>0, <1>r, <1>19 DEF TypeOK, PruneRemove, TodoIsExpired
    <2>2. QED
      BY <1>0, <1>r, <1>19, <2>1 DEF TypeOK, PruneRemove
  <1>20. CASE AddPersistFails
    <2>1. cache[new] = 0 /\ new \notin dns
      BY <1>0, <1>r, <1>20 DEF TypeOK, AddPersistFails, NewIsPrivate
    <2>2. \A k \in Key : k # new /\ Held(k) => Held(k)'
      BY <1>20 DEF AddPersistFails
    <2>3. QED
      BY <1>0, <1>r, <1>20, <2>1, <2>2 DEF TypeOK, AddPersistFails
  <1>21. CASE reloadFails
    BY <1>0, <1>r, <1>21 DEF TypeOK, reloadFails
  <1>22. CASE publishDNSFails
    <2>1. Held(new) /\ \A k \in Previous : Held(k)
      BY <1>0, <1>r, <1>22 DEF TypeOK, publishDNSFails, Previous
    <2>2. PICK list : (\A k \in list : Held(k)) /\ Serve(list)
      <3>1. \A k \in dns : Held(k)
        BY <1>0, <1>r DEF TypeOK
      <3>2. \A k \in buildOverlapList \cup buildSoloList : Held(k)
        BY <2>1 DEF buildOverlapList, buildSoloList
      <3>3. QED
        BY <1>22, <3>1, <3>2 DEF publishDNSFails
    <2>3. QED
      BY <1>0, <1>r, <1>22, <2>2 DEF TypeOK, publishDNSFails, Serve
  <1>23. CASE StepFails
    BY <1>0, <1>r, <1>23 DEF TypeOK, StepFails
  <1>24. CASE Crash
    BY <1>0, <1>r, <1>24 DEF TypeOK, Crash
  <1>25. CASE ServerReloads
    BY <1>0, <1>r, <1>25 DEF TypeOK, ServerReloads
  <1>26. CASE Tick
    BY <1>0, <1>r, <1>26 DEF TypeOK, Tick, Dec
  <1>27. CASE UNCHANGED vars
    BY <1>r, <1>27
  <1>28. QED
    BY <1>1, <1>2, <1>3, <1>4, <1>5, <1>6, <1>7, <1>8, <1>9, <1>10, <1>11, <1>12,
       <1>13, <1>14, <1>15, <1>16, <1>17, <1>18, <1>19, <1>20, <1>21, <1>22, <1>23, <1>24,
       <1>25, <1>26, <1>27
    DEF Next, Rotate, Fault

\* The server has every key that a client may have cached in memory, or the
\* directory has it and a reload is still to be done: through every fault and
\* crash, and for both kinds of Reload (rotator.go:88-93).
THEOREM ServerKeepsUp ==
    ASSUME GracePeriod >= TTL
    PROVE  Spec => []ServerHoldsCachedKeys
  <1>1. Init => ServerInv
    BY ConstantsAssumption DEF Init, ServerInv, ConstantsAssumption
  <1>2. StoreInv /\ CacheInv /\ ServerInv /\ [Next]_vars => ServerInv'
    BY ServerPreserved
  <1>3. ServerInv => ServerHoldsCachedKeys
    BY DEF ServerInv, ServerHoldsCachedKeys, Held
  <1>4. QED
    BY <1>1, <1>2, <1>3, StoreInvariant, CacheInvariant, PTL DEF Spec

-----------------------------------------------------------------------------
(* Deletions, and the promise to the clients.                              *)

\* Only three steps take a file or an entry away, and each takes what no client
\* can use any more.
LEMMA StepDeletesSafely ==
    ASSUME StoreInv, CacheInv, [Next]_vars
    PROVE  SafeDeletion
  <1> USE DEF SafeDeletion, Disturb, Return
  <1>0. TypeOK
    BY DEF StoreInv
  <1>r. DnsIsLive /\ NewIsPrivate /\ CachedKeysAreKept /\ TodoIsExpired
    BY DEF StoreInv, CacheInv
  <1>1. CASE AddPersistFails
    BY <1>0, <1>r, <1>1 DEF TypeOK, AddPersistFails, DnsIsLive, NewIsPrivate, CachedKeysAreKept
  <1>2. ASSUME NEW k \in Key, PruneRemove(k) PROVE SafeDeletion
    <2>1. meta[k] = "grace" /\ cache[k] = 0 /\ k \notin dns
      BY <1>0, <1>r, <1>2 DEF TypeOK, PruneRemove, DnsIsLive, CachedKeysAreKept, TodoIsExpired
    <2>2. QED
      BY <1>2, <2>1 DEF PruneRemove
  <1>3. CASE PrunePersist
    BY <1>0, <1>3 DEF TypeOK, PrunePersist
  <1>4. CASE AddPersist
    BY <1>0, <1>4 DEF TypeOK, AddPersist
  <1>5. ASSUME NEW k \in Key, SetStateGrace(k) PROVE SafeDeletion
    BY <1>0, <1>5 DEF TypeOK, SetStateGrace
  <1>6. CASE AddWriteFile
    BY <1>6 DEF AddWriteFile
  <1>7. CASE UNCHANGED <<keydir, meta>>
    BY <1>7
  <1>8. QED
    BY <1>1, <1>2, <1>3, <1>4, <1>5, <1>6, <1>7
    DEF Next, Rotate, Fault, runDomainLoop, RunCLI, doInit, pickConfigID,
        AllConfigIDsInUse, reload, publishOverlap, OverlapRefused, markInDNS, Sleep,
        publishSolo, ComputeDropAt, AllPreviousSet, PruneStart, reloadFails,
        publishDNSFails, StepFails, Crash, ServerReloads, Tick

\* A file goes only when no cache can hold its key, and before its entry.
THEOREM SafeDeletions ==
    ASSUME GracePeriod >= TTL
    PROVE  Spec => DeletionIsSafe
  <1>1. StoreInv /\ CacheInv /\ [Next]_vars => SafeDeletion
    BY StepDeletesSafely
  <1>2. QED
    BY <1>1, StoreInvariant, CacheInvariant, PTL DEF Spec, DeletionIsSafe

\* Every step of the rotation installs, advertises or retires one key, lets time
\* pass, or is invisible to the clients.
LEMMA StepKeepsPromise ==
    ASSUME StoreInv, StoreInv', CacheInv, [Next]_vars
    PROVE  [Promise!Next]_(Promise!vars)
  <1> USE DEF Promise!Next, Promise!vars, Disturb, Return
  <1>0. TypeOK /\ TypeOK'
    BY DEF StoreInv
  <1>r. DnsIsLive /\ LiveHaveFiles /\ NewIsPrivate /\ NewIsCurrent /\ CachedKeysAreKept
    BY DEF StoreInv, CacheInv
  <1>s. SafeDeletion
    BY StepDeletesSafely
  <1>1. ASSUME NEW list \in SUBSET Key, list # {}, Serve(list), UNCHANGED keydir,
               list \subseteq keydir
        PROVE  [Promise!Next]_(Promise!vars)
    BY <1>1 DEF Serve, Promise!Advertise
  <1>2. new \notin {NoKey} /\ meta[new] = "current" /\ new \in Key =>
            /\ new \in keydir
            /\ buildSoloList \in SUBSET Key /\ buildSoloList # {}
            /\ buildSoloList \subseteq keydir
            /\ buildOverlapList \in SUBSET Key /\ buildOverlapList # {}
            /\ buildOverlapList \subseteq keydir
    BY <1>0, <1>r DEF TypeOK, LiveHaveFiles, buildOverlapList, buildSoloList, Previous
  <1>3. pc \in {"R4", "R6"} => new # NoKey /\ new \in Key /\ meta[new] = "current"
    BY <1>0, <1>r DEF TypeOK, NewIsCurrent
  <1>4. dns \subseteq keydir /\ dns \subseteq Key
    BY <1>0, <1>r DEF TypeOK, DnsIsLive, LiveHaveFiles
  <1>5. CASE publishOverlap
    BY <1>1, <1>2, <1>3, <1>5 DEF publishOverlap
  <1>6. CASE publishSolo
    BY <1>1, <1>2, <1>3, <1>6 DEF publishSolo
  <1>7. CASE AddWriteFile
    <2>1. CASE new \in keydir
      BY <1>7, <2>1 DEF AddWriteFile
    <2>2. CASE new \notin keydir
      BY <1>0, <1>7, <2>2 DEF TypeOK, AddWriteFile, Promise!Install
    <2>3. QED
      BY <2>1, <2>2
  <1>8. ASSUME NEW k \in Key, PruneRemove(k) PROVE [Promise!Next]_(Promise!vars)
    <2>1. cache[k] = 0 /\ k \notin dns /\ k \in keydir
      BY <1>8, <1>s DEF PruneRemove, SafeDeletion
    <2>2. QED
      BY <1>8, <2>1 DEF PruneRemove, Promise!Retire
  <1>9. CASE AddPersistFails
    <2>1. CASE keydir' = keydir
      BY <1>9, <2>1 DEF AddPersistFails
    <2>2. CASE keydir' = keydir \ {new} /\ new \in keydir
      <3>1. cache[new] = 0 /\ new \notin dns /\ new \in Key
        BY <1>0, <1>s, <1>9, <2>2 DEF TypeOK, AddPersistFails, SafeDeletion
      <3>2. QED
        BY <1>9, <2>2, <3>1 DEF AddPersistFails, Promise!Retire
    <2>3. QED
      BY <1>9, <2>1, <2>2 DEF AddPersistFails
  <1>10. CASE publishDNSFails
    <2>1. PICK list \in SUBSET (dns \cup buildOverlapList \cup buildSoloList) :
             /\ Serve(list)
             /\ pc \in {"R4", "R6"}
      BY <1>10 DEF publishDNSFails
    <2>2. CASE list = {}
      BY <1>0, <1>2, <1>3, <1>10, <2>1, <2>2 DEF TypeOK, publishDNSFails, Serve
    <2>3. CASE list # {}
      <3>1. list \in SUBSET Key /\ list \subseteq keydir
        BY <1>2, <1>3, <1>4, <2>1
      <3>2. QED
        BY <1>1, <1>10, <2>1, <2>3, <3>1 DEF publishDNSFails
    <2>4. QED
      BY <2>2, <2>3
  <1>11. CASE Tick
    <2>1. Promise!Elapse
      BY <1>11 DEF Tick, Dec, Promise!Elapse
    <2>2. QED
      BY <2>1
  <1>12. CASE UNCHANGED <<keydir, dns, cache>>
    BY <1>12
  <1>13. QED
    BY <1>5, <1>6, <1>7, <1>8, <1>9, <1>10, <1>11, <1>12
    DEF Next, Rotate, Fault, runDomainLoop, RunCLI, doInit, pickConfigID,
        AllConfigIDsInUse, reload, AddPersist, OverlapRefused, markInDNS, Sleep,
        ComputeDropAt, SetStateGrace, AllPreviousSet, PruneStart, PrunePersist,
        reloadFails, StepFails, Crash, ServerReloads

\* The rotation implements the promise of KeyService to the clients, through
\* every fault and crash, if keys stay in grace for a TTL at least.
THEOREM RotatorImplementsKeyService ==
    ASSUME GracePeriod >= TTL
    PROVE  Spec => PromiseKept
  <1>1. Init => Promise!Init
    BY DEF Init, Promise!Init
  <1>2. StoreInv /\ StoreInv' /\ CacheInv /\ [Next]_vars => [Promise!Next]_(Promise!vars)
    BY StepKeepsPromise
  <1>3. QED
    BY <1>1, <1>2, StoreInvariant, CacheInvariant, PTL DEF Spec, PromiseKept, Promise!Spec

-----------------------------------------------------------------------------
(* The lists, the settling time, and the lifecycle.                        *)

\* From R4 to R6 DNS serves what R4 published, and the metadata is what R4 read.
OverlapServed == pc \in {"R4mark", "R5", "R6"} => dns = {new} \cup Previous

LEMMA OverlapPreserved ==
    ASSUME StoreInv, OverlapServed, [Next]_vars
    PROVE  OverlapServed'
  <1> USE DEF OverlapServed, Previous, Disturb, Return
  <1>1. CASE publishOverlap
    BY <1>1 DEF publishOverlap, Serve, buildOverlapList
  <1>2. CASE markInDNS
    BY <1>2 DEF markInDNS
  <1>3. CASE Sleep
    BY <1>3 DEF Sleep
  <1>4. CASE doInit \/ ServerReloads \/ Tick
    BY <1>4 DEF doInit, ServerReloads, Tick
  <1>5. ASSUME NEW k \in Key, SetStateGrace(k) \/ PruneRemove(k) PROVE OverlapServed'
    BY <1>5 DEF SetStateGrace, PruneRemove
  <1>6. CASE \/ runDomainLoop \/ pickConfigID \/ AllConfigIDsInUse \/ AddWriteFile
             \/ AddPersist \/ reload \/ OverlapRefused \/ publishSolo \/ ComputeDropAt
             \/ AllPreviousSet \/ PruneStart \/ PrunePersist
    BY <1>6 DEF runDomainLoop, pickConfigID, AllConfigIDsInUse, AddWriteFile, AddPersist,
                reload, OverlapRefused, publishSolo, ComputeDropAt, AllPreviousSet,
                PruneStart, PrunePersist
  <1>7. CASE Fault
    BY <1>7 DEF Fault, AddPersistFails, reloadFails, publishDNSFails, StepFails, Crash
  <1>8. ASSUME NEW command \in {"rotate", "keygen"}, RunCLI(command) PROVE OverlapServed'
    BY <1>8 DEF RunCLI
  <1>9. CASE UNCHANGED vars
    BY <1>9
  <1>10. QED
    BY <1>1, <1>2, <1>3, <1>4, <1>5, <1>6, <1>7, <1>8, <1>9 DEF Next, Rotate

\* A2 of docs/architecture.md: from R4 to R6 DNS serves the new key and every
\* Previous key, each with its file, whatever failed before (rotator.go:95-122).
THEOREM OverlapIsServable == Spec => []OverlapListIsServable
  <1>1. Init => OverlapServed
    BY DEF Init, OverlapServed
  <1>2. StoreInv /\ OverlapServed /\ [Next]_vars => OverlapServed'
    BY OverlapPreserved
  <1>3. StoreInv /\ OverlapServed => OverlapListIsServable
    <2>1. SUFFICES ASSUME StoreInv, OverlapServed, pc \in {"R4mark", "R5", "R6"}
                   PROVE  /\ dns = {new} \cup Previous
                          /\ dns \subseteq keydir
                          /\ meta[new] = "current"
      BY DEF OverlapListIsServable
    <2>2. dns \subseteq keydir
      BY <2>1 DEF StoreInv, TypeOK, DnsIsLive, LiveHaveFiles
    <2>3. QED
      BY <2>1, <2>2 DEF OverlapServed, StoreInv, NewIsCurrent
  <1>4. QED
    BY <1>1, <1>2, <1>3, StoreInvariant, PTL DEF Spec

\* A response without the new key ages while R5 sleeps.
LagCovered ==
    /\ pc = "R4mark" => lag <= TTL
    /\ pc = "R5" => lag = 0 \/ lag + SettleDelay <= TTL + settle
    /\ pc = "R6" => lag = 0 \/ lag + SettleDelay <= TTL

LEMMA LagPreserved ==
    ASSUME TypeOK, LagCovered, [Next]_vars
    PROVE  LagCovered'
  <1> USE ConstantsAssumption DEF LagCovered, TypeOK, Disturb, Return, ConstantsAssumption
  <1>1. CASE publishOverlap
    BY <1>1 DEF publishOverlap
  <1>2. CASE markInDNS
    BY <1>2 DEF markInDNS
  <1>3. CASE Sleep
    BY <1>3 DEF Sleep
  <1>4. CASE doInit \/ ServerReloads
    BY <1>4 DEF doInit, ServerReloads
  <1>5. CASE Tick
    BY <1>5 DEF Tick, Dec
  <1>6. ASSUME NEW k \in Key, SetStateGrace(k) \/ PruneRemove(k) PROVE LagCovered'
    BY <1>6 DEF SetStateGrace, PruneRemove
  <1>7. CASE \/ runDomainLoop \/ pickConfigID \/ AllConfigIDsInUse \/ AddWriteFile
             \/ AddPersist \/ reload \/ OverlapRefused \/ publishSolo \/ ComputeDropAt
             \/ AllPreviousSet \/ PruneStart \/ PrunePersist
    BY <1>7 DEF runDomainLoop, pickConfigID, AllConfigIDsInUse, AddWriteFile, AddPersist,
                reload, OverlapRefused, publishSolo, ComputeDropAt, AllPreviousSet,
                PruneStart, PrunePersist
  <1>8. CASE Fault
    BY <1>8 DEF Fault, AddPersistFails, reloadFails, publishDNSFails, StepFails, Crash
  <1>9. ASSUME NEW command \in {"rotate", "keygen"}, RunCLI(command) PROVE LagCovered'
    BY <1>9 DEF RunCLI
  <1>10. CASE UNCHANGED vars
    BY <1>10
  <1>11. QED
    BY <1>1, <1>2, <1>3, <1>4, <1>5, <1>6, <1>7, <1>8, <1>9, <1>10 DEF Next, Rotate

\* Whatever SettleDelay and the TTL are, a response without the new key that is
\* cached when DNS shrinks to that key has at most TTL - SettleDelay to live
\* (rotator.go:109-122).
THEOREM ShrinkIsTimed == Spec => []LagIsBounded
  <1>1. Init => LagCovered
    BY DEF Init, LagCovered
  <1>2. TypeOK /\ LagCovered /\ [Next]_vars => LagCovered'
    BY LagPreserved
  <1>3. LagCovered => LagIsBounded
    BY DEF LagCovered, LagIsBounded
  <1>4. QED
    BY <1>1, <1>2, <1>3, TypeCorrect, PTL DEF Spec

\* What LifecycleForward says of one step and one key.
Forward(k) ==
    /\ meta[k] # "none" => Rank[meta[k]] <= Rank[meta'[k]]
    /\ meta[k] = "none" => meta'[k] \in {"none", "current"}

LEMMA Ranks ==
    /\ Rank["current"] = 1 /\ Rank["previous"] = 2
    /\ Rank["grace"] = 3 /\ Rank["none"] = 4
  BY DEF Rank, LifecycleState

LEMMA StepsForward ==
    ASSUME StoreInv, [Next]_vars, NEW k \in Key
    PROVE  Forward(k)
  <1> USE DEF Forward
  <1>0. meta \in [Key -> {"current", "previous", "grace", "none"}]
    BY DEF StoreInv, TypeOK, LifecycleState
  <1>1. CASE AddPersist
    <2>1. meta[new] = "none"
      BY <1>1 DEF AddPersist, StoreInv, NewIsPrivate
    <2>2. meta'[k] = IF k = new THEN "current"
                     ELSE IF meta[k] = "current" THEN "previous" ELSE meta[k]
      BY <1>0, <1>1 DEF AddPersist
    <2>3. QED
      BY <1>0, <2>1, <2>2, Ranks
  <1>2. ASSUME NEW j \in Key, SetStateGrace(j) PROVE Forward(k)
    BY <1>0, <1>2, Ranks DEF SetStateGrace, Previous
  <1>3. CASE PrunePersist
    BY <1>0, <1>3, Ranks DEF PrunePersist
  <1>4. CASE meta' = meta
    BY <1>0, <1>4, Ranks
  <1>5. QED
    BY <1>1, <1>2, <1>3, <1>4
    DEF Next, Rotate, Fault, runDomainLoop, RunCLI, doInit, pickConfigID, AllConfigIDsInUse,
        AddWriteFile, reload, publishOverlap, OverlapRefused, markInDNS, Sleep, publishSolo,
        ComputeDropAt, AllPreviousSet, PruneStart, PruneRemove, AddPersistFails, reloadFails,
        publishDNSFails, StepFails, Crash, ServerReloads, Tick

\* No step, of a rotation that succeeds, fails or starts over, takes a key back in
\* its lifecycle (types.go, State).
THEOREM LifecycleAdvances == Spec => LifecycleForward
  <1>1. StoreInv /\ [Next]_vars =>
            \A k \in Key : /\ meta[k] # "none" => Rank[meta[k]] <= Rank[meta'[k]]
                           /\ meta[k] = "none" => meta'[k] \in {"none", "current"}
    BY StepsForward DEF Forward
  <1>2. QED
    BY <1>1, StoreInvariant, PTL DEF Spec, LifecycleForward
=============================================================================
