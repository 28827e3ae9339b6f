------------------------- MODULE SharedKeydirProofs -------------------------
(***************************************************************************)
(* Theorems about SharedKeydir for every number of keys and commands: one  *)
(* process that rotates and one `keygen` at a time keep the promise to the *)
(* clients, in every interleaving.                                         *)
(*                                                                         *)
(* The argument.  The metadata can be wrong: a `keygen` writes back what   *)
(* it read before a rotation changed it.  But it can only take a key from  *)
(* grace back to previous, never the other way: what the rotation holds as *)
(* current or previous is in grace nowhere else (LiveIsNowhereGrace), and  *)
(* whoever holds a key in grace knows a deadline that no cached copy       *)
(* outlives (GraceOutlives).                                               *)
(***************************************************************************)
EXTENDS SharedKeydir, TLAPS

\* One process rotates, and one runs `keygen`.
OneOfEach ==
    /\ \A p, q \in Rotators : p = q
    /\ \A p, q \in Generators : p = q
    /\ Rotators \cap Generators = {}

Live == {"current", "previous"}

Roles ==
    /\ \A p \in Rotators : pc[p] \in {"idle"} \cup RotateSteps
    /\ \A p \in Generators : pc[p] \in {"idle"} \cup KeygenSteps

\* The key of a rotation has its file until the rotation is over, and is current
\* from R2 on.
NewHasFile ==
    \A p \in Rotators : pc[p] \in RotateSteps \ {"R2"} => new[p] \in keydir
NewIsCurrent ==
    \A p \in Rotators :
        pc[p] \in RotateSteps \ {"R2", "R2meta"} => mem[p][new[p]].state = "current"

\* What a rotation holds as current or previous, and its own key, is in grace
\* nowhere; nor is a live entry on disk in the memory of a `keygen`.
LiveIsNowhereGrace ==
    \A p \in Rotators, k \in Key :
        k = new[p] \/ mem[p][k].state \in Live =>
            /\ mem[p][k].state # "grace" /\ disk[k].state # "grace"
            /\ \A g \in Generators : mem[g][k].state # "grace"
DiskIsNewer ==
    \A g \in Generators, k \in Key : disk[k].state \in Live => mem[g][k].state # "grace"

\* A key in grace, in any copy of the metadata, is out of DNS, and its deadline
\* outlives the cached responses.
Outlives(entries) ==
    \A k \in Key : entries[k].state = "grace" => k \notin dns /\ cache[k] <= entries[k].drop
GraceOutlives == Outlives(disk) /\ \A p \in Proc : Outlives(mem[p])

CacheBounded == \A k \in Key : cache[k] <= TTL
SoloIsServed ==
    \A p \in Rotators :
        /\ pc[p] \in {"R7", "R7set"} => dns = {new[p]}
        /\ pc[p] = "R7set" => \A k \in Key : k \notin dns => cache[k] <= timer[p]
TodoIsExpired ==
    \A p \in Rotators, k \in Key :
        pc[p] = "R8rm" /\ k \in todo[p] => mem[p][k] = [state |-> "grace", drop |-> 0]

IInv ==
    /\ TypeOK /\ Roles
    /\ NewHasFile /\ NewIsCurrent
    /\ LiveIsNowhereGrace /\ DiskIsNewer
    /\ CacheBounded /\ GraceOutlives
    /\ SoloIsServed /\ TodoIsExpired

USE DEF vars, shared

-----------------------------------------------------------------------------
(* Types.                                                                  *)

LEMMA InitType == Init => TypeOK
  BY SharedAssumption DEF Init, TypeOK, SharedAssumption, NoMemory, NoEntry, Entry, State

LEMMA ExitType ==
    ASSUME TypeOK, NEW p \in Proc, Exit(p)
    PROVE  /\ mem' \in [Proc -> [Key -> Entry]] /\ new' \in [Proc -> Key \cup {NoKey}]
           /\ timer' \in [Proc -> Nat] /\ todo' \in [Proc -> SUBSET Key]
           /\ pc' \in [Proc -> {"idle"} \cup RotateSteps \cup KeygenSteps]
           /\ \A q \in Proc : pc'[q] = "idle" <=> new'[q] = NoKey
  <1>1. NoMemory \in [Key -> Entry]
    BY DEF NoMemory, NoEntry, Entry, State
  <1>2. QED
    BY <1>1 DEF TypeOK, Exit, Goto

LEMMA DemotedType ==
    ASSUME TypeOK, NEW p \in Proc PROVE Demoted(p) \in [Key -> Entry]
  BY DEF TypeOK, Demoted, Entry, State

\* No step leaves the types.
LEMMA TypePreserved == ASSUME TypeOK, [Next]_vars PROVE TypeOK'
  <1> USE SharedAssumption DEF SharedAssumption, Goto, RotateSteps, KeygenSteps
  <1>1. ASSUME NEW p \in Proc, OpenOrInit(p) PROVE TypeOK'
    BY <1>1 DEF TypeOK, OpenOrInit, Fresh
  <1>2. ASSUME NEW p \in Proc, AddWriteFile(p) PROVE TypeOK'
    <2>1. new[p] \in Key
      BY <1>2 DEF TypeOK, AddWriteFile
    <2>2. QED
      BY <1>2, <2>1 DEF TypeOK, AddWriteFile
  <1>3. ASSUME NEW p \in Proc, AddPersist(p) PROVE TypeOK'
    BY <1>3, DemotedType DEF TypeOK, AddPersist, persist
  <1>4. ASSUME NEW p \in Proc, doKeygen(p) PROVE TypeOK'
    BY <1>4, DemotedType, ExitType DEF TypeOK, doKeygen
  <1>5. ASSUME NEW p \in Proc, publishOverlap(p) PROVE TypeOK'
    <2>1. {new[p]} \cup Previous(p) \subseteq Key
      BY <1>5 DEF TypeOK, publishOverlap, Previous
    <2>2. QED
      BY <1>5, <2>1 DEF TypeOK, publishOverlap, Serve
  <1>6. ASSUME NEW p \in Proc, NEW k \in Key, markInDNS(p, k) PROVE TypeOK'
    BY <1>6 DEF TypeOK, markInDNS, persist
  <1>7. ASSUME NEW p \in Proc, Sleep(p) PROVE TypeOK'
    BY <1>7 DEF TypeOK, Sleep
  <1>8. ASSUME NEW p \in Proc, publishSolo(p) PROVE TypeOK'
    <2>1. new[p] \in Key
      BY <1>8 DEF TypeOK, publishSolo
    <2>2. QED
      BY <1>8, <2>1 DEF TypeOK, publishSolo, Serve
  <1>9. ASSUME NEW p \in Proc, ComputeDropAt(p) PROVE TypeOK'
    BY <1>9 DEF TypeOK, ComputeDropAt
  <1>10. ASSUME NEW p \in Proc, NEW k \in Key, SetStateGrace(p, k) PROVE TypeOK'
    <2>1. [state |-> "grace", drop |-> timer[p]] \in Entry
      BY DEF TypeOK, Entry, State
    <2>2. [mem[p] EXCEPT ![k] = [state |-> "grace", drop |-> timer[p]]] \in [Key -> Entry]
      BY <2>1 DEF TypeOK
    <2>3. QED
      BY <1>10, <2>2 DEF TypeOK, SetStateGrace, persist
  <1>11. ASSUME NEW p \in Proc, PruneStart(p) PROVE TypeOK'
    BY <1>11 DEF TypeOK, PruneStart
  <1>12. ASSUME NEW p \in Proc, NEW k \in Key, PruneRemove(p, k) PROVE TypeOK'
    BY <1>12 DEF TypeOK, PruneRemove
  <1>13. ASSUME NEW p \in Proc, PrunePersist(p) PROVE TypeOK'
    <2>1. disk' \in [Key -> Entry]
      BY <1>13 DEF TypeOK, PrunePersist, NoEntry, Entry, State
    <2>2. QED
      BY <1>13, <2>1, ExitType DEF TypeOK, PrunePersist
  <1>14. ASSUME NEW p \in Proc, Stop(p) PROVE TypeOK'
    BY <1>14, ExitType DEF TypeOK, Stop
  <1>15. CASE Tick
    <2>1. \A m \in [Key -> Entry] : Age(m) \in [Key -> Entry]
      BY DEF Age, Dec, Entry
    <2>2. QED
      BY <1>15, <2>1 DEF TypeOK, Tick, Dec
  <1>16. CASE UNCHANGED vars
    BY <1>16 DEF TypeOK
  <1>17. QED
    BY <1>1, <1>2, <1>3, <1>4, <1>5, <1>6, <1>7, <1>8, <1>9, <1>10, <1>11, <1>12,
       <1>13, <1>14, <1>15, <1>16
    DEF Next

\* Type correctness, for any number of processes.
THEOREM TypeCorrect == Spec => []TypeOK
  BY InitType, TypePreserved, PTL DEF Spec

-----------------------------------------------------------------------------
(* The invariant.                                                          *)

LEMMA InitInv == Init => IInv
  <1> SUFFICES ASSUME Init PROVE IInv
    OBVIOUS
  <1>1. TypeOK
    BY InitType
  <1>2. QED
    BY <1>1, SharedAssumption
    DEF Init, IInv, Roles, NewHasFile, NewIsCurrent, LiveIsNowhereGrace, DiskIsNewer, Live,
        CacheBounded, GraceOutlives, Outlives, SoloIsServed, TodoIsExpired, NoMemory, NoEntry,
        SharedAssumption, Proc, RotateSteps

\* What the steps must preserve beside the types.
Rest ==
    /\ Roles /\ NewHasFile /\ NewIsCurrent
    /\ LiveIsNowhereGrace /\ DiskIsNewer
    /\ CacheBounded /\ GraceOutlives /\ SoloIsServed /\ TodoIsExpired

\* A command that ends, without writing, gives up what it knew.
LEMMA ExitPreserves ==
    ASSUME OneOfEach, IInv, NEW p \in Proc, Exit(p), UNCHANGED <<dns, cache>>,
           \A k \in Key : disk'[k].state = "grace" => disk'[k] = disk[k] \/ disk'[k] = mem[p][k],
           \A k \in Key : disk'[k].state = "grace" =>
              \A q \in Rotators : q # p => k # new[q] /\ mem[q][k].state \notin Live,
           \A k \in Key, g \in Generators :
              g # p /\ disk'[k].state \in Live => mem[g][k].state # "grace",
           \A q \in Rotators : q # p => keydir' = keydir \cup {new[p]} \/ keydir' = keydir
    PROVE  Rest'
  <1> USE DEF IInv, TypeOK
  <1>1. /\ \A q \in Proc : q # p => pc'[q] = pc[q] /\ mem'[q] = mem[q] /\ new'[q] = new[q]
                                    /\ timer'[q] = timer[q] /\ todo'[q] = todo[q]
        /\ pc'[p] = "idle" /\ mem'[p] = NoMemory /\ new'[p] = NoKey
    BY DEF Exit, Goto
  <1>2. NoKey \notin Key /\ \A k \in Key : NoMemory[k].state = "none"
    BY SharedAssumption DEF SharedAssumption, NoMemory, NoEntry
  <1>3. (Roles /\ NewHasFile /\ NewIsCurrent)'
    BY <1>1, SMTT(30) DEF Roles, NewHasFile, NewIsCurrent, RotateSteps, KeygenSteps, Proc
  <1>4. (CacheBounded /\ SoloIsServed /\ TodoIsExpired)'
    BY <1>1 DEF CacheBounded, SoloIsServed, TodoIsExpired, Proc
  <1>5. LiveIsNowhereGrace'
    BY <1>1, <1>2 DEF LiveIsNowhereGrace, Live, Proc
  <1>6. DiskIsNewer'
    BY <1>1, <1>2 DEF DiskIsNewer, Live, Proc
  <1>7. GraceOutlives'
    BY <1>1, <1>2, ZenonT(40) DEF GraceOutlives, Outlives
  <1>8. QED
    BY <1>3, <1>4, <1>5, <1>6, <1>7 DEF Rest

LEMMA OpenPreserves ==
    ASSUME OneOfEach, IInv, NEW p \in Proc, OpenOrInit(p)
    PROVE  Rest'
  <1> USE DEF IInv, TypeOK
  <1>1. PICK n \in Fresh : new' = [new EXCEPT ![p] = n]
    BY DEF OpenOrInit
  <1>2. /\ mem' = [mem EXCEPT ![p] = disk] /\ pc[p] = "idle"
        /\ UNCHANGED <<shared, timer, todo>>
    BY DEF OpenOrInit
  <1>3. /\ \A q \in Proc : q # p => pc'[q] = pc[q] /\ mem'[q] = mem[q] /\ new'[q] = new[q]
        /\ mem'[p] = disk /\ new'[p] = n
        /\ p \in Rotators => pc'[p] = "R2"
        /\ p \in Generators => pc'[p] = "keygen"
    BY <1>1, <1>2 DEF OpenOrInit, Goto, OneOfEach
  <1>4. n \in Key /\ disk[n] = NoEntry /\ \A q \in Proc : mem[q][n] = NoEntry
    BY <1>1 DEF Fresh
  <1>5. (Roles /\ NewHasFile /\ NewIsCurrent)'
    BY <1>2, <1>3 DEF Roles, NewHasFile, NewIsCurrent, RotateSteps, KeygenSteps, Proc, OneOfEach
  <1>6. (CacheBounded /\ SoloIsServed /\ TodoIsExpired)'
    BY <1>2, <1>3 DEF CacheBounded, SoloIsServed, TodoIsExpired, Proc
  <1>7. LiveIsNowhereGrace'
    BY <1>2, <1>3, <1>4 DEF LiveIsNowhereGrace, DiskIsNewer, Live, Proc, NoEntry, OneOfEach
  <1>8. DiskIsNewer'
    BY <1>2, <1>3 DEF DiskIsNewer, Live, Proc
  <1>9. GraceOutlives'
    BY <1>2, <1>3 DEF GraceOutlives, Outlives
  <1>10. QED
    BY <1>5, <1>6, <1>7, <1>8, <1>9 DEF Rest

LEMMA AddWritePreserves ==
    ASSUME IInv, NEW p \in Proc, AddWriteFile(p)
    PROVE  Rest'
  <1> USE DEF IInv, TypeOK, AddWriteFile, Goto
  <1>1. (Roles /\ NewHasFile /\ NewIsCurrent)'
    BY DEF Roles, NewHasFile, NewIsCurrent, RotateSteps, KeygenSteps, Proc
  <1>2. (CacheBounded /\ SoloIsServed /\ TodoIsExpired)'
    BY DEF CacheBounded, SoloIsServed, TodoIsExpired, Proc
  <1>3. (LiveIsNowhereGrace /\ DiskIsNewer /\ GraceOutlives)'
    BY DEF LiveIsNowhereGrace, DiskIsNewer, GraceOutlives, Outlives
  <1>4. QED
    BY <1>1, <1>2, <1>3 DEF Rest

\* The entry of Demoted that is new is current, and no entry comes to be in grace.
LEMMA DemotedStates ==
    ASSUME TypeOK, NEW p \in Proc, NEW k \in Key
    PROVE  /\ Demoted(p)[k].state = "grace" => k # new[p] /\ Demoted(p)[k] = mem[p][k]
           /\ Demoted(p)[k].state \in Live <=> k = new[p] \/ mem[p][k].state \in Live
           /\ k = new[p] => Demoted(p)[k].state = "current"
  BY DEF TypeOK, Demoted, Live, Entry, State

LEMMA AddPersistPreserves ==
    ASSUME OneOfEach, IInv, NEW p \in Proc, AddPersist(p)
    PROVE  Rest'
  <1> USE DEF IInv, TypeOK
  <1> DEFINE m == Demoted(p)
  <1>1. /\ p \in Rotators /\ pc[p] = "R2meta" /\ new[p] \in Key
        /\ disk' = m /\ mem' = [mem EXCEPT ![p] = m]
        /\ UNCHANGED <<keydir, dns, cache, new, timer, todo>>
        /\ pc' = [pc EXCEPT ![p] = "R4"]
    BY DEF AddPersist, persist, Goto, Roles, Proc, KeygenSteps
  <1>2. \A k \in Key :
           /\ m[k].state = "grace" => k # new[p] /\ m[k] = mem[p][k]
           /\ m[k].state \in Live <=> k = new[p] \/ mem[p][k].state \in Live
           /\ k = new[p] => m[k].state = "current"
    BY DemotedStates
  <1> HIDE DEF m
  <1>3. (Roles /\ NewHasFile /\ NewIsCurrent)'
    BY <1>1, <1>2 DEF Roles, NewHasFile, NewIsCurrent, RotateSteps, KeygenSteps, Proc, OneOfEach
  <1>4. (CacheBounded /\ SoloIsServed /\ TodoIsExpired)'
    BY <1>1 DEF CacheBounded, SoloIsServed, TodoIsExpired, Proc
  <1>5. LiveIsNowhereGrace'
    BY <1>1, <1>2 DEF LiveIsNowhereGrace, Live, Proc, OneOfEach
  <1>6. DiskIsNewer'
    BY <1>1, <1>2 DEF LiveIsNowhereGrace, DiskIsNewer, Live, Proc, OneOfEach
  <1>7. GraceOutlives'
    BY <1>1, <1>2 DEF GraceOutlives, Outlives
  <1>8. QED
    BY <1>3, <1>4, <1>5, <1>6, <1>7 DEF Rest

LEMMA KeygenPreserves ==
    ASSUME OneOfEach, IInv, NEW p \in Proc, doKeygen(p)
    PROVE  Rest'
  <1> USE DEF IInv, TypeOK
  <1>1. /\ p \in Generators /\ Exit(p) /\ disk' = Demoted(p)
        /\ UNCHANGED <<keydir, dns, cache>>
    BY DEF doKeygen, Roles, Proc, RotateSteps
  <1>2. \A k \in Key : disk'[k].state = "grace" => disk'[k] = mem[p][k]
    BY <1>1, DemotedStates
  <1>3. \A k \in Key : disk'[k].state = "grace" =>
            \A q \in Rotators : q # p => k # new[q] /\ mem[q][k].state \notin Live
    BY <1>1, <1>2 DEF LiveIsNowhereGrace
  <1>4. \A g \in Generators : g = p
    BY <1>1 DEF OneOfEach
  <1>5. QED
    BY <1>1, <1>2, <1>3, <1>4, ExitPreserves

\* R4 and R6: what is published is in grace nowhere.
LEMMA ServePreserves ==
    ASSUME OneOfEach, IInv, NEW p \in Rotators, NEW list \in SUBSET Key, Serve(list),
           \A k \in list : k = new[p] \/ mem[p][k].state \in Live,
           UNCHANGED <<keydir, disk, mem, new, timer>>,
           \/ pc[p] = "R4" /\ pc' = [pc EXCEPT ![p] = "R4mark"]
           \/ pc[p] = "R5" /\ pc' = [pc EXCEPT ![p] = "R7"] /\ list = {new[p]} /\ todo' = todo
    PROVE  Rest'
  <1> USE DEF IInv, TypeOK
  <1>1. dns' = list /\ \A k \in Key : cache'[k] = IF k \in list THEN TTL ELSE cache[k]
    BY DEF Serve
  <1>2. TTL \in Nat
    BY SharedAssumption DEF SharedAssumption
  <1>3. (Roles /\ NewHasFile /\ NewIsCurrent)'
    BY DEF Roles, NewHasFile, NewIsCurrent, RotateSteps, KeygenSteps, Proc, OneOfEach
  <1>4. (SoloIsServed /\ TodoIsExpired)'
    BY <1>1 DEF SoloIsServed, TodoIsExpired, Proc, OneOfEach
  <1>5. (LiveIsNowhereGrace /\ DiskIsNewer)'
    BY DEF LiveIsNowhereGrace, DiskIsNewer
  <1>6. CacheBounded'
    BY <1>1, <1>2 DEF CacheBounded
  <1>7. \A k \in list, q \in Proc : disk[k].state # "grace" /\ mem[q][k].state # "grace"
    BY DEF LiveIsNowhereGrace, Proc, OneOfEach
  <1>8. GraceOutlives'
    <2>1. Outlives(disk) /\ \A q \in Proc : Outlives(mem[q])
      BY DEF GraceOutlives
    <2>2. p \in Proc
      BY DEF Proc
    <2>3. Outlives(disk)'
      BY <1>1, <1>7, <2>1, <2>2 DEF Outlives
    <2>4. ASSUME NEW q \in Proc PROVE Outlives(mem[q])'
      BY <1>1, <1>7, <2>1 DEF Outlives
    <2>5. QED
      BY <2>3, <2>4 DEF GraceOutlives
  <1>9. QED
    BY <1>3, <1>4, <1>5, <1>6, <1>8 DEF Rest

LEMMA OverlapPreserves ==
    ASSUME OneOfEach, IInv, NEW p \in Proc, publishOverlap(p)
    PROVE  Rest'
  <1> USE DEF IInv, TypeOK
  <1>1. p \in Rotators /\ new[p] \in Key
    BY DEF publishOverlap, Roles, KeygenSteps, Proc
  <1>2. {new[p]} \cup Previous(p) \in SUBSET Key
    BY <1>1 DEF Previous
  <1>3. \A k \in {new[p]} \cup Previous(p) : k = new[p] \/ mem[p][k].state \in Live
    BY DEF Previous, Live
  <1>4. QED
    BY <1>1, <1>2, <1>3, ServePreserves DEF publishOverlap, Goto

LEMMA SoloPreserves ==
    ASSUME OneOfEach, IInv, NEW p \in Proc, publishSolo(p)
    PROVE  Rest'
  <1> USE DEF IInv, TypeOK
  <1>1. p \in Rotators /\ new[p] \in Key
    BY DEF publishSolo, Roles, KeygenSteps, Proc
  <1>2. {new[p]} \in SUBSET Key
    BY <1>1
  <1>3. QED
    BY <1>1, <1>2, ServePreserves DEF publishSolo, Goto

LEMMA MarkPreserves ==
    ASSUME OneOfEach, IInv, NEW p \in Proc, NEW k \in Key, markInDNS(p, k)
    PROVE  Rest'
  <1> USE DEF IInv, TypeOK
  <1>1. /\ p \in Rotators /\ pc[p] = "R4mark" /\ disk' = mem[p] /\ mem' = mem
        /\ todo' = [todo EXCEPT ![p] = @ \ {k}]
        /\ UNCHANGED <<keydir, dns, cache, pc, new, timer>>
    BY DEF markInDNS, persist, Roles, KeygenSteps, Proc
  <1>2. (Roles /\ NewHasFile /\ NewIsCurrent)'
    BY <1>1 DEF Roles, NewHasFile, NewIsCurrent
  <1>3. (CacheBounded /\ SoloIsServed /\ TodoIsExpired)'
    BY <1>1 DEF CacheBounded, SoloIsServed, TodoIsExpired, Proc
  <1>4. (LiveIsNowhereGrace /\ DiskIsNewer)'
    BY <1>1 DEF LiveIsNowhereGrace, DiskIsNewer, OneOfEach, Live
  <1>5. GraceOutlives'
    BY <1>1 DEF GraceOutlives, Outlives
  <1>6. QED
    BY <1>2, <1>3, <1>4, <1>5 DEF Rest

LEMMA SleepPreserves ==
    ASSUME IInv, NEW p \in Proc, Sleep(p)
    PROVE  Rest'
  <1> USE DEF IInv, TypeOK, Sleep, Goto
  <1>1. (Roles /\ NewHasFile /\ NewIsCurrent)'
    BY DEF Roles, NewHasFile, NewIsCurrent, RotateSteps, KeygenSteps, Proc
  <1>2. (CacheBounded /\ SoloIsServed /\ TodoIsExpired)'
    BY DEF CacheBounded, SoloIsServed, TodoIsExpired, Proc
  <1>3. (LiveIsNowhereGrace /\ DiskIsNewer /\ GraceOutlives)'
    BY DEF LiveIsNowhereGrace, DiskIsNewer, GraceOutlives, Outlives
  <1>4. QED
    BY <1>1, <1>2, <1>3 DEF Rest

LEMMA DropAtPreserves ==
    ASSUME GracePeriod >= TTL, IInv, NEW p \in Proc, ComputeDropAt(p)
    PROVE  Rest'
  <1> USE SharedAssumption DEF IInv, TypeOK, ComputeDropAt, Goto, SharedAssumption
  <1>1. (Roles /\ NewHasFile /\ NewIsCurrent)'
    BY DEF Roles, NewHasFile, NewIsCurrent, RotateSteps, KeygenSteps, Proc
  <1>2. (CacheBounded /\ SoloIsServed /\ TodoIsExpired)'
    BY DEF CacheBounded, SoloIsServed, TodoIsExpired, Proc
  <1>3. (LiveIsNowhereGrace /\ DiskIsNewer /\ GraceOutlives)'
    BY DEF LiveIsNowhereGrace, DiskIsNewer, GraceOutlives, Outlives
  <1>4. QED
    BY <1>1, <1>2, <1>3 DEF Rest

LEMMA SetStatePreserves ==
    ASSUME OneOfEach, IInv, NEW p \in Proc, NEW k \in Key, SetStateGrace(p, k)
    PROVE  Rest'
  <1> USE DEF IInv, TypeOK
  <1> DEFINE m == [mem[p] EXCEPT ![k] = [state |-> "grace", drop |-> timer[p]]]
  <1>1. /\ p \in Rotators /\ pc[p] = "R7set" /\ mem[p][k].state = "previous"
        /\ disk' = m /\ mem' = [mem EXCEPT ![p] = m]
        /\ UNCHANGED <<keydir, dns, cache, pc, new, timer, todo>>
    BY DEF SetStateGrace, persist, Previous, Roles, KeygenSteps, Proc
  <1>2. /\ m[k] = [state |-> "grace", drop |-> timer[p]]
        /\ \A j \in Key : j # k => m[j] = mem[p][j]
    OBVIOUS
  <1> HIDE DEF m
  <1>3. k # new[p] /\ k \notin dns /\ cache[k] <= timer[p]
    BY <1>1 DEF NewIsCurrent, SoloIsServed, RotateSteps
  <1>4. (Roles /\ NewHasFile /\ NewIsCurrent)'
    BY <1>1, <1>2, <1>3 DEF Roles, NewHasFile, NewIsCurrent, OneOfEach, Proc
  <1>5. (CacheBounded /\ SoloIsServed /\ TodoIsExpired)'
    BY <1>1 DEF CacheBounded, SoloIsServed, TodoIsExpired, OneOfEach
  <1>6. LiveIsNowhereGrace'
    BY <1>1, <1>2, <1>3 DEF LiveIsNowhereGrace, OneOfEach, Live, Proc
  <1>7. DiskIsNewer'
    BY <1>1, <1>2, <1>3 DEF LiveIsNowhereGrace, DiskIsNewer, OneOfEach, Live, Proc
  <1>8. GraceOutlives'
    <2>1. Outlives(disk) /\ \A q \in Proc : Outlives(mem[q])
      BY DEF GraceOutlives
    <2>2. Outlives(disk)'
      <3>1. \A j \in Key : j # k /\ m[j].state = "grace" => j \notin dns /\ cache[j] <= m[j].drop
        BY <1>2, <2>1 DEF Outlives
      <3>2. k \notin dns /\ cache[k] <= m[k].drop
        BY <1>2, <1>3
      <3>3. \A j \in Key : m[j].state = "grace" => j \notin dns /\ cache[j] <= m[j].drop
        BY <3>1, <3>2
      <3>4. QED
        BY <1>1, <3>3 DEF Outlives
    <2>3. ASSUME NEW q \in Proc PROVE Outlives(mem[q])'
      <3>1. CASE q = p
        BY <1>1, <2>2, <3>1 DEF Outlives
      <3>2. CASE q # p
        BY <1>1, <2>1, <3>2 DEF Outlives
      <3>3. QED
        BY <3>1, <3>2
    <2>4. QED
      BY <2>2, <2>3 DEF GraceOutlives
  <1>9. QED
    BY <1>4, <1>5, <1>6, <1>7, <1>8 DEF Rest

LEMMA PruneStartPreserves ==
    ASSUME OneOfEach, IInv, NEW p \in Proc, PruneStart(p)
    PROVE  Rest'
  <1> USE DEF IInv, TypeOK, PruneStart, Goto
  <1>1. (Roles /\ NewHasFile /\ NewIsCurrent)'
    BY DEF Roles, NewHasFile, NewIsCurrent, RotateSteps, KeygenSteps, Proc
  <1>2. (CacheBounded /\ SoloIsServed)'
    BY DEF CacheBounded, SoloIsServed, Proc
  <1>3. TodoIsExpired'
    BY DEF TodoIsExpired, Entry, Proc
  <1>4. (LiveIsNowhereGrace /\ DiskIsNewer /\ GraceOutlives)'
    BY DEF LiveIsNowhereGrace, DiskIsNewer, GraceOutlives, Outlives
  <1>5. QED
    BY <1>1, <1>2, <1>3, <1>4 DEF Rest

LEMMA PruneRemovePreserves ==
    ASSUME OneOfEach, IInv, NEW p \in Proc, NEW k \in Key, PruneRemove(p, k)
    PROVE  Rest'
  <1> USE DEF IInv, TypeOK, PruneRemove
  <1>1. p \in Rotators /\ mem[p][k].state = "grace" /\ k # new[p]
    BY DEF Roles, KeygenSteps, RotateSteps, Proc, TodoIsExpired, NewIsCurrent
  <1>2. (Roles /\ NewHasFile /\ NewIsCurrent)'
    BY <1>1 DEF Roles, NewHasFile, NewIsCurrent, OneOfEach
  <1>3. (CacheBounded /\ SoloIsServed /\ TodoIsExpired)'
    BY DEF CacheBounded, SoloIsServed, TodoIsExpired
  <1>4. (LiveIsNowhereGrace /\ DiskIsNewer /\ GraceOutlives)'
    BY DEF LiveIsNowhereGrace, DiskIsNewer, GraceOutlives, Outlives
  <1>5. QED
    BY <1>2, <1>3, <1>4 DEF Rest

LEMMA PrunePersistPreserves ==
    ASSUME OneOfEach, IInv, NEW p \in Proc, PrunePersist(p)
    PROVE  Rest'
  <1> USE DEF IInv, TypeOK
  <1>1. p \in Rotators /\ Exit(p) /\ UNCHANGED <<keydir, dns, cache>>
    BY DEF PrunePersist, Roles, KeygenSteps, Proc
  <1>2. \A k \in Key : disk'[k] = disk[k] \/ disk'[k] = mem[p][k] \/ disk'[k] = NoEntry
    BY DEF PrunePersist
  <1>3. NoEntry.state = "none"
    BY DEF NoEntry
  <1>4. \A k \in Key : disk'[k].state = "grace" => disk'[k] = disk[k] \/ disk'[k] = mem[p][k]
    BY <1>2, <1>3
  <1>5. \A q \in Rotators : q = p
    BY <1>1 DEF OneOfEach
  <1>6. \A k \in Key, g \in Generators :
            g # p /\ disk'[k].state \in Live => mem[g][k].state # "grace"
    <2>1. \A k \in Key, g \in Generators :
              disk[k].state \in Live \/ mem[p][k].state \in Live => mem[g][k].state # "grace"
      BY <1>1 DEF LiveIsNowhereGrace, DiskIsNewer
    <2>2. \A k \in Key : disk'[k].state \in Live =>
              disk[k].state \in Live \/ mem[p][k].state \in Live
      BY <1>2, <1>3 DEF Live
    <2>3. QED
      BY <2>1, <2>2
  <1>7. QED
    BY <1>1, <1>4, <1>5, <1>6, ExitPreserves

LEMMA StopPreserves ==
    ASSUME OneOfEach, IInv, NEW p \in Proc, Stop(p)
    PROVE  Rest'
  <1> USE DEF IInv, TypeOK
  <1>1. Exit(p) /\ UNCHANGED <<keydir, disk, dns, cache>>
    BY DEF Stop
  <1>2. \A k \in Key : disk[k].state = "grace" =>
            \A q \in Rotators : k # new[q] /\ mem[q][k].state \notin Live
    BY DEF LiveIsNowhereGrace
  <1>3. \A k \in Key, g \in Generators : disk[k].state \in Live => mem[g][k].state # "grace"
    BY DEF DiskIsNewer
  <1>4. QED
    BY <1>1, <1>2, <1>3, ExitPreserves

LEMMA TickPreserves ==
    ASSUME IInv, Tick
    PROVE  Rest'
  <1> USE SharedAssumption DEF IInv, TypeOK, SharedAssumption
  <1>1. /\ UNCHANGED <<keydir, dns, pc, new, todo>>
        /\ \A p \in Proc : pc[p] \notin LocalWork
        /\ \A k \in Key : cache'[k] = IF k \in dns THEN TTL ELSE Dec(cache[k])
        /\ \A k \in Key : /\ disk'[k].state = disk[k].state
                          /\ disk'[k].drop = Dec(disk[k].drop)
        /\ \A p \in Proc, k \in Key : /\ mem'[p][k].state = mem[p][k].state
                                      /\ mem'[p][k].drop = Dec(mem[p][k].drop)
    BY DEF Tick, Age
  <1>2. \A k \in Key : cache[k] \in Nat /\ disk[k].drop \in Nat /\ \A p \in Proc : mem[p][k].drop \in Nat
    BY DEF Entry
  <1>3. (Roles /\ NewHasFile /\ NewIsCurrent)'
    <2>1. Roles' /\ NewHasFile'
      BY <1>1 DEF Roles, NewHasFile
    <2>2. ASSUME NEW p \in Rotators, pc'[p] \in RotateSteps \ {"R2", "R2meta"}
          PROVE  mem'[p][new'[p]].state = "current"
      <3>1. new[p] \in Key /\ p \in Proc
        BY <1>1, <2>2 DEF Proc, RotateSteps
      <3>2. QED
        BY <1>1, <2>2, <3>1 DEF NewIsCurrent
    <2>3. QED
      BY <2>1, <2>2 DEF NewIsCurrent
  <1>4. (CacheBounded /\ SoloIsServed /\ TodoIsExpired)'
    BY <1>1, <1>2, SMTT(30) DEF CacheBounded, SoloIsServed, TodoIsExpired, Proc, LocalWork, Dec
  <1>5. (LiveIsNowhereGrace /\ DiskIsNewer)'
    <2>1. new' = new /\ \A k \in Key : disk'[k].state = disk[k].state
      BY <1>1
    <2>2. \A p \in Rotators \cup Generators, k \in Key : mem'[p][k].state = mem[p][k].state
      BY <1>1 DEF Proc
    <2>3. LiveIsNowhereGrace'
      <3>1. SUFFICES ASSUME NEW p \in Rotators, NEW k \in Key,
                            k = new'[p] \/ mem'[p][k].state \in Live
                     PROVE  /\ mem'[p][k].state # "grace" /\ disk'[k].state # "grace"
                            /\ \A g \in Generators : mem'[g][k].state # "grace"
        BY DEF LiveIsNowhereGrace
      <3>2. k = new[p] \/ mem[p][k].state \in Live
        BY <2>1, <2>2, <3>1
      <3>3. /\ mem[p][k].state # "grace" /\ disk[k].state # "grace"
            /\ \A g \in Generators : mem[g][k].state # "grace"
        BY <3>2 DEF LiveIsNowhereGrace
      <3>4. QED
        BY <2>1, <2>2, <3>3
    <2>4. DiskIsNewer'
      BY <2>1, <2>2 DEF DiskIsNewer
    <2>5. QED
      BY <2>3, <2>4
  <1>6. GraceOutlives'
    <2>1. Outlives(disk) /\ \A q \in Proc : Outlives(mem[q])
      BY DEF GraceOutlives
    <2>2. Outlives(disk)'
      BY <1>1, <1>2, <2>1 DEF Outlives, Dec
    <2>3. ASSUME NEW q \in Proc PROVE Outlives(mem[q])'
      BY <1>1, <1>2, <2>1 DEF Outlives, Dec
    <2>4. QED
      BY <2>2, <2>3 DEF GraceOutlives
  <1>7. QED
    BY <1>3, <1>4, <1>5, <1>6 DEF Rest

LEMMA Preserved ==
    ASSUME OneOfEach, GracePeriod >= TTL, IInv, [Next]_vars
    PROVE  IInv'
  <1>1. TypeOK'
    BY TypePreserved DEF IInv
  <1>2. CASE UNCHANGED vars
    BY <1>1, <1>2
    DEF IInv, Roles, NewHasFile, NewIsCurrent, LiveIsNowhereGrace, DiskIsNewer, CacheBounded,
        GraceOutlives, Outlives, SoloIsServed, TodoIsExpired
  <1>3. CASE Next
    <2>1. Rest'
      BY <1>3, OpenPreserves, AddWritePreserves, AddPersistPreserves, KeygenPreserves,
         OverlapPreserves, MarkPreserves, SleepPreserves, SoloPreserves, DropAtPreserves,
         SetStatePreserves, PruneStartPreserves, PruneRemovePreserves, PrunePersistPreserves,
         StopPreserves, TickPreserves
      DEF Next
    <2>2. QED
      BY <1>1, <2>1 DEF Rest, IInv
  <1>4. QED
    BY <1>2, <1>3

LEMMA Invariant ==
    ASSUME OneOfEach, GracePeriod >= TTL PROVE Spec => []IInv
  <1>1. Init => IInv
    BY InitInv
  <1>2. IInv /\ [Next]_vars => IInv'
    BY Preserved
  <1>3. QED
    BY <1>1, <1>2, PTL DEF Spec

-----------------------------------------------------------------------------
(* The promise.                                                            *)

LEMMA StepKeepsPromise ==
    ASSUME OneOfEach, IInv, [Next]_vars
    PROVE  [Promise!Next]_(Promise!vars)
  <1> USE DEF IInv, TypeOK, Promise!Next, Promise!vars
  <1>1. ASSUME NEW p \in Proc, AddWriteFile(p) PROVE [Promise!Next]_(Promise!vars)
    <2>1. new[p] \in Key
      BY <1>1 DEF AddWriteFile
    <2>2. CASE new[p] \in keydir
      BY <1>1, <2>2 DEF AddWriteFile
    <2>3. CASE new[p] \notin keydir
      BY <1>1, <2>1, <2>3 DEF AddWriteFile, Promise!Install
    <2>4. QED
      BY <2>2, <2>3
  <1>2. ASSUME NEW list \in SUBSET Key, list # {}, list \subseteq keydir, Serve(list),
               UNCHANGED keydir
        PROVE  [Promise!Next]_(Promise!vars)
    BY <1>2 DEF Serve, Promise!Advertise
  <1>3. ASSUME NEW p \in Proc, publishOverlap(p) \/ publishSolo(p)
        PROVE  [Promise!Next]_(Promise!vars)
    <2>1. new[p] \in Key /\ new[p] \in keydir
      BY <1>3 DEF publishOverlap, publishSolo, NewHasFile, Roles, RotateSteps, KeygenSteps, Proc
    <2>2. PICK list : list \in {{new[p]}, {new[p]} \cup Previous(p)} /\ Serve(list)
                      /\ (list = {new[p]} \cup Previous(p) => Previous(p) \subseteq keydir \/ list = {new[p]})
      BY <1>3 DEF publishOverlap, publishSolo
    <2>3. list \in SUBSET Key /\ list # {} /\ list \subseteq keydir
      BY <2>1, <2>2 DEF Previous
    <2>4. UNCHANGED keydir
      BY <1>3 DEF publishOverlap, publishSolo
    <2>5. QED
      BY <1>2, <2>2, <2>3, <2>4
  <1>4. ASSUME NEW p \in Proc, NEW k \in Key, PruneRemove(p, k)
        PROVE  [Promise!Next]_(Promise!vars)
    <2>1. p \in Rotators /\ mem[p][k] = [state |-> "grace", drop |-> 0]
      BY <1>4 DEF PruneRemove, Roles, KeygenSteps, Proc, TodoIsExpired
    <2>2. Outlives(mem[p])
      BY <1>4 DEF GraceOutlives
    <2>3. k \notin dns /\ cache[k] = 0
      BY <2>1, <2>2 DEF Outlives
    <2>4. QED
      BY <1>4, <2>3 DEF PruneRemove, Promise!Retire
  <1>5. CASE Tick
    BY <1>5 DEF Tick, Dec, Promise!Elapse
  <1>6. CASE UNCHANGED <<keydir, dns, cache>>
    BY <1>6
  <1>7. ASSUME NEW p \in Proc,
               \/ OpenOrInit(p) \/ AddPersist(p) \/ doKeygen(p) \/ Sleep(p) \/ ComputeDropAt(p)
               \/ PruneStart(p) \/ PrunePersist(p) \/ Stop(p)
               \/ \E k \in Key : markInDNS(p, k) \/ SetStateGrace(p, k)
        PROVE  UNCHANGED <<keydir, dns, cache>>
    BY <1>7 DEF OpenOrInit, AddPersist, doKeygen, Sleep, ComputeDropAt, PruneStart, PrunePersist,
                Stop, markInDNS, SetStateGrace
  <1>8. CASE UNCHANGED vars
    BY <1>8
  <1>9. QED
    BY <1>1, <1>3, <1>4, <1>5, <1>6, <1>7, <1>8 DEF Next

\* Whatever the interleaving of one rotating process with any number of `keygen`
\* commands, one at a time, and wherever they stop: no file of a key that a cache
\* may hold is deleted, and no key is published without its file, if keys stay in
\* grace for a TTL at least.  The metadata they leave may still be wrong.
THEOREM KeygenKeepsPromise ==
    ASSUME OneOfEach, GracePeriod >= TTL
    PROVE  Spec => PromiseKept
  <1>1. Init => Promise!Init
    BY DEF Init, Promise!Init
  <1>2. IInv /\ [Next]_vars => [Promise!Next]_(Promise!vars)
    BY StepKeepsPromise
  <1>3. QED
    BY <1>1, <1>2, Invariant, PTL DEF Spec, PromiseKept, Promise!Spec
=============================================================================
