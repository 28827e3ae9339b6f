-------------------------- MODULE CloudflareProofs --------------------------
(***************************************************************************)
(* The RRset is never empty again once it has had a record, and create-    *)
(* then-delete implements the promise of module Provider, for any number   *)
(* of processes, lists and records.                                        *)
(*                                                                         *)
(* The argument: of the puts that have created all their records and begun *)
(* to delete, take the one that listed the RRset last.  Its records are    *)
(* younger than anything that any of them has listed, so they stay.  That  *)
(* a put replaces the RRset needs another invariant: while a put runs      *)
(* alone, every record that it has not listed is one that it created.      *)
(***************************************************************************)
EXTENDS MCCloudflare, FiniteSetTheorems, TLAPS

\* What a process has listed is older than its listing, what it has created is
\* younger and its own; before the listing it has created nothing.
OwnRecords ==
    /\ \A w \in Writer :
         /\ \A r \in listed[w] : r < since[w]
         /\ \A r \in created[w] : r >= since[w]
         /\ pc[w] \in {"idle", "get", "init", "list"} => created[w] = {}
         /\ pc[w] \in {"list", "create"} => lines[w] > 0
    /\ \A v, w \in Writer : v # w => created[v] \cap created[w] = {}

\* Only `init` gets beyond the read of an RRset that never had a record.
FirstRecord ==
    records = 0 =>
        \A w \in Writer : pc[w] \in {"list", "create"} => lines[w] = 1

\* The records in kept were created after t, and no put that deletes listed the
\* RRset after t; one that listed it after t and still creates has all its records.
Kept(kept, t) ==
    /\ kept # {}
    /\ kept \subseteq rrset
    /\ \A r \in kept : r >= t
    /\ \A w \in Writer :
         /\ pc[w] = "delete" => since[w] <= t
         /\ pc[w] \in {"create", "rollback"} => created[w] \cap kept = {}
         /\ pc[w] = "create" /\ since[w] > t => created[w] \subseteq rrset

Inv ==
    /\ TypeOK
    /\ OwnRecords
    /\ FirstRecord
    /\ records > 0 => \E t \in 0 .. records : \E kept \in SUBSET rrset : Kept(kept, t)

-----------------------------------------------------------------------------
LEMMA InitInv == Init => Inv
  <1> SUFFICES ASSUME Init PROVE Inv
    OBVIOUS
  <1>1. TypeOK
    BY CloudflareAssumption DEF Init, TypeOK
  <1>2. OwnRecords /\ FirstRecord
    BY DEF Init, OwnRecords, FirstRecord
  <1>3. records > 0 => Kept({0}, 0) /\ 0 \in 0 .. records /\ {0} \in SUBSET rrset
    BY DEF Init, Kept
  <1>4. QED
    BY <1>1, <1>2, <1>3 DEF Inv

\* A process reads a positive number of lines.
LEMMA SomeLines ==
    ASSUME TypeOK, rrset # {}
    PROVE  Cardinality(rrset) \in Nat /\ Cardinality(rrset) > 0
  <1>1. IsFiniteSet(rrset)
    <2>1. records - 1 \in Int /\ rrset \subseteq 0 .. records - 1
      BY DEF TypeOK
    <2>2. IsFiniteSet(0 .. records - 1)
      BY <2>1, FS_Interval
    <2>3. QED
      BY <2>1, <2>2, FS_Subset
  <1>2. QED
    BY <1>1, FS_CardinalityType, FS_EmptySet

LEMMA StepTypeOK ==
    ASSUME TypeOK, OwnRecords, [Next]_vars
    PROVE  TypeOK'
  <1> USE CloudflareAssumption DEF dnsVars, procVars, Goto
  <1>1. ASSUME NEW w \in Writer, NEW outcome \in {"ok", "error"}, Return(w, outcome),
               UNCHANGED <<content, records>>, rrset' \subseteq rrset
        PROVE  TypeOK'
    BY <1>1 DEF Return, TypeOK
  <1>2. ASSUME NEW w \in Writer, NewRecord(w), target[w] # NoList
        PROVE  /\ records' \in Nat
               /\ rrset' \subseteq 0 .. records' - 1
               /\ content' \in [0 .. records' - 1 -> List]
               /\ \A x : x \in 0 .. records - 1 => x \in 0 .. records' - 1
               /\ records \in 0 .. records' - 1
    <2>1. target[w] \in List /\ records' = records + 1
      BY <1>2 DEF TypeOK, NewRecord
    <2>2. 0 .. records' - 1 = (0 .. records - 1) \cup {records}
      BY <2>1 DEF TypeOK
    <2>3. QED
      BY <1>2, <2>1, <2>2 DEF TypeOK, NewRecord
  <1>3. ASSUME NEW w \in Writer, NEW list \in List, publishDNS(w, list) \/ doInit(w, list)
        PROVE  TypeOK'
    BY <1>3 DEF publishDNS, doInit, TypeOK
  <1>4. ASSUME NEW w \in Writer, GetHTTPSRDATA(w)
        PROVE  TypeOK'
    <2>1. lines' \in [Writer -> Nat]
      BY <1>4, SomeLines DEF GetHTTPSRDATA, TypeOK
    <2>2. /\ pc[w] # "idle"
          /\ pc' = [pc EXCEPT ![w] = "list"]
          /\ UNCHANGED <<rrset, content, records, target, listed, created, result, since>>
      BY <1>4 DEF GetHTTPSRDATA
    <2>3. QED
      BY <2>1, <2>2 DEF TypeOK
  <1>5. ASSUME NEW w \in Writer, ListRecords(w)
        PROVE  TypeOK'
    BY <1>5 DEF ListRecords, TypeOK
  <1>6. ASSUME NEW w \in Writer, CreateRecord(w)
        PROVE  TypeOK'
    <2>1. target[w] # NoList /\ lines[w] - 1 \in Nat
      BY <1>6 DEF CreateRecord, TypeOK, OwnRecords
    <2>2. QED
      BY <1>2, <1>6, <2>1 DEF CreateRecord, TypeOK
  <1>7. ASSUME NEW w \in Writer, CreateFails(w)
        PROVE  TypeOK'
    <2>1. CASE NewRecord(w)
      <3>1. target[w] # NoList
        BY <1>7 DEF CreateFails, TypeOK
      <3>2. QED
        BY <1>2, <1>7, <2>1, <3>1 DEF CreateFails, TypeOK
    <2>2. CASE UNCHANGED dnsVars
      BY <1>7, <2>2 DEF CreateFails, TypeOK
    <2>3. QED
      BY <1>7, <2>1, <2>2 DEF CreateFails
  <1>8. ASSUME NEW w \in Writer, NEW r, bestEffortDelete(w, r)
        PROVE  TypeOK'
    BY <1>8 DEF bestEffortDelete, TypeOK
  <1>9. ASSUME NEW w \in Writer, NEW r, deleteByID(w, r)
        PROVE  TypeOK'
    BY <1>9 DEF deleteByID, TypeOK
  <1>10. ASSUME NEW w \in Writer, NEW r, deleteFails(w, r)
         PROVE  TypeOK'
    BY <1>1, <1>10 DEF deleteFails
  <1>11. ASSUME NEW w \in Writer, Refuse(w) \/ RolledBack(w) \/ Succeed(w) \/ Stop(w)
         PROVE  TypeOK'
    BY <1>1, <1>11 DEF Refuse, RolledBack, Succeed, Stop
  <1>12. CASE UNCHANGED vars
    BY <1>12 DEF vars, TypeOK
  <1>13. QED
    BY <1>3, <1>4, <1>5, <1>6, <1>7, <1>8, <1>9, <1>10, <1>11, <1>12 DEF Next

LEMMA StepOwnRecords ==
    ASSUME TypeOK, OwnRecords, [Next]_vars
    PROVE  OwnRecords'
  <1> USE CloudflareAssumption DEF dnsVars, procVars, Goto
  <1>1. ASSUME NEW w \in Writer, NEW outcome, Return(w, outcome)
        PROVE  OwnRecords'
    BY <1>1 DEF Return, TypeOK, OwnRecords
  <1>3. ASSUME NEW w \in Writer, NEW list \in List, publishDNS(w, list) \/ doInit(w, list)
        PROVE  OwnRecords'
    BY <1>3 DEF publishDNS, doInit, TypeOK, OwnRecords
  <1>4. ASSUME NEW w \in Writer, GetHTTPSRDATA(w)
        PROVE  OwnRecords'
    BY <1>4, SomeLines DEF GetHTTPSRDATA, TypeOK, OwnRecords
  <1>5. ASSUME NEW w \in Writer, ListRecords(w)
        PROVE  OwnRecords'
    <2>1. \A r \in rrset : r < records
      BY DEF TypeOK
    <2>2. QED
      BY <1>5, <2>1 DEF ListRecords, TypeOK, OwnRecords
  <1>6. ASSUME NEW w \in Writer, CreateRecord(w)
        PROVE  OwnRecords'
    <2>1. \A v \in Writer : records \notin created[v] /\ records >= since[v]
      BY DEF TypeOK
    <2>2. lines[w] # 1 => lines'[w] > 0
      BY <1>6 DEF CreateRecord, TypeOK, OwnRecords
    <2>3. QED
      BY <1>6, <2>1, <2>2 DEF CreateRecord, TypeOK, OwnRecords
  <1>7. ASSUME NEW w \in Writer, CreateFails(w)
        PROVE  OwnRecords'
    BY <1>7 DEF CreateFails, TypeOK, OwnRecords
  <1>8. ASSUME NEW w \in Writer, NEW r, bestEffortDelete(w, r)
        PROVE  OwnRecords'
    BY <1>8 DEF bestEffortDelete, TypeOK, OwnRecords
  <1>9. ASSUME NEW w \in Writer, NEW r, deleteByID(w, r)
        PROVE  OwnRecords'
    BY <1>9 DEF deleteByID, TypeOK, OwnRecords
  <1>10. ASSUME NEW w \in Writer, NEW r, deleteFails(w, r)
         PROVE  OwnRecords'
    BY <1>1, <1>10 DEF deleteFails
  <1>11. ASSUME NEW w \in Writer, Refuse(w) \/ RolledBack(w) \/ Succeed(w) \/ Stop(w)
         PROVE  OwnRecords'
    BY <1>1, <1>11 DEF Refuse, RolledBack, Succeed, Stop
  <1>12. CASE UNCHANGED vars
    BY <1>12 DEF vars, OwnRecords
  <1>13. QED
    BY <1>3, <1>4, <1>5, <1>6, <1>7, <1>8, <1>9, <1>10, <1>11, <1>12 DEF Next

LEMMA StepFirstRecord ==
    ASSUME TypeOK, FirstRecord, [Next]_vars
    PROVE  FirstRecord'
  <1> SUFFICES ASSUME records' = 0 PROVE FirstRecord'
    BY DEF FirstRecord
  <1> USE DEF dnsVars, procVars, Goto, FirstRecord
  <1>1. records = 0 /\ rrset = {}
    <2>1. records = 0
      BY DEF Next, publishDNS, doInit, GetHTTPSRDATA, Refuse, ListRecords, CreateRecord,
             CreateFails, NewRecord, bestEffortDelete, RolledBack, deleteByID, deleteFails,
             Succeed, Stop, vars, TypeOK
    <2>2. QED
      BY <2>1 DEF TypeOK
  <1>2. ASSUME NEW w \in Writer,
               pc'[w] \in {"list", "create"}
        PROVE  lines'[w] = 1
    BY <1>1, <1>2
    DEF Next, publishDNS, doInit, GetHTTPSRDATA, Refuse, ListRecords, CreateRecord,
        CreateFails, NewRecord, bestEffortDelete, RolledBack, deleteByID, deleteFails,
        Succeed, Stop, Return, vars, TypeOK
  <1>3. QED
    BY <1>2

\* What is kept stays, or a put that listed later takes over.
LEMMA StepKept ==
    ASSUME Inv, [Next]_vars, records > 0
    PROVE  \E t \in 0 .. records' : \E kept \in SUBSET rrset' : Kept(kept, t)'
  <1> USE CloudflareAssumption DEF dnsVars, procVars, Goto
  <1>0. TypeOK /\ OwnRecords
    BY DEF Inv
  <1>1. PICK t \in 0 .. records : \E kept \in SUBSET rrset : Kept(kept, t)
    BY DEF Inv
  <1>2. PICK kept \in SUBSET rrset : Kept(kept, t)
    BY <1>1
  <1>a. t \in Nat /\ \A r \in kept : r \in Nat /\ r < records
    BY <1>0, <1>2 DEF TypeOK
  <1> SUFFICES ASSUME records' \in {records, records + 1}
               PROVE  \E u \in 0 .. records' : \E keep \in SUBSET rrset' : Kept(keep, u)'
    BY <1>0 DEF Next, publishDNS, doInit, GetHTTPSRDATA, Refuse, ListRecords, CreateRecord,
           CreateFails, NewRecord, bestEffortDelete, RolledBack, deleteByID, deleteFails,
           Succeed, Stop, vars, TypeOK
  <1>b. t \in 0 .. records'
    BY <1>0, <1>a DEF TypeOK
  <1>k. SUFFICES ASSUME ~Kept(kept, t)'
                 PROVE  \E u \in 0 .. records' : \E keep \in SUBSET rrset' : Kept(keep, u)'
    BY <1>b DEF Kept
  <1>3. ASSUME NEW w \in Writer, NEW outcome, Return(w, outcome), rrset' = rrset
        PROVE  FALSE
    BY <1>0, <1>2, <1>3, <1>k DEF Return, TypeOK, Kept
  <1>4. ASSUME NEW w \in Writer, NEW list \in List, publishDNS(w, list) \/ doInit(w, list)
        PROVE  FALSE
    BY <1>0, <1>2, <1>4, <1>k DEF publishDNS, doInit, TypeOK, Kept
  <1>5. ASSUME NEW w \in Writer, GetHTTPSRDATA(w)
        PROVE  FALSE
    BY <1>0, <1>2, <1>5, <1>k DEF GetHTTPSRDATA, TypeOK, Kept
  <1>6. ASSUME NEW w \in Writer, ListRecords(w)
        PROVE  FALSE
    BY <1>0, <1>2, <1>6, <1>k DEF ListRecords, TypeOK, OwnRecords, Kept
  <1>7. ASSUME NEW w \in Writer, CreateRecord(w), lines[w] # 1 \/ since[w] <= t
        PROVE  FALSE
    BY <1>0, <1>2, <1>7, <1>a, <1>k DEF CreateRecord, NewRecord, TypeOK, Kept
  <1>8. ASSUME NEW w \in Writer, CreateRecord(w), lines[w] = 1, since[w] > t
        PROVE  Kept(created[w], since[w])'
    <2>1. created'[w] = created[w] \cup {records} /\ rrset' = rrset \cup {records}
      BY <1>0, <1>8 DEF CreateRecord, NewRecord, TypeOK
    <2>2. /\ created'[w] \subseteq rrset'
          /\ created'[w] # {}
          /\ \A r \in created'[w] : r >= since[w]
      BY <1>0, <1>2, <1>8, <2>1 DEF CreateRecord, TypeOK, OwnRecords, Kept
    <2>3. ASSUME NEW v \in Writer, v # w
          PROVE  /\ pc[v] = "delete" => since[v] <= since[w]
                 /\ created[v] \cap created'[w] = {}
                 /\ pc[v] = "create" /\ since[v] > since[w] => created[v] \subseteq rrset'
      <3>1. since[v] \in Nat /\ since[w] \in Nat /\ since[v] <= records
        BY <1>0 DEF TypeOK
      <3>2. pc[v] = "delete" => since[v] <= since[w]
        BY <1>2, <1>8, <1>a, <3>1 DEF Kept
      <3>3. created[v] \cap created'[w] = {}
        <4>1. records \notin created[v]
          BY <1>0 DEF TypeOK
        <4>2. created[v] \cap created[w] = {}
          BY <1>0, <2>3 DEF OwnRecords
        <4>3. QED
          BY <2>1, <4>1, <4>2
      <3>4. pc[v] = "create" /\ since[v] > since[w] => created[v] \subseteq rrset'
        BY <1>2, <1>8, <1>a, <2>1, <3>1 DEF Kept
      <3>5. QED
        BY <3>2, <3>3, <3>4
    <2>4. /\ since' = since
          /\ pc'[w] = "delete"
          /\ \A v \in Writer : v # w => pc'[v] = pc[v] /\ created'[v] = created[v]
      BY <1>0, <1>8 DEF CreateRecord, TypeOK
    <2>5. since[w] <= since[w]
      BY <1>0 DEF TypeOK
    <2>6. QED
      BY <2>2, <2>3, <2>4, <2>5 DEF Kept
  <1>9. ASSUME NEW w \in Writer, CreateFails(w)
        PROVE  FALSE
    BY <1>0, <1>2, <1>9, <1>a, <1>k DEF CreateFails, NewRecord, TypeOK, Kept
  <1>10. ASSUME NEW w \in Writer, NEW r, bestEffortDelete(w, r)
         PROVE  FALSE
    BY <1>0, <1>2, <1>10, <1>k DEF bestEffortDelete, TypeOK, OwnRecords, Kept
  <1>11. ASSUME NEW w \in Writer, NEW r \in listed[w], pc[w] = "delete"
         PROVE  /\ r \notin kept
                /\ \A v \in Writer : pc[v] = "create" /\ since[v] > t => r \notin created[v]
    BY <1>0, <1>2, <1>11, <1>a DEF TypeOK, OwnRecords, Kept
  <1>12. ASSUME NEW w \in Writer, NEW r, deleteByID(w, r)
         PROVE  FALSE
    BY <1>0, <1>2, <1>11, <1>12, <1>k DEF deleteByID, TypeOK, Kept
  <1>13. ASSUME NEW w \in Writer, NEW r, deleteFails(w, r)
         PROVE  FALSE
    BY <1>0, <1>2, <1>11, <1>13, <1>k DEF deleteFails, Return, TypeOK, Kept
  <1>14. ASSUME NEW w \in Writer, Refuse(w) \/ RolledBack(w) \/ Succeed(w) \/ Stop(w)
         PROVE  FALSE
    BY <1>3, <1>14 DEF Refuse, RolledBack, Succeed, Stop
  <1>15. CASE UNCHANGED vars
    BY <1>2, <1>15, <1>k DEF vars, Kept
  <1>16. QED
    <2>1. CASE \E w \in Writer : CreateRecord(w)
      <3>1. PICK w \in Writer : CreateRecord(w)
        BY <2>1
      <3>2. lines[w] = 1 /\ since[w] > t
        BY <1>0, <1>7, <1>a, <3>1 DEF TypeOK
      <3>3. /\ created'[w] \in SUBSET rrset'
            /\ since'[w] \in 0 .. records'
        <4>1. created'[w] \subseteq rrset'
          BY <1>8, <3>1, <3>2 DEF Kept
        <4>2. since' = since /\ since[w] \in 0 .. records /\ records \in Nat
          BY <1>0, <3>1 DEF CreateRecord, TypeOK
        <4>3. QED
          BY <4>1, <4>2
      <3>4. QED
        BY <1>8, <3>1, <3>2, <3>3
    <2>2. CASE UNCHANGED vars
      BY <1>15, <2>2
    <2>3. QED
      BY <1>4, <1>5, <1>6, <1>9, <1>10, <1>12, <1>13, <1>14, <2>1, <2>2 DEF Next

\* The first record of the RRset stays, too.
LEMMA StepFirstKept ==
    ASSUME Inv, [Next]_vars, records = 0, records' > 0
    PROVE  \E t \in 0 .. records' : \E kept \in SUBSET rrset' : Kept(kept, t)'
  <1> USE CloudflareAssumption DEF dnsVars, procVars, Goto
  <1>0. TypeOK /\ FirstRecord
    BY DEF Inv
  <1>1. /\ rrset = {}
        /\ \A w \in Writer : since[w] = 0 /\ created[w] = {} /\ listed[w] = {}
    BY <1>0 DEF TypeOK
  <1>2. SUFFICES Kept({0}, 0)' /\ 0 \in 0 .. records' /\ {0} \in SUBSET rrset'
    OBVIOUS
  <1>3. PICK w \in Writer : CreateRecord(w) \/ CreateFails(w)
    BY DEF Next, publishDNS, doInit, GetHTTPSRDATA, Refuse, ListRecords, bestEffortDelete,
           RolledBack, deleteByID, deleteFails, Succeed, Stop, vars
  <1>n. NewRecord(w)
    BY <1>3 DEF CreateRecord, CreateFails
  <1>4. records' = 1 /\ rrset' = {0}
    BY <1>1, <1>n DEF NewRecord
  <1>5. CASE CreateRecord(w)
    <2>1. pc'[w] = "delete" /\ \A v \in Writer : v # w => created'[v] = {}
      BY <1>0, <1>1, <1>5 DEF CreateRecord, FirstRecord, TypeOK
    <2>2. QED
      BY <1>1, <1>4, <1>5, <2>1 DEF CreateRecord, Kept
  <1>6. CASE CreateFails(w)
    BY <1>1, <1>4, <1>6 DEF CreateFails, Kept
  <1>7. QED
    BY <1>3, <1>4, <1>5, <1>6

THEOREM Invariant == Spec => []Inv
  <1>1. Inv /\ [Next]_vars => Inv'
    <2> SUFFICES ASSUME Inv, [Next]_vars PROVE Inv'
      OBVIOUS
    <2>1. TypeOK' /\ OwnRecords' /\ FirstRecord'
      BY StepTypeOK, StepOwnRecords, StepFirstRecord DEF Inv
    <2>2. records \in Nat
      BY DEF Inv, TypeOK
    <2>3. records' > 0 => (\E t \in 0 .. records : \E kept \in SUBSET rrset : Kept(kept, t))'
      BY <2>2, StepKept, StepFirstKept
    <2>4. QED
      BY <2>1, <2>3 DEF Inv
  <1>2. QED
    BY <1>1, InitInv, PTL DEF Spec

\* Every reachable state has its types.
THEOREM TypeCorrect == Spec => []TypeOK
  BY Invariant, PTL DEF Inv

\* Whatever fails, and however many processes replace the RRset at the same time,
\* it does not become empty.
THEOREM NeverMissing == Spec => []EchNeverMissing
  <1>1. Inv => EchNeverMissing
    BY DEF Inv, Kept, EchNeverMissing
  <1>2. QED
    BY <1>1, Invariant, PTL

-----------------------------------------------------------------------------
(* The promise of module Provider.                                         *)

Doing == {"create", "rollback", "delete"}

AloneInv ==
    /\ alone \in [Writer -> BOOLEAN]
    /\ \A w \in Writer : alone[w] =>
         /\ InPut = {w}
         /\ pc[w] \in Doing =>
              \A r \in rrset : r \in listed[w] \/ content[r] = target[w]

\* Deletions begin when a record has been created.
CreatesFirst == \A w \in Writer : pc[w] = "delete" => records > 0

\* How the history variable changes in a step of a process.
AloneStep ==
    alone' = [w \in Writer |->
                 /\ w \in InPut'
                 /\ IF InPut' \subseteq InPut THEN alone[w] ELSE InPut' = {w}]

\* The state of Provider, as PutPromise maps it.
Answers == {content[r] : r \in rrset}
PutBy == [w \in Writer |-> IF w \in InPut THEN target[w] ELSE NoList]

-----------------------------------------------------------------------------
LEMMA Mapped ==
    ASSUME TypeOK
    PROVE  /\ PutPromise!Busy = InPut
           /\ \A w \in InPut : PutPromise!Content(w) = {target[w]}
           /\ \A w \in InPut : PutBy[w] = target[w]
           /\ \A w \in Writer \ InPut : PutBy[w] = NoList
           /\ \A w \in InPut : target[w] \in List
  <1>1. \A w \in InPut : target[w] \in List
    BY DEF TypeOK, InPut
  <1>2. QED
    BY <1>1, CloudflareAssumption, NothingAssumption
    DEF PutPromise!Busy, PutPromise!Content, InPut, PutBy

\* What each kind of step does to the answers.
LEMMA AnswersStep ==
    ASSUME TypeOK
    PROVE  /\ rrset' = rrset /\ content' = content => Answers' = Answers
           /\ rrset' \subseteq rrset /\ content' = content => Answers' \subseteq Answers
           /\ \A w \in Writer : NewRecord(w) => Answers' = Answers \cup {target[w]}
  <1>1. ASSUME NEW w \in Writer, NewRecord(w) PROVE Answers' = Answers \cup {target[w]}
    <2>1. records \notin rrset /\ records \in DOMAIN content \cup {records}
      BY DEF TypeOK
    <2>2. \A r \in rrset : content'[r] = content[r]
      BY <1>1, <2>1 DEF NewRecord, TypeOK
    <2>3. content'[records] = target[w] /\ rrset' = rrset \cup {records}
      BY <1>1 DEF NewRecord
    <2>4. QED
      BY <2>2, <2>3 DEF Answers
  <1>2. QED
    BY <1>1 DEF Answers

\* A step of a process adds what it puts, or removes records, but never the last.
LEMMA Mixes ==
    ASSUME Inv, Inv', records' \in Nat, records' >= records,
           NEW w \in InPut, Answers' \subseteq Answers \cup {target[w]}
    PROVE  PutPromise!Mixture
  <1>1. TypeOK /\ (records' > 0 => rrset' # {}) /\ records \in Nat
    BY DEF Inv, Kept, TypeOK
  <1>2. Answers' = {} => rrset' = {}
    BY DEF Answers
  <1>3. rrset' = {} => rrset = {}
    <2>1. records = 0 => rrset = {}
      BY <1>1 DEF TypeOK
    <2>2. QED
      BY <1>1, <2>1
  <1>4. Answers' = {} => Answers = {}
    BY <1>2, <1>3 DEF Answers
  <1>5. {target[w]} \subseteq UNION {PutPromise!Content(v) : v \in PutPromise!Busy}
    BY <1>1, Mapped
  <1>6. Answers' \subseteq Answers \cup UNION {PutPromise!Content(v) : v \in PutPromise!Busy}
    BY <1>5
  <1>7. QED
    BY <1>4, <1>6 DEF PutPromise!Mixture, Answers, PutBy

\* No call begins or ends.
LEMMA SameCalls ==
    ASSUME AloneInv, AloneStep, InPut' = InPut, \A w \in InPut : target'[w] = target[w]
    PROVE  PutBy' = PutBy /\ alone' = alone
  <1>1. PutBy' = PutBy
    BY DEF PutBy
  <1>2. alone' = [w \in Writer |-> w \in InPut /\ alone[w]]
    BY Zenon DEF AloneStep
  <1>3. \A w \in Writer : alone[w] => w \in InPut
    BY DEF AloneInv
  <1>4. QED
    BY <1>1, <1>2, <1>3 DEF AloneInv

LEMMA Stutters ==
    ASSUME AloneInv, AloneStep, InPut' = InPut, \A w \in InPut : target'[w] = target[w],
           Answers' = Answers, result' = result
    PROVE  UNCHANGED PutPromise!vars
  BY SameCalls DEF PutPromise!vars, PutBy, Answers

LEMMA Changes ==
    ASSUME TypeOK, AloneInv, AloneStep, InPut' = InPut, target' = target, result' = result,
           InPut # {}, PutPromise!Mixture
    PROVE  PutPromise!Next
  <1>1. PutPromise!Change
    BY SameCalls, Mapped DEF PutPromise!Change, PutBy
  <1>2. QED
    BY <1>1 DEF PutPromise!Next

LEMMA Begins ==
    ASSUME TypeOK, AloneInv, AloneStep, NEW w \in Writer \ InPut,
           InPut' = InPut \cup {w}, target' = target, NEW list \in List,
           target[w] = list, Answers' = Answers, result' = result
    PROVE  PutPromise!Next
  <1>1. PutBy' = [PutBy EXCEPT ![w] = list]
    BY DEF PutBy
  <1>2. PutBy[w] = NoList
    BY Mapped
  <1>3. alone' = [v \in Writer |-> v = w /\ InPut = {}]
    <2>1. ~(InPut' \subseteq InPut)
      OBVIOUS
    <2>2. alone' = [v \in Writer |-> v \in InPut' /\ InPut' = {v}]
      BY <2>1, Zenon DEF AloneStep
    <2>3. \A v \in Writer : v \in InPut' /\ InPut' = {v} <=> v = w /\ InPut = {}
      OBVIOUS
    <2>4. QED
      BY <2>2, <2>3
  <1>4. PutPromise!Begin(w, list)
    BY <1>1, <1>2, <1>3, Mapped DEF PutPromise!Begin, PutBy, Answers
  <1>5. QED
    BY <1>4 DEF PutPromise!Next

\* A call ends.
LEMMA Finishes ==
    ASSUME TypeOK, AloneInv, AloneStep, NEW w \in InPut, NEW outcome,
           Return(w, outcome), PutPromise!Mixture
    PROVE  PutPromise!Finish(w, outcome)
  <1>1. InPut' = InPut \ {w} /\ w \in Writer
    BY DEF Return, Goto, InPut, TypeOK
  <1>2. PutBy' = [PutBy EXCEPT ![w] = NoList]
    BY <1>1 DEF PutBy, Return, TypeOK
  <1>3. alone' = [v \in Writer |-> v \in InPut \ {w} /\ alone[v]]
    BY <1>1, Zenon DEF AloneStep
  <1>4. alone' = [alone EXCEPT ![w] = FALSE]
    <2>1. \A v \in Writer : alone[v] => v \in InPut
      BY DEF AloneInv
    <2>2. QED
      BY <1>1, <1>3, <2>1 DEF AloneInv
  <1>5. w \in PutPromise!Busy /\ result' = [result EXCEPT ![w] = outcome]
    BY Mapped DEF Return
  <1>6. QED
    BY <1>2, <1>4, <1>5 DEF PutPromise!Finish, PutBy

\* A call that has not reached the provider ends.
LEMMA Refuses ==
    ASSUME TypeOK, AloneInv, AloneStep, NEW w \in Writer \ InPut,
           Return(w, "error"), Answers' = Answers
    PROVE  PutPromise!Next
  <1>1. InPut' = InPut /\ \A v \in InPut : target'[v] = target[v]
    BY DEF Return, Goto, InPut, TypeOK
  <1>2. PutBy[w] = NoList /\ result' = [result EXCEPT ![w] = "error"]
    BY Mapped DEF Return
  <1>3. PutPromise!Refuse(w)
    BY <1>1, <1>2, SameCalls DEF PutPromise!Refuse, PutBy, Answers
  <1>4. QED
    BY <1>3 DEF PutPromise!Next

-----------------------------------------------------------------------------
\* While a put runs alone, nobody else creates or removes records.
LEMMA AloneStays ==
    ASSUME TypeOK, AloneInv, AloneStep, Next
    PROVE  AloneInv'
  <1> USE DEF Goto, dnsVars
  <1>1. alone' \in [Writer -> BOOLEAN]
    BY ZenonT(30) DEF AloneStep, AloneInv
  <1>2. \A w \in Writer : alone'[w] => InPut' = {w} /\ (alone[w] \/ ~(InPut' \subseteq InPut))
    <2>1. \A w \in Writer : alone'[w] => w \in InPut'
              /\ (IF InPut' \subseteq InPut THEN alone[w] ELSE InPut' = {w})
      BY ZenonT(30) DEF AloneStep
    <2>2. QED
      BY <2>1 DEF AloneInv
  <1> SUFFICES ASSUME NEW w \in Writer, alone'[w], pc'[w] \in Doing, NEW r \in rrset'
               PROVE  r \in listed'[w] \/ content'[r] = target'[w]
    BY <1>1, <1>2 DEF AloneInv
  <1> DEFINE Goal == r \in listed'[w] \/ content'[r] = target'[w]
  <1>a. InPut' = {w}
    BY <1>2
  <1>b. ASSUME NEW v \in Writer, ~GetHTTPSRDATA(v),
               \/ \E list \in List : publishDNS(v, list) \/ doInit(v, list)
               \/ Refuse(v) \/ ListRecords(v) \/ CreateRecord(v) \/ CreateFails(v)
               \/ \E q \in created[v] : bestEffortDelete(v, q)
               \/ RolledBack(v)
               \/ \E q \in listed[v] : deleteByID(v, q) \/ deleteFails(v, q)
               \/ Succeed(v) \/ Stop(v)
        PROVE  InPut' \subseteq InPut
    BY <1>b DEF publishDNS, doInit, Refuse, ListRecords, CreateRecord, CreateFails,
        bestEffortDelete, RolledBack, deleteByID, deleteFails, Succeed, Stop, Return, InPut, TypeOK
  <1>3. ASSUME NEW v \in Writer, GetHTTPSRDATA(v) PROVE Goal
    BY <1>3, <1>2, <1>a DEF GetHTTPSRDATA, Doing, InPut, TypeOK, AloneInv
  <1> SUFFICES ASSUME \A v \in Writer : ~GetHTTPSRDATA(v) PROVE Goal
    BY <1>3
  <1>4. InPut' \subseteq InPut
    BY <1>b DEF Next
  <1>5. alone[w] /\ InPut = {w} /\ w \in InPut
    BY <1>2, <1>4 DEF AloneInv
  <1>6. pc[w] \in Doing => \A q \in rrset : q \in listed[w] \/ content[q] = target[w]
    BY <1>5 DEF AloneInv
  <1>7. ASSUME NEW v \in Writer, v # w,
               UNCHANGED dnsVars, pc'[w] = pc[w], listed'[w] = listed[w], target'[w] = target[w]
        PROVE  Goal
    BY <1>6, <1>7
  <1>8. ASSUME NEW v \in Writer, NEW list \in List, publishDNS(v, list) \/ doInit(v, list)
        PROVE  Goal
    BY <1>5, <1>7, <1>8 DEF publishDNS, doInit, InPut, TypeOK
  <1>9. ASSUME NEW v \in Writer, Refuse(v) \/ RolledBack(v) \/ Succeed(v) \/ Stop(v) PROVE Goal
    <2>1. v # w
      BY <1>9, <1>a, ZenonT(40) DEF Refuse, RolledBack, Succeed, Stop, Return, InPut, TypeOK
    <2>2. QED
      BY <1>7, <1>9, <2>1 DEF Refuse, RolledBack, Succeed, Stop, Return, TypeOK
  <1>10. ASSUME NEW v \in Writer, ListRecords(v) PROVE Goal
    BY <1>5, <1>10 DEF ListRecords, InPut, TypeOK
  <1>11. ASSUME NEW v \in Writer, CreateRecord(v) \/ CreateFails(v) PROVE Goal
    <2>1. v = w /\ pc[w] \in Doing
      BY <1>5, <1>11 DEF CreateRecord, CreateFails, InPut, Doing
    <2>2. CASE NewRecord(w)
      BY <1>6, <1>11, <2>1, <2>2 DEF CreateRecord, CreateFails, NewRecord, TypeOK
    <2>3. CASE UNCHANGED dnsVars /\ CreateFails(w)
      BY <1>6, <2>1, <2>3 DEF CreateFails
    <2>4. QED
      BY <1>11, <2>1, <2>2, <2>3 DEF CreateRecord, CreateFails
  <1>12. ASSUME NEW v \in Writer, NEW q \in created[v], bestEffortDelete(v, q) PROVE Goal
    BY <1>5, <1>6, <1>12 DEF bestEffortDelete, InPut, Doing, TypeOK
  <1>13. ASSUME NEW v \in Writer, NEW q \in listed[v], deleteByID(v, q) PROVE Goal
    BY <1>5, <1>6, <1>13 DEF deleteByID, InPut, Doing, TypeOK
  <1>14. ASSUME NEW v \in Writer, NEW q \in listed[v], deleteFails(v, q) PROVE Goal
    BY <1>5, <1>a, <1>14 DEF deleteFails, Return, InPut, TypeOK
  <1>15. QED
    BY <1>8, <1>9, <1>10, <1>11, <1>12, <1>13, <1>14 DEF Next

LEMMA AlwaysCreatesFirst == Spec => []CreatesFirst
  <1>1. Init => CreatesFirst
    BY DEF Init, CreatesFirst
  <1>2. Inv /\ CreatesFirst /\ [Next]_vars => CreatesFirst'
    <2> SUFFICES ASSUME Inv, CreatesFirst, [Next]_vars, NEW w \in Writer, pc'[w] = "delete"
                 PROVE  records' > 0
      BY DEF CreatesFirst
    <2>1. TypeOK
      BY DEF Inv
    <2>2. records' = records \/ records' = records + 1
      BY DEF Next, publishDNS, doInit, GetHTTPSRDATA, Refuse, ListRecords, CreateRecord,
             CreateFails, NewRecord, bestEffortDelete, RolledBack, deleteByID, deleteFails,
             Succeed, Stop, vars, dnsVars
    <2>3. pc[w] = "delete" \/ records' = records + 1
      BY <2>1 DEF Next, publishDNS, doInit, GetHTTPSRDATA, Refuse, ListRecords, CreateRecord,
             CreateFails, NewRecord, bestEffortDelete, RolledBack, deleteByID, deleteFails,
             Succeed, Stop, Return, Goto, vars, procVars, TypeOK
    <2>4. QED
      BY <2>1, <2>2, <2>3 DEF CreatesFirst, TypeOK
  <1>3. QED
    BY <1>1, <1>2, Invariant, PTL DEF Spec

LEMMA StepKeepsPromise ==
    ASSUME Inv, Inv', CreatesFirst, AloneInv, Next, AloneStep
    PROVE  [PutPromise!Next]_(PutPromise!vars)
  <1> USE DEF Goto, dnsVars
  <1>0. TypeOK /\ TypeOK'
    BY DEF Inv
  <1>r. records' \in Nat /\ records' >= records
    <2>1. records' = records \/ records' = records + 1
      BY DEF Next, publishDNS, doInit, GetHTTPSRDATA, Refuse, ListRecords, CreateRecord,
             CreateFails, NewRecord, bestEffortDelete, RolledBack, deleteByID, deleteFails,
             Succeed, Stop
    <2>2. QED
      BY <1>0, <2>1 DEF TypeOK
  <1>1. ASSUME NEW w \in Writer, NEW list \in List, publishDNS(w, list) \/ doInit(w, list)
        PROVE  UNCHANGED PutPromise!vars
    <2>1. /\ InPut' = InPut /\ \A v \in InPut : target'[v] = target[v]
          /\ rrset' = rrset /\ content' = content /\ result' = result
      BY <1>0, <1>1 DEF publishDNS, doInit, InPut, TypeOK
    <2>2. QED
      BY <1>0, <2>1, AnswersStep, Stutters
  <1>2. ASSUME NEW w \in Writer, GetHTTPSRDATA(w) PROVE PutPromise!Next
    <2>1. /\ w \in Writer \ InPut /\ InPut' = InPut \cup {w} /\ target' = target
          /\ rrset' = rrset /\ content' = content /\ result' = result
      BY <1>0, <1>2 DEF GetHTTPSRDATA, InPut, TypeOK
    <2>2. target[w] \in List
      BY <1>0, <1>2 DEF GetHTTPSRDATA, TypeOK
    <2>3. QED
      BY <1>0, <2>1, <2>2, AnswersStep, Begins
  <1>3. ASSUME NEW w \in Writer, w \notin InPut, Return(w, "error"), UNCHANGED dnsVars
        PROVE  PutPromise!Next
    BY <1>0, <1>3, AnswersStep, Refuses
  <1>4. ASSUME NEW w \in Writer, Refuse(w) PROVE PutPromise!Next
    BY <1>3, <1>4 DEF Refuse, InPut
  <1>5. ASSUME NEW w \in Writer, ListRecords(w) PROVE UNCHANGED PutPromise!vars
    <2>1. /\ InPut' = InPut /\ target' = target
          /\ rrset' = rrset /\ content' = content /\ result' = result
      BY <1>0, <1>5 DEF ListRecords, InPut, TypeOK
    <2>2. QED
      BY <1>0, <2>1, AnswersStep, Stutters
  <1>c. ASSUME NEW w \in InPut, InPut' = InPut, target' = target, result' = result,
               Answers' \subseteq Answers \cup {target[w]}
        PROVE  PutPromise!Next
    BY <1>0, <1>c, <1>r, Mixes, Changes
  <1>6. ASSUME NEW w \in Writer, CreateRecord(w) \/ CreateFails(w) PROVE PutPromise!Next
    <2>1. w \in InPut /\ InPut' = InPut /\ target' = target /\ result' = result
      BY <1>0, <1>6 DEF CreateRecord, CreateFails, InPut, TypeOK
    <2>2. NewRecord(w) \/ (rrset' = rrset /\ content' = content)
      BY <1>6 DEF CreateRecord, CreateFails
    <2>3. Answers' \subseteq Answers \cup {target[w]}
      BY <1>0, <2>2, AnswersStep
    <2>4. QED
      BY <1>c, <2>1, <2>3
  <1>7. ASSUME NEW w \in Writer, NEW r \in created[w], bestEffortDelete(w, r)
        PROVE  PutPromise!Next
    <2>1. /\ w \in InPut /\ InPut' = InPut /\ target' = target /\ result' = result
          /\ rrset' \subseteq rrset /\ content' = content
      BY <1>0, <1>7 DEF bestEffortDelete, InPut, TypeOK
    <2>2. QED
      BY <1>0, <1>c, <2>1, AnswersStep
  <1>8. ASSUME NEW w \in Writer, NEW r \in listed[w], deleteByID(w, r)
        PROVE  PutPromise!Next
    <2>1. /\ w \in InPut /\ InPut' = InPut /\ target' = target /\ result' = result
          /\ rrset' \subseteq rrset /\ content' = content
      BY <1>0, <1>8 DEF deleteByID, InPut, TypeOK
    <2>2. QED
      BY <1>0, <1>c, <2>1, AnswersStep
  <1>f. ASSUME NEW w \in InPut, Return(w, "error"), rrset' \subseteq rrset, content' = content
        PROVE  PutPromise!Next
    <2>1. PutPromise!Mixture
      BY <1>0, <1>f, <1>r, AnswersStep, Mixes
    <2>2. PutPromise!Fail(w)
      BY <1>0, <1>f, <2>1, Finishes DEF PutPromise!Fail
    <2>3. QED
      BY <2>2 DEF PutPromise!Next, InPut
  <1>9. ASSUME NEW w \in Writer, RolledBack(w) PROVE PutPromise!Next
    BY <1>9, <1>f DEF RolledBack, InPut
  <1>10. ASSUME NEW w \in Writer, NEW r \in listed[w], deleteFails(w, r) PROVE PutPromise!Next
    BY <1>10, <1>f DEF deleteFails, InPut
  <1>11. ASSUME NEW w \in Writer, Stop(w) PROVE PutPromise!Next
    BY <1>3, <1>11, <1>f DEF Stop
  <1>12. ASSUME NEW w \in Writer, Succeed(w) PROVE PutPromise!Next
    <2>1. w \in InPut /\ Return(w, "ok") /\ rrset' = rrset /\ content' = content
      BY <1>12 DEF Succeed, InPut
    <2>2. PutPromise!Mixture
      BY <1>0, <1>r, <2>1, AnswersStep, Mixes
    <2>3. PutPromise!Finish(w, "ok")
      BY <1>0, <2>1, <2>2, Finishes
    <2>4. alone[w] => Answers = {target[w]}
      <3>1. rrset # {}
        BY <1>12 DEF Inv, Kept, Succeed, CreatesFirst
      <3>2. alone[w] => \A r \in rrset : content[r] = target[w]
        BY <1>12 DEF AloneInv, Succeed, Doing
      <3>3. QED
        BY <3>1, <3>2 DEF Answers
    <2>5. Answers' = Answers /\ PutPromise!Content(w) = {target[w]}
      BY <1>0, <2>1, AnswersStep, Mapped
    <2>6. PutPromise!Succeed(w)
      BY <2>3, <2>4, <2>5 DEF PutPromise!Succeed, Answers
    <2>7. QED
      BY <2>6 DEF PutPromise!Next, InPut
  <1>13. QED
    BY <1>1, <1>2, <1>4, <1>5, <1>6, <1>7, <1>8, <1>9, <1>10, <1>11, <1>12 DEF Next

\* Cloudflare keeps the promise of module Provider, request by request and
\* whatever fails: a put that no other overlaps and that reports success has
\* replaced the RRset, every other leaves a mixture, and no put leaves nothing.
THEOREM CloudflareKeepsPromise == MCSpec => PutReplaces
  <1>1. MCInit => AloneInv /\ PutPromise!Init
    <2> SUFFICES ASSUME MCInit PROVE AloneInv /\ PutPromise!Init
      OBVIOUS
    <2>1. InPut = {} /\ Answers \in SUBSET List
      BY DEF MCInit, Init, InPut, Answers
    <2>2. QED
      BY <2>1 DEF MCInit, Init, PutPromise!Init, Answers, AloneInv
  <1>2. Inv /\ AloneInv /\ [MCNext]_<<vars, alone>> => AloneInv'
    <2> SUFFICES ASSUME Inv, AloneInv, [MCNext]_<<vars, alone>> PROVE AloneInv'
      OBVIOUS
    <2>1. CASE MCNext
      BY <2>1, AloneStays DEF MCNext, AloneStep, Inv
    <2>2. CASE UNCHANGED <<vars, alone>>
      BY <2>2 DEF vars, dnsVars, procVars, AloneInv, InPut
    <2>3. QED
      BY <2>1, <2>2
  <1>3. Inv /\ Inv' /\ CreatesFirst /\ AloneInv /\ [MCNext]_<<vars, alone>>
            => [PutPromise!Next]_(PutPromise!vars)
    <2> SUFFICES ASSUME Inv, Inv', CreatesFirst, AloneInv, [MCNext]_<<vars, alone>>
                 PROVE  [PutPromise!Next]_(PutPromise!vars)
      OBVIOUS
    <2>1. CASE MCNext
      BY <2>1, StepKeepsPromise DEF MCNext, AloneStep
    <2>2. CASE UNCHANGED <<vars, alone>>
      <3>1. UNCHANGED PutPromise!vars
        BY <2>2 DEF vars, dnsVars, procVars, PutPromise!vars, InPut
      <3>2. QED
        BY <3>1
    <2>3. QED
      BY <2>1, <2>2
  <1>4. MCSpec => Spec
    <2>1. MCInit => Init
      BY DEF MCInit
    <2>2. [MCNext]_<<vars, alone>> => [Next]_vars
      BY DEF MCNext
    <2>3. QED
      BY <2>1, <2>2, PTL DEF MCSpec, Spec
  <1>5. QED
    BY <1>1, <1>2, <1>3, <1>4, Invariant, AlwaysCreatesFirst, PTL
    DEF MCSpec, PutReplaces, PutPromise!Spec
=============================================================================
