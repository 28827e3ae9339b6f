--------------------------- MODULE KeystoreProofs ---------------------------
(***************************************************************************)
(* Theorems about Keystore for every number of calls, faults and crashes.  *)
(*                                                                         *)
(* The argument.  Memory and disk are sequences whose keys ascend and      *)
(* whose names differ (WellFormed).  A key has at most one file            *)
(* (OneFileEach), so the file that a call removes or overwrites belongs to *)
(* no other key that was acknowledged: that key has an entry in memory,    *)
(* whose name is another one, and on disk, under the same name             *)
(* (AckedHaveFiles).  While a prune runs, the memory stands for what it    *)
(* will have left (View).                                                  *)
(***************************************************************************)
EXTENDS Keystore, TLAPS, SequenceTheorems, FiniteSetTheorems, WellFoundedInduction

Live == {"current", "previous"}

View == IF pc = "prune" THEN call.kept \o SubSeq(mem, call.at, Len(mem)) ELSE mem

WellFormed(s, most) ==
    /\ \A i, j \in 1 .. Len(s) : i < j => s[i].key < s[j].key
    /\ \A i, j \in 1 .. Len(s) : i # j => s[i].name # s[j].name
    /\ \A i \in 1 .. Len(s) : s[i].state = "current" => i = Len(s)
    /\ \A i \in 1 .. Len(s) : s[i].key <= most /\ s[i].name.suffix <= s[i].key

OneFileEach ==
    /\ \A m, n \in DOMAIN files : files[m] = files[n] => m = n
    /\ \A n \in DOMAIN files : files[n] <= adds

HasFile(s, f, key) ==
    \E i \in 1 .. Len(s) : /\ s[i].key = key
                           /\ s[i].name \in DOMAIN f
                           /\ f[s[i].name] = key
AckedHaveFiles ==
    \A key \in acked : /\ HasFile(Entries, files, key)
                       /\ pc # "closed" => HasFile(View, files, key)

\* The entry that Add is about to add, or has added.
Adding ==
    /\ pc = "file" =>
          /\ call.op = "add" /\ call.key = adds /\ call.name.suffix <= adds
          /\ \A i \in 1 .. Len(mem) : mem[i].name # call.name /\ mem[i].key < adds
          /\ \A n \in DOMAIN files : files[n] # adds
    /\ pc = "meta" /\ call.op = "add" =>
          /\ mem # <<>> /\ mem[Len(mem)].key = call.key /\ mem[Len(mem)].name = call.name
          /\ call.name \in DOMAIN files /\ files[call.name] = call.key
          /\ call.key \notin acked

Pruning ==
    pc = "prune" =>
        call.op = "prune" /\ call.at \in 1 .. Len(mem) + 1 /\ WellFormed(mem, adds)
Opening == call.op = "init" => disk = NoMeta /\ mem = <<>>

Core ==
    /\ WellFormed(View, adds) /\ WellFormed(Entries, adds)
    /\ OneFileEach /\ AckedHaveFiles
StoreInv == TypeOK /\ Core /\ Adding /\ Pruning /\ Opening

\* Of a handle that is dropped on the first error.
LiveHaveFiles(s, f) == \A i \in 1 .. Len(s) : s[i].state \in Live => s[i].name \in DOMAIN f
Dropped == pc = "closed" \/ (pc = "idle" /\ last = "error")
CarefulInv ==
    ~misused =>
        /\ ~(pc = "meta" /\ call.op = "delete") => LiveHaveFiles(Entries, files)
        /\ ~Dropped => LiveHaveFiles(View, files)
        /\ pc \in {"idle", "file", "prune"} /\ ~Dropped => mem = disk
        /\ pc = "meta" /\ call.op = "add" =>
              \A i \in 1 .. Len(Entries) : Entries[i].name # call.name

-----------------------------------------------------------------------------
(* Sequences of entries.                                                   *)

LEMMA EntryFields ==
    ASSUME NEW e \in Entry
    PROVE  /\ e.key \in Nat /\ e.drop \in Nat /\ e.id \in ConfigID
           /\ e.name \in Name /\ e.name.suffix \in Nat
           /\ e.state \in State
  BY DEF Entry, Name

LEMMA WithStateFields ==
    ASSUME NEW e \in Entry, NEW state \in State, NEW drop \in Nat
    PROVE  /\ WithState(e, state, drop) \in Entry
           /\ WithState(e, state, drop).state = state
           /\ WithState(e, state, drop).key = e.key
           /\ WithState(e, state, drop).name = e.name
           /\ WithState(e, state, drop).id = e.id
  BY DEF WithState, Entry

LEMMA NatMin ==
    ASSUME NEW S, S \subseteq Nat, S # {}
    PROVE  \E m \in S : \A n \in S : m <= n
  <1>1. \E m \in S : \A n \in S : ~(<<n, m>> \in OpToRel(<, Nat))
    BY NatLessThanWellFounded, WFMin
  <1>2. \A n, m \in Nat : ~(<<n, m>> \in OpToRel(<, Nat)) => m <= n
    BY DEF OpToRel
  <1>3. QED
    BY <1>1, <1>2

\* Lookup returns an index of the memory, or 0.
LEMMA LookupIsIndex ==
    ASSUME mem \in Seq(Entry), NEW id, Lookup(id) # 0
    PROVE  Lookup(id) \in 1 .. Len(mem)
  <1> DEFINE I == {i \in 1 .. Len(mem) : mem[i].id = id}
  <1>1. Lookup(id) = IF I # {} THEN Min(I) ELSE 0
    BY DEF Lookup, SelectInSeq
  <1>2. I # {} /\ I \subseteq Nat
    BY <1>1, LenProperties
  <1>3. \E m \in I : \A n \in I : m <= n
    <2> HIDE DEF I
    <2>1. QED
      BY <1>2, NatMin
  <1>4. Min(I) \in I
    <2> HIDE DEF I
    <2>1. QED
      BY <1>3 DEF Min
  <1>5. QED
    BY <1>1, <1>2, <1>4

\* t is s without its k-th entry.
Without(t, s, k) ==
    /\ t \in Seq(Entry) /\ k \in 1 .. Len(s) /\ Len(t) = Len(s) - 1
    /\ \A j \in 1 .. Len(t) : t[j] = IF j < k THEN s[j] ELSE s[j + 1]

LEMMA RemoveAtWithout ==
    ASSUME NEW s \in Seq(Entry), NEW k \in 1 .. Len(s)
    PROVE  Without(RemoveAt(s, k), s, k)
  <1> DEFINE a == SubSeq(s, 1, k - 1)
             b == SubSeq(s, k + 1, Len(s))
  <1>0. Len(s) \in Nat /\ k \in Int /\ \A i \in 1 .. Len(s) : s[i] \in Entry
    BY LenProperties, ElementOfSeq
  <1>1. /\ a \in Seq(Entry) /\ Len(a) = k - 1
        /\ \A j \in 1 .. k - 1 : a[j] = s[j]
    <2>1. /\ a \in Seq(Entry) /\ Len(a) = IF 1 <= k - 1 THEN k - 1 - 1 + 1 ELSE 0
          /\ \A j \in 1 .. k - 1 - 1 + 1 : a[j] = s[1 + j - 1]
      BY <1>0, SubSeqProperties
    <2>2. QED
      BY <2>1, <1>0
  <1>2. /\ b \in Seq(Entry) /\ Len(b) = Len(s) - k
        /\ \A j \in 1 .. Len(s) - k : b[j] = s[k + j]
    <2>1. /\ b \in Seq(Entry)
          /\ Len(b) = IF k + 1 <= Len(s) THEN Len(s) - (k + 1) + 1 ELSE 0
          /\ \A j \in 1 .. Len(s) - (k + 1) + 1 : b[j] = s[k + 1 + j - 1]
      BY <1>0, SubSeqProperties
    <2>2. QED
      BY <2>1, <1>0
  <1> HIDE DEF a, b
  <1>3. /\ a \o b \in Seq(Entry) /\ Len(a \o b) = Len(a) + Len(b)
        /\ \A j \in 1 .. Len(a) + Len(b) :
             (a \o b)[j] = IF j <= Len(a) THEN a[j] ELSE b[j - Len(a)]
    BY <1>1, <1>2, ConcatProperties
  <1>4. RemoveAt(s, k) = a \o b
    BY DEF RemoveAt, a, b
  <1>5. ASSUME NEW j \in 1 .. Len(s) - 1
        PROVE  (a \o b)[j] = IF j < k THEN s[j] ELSE s[j + 1]
    <2>1. j \in 1 .. Len(a) + Len(b)
      BY <1>0, <1>1, <1>2
    <2>2. CASE j < k
      BY <1>0, <1>1, <1>3, <2>1, <2>2
    <2>3. CASE j >= k
      <3>1. (a \o b)[j] = b[j - Len(a)] /\ j - Len(a) \in 1 .. Len(s) - k
        BY <1>0, <1>1, <1>2, <1>3, <2>1, <2>3
      <3>2. b[j - Len(a)] = s[k + (j - Len(a))] /\ k + (j - Len(a)) = j + 1
        BY <1>0, <1>1, <1>2, <3>1
      <3>3. (a \o b)[j] = s[j + 1] /\ ~(j < k)
        BY <1>0, <2>3, <3>1, <3>2
      <3>4. QED
        BY <3>3
    <2>4. j < k \/ j >= k
      BY <1>0
    <2>5. QED
      BY <2>2, <2>3, <2>4
  <1>6. Len(a \o b) = Len(s) - 1
    BY <1>0, <1>1, <1>2, <1>3
  <1>7. QED
    BY <1>0, <1>3, <1>4, <1>5, <1>6 DEF Without

LEMMA WithoutWellFormed ==
    ASSUME NEW s \in Seq(Entry), NEW t, NEW k, Without(t, s, k),
           NEW most, WellFormed(s, most)
    PROVE  WellFormed(t, most)
  <1> DEFINE from(j) == IF j < k THEN j ELSE j + 1
  <1>0. /\ Len(s) \in Nat /\ k \in 1 .. Len(s) /\ Len(t) = Len(s) - 1
        /\ \A i \in 1 .. Len(s) : s[i] \in Entry /\ s[i].key \in Nat
    BY LenProperties, ElementOfSeq, EntryFields DEF Without
  <1>1. \A j \in 1 .. Len(t) : t[j] = s[from(j)] /\ from(j) \in 1 .. Len(s)
    BY <1>0 DEF Without
  <1>2. /\ \A i, j \in 1 .. Len(t) : i < j => from(i) < from(j)
        /\ \A i, j \in 1 .. Len(t) : i # j => from(i) # from(j)
        /\ \A i \in 1 .. Len(t) : from(i) = Len(s) => i = Len(t)
    BY <1>0
  <1> HIDE DEF from
  <1>3. \A i, j \in 1 .. Len(t) : i < j => t[i].key < t[j].key
    BY <1>1, <1>2 DEF WellFormed
  <1>4. \A i, j \in 1 .. Len(t) : i # j => t[i].name # t[j].name
    BY <1>1, <1>2 DEF WellFormed
  <1>5. \A i \in 1 .. Len(t) : t[i].state = "current" => i = Len(t)
    BY <1>1, <1>2 DEF WellFormed
  <1>6. \A i \in 1 .. Len(t) : t[i].key <= most /\ t[i].name.suffix <= t[i].key
    BY <1>1 DEF WellFormed
  <1>7. QED
    BY <1>3, <1>4, <1>5, <1>6 DEF WellFormed

\* An entry other than the k-th is still there.
LEMMA WithoutKeeps ==
    ASSUME NEW s \in Seq(Entry), NEW t, NEW k, Without(t, s, k),
           NEW i \in 1 .. Len(s), i # k
    PROVE  \E j \in 1 .. Len(t) : t[j] = s[i]
  <1>1. CASE i < k
    <2>1. i \in 1 .. Len(t) /\ t[i] = s[i]
      BY <1>1, LenProperties DEF Without
    <2>2. QED
      BY <2>1
  <1>2. CASE i > k
    <2>1. i - 1 \in 1 .. Len(t) /\ t[i - 1] = s[i]
      BY <1>2, LenProperties DEF Without
    <2>2. QED
      BY <2>1
  <1>3. QED
    BY <1>1, <1>2, LenProperties DEF Without

-----------------------------------------------------------------------------
(* The memory while a prune runs.                                          *)

Rest(s, at) == SubSeq(s, at, Len(s))

LEMMA RestIs ==
    ASSUME NEW s \in Seq(Entry), NEW at \in 1 .. Len(s) + 1
    PROVE  /\ Rest(s, at) \in Seq(Entry) /\ Len(Rest(s, at)) = Len(s) - at + 1
           /\ \A j \in 1 .. Len(s) - at + 1 : Rest(s, at)[j] = s[at + j - 1]
  <1>1. Len(s) \in Nat /\ at \in Int /\ \A i \in at .. Len(s) : s[i] \in Entry
    BY LenProperties, ElementOfSeq
  <1>2. /\ Rest(s, at) \in Seq(Entry)
        /\ Len(Rest(s, at)) = IF at <= Len(s) THEN Len(s) - at + 1 ELSE 0
        /\ \A j \in 1 .. Len(s) - at + 1 : Rest(s, at)[j] = s[at + j - 1]
    BY <1>1, SubSeqProperties DEF Rest
  <1>3. QED
    BY <1>1, <1>2

LEMMA ViewIs ==
    ASSUME NEW kept \in Seq(Entry), NEW s \in Seq(Entry), NEW at \in 1 .. Len(s) + 1
    PROVE  /\ kept \o Rest(s, at) \in Seq(Entry)
           /\ Len(kept \o Rest(s, at)) = Len(kept) + Len(s) - at + 1
           /\ \A j \in 1 .. Len(kept) + Len(s) - at + 1 :
                (kept \o Rest(s, at))[j] = IF j <= Len(kept) THEN kept[j]
                                           ELSE s[at + (j - Len(kept)) - 1]
  <1>1. /\ Rest(s, at) \in Seq(Entry) /\ Len(Rest(s, at)) = Len(s) - at + 1
        /\ \A j \in 1 .. Len(s) - at + 1 : Rest(s, at)[j] = s[at + j - 1]
    BY RestIs
  <1>2. /\ kept \o Rest(s, at) \in Seq(Entry)
        /\ Len(kept \o Rest(s, at)) = Len(kept) + Len(Rest(s, at))
        /\ \A j \in 1 .. Len(kept) + Len(Rest(s, at)) :
             (kept \o Rest(s, at))[j] = IF j <= Len(kept) THEN kept[j]
                                        ELSE Rest(s, at)[j - Len(kept)]
    BY <1>1, ConcatProperties
  <1>3. Len(kept) \in Nat /\ Len(s) \in Nat
    BY LenProperties
  <1>4. QED
    BY <1>1, <1>2, <1>3

\* A step that keeps the entry leaves the view as it is.
LEMMA ViewKept ==
    ASSUME NEW kept \in Seq(Entry), NEW s \in Seq(Entry), NEW at \in 1 .. Len(s)
    PROVE  Append(kept, s[at]) \o Rest(s, at + 1) = kept \o Rest(s, at)
  <1> DEFINE more == Append(kept, s[at])
  <1>0. Len(kept) \in Nat /\ Len(s) \in Nat /\ at \in 1 .. Len(s) + 1 /\ at + 1 \in 1 .. Len(s) + 1
    BY LenProperties
  <1>1. /\ more \in Seq(Entry) /\ Len(more) = Len(kept) + 1
        /\ \A i \in 1 .. Len(kept) : more[i] = kept[i]
        /\ more[Len(kept) + 1] = s[at]
    BY AppendProperties, ElementOfSeq
  <1> HIDE DEF more
  <1>2. /\ more \o Rest(s, at + 1) \in Seq(Entry)
        /\ Len(more \o Rest(s, at + 1)) = Len(more) + Len(s) - (at + 1) + 1
        /\ \A j \in 1 .. Len(more) + Len(s) - (at + 1) + 1 :
             (more \o Rest(s, at + 1))[j] = IF j <= Len(more) THEN more[j]
                                            ELSE s[at + 1 + (j - Len(more)) - 1]
    BY <1>0, <1>1, ViewIs
  <1>3. /\ kept \o Rest(s, at) \in Seq(Entry)
        /\ Len(kept \o Rest(s, at)) = Len(kept) + Len(s) - at + 1
        /\ \A j \in 1 .. Len(kept) + Len(s) - at + 1 :
             (kept \o Rest(s, at))[j] = IF j <= Len(kept) THEN kept[j]
                                        ELSE s[at + (j - Len(kept)) - 1]
    BY <1>0, ViewIs
  <1>4. Len(more \o Rest(s, at + 1)) = Len(kept \o Rest(s, at))
    BY <1>0, <1>1, <1>2, <1>3
  <1>5. ASSUME NEW j \in 1 .. Len(kept) + Len(s) - at + 1
        PROVE  (more \o Rest(s, at + 1))[j] = (kept \o Rest(s, at))[j]
    <2>1. j \in 1 .. Len(more) + Len(s) - (at + 1) + 1
      BY <1>0, <1>1
    <2>2. CASE j <= Len(kept)
      BY <1>0, <1>1, <1>2, <1>3, <2>1, <2>2
    <2>3. CASE j = Len(kept) + 1
      <3>1. (more \o Rest(s, at + 1))[j] = s[at]
        BY <1>0, <1>1, <1>2, <2>1, <2>3
      <3>2. (kept \o Rest(s, at))[j] = s[at + (j - Len(kept)) - 1]
            /\ at + (j - Len(kept)) - 1 = at
        BY <1>0, <1>3, <2>3
      <3>3. QED
        BY <3>1, <3>2
    <2>4. CASE j > Len(kept) + 1
      <3>1. (more \o Rest(s, at + 1))[j] = s[at + 1 + (j - Len(more)) - 1]
        BY <1>0, <1>1, <1>2, <2>1, <2>4
      <3>2. (kept \o Rest(s, at))[j] = s[at + (j - Len(kept)) - 1]
        BY <1>0, <1>3, <2>4
      <3>3. at + 1 + (j - Len(more)) - 1 = at + (j - Len(kept)) - 1
        BY <1>0, <1>1
      <3>4. QED
        BY <3>1, <3>2, <3>3
    <2>5. j <= Len(kept) \/ j = Len(kept) + 1 \/ j > Len(kept) + 1
      BY <1>0
    <2>6. QED
      BY <2>2, <2>3, <2>4, <2>5
  <1>6. more \o Rest(s, at + 1) = kept \o Rest(s, at)
    BY <1>0, <1>2, <1>3, <1>4, <1>5, SeqEqual
  <1>7. QED
    BY <1>6 DEF more

\* A step that prunes the entry removes it from the view.
LEMMA ViewPruned ==
    ASSUME NEW kept \in Seq(Entry), NEW s \in Seq(Entry), NEW at \in 1 .. Len(s)
    PROVE  /\ Without(kept \o Rest(s, at + 1), kept \o Rest(s, at), Len(kept) + 1)
           /\ (kept \o Rest(s, at))[Len(kept) + 1] = s[at]
  <1>0. Len(kept) \in Nat /\ Len(s) \in Nat /\ at \in 1 .. Len(s) + 1 /\ at + 1 \in 1 .. Len(s) + 1
    BY LenProperties
  <1>2. /\ kept \o Rest(s, at + 1) \in Seq(Entry)
        /\ Len(kept \o Rest(s, at + 1)) = Len(kept) + Len(s) - (at + 1) + 1
        /\ \A j \in 1 .. Len(kept) + Len(s) - (at + 1) + 1 :
             (kept \o Rest(s, at + 1))[j] = IF j <= Len(kept) THEN kept[j]
                                            ELSE s[at + 1 + (j - Len(kept)) - 1]
    BY <1>0, ViewIs
  <1>3. /\ Len(kept \o Rest(s, at)) = Len(kept) + Len(s) - at + 1
        /\ \A j \in 1 .. Len(kept) + Len(s) - at + 1 :
             (kept \o Rest(s, at))[j] = IF j <= Len(kept) THEN kept[j]
                                        ELSE s[at + (j - Len(kept)) - 1]
    BY <1>0, ViewIs
  <1> DEFINE less == kept \o Rest(s, at + 1)
             all == kept \o Rest(s, at)
  <1>4. Len(less) = Len(all) - 1 /\ Len(kept) + 1 \in 1 .. Len(all)
    <2>1. /\ Len(less) = Len(kept) + Len(s) - at /\ Len(all) = Len(kept) + Len(s) - at + 1
      BY <1>0, <1>2, <1>3
    <2> HIDE DEF less, all
    <2>2. QED
      BY <1>0, <2>1
  <1>5. all[Len(kept) + 1] = s[at]
    <2>1. /\ all[Len(kept) + 1] = s[at + (Len(kept) + 1 - Len(kept)) - 1]
          /\ at + (Len(kept) + 1 - Len(kept)) - 1 = at
      BY <1>0, <1>3, <1>4
    <2>2. QED
      BY <2>1
  <1>6. ASSUME NEW j \in 1 .. Len(less)
        PROVE  less[j] = IF j < Len(kept) + 1 THEN all[j] ELSE all[j + 1]
    <2>1. CASE j < Len(kept) + 1
      BY <1>0, <1>2, <1>3, <2>1
    <2>2. CASE j >= Len(kept) + 1
      <3>1. less[j] = s[at + 1 + (j - Len(kept)) - 1]
        BY <1>0, <1>2, <2>2
      <3>2. all[j + 1] = s[at + (j + 1 - Len(kept)) - 1]
        BY <1>0, <1>2, <1>3, <2>2, SMTT(30)
      <3>3. at + 1 + (j - Len(kept)) - 1 = at + (j + 1 - Len(kept)) - 1
        BY <1>0, <1>2
      <3>4. ~(j < Len(kept) + 1)
        BY <1>0, <1>2, <2>2
      <3>5. QED
        BY <3>1, <3>2, <3>3, <3>4
    <2>3. j < Len(kept) + 1 \/ j >= Len(kept) + 1
      BY <1>0, <1>2
    <2>4. QED
      BY <2>1, <2>2, <2>3
  <1>7. QED
    BY <1>2, <1>4, <1>5, <1>6 DEF Without

LEMMA ViewEnds ==
    ASSUME NEW s \in Seq(Entry)
    PROVE  <<>> \o Rest(s, 1) = s /\ s \o Rest(s, Len(s) + 1) = s
  <1>0. Len(s) \in Nat
    BY LenProperties
  <1>1. Rest(s, 1) = s
    <2>1. Rest(s, 1) \in Seq(Entry) /\ Len(Rest(s, 1)) = Len(s)
          /\ \A j \in 1 .. Len(s) : Rest(s, 1)[j] = s[j]
      BY <1>0, RestIs
    <2>2. QED
      BY <2>1, <1>0, SeqEqual
  <1>2. Rest(s, Len(s) + 1) = <<>>
    BY <1>0, SubSeqEmpty DEF Rest
  <1>3. QED
    BY <1>1, <1>2, ConcatEmptySeq

-----------------------------------------------------------------------------
(* Files.                                                                  *)

LEMMA WellFormedMore ==
    ASSUME NEW s \in Seq(Entry), NEW n \in Nat, NEW m \in Nat, n <= m, WellFormed(s, n)
    PROVE  WellFormed(s, m)
  <1>1. \A i \in 1 .. Len(s) : s[i].key \in Nat
    BY ElementOfSeq, EntryFields
  <1>2. QED
    BY <1>1 DEF WellFormed

\* The file of the k-th entry of v is no other key's.
LEMMA RemovalKeeps ==
    ASSUME NEW v \in Seq(Entry), NEW most, WellFormed(v, most), NEW k \in 1 .. Len(v),
           NEW f, \A m, n \in DOMAIN f : f[m] = f[n] => m = n,
           NEW g, g = [n \in DOMAIN f \ {v[k].name} |-> f[n]],
           NEW key, key # v[k].key, HasFile(v, f, key)
    PROVE  /\ \A s : HasFile(s, f, key) => HasFile(s, g, key)
           /\ \A t : Without(t, v, k) => HasFile(t, g, key)
  <1>1. PICK j \in 1 .. Len(v) : v[j].key = key /\ v[j].name \in DOMAIN f /\ f[v[j].name] = key
    BY DEF HasFile
  <1>2. j # k /\ v[j].name # v[k].name
    BY <1>1 DEF WellFormed
  <1>3. v[j].name \in DOMAIN g /\ g[v[j].name] = key
    BY <1>1, <1>2
  <1>4. ASSUME NEW s, HasFile(s, f, key)
        PROVE  HasFile(s, g, key)
    <2>1. PICK i \in 1 .. Len(s) : s[i].key = key /\ s[i].name \in DOMAIN f /\ f[s[i].name] = key
      BY <1>4 DEF HasFile
    <2>2. s[i].name = v[j].name
      BY <1>1, <2>1
    <2>3. QED
      BY <1>3, <2>1, <2>2 DEF HasFile
  <1>5. ASSUME NEW t, Without(t, v, k)
        PROVE  HasFile(t, g, key)
    <2>1. PICK i \in 1 .. Len(t) : t[i] = v[j]
      BY <1>2, <1>5, WithoutKeeps
    <2>2. QED
      BY <1>1, <1>3, <2>1 DEF HasFile
  <1>6. QED
    BY <1>4, <1>5

\* t has the names and keys of s, and perhaps more entries.
Covers(t, s) ==
    Len(s) <= Len(t) /\ \A i \in 1 .. Len(s) : t[i].key = s[i].key /\ t[i].name = s[i].name

LEMMA CoversKeeps ==
    ASSUME NEW s \in Seq(Entry), NEW t \in Seq(Entry), Covers(t, s), NEW f, NEW key,
           HasFile(s, f, key)
    PROVE  HasFile(t, f, key)
  <1>1. \A i \in 1 .. Len(s) : i \in 1 .. Len(t)
    BY LenProperties DEF Covers
  <1>2. QED
    BY <1>1 DEF Covers, HasFile

-----------------------------------------------------------------------------
(* Types.                                                                  *)

LEMMA DemotedIs ==
    ASSUME mem \in Seq(Entry)
    PROVE  /\ Demoted \in Seq(Entry) /\ Len(Demoted) = Len(mem)
           /\ \A i \in 1 .. Len(mem) :
                /\ Demoted[i].key = mem[i].key /\ Demoted[i].name = mem[i].name
                /\ Demoted[i].state # "current"
                /\ Demoted[i].state \in Live => mem[i].state \in Live
  <1>0. Len(mem) \in Nat /\ DOMAIN mem = 1 .. Len(mem)
    BY LenProperties
  <1>1. ASSUME NEW i \in 1 .. Len(mem)
        PROVE  /\ Demoted[i] \in Entry
               /\ Demoted[i].key = mem[i].key /\ Demoted[i].name = mem[i].name
               /\ Demoted[i].state # "current"
               /\ Demoted[i].state \in Live => mem[i].state \in Live
    <2>1. mem[i] \in Entry
      BY ElementOfSeq
    <2>2. mem[i].state \in State /\ "previous" \in State /\ mem[i].drop \in Nat
      BY <2>1, EntryFields DEF State
    <2> DEFINE e == mem[i]
               w == WithState(e, "previous", e.drop)
    <2>3. w \in Entry /\ w.state = "previous" /\ w.key = mem[i].key /\ w.name = mem[i].name
      <3> HIDE DEF e
      <3>1. e \in Entry /\ e.drop \in Nat /\ "previous" \in State
        BY <2>1, <2>2 DEF e
      <3>2. w \in Entry /\ w.state = "previous" /\ w.key = e.key /\ w.name = e.name
        BY <3>1, WithStateFields
      <3>3. QED
        BY <3>2 DEF e
    <2>4. Demoted[i] = IF mem[i].state = "current" THEN w ELSE mem[i]
      BY <1>0 DEF Demoted
    <2> HIDE DEF w
    <2>5. CASE mem[i].state = "current"
      BY <2>3, <2>4, <2>5 DEF Live
    <2>6. CASE mem[i].state # "current"
      <3>1. Demoted[i] = mem[i]
        BY <2>4, <2>6
      <3>2. QED
        BY <2>1, <2>6, <3>1
    <2>7. QED
      BY <2>5, <2>6
  <1>2. Demoted \in [1 .. Len(mem) -> Entry]
    BY <1>0, <1>1 DEF Demoted
  <1>3. Demoted \in Seq(Entry) /\ Len(Demoted) = Len(mem)
    BY <1>0, <1>2, IsASeq
  <1>4. QED
    BY <1>1, <1>3

LEMMA NoCallIsCall == NoCall \in Call /\ NoCall.op = "none"
  BY EmptySeq DEF NoCall, Call

LEMMA NameIs ==
    ASSUME TypeOK, NEW id \in ConfigID, NEW key \in Nat
    PROVE  /\ uniqueName(id, key) \in Name /\ uniqueName(id, key).id = id
           /\ uniqueName(id, key).suffix \in {0, key}
           /\ uniqueName(id, key) \in Names(mem) => uniqueName(id, key).suffix = key
  BY DEF uniqueName, Name, TypeOK

-----------------------------------------------------------------------------
(* Steps that leave the files, the metadata and the view as they are.      *)

LEMMA StoreAssumptions ==
    /\ GracePeriod \in Nat /\ MaxAdds \in Nat /\ MaxFaults \in Nat /\ MaxTime \in Nat
    /\ NoMeta \notin Seq(Entry)
  BY KeystoreAssumption DEF KeystoreAssumption

LEMMA Counters == TypeOK => now \in Nat /\ adds \in Nat /\ faults \in Nat /\ misused \in BOOLEAN
  BY DEF TypeOK

LEMMA FaultType == TypeOK /\ Fault => faults' \in Nat
  <1> SUFFICES ASSUME TypeOK, Fault PROVE faults' \in Nat
    OBVIOUS
  <1>1. faults \in Nat /\ faults' = faults + 1
    BY Counters DEF Fault
  <1>2. QED
    BY <1>1

LEMMA BeginType == TypeOK /\ Begin => misused' \in BOOLEAN
  BY Counters DEF Begin

LEMMA ViewType ==
    ASSUME TypeOK, Pruning
    PROVE  View \in Seq(Entry) /\ Entries \in Seq(Entry)
  <1>1. CASE pc = "prune"
    <2>1. call.kept \in Seq(Entry) /\ mem \in Seq(Entry) /\ call.at \in 1 .. Len(mem) + 1
      BY <1>1 DEF TypeOK, Call, Pruning
    <2>2. QED
      BY <1>1, <2>1, ViewIs, EmptySeq DEF View, Rest, Entries, TypeOK
  <1>2. CASE pc # "prune"
    BY <1>2, EmptySeq DEF View, Entries, TypeOK
  <1>3. QED
    BY <1>1, <1>2

LEMMA CoreFrame ==
    ASSUME Core, View' = View, pc # "closed",
           UNCHANGED <<files, disk, adds, acked>>
    PROVE  Core'
  BY DEF Core, OneFileEach, AckedHaveFiles, Entries

LEMMA TickStep == StoreInv /\ Tick => StoreInv'
  <1> SUFFICES ASSUME StoreInv, Tick PROVE StoreInv'
    OBVIOUS
  <1>0. now' \in Nat
    <2>1. now \in Nat /\ now' = now + 1
      BY Counters DEF StoreInv, Tick
    <2>2. QED
      BY <2>1
  <1>1. TypeOK'
    BY <1>0 DEF StoreInv, TypeOK, Tick
  <1>2. Core'
    BY DEF StoreInv, Core, OneFileEach, AckedHaveFiles, Entries, View, Tick
  <1>3. QED
    BY <1>1, <1>2 DEF StoreInv, Adding, Pruning, Opening, Tick

LEMMA OpenStep == StoreInv /\ Open => StoreInv'
  <1> SUFFICES ASSUME StoreInv, Open PROVE StoreInv'
    OBVIOUS
  <1>1. TypeOK'
    BY NoCallIsCall DEF StoreInv, TypeOK, Open, Return
  <1>2. View' = Entries /\ Entries' = Entries
    BY DEF View, Entries, Open, Return
  <1>3. Core'
    BY <1>2 DEF StoreInv, Core, OneFileEach, AckedHaveFiles, Open, Return
  <1>4. QED
    BY <1>1, <1>3, NoCallIsCall DEF StoreInv, Adding, Pruning, Opening, Open, Return

LEMMA OpenOrInitStep == StoreInv /\ OpenOrInit => StoreInv'
  <1> SUFFICES ASSUME StoreInv, OpenOrInit PROVE StoreInv'
    OBVIOUS
  <1>1. call' \in Call /\ call'.op = "init"
    BY NoCallIsCall DEF OpenOrInit, NoCall, Call
  <1>2. TypeOK'
    BY <1>1, EmptySeq DEF StoreInv, TypeOK, OpenOrInit
  <1>3. Entries = <<>> /\ Entries' = <<>> /\ View' = <<>>
    BY DEF Entries, OpenOrInit, View
  <1>4. acked = {}
    BY <1>3, EmptySeq DEF StoreInv, Core, AckedHaveFiles, HasFile
  <1>5. Core'
    BY <1>3, <1>4, EmptySeq DEF StoreInv, Core, OneFileEach, AckedHaveFiles, WellFormed, OpenOrInit
  <1>6. QED
    BY <1>1, <1>2, <1>5 DEF StoreInv, Adding, Pruning, Opening, OpenOrInit

LEMMA ExitStep == StoreInv /\ Exit => StoreInv'
  <1> SUFFICES ASSUME StoreInv, Exit PROVE StoreInv'
    OBVIOUS
  <1>0. faults' \in Nat /\ misused' \in BOOLEAN
    BY Counters, FaultType DEF StoreInv, Exit
  <1>1. TypeOK'
    BY <1>0, NoCallIsCall, EmptySeq DEF StoreInv, TypeOK, Exit
  <1>2. View' = <<>> /\ Entries' = Entries
    BY DEF View, Entries, Exit
  <1>3. Core'
    BY <1>2, EmptySeq DEF StoreInv, Core, OneFileEach, AckedHaveFiles, WellFormed, Exit
  <1>4. QED
    BY <1>1, <1>3, NoCallIsCall DEF StoreInv, Adding, Pruning, Opening, Exit

-----------------------------------------------------------------------------
(* Add.                                                                    *)

LEMMA AddStep == ASSUME StoreInv, NEW id \in ConfigID, Add(id) PROVE StoreInv'
  <1> DEFINE name == uniqueName(id, adds + 1)
  <1>0. adds \in Nat /\ mem \in Seq(Entry) /\ View = mem /\ View' = mem /\ pc = "idle"
    BY DEF StoreInv, TypeOK, View, Add, Begin
  <1>1. /\ name \in Name /\ name.suffix \in {0, adds + 1}
        /\ name \in Names(mem) => name.suffix = adds + 1
    BY <1>0, NameIs DEF StoreInv
  <1> HIDE DEF name
  <1>2. call' \in Call /\ call'.op = "add" /\ call'.key = adds + 1 /\ call'.name = name
    <2>1. call' = [op |-> "add", name |-> name, key |-> adds + 1, at |-> 0, kept |-> <<>>]
      BY DEF Add, NoCall, name
    <2>2. adds + 1 \in Nat /\ <<>> \in Seq(Entry)
      BY <1>0, EmptySeq
    <2>3. QED
      BY <1>1, <2>1, <2>2 DEF Call
  <1>3. TypeOK'
    <2>0. adds' = adds + 1
      BY DEF Add
    <2>1. adds' \in Nat /\ misused' \in BOOLEAN
      BY <1>0, <2>0, BeginType DEF StoreInv, Add
    <2>2. QED
      BY <1>1, <1>2, <2>1 DEF StoreInv, TypeOK, Add
  <1>7. ASSUME NEW n \in DOMAIN files PROVE files[n] <= adds + 1 /\ files[n] # adds + 1
    <2>1. files[n] \in Nat /\ files[n] <= adds
      BY DEF StoreInv, Core, OneFileEach, TypeOK
    <2>2. QED
      BY <1>0, <2>1
  <1>4. Core'
    <2>1. WellFormed(mem, adds + 1) /\ WellFormed(Entries, adds + 1)
      BY <1>0, ViewType, WellFormedMore DEF StoreInv, Core
    <2>2. Entries' = Entries /\ adds' = adds + 1 /\ UNCHANGED <<files, acked>>
      BY DEF Entries, Add
    <2>3. QED
      BY <1>0, <1>7, <2>1, <2>2 DEF StoreInv, Core, OneFileEach, AckedHaveFiles
  <1>5. Adding'
    <2>1. ASSUME NEW i \in 1 .. Len(mem) PROVE mem[i].name # name /\ mem[i].key < adds + 1
      <3>1. /\ mem[i].key <= adds /\ mem[i].name.suffix <= mem[i].key
            /\ mem[i].key \in Nat /\ mem[i].name.suffix \in Nat
        BY <1>0, ElementOfSeq, EntryFields DEF StoreInv, Core, WellFormed
      <3>2. mem[i].name \in Names(mem)
        BY <1>0, LenProperties DEF Names
      <3>3. QED
        BY <1>0, <1>1, <3>1, <3>2
    <2>2. name.suffix <= adds + 1
      BY <1>0, <1>1
    <2>3. QED
      BY <1>0, <1>2, <1>7, <2>1, <2>2 DEF Adding, Add
  <1>6. QED
    BY <1>2, <1>3, <1>4, <1>5 DEF StoreInv, Pruning, Opening, Add

LEMMA AddWriteFileStep == StoreInv /\ AddWriteFile => StoreInv'
  <1> SUFFICES ASSUME StoreInv, AddWriteFile PROVE StoreInv'
    OBVIOUS
  <1> DEFINE e == [name |-> call.name, id |-> call.name.id, key |-> call.key,
                   state |-> "current", drop |-> 0]
  <1>0. /\ mem \in Seq(Entry) /\ View = mem /\ View' = mem' /\ pc = "file" /\ pc' = "meta"
        /\ call \in Call /\ call.op = "add" /\ call.name \in Name /\ adds \in Nat
        /\ call.key = adds /\ call' = call /\ Entries' = Entries /\ adds' = adds
    BY DEF StoreInv, TypeOK, Adding, View, Entries, AddWriteFile
  <1>1. e \in Entry /\ e.name = call.name /\ e.key = call.key /\ e.state = "current"
    BY <1>0 DEF Entry, Name, State
  <1>2. mem' = Append(Demoted, e)
    BY DEF AddWriteFile
  <1> HIDE DEF e
  <1>3. /\ Demoted \in Seq(Entry) /\ Len(Demoted) = Len(mem) /\ Len(mem) \in Nat
        /\ \A i \in 1 .. Len(mem) :
             /\ Demoted[i].key = mem[i].key /\ Demoted[i].name = mem[i].name
             /\ Demoted[i].state # "current"
    BY <1>0, DemotedIs, LenProperties
  <1>4. /\ mem' \in Seq(Entry) /\ Len(mem') = Len(mem) + 1
        /\ \A i \in 1 .. Len(mem) : mem'[i] = Demoted[i]
        /\ mem'[Len(mem) + 1] = e
    BY <1>1, <1>2, <1>3, AppendProperties
  <1>5. \A i \in 1 .. Len(mem) :
           /\ mem'[i].key = mem[i].key /\ mem'[i].name = mem[i].name
           /\ mem'[i].state # "current"
    BY <1>3, <1>4
  <1>6. /\ DOMAIN files' = DOMAIN files \cup {call.name}
        /\ files'[call.name] = adds
        /\ \A n \in DOMAIN files : n # call.name => files'[n] = files[n]
        /\ \A n \in DOMAIN files' : n # call.name => n \in DOMAIN files
    BY <1>0 DEF AddWriteFile
  <1>7. TypeOK'
    <2>1. DOMAIN files' \subseteq Name /\ \A n \in DOMAIN files' : files'[n] \in Nat
      BY <1>0, <1>6 DEF StoreInv, TypeOK
    <2>2. QED
      BY <1>0, <1>4, <2>1 DEF StoreInv, TypeOK, AddWriteFile
  <1>8. \A i \in 1 .. Len(mem) :
           /\ mem[i].name # call.name /\ mem[i].key < adds /\ mem[i].key \in Nat
           /\ mem[i].name.suffix <= mem[i].key
    BY <1>0, ElementOfSeq, EntryFields DEF StoreInv, Adding, Core, WellFormed
  <1>9. call.name.suffix <= adds
    BY <1>0 DEF StoreInv, Adding
  <1>10. WellFormed(mem', adds)
    <2>0. \A i \in 1 .. Len(mem') : i \in 1 .. Len(mem) \/ i = Len(mem')
      BY <1>3, <1>4
    <2>1. \A i, j \in 1 .. Len(mem') : i < j => mem'[i].key < mem'[j].key
      <3>1. \A i, j \in 1 .. Len(mem) : i < j => mem'[i].key < mem'[j].key
        BY <1>0, <1>5 DEF StoreInv, Core, WellFormed
      <3>2. \A i \in 1 .. Len(mem) : mem'[i].key < mem'[Len(mem')].key
        BY <1>0, <1>1, <1>3, <1>4, <1>5, <1>8
      <3>3. \A i, j \in 1 .. Len(mem') : i < j => i \in 1 .. Len(mem)
        BY <1>3, <1>4
      <3>4. QED
        BY <2>0, <3>1, <3>2, <3>3
    <2>2. \A i, j \in 1 .. Len(mem') : i # j => mem'[i].name # mem'[j].name
      <3>1. \A i, j \in 1 .. Len(mem) : i # j => mem'[i].name # mem'[j].name
        BY <1>0, <1>5 DEF StoreInv, Core, WellFormed
      <3>2. \A i \in 1 .. Len(mem) : mem'[i].name # mem'[Len(mem')].name
        BY <1>1, <1>4, <1>5, <1>8
      <3>3. QED
        BY <2>0, <3>1, <3>2
    <2>3. \A i \in 1 .. Len(mem') : mem'[i].state = "current" => i = Len(mem')
      BY <1>5, <2>0
    <2>4. \A i \in 1 .. Len(mem') : mem'[i].key <= adds /\ mem'[i].name.suffix <= mem'[i].key
      BY <1>0, <1>1, <1>4, <1>5, <1>8, <1>9, <2>0
    <2>5. QED
      BY <2>1, <2>2, <2>3, <2>4 DEF WellFormed
  <1>11. OneFileEach'
    <2>1. \A n \in DOMAIN files : files[n] # adds /\ files[n] <= adds
      BY <1>0 DEF StoreInv, Adding, Core, OneFileEach
    <2>2. QED
      BY <1>0, <1>6, <2>1 DEF StoreInv, Core, OneFileEach
  <1>12. ASSUME NEW key \in acked
         PROVE  HasFile(Entries, files', key) /\ HasFile(mem', files', key) /\ key # adds
    <2>1. HasFile(Entries, files, key) /\ HasFile(mem, files, key)
      BY <1>0 DEF StoreInv, Core, AckedHaveFiles
    <2>2. PICK i \in 1 .. Len(mem) :
             mem[i].key = key /\ mem[i].name \in DOMAIN files /\ files[mem[i].name] = key
      BY <2>1 DEF HasFile
    <2>3. PICK j \in 1 .. Len(Entries) :
             /\ Entries[j].key = key /\ Entries[j].name \in DOMAIN files
             /\ files[Entries[j].name] = key
      BY <2>1 DEF HasFile
    <2>4. Entries[j].name = mem[i].name
      BY <2>2, <2>3 DEF StoreInv, Core, OneFileEach
    <2>5. i \in 1 .. Len(mem')
      BY <1>3, <1>4
    <2>6. mem[i].name \in DOMAIN files' /\ files'[mem[i].name] = key /\ key # adds
      BY <1>0, <1>6, <1>8, <2>2 DEF StoreInv, Adding
    <2>7. QED
      BY <1>5, <2>2, <2>3, <2>4, <2>5, <2>6 DEF HasFile
  <1>13. Core'
    <2>1. acked' = acked
      BY DEF AddWriteFile
    <2>2. QED
      BY <1>0, <1>10, <1>11, <1>12, <2>1 DEF StoreInv, Core, AckedHaveFiles
  <1>14. Adding'
    <2>1. mem' # <<>> /\ mem'[Len(mem')].key = call.key /\ mem'[Len(mem')].name = call.name
      BY <1>1, <1>2, <1>3, <1>4, AppendProperties
    <2>2. QED
      BY <1>0, <1>6, <1>12, <2>1 DEF Adding, AddWriteFile
  <1>15. QED
    BY <1>0, <1>7, <1>13, <1>14 DEF StoreInv, Pruning, Opening

LEMMA AddWriteFailsStep == StoreInv /\ AddWriteFails => StoreInv'
  <1> SUFFICES ASSUME StoreInv, AddWriteFails PROVE StoreInv'
    OBVIOUS
  <1>0. faults' \in Nat
    BY FaultType DEF StoreInv, AddWriteFails
  <1>1. TypeOK'
    BY <1>0, NoCallIsCall DEF StoreInv, TypeOK, AddWriteFails, Return
  <1>2. Core'
    BY CoreFrame DEF StoreInv, View, AddWriteFails, Return
  <1>3. QED
    BY <1>1, <1>2, NoCallIsCall DEF StoreInv, Adding, Pruning, Opening, AddWriteFails, Return

-----------------------------------------------------------------------------
(* Writing the metadata.                                                   *)

LEMMA PersistStep == StoreInv /\ persistLocked => StoreInv'
  <1> SUFFICES ASSUME StoreInv, persistLocked PROVE StoreInv'
    OBVIOUS
  <1>0. /\ pc = "meta" /\ pc' = "idle" /\ mem \in Seq(Entry) /\ View = mem /\ View' = mem
        /\ Entries' = mem /\ call' = NoCall /\ call \in Call
    BY StoreAssumptions DEF StoreInv, TypeOK, View, Entries, persistLocked, Return
  <1>1. acked' = acked \cup (IF call.op = "add" THEN {call.key} ELSE {})
    BY DEF persistLocked
  <1>2. TypeOK'
    <2>1. acked' \subseteq Nat
      BY <1>0, <1>1 DEF StoreInv, TypeOK, Call
    <2>2. QED
      BY <1>0, <2>1, NoCallIsCall DEF StoreInv, TypeOK, persistLocked, Return
  <1>3. ASSUME NEW key \in acked' PROVE HasFile(mem, files, key)
    <2>1. CASE key \in acked
      BY <1>0, <2>1 DEF StoreInv, Core, AckedHaveFiles
    <2>2. CASE call.op = "add" /\ key = call.key
      <3>1. /\ mem # <<>> /\ mem[Len(mem)].key = call.key /\ mem[Len(mem)].name = call.name
            /\ call.name \in DOMAIN files /\ files[call.name] = call.key
        BY <1>0, <2>2 DEF StoreInv, Adding
      <3>2. Len(mem) \in 1 .. Len(mem)
        BY <1>0, <3>1, EmptySeq
      <3>3. QED
        BY <2>2, <3>1, <3>2 DEF HasFile
    <2>3. QED
      BY <1>1, <2>1, <2>2
  <1>4. Core'
    BY <1>0, <1>3 DEF StoreInv, Core, OneFileEach, AckedHaveFiles, persistLocked
  <1>5. QED
    BY <1>0, <1>2, <1>4, NoCallIsCall DEF StoreInv, Adding, Pruning, Opening

LEMMA PersistFailsStep == StoreInv /\ persistFails => StoreInv'
  <1> SUFFICES ASSUME StoreInv, persistFails PROVE StoreInv'
    OBVIOUS
  <1>0. /\ pc = "meta" /\ mem \in Seq(Entry) /\ View = mem /\ mem' = mem
        /\ UNCHANGED <<disk, now, adds, acked>> /\ call' = NoCall /\ pc' \in {"closed", "idle"}
        /\ Entries' = Entries /\ View' = View
    BY DEF StoreInv, TypeOK, View, Entries, persistFails, Return
  <1>1. files' = files \/ (call.op = "add" /\ files' = WithoutFiles({call.name}))
    BY DEF persistFails
  <1>2. TypeOK'
    <2>1. faults' \in Nat /\ misused' \in BOOLEAN
      BY Counters, FaultType DEF StoreInv, persistFails
    <2>2. DOMAIN files' \subseteq Name /\ \A n \in DOMAIN files' : files'[n] \in Nat
      BY <1>1 DEF StoreInv, TypeOK, WithoutFiles
    <2>3. last' \in {"ok", "not found", "error"}
      BY DEF StoreInv, TypeOK, persistFails, Return
    <2>4. QED
      BY <1>0, <2>1, <2>2, <2>3, NoCallIsCall DEF StoreInv, TypeOK
  <1>3. Core'
    <2>1. CASE files' = files
      BY <1>0, <2>1 DEF StoreInv, Core, OneFileEach, AckedHaveFiles
    <2>2. CASE call.op = "add" /\ files' = WithoutFiles({call.name})
      <3>1. files[call.name] = call.key /\ call.key \notin acked
        BY <1>0, <2>2 DEF StoreInv, Adding
      <3>2. ASSUME NEW s, NEW key \in acked, HasFile(s, files, key)
            PROVE  HasFile(s, files', key)
        BY <2>2, <3>1, <3>2 DEF HasFile, WithoutFiles
      <3>3. OneFileEach'
        BY <1>0, <2>2 DEF StoreInv, Core, OneFileEach, WithoutFiles
      <3>4. QED
        BY <1>0, <3>2, <3>3 DEF StoreInv, Core, AckedHaveFiles
    <2>3. QED
      BY <1>1, <2>1, <2>2
  <1>4. QED
    BY <1>0, <1>2, <1>3, NoCallIsCall DEF StoreInv, Adding, Pruning, Opening

-----------------------------------------------------------------------------
(* SetState and Delete.                                                    *)

LEMMA SetStateIs ==
    ASSUME NEW s \in Seq(Entry), NEW i \in 1 .. Len(s), NEW state \in {s[i].state, "grace"},
           NEW drop \in Nat
    PROVE  LET t == [s EXCEPT ![i] = WithState(s[i], state, drop)]
           IN  /\ t \in Seq(Entry) /\ Len(t) = Len(s)
               /\ \A j \in 1 .. Len(s) :
                    /\ t[j].key = s[j].key /\ t[j].name = s[j].name
                    /\ t[j].state \in {s[j].state, "grace"}
  <1> DEFINE w == WithState(s[i], state, drop)
             t == [s EXCEPT ![i] = w]
  <1>1. s[i] \in Entry
    BY ElementOfSeq
  <1>2. state \in State
    BY <1>1, EntryFields DEF State
  <1>3. w \in Entry /\ w.state = state /\ w.key = s[i].key /\ w.name = s[i].name
    BY <1>1, <1>2, WithStateFields
  <1> HIDE DEF w
  <1>4. /\ t \in Seq(Entry) /\ Len(t) = Len(s)
        /\ \A j \in 1 .. Len(s) : t[j] = IF j = i THEN w ELSE s[j]
    BY <1>3, ExceptSeq
  <1> HIDE DEF t
  <1>5. /\ t \in Seq(Entry) /\ Len(t) = Len(s)
        /\ \A j \in 1 .. Len(s) :
             /\ t[j].key = s[j].key /\ t[j].name = s[j].name
             /\ t[j].state \in {s[j].state, "grace"}
    BY <1>3, <1>4
  <1>6. QED
    BY <1>5 DEF t, w

LEMMA SetStateStep ==
    ASSUME StoreInv, NEW id \in ConfigID, NEW state \in State,
           SetState(id, state)
    PROVE  StoreInv'
  <1> DEFINE i == Lookup(id)
  <1>0. /\ pc = "idle" /\ mem \in Seq(Entry) /\ View = mem /\ now \in Nat
        /\ UNCHANGED <<files, disk, now, adds, faults, acked>>
    BY DEF StoreInv, TypeOK, View, SetState, Begin
  <1>1. misused' \in BOOLEAN
    BY BeginType DEF StoreInv, SetState
  <1>2. CASE i = 0
    <2>1. Return("not found") /\ mem' = mem
      BY <1>2 DEF SetState
    <2>2. TypeOK'
      BY <1>0, <1>1, <2>1, NoCallIsCall DEF StoreInv, TypeOK, Return
    <2>3. Core'
      BY <1>0, <2>1, CoreFrame DEF StoreInv, View, Return
    <2>4. QED
      BY <2>1, <2>2, <2>3, NoCallIsCall DEF StoreInv, Adding, Pruning, Opening, Return
  <1>3. CASE i # 0
    <2>1. i \in 1 .. Len(mem)
      BY <1>0, <1>3, LookupIsIndex
    <2> HIDE DEF i
    <2>2. /\ state \in {mem[i].state, "grace"}
          /\ mem' = [mem EXCEPT ![i] = WithState(@, state,
                        IF state = "grace" THEN now + GracePeriod ELSE mem[i].drop)]
          /\ pc' = "meta" /\ call' = [NoCall EXCEPT !.op = "set"] /\ UNCHANGED last
      BY <1>3 DEF SetState, i
    <2>3. /\ mem' \in Seq(Entry) /\ Len(mem') = Len(mem)
          /\ \A j \in 1 .. Len(mem) :
               /\ mem'[j].key = mem[j].key /\ mem'[j].name = mem[j].name
               /\ mem'[j].state \in {mem[j].state, "grace"}
      <3> DEFINE drop == IF state = "grace" THEN now + GracePeriod ELSE mem[i].drop
      <3>1. drop \in Nat
        BY <1>0, <2>1, StoreAssumptions, ElementOfSeq, EntryFields
      <3>2. mem' = [mem EXCEPT ![i] = WithState(mem[i], state, drop)]
        BY <2>2
      <3> HIDE DEF drop
      <3>3. QED
        BY <1>0, <2>1, <2>2, <3>1, <3>2, SetStateIs
    <2>4. call' \in Call /\ call'.op = "set"
      BY <2>2, NoCallIsCall DEF Call
    <2>5. TypeOK'
      BY <1>0, <1>1, <2>2, <2>3, <2>4 DEF StoreInv, TypeOK
    <2>6. WellFormed(mem', adds)
      BY <1>0, <2>3 DEF StoreInv, Core, WellFormed
    <2>7. ASSUME NEW key, HasFile(mem, files, key) PROVE HasFile(mem', files, key)
      BY <2>3, <2>7 DEF HasFile
    <2>8. Core'
      <3>1. View' = mem' /\ Entries' = Entries
        BY <1>0, <2>2 DEF View, Entries
      <3>2. QED
        BY <1>0, <2>2, <2>6, <2>7, <3>1 DEF StoreInv, Core, OneFileEach, AckedHaveFiles
    <2>9. QED
      BY <2>2, <2>4, <2>5, <2>8 DEF StoreInv, Adding, Pruning, Opening
  <1>4. QED
    BY <1>2, <1>3

LEMMA DeleteStep == ASSUME StoreInv, NEW id \in ConfigID, Delete(id) PROVE StoreInv'
  <1> DEFINE k == Lookup(id)
  <1>0. /\ pc = "idle" /\ pc' = "meta" /\ mem \in Seq(Entry) /\ View = mem /\ View' = mem'
        /\ Entries' = Entries /\ k \in 1 .. Len(mem)
    BY LookupIsIndex DEF StoreInv, TypeOK, View, Entries, Delete, Begin
  <1>1. /\ files' = WithoutFiles({mem[k].name}) /\ acked' = acked \ {mem[k].key}
        /\ mem' = RemoveAt(mem, k) /\ call' = [NoCall EXCEPT !.op = "delete"]
        /\ UNCHANGED <<disk, last, now, adds, faults>>
    BY DEF Delete
  <1> HIDE DEF k
  <1>2. files' = [n \in DOMAIN files \ {mem[k].name} |-> files[n]]
    BY <1>1 DEF WithoutFiles
  <1>3. Without(mem', mem, k) /\ mem' \in Seq(Entry)
    BY <1>0, <1>1, RemoveAtWithout DEF Without
  <1>4. call' \in Call /\ call'.op = "delete"
    BY <1>1, NoCallIsCall DEF Call
  <1>5. TypeOK'
    <2>1. misused' \in BOOLEAN
      BY BeginType DEF StoreInv, Delete
    <2>2. DOMAIN files' \subseteq Name /\ \A n \in DOMAIN files' : files'[n] \in Nat
      BY <1>2 DEF StoreInv, TypeOK
    <2>3. QED
      BY <1>0, <1>1, <1>3, <1>4, <2>1, <2>2 DEF StoreInv, TypeOK
  <1>6. Core'
    <2>1. WellFormed(mem, adds) /\ \A m, n \in DOMAIN files : files[m] = files[n] => m = n
      BY <1>0 DEF StoreInv, Core, OneFileEach
    <2>2. WellFormed(mem', adds)
      BY <1>0, <1>3, <2>1, WithoutWellFormed
    <2>3. ASSUME NEW key \in acked'
          PROVE  HasFile(Entries, files', key) /\ HasFile(mem', files', key)
      <3>1. /\ key # mem[k].key /\ HasFile(Entries, files, key) /\ HasFile(mem, files, key)
        BY <1>0, <1>1 DEF StoreInv, Core, AckedHaveFiles
      <3> DEFINE v == mem
                 t == mem'
                 f == files
                 g == files'
      <3>2. /\ v \in Seq(Entry) /\ WellFormed(v, adds) /\ k \in 1 .. Len(v)
            /\ \A m, n \in DOMAIN f : f[m] = f[n] => m = n
            /\ g = [n \in DOMAIN f \ {v[k].name} |-> f[n]]
            /\ key # v[k].key /\ HasFile(v, f, key)
            /\ Without(t, v, k) /\ HasFile(Entries, f, key)
        BY <1>0, <1>2, <1>3, <2>1, <3>1
      <3> HIDE DEF v, t, f, g
      <3>3. /\ \A s : HasFile(s, f, key) => HasFile(s, g, key)
            /\ HasFile(t, g, key)
        BY <3>2, RemovalKeeps, SMTT(30)
      <3>4. QED
        BY <3>2, <3>3 DEF t, f, g
    <2>4. OneFileEach'
      BY <1>1, <1>2 DEF StoreInv, Core, OneFileEach
    <2>5. QED
      BY <1>0, <1>1, <2>2, <2>3, <2>4 DEF StoreInv, Core, AckedHaveFiles
  <1>7. QED
    BY <1>0, <1>4, <1>5, <1>6 DEF StoreInv, Adding, Pruning, Opening

LEMMA DeleteFailsStep == ASSUME StoreInv, NEW id \in ConfigID, DeleteFails(id) PROVE StoreInv'
  <1>0. /\ pc = "idle" /\ pc' = "idle" /\ call' = NoCall /\ last' \in {"ok", "not found", "error"}
        /\ UNCHANGED <<files, disk, mem, now, adds, acked>>
    BY DEF DeleteFails, Begin, Return
  <1>1. faults' \in Nat /\ misused' \in BOOLEAN
    BY Counters, FaultType, BeginType DEF StoreInv, DeleteFails
  <1>2. TypeOK'
    BY <1>0, <1>1, NoCallIsCall DEF StoreInv, TypeOK
  <1>3. Core'
    BY <1>0, CoreFrame DEF StoreInv, View
  <1>4. QED
    BY <1>0, <1>2, <1>3, NoCallIsCall DEF StoreInv, Adding, Pruning, Opening

-----------------------------------------------------------------------------
(* PruneExpired.                                                           *)

LEMMA PruneExpiredStep == StoreInv /\ PruneExpired => StoreInv'
  <1> SUFFICES ASSUME StoreInv, PruneExpired PROVE StoreInv'
    OBVIOUS
  <1>0. /\ pc = "idle" /\ pc' = "prune" /\ mem \in Seq(Entry) /\ mem' = mem
        /\ UNCHANGED <<files, disk, last, now, adds, faults, acked>>
    BY DEF StoreInv, TypeOK, PruneExpired, Begin
  <1>1. call' = [op |-> "prune", name |-> <<>>, key |-> 0, at |-> 1, kept |-> <<>>]
    BY DEF PruneExpired, NoCall
  <1>2. call' \in Call /\ call'.op = "prune" /\ call'.at = 1 /\ call'.kept = <<>>
    BY <1>1, EmptySeq DEF Call
  <1>3. View' = View
    <2>1. View' = <<>> \o SubSeq(mem, 1, Len(mem)) /\ View = mem
      BY <1>0, <1>2 DEF View
    <2>2. QED
      BY <1>0, <2>1, ViewEnds DEF Rest
  <1>4. TypeOK'
    <2>1. misused' \in BOOLEAN
      BY BeginType DEF StoreInv, PruneExpired
    <2>2. QED
      BY <1>0, <1>2, <2>1 DEF StoreInv, TypeOK
  <1>5. Core'
    BY <1>0, <1>3, CoreFrame DEF StoreInv
  <1>6. Pruning'
    <2>1. Len(mem) \in Nat
      BY <1>0, LenProperties
    <2>2. 1 \in 1 .. Len(mem) + 1
      BY <2>1
    <2>3. WellFormed(mem, adds)
      BY DEF StoreInv, Core, View, PruneExpired, Begin
    <2>4. QED
      BY <1>0, <1>2, <2>2, <2>3 DEF Pruning
  <1>7. QED
    BY <1>0, <1>2, <1>4, <1>5, <1>6 DEF StoreInv, Adding, Opening

\* What a step of the pass does to the view.
LEMMA PruneStepView ==
    ASSUME StoreInv, pc = "prune", call.at <= Len(mem)
    PROVE  /\ mem \in Seq(Entry) /\ call \in Call /\ call.kept \in Seq(Entry)
           /\ call.at \in 1 .. Len(mem) /\ call.op = "prune"
           /\ Len(mem) \in Nat /\ call.at + 1 \in 1 .. Len(mem) + 1
           /\ View = call.kept \o Rest(mem, call.at)
           /\ View \in Seq(Entry)
  <1>1. /\ mem \in Seq(Entry) /\ call \in Call /\ call.kept \in Seq(Entry)
        /\ call.at \in 1 .. Len(mem) + 1 /\ call.op = "prune"
    BY DEF StoreInv, TypeOK, Call, Pruning
  <1>2. Len(mem) \in Nat
    BY <1>1, LenProperties
  <1>3. call.at \in 1 .. Len(mem) /\ call.at + 1 \in 1 .. Len(mem) + 1
    BY <1>1, <1>2
  <1>4. View = call.kept \o Rest(mem, call.at)
    BY DEF View, Rest
  <1>5. QED
    BY <1>1, <1>2, <1>3, <1>4, ViewType DEF StoreInv

LEMMA PruneStepStep == StoreInv /\ PruneStep => StoreInv'
  <1> SUFFICES ASSUME StoreInv, PruneStep PROVE StoreInv'
    OBVIOUS
  <1> DEFINE e == mem[call.at]
  <1>0. pc = "prune" /\ call.at <= Len(mem)
        /\ UNCHANGED <<disk, mem, pc, last, now, adds, faults, misused>>
    BY DEF PruneStep
  <1>1. /\ mem \in Seq(Entry) /\ call \in Call /\ call.kept \in Seq(Entry)
        /\ call.at \in 1 .. Len(mem) /\ call.op = "prune"
        /\ Len(mem) \in Nat /\ call.at + 1 \in 1 .. Len(mem) + 1
        /\ View = call.kept \o Rest(mem, call.at)
        /\ View \in Seq(Entry)
    BY <1>0, PruneStepView
  <1>2. e \in Entry /\ Entries' = Entries
    BY <1>0, <1>1, ElementOfSeq DEF Entries
  <1>3. CASE Expired(e)
    <2>1. /\ files' = WithoutFiles({e.name}) /\ acked' = acked \ {e.key}
          /\ call' = [call EXCEPT !.at = @ + 1]
      BY <1>3 DEF PruneStep
    <2>2. /\ call' \in Call /\ call'.at = call.at + 1 /\ call'.kept = call.kept
          /\ call'.op = "prune"
      <3>1. call.at + 1 \in Nat
        BY <1>1
      <3>2. QED
        BY <1>1, <2>1, <3>1 DEF Call
    <2>3. View' = call.kept \o Rest(mem, call.at + 1)
      BY <1>0, <2>2 DEF View, Rest
    <2>4. Without(View', View, Len(call.kept) + 1) /\ View[Len(call.kept) + 1] = e
      BY <1>1, <2>3, ViewPruned
    <2>5. Len(call.kept) + 1 \in 1 .. Len(View)
      BY <2>4 DEF Without
    <2>6. files' = [n \in DOMAIN files \ {View[Len(call.kept) + 1].name} |-> files[n]]
      BY <2>1, <2>4 DEF WithoutFiles
    <2>7. WellFormed(View, adds) /\ \A m, n \in DOMAIN files : files[m] = files[n] => m = n
      BY DEF StoreInv, Core, OneFileEach
    <2>8. WellFormed(View', adds)
      BY <1>1, <2>4, <2>7, WithoutWellFormed
    <2>9. ASSUME NEW key \in acked'
          PROVE  HasFile(Entries, files', key) /\ HasFile(View', files', key)
      <3>1. /\ key # View[Len(call.kept) + 1].key
            /\ HasFile(Entries, files, key) /\ HasFile(View, files, key)
        BY <1>0, <2>1, <2>4 DEF StoreInv, Core, AckedHaveFiles
      <3> DEFINE v == View
                 t == View'
                 f == files
                 g == files'
                 k == Len(call.kept) + 1
      <3>2. /\ v \in Seq(Entry) /\ WellFormed(v, adds) /\ k \in 1 .. Len(v)
            /\ \A m, n \in DOMAIN f : f[m] = f[n] => m = n
            /\ g = [n \in DOMAIN f \ {v[k].name} |-> f[n]]
            /\ key # v[k].key /\ HasFile(v, f, key)
            /\ Without(t, v, k) /\ HasFile(Entries, f, key)
        BY <1>1, <2>4, <2>5, <2>6, <2>7, <3>1
      <3> HIDE DEF v, t, f, g, k
      <3>3. /\ \A s : HasFile(s, f, key) => HasFile(s, g, key)
            /\ HasFile(t, g, key)
        BY <3>2, RemovalKeeps, SMTT(30)
      <3>4. QED
        BY <3>2, <3>3 DEF t, f, g
    <2>10. OneFileEach'
      BY <1>0, <2>6 DEF StoreInv, Core, OneFileEach
    <2>11. Core'
      BY <1>0, <1>2, <2>8, <2>9, <2>10 DEF StoreInv, Core, AckedHaveFiles
    <2>12. TypeOK'
      <3>1. DOMAIN files' \subseteq Name /\ \A n \in DOMAIN files' : files'[n] \in Nat
        BY <2>6 DEF StoreInv, TypeOK
      <3>2. QED
        BY <1>0, <2>1, <2>2, <3>1 DEF StoreInv, TypeOK
    <2>13. QED
      BY <1>0, <1>1, <2>2, <2>11, <2>12 DEF StoreInv, Adding, Pruning, Opening
  <1>4. CASE ~Expired(e)
    <2>1. /\ UNCHANGED <<files, acked>>
          /\ call' = [call EXCEPT !.at = @ + 1, !.kept = Append(@, e)]
      BY <1>4 DEF PruneStep
    <2>2. Append(call.kept, e) \in Seq(Entry)
      BY <1>1, <1>2, AppendProperties
    <2>3. /\ call' \in Call /\ call'.at = call.at + 1 /\ call'.kept = Append(call.kept, e)
          /\ call'.op = "prune"
      <3>1. call.at + 1 \in Nat
        BY <1>1
      <3>2. QED
        BY <1>1, <2>1, <2>2, <3>1 DEF Call
    <2>4. View' = Append(call.kept, e) \o Rest(mem, call.at + 1)
      BY <1>0, <2>3 DEF View, Rest
    <2>5. View' = View
      BY <1>1, <2>4, ViewKept
    <2>6. Core'
      BY <1>0, <2>1, <2>5, CoreFrame DEF StoreInv
    <2>7. TypeOK'
      BY <1>0, <2>1, <2>3 DEF StoreInv, TypeOK
    <2>8. QED
      BY <1>0, <1>1, <2>3, <2>6, <2>7 DEF StoreInv, Adding, Pruning, Opening
  <1>5. QED
    BY <1>3, <1>4

LEMMA PruneFailsStep == StoreInv /\ PruneFails => StoreInv'
  <1> SUFFICES ASSUME StoreInv, PruneFails PROVE StoreInv'
    OBVIOUS
  <1>0. /\ pc = "prune" /\ call.at <= Len(mem) /\ pc' = "idle" /\ call' = NoCall
        /\ last' = "error" /\ mem' = call.kept \o SubSeq(mem, call.at, Len(mem))
        /\ UNCHANGED <<files, disk, now, adds, acked, misused>>
    BY DEF PruneFails, Return
  <1>1. View' = View /\ mem' = View
    BY <1>0 DEF View
  <1>2. View \in Seq(Entry)
    BY ViewType DEF StoreInv
  <1>3. TypeOK'
    <2>1. faults' \in Nat
      BY FaultType DEF StoreInv, PruneFails
    <2>2. QED
      BY <1>0, <1>1, <1>2, <2>1, NoCallIsCall DEF StoreInv, TypeOK
  <1>4. Core'
    BY <1>0, <1>1, CoreFrame DEF StoreInv
  <1>5. QED
    BY <1>0, <1>3, <1>4, NoCallIsCall DEF StoreInv, Adding, Pruning, Opening

LEMMA PruneDoneStep == StoreInv /\ PruneDone => StoreInv'
  <1> SUFFICES ASSUME StoreInv, PruneDone PROVE StoreInv'
    OBVIOUS
  <1>0. /\ pc = "prune" /\ call.at > Len(mem) /\ mem' = call.kept
        /\ UNCHANGED <<files, disk, now, adds, faults, acked, misused>>
        /\ \/ pc' = "idle" /\ call' = NoCall /\ last' = "ok"
           \/ pc' = "meta" /\ call' = call /\ last' = last
    BY DEF PruneDone, Return
  <1>1. /\ mem \in Seq(Entry) /\ call \in Call /\ call.kept \in Seq(Entry)
        /\ call.at \in 1 .. Len(mem) + 1 /\ call.op = "prune"
    BY <1>0 DEF StoreInv, TypeOK, Call, Pruning
  <1>2. call.kept = View
    <2>1. Len(mem) \in Nat
      BY <1>1, LenProperties
    <2>2. SubSeq(mem, call.at, Len(mem)) = <<>>
      BY <1>0, <1>1, <2>1, SubSeqEmpty
    <2>3. View = call.kept \o <<>>
      BY <1>0, <2>2 DEF View
    <2>4. QED
      BY <1>1, <2>3, ConcatEmptySeq
  <1>3. View' = View
    BY <1>0, <1>2 DEF View
  <1>4. TypeOK'
    BY <1>0, <1>1, NoCallIsCall DEF StoreInv, TypeOK
  <1>5. Core'
    BY <1>0, <1>3, CoreFrame DEF StoreInv
  <1>6. QED
    BY <1>0, <1>1, <1>4, <1>5, NoCallIsCall DEF StoreInv, Adding, Pruning, Opening

-----------------------------------------------------------------------------
(* A handle that is dropped on the first error.                            *)

LEMMA RemovalKeepsLive ==
    ASSUME NEW v \in Seq(Entry), NEW most, WellFormed(v, most), NEW k \in 1 .. Len(v),
           NEW f, LiveHaveFiles(v, f),
           NEW g, g = [n \in DOMAIN f \ {v[k].name} |-> f[n]]
    PROVE  /\ v[k].state \notin Live => LiveHaveFiles(v, g)
           /\ \A t : Without(t, v, k) => LiveHaveFiles(t, g)
  <1>1. \A i \in 1 .. Len(v) : i # k => v[i].name # v[k].name
    BY DEF WellFormed
  <1>2. \A i \in 1 .. Len(v) : i # k /\ v[i].state \in Live => v[i].name \in DOMAIN g
    BY <1>1 DEF LiveHaveFiles
  <1>3. ASSUME NEW t, Without(t, v, k) PROVE LiveHaveFiles(t, g)
    <2>1. \A j \in 1 .. Len(t) : \E i \in 1 .. Len(v) : i # k /\ t[j] = v[i]
      <3>1. Len(v) \in Nat /\ k \in 1 .. Len(v) /\ Len(t) = Len(v) - 1
        BY <1>3, LenProperties DEF Without
      <3>2. ASSUME NEW j \in 1 .. Len(t) PROVE \E i \in 1 .. Len(v) : i # k /\ t[j] = v[i]
        <4>1. CASE j < k
          <5>1. j \in 1 .. Len(v) /\ j # k /\ t[j] = v[j]
            BY <1>3, <3>1, <4>1 DEF Without
          <5>2. QED
            BY <5>1
        <4>2. CASE j >= k
          <5>1. j + 1 \in 1 .. Len(v) /\ j + 1 # k /\ t[j] = v[j + 1]
            BY <1>3, <3>1, <4>2 DEF Without
          <5>2. QED
            BY <5>1
        <4>3. QED
          BY <3>1, <4>1, <4>2
      <3>3. QED
        BY <3>2
    <2>2. QED
      BY <1>2, <2>1 DEF LiveHaveFiles
  <1>4. QED
    BY <1>2, <1>3 DEF LiveHaveFiles

\* A call that begins on a handle in use finds the memory equal to the disk.
LEMMA BeginCareful ==
    ASSUME StoreInv, CarefulInv, Begin, ~misused'
    PROVE  /\ ~misused /\ pc = "idle" /\ last # "error" /\ mem = disk /\ View = mem
           /\ LiveHaveFiles(mem, files) /\ Entries = mem /\ mem \in Seq(Entry)
  <1>1. ~misused /\ pc = "idle" /\ last # "error"
    BY DEF Begin
  <1>2. View = mem /\ mem = disk /\ LiveHaveFiles(mem, files)
    BY <1>1 DEF CarefulInv, Dropped, View
  <1>3. mem \in Seq(Entry)
    BY DEF StoreInv, TypeOK
  <1>4. QED
    BY <1>1, <1>2, <1>3, StoreAssumptions DEF Entries

LEMMA CarefulOpening ==
    ASSUME StoreInv, CarefulInv, Open \/ OpenOrInit \/ Exit \/ Tick
    PROVE  CarefulInv'
  <1>1. CASE Open
    <2>1. View' = Entries /\ Entries' = Entries /\ mem' = disk
      BY <1>1 DEF View, Entries, Open, Return
    <2>2. QED
      BY <1>1, <2>1 DEF CarefulInv, Open, Return
  <1>2. CASE OpenOrInit
    <2>1. /\ View' = <<>> /\ Entries' = <<>> /\ Len(<<>>) = 0
          /\ pc' = "meta" /\ call'.op = "init"
      BY <1>2, NoCallIsCall, EmptySeq DEF View, Entries, OpenOrInit, Call
    <2>2. QED
      BY <2>1 DEF CarefulInv, LiveHaveFiles
  <1>3. CASE Exit
    <2>1. Entries' = Entries /\ pc' = "closed" /\ files' = files
      BY <1>3 DEF Entries, Exit
    <2>2. ~misused' => ~misused /\ ~(pc = "meta" /\ call.op = "delete")
      <3>1. \/ pc = "idle" /\ misused' = misused
            \/ misused' = (misused \/ call.op = "delete")
        BY <1>3 DEF Exit
      <3>2. QED
        BY <3>1
    <2>3. QED
      BY <2>1, <2>2 DEF CarefulInv, Dropped
  <1>4. CASE Tick
    BY <1>4 DEF CarefulInv, Dropped, View, Entries, Tick
  <1>5. QED
    BY <1>1, <1>2, <1>3, <1>4

LEMMA CarefulAdd ==
    ASSUME StoreInv, CarefulInv,
           (\E id \in ConfigID : Add(id)) \/ AddWriteFile \/ AddWriteFails
    PROVE  CarefulInv'
  <1>1. CASE \E id \in ConfigID : Add(id)
    <2>1. /\ Begin /\ pc' = "file" /\ UNCHANGED <<files, disk, mem>>
          /\ View' = mem /\ Entries' = Entries
      BY <1>1 DEF Add, View, Entries
    <2>2. QED
      BY <2>1, BeginCareful DEF CarefulInv
  <1>2. CASE AddWriteFile
    <2> SUFFICES ASSUME ~misused' PROVE CarefulInv'
      BY DEF CarefulInv
    <2>1. /\ ~misused /\ pc = "file" /\ pc' = "meta" /\ call.op = "add" /\ call' = call
          /\ View = mem /\ View' = mem' /\ Entries' = Entries
      BY <1>2 DEF AddWriteFile, View, Entries, StoreInv, Adding
    <2>2. mem = disk /\ LiveHaveFiles(mem, files) /\ mem \in Seq(Entry)
      BY <2>1 DEF CarefulInv, Dropped, StoreInv, TypeOK
    <2>3. Entries = mem
      BY <2>2, StoreAssumptions DEF Entries
    <2>4. \A i \in 1 .. Len(mem) : mem[i].name # call.name
      BY <2>1 DEF StoreInv, Adding
    <2>5. \A n : n \in DOMAIN files \/ n = call.name => n \in DOMAIN files'
      BY <1>2 DEF AddWriteFile
    <2>6. LiveHaveFiles(Entries', files')
      BY <2>1, <2>2, <2>3, <2>5 DEF LiveHaveFiles
    <2>7. LiveHaveFiles(mem', files')
      <3> DEFINE e == [name |-> call.name, id |-> call.name.id, key |-> call.key,
                       state |-> "current", drop |-> 0]
      <3>1. e \in Entry /\ e.name = call.name
        BY <2>1 DEF StoreInv, TypeOK, Call, Entry, Name, State
      <3>2. mem' = Append(Demoted, e)
        BY <1>2 DEF AddWriteFile
      <3> HIDE DEF e
      <3>3. /\ Demoted \in Seq(Entry) /\ Len(Demoted) = Len(mem) /\ Len(mem) \in Nat
            /\ \A i \in 1 .. Len(mem) :
                 Demoted[i].name = mem[i].name /\ (Demoted[i].state \in Live => mem[i].state \in Live)
        BY <2>2, DemotedIs, LenProperties
      <3>4. /\ Len(mem') = Len(mem) + 1
            /\ \A i \in 1 .. Len(mem) : mem'[i] = Demoted[i]
            /\ mem'[Len(mem) + 1] = e
        BY <3>1, <3>2, <3>3, AppendProperties
      <3>5. \A i \in 1 .. Len(mem') : i \in 1 .. Len(mem) \/ i = Len(mem) + 1
        BY <3>3, <3>4
      <3>6. QED
        BY <2>2, <2>5, <3>1, <3>3, <3>4, <3>5 DEF LiveHaveFiles
    <2>8. QED
      BY <2>1, <2>3, <2>4, <2>6, <2>7 DEF CarefulInv
  <1>3. CASE AddWriteFails
    <2>1. /\ Entries' = Entries /\ files' = files /\ pc = "file" /\ misused' = misused
          /\ pc' = "idle" /\ last' = "error"
      BY <1>3 DEF Entries, AddWriteFails, Return
    <2>2. QED
      BY <2>1 DEF CarefulInv, Dropped
  <1>4. QED
    BY <1>1, <1>2, <1>3

LEMMA CarefulPersist ==
    ASSUME StoreInv, CarefulInv, persistLocked \/ persistFails
    PROVE  CarefulInv'
  <1> SUFFICES ASSUME ~misused' PROVE CarefulInv'
    BY DEF CarefulInv
  <1>0. pc = "meta" /\ ~misused /\ View = mem /\ mem \in Seq(Entry)
    BY DEF persistLocked, persistFails, View, StoreInv, TypeOK
  <1>1. CASE persistLocked
    <2>1. /\ Entries' = mem /\ View' = mem /\ mem' = mem /\ disk' = mem /\ files' = files
          /\ pc' = "idle"
      BY <1>0, <1>1, StoreAssumptions DEF Entries, View, persistLocked, Return
    <2>2. LiveHaveFiles(mem, files)
      BY <1>0 DEF CarefulInv, Dropped
    <2>3. QED
      BY <2>1, <2>2 DEF CarefulInv
  <1>2. CASE persistFails
    <2>1. /\ Entries' = Entries /\ call.op # "delete"
          /\ pc' = "closed" \/ (pc' = "idle" /\ last' = "error")
          /\ files' = files \/ (call.op = "add" /\ files' = WithoutFiles({call.name}))
      BY <1>2 DEF Entries, persistFails, Return
    <2>2. LiveHaveFiles(Entries, files)
      BY <1>0, <2>1 DEF CarefulInv
    <2>3. call.op = "add" => \A i \in 1 .. Len(Entries) : Entries[i].name # call.name
      BY <1>0 DEF CarefulInv
    <2>4. LiveHaveFiles(Entries, files')
      BY <2>1, <2>2, <2>3 DEF LiveHaveFiles, WithoutFiles
    <2>5. QED
      BY <2>1, <2>4 DEF CarefulInv, Dropped
  <1>3. QED
    BY <1>1, <1>2

LEMMA CarefulSetState ==
    ASSUME StoreInv, CarefulInv, NEW id \in ConfigID, NEW state \in State, SetState(id, state)
    PROVE  CarefulInv'
  <1> SUFFICES ASSUME ~misused' PROVE CarefulInv'
    BY DEF CarefulInv
  <1> DEFINE i == Lookup(id)
  <1>0. /\ pc = "idle" /\ last # "error" /\ mem = disk /\ Entries = mem /\ mem \in Seq(Entry)
        /\ LiveHaveFiles(mem, files) /\ Entries' = Entries
        /\ UNCHANGED <<files, disk, now>>
    BY BeginCareful DEF SetState, Entries
  <1>1. CASE i = 0
    <2>1. mem' = mem /\ pc' = "idle" /\ View' = mem
      BY <1>1 DEF SetState, Return, View
    <2>2. QED
      BY <1>0, <2>1 DEF CarefulInv
  <1>2. CASE i # 0
    <2>1. i \in 1 .. Len(mem)
      BY <1>0, <1>2, LookupIsIndex
    <2> HIDE DEF i
    <2>2. /\ state \in {mem[i].state, "grace"}
          /\ mem' = [mem EXCEPT ![i] = WithState(@, state,
                        IF state = "grace" THEN now + GracePeriod ELSE mem[i].drop)]
          /\ pc' = "meta" /\ call' = [NoCall EXCEPT !.op = "set"]
      BY <1>2 DEF SetState, i
    <2>3. /\ Len(mem') = Len(mem)
          /\ \A j \in 1 .. Len(mem) :
               mem'[j].name = mem[j].name /\ mem'[j].state \in {mem[j].state, "grace"}
      <3> DEFINE drop == IF state = "grace" THEN now + GracePeriod ELSE mem[i].drop
      <3>0. now \in Nat /\ mem[i].drop \in Nat
        BY <1>0, <2>1, Counters, ElementOfSeq, EntryFields DEF StoreInv
      <3>1. drop \in Nat
        BY <3>0, StoreAssumptions
      <3>2. mem' = [mem EXCEPT ![i] = WithState(mem[i], state, drop)]
        BY <2>2
      <3> HIDE DEF drop
      <3>3. QED
        BY <1>0, <2>1, <2>2, <3>1, <3>2, SetStateIs
    <2>4. LiveHaveFiles(mem', files)
      BY <1>0, <2>3 DEF LiveHaveFiles, Live
    <2>5. call'.op = "set" /\ View' = mem'
      BY <2>2, NoCallIsCall DEF Call, View
    <2>6. QED
      BY <1>0, <2>2, <2>4, <2>5 DEF CarefulInv
  <1>3. QED
    BY <1>1, <1>2

LEMMA CarefulDelete ==
    ASSUME StoreInv, CarefulInv, NEW id \in ConfigID, Delete(id) \/ DeleteFails(id)
    PROVE  CarefulInv'
  <1> SUFFICES ASSUME ~misused' PROVE CarefulInv'
    BY DEF CarefulInv
  <1>0. /\ pc = "idle" /\ last # "error" /\ mem = disk /\ Entries = mem /\ mem \in Seq(Entry)
        /\ LiveHaveFiles(mem, files) /\ Entries' = Entries /\ View = mem
    BY BeginCareful DEF Delete, DeleteFails, Entries
  <1>1. CASE Delete(id)
    <2> DEFINE k == Lookup(id)
    <2>1. k \in 1 .. Len(mem)
      BY <1>0, <1>1, LookupIsIndex DEF Delete
    <2>2. /\ files' = [n \in DOMAIN files \ {mem[k].name} |-> files[n]]
          /\ mem' = RemoveAt(mem, k) /\ pc' = "meta" /\ call' = [NoCall EXCEPT !.op = "delete"]
      BY <1>1 DEF Delete, WithoutFiles
    <2> HIDE DEF k
    <2>3. WellFormed(mem, adds)
      BY <1>0 DEF StoreInv, Core
    <2>4. LiveHaveFiles(mem', files')
      BY <1>0, <2>1, <2>2, <2>3, RemoveAtWithout, RemovalKeepsLive
    <2>5. call'.op = "delete" /\ View' = mem'
      BY <2>2, NoCallIsCall DEF Call, View
    <2>6. QED
      BY <2>2, <2>4, <2>5 DEF CarefulInv
  <1>2. CASE DeleteFails(id)
    <2>1. mem' = mem /\ disk' = disk /\ files' = files /\ pc' = "idle" /\ View' = mem
      BY <1>2 DEF DeleteFails, Return, View
    <2>2. QED
      BY <1>0, <2>1 DEF CarefulInv
  <1>3. QED
    BY <1>1, <1>2
LEMMA CarefulPrune ==
    ASSUME StoreInv, CarefulInv, PruneExpired \/ PruneStep \/ PruneFails \/ PruneDone
    PROVE  CarefulInv'
  <1> SUFFICES ASSUME ~misused' PROVE CarefulInv'
    BY DEF CarefulInv
  <1>1. CASE PruneExpired
    <2>1. /\ mem = disk /\ Entries = mem /\ mem \in Seq(Entry)
          /\ LiveHaveFiles(mem, files) /\ Entries' = Entries
          /\ UNCHANGED <<files, disk, mem>> /\ pc' = "prune"
      BY <1>1, BeginCareful DEF PruneExpired, Entries
    <2>2. call'.at = 1 /\ call'.kept = <<>>
      BY <1>1 DEF PruneExpired, NoCall
    <2>3. View' = <<>> \o Rest(mem, 1)
      BY <2>1, <2>2 DEF View, Rest
    <2>4. View' = mem
      BY <2>1, <2>3, ViewEnds
    <2>5. QED
      BY <2>1, <2>4 DEF CarefulInv
  <1>2. CASE PruneStep
    <2>0. /\ pc = "prune" /\ pc' = "prune" /\ call.at <= Len(mem) /\ ~misused
          /\ Entries' = Entries /\ UNCHANGED <<disk, mem>>
      BY <1>2 DEF PruneStep, Entries
    <2>1. /\ mem \in Seq(Entry) /\ call \in Call /\ call.kept \in Seq(Entry)
          /\ call.at \in 1 .. Len(mem) /\ View = call.kept \o Rest(mem, call.at)
          /\ View \in Seq(Entry)
      BY <2>0, PruneStepView
    <2>2. mem = disk /\ LiveHaveFiles(View, files) /\ LiveHaveFiles(Entries, files)
      BY <2>0 DEF CarefulInv, Dropped
    <2>3. Entries = mem
      BY <2>1, <2>2, StoreAssumptions DEF Entries
    <2>4. WellFormed(mem, adds) /\ WellFormed(View, adds)
      BY <2>0 DEF StoreInv, Core, Pruning
    <2>5. CASE Expired(mem[call.at])
      <3>1. /\ files' = [n \in DOMAIN files \ {mem[call.at].name} |-> files[n]]
            /\ call' = [call EXCEPT !.at = @ + 1] /\ mem[call.at].state \notin Live
        BY <1>2, <2>5 DEF PruneStep, WithoutFiles, Expired, Live
      <3>2. View' = call.kept \o Rest(mem, call.at + 1)
        <4>1. call'.at = call.at + 1 /\ call'.kept = call.kept
          BY <2>1, <3>1 DEF Call
        <4>2. QED
          BY <2>0, <4>1 DEF View, Rest
      <3>3. LiveHaveFiles(mem, files')
        BY <2>1, <2>2, <2>3, <2>4, <3>1, RemovalKeepsLive
      <3>4. LiveHaveFiles(View', files')
        <4> DEFINE v == View
                   t == View'
                   f == files
                   g == files'
                   k == Len(call.kept) + 1
        <4>1. Without(t, v, k) /\ v[k] = mem[call.at]
          BY <2>1, <3>2, ViewPruned
        <4>2. /\ v \in Seq(Entry) /\ WellFormed(v, adds) /\ k \in 1 .. Len(v)
              /\ LiveHaveFiles(v, f) /\ g = [n \in DOMAIN f \ {v[k].name} |-> f[n]]
          BY <2>1, <2>2, <2>4, <3>1, <4>1 DEF Without
        <4> HIDE DEF v, t, f, g, k
        <4>3. LiveHaveFiles(t, g)
          BY <4>1, <4>2, RemovalKeepsLive
        <4>4. QED
          BY <4>3 DEF t, g
      <3>5. QED
        BY <2>0, <2>2, <2>3, <3>3, <3>4 DEF CarefulInv
    <2>6. CASE ~Expired(mem[call.at])
      <3>1. /\ files' = files
            /\ call' = [call EXCEPT !.at = @ + 1, !.kept = Append(@, mem[call.at])]
        BY <1>2, <2>6 DEF PruneStep
      <3>2. call'.at = call.at + 1 /\ call'.kept = Append(call.kept, mem[call.at])
        BY <2>1, <3>1 DEF Call
      <3>3. View' = Append(call.kept, mem[call.at]) \o Rest(mem, call.at + 1)
        BY <2>0, <3>2 DEF View, Rest
      <3>4. View' = View
        BY <2>1, <3>3, ViewKept
      <3>5. QED
        BY <2>0, <2>2, <3>1, <3>4 DEF CarefulInv
    <2>7. QED
      BY <2>5, <2>6
  <1>3. CASE PruneFails
    <2>1. /\ Entries' = Entries /\ files' = files /\ pc = "prune" /\ ~misused
          /\ pc' = "idle" /\ last' = "error"
      BY <1>3 DEF Entries, PruneFails, Return
    <2>2. QED
      BY <2>1 DEF CarefulInv, Dropped
  <1>4. CASE PruneDone
    <2>1. /\ Entries' = Entries /\ files' = files /\ disk' = disk /\ pc = "prune" /\ ~misused
          /\ call.at > Len(mem) /\ mem' = call.kept
          /\ \/ pc' = "idle" /\ mem' = mem
             \/ pc' = "meta" /\ call' = call
      BY <1>4 DEF Entries, PruneDone, Return
    <2>2. mem \in Seq(Entry) /\ call.kept \in Seq(Entry) /\ call.at \in 1 .. Len(mem) + 1
          /\ call.op = "prune"
      BY <2>1 DEF StoreInv, TypeOK, Call, Pruning
    <2>3. View = call.kept
      <3>1. Len(mem) \in Nat
        BY <2>2, LenProperties
      <3>2. SubSeq(mem, call.at, Len(mem)) = <<>>
        BY <2>1, <2>2, <3>1, SubSeqEmpty
      <3>3. View = call.kept \o <<>>
        BY <2>1, <3>2 DEF View
      <3>4. QED
        BY <2>2, <3>3, ConcatEmptySeq
    <2>4. View' = View
      BY <2>1, <2>3 DEF View
    <2>5. LiveHaveFiles(View, files) /\ LiveHaveFiles(Entries, files) /\ mem = disk
      BY <2>1 DEF CarefulInv, Dropped
    <2>6. QED
      BY <2>1, <2>2, <2>4, <2>5 DEF CarefulInv
  <1>5. QED
    BY <1>1, <1>2, <1>3, <1>4

-----------------------------------------------------------------------------
(* The theorems.                                                           *)

LEMMA InitStore == Init => StoreInv
  <1> SUFFICES ASSUME Init PROVE StoreInv
    OBVIOUS
  <1>1. View = <<>> /\ Entries = <<>> /\ call = NoCall
    BY DEF Init, View, Entries
  <1>2. TypeOK
    <2>1. <<>> \in Seq(Entry)
      BY EmptySeq
    <2>2. DOMAIN files = {}
      BY DEF Init
    <2>3. QED
      BY <2>1, <2>2, NoCallIsCall DEF Init, TypeOK
  <1>3. Core
    BY <1>1, EmptySeq DEF Core, Init, WellFormed, OneFileEach, AckedHaveFiles
  <1>4. QED
    BY <1>1, <1>2, <1>3, NoCallIsCall DEF StoreInv, Init, Adding, Pruning, Opening

LEMMA StoreStep == StoreInv /\ [Next]_vars => StoreInv'
  <1> SUFFICES ASSUME StoreInv, [Next]_vars PROVE StoreInv'
    OBVIOUS
  <1>1. CASE UNCHANGED vars
    BY <1>1 DEF vars, StoreInv, TypeOK, Core, OneFileEach, AckedHaveFiles, Adding, Pruning,
                Opening, View, Entries
  <1>2. CASE Open \/ OpenOrInit \/ Exit
    BY <1>2, OpenStep, OpenOrInitStep, ExitStep
  <1>3. CASE \E id \in ConfigID :
                \/ Add(id) \/ Delete(id) \/ DeleteFails(id)
                \/ \E state \in State : SetState(id, state)
    BY <1>3, AddStep, DeleteStep, DeleteFailsStep, SetStateStep
  <1>4. CASE AddWriteFile \/ AddWriteFails \/ persistLocked \/ persistFails
    BY <1>4, AddWriteFileStep, AddWriteFailsStep, PersistStep, PersistFailsStep
  <1>5. CASE PruneExpired \/ PruneStep \/ PruneFails \/ PruneDone \/ Tick
    BY <1>5, PruneExpiredStep, PruneStepStep, PruneFailsStep, PruneDoneStep, TickStep
  <1>6. QED
    BY <1>1, <1>2, <1>3, <1>4, <1>5 DEF Next

LEMMA CarefulStep == StoreInv /\ CarefulInv /\ [Next]_vars => CarefulInv'
  <1> SUFFICES ASSUME StoreInv, CarefulInv, [Next]_vars PROVE CarefulInv'
    OBVIOUS
  <1>1. CASE UNCHANGED vars
    BY <1>1 DEF vars, CarefulInv, Dropped, View, Entries
  <1>2. CASE Open \/ OpenOrInit \/ Exit \/ Tick
    BY <1>2, CarefulOpening
  <1>3. CASE \E id \in ConfigID :
                \/ Add(id) \/ Delete(id) \/ DeleteFails(id)
                \/ \E state \in State : SetState(id, state)
    BY <1>3, CarefulAdd, CarefulDelete, CarefulSetState
  <1>4. CASE AddWriteFile \/ AddWriteFails \/ persistLocked \/ persistFails
    BY <1>4, CarefulAdd, CarefulPersist
  <1>5. CASE PruneExpired \/ PruneStep \/ PruneFails \/ PruneDone
    BY <1>5, CarefulPrune
  <1>6. QED
    BY <1>1, <1>2, <1>3, <1>4, <1>5 DEF Next

LEMMA StoreAlways == Spec => [](StoreInv /\ CarefulInv)
  <1>1. Init => CarefulInv
    <2>1. ASSUME Init PROVE Entries = <<>> /\ pc = "closed" /\ Len(<<>>) = 0
      BY <2>1, EmptySeq DEF Init, Entries
    <2>2. QED
      BY <2>1 DEF CarefulInv, Dropped, LiveHaveFiles
  <1>2. QED
    BY <1>1, InitStore, StoreStep, CarefulStep, PTL DEF Spec

-----------------------------------------------------------------------------
(* Files without an entry.  Every one of them that an Add has not just     *)
(* written is paid for by a fault: a call that succeeds writes entries for *)
(* all the files whose entries were on disk before (NamesKept), and so     *)
(* only a step that fails can leave one more behind.                       *)

NamesKept == pc # "closed" => Names(Entries) \cap DOMAIN files \subseteq Names(View)

Paid == pc = "meta" /\ call.op = "add"
Unpaid == DOMAIN files \ (Names(Entries) \cup IF Paid THEN {call.name} ELSE {})

OrphanInv ==
    /\ NamesKept
    /\ IsFiniteSet(DOMAIN files)
    /\ Cardinality(Unpaid) <= faults

\* What a step may do to the files without an entry.
Pays ==
    \/ faults' = faults /\ Unpaid' \subseteq Unpaid
    \/ faults' = faults + 1 /\ \E n : Unpaid' \subseteq Unpaid \cup {n}

LEMMA NamesAre ==
    ASSUME NEW s \in Seq(Entry)
    PROVE  Names(s) = {s[i].name : i \in 1 .. Len(s)}
  BY LenProperties DEF Names

LEMMA WithoutNames ==
    ASSUME NEW s \in Seq(Entry), NEW t \in Seq(Entry), NEW k \in 1 .. Len(s), Without(t, s, k)
    PROVE  Names(s) \subseteq Names(t) \cup {s[k].name}
  <1>1. ASSUME NEW i \in 1 .. Len(s), i # k PROVE s[i].name \in Names(t)
    BY <1>1, WithoutKeeps, NamesAre
  <1>2. QED
    BY <1>1, NamesAre

\* A step that changes no file, no entry on disk and nothing in the view.
LEMMA PaysFrame ==
    ASSUME NamesKept, files' = files, Entries' = Entries,
           pc' = "closed" \/ (pc # "closed" /\ View' = View),
           \/ faults' = faults /\ ~Paid
           \/ faults' = faults + 1,
           ~Paid'
    PROVE  NamesKept' /\ Pays
  <1>1. NamesKept'
    BY DEF NamesKept, Names
  <1>2. Unpaid' = DOMAIN files \ Names(Entries)
    BY DEF Unpaid, Names
  <1>3. Unpaid' \subseteq Unpaid \cup {call.name} /\ (~Paid => Unpaid' = Unpaid)
    BY <1>2 DEF Unpaid
  <1>4. QED
    BY <1>1, <1>3 DEF Pays

LEMMA OpeningPays ==
    ASSUME StoreInv, NamesKept, Open \/ OpenOrInit \/ Exit \/ Tick
    PROVE  NamesKept' /\ Pays
  <1>1. CASE Open
    <2>1. View' = Entries /\ Entries' = Entries /\ files' = files /\ faults' = faults
      BY <1>1 DEF View, Entries, Open, Return
    <2>2. NamesKept'
      BY <2>1 DEF NamesKept, Names
    <2>3. ~Paid /\ ~Paid'
      BY <1>1 DEF Paid, Open, Return
    <2>4. QED
      BY <2>1, <2>2, <2>3 DEF Pays, Unpaid, Names
  <1>2. CASE OpenOrInit
    <2>1. Entries = <<>> /\ Entries' = <<>> /\ files' = files /\ faults' = faults
      BY <1>2 DEF Entries, OpenOrInit
    <2>2. ~Paid /\ ~Paid'
      BY <1>2 DEF Paid, OpenOrInit, NoCall
    <2>3. NamesKept'
      BY <2>1 DEF NamesKept, Names
    <2>4. QED
      BY <2>1, <2>2, <2>3 DEF Pays, Unpaid, Names
  <1>3. CASE Exit
    <2>1. /\ files' = files /\ Entries' = Entries /\ pc' = "closed"
          /\ (faults' = faults /\ ~Paid) \/ faults' = faults + 1
      BY <1>3 DEF Exit, Entries, Fault, Paid
    <2>2. ~Paid'
      BY <2>1 DEF Paid
    <2>3. QED
      BY <2>1, <2>2, PaysFrame
  <1>4. CASE Tick
    <2>1. /\ files' = files /\ Entries' = Entries /\ View' = View /\ faults' = faults
          /\ Paid' = Paid /\ call' = call /\ pc' = pc
      BY <1>4 DEF Tick, Entries, View, Paid
    <2>2. QED
      BY <2>1 DEF NamesKept, Pays, Unpaid, Names
  <1>5. QED
    BY <1>1, <1>2, <1>3, <1>4

LEMMA AddPays ==
    ASSUME StoreInv, NamesKept,
           AddWriteFile \/ AddWriteFails \/ \E id \in ConfigID : Add(id)
    PROVE  NamesKept' /\ Pays
  <1>1. CASE \E id \in ConfigID : Add(id)
    <2>1. /\ files' = files /\ Entries' = Entries /\ View' = View /\ faults' = faults
          /\ pc = "idle" /\ pc' = "file"
      BY <1>1 DEF Add, Begin, Entries, View
    <2>2. QED
      BY <2>1, PaysFrame DEF Paid
  <1>2. CASE AddWriteFile
    <2>1. /\ pc = "file" /\ pc' = "meta" /\ call' = call /\ call.op = "add"
          /\ faults' = faults /\ Entries' = Entries
          /\ DOMAIN files' = DOMAIN files \cup {call.name}
          /\ View = mem /\ View' = mem' /\ mem \in Seq(Entry)
      BY <1>2 DEF AddWriteFile, StoreInv, Adding, TypeOK, Entries, View
    <2>2. Names(mem') = Names(mem) \cup {call.name}
      <3> DEFINE e == [name |-> call.name, id |-> call.name.id, key |-> call.key,
                       state |-> "current", drop |-> 0]
      <3>1. e \in Entry /\ e.name = call.name /\ mem' = Append(Demoted, e)
        BY <1>2, <2>1 DEF AddWriteFile, StoreInv, TypeOK, Call, Entry, Name, State
      <3> HIDE DEF e
      <3>2. /\ Demoted \in Seq(Entry) /\ Len(Demoted) = Len(mem) /\ Len(mem) \in Nat
            /\ \A i \in 1 .. Len(mem) : Demoted[i].name = mem[i].name
        BY <2>1, DemotedIs, LenProperties
      <3>3. /\ mem' \in Seq(Entry) /\ Len(mem') = Len(mem) + 1
            /\ \A i \in 1 .. Len(mem) : mem'[i] = Demoted[i]
            /\ mem'[Len(mem) + 1] = e
        BY <3>1, <3>2, AppendProperties
      <3>4. \A i \in 1 .. Len(mem) : mem'[i].name = mem[i].name /\ i \in 1 .. Len(mem')
        BY <3>2, <3>3
      <3>5. \A i \in 1 .. Len(mem') : i \in 1 .. Len(mem) \/ i = Len(mem) + 1
        BY <3>2, <3>3
      <3>6. Len(mem) + 1 \in 1 .. Len(mem')
        BY <3>2, <3>3
      <3>7. /\ Names(mem) = {mem[i].name : i \in 1 .. Len(mem)}
            /\ Names(mem') = {mem'[i].name : i \in 1 .. Len(mem')}
        BY <2>1, <3>3, NamesAre
      <3>8. QED
        BY <3>1, <3>3, <3>4, <3>5, <3>6, <3>7
    <2>3. NamesKept'
      BY <2>1, <2>2 DEF NamesKept, Names
    <2>4. Paid' /\ ~Paid
      BY <2>1 DEF Paid
    <2>5. Unpaid' \subseteq Unpaid
      BY <2>1, <2>4 DEF Unpaid, Names
    <2>6. QED
      BY <2>1, <2>3, <2>5 DEF Pays
  <1>3. CASE AddWriteFails
    <2>1. /\ files' = files /\ Entries' = Entries /\ View' = View /\ faults' = faults + 1
          /\ pc = "file" /\ pc' = "idle"
      BY <1>3 DEF AddWriteFails, Return, Fault, Entries, View
    <2>2. QED
      BY <2>1, PaysFrame DEF Paid
  <1>4. QED
    BY <1>1, <1>2, <1>3

LEMMA PersistPays ==
    ASSUME StoreInv, NamesKept, persistLocked \/ persistFails
    PROVE  NamesKept' /\ Pays
  <1>1. CASE persistLocked
    <2>1. /\ pc = "meta" /\ pc' = "idle" /\ View = mem /\ View' = mem /\ Entries' = mem
          /\ files' = files /\ faults' = faults /\ mem \in Seq(Entry)
      BY <1>1, StoreAssumptions
         DEF StoreInv, TypeOK, View, Entries, persistLocked, Return
    <2>2. Names(Entries) \cap DOMAIN files \subseteq Names(mem)
      BY <2>1 DEF NamesKept
    <2>3. Paid => call.name \in Names(mem)
      <3> SUFFICES ASSUME Paid PROVE call.name \in Names(mem)
        OBVIOUS
      <3>1. mem # <<>> /\ mem[Len(mem)].name = call.name
        BY DEF Paid, StoreInv, Adding
      <3>2. Len(mem) \in 1 .. Len(mem)
        BY <2>1, <3>1, EmptySeq
      <3>3. QED
        BY <2>1, <3>1, <3>2, NamesAre
    <2>4. Unpaid' = DOMAIN files \ Names(mem)
      BY <2>1 DEF Unpaid, Paid, Names
    <2>5. Unpaid' \subseteq Unpaid
      BY <2>2, <2>3, <2>4 DEF Unpaid
    <2>6. NamesKept'
      BY <2>1 DEF NamesKept, Names
    <2>7. QED
      BY <2>1, <2>5, <2>6 DEF Pays
  <1>2. CASE persistFails
    <2>1. /\ pc = "meta" /\ pc' \in {"closed", "idle"} /\ Entries' = Entries /\ View' = View
          /\ faults' = faults + 1
          /\ DOMAIN files' \subseteq DOMAIN files
      BY <1>2 DEF persistFails, Return, Fault, Entries, View, WithoutFiles
    <2>2. NamesKept'
      BY <2>1 DEF NamesKept, Names
    <2>3. Unpaid' \subseteq Unpaid \cup {call.name}
      BY <2>1 DEF Unpaid, Paid, Names
    <2>4. QED
      BY <2>1, <2>2, <2>3 DEF Pays
  <1>3. QED
    BY <1>1, <1>2

LEMMA SetStatePays ==
    ASSUME StoreInv, NamesKept, NEW id \in ConfigID, NEW state \in State, SetState(id, state)
    PROVE  NamesKept' /\ Pays
  <1> DEFINE k == Lookup(id)
  <1>0. /\ pc = "idle" /\ mem \in Seq(Entry) /\ View = mem /\ View' = mem' /\ Entries' = Entries
        /\ files' = files /\ faults' = faults /\ now \in Nat /\ Len(mem) \in Nat
        /\ pc' \in {"idle", "meta"}
    BY LenProperties DEF StoreInv, TypeOK, View, Entries, SetState, Begin, Return
  <1>1. ~Paid /\ ~Paid'
    BY <1>0 DEF SetState, Return, NoCall, Paid
  <1>2. Names(mem') = Names(mem)
    <2>1. CASE k = 0
      BY <2>1 DEF SetState, Names
    <2>2. CASE k # 0
      <3> DEFINE drop == IF state = "grace" THEN now + GracePeriod ELSE mem[k].drop
      <3>1. k \in 1 .. Len(mem)
        BY <1>0, <2>2, LookupIsIndex
      <3>2. mem[k] \in Entry /\ drop \in Nat
        <4>1. mem[k] \in Entry
          BY <1>0, <3>1, ElementOfSeq
        <4>2. now + GracePeriod \in Nat
          BY <1>0, StoreAssumptions
        <4>3. QED
          BY <4>1, <4>2, EntryFields
      <3>3. /\ state \in {mem[k].state, "grace"}
            /\ mem' = [mem EXCEPT ![k] = WithState(mem[k], state, drop)]
        BY <2>2 DEF SetState
      <3> HIDE DEF drop, k
      <3>4. /\ mem' \in Seq(Entry) /\ Len(mem') = Len(mem)
            /\ \A j \in 1 .. Len(mem) : mem'[j].name = mem[j].name
        BY <1>0, <3>1, <3>2, <3>3, SetStateIs
      <3>5. /\ Names(mem) = {mem[i].name : i \in 1 .. Len(mem)}
            /\ Names(mem') = {mem'[i].name : i \in 1 .. Len(mem')}
        BY <1>0, <3>4, NamesAre
      <3>6. QED
        BY <3>4, <3>5
    <2>3. QED
      BY <2>1, <2>2
  <1> HIDE DEF k
  <1>3. NamesKept'
    <2>1. Names(Entries)' = Names(Entries) /\ Names(View) = Names(mem) /\ Names(View)' = Names(mem')
      BY <1>0 DEF Names
    <2>2. Names(Entries) \cap DOMAIN files \subseteq Names(View)
      BY <1>0 DEF NamesKept
    <2>3. Names(Entries)' \cap DOMAIN files' \subseteq Names(View)'
      BY <1>0, <1>2, <2>1, <2>2
    <2>4. QED
      BY <2>3 DEF NamesKept
  <1>4. Unpaid' = Unpaid
    BY <1>0, <1>1 DEF Unpaid, Names
  <1>5. QED
    BY <1>0, <1>3, <1>4 DEF Pays

LEMMA DeletePays ==
    ASSUME StoreInv, NamesKept, NEW id \in ConfigID, Delete(id) \/ DeleteFails(id)
    PROVE  NamesKept' /\ Pays
  <1>1. CASE Delete(id)
    <2> DEFINE k == Lookup(id)
    <2>1. /\ pc = "idle" /\ pc' = "meta" /\ mem \in Seq(Entry) /\ View = mem /\ View' = mem'
          /\ Entries' = Entries /\ k \in 1 .. Len(mem) /\ faults' = faults
          /\ mem' = RemoveAt(mem, k) /\ DOMAIN files' = DOMAIN files \ {mem[k].name}
          /\ call'.op = "delete"
      BY <1>1, LookupIsIndex
         DEF StoreInv, TypeOK, View, Entries, Delete, Begin, WithoutFiles, NoCall
    <2> HIDE DEF k
    <2>2. Without(mem', mem, k) /\ mem' \in Seq(Entry)
      BY <2>1, RemoveAtWithout DEF Without
    <2>3. Names(mem) \subseteq Names(mem') \cup {mem[k].name}
      BY <2>1, <2>2, WithoutNames
    <2>4. NamesKept'
      <3>1. NamesKept' = (Names(Entries) \cap DOMAIN files' \subseteq Names(mem'))
        BY <2>1 DEF NamesKept, Names
      <3>2. Names(Entries) \cap DOMAIN files \subseteq Names(mem)
        BY <2>1 DEF NamesKept
      <3>3. QED
        BY <2>1, <2>3, <3>1, <3>2
    <2>5. Unpaid' \subseteq Unpaid
      BY <2>1 DEF Unpaid, Paid, Names
    <2>6. QED
      BY <2>1, <2>4, <2>5 DEF Pays
  <1>2. CASE DeleteFails(id)
    <2>1. /\ files' = files /\ Entries' = Entries /\ View' = View
          /\ pc = "idle" /\ pc' = "idle" /\ faults' \in {faults, faults + 1}
      BY <1>2 DEF DeleteFails, Begin, Return, Fault, Entries, View
    <2>2. QED
      BY <2>1, PaysFrame DEF Paid
  <1>3. QED
    BY <1>1, <1>2

LEMMA PrunePays ==
    ASSUME StoreInv, NamesKept, PruneExpired \/ PruneStep \/ PruneFails \/ PruneDone
    PROVE  NamesKept' /\ Pays
  <1>1. CASE PruneExpired
    <2>1. /\ pc = "idle" /\ pc' = "prune" /\ mem \in Seq(Entry) /\ mem' = mem
          /\ files' = files /\ faults' = faults /\ Entries' = Entries
      BY <1>1 DEF StoreInv, TypeOK, PruneExpired, Begin, Entries
    <2>2. call'.at = 1 /\ call'.kept = <<>>
      BY <1>1 DEF PruneExpired, NoCall
    <2>3. View' = <<>> \o SubSeq(mem, 1, Len(mem)) /\ View = mem
      BY <2>1, <2>2 DEF View
    <2>4. View' = View
      BY <2>1, <2>3, ViewEnds DEF Rest
    <2>5. QED
      BY <2>1, <2>4, PaysFrame DEF Paid
  <1>2. CASE PruneStep
    <2> DEFINE e == mem[call.at]
    <2>0. /\ pc = "prune" /\ pc' = "prune" /\ call.at <= Len(mem) /\ mem' = mem
          /\ faults' = faults /\ Entries' = Entries
      BY <1>2 DEF PruneStep, Entries
    <2>1. /\ mem \in Seq(Entry) /\ call \in Call /\ call.kept \in Seq(Entry)
          /\ call.at \in 1 .. Len(mem) /\ call.at + 1 \in 1 .. Len(mem) + 1
          /\ View = call.kept \o Rest(mem, call.at) /\ View \in Seq(Entry)
      BY <2>0, PruneStepView
    <2>2. CASE Expired(e)
      <3>1. /\ DOMAIN files' = DOMAIN files \ {e.name}
            /\ call' = [call EXCEPT !.at = @ + 1]
        BY <1>2, <2>2 DEF PruneStep, WithoutFiles
      <3>2. call'.at = call.at + 1 /\ call'.kept = call.kept
        BY <2>1, <3>1 DEF Call
      <3>3. View' = call.kept \o Rest(mem, call.at + 1)
        BY <2>0, <3>2 DEF View, Rest
      <3>4. /\ Without(View', View, Len(call.kept) + 1)
            /\ View[Len(call.kept) + 1] = e
        BY <2>1, <3>3, ViewPruned
      <3>5. View' \in Seq(Entry) /\ Len(call.kept) + 1 \in 1 .. Len(View)
        BY <3>4 DEF Without
      <3> DEFINE v == call.kept \o Rest(mem, call.at + 1)
                 j == Len(call.kept) + 1
                 gone == e.name
      <3>6. /\ View' = v /\ v \in Seq(Entry) /\ Without(v, View, j) /\ j \in 1 .. Len(View)
            /\ View[j].name = gone /\ DOMAIN files' = DOMAIN files \ {gone}
        BY <3>1, <3>3, <3>4, <3>5
      <3> HIDE DEF v, j, gone
      <3>b. Names(View) \subseteq Names(v) \cup {gone}
        BY <2>1, <3>6, WithoutNames
      <3>7. NamesKept'
        <4>1. Names(Entries)' = Names(Entries) /\ Names(View)' = Names(v)
          BY <2>0, <3>6 DEF Names
        <4>2. Names(Entries) \cap DOMAIN files \subseteq Names(View)
          BY <2>0 DEF NamesKept
        <4>3. Names(Entries)' \cap DOMAIN files' \subseteq Names(View)'
          BY <3>6, <3>b, <4>1, <4>2
        <4>4. QED
          BY <4>3 DEF NamesKept
      <3>8. Unpaid' \subseteq Unpaid
        BY <2>0, <3>1 DEF Unpaid, Paid, Names
      <3>9. QED
        BY <2>0, <3>7, <3>8 DEF Pays
    <2>3. CASE ~Expired(e)
      <3>1. files' = files /\ call' = [call EXCEPT !.at = @ + 1, !.kept = Append(@, e)]
        BY <1>2, <2>3 DEF PruneStep
      <3>2. call'.at = call.at + 1 /\ call'.kept = Append(call.kept, e)
        BY <2>1, <3>1 DEF Call
      <3>3. View' = Append(call.kept, e) \o Rest(mem, call.at + 1)
        BY <2>0, <3>2 DEF View, Rest
      <3>4. View' = View
        BY <2>1, <3>3, ViewKept
      <3>5. QED
        BY <2>0, <3>1, <3>4, PaysFrame DEF Paid
    <2>4. QED
      BY <2>2, <2>3
  <1>3. CASE PruneFails
    <2>1. /\ files' = files /\ Entries' = Entries /\ View' = View /\ faults' = faults + 1
          /\ pc = "prune" /\ pc' = "idle"
      BY <1>3 DEF PruneFails, Return, Fault, Entries, View
    <2>2. QED
      BY <2>1, PaysFrame DEF Paid
  <1>4. CASE PruneDone
    <2>1. /\ files' = files /\ Entries' = Entries /\ faults' = faults /\ mem' = call.kept
          /\ pc = "prune" /\ pc' \in {"idle", "meta"} /\ call.at > Len(mem)
          /\ call' \in {NoCall, call}
      BY <1>4 DEF PruneDone, Return, Entries
    <2>2. /\ mem \in Seq(Entry) /\ call.kept \in Seq(Entry) /\ Len(mem) \in Nat
          /\ call.at \in 1 .. Len(mem) + 1 /\ call.op = "prune"
      BY <2>1, LenProperties DEF StoreInv, TypeOK, Call, Pruning
    <2>3. View' = View
      <3>1. SubSeq(mem, call.at, Len(mem)) = <<>>
        BY <2>1, <2>2, SubSeqEmpty
      <3>2. QED
        BY <2>1, <2>2, <3>1, ConcatEmptySeq DEF View
    <2>4. ~Paid'
      BY <2>1, <2>2 DEF Paid, NoCall
    <2>5. QED
      BY <2>1, <2>3, <2>4, PaysFrame DEF Paid
  <1>5. QED
    BY <1>1, <1>2, <1>3, <1>4

LEMMA OrphanStep == StoreInv /\ StoreInv' /\ OrphanInv /\ [Next]_vars => OrphanInv'
  <1> SUFFICES ASSUME StoreInv, StoreInv', OrphanInv, [Next]_vars PROVE OrphanInv'
    OBVIOUS
  <1>1. NamesKept' /\ Pays
    <2>1. NamesKept
      BY DEF OrphanInv
    <2>2. CASE Next
      BY <2>1, <2>2, OpeningPays, AddPays, PersistPays, SetStatePays, DeletePays, PrunePays
         DEF Next
    <2>3. CASE UNCHANGED vars
      <3>1. /\ files' = files /\ faults' = faults /\ pc' = pc /\ call' = call
            /\ Entries' = Entries /\ View' = View
        BY <2>3 DEF vars, Entries, View
      <3>2. QED
        BY <2>1, <3>1 DEF NamesKept, Pays, Unpaid, Paid, Names
    <2>4. QED
      BY <2>2, <2>3
  <1>2. IsFiniteSet(DOMAIN files')
    <2>1. \E n : DOMAIN files' \subseteq DOMAIN files \cup {n}
      <3>1. CASE AddWriteFile
        BY <3>1 DEF AddWriteFile
      <3>2. CASE ~AddWriteFile
        BY <3>2 DEF Next, vars, Open, OpenOrInit, Exit, Add, Delete, DeleteFails, SetState,
                    AddWriteFails, persistLocked, persistFails, PruneExpired, PruneStep,
                    PruneFails, PruneDone, Tick, WithoutFiles
      <3>3. QED
        BY <3>1, <3>2
    <2>2. PICK n : DOMAIN files' \subseteq DOMAIN files \cup {n}
      BY <2>1
    <2>3. IsFiniteSet(DOMAIN files \cup {n})
      BY FS_AddElement DEF OrphanInv
    <2>4. QED
      BY <2>2, <2>3, FS_Subset
  <1>3. IsFiniteSet(Unpaid) /\ Cardinality(Unpaid) \in Nat /\ Cardinality(Unpaid) <= faults
    <2>1. Unpaid \subseteq DOMAIN files
      BY DEF Unpaid
    <2>2. QED
      BY <2>1, FS_Subset, FS_CardinalityType DEF OrphanInv
  <1>4. faults \in Nat
    BY Counters DEF StoreInv
  <1>5. Cardinality(Unpaid') <= faults'
    <2>1. CASE faults' = faults /\ Unpaid' \subseteq Unpaid
      <3>1. Cardinality(Unpaid') <= Cardinality(Unpaid) /\ IsFiniteSet(Unpaid')
        BY <1>3, <2>1, FS_Subset
      <3>2. Cardinality(Unpaid') \in Nat
        BY <3>1, FS_CardinalityType
      <3>3. QED
        BY <1>3, <1>4, <2>1, <3>1, <3>2
    <2>2. CASE faults' = faults + 1 /\ \E n : Unpaid' \subseteq Unpaid \cup {n}
      <3>1. PICK n : Unpaid' \subseteq Unpaid \cup {n}
        BY <2>2
      <3>2. /\ IsFiniteSet(Unpaid \cup {n})
            /\ Cardinality(Unpaid \cup {n}) <= Cardinality(Unpaid) + 1
            /\ Cardinality(Unpaid \cup {n}) \in Nat
        BY <1>3, FS_AddElement, FS_CardinalityType
      <3>3. Cardinality(Unpaid') <= Cardinality(Unpaid \cup {n}) /\ IsFiniteSet(Unpaid')
        BY <3>1, <3>2, FS_Subset
      <3>4. Cardinality(Unpaid') \in Nat
        BY <3>3, FS_CardinalityType
      <3>5. QED
        BY <1>3, <1>4, <2>2, <3>2, <3>3, <3>4
    <2>3. QED
      BY <1>1, <2>1, <2>2 DEF Pays
  <1>6. QED
    BY <1>1, <1>2, <1>5 DEF OrphanInv

\* Every variable of the store keeps its type, whatever fails.
THEOREM TypeCorrect == Spec => []TypeOK
  <1>1. StoreInv => TypeOK
    BY DEF StoreInv
  <1>2. QED
    BY <1>1, StoreAlways, PTL

\* A key whose Add succeeded keeps its entry and its file until it is deleted or
\* pruned, for every number of calls, failed file operations and crashes, and even
\* if a handle is used again after an error.
THEOREM AckedIsDurable == Spec => []AckedDurable
  <1>1. StoreInv => AckedDurable
    <2>1. ASSUME StoreInv PROVE DOMAIN Entries = 1 .. Len(Entries)
      BY <2>1, ViewType, LenProperties DEF StoreInv
    <2>2. QED
      BY <2>1 DEF StoreInv, Core, AckedHaveFiles, HasFile, AckedDurable
  <1>2. QED
    BY <1>1, StoreAlways, PTL

\* The current entry is always the newest one, in memory and on disk.
THEOREM CurrentIsTheNewest == Spec => []CurrentIsNewest
  <1>1. StoreInv => CurrentIsNewest
    <2> SUFFICES ASSUME StoreInv PROVE CurrentIsNewest
      OBVIOUS
    <2>1. ASSUME NEW s \in Seq(Entry), WellFormed(s, adds)
          PROVE  \A i, j \in DOMAIN s : s[i].state = "current" => s[j].key <= s[i].key
      <3>0. DOMAIN s = 1 .. Len(s)
        BY LenProperties
      <3>1. Len(s) \in Nat /\ \A i \in 1 .. Len(s) : s[i].key \in Nat
        BY LenProperties, ElementOfSeq, EntryFields
      <3>2. ASSUME NEW i \in 1 .. Len(s), NEW j \in 1 .. Len(s), s[i].state = "current"
            PROVE  s[j].key <= s[i].key
        <4>1. i = Len(s) /\ (j < i \/ j = i)
          BY <2>1, <3>1, <3>2 DEF WellFormed
        <4>2. CASE j < i
          BY <2>1, <3>1, <4>2 DEF WellFormed
        <4>3. CASE j = i
          BY <3>1, <4>3
        <4>4. QED
          BY <4>1, <4>2, <4>3
      <3>3. QED
        BY <3>0, <3>2
    <2>2. Entries \in Seq(Entry) /\ WellFormed(Entries, adds)
      BY ViewType DEF StoreInv, Core
    <2>3. mem \in Seq(Entry)
      BY DEF StoreInv, TypeOK
    <2>4. WellFormed(mem, adds)
      BY DEF StoreInv, Core, Pruning, View
    <2>5. QED
      BY <2>1, <2>2, <2>3, <2>4 DEF CurrentIsNewest
  <1>2. QED
    BY <1>1, StoreAlways, PTL

\* Once a call has returned no error, what it changed is on disk, provided that no
\* handle was used again after an error.
THEOREM SuccessIsDurable == Spec => []OkIsDurable
  <1>1. CarefulInv => OkIsDurable
    BY DEF CarefulInv, Dropped, OkIsDurable
  <1>2. QED
    BY <1>1, StoreAlways, PTL

\* Between two calls every current or previous entry of the metadata has its file,
\* so that R4 can read it, on the same condition.
THEOREM LiveEntriesAreReadable == Spec => []LiveEntryHasFile
  <1>1. StoreInv /\ CarefulInv => LiveEntryHasFile
    <2> SUFFICES ASSUME StoreInv, CarefulInv PROVE LiveEntryHasFile
      OBVIOUS
    <2>1. DOMAIN Entries = 1 .. Len(Entries)
      BY ViewType, LenProperties DEF StoreInv
    <2>2. QED
      BY <2>1 DEF CarefulInv, LiveHaveFiles, Live, LiveEntryHasFile
  <1>2. QED
    BY <1>1, StoreAlways, PTL

\* A private key file that no entry refers to costs a fault: calls that succeed
\* leave none behind, and a call that fails or is cut off by a crash leaves at most
\* one, for every number of calls, ids and faults, with reuse of ids within a
\* second and of handles after errors (store.go:141-192, 228-242, 251-276).
THEOREM OrphansCostFaults == Spec => []OrphanCostsAFault
  <1>1. Init => OrphanInv
    <2> SUFFICES ASSUME Init PROVE OrphanInv
      OBVIOUS
    <2>1. DOMAIN files = {} /\ faults = 0 /\ pc = "closed"
      BY EmptySeq DEF Init
    <2>2. Unpaid = {}
      BY <2>1 DEF Unpaid
    <2>3. QED
      BY <2>1, <2>2, FS_EmptySet DEF OrphanInv, NamesKept
  <1>2. StoreInv /\ OrphanInv => OrphanCostsAFault
    <2> SUFFICES ASSUME StoreInv, OrphanInv PROVE OrphanCostsAFault
      OBVIOUS
    <2> DEFINE Orphans == DOMAIN files \ (Names(Entries) \cup Names(mem))
               Most == IF Paid THEN Unpaid \cup {call.name} ELSE Unpaid
    <2>1. Orphans \subseteq Most /\ Unpaid \subseteq DOMAIN files
      BY DEF Unpaid
    <2>2. IsFiniteSet(Unpaid) /\ Cardinality(Unpaid) \in Nat /\ Cardinality(Unpaid) <= faults
      BY <2>1, FS_Subset, FS_CardinalityType DEF OrphanInv
    <2>3. /\ IsFiniteSet(Most) /\ Cardinality(Most) \in Nat
          /\ Cardinality(Most) <= Cardinality(Unpaid) + (IF Paid THEN 1 ELSE 0)
      <3>1. CASE Paid
        <4> DEFINE more == Unpaid \cup {call.name}
        <4>1. /\ IsFiniteSet(more) /\ Cardinality(more) \in Nat
              /\ Cardinality(more) <= Cardinality(Unpaid) + 1
          BY <2>2, FS_AddElement, FS_CardinalityType
        <4>2. Most = more
          BY <3>1
        <4> HIDE DEF more, Most
        <4>3. QED
          BY <3>1, <4>1, <4>2
      <3>2. CASE ~Paid
        BY <2>2, <3>2
      <3>3. QED
        BY <3>1, <3>2
    <2>4. Cardinality(Orphans) <= Cardinality(Most) /\ Cardinality(Orphans) \in Nat
      <3> HIDE DEF Orphans, Most
      <3>1. IsFiniteSet(Orphans) /\ Cardinality(Orphans) <= Cardinality(Most)
        BY <2>1, <2>3, FS_Subset
      <3>2. QED
        BY <3>1, FS_CardinalityType
    <2>5. faults \in Nat /\ (Paid => call.op = "add")
      BY Counters DEF StoreInv, Paid
    <2> HIDE DEF Orphans, Most
    <2>6. Cardinality(Orphans) <= faults + (IF call.op = "add" THEN 1 ELSE 0)
      BY <2>2, <2>3, <2>4, <2>5
    <2>7. QED
      BY <2>6 DEF OrphanCostsAFault, Orphans
  <1>3. Spec => []OrphanInv
    <2>1. Init => StoreInv
      BY InitStore
    <2>2. StoreInv /\ [Next]_vars => StoreInv'
      BY StoreStep
    <2>3. QED
      BY <1>1, <2>1, <2>2, OrphanStep, PTL DEF Spec
  <1>4. QED
    BY <1>2, <1>3, StoreAlways, PTL
=============================================================================
