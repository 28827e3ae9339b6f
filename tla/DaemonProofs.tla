----------------------------- MODULE DaemonProofs -----------------------------
(***************************************************************************)
(* Theorems about Daemon for every configuration file, every set of        *)
(* providers that never answer, and every number of domains.               *)
(*                                                                         *)
(* The argument.  A domain that `rotate` has had its turn with is rotating *)
(* or has an outcome (TurnsCount).  A record that was written was written  *)
(* at Owner of its domain (OwnerIsOwner), and Owner is the name in the     *)
(* file (OwnerIsRecord, about sequences of labels).  A request that is     *)
(* under way after the signal was so when the signal came, and nothing was *)
(* carried out since (SignalFoundIt).                                      *)
(***************************************************************************)
EXTENDS Daemon, TLAPS, SequenceTheorems, WellFoundedInduction

-----------------------------------------------------------------------------
(* Names.                                                                  *)

\* The provers do not know that a literal is in STRING.
Label == STRING \cup {"a", "z", "@"}
Labels == Seq(Label)

LEMMA ToLowerIs ==
    ASSUME NEW s \in Labels
    PROVE  /\ ToLower(s) \in Labels /\ Len(ToLower(s)) = Len(s)
           /\ ToLower(ToLower(s)) = ToLower(s)
  <1>0. DOMAIN s = 1 .. Len(s) /\ Len(s) \in Nat
    BY LenProperties DEF Labels
  <1>1. \A x \in Label : LowerLabel(x) \in Label /\ LowerLabel(LowerLabel(x)) = LowerLabel(x)
    <2>1. ASSUME NEW x \in Label PROVE LowerLabel(x) \in {x, "a", "z"}
      BY DEF LowerLabel
    <2>2. "a" \in Label /\ "z" \in Label
      BY DEF Label
    <2>3. ASSUME NEW x \in Label PROVE LowerLabel(LowerLabel(x)) = LowerLabel(x)
      BY DEF LowerLabel
    <2>4. QED
      BY <2>1, <2>2, <2>3
  <1>2. \A i \in 1 .. Len(s) : s[i] \in Label
    BY ElementOfSeq DEF Labels
  <1>3. ToLower(s) = [i \in 1 .. Len(s) |-> LowerLabel(s[i])]
    BY <1>0 DEF ToLower
  <1>4. ToLower(s) \in Labels /\ Len(ToLower(s)) = Len(s)
    <2>1. ToLower(s) \in [1 .. Len(s) -> Label]
      BY <1>1, <1>2, <1>3
    <2>2. QED
      BY <1>0, <2>1, IsASeq DEF Labels
  <1>5. DOMAIN ToLower(s) = 1 .. Len(s)
    BY <1>3
  <1>6. ToLower(ToLower(s)) = [i \in 1 .. Len(s) |-> LowerLabel(ToLower(s)[i])]
    BY <1>5 DEF ToLower
  <1>7. \A i \in 1 .. Len(s) : LowerLabel(ToLower(s)[i]) = LowerLabel(s[i])
    BY <1>1, <1>2, <1>3
  <1>8. QED
    BY <1>3, <1>4, <1>6, <1>7

\* The suffix of the library, by its elements.
LEMMA SuffixIs ==
    ASSUME NEW s \in Labels, NEW t \in Labels
    PROVE  IsSuffix(s, t) <=> /\ Len(s) <= Len(t)
                              /\ \A i \in 1 .. Len(s) : s[i] = t[Len(t) - Len(s) + i]
  <1> DEFINE n == Len(s)
             m == Len(t)
             rs == Reverse(s)
             rt == Reverse(t)
  <1>0. n \in Nat /\ m \in Nat
    BY LenProperties DEF Labels
  <1>1. /\ rs \in Labels /\ Len(rs) = n /\ \A i \in 1 .. n : rs[i] = s[n - i + 1]
        /\ rt \in Labels /\ Len(rt) = m /\ \A i \in 1 .. m : rt[i] = t[m - i + 1]
    <2>1. ASSUME NEW u \in Labels
          PROVE  /\ Reverse(u) \in Labels /\ Len(Reverse(u)) = Len(u)
                 /\ \A i \in 1 .. Len(u) : Reverse(u)[i] = u[Len(u) - i + 1]
      <3>1. Len(u) \in Nat /\ \A i \in 1 .. Len(u) : u[Len(u) - i + 1] \in Label
        BY LenProperties, ElementOfSeq DEF Labels
      <3>2. Reverse(u) = [i \in 1 .. Len(u) |-> u[Len(u) - i + 1]]
        BY DEF Reverse
      <3>3. QED
        BY <3>1, <3>2, IsASeq DEF Labels
    <2>2. QED
      BY <2>1
  <1>2. IsSuffix(s, t) <=> n <= m /\ SubSeq(rs, 1, n) = SubSeq(rt, 1, n)
    BY <1>1 DEF IsSuffix, IsPrefix
  <1> HIDE DEF n, m, rs, rt
  <1>3. ASSUME n <= m
        PROVE  SubSeq(rs, 1, n) = SubSeq(rt, 1, n) <=> \A i \in 1 .. n : rs[i] = rt[i]
    <2>1. /\ SubSeq(rs, 1, n) \in Labels /\ Len(SubSeq(rs, 1, n)) = n
          /\ \A i \in 1 .. n : SubSeq(rs, 1, n)[i] = rs[i]
      <3>1. \A i \in 1 .. n : rs[i] \in Label
        BY <1>1, ElementOfSeq DEF Labels
      <3>2. /\ SubSeq(rs, 1, n) \in Seq(Label)
            /\ Len(SubSeq(rs, 1, n)) = IF 1 <= n THEN n - 1 + 1 ELSE 0
            /\ \A i \in 1 .. n - 1 + 1 : SubSeq(rs, 1, n)[i] = rs[1 + i - 1]
        BY <1>0, <3>1, SubSeqProperties
      <3>3. QED
        BY <1>0, <3>2 DEF Labels
    <2>2. /\ SubSeq(rt, 1, n) \in Labels /\ Len(SubSeq(rt, 1, n)) = n
          /\ \A i \in 1 .. n : SubSeq(rt, 1, n)[i] = rt[i]
      <3>1. \A i \in 1 .. n : rt[i] \in Label
        BY <1>0, <1>1, <1>3, ElementOfSeq DEF Labels
      <3>2. /\ SubSeq(rt, 1, n) \in Seq(Label)
            /\ Len(SubSeq(rt, 1, n)) = IF 1 <= n THEN n - 1 + 1 ELSE 0
            /\ \A i \in 1 .. n - 1 + 1 : SubSeq(rt, 1, n)[i] = rt[1 + i - 1]
        BY <1>0, <3>1, SubSeqProperties
      <3>3. QED
        BY <1>0, <3>2 DEF Labels
    <2>3. (\A i \in 1 .. n : rs[i] = rt[i]) => SubSeq(rs, 1, n) = SubSeq(rt, 1, n)
      BY <2>1, <2>2, SeqEqual DEF Labels
    <2>4. SubSeq(rs, 1, n) = SubSeq(rt, 1, n) => \A i \in 1 .. n : rs[i] = rt[i]
      BY <2>1, <2>2
    <2>5. QED
      BY <2>3, <2>4
  <1>4. ASSUME n <= m
        PROVE  (\A i \in 1 .. n : rs[i] = rt[i]) <=> (\A i \in 1 .. n : s[i] = t[m - n + i])
    <2>1. ASSUME \A i \in 1 .. n : rs[i] = rt[i], NEW i \in 1 .. n
          PROVE  s[i] = t[m - n + i]
      <3> DEFINE j == n - i + 1
      <3>1. j \in 1 .. n /\ j \in 1 .. m /\ n - j + 1 = i /\ m - j + 1 = m - n + i
        BY <1>0, <1>4
      <3> HIDE DEF j
      <3>2. rs[j] = s[n - j + 1] /\ rt[j] = t[m - j + 1] /\ rs[j] = rt[j]
        BY <1>1, <2>1, <3>1
      <3>3. QED
        BY <3>1, <3>2
    <2>2. ASSUME \A i \in 1 .. n : s[i] = t[m - n + i], NEW i \in 1 .. n
          PROVE  rs[i] = rt[i]
      <3> DEFINE j == n - i + 1
      <3>1. j \in 1 .. n /\ i \in 1 .. m /\ m - n + j = m - i + 1
        BY <1>0, <1>4
      <3>2. rs[i] = s[j] /\ rt[i] = t[m - i + 1]
        BY <1>1, <3>1
      <3> HIDE DEF j
      <3>3. s[j] = t[m - n + j]
        BY <2>2, <3>1
      <3>4. QED
        BY <3>1, <3>2, <3>3
    <2>3. QED
      BY <2>1, <2>2
  <1>5. QED
    BY <1>2, <1>3, <1>4 DEF n, m

\* The labels in front of a suffix.
LEMMA FrontIs ==
    ASSUME NEW z \in Labels, NEW f \in Labels, IsSuffix(z, f)
    PROVE  LET r == SubSeq(f, 1, Len(f) - Len(z))
           IN  /\ r \in Labels /\ Len(r) = Len(f) - Len(z)
               /\ \A i \in 1 .. Len(r) : r[i] = f[i] /\ i \in 1 .. Len(f)
               /\ f = r \o z
  <1> DEFINE r == SubSeq(f, 1, Len(f) - Len(z))
  <1>0. Len(f) \in Nat /\ Len(z) \in Nat /\ Len(z) <= Len(f)
    BY SuffixIs, LenProperties DEF Labels
  <1>1. /\ r \in Labels /\ Len(r) = Len(f) - Len(z)
        /\ \A i \in 1 .. Len(f) - Len(z) : r[i] = f[i]
    <2>1. \A i \in 1 .. Len(f) - Len(z) : f[i] \in Label
      BY <1>0, ElementOfSeq DEF Labels
    <2>2. /\ r \in Seq(Label)
          /\ Len(r) = IF 1 <= Len(f) - Len(z) THEN Len(f) - Len(z) - 1 + 1 ELSE 0
          /\ \A i \in 1 .. Len(f) - Len(z) - 1 + 1 : r[i] = f[1 + i - 1]
      BY <1>0, <2>1, SubSeqProperties
    <2>3. QED
      BY <1>0, <2>2 DEF Labels
  <1> HIDE DEF r
  <1>2. /\ r \o z \in Seq(Label) /\ Len(r \o z) = Len(r) + Len(z)
        /\ \A i \in 1 .. Len(r) + Len(z) :
             (r \o z)[i] = IF i <= Len(r) THEN r[i] ELSE z[i - Len(r)]
    BY <1>1, ConcatProperties DEF Labels
  <1>3. ASSUME NEW i \in 1 .. Len(f) PROVE (r \o z)[i] = f[i]
    <2>0. i \in 1 .. Len(r) + Len(z)
      BY <1>0, <1>1
    <2>1. CASE i <= Len(r)
      BY <1>0, <1>1, <1>2, <2>0, <2>1
    <2>2. CASE i > Len(r)
      <3> DEFINE k == i - Len(r)
      <3>1. k \in 1 .. Len(z) /\ Len(f) - Len(z) + k = i
        BY <1>0, <1>1, <2>2
      <3>2. (r \o z)[i] = z[k]
        BY <1>0, <1>1, <1>2, <2>0, <2>2
      <3> HIDE DEF k
      <3>3. z[k] = f[Len(f) - Len(z) + k]
        BY <3>1, SuffixIs
      <3>4. QED
        BY <3>1, <3>2, <3>3
    <2>3. QED
      BY <1>0, <1>1, <2>1, <2>2
  <1>4. f = r \o z
    <2>1. Len(f) = Len(r \o z)
      BY <1>0, <1>1, <1>2
    <2>2. f \in Seq(Label) /\ \A i \in 1 .. Len(f) : f[i] = (r \o z)[i]
      BY <1>3 DEF Labels
    <2>3. QED
      BY <1>2, <2>1, <2>2, SeqEqual
  <1>5. \A i \in 1 .. Len(r) : r[i] = f[i] /\ i \in 1 .. Len(f)
    BY <1>0, <1>1
  <1>6. QED
    BY <1>1, <1>4, <1>5 DEF r

\* A sequence in front of its own suffix.
LEMMA SuffixTwice ==
    ASSUME NEW z \in Labels, NEW r \in Labels, IsSuffix(z, r)
    PROVE  IsSuffix(z \o z, r \o z)
  <1> DEFINE zz == z \o z
             f == r \o z
  <1>0. Len(z) \in Nat /\ Len(r) \in Nat /\ Len(z) <= Len(r)
    BY SuffixIs, LenProperties DEF Labels
  <1>1. /\ zz \in Labels /\ Len(zz) = Len(z) + Len(z)
        /\ \A i \in 1 .. Len(z) + Len(z) : zz[i] = IF i <= Len(z) THEN z[i] ELSE z[i - Len(z)]
    BY ConcatProperties DEF Labels
  <1>2. /\ f \in Labels /\ Len(f) = Len(r) + Len(z)
        /\ \A i \in 1 .. Len(r) + Len(z) : f[i] = IF i <= Len(r) THEN r[i] ELSE z[i - Len(r)]
    BY ConcatProperties DEF Labels
  <1> HIDE DEF zz, f
  <1>3. ASSUME NEW i \in 1 .. Len(zz) PROVE zz[i] = f[Len(f) - Len(zz) + i]
    <2> DEFINE k == Len(f) - Len(zz) + i
    <2>0. k = Len(r) - Len(z) + i /\ k \in 1 .. Len(r) + Len(z) /\ i \in 1 .. Len(z) + Len(z)
      BY <1>0, <1>1, <1>2
    <2> HIDE DEF k
    <2>1. CASE i <= Len(z)
      <3>1. i \in 1 .. Len(z) /\ k <= Len(r)
        BY <1>0, <2>0, <2>1
      <3>2. zz[i] = z[i] /\ f[k] = r[k]
        BY <1>1, <1>2, <2>0, <3>1, SMTT(30)
      <3>3. z[i] = r[Len(r) - Len(z) + i]
        BY <3>1, SuffixIs
      <3>4. QED
        BY <2>0, <3>2, <3>3 DEF k
    <2>2. CASE i > Len(z)
      <3>1. ~(i <= Len(z)) /\ ~(k <= Len(r)) /\ i - Len(z) = k - Len(r)
        BY <1>0, <2>0, <2>2
      <3>2. zz[i] = z[i - Len(z)] /\ f[k] = z[k - Len(r)]
        BY <1>1, <1>2, <2>0, <3>1
      <3>3. QED
        BY <3>1, <3>2 DEF k
    <2>3. QED
      BY <1>0, <2>0, <2>1, <2>2
  <1>4. Len(zz) <= Len(f)
    BY <1>0, <1>1, <1>2
  <1>5. IsSuffix(zz, f)
    BY <1>1, <1>2, <1>3, <1>4, SuffixIs
  <1>6. QED
    BY <1>5 DEF zz, f

LEMMA OwnerIsRecord ==
    ASSUME NEW d, d.fqdn.labels \in Labels, d.zone.labels \in Labels,
           InZone(d), ~Ambiguous(d)
    PROVE  Owner(d) = Canonical(d.fqdn)
  <1> DEFINE f == Canonical(d.fqdn)
             z == Canonical(d.zone)
             r == SubSeq(f, 1, Len(f) - Len(z))
             rel == relName(d.fqdn, d.zone)
  <1>0. f \in Labels /\ z \in Labels /\ ToLower(f) = f
    BY ToLowerIs DEF Canonical
  <1>1. /\ IsSuffix(z, f) /\ ~IsSuffix(z \o z, f) /\ f # Apex \o z
        /\ rel = IF f = z THEN Apex ELSE IF IsSuffix(z, f) THEN r ELSE f
        /\ Owner(d) = IF rel \in {<<>>, Apex} THEN z
                      ELSE IF IsSuffix(z, ToLower(rel)) THEN ToLower(rel) ELSE ToLower(rel) \o z
    BY DEF InZone, Ambiguous, relName, Owner, OwnerName
  <1>2. CASE f = z
    BY <1>1, <1>2
  <1>3. CASE f # z
    <2>1. /\ r \in Labels /\ f = r \o z
          /\ \A i \in 1 .. Len(r) : r[i] = f[i] /\ i \in 1 .. Len(f)
      BY <1>0, <1>1, FrontIs
    <2>2. rel = r
      BY <1>1, <1>3
    <2> HIDE DEF f, z, r, rel
    <2>3. r # <<>> /\ r # Apex
      BY <1>0, <1>1, <1>3, <2>1, ConcatEmptySeq DEF Labels
    <2>4. ToLower(r) = r
      <3>1. DOMAIN f = 1 .. Len(f)
        BY <1>0, LenProperties DEF Labels
      <3>2. DOMAIN r = 1 .. Len(r) /\ r \in [1 .. Len(r) -> Label]
        BY <2>1, LenProperties DEF Labels
      <3>3. \A i \in 1 .. Len(f) : LowerLabel(f[i]) = f[i]
        BY <1>0, <3>1 DEF ToLower
      <3>4. \A i \in 1 .. Len(r) : LowerLabel(r[i]) = r[i]
        BY <2>1, <3>3
      <3>5. ToLower(r) = [i \in 1 .. Len(r) |-> LowerLabel(r[i])]
        BY <3>2 DEF ToLower
      <3>6. QED
        BY <3>2, <3>4, <3>5
    <2>5. ~IsSuffix(z, r)
      BY <1>0, <1>1, <2>1, SuffixTwice
    <2>6. Owner(d) = f
      BY <1>1, <2>1, <2>2, <2>3, <2>4, <2>5
    <2>7. QED
      BY <2>6 DEF f
  <1>4. QED
    BY <1>2, <1>3

-----------------------------------------------------------------------------
(* The configuration.                                                      *)

LEMMA LoadedIs ==
    ASSUME NEW ds \in Seq(DomainConfig)
    PROVE  /\ DOMAIN Loaded(ds) = 1 .. Len(ds) /\ Len(Loaded(ds)) = Len(ds) /\ Len(ds) \in Nat
           /\ \A i \in 1 .. Len(ds) :
                /\ Loaded(ds)[i].fqdn.labels \in Labels /\ Loaded(ds)[i].zone.labels \in Labels
  <1>0. Len(ds) \in Nat /\ DOMAIN ds = 1 .. Len(ds)
    BY LenProperties
  <1>1. Loaded(ds) = [i \in 1 .. Len(ds) |-> applyDefaults(ds[i])]
    BY <1>0 DEF Loaded
  <1>2. ASSUME NEW d \in DomainConfig
        PROVE  /\ applyDefaults(d).fqdn = d.fqdn /\ applyDefaults(d).zone = d.zone
               /\ d.fqdn.labels \in Seq(STRING) /\ d.zone.labels \in Seq(STRING)
    BY DEF DomainConfig, HostName, applyDefaults
  <1>3. Seq(STRING) \subseteq Labels
    <2>1. STRING \subseteq Label
      BY DEF Label
    <2>2. QED
      BY <2>1, SeqMonotonic DEF Labels
  <1>4. \A i \in 1 .. Len(ds) : ds[i] \in DomainConfig
    BY ElementOfSeq
  <1>5. DOMAIN Loaded(ds) = 1 .. Len(ds) /\ Len(Loaded(ds)) = Len(ds)
    BY <1>0, <1>1
  <1>6. ASSUME NEW i \in 1 .. Len(ds)
        PROVE  Loaded(ds)[i].fqdn.labels \in Labels /\ Loaded(ds)[i].zone.labels \in Labels
    <2>1. Loaded(ds)[i] = applyDefaults(ds[i]) /\ ds[i] \in DomainConfig
      BY <1>1, <1>4
    <2>2. /\ Loaded(ds)[i].fqdn = ds[i].fqdn /\ Loaded(ds)[i].zone = ds[i].zone
          /\ ds[i].fqdn.labels \in Seq(STRING) /\ ds[i].zone.labels \in Seq(STRING)
      BY <1>2, <2>1
    <2>3. QED
      BY <1>3, <2>2, Zenon
  <1>7. QED
    BY <1>0, <1>5, <1>6, Zenon

LEMMA NatMin ==
    ASSUME NEW S, S \subseteq Nat, S # {}
    PROVE  \E m \in S : \A n \in S : m <= n
  <1>1. \E m \in S : \A n \in S : ~(<<n, m>> \in OpToRel(<, Nat))
    BY NatLessThanWellFounded, WFMin
  <1>2. \A n, m \in Nat : ~(<<n, m>> \in OpToRel(<, Nat)) => m <= n
    BY DEF OpToRel
  <1>3. QED
    BY <1>1, <1>2

\* A name that some domain has is found.
LEMMA FoundIsDomain ==
    ASSUME NEW ds, Len(ds) \in Nat, NEW i \in 1 .. Len(ds)
    PROVE  findDomain(ds, ds[i].fqdn) \in 1 .. Len(ds)
  <1> DEFINE I == {j \in 1 .. Len(ds) : ds[j].fqdn.dot = ds[i].fqdn.dot
                                        /\ Canonical(ds[j].fqdn) = Canonical(ds[i].fqdn)}
  <1>1. findDomain(ds, ds[i].fqdn) = IF I # {} THEN Min(I) ELSE 0
    BY DEF findDomain, SelectInSeq
  <1>2. I # {} /\ I \subseteq Nat
    OBVIOUS
  <1>3. \E m \in I : \A n \in I : m <= n
    <2> HIDE DEF I
    <2>1. QED
      BY <1>2, NatMin
  <1>4. Min(I) \in I
    <2> HIDE DEF I
    <2>1. QED
      BY <1>3 DEF Min
  <1>5. QED
    BY <1>1, <1>2, <1>4

-----------------------------------------------------------------------------
(* The invariant.                                                          *)

Mains == {"load", "run", "exit 0", "exit 1", "killed", "panic"}
Outcomes == {"ok", "failed"}

DomainsOK ==
    /\ Len(domains) \in Nat /\ Domains = 1 .. Len(domains)
    /\ \A i \in Domains : domains[i].fqdn.labels \in Labels /\ domains[i].zone.labels \in Labels
Types ==
    /\ cmd \in Cmds /\ main \in Mains /\ cancelled \in BOOLEAN
    /\ step \in [Domains -> Steps] /\ calling \in [Domains -> BOOLEAN]
    /\ last \in [Domains -> {"none"} \cup Outcomes]
TodoOK ==
    /\ Len(todo) \in Nat /\ DOMAIN todo = 1 .. Len(todo)
    /\ \A n \in 1 .. Len(todo) : todo[n] \in Domains
    /\ turn \in 0 .. Len(todo)
    /\ main = "load" => turn = 0
TurnsCount == \A n \in 1 .. turn : last[todo[n]] # "none" \/ step[todo[n]] # "none"
ExitOK ==
    cmd = "rotate" /\ main = "exit 0" => \A n \in 1 .. Len(todo) : last[todo[n]] = "ok"
Base == DomainsOK /\ Types /\ TodoOK /\ TurnsCount /\ ExitOK
OwnerIsOwner ==
    DOMAIN owner = Domains /\ \A i \in Domains : owner[i] \in {<<>>, Owner(domains[i])}
IInv == Base /\ OwnerIsOwner

USE DEF vars, mainVars, callVars, effectVars

LEMMA InitInv == Init => IInv
  <1> SUFFICES ASSUME Init PROVE IInv
    OBVIOUS
  <1>1. PICK raw \in Raw : domains = Loaded(raw.domains)
    BY DEF Init
  <1>2. raw.domains \in Seq(DomainConfig)
    BY DaemonAssumption
  <1>3. DomainsOK
    BY <1>1, <1>2, LoadedIs DEF DomainsOK, Domains
  <1>4. Types
    BY DEF Init, Types, Mains, Cmds, Steps, Outcomes
  <1>5. TodoOK
    <2>1. Len(todo) = 0 /\ DOMAIN todo = {} /\ turn = 0
      BY DEF Init
    <2>2. QED
      BY <2>1 DEF TodoOK
  <1>6. TurnsCount /\ ExitOK
    BY DEF Init, TurnsCount, ExitOK
  <1>7. OwnerIsOwner
    BY DEF Init, OwnerIsOwner
  <1>8. QED
    BY <1>3, <1>4, <1>5, <1>6, <1>7 DEF IInv, Base

-----------------------------------------------------------------------------
(* How a step of a rotation ends.                                          *)

LEMMA ReturnKeeps ==
    ASSUME Base, NEW i \in Domains, Running(i), NEW outcome \in Outcomes, Return(i, outcome)
    PROVE  Base'
  <1>1. main = "run" /\ main' \in {"run", "panic"}
    BY DEF Running, Return
  <1>2. /\ step' = [step EXCEPT ![i] = "none"] /\ calling' = [calling EXCEPT ![i] = FALSE]
        /\ last' = [last EXCEPT ![i] = outcome]
        /\ UNCHANGED <<domains, cmd, todo, turn, cancelled>> /\ Domains' = Domains
    BY DEF Return, NotCalling, Domains
  <1>3. DomainsOK'
    BY <1>2 DEF Base, DomainsOK
  <1>4. Types'
    BY <1>1, <1>2 DEF Base, Types, Mains, Steps, Outcomes
  <1>5. TodoOK' /\ ExitOK'
    BY <1>1, <1>2 DEF Base, TodoOK, ExitOK
  <1>6. TurnsCount'
    <2> SUFFICES ASSUME NEW n \in 1 .. turn
                 PROVE  last'[todo[n]] # "none" \/ step'[todo[n]] # "none"
      BY <1>2 DEF TurnsCount
    <2>1. todo[n] \in Domains
      BY DEF Base, TodoOK
    <2>2. CASE todo[n] = i
      BY <1>2, <2>2 DEF Base, Types, Outcomes
    <2>3. CASE todo[n] # i
      BY <1>2, <2>1, <2>3 DEF Base, Types, TurnsCount
    <2>4. QED
      BY <2>2, <2>3
  <1>7. QED
    BY <1>3, <1>4, <1>5, <1>6 DEF Base

LEMMA FollowingIs ==
    ASSUME NEW s \in {"build", "R1", "R3", "R4", "R5", "R6", "R7"}
    PROVE  Following[s] \in Steps \ {"none"}
  BY DEF Following, Steps

LEMMA AdvanceKeeps ==
    ASSUME Base, NEW i \in Domains, Running(i), step[i] # "R9", Advance(i)
    PROVE  Base'
  <1>1. /\ step' = [step EXCEPT ![i] = Following[step[i]]]
        /\ calling' = [calling EXCEPT ![i] = FALSE]
        /\ UNCHANGED <<domains, cmd, main, todo, turn, cancelled, last>> /\ Domains' = Domains
    BY DEF Advance, NotCalling, Domains
  <1>2. Following[step[i]] \in Steps \ {"none"}
    BY FollowingIs DEF Base, Types, Steps, Running
  <1>3. DomainsOK' /\ TodoOK' /\ ExitOK'
    BY <1>1 DEF Base, DomainsOK, TodoOK, ExitOK
  <1>4. Types'
    BY <1>1, <1>2 DEF Base, Types
  <1>5. TurnsCount'
    <2> SUFFICES ASSUME NEW n \in 1 .. turn
                 PROVE  last'[todo[n]] # "none" \/ step'[todo[n]] # "none"
      BY <1>1 DEF TurnsCount
    <2>1. todo[n] \in Domains
      BY DEF Base, TodoOK
    <2>2. CASE todo[n] = i
      BY <1>1, <1>2, <2>2 DEF Base, Types
    <2>3. CASE todo[n] # i
      BY <1>1, <2>1, <2>3 DEF Base, Types, TurnsCount
    <2>4. QED
      BY <2>2, <2>3
  <1>6. QED
    BY <1>3, <1>4, <1>5 DEF Base

LEMMA ContinueKeeps ==
    ASSUME Base, NEW i \in Domains, Continue(i)
    PROVE  Base'
  <1>1. /\ calling' = [calling EXCEPT ![i] = FALSE] /\ Domains' = Domains
        /\ UNCHANGED <<mainVars, step, last>>
    BY DEF Continue, NotCalling, Domains
  <1>2. Types'
    BY <1>1 DEF Base, Types
  <1>3. QED
    BY <1>1, <1>2 DEF Base, DomainsOK, TodoOK, TurnsCount, ExitOK

LEMMA EffectKeeps ==
    ASSUME OwnerIsOwner, NEW i \in Domains, domains' = domains, NoEffect \/ CarriedOut(i)
    PROVE  OwnerIsOwner'
  <1>1. Domains' = Domains
    BY DEF Domains
  <1>2. owner' = owner \/ owner' = [owner EXCEPT ![i] = Owner(domains[i])]
    BY DEF NoEffect, CarriedOut
  <1>3. QED
    BY <1>1, <1>2 DEF OwnerIsOwner

LEMMA RotationKeeps ==
    ASSUME IInv, NEW i \in Domains, Rotation(i)
    PROVE  IInv'
  <1> USE DEF IInv
  <1>0. domains' = domains /\ "ok" \in Outcomes /\ "failed" \in Outcomes
    BY DEF Rotation, rotateOne, Local, call, answer, cancelCall, Sleep, Fail, Done, Continue,
           Advance, Return, Outcomes
  <1>1. CASE rotateOne(i)
    <2>1. Running(i) /\ step[i] = "build" /\ (Advance(i) \/ Return(i, "failed")) /\ NoEffect
      BY <1>1 DEF rotateOne, NoEffect
    <2>2. QED
      BY <1>0, <2>1, ReturnKeeps, AdvanceKeeps, EffectKeeps
  <1>2. CASE Local(i)
    BY <1>0, <1>2, AdvanceKeeps, EffectKeeps DEF Local, NoEffect
  <1>3. CASE call(i)
    <2>1. /\ main = "run" /\ calling' = [calling EXCEPT ![i] = TRUE] /\ Domains' = Domains
          /\ UNCHANGED <<mainVars, loop, step, tick, last, effectVars>>
      BY <1>3 DEF call, Running, Domains
    <2>2. Types'
      BY <2>1 DEF Base, Types
    <2>3. Base'
      BY <2>1, <2>2 DEF Base, DomainsOK, TodoOK, TurnsCount, ExitOK
    <2>4. OwnerIsOwner'
      BY <2>1 DEF OwnerIsOwner
    <2>5. QED
      BY <2>3, <2>4
  <1>4. CASE answer(i)
    <2>1. /\ Running(i) /\ (NoEffect \/ CarriedOut(i))
          /\ (step[i] # "R9" /\ Advance(i)) \/ Return(i, "ok") \/ Continue(i)
      BY <1>4 DEF answer, Done
    <2>2. QED
      BY <1>0, <2>1, ReturnKeeps, AdvanceKeeps, ContinueKeeps, EffectKeeps
  <1>5. CASE cancelCall(i)
    <2>1. Running(i) /\ Return(i, "failed") /\ (NoEffect \/ CarriedOut(i))
      BY <1>5 DEF cancelCall
    <2>2. QED
      BY <1>0, <2>1, ReturnKeeps, EffectKeeps
  <1>6. CASE Sleep(i)
    <2>1. Running(i) /\ step[i] = "R5" /\ (Advance(i) \/ Return(i, "failed")) /\ NoEffect
      BY <1>6 DEF Sleep, NoEffect
    <2>2. QED
      BY <1>0, <2>1, ReturnKeeps, AdvanceKeeps, EffectKeeps
  <1>7. CASE Fail(i)
    <2>1. Running(i) /\ Return(i, "failed") /\ (NoEffect \/ CarriedOut(i))
      BY <1>7 DEF Fail
    <2>2. QED
      BY <1>0, <2>1, ReturnKeeps, EffectKeeps
  <1>8. QED
    BY <1>1, <1>2, <1>3, <1>4, <1>5, <1>6, <1>7 DEF Rotation

-----------------------------------------------------------------------------
(* The other steps.                                                        *)

LEMMA DoRotateKeeps == IInv /\ doRotate => IInv'
  <1> SUFFICES ASSUME IInv, doRotate PROVE IInv'
    OBVIOUS
  <1>1. /\ main = "load" /\ main' = "run" /\ Domains' = Domains /\ turn = 0
        /\ UNCHANGED <<domains, cmd, turn, cancelled, step, calling, last, owner>>
    BY DEF doRotate, Domains, IInv, Base, TodoOK
  <1>2. Len(domains) \in Nat /\ Domains = 1 .. Len(domains)
    BY DEF IInv, Base, DomainsOK
  <1>3. /\ Len(todo') \in Nat /\ DOMAIN todo' = 1 .. Len(todo')
        /\ \A n \in 1 .. Len(todo') : todo'[n] \in Domains
    <2>1. CASE todo' = [i \in Domains |-> i]
      BY <1>2, <2>1
    <2>2. CASE \E i \in Domains : todo' = <<findDomain(domains, domains[i].fqdn)>>
      <3>1. PICK i \in Domains : todo' = <<findDomain(domains, domains[i].fqdn)>>
        BY <2>2
      <3> DEFINE k == findDomain(domains, domains[i].fqdn)
      <3>2. k \in Domains
        BY <1>2, FoundIsDomain
      <3> HIDE DEF k
      <3>3. todo' = <<k>>
        BY <3>1 DEF k
      <3>4. QED
        BY <3>2, <3>3
    <2>3. QED
      BY <2>1, <2>2 DEF doRotate
  <1>4. TodoOK'
    BY <1>1, <1>3 DEF TodoOK
  <1>5. TurnsCount' /\ ExitOK'
    BY <1>1 DEF TurnsCount, ExitOK
  <1>6. DomainsOK' /\ Types' /\ OwnerIsOwner'
    BY <1>1 DEF IInv, Base, DomainsOK, Types, Mains, OwnerIsOwner
  <1>7. QED
    BY <1>4, <1>5, <1>6 DEF IInv, Base

LEMMA RotateNextKeeps == IInv /\ rotateNext => IInv'
  <1> SUFFICES ASSUME IInv, rotateNext PROVE IInv'
    OBVIOUS
  <1>1. /\ main = "run" /\ turn < Len(todo) /\ turn' = turn + 1 /\ Domains' = Domains
        /\ step' = [step EXCEPT ![todo[turn']] = "build"]
        /\ UNCHANGED <<domains, cmd, main, todo, cancelled, calling, last, owner>>
    BY DEF rotateNext, Domains
  <1>2. /\ Len(todo) \in Nat /\ turn \in 0 .. Len(todo)
        /\ \A n \in 1 .. Len(todo) : todo[n] \in Domains
    BY DEF IInv, Base, TodoOK
  <1>3. turn' \in 1 .. Len(todo) /\ \A n \in 1 .. turn' : n \in 1 .. turn \/ n = turn'
    BY <1>1, <1>2
  <1>4. TodoOK'
    BY <1>1, <1>3 DEF IInv, Base, TodoOK
  <1>5. TurnsCount'
    <2> SUFFICES ASSUME NEW n \in 1 .. turn'
                 PROVE  last'[todo[n]] # "none" \/ step'[todo[n]] # "none"
      BY <1>1 DEF TurnsCount
    <2>1. CASE n = turn'
      BY <1>1, <1>2, <1>3, <2>1 DEF IInv, Base, Types
    <2>2. CASE n \in 1 .. turn
      <3>1. last[todo[n]] # "none" \/ step[todo[n]] # "none"
        BY <2>2 DEF IInv, Base, TurnsCount
      <3>2. n \in 1 .. Len(todo)
        BY <1>2, <2>2
      <3>3. QED
        BY <1>1, <1>2, <3>1, <3>2 DEF IInv, Base, Types
    <2>3. QED
      BY <1>3, <2>1, <2>2
  <1>6. DomainsOK' /\ Types' /\ ExitOK' /\ OwnerIsOwner'
    BY <1>1 DEF IInv, Base, DomainsOK, Types, Steps, ExitOK, OwnerIsOwner
  <1>7. QED
    BY <1>4, <1>5, <1>6 DEF IInv, Base

LEMMA ExitKeeps == IInv /\ exit => IInv'
  <1> SUFFICES ASSUME IInv, exit PROVE IInv'
    OBVIOUS
  <1>1. /\ main = "run" /\ main' = IF cmd = "rotate" /\ Failed THEN "exit 1" ELSE "exit 0"
        /\ Domains' = Domains
        /\ UNCHANGED <<domains, cmd, todo, turn, cancelled, step, calling, last, owner>>
    BY DEF exit, Domains
  <1>2. ASSUME cmd = "rotate", ~Failed, NEW n \in 1 .. Len(todo)
        PROVE  last[todo[n]] = "ok"
    <2>1. turn = Len(todo) /\ \A i \in Domains : step[i] = "none"
      BY <1>2 DEF exit
    <2>2. todo[n] \in Domains /\ (last[todo[n]] # "none" \/ step[todo[n]] # "none")
      BY <2>1 DEF IInv, Base, TodoOK, TurnsCount
    <2>3. last[todo[n]] # "none" /\ last[todo[n]] # "failed"
      BY <1>2, <2>1, <2>2 DEF Failed
    <2>4. QED
      BY <2>2, <2>3 DEF IInv, Base, Types, Outcomes
  <1>3. ExitOK'
    BY <1>1, <1>2 DEF ExitOK
  <1>4. DomainsOK' /\ Types' /\ TodoOK' /\ TurnsCount' /\ OwnerIsOwner'
    BY <1>1 DEF IInv, Base, DomainsOK, Types, Mains, TodoOK, TurnsCount, OwnerIsOwner
  <1>5. QED
    BY <1>3, <1>4 DEF IInv, Base

LEMMA MainKeeps ==
    IInv /\ (loadRefused \/ doDaemon \/ Signal \/ Stopped) => IInv'
  <1> SUFFICES ASSUME IInv, loadRefused \/ doDaemon \/ Signal \/ Stopped PROVE IInv'
    OBVIOUS
  <1>1. /\ Domains' = Domains /\ UNCHANGED <<domains, cmd, todo, turn, calling, last, owner>>
        /\ step' = step \/ step' = [i \in Domains |-> "build"]
        /\ main' = main \/ (main' \in Mains \ {"load", "exit 0"})
        /\ cancelled' \in BOOLEAN
    BY DEF loadRefused, doDaemon, Signal, Stopped, Domains, Mains, IInv, Base, Types
  <1>2. Types'
    BY <1>1 DEF IInv, Base, Types, Steps
  <1>3. TurnsCount'
    <2>1. \A j \in Domains : step[j] # "none" => step'[j] # "none"
      BY <1>1
    <2>2. SUFFICES ASSUME NEW n \in 1 .. turn
                   PROVE  last[todo[n]] # "none" \/ step'[todo[n]] # "none"
      BY <1>1 DEF TurnsCount
    <2>3. todo[n] \in Domains
      BY DEF IInv, Base, TodoOK
    <2>4. QED
      BY <2>1, <2>3 DEF IInv, Base, TurnsCount
  <1>4. DomainsOK' /\ TodoOK' /\ ExitOK' /\ OwnerIsOwner'
    BY <1>1 DEF IInv, Base, DomainsOK, TodoOK, ExitOK, OwnerIsOwner
  <1>5. QED
    BY <1>2, <1>3, <1>4 DEF IInv, Base

LEMMA LoopKeeps == ASSUME IInv, NEW i \in Domains, Loop(i) \/ doInit(i) PROVE IInv'
  <1>1. /\ Domains' = Domains /\ UNCHANGED <<mainVars, calling, last>>
        /\ step' = step \/ step' = [step EXCEPT ![i] = "build"]
        /\ owner' = owner \/ owner' = [owner EXCEPT ![i] = Owner(domains[i])]
    BY DEF Loop, Tick, selectTick, selectDone, doInit, Domains
  <1>2. Types'
    BY <1>1 DEF IInv, Base, Types, Steps
  <1>3. TurnsCount'
    <2>1. \A j \in Domains : step[j] # "none" => step'[j] # "none"
      BY <1>1 DEF IInv, Base, Types
    <2>2. QED
      BY <1>1, <2>1 DEF IInv, Base, TurnsCount, TodoOK
  <1>4. OwnerIsOwner'
    BY <1>1 DEF IInv, OwnerIsOwner
  <1>5. DomainsOK' /\ TodoOK' /\ ExitOK'
    BY <1>1 DEF IInv, Base, DomainsOK, TodoOK, ExitOK
  <1>6. QED
    BY <1>2, <1>3, <1>4, <1>5 DEF IInv, Base

LEMMA InvStep == IInv /\ [Next]_vars => IInv'
  <1> SUFFICES ASSUME IInv, [Next]_vars PROVE IInv'
    OBVIOUS
  <1>1. CASE UNCHANGED vars
    BY <1>1 DEF IInv, Base, DomainsOK, Types, TodoOK, TurnsCount, ExitOK, OwnerIsOwner, Domains
  <1>2. CASE loadRefused \/ doDaemon \/ Signal \/ Stopped
    BY <1>2, MainKeeps
  <1>3. CASE doRotate \/ rotateNext \/ exit
    BY <1>3, DoRotateKeeps, RotateNextKeeps, ExitKeeps
  <1>4. CASE \E i \in Domains : Rotation(i) \/ Loop(i) \/ doInit(i)
    BY <1>4, RotationKeeps, LoopKeeps
  <1>5. QED
    BY <1>1, <1>2, <1>3, <1>4 DEF Next

LEMMA InvAlways == Spec => []IInv
  BY InitInv, InvStep, PTL DEF Spec

-----------------------------------------------------------------------------
(* The theorems.                                                           *)

\* `rotate` exits with 0 only if every domain it was asked for was rotated, for
\* every configuration file.
THEOREM ExitStatusIsTrue == Spec => []ExitStatusTells
  <1>1. IInv => ExitStatusTells
    BY DEF IInv, Base, ExitOK, TodoOK, ExitStatusTells
  <1>2. QED
    BY <1>1, InvAlways, PTL

\* Every record that init or a rotation writes is the one at record_fqdn, for every
\* name and zone that contains it, unless the relative name is ambiguous.
THEOREM RecordIsAtItsName == Spec => []PublishesAtRecord
  <1>1. IInv => PublishesAtRecord
    BY OwnerIsRecord DEF IInv, Base, DomainsOK, OwnerIsOwner, PublishesAtRecord
  <1>2. QED
    BY <1>1, InvAlways, PTL

-----------------------------------------------------------------------------
(* Shutdown.                                                               *)

\* What is under way after the signal was so when the signal came.
SignalFoundIt ==
    /\ underway \in [Domains -> BOOLEAN] /\ late \in [Domains -> Nat]
    /\ ~cancelled => \A i \in Domains : late[i] = 0
    /\ cancelled => \A i \in Domains : calling[i] => underway[i] /\ late[i] = 0

LateStep == \A i \in Domains : late'[i] # late[i] => underway[i] /\ late'[i] = 1

LEMMA SignalInit == Init => SignalFoundIt
  BY DEF Init, SignalFoundIt

\* A step of a rotation begins a request, or ends one that may have been carried out.
LEMMA RotationAfterSignal ==
    ASSUME IInv, SignalFoundIt, NEW i \in Domains, Rotation(i)
    PROVE  SignalFoundIt' /\ LateStep
  <1>1. Domains' = Domains /\ cancelled' = cancelled
    BY DEF Rotation, rotateOne, Local, call, answer, cancelCall, Sleep, Fail, Done, Continue,
           Advance, Return, Domains
  <1>2. calling \in [Domains -> BOOLEAN]
    BY DEF IInv, Base, Types
  <1>3. CASE call(i)
    <2>1. ~cancelled /\ late' = late /\ underway' = underway
      BY <1>3 DEF call
    <2>2. QED
      BY <1>1, <2>1 DEF SignalFoundIt, LateStep
  <1>4. CASE ~call(i)
    <2>1. NotCalling(i)
      BY <1>4 DEF Rotation, rotateOne, Local, answer, cancelCall, Sleep, Fail, Done, Continue,
                  Advance, Return
    <2>2. NoEffect \/ CarriedOut(i)
      BY <1>4 DEF Rotation, rotateOne, Local, answer, cancelCall, Sleep, Fail, NoEffect
    <2>3. /\ calling' = [calling EXCEPT ![i] = FALSE]
          /\ underway' = [underway EXCEPT ![i] = FALSE]
      BY <2>1 DEF NotCalling
    <2>4. CASE late' = late
      BY <1>1, <1>2, <2>3, <2>4 DEF SignalFoundIt, LateStep
    <2>5. CASE late' # late
      <3>1. calling[i] /\ cancelled /\ late' = [late EXCEPT ![i] = @ + 1]
        BY <2>2, <2>5 DEF NoEffect, CarriedOut
      <3>2. underway[i] /\ late[i] = 0
        BY <3>1 DEF SignalFoundIt
      <3>3. LateStep
        BY <3>1, <3>2 DEF SignalFoundIt, LateStep
      <3>4. SignalFoundIt'
        BY <1>1, <1>2, <2>3, <3>1, <3>2 DEF SignalFoundIt
      <3>5. QED
        BY <3>3, <3>4
    <2>6. QED
      BY <2>4, <2>5
  <1>5. QED
    BY <1>3, <1>4

LEMMA SignalStep == IInv /\ SignalFoundIt /\ [Next]_vars => SignalFoundIt' /\ LateStep
  <1> SUFFICES ASSUME IInv, SignalFoundIt, [Next]_vars PROVE SignalFoundIt' /\ LateStep
    OBVIOUS
  <1>1. CASE \E i \in Domains : Rotation(i)
    BY <1>1, RotationAfterSignal
  <1>2. CASE Signal
    <2>1. /\ ~cancelled /\ underway' = calling /\ calling' = calling /\ late' = late
          /\ Domains' = Domains
      BY <1>2 DEF Signal, Domains
    <2>2. calling \in [Domains -> BOOLEAN]
      BY DEF IInv, Base, Types
    <2>3. QED
      BY <2>1, <2>2 DEF SignalFoundIt, LateStep
  <1>3. CASE \/ loadRefused \/ doDaemon \/ doRotate \/ rotateNext \/ exit \/ Stopped
             \/ (\E i \in Domains : Loop(i) \/ doInit(i)) \/ UNCHANGED vars
    <2>1. UNCHANGED <<cancelled, calling, underway, late>> /\ Domains' = Domains
      BY <1>3 DEF loadRefused, doDaemon, doRotate, rotateNext, exit, Stopped, Loop, Tick,
                  selectTick, selectDone, doInit, Domains
    <2>2. QED
      BY <2>1 DEF SignalFoundIt, LateStep
  <1>4. QED
    BY <1>1, <1>2, <1>3 DEF Next

\* After the signal a domain's server and record see at most the one request that the
\* signal found under way, for any number of domains and of requests a publication takes.
THEOREM ShutdownIsBrief == Spec => OnlyTheCallUnderWay
  <1>1. IInv /\ SignalFoundIt /\ [Next]_vars => [LateStep]_vars
    BY SignalStep
  <1>2. Spec => []SignalFoundIt
    BY SignalInit, SignalStep, InvAlways, PTL DEF Spec
  <1>3. QED
    BY <1>1, <1>2, InvAlways, PTL DEF Spec, OnlyTheCallUnderWay, LateStep
=============================================================================
