------------------------- MODULE EchConfigListProofs -------------------------
(***************************************************************************)
(* What the encoder of ECH configurations accepts, the decoder gives back: *)
(* every field of every config and every entry of another version, for     *)
(* every list (internal/echconfig).                                        *)
(*                                                                         *)
(* FlattenSeq puts each part of an encoding at a place; reading from that  *)
(* place gives the part and the rest.  The recursive functions in Items    *)
(* and Selected are shown to exist and followed by induction on a set of   *)
(* numbers (UpTo), from the end of the data to its start.                  *)
(***************************************************************************)
EXTENDS EchConfigList, NaturalsInduction, SequenceTheorems, WellFoundedInduction, TLAPS

Byte == 0 .. 255
UInt16 == 0 .. 65535
ItemRec == [kind : UInt16, data : Seq(Byte)]

LEMMA Constants == MaxLength \in Nat /\ MaxLength >= 4 /\ MaxLength <= 65535
  BY EchConfigListAssumption

-----------------------------------------------------------------------------
(* Sequences.                                                              *)

\* Induction up to a bound, for a set of numbers.
LEMMA UpTo ==
    ASSUME NEW N \in Nat, NEW S, 0 \in S, \A n \in 0 .. N - 1 : n \in S => n + 1 \in S
    PROVE  \A n \in 0 .. N : n \in S
  <1> SUFFICES ASSUME NEW k \in 0 .. N, k \notin S PROVE FALSE
    OBVIOUS
  <1> DEFINE Bad == {n \in 0 .. N : n \notin S}
  <1>1. Bad \subseteq Nat /\ Bad # {}
    OBVIOUS
  <1>2. \E m \in Bad : \A n \in Bad : ~(<<n, m>> \in OpToRel(<, Nat))
    <2> HIDE DEF Bad
    <2>1. QED
      BY <1>1, NatLessThanWellFounded, WFMin
  <1>3. PICK m \in Bad : \A n \in Bad : ~(<<n, m>> \in OpToRel(<, Nat))
    BY <1>2
  <1>4. m \in 0 .. N /\ m \notin S /\ m # 0
    BY <1>3
  <1> HIDE DEF Bad
  <1>5. m \in Nat /\ m - 1 \in 0 .. N - 1 /\ m - 1 \in 0 .. N /\ (m - 1) + 1 = m
    BY <1>4
  <1>6. m - 1 \notin S
    BY <1>4, <1>5
  <1>7. m - 1 \in Bad
    BY <1>5, <1>6 DEF Bad
  <1>8. <<m - 1, m>> \in OpToRel(<, Nat)
    BY <1>5 DEF OpToRel
  <1>9. QED
    BY <1>3, <1>7, <1>8

LEMMA FunctionIsSeq ==
    ASSUME NEW S, NEW n \in Nat, NEW f \in [1 .. n -> S]
    PROVE  f \in Seq(S) /\ Len(f) = n
  <1>1. f \in Seq(S)
    BY SeqDef
  <1>2. QED
    BY <1>1, LenProperties

LEMMA Singleton ==
    ASSUME NEW S, NEW e \in S
    PROVE  <<e>> \in Seq(S) /\ Len(<<e>>) = 1 /\ <<e>>[1] = e
  OBVIOUS

\* Places in the second half of a concatenation.
LEMMA Shift ==
    ASSUME NEW a \in Nat, NEW b \in Nat, NEW c \in Nat, NEW d \in Nat, b + c <= d
    PROVE  \A j \in 1 .. c :
              /\ b + j \in 1 .. d
              /\ (a + b) + j \in 1 .. a + d
              /\ ~((a + b) + j <= a)
              /\ ((a + b) + j) - a = b + j
  OBVIOUS

\* And in the first half.
LEMMA Before ==
    ASSUME NEW a \in Nat, NEW b \in Nat, NEW c \in Nat, NEW d \in Nat, b + c <= d
    PROVE  \A j \in 1 .. c : b + j \in 1 .. d + a /\ b + j <= d
  OBVIOUS

LEMMA EndsWithin ==
    ASSUME NEW a \in Nat, NEW b \in Nat, NEW c \in Nat, NEW d \in Nat, b + c <= d
    PROVE  a + (b + c) = (a + b) + c /\ a + (b + c) <= a + d
  OBVIOUS

\* u has the elements of s and then those of t.
Joins(X, s, t, u, m, n) ==
    /\ {s, t, u} \subseteq Seq(X) /\ {m, n} \subseteq Nat
    /\ Len(s) = m /\ Len(t) = n /\ Len(u) = m + n
    /\ \A i \in 1 .. m : u[i] = s[i]
    /\ \A i \in 1 .. n : u[m + i] = t[i]

LEMMA JoinedIs ==
    ASSUME NEW X, NEW s, NEW t, NEW u, NEW m, NEW n, Joins(X, s, t, u, m, n)
    PROVE  s \o t = u
  <1> DEFINE v == s \o t
  <1>0. /\ s \in Seq(X) /\ t \in Seq(X) /\ u \in Seq(X) /\ m \in Nat /\ n \in Nat
        /\ Len(s) = m /\ Len(t) = n /\ Len(u) = m + n
        /\ \A i \in 1 .. m : u[i] = s[i]
        /\ \A i \in 1 .. n : u[m + i] = t[i]
    BY DEF Joins
  <1>1. /\ v \in Seq(X) /\ Len(v) = m + n
        /\ \A i \in 1 .. m + n : v[i] = IF i <= m THEN s[i] ELSE t[i - m]
    BY <1>0, ConcatProperties
  <1> HIDE DEF v
  <1>2. ASSUME NEW i \in 1 .. m + n PROVE v[i] = u[i]
    <2>1. CASE i <= m
      BY <1>0, <1>1, <2>1
    <2>2. CASE ~(i <= m)
      <3>1. i - m \in 1 .. n /\ m + (i - m) = i
        BY <1>0, <2>2
      <3>2. QED
        BY <1>0, <1>1, <2>2, <3>1
    <2>3. QED
      BY <2>1, <2>2
  <1>3. v = u
    BY <1>0, <1>1, <1>2, SeqEqual
  <1>4. QED
    BY <1>3 DEF v

LEMMA OneAndTwo ==
    ASSUME NEW a, NEW b, NEW c
    PROVE  <<a>> \o <<b, c>> = <<a, b, c>>
  <1> DEFINE X == {a, b, c}
             s == <<a>>
             t == <<b, c>>
             u == <<a, b, c>>
  <1>1. s \in Seq(X) /\ t \in Seq(X) /\ u \in Seq(X) /\ Len(s) = 1 /\ Len(t) = 2 /\ Len(u) = 1 + 2
    OBVIOUS
  <1>2. u[1] = s[1] /\ \A i \in 1 .. 2 : u[1 + i] = t[i]
    OBVIOUS
  <1> HIDE DEF s, t, u, X
  <1>3. Joins(X, s, t, u, 1, 2)
    BY <1>1, <1>2 DEF Joins
  <1>4. s \o t = u
    BY <1>3, JoinedIs
  <1>5. QED
    BY <1>4 DEF s, t, u

LEMMA TwoAndTwo ==
    ASSUME NEW a, NEW b, NEW c, NEW d
    PROVE  <<a, b>> \o <<c, d>> = <<a, b, c, d>>
  <1> DEFINE X == {a, b, c, d}
             s == <<a, b>>
             t == <<c, d>>
             u == <<a, b, c, d>>
  <1>1. s \in Seq(X) /\ t \in Seq(X) /\ u \in Seq(X) /\ Len(s) = 2 /\ Len(t) = 2 /\ Len(u) = 2 + 2
    OBVIOUS
  <1>2. \A i \in 1 .. 2 : u[i] = s[i] /\ u[2 + i] = t[i]
    OBVIOUS
  <1> HIDE DEF s, t, u, X
  <1>3. Joins(X, s, t, u, 2, 2)
    BY <1>1, <1>2 DEF Joins
  <1>4. s \o t = u
    BY <1>3, JoinedIs
  <1>5. QED
    BY <1>4 DEF s, t, u

LEMMA TwoAndFour ==
    ASSUME NEW a, NEW b, NEW c, NEW d, NEW e, NEW f
    PROVE  <<a, b>> \o <<c, d, e, f>> = <<a, b, c, d, e, f>>
  <1> DEFINE X == {a, b, c, d, e, f}
             s == <<a, b>>
             t == <<c, d, e, f>>
             u == <<a, b, c, d, e, f>>
  <1>1. s \in Seq(X) /\ t \in Seq(X) /\ u \in Seq(X) /\ Len(s) = 2 /\ Len(t) = 4 /\ Len(u) = 2 + 4
    OBVIOUS
  <1>2. \A i \in 1 .. 2 : u[i] = s[i]
    OBVIOUS
  <1>3. \A i \in 1 .. 4 : u[2 + i] = t[i]
    OBVIOUS
  <1> HIDE DEF s, t, u, X
  <1>4. Joins(X, s, t, u, 2, 4)
    BY <1>1, <1>2, <1>3 DEF Joins
  <1>5. s \o t = u
    BY <1>4, JoinedIs
  <1>6. QED
    BY <1>5 DEF s, t, u

\* T is the sequences of s, one after the other; the i-th begins behind at[i - 1].
Places(T, s, at) ==
    /\ at \in [0 .. Len(s) -> Nat] /\ at[0] = 0 /\ at[Len(s)] = Len(T)
    /\ \A i \in 1 .. Len(s) :
          /\ at[i] = at[i - 1] + Len(s[i]) /\ at[i] <= Len(T)
          /\ \A j \in 1 .. Len(s[i]) : T[at[i - 1] + j] = s[i][j]

Flat(s, n, f) == f = [i \in 1 .. n |-> IF i = 1 THEN s[i] ELSE f[i - 1] \o s[i]]

\* FlattenSeq is defined with CHOOSE: there is a function to choose.
LEMMA FlatExists ==
    ASSUME NEW S, NEW s \in Seq(S)
    PROVE  \E f : Flat(s, Len(s), f)
  <1> DEFINE G == {n \in 0 .. Len(s) : \E f : Flat(s, n, f)}
  <1>0. Len(s) \in Nat
    BY LenProperties
  <1>1. 0 \in G
    <2> DEFINE f == [i \in 1 .. 0 |-> s[i]]
    <2>1. f = [i \in 1 .. 0 |-> IF i = 1 THEN s[i] ELSE f[i - 1] \o s[i]]
      OBVIOUS
    <2> HIDE DEF f
    <2>2. Flat(s, 0, f)
      BY <2>1 DEF Flat
    <2>3. QED
      BY <1>0, <2>2
  <1>2. ASSUME NEW n \in 0 .. Len(s) - 1, n \in G PROVE n + 1 \in G
    <2>1. PICK f : Flat(s, n, f)
      BY <1>2
    <2>2. /\ DOMAIN f = 1 .. n
          /\ \A i \in 1 .. n : f[i] = IF i = 1 THEN s[i] ELSE f[i - 1] \o s[i]
      BY <2>1 DEF Flat
    <2> DEFINE h == [i \in 1 .. n + 1 |-> IF i = 1 THEN s[i] ELSE f[i - 1] \o s[i]]
    <2>3. ASSUME NEW i \in 1 .. n PROVE h[i] = f[i]
      <3>1. i \in 1 .. n + 1
        OBVIOUS
      <3>2. h[i] = IF i = 1 THEN s[i] ELSE f[i - 1] \o s[i]
        BY <3>1
      <3>3. QED
        BY <2>2, <3>2
    <2>4. \A i \in 1 .. n + 1 : i # 1 => i - 1 \in 1 .. n
      OBVIOUS
    <2>5. \A i \in 1 .. n + 1 : i # 1 => h[i - 1] = f[i - 1]
      <3> HIDE DEF h
      <3>1. QED
        BY <2>3, <2>4
    <2>6. h = [i \in 1 .. n + 1 |-> IF i = 1 THEN s[i] ELSE h[i - 1] \o s[i]]
      BY <2>5
    <2> HIDE DEF h
    <2>7. Flat(s, n + 1, h)
      BY <2>6 DEF Flat
    <2>8. n + 1 \in 0 .. Len(s)
      BY <1>0
    <2>9. QED
      BY <2>7, <2>8
  <1> HIDE DEF G
  <1>3. Len(s) \in G
    <2>1. \A n \in 0 .. Len(s) : n \in G
      BY <1>0, <1>1, <1>2, UpTo
    <2>2. QED
      BY <1>0, <2>1
  <1>4. QED
    BY <1>3 DEF G

LEMMA FlattenIs ==
    ASSUME NEW S, NEW s \in Seq(S), Len(s) # 0
    PROVE  \E f : Flat(s, Len(s), f) /\ FlattenSeq(s) = f[Len(s)]
  <1> DEFINE F == CHOOSE f : Flat(s, Len(s), f)
  <1>1. Flat(s, Len(s), F)
    BY FlatExists
  <1>2. FlattenSeq(s) = F[Len(s)]
    BY DEF FlattenSeq, Flat
  <1>3. QED
    BY <1>1, <1>2

\* FlattenSeq as the last of the concatenations of the first sequences.
LEMMA FlattenSteps ==
    ASSUME NEW X, NEW s \in Seq(Seq(X))
    PROVE  \E f \in [0 .. Len(s) -> Seq(X)] :
              /\ f[0] = <<>> /\ f[Len(s)] = FlattenSeq(s)
              /\ \A i \in 1 .. Len(s) : f[i] = f[i - 1] \o s[i]
  <1>0. Len(s) \in Nat /\ \A i \in 1 .. Len(s) : s[i] \in Seq(X)
    BY LenProperties, ElementOfSeq
  <1>1. CASE Len(s) = 0
    <2>1. s = <<>>
      BY <1>1, EmptySeq
    <2>2. FlattenSeq(s) = <<>> /\ <<>> \in Seq(X)
      BY <1>1, <2>1, EmptySeq DEF FlattenSeq
    <2> DEFINE f == [i \in 0 .. Len(s) |-> <<>>]
    <2>3. /\ f \in [0 .. Len(s) -> Seq(X)] /\ f[0] = <<>> /\ f[Len(s)] = FlattenSeq(s)
          /\ \A i \in 1 .. Len(s) : f[i] = f[i - 1] \o s[i]
      BY <1>1, <2>2
    <2>4. QED
      BY <2>3
  <1>2. CASE Len(s) # 0
    <2>1. PICK g : Flat(s, Len(s), g) /\ FlattenSeq(s) = g[Len(s)]
      BY <1>2, FlattenIs
    <2>2. \A i \in 1 .. Len(s) : g[i] = IF i = 1 THEN s[i] ELSE g[i - 1] \o s[i]
      BY <2>1 DEF Flat
    <2> DEFINE f == [i \in 0 .. Len(s) |-> IF i = 0 THEN <<>> ELSE g[i]]
               G == {n \in 0 .. Len(s) : f[n] \in Seq(X)}
    <2>3. /\ DOMAIN f = 0 .. Len(s) /\ f[0] = <<>> /\ f[Len(s)] = FlattenSeq(s)
          /\ \A i \in 1 .. Len(s) : f[i] = g[i]
      BY <1>0, <1>2, <2>1
    <2>4. f = [i \in 0 .. Len(s) |-> f[i]]
      OBVIOUS
    <2> HIDE DEF f
    <2>5. ASSUME NEW i \in 1 .. Len(s) PROVE f[i] = f[i - 1] \o s[i]
      <3>1. CASE i = 1
        <4>1. <<>> \o s[1] = s[1] /\ i - 1 = 0
          BY <1>0, <3>1, ConcatEmptySeq
        <4>2. QED
          BY <2>2, <2>3, <3>1, <4>1
      <3>2. CASE i # 1
        <4>1. i - 1 \in 1 .. Len(s)
          BY <3>2
        <4>2. QED
          BY <2>2, <2>3, <3>2, <4>1
      <3>3. QED
        BY <3>1, <3>2
    <2>6. 0 \in G
      <3>1. 0 \in 0 .. Len(s) /\ f[0] \in Seq(X)
        BY <1>0, <2>3, EmptySeq
      <3>2. QED
        BY <3>1
    <2>7. ASSUME NEW n \in 0 .. Len(s) - 1, n \in G PROVE n + 1 \in G
      <3>1. n + 1 \in 1 .. Len(s) /\ (n + 1) - 1 = n /\ n + 1 \in 0 .. Len(s)
        BY <1>0
      <3>2. f[n + 1] = f[n] \o s[n + 1] /\ s[n + 1] \in Seq(X) /\ f[n] \in Seq(X)
        BY <1>0, <2>5, <2>7, <3>1
      <3>3. f[n + 1] \in Seq(X)
        BY <3>2, ConcatProperties
      <3>4. QED
        BY <3>1, <3>3
    <2> HIDE DEF G
    <2>8. \A n \in 0 .. Len(s) : n \in G
      BY <1>0, <2>6, <2>7, UpTo
    <2>9. \A n \in 0 .. Len(s) : f[n] \in Seq(X)
      BY <2>8 DEF G
    <2>10. f \in [0 .. Len(s) -> Seq(X)]
      BY <2>4, <2>9
    <2>11. QED
      BY <2>3, <2>5, <2>10
  <1>3. QED
    BY <1>1, <1>2

\* Every part is found at its place in the flattened sequence.
LEMMA FlattenPlaces ==
    ASSUME NEW X, NEW s \in Seq(Seq(X))
    PROVE  FlattenSeq(s) \in Seq(X) /\ \E at : Places(FlattenSeq(s), s, at)
  <1>0. Len(s) \in Nat /\ \A i \in 1 .. Len(s) : s[i] \in Seq(X) /\ Len(s[i]) \in Nat
    BY LenProperties, ElementOfSeq
  <1>1. PICK f \in [0 .. Len(s) -> Seq(X)] :
              /\ f[0] = <<>> /\ f[Len(s)] = FlattenSeq(s)
              /\ \A i \in 1 .. Len(s) : f[i] = f[i - 1] \o s[i]
    BY FlattenSteps
  <1> DEFINE at == [i \in 0 .. Len(s) |-> Len(f[i])]
             Fits(n) == \A i \in 1 .. n :
                           /\ at[i] = at[i - 1] + Len(s[i]) /\ at[i] <= Len(f[n])
                           /\ \A j \in 1 .. Len(s[i]) : f[n][at[i - 1] + j] = s[i][j]
             G == {n \in 0 .. Len(s) : Fits(n)}
  <1>2. \A i \in 0 .. Len(s) : f[i] \in Seq(X) /\ Len(f[i]) \in Nat /\ at[i] = Len(f[i])
    BY LenProperties
  <1>3. at \in [0 .. Len(s) -> Nat] /\ at[0] = 0 /\ at[Len(s)] = Len(FlattenSeq(s))
    BY <1>0, <1>1, <1>2, EmptySeq
  <1> HIDE DEF at
  <1>4. 0 \in G
    BY <1>0
  <1>5. ASSUME NEW n \in 0 .. Len(s) - 1, n \in G PROVE n + 1 \in G
    <2> DEFINE k == n + 1
               a == f[n]
               b == s[k]
    <2>1. k \in 1 .. Len(s) /\ k - 1 = n /\ k \in 0 .. Len(s) /\ n \in 0 .. Len(s)
      BY <1>0
    <2>2. a \in Seq(X) /\ b \in Seq(X) /\ Len(a) \in Nat /\ Len(b) \in Nat /\ f[k] = a \o b
      BY <1>0, <1>1, <1>2, <2>1
    <2>3. /\ Len(f[k]) = Len(a) + Len(b)
          /\ \A i \in 1 .. Len(a) : f[k][i] = a[i]
          /\ \A i \in 1 .. Len(b) : f[k][Len(a) + i] = b[i]
      <3> HIDE DEF a, b, k
      <3>1. /\ Len(a \o b) = Len(a) + Len(b)
            /\ \A i \in 1 .. Len(a) + Len(b) :
                  (a \o b)[i] = IF i <= Len(a) THEN a[i] ELSE b[i - Len(a)]
        BY <2>2, ConcatProperties
      <3>2. \A i \in 1 .. Len(a) : i \in 1 .. Len(a) + Len(b) /\ i <= Len(a)
        BY <2>2
      <3>3. \A i \in 1 .. Len(b) :
               /\ Len(a) + i \in 1 .. Len(a) + Len(b) /\ ~(Len(a) + i <= Len(a))
               /\ (Len(a) + i) - Len(a) = i
        BY <2>2
      <3>4. QED
        BY <2>2, <3>1, <3>2, <3>3
    <2>4. at[n] = Len(a) /\ at[k] = Len(a) + Len(b)
      BY <1>2, <2>1, <2>3
    <2>5. ASSUME NEW i \in 1 .. k
          PROVE  /\ at[i] = at[i - 1] + Len(s[i]) /\ at[i] <= Len(f[k])
                 /\ \A j \in 1 .. Len(s[i]) : f[k][at[i - 1] + j] = s[i][j]
      <3>1. CASE i = k
        <4>1. i - 1 = n /\ s[i] = b /\ f[k] = f[i]
          BY <2>1, <3>1
        <4> HIDE DEF a, b, k
        <4>2. at[i] = at[i - 1] + Len(s[i]) /\ at[i] <= Len(f[k])
          <5>1. at[i] = Len(a) + Len(b) /\ at[i - 1] = Len(a) /\ Len(s[i]) = Len(b)
            BY <2>4, <3>1, <4>1
          <5>2. Len(f[k]) = Len(a) + Len(b)
            BY <2>3
          <5>3. Len(a) + Len(b) <= Len(a) + Len(b)
            BY <2>2
          <5>4. QED
            BY <5>1, <5>2, <5>3
        <4>3. \A j \in 1 .. Len(s[i]) : f[k][at[i - 1] + j] = s[i][j]
          BY <2>3, <2>4, <4>1
        <4>4. QED
          BY <4>2, <4>3
      <3>2. CASE i # k
        <4> HIDE DEF a, b
        <4>1. i \in 1 .. n /\ i - 1 \in 0 .. Len(s) /\ i \in 1 .. Len(s) /\ i \in 0 .. Len(s)
          BY <1>0, <2>1, <3>2
        <4>2. /\ at[i] = at[i - 1] + Len(s[i]) /\ at[i] <= Len(a)
              /\ \A j \in 1 .. Len(s[i]) : a[at[i - 1] + j] = s[i][j]
          BY <1>5, <4>1 DEF a
        <4>3. at[i - 1] \in Nat /\ at[i] \in Nat /\ Len(s[i]) \in Nat
          BY <1>0, <1>3, <4>1
        <4>4. \A j \in 1 .. Len(s[i]) : at[i - 1] + j \in 1 .. Len(a)
          <5>1. at[i - 1] + Len(s[i]) <= Len(a) /\ Len(a) \in Nat
            BY <2>2, <4>2
          <5>2. QED
            BY <4>3, <5>1, Shift
        <4>5. at[i] <= Len(f[k])
          BY <2>2, <2>3, <4>2, <4>3
        <4>6. QED
          BY <2>3, <4>2, <4>4, <4>5
      <3>3. QED
        BY <3>1, <3>2
    <2>6. QED
      BY <2>1, <2>5
  <1> HIDE DEF G
  <1>6. Len(s) \in G
    <2>1. \A n \in 0 .. Len(s) : n \in G
      BY <1>0, <1>4, <1>5, UpTo
    <2>2. QED
      BY <1>0, <2>1
  <1>7. Fits(Len(s))
    BY <1>6 DEF G
  <1>8. Places(FlattenSeq(s), s, at)
    BY <1>1, <1>3, <1>7 DEF Places
  <1>9. FlattenSeq(s) \in Seq(X)
    BY <1>0, <1>1
  <1>10. QED
    BY <1>8, <1>9

LEMMA FlattenOne ==
    ASSUME NEW X, NEW e \in Seq(X)
    PROVE  FlattenSeq(<<e>>) = e
  <1> DEFINE s == <<e>>
  <1>1. s \in Seq(Seq(X)) /\ Len(s) = 1 /\ s[1] = e
    OBVIOUS
  <1> HIDE DEF s
  <1>2. PICK f \in [0 .. Len(s) -> Seq(X)] :
              /\ f[0] = <<>> /\ f[Len(s)] = FlattenSeq(s)
              /\ \A i \in 1 .. Len(s) : f[i] = f[i - 1] \o s[i]
    BY <1>1, FlattenSteps
  <1>3. f[1] = f[0] \o e /\ f[0] = <<>> /\ f[1] = FlattenSeq(s)
    <2>1. 1 \in 1 .. 1 /\ 1 - 1 = 0
      OBVIOUS
    <2>2. \A i \in 1 .. 1 : f[i] = f[i - 1] \o s[i]
      BY <1>1, <1>2
    <2>3. f[1] = f[1 - 1] \o s[1]
      BY <2>1, <2>2
    <2>4. QED
      BY <1>1, <1>2, <2>1, <2>3
  <1>4. <<>> \o e = e
    BY ConcatEmptySeq
  <1>5. QED
    BY <1>3, <1>4 DEF s

\* The parts of two lists, in the concatenation of what they flatten to.
LEMMA ConcatPlaces ==
    ASSUME NEW X, NEW T \in Seq(X), NEW U \in Seq(X),
           NEW s \in Seq(Seq(X)), NEW t \in Seq(Seq(X)),
           NEW at, NEW bt, Places(T, s, at), Places(U, t, bt)
    PROVE  \E ct : Places(T \o U, s \o t, ct)
  <1>0. /\ Len(s) \in Nat /\ \A i \in 1 .. Len(s) : s[i] \in Seq(X) /\ Len(s[i]) \in Nat
        /\ Len(t) \in Nat /\ \A i \in 1 .. Len(t) : t[i] \in Seq(X) /\ Len(t[i]) \in Nat
        /\ Len(T) \in Nat /\ Len(U) \in Nat
    BY LenProperties, ElementOfSeq
  <1> DEFINE m == Len(s)
             n == Len(t)
             v == s \o t
             W == T \o U
             ct == [i \in 0 .. m + n |-> IF i <= m THEN at[i] ELSE Len(T) + bt[i - m]]
  <1>1. /\ Len(v) = m + n /\ Len(W) = Len(T) + Len(U)
        /\ \A i \in 1 .. m + n : v[i] = IF i <= m THEN s[i] ELSE t[i - m]
        /\ \A i \in 1 .. Len(T) + Len(U) : W[i] = IF i <= Len(T) THEN T[i] ELSE U[i - Len(T)]
    BY ConcatProperties
  <1>2. /\ at \in [0 .. m -> Nat] /\ at[0] = 0 /\ at[m] = Len(T)
        /\ bt \in [0 .. n -> Nat] /\ bt[0] = 0 /\ bt[n] = Len(U)
    BY DEF Places
  <1>3. /\ DOMAIN ct = 0 .. m + n
        /\ \A i \in 0 .. m : ct[i] = at[i] /\ ct[i] \in Nat
        /\ \A i \in 0 .. n : ct[m + i] = Len(T) + bt[i] /\ ct[m + i] \in Nat
    <2>1. \A i \in 0 .. m : i \in 0 .. m + n /\ i <= m
      BY <1>0
    <2>2. \A i \in 0 .. n : m + i \in 0 .. m + n /\ (m + i <= m => i = 0) /\ (m + i) - m = i
      BY <1>0
    <2> HIDE DEF m, n
    <2>3. \A i \in 0 .. m : ct[i] = at[i]
      BY <2>1
    <2>4. \A i \in 0 .. n : ct[m + i] = IF m + i <= m THEN at[m + i] ELSE Len(T) + bt[i]
      BY <2>2
    <2>5. ASSUME NEW i \in 0 .. n PROVE ct[m + i] = Len(T) + bt[i]
      <3>1. CASE i = 0
        <4>1. m + 0 = m /\ Len(T) + 0 = Len(T) /\ 0 \in 0 .. n /\ m <= m
          BY <1>0 DEF m, n
        <4>2. QED
          BY <1>2, <2>4, <3>1, <4>1
      <3>2. CASE i # 0
        BY <2>2, <2>4, <3>2
      <3>3. QED
        BY <3>1, <3>2
    <2>6. DOMAIN ct = 0 .. m + n
      OBVIOUS
    <2> HIDE DEF ct
    <2>7. \A i \in 0 .. m : at[i] \in Nat
      BY <1>2
    <2>8. ASSUME NEW i \in 0 .. n PROVE bt[i] \in Nat /\ Len(T) + bt[i] \in Nat
      <3>1. bt[i] \in Nat
        BY <1>2
      <3>2. QED
        BY <1>0, <3>1
    <2>9. QED
      BY <2>3, <2>5, <2>6, <2>7, <2>8
  <1>4. ct = [i \in 0 .. m + n |-> ct[i]]
    OBVIOUS
  <1> HIDE DEF ct, v, W
  <1>5. \A i \in 0 .. m + n : i \in 0 .. m \/ (i - m \in 1 .. n /\ i = m + (i - m))
    BY <1>0
  <1>6. ct \in [0 .. Len(v) -> Nat] /\ ct[0] = 0 /\ ct[Len(v)] = Len(W)
    <2>1. \A i \in 0 .. m + n : ct[i] \in Nat
      <3> SUFFICES ASSUME NEW i \in 0 .. m + n PROVE ct[i] \in Nat
        OBVIOUS
      <3>1. CASE i \in 0 .. m
        BY <1>3, <3>1
      <3>2. CASE i - m \in 1 .. n /\ i = m + (i - m)
        <4>1. i - m \in 0 .. n
          BY <3>2
        <4>2. QED
          BY <1>3, <3>2, <4>1
      <3>3. QED
        BY <1>5, <3>1, <3>2
    <2>2. ct \in [0 .. m + n -> Nat]
      BY <1>4, <2>1
    <2>3. 0 \in 0 .. m /\ n \in 0 .. n
      BY <1>0
    <2>4. QED
      BY <1>1, <1>2, <1>3, <2>2, <2>3
  <1>7. ASSUME NEW i \in 1 .. Len(v)
        PROVE  /\ ct[i] = ct[i - 1] + Len(v[i]) /\ ct[i] <= Len(W)
               /\ \A j \in 1 .. Len(v[i]) : W[ct[i - 1] + j] = v[i][j]
    <2>1. CASE i \in 1 .. m
      <3>1. i \in 0 .. m /\ i - 1 \in 0 .. m /\ v[i] = s[i] /\ i <= m
        BY <1>0, <1>1, <2>1
      <3>2. /\ at[i] = at[i - 1] + Len(s[i]) /\ at[i] <= Len(T)
            /\ \A j \in 1 .. Len(s[i]) : T[at[i - 1] + j] = s[i][j]
        BY <2>1 DEF Places
      <3>3. at[i] \in Nat /\ at[i - 1] \in Nat /\ Len(s[i]) \in Nat
        BY <1>0, <1>2, <2>1, <3>1
      <3>4. \A j \in 1 .. Len(s[i]) :
               at[i - 1] + j \in 1 .. Len(T) + Len(U) /\ at[i - 1] + j <= Len(T)
        <4> DEFINE a == Len(U)
                   b == at[i - 1]
                   c == Len(s[i])
                   d == Len(T)
        <4>1. a \in Nat /\ b \in Nat /\ c \in Nat /\ d \in Nat /\ b + c <= d
          BY <1>0, <3>2, <3>3
        <4> HIDE DEF a, b, c, d
        <4>2. \A j \in 1 .. c : b + j \in 1 .. d + a /\ b + j <= d
          BY <4>1, Before
        <4>3. QED
          BY <4>2 DEF a, b, c, d
      <3>5. ct[i] = at[i] /\ ct[i - 1] = at[i - 1]
        BY <1>3, <3>1
      <3>6. at[i] <= Len(W)
        BY <1>0, <1>1, <3>2, <3>3
      <3>7. QED
        BY <1>1, <3>1, <3>2, <3>4, <3>5, <3>6
    <2>2. CASE i \notin 1 .. m
      <3> DEFINE k == i - m
      <3>1. /\ k \in 1 .. n /\ k \in 0 .. n /\ k - 1 \in 0 .. n /\ i = m + k /\ i - 1 = m + (k - 1)
            /\ i \in 1 .. m + n /\ ~(i <= m)
        BY <1>0, <1>1, <2>2
      <3>2. v[i] = t[k]
        BY <1>1, <3>1
      <3> HIDE DEF k
      <3>3. /\ bt[k] = bt[k - 1] + Len(t[k]) /\ bt[k] <= Len(U)
            /\ \A j \in 1 .. Len(t[k]) : U[bt[k - 1] + j] = t[k][j]
        BY <3>1 DEF Places
      <3>4. bt[k] \in Nat /\ bt[k - 1] \in Nat /\ Len(t[k]) \in Nat
        BY <1>0, <1>2, <3>1
      <3>5. ct[i] = Len(T) + bt[k] /\ ct[i - 1] = Len(T) + bt[k - 1]
        BY <1>3, <3>1
      <3>6. \A j \in 1 .. Len(t[k]) :
               /\ (Len(T) + bt[k - 1]) + j \in 1 .. Len(T) + Len(U)
               /\ ~((Len(T) + bt[k - 1]) + j <= Len(T))
               /\ ((Len(T) + bt[k - 1]) + j) - Len(T) = bt[k - 1] + j
        <4> DEFINE a == Len(T)
                   b == bt[k - 1]
                   c == Len(t[k])
                   d == Len(U)
        <4>1. a \in Nat /\ b \in Nat /\ c \in Nat /\ d \in Nat /\ b + c <= d
          BY <1>0, <3>3, <3>4
        <4> HIDE DEF a, b, c, d
        <4>2. \A j \in 1 .. c : /\ (a + b) + j \in 1 .. a + d
                                /\ ~((a + b) + j <= a)
                                /\ ((a + b) + j) - a = b + j
          BY <4>1, Shift
        <4>3. QED
          BY <4>2 DEF a, b, c, d
      <3>7. \A j \in 1 .. Len(t[k]) : W[(Len(T) + bt[k - 1]) + j] = t[k][j]
        BY <1>1, <3>3, <3>6
      <3>8. ct[i] = ct[i - 1] + Len(t[k]) /\ ct[i] <= Len(W)
        <4> DEFINE a == Len(T)
                   b == bt[k - 1]
                   c == Len(t[k])
                   d == Len(U)
        <4>1. a \in Nat /\ b \in Nat /\ c \in Nat /\ d \in Nat /\ b + c <= d
          BY <1>0, <3>3, <3>4
        <4>2. ct[i] = a + (b + c) /\ ct[i - 1] = a + b /\ Len(W) = a + d
          BY <1>1, <3>3, <3>5
        <4> HIDE DEF a, b, c, d
        <4>3. ct[i] = ct[i - 1] + c /\ ct[i] <= Len(W)
          BY <4>1, <4>2, EndsWithin
        <4>4. QED
          BY <4>3 DEF c
      <3>9. QED
        BY <3>2, <3>5, <3>7, <3>8
    <2>3. QED
      BY <2>1, <2>2
  <1>8. Places(W, v, ct)
    BY <1>6, <1>7 DEF Places
  <1>9. QED
    BY <1>8 DEF W, v

-----------------------------------------------------------------------------
(* Bytes, and reading what was written.                                    *)

\* Bytes and 16-bit numbers.
LEMMA Widths ==
    /\ \A n \in Nat : n <= 255 => n \in Byte
    /\ \A n \in Nat : n <= 65535 => n \in UInt16
    /\ \A n \in Byte : n \in Nat /\ n <= 255 /\ n \in UInt16
    /\ \A n \in UInt16 : n \in Nat /\ n <= 65535
  <1>1. ASSUME NEW n \in Nat, n <= 65535 PROVE n \in UInt16
    <2> DEFINE N == 65535
    <2>1. N \in Nat /\ n <= N /\ UInt16 = 0 .. N
      BY <1>1 DEF UInt16
    <2> HIDE DEF N
    <2>2. n \in 0 .. N
      BY <2>1
    <2>3. QED
      BY <2>1, <2>2
  <1>2. \A n \in Nat : n <= 255 => n \in Byte
    BY DEF Byte
  <1>3. \A n \in Byte : n \in Nat /\ n <= 255
    BY DEF Byte
  <1>4. \A n \in UInt16 : n \in Nat /\ n <= 65535
    BY DEF UInt16
  <1>5. \A n \in Byte : n \in UInt16
    <2> SUFFICES ASSUME NEW n \in Byte PROVE n \in UInt16
      OBVIOUS
    <2>1. n \in Nat /\ n <= 65535
      BY <1>3
    <2>2. QED
      BY <1>1, <2>1
  <1>6. QED
    BY <1>1, <1>2, <1>3, <1>4, <1>5

LEMMA SmallRemainder == ASSUME NEW n \in Nat, NEW m \in Nat, n < m PROVE n % m = n
  OBVIOUS

LEMMA RemainderFits == ASSUME NEW n \in Nat, NEW m \in Nat, 0 < m PROVE n % m \in 0 .. m - 1
  OBVIOUS

LEMMA TwoBytes ==
    ASSUME NEW n \in UInt16
    PROVE  Bytes(n, 2) \in Seq(Byte) /\ Len(Bytes(n, 2)) = 2 /\ Number(Bytes(n, 2)) = n
  <1> DEFINE h == n \div 256
             l == n % 256
  <1>1. h \in Byte /\ l \in Byte /\ 256 * h + l = n
    BY DEF UInt16, Byte
  <1>2. Bytes(n, 2) = <<h, l>>
    BY DEF Bytes
  <1> HIDE DEF h, l
  <1>3. <<h, l>> \in Seq(Byte) /\ Len(<<h, l>>) = 2
    BY <1>1
  <1>4. Number(<<h, l>>) = 256 * h + l
    BY DEF Number
  <1>5. QED
    BY <1>1, <1>2, <1>3, <1>4

LEMMA OneByte ==
    ASSUME NEW n \in Byte
    PROVE  /\ Bytes(n, 1) = <<n>> /\ <<n>> \in Seq(Byte) /\ Len(<<n>>) = 1
           /\ Number(<<n>>) = n
  BY DEF Bytes, Number

LEMMA ConcatParts ==
    ASSUME NEW X, NEW a \in Seq(X), NEW b \in Seq(X)
    PROVE  /\ SubSeq(a \o b, 1, Len(a)) = a
           /\ SubSeq(a \o b, Len(a) + 1, Len(a \o b)) = b
           /\ Len(a \o b) = Len(a) + Len(b) /\ Len(a) \in Nat /\ Len(b) \in Nat
           /\ a \o b \in Seq(X)
  <1> DEFINE s == a \o b
             m == Len(a)
             n == Len(b)
             p == SubSeq(s, 1, m)
             q == SubSeq(s, m + 1, m + n)
  <1>1. /\ s \in Seq(X) /\ Len(s) = m + n /\ m \in Nat /\ n \in Nat
        /\ \A i \in 1 .. m + n : s[i] = IF i <= m THEN a[i] ELSE b[i - m]
        /\ \A i \in 1 .. m + n : s[i] \in X
    BY ConcatProperties, LenProperties, ElementOfSeq
  <1> HIDE DEF s, m, n
  <1>2. p = a
    <2>1. \A i \in 1 .. m : s[i] \in X
      BY <1>1
    <2>2. /\ p \in Seq(X) /\ Len(p) = (IF 1 <= m THEN m - 1 + 1 ELSE 0)
          /\ \A i \in 1 .. m - 1 + 1 : p[i] = s[1 + i - 1]
      BY <1>1, <2>1, SubSeqProperties
    <2> HIDE DEF p
    <2>3. Len(p) = m /\ \A i \in 1 .. m : p[i] = a[i]
      BY <1>1, <2>2
    <2>4. QED
      BY <2>2, <2>3, SeqEqual DEF m
  <1>3. q = b
    <2>1. \A i \in m + 1 .. m + n : s[i] \in X
      BY <1>1
    <2>2. /\ q \in Seq(X) /\ Len(q) = (IF m + 1 <= m + n THEN m + n - (m + 1) + 1 ELSE 0)
          /\ \A i \in 1 .. m + n - (m + 1) + 1 : q[i] = s[m + 1 + i - 1]
      BY <1>1, <2>1, SubSeqProperties
    <2> HIDE DEF q
    <2>3. Len(q) = n
      BY <1>1, <2>2
    <2>4. ASSUME NEW i \in 1 .. n PROVE q[i] = b[i]
      <3>1. i \in 1 .. m + n - (m + 1) + 1 /\ m + 1 + i - 1 = m + i
        BY <1>1
      <3>2. m + i \in 1 .. m + n /\ ~(m + i <= m) /\ (m + i) - m = i
        BY <1>1
      <3>3. QED
        BY <1>1, <2>2, <3>1, <3>2
    <2>5. QED
      BY <2>2, <2>3, <2>4, SeqEqual DEF n
  <1>4. QED
    BY <1>1, <1>2, <1>3 DEF s, m, n

\* What was written first is read first.
LEMMA ReadConcat ==
    ASSUME NEW a \in Seq(Byte), NEW b \in Seq(Byte)
    PROVE  Read(a \o b, Len(a)) = [ok |-> TRUE, val |-> a, rest |-> b]
  <1> DEFINE s == a \o b
             n == Len(a)
  <1>1. /\ SubSeq(s, 1, n) = a /\ SubSeq(s, n + 1, Len(s)) = b
        /\ Len(s) = n + Len(b) /\ n \in Nat /\ Len(b) \in Nat
    BY ConcatParts
  <1> HIDE DEF s, n
  <1>2. ~(Len(s) < n)
    BY <1>1
  <1>3. Read(s, n) = [ok |-> TRUE, val |-> a, rest |-> b]
    BY <1>1, <1>2 DEF Read
  <1>4. QED
    BY <1>3 DEF s, n

LEMMA ReadPair ==
    ASSUME NEW a \in Seq(Byte), NEW b \in Seq(Byte), NEW c \in Seq(Byte)
    PROVE  Read((a \o b) \o c, Len(a)) = [ok |-> TRUE, val |-> a, rest |-> b \o c] /\ b \o c \in Seq(Byte)
  <1>1. (a \o b) \o c = a \o (b \o c)
    BY ConcatAssociative
  <1>2. b \o c \in Seq(Byte)
    BY ConcatProperties
  <1>3. QED
    BY <1>1, <1>2, ReadConcat

\* What a prefix of this width can count.
Limit(width) == IF width = 1 THEN 255 ELSE MaxLength
Modulus(width) == IF width = 1 THEN 256 ELSE MaxLength + 1

LEMMA PrefixBytes ==
    ASSUME NEW width \in {1, 2}, NEW n \in 0 .. Limit(width),
           NEW b, b = Bytes(n % Modulus(width), width)
    PROVE  b \in Seq(Byte) /\ Len(b) = width /\ Number(b) = n
  <1>1. CASE width = 1
    <2>1. n \in Byte /\ n % 256 = n
      BY <1>1, SmallRemainder DEF Limit, Byte
    <2>2. b = Bytes(n, 1)
      BY <1>1, <2>1 DEF Modulus
    <2>3. QED
      BY <1>1, <2>1, <2>2, OneByte
  <1>2. CASE width = 2
    <2> DEFINE M == MaxLength
    <2>1. M \in Nat /\ M <= 65535 /\ n \in 0 .. M
      BY <1>2, Constants DEF Limit
    <2> HIDE DEF M
    <2>2. n \in Nat /\ M + 1 \in Nat /\ n < M + 1 /\ n <= 65535
      BY <2>1
    <2>3. n \in Nat /\ MaxLength + 1 \in Nat /\ n < MaxLength + 1 /\ n \in UInt16
      BY <2>2, Widths DEF M
    <2>4. n % (MaxLength + 1) = n
      BY <2>3, SmallRemainder
    <2>5. b = Bytes(n, 2)
      BY <1>2, <2>4 DEF Modulus
    <2>6. QED
      BY <1>2, <2>3, <2>5, TwoBytes
  <1>3. QED
    BY <1>1, <1>2

\* A prefix and its data.
LEMMA PrefixedLength ==
    ASSUME NEW width \in {1, 2}, NEW data \in Seq(Byte)
    PROVE  Prefixed(data, width) \in Seq(Byte) /\ Len(Prefixed(data, width)) = width + Len(data)
  <1> DEFINE m == Modulus(width)
             n == Len(data) % m
             b == Bytes(n, width)
  <1>1. Len(data) \in Nat
    BY LenProperties
  <1>2. b \in Seq(Byte) /\ Len(b) = width
    <2>1. /\ m \in Nat /\ 0 < m
          /\ width = 1 => m = 256
          /\ width = 2 => m <= 65536
      BY Constants DEF Modulus
    <2> HIDE DEF m
    <2>2. n \in 0 .. m - 1
      BY <1>1, <2>1, RemainderFits
    <2> HIDE DEF n
    <2>3. CASE width = 1
      <3>1. n \in Nat /\ n <= 255
        BY <2>1, <2>2, <2>3
      <3>2. n \in Byte
        BY <3>1, Widths
      <3>3. QED
        BY <2>3, <3>2, OneByte
    <2>4. CASE width = 2
      <3>1. n \in Nat /\ n <= 65535
        BY <2>1, <2>2, <2>4
      <3>2. n \in UInt16
        BY <3>1, Widths
      <3>3. QED
        BY <2>4, <3>2, TwoBytes
    <2>5. QED
      BY <2>3, <2>4
  <1>3. Prefixed(data, width) = b \o data
    BY DEF Prefixed, Modulus
  <1> HIDE DEF b
  <1>4. QED
    BY <1>2, <1>3, ConcatProperties

\* Length-prefixed data that fits is read back, with the rest behind it.
LEMMA ReadPrefixedConcat ==
    ASSUME NEW width \in {1, 2}, NEW data \in Seq(Byte), NEW rest \in Seq(Byte),
           Len(data) <= Limit(width)
    PROVE  ReadPrefixed(Prefixed(data, width) \o rest, width) =
              [ok |-> TRUE, val |-> data, rest |-> rest]
  <1> DEFINE n == Len(data)
             b == Bytes(n % Modulus(width), width)
  <1>1. n \in 0 .. Limit(width) /\ n \in Nat
    BY LenProperties, Constants DEF Limit
  <1> HIDE DEF n
  <1>2. b \in Seq(Byte) /\ Len(b) = width /\ Number(b) = n
    BY <1>1, PrefixBytes
  <1>3. Prefixed(data, width) = b \o data
    BY DEF Prefixed, Modulus, n
  <1> HIDE DEF b
  <1>4. Prefixed(data, width) \o rest = b \o (data \o rest) /\ data \o rest \in Seq(Byte)
    BY <1>2, <1>3, ConcatAssociative, ConcatProperties
  <1>5. Read(b \o (data \o rest), width) = [ok |-> TRUE, val |-> b, rest |-> data \o rest]
    BY <1>2, <1>4, ReadConcat
  <1>6. Read(data \o rest, n) = [ok |-> TRUE, val |-> data, rest |-> rest]
    BY ReadConcat DEF n
  <1>7. QED
    BY <1>2, <1>4, <1>5, <1>6 DEF ReadPrefixed

LEMMA ReadPrefixedAll ==
    ASSUME NEW width \in {1, 2}, NEW data \in Seq(Byte), Len(data) <= Limit(width)
    PROVE  ReadPrefixed(Prefixed(data, width), width) = [ok |-> TRUE, val |-> data, rest |-> <<>>]
  <1>1. <<>> \in Seq(Byte)
    BY EmptySeq
  <1>2. ReadPrefixed(Prefixed(data, width) \o <<>>, width) = [ok |-> TRUE, val |-> data, rest |-> <<>>]
    BY <1>1, ReadPrefixedConcat
  <1>3. Prefixed(data, width) \in Seq(Byte)
    BY PrefixedLength
  <1>4. Prefixed(data, width) \o <<>> = Prefixed(data, width)
    BY <1>3, ConcatEmptySeq
  <1>5. QED
    BY <1>2, <1>4

LEMMA ItemLength ==
    ASSUME NEW kind \in UInt16, NEW data \in Seq(Byte)
    PROVE  Item(kind, data) \in Seq(Byte) /\ Len(Item(kind, data)) = 4 + Len(data)
  <1> DEFINE b == Bytes(kind, 2)
             p == Prefixed(data, 2)
  <1>1. p \in Seq(Byte) /\ Len(p) = 2 + Len(data) /\ Len(data) \in Nat
    BY PrefixedLength, LenProperties
  <1>2. b \in Seq(Byte) /\ Len(b) = 2
    BY TwoBytes
  <1>3. Item(kind, data) = b \o p
    BY DEF Item
  <1> HIDE DEF b, p
  <1>4. b \o p \in Seq(Byte) /\ Len(b \o p) = Len(b) + Len(p)
    BY <1>1, <1>2, ConcatProperties
  <1>5. QED
    BY <1>1, <1>2, <1>3, <1>4

\* The first two reads of Items.
\* So is an item.
LEMMA ReadItem ==
    ASSUME NEW kind \in UInt16, NEW data \in Seq(Byte), NEW rest \in Seq(Byte),
           Len(data) <= MaxLength
    PROVE  /\ Number(Read(Item(kind, data) \o rest, 2).val) = kind
           /\ ReadPrefixed(Read(Item(kind, data) \o rest, 2).rest, 2) =
                 [ok |-> TRUE, val |-> data, rest |-> rest]
  <1> DEFINE b == Bytes(kind, 2)
             p == Prefixed(data, 2)
  <1>1. b \in Seq(Byte) /\ Len(b) = 2 /\ Number(b) = kind
    BY TwoBytes
  <1>2. p \in Seq(Byte)
    BY PrefixedLength DEF Limit
  <1>3. ReadPrefixed(p \o rest, 2) = [ok |-> TRUE, val |-> data, rest |-> rest]
    BY ReadPrefixedConcat DEF Limit
  <1>4. Item(kind, data) = b \o p
    BY DEF Item
  <1> HIDE DEF b, p
  <1>5. Read((b \o p) \o rest, Len(b)) = [ok |-> TRUE, val |-> b, rest |-> p \o rest]
    BY <1>1, <1>2, ReadPair
  <1>6. Len(b) = 2 /\ Item(kind, data) \o rest = (b \o p) \o rest
    BY <1>1, <1>4
  <1>7. Read(Item(kind, data) \o rest, 2) = [ok |-> TRUE, val |-> b, rest |-> p \o rest]
    BY <1>5, <1>6
  <1> DEFINE r == Read(Item(kind, data) \o rest, 2)
  <1>8. r.val = b /\ r.rest = p \o rest
    BY <1>7
  <1> HIDE DEF r
  <1>9. Number(r.val) = kind /\ ReadPrefixed(r.rest, 2) = [ok |-> TRUE, val |-> data, rest |-> rest]
    BY <1>1, <1>3, <1>8
  <1>10. QED
    BY <1>9 DEF r

\* A reader returns a part of what it reads.
LEMMA ReadShrinks ==
    ASSUME NEW s \in Seq(Byte), NEW n \in Nat
    PROVE  /\ Read(s, n).ok \in BOOLEAN
           /\ Read(s, n).val \in Seq(Byte) /\ Read(s, n).rest \in Seq(Byte)
           /\ Len(Read(s, n).rest) \in 0 .. Len(s)
           /\ Read(s, n).ok => Len(Read(s, n).val) = n /\ Len(Read(s, n).rest) = Len(s) - n
           /\ ~Read(s, n).ok => Read(s, n).val = <<>> /\ Read(s, n).rest = <<>>
  <1>0. Len(s) \in Nat /\ DOMAIN s = 1 .. Len(s) /\ \A i \in 1 .. Len(s) : s[i] \in Byte
    BY LenProperties, ElementOfSeq
  <1>1. CASE Len(s) < n
    <2>1. Read(s, n) = [ok |-> FALSE, val |-> <<>>, rest |-> <<>>]
      BY <1>1 DEF Read, Short
    <2>2. <<>> \in Seq(Byte) /\ Len(<<>>) = 0
      BY EmptySeq
    <2>3. QED
      BY <1>0, <2>1, <2>2
  <1>2. CASE ~(Len(s) < n)
    <2> DEFINE v == SubSeq(s, 1, n)
               r == SubSeq(s, n + 1, Len(s))
    <2>1. Read(s, n) = [ok |-> TRUE, val |-> v, rest |-> r]
      BY <1>2 DEF Read
    <2>2. v \in Seq(Byte) /\ Len(v) = n
      <3>1. \A i \in 1 .. n : s[i] \in Byte
        BY <1>0, <1>2
      <3>2. v \in Seq(Byte) /\ Len(v) = IF 1 <= n THEN n - 1 + 1 ELSE 0
        BY <3>1, SubSeqProperties
      <3>3. QED
        BY <3>2
    <2>3. r \in Seq(Byte) /\ Len(r) = Len(s) - n
      <3>1. \A i \in n + 1 .. Len(s) : s[i] \in Byte
        BY <1>0, <1>2
      <3>2. r \in Seq(Byte) /\ Len(r) = IF n + 1 <= Len(s) THEN Len(s) - (n + 1) + 1 ELSE 0
        <4> DEFINE a == n + 1
                   b == Len(s)
        <4>1. a \in Int /\ b \in Int /\ \A i \in a .. b : s[i] \in Byte
          BY <1>0, <3>1
        <4> HIDE DEF a, b
        <4>2. SubSeq(s, a, b) \in Seq(Byte) /\ Len(SubSeq(s, a, b)) = IF a <= b THEN b - a + 1 ELSE 0
          BY <4>1, SubSeqProperties
        <4>3. QED
          BY <4>2 DEF a, b
      <3> HIDE DEF r
      <3>3. CASE n + 1 <= Len(s)
        BY <1>0, <3>2, <3>3
      <3>4. CASE n = Len(s)
        BY <1>0, <3>2, <3>4
      <3>5. n + 1 <= Len(s) \/ n = Len(s)
        <4> DEFINE k == Len(s)
        <4>1. k \in Nat /\ n \in Nat /\ ~(k < n)
          BY <1>0, <1>2
        <4> HIDE DEF k
        <4>2. n + 1 <= k \/ n = k
          BY <4>1
        <4>3. QED
          BY <4>2 DEF k
      <3>6. QED
        BY <3>2, <3>3, <3>4, <3>5
    <2> HIDE DEF v, r
    <2>4. Read(s, n).ok = TRUE /\ Read(s, n).val = v /\ Read(s, n).rest = r
      BY <2>1
    <2>5. Len(r) \in 0 .. Len(s)
      BY <1>0, <1>2, <2>3
    <2>6. QED
      BY <2>2, <2>3, <2>4, <2>5
  <1>3. QED
    BY <1>1, <1>2

LEMMA NumberIsNat == ASSUME NEW s \in Seq(Byte) PROVE Number(s) \in Nat
  <1>0. Len(s) \in Nat /\ \A i \in 1 .. Len(s) : s[i] \in Nat
    <2>1. Len(s) \in Nat /\ \A i \in 1 .. Len(s) : s[i] \in Byte
      BY LenProperties, ElementOfSeq
    <2>2. Byte \subseteq Nat
      BY DEF Byte
    <2>3. QED
      BY <2>1, <2>2
  <1>1. \/ Len(s) = 1 /\ Number(s) = s[1]
        \/ Len(s) = 2 /\ Number(s) = 256 * s[1] + s[2]
        \/ Number(s) = 0
    BY DEF Number
  <1> DEFINE a == s[1]
             b == s[2]
  <1>2. CASE Len(s) = 1 /\ Number(s) = a
    <2>1. a \in Nat
      BY <1>0, <1>2
    <2>2. QED
      BY <1>2, <2>1
  <1>3. CASE Len(s) = 2 /\ Number(s) = 256 * a + b
    <2>1. a \in Nat /\ b \in Nat
      BY <1>0, <1>3
    <2> HIDE DEF a, b
    <2>2. 256 * a + b \in Nat
      BY <2>1
    <2>3. QED
      BY <1>3, <2>2
  <1>4. CASE Number(s) = 0
    BY <1>4
  <1>5. QED
    BY <1>1, <1>2, <1>3, <1>4

\* What the loop of Items reads when n bytes are left.
Left(s, n) == SubSeq(s, Len(s) - n + 1, Len(s))
KindAt(s, n) == Read(Left(s, n), 2)
DataAt(s, n) == ReadPrefixed(KindAt(s, n).rest, 2)
Loop(s, n, f) ==
    f = [m \in 0 .. n |->
            IF m = 0 THEN <<>>
            ELSE <<[ok |-> DataAt(s, m).ok, kind |-> Number(KindAt(s, m).val), data |-> DataAt(s, m).val]>>
                 \o IF DataAt(s, m).ok THEN f[Len(DataAt(s, m).rest)] ELSE <<>>]

LEMMA LeftIs ==
    ASSUME NEW s \in Seq(Byte), NEW n \in 0 .. Len(s)
    PROVE  Left(s, n) \in Seq(Byte) /\ Len(Left(s, n)) = n
           /\ \A i \in 1 .. n : Left(s, n)[i] = s[Len(s) - n + i]
  <1>0. Len(s) \in Nat /\ \A i \in 1 .. Len(s) : s[i] \in Byte
    BY LenProperties, ElementOfSeq
  <1> DEFINE a == Len(s) - n + 1
             r == SubSeq(s, a, Len(s))
  <1>1. a \in Int /\ \A i \in a .. Len(s) : s[i] \in Byte
    BY <1>0
  <1>2. /\ r \in Seq(Byte) /\ Len(r) = (IF a <= Len(s) THEN Len(s) - a + 1 ELSE 0)
        /\ \A i \in 1 .. Len(s) - a + 1 : r[i] = s[a + i - 1]
    <2> HIDE DEF a
    <2>1. QED
      BY <1>0, <1>1, SubSeqProperties
  <1> HIDE DEF r
  <1>3. Len(s) - a + 1 = n /\ \A i \in 1 .. n : a + i - 1 = Len(s) - n + i
    BY <1>0
  <1>4. Len(r) = n /\ \A i \in 1 .. n : r[i] = s[Len(s) - n + i]
    BY <1>0, <1>2, <1>3
  <1>5. QED
    BY <1>2, <1>4 DEF Left, r

\* The loop of Items gets nearer to the end with each item.
LEMMA LoopShrinks ==
    ASSUME NEW s \in Seq(Byte), NEW n \in 1 .. Len(s), DataAt(s, n).ok
    PROVE  Len(DataAt(s, n).rest) \in 0 .. n - 1
  <1> DEFINE l == Left(s, n)
             k == KindAt(s, n)
             p == Read(k.rest, 2)
             c == Number(p.val)
  <1>0. Len(s) \in Nat /\ n \in 0 .. Len(s) /\ n \in Nat
    BY LenProperties
  <1>1. l \in Seq(Byte) /\ Len(l) = n
    BY <1>0, LeftIs
  <1>2. /\ k.rest \in Seq(Byte)
        /\ Len(k.rest) \in 0 .. n /\ (k.ok => Len(k.rest) = n - 2) /\ k.ok \in BOOLEAN
        /\ (~k.ok => k.rest = <<>>)
    <2> HIDE DEF l
    <2>1. k = Read(l, 2)
      BY DEF KindAt, l
    <2>2. QED
      BY <1>1, <2>1, ReadShrinks
  <1> HIDE DEF k
  <1>3. DataAt(s, n) = IF p.ok THEN Read(p.rest, c) ELSE Short
    BY DEF DataAt, ReadPrefixed, k
  <1>4. /\ p.ok /\ DataAt(s, n) = Read(p.rest, c)
    BY <1>3 DEF Short
  <1>5. p.val \in Seq(Byte) /\ p.rest \in Seq(Byte) /\ Len(p.rest) = Len(k.rest) - 2
    BY <1>2, <1>4, ReadShrinks
  <1>6. Len(p.rest) \in Nat
    BY <1>5, LenProperties
  <1>7. c \in Nat
    BY <1>5, NumberIsNat
  <1> HIDE DEF p, c
  <1>8. Len(Read(p.rest, c).rest) \in 0 .. Len(p.rest)
    BY <1>5, <1>7, ReadShrinks
  <1>9. QED
    BY <1>0, <1>2, <1>4, <1>5, <1>6, <1>8

\* So the recursive function in Items exists.
LEMMA LoopExists ==
    ASSUME NEW s \in Seq(Byte)
    PROVE  \E f : Loop(s, Len(s), f)
  <1> DEFINE G == {n \in 0 .. Len(s) : \E f : Loop(s, n, f)}
             Value(f, m) ==
                IF m = 0 THEN <<>>
                ELSE <<[ok |-> DataAt(s, m).ok, kind |-> Number(KindAt(s, m).val), data |-> DataAt(s, m).val]>>
                     \o IF DataAt(s, m).ok THEN f[Len(DataAt(s, m).rest)] ELSE <<>>
  <1>0. Len(s) \in Nat
    BY LenProperties
  <1>1. 0 \in G
    <2> DEFINE f == [m \in 0 .. 0 |-> <<>>]
    <2>1. f = [m \in 0 .. 0 |-> Value(f, m)]
      OBVIOUS
    <2> HIDE DEF f
    <2>2. Loop(s, 0, f)
      BY <2>1 DEF Loop
    <2>3. QED
      BY <1>0, <2>2
  <1>2. ASSUME NEW n \in 0 .. Len(s) - 1, n \in G PROVE n + 1 \in G
    <2>1. PICK f : Loop(s, n, f)
      BY <1>2
    <2>2. f = [m \in 0 .. n |-> Value(f, m)]
      BY <2>1 DEF Loop
    <2> HIDE DEF Value
    <2>3. \A m \in 0 .. n : f[m] = Value(f, m)
      BY <2>2
    <2> DEFINE h == [m \in 0 .. n + 1 |-> Value(f, m)]
    <2>4. ASSUME NEW m \in 0 .. n PROVE h[m] = f[m]
      <3>1. m \in 0 .. n + 1
        OBVIOUS
      <3>2. QED
        BY <2>3, <3>1
    <2> HIDE DEF h
    <2>5. ASSUME NEW m \in 0 .. n + 1 PROVE Value(f, m) = Value(h, m)
      <3>1. CASE m # 0 /\ DataAt(s, m).ok
        <4>1. m \in 1 .. Len(s)
          BY <1>0, <3>1
        <4>2. Len(DataAt(s, m).rest) \in 0 .. m - 1
          BY <3>1, <4>1, LoopShrinks
        <4>3. Len(DataAt(s, m).rest) \in 0 .. n
          BY <4>2
        <4>4. f[Len(DataAt(s, m).rest)] = h[Len(DataAt(s, m).rest)]
          BY <2>4, <4>3
        <4>5. QED
          BY <4>4 DEF Value
      <3>2. CASE ~(m # 0 /\ DataAt(s, m).ok)
        BY <3>2 DEF Value
      <3>3. QED
        BY <3>1, <3>2
    <2>6. h = [m \in 0 .. n + 1 |-> Value(h, m)]
      BY <2>5 DEF h
    <2>7. Loop(s, n + 1, h)
      BY <2>6 DEF Loop, Value
    <2>8. n + 1 \in 0 .. Len(s)
      BY <1>0
    <2>9. QED
      BY <2>7, <2>8
  <1> HIDE DEF G
  <1>3. \A n \in 0 .. Len(s) : n \in G
    BY <1>0, <1>1, <1>2, UpTo
  <1>4. Len(s) \in G
    BY <1>0, <1>3
  <1>5. QED
    BY <1>4 DEF G

\* And Items is its last value.
LEMMA ItemsIs ==
    ASSUME NEW s \in Seq(Byte)
    PROVE  \E f : Loop(s, Len(s), f) /\ Items(s) = f[Len(s)]
  <1> DEFINE F == CHOOSE f : Loop(s, Len(s), f)
  <1>1. Loop(s, Len(s), F)
    BY LoopExists
  <1>2. Items(s) = F[Len(s)]
    BY DEF Items, Loop, DataAt, KindAt, Left
  <1>3. QED
    BY <1>1, <1>2

\* What is left before a part is the part and what is left behind it.
LEMMA LeftSplits ==
    ASSUME NEW s \in Seq(Byte), NEW part \in Seq(Byte), NEW n \in 0 .. Len(s), NEW m \in 0 .. n,
           n = Len(part) + m, \A j \in 1 .. Len(part) : s[(Len(s) - n) + j] = part[j]
    PROVE  Left(s, n) = part \o Left(s, m)
  <1> DEFINE L == Len(s)
             p == Len(part)
             l == Left(s, n)
             r == Left(s, m)
             c == part \o r
  <1>0. L \in Nat /\ p \in Nat /\ m \in 0 .. L /\ n = p + m /\ m \in Nat /\ n \in Nat /\ n <= L
    BY LenProperties
  <1>1. l \in Seq(Byte) /\ Len(l) = n /\ \A i \in 1 .. n : l[i] = s[(L - n) + i]
    BY LeftIs
  <1>2. r \in Seq(Byte) /\ Len(r) = m /\ \A i \in 1 .. m : r[i] = s[(L - m) + i]
    BY <1>0, LeftIs
  <1> HIDE DEF r, l
  <1>3. c \in Seq(Byte) /\ Len(c) = p + m /\ \A i \in 1 .. p + m : c[i] = IF i <= p THEN part[i] ELSE r[i - p]
    BY <1>2, ConcatProperties
  <1>4. \A j \in 1 .. p : s[(L - n) + j] = part[j]
    OBVIOUS
  <1> HIDE DEF L, p, c
  <1>5. ASSUME NEW i \in 1 .. n PROVE l[i] = c[i]
    <2>1. i \in 1 .. p + m
      BY <1>0
    <2>2. CASE i <= p
      <3>1. i \in 1 .. p
        BY <1>0, <2>2
      <3>2. QED
        BY <1>1, <1>3, <1>4, <2>1, <2>2, <3>1
    <2>3. CASE ~(i <= p)
      <3>1. i - p \in 1 .. m /\ (L - m) + (i - p) = (L - n) + i
        <4>1. i \in Nat /\ p \in Nat /\ m \in Nat /\ i <= p + m
          BY <1>0, <2>1
        <4>2. i - p \in 1 .. m
          BY <2>3, <4>1
        <4>3. L - m + (i - p) = L - (p + m) + i
          BY <1>0, <4>1
        <4>4. QED
          BY <1>0, <4>2, <4>3
      <3>2. QED
        BY <1>1, <1>2, <1>3, <2>1, <2>3, <3>1
    <2>4. QED
      BY <2>2, <2>3
  <1>6. l = c
    BY <1>0, <1>1, <1>3, <1>5, SeqEqual
  <1>7. QED
    BY <1>6 DEF l, c, r

Parts(items) == [i \in 1 .. Len(items) |-> Item(items[i].kind, items[i].data)]
Decoded(items) == [i \in 1 .. Len(items) |->
                      [ok |-> TRUE, kind |-> items[i].kind, data |-> items[i].data]]
DecodedItem == [ok : {TRUE}, kind : UInt16, data : Seq(Byte)]

\* Items as they are written, and as they are read.
LEMMA PartsTyped ==
    ASSUME NEW items \in Seq(ItemRec)
    PROVE  /\ Len(items) \in Nat
           /\ Parts(items) \in Seq(Seq(Byte)) /\ Len(Parts(items)) = Len(items)
           /\ Decoded(items) \in Seq(DecodedItem) /\ Len(Decoded(items)) = Len(items)
           /\ \A i \in 1 .. Len(items) :
                 /\ items[i].kind \in UInt16 /\ items[i].data \in Seq(Byte)
                 /\ Parts(items)[i] = Item(items[i].kind, items[i].data)
                 /\ Len(Parts(items)[i]) = 4 + Len(items[i].data)
                 /\ Decoded(items)[i] = [ok |-> TRUE, kind |-> items[i].kind, data |-> items[i].data]
  <1> DEFINE n == Len(items)
  <1>1. n \in Nat /\ \A i \in 1 .. n : items[i] \in ItemRec
    BY LenProperties, ElementOfSeq
  <1>2. \A i \in 1 .. n : items[i].kind \in UInt16 /\ items[i].data \in Seq(Byte)
    BY <1>1 DEF ItemRec
  <1>3. \A i \in 1 .. n : /\ Item(items[i].kind, items[i].data) \in Seq(Byte)
                          /\ Len(Item(items[i].kind, items[i].data)) = 4 + Len(items[i].data)
    BY <1>2, ItemLength
  <1>4. Parts(items) \in [1 .. n -> Seq(Byte)]
    BY <1>3 DEF Parts
  <1>5. Decoded(items) \in [1 .. n -> DecodedItem]
    BY <1>2 DEF Decoded, DecodedItem
  <1>6. \A i \in 1 .. n :
           /\ Parts(items)[i] = Item(items[i].kind, items[i].data)
           /\ Decoded(items)[i] = [ok |-> TRUE, kind |-> items[i].kind, data |-> items[i].data]
    BY DEF Parts, Decoded
  <1>7. /\ Parts(items) \in Seq(Seq(Byte)) /\ Len(Parts(items)) = n
        /\ Decoded(items) \in Seq(DecodedItem) /\ Len(Decoded(items)) = n
    BY <1>1, <1>4, <1>5, FunctionIsSeq
  <1>8. QED
    BY <1>1, <1>2, <1>3, <1>6, <1>7

LEMMA PartsFit ==
    ASSUME NEW items \in Seq(ItemRec), NEW s \in Seq(Byte), NEW at, Places(s, Parts(items), at),
           NEW i \in 1 .. Len(items)
    PROVE  4 + Len(items[i].data) <= Len(s)
  <1> DEFINE d == Len(items[i].data)
             N == Len(items)
             a == at[i - 1]
             b == at[i]
             L == Len(s)
  <1>1. /\ Len(Parts(items)) = N /\ Len(Parts(items)[i]) = 4 + d /\ N \in Nat
        /\ items[i].data \in Seq(Byte)
    BY PartsTyped
  <1>2. at \in [0 .. N -> Nat] /\ b = a + (4 + d) /\ b <= L
    BY <1>1 DEF Places
  <1>3. i - 1 \in 0 .. N
    BY <1>1
  <1>4. a \in Nat /\ d \in Nat /\ L \in Nat
    BY <1>1, <1>2, <1>3, LenProperties
  <1> HIDE DEF a, b, d, L
  <1>5. 4 + d <= L
    BY <1>2, <1>4
  <1>6. QED
    BY <1>5 DEF d, L

\* Items reads back what Item wrote, one after the other.
LEMMA ItemsRoundTrip ==
    ASSUME NEW items \in Seq(ItemRec), NEW s \in Seq(Byte), Len(s) <= MaxLength,
           NEW at, Places(s, Parts(items), at)
    PROVE  Items(s) = Decoded(items)
  <1> DEFINE N == Len(items)
             L == Len(s)
             out == Decoded(items)
             parts == Parts(items)
  <1>0. /\ N \in Nat /\ L \in Nat
        /\ parts \in Seq(Seq(Byte)) /\ Len(parts) = N
        /\ out \in Seq(DecodedItem) /\ Len(out) = N
    BY PartsTyped, LenProperties
  <1>1. ASSUME NEW i \in 1 .. N
        PROVE  /\ items[i].kind \in UInt16 /\ items[i].data \in Seq(Byte)
               /\ Len(items[i].data) <= MaxLength /\ Len(items[i].data) \in Nat
               /\ parts[i] = Item(items[i].kind, items[i].data)
               /\ parts[i] \in Seq(Byte) /\ Len(parts[i]) = 4 + Len(items[i].data)
               /\ out[i] = [ok |-> TRUE, kind |-> items[i].kind, data |-> items[i].data]
    <2>1. items[i].data \in Seq(Byte) /\ items[i].kind \in UInt16
      BY PartsTyped
    <2>2. Len(items[i].data) <= MaxLength
      <3>1. 4 + Len(items[i].data) <= Len(s) /\ Len(items[i].data) \in Nat /\ Len(s) \in Nat
        BY <2>1, PartsFit, LenProperties
      <3> DEFINE d == Len(items[i].data)
                 l == Len(s)
      <3> HIDE DEF d, l
      <3>2. 4 + d <= l /\ d \in Nat /\ l \in Nat /\ l <= MaxLength
        BY <3>1 DEF d, l
      <3>3. d <= MaxLength
        BY <3>2, Constants
      <3>4. QED
        BY <3>3 DEF d
    <2>3. QED
      BY <2>1, <2>2, PartsTyped, ItemLength, LenProperties
  <1>2. PICK f : Loop(s, L, f) /\ Items(s) = f[L]
    BY ItemsIs
  <1>3. /\ at \in [0 .. N -> Nat] /\ at[0] = 0 /\ at[N] = L
        /\ \A i \in 1 .. N :
              /\ at[i] = at[i - 1] + Len(parts[i]) /\ at[i] <= L
              /\ \A j \in 1 .. Len(parts[i]) : s[at[i - 1] + j] = parts[i][j]
    BY <1>0 DEF Places
  <1> DEFINE G == {k \in 0 .. N : f[L - at[N - k]] = SubSeq(out, N - k + 1, N)}
  <1> HIDE DEF N, L, out, parts
  <1>4. 0 \in G
    <2>1. f[0] = <<>>
      <3>1. 0 \in 0 .. L
        BY <1>0
      <3>2. QED
        BY <1>2, <3>1 DEF Loop
    <2>2. L - at[N - 0] = 0 /\ N - 0 + 1 = N + 1 /\ 0 \in 0 .. N /\ N < N + 1
      BY <1>0, <1>3
    <2>3. SubSeq(out, N + 1, N) = <<>>
      BY <1>0, <2>2, SubSeqEmpty
    <2>4. QED
      BY <2>1, <2>2, <2>3
  <1>5. ASSUME NEW k \in 0 .. N - 1, k \in G PROVE k + 1 \in G
    <2> DEFINE i == N - k
               n == L - at[i - 1]
               m == L - at[i]
               part == parts[i]
               kind == items[i].kind
               data == items[i].data
    <2>1. i \in 1 .. N /\ i - 1 = N - (k + 1) /\ k + 1 \in 0 .. N /\ i \in 0 .. N /\ i - 1 \in 0 .. N
          /\ N - (k + 1) + 1 = i
      BY <1>0
    <2>2. f[m] = SubSeq(out, i + 1, N)
      BY <1>5
    <2>3. at[i] \in Nat /\ at[i - 1] \in Nat
      BY <1>3, <2>1
    <2> HIDE DEF i
    <2>4. /\ kind \in UInt16 /\ data \in Seq(Byte) /\ Len(data) <= MaxLength /\ Len(data) \in Nat
          /\ part = Item(kind, data) /\ part \in Seq(Byte) /\ Len(part) = 4 + Len(data)
          /\ out[i] = [ok |-> TRUE, kind |-> kind, data |-> data]
      BY <1>1, <2>1
    <2>5. /\ at[i] = at[i - 1] + Len(part) /\ at[i] <= L
          /\ \A j \in 1 .. Len(part) : s[at[i - 1] + j] = part[j]
      BY <1>3, <2>1
    <2> HIDE DEF part, kind, data
    <2>6. n \in 1 .. L /\ n \in 0 .. L /\ m \in 0 .. n /\ n = Len(part) + m /\ L - n = at[i - 1] /\ m \in 0 .. L
      <3> DEFINE a == at[i - 1]
                 b == at[i]
                 p == Len(part)
                 d == Len(data)
      <3>1. a \in Nat /\ b \in Nat /\ b = a + p /\ p = 4 + d /\ d \in Nat /\ b <= L /\ L \in Nat
        BY <1>0, <2>3, <2>4, <2>5
      <3> HIDE DEF a, b, p, d
      <3>2. /\ L - a \in 1 .. L /\ L - a \in 0 .. L /\ L - b \in 0 .. L - a /\ L - a = p + (L - b)
            /\ L - (L - a) = a /\ L - b \in 0 .. L
        BY <3>1
      <3>3. QED
        BY <3>2 DEF a, b, p
    <2> HIDE DEF n, m
    <2>7. Left(s, n) = part \o Left(s, m) /\ Left(s, m) \in Seq(Byte) /\ Len(Left(s, m)) = m
      <3>1. \A j \in 1 .. Len(part) : s[(Len(s) - n) + j] = part[j]
        BY <2>5, <2>6 DEF L
      <3>2. QED
        BY <2>4, <2>6, <3>1, LeftSplits, LeftIs DEF L
    <2>8. Number(KindAt(s, n).val) = kind /\ DataAt(s, n) = [ok |-> TRUE, val |-> data, rest |-> Left(s, m)]
      BY <2>4, <2>7, ReadItem DEF KindAt, DataAt
    <2>9. f[n] = <<[ok |-> TRUE, kind |-> kind, data |-> data]>> \o f[m]
      <3>1. n # 0 /\ n \in 0 .. L
        BY <2>6
      <3>2. f[n] = <<[ok |-> DataAt(s, n).ok, kind |-> Number(KindAt(s, n).val), data |-> DataAt(s, n).val]>>
                 \o IF DataAt(s, n).ok THEN f[Len(DataAt(s, n).rest)] ELSE <<>>
        BY <1>2, <3>1 DEF Loop
      <3>3. /\ DataAt(s, n).ok = TRUE /\ DataAt(s, n).val = data
            /\ Len(DataAt(s, n).rest) = m
        BY <2>7, <2>8
      <3>4. QED
        BY <2>8, <3>2, <3>3
    <2>10. SubSeq(out, i, N) = <<out[i]>> \o SubSeq(out, i + 1, N)
      <3>1. i \in 1 .. Len(out) /\ N \in i .. Len(out)
        BY <1>0, <2>1
      <3>2. QED
        BY <1>0, <3>1, SubSeqRecursiveFirst
    <2>11. f[L - at[N - (k + 1)]] = SubSeq(out, N - (k + 1) + 1, N)
      BY <2>1, <2>2, <2>4, <2>9, <2>10 DEF n
    <2>12. QED
      BY <2>1, <2>11
  <1> HIDE DEF G
  <1>6. N \in G
    <2>1. \A k \in 0 .. N : k \in G
      BY <1>0, <1>4, <1>5, UpTo
    <2>2. QED
      BY <1>0, <2>1
  <1>7. f[L] = SubSeq(out, 1, N)
    <2>1. f[L - at[N - N]] = SubSeq(out, N - N + 1, N)
      BY <1>6 DEF G
    <2>2. N - N = 0 /\ L - 0 = L /\ 0 + 1 = 1
      BY <1>0
    <2>3. QED
      BY <1>3, <2>1, <2>2
  <1>8. SubSeq(out, 1, N) = out
    BY <1>0, SubSeqFull
  <1>9. QED
    BY <1>2, <1>7, <1>8 DEF out

-----------------------------------------------------------------------------
(* Selected.                                                               *)

Choosing(s, I, n, f) ==
    f = [m \in 0 .. n |-> IF m = 0 THEN <<>> ELSE IF m \in I THEN Append(f[m - 1], s[m]) ELSE f[m - 1]]

\* The recursive function in Selected exists.
LEMMA ChoosingExists ==
    ASSUME NEW s, NEW I, NEW N \in Nat
    PROVE  \E f : Choosing(s, I, N, f)
  <1> DEFINE G == {n \in 0 .. N : \E f : Choosing(s, I, n, f)}
             Value(f, m) ==
                IF m = 0 THEN <<>> ELSE IF m \in I THEN Append(f[m - 1], s[m]) ELSE f[m - 1]
  <1>1. 0 \in G
    <2> DEFINE f == [m \in 0 .. 0 |-> <<>>]
    <2>1. f = [m \in 0 .. 0 |-> Value(f, m)]
      OBVIOUS
    <2> HIDE DEF f
    <2>2. Choosing(s, I, 0, f)
      BY <2>1 DEF Choosing
    <2>3. QED
      BY <2>2
  <1>2. ASSUME NEW n \in 0 .. N - 1, n \in G PROVE n + 1 \in G
    <2>1. PICK f : Choosing(s, I, n, f)
      BY <1>2
    <2>2. f = [m \in 0 .. n |-> Value(f, m)]
      BY <2>1 DEF Choosing
    <2> HIDE DEF Value
    <2>3. \A m \in 0 .. n : f[m] = Value(f, m)
      BY <2>2
    <2> DEFINE h == [m \in 0 .. n + 1 |-> Value(f, m)]
    <2>4. ASSUME NEW m \in 0 .. n PROVE h[m] = f[m]
      <3>1. m \in 0 .. n + 1
        OBVIOUS
      <3>2. QED
        BY <2>3, <3>1
    <2> HIDE DEF h
    <2>5. ASSUME NEW m \in 0 .. n + 1 PROVE Value(f, m) = Value(h, m)
      <3>1. CASE m # 0
        <4>1. m - 1 \in 0 .. n
          BY <3>1
        <4>2. f[m - 1] = h[m - 1]
          BY <2>4, <4>1
        <4>3. QED
          BY <4>2 DEF Value
      <3>2. CASE m = 0
        BY <3>2 DEF Value
      <3>3. QED
        BY <3>1, <3>2
    <2>6. h = [m \in 0 .. n + 1 |-> Value(h, m)]
      BY <2>5 DEF h
    <2>7. Choosing(s, I, n + 1, h)
      BY <2>6 DEF Choosing, Value
    <2>8. n + 1 \in 0 .. N
      OBVIOUS
    <2>9. QED
      BY <2>7, <2>8
  <1> HIDE DEF G
  <1>3. \A n \in 0 .. N : n \in G
    BY <1>1, <1>2, UpTo
  <1>4. N \in G
    BY <1>3
  <1>5. QED
    BY <1>4 DEF G

LEMMA SelectedIs ==
    ASSUME NEW s, NEW I, Len(s) \in Nat
    PROVE  \E f : /\ f[0] = <<>> /\ Selected(s, I) = f[Len(s)]
                  /\ \A m \in 1 .. Len(s) :
                        f[m] = IF m \in I THEN Append(f[m - 1], s[m]) ELSE f[m - 1]
  <1> DEFINE F == CHOOSE f : Choosing(s, I, Len(s), f)
  <1>1. Choosing(s, I, Len(s), F)
    BY ChoosingExists
  <1>2. Selected(s, I) = F[Len(s)]
    BY DEF Selected, Choosing
  <1> HIDE DEF F
  <1>3. 0 \in 0 .. Len(s) /\ \A m \in 1 .. Len(s) : m \in 0 .. Len(s) /\ m # 0
    OBVIOUS
  <1>4. F[0] = <<>>
    BY <1>1, <1>3 DEF Choosing
  <1>5. \A m \in 1 .. Len(s) : F[m] = IF m \in I THEN Append(F[m - 1], s[m]) ELSE F[m - 1]
    BY <1>1, <1>3 DEF Choosing
  <1>6. QED
    BY <1>2, <1>4, <1>5

\* Nothing is selected but the elements at I.
LEMMA SelectedFrom ==
    ASSUME NEW s, NEW I, Len(s) \in Nat, NEW S, \A i \in 1 .. Len(s) : i \in I => s[i] \in S
    PROVE  Selected(s, I) \in Seq(S)
  <1>1. PICK f : /\ f[0] = <<>> /\ Selected(s, I) = f[Len(s)]
                 /\ \A m \in 1 .. Len(s) :
                       f[m] = IF m \in I THEN Append(f[m - 1], s[m]) ELSE f[m - 1]
    BY SelectedIs
  <1> DEFINE G == {n \in 0 .. Len(s) : f[n] \in Seq(S)}
  <1>2. 0 \in G
    <2>1. <<>> \in Seq(S) /\ 0 \in 0 .. Len(s)
      BY EmptySeq
    <2>2. QED
      BY <1>1, <2>1
  <1>3. ASSUME NEW n \in 0 .. Len(s) - 1, n \in G PROVE n + 1 \in G
    <2>1. n + 1 \in 1 .. Len(s) /\ (n + 1) - 1 = n /\ n + 1 \in 0 .. Len(s)
      OBVIOUS
    <2>2. f[n + 1] = IF n + 1 \in I THEN Append(f[n], s[n + 1]) ELSE f[n]
      BY <1>1, <2>1
    <2>3. f[n] \in Seq(S) /\ (n + 1 \in I => s[n + 1] \in S)
      BY <1>3, <2>1
    <2>4. n + 1 \in I => Append(f[n], s[n + 1]) \in Seq(S)
      BY <2>3, AppendProperties
    <2>5. f[n + 1] \in Seq(S)
      BY <2>2, <2>3, <2>4
    <2>6. QED
      BY <2>1, <2>5
  <1> HIDE DEF G
  <1>4. \A n \in 0 .. Len(s) : n \in G
    BY <1>2, <1>3, UpTo
  <1>5. Len(s) \in G
    BY <1>4
  <1>6. QED
    BY <1>1, <1>5 DEF G

\* Indexes in a row select a subsequence.
LEMMA SelectedInterval ==
    ASSUME NEW S, NEW s \in Seq(S), NEW a \in 1 .. Len(s) + 1, NEW b \in a - 1 .. Len(s),
           NEW I, \A i \in 1 .. Len(s) : i \in I <=> i \in a .. b
    PROVE  Selected(s, I) = SubSeq(s, a, b)
  <1> DEFINE N == Len(s)
  <1>0. N \in Nat /\ a \in Int /\ b \in Int /\ a >= 1 /\ b <= N /\ a - 1 <= b
    BY LenProperties
  <1>1. PICK f : /\ f[0] = <<>> /\ Selected(s, I) = f[N]
                 /\ \A m \in 1 .. N :
                       f[m] = IF m \in I THEN Append(f[m - 1], s[m]) ELSE f[m - 1]
    BY <1>0, SelectedIs
  <1>2. \A i \in 1 .. N : (i \in I <=> i \in a .. b) /\ s[i] \in S
    BY ElementOfSeq
  <1> DEFINE End(n) == IF n <= b THEN n ELSE b
             G == {n \in 0 .. N : f[n] = SubSeq(s, a, End(n))}
  <1> HIDE DEF N
  <1>3. 0 \in G
    <2>1. End(0) \in Int /\ End(0) < a
      BY <1>0
    <2> HIDE DEF End
    <2>2. SubSeq(s, a, End(0)) = <<>>
      BY <1>0, <2>1, SubSeqEmpty
    <2>3. 0 \in 0 .. N
      BY <1>0
    <2>4. QED
      BY <1>1, <2>2, <2>3
  <1>4. ASSUME NEW n \in 0 .. N - 1, n \in G PROVE n + 1 \in G
    <2> DEFINE m == n + 1
    <2>1. m \in 1 .. N /\ m - 1 = n /\ m \in 0 .. N
      BY <1>0
    <2>2. f[m] = IF m \in I THEN Append(f[n], s[m]) ELSE f[n]
      BY <1>1, <2>1
    <2>3. f[n] = SubSeq(s, a, End(n))
      BY <1>4
    <2> HIDE DEF m
    <2>4. CASE m \in a .. b
      <3>1. End(n) = m - 1 /\ End(m) = m
        BY <1>0, <2>1, <2>4
      <3>2. a \in 1 .. N /\ m \in a .. N
        BY <1>0, <2>1, <2>4
      <3>3. SubSeq(s, a, m) = SubSeq(s, a, m - 1) \o <<s[m]>>
        BY <3>2, SubSeqRecursiveSecond DEF N
      <3>4. SubSeq(s, a, m - 1) \in Seq(S)
        <4>1. \A i \in a .. m - 1 : s[i] \in S
          BY <1>0, <1>2, <2>1, <2>4
        <4>2. m - 1 \in Int
          BY <2>1
        <4>3. QED
          BY <1>0, <4>1, <4>2, SubSeqProperties
      <3>5. Append(SubSeq(s, a, m - 1), s[m]) = SubSeq(s, a, m - 1) \o <<s[m]>>
        BY <1>2, <2>1, <3>4, AppendIsConcat
      <3>6. f[m] = SubSeq(s, a, End(m))
        <4> HIDE DEF End
        <4>1. QED
          BY <1>2, <2>1, <2>2, <2>3, <2>4, <3>1, <3>3, <3>5
      <3>7. QED
        BY <2>1, <3>6 DEF m
    <2>5. CASE m \notin a .. b
      <3>1. f[m] = SubSeq(s, a, End(n))
        <4> HIDE DEF End
        <4>1. QED
          BY <1>2, <2>1, <2>2, <2>3, <2>5
      <3>2. End(n) \in Int /\ End(m) \in Int /\ (End(n) = End(m) \/ (End(n) < a /\ End(m) < a))
        BY <1>0, <2>1, <2>5
      <3> HIDE DEF End
      <3>3. SubSeq(s, a, End(n)) = SubSeq(s, a, End(m))
        BY <1>0, <3>2, SubSeqEmpty
      <3>4. QED
        BY <2>1, <3>1, <3>3 DEF m
    <2>6. QED
      BY <2>4, <2>5
  <1> HIDE DEF G
  <1>5. N \in G
    <2>1. \A n \in 0 .. N : n \in G
      BY <1>0, <1>3, <1>4, UpTo
    <2>2. QED
      BY <1>0, <2>1
  <1>6. End(N) = b
    BY <1>0
  <1> HIDE DEF End
  <1>7. QED
    BY <1>1, <1>5, <1>6 DEF G

-----------------------------------------------------------------------------
(* Configs.                                                                *)

SuiteRec == [KDF : UInt16, AEAD : UInt16]
ConfigRec == [ ConfigID : Byte, KEMID : UInt16, PublicKey : Seq(Byte), CipherSuites : Seq(SuiteRec),
               MaximumNameLength : Byte, PublicName : Seq(Byte), Extensions : Seq(ItemRec) ]

\* A part that lies at an offset is the subsequence there.
LEMMA SubSeqAt ==
    ASSUME NEW X, NEW s \in Seq(X), NEW p \in Seq(X), NEW a \in Nat, a + Len(p) <= Len(s),
           \A j \in 1 .. Len(p) : s[a + j] = p[j]
    PROVE  SubSeq(s, a + 1, a + Len(p)) = p
  <1> DEFINE n == Len(p)
             b == a + 1
             e == a + n
             q == SubSeq(s, b, e)
  <1>1. n \in Nat /\ Len(s) \in Nat /\ \A i \in 1 .. Len(s) : s[i] \in X
    BY LenProperties, ElementOfSeq
  <1>2. \A j \in 1 .. n : s[a + j] = p[j]
    OBVIOUS
  <1> HIDE DEF n
  <1>3. b \in Int /\ e \in Int /\ e - b + 1 = n /\ (b <= e <=> n # 0)
    BY <1>1
  <1>4. \A i \in b .. e : s[i] \in X
    <2>1. a + n <= Len(s)
      BY DEF n
    <2>2. QED
      BY <1>1, <2>1
  <1>5. \A j \in 1 .. n : b + j - 1 = a + j
    BY <1>1
  <1> HIDE DEF b, e
  <1>6. q \in Seq(X) /\ Len(q) = (IF b <= e THEN e - b + 1 ELSE 0) /\ \A j \in 1 .. e - b + 1 : q[j] = s[b + j - 1]
    BY <1>3, <1>4, SubSeqProperties
  <1> HIDE DEF q
  <1>7. Len(q) = n
    BY <1>1, <1>3, <1>6
  <1>8. \A j \in 1 .. n : q[j] = p[j]
    BY <1>2, <1>3, <1>5, <1>6
  <1>9. q = p
    BY <1>6, <1>7, <1>8, SeqEqual DEF n
  <1>10. QED
    BY <1>9 DEF q, b, e, n

\* Parts of one width begin at its multiples.
AllWide(s, w) == w \in {2, 4} /\ Len(s) \in Nat /\ \A i \in 1 .. Len(s) : Len(s[i]) = w

\* Parts of one width lie at its multiples.
LEMMA PlacesOfWidth ==
    ASSUME NEW s, NEW T, NEW at, NEW w, AllWide(s, w), Places(T, s, at)
    PROVE  \A i \in 0 .. Len(s) : at[i] = w * i
  <1> DEFINE N == Len(s)
             G == {i \in 0 .. N : at[i] = w * i}
  <1>1. /\ N \in Nat /\ at[0] = 0 /\ \A i \in 1 .. N : at[i] = at[i - 1] + Len(s[i])
        /\ w \in {2, 4} /\ \A i \in 1 .. N : Len(s[i]) = w
    BY DEF Places, AllWide
  <1>2. \A i \in 1 .. N : at[i] = at[i - 1] + w
    BY <1>1
  <1> HIDE DEF N
  <1>3. 0 \in G
    BY <1>1
  <1>4. ASSUME NEW n \in 0 .. N - 1, n \in G PROVE n + 1 \in G
    <2>1. n + 1 \in 1 .. N /\ n + 1 \in 0 .. N /\ (n + 1) - 1 = n
      BY <1>1
    <2>2. at[n + 1] = at[n] + w /\ at[n] = w * n
      BY <1>2, <1>4, <2>1
    <2>3. w * (n + 1) = w * n + w
      BY <1>1
    <2>4. QED
      BY <2>1, <2>2, <2>3
  <1> HIDE DEF G
  <1>5. \A n \in 0 .. N : n \in G
    BY <1>1, <1>3, <1>4, UpTo
  <1>6. QED
    BY <1>5 DEF G, N

SuiteParts(suites) == [i \in DOMAIN suites |-> Bytes(suites[i].KDF, 2) \o Bytes(suites[i].AEAD, 2)]

\* The cipher suites lie in their field as parseBody looks for them.
LEMMA SuitesReadBack ==
    ASSUME NEW suites \in Seq(SuiteRec)
    PROVE  LET v == FlattenSeq(SuiteParts(suites))
           IN  /\ v \in Seq(Byte) /\ Len(suites) \in Nat /\ Len(v) = 4 * Len(suites)
               /\ \A i \in 1 .. Len(suites) :
                     /\ Number(SubSeq(v, 4 * i - 3, 4 * i - 3 + 1)) = suites[i].KDF
                     /\ Number(SubSeq(v, 4 * i - 3 + 2, 4 * i - 3 + 3)) = suites[i].AEAD
  <1> DEFINE n == Len(suites)
             parts == SuiteParts(suites)
             v == FlattenSeq(parts)
             K(i) == Bytes(suites[i].KDF, 2)
             A(i) == Bytes(suites[i].AEAD, 2)
  <1>1. n \in Nat /\ DOMAIN suites = 1 .. n /\ \A i \in 1 .. n : suites[i] \in SuiteRec
    BY LenProperties, ElementOfSeq
  <1>2. ASSUME NEW i \in 1 .. n
        PROVE  /\ K(i) \in Seq(Byte) /\ Len(K(i)) = 2 /\ Number(K(i)) = suites[i].KDF
               /\ A(i) \in Seq(Byte) /\ Len(A(i)) = 2 /\ Number(A(i)) = suites[i].AEAD
    <2>1. suites[i].KDF \in UInt16 /\ suites[i].AEAD \in UInt16
      BY <1>1 DEF SuiteRec
    <2>2. QED
      BY <2>1, TwoBytes
  <1>3. parts = [i \in 1 .. n |-> K(i) \o A(i)]
    BY <1>1 DEF SuiteParts
  <1> HIDE DEF K, A, parts, n
  <1>4. ASSUME NEW i \in 1 .. n
        PROVE  /\ parts[i] \in Seq(Byte) /\ Len(parts[i]) = 4
               /\ \A j \in 1 .. 2 : parts[i][j] = K(i)[j] /\ parts[i][2 + j] = A(i)[j]
    <2>1. parts[i] = K(i) \o A(i)
      BY <1>3
    <2>2. /\ K(i) \o A(i) \in Seq(Byte) /\ Len(K(i) \o A(i)) = 2 + 2
          /\ \A j \in 1 .. 2 + 2 : (K(i) \o A(i))[j] = IF j <= 2 THEN K(i)[j] ELSE A(i)[j - 2]
      <3> DEFINE x == K(i)
                 y == A(i)
      <3>1. x \in Seq(Byte) /\ Len(x) = 2 /\ y \in Seq(Byte) /\ Len(y) = 2
        BY <1>2
      <3> HIDE DEF x, y
      <3>2. /\ x \o y \in Seq(Byte) /\ Len(x \o y) = Len(x) + Len(y)
            /\ \A j \in 1 .. Len(x) + Len(y) : (x \o y)[j] = IF j <= Len(x) THEN x[j] ELSE y[j - Len(x)]
        BY <3>1, ConcatProperties
      <3>3. /\ x \o y \in Seq(Byte) /\ Len(x \o y) = 2 + 2
            /\ \A j \in 1 .. 2 + 2 : (x \o y)[j] = IF j <= 2 THEN x[j] ELSE y[j - 2]
        BY <3>1, <3>2
      <3>4. QED
        BY <3>3 DEF x, y
    <2>3. \A j \in 1 .. 2 : j \in 1 .. 4 /\ j <= 2 /\ 2 + j \in 1 .. 4 /\ ~(2 + j <= 2) /\ (2 + j) - 2 = j
      OBVIOUS
    <2>4. QED
      BY <2>1, <2>2, <2>3
  <1>5. parts \in Seq(Seq(Byte)) /\ Len(parts) = n
    <2>1. parts = [i \in 1 .. n |-> parts[i]]
      BY <1>3
    <2>2. \A i \in 1 .. n : parts[i] \in Seq(Byte)
      BY <1>4
    <2>3. parts \in [1 .. n -> Seq(Byte)]
      BY <2>1, <2>2
    <2>4. QED
      BY <1>1, <2>3, FunctionIsSeq
  <1>6. v \in Seq(Byte) /\ \E at : Places(v, parts, at)
    BY <1>5, FlattenPlaces
  <1>7. PICK at : Places(v, parts, at)
    BY <1>6
  <1>8. \A i \in 0 .. n : at[i] = 4 * i
    <2>1. AllWide(parts, 4)
      BY <1>1, <1>4, <1>5 DEF AllWide
    <2>2. QED
      BY <1>5, <1>7, <2>1, PlacesOfWidth
  <1>9. /\ at[n] = Len(v)
        /\ \A i \in 1 .. n : at[i] <= Len(v) /\ \A j \in 1 .. 4 : v[at[i - 1] + j] = parts[i][j]
    BY <1>4, <1>5, <1>7 DEF Places
  <1>10. Len(v) = 4 * n
    BY <1>1, <1>8, <1>9
  <1> HIDE DEF v
  <1>11. ASSUME NEW i \in 1 .. n
         PROVE  /\ Number(SubSeq(v, 4 * i - 3, 4 * i - 3 + 1)) = suites[i].KDF
                /\ Number(SubSeq(v, 4 * i - 3 + 2, 4 * i - 3 + 3)) = suites[i].AEAD
    <2> DEFINE a == 4 * (i - 1)
               a2 == a + 2
    <2>1. /\ i - 1 \in 0 .. n /\ i \in 0 .. n /\ a \in Nat /\ a + 4 = 4 * i
          /\ 4 * i - 3 = a + 1 /\ 4 * i - 3 + 1 = a + 2
          /\ 4 * i - 3 + 2 = a2 + 1 /\ 4 * i - 3 + 3 = a2 + 2 /\ a2 \in Nat
      BY <1>1
    <2>2. at[i - 1] = a /\ at[i] = a + 4
      BY <1>8, <2>1
    <2>3. Len(v) \in Nat /\ a + 4 <= Len(v) /\ \A j \in 1 .. 4 : v[a + j] = parts[i][j]
      BY <1>6, <1>9, <2>2, LenProperties
    <2> HIDE DEF a
    <2>4. \A j \in 1 .. 2 : v[a + j] = K(i)[j]
      <3>1. \A j \in 1 .. 2 : j \in 1 .. 4
        OBVIOUS
      <3>2. QED
        BY <1>4, <2>3, <3>1
    <2>5. \A j \in 1 .. 2 : v[a2 + j] = A(i)[j]
      <3>1. \A j \in 1 .. 2 : 2 + j \in 1 .. 4 /\ a2 + j = a + (2 + j)
        BY <2>1
      <3>2. \A j \in 1 .. 2 : v[a + (2 + j)] = A(i)[j]
        BY <1>4, <2>3, <3>1
      <3>3. QED
        BY <3>1, <3>2
    <2>6. a + 2 <= Len(v) /\ a2 + 2 <= Len(v)
      BY <2>1, <2>3
    <2> HIDE DEF a2
    <2>7. SubSeq(v, a + 1, a + 2) = K(i)
      <3> DEFINE w == K(i)
      <3>1. w \in Seq(Byte) /\ Len(w) = 2 /\ v \in Seq(Byte) /\ a \in Nat
        BY <1>2, <1>6, <2>1
      <3> HIDE DEF w, K
      <3>2. a + Len(w) <= Len(v) /\ \A j \in 1 .. Len(w) : v[a + j] = w[j]
        BY <2>4, <2>6, <3>1 DEF w
      <3>3. SubSeq(v, a + 1, a + Len(w)) = w
        BY <3>1, <3>2, SubSeqAt
      <3>4. QED
        BY <3>1, <3>3 DEF w
    <2>8. SubSeq(v, a2 + 1, a2 + 2) = A(i)
      <3> DEFINE w == A(i)
      <3>1. w \in Seq(Byte) /\ Len(w) = 2 /\ v \in Seq(Byte) /\ a2 \in Nat
        BY <1>2, <1>6, <2>1
      <3> HIDE DEF w, A
      <3>2. a2 + Len(w) <= Len(v) /\ \A j \in 1 .. Len(w) : v[a2 + j] = w[j]
        BY <2>5, <2>6, <3>1 DEF w
      <3>3. SubSeq(v, a2 + 1, a2 + Len(w)) = w
        BY <3>1, <3>2, SubSeqAt
      <3>4. QED
        BY <3>1, <3>3 DEF w
    <2>9. QED
      BY <1>2, <2>1, <2>7, <2>8
  <1>12. v \in Seq(Byte) /\ n \in Nat
    BY <1>1, <1>6
  <1>13. QED
    BY <1>10, <1>11, <1>12 DEF v, n, parts

LEMMA Shifts ==
    ASSUME NEW X, NEW a \in Seq(X), NEW b \in Seq(X), NEW c \in Seq(X),
           NEW p, NEW q, p = a \o b, q = b \o c
    PROVE  p \o c = a \o q
  BY ConcatAssociative

\* The typing of seven sequences, to be expanded where a step needs it.
AllIn(X, a, b, c, d, e, f, g) == {a, b, c, d, e, f, g} \subseteq Seq(X)

Regrouped(X, a, b, c, d, e, f, g) ==
    /\ a \o b \o c \o d \o e \o f \o g = a \o (b \o (c \o (d \o (e \o (f \o g)))))
    /\ f \o g \in Seq(X)
    /\ e \o (f \o g) \in Seq(X)
    /\ d \o (e \o (f \o g)) \in Seq(X)
    /\ c \o (d \o (e \o (f \o g))) \in Seq(X)
    /\ b \o (c \o (d \o (e \o (f \o g)))) \in Seq(X)

\* The seven fields of a body, bracketed from either side.
LEMMA Reassociate ==
    ASSUME NEW X, NEW a, NEW b, NEW c, NEW d, NEW e, NEW f, NEW g, AllIn(X, a, b, c, d, e, f, g)
    PROVE  Regrouped(X, a, b, c, d, e, f, g)
  <1> DEFINE p2 == a \o b
             p3 == p2 \o c
             p4 == p3 \o d
             p5 == p4 \o e
             q6 == f \o g
             q5 == e \o q6
             q4 == d \o q5
             q3 == c \o q4
             q2 == b \o q3
  <1>1. a \in Seq(X) /\ b \in Seq(X)
    BY DEF AllIn
  <1>2. c \in Seq(X)
    BY DEF AllIn
  <1>3. d \in Seq(X)
    BY DEF AllIn
  <1>4. e \in Seq(X)
    BY DEF AllIn
  <1>5. f \in Seq(X) /\ g \in Seq(X)
    BY DEF AllIn
  <1>6. p2 = a \o b
    OBVIOUS
  <1>7. p3 = p2 \o c
    OBVIOUS
  <1>8. p4 = p3 \o d
    OBVIOUS
  <1>9. p5 = p4 \o e
    OBVIOUS
  <1>10. q6 = f \o g
    OBVIOUS
  <1>11. q5 = e \o q6
    OBVIOUS
  <1>12. q4 = d \o q5
    OBVIOUS
  <1>13. q3 = c \o q4
    OBVIOUS
  <1>14. q2 = b \o q3
    OBVIOUS
  <1> HIDE DEF p2, p3, p4, p5, q6, q5, q4, q3, q2
  <1>15. p2 \in Seq(X)
    BY <1>1, <1>6, ConcatProperties
  <1>16. p3 \in Seq(X)
    BY <1>15, <1>2, <1>7, ConcatProperties
  <1>17. p4 \in Seq(X)
    BY <1>16, <1>3, <1>8, ConcatProperties
  <1>18. p5 \in Seq(X)
    BY <1>17, <1>4, <1>9, ConcatProperties
  <1>19. q6 \in Seq(X)
    BY <1>5, <1>10, ConcatProperties
  <1>20. q5 \in Seq(X)
    BY <1>4, <1>19, <1>11, ConcatProperties
  <1>21. q4 \in Seq(X)
    BY <1>3, <1>20, <1>12, ConcatProperties
  <1>22. q3 \in Seq(X)
    BY <1>2, <1>21, <1>13, ConcatProperties
  <1>23. q2 \in Seq(X)
    BY <1>1, <1>22, <1>14, ConcatProperties
  <1>24. (p5 \o f) \o g = p5 \o q6
    BY <1>18, <1>5, <1>10, Shifts
  <1>25. p5 \o q6 = p4 \o q5
    BY <1>17, <1>4, <1>19, <1>9, <1>11, Shifts
  <1>26. p4 \o q5 = p3 \o q4
    BY <1>16, <1>3, <1>20, <1>8, <1>12, Shifts
  <1>27. p3 \o q4 = p2 \o q3
    BY <1>15, <1>2, <1>21, <1>7, <1>13, Shifts
  <1>28. p2 \o q3 = a \o q2
    BY <1>1, <1>22, <1>6, <1>14, Shifts
  <1>29. (p5 \o f) \o g = a \o q2
    BY <1>24, <1>25, <1>26, <1>27, <1>28
  <1>30. QED
    BY <1>19, <1>20, <1>21, <1>22, <1>23, <1>29
       DEF p2, p3, p4, p5, q6, q5, q4, q3, q2, Regrouped

Fields(id, kem, pk, cs, max, pn, ext) ==
    <<id>> \o Bytes(kem, 2) \o Prefixed(pk, 2) \o Prefixed(cs, 2) \o <<max>>
    \o Prefixed(pn, 1) \o Prefixed(ext, 2)

FieldTypes(id, kem, pk, cs, max, pn, ext) ==
    /\ id \in Byte /\ kem \in UInt16 /\ pk \in Seq(Byte) /\ cs \in Seq(Byte)
    /\ max \in Byte /\ pn \in Seq(Byte) /\ ext \in Seq(Byte)
FieldLimits(pk, cs, pn, ext) ==
    Len(pk) <= MaxLength /\ Len(cs) <= MaxLength /\ Len(pn) <= 255 /\ Len(ext) <= MaxLength

SuitesIn(cs) == [i \in 1 .. (Len(cs) \div 4) |->
                    [KDF |-> Number(SubSeq(cs, 4 * i - 3, 4 * i - 3 + 1)),
                     AEAD |-> Number(SubSeq(cs, 4 * i - 3 + 2, 4 * i - 3 + 3))]]
ExtensionsIn(ext) == [i \in DOMAIN Items(ext) |-> [kind |-> Items(ext)[i].kind, data |-> Items(ext)[i].data]]

\* What parseBody makes of the fields, whatever is in them.
LEMMA FieldsReadBack ==
    ASSUME NEW id, NEW kem, NEW pk, NEW cs, NEW max, NEW pn, NEW ext,
           FieldTypes(id, kem, pk, cs, max, pn, ext), FieldLimits(pk, cs, pn, ext),
           NEW s, s = Fields(id, kem, pk, cs, max, pn, ext)
    PROVE  parseBody(s) =
              [ err |-> CutOff(Items(ext)) \/ cs = <<>> \/ Len(cs) % 4 # 0 \/ pn = <<>>,
                config |-> [ ConfigID |-> id, KEMID |-> kem, PublicKey |-> pk, CipherSuites |-> SuitesIn(cs),
                             MaximumNameLength |-> max, PublicName |-> pn, Extensions |-> ExtensionsIn(ext) ] ]
  <1>0. /\ id \in Byte /\ kem \in UInt16 /\ max \in Byte
        /\ pk \in Seq(Byte) /\ Len(pk) <= MaxLength /\ cs \in Seq(Byte) /\ Len(cs) <= MaxLength
        /\ pn \in Seq(Byte) /\ Len(pn) <= 255 /\ ext \in Seq(Byte) /\ Len(ext) <= MaxLength
    BY DEF FieldTypes, FieldLimits
  <1> DEFINE b1 == <<id>>
             b2 == Bytes(kem, 2)
             b3 == Prefixed(pk, 2)
             b4 == Prefixed(cs, 2)
             b5 == <<max>>
             b6 == Prefixed(pn, 1)
             b7 == Prefixed(ext, 2)
             q6 == b6 \o b7
             q5 == b5 \o q6
             q4 == b4 \o q5
             q3 == b3 \o q4
             q2 == b2 \o q3
  <1>1. /\ b1 \in Seq(Byte) /\ Len(b1) = 1 /\ Number(b1) = id
        /\ b5 \in Seq(Byte) /\ Len(b5) = 1 /\ Number(b5) = max
    BY <1>0, OneByte
  <1>2. b2 \in Seq(Byte) /\ Len(b2) = 2 /\ Number(b2) = kem
    BY <1>0, TwoBytes
  <1>3. b3 \in Seq(Byte) /\ b4 \in Seq(Byte) /\ b6 \in Seq(Byte) /\ b7 \in Seq(Byte)
    BY <1>0, PrefixedLength
  <1> DEFINE rid  == Read(s, 1)
             rkem == Read(rid.rest, 2)
             rpk  == ReadPrefixed(rkem.rest, 2)
             rcs  == ReadPrefixed(rpk.rest, 2)
             rmax == Read(rcs.rest, 1)
             rpn  == ReadPrefixed(rmax.rest, 1)
             rext == ReadPrefixed(rpn.rest, 2)
  <1>4. parseBody(s) =
           [ err |-> \/ ~rext.ok \/ rext.rest # <<>> \/ CutOff(Items(rext.val))
                     \/ rcs.val = <<>> \/ Len(rcs.val) % 4 # 0 \/ rpn.val = <<>>,
             config |-> [ ConfigID |-> Number(rid.val), KEMID |-> Number(rkem.val), PublicKey |-> rpk.val,
                          CipherSuites |-> SuitesIn(rcs.val), MaximumNameLength |-> Number(rmax.val),
                          PublicName |-> rpn.val, Extensions |-> ExtensionsIn(rext.val) ] ]
    BY DEF parseBody, SuitesIn, ExtensionsIn
  <1>5. s = b1 \o b2 \o b3 \o b4 \o b5 \o b6 \o b7
    BY DEF Fields
  <1> HIDE DEF b1, b2, b3, b4, b5, b6, b7
  <1>6. /\ s = b1 \o q2
        /\ q2 \in Seq(Byte) /\ q3 \in Seq(Byte) /\ q4 \in Seq(Byte) /\ q5 \in Seq(Byte) /\ q6 \in Seq(Byte)
    <2>1. AllIn(Byte, b1, b2, b3, b4, b5, b6, b7)
      BY <1>1, <1>2, <1>3 DEF AllIn
    <2>2. Regrouped(Byte, b1, b2, b3, b4, b5, b6, b7)
      BY <2>1, Reassociate
    <2>3. QED
      BY <1>5, <2>2 DEF Regrouped
  <1>7. q2 = b2 \o q3 /\ q3 = b3 \o q4 /\ q4 = b4 \o q5 /\ q5 = b5 \o q6 /\ q6 = b6 \o b7
    OBVIOUS
  <1> HIDE DEF q2, q3, q4, q5, q6, rid, rkem, rpk, rcs, rmax, rpn, rext
  <1>8. rid = [ok |-> TRUE, val |-> b1, rest |-> q2]
    BY <1>1, <1>6, ReadConcat DEF rid
  <1>9. rkem = [ok |-> TRUE, val |-> b2, rest |-> q3]
    <2>1. Read(b2 \o q3, 2) = [ok |-> TRUE, val |-> b2, rest |-> q3]
      BY <1>2, <1>6, ReadConcat
    <2>2. rid.rest = b2 \o q3
      BY <1>7, <1>8
    <2>3. QED
      BY <2>1, <2>2 DEF rkem
  <1>10. rpk = [ok |-> TRUE, val |-> pk, rest |-> q4]
    <2>1. ReadPrefixed(b3 \o q4, 2) = [ok |-> TRUE, val |-> pk, rest |-> q4]
      BY <1>0, <1>6, ReadPrefixedConcat DEF Limit, b3
    <2>2. rkem.rest = b3 \o q4
      BY <1>7, <1>9
    <2>3. QED
      BY <2>1, <2>2 DEF rpk
  <1>11. rcs = [ok |-> TRUE, val |-> cs, rest |-> q5]
    <2>1. ReadPrefixed(b4 \o q5, 2) = [ok |-> TRUE, val |-> cs, rest |-> q5]
      BY <1>0, <1>6, ReadPrefixedConcat DEF Limit, b4
    <2>2. rpk.rest = b4 \o q5
      BY <1>7, <1>10
    <2>3. QED
      BY <2>1, <2>2 DEF rcs
  <1>12. rmax = [ok |-> TRUE, val |-> b5, rest |-> q6]
    <2>1. Read(b5 \o q6, 1) = [ok |-> TRUE, val |-> b5, rest |-> q6]
      BY <1>1, <1>6, ReadConcat
    <2>2. rcs.rest = b5 \o q6
      BY <1>7, <1>11
    <2>3. QED
      BY <2>1, <2>2 DEF rmax
  <1>13. rpn = [ok |-> TRUE, val |-> pn, rest |-> b7]
    <2>1. ReadPrefixed(b6 \o b7, 1) = [ok |-> TRUE, val |-> pn, rest |-> b7]
      BY <1>0, <1>3, ReadPrefixedConcat DEF Limit, b6
    <2>2. rmax.rest = b6 \o b7
      BY <1>7, <1>12
    <2>3. QED
      BY <2>1, <2>2 DEF rpn
  <1>14. rext = [ok |-> TRUE, val |-> ext, rest |-> <<>>]
    <2>1. ReadPrefixed(b7, 2) = [ok |-> TRUE, val |-> ext, rest |-> <<>>]
      BY <1>0, ReadPrefixedAll DEF Limit, b7
    <2>2. rpn.rest = b7
      BY <1>13
    <2>3. QED
      BY <2>1, <2>2 DEF rext
  <1>15. /\ rext.ok = TRUE /\ rext.rest = <<>> /\ rext.val = ext /\ rcs.val = cs /\ rpn.val = pn
         /\ Number(rid.val) = id /\ Number(rkem.val) = kem /\ rpk.val = pk /\ Number(rmax.val) = max
    BY <1>1, <1>2, <1>8, <1>9, <1>10, <1>11, <1>12, <1>13, <1>14
  <1>16. QED
    BY <1>4, <1>15

BytesOf(s, n) == s \in Seq(Byte) /\ n \in Nat /\ Len(s) = n

LEMMA Joined ==
    ASSUME NEW a, NEW b, NEW m, NEW n, NEW p, p = a \o b, BytesOf(a, m), BytesOf(b, n)
    PROVE  BytesOf(p, m + n)
  <1>1. a \in Seq(Byte) /\ b \in Seq(Byte) /\ Len(a) = m /\ Len(b) = n /\ m \in Nat /\ n \in Nat
    BY DEF BytesOf
  <1>2. a \o b \in Seq(Byte) /\ Len(a \o b) = Len(a) + Len(b)
    BY <1>1, ConcatProperties
  <1>3. QED
    BY <1>1, <1>2 DEF BytesOf

\* A field is no longer than its body.
LEMMA FieldsFit ==
    ASSUME NEW id, NEW kem, NEW pk, NEW cs, NEW max, NEW pn, NEW ext,
           FieldTypes(id, kem, pk, cs, max, pn, ext),
           NEW s, s = Fields(id, kem, pk, cs, max, pn, ext)
    PROVE  /\ s \in Seq(Byte) /\ Len(s) \in Nat
           /\ Len(pk) + Len(cs) + Len(pn) + Len(ext) + 11 = Len(s)
           /\ Len(pk) <= Len(s) /\ Len(cs) <= Len(s) /\ Len(ext) <= Len(s)
  <1> DEFINE b1 == <<id>>
             b2 == Bytes(kem, 2)
             b3 == Prefixed(pk, 2)
             b4 == Prefixed(cs, 2)
             b5 == <<max>>
             b6 == Prefixed(pn, 1)
             b7 == Prefixed(ext, 2)
             p2 == b1 \o b2
             p3 == p2 \o b3
             p4 == p3 \o b4
             p5 == p4 \o b5
             p6 == p5 \o b6
  <1>0. /\ id \in Byte /\ kem \in UInt16 /\ pk \in Seq(Byte) /\ cs \in Seq(Byte)
        /\ max \in Byte /\ pn \in Seq(Byte) /\ ext \in Seq(Byte)
    BY DEF FieldTypes
  <1> DEFINE kl == Len(pk)
             cl == Len(cs)
             nl == Len(pn)
             el == Len(ext)
  <1>1. BytesOf(b1, 1)
    BY <1>0, OneByte DEF BytesOf
  <1>2. BytesOf(b2, 2)
    BY <1>0, TwoBytes DEF BytesOf
  <1>3. BytesOf(b3, 2 + kl)
    BY <1>0, PrefixedLength, LenProperties DEF BytesOf
  <1>4. BytesOf(b4, 2 + cl)
    BY <1>0, PrefixedLength, LenProperties DEF BytesOf
  <1>5. BytesOf(b5, 1)
    BY <1>0, OneByte DEF BytesOf
  <1>6. BytesOf(b6, 1 + nl)
    BY <1>0, PrefixedLength, LenProperties DEF BytesOf
  <1>7. BytesOf(b7, 2 + el)
    BY <1>0, PrefixedLength, LenProperties DEF BytesOf
  <1>8. s = p6 \o b7
    BY DEF Fields
  <1>9. p2 = b1 \o b2
    OBVIOUS
  <1>10. p3 = p2 \o b3
    OBVIOUS
  <1>11. p4 = p3 \o b4
    OBVIOUS
  <1>12. p5 = p4 \o b5
    OBVIOUS
  <1>13. p6 = p5 \o b6
    OBVIOUS
  <1>14. kl \in Nat /\ cl \in Nat /\ nl \in Nat /\ el \in Nat
    BY <1>0, LenProperties
  <1> HIDE DEF b1, b2, b3, b4, b5, b6, b7, p2, p3, p4, p5, p6, kl, cl, nl, el
  <1>15. BytesOf(p2, 1 + 2)
    BY <1>1, <1>2, <1>9, Joined
  <1>16. BytesOf(p3, 1 + 2 + (2 + kl))
    BY <1>3, <1>10, <1>15, Joined
  <1>17. BytesOf(p4, 1 + 2 + (2 + kl) + (2 + cl))
    BY <1>4, <1>11, <1>16, Joined
  <1>18. BytesOf(p5, 1 + 2 + (2 + kl) + (2 + cl) + 1)
    BY <1>5, <1>12, <1>17, Joined
  <1>19. BytesOf(p6, 1 + 2 + (2 + kl) + (2 + cl) + 1 + (1 + nl))
    BY <1>6, <1>13, <1>18, Joined
  <1>20. BytesOf(s, 1 + 2 + (2 + kl) + (2 + cl) + 1 + (1 + nl) + (2 + el))
    BY <1>7, <1>8, <1>19, Joined
  <1> DEFINE sl == Len(s)
  <1>21. s \in Seq(Byte) /\ sl = 1 + 2 + (2 + kl) + (2 + cl) + 1 + (1 + nl) + (2 + el)
    BY <1>20 DEF BytesOf
  <1> HIDE DEF sl
  <1>22. sl \in Nat /\ kl + cl + nl + el + 11 = sl /\ kl <= sl /\ cl <= sl /\ el <= sl
    BY <1>14, <1>21
  <1>23. QED
    BY <1>21, <1>22 DEF kl, cl, nl, el, sl

LEMMA OneTo255 == ASSUME NEW n \in 1 .. 255 PROVE n \in Nat /\ n <= 255 /\ n # 0
  OBVIOUS

LEMMA FitsWithin ==
    ASSUME NEW m \in Nat, NEW n \in Nat, m <= n, n <= MaxLength PROVE m <= MaxLength
  BY Constants

\* The body of a config is its fields.
LEMMA BodyIs ==
    ASSUME NEW c \in ConfigRec
    PROVE  Body(c) = Fields(c.ConfigID, c.KEMID, c.PublicKey, FlattenSeq(SuiteParts(c.CipherSuites)),
                            c.MaximumNameLength, c.PublicName, FlattenSeq(Parts(c.Extensions)))
  <1>1. DOMAIN c.Extensions = 1 .. Len(c.Extensions)
    BY LenProperties DEF ConfigRec
  <1>2. Parts(c.Extensions) = [i \in DOMAIN c.Extensions |-> Item(c.Extensions[i].kind, c.Extensions[i].data)]
    BY <1>1 DEF Parts
  <1>3. QED
    BY <1>2 DEF Body, Fields, SuiteParts

\* The decoder reads back every field of a config that the encoder has written.
LEMMA BodyReadsBack ==
    ASSUME NEW c \in ConfigRec, validate(c), Len(Body(c)) <= MaxLength
    PROVE  /\ Body(c) \in Seq(Byte) /\ Len(Body(c)) \in Nat
           /\ parseBody(Body(c)) = [err |-> FALSE, config |-> c]
  <1> DEFINE id == c.ConfigID
             kem == c.KEMID
             pk == c.PublicKey
             suites == c.CipherSuites
             cs == FlattenSeq(SuiteParts(suites))
             max == c.MaximumNameLength
             pn == c.PublicName
             exts == c.Extensions
             ext == FlattenSeq(Parts(exts))
             s == Body(c)
             n == Len(suites)
  <1>1. /\ id \in Byte /\ kem \in UInt16 /\ pk \in Seq(Byte) /\ suites \in Seq(SuiteRec)
        /\ max \in Byte /\ pn \in Seq(Byte) /\ exts \in Seq(ItemRec)
        /\ c = [ ConfigID |-> id, KEMID |-> kem, PublicKey |-> pk, CipherSuites |-> suites,
                 MaximumNameLength |-> max, PublicName |-> pn, Extensions |-> exts ]
    BY DEF ConfigRec
  <1>2. suites # <<>> /\ Len(pn) \in 1 .. 255 /\ Len(s) <= MaxLength /\ Len(pn) <= 255 /\ Len(pn) # 0
    BY OneTo255 DEF validate
  <1>3. s = Fields(id, kem, pk, cs, max, pn, ext)
    BY BodyIs
  <1> HIDE DEF id, kem, pk, suites, max, pn, exts, s
  <1>4. /\ cs \in Seq(Byte) /\ n \in Nat /\ Len(cs) = 4 * n
        /\ \A i \in 1 .. n : /\ Number(SubSeq(cs, 4 * i - 3, 4 * i - 3 + 1)) = suites[i].KDF
                             /\ Number(SubSeq(cs, 4 * i - 3 + 2, 4 * i - 3 + 3)) = suites[i].AEAD
    BY <1>1, SuitesReadBack
  <1>5. Parts(exts) \in Seq(Seq(Byte))
    BY <1>1, PartsTyped
  <1>6. ext \in Seq(Byte) /\ \E at : Places(ext, Parts(exts), at)
    BY <1>5, FlattenPlaces
  <1> HIDE DEF cs, ext
  <1>7. FieldTypes(id, kem, pk, cs, max, pn, ext)
    BY <1>1, <1>4, <1>6 DEF FieldTypes
  <1>8. /\ s \in Seq(Byte) /\ Len(s) \in Nat
        /\ Len(pk) <= Len(s) /\ Len(cs) <= Len(s) /\ Len(ext) <= Len(s)
    BY <1>3, <1>7, FieldsFit
  <1>9. FieldLimits(pk, cs, pn, ext) /\ Len(ext) <= MaxLength
    <2>1. Len(pk) \in Nat /\ Len(cs) \in Nat /\ Len(ext) \in Nat
      BY <1>1, <1>4, <1>6, LenProperties
    <2>2. Len(pk) <= MaxLength /\ Len(cs) <= MaxLength /\ Len(ext) <= MaxLength
      BY <1>2, <1>8, <2>1, FitsWithin
    <2>3. Len(pn) <= 255
      BY <1>2
    <2>4. QED
      BY <2>2, <2>3 DEF FieldLimits
  <1>10. Items(ext) = Decoded(exts)
    BY <1>1, <1>6, <1>9, ItemsRoundTrip
  <1> DEFINE err == CutOff(Items(ext)) \/ cs = <<>> \/ Len(cs) % 4 # 0 \/ pn = <<>>
             rsuites == SuitesIn(cs)
             rexts == ExtensionsIn(ext)
  <1>11. parseBody(s) =
            [ err |-> err,
              config |-> [ ConfigID |-> id, KEMID |-> kem, PublicKey |-> pk, CipherSuites |-> rsuites,
                           MaximumNameLength |-> max, PublicName |-> pn, Extensions |-> rexts ] ]
    BY <1>3, <1>7, <1>9, FieldsReadBack
  <1>12. err = FALSE
    <2>1. ~CutOff(Items(ext))
      <3>1. DOMAIN Decoded(exts) = 1 .. Len(exts) /\ \A i \in 1 .. Len(exts) : Decoded(exts)[i].ok = TRUE
        BY DEF Decoded
      <3>2. QED
        BY <1>10, <3>1 DEF CutOff
    <2>2. n # 0
      BY <1>1, <1>2, EmptySeq
    <2>3. Len(cs) # 0 /\ Len(cs) % 4 = 0
      BY <1>4, <2>2
    <2>4. cs # <<>>
      BY <2>3, EmptySeq
    <2>5. pn # <<>>
      BY <1>2, EmptySeq
    <2>6. QED
      BY <2>1, <2>3, <2>4, <2>5
  <1>13. rsuites = suites
    <2>1. Len(cs) \div 4 = n
      BY <1>4
    <2>2. DOMAIN suites = 1 .. n /\ suites = [i \in 1 .. n |-> suites[i]]
      BY <1>1, LenProperties
    <2>3. ASSUME NEW i \in 1 .. n
          PROVE  suites[i] = [KDF |-> Number(SubSeq(cs, 4 * i - 3, 4 * i - 3 + 1)),
                              AEAD |-> Number(SubSeq(cs, 4 * i - 3 + 2, 4 * i - 3 + 3))]
      <3>1. suites[i] \in SuiteRec
        BY <1>1, <2>2, ElementOfSeq
      <3>2. suites[i] = [KDF |-> suites[i].KDF, AEAD |-> suites[i].AEAD]
        BY <3>1 DEF SuiteRec
      <3>3. QED
        BY <1>4, <3>2
    <2>4. rsuites = [i \in 1 .. n |-> suites[i]]
      BY <2>1, <2>3 DEF SuitesIn
    <2>5. QED
      BY <2>2, <2>4
  <1>14. rexts = exts
    <2>1. DOMAIN exts = 1 .. Len(exts) /\ exts = [i \in 1 .. Len(exts) |-> exts[i]]
      BY <1>1, LenProperties
    <2>2. DOMAIN Items(ext) = 1 .. Len(exts)
      BY <1>10 DEF Decoded
    <2>3. ASSUME NEW i \in 1 .. Len(exts)
          PROVE  [kind |-> Items(ext)[i].kind, data |-> Items(ext)[i].data] = exts[i]
      <3>1. exts[i] \in ItemRec
        BY <1>1, <2>1, ElementOfSeq
      <3>2. exts[i] = [kind |-> exts[i].kind, data |-> exts[i].data]
        BY <3>1 DEF ItemRec
      <3>3. Items(ext)[i] = [ok |-> TRUE, kind |-> exts[i].kind, data |-> exts[i].data]
        BY <1>10 DEF Decoded
      <3>4. QED
        BY <3>2, <3>3
    <2>4. QED
      BY <2>1, <2>2, <2>3 DEF ExtensionsIn
  <1> HIDE DEF err, rsuites, rexts
  <1>15. parseBody(s) = [err |-> FALSE, config |-> c]
    BY <1>1, <1>11, <1>12, <1>13, <1>14
  <1>16. QED
    BY <1>8, <1>15 DEF s

-----------------------------------------------------------------------------
(* Lists.                                                                  *)

ListRec == [Configs : Seq(ConfigRec), Unknown : Seq(ItemRec)]

LEMMA BodyTyped ==
    ASSUME NEW c \in ConfigRec
    PROVE  Body(c) \in Seq(Byte) /\ Len(Body(c)) \in Nat
  <1> DEFINE cs == FlattenSeq(SuiteParts(c.CipherSuites))
             ext == FlattenSeq(Parts(c.Extensions))
  <1>1. /\ c.ConfigID \in Byte /\ c.KEMID \in UInt16 /\ c.PublicKey \in Seq(Byte)
        /\ c.CipherSuites \in Seq(SuiteRec) /\ c.MaximumNameLength \in Byte
        /\ c.PublicName \in Seq(Byte) /\ c.Extensions \in Seq(ItemRec)
    BY DEF ConfigRec
  <1>2. cs \in Seq(Byte)
    BY <1>1, SuitesReadBack
  <1>3. Parts(c.Extensions) \in Seq(Seq(Byte))
    BY <1>1, PartsTyped
  <1>4. ext \in Seq(Byte)
    BY <1>3, FlattenPlaces
  <1> HIDE DEF cs, ext
  <1>5. FieldTypes(c.ConfigID, c.KEMID, c.PublicKey, cs, c.MaximumNameLength, c.PublicName, ext)
    BY <1>1, <1>2, <1>4 DEF FieldTypes
  <1>6. Body(c) = Fields(c.ConfigID, c.KEMID, c.PublicKey, cs, c.MaximumNameLength, c.PublicName, ext)
    BY BodyIs DEF cs, ext
  <1>7. QED
    BY <1>5, <1>6, FieldsFit

\* The entries of a list, as the decoder sees them.
OurItems(configs) == [i \in 1 .. Len(configs) |-> [kind |-> Version, data |-> Body(configs[i])]]

\* The configs of a list as items of our version.
LEMMA OurItemsTyped ==
    ASSUME NEW configs \in Seq(ConfigRec)
    PROVE  /\ Len(configs) \in Nat
           /\ OurItems(configs) \in Seq(ItemRec) /\ Len(OurItems(configs)) = Len(configs)
           /\ Parts(OurItems(configs)) = [i \in DOMAIN configs |-> MarshalBinary(configs[i])]
           /\ \A i \in 1 .. Len(configs) : OurItems(configs)[i] = [kind |-> Version, data |-> Body(configs[i])]
  <1> DEFINE n == Len(configs)
             our == OurItems(configs)
  <1>1. n \in Nat /\ DOMAIN configs = 1 .. n /\ \A i \in 1 .. n : configs[i] \in ConfigRec
    BY LenProperties, ElementOfSeq
  <1>2. \A i \in 1 .. n : Body(configs[i]) \in Seq(Byte)
    BY <1>1, BodyTyped
  <1>3. Version \in UInt16
    BY DEF Version, UInt16
  <1>4. \A i \in 1 .. n : [kind |-> Version, data |-> Body(configs[i])] \in ItemRec
    <2> SUFFICES ASSUME NEW i \in 1 .. n PROVE [kind |-> Version, data |-> Body(configs[i])] \in ItemRec
      OBVIOUS
    <2> DEFINE b == Body(configs[i])
    <2>1. b \in Seq(Byte)
      BY <1>2
    <2> HIDE DEF b
    <2>2. [kind |-> Version, data |-> b] \in ItemRec
      BY <1>3, <2>1 DEF ItemRec
    <2>3. QED
      BY <2>2 DEF b
  <1>5. our \in [1 .. n -> ItemRec]
    BY <1>4 DEF OurItems
  <1>6. our \in Seq(ItemRec) /\ Len(our) = n
    BY <1>1, <1>5, FunctionIsSeq
  <1>7. \A i \in 1 .. n : our[i] = [kind |-> Version, data |-> Body(configs[i])]
    BY DEF OurItems
  <1>8. \A i \in 1 .. n : our[i].kind = Version /\ our[i].data = Body(configs[i])
    BY DEF OurItems
  <1> HIDE DEF our
  <1>9. Parts(our) = [i \in 1 .. n |-> Item(our[i].kind, our[i].data)]
    BY <1>6 DEF Parts
  <1>10. Parts(our) = [i \in 1 .. n |-> MarshalBinary(configs[i])]
    BY <1>8, <1>9 DEF MarshalBinary
  <1>11. QED
    BY <1>1, <1>6, <1>7, <1>10 DEF our

\* Writing two lists of items behind one another.
LEMMA PartsConcat ==
    ASSUME NEW a \in Seq(ItemRec), NEW b \in Seq(ItemRec)
    PROVE  /\ a \o b \in Seq(ItemRec)
           /\ Parts(a \o b) = Parts(a) \o Parts(b)
  <1> DEFINE c == a \o b
             m == Len(a)
             n == Len(b)
             p == Parts(a)
             q == Parts(b)
             r == Parts(c)
             t == p \o q
  <1>1. /\ c \in Seq(ItemRec) /\ Len(c) = m + n /\ m \in Nat /\ n \in Nat
        /\ \A i \in 1 .. m + n : c[i] = IF i <= m THEN a[i] ELSE b[i - m]
    BY ConcatProperties, LenProperties
  <1>2. /\ p \in Seq(Seq(Byte)) /\ Len(p) = m /\ \A i \in 1 .. m : p[i] = Item(a[i].kind, a[i].data)
    BY PartsTyped
  <1>3. /\ q \in Seq(Seq(Byte)) /\ Len(q) = n /\ \A i \in 1 .. n : q[i] = Item(b[i].kind, b[i].data)
    BY PartsTyped
  <1> HIDE DEF c, p, q
  <1>4. /\ r \in Seq(Seq(Byte)) /\ Len(r) = m + n /\ \A i \in 1 .. m + n : r[i] = Item(c[i].kind, c[i].data)
    BY <1>1, PartsTyped
  <1>5. /\ t \in Seq(Seq(Byte)) /\ Len(t) = m + n
        /\ \A i \in 1 .. m + n : t[i] = IF i <= m THEN p[i] ELSE q[i - m]
    <2> DEFINE X == Seq(Byte)
    <2>1. p \in Seq(X) /\ q \in Seq(X) /\ Len(p) = m /\ Len(q) = n
      BY <1>2, <1>3
    <2> HIDE DEF X
    <2>2. /\ t \in Seq(X) /\ Len(t) = Len(p) + Len(q)
          /\ \A i \in 1 .. Len(p) + Len(q) : t[i] = IF i <= Len(p) THEN p[i] ELSE q[i - Len(p)]
      BY <2>1, ConcatProperties
    <2>3. QED
      BY <2>1, <2>2 DEF X
  <1> HIDE DEF r, t, m, n
  <1>6. ASSUME NEW i \in 1 .. m + n PROVE r[i] = t[i]
    <2>1. CASE i <= m
      <3>1. i \in 1 .. m
        BY <1>1, <2>1
      <3>2. r[i] = Item(a[i].kind, a[i].data)
        BY <1>1, <1>4, <2>1
      <3>3. t[i] = p[i]
        BY <1>5, <2>1
      <3>4. QED
        BY <1>2, <3>1, <3>2, <3>3
    <2>2. CASE ~(i <= m)
      <3>1. i - m \in 1 .. n
        BY <1>1, <2>2
      <3>2. r[i] = Item(b[i - m].kind, b[i - m].data)
        BY <1>1, <1>4, <2>2
      <3>3. t[i] = q[i - m]
        BY <1>5, <2>2
      <3>4. QED
        BY <1>3, <3>1, <3>2, <3>3
    <2>3. QED
      BY <2>1, <2>2
  <1>7. r = t
    BY <1>4, <1>5, <1>6, SeqEqual
  <1>8. QED
    BY <1>1, <1>7 DEF r, t, c, p, q

\* An encoded list is its entries one behind the other: the configs, then the others.
LEMMA EntriesTyped ==
    ASSUME NEW list \in ListRec
    PROVE  LET all == OurItems(list.Configs) \o list.Unknown
           IN  /\ all \in Seq(ItemRec)
               /\ Entries(list) \in Seq(Byte) /\ Len(Entries(list)) \in Nat
               /\ all # <<>> => Len(Entries(list)) >= 4
               /\ \E ct : Places(Entries(list), Parts(all), ct)
  <1> DEFINE our == OurItems(list.Configs)
             others == list.Unknown
             T == FlattenSeq(Parts(our))
             U == FlattenSeq(Parts(others))
             s == Entries(list)
             all == our \o others
  <1>1. list.Configs \in Seq(ConfigRec) /\ others \in Seq(ItemRec)
    BY DEF ListRec
  <1>2. our \in Seq(ItemRec) /\ Parts(our) = [i \in DOMAIN list.Configs |-> MarshalBinary(list.Configs[i])]
    BY <1>1, OurItemsTyped
  <1>3. Parts(others) = [i \in DOMAIN others |-> Item(others[i].kind, others[i].data)]
    BY <1>1, LenProperties DEF Parts
  <1>4. s = T \o U
    BY <1>2, <1>3 DEF Entries
  <1> HIDE DEF our, others
  <1>5. Parts(our) \in Seq(Seq(Byte)) /\ Parts(others) \in Seq(Seq(Byte))
    BY <1>1, <1>2, PartsTyped
  <1>6. T \in Seq(Byte) /\ \E at : Places(T, Parts(our), at)
    BY <1>5, FlattenPlaces
  <1>7. U \in Seq(Byte) /\ \E at : Places(U, Parts(others), at)
    BY <1>5, FlattenPlaces
  <1> HIDE DEF T, U
  <1>8. \E ct : Places(T \o U, Parts(our) \o Parts(others), ct)
    BY <1>5, <1>6, <1>7, ConcatPlaces
  <1>9. all \in Seq(ItemRec) /\ Parts(all) = Parts(our) \o Parts(others)
    BY <1>1, <1>2, PartsConcat
  <1>10. s \in Seq(Byte) /\ Len(s) \in Nat
    BY <1>4, <1>6, <1>7, ConcatProperties, LenProperties
  <1> HIDE DEF s, all
  <1>11. PICK ct : Places(s, Parts(all), ct)
    BY <1>4, <1>8, <1>9
  <1>12. all # <<>> => Len(s) >= 4
    <2> SUFFICES ASSUME all # <<>> PROVE Len(s) >= 4
      OBVIOUS
    <2>1. Len(all) \in Nat /\ Len(all) # 0
      BY <1>9, EmptySeq, LenProperties
    <2>2. 1 \in 1 .. Len(all)
      BY <2>1
    <2>3. 4 + Len(all[1].data) <= Len(s)
      BY <1>9, <1>10, <1>11, <2>2, PartsFit
    <2>4. all[1].data \in Seq(Byte)
      BY <1>9, <2>2, PartsTyped
    <2> DEFINE d == Len(all[1].data)
               l == Len(s)
    <2>5. d \in Nat /\ l \in Nat /\ 4 + d <= l
      BY <1>10, <2>3, <2>4, LenProperties
    <2> HIDE DEF d, l
    <2>6. l >= 4
      BY <2>5
    <2>7. QED
      BY <2>6 DEF l
  <1>13. QED
    BY <1>9, <1>10, <1>11, <1>12 DEF s, all, our, others

\* Items reads them.
LEMMA EntriesReadBack ==
    ASSUME NEW list \in ListRec, Len(Entries(list)) <= MaxLength
    PROVE  LET all == OurItems(list.Configs) \o list.Unknown
           IN  /\ all \in Seq(ItemRec)
               /\ Entries(list) \in Seq(Byte) /\ Len(Entries(list)) \in Nat
               /\ Items(Entries(list)) = Decoded(all)
               /\ all # <<>> => Len(Entries(list)) >= 4
               /\ \E ct : Places(Entries(list), Parts(all), ct)
  <1> DEFINE s == Entries(list)
             all == OurItems(list.Configs) \o list.Unknown
  <1>1. /\ all \in Seq(ItemRec) /\ s \in Seq(Byte) /\ Len(s) \in Nat
        /\ all # <<>> => Len(s) >= 4
        /\ \E ct : Places(s, Parts(all), ct)
    BY EntriesTyped
  <1>2. Len(s) <= MaxLength
    OBVIOUS
  <1> HIDE DEF s, all
  <1>3. PICK ct : Places(s, Parts(all), ct)
    BY <1>1
  <1>4. Items(s) = Decoded(all)
    BY <1>1, <1>2, <1>3, ItemsRoundTrip
  <1>5. QED
    BY <1>1, <1>4 DEF s, all

\* The elements of a part of a sequence.
LEMMA SubSeqElements ==
    ASSUME NEW X, NEW s \in Seq(X), NEW a \in 1 .. Len(s) + 1, NEW b \in a - 1 .. Len(s), NEW q, q = SubSeq(s, a, b)
    PROVE  /\ q \in Seq(X) /\ Len(q) = b - a + 1 /\ DOMAIN q = 1 .. b - a + 1
           /\ \A i \in 1 .. b - a + 1 : a + i - 1 \in 1 .. Len(s) /\ q[i] = s[a + i - 1]
  <1> DEFINE n == Len(s)
  <1>1. n \in Nat /\ \A i \in 1 .. n : s[i] \in X
    BY LenProperties, ElementOfSeq
  <1>2. a \in 1 .. n + 1 /\ b \in a - 1 .. n
    OBVIOUS
  <1> HIDE DEF n
  <1>3. a \in Int /\ b \in Int /\ \A i \in a .. b : s[i] \in X
    BY <1>1, <1>2
  <1>4. /\ q \in Seq(X) /\ Len(q) = (IF a <= b THEN b - a + 1 ELSE 0)
        /\ \A i \in 1 .. b - a + 1 : q[i] = s[a + i - 1]
    BY <1>3, SubSeqProperties
  <1>5. (IF a <= b THEN b - a + 1 ELSE 0) = b - a + 1
    BY <1>1, <1>2
  <1>6. \A i \in 1 .. b - a + 1 : a + i - 1 \in 1 .. n
    BY <1>1, <1>2
  <1>7. DOMAIN q = 1 .. Len(q)
    BY <1>4, LenProperties
  <1>8. QED
    BY <1>4, <1>5, <1>6, <1>7 DEF n

\* Whatever list the encoder accepts, the decoder gives it back: every field of
\* every config, and every entry of another version, in their order.
THEOREM ListReadsBack ==
    ASSUME NEW list \in ListRec, MarshalListOK(list),
           \A i \in DOMAIN list.Unknown : list.Unknown[i].kind # Version
    PROVE  /\ MarshalList(list) \in Seq(Byte)
           /\ UnmarshalList(MarshalList(list)) =
                 [err |-> FALSE, Configs |-> list.Configs, Unknown |-> list.Unknown]
  <1> DEFINE configs == list.Configs
             unknown == list.Unknown
             our == OurItems(configs)
             all == our \o unknown
             out == Decoded(all)
             s == Entries(list)
             wire == MarshalList(list)
             n == Len(configs)
             m == Len(unknown)
  <1>1. /\ configs \in Seq(ConfigRec) /\ unknown \in Seq(ItemRec)
        /\ \A i \in DOMAIN configs : validate(configs[i]) /\ Len(Body(configs[i])) <= MaxLength
        /\ configs # <<>> \/ unknown # <<>>
        /\ Len(s) <= MaxLength
        /\ wire = Prefixed(s, 2)
        /\ \A i \in DOMAIN unknown : unknown[i].kind # Version
    BY DEF ListRec, MarshalListOK, MarshalList
  <1>2. /\ all \in Seq(ItemRec) /\ s \in Seq(Byte) /\ Len(s) \in Nat
        /\ Items(s) = out /\ (all # <<>> => Len(s) >= 4)
    BY <1>1, EntriesReadBack
  <1>3. /\ our \in Seq(ItemRec) /\ Len(our) = n /\ n \in Nat
        /\ \A i \in 1 .. n : our[i] = [kind |-> Version, data |-> Body(configs[i])]
    BY <1>1, OurItemsTyped
  <1>4. DOMAIN configs = 1 .. n /\ DOMAIN unknown = 1 .. m /\ m \in Nat
    BY <1>1, LenProperties
  <1>5. ASSUME NEW i \in 1 .. n
        PROVE  /\ configs[i] \in ConfigRec
               /\ parseBody(Body(configs[i])) = [err |-> FALSE, config |-> configs[i]]
    <2>1. configs[i] \in ConfigRec
      BY <1>1, <1>4, ElementOfSeq
    <2>2. validate(configs[i]) /\ Len(Body(configs[i])) <= MaxLength
      BY <1>1, <1>4
    <2>3. QED
      BY <2>1, <2>2, BodyReadsBack
  <1> HIDE DEF configs, unknown, our, s, wire
  <1>6. /\ Len(all) = n + m
        /\ \A i \in 1 .. n + m : all[i] = IF i <= n THEN our[i] ELSE unknown[i - n]
    <2>1. our \in Seq(ItemRec) /\ Len(our) = n
      BY <1>3
    <2>2. unknown \in Seq(ItemRec) /\ Len(unknown) = m
      BY <1>1
    <2>3. all = our \o unknown
      OBVIOUS
    <2> HIDE DEF n, m, all
    <2>4. /\ Len(all) = Len(our) + Len(unknown)
          /\ \A i \in 1 .. Len(our) + Len(unknown) :
                all[i] = IF i <= Len(our) THEN our[i] ELSE unknown[i - Len(our)]
      BY <2>1, <2>2, <2>3, ConcatProperties
    <2>5. QED
      BY <2>1, <2>2, <2>4
  <1>7. all # <<>>
    <2>1. n # 0 \/ m # 0
      BY <1>1, EmptySeq
    <2>2. n + m # 0
      BY <1>3, <1>4, <2>1
    <2>3. QED
      BY <1>6, <2>2, EmptySeq
  <1> HIDE DEF all
  <1>8. /\ out \in Seq(DecodedItem) /\ Len(out) = n + m
        /\ \A i \in 1 .. n + m : out[i] = [ok |-> TRUE, kind |-> all[i].kind, data |-> all[i].data]
    BY <1>2, <1>6, PartsTyped
  <1> HIDE DEF out, n, m
  <1>9. ASSUME NEW i \in 1 .. n
        PROVE  out[i].ok = TRUE /\ out[i].kind = Version /\ out[i].data = Body(configs[i])
    <2>1. i \in 1 .. n + m /\ i <= n
      BY <1>3, <1>4
    <2>2. all[i] = [kind |-> Version, data |-> Body(configs[i])]
      BY <1>3, <1>6, <2>1
    <2>3. QED
      BY <1>8, <2>1, <2>2
  <1>10. ASSUME NEW i \in 1 .. m
         PROVE  /\ out[n + i].ok = TRUE /\ out[n + i].kind # Version
                /\ [kind |-> out[n + i].kind, data |-> out[n + i].data] = unknown[i]
    <2>1. n + i \in 1 .. n + m /\ ~(n + i <= n) /\ (n + i) - n = i
      BY <1>3, <1>4
    <2>2. all[n + i] = unknown[i]
      BY <1>6, <2>1
    <2>3. unknown[i] \in ItemRec /\ unknown[i].kind # Version
      BY <1>1, <1>4, ElementOfSeq
    <2>4. unknown[i] = [kind |-> unknown[i].kind, data |-> unknown[i].data]
      BY <2>3 DEF ItemRec
    <2>5. out[n + i] = [ok |-> TRUE, kind |-> unknown[i].kind, data |-> unknown[i].data]
      BY <1>8, <2>1, <2>2
    <2>6. QED
      BY <2>3, <2>4, <2>5
  <1> DEFINE inner == ReadPrefixed(wire, 2)
             items == Items(inner.val)
             Ours == {i \in DOMAIN items : items[i].kind = Version}
             ours == Selected(items, Ours)
             others == Selected(items, DOMAIN items \ Ours)
             err == \/ ~inner.ok \/ inner.rest # <<>> \/ Len(inner.val) < 4 \/ CutOff(items)
                    \/ \E i \in DOMAIN ours : parseBody(ours[i].data).err
             rconfigs == [i \in DOMAIN ours |-> parseBody(ours[i].data).config]
             runknown == [i \in DOMAIN others |-> [kind |-> others[i].kind, data |-> others[i].data]]
  <1>11. UnmarshalList(wire) = [err |-> err, Configs |-> rconfigs, Unknown |-> runknown]
    BY DEF UnmarshalList
  <1>12. inner = [ok |-> TRUE, val |-> s, rest |-> <<>>] /\ wire \in Seq(Byte)
    BY <1>1, <1>2, ReadPrefixedAll, PrefixedLength DEF Limit
  <1> HIDE DEF inner
  <1>13. inner.ok = TRUE /\ inner.val = s /\ inner.rest = <<>> /\ items = out
    BY <1>2, <1>12
  <1> HIDE DEF items
  <1>14. DOMAIN items = 1 .. n + m /\ \A i \in 1 .. n + m : i \in Ours <=> i \in 1 .. n
    <2>1. DOMAIN items = 1 .. n + m
      BY <1>8, <1>13, LenProperties
    <2>2. ASSUME NEW i \in 1 .. n + m PROVE i \in Ours <=> i \in 1 .. n
      <3>1. CASE i \in 1 .. n
        BY <1>9, <1>13, <2>1, <3>1
      <3>2. CASE i \notin 1 .. n
        <4>1. i - n \in 1 .. m /\ n + (i - n) = i
          BY <1>3, <1>4, <3>2
        <4>2. items[i].kind # Version
          BY <1>10, <1>13, <4>1
        <4>3. QED
          BY <3>2, <4>2
      <3>3. QED
        BY <3>1, <3>2
    <2>3. QED
      BY <2>1, <2>2
  <1> HIDE DEF Ours
  <1>15. ours = SubSeq(out, 1, n)
    <2>1. n \in 1 - 1 .. Len(out) /\ 1 \in 1 .. Len(out) + 1
      BY <1>3, <1>4, <1>8
    <2>2. \A i \in 1 .. Len(out) : i \in Ours <=> i \in 1 .. n
      BY <1>8, <1>14
    <2>3. QED
      BY <1>8, <1>13, <2>1, <2>2, SelectedInterval
  <1>16. others = SubSeq(out, n + 1, n + m)
    <2> DEFINE I == DOMAIN items \ Ours
               a == n + 1
               b == n + m
    <2>1. a \in 1 .. Len(out) + 1 /\ b \in a - 1 .. Len(out)
      BY <1>3, <1>4, <1>8
    <2>2. \A i \in 1 .. Len(out) : i \in I <=> i \in a .. b
      <3>1. \A i \in 1 .. n + m : i \notin 1 .. n <=> i \in a .. b
        BY <1>3, <1>4
      <3>2. QED
        BY <1>8, <1>14, <3>1
    <2> HIDE DEF I, a, b
    <2>3. Selected(out, I) = SubSeq(out, a, b)
      BY <1>8, <2>1, <2>2, SelectedInterval
    <2>4. QED
      BY <1>13, <2>3 DEF I, a, b
  <1> HIDE DEF ours, others
  <1>17. DOMAIN ours = 1 .. n /\ \A i \in 1 .. n : ours[i] = out[i]
    <2>1. 1 \in 1 .. Len(out) + 1 /\ n \in 1 - 1 .. Len(out) /\ n - 1 + 1 = n /\ \A i \in 1 .. n : 1 + i - 1 = i
      BY <1>3, <1>4, <1>8
    <2>2. /\ DOMAIN ours = 1 .. n - 1 + 1
          /\ \A i \in 1 .. n - 1 + 1 : ours[i] = out[1 + i - 1]
      BY <1>8, <1>15, <2>1, SubSeqElements
    <2>3. QED
      BY <2>1, <2>2
  <1>18. DOMAIN others = 1 .. m /\ \A i \in 1 .. m : others[i] = out[n + i]
    <2> DEFINE a == n + 1
               b == n + m
    <2>1. a \in 1 .. Len(out) + 1 /\ b \in a - 1 .. Len(out) /\ b - a + 1 = m /\ \A i \in 1 .. m : a + i - 1 = n + i
      BY <1>3, <1>4, <1>8
    <2> HIDE DEF a, b
    <2>2. others = SubSeq(out, a, b)
      BY <1>16 DEF a, b
    <2>3. /\ DOMAIN others = 1 .. b - a + 1
          /\ \A i \in 1 .. b - a + 1 : others[i] = out[a + i - 1]
      BY <1>8, <2>1, <2>2, SubSeqElements
    <2>4. QED
      BY <2>1, <2>3
  <1>19. ASSUME NEW i \in 1 .. n
         PROVE  parseBody(ours[i].data).err = FALSE /\ parseBody(ours[i].data).config = configs[i]
    <2>1. ours[i].data = Body(configs[i])
      BY <1>9, <1>17
    <2>2. parseBody(ours[i].data) = [err |-> FALSE, config |-> configs[i]]
      BY <1>5, <2>1
    <2>3. QED
      BY <2>2
  <1>20. ~err
    <2>1. ~(Len(inner.val) < 4)
      BY <1>2, <1>7, <1>13
    <2>2. ~CutOff(items)
      <3> SUFFICES ASSUME NEW i \in DOMAIN items PROVE items[i].ok = TRUE
        BY DEF CutOff
      <3>1. out[i] = [ok |-> TRUE, kind |-> all[i].kind, data |-> all[i].data]
        BY <1>8, <1>14
      <3>2. QED
        BY <1>13, <3>1
    <2>3. \A i \in DOMAIN ours : parseBody(ours[i].data).err = FALSE
      BY <1>17, <1>19
    <2>4. QED
      BY <1>13, <2>1, <2>2, <2>3
  <1>21. rconfigs = configs
    <2>1. \A i \in 1 .. n : parseBody(ours[i].data).config = configs[i]
      BY <1>19
    <2>2. rconfigs = [i \in 1 .. n |-> configs[i]]
      BY <1>17, <2>1
    <2>3. configs = [i \in 1 .. n |-> configs[i]]
      BY <1>1, <1>4, LenProperties
    <2>4. QED
      BY <2>2, <2>3
  <1>22. runknown = unknown
    <2>1. \A i \in 1 .. m : [kind |-> others[i].kind, data |-> others[i].data] = unknown[i]
      BY <1>10, <1>18
    <2>2. runknown = [i \in 1 .. m |-> unknown[i]]
      BY <1>18, <2>1
    <2>3. unknown = [i \in 1 .. m |-> unknown[i]]
      BY <1>1, <1>4, LenProperties
    <2>4. QED
      BY <2>2, <2>3
  <1> HIDE DEF err, rconfigs, runknown
  <1>23. err = FALSE
    BY <1>20 DEF err
  <1>24. UnmarshalList(wire) = [err |-> FALSE, Configs |-> configs, Unknown |-> unknown]
    BY <1>11, <1>21, <1>22, <1>23
  <1>25. QED
    BY <1>12, <1>24 DEF wire, configs, unknown

\* The high byte of the version is the third byte of every list with a config.
LEMMA VersionOnTheWire ==
    ASSUME NEW list \in ListRec, MarshalListOK(list), list.Configs # <<>>
    PROVE  LET wire == MarshalList(list)
           IN  wire \in Seq(Byte) /\ Len(wire) >= 3 /\ 3 \in DOMAIN wire /\ wire[3] = 254
  <1> DEFINE our == OurItems(list.Configs)
             all == our \o list.Unknown
             n == Len(list.Configs)
             s == Entries(list)
             b == Bytes(Len(s) % (MaxLength + 1), 2)
             wire == MarshalList(list)
  <1>1. list.Configs \in Seq(ConfigRec) /\ list.Unknown \in Seq(ItemRec) /\ Len(s) <= MaxLength
    BY DEF ListRec, MarshalListOK
  <1>2. /\ our \in Seq(ItemRec) /\ Len(our) = n /\ n \in Nat
        /\ \A i \in 1 .. n : our[i] = [kind |-> Version, data |-> Body(list.Configs[i])]
    BY <1>1, OurItemsTyped
  <1>3. n # 0
    BY <1>1, EmptySeq
  <1>4. /\ s \in Seq(Byte) /\ Len(s) \in Nat /\ all \in Seq(ItemRec)
        /\ (all # <<>> => Len(s) >= 4) /\ \E ct : Places(s, Parts(all), ct)
    BY <1>1, EntriesReadBack
  <1>5. Prefixed(s, 2) \in Seq(Byte) /\ Prefixed(s, 2) = b \o s /\ wire = Prefixed(s, 2)
    BY <1>4, PrefixedLength DEF Prefixed, MarshalList
  <1>6. b \in Seq(Byte) /\ Len(b) = 2
    <2>1. Len(s) \in 0 .. Limit(2) /\ 2 \in {1, 2} /\ b = Bytes(Len(s) % Modulus(2), 2)
      <3> DEFINE l == Len(s)
      <3>1. l \in Nat /\ l <= MaxLength
        BY <1>1, <1>4
      <3> HIDE DEF l
      <3>2. l \in 0 .. MaxLength
        BY <3>1, Constants
      <3>3. Limit(2) = MaxLength /\ Modulus(2) = MaxLength + 1
        BY DEF Limit, Modulus
      <3>4. QED
        BY <3>2, <3>3 DEF l
    <2>2. QED
      BY <2>1, PrefixBytes
  <1> HIDE DEF our, s, b, wire
  <1>7. Len(all) \in Nat /\ Len(all) # 0 /\ all[1] = our[1]
    <2>1. Len(all) = Len(our) + Len(list.Unknown) /\ \A i \in 1 .. Len(our) + Len(list.Unknown) :
                all[i] = IF i <= Len(our) THEN our[i] ELSE list.Unknown[i - Len(our)]
      BY <1>1, <1>2, ConcatProperties
    <2>2. Len(list.Unknown) \in Nat
      BY <1>1, LenProperties
    <2> HIDE DEF all, n
    <2>3. 1 \in 1 .. n + Len(list.Unknown) /\ 1 <= n /\ n + Len(list.Unknown) # 0 /\ n + Len(list.Unknown) \in Nat
      BY <1>2, <1>3, <2>2
    <2>4. QED
      BY <1>2, <2>1, <2>3
  <1>8. our[1] = [kind |-> Version, data |-> Body(list.Configs[1])]
    <2> HIDE DEF n
    <2>1. 1 \in 1 .. n
      BY <1>2, <1>3
    <2>2. QED
      BY <1>2, <2>1
  <1>9. all[1].kind = Version /\ all[1].data = Body(list.Configs[1])
    BY <1>7, <1>8
  <1> HIDE DEF all, n
  <1>10. PICK ct : Places(s, Parts(all), ct)
    BY <1>4
  <1> DEFINE p == Parts(all)[1]
             data == Body(list.Configs[1])
  <1>11. 1 \in 1 .. Len(all)
    BY <1>7
  <1>12. /\ Len(Parts(all)) = Len(all) /\ p = Item(Version, data) /\ Len(p) = 4 + Len(data)
         /\ data \in Seq(Byte)
    <2>1. all \in Seq(ItemRec) /\ 1 \in 1 .. Len(all)
      BY <1>4, <1>11
    <2>2. /\ Len(Parts(all)) = Len(all)
          /\ all[1].data \in Seq(Byte) /\ p = Item(all[1].kind, all[1].data) /\ Len(p) = 4 + Len(all[1].data)
      BY <2>1, PartsTyped
    <2> HIDE DEF p, data
    <2>3. all[1].kind = Version /\ all[1].data = data
      BY <1>9 DEF data
    <2>4. QED
      BY <2>2, <2>3
  <1>13. p[1] = 254 /\ 1 \in 1 .. Len(p)
    <2> DEFINE v == Bytes(Version, 2)
               q == Prefixed(data, 2)
    <2>1. p = v \o q
      BY <1>12 DEF Item
    <2>2. v = <<254, 13>>
      BY DEF Bytes, Version
    <2>3. q \in Seq(Byte) /\ Len(q) \in Nat
      BY <1>12, PrefixedLength, LenProperties
    <2> HIDE DEF v, q
    <2>4. v \in Seq(Byte) /\ Len(v) = 2 /\ v[1] = 254
      BY <2>2 DEF Byte
    <2>5. /\ Len(v \o q) = Len(v) + Len(q)
          /\ \A i \in 1 .. Len(v) + Len(q) : (v \o q)[i] = IF i <= Len(v) THEN v[i] ELSE q[i - Len(v)]
      <3>1. v \in Seq(Byte) /\ q \in Seq(Byte)
        BY <2>3, <2>4
      <3>2. QED
        BY <3>1, ConcatProperties
    <2>6. 1 \in 1 .. 2 + Len(q) /\ 1 <= 2
      BY <2>3
    <2> HIDE DEF p
    <2>7. QED
      BY <2>1, <2>4, <2>5, <2>6
  <1> HIDE DEF p, data
  <1>14. s[1] = 254
    <2>1. ct[0] = 0 /\ \A j \in 1 .. Len(p) : s[ct[1 - 1] + j] = p[j]
      BY <1>10, <1>11, <1>12 DEF Places, p
    <2>2. ct[1 - 1] = 0 /\ s[ct[1 - 1] + 1] = p[1]
      BY <1>13, <2>1
    <2>3. ct[1 - 1] + 1 = 1
      BY <2>2
    <2>4. QED
      BY <1>13, <2>2, <2>3
  <1>15. Len(s) >= 4
    <2>1. all # <<>>
      BY <1>4, <1>7, EmptySeq
    <2>2. QED
      BY <1>4, <2>1
  <1>16. /\ Len(b \o s) = Len(b) + Len(s)
         /\ \A i \in 1 .. Len(b) + Len(s) : (b \o s)[i] = IF i <= Len(b) THEN b[i] ELSE s[i - Len(b)]
    BY <1>4, <1>6, ConcatProperties
  <1>17. Len(wire) = 2 + Len(s) /\ wire[3] = s[1]
    <2>1. 3 \in 1 .. 2 + Len(s) /\ ~(3 <= 2) /\ 3 - 2 = 1
      BY <1>4, <1>15
    <2>2. QED
      BY <1>5, <1>6, <1>16, <2>1
  <1>18. wire \in Seq(Byte) /\ DOMAIN wire = 1 .. Len(wire)
    BY <1>5, LenProperties
  <1>19. Len(wire) >= 3 /\ 3 \in 1 .. Len(wire)
    <2> DEFINE l == Len(s)
    <2>1. l \in Nat /\ l >= 4 /\ Len(wire) = 2 + l
      BY <1>4, <1>15, <1>17
    <2> HIDE DEF l
    <2>2. QED
      BY <2>1
  <1>20. QED
    BY <1>14, <1>17, <1>18, <1>19 DEF wire

\* The placeholder that `init` publishes is a list: one entry of another version.
LEMMA PlaceholderReadsBack == UnmarshalList(buildPlaceholderECH).Configs = <<>>
  <1> DEFINE e == [kind |-> 0, data |-> <<>>]
             list == [Configs |-> <<>>, Unknown |-> <<e>>]
             zeros == <<0, 0, 0, 0>>
  <1>1. 0 \in UInt16 /\ 0 \in Byte /\ 4 \in Byte
    BY Widths
  <1>2. zeros \in Seq(Byte) /\ Len(zeros) = 4
    BY <1>1
  <1>3. Item(0, <<>>) = zeros
    <2>1. Bytes(0, 2) = <<0, 0>>
      BY DEF Bytes
    <2>2. Prefixed(<<>>, 2) = <<0, 0>>
      <3>1. Prefixed(<<>>, 2) = Bytes(0 % (MaxLength + 1), 2) \o <<>>
        BY DEF Prefixed
      <3>2. 0 % (MaxLength + 1) = 0
        BY Constants
      <3>3. <<0, 0>> \o <<>> = <<0, 0>>
        OBVIOUS
      <3>4. QED
        BY <2>1, <3>1, <3>2, <3>3
    <2>3. <<0, 0>> \o <<0, 0>> = <<0, 0, 0, 0>>
      BY TwoAndTwo
    <2>4. QED
      BY <2>1, <2>2, <2>3 DEF Item
  <1>4. Entries(list) = zeros
    <2> DEFINE a == [i \in DOMAIN list.Configs |-> MarshalBinary(list.Configs[i])]
               b == [i \in DOMAIN list.Unknown |-> Item(list.Unknown[i].kind, list.Unknown[i].data)]
    <2>1. a = <<>>
      OBVIOUS
    <2>2. b = <<zeros>>
      <3>1. DOMAIN list.Unknown = 1 .. 1 /\ list.Unknown[1] = e
        OBVIOUS
      <3>2. b = [i \in 1 .. 1 |-> Item(0, <<>>)]
        BY <3>1
      <3> HIDE DEF b, zeros
      <3>3. b = [i \in 1 .. 1 |-> zeros]
        BY <1>3, <3>2
      <3>4. QED
        BY <3>3
    <2> HIDE DEF zeros
    <2>3. FlattenSeq(<<>>) = <<>>
      BY DEF FlattenSeq
    <2>4. FlattenSeq(<<zeros>>) = zeros /\ <<>> \o zeros = zeros
      BY <1>2, FlattenOne, ConcatEmptySeq
    <2>5. Entries(list) = FlattenSeq(a) \o FlattenSeq(b)
      BY DEF Entries
    <2> HIDE DEF a, b
    <2>6. QED
      BY <2>1, <2>2, <2>3, <2>4, <2>5
  <1>5. buildPlaceholderECH = MarshalList(list)
    <2>1. MarshalList(list) = Bytes(4 % (MaxLength + 1), 2) \o zeros
      <3> HIDE DEF list
      <3>1. MarshalList(list) = Bytes(Len(Entries(list)) % (MaxLength + 1), 2) \o Entries(list)
        BY DEF MarshalList, Prefixed
      <3> HIDE DEF zeros
      <3>2. Len(Entries(list)) = 4
        BY <1>2, <1>4
      <3>3. QED
        BY <1>4, <3>1, <3>2
    <2>2. 4 % (MaxLength + 1) = 4
      BY Constants
    <2>3. Bytes(4, 2) = <<0, 4>>
      BY DEF Bytes
    <2>4. <<0, 4>> \o <<0, 0, 0, 0>> = <<0, 4, 0, 0, 0, 0>>
      BY TwoAndFour
    <2>5. QED
      BY <2>1, <2>2, <2>3, <2>4 DEF buildPlaceholderECH
  <1>6. e \in ItemRec /\ e.kind # Version
    <2>1. <<>> \in Seq(Byte)
      OBVIOUS
    <2>2. QED
      BY <1>1, <2>1 DEF ItemRec, Version
  <1>7. list \in ListRec
    <2>1. <<e>> \in Seq(ItemRec)
      BY <1>6, Singleton
    <2>2. <<>> \in Seq(ConfigRec)
      OBVIOUS
    <2> HIDE DEF e
    <2>3. QED
      BY <2>1, <2>2 DEF ListRec
  <1>8. MarshalListOK(list)
    <2>1. list.Unknown # <<>> /\ list.Configs = <<>>
      OBVIOUS
    <2> HIDE DEF list, zeros
    <2>2. Len(Entries(list)) <= MaxLength
      <3>1. Len(Entries(list)) = 4
        BY <1>2, <1>4
      <3>2. 4 <= MaxLength
        BY Constants
      <3>3. QED
        BY <3>1, <3>2
    <2>3. QED
      BY <2>1, <2>2 DEF MarshalListOK
  <1>9. \A i \in DOMAIN list.Unknown : list.Unknown[i].kind # Version
    BY <1>6
  <1>10. list.Configs = <<>>
    OBVIOUS
  <1> HIDE DEF list
  <1>11. QED
    BY <1>5, <1>7, <1>8, <1>9, <1>10, ListReadsBack
=============================================================================
