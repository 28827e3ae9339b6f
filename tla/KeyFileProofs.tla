---------------------------- MODULE KeyFileProofs ----------------------------
(***************************************************************************)
(* DNS serves the configs the keys were made with, however other tools     *)
(* rewrite the files: for every set of names, every set of forms to write  *)
(* a file in and any number of keys.                                       *)
(*                                                                         *)
(* A file that was not cut off is always Whole: some tool wrote it, with   *)
(* the config of its key.  Parse and UnmarshalList read such a file back,  *)
(* so the overlap list holds the configs as they were made.  Each of those *)
(* is valid and fits on its own, which leaves their number as the only     *)
(* reason to refuse the list.                                              *)
(***************************************************************************)
EXTENDS KeyFile, EchConfigListProofs

-----------------------------------------------------------------------------
(* base64.                                                                 *)

Pairs(list) == [i \in DOMAIN list |-> <<65 + (list[i] \div 16), 65 + (list[i] % 16)>>]

\* A byte and the letters of its halves.
LEMMA Halves ==
    ASSUME NEW n \in Byte
    PROVE  /\ 65 + (n \div 16) \in 65 .. 80 /\ 65 + (n % 16) \in 65 .. 80
           /\ 16 * ((65 + (n \div 16)) - 65) + (65 + (n % 16)) - 65 = n
  BY DEF Byte

LEMMA TwoLetters ==
    ASSUME NEW x \in 65 .. 80, NEW y \in 65 .. 80
    PROVE  <<x, y>> \in Seq(Byte) /\ Len(<<x, y>>) = 2 /\ <<x, y>>[1] = x /\ <<x, y>>[2] = y
  BY DEF Byte

\* The two letters of every byte, one pair behind the other.
LEMMA PairsAt ==
    ASSUME NEW list \in Seq(Byte)
    PROVE  LET v == FlattenSeq(Pairs(list))
           IN  /\ v \in Seq(Byte) /\ Len(list) \in Nat /\ Len(v) = 2 * Len(list)
               /\ \A i \in 1 .. Len(list) :
                     /\ v[2 * i - 1] = 65 + (list[i] \div 16)
                     /\ v[2 * i] = 65 + (list[i] % 16)
                     /\ v[2 * i - 1] \in 65 .. 80 /\ v[2 * i] \in 65 .. 80
                     /\ 16 * (v[2 * i - 1] - 65) + v[2 * i] - 65 = list[i]
  <1> DEFINE n == Len(list)
             pairs == Pairs(list)
             v == FlattenSeq(pairs)
             H(i) == 65 + (list[i] \div 16)
             L(i) == 65 + (list[i] % 16)
  <1>1. n \in Nat /\ DOMAIN list = 1 .. n /\ \A i \in 1 .. n : list[i] \in Byte
    BY LenProperties, ElementOfSeq
  <1>2. ASSUME NEW i \in 1 .. n
        PROVE  /\ H(i) \in 65 .. 80 /\ L(i) \in 65 .. 80
               /\ 16 * (H(i) - 65) + L(i) - 65 = list[i]
    BY <1>1, Halves
  <1>3. pairs = [i \in 1 .. n |-> <<H(i), L(i)>>]
    BY <1>1 DEF Pairs
  <1> HIDE DEF pairs, n, H, L
  <1>4. ASSUME NEW i \in 1 .. n
        PROVE  /\ pairs[i] \in Seq(Byte) /\ Len(pairs[i]) = 2
               /\ pairs[i][1] = H(i) /\ pairs[i][2] = L(i)
    BY <1>2, <1>3, TwoLetters
  <1>5. pairs \in Seq(Seq(Byte)) /\ Len(pairs) = n
    <2>1. pairs = [i \in 1 .. n |-> pairs[i]]
      BY <1>3
    <2>2. \A i \in 1 .. n : pairs[i] \in Seq(Byte)
      BY <1>4
    <2>3. pairs \in [1 .. n -> Seq(Byte)]
      BY <2>1, <2>2
    <2>4. QED
      BY <1>1, <2>3, FunctionIsSeq
  <1>6. v \in Seq(Byte) /\ \E at : Places(v, pairs, at)
    BY <1>5, FlattenPlaces
  <1> HIDE DEF v
  <1>7. PICK at : Places(v, pairs, at)
    BY <1>6
  <1>8. \A i \in 0 .. n : at[i] = 2 * i
    <2>1. AllWide(pairs, 2)
      BY <1>1, <1>4, <1>5 DEF AllWide
    <2>2. QED
      BY <1>5, <1>7, <2>1, PlacesOfWidth
  <1>9. /\ at[n] = Len(v)
        /\ \A i \in 1 .. n : \A j \in 1 .. 2 : v[at[i - 1] + j] = pairs[i][j]
    BY <1>4, <1>5, <1>7 DEF Places
  <1>10. Len(v) = 2 * n
    BY <1>1, <1>8, <1>9
  <1>11. ASSUME NEW i \in 1 .. n PROVE v[2 * i - 1] = H(i) /\ v[2 * i] = L(i)
    <2>1. i - 1 \in 0 .. n /\ 2 * (i - 1) + 1 = 2 * i - 1 /\ 2 * (i - 1) + 2 = 2 * i
      BY <1>1
    <2>2. v[2 * (i - 1) + 1] = pairs[i][1] /\ v[2 * (i - 1) + 2] = pairs[i][2]
      BY <1>8, <1>9, <2>1
    <2>3. QED
      BY <1>4, <2>1, <2>2
  <1>12. ASSUME NEW i \in 1 .. n
         PROVE  /\ v[2 * i - 1] = H(i) /\ v[2 * i] = L(i)
                /\ v[2 * i - 1] \in 65 .. 80 /\ v[2 * i] \in 65 .. 80
                /\ 16 * (v[2 * i - 1] - 65) + v[2 * i] - 65 = list[i]
    BY <1>2, <1>11
  <1>13. QED
    BY <1>1, <1>6, <1>10, <1>12 DEF v, n, H, L, pairs

LEMMA OddOrEven ==
    ASSUME NEW n \in Nat, NEW j \in 1 .. 2 * n
    PROVE  \E i \in 1 .. n : j = 2 * i - 1 \/ j = 2 * i
  <1> DEFINE i == (j + 1) \div 2
  <1>1. i \in 1 .. n /\ (j = 2 * i - 1 \/ j = 2 * i)
    OBVIOUS
  <1>2. QED
    BY <1>1

\* The body that was encoded once more is recognised and decoded.
LEMMA LettersReadBack ==
    ASSUME NEW list \in Seq(Byte), Len(list) >= 2
    PROVE  ListBytes(Letters(list)) = list
  <1> DEFINE n == Len(list)
             v == FlattenSeq(Pairs(list))
             t == Letters(list)
  <1>1. /\ v \in Seq(Byte) /\ n \in Nat /\ Len(v) = 2 * n
        /\ \A i \in 1 .. n : /\ v[2 * i - 1] \in 65 .. 80 /\ v[2 * i] \in 65 .. 80
                             /\ 16 * (v[2 * i - 1] - 65) + v[2 * i] - 65 = list[i]
    BY PairsAt
  <1>2. t = Append(v, 10)
    BY DEF Letters, Pairs
  <1>3. n >= 2 /\ DOMAIN list = 1 .. n /\ list = [i \in 1 .. n |-> list[i]]
    BY LenProperties
  <1>4. 10 \in Byte
    BY DEF Byte
  <1> HIDE DEF v, t
  <1>5. /\ t \in Seq(Byte) /\ Len(t) = Len(v) + 1 /\ t[Len(v) + 1] = 10
        /\ \A i \in 1 .. Len(v) : t[i] = v[i]
    <2>1. v \in Seq(Byte)
      BY <1>1
    <2>2. QED
      BY <1>2, <1>4, <2>1, AppendProperties
  <1> HIDE DEF n
  <1>6. /\ Len(t) = 2 * n + 1 /\ t[2 * n + 1] = 10
        /\ \A i \in 1 .. 2 * n : t[i] = v[i]
    BY <1>1, <1>5
  <1>7. ASSUME NEW i \in 1 .. n
        PROVE  /\ t[2 * i - 1] = v[2 * i - 1] /\ t[2 * i] = v[2 * i]
    <2>1. 2 * i - 1 \in 1 .. 2 * n /\ 2 * i \in 1 .. 2 * n
      BY <1>1
    <2>2. QED
      BY <1>6, <2>1
  <1>8. DOMAIN t = 1 .. 2 * n + 1
    BY <1>5, <1>6, LenProperties
  <1>9. ASSUME NEW j \in 1 .. 2 * n + 1 PROVE t[j] \in Alphabet \cup WhiteSpace
    <2>1. CASE j = 2 * n + 1
      BY <1>6, <2>1 DEF WhiteSpace
    <2>2. CASE j # 2 * n + 1
      <3>1. j \in 1 .. 2 * n
        BY <1>1, <2>2
      <3>2. PICK i \in 1 .. n : j = 2 * i - 1 \/ j = 2 * i
        BY <1>1, <3>1, OddOrEven
      <3>3. v[2 * i - 1] \in 65 .. 80 /\ v[2 * i] \in 65 .. 80
        BY <1>1
      <3>4. t[j] \in 65 .. 80
        BY <1>7, <3>2, <3>3
      <3>5. QED
        BY <3>4 DEF Alphabet
    <2>3. QED
      BY <2>1, <2>2
  <1>10. ToSet(t) \subseteq Alphabet \cup WhiteSpace
    BY <1>8, <1>9 DEF ToSet
  <1>11. Len(t) >= 4
    BY <1>1, <1>3, <1>6
  <1>12. looksLikeBase64(t)
    BY <1>10, <1>11 DEF looksLikeBase64
  <1>13. Len(t) \div 2 = n
    BY <1>1, <1>6
  <1>14. Unlettered(t) = [i \in 1 .. n |-> 16 * (t[2 * i - 1] - 65) + t[2 * i] - 65]
    BY <1>13 DEF Unlettered
  <1>15. \A i \in 1 .. n : 16 * (t[2 * i - 1] - 65) + t[2 * i] - 65 = list[i]
    BY <1>1, <1>7
  <1>16. Unlettered(t) = list
    BY <1>3, <1>14, <1>15
  <1>17. Decodes(t)
    <2>1. ASSUME NEW j \in 1 .. 2 * n PROVE t[j] \in 65 .. 80
      <3>1. PICK i \in 1 .. n : j = 2 * i - 1 \/ j = 2 * i
        BY <1>1, <2>1, OddOrEven
      <3>2. v[2 * i - 1] \in 65 .. 80 /\ v[2 * i] \in 65 .. 80
        BY <1>1
      <3>3. QED
        BY <1>7, <3>1, <3>2
    <2>2. QED
      BY <1>13, <2>1 DEF Decodes
  <1>18. QED
    BY <1>12, <1>16, <1>17 DEF t, ListBytes

\* Wire data of a list is never taken for base64.
LEMMA WireIsNotBase64 ==
    ASSUME NEW list \in ListRec, MarshalListOK(list), list.Configs # <<>>
    PROVE  ~looksLikeBase64(MarshalList(list))
  <1> DEFINE wire == MarshalList(list)
  <1>1. 3 \in DOMAIN wire /\ wire[3] = 254
    BY VersionOnTheWire
  <1> HIDE DEF wire
  <1>2. 254 \in ToSet(wire)
    BY <1>1 DEF ToSet
  <1>3. 254 \notin Alphabet \cup WhiteSpace
    BY DEF Alphabet, WhiteSpace
  <1>4. QED
    BY <1>2, <1>3 DEF looksLikeBase64, wire

-----------------------------------------------------------------------------
(* Files.                                                                  *)

KeyTypes == {"PRIVATE KEY", "private key"}
ListTypes == {"ECHCONFIG", "echconfig"}

LEMMA TypesOf ==
    ASSUME NEW b
    PROVE  /\ OfType(b, "PRIVATE KEY") <=> b.type \in KeyTypes
           /\ OfType(b, "ECHCONFIG") <=> b.type \in ListTypes
  <1>1. \/ b.type = "private key" /\ ToUpper(b.type) = "PRIVATE KEY"
        \/ b.type = "echconfig" /\ ToUpper(b.type) = "ECHCONFIG"
        \/ b.type \notin {"private key", "echconfig"} /\ ToUpper(b.type) = b.type
    BY DEF ToUpper
  <1>2. QED
    BY <1>1 DEF OfType, KeyTypes, ListTypes

\* A scalar survives its wrapping.
LEMMA KeyReadsBack ==
    ASSUME NEW k \in Nat
    PROVE  LET key == unwrapPKCS8(wrapPKCS8(Scalar(k)))
           IN  key.err = FALSE /\ key.raw = Scalar(k)
  <1> DEFINE a == <<4, 1>>
             b == <<k>>
             o == a \o b
  <1>1. a \in Seq(Nat) /\ b \in Seq(Nat) /\ Len(a) = 2 /\ Len(b) = 1
    OBVIOUS
  <1>2. OctetString(Scalar(k)) = o
    BY DEF OctetString, Scalar
  <1> HIDE DEF a, b
  <1>3. SubSeq(o, 1, 2) = a /\ SubSeq(o, 3, Len(o)) = b
    <2>1. /\ SubSeq(a \o b, 1, Len(a)) = a
          /\ SubSeq(a \o b, Len(a) + 1, Len(a \o b)) = b
      <3>1. a \in Seq(Nat) /\ b \in Seq(Nat)
        BY <1>1
      <3> HIDE DEF o
      <3>2. QED
        BY <3>1, ConcatParts
    <2>2. Len(a) = 2 /\ Len(a) + 1 = 3
      BY <1>1
    <2>3. QED
      BY <2>1, <2>2
  <1> HIDE DEF o
  <1> DEFINE der == wrapPKCS8(Scalar(k))
  <1>4. der.alg = "X25519" /\ der.key = o
    BY <1>2 DEF wrapPKCS8
  <1> HIDE DEF der
  <1>5. SubSeq(der.key, 1, 2) = <<4, Len(b)>> /\ SubSeq(der.key, 3, Len(der.key)) = b
    BY <1>1, <1>3, <1>4 DEF a
  <1> DEFINE err == der.alg # "X25519" \/ SubSeq(der.key, 1, 2) # <<4, Len(b)>> \/ Len(b) # KeySize
  <1>6. unwrapPKCS8(der) = [err |-> err, raw |-> b]
    BY <1>5 DEF unwrapPKCS8
  <1>7. err = FALSE
    BY <1>1, <1>4, <1>5 DEF KeySize
  <1> HIDE DEF err
  <1>8. unwrapPKCS8(der).err = FALSE /\ unwrapPKCS8(der).raw = b
    BY <1>6, <1>7
  <1>9. QED
    BY <1>8 DEF der, b, Scalar

\* Parse on a file with one key and one list, whatever else is in it.
LEMMA ParseOf ==
    ASSUME NEW file, NEW p \in DOMAIN file, NEW q \in DOMAIN file,
           \A j \in DOMAIN file : file[j].type \in KeyTypes <=> j = p,
           \A j \in DOMAIN file : file[j].type \in ListTypes <=> j = q
    PROVE  Parse(file) =
              LET key == unwrapPKCS8(file[p].bytes)
                  list == file[q].bytes
              IN  [ err |-> key.err, PrivateKey |-> key.raw, PublicKey |-> Public(key.raw),
                    ConfigListBytes |-> ListBytes(list) ]
  <1> DEFINE Once(type) == \E i \in DOMAIN file : \A j \in DOMAIN file : OfType(file[j], type) <=> j = i
             At(type) == CHOOSE i \in DOMAIN file : OfType(file[i], type)
  <1>1. /\ \A j \in DOMAIN file : OfType(file[j], "PRIVATE KEY") <=> j = p
        /\ \A j \in DOMAIN file : OfType(file[j], "ECHCONFIG") <=> j = q
    BY TypesOf
  <1>2. Once("PRIVATE KEY") /\ Once("ECHCONFIG")
    BY <1>1
  <1>3. At("PRIVATE KEY") = p /\ At("ECHCONFIG") = q
    BY <1>1
  <1>4. Parse(file) =
           LET key == unwrapPKCS8(file[At("PRIVATE KEY")].bytes)
               list == file[At("ECHCONFIG")].bytes
           IN  [ err |-> key.err, PrivateKey |-> key.raw, PublicKey |-> Public(key.raw),
                 ConfigListBytes |-> ListBytes(list) ]
    BY <1>2 DEF Parse
  <1> HIDE DEF At
  <1>5. QED
    BY <1>3, <1>4

\* Parse fails on a file without a key or without a list.
LEMMA ParseNeedsBoth ==
    ASSUME NEW file,
           \/ \A j \in DOMAIN file : file[j].type \notin KeyTypes
           \/ \A j \in DOMAIN file : file[j].type \notin ListTypes
    PROVE  Parse(file).err = TRUE
  <1> DEFINE Once(type) == \E i \in DOMAIN file : \A j \in DOMAIN file : OfType(file[j], type) <=> j = i
  <1>1. ~Once("PRIVATE KEY") \/ ~Once("ECHCONFIG")
    BY TypesOf
  <1>2. Parse(file) = [err |-> TRUE]
    BY <1>1 DEF Parse
  <1>3. QED
    BY <1>2

\* The file has one block with the key, one with the list, and one of them is the last.
TwoBlocks(file, p, q, der, body) ==
    /\ p \in DOMAIN file /\ q \in DOMAIN file /\ p # q
    /\ Len(file) \in Nat /\ DOMAIN file = 1 .. Len(file) /\ Len(file) \in {p, q}
    /\ \A j \in DOMAIN file : file[j].type \in KeyTypes <=> j = p
    /\ \A j \in DOMAIN file : file[j].type \in ListTypes <=> j = q
    /\ file[p].bytes = der /\ file[q].bytes = body

\* All forms in which another tool writes a file have this shape.
LEMMA WrittenShape ==
    ASSUME NEW raw, NEW list, NEW form, NEW file, file = Written(raw, list, form)
    PROVE  \E p, q : TwoBlocks(file, p, q, wrapPKCS8(raw),
                        IF "twice" \in form THEN Letters(MarshalList(list)) ELSE MarshalList(list))
  <1> DEFINE body == IF "twice" \in form THEN Letters(MarshalList(list)) ELSE MarshalList(list)
             der == wrapPKCS8(raw)
             key == Block(IF "lower" \in form THEN "private key" ELSE "PRIVATE KEY", der)
             ech == Block(IF "lower" \in form THEN "echconfig" ELSE "ECHCONFIG", body)
             com == Block("COMMENT", <<>>)
  <1>1. file = (IF "block" \in form THEN <<com>> ELSE <<>>) \o
               (IF "order" \in form THEN <<ech, key>> ELSE <<key, ech>>)
    BY DEF Written
  <1> HIDE DEF body, der
  <1>2. key.type \in KeyTypes /\ key.type \notin ListTypes /\ key.bytes = der
    BY DEF KeyTypes, ListTypes, Block
  <1>3. ech.type \in ListTypes /\ ech.type \notin KeyTypes /\ ech.bytes = body
    BY DEF KeyTypes, ListTypes, Block
  <1>4. com.type \notin ListTypes /\ com.type \notin KeyTypes
    BY DEF KeyTypes, ListTypes, Block
  <1> HIDE DEF key, ech, com
  <1>5. \/ file = <<com, ech, key>> \/ file = <<com, key, ech>>
        \/ file = <<ech, key>> \/ file = <<key, ech>>
    <2>1. <<com>> \o <<ech, key>> = <<com, ech, key>> /\ <<com>> \o <<key, ech>> = <<com, key, ech>>
      BY OneAndTwo
    <2>2. <<>> \o <<ech, key>> = <<ech, key>> /\ <<>> \o <<key, ech>> = <<key, ech>>
      OBVIOUS
    <2>3. QED
      BY <1>1, <2>1, <2>2
  <1>6. CASE file = <<com, ech, key>>
    <2>1. DOMAIN file = 1 .. 3 /\ Len(file) = 3 /\ file[1] = com /\ file[2] = ech /\ file[3] = key
      BY <1>6
    <2>2. 3 \in DOMAIN file /\ 2 \in DOMAIN file /\ \A j \in DOMAIN file : j = 1 \/ j = 2 \/ j = 3
      BY <2>1
    <2>3. TwoBlocks(file, 3, 2, der, body)
      BY <1>2, <1>3, <1>4, <2>1, <2>2 DEF TwoBlocks
    <2>4. QED
      BY <2>3 DEF body, der
  <1>7. CASE file = <<com, key, ech>>
    <2>1. DOMAIN file = 1 .. 3 /\ Len(file) = 3 /\ file[1] = com /\ file[2] = key /\ file[3] = ech
      BY <1>7
    <2>2. 3 \in DOMAIN file /\ 2 \in DOMAIN file /\ \A j \in DOMAIN file : j = 1 \/ j = 2 \/ j = 3
      BY <2>1
    <2>3. TwoBlocks(file, 2, 3, der, body)
      BY <1>2, <1>3, <1>4, <2>1, <2>2 DEF TwoBlocks
    <2>4. QED
      BY <2>3 DEF body, der
  <1>8. CASE file = <<ech, key>>
    <2>1. DOMAIN file = 1 .. 2 /\ Len(file) = 2 /\ file[1] = ech /\ file[2] = key
      BY <1>8
    <2>2. 1 \in DOMAIN file /\ 2 \in DOMAIN file /\ \A j \in DOMAIN file : j = 1 \/ j = 2
      BY <2>1
    <2>3. TwoBlocks(file, 2, 1, der, body)
      BY <1>2, <1>3, <2>1, <2>2 DEF TwoBlocks
    <2>4. QED
      BY <2>3 DEF body, der
  <1>9. CASE file = <<key, ech>>
    <2>1. DOMAIN file = 1 .. 2 /\ Len(file) = 2 /\ file[1] = key /\ file[2] = ech
      BY <1>9
    <2>2. 1 \in DOMAIN file /\ 2 \in DOMAIN file /\ \A j \in DOMAIN file : j = 1 \/ j = 2
      BY <2>1
    <2>3. TwoBlocks(file, 1, 2, der, body)
      BY <1>2, <1>3, <2>1, <2>2 DEF TwoBlocks
    <2>4. QED
      BY <2>3 DEF body, der
  <1>10. QED
    BY <1>5, <1>6, <1>7, <1>8, <1>9

\* A config as the program generates it for its key.
Sound(k, c) ==
    /\ c \in ConfigRec /\ c.ConfigID = k /\ c.PublicKey = Public(Scalar(k))
    /\ MarshalListOK(Solo(c))

\* A file that can be read: some tool has written it, and nothing cut it off.
Whole(file, k, c) ==
    \E form \in Forms \cup {{}} :
        MarshalListOK(Content(c, form)) /\ file = Written(Scalar(k), Content(c, form), form)
HasBoth(file) ==
    /\ \E i \in DOMAIN file : file[i].type \in KeyTypes
    /\ \E i \in DOMAIN file : file[i].type \in ListTypes

LEMMA IdsAreBytes == Ids \subseteq Byte /\ Ids \subseteq Nat
  BY KeyFileAssumption DEF Ids, Byte

\* The list in a file, with or without an entry of another version.
LEMMA ContentTyped ==
    ASSUME NEW c \in ConfigRec, NEW form
    PROVE  /\ Content(c, form) \in ListRec /\ Content(c, form).Configs = <<c>>
           /\ \A i \in DOMAIN Content(c, form).Unknown : Content(c, form).Unknown[i].kind # Version
  <1> DEFINE list == Content(c, form)
             entry == [kind |-> 16962, data |-> <<66>>]
  <1>1. list.Configs = <<c>> /\ (list.Unknown = <<entry>> \/ list.Unknown = <<>>)
        /\ list = [Configs |-> list.Configs, Unknown |-> list.Unknown]
    BY DEF Content
  <1>2. entry \in ItemRec /\ entry.kind # Version
    <2>1. <<66>> \in Seq(Byte)
      BY DEF Byte
    <2>2. 16962 \in UInt16
      BY Widths
    <2>3. QED
      BY <2>1, <2>2 DEF ItemRec, Version
  <1> HIDE DEF entry
  <1>3. list.Unknown \in Seq(ItemRec) /\ \A i \in DOMAIN list.Unknown : list.Unknown[i].kind # Version
    <2> DEFINE u == list.Unknown
    <2>1. CASE u = <<entry>>
      <3>1. <<entry>> \in Seq(ItemRec) /\ DOMAIN <<entry>> = 1 .. 1 /\ <<entry>>[1] = entry
        BY <1>2
      <3>2. QED
        BY <1>2, <2>1, <3>1
    <2>2. CASE u = <<>>
      BY <2>2
    <2>3. QED
      BY <1>1, <2>1, <2>2
  <1>4. <<c>> \in Seq(ConfigRec)
    BY Singleton
  <1> HIDE DEF list
  <1>5. list \in ListRec
    BY <1>1, <1>3, <1>4 DEF ListRec
  <1>6. QED
    BY <1>1, <1>3, <1>5 DEF list

\* What any tool writes of a key and its config, Parse and UnmarshalList read back.
LEMMA WholeReadsBack ==
    ASSUME NEW k \in Ids, NEW c, Sound(k, c), NEW file, Whole(file, k, c)
    PROVE  /\ Parse(file).err = FALSE /\ Parse(file).PublicKey = Public(Scalar(k))
           /\ UnmarshalList(Parse(file).ConfigListBytes).err = FALSE
           /\ UnmarshalList(Parse(file).ConfigListBytes).Configs = <<c>>
           /\ HasBoth(file)
           /\ Len(file) \in Nat /\ DOMAIN file = 1 .. Len(file) /\ Len(file) # 0
           /\ ~HasBoth(Front(file))
  <1>1. PICK form : MarshalListOK(Content(c, form)) /\ file = Written(Scalar(k), Content(c, form), form)
    BY DEF Whole
  <1> DEFINE list == Content(c, form)
             wire == MarshalList(list)
             body == IF "twice" \in form THEN Letters(wire) ELSE wire
             der == wrapPKCS8(Scalar(k))
  <1>2. c \in ConfigRec
    BY DEF Sound
  <1>3. /\ list \in ListRec /\ list.Configs = <<c>>
        /\ \A i \in DOMAIN list.Unknown : list.Unknown[i].kind # Version
    BY <1>2, ContentTyped
  <1>4. MarshalListOK(list) /\ file = Written(Scalar(k), list, form)
    BY <1>1
  <1> HIDE DEF list
  <1>5. PICK p, q : TwoBlocks(file, p, q, der, body)
    BY <1>4, WrittenShape
  <1>6. /\ UnmarshalList(wire) = [err |-> FALSE, Configs |-> list.Configs, Unknown |-> list.Unknown]
        /\ wire \in Seq(Byte)
    BY <1>3, <1>4, ListReadsBack
  <1>7. list.Configs # <<>>
    BY <1>3
  <1>8. ~looksLikeBase64(wire) /\ Len(wire) >= 3
    BY <1>3, <1>4, <1>7, WireIsNotBase64, VersionOnTheWire
  <1>9. Len(wire) \in Nat
    BY <1>6, LenProperties
  <1> HIDE DEF wire
  <1>10. ListBytes(Letters(wire)) = wire
    <2>1. Len(wire) >= 2
      BY <1>8, <1>9
    <2>2. QED
      BY <1>6, <2>1, LettersReadBack
  <1>11. ListBytes(body) = wire
    BY <1>8, <1>10 DEF ListBytes
  <1>12. k \in Nat
    BY IdsAreBytes
  <1>13. unwrapPKCS8(der).err = FALSE /\ unwrapPKCS8(der).raw = Scalar(k)
    BY <1>12, KeyReadsBack
  <1> HIDE DEF body, der
  <1>14. /\ p \in DOMAIN file /\ q \in DOMAIN file /\ p # q
         /\ Len(file) \in Nat /\ DOMAIN file = 1 .. Len(file) /\ Len(file) \in {p, q}
         /\ \A j \in DOMAIN file : file[j].type \in KeyTypes <=> j = p
         /\ \A j \in DOMAIN file : file[j].type \in ListTypes <=> j = q
         /\ file[p].bytes = der /\ file[q].bytes = body
    BY <1>5 DEF TwoBlocks
  <1> DEFINE bytes == ListBytes(body)
             key == unwrapPKCS8(der)
  <1>15. Parse(file) = [ err |-> key.err, PrivateKey |-> key.raw, PublicKey |-> Public(key.raw),
                         ConfigListBytes |-> bytes ]
    BY <1>14, ParseOf
  <1>16. bytes = wire /\ key.err = FALSE /\ key.raw = Scalar(k)
    BY <1>11, <1>13
  <1> HIDE DEF bytes, key
  <1>17. /\ Parse(file).err = FALSE /\ Parse(file).PublicKey = Public(Scalar(k))
         /\ Parse(file).ConfigListBytes = wire
    BY <1>15, <1>16
  <1>18. UnmarshalList(wire).err = FALSE /\ UnmarshalList(wire).Configs = <<c>>
    BY <1>3, <1>6
  <1>19. HasBoth(file) /\ Len(file) # 0
    BY <1>14 DEF HasBoth
  <1>20. ~HasBoth(Front(file))
    <2> DEFINE n == Len(file)
               front == Front(file)
    <2>1. n \in Nat /\ n # 0 /\ n \in {p, q}
      BY <1>14, <1>19
    <2>2. DOMAIN front = 1 .. n - 1 /\ \A j \in 1 .. n - 1 : front[j] = file[j]
      BY <2>1 DEF Front
    <2>3. DOMAIN file = 1 .. n
      BY <1>14
    <2> HIDE DEF front, n
    <2>4. \A j \in 1 .. n - 1 : j \in DOMAIN file /\ j # n
      <3>1. \A j \in 1 .. n - 1 : j \in 1 .. n /\ j # n
        BY <2>1
      <3>2. QED
        BY <2>3, <3>1
    <2>5. \/ \A j \in DOMAIN front : front[j].type \notin KeyTypes
          \/ \A j \in DOMAIN front : front[j].type \notin ListTypes
      BY <1>14, <2>1, <2>2, <2>4
    <2>6. QED
      BY <2>5 DEF HasBoth, front
  <1>21. QED
    BY <1>14, <1>17, <1>18, <1>19, <1>20

LEMMA NoBothNoParse ==
    ASSUME NEW file, ~HasBoth(file)
    PROVE  Parse(file).err = TRUE
  BY ParseNeedsBoth DEF HasBoth

\* What this program writes is one of the forms.
LEMMA MarshalIsWhole ==
    ASSUME NEW k \in Ids, NEW c, Sound(k, c)
    PROVE  Whole(Marshal(Scalar(k), MarshalList(Solo(c))), k, c)
  <1>1. Content(c, {}) = Solo(c)
    BY DEF Content, Solo
  <1> DEFINE wire == MarshalList(Solo(c))
             key == Block("PRIVATE KEY", wrapPKCS8(Scalar(k)))
             ech == Block("ECHCONFIG", wire)
  <1>2. Written(Scalar(k), Solo(c), {}) = <<>> \o <<key, ech>>
    BY DEF Written
  <1>3. Marshal(Scalar(k), wire) = <<key, ech>>
    BY DEF Marshal
  <1> HIDE DEF wire, key, ech
  <1>4. <<>> \o <<key, ech>> = <<key, ech>>
    OBVIOUS
  <1>5. Marshal(Scalar(k), MarshalList(Solo(c))) = Written(Scalar(k), Content(c, {}), {})
    BY <1>1, <1>2, <1>3, <1>4 DEF wire
  <1>6. MarshalListOK(Content(c, {}))
    BY <1>1 DEF Sound
  <1>7. {} \in Forms \cup {{}}
    OBVIOUS
  <1>8. QED
    BY <1>5, <1>6, <1>7 DEF Whole

-----------------------------------------------------------------------------
(* The inductive invariant.                                                *)

Entry == [id : Ids, state : {"current", "previous"}]

Types ==
    /\ entries \in Seq(Entry)
    /\ DOMAIN files = Ids /\ DOMAIN made = Ids
    /\ stage \in {"idle", "overlap", "solo", "retire"}

\* A key keeps the config it was made with, one the list encoding can hold.
MadeSound == \A k \in Ids : made[k] # NoConfig => Sound(k, made[k])
EntriesMade == \A i \in DOMAIN entries : made[entries[i].id] # NoConfig

\* An id is not of a current and of a previous entry at once: Retire takes no other file.
OneState == \A i, j \in DOMAIN entries : entries[i].id = entries[j].id => entries[i].state = entries[j].state

NewMade == stage # "idle" => \E k \in Ids : new = made[k] /\ new # NoConfig

\* What was not cut off is whole, whoever wrote it last.
FilesWhole == \A k \in Used \ Cut : Whole(files[k], k, made[k])

\* Every served config holds the public key of its id.
ServedOwn ==
    \A i \in DOMAIN UnmarshalList(served).Configs :
        LET c == UnmarshalList(served).Configs[i] IN c.PublicKey = Public(Scalar(c.ConfigID))

KeyInv == Types /\ MadeSound /\ EntriesMade /\ OneState /\ NewMade /\ FilesWhole /\ ServedOwn

\* Cut, in the terms of the proofs.
LEMMA CutIs ==
    /\ Cut = {k \in Used : ~HasBoth(files[k])}
    /\ Cut' = {k \in Used' : ~HasBoth(files'[k])}
  BY DEF Cut, HasBlock, HasBoth, KeyTypes, ListTypes

LEMMA SoundIsConfig ==
    ASSUME NEW k \in Ids, NEW c, Sound(k, c)
    PROVE  c # NoConfig /\ c.ConfigID = k /\ c.PublicKey = Public(Scalar(c.ConfigID)) /\ c \in ConfigRec
  <1>1. c.ConfigID = k /\ k \in Byte
    BY IdsAreBytes DEF Sound
  <1>2. NoConfig.ConfigID = 256
    BY DEF NoConfig
  <1>3. c # NoConfig
    BY <1>1, <1>2 DEF Byte
  <1>4. QED
    BY <1>1, <1>3 DEF Sound

LEMMA NamesAreBytes ==
    ASSUME NEW name \in PublicNames
    PROVE  name \in Seq(Byte) /\ MaxNameLength(name) \in Byte /\ 64 \in Byte
  <1>1. name \in Seq(Byte)
    BY KeyFileAssumption DEF Byte
  <1> DEFINE n == Len(name)
  <1>2. n \in Nat
    BY <1>1, LenProperties
  <1>3. MaxNameLength(name) = IF n > 64 THEN n % 256 ELSE 64
    BY DEF MaxNameLength
  <1> HIDE DEF n
  <1>4. n % 256 \in Byte /\ 64 \in Byte
    BY <1>2 DEF Byte
  <1>5. QED
    BY <1>1, <1>3, <1>4

\* What Generate and keygen make is a config of its key.
LEMMA NewConfigIsSound ==
    ASSUME NEW k \in Ids, NEW name \in PublicNames, NEW max \in Byte,
           NEW c, c = NewConfig(k, name, max), MarshalListOK(Solo(c))
    PROVE  Sound(k, c)
  <1> DEFINE pk == Public(Scalar(k))
             cs == DefaultCipherSuites
  <1>1. k \in Byte
    BY IdsAreBytes
  <1>2. pk \in Seq(Byte)
    <2>1. pk = <<255 - k>>
      BY DEF Public, Scalar
    <2>2. 255 - k \in Byte
      BY <1>1 DEF Byte
    <2>3. QED
      BY <2>1, <2>2, Singleton
  <1>3. cs \in Seq(SuiteRec)
    <2>1. 1 \in UInt16 /\ 3 \in UInt16
      BY Widths
    <2>2. Suite(1) \in SuiteRec /\ Suite(3) \in SuiteRec
      BY <2>1 DEF Suite, SuiteRec
    <2> HIDE DEF cs
    <2>3. <<Suite(1), Suite(3)>> \in Seq(SuiteRec)
      BY <2>2
    <2>4. QED
      BY <2>3 DEF cs, DefaultCipherSuites
  <1>4. name \in Seq(Byte) /\ 32 \in UInt16 /\ <<>> \in Seq(ItemRec)
    BY NamesAreBytes, Widths
  <1>5. c = [ ConfigID |-> k, KEMID |-> 32, PublicKey |-> pk, CipherSuites |-> cs,
              MaximumNameLength |-> max, PublicName |-> name, Extensions |-> <<>> ]
    BY DEF NewConfig
  <1> HIDE DEF pk, cs
  <1>6. c \in ConfigRec
    BY <1>1, <1>2, <1>3, <1>4, <1>5 DEF ConfigRec
  <1>7. c.ConfigID = k /\ c.PublicKey = pk
    BY <1>5
  <1>8. QED
    BY <1>6, <1>7 DEF Sound, pk

\* Add demotes the current entry.
LEMMA DemotedIs ==
    ASSUME entries \in Seq(Entry)
    PROVE  /\ Len(entries) \in Nat /\ DOMAIN entries = 1 .. Len(entries)
           /\ Demoted \in Seq(Entry) /\ Len(Demoted) = Len(entries)
           /\ \A i \in 1 .. Len(entries) :
                 /\ entries[i] \in Entry
                 /\ Demoted[i].id = entries[i].id
                 /\ Demoted[i].state = IF entries[i].state = "current" THEN "previous" ELSE entries[i].state
  <1> DEFINE n == Len(entries)
             D(i) == [entries[i] EXCEPT !.state = IF @ = "current" THEN "previous" ELSE @]
  <1>1. n \in Nat /\ DOMAIN entries = 1 .. n /\ \A i \in 1 .. n : entries[i] \in Entry
    BY LenProperties, ElementOfSeq
  <1>2. Demoted = [i \in 1 .. n |-> D(i)]
    BY <1>1 DEF Demoted
  <1> HIDE DEF n
  <1>3. ASSUME NEW i \in 1 .. n
        PROVE  /\ D(i) \in Entry /\ D(i).id = entries[i].id
               /\ D(i).state = IF entries[i].state = "current" THEN "previous" ELSE entries[i].state
    <2>1. entries[i] \in Entry
      BY <1>1
    <2>2. QED
      BY <2>1 DEF Entry
  <1> HIDE DEF D
  <1>4. Demoted \in Seq(Entry) /\ Len(Demoted) = n
    <2>1. Demoted \in [1 .. n -> Entry]
      BY <1>2, <1>3
    <2>2. QED
      BY <1>1, <2>1, FunctionIsSeq
  <1>5. \A i \in 1 .. n : Demoted[i] = D(i)
    BY <1>2
  <1>6. QED
    BY <1>1, <1>3, <1>4, <1>5 DEF n

\* A new key leaves what is known of the others.
LEMMA AddKeeps ==
    ASSUME Types, MadeSound, EntriesMade, OneState, FilesWhole,
           NEW k \in Ids, Free(k), NEW c, Sound(k, c), Add(c)
    PROVE  /\ entries' \in Seq(Entry) /\ DOMAIN files' = Ids /\ DOMAIN made' = Ids
           /\ MadeSound' /\ EntriesMade' /\ OneState' /\ FilesWhole'
           /\ made'[k] = c /\ c # NoConfig
           /\ \A j \in Ids : made[j] # NoConfig => made'[j] = made[j]
  <1> DEFINE n == Len(entries)
             new1 == [id |-> k, state |-> "current"]
             wrote == Marshal(Scalar(k), MarshalList(Solo(c)))
  <1>1. c.ConfigID = k /\ c # NoConfig
    BY SoundIsConfig
  <1>2. /\ n \in Nat /\ DOMAIN entries = 1 .. n /\ Demoted \in Seq(Entry) /\ Len(Demoted) = n
        /\ \A i \in 1 .. n :
              /\ entries[i] \in Entry
              /\ Demoted[i].id = entries[i].id
              /\ Demoted[i].state = IF entries[i].state = "current" THEN "previous" ELSE entries[i].state
    BY DemotedIs DEF Types
  <1>3. new1 \in Entry /\ new1.id = k
    BY DEF Entry
  <1>4. /\ entries' = Append(Demoted, new1)
        /\ files' = [files EXCEPT ![k] = wrote]
        /\ made' = [made EXCEPT ![k] = c]
    BY <1>1 DEF Add
  <1> HIDE DEF n, new1, wrote
  <1>5. /\ entries' \in Seq(Entry) /\ Len(entries') = n + 1
        /\ \A i \in 1 .. n : entries'[i] = Demoted[i]
        /\ entries'[n + 1] = new1
    BY <1>2, <1>3, <1>4, AppendProperties
  <1>6. DOMAIN entries' = 1 .. n + 1
    BY <1>5, LenProperties
  <1>7. \A i \in 1 .. n + 1 : i \in 1 .. n \/ i = n + 1
    BY <1>2
  <1>8. /\ DOMAIN files' = Ids /\ DOMAIN made' = Ids
        /\ files'[k] = wrote /\ made'[k] = c
        /\ \A j \in Ids : j # k => files'[j] = files[j] /\ made'[j] = made[j]
    BY <1>4 DEF Types
  <1>9. k \notin Used /\ made[k] = NoConfig
    BY DEF Free
  <1>10. \A i \in 1 .. n : entries[i].id # k /\ entries[i].id \in Ids
    BY <1>2, <1>9 DEF Used, Entry
  <1>11. MadeSound'
    <2> SUFFICES ASSUME NEW j \in Ids, made'[j] # NoConfig PROVE Sound(j, made'[j])
      BY DEF MadeSound, Sound
    <2>1. CASE j = k
      BY <1>8, <2>1
    <2>2. CASE j # k
      BY <1>8, <2>2 DEF MadeSound
    <2>3. QED
      BY <2>1, <2>2
  <1>12. EntriesMade'
    <2> SUFFICES ASSUME NEW i \in 1 .. n + 1 PROVE made'[entries'[i].id] # NoConfig
      BY <1>6 DEF EntriesMade
    <2>1. CASE i \in 1 .. n
      BY <1>2, <1>5, <1>8, <1>10, <2>1 DEF EntriesMade
    <2>2. CASE i = n + 1
      BY <1>1, <1>3, <1>5, <1>8, <2>2
    <2>3. QED
      BY <1>7, <2>1, <2>2
  <1>13. OneState'
    <2> SUFFICES ASSUME NEW i \in 1 .. n + 1, NEW j \in 1 .. n + 1, entries'[i].id = entries'[j].id
                 PROVE  entries'[i].state = entries'[j].state
      BY <1>6 DEF OneState
    <2>1. CASE i \in 1 .. n /\ j \in 1 .. n
      BY <1>2, <1>5, <2>1 DEF OneState
    <2>2. CASE i = n + 1 /\ j = n + 1
      BY <2>2
    <2>3. CASE (i = n + 1 /\ j \in 1 .. n) \/ (i \in 1 .. n /\ j = n + 1)
      BY <1>2, <1>3, <1>5, <1>10, <2>3
    <2>4. QED
      BY <1>7, <2>1, <2>2, <2>3
  <1>14. FilesWhole'
    <2> SUFFICES ASSUME NEW j \in Used' \ Cut' PROVE Whole(files'[j], j, made'[j])
      BY DEF FilesWhole, Whole
    <2>1. HasBoth(files'[j])
      BY CutIs
    <2>2. j \in Ids /\ (j # k => j \in Used)
      <3>1. PICK i \in 1 .. n + 1 : j = entries'[i].id
        BY <1>6 DEF Used
      <3>2. CASE i \in 1 .. n
        BY <1>2, <1>5, <1>10, <3>1, <3>2 DEF Used
      <3>3. CASE i = n + 1
        BY <1>3, <1>5, <3>1, <3>3
      <3>4. QED
        BY <1>7, <3>2, <3>3
    <2>3. CASE j = k
      BY <1>8, <2>3, MarshalIsWhole DEF wrote
    <2>4. CASE j # k
      <3>1. j \in Used \ Cut
        BY <1>8, <2>1, <2>2, <2>4, CutIs
      <3>2. QED
        BY <1>8, <2>2, <2>4, <3>1 DEF FilesWhole
    <2>5. QED
      BY <2>3, <2>4
  <1>15. \A j \in Ids : made[j] # NoConfig => made'[j] = made[j]
    BY <1>8, <1>9
  <1>16. QED
    BY <1>1, <1>5, <1>8, <1>11, <1>12, <1>13, <1>14, <1>15

\* The entries of the files that the overlap list and Retire take.
LEMMA PreviousIs ==
    ASSUME entries \in Seq(Entry)
    PROVE  /\ Len(Previous) \in Nat /\ DOMAIN Previous = 1 .. Len(Previous)
           /\ \A i \in DOMAIN Previous :
                 \E j \in DOMAIN entries : Previous[i] = entries[j] /\ entries[j].state = "previous"
  <1> DEFINE I == {i \in DOMAIN entries : entries[i].state = "previous"}
             S == {entries[i] : i \in I}
             t == Selected(entries, I)
  <1>1. t \in Seq(S)
    <2>1. Len(entries) \in Nat
      BY LenProperties
    <2>2. \A i \in 1 .. Len(entries) : i \in I => entries[i] \in S
      OBVIOUS
    <2> HIDE DEF I, S
    <2>3. QED
      BY <2>1, <2>2, SelectedFrom
  <1>2. Previous = Reverse(t)
    BY DEF Previous
  <1> HIDE DEF t, S
  <1>3. Previous \in Seq(S)
    <2> DEFINE n == Len(t)
    <2>1. n \in Nat /\ DOMAIN t = 1 .. n /\ \A i \in 1 .. n : t[i] \in S
      BY <1>1, LenProperties, ElementOfSeq
    <2>2. Previous = [i \in 1 .. n |-> t[(n - i) + 1]]
      BY <1>2 DEF Reverse
    <2> HIDE DEF n
    <2>3. \A i \in 1 .. n : (n - i) + 1 \in 1 .. n
      BY <2>1
    <2>4. Previous \in [1 .. n -> S]
      BY <2>1, <2>2, <2>3
    <2>5. QED
      BY <2>1, <2>4, FunctionIsSeq
  <1>4. Len(Previous) \in Nat /\ DOMAIN Previous = 1 .. Len(Previous)
    BY <1>3, LenProperties
  <1>5. \A i \in DOMAIN Previous : Previous[i] \in S
    BY <1>3, <1>4, ElementOfSeq
  <1>6. QED
    BY <1>4, <1>5 DEF S

\* Retire removes the entries and the files of the same keys.
LEMMA RetireKeeps ==
    ASSUME Types, EntriesMade, OneState, FilesWhole, Retire
    PROVE  entries' \in Seq(Entry) /\ DOMAIN files' = Ids /\ EntriesMade' /\ OneState' /\ FilesWhole'
  <1> DEFINE I == {i \in DOMAIN entries : entries[i].state # "previous"}
             S == {entries[i] : i \in I}
             gone == {Previous[i].id : i \in DOMAIN Previous}
  <1>1. /\ entries \in Seq(Entry) /\ Len(entries) \in Nat /\ DOMAIN entries = 1 .. Len(entries)
        /\ \A i \in DOMAIN entries : entries[i] \in Entry
    BY LenProperties, ElementOfSeq DEF Types
  <1>2. /\ entries' = Selected(entries, I)
        /\ files' = [k \in Ids |-> IF k \in gone THEN <<>> ELSE files[k]]
        /\ made' = made
    BY DEF Retire
  <1>3. entries' \in Seq(S) /\ S \subseteq Entry
    <2>1. S \subseteq Entry
      BY <1>1
    <2>2. \A i \in 1 .. Len(entries) : i \in I => entries[i] \in S
      OBVIOUS
    <2> HIDE DEF I, S
    <2>3. QED
      BY <1>1, <1>2, <2>1, <2>2, SelectedFrom
  <1> HIDE DEF S, gone
  <1>4. \A i \in DOMAIN entries' : entries'[i] \in S
    <2>1. DOMAIN entries' = 1 .. Len(entries')
      BY <1>3, LenProperties
    <2>2. QED
      BY <1>3, <2>1, ElementOfSeq
  <1>5. entries' \in Seq(Entry)
    BY <1>3, SeqMonotonic
  <1>6. EntriesMade'
    BY <1>2, <1>4 DEF EntriesMade, S
  <1>7. OneState'
    BY <1>4 DEF OneState, S
  <1>8. FilesWhole'
    <2> SUFFICES ASSUME NEW k \in Used' \ Cut' PROVE Whole(files'[k], k, made'[k])
      BY DEF FilesWhole, Whole
    <2>1. PICK i \in DOMAIN entries' : k = entries'[i].id
      BY DEF Used
    <2>2. PICK j \in DOMAIN entries : k = entries[j].id /\ entries[j].state # "previous"
      BY <1>4, <2>1 DEF S
    <2>3. k \in Used /\ k \in Ids
      BY <1>1, <2>2 DEF Used, Entry
    <2>4. k \notin gone
      <3> SUFFICES ASSUME NEW m \in DOMAIN Previous, Previous[m].id = k PROVE FALSE
        BY DEF gone
      <3>1. PICK l \in DOMAIN entries : Previous[m] = entries[l] /\ entries[l].state = "previous"
        BY <1>1, PreviousIs
      <3>2. QED
        BY <2>2, <3>1 DEF OneState
    <2>5. files'[k] = files[k]
      BY <1>2, <2>3, <2>4
    <2>6. k \notin Cut
      BY <2>3, <2>5, CutIs
    <2>7. QED
      BY <1>2, <2>3, <2>5, <2>6 DEF FilesWhole
  <1>9. QED
    BY <1>2, <1>5, <1>6, <1>7, <1>8

\* One file gets other blocks: if they are whole, or no longer both there.
LEMMA OneFileKeeps ==
    ASSUME Types, FilesWhole, NEW k \in Ids, NEW file,
           files' = [files EXCEPT ![k] = file], UNCHANGED <<entries, made>>,
           k \in Used /\ HasBoth(file) => Whole(file, k, made[k])
    PROVE  DOMAIN files' = Ids /\ FilesWhole'
  <1>1. DOMAIN files' = Ids /\ files'[k] = file /\ \A j \in Ids : j # k => files'[j] = files[j]
    BY DEF Types
  <1>2. Used' = Used
    BY DEF Used
  <1>3. Used \subseteq Ids
    <2>1. DOMAIN entries = 1 .. Len(entries)
      BY LenProperties DEF Types
    <2>2. \A i \in DOMAIN entries : entries[i] \in Entry
      BY <2>1, ElementOfSeq DEF Types
    <2>3. QED
      BY <2>2 DEF Used, Entry
  <1>4. ASSUME NEW j \in Used' \ Cut' PROVE Whole(files'[j], j, made'[j])
    <2>1. j \in Used /\ j \in Ids /\ HasBoth(files'[j]) /\ made'[j] = made[j]
      BY <1>2, <1>3, CutIs
    <2>2. CASE j = k
      BY <1>1, <2>1, <2>2
    <2>3. CASE j # k
      BY <1>1, <2>1, <2>3, CutIs DEF FilesWhole
    <2>4. QED
      BY <2>2, <2>3
  <1>5. FilesWhole'
    BY <1>4 DEF FilesWhole, Whole
  <1>6. QED
    BY <1>1, <1>5

\* A file that lost its last block has no key or no list any more.
LEMMA CutKeeps ==
    ASSUME Types, MadeSound, EntriesMade, FilesWhole, NEW k \in Ids, CutFile(k)
    PROVE  DOMAIN files' = Ids /\ FilesWhole'
  <1>1. /\ files' = [files EXCEPT ![k] = Front(files[k])] /\ UNCHANGED <<entries, made>> /\ k \notin Cut
    BY DEF CutFile
  <1>2. k \in Used => ~HasBoth(Front(files[k]))
    <2> SUFFICES ASSUME k \in Used PROVE ~HasBoth(Front(files[k]))
      OBVIOUS
    <2>1. made[k] # NoConfig
      BY DEF Used, EntriesMade
    <2>2. Sound(k, made[k]) /\ Whole(files[k], k, made[k])
      BY <1>1, <2>1 DEF MadeSound, FilesWhole
    <2>3. QED
      BY <2>2, WholeReadsBack
  <1>3. QED
    BY <1>1, <1>2, OneFileKeeps

\* A file that another tool has written is whole.
LEMMA RewriteKeeps ==
    ASSUME Types, FilesWhole, NEW k \in Ids, NEW form \in Forms, Rewrite(k, form)
    PROVE  DOMAIN files' = Ids /\ FilesWhole'
  <1> DEFINE list == Content(made[k], form)
             file == Written(Scalar(k), list, form)
  <1>1. MarshalListOK(list) /\ files' = [files EXCEPT ![k] = file] /\ UNCHANGED <<entries, made>>
    BY DEF Rewrite
  <1>2. Whole(file, k, made[k])
    BY <1>1 DEF Whole
  <1> HIDE DEF file
  <1>3. QED
    BY <1>1, <1>2, OneFileKeeps

-----------------------------------------------------------------------------
(* The lists of the rotator.                                               *)

\* A config of a key is valid, and alone in a list it fits.
LEMMA SoundFits ==
    ASSUME NEW k, NEW c, Sound(k, c)
    PROVE  validate(c) /\ Len(Body(c)) <= MaxLength /\ Solo(c) \in ListRec /\ Solo(c).Configs = <<c>>
           /\ Solo(c).Unknown = <<>> /\ MarshalListOK(Solo(c))
  <1>1. Solo(c).Configs = <<c>> /\ Solo(c).Unknown = <<>>
    BY DEF Solo
  <1>2. c \in ConfigRec /\ MarshalListOK(Solo(c))
    BY DEF Sound
  <1>3. validate(c) /\ Len(Body(c)) <= MaxLength
    <2>1. 1 \in DOMAIN <<c>> /\ <<c>>[1] = c
      OBVIOUS
    <2>2. QED
      BY <1>1, <1>2, <2>1 DEF MarshalListOK
  <1>4. Solo(c) \in ListRec
    <2>1. <<c>> \in Seq(ConfigRec) /\ <<>> \in Seq(ItemRec)
      BY <1>2
    <2>2. QED
      BY <2>1 DEF Solo, ListRec
  <1>5. QED
    BY <1>1, <1>2, <1>3, <1>4

\* A previous file that was not cut off reads back to the config of its key.
LEMMA ReadsMade ==
    ASSUME KeyInv, NEW i \in DOMAIN Previous
    PROVE  LET id == Previous[i].id
           IN  /\ id \in Ids /\ Sound(id, made[id])
               /\ id \notin Cut => /\ Read1(Previous[i]).err = FALSE
                                   /\ Read1(Previous[i]).Configs = <<made[id]>>
               /\ id \in Cut => Read1(Previous[i]).err = TRUE
  <1> DEFINE id == Previous[i].id
             f == Parse(files[id])
  <1>1. PICK j \in DOMAIN entries : Previous[i] = entries[j] /\ entries[j].state = "previous"
    BY PreviousIs DEF KeyInv, Types
  <1>2. id = entries[j].id /\ id \in Ids /\ id \in Used
    <2>1. entries[j] \in Entry
      BY ElementOfSeq, LenProperties DEF KeyInv, Types
    <2>2. QED
      BY <1>1, <2>1 DEF Entry, Used
  <1>3. Sound(id, made[id])
    BY <1>2 DEF KeyInv, EntriesMade, MadeSound
  <1>4. Read1(Previous[i]) = IF f.err THEN [err |-> TRUE, Configs |-> <<>>] ELSE UnmarshalList(f.ConfigListBytes)
    BY DEF Read1
  <1> HIDE DEF id
  <1>5. ASSUME id \notin Cut
        PROVE  Read1(Previous[i]).err = FALSE /\ Read1(Previous[i]).Configs = <<made[id]>>
    <2>1. Whole(files[id], id, made[id])
      BY <1>2, <1>5 DEF KeyInv, FilesWhole
    <2> DEFINE file == files[id]
               c == made[id]
    <2>2. id \in Ids /\ Sound(id, c) /\ Whole(file, id, c)
      BY <1>2, <1>3, <2>1
    <2>3. f = Parse(file)
      OBVIOUS
    <2> HIDE DEF file, c, f
    <2>4. /\ Parse(file).err = FALSE /\ UnmarshalList(Parse(file).ConfigListBytes).err = FALSE
          /\ UnmarshalList(Parse(file).ConfigListBytes).Configs = <<c>>
      BY <2>2, WholeReadsBack
    <2>5. QED
      BY <1>4, <2>3, <2>4 DEF c
  <1>6. ASSUME id \in Cut PROVE Read1(Previous[i]).err = TRUE
    <2>1. ~HasBoth(files[id])
      BY <1>6, CutIs
    <2>2. f.err = TRUE
      BY <2>1, NoBothNoParse
    <2>3. QED
      BY <1>4, <2>2
  <1>7. QED
    BY <1>2, <1>3, <1>5, <1>6 DEF id

\* What the overlap list is, when every previous file can be read.
Made == [i \in DOMAIN Previous |-> made[Previous[i].id]]
Together == [Configs |-> <<new>> \o Made, Unknown |-> <<>>]

\* The config of the rotation under way is that of a key.
LEMMA NewIsSound ==
    ASSUME KeyInv, stage # "idle"
    PROVE  new.ConfigID \in Ids /\ Sound(new.ConfigID, new) /\ made[new.ConfigID] = new
  <1>1. PICK k \in Ids : new = made[k] /\ new # NoConfig
    BY DEF KeyInv, NewMade
  <1>2. Sound(k, new)
    BY <1>1 DEF KeyInv, MadeSound
  <1>3. new.ConfigID = k
    BY <1>2 DEF Sound
  <1>4. QED
    BY <1>1, <1>2, <1>3

\* The overlap list holds configs of keys and nothing else.
LEMMA TogetherTyped ==
    ASSUME KeyInv, stage # "idle"
    PROVE  /\ Together \in ListRec /\ Together.Configs = <<new>> \o Made /\ Together.Unknown = <<>>
           /\ Together.Configs # <<>>
           /\ \A i \in DOMAIN Together.Configs :
                 \E k \in Ids : Sound(k, Together.Configs[i])
  <1> DEFINE a == <<new>>
             n == Len(Previous)
             v == a \o Made
  <1>1. n \in Nat /\ DOMAIN Previous = 1 .. n
    BY PreviousIs DEF KeyInv, Types
  <1>2. \A i \in 1 .. n : Previous[i].id \in Ids /\ Sound(Previous[i].id, made[Previous[i].id])
    BY <1>1, ReadsMade
  <1>3. Sound(new.ConfigID, new) /\ new.ConfigID \in Ids
    BY NewIsSound
  <1>4. \A k, c : Sound(k, c) => c \in ConfigRec
    BY DEF Sound
  <1>5. Made = [i \in 1 .. n |-> made[Previous[i].id]]
    BY <1>1 DEF Made
  <1> HIDE DEF n
  <1>6. \A i \in 1 .. n : Made[i] = made[Previous[i].id]
    BY <1>5
  <1>7. Made \in Seq(ConfigRec) /\ Len(Made) = n
    <2>1. Made \in [1 .. n -> ConfigRec]
      BY <1>2, <1>4, <1>5
    <2>2. QED
      BY <1>1, <2>1, FunctionIsSeq
  <1>8. a \in Seq(ConfigRec) /\ Len(a) = 1 /\ a[1] = new
    BY <1>3, <1>4, Singleton
  <1> HIDE DEF a
  <1>9. v \in Seq(ConfigRec) /\ Len(v) = 1 + n /\ \A i \in 1 .. 1 + n : v[i] = IF i <= 1 THEN a[i] ELSE Made[i - 1]
    <2>1. a \in Seq(ConfigRec) /\ Made \in Seq(ConfigRec)
      BY <1>7, <1>8
    <2>2. /\ v \in Seq(ConfigRec) /\ Len(v) = Len(a) + Len(Made)
          /\ \A i \in 1 .. Len(a) + Len(Made) : v[i] = IF i <= Len(a) THEN a[i] ELSE Made[i - Len(a)]
      BY <2>1, ConcatProperties
    <2> HIDE DEF v
    <2>3. QED
      BY <1>7, <1>8, <2>2
  <1> HIDE DEF v
  <1>10. DOMAIN v = 1 .. 1 + n /\ v # <<>>
    <2>1. DOMAIN v = 1 .. 1 + n
      BY <1>9, LenProperties
    <2>2. 1 + n # 0
      BY <1>1
    <2>3. QED
      BY <1>9, <2>1, <2>2, EmptySeq
  <1>11. ASSUME NEW i \in 1 .. 1 + n PROVE \E k \in Ids : Sound(k, v[i])
    <2>1. CASE i = 1
      <3>1. v[i] = new
        BY <1>8, <1>9, <2>1
      <3>2. QED
        BY <1>3, <3>1
    <2>2. CASE i # 1
      <3>1. i - 1 \in 1 .. n /\ ~(i <= 1)
        BY <1>1, <2>2
      <3>2. v[i] = made[Previous[i - 1].id]
        BY <1>6, <1>9, <3>1
      <3>3. QED
        BY <1>2, <3>1, <3>2
    <2>3. QED
      BY <2>1, <2>2
  <1>12. Together = [Configs |-> v, Unknown |-> <<>>]
    BY DEF Together, v, a
  <1>13. <<>> \in Seq(ItemRec)
    OBVIOUS
  <1>14. Together \in ListRec
    BY <1>9, <1>12, <1>13 DEF ListRec
  <1>15. Together.Configs = v /\ Together.Unknown = <<>>
    BY <1>12
  <1>16. QED
    BY <1>10, <1>11, <1>14, <1>15 DEF v, a

\* Its configs are valid and fit one by one, so only their number can be too large.
LEMMA TogetherOK ==
    ASSUME KeyInv, stage # "idle"
    PROVE  MarshalListOK(Together) <=> Len(Entries(Together)) <= MaxLength
  <1>1. \A i \in DOMAIN Together.Configs :
           validate(Together.Configs[i]) /\ Len(Body(Together.Configs[i])) <= MaxLength
    BY TogetherTyped, SoundFits
  <1>2. Together.Configs # <<>>
    BY TogetherTyped
  <1>3. QED
    BY <1>1, <1>2 DEF MarshalListOK

\* The overlap list is read from the files as their configs were made.
LEMMA OverlapIs ==
    ASSUME KeyInv
    PROVE  /\ Readable <=> \A i \in DOMAIN Previous : Previous[i].id \notin Cut
           /\ Readable => Overlap = Together
  <1>1. ASSUME NEW i \in DOMAIN Previous
        PROVE  /\ Previous[i].id \notin Cut =>
                     /\ Read1(Previous[i]).err = FALSE
                     /\ Read1(Previous[i]).Configs = <<made[Previous[i].id]>>
                     /\ Read1(Previous[i]).Configs # <<>>
                     /\ Read1(Previous[i]).Configs[1] = made[Previous[i].id]
               /\ Previous[i].id \in Cut => Read1(Previous[i]).err = TRUE
    <2> DEFINE id == Previous[i].id
               r == Read1(Previous[i])
    <2>1. /\ id \notin Cut => r.err = FALSE /\ r.Configs = <<made[id]>>
          /\ id \in Cut => r.err = TRUE
      BY ReadsMade
    <2> HIDE DEF id, r
    <2>2. <<made[id]>> # <<>> /\ <<made[id]>>[1] = made[id]
      OBVIOUS
    <2>3. QED
      BY <2>1, <2>2 DEF id, r
  <1>2. Readable <=> \A i \in DOMAIN Previous : Previous[i].id \notin Cut
    BY <1>1 DEF Readable
  <1>3. ASSUME Readable PROVE Overlap = Together
    <2>1. \A i \in DOMAIN Previous : Read1(Previous[i]).Configs[1] = made[Previous[i].id]
      BY <1>1, <1>2, <1>3
    <2>2. [i \in DOMAIN Previous |-> Read1(Previous[i]).Configs[1]] = Made
      BY <2>1 DEF Made
    <2>3. QED
      BY <2>2 DEF Overlap, Together
  <1>4. QED
    BY <1>2, <1>3

\* What a list of sound configs decodes to.
LEMMA OverlapServed ==
    ASSUME KeyInv, buildOverlapList
    PROVE  /\ served' = MarshalList(Together)
           /\ UnmarshalList(served') = [err |-> FALSE, Configs |-> <<new>> \o Made, Unknown |-> <<>>]
           /\ \A i \in DOMAIN (<<new>> \o Made) : \E k \in Ids : Sound(k, (<<new>> \o Made)[i])
  <1>1. stage # "idle" /\ Readable /\ MarshalListOK(Overlap) /\ served' = MarshalList(Overlap)
    BY DEF buildOverlapList
  <1>2. Overlap = Together
    BY <1>1, OverlapIs
  <1>3. /\ Together \in ListRec /\ Together.Configs = <<new>> \o Made /\ Together.Unknown = <<>>
        /\ \A i \in DOMAIN Together.Configs : \E k \in Ids : Sound(k, Together.Configs[i])
    BY <1>1, TogetherTyped
  <1>4. MarshalListOK(Together) /\ served' = MarshalList(Together)
    BY <1>1, <1>2
  <1>5. \A i \in DOMAIN Together.Unknown : Together.Unknown[i].kind # Version
    BY <1>3
  <1>6. UnmarshalList(served') = [err |-> FALSE, Configs |-> Together.Configs, Unknown |-> Together.Unknown]
    BY <1>3, <1>4, <1>5, ListReadsBack
  <1>7. QED
    BY <1>3, <1>4, <1>6

\* The solo list holds the new config.
LEMMA SoloServed ==
    ASSUME KeyInv, buildSoloList
    PROVE  /\ UnmarshalList(served') = [err |-> FALSE, Configs |-> <<new>>, Unknown |-> <<>>]
           /\ Sound(new.ConfigID, new) /\ new.ConfigID \in Ids /\ made[new.ConfigID] = new
  <1>1. stage # "idle" /\ served' = MarshalList(Solo(new))
    BY DEF buildSoloList
  <1>2. Sound(new.ConfigID, new) /\ new.ConfigID \in Ids /\ made[new.ConfigID] = new
    BY <1>1, NewIsSound
  <1>3. /\ Solo(new) \in ListRec /\ Solo(new).Configs = <<new>> /\ Solo(new).Unknown = <<>>
        /\ MarshalListOK(Solo(new))
    BY <1>2, SoundFits
  <1>4. \A i \in DOMAIN Solo(new).Unknown : Solo(new).Unknown[i].kind # Version
    BY <1>3
  <1>5. UnmarshalList(served') = [err |-> FALSE, Configs |-> Solo(new).Configs, Unknown |-> Solo(new).Unknown]
    BY <1>1, <1>3, <1>4, ListReadsBack
  <1>6. QED
    BY <1>2, <1>3, <1>5

-----------------------------------------------------------------------------
(* The invariant holds.                                                    *)

LEMMA InitKey == Init => KeyInv
  <1> SUFFICES ASSUME Init PROVE KeyInv
    OBVIOUS
  <1>1. Types
    BY DEF Init, Types
  <1>2. DOMAIN entries = {} /\ \A k \in Ids : made[k] = NoConfig
    BY DEF Init
  <1>3. MadeSound /\ EntriesMade /\ OneState /\ NewMade /\ FilesWhole
    BY <1>2 DEF Init, MadeSound, EntriesMade, OneState, NewMade, FilesWhole, Used
  <1>4. ServedOwn
    <2>1. UnmarshalList(served).Configs = <<>>
      BY PlaceholderReadsBack DEF Init
    <2>2. QED
      BY <2>1 DEF ServedOwn
  <1>5. QED
    BY <1>1, <1>3, <1>4 DEF KeyInv

\* What does not touch the store keeps what is known of it.
LEMMA StoreUnchanged ==
    ASSUME KeyInv, UNCHANGED <<entries, files, made>>
    PROVE  /\ entries' \in Seq(Entry) /\ DOMAIN files' = Ids /\ DOMAIN made' = Ids
           /\ MadeSound' /\ EntriesMade' /\ OneState' /\ FilesWhole'
  <1>1. entries' \in Seq(Entry) /\ DOMAIN files' = Ids /\ DOMAIN made' = Ids
    BY DEF KeyInv, Types
  <1>2. MadeSound' /\ EntriesMade' /\ OneState'
    BY DEF KeyInv, MadeSound, EntriesMade, OneState, Sound
  <1>3. FilesWhole'
    <2>1. Used' = Used
      BY DEF Used
    <2>2. Cut' = Cut
      BY <2>1, CutIs
    <2>3. QED
      BY <2>1, <2>2 DEF KeyInv, FilesWhole, Whole
  <1>4. QED
    BY <1>1, <1>2, <1>3

LEMMA SameServed ==
    ASSUME KeyInv, UNCHANGED served
    PROVE  ServedOwn'
  BY DEF KeyInv, ServedOwn

\* A rotation makes a key and goes on with its config.
LEMMA GenerateStep ==
    ASSUME KeyInv, NEW k \in Ids, NEW name \in PublicNames, Generate(k, name)
    PROVE  KeyInv'
  <1> DEFINE c == NewConfig(k, name, MaxNameLength(name))
  <1>1. /\ Free(k) /\ Add(c) /\ new' = c /\ stage' = "overlap" /\ UNCHANGED served
    BY DEF Generate
  <1>2. MarshalListOK(Solo(c))
    BY <1>1 DEF Add
  <1>3. Sound(k, c)
    BY <1>2, NamesAreBytes, NewConfigIsSound
  <1> HIDE DEF c
  <1>4. /\ entries' \in Seq(Entry) /\ DOMAIN files' = Ids /\ DOMAIN made' = Ids
        /\ MadeSound' /\ EntriesMade' /\ OneState' /\ FilesWhole'
        /\ made'[k] = c /\ c # NoConfig
    BY <1>1, <1>3, AddKeeps DEF KeyInv
  <1>5. NewMade'
    BY <1>1, <1>4 DEF NewMade
  <1>6. Types'
    BY <1>1, <1>4 DEF Types
  <1>7. QED
    BY <1>1, <1>4, <1>5, <1>6, SameServed DEF KeyInv

LEMMA doKeygenStep ==
    ASSUME KeyInv, NEW name \in PublicNames, doKeygen(name)
    PROVE  KeyInv'
  <1>1. PICK k \in Ids : /\ stage = "idle" /\ Free(k) /\ Add(NewConfig(k, name, 64))
                         /\ UNCHANGED <<new, stage, served, refused>>
    BY DEF doKeygen
  <1> DEFINE c == NewConfig(k, name, 64)
  <1>2. MarshalListOK(Solo(c))
    BY <1>1 DEF Add
  <1>3. Sound(k, c)
    BY <1>2, NamesAreBytes, NewConfigIsSound
  <1>4. Add(c)
    BY <1>1
  <1> HIDE DEF c
  <1>5. /\ entries' \in Seq(Entry) /\ DOMAIN files' = Ids /\ DOMAIN made' = Ids
        /\ MadeSound' /\ EntriesMade' /\ OneState' /\ FilesWhole'
    BY <1>1, <1>3, <1>4, AddKeeps DEF KeyInv
  <1>6. NewMade' /\ Types'
    BY <1>1, <1>5 DEF NewMade, Types, KeyInv
  <1>7. QED
    BY <1>1, <1>5, <1>6, SameServed DEF KeyInv

LEMMA OverlapStep ==
    ASSUME KeyInv, buildOverlapList
    PROVE  KeyInv'
  <1>1. /\ stage = "overlap" /\ stage' = "solo" /\ UNCHANGED <<entries, files, new, made>>
    BY DEF buildOverlapList
  <1>2. NewMade'
    BY <1>1 DEF KeyInv, NewMade
  <1>3. ServedOwn'
    <2> DEFINE v == <<new>> \o Made
    <2>1. UnmarshalList(served') = [err |-> FALSE, Configs |-> v, Unknown |-> <<>>]
      BY OverlapServed
    <2>2. \A i \in DOMAIN v : \E k \in Ids : Sound(k, v[i])
      BY OverlapServed
    <2> HIDE DEF v
    <2>3. UnmarshalList(served').Configs = v
      BY <2>1
    <2>4. \A i \in DOMAIN v : v[i].PublicKey = Public(Scalar(v[i].ConfigID))
      BY <2>2 DEF Sound
    <2>5. QED
      BY <2>3, <2>4 DEF ServedOwn
  <1>4. QED
    BY <1>1, <1>2, <1>3, StoreUnchanged DEF KeyInv, Types

LEMMA SoloStep ==
    ASSUME KeyInv, buildSoloList
    PROVE  KeyInv'
  <1>1. /\ stage = "solo" /\ stage' = "retire" /\ UNCHANGED <<entries, files, new, made>>
    BY DEF buildSoloList
  <1>2. NewMade'
    BY <1>1 DEF KeyInv, NewMade
  <1>3. ServedOwn'
    <2>1. UnmarshalList(served').Configs = <<new>>
      BY SoloServed
    <2>2. new.PublicKey = Public(Scalar(new.ConfigID))
      BY SoloServed DEF Sound
    <2>3. DOMAIN <<new>> = 1 .. 1 /\ <<new>>[1] = new
      OBVIOUS
    <2>4. QED
      BY <2>1, <2>2, <2>3 DEF ServedOwn
  <1>4. QED
    BY <1>1, <1>2, <1>3, StoreUnchanged DEF KeyInv, Types

\* A rotation that ends early touches neither the store nor DNS.
LEMMA EndStep ==
    ASSUME KeyInv, refuseOverlapList \/ Abort
    PROVE  KeyInv'
  <1>1. stage' = "idle" /\ UNCHANGED <<entries, files, served, made>>
    BY DEF refuseOverlapList, Abort
  <1>2. NewMade'
    BY <1>1 DEF NewMade
  <1>3. QED
    BY <1>1, <1>2, StoreUnchanged, SameServed DEF KeyInv, Types

LEMMA RetireStep ==
    ASSUME KeyInv, Retire
    PROVE  KeyInv'
  <1>1. stage' = "idle" /\ UNCHANGED <<served, made>>
    BY DEF Retire
  <1>2. NewMade'
    BY <1>1 DEF NewMade
  <1>3. entries' \in Seq(Entry) /\ DOMAIN files' = Ids /\ EntriesMade' /\ OneState' /\ FilesWhole'
    BY RetireKeeps DEF KeyInv
  <1>4. MadeSound'
    BY <1>1 DEF KeyInv, MadeSound, Sound
  <1>5. QED
    BY <1>1, <1>2, <1>3, <1>4, SameServed DEF KeyInv, Types

\* Another tool, or the disk, changes one file.
LEMMA FileStep ==
    ASSUME KeyInv, NEW k \in Ids, CutFile(k) \/ \E form \in Forms : Rewrite(k, form)
    PROVE  KeyInv'
  <1>1. UNCHANGED <<entries, new, stage, served, made>>
    BY DEF CutFile, Rewrite
  <1>2. DOMAIN files' = Ids /\ FilesWhole'
    BY CutKeeps, RewriteKeeps DEF KeyInv
  <1>3. MadeSound' /\ EntriesMade' /\ OneState' /\ NewMade'
    BY <1>1 DEF KeyInv, MadeSound, EntriesMade, OneState, NewMade, Sound
  <1>4. QED
    BY <1>1, <1>2, <1>3, SameServed DEF KeyInv, Types

LEMMA KeyStep == KeyInv /\ [Next]_vars => KeyInv'
  <1> SUFFICES ASSUME KeyInv, [Next]_vars PROVE KeyInv'
    OBVIOUS
  <1>1. CASE \E k \in Ids, name \in PublicNames : Generate(k, name)
    BY <1>1, GenerateStep
  <1>2. CASE \E name \in PublicNames : doKeygen(name)
    BY <1>2, doKeygenStep
  <1>3. CASE buildOverlapList
    BY <1>3, OverlapStep
  <1>4. CASE buildSoloList
    BY <1>4, SoloStep
  <1>5. CASE refuseOverlapList \/ Abort
    BY <1>5, EndStep
  <1>6. CASE Retire
    BY <1>6, RetireStep
  <1>7. CASE \E k \in Ids : CutFile(k) \/ \E form \in Forms : Rewrite(k, form)
    BY <1>7, FileStep
  <1>8. CASE UNCHANGED vars
    <2>1. UNCHANGED <<entries, files, new, stage, served, made>>
      BY <1>8 DEF vars
    <2>2. NewMade'
      BY <2>1 DEF KeyInv, NewMade
    <2>3. QED
      BY <2>1, <2>2, StoreUnchanged, SameServed DEF KeyInv, Types
  <1>9. QED
    BY <1>1, <1>2, <1>3, <1>4, <1>5, <1>6, <1>7, <1>8 DEF Next

LEMMA KeyAlways == Spec => []KeyInv
  BY InitKey, KeyStep, PTL DEF Spec

-----------------------------------------------------------------------------
(* The theorems.                                                           *)

\* A client that encrypts to a served config reaches a key the server holds: the
\* file of every served config_id still in the store gives the private key of the
\* served public key, or was cut off.  For every set of names, ways to write a
\* file and number of keys.
THEOREM ServedKeys == Spec => []ServedKeyIsHeld
  <1>1. KeyInv => ServedKeyIsHeld
    <2> SUFFICES ASSUME KeyInv, NEW i \in DOMAIN UnmarshalList(served).Configs,
                        UnmarshalList(served).Configs[i].ConfigID \in Used \ Cut
                 PROVE  Parse(files[UnmarshalList(served).Configs[i].ConfigID]).PublicKey =
                           UnmarshalList(served).Configs[i].PublicKey
      BY DEF ServedKeyIsHeld
    <2> DEFINE c == UnmarshalList(served).Configs[i]
               k == c.ConfigID
    <2>1. c.PublicKey = Public(Scalar(k))
      BY DEF KeyInv, ServedOwn
    <2> HIDE DEF c
    <2>2. k \in Used \ Cut
      BY DEF c
    <2>3. PICK j \in DOMAIN entries : k = entries[j].id
      BY <2>2 DEF Used
    <2>4. entries[j] \in Entry
      BY ElementOfSeq, LenProperties DEF KeyInv, Types
    <2>5. k \in Ids /\ made[k] # NoConfig
      BY <2>3, <2>4 DEF Entry, KeyInv, EntriesMade
    <2>6. Sound(k, made[k]) /\ Whole(files[k], k, made[k])
      BY <2>2, <2>5 DEF KeyInv, MadeSound, FilesWhole
    <2> HIDE DEF k
    <2>7. Parse(files[k]).PublicKey = Public(Scalar(k))
      BY <2>5, <2>6, WholeReadsBack
    <2>8. QED
      BY <2>1, <2>7 DEF c, k
  <1>2. QED
    BY <1>1, KeyAlways, PTL

\* What DNS serves decodes to the configs the keys were generated with, the new
\* one first, however other tools have rewritten the files in between.
THEOREM ServesMade == Spec => ServesWhatWasMade
  <1> DEFINE A == served' # served =>
                     /\ ~UnmarshalList(served').err
                     /\ UnmarshalList(served').Unknown = <<>>
                     /\ UnmarshalList(served').Configs =
                            <<made[new.ConfigID]>> \o
                            IF stage = "solo" THEN <<>> ELSE [i \in DOMAIN Previous |-> made[Previous[i].id]]
  <1>1. KeyInv /\ [Next]_vars => [A]_vars
    <2> SUFFICES ASSUME KeyInv, [Next]_vars PROVE A
      OBVIOUS
    <2>1. CASE buildOverlapList
      <3>1. UnmarshalList(served') = [err |-> FALSE, Configs |-> <<new>> \o Made, Unknown |-> <<>>]
        BY <2>1, OverlapServed
      <3>2. stage = "overlap"
        BY <2>1 DEF buildOverlapList
      <3>3. made[new.ConfigID] = new
        BY <3>2, NewIsSound
      <3>4. QED
        BY <3>1, <3>2, <3>3 DEF Made
    <2>2. CASE buildSoloList
      <3>1. /\ UnmarshalList(served') = [err |-> FALSE, Configs |-> <<new>>, Unknown |-> <<>>]
            /\ made[new.ConfigID] = new
        BY <2>2, SoloServed
      <3>2. stage = "solo"
        BY <2>2 DEF buildSoloList
      <3>3. <<new>> \o <<>> = <<new>>
        OBVIOUS
      <3>4. QED
        BY <3>1, <3>2, <3>3
    <2>3. CASE ~buildOverlapList /\ ~buildSoloList
      <3>1. UNCHANGED served
        BY <2>3 DEF Next, vars, Generate, doKeygen, refuseOverlapList, Retire, Abort, CutFile, Rewrite
      <3>2. QED
        BY <3>1
    <2>4. QED
      BY <2>1, <2>2, <2>3
  <1>2. QED
    BY <1>1, KeyAlways, PTL DEF Spec, ServesWhatWasMade

\* The overlap list is refused only for a previous file that was cut off, or
\* because the configs together do not fit: what other tools write is accepted.
THEOREM RefusalsHaveCause == Spec => RefusalHasCause
  <1> DEFINE A == (~refused /\ refused') =>
                     \/ \E i \in DOMAIN Previous : Previous[i].id \in Cut
                     \/ Len(Entries([Configs |-> <<new>> \o [i \in DOMAIN Previous |-> made[Previous[i].id]],
                                     Unknown |-> <<>>])) > MaxLength
  <1>1. KeyInv /\ [Next]_vars => [A]_vars
    <2> SUFFICES ASSUME KeyInv, [Next]_vars, ~refused, refused',
                        \A i \in DOMAIN Previous : Previous[i].id \notin Cut
                 PROVE  Len(Entries(Together)) > MaxLength
      BY DEF Together, Made
    <2>1. refuseOverlapList
      BY DEF Next, vars, Generate, doKeygen, buildOverlapList, buildSoloList, Retire, Abort, CutFile, Rewrite
    <2>2. stage # "idle" /\ ~(Readable /\ MarshalListOK(Overlap))
      BY <2>1 DEF refuseOverlapList
    <2>3. Overlap = Together /\ Readable
      BY OverlapIs
    <2>4. ~MarshalListOK(Together)
      BY <2>2, <2>3
    <2>5. ~(Len(Entries(Together)) <= MaxLength)
      BY <2>2, <2>4, TogetherOK
    <2>6. Len(Entries(Together)) \in Nat
      <3>1. Together \in ListRec
        BY <2>2, TogetherTyped
      <3>2. QED
        BY <3>1, EntriesTyped
    <2>7. QED
      BY <2>5, <2>6, Constants
  <1>2. QED
    BY <1>1, KeyAlways, PTL DEF Spec, RefusalHasCause
=============================================================================
