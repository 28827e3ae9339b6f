------------------------------- MODULE KeyFile -------------------------------
(***************************************************************************)
(* From key material to what DNS serves: `.ech` files written by this      *)
(* program and rewritten by other tools (internal/pemfile), and the lists  *)
(* the rotator makes of them.  A file is a sequence of PEM blocks; a file  *)
(* that was cut off has lost its last block.  The bytes of a block are     *)
(* DER, kept as a record, or wire data.                                    *)
(***************************************************************************)
EXTENDS EchConfigList

CONSTANTS
    PublicNames,   \* the public_names the configuration may hold
    Forms,         \* how other tools write a file
    MaxKeys        \* bound: keys ever generated

\* A config_id is a byte, and so is every letter of a name.
ASSUME KeyFileAssumption ==
    /\ MaxKeys \in 0 .. 255
    /\ PublicNames \subseteq Seq(0 .. 255)

VARIABLES
    entries,   \* the keystore: [id, state], in creation order
    files,     \* config_id -> the blocks of its file
    new,       \* the config of the rotation under way, or NoConfig
    stage,     \* "idle", "overlap", "solo", "retire": its next step
    served,    \* the list in DNS
    refused,   \* the last attempt to build the overlap list failed
    made       \* history: config_id -> the config it was generated with

vars == <<entries, files, new, stage, served, refused, made>>

NoConfig == [ConfigID |-> 256]
Ids == 1 .. MaxKeys

Init ==
    /\ entries = <<>> /\ files = [k \in Ids |-> <<>>]
    /\ new = NoConfig /\ stage = "idle"
    /\ served = buildPlaceholderECH
    /\ refused = FALSE
    /\ made = [k \in Ids |-> NoConfig]

-----------------------------------------------------------------------------
(* hpke: a scalar and the point it gives; 32 bytes in the code, one here.  *)

Scalar(k) == <<k>>
Public(raw) == [i \in DOMAIN raw |-> 255 - raw[i]]
KeySize == 1

(* PEM blocks and PKCS#8. *)

OctetString(raw) == <<4, Len(raw)>> \o raw
wrapPKCS8(raw) == [alg |-> "X25519", key |-> OctetString(raw)]

\* Mutant: the inner OCTET STRING is taken for the scalar.
unwrapPKCS8_Outer(der) ==
    [err |-> der.alg # "X25519", raw |-> SubSeq(der.key, 1, KeySize)]

unwrapPKCS8(der) ==
    LET raw == SubSeq(der.key, 3, Len(der.key))
    IN  [err |-> der.alg # "X25519" \/ SubSeq(der.key, 1, 2) # <<4, Len(raw)>> \/ Len(raw) # KeySize,
         raw |-> raw]

Block(type, bytes) == [type |-> type, bytes |-> bytes]
Marshal(raw, list) == <<Block("PRIVATE KEY", wrapPKCS8(raw)), Block("ECHCONFIG", list)>>

\* base64, with a letter for every half of a byte, and a new line at the end.
Letters(list) ==
    Append(FlattenSeq([i \in DOMAIN list |-> <<65 + (list[i] \div 16), 65 + (list[i] % 16)>>]), 10)
\* The new line is the half of a byte that is left over.
Unlettered(text) ==
    [i \in 1 .. (Len(text) \div 2) |-> 16 * (text[2 * i - 1] - 65) + text[2 * i] - 65]

WhiteSpace == {9, 10, 13, 32}
Alphabet == 65 .. 90 \cup 97 .. 122 \cup 48 .. 57 \cup {43, 47, 61}
looksLikeBase64(b) == Len(b) >= 4 /\ ToSet(b) \subseteq Alphabet \cup WhiteSpace

\* Text that only looks like base64 is left as it is.
Decodes(text) == \A i \in 1 .. 2 * (Len(text) \div 2) : text[i] \in 65 .. 80
ListBytes(b) == IF looksLikeBase64(b) /\ Decodes(b) THEN Unlettered(b) ELSE b

ToUpper(type) == CASE type = "private key" -> "PRIVATE KEY"
                   [] type = "echconfig"   -> "ECHCONFIG"
                   [] OTHER                -> type

\* Mutant: the types of the blocks are taken as they are written.
OfType_Exact(block, type) == block.type = type
OfType(block, type) == ToUpper(block.type) = type

\* The key and the list of a file: exactly one block of each of the two types.
Parse(file) ==
    LET Once(type) == \E i \in DOMAIN file : \A j \in DOMAIN file : OfType(file[j], type) <=> j = i
        The(type)  == file[CHOOSE i \in DOMAIN file : OfType(file[i], type)].bytes
        key  == unwrapPKCS8(The("PRIVATE KEY"))
        list == The("ECHCONFIG")
    IN  IF ~Once("PRIVATE KEY") \/ ~Once("ECHCONFIG") THEN [err |-> TRUE]
        ELSE [ err |-> key.err, PrivateKey |-> key.raw, PublicKey |-> Public(key.raw),
               ConfigListBytes |-> ListBytes(list) ]

\* Written by another tool: the other order, types in lower case, a block of its
\* own, a body that is base64 once more, an entry of another version in the list.
Content(c, form) ==
    [Configs |-> <<c>>,
     Unknown |-> IF "entry" \in form THEN <<[kind |-> 16962, data |-> <<66>>]>> ELSE <<>>]
Written(raw, list, form) ==
    LET wire == MarshalList(list)
        key  == Block(IF "lower" \in form THEN "private key" ELSE "PRIVATE KEY", wrapPKCS8(raw))
        ech  == Block(IF "lower" \in form THEN "echconfig" ELSE "ECHCONFIG",
                      IF "twice" \in form THEN Letters(wire) ELSE wire)
    IN  (IF "block" \in form THEN <<Block("COMMENT", <<>>)>> ELSE <<>>) \o
        (IF "order" \in form THEN <<ech, key>> ELSE <<key, ech>>)

-----------------------------------------------------------------------------
(* Keys: the rotation's R1 and R2, and keygen.                             *)

Suite(aead) == [KDF |-> 1, AEAD |-> aead]
DefaultCipherSuites == <<Suite(1), Suite(3)>>

\* uint8(l) wraps for a name that MarshalBinary refuses.
MaxNameLength(name) == IF Len(name) > 64 THEN Len(name) % 256 ELSE 64

NewConfig(k, name, max) ==
    [ ConfigID |-> k, KEMID |-> 32, PublicKey |-> Public(Scalar(k)), CipherSuites |-> DefaultCipherSuites,
      MaximumNameLength |-> max, PublicName |-> name, Extensions |-> <<>> ]

Solo(c) == [Configs |-> <<c>>, Unknown |-> <<>>]

\* Bound: an id is given out once; the code may reuse it after Retire.
Used == {entries[i].id : i \in DOMAIN entries}
Free(k) == k \notin Used /\ made[k] = NoConfig

Demoted == [i \in DOMAIN entries |->
               [entries[i] EXCEPT !.state = IF @ = "current" THEN "previous" ELSE @]]

Add(c) ==
    /\ MarshalListOK(Solo(c))
    /\ files' = [files EXCEPT ![c.ConfigID] = Marshal(Scalar(c.ConfigID), MarshalList(Solo(c)))]
    /\ entries' = Append(Demoted, [id |-> c.ConfigID, state |-> "current"])
    /\ made' = [made EXCEPT ![c.ConfigID] = c]

Generate(k, name) ==
    LET c == NewConfig(k, name, MaxNameLength(name))
    IN  /\ stage = "idle" /\ Free(k)
        /\ Add(c)
        /\ new' = c /\ stage' = "overlap"
        /\ UNCHANGED <<served, refused>>

\* While no rotation runs (SharedKeydir has the races between the two): the lowest
\* free id, and names padded to 64 whatever their length.
doKeygen(name) ==
    \E k \in Ids :
        /\ stage = "idle" /\ Free(k) /\ \A j \in 1 .. (k - 1) : ~Free(j)
        /\ Add(NewConfig(k, name, 64))
        /\ UNCHANGED <<new, stage, served, refused>>

-----------------------------------------------------------------------------
(* The lists of R4 and R6.                                                 *)

\* List returns the newest first.
Previous == Reverse(Selected(entries, {i \in DOMAIN entries : entries[i].state = "previous"}))

\* The first config of every previous file, behind the new one.
Read1(e) == LET f == Parse(files[e.id])
            IN  IF f.err THEN [err |-> TRUE, Configs |-> <<>>] ELSE UnmarshalList(f.ConfigListBytes)
Readable == \A i \in DOMAIN Previous :
                ~Read1(Previous[i]).err /\ Read1(Previous[i]).Configs # <<>>
Overlap ==
    [Configs |-> <<new>> \o [i \in DOMAIN Previous |-> Read1(Previous[i]).Configs[1]], Unknown |-> <<>>]

buildOverlapList ==
    /\ stage = "overlap"
    /\ Readable /\ MarshalListOK(Overlap)
    /\ served' = MarshalList(Overlap)
    /\ stage' = "solo" /\ refused' = FALSE
    /\ UNCHANGED <<entries, files, new, made>>

\* Rotate returns an error, and the next attempt makes another key.
refuseOverlapList ==
    /\ stage = "overlap"
    /\ ~(Readable /\ MarshalListOK(Overlap))
    /\ stage' = "idle" /\ new' = NoConfig /\ refused' = TRUE
    /\ UNCHANGED <<entries, files, served, made>>

\* Any other error of Rotate, or a crash.
Abort ==
    /\ stage # "idle"
    /\ stage' = "idle" /\ new' = NoConfig
    /\ UNCHANGED <<entries, files, served, refused, made>>

buildSoloList ==
    /\ stage = "solo"
    /\ served' = MarshalList(Solo(new))
    /\ stage' = "retire"
    /\ UNCHANGED <<entries, files, new, refused, made>>

\* R7, R8: the grace entries and their files go, some now and some later; here at once.
Retire ==
    /\ stage = "retire"
    /\ entries' = Selected(entries, {i \in DOMAIN entries : entries[i].state # "previous"})
    /\ files' = [k \in Ids |-> IF k \in {Previous[i].id : i \in DOMAIN Previous} THEN <<>> ELSE files[k]]
    /\ stage' = "idle" /\ new' = NoConfig
    /\ UNCHANGED <<served, refused, made>>

-----------------------------------------------------------------------------
(* Other tools and the disk.                                               *)

HasBlock(k, types) == \E i \in DOMAIN files[k] : files[k][i].type \in types
Cut == {k \in Used : ~(/\ HasBlock(k, {"PRIVATE KEY", "private key"})
                      /\ HasBlock(k, {"ECHCONFIG", "echconfig"}))}

\* Bound: only files as this program wrote them, so each of them once.
Pristine(k) == files[k] # <<>> /\ files[k] = Marshal(Scalar(k), MarshalList(Solo(made[k])))

Rewrite(k, form) ==
    LET list == Content(made[k], form)
    IN  /\ Pristine(k)
        /\ MarshalListOK(list)
        /\ files' = [files EXCEPT ![k] = Written(Scalar(k), list, form)]
        /\ UNCHANGED <<entries, new, stage, served, refused, made>>

CutFile(k) ==
    /\ files[k] # <<>> /\ k \notin Cut
    /\ files' = [files EXCEPT ![k] = Front(@)]
    /\ UNCHANGED <<entries, new, stage, served, refused, made>>

Next ==
    \/ \E k \in Ids, name \in PublicNames : Generate(k, name)
    \/ \E name \in PublicNames : doKeygen(name)
    \/ buildOverlapList \/ refuseOverlapList \/ buildSoloList \/ Retire \/ Abort
    \/ \E k \in Ids : CutFile(k) \/ \E form \in Forms : Rewrite(k, form)

Spec == Init /\ [][Next]_vars

-----------------------------------------------------------------------------
(* Properties.                                                             *)

\* What DNS serves decodes to the configs the keys were generated with, the new
\* one first and the previous ones from the newest to the oldest, however other
\* tools have rewritten the files in between.
ServesWhatWasMade ==
    [][served' # served =>
         /\ ~UnmarshalList(served').err
         /\ UnmarshalList(served').Unknown = <<>>
         /\ UnmarshalList(served').Configs =
                <<made[new.ConfigID]>> \o
                IF stage = "solo" THEN <<>> ELSE [i \in DOMAIN Previous |-> made[Previous[i].id]]]_vars

\* A client that encrypts to a served config reaches a key the server holds: the
\* file of every served config_id that is still in the store gives the private
\* key of the served public key, or is cut off.
ServedKeyIsHeld ==
    LET list == UnmarshalList(served).Configs
    IN  \A i \in DOMAIN list :
            list[i].ConfigID \in Used \ Cut =>
                Parse(files[list[i].ConfigID]).PublicKey = list[i].PublicKey

\* The overlap list is refused only for a previous file that was cut off, or
\* because the configs together do not fit: what other tools write is accepted.
RefusalHasCause ==
    [][(~refused /\ refused') =>
         \/ \E i \in DOMAIN Previous : Previous[i].id \in Cut
         \/ Len(Entries([Configs |-> <<new>> \o [i \in DOMAIN Previous |-> made[Previous[i].id]],
                         Unknown |-> <<>>])) > MaxLength]_vars
=============================================================================
