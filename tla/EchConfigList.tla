---------------------------- MODULE EchConfigList ----------------------------
(***************************************************************************)
(* The wire format of ECH configurations: the encoder and the decoder of   *)
(* internal/echconfig.  Wire data is a sequence of bytes, and the reader   *)
(* of cryptobyte is external.                                              *)
(***************************************************************************)
EXTENDS Integers, Sequences, SequencesExt

CONSTANT MaxLength   \* the largest length of a 16-bit prefix: 65535 in the code

ASSUME EchConfigListAssumption == MaxLength \in 4 .. 65535

Version == 65037     \* 0xFE0D

-----------------------------------------------------------------------------
(* cryptobyte: builders and readers.  Whatever is read after a short read  *)
(* is a short read.                                                        *)

Bytes(n, width) == IF width = 1 THEN <<n>> ELSE <<n \div 256, n % 256>>
\* A prefix keeps its width; whether the length fits is MarshalListOK's question.
Prefixed(data, width) ==
    Bytes(Len(data) % (IF width = 1 THEN 256 ELSE MaxLength + 1), width) \o data

Short == [ok |-> FALSE, val |-> <<>>, rest |-> <<>>]
Number(data) == CASE Len(data) = 1 -> data[1]
                  [] Len(data) = 2 -> 256 * data[1] + data[2]
                  [] OTHER         -> 0
Read(s, n) == IF Len(s) < n THEN Short
              ELSE [ok |-> TRUE, val |-> SubSeq(s, 1, n), rest |-> SubSeq(s, n + 1, Len(s))]
ReadPrefixed(s, width) ==
    LET len == Read(s, width) IN IF len.ok THEN Read(len.rest, Number(len.val)) ELSE Short

\* Two-byte kinds with their length-prefixed data: the entries of a list and
\* the extensions of a config.  The last one has ok = FALSE if it is cut off.
Items(s) ==
    LET last[n \in 0 .. Len(s)] ==     \* what the last n bytes hold
            LET kind == Read(SubSeq(s, Len(s) - n + 1, Len(s)), 2)
                data == ReadPrefixed(kind.rest, 2)
            IN  IF n = 0 THEN <<>>
                ELSE <<[ok |-> data.ok, kind |-> Number(kind.val), data |-> data.val]>> \o
                     IF data.ok THEN last[Len(data.rest)] ELSE <<>>
    IN  last[Len(s)]

CutOff(items) == \E i \in DOMAIN items : ~items[i].ok
Item(kind, data) == Bytes(kind, 2) \o Prefixed(data, 2)

-----------------------------------------------------------------------------
(* Encoding.                                                               *)

Body(c) ==
    <<c.ConfigID>> \o Bytes(c.KEMID, 2) \o Prefixed(c.PublicKey, 2)
    \o Prefixed(FlattenSeq([i \in DOMAIN c.CipherSuites |->
                    Bytes(c.CipherSuites[i].KDF, 2) \o Bytes(c.CipherSuites[i].AEAD, 2)]), 2)
    \o <<c.MaximumNameLength>> \o Prefixed(c.PublicName, 1)
    \o Prefixed(FlattenSeq([i \in DOMAIN c.Extensions |->
                    Item(c.Extensions[i].kind, c.Extensions[i].data)]), 2)

validate(c) ==
    /\ Len(c.PublicKey) \in 1 .. MaxLength
    /\ c.CipherSuites # <<>>
    /\ Len(c.PublicName) \in 1 .. 255

MarshalBinary(c) == Item(Version, Body(c))
Entries(list) ==
    FlattenSeq([i \in DOMAIN list.Configs |-> MarshalBinary(list.Configs[i])]) \o
    FlattenSeq([i \in DOMAIN list.Unknown |-> Item(list.Unknown[i].kind, list.Unknown[i].data)])

\* Mutant: what does not fit is left to the prefix.
MarshalListOK_NoLimit(list) ==
    /\ list.Configs # <<>> \/ list.Unknown # <<>>
    /\ \A i \in DOMAIN list.Configs : validate(list.Configs[i])

\* A prefix that cannot hold its length makes the builder fail.
MarshalListOK(list) ==
    /\ list.Configs # <<>> \/ list.Unknown # <<>>
    /\ \A i \in DOMAIN list.Configs :
          validate(list.Configs[i]) /\ Len(Body(list.Configs[i])) <= MaxLength
    /\ Len(Entries(list)) <= MaxLength
MarshalList(list) == Prefixed(Entries(list), 2)

-----------------------------------------------------------------------------
(* Decoding.                                                               *)

parseBody(s) ==
    LET id  == Read(s, 1)
        kem == Read(id.rest, 2)
        pk  == ReadPrefixed(kem.rest, 2)
        cs  == ReadPrefixed(pk.rest, 2)
        max == Read(cs.rest, 1)
        pn  == ReadPrefixed(max.rest, 1)
        ext == ReadPrefixed(pn.rest, 2)
        Suite(i) == [KDF |-> Number(SubSeq(cs.val, i, i + 1)), AEAD |-> Number(SubSeq(cs.val, i + 2, i + 3))]
    IN  [ err |-> \/ ~ext.ok \/ ext.rest # <<>> \/ CutOff(Items(ext.val))
                  \/ cs.val = <<>> \/ Len(cs.val) % 4 # 0 \/ pn.val = <<>>,
          config |-> [ ConfigID |-> Number(id.val), KEMID |-> Number(kem.val), PublicKey |-> pk.val,
                       CipherSuites |-> [i \in 1 .. (Len(cs.val) \div 4) |-> Suite(4 * i - 3)],
                       MaximumNameLength |-> Number(max.val), PublicName |-> pn.val,
                       Extensions |-> [i \in DOMAIN Items(ext.val) |->
                           [kind |-> Items(ext.val)[i].kind, data |-> Items(ext.val)[i].data]] ] ]

\* The elements of s at the indexes I, in their order.
Selected(s, I) ==
    LET upTo[n \in 0 .. Len(s)] ==
            IF n = 0 THEN <<>> ELSE IF n \in I THEN Append(upTo[n - 1], s[n]) ELSE upTo[n - 1]
    IN  upTo[Len(s)]

UnmarshalList(s) ==
    LET inner  == ReadPrefixed(s, 2)
        items  == Items(inner.val)
        Ours   == {i \in DOMAIN items : items[i].kind = Version}
        ours   == Selected(items, Ours)
        others == Selected(items, DOMAIN items \ Ours)
    IN  [ err |-> \/ ~inner.ok \/ inner.rest # <<>> \/ Len(inner.val) < 4 \/ CutOff(items)
                  \/ \E i \in DOMAIN ours : parseBody(ours[i].data).err,
          Configs |-> [i \in DOMAIN ours |-> parseBody(ours[i].data).config],
          Unknown |-> [i \in DOMAIN others |-> [kind |-> others[i].kind, data |-> others[i].data]] ]

\* What `init` publishes: one entry of version 0 and nothing in it.
buildPlaceholderECH == <<0, 4, 0, 0, 0, 0>>
=============================================================================
