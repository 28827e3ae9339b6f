-------------------------------- MODULE Svcb --------------------------------
(***************************************************************************)
(* HTTPS records in presentation form: the parser and the printer of       *)
(* pkg/svcb.  A string is a sequence of characters; white space is a blank *)
(* or a tab.                                                               *)
(***************************************************************************)
EXTENDS Integers, Sequences, SequencesExt

Blank == {" ", "\t"}
Digits == <<"0", "1", "2", "3", "4", "5", "6", "7", "8", "9">>

IndexAny(s, chars) == SelectInSeq(s, LAMBDA c : c \in chars)
Drop(s, n) == SubSeq(s, n + 1, Len(s))
Take(s, n) == SubSeq(s, 1, n)

RECURSIVE TrimLeft(_)
TrimLeft(s) == IF s # <<>> /\ Head(s) \in Blank THEN TrimLeft(Tail(s)) ELSE s

nextToken(s) ==
    LET end == IndexAny(s, Blank)
    IN  IF end = 0 THEN [tok |-> s, rest |-> <<>>]
                   ELSE [tok |-> Take(s, end - 1), rest |-> Drop(s, end - 1)]

Param(key, value, rest) == [key |-> key, value |-> value, rest |-> rest]
NoParam == Param(<<>>, <<>>, <<>>)

\* The first SvcParam of s, which does not start with white space, and what
\* follows it; NoParam for a parameter without a name or an open quotation.
nextParam(s) ==
    LET eq     == IndexAny(s, {"="} \cup Blank)
        rem    == Drop(s, eq)
        quoted == rem # <<>> /\ Head(rem) = "\""
        end    == IndexAny(Tail(rem), {"\""})
        bare   == nextToken(rem)
    IN  CASE eq = 0                         -> Param(s, <<>>, <<>>)
          [] eq > 0 /\ s[eq] # "="          -> Param(Take(s, eq - 1), <<>>, Drop(s, eq - 1))
          [] eq = 1 /\ s[eq] = "="          -> NoParam
          [] eq > 1 /\ s[eq] = "=" /\ quoted ->
                IF end = 0 THEN NoParam
                ELSE Param(Take(s, eq - 1), Take(Tail(rem), end - 1), Drop(rem, end + 1))
          [] OTHER                          -> Param(Take(s, eq - 1), bare.tok, bare.rest)

RECURSIVE Params(_)
Params(s) ==
    LET p == nextParam(TrimLeft(s))
    IN  IF TrimLeft(s) = <<>> THEN <<>>
        ELSE <<[key |-> p.key, value |-> p.value]>> \o Params(p.rest)

IsUint16(tok) == tok # <<>> /\ \A i \in DOMAIN tok : tok[i] \in ToSet(Digits)
Uint16(tok) == FoldLeft(LAMBDA v, c : 10 * v + SelectInSeq(Digits, LAMBDA d : d = c) - 1, 0, tok)

\* A record, with err for every error that Parse reports.
Parse(s) ==
    LET pri == nextToken(TrimLeft(s))
        tgt == nextToken(TrimLeft(pri.rest))
        num == IF IsUint16(pri.tok) THEN Uint16(pri.tok) ELSE 65536
        svc == IF num = 0 THEN <<>> ELSE Params(tgt.rest)
    IN  [ priority |-> num, target |-> tgt.tok, params |-> svc,
          err |-> \/ num > 65535 \/ tgt.tok = <<>>
                  \/ \E i \in DOMAIN svc : svc[i].key = <<>> ]

IsAliasMode(r) == r.priority = 0

-----------------------------------------------------------------------------
RECURSIVE Decimal(_)
Decimal(n) == IF n < 10 THEN <<Digits[n + 1]>>
              ELSE Decimal(n \div 10) \o <<Digits[(n % 10) + 1]>>

\* What %q makes of a value: it escapes, and Parse does not undo it.
Quoted(value) ==
    FlattenSeq([i \in DOMAIN value |->
        CASE value[i] \in {"\\", "\""} -> <<"\\", value[i]>>
          [] value[i] = "\t"           -> <<"\\", "t">>
          [] OTHER                     -> <<value[i]>>])


String(r) ==
    Decimal(r.priority) \o <<" ">> \o r.target \o
    FlattenSeq([i \in DOMAIN r.params |->
        LET p == r.params[i]
        IN  <<" ">> \o p.key \o
            IF p.value = <<>> THEN <<>> ELSE <<"=", "\"">> \o Quoted(p.value) \o <<"\"">>])

ECHParamKey == <<"e", "c", "h">>

\* Mutant: the parameter is appended even if the record has it.
SetParam_Appends(r, key, value) ==
    [r EXCEPT !.params = Append(@, [key |-> key, value |-> value])]

\* The first parameter of that name, or a new last one.
SetParam(r, key, value) ==
    LET at == SelectInSeq(r.params, LAMBDA p : p.key = key)
    IN  IF at = 0 THEN [r EXCEPT !.params = Append(@, [key |-> key, value |-> value])]
                  ELSE [r EXCEPT !.params[at].value = value]

\* The value of the first parameter of that name; empty if there is none, which
\* every caller treats like an empty value.
GetParam(r, key) ==
    LET at == SelectInSeq(r.params, LAMBDA p : p.key = key)
    IN  IF at = 0 THEN <<>> ELSE r.params[at].value

SetECH(r, text) == SetParam(r, ECHParamKey, text)
GetECH(r) == GetParam(r, ECHParamKey)
=============================================================================
