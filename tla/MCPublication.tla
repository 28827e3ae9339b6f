---------------------------- MODULE MCPublication ----------------------------
(***************************************************************************)
(* Publication for TLC, with history variables and the properties stated   *)
(* with them.                                                              *)
(***************************************************************************)
EXTENDS Publication

VARIABLES
    stale,     \* the RRset has changed since the rotation read it
    intact,    \* no `keygen` has written since the running rotation began
    owned,     \* the last to write the RRset was a rotation, and no `keygen`
               \* wrote during it, or has written older metadata over its own since
    settled,   \* "solo" since a put of R6 was acknowledged, "yes" since R7 has
               \* followed it with no `keygen` in between; "no" when a key is added
               \* or the RRset changes
    calm       \* it has been "yes" ever since `verify` opened the keystore

allVars == <<vars, stale, intact, owned, settled, calm>>

MCInit ==
    /\ Init
    /\ stale = FALSE /\ intact = TRUE /\ owned = FALSE /\ settled = "no" /\ calm = FALSE

KeygenWrites == kpc = "add" /\ kpc' = "idle" /\ store' # store
PutDone == pc \in {"put4", "put6"} /\ zone' # zone /\ seen' = <<>>

MCNext ==
    /\ Next
    /\ stale' = (seen' # <<>> /\ (stale \/ (seen # <<>> /\ zone' # zone)))
    /\ intact' = (pc' = "idle" \/ (intact /\ ~KeygenWrites))
    /\ owned' = IF PutDone THEN intact
                ELSE owned /\ zone' = zone /\ ~(KeygenWrites /\ kmem # store)
    /\ settled' = CASE pc = "put6" /\ pc' = "R7"                          -> "solo"
                    [] pc = "R7" /\ pc' = "R8" /\ settled = "solo"        ->
                          IF intact THEN "yes" ELSE "no"
                    [] zone' # zone \/ KeygenWrites \/ (pc = "R2" /\ pc' = "get4") -> "no"
                    [] OTHER                                              -> settled
    /\ calm' = (settled' = "yes" /\ (vpc = "idle" \/ calm))

MCSpec == MCInit /\ [][MCNext]_allVars

-----------------------------------------------------------------------------
(* The RRsets of the zone's owner.                                         *)

Svc == <<"1", " ">>
Ech(c) == <<" ", "e", "c", "h", "=", "\"", c, "\"">>

\* A record with a quoted value with a blank, a bare value, a name alone, a name
\* twice and odd white space, and with a list or a text that is none.
Record(list) ==
    <<" ", "1", "6", " ", ".", "\t">> \o <<"a", "=", "\"", "v", " ", "w", "\"", " ", "b">> \o
    Ech(list) \o <<" ", "\t", "a", "=", "v", " ", "c", "=">>

\* The owner puts back a list with a config_id, or another tool publishes it; or
\* there is no record, an alias comes first, a value has a quotation mark in it, a
\* quotation is open, or a priority has more than 16 bits.
Plain ==
    { << Record(list) >> : list \in Id \cup {NotBase64, NotAList} } \cup
    { <<>>,
      << <<"0", " ", "t">>, Svc \o <<"t", " ", "e", "c", "h", " ", "e", "c", "h", "=", "_">> >>,
      << Svc \o <<".">>, Svc \o <<".", " ", "a", "=", "v", "\"", "=", "w">> >>,
      << Svc \o <<".", " ", "a", "=", "\"", "v">> >>,
      << <<"6", "5", "5", "3", "6", " ", ".">> >> }

\* Values that %q changes: an escaped comma, a="v\\,v", and a quotation mark.
Escaped ==
    { << Svc \o <<".", " ", "a", "=", "\"", "v", "\\", "\\", ",", "v", "\"">> >>,
      << Svc \o <<".", " ", "a", "=", "v", "\"", "w">> >> }

-----------------------------------------------------------------------------
PutAcknowledged == pc \in {"put4", "put6"} /\ pc' \in {"get6", "R7"}

Others(line) ==
    LET r == Parse(line)
    IN  [r EXCEPT !.params = SelectSeq(@, LAMBDA p : p.key # ECHParamKey)]

\* svcb.go:188-190 of SetECH: every other SvcParam, the priority and the target
\* are preserved, whatever publications succeed, fail or are retried, unless an
\* edit falls between the read and the write.
Rewritten == ~stale /\ seen # <<>> /\ seen' = <<>> /\ zone' # zone
KeepsOthers(i) == Others(zone'[i]) = Others(zone[i])
OthersPreserved ==
    [][Rewritten => DOMAIN zone' = DOMAIN zone /\ \A i \in DOMAIN zone : KeepsOthers(i)]_allVars

\* What holds of the code: it is true of each line that needs no escapes, and of
\* the number of lines, whatever the other lines need.
NeedsEscape(line) ==
    LET params == Parse(line).params
    IN  \E i \in DOMAIN params : \E c \in {"\"", "\\", "\t"} : c \in ToSet(params[i].value)

\* A publication that is acknowledged is what the parser, and with it the next
\* rotation and `verify`, reads back from every ServiceMode record that needed no
\* escapes.  A record that did may come back as one that Parse refuses.
ReadsBack(line) ==
    LET r == Parse(line)
    IN  ~r.err /\ (IsAliasMode(r) \/ GetECH(r) = EncodeToString(List))
PublicationReadsBack ==
    [][PutAcknowledged =>
         \A i \in DOMAIN zone' : NeedsEscape(seen[i]) \/ ReadsBack(zone'[i])]_allVars

Reported == vpc = "read" /\ vpc' = "idle"

\* No false alarm.  `verify` misses a key in DNS only if no rotation has just
\* succeeded, or a key was added or DNS changed while it ran.  It finds an unknown
\* key in DNS only if the keystore changed while it ran, or somebody else than the
\* rotation has put the key there (verify_test.go:140-153), or a `keygen` that ran
\* beside the rotation has written the rotation's key out of the metadata.
CausedAlarms ==
    /\ "KEY_EXPECTED_NOT_IN_DNS" \in findings' => ~calm
    /\ "KEY_IN_DNS_NOT_STORE" \in findings' /\ owned => store # snap
AlarmHasCause == [][Reported => CausedAlarms]_allVars

\* No missed drift: when `verify` has nothing to report, DNS names the key that
\* was current when the keystore was opened, and no key that was not in it; and if
\* the rotation wrote what DNS serves, every key there is in use at the time of the
\* answer, however far rotations have come in between.  A list with a grace key
\* that the owner has put back goes unnoticed (verify.go:118-122): such a key is
\* in use no more, and its file will be deleted.
DNSAgrees ==
    LET ids == ConfigIDs(GetECH(Parse(zone[1])))
    IN  /\ Len(zone) = 1
        /\ In(snap, {"current"}) \subseteq ids
        /\ ids \subseteq In(snap, {"current", "previous", "grace"})
        /\ owned => ids \subseteq In(store, {"current", "previous"})
SilenceIsTrue == [][Reported /\ findings' = {} => DNSAgrees]_allVars
==============================================================================
