----------------------------- MODULE Publication -----------------------------
(***************************************************************************)
(* What DNS says of one domain, line by line: publishDNS reads the RRset,  *)
(* patches every record and writes the RRset back, the zone's owner edits  *)
(* it at any time, and `ech-keymgr verify` opens the keystore first and    *)
(* reads DNS later, while rotations go on.  The rotation and `keygen` are  *)
(* processes of their own: each reads the keystore once and from then on   *)
(* writes what it has in memory.                                           *)
(*                                                                         *)
(* A config_id is a character, and the base64 text of an ECHConfigList the *)
(* characters of its ids.  Two more texts stand for what is not base64 and *)
(* for what is base64 and no list.                                         *)
(***************************************************************************)
EXTENDS Svcb, FiniteSets

CONSTANTS
    Id,        \* config_ids
    NoId,      \* the rotation has no key yet
    Zones      \* the RRsets the owner of the zone may write

ASSUME PublicationAssumption == NoId \notin Id /\ IsFiniteSet(Id)

VARIABLES
    zone,      \* the lines of the RRset
    store,     \* the keystore: the state of each key, or "none"
    pc,        \* the next step of the rotation
    mem,       \* the keystore in its memory
    new,       \* its key
    seen,      \* the lines it read
    kpc,       \* the next step of `keygen`
    kmem,      \* the keystore in its memory
    vpc,       \* the next step of `verify`
    snap,      \* the keystore it opened
    findings   \* the warnings of the report it has just printed

rotVars == <<pc, mem, new, seen>>
genVars == <<kpc, kmem>>
verVars == <<vpc, snap, findings>>
vars == <<zone, store, rotVars, genVars, verVars>>

\* Any other step than one of `verify`.
NoReport == UNCHANGED <<vpc, snap>> /\ findings' = {}

NoKeys == [k \in Id |-> "none"]

Init ==
    /\ zone \in Zones
    /\ store = NoKeys
    /\ pc = "idle" /\ mem = NoKeys /\ new = NoId /\ seen = <<>>
    /\ kpc = "idle" /\ kmem = NoKeys
    /\ vpc = "idle" /\ snap = NoKeys /\ findings = {}

In(keys, states) == {k \in Id : keys[k] \in states}

-----------------------------------------------------------------------------
(* The base64 text of a list.                                              *)

NotBase64 == "!"
NotAList  == "?"

EncodeToString(list) == SetToSeq(list)
Decodes(text)        == NotBase64 \notin ToSet(text)
UnmarshalOK(text)    == NotAList \notin ToSet(text)
ConfigIDs(text)      == ToSet(text) \cap Id

\* `init` publishes a list with one entry of an unknown version.
Placeholder == <<"1", " ", ".", " ", "e", "c", "h", "=", "\"", "_", "\"">>

-----------------------------------------------------------------------------
(* The rotation, as far as DNS and `verify` see it.                        *)

Added(keys, k) == [j \in Id |-> IF j = k THEN "current"
                                ELSE IF keys[j] = "current" THEN "previous" ELSE keys[j]]

OpenOrInit ==
    /\ pc = "idle"
    /\ pc' = "R2" /\ mem' = store
    /\ UNCHANGED <<zone, store, new, seen, genVars>> /\ NoReport

\* The config_id is free in memory; another process may have taken it since.
Add(k) ==
    /\ pc = "R2"
    /\ mem[k] = "none"
    /\ mem' = Added(mem, k) /\ store' = mem'
    /\ pc' = "get4" /\ new' = k
    /\ UNCHANGED <<zone, seen, genVars>> /\ NoReport

keygenOpen ==
    /\ kpc = "idle"
    /\ kpc' = "add" /\ kmem' = store
    /\ UNCHANGED <<zone, store, rotVars>> /\ NoReport

\* It adds its key to what it has read and writes that.
doKeygen(k) ==
    /\ kpc = "add"
    /\ kmem[k] = "none"
    /\ store' = Added(kmem, k)
    /\ kpc' = "idle" /\ kmem' = NoKeys
    /\ UNCHANGED <<zone, rotVars>> /\ NoReport

keygenFails ==
    /\ kpc = "add"
    /\ kpc' = "idle" /\ kmem' = NoKeys
    /\ UNCHANGED <<zone, store, rotVars>> /\ NoReport

\* Any error, or a crash: the next rotation starts from R1.
Stop == pc' = "idle" /\ mem' = NoKeys /\ new' = NoId /\ seen' = <<>>
Fail == pc # "idle" /\ Stop /\ UNCHANGED <<zone, store, genVars>> /\ NoReport

GetHTTPSRDATA ==
    /\ pc \in {"get4", "get6"}
    /\ zone # <<>>
    /\ seen' = zone
    /\ pc' = IF pc = "get4" THEN "put4" ELSE "put6"
    /\ UNCHANGED <<zone, store, mem, new, genVars>> /\ NoReport

List == IF pc = "put4" THEN {new} \cup In(mem, {"previous"}) ELSE {new}

Patch(line) ==
    LET r == Parse(line)
    IN  String(IF IsAliasMode(r) THEN r ELSE SetECH(r, EncodeToString(List)))

\* Cloudflare keeps priority, target and the text of the SvcParams, and puts
\* them together again for a reader.
splitRDATA(line) ==
    LET pri == nextToken(TrimLeft(line))
        tgt == nextToken(TrimLeft(pri.rest))
    IN  [priority |-> Uint16(pri.tok), target |-> tgt.tok, value |-> TrimLeft(tgt.rest)]
toRDATA(data) ==
    Decimal(data.priority) \o <<" ">> \o (IF data.target = <<>> THEN <<".">> ELSE data.target) \o
    IF data.value = <<>> THEN <<>> ELSE <<" ">> \o Reverse(TrimLeft(Reverse(data.value)))
Stored(line, structured) == IF structured THEN toRDATA(splitRDATA(line)) ELSE line

\* One line that does not parse refuses the whole RRset.
AllParse(lines) == \A i \in DOMAIN lines : ~Parse(lines[i]).err

PutHTTPSRDATA ==
    /\ pc \in {"put4", "put6"}
    /\ AllParse(seen)
    /\ \E structured \in BOOLEAN :
          zone' = [i \in DOMAIN seen |-> Stored(Patch(seen[i]), structured)]
    /\ \/ pc' = (IF pc = "put4" THEN "mark" ELSE "R7") /\ seen' = <<>> /\ UNCHANGED <<mem, new>>
       \/ Stop   \* the answer is lost
    /\ UNCHANGED <<store, genVars>> /\ NoReport

\* SetState for each key of the list: the states stay as they are, and memory is
\* written each time.
markInDNS ==
    /\ pc = "mark"
    /\ store' = mem
    /\ pc' \in {"mark", "get6"}
    /\ UNCHANGED <<zone, mem, new, seen, genVars>> /\ NoReport

\* R7 retires the Previous keys one by one.
SetStateGrace(k) ==
    /\ pc = "R7"
    /\ mem[k] = "previous"
    /\ mem' = [mem EXCEPT ![k] = "grace"] /\ store' = mem'
    /\ UNCHANGED <<zone, pc, new, seen, genVars>> /\ NoReport

AllPreviousSet ==
    /\ pc = "R7"
    /\ In(mem, {"previous"}) = {}
    /\ pc' = "R8"
    /\ UNCHANGED <<zone, store, mem, new, seen, genVars>> /\ NoReport

\* Some deadlines have passed; if none has, nothing is written.  The rotation ends.
PruneExpired ==
    /\ pc = "R8"
    /\ \E expired \in SUBSET In(mem, {"grace"}) :
          store' = IF expired = {} THEN store
                   ELSE [k \in Id |-> IF k \in expired THEN "none" ELSE mem[k]]
    /\ Stop
    /\ UNCHANGED <<zone, genVars>> /\ NoReport

doInit ==
    /\ zone = <<>>
    /\ zone' = <<Placeholder>>
    /\ UNCHANGED <<store, rotVars, genVars>> /\ NoReport

\* The owner of the zone replaces the RRset.
Edit ==
    /\ zone' \in Zones
    /\ zone' # zone
    /\ UNCHANGED <<store, rotVars, genVars>> /\ NoReport

-----------------------------------------------------------------------------
(* `ech-keymgr verify`.                                                    *)

openStore ==
    /\ vpc = "idle"
    /\ snap' = store
    /\ vpc' = "read"
    /\ findings' = {}
    /\ UNCHANGED <<zone, store, rotVars, genVars>>

\* Mutants: 4a without the comparison, 4b with the grace entries and without.
KeyFindings_OneWay(ids) ==
    {"KEY_IN_DNS_NOT_STORE" : k \in ids \cap In(snap, {"none"})}
KeyFindings_ExpectGrace(ids) ==
    {"KEY_IN_DNS_NOT_STORE" : k \in ids \cap In(snap, {"none"})}
        \cup {"KEY_EXPECTED_NOT_IN_DNS" : k \in In(snap, {"current", "previous", "grace"}) \ ids}

\* 4a and 4b: the warnings; a grace entry is expected nowhere.
KeyFindings(ids) ==
    {"KEY_IN_DNS_NOT_STORE" : k \in ids \cap In(snap, {"none"})}
        \cup {"KEY_EXPECTED_NOT_IN_DNS" : k \in In(snap, {"current", "previous"}) \ ids}

\* The warnings of one pass over the lines that DNS returned.
Warnings(lines) ==
    LET r    == Parse(lines[1])
        text == GetECH(r)
    IN  IF lines = <<>> THEN {"DNS_HTTPS_RR_MISSING"}
        ELSE {"DNS_HTTPS_RR_MULTIPLE" : i \in {j \in DOMAIN lines : j > 1}} \cup
             CASE r.err                              -> {"DNS_HTTPS_RR_PRESENT"}
               [] ~r.err /\ text = <<>>              -> {"DNS_ECH_PARAM_MISSING"}
               [] ~r.err /\ ~Decodes(text)           -> {"DNS_ECH_BAD_BASE64"}
               [] ~r.err /\ Decodes(text) /\ ~UnmarshalOK(text) -> {"DNS_ECH_LIST_BAD_FORMAT"}
               [] OTHER                              -> KeyFindings(ConfigIDs(text))

Verify ==
    /\ vpc = "read"
    /\ findings' = Warnings(zone)
    /\ vpc' = "idle"
    /\ snap' = NoKeys
    /\ UNCHANGED <<zone, store, rotVars, genVars>>

\* The provider cannot return the RRset: a warning like a missing record.
VerifyUnanswered ==
    /\ vpc = "read"
    /\ findings' = {"DNS_HTTPS_RR_MISSING"}
    /\ vpc' = "idle"
    /\ snap' = NoKeys
    /\ UNCHANGED <<zone, store, rotVars, genVars>>

Next ==
    \/ \E k \in Id : Add(k) \/ SetStateGrace(k) \/ doKeygen(k)
    \/ OpenOrInit \/ Fail \/ GetHTTPSRDATA \/ PutHTTPSRDATA \/ markInDNS
    \/ AllPreviousSet \/ PruneExpired
    \/ keygenOpen \/ keygenFails
    \/ doInit \/ Edit
    \/ openStore \/ Verify \/ VerifyUnanswered

Spec == Init /\ [][Next]_vars
==============================================================================
