----------------------------- MODULE Cloudflare -----------------------------
(***************************************************************************)
(* The HTTPS RRset of a domain at Cloudflare, whose records are created    *)
(* and deleted one request at a time, and the processes that publish       *)
(* ECHConfigLists in it: publishDNS of the rotator reads the RRset, puts   *)
(* the new list into each record and calls PutHTTPSRDATA; `init` calls it  *)
(* with one record if it finds none.  Any request may fail, and one that   *)
(* reports a failure may still have been carried out.                      *)
(***************************************************************************)
EXTENDS Integers, FiniteSets

CONSTANTS
    Writer,       \* the processes: the daemon, `rotate`, `init`
    List,         \* the ECHConfigLists they publish
    NoList,
    MaxRecords    \* bound on the records that are ever created

ASSUME CloudflareAssumption ==
    /\ NoList \notin List
    /\ MaxRecords \in Nat

VARIABLES
    rrset,     \* the records that exist, by the number of their creation
    content,   \* the list in each record that was ever created
    records,   \* how many records were ever created
    pc,        \* the next step of each process
    target,    \* the list each process publishes
    lines,     \* the RDATA lines it has still to create
    listed,    \* the records it found when it listed the RRset
    created,   \* the records it created and knows of
    result,    \* what its last call returned
    since      \* history: records when it listed the RRset

dnsVars == <<rrset, content, records>>
procVars == <<pc, target, lines, listed, created, result, since>>
vars == <<dnsVars, procVars>>

Init ==
    /\ records \in {0, 1}
    /\ rrset = {r \in {0} : r < records}
    /\ content \in [rrset -> List]
    /\ pc = [w \in Writer |-> "idle"]
    /\ target = [w \in Writer |-> NoList]
    /\ lines = [w \in Writer |-> 0]
    /\ listed = [w \in Writer |-> {}]
    /\ created = [w \in Writer |-> {}]
    /\ result = [w \in Writer |-> "ok"]
    /\ since = [w \in Writer |-> 0]

Goto(w, step) == pc' = [pc EXCEPT ![w] = step]

\* Mutant of Return: the list of the last call is kept.
Return_KeepsTarget(w, outcome) ==
    /\ Goto(w, "idle")
    /\ lines' = [lines EXCEPT ![w] = 0]
    /\ listed' = [listed EXCEPT ![w] = {}]
    /\ created' = [created EXCEPT ![w] = {}]
    /\ result' = [result EXCEPT ![w] = outcome]
    /\ since' = [since EXCEPT ![w] = 0]
    /\ UNCHANGED target

\* The call returns, or the process dies: its variables are gone.
Return(w, outcome) ==
    /\ Goto(w, "idle")
    /\ target' = [target EXCEPT ![w] = NoList]
    /\ lines' = [lines EXCEPT ![w] = 0]
    /\ listed' = [listed EXCEPT ![w] = {}]
    /\ created' = [created EXCEPT ![w] = {}]
    /\ result' = [result EXCEPT ![w] = outcome]
    /\ since' = [since EXCEPT ![w] = 0]

-----------------------------------------------------------------------------
publishDNS(w, list) ==
    /\ pc[w] = "idle"
    /\ target' = [target EXCEPT ![w] = list]
    /\ Goto(w, "get")
    /\ UNCHANGED <<dnsVars, lines, listed, created, result, since>>

doInit(w, list) ==
    /\ pc[w] = "idle"
    /\ target' = [target EXCEPT ![w] = list]
    /\ Goto(w, "init")
    /\ UNCHANGED <<dnsVars, lines, listed, created, result, since>>

\* Every record that was read is written again with the new list; `init` writes
\* one record, and only if there is none.
GetHTTPSRDATA(w) ==
    /\ \/ /\ pc[w] = "get"
          /\ rrset # {}
          /\ lines' = [lines EXCEPT ![w] = Cardinality(rrset)]
       \/ /\ pc[w] = "init"
          /\ rrset = {}
          /\ lines' = [lines EXCEPT ![w] = 1]
    /\ Goto(w, "list")
    /\ UNCHANGED <<dnsVars, target, listed, created, result, since>>

\* ErrRecordNotFound for the rotator, a record for `init`.
Refuse(w) ==
    /\ \/ pc[w] = "get" /\ rrset = {}
       \/ pc[w] = "init" /\ rrset # {}
    /\ Return(w, "error")
    /\ UNCHANGED dnsVars

\* PutHTTPSRDATA lists the RRset anew.
ListRecords(w) ==
    /\ pc[w] = "list"
    /\ listed' = [listed EXCEPT ![w] = rrset]
    /\ since' = [since EXCEPT ![w] = records]
    /\ Goto(w, "create")
    /\ UNCHANGED <<dnsVars, target, lines, created, result>>

\* The service creates a record.
NewRecord(w) ==
    /\ records < MaxRecords
    /\ rrset' = rrset \cup {records}
    /\ content' = [r \in DOMAIN content \cup {records} |->
                      IF r = records THEN target[w] ELSE content[r]]
    /\ records' = records + 1

\* The next line; after the last one the deletions begin.
CreateRecord(w) ==
    /\ pc[w] = "create"
    /\ NewRecord(w)
    /\ created' = [created EXCEPT ![w] = @ \cup {records}]
    /\ lines' = [lines EXCEPT ![w] = @ - 1]
    /\ Goto(w, IF lines[w] = 1 THEN "delete" ELSE "create")
    /\ UNCHANGED <<target, listed, result, since>>

\* Mutant of CreateFails: the error is ignored and the old records are deleted.
CreateFails_Deletes(w) ==
    /\ pc[w] = "create"
    /\ NewRecord(w) \/ UNCHANGED dnsVars
    /\ Goto(w, "delete")
    /\ UNCHANGED <<target, lines, listed, created, result, since>>

\* The creation reports an error, whether there is a record or not.
CreateFails(w) ==
    /\ pc[w] = "create"
    /\ NewRecord(w) \/ UNCHANGED dnsVars
    /\ Goto(w, "rollback")
    /\ UNCHANGED <<target, lines, listed, created, result, since>>

\* bestEffortDelete: each record is tried once, an error is ignored.
bestEffortDelete(w, r) ==
    /\ pc[w] = "rollback"
    /\ r \in created[w]
    /\ rrset' \in {rrset, rrset \ {r}}
    /\ created' = [created EXCEPT ![w] = @ \ {r}]
    /\ UNCHANGED <<content, records, pc, target, lines, listed, result, since>>

RolledBack(w) ==
    /\ pc[w] = "rollback"
    /\ created[w] = {}
    /\ Return(w, "error")
    /\ UNCHANGED dnsVars

\* The old records go one by one.
deleteByID(w, r) ==
    /\ pc[w] = "delete"
    /\ r \in listed[w] \cap rrset
    /\ rrset' = rrset \ {r}
    /\ listed' = [listed EXCEPT ![w] = @ \ {r}]
    /\ UNCHANGED <<content, records, pc, target, lines, created, result, since>>

\* Mutant of deleteFails: the error is ignored.
deleteFails_GoesOn(w, r) ==
    /\ pc[w] = "delete"
    /\ r \in listed[w]
    /\ rrset' \in {rrset, rrset \ {r}}
    /\ listed' = [listed EXCEPT ![w] = @ \ {r}]
    /\ UNCHANGED <<content, records, pc, target, lines, created, result, since>>

\* The first deletion that fails ends the call: the request got lost, its answer
\* got lost, or another process has deleted the record.
deleteFails(w, r) ==
    /\ pc[w] = "delete"
    /\ r \in listed[w]
    /\ rrset' \in {rrset, rrset \ {r}}
    /\ Return(w, "error")
    /\ UNCHANGED <<content, records>>

Succeed(w) ==
    /\ pc[w] = "delete"
    /\ listed[w] = {}
    /\ Return(w, "ok")
    /\ UNCHANGED dnsVars

\* An earlier request fails, or the process dies.
Stop(w) ==
    /\ pc[w] # "idle"
    /\ Return(w, "error")
    /\ UNCHANGED dnsVars

Next == \E w \in Writer :
    \/ \E list \in List : publishDNS(w, list) \/ doInit(w, list)
    \/ GetHTTPSRDATA(w) \/ Refuse(w) \/ ListRecords(w)
    \/ CreateRecord(w) \/ CreateFails(w)
    \/ \E r \in created[w] : bestEffortDelete(w, r)
    \/ RolledBack(w)
    \/ \E r \in listed[w] : deleteByID(w, r) \/ deleteFails(w, r)
    \/ Succeed(w) \/ Stop(w)

Spec == Init /\ [][Next]_vars

-----------------------------------------------------------------------------
\* Every variable has its type.
TypeOK ==
    /\ records \in Nat
    /\ rrset \subseteq 0 .. records - 1
    /\ content \in [0 .. records - 1 -> List]
    /\ pc \in [Writer -> {"idle", "get", "init", "list", "create", "rollback", "delete"}]
    /\ target \in [Writer -> List \cup {NoList}]
    /\ \A w \in Writer : pc[w] = "idle" <=> target[w] = NoList
    /\ lines \in [Writer -> Nat]
    /\ listed \in [Writer -> SUBSET (0 .. records - 1)]
    /\ created \in [Writer -> SUBSET (0 .. records - 1)]
    /\ result \in [Writer -> {"ok", "error"}]
    /\ since \in [Writer -> 0 .. records]

\* docs/architecture.md: a failure during a DNS update never lets ech= go missing.
\* It does not either when several processes replace the RRset at the same time.
EchNeverMissing == records > 0 => rrset # {}
=============================================================================
