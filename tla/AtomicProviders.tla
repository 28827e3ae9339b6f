-------------------------- MODULE AtomicProviders --------------------------
(***************************************************************************)
(* Route 53, Akamai Edge DNS, PowerDNS and the mock provider: the vendors  *)
(* that replace an HTTPS RRset in one request.  Processes read the RRset,  *)
(* put it back with another ECHConfigList, create it, or delete it; each   *)
(* request may fail, and one that reports a failure may have been carried  *)
(* out.  The zone's owner may change the other fields of the records.      *)
(***************************************************************************)
EXTENDS Integers, FiniteSets

CONSTANTS
    Writer,    \* processes: the daemon, `rotate`, `init`, an uninstall
    List,      \* ECHConfigLists
    NoList,    \* the process has no call of its own running
    Nothing,   \* the list of a process that deletes the RRset
    Rest       \* priority, target and the other SvcParams of a record

ASSUME AtomicProvidersAssumption ==
    /\ NoList \notin List /\ Nothing \notin List /\ NoList # Nothing
    /\ IsFiniteSet(Rest)

VARIABLES
    vendor,    \* the provider of the zone
    rrset,     \* the records of the RRset at the vendor
    pc,        \* the next step of each process
    target,    \* the list it puts
    seen,      \* what its last request for the RRset returned
    result     \* what its last call returned

procVars == <<pc, target, seen, result>>
vars == <<vendor, rrset, procVars>>

\* Only PowerDNS has records that are kept but not served.
Record == [rest : Rest, list : List, disabled : BOOLEAN]
Served == {r \in rrset : ~r.disabled}
Lines(rests, list) == {[rest |-> x, list |-> list, disabled |-> FALSE] : x \in rests}

Init ==
    /\ vendor \in {"route53", "akamai", "powerdns", "mock"}
    /\ \E list \in List : rrset \in SUBSET [rest : Rest, list : {list}, disabled : BOOLEAN]
    /\ vendor # "powerdns" => rrset = Served
    /\ pc = [w \in Writer |-> "idle"]
    /\ target = [w \in Writer |-> NoList]
    /\ seen = [w \in Writer |-> {}]
    /\ result = [w \in Writer |-> "ok"]

Goto(w, step) == pc' = [pc EXCEPT ![w] = step]

Return(w, outcome) ==
    /\ Goto(w, "idle")
    /\ target' = [target EXCEPT ![w] = NoList]
    /\ seen' = [seen EXCEPT ![w] = {}]
    /\ result' = [result EXCEPT ![w] = outcome]

-----------------------------------------------------------------------------
(* The callers.                                                            *)

Call(w, list, step) ==
    /\ pc[w] = "idle"
    /\ target' = [target EXCEPT ![w] = list]
    /\ Goto(w, step)
    /\ UNCHANGED <<vendor, rrset, seen, result>>

publishDNS(w, list) == Call(w, list, "get")
doInit(w, list) == Call(w, list, "init")
uninstall(w) == Call(w, Nothing, "delete")

\* Mutant: PowerDNS reports disabled records like the others.
Get_Disabled == rrset

\* GetHTTPSRDATA: no record that is served is ErrRecordNotFound.
Get == Served

\* A response of PowerDNS whose body breaks off before its first byte passes for
\* a zone without records: powerdns.go:194 drops the error of the read, and for
\* an empty body :205 returns no error.  The other vendors report it.
BodyCanBreakOff == vendor = "powerdns"

\* publishDNS writes each record it has read with the new list, `init` writes
\* one record if it has found none.
GetHTTPSRDATA(w) ==
    /\ \/ pc[w] = "get" /\ Get # {} /\ seen' = [seen EXCEPT ![w] = Get]
       \/ /\ pc[w] = "init" /\ (Get = {} \/ BodyCanBreakOff)
          /\ \E x \in Rest : seen' = [seen EXCEPT ![w] = Lines({x}, target[w])]
    /\ Goto(w, "put")
    /\ UNCHANGED <<vendor, rrset, target, result>>

\* ErrRecordNotFound for publishDNS, a record for `init`, or a failed request.
GetRefused(w) ==
    /\ pc[w] \in {"get", "init"}
    /\ Return(w, "error")
    /\ UNCHANGED <<vendor, rrset>>

-----------------------------------------------------------------------------
(* PutHTTPSRDATA.                                                          *)

NewRRset(w) == Lines({r.rest : r \in seen[w]}, target[w])

\* One UPSERT, one REPLACE, or an assignment under a lock.
PutAtOnce(w) ==
    /\ vendor \in {"route53", "powerdns", "mock"}
    /\ pc[w] = "put"
    /\ rrset' = NewRRset(w)
    /\ Return(w, "ok")
    /\ UNCHANGED vendor

\* Mutant: a PUT that finds no RRset is taken for a success.
AkamaiPut_NoPost(w) ==
    /\ vendor = "akamai"
    /\ pc[w] = "put"
    /\ IF rrset # {} THEN rrset' = NewRRset(w) ELSE UNCHANGED rrset
    /\ Return(w, "ok")
    /\ UNCHANGED vendor

\* Edge DNS replaces an RRset that exists and answers 404 if there is none.
AkamaiPut(w) ==
    /\ vendor = "akamai"
    /\ pc[w] = "put"
    /\ \/ /\ rrset # {}
          /\ rrset' = NewRRset(w)
          /\ Return(w, "ok")
       \/ /\ rrset = {}
          /\ Goto(w, "post")
          /\ UNCHANGED rrset
          /\ UNCHANGED <<target, seen, result>>
    /\ UNCHANGED vendor

\* Then it is created; if somebody else has created it meanwhile, the answer is
\* an error, and so is 404 when there is no such zone.
AkamaiPost(w) ==
    /\ pc[w] = "post"
    /\ \/ rrset = {} /\ rrset' = NewRRset(w) /\ Return(w, "ok")
       \/ rrset # {} /\ UNCHANGED rrset /\ Return(w, "error")
    /\ UNCHANGED vendor

\* A request that reports an error has been carried out or not; one that the
\* vendor would answer with 404 or a conflict changes nothing.
PutFails(w) ==
    /\ vendor # "mock"
    /\ pc[w] \in {"put", "post"}
    /\ \/ UNCHANGED rrset
       \/ /\ vendor = "akamai" => (rrset = {} <=> pc[w] = "post")
          /\ rrset' = NewRRset(w)
    /\ Return(w, "error")
    /\ UNCHANGED vendor

-----------------------------------------------------------------------------
(* DeleteHTTPSRDATA: an RRset that is not there is no error.               *)

DeleteAtOnce(w) ==
    /\ vendor \in {"akamai", "powerdns", "mock"}
    /\ pc[w] = "delete"
    /\ rrset' = {}
    /\ Return(w, "ok")
    /\ UNCHANGED vendor

\* Route 53 deletes an RRset only if it is told its exact contents.
Route53List(w) ==
    /\ vendor = "route53"
    /\ pc[w] = "delete"
    /\ \/ rrset = {} /\ Return(w, "ok")
       \/ /\ rrset # {}
          /\ Goto(w, "deleteExact")
          /\ seen' = [seen EXCEPT ![w] = rrset]
          /\ UNCHANGED <<target, result>>
    /\ UNCHANGED <<vendor, rrset>>

\* Mutant: an RRset that has changed is taken for one that is gone.
Route53Delete_Ignored(w) ==
    /\ pc[w] = "deleteExact"
    /\ IF rrset = seen[w] THEN rrset' = {} ELSE UNCHANGED rrset
    /\ Return(w, "ok")
    /\ UNCHANGED vendor

\* InvalidChangeBatch if they have changed.
Route53Delete(w) ==
    /\ pc[w] = "deleteExact"
    /\ \/ rrset = seen[w] /\ rrset' = {} /\ Return(w, "ok")
       \/ rrset # seen[w] /\ UNCHANGED rrset /\ Return(w, "error")
    /\ UNCHANGED vendor

DeleteFails(w) ==
    /\ vendor # "mock"
    /\ pc[w] \in {"delete", "deleteExact"}
    /\ \/ UNCHANGED rrset
       \/ /\ vendor = "route53" => pc[w] = "deleteExact" /\ rrset = seen[w]
          /\ rrset' = {}
    /\ Return(w, "error")
    /\ UNCHANGED vendor

-----------------------------------------------------------------------------
\* The owner of the zone edits a record, in the vendor's console.
Edit(r, rest) ==
    /\ r \in rrset
    /\ rrset' = (rrset \ {r}) \cup {[r EXCEPT !.rest = rest]}
    /\ UNCHANGED <<vendor, procVars>>

Next ==
    \/ \E w \in Writer :
         \/ \E list \in List : publishDNS(w, list) \/ doInit(w, list)
         \/ uninstall(w)
         \/ GetHTTPSRDATA(w) \/ GetRefused(w)
         \/ PutAtOnce(w) \/ AkamaiPut(w) \/ AkamaiPost(w) \/ PutFails(w)
         \/ DeleteAtOnce(w) \/ Route53List(w) \/ Route53Delete(w) \/ DeleteFails(w)
    \/ \E r \in rrset, rest \in Rest : Edit(r, rest)

Spec == Init /\ [][Next]_vars

-----------------------------------------------------------------------------
Rests(records) == {r.rest : r \in records}

\* DeleteHTTPSRDATA that returns no error has left no HTTPS record behind, even
\* if the RRset changed between the two requests of Route 53.
DeleteIsSure ==
    [][ \A w \in Writer :
          pc[w] \in {"delete", "deleteExact"} /\ pc'[w] = "idle" /\ result'[w] = "ok"
              => rrset' = {} ]_vars
=============================================================================
