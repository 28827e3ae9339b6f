----------------------- MODULE AtomicProvidersProofs -----------------------
(***************************************************************************)
(* Proofs about the vendors that replace an RRset in one request, for any  *)
(* number of processes, lists and records: they implement the promise of   *)
(* module Provider, a deletion that succeeds has deleted, and publishing   *)
(* loses what the zone's owner wrote in a served record only if he writes  *)
(* it between the read and the write.                                      *)
(***************************************************************************)
EXTENDS MCAtomicProviders, TLAPS

Step == {"idle", "get", "init", "put", "post", "delete", "deleteExact"}
Reading == {"get", "init"}
Putting == {"put", "post"}
Deleting == {"delete", "deleteExact"}
Outcome == {"ok", "error"}

TypeInv ==
    /\ rrset \subseteq Record
    /\ pc \in [Writer -> Step]
    /\ target \in [Writer -> List \cup {NoList, Nothing}]
    /\ seen \in [Writer -> SUBSET Record]
    /\ result \in [Writer -> Outcome]

\* What a call puts is a list, or Nothing if it deletes; it writes a record at
\* least.
CallsMean ==
    \A w \in Writer :
        /\ pc[w] \in Reading \cup Putting => target[w] \in List
        /\ pc[w] \in Deleting => target[w] = Nothing
        /\ pc[w] \in Putting => seen[w] # {}

\* Only a process in a call is alone in it.
HistoryInv ==
    /\ alone \in [Writer -> BOOLEAN]
    /\ stale \in [Writer -> BOOLEAN]
    /\ \A w \in Writer : alone[w] => w \in InCall
    /\ \A w \in Writer : read[w] \in IF pc[w] \in Putting THEN {"get", "init", "blind"}
                                                          ELSE {"none"}

\* What publishDNS has read is what DNS serves, unless the RRset has changed; what
\* `init` has read is that DNS serves nothing, unless PowerDNS's answer broke off.
ReadFresh(w) ==
    /\ read[w] = "get"   => seen[w] = Served
    /\ read[w] = "init"  => Served = {}
    /\ read[w] = "blind" => vendor = "powerdns"
ReadIsFresh == \A w \in Writer : ~stale[w] => ReadFresh(w)

Inv == TypeInv /\ CallsMean /\ HistoryInv /\ ReadIsFresh

-----------------------------------------------------------------------------
(* Records.                                                                *)

LEMMA LinesOf ==
    ASSUME NEW rests, NEW list
    PROVE  /\ \A r \in Lines(rests, list) :
                 r.list = list /\ ~r.disabled /\ r.rest \in rests
           /\ Rests(Lines(rests, list)) = rests
           /\ rests # {} => {r.list : r \in Lines(rests, list)} = {list}
           /\ rests \subseteq Rest /\ list \in List => Lines(rests, list) \subseteq Record
  <1> DEFINE line(x) == [rest |-> x, list |-> list, disabled |-> FALSE]
  <1>1. Lines(rests, list) = {line(x) : x \in rests}
    BY DEF Lines
  <1>2. \A x : line(x).list = list /\ line(x).disabled = FALSE /\ line(x).rest = x
    OBVIOUS
  <1>3. \A x \in Rest : list \in List => line(x) \in Record
    BY DEF Record
  <1> HIDE DEF line
  <1>4. QED
    BY <1>1, <1>2, <1>3 DEF Rests

\* What a put leaves at the vendor.
LEMMA NewRecords ==
    ASSUME TypeInv, CallsMean, NEW w \in Writer, pc[w] \in Putting
    PROVE  /\ NewRRset(w) \subseteq Record
           /\ \A r \in NewRRset(w) : ~r.disabled
           /\ {r.list : r \in NewRRset(w)} = {target[w]}
           /\ Rests(NewRRset(w)) = Rests(seen[w])
  <1> DEFINE rests == {r.rest : r \in seen[w]}
  <1>1. seen[w] \subseteq Record /\ seen[w] # {} /\ target[w] \in List
    BY DEF TypeInv, CallsMean
  <1>2. rests \subseteq Rest /\ rests # {} /\ rests = Rests(seen[w])
    BY <1>1 DEF Record, Rests
  <1>3. NewRRset(w) = Lines(rests, target[w])
    BY DEF NewRRset
  <1> HIDE DEF rests
  <1>4. QED
    BY <1>1, <1>2, <1>3, LinesOf

-----------------------------------------------------------------------------
(* The invariant.                                                          *)

\* How the history variables change in a step of a process or of the owner.
AloneStep ==
    alone' = [w \in Writer |->
                 /\ w \in InCall'
                 /\ IF InCall' \subseteq InCall THEN alone[w] ELSE InCall' = {w}]
StaleStep ==
    stale' = [w \in Writer |->
                 /\ seen'[w] # {}
                 /\ seen'[w] = seen[w]
                 /\ stale[w] \/ rrset' # rrset]
ReadStep ==
    read' = [w \in Writer |->
                IF pc'[w] \notin {"put", "post"} THEN "none"
                ELSE IF pc[w] \in {"put", "post"} THEN read[w]
                ELSE IF pc[w] = "init" /\ Served # {} THEN "blind"
                ELSE pc[w]]

LEMMA InitInv == MCInit => Inv
  <1> SUFFICES ASSUME MCInit PROVE Inv
    OBVIOUS
  <1>1. rrset \subseteq Record
    BY DEF MCInit, Init, Record
  <1>2. QED
    BY <1>1 DEF MCInit, Init, Inv, TypeInv, CallsMean, HistoryInv, ReadIsFresh, ReadFresh,
                InCall, Step, Reading, Putting, Deleting, Outcome

LEMMA TypeStep ==
    ASSUME TypeInv, CallsMean, [Next]_vars
    PROVE  TypeInv' /\ CallsMean'
  <1> USE DEF TypeInv, CallsMean, Step, Reading, Putting, Deleting, Outcome, Goto, Return,
              Call
  <1>1. ASSUME NEW w \in Writer, NEW list \in List, publishDNS(w, list) \/ doInit(w, list)
        PROVE  TypeInv' /\ CallsMean'
    BY <1>1 DEF publishDNS, doInit
  <1>2. ASSUME NEW w \in Writer, uninstall(w) PROVE TypeInv' /\ CallsMean'
    BY <1>2 DEF uninstall
  <1>3. ASSUME NEW w \in Writer, GetHTTPSRDATA(w) PROVE TypeInv' /\ CallsMean'
    <2>1. CASE pc[w] = "get" /\ Get # {} /\ seen' = [seen EXCEPT ![w] = Get]
      <3>1. Get \subseteq Record
        BY DEF Get, Served
      <3>2. QED
        BY <1>3, <2>1, <3>1 DEF GetHTTPSRDATA
    <2>2. ASSUME NEW x \in Rest, pc[w] = "init",
                 seen' = [seen EXCEPT ![w] = Lines({x}, target[w])]
          PROVE  TypeInv' /\ CallsMean'
      <3>1. Lines({x}, target[w]) \subseteq Record /\ Lines({x}, target[w]) # {}
        BY <2>2, LinesOf
      <3>2. QED
        BY <1>3, <2>2, <3>1 DEF GetHTTPSRDATA
    <2>3. QED
      BY <1>3, <2>1, <2>2 DEF GetHTTPSRDATA
  <1>4. ASSUME NEW w \in Writer, GetRefused(w) PROVE TypeInv' /\ CallsMean'
    BY <1>4 DEF GetRefused
  <1>5. ASSUME NEW w \in Writer, PutAtOnce(w) \/ AkamaiPut(w) \/ AkamaiPost(w) \/ PutFails(w)
        PROVE  TypeInv' /\ CallsMean'
    <2>1. NewRRset(w) \subseteq Record
      BY <1>5, NewRecords DEF PutAtOnce, AkamaiPut, AkamaiPost, PutFails
    <2>2. CASE PutAtOnce(w)
      BY <2>1, <2>2 DEF PutAtOnce
    <2>3. CASE AkamaiPut(w)
      BY <2>1, <2>3 DEF AkamaiPut
    <2>4. CASE AkamaiPost(w)
      BY <2>1, <2>4 DEF AkamaiPost
    <2>5. CASE PutFails(w)
      BY <2>1, <2>5 DEF PutFails
    <2>6. QED
      BY <1>5, <2>2, <2>3, <2>4, <2>5
  <1>6. ASSUME NEW w \in Writer, DeleteAtOnce(w) PROVE TypeInv' /\ CallsMean'
    BY <1>6 DEF DeleteAtOnce
  <1>7. ASSUME NEW w \in Writer, Route53List(w) PROVE TypeInv' /\ CallsMean'
    BY <1>7 DEF Route53List
  <1>8. ASSUME NEW w \in Writer, Route53Delete(w) PROVE TypeInv' /\ CallsMean'
    BY <1>8 DEF Route53Delete
  <1>9. ASSUME NEW w \in Writer, DeleteFails(w) PROVE TypeInv' /\ CallsMean'
    BY <1>9 DEF DeleteFails
  <1>10. ASSUME NEW r \in rrset, NEW rest \in Rest, Edit(r, rest)
         PROVE  TypeInv' /\ CallsMean'
    <2>1. [r EXCEPT !.rest = rest] \in Record
      BY DEF Record
    <2>2. QED
      BY <1>10, <2>1 DEF Edit, procVars
  <1>11. CASE UNCHANGED vars
    BY <1>11 DEF vars, procVars
  <1>12. QED
    BY <1>1, <1>2, <1>3, <1>4, <1>5, <1>6, <1>7, <1>8, <1>9, <1>10, <1>11 DEF Next

\* A process is about to put what it has read in this step, or before.
LEMMA PutFollowsGet ==
    ASSUME TypeInv, [Next]_vars, NEW w \in Writer, pc'[w] \in Putting
    PROVE  \/ pc[w] \in Putting /\ seen'[w] = seen[w]
           \/ pc[w] = "get" /\ rrset' = rrset /\ seen'[w] = Served
           \/ /\ pc[w] = "init" /\ rrset' = rrset
              /\ Served = {} \/ vendor = "powerdns"
  <1> USE DEF TypeInv, Step, Putting, Goto, Return, Call
  <1> DEFINE Goal == \/ pc[w] \in Putting /\ seen'[w] = seen[w]
                     \/ pc[w] = "get" /\ rrset' = rrset /\ seen'[w] = Served
                     \/ /\ pc[w] = "init" /\ rrset' = rrset
                        /\ Served = {} \/ vendor = "powerdns"
  <1>1. ASSUME NEW v \in Writer, NEW list \in List, publishDNS(v, list) \/ doInit(v, list)
        PROVE  Goal
    BY <1>1 DEF publishDNS, doInit
  <1>2. ASSUME NEW v \in Writer, uninstall(v) PROVE Goal
    BY <1>2 DEF uninstall
  <1>3. ASSUME NEW v \in Writer, GetHTTPSRDATA(v) PROVE Goal
    <2>1. CASE v = w
      BY <1>3, <2>1 DEF GetHTTPSRDATA, Get, BodyCanBreakOff
    <2>2. CASE v # w
      BY <1>3, <2>2 DEF GetHTTPSRDATA
    <2>3. QED
      BY <2>1, <2>2
  <1>4. ASSUME NEW v \in Writer, GetRefused(v) PROVE Goal
    BY <1>4 DEF GetRefused
  <1>5. ASSUME NEW v \in Writer, PutAtOnce(v) PROVE Goal
    BY <1>5 DEF PutAtOnce
  <1>6. ASSUME NEW v \in Writer, AkamaiPut(v) PROVE Goal
    BY <1>6 DEF AkamaiPut
  <1>7. ASSUME NEW v \in Writer, AkamaiPost(v) PROVE Goal
    BY <1>7 DEF AkamaiPost
  <1>8. ASSUME NEW v \in Writer, PutFails(v) PROVE Goal
    BY <1>8 DEF PutFails
  <1>9. ASSUME NEW v \in Writer, DeleteAtOnce(v) PROVE Goal
    BY <1>9 DEF DeleteAtOnce
  <1>10. ASSUME NEW v \in Writer, Route53List(v) PROVE Goal
    BY <1>10 DEF Route53List
  <1>11. ASSUME NEW v \in Writer, Route53Delete(v) PROVE Goal
    BY <1>11 DEF Route53Delete
  <1>12. ASSUME NEW v \in Writer, DeleteFails(v) PROVE Goal
    BY <1>12 DEF DeleteFails
  <1>13. CASE (\E r \in rrset, rest \in Rest : Edit(r, rest)) \/ UNCHANGED vars
    BY <1>13 DEF Edit, vars, procVars
  <1>14. QED
    BY <1>1, <1>2, <1>3, <1>4, <1>5, <1>6, <1>7, <1>8, <1>9, <1>10, <1>11, <1>12, <1>13
    DEF Next

LEMMA HistoryStep ==
    ASSUME TypeInv, HistoryInv, [Next]_vars, AloneStep, StaleStep, ReadStep
    PROVE  HistoryInv'
  <1>1. alone' \in [Writer -> BOOLEAN] /\ \A w \in Writer : alone'[w] => w \in InCall'
    BY ZenonT(30) DEF AloneStep, HistoryInv
  <1>2. stale' \in [Writer -> BOOLEAN]
    BY ZenonT(30) DEF StaleStep, HistoryInv
  <1>3. ASSUME NEW w \in Writer
        PROVE  read'[w] \in IF pc'[w] \in Putting THEN {"get", "init", "blind"} ELSE {"none"}
    <2>1. pc'[w] \in Putting => pc[w] \in {"get", "init"} \cup Putting
      BY PutFollowsGet DEF Putting
    <2>2. QED
      BY <2>1 DEF ReadStep, HistoryInv, Putting
  <1>4. QED
    BY <1>1, <1>2, <1>3 DEF HistoryInv

LEMMA FreshStep ==
    ASSUME Inv, [Next]_vars, StaleStep, ReadStep, HistoryInv', CallsMean'
    PROVE  ReadIsFresh'
  <1> SUFFICES ASSUME NEW w \in Writer, pc'[w] \in Putting, ~stale'[w]
               PROVE  ReadFresh(w)'
    BY DEF ReadIsFresh, ReadFresh, HistoryInv
  <1>0. vendor' = vendor
    BY DEF Next, vars, publishDNS, doInit, uninstall, Call, GetHTTPSRDATA, GetRefused,
           PutAtOnce, AkamaiPut, AkamaiPost, PutFails, DeleteAtOnce, Route53List,
           Route53Delete, DeleteFails, Edit
  <1>1. rrset' = rrset => Served' = Served
    BY DEF Served
  <1>r. read'[w] = IF pc[w] \in Putting THEN read[w]
                   ELSE IF pc[w] = "init" /\ Served # {} THEN "blind" ELSE pc[w]
    BY DEF ReadStep, Putting
  <1>2. seen'[w] # {}
    BY DEF CallsMean
  <1>3. seen'[w] = seen[w] => ~stale[w] /\ rrset' = rrset
    BY <1>2 DEF StaleStep
  <1>4. CASE pc[w] \in Putting /\ seen'[w] = seen[w]
    BY <1>0, <1>1, <1>3, <1>4, <1>r DEF Inv, ReadIsFresh, ReadFresh
  <1>5. CASE pc[w] = "get" /\ rrset' = rrset /\ seen'[w] = Served
    BY <1>1, <1>5, <1>r DEF ReadFresh, Putting
  <1>6. CASE pc[w] = "init" /\ rrset' = rrset /\ (Served = {} \/ vendor = "powerdns")
    BY <1>0, <1>1, <1>6, <1>r DEF ReadFresh, Putting
  <1>7. QED
    BY <1>4, <1>5, <1>6, PutFollowsGet DEF Inv

LEMMA InvStep == Inv /\ [MCNext]_allVars => Inv'
  <1> SUFFICES ASSUME Inv, [MCNext]_allVars PROVE Inv'
    OBVIOUS
  <1>1. CASE MCNext
    <2>1. [Next]_vars /\ AloneStep /\ StaleStep /\ ReadStep
      BY <1>1 DEF MCNext, AloneStep, StaleStep, ReadStep
    <2>2. QED
      BY <2>1, TypeStep, HistoryStep, FreshStep DEF Inv
  <1>2. CASE UNCHANGED allVars
    BY <1>2 DEF allVars, vars, procVars, Inv, TypeInv, CallsMean, HistoryInv, ReadIsFresh,
                ReadFresh, InCall, Served
  <1>3. QED
    BY <1>1, <1>2

\* The invariant holds in every reachable state.
THEOREM Invariant == MCSpec => []Inv
  BY InitInv, InvStep, PTL DEF MCSpec

-----------------------------------------------------------------------------
(* Deletions and edits.                                                    *)

\* A process moves on by an action of its own.
LEMMA OwnAction ==
    ASSUME TypeInv, [Next]_vars, NEW w \in Writer, pc'[w] # pc[w]
    PROVE  \/ \E list \in List : publishDNS(w, list) \/ doInit(w, list)
           \/ uninstall(w)
           \/ GetHTTPSRDATA(w) \/ GetRefused(w)
           \/ PutAtOnce(w) \/ AkamaiPut(w) \/ AkamaiPost(w) \/ PutFails(w)
           \/ DeleteAtOnce(w) \/ Route53List(w) \/ Route53Delete(w) \/ DeleteFails(w)
  <1> DEFINE Act(v) ==
           \/ \E list \in List : publishDNS(v, list) \/ doInit(v, list)
           \/ uninstall(v)
           \/ GetHTTPSRDATA(v) \/ GetRefused(v)
           \/ PutAtOnce(v) \/ AkamaiPut(v) \/ AkamaiPost(v) \/ PutFails(v)
           \/ DeleteAtOnce(v) \/ Route53List(v) \/ Route53Delete(v) \/ DeleteFails(v)
  <1>1. ASSUME NEW v \in Writer, Act(v)
        PROVE  \E step : pc' = [pc EXCEPT ![v] = step]
    BY <1>1 DEF publishDNS, doInit, uninstall, GetHTTPSRDATA, GetRefused, PutAtOnce, AkamaiPut,
                AkamaiPost, PutFails, DeleteAtOnce, Route53List, Route53Delete, DeleteFails,
                Goto, Return, Call
  <1>2. ~UNCHANGED pc
    OBVIOUS
  <1>3. (\E v \in Writer : Act(v)) \/ UNCHANGED pc
    BY DEF Next, Edit, vars, procVars
  <1> HIDE DEF Act
  <1>4. PICK v \in Writer : Act(v)
    BY <1>2, <1>3
  <1>5. v = w
    BY <1>1, <1>4 DEF TypeInv
  <1>6. QED
    BY <1>4, <1>5 DEF Act

\* DeleteHTTPSRDATA that returns no error has left no record, whatever other
\* processes and the owner did meanwhile.
LEMMA StepDeletes ==
    ASSUME TypeInv, [Next]_vars, NEW w \in Writer,
           pc[w] \in Deleting, pc'[w] = "idle", result'[w] = "ok"
    PROVE  rrset' = {}
  <1> USE DEF TypeInv, Step, Deleting, Outcome, Goto, Return, Call
  <1>1. DeleteAtOnce(w) \/ Route53List(w) \/ Route53Delete(w) \/ DeleteFails(w)
    BY OwnAction DEF publishDNS, doInit, uninstall, GetHTTPSRDATA, GetRefused, PutAtOnce,
                     AkamaiPut, AkamaiPost, PutFails
  <1>2. QED
    BY <1>1 DEF DeleteAtOnce, Route53List, Route53Delete, DeleteFails

\* A deletion that succeeds has deleted: Route 53, which must be told what it is to
\* delete, reports an error if that has changed.
THEOREM DeletionsAreSure == MCSpec => DeleteIsSure
  <1>1. Inv /\ [MCNext]_allVars =>
            [\A w \in Writer :
                pc[w] \in {"delete", "deleteExact"} /\ pc'[w] = "idle" /\ result'[w] = "ok"
                    => rrset' = {}]_vars
    BY StepDeletes DEF Inv, MCNext, allVars, Deleting
  <1>2. QED
    BY <1>1, Invariant, PTL DEF MCSpec, DeleteIsSure

\* What EditsSurvive says of one step of a process.
KeepsEdits(w) ==
    CASE read[w] = "get"   -> Rests(Served') = Rests(Served)
      [] read[w] = "init"  -> Served = {}
      [] read[w] = "blind" -> vendor = "powerdns"
      [] read[w] = "none"  -> target[w] = Nothing /\ Served' = {}

\* What a step of a process does to the RRset.
LEMMA StepKeepsEdits ==
    ASSUME Inv, [Next]_vars, NEW w \in Writer,
           pc'[w] # pc[w], ~stale[w], Served' # Served
    PROVE  KeepsEdits(w)
  <1> USE DEF Goto, Return, Call
  <1>1. CASE rrset' = rrset
    BY <1>1 DEF Served
  <1>2. CASE pc[w] \in Deleting /\ rrset' = {}
    <2>1. read[w] = "none" /\ target[w] = Nothing
      BY <1>2 DEF Inv, HistoryInv, CallsMean, Putting, Deleting
    <2>2. QED
      BY <1>2, <2>1 DEF KeepsEdits, Served
  <1>3. CASE pc[w] \in Putting /\ rrset' = NewRRset(w)
    <2>1. Served' = NewRRset(w)
      BY <1>3, NewRecords DEF Inv, Served
    <2>2. ReadFresh(w) /\ read[w] \in {"get", "init", "blind"}
      BY <1>3 DEF Inv, ReadIsFresh, HistoryInv
    <2>3. Rests(Served') = Rests(seen[w])
      BY <1>3, <2>1, NewRecords DEF Inv
    <2>4. QED
      BY <2>2, <2>3 DEF ReadFresh, KeepsEdits
  <1>4. QED
    BY <1>1, <1>2, <1>3, OwnAction
    DEF Inv, publishDNS, doInit, uninstall, GetHTTPSRDATA, GetRefused, PutAtOnce, AkamaiPut,
        AkamaiPost, PutFails, DeleteAtOnce, Route53List, Route53Delete, DeleteFails, Putting,
        Deleting

\* Unless the RRset has changed since the process read it, a publication leaves the
\* records that DNS serves as the owner wrote them, but for the list; `init` writes
\* where nothing is served, or at PowerDNS after an answer that broke off; and
\* only a deletion empties the RRset (publishDNS, rotator.go:247-281).
THEOREM EditsAreKept == MCSpec => EditsSurvive
  <1>1. Inv /\ [MCNext]_allVars =>
            [\A w \in Writer :
                (pc'[w] # pc[w] /\ ~stale[w] /\ Served' # Served) =>
                    CASE read[w] = "get"   -> Rests(Served') = Rests(Served)
                      [] read[w] = "init"  -> Served = {}
                      [] read[w] = "blind" -> vendor = "powerdns"
                      [] read[w] = "none"  -> target[w] = Nothing /\ Served' = {}]_allVars
    BY StepKeepsEdits DEF MCNext, KeepsEdits
  <1>2. QED
    BY <1>1, Invariant, PTL DEF MCSpec, EditsSurvive

-----------------------------------------------------------------------------
(* The refinement.  The state of Provider, as PutPromise maps it.          *)

Answers == {r.list : r \in Served}
PutBy == [w \in Writer |-> IF w \in InCall THEN target[w] ELSE NoList]
Contents(w) == {target[w]} \ {Nothing}

LEMMA Mapped ==
    ASSUME TypeInv, CallsMean
    PROVE  /\ PutPromise!Busy = InCall
           /\ \A w \in InCall : PutPromise!Content(w) = Contents(w)
           /\ \A w \in InCall : PutBy[w] = target[w]
           /\ \A w \in Writer \ InCall : PutBy[w] = NoList
           /\ \A w \in InCall : target[w] \in List \cup {Nothing}
  <1>1. \A w \in InCall : target[w] \in List \cup {Nothing}
    BY DEF CallsMean, InCall, Putting, Deleting
  <1>2. QED
    BY <1>1, AtomicProvidersAssumption DEF PutPromise!Busy, PutPromise!Content, InCall, PutBy, Contents

\* A step that changes nothing the promise is about.
LEMMA Stutters ==
    ASSUME HistoryInv, AloneStep, InCall' = InCall, \A w \in InCall : target'[w] = target[w],
           Answers' = Answers, result' = result
    PROVE  UNCHANGED PutPromise!vars
  <1>1. PutBy' = PutBy
    BY DEF PutBy
  <1>2. alone' = [w \in Writer |-> w \in InCall /\ alone[w]]
    BY Zenon DEF AloneStep
  <1>3. alone' = alone
    BY <1>2 DEF HistoryInv
  <1>4. QED
    BY <1>1, <1>3 DEF PutPromise!vars, PutBy, Answers

\* The state of the promise when the call of a process ends.
LEMMA Ends ==
    ASSUME TypeInv, CallsMean, HistoryInv, AloneStep, NEW w \in InCall, NEW outcome,
           Return(w, outcome)
    PROVE  /\ PutBy' = [PutBy EXCEPT ![w] = NoList]
           /\ result' = [result EXCEPT ![w] = outcome]
           /\ alone' = [alone EXCEPT ![w] = FALSE]
  <1>1. InCall' = InCall \ {w} /\ w \in Writer
    BY DEF Return, Goto, InCall, TypeInv
  <1>2. PutBy' = [PutBy EXCEPT ![w] = NoList]
    BY <1>1 DEF PutBy, Return, TypeInv
  <1>3. alone' = [v \in Writer |-> v \in InCall \ {w} /\ alone[v]]
    BY <1>1, Zenon DEF AloneStep
  <1>4. alone' = [alone EXCEPT ![w] = FALSE]
    BY <1>1, <1>3 DEF HistoryInv
  <1>5. QED
    BY <1>2, <1>4 DEF Return

\* The RRset stays as it is, or becomes what one of the calls puts.
LEMMA Mixes ==
    ASSUME TypeInv, CallsMean, NEW w \in InCall, Answers' = Answers \/ Answers' = Contents(w)
    PROVE  PutPromise!Mixture
  <1>1. Contents(w) \subseteq UNION {PutPromise!Content(v) : v \in PutPromise!Busy}
    BY Mapped
  <1>2. Contents(w) = {} => PutBy[w] = Nothing
    BY Mapped DEF Contents
  <1>3. /\ Answers' \subseteq Answers \cup UNION {PutPromise!Content(v) : v \in PutPromise!Busy}
        /\ Answers' = {} => Answers = {} \/ \E v \in PutPromise!Busy : PutBy[v] = Nothing
    BY <1>1, <1>2, Mapped
  <1>4. QED
    BY <1>3 DEF PutPromise!Mixture, Answers, PutBy

LEMMA Finishes ==
    ASSUME TypeInv, CallsMean, HistoryInv, AloneStep, NEW w \in InCall, NEW outcome,
           Return(w, outcome), Answers' = Answers \/ Answers' = Contents(w)
    PROVE  PutPromise!Finish(w, outcome)
  <1>1. w \in PutPromise!Busy
    BY Mapped
  <1>2. QED
    BY <1>1, Mixes, Ends DEF PutPromise!Finish, PutBy

LEMMA Succeeds ==
    ASSUME TypeInv, CallsMean, HistoryInv, AloneStep, NEW w \in InCall,
           Return(w, "ok"), Answers' = Contents(w)
    PROVE  PutPromise!Next
  <1>1. PutPromise!Finish(w, "ok")
    BY Finishes
  <1>2. PutPromise!Content(w) = Answers'
    BY Mapped
  <1>3. PutPromise!Succeed(w)
    BY <1>1, <1>2 DEF PutPromise!Succeed, Answers
  <1>4. QED
    BY <1>3 DEF PutPromise!Next, InCall

LEMMA Fails ==
    ASSUME TypeInv, CallsMean, HistoryInv, AloneStep, NEW w \in InCall,
           Return(w, "error"), Answers' = Answers \/ Answers' = Contents(w)
    PROVE  PutPromise!Next
  <1>1. PutPromise!Fail(w)
    BY Finishes DEF PutPromise!Fail
  <1>2. QED
    BY <1>1 DEF PutPromise!Next, InCall

\* A call reaches the provider.
LEMMA Begins ==
    ASSUME TypeInv, CallsMean, HistoryInv, AloneStep, NEW w \in Writer \ InCall,
           InCall' = InCall \cup {w}, \A v \in InCall : target'[v] = target[v],
           NEW list \in List \cup {Nothing}, target'[w] = list,
           Answers' = Answers, result' = result
    PROVE  PutPromise!Next
  <1>1. PutBy' = [PutBy EXCEPT ![w] = list]
    BY DEF PutBy
  <1>2. PutBy[w] = NoList
    BY Mapped
  <1>3. alone' = [v \in Writer |-> v = w /\ InCall = {}]
    <2>1. ~(InCall' \subseteq InCall)
      OBVIOUS
    <2>2. alone' = [v \in Writer |-> v \in InCall' /\ InCall' = {v}]
      BY <2>1, Zenon DEF AloneStep
    <2>3. \A v \in Writer : v \in InCall' /\ InCall' = {v} <=> v = w /\ InCall = {}
      OBVIOUS
    <2>4. QED
      BY <2>2, <2>3
  <1>4. PutPromise!Begin(w, list)
    BY <1>1, <1>2, <1>3, Mapped DEF PutPromise!Begin, PutBy, Answers
  <1>5. QED
    BY <1>4 DEF PutPromise!Next

\* What a put leaves in DNS.
LEMMA PutAnswers ==
    ASSUME TypeInv, CallsMean, NEW w \in Writer, pc[w] \in Putting, rrset' = NewRRset(w)
    PROVE  Answers' = Contents(w)
  <1>1. Served' = NewRRset(w)
    BY NewRecords DEF Served
  <1>2. target[w] # Nothing
    BY AtomicProvidersAssumption DEF CallsMean
  <1>3. QED
    BY <1>1, <1>2, NewRecords DEF Answers, Contents

\* Every step of a vendor is a step of the promise, or invisible to it.
LEMMA StepKeepsPromise ==
    ASSUME TypeInv, CallsMean, HistoryInv, [MCNext]_allVars
    PROVE  [PutPromise!Next]_(PutPromise!vars)
  <1> DEFINE Goal == [PutPromise!Next]_(PutPromise!vars)
  <1>0. CASE UNCHANGED allVars
    <2>1. UNCHANGED PutPromise!vars
      BY <1>0 DEF allVars, vars, procVars, PutPromise!vars, InCall, Served
    <2>2. QED
      BY <2>1
  <1> SUFFICES ASSUME Next, AloneStep PROVE Goal
    BY <1>0 DEF MCNext, AloneStep
  <1>s. ASSUME InCall' = InCall, \A w \in InCall : target'[w] = target[w],
               Answers' = Answers, result' = result
        PROVE  Goal
    BY <1>s, Stutters
  <1>a. rrset' = rrset => Answers' = Answers
    BY DEF Answers, Served
  <1>d. rrset' = {} => Answers' = {}
    BY DEF Answers, Served
  <1>n. ASSUME NEW w \in Writer, pc[w] \in Deleting PROVE Contents(w) = {}
    BY <1>n DEF CallsMean, Contents
  <1>i. InCall = {w \in Writer : pc[w] \in Putting \cup Deleting}
    BY DEF InCall, Putting, Deleting
  <1>1. ASSUME NEW w \in Writer, NEW list \in List, publishDNS(w, list) \/ doInit(w, list)
        PROVE  Goal
    <2>1. /\ InCall' = InCall /\ \A v \in InCall : target'[v] = target[v]
          /\ rrset' = rrset /\ result' = result
      BY <1>1 DEF publishDNS, doInit, Call, Goto, InCall, TypeInv
    <2>2. QED
      BY <2>1, <1>a, <1>s
  <1>2. ASSUME NEW w \in Writer, uninstall(w) PROVE Goal
    <2>1. /\ w \in Writer \ InCall /\ InCall' = InCall \cup {w}
          /\ \A v \in InCall : target'[v] = target[v]
          /\ target'[w] = Nothing
          /\ rrset' = rrset /\ result' = result
      BY <1>2 DEF uninstall, Call, Goto, InCall, TypeInv
    <2>2. QED
      BY <2>1, <1>a, Begins
  <1>3. ASSUME NEW w \in Writer, GetHTTPSRDATA(w) PROVE Goal
    <2>1. /\ w \in Writer \ InCall /\ InCall' = InCall \cup {w}
          /\ target' = target /\ rrset' = rrset /\ result' = result
      BY <1>3 DEF GetHTTPSRDATA, Goto, InCall, TypeInv
    <2>2. target[w] \in List
      BY <1>3 DEF GetHTTPSRDATA, CallsMean, Reading
    <2>3. QED
      BY <2>1, <2>2, <1>a, Begins
  <1>4. ASSUME NEW w \in Writer, GetRefused(w) PROVE Goal
    <2>1. /\ InCall' = InCall /\ w \notin InCall
          /\ \A v \in InCall : target'[v] = target[v]
          /\ rrset' = rrset
          /\ result' = [result EXCEPT ![w] = "error"]
      BY <1>4 DEF GetRefused, Goto, Return, InCall, TypeInv
    <2>2. PutBy' = PutBy
      BY <2>1 DEF PutBy
    <2>3. alone' = alone
      <3>1. alone' = [v \in Writer |-> v \in InCall /\ alone[v]]
        BY <2>1, Zenon DEF AloneStep
      <3>2. QED
        BY <3>1 DEF HistoryInv
    <2>4. PutPromise!Refuse(w)
      BY <2>1, <2>2, <2>3, <1>a, Mapped DEF PutPromise!Refuse, PutBy, Answers
    <2>5. QED
      BY <2>4 DEF PutPromise!Next
  <1>5. ASSUME NEW w \in Writer, PutAtOnce(w) PROVE Goal
    <2>1. pc[w] \in Putting /\ w \in InCall /\ rrset' = NewRRset(w) /\ Return(w, "ok")
      BY <1>5, <1>i DEF PutAtOnce, Putting
    <2>2. QED
      BY <2>1, PutAnswers, Succeeds
  <1>6. ASSUME NEW w \in Writer, AkamaiPut(w) PROVE Goal
    <2>1. pc[w] \in Putting /\ w \in InCall
      BY <1>6, <1>i DEF AkamaiPut, Putting
    <2>2. CASE rrset' = NewRRset(w) /\ Return(w, "ok")
      BY <2>1, <2>2, PutAnswers, Succeeds
    <2>3. CASE Goto(w, "post") /\ UNCHANGED <<rrset, target, seen, result>>
      <3>1. InCall' = InCall
        BY <2>1, <2>3 DEF Goto, InCall, TypeInv
      <3>2. QED
        BY <2>3, <3>1, <1>a, <1>s
    <2>4. QED
      BY <1>6, <2>2, <2>3 DEF AkamaiPut
  <1>7. ASSUME NEW w \in Writer, AkamaiPost(w) PROVE Goal
    <2>1. pc[w] \in Putting /\ w \in InCall
      BY <1>7, <1>i DEF AkamaiPost, Putting
    <2>2. CASE rrset' = NewRRset(w) /\ Return(w, "ok")
      BY <2>1, <2>2, PutAnswers, Succeeds
    <2>3. CASE UNCHANGED rrset /\ Return(w, "error")
      BY <2>1, <2>3, <1>a, Fails
    <2>4. QED
      BY <1>7, <2>2, <2>3 DEF AkamaiPost
  <1>8. ASSUME NEW w \in Writer, PutFails(w) PROVE Goal
    <2>1. pc[w] \in Putting /\ w \in InCall /\ Return(w, "error")
      BY <1>8, <1>i DEF PutFails, Putting
    <2>2. rrset' = rrset \/ rrset' = NewRRset(w)
      BY <1>8 DEF PutFails
    <2>3. QED
      BY <2>1, <2>2, <1>a, PutAnswers, Fails
  <1>9. ASSUME NEW w \in Writer, DeleteAtOnce(w) PROVE Goal
    <2>1. pc[w] \in Deleting /\ w \in InCall /\ rrset' = {} /\ Return(w, "ok")
      BY <1>9, <1>i DEF DeleteAtOnce, Deleting
    <2>2. QED
      BY <2>1, <1>d, <1>n, Succeeds
  <1>10. ASSUME NEW w \in Writer, Route53List(w) PROVE Goal
    <2>1. pc[w] \in Deleting /\ w \in InCall /\ rrset' = rrset
      BY <1>10, <1>i DEF Route53List, Deleting
    <2>2. CASE rrset = {} /\ Return(w, "ok")
      BY <2>1, <2>2, <1>d, <1>n, Succeeds
    <2>3. CASE Goto(w, "deleteExact") /\ UNCHANGED <<target, result>>
      <3>1. InCall' = InCall
        BY <2>1, <2>3 DEF Goto, InCall, TypeInv
      <3>2. QED
        BY <2>1, <2>3, <3>1, <1>a, <1>s
    <2>4. QED
      BY <1>10, <2>2, <2>3 DEF Route53List
  <1>11. ASSUME NEW w \in Writer, Route53Delete(w) PROVE Goal
    <2>1. pc[w] \in Deleting /\ w \in InCall
      BY <1>11, <1>i DEF Route53Delete, Deleting
    <2>2. CASE rrset' = {} /\ Return(w, "ok")
      BY <2>1, <2>2, <1>d, <1>n, Succeeds
    <2>3. CASE UNCHANGED rrset /\ Return(w, "error")
      BY <2>1, <2>3, <1>a, Fails
    <2>4. QED
      BY <1>11, <2>2, <2>3 DEF Route53Delete
  <1>12. ASSUME NEW w \in Writer, DeleteFails(w) PROVE Goal
    <2>1. pc[w] \in Deleting /\ w \in InCall /\ Return(w, "error")
      BY <1>12, <1>i DEF DeleteFails, Deleting
    <2>2. rrset' = rrset \/ rrset' = {}
      BY <1>12 DEF DeleteFails
    <2>3. QED
      BY <2>1, <2>2, <1>a, <1>d, <1>n, Fails
  <1>13. ASSUME NEW r \in rrset, NEW rest \in Rest, Edit(r, rest) PROVE Goal
    <2>1. InCall' = InCall /\ target' = target /\ result' = result
      BY <1>13 DEF Edit, procVars, InCall
    <2>2. Answers' = Answers
      <3> DEFINE edited == [r EXCEPT !.rest = rest]
      <3>1. edited.list = r.list /\ edited.disabled = r.disabled
        BY DEF TypeInv, Record
      <3>2. rrset' = (rrset \ {r}) \cup {edited} /\ r \in rrset
        BY <1>13 DEF Edit
      <3> HIDE DEF edited
      <3>3. QED
        BY <3>1, <3>2 DEF Answers, Served
    <2>3. QED
      BY <2>1, <2>2, <1>s
  <1>14. QED
    BY <1>1, <1>2, <1>3, <1>4, <1>5, <1>6, <1>7, <1>8, <1>9, <1>10, <1>11, <1>12, <1>13
    DEF Next

\* Every vendor keeps the promise of module Provider: a put that nobody overlaps
\* and that reports success has replaced the RRset, any other leaves a mixture,
\* and only a deletion takes the record away.
THEOREM VendorsKeepPromise == MCSpec => PutReplaces
  <1>1. MCInit => PutPromise!Init
    <2> SUFFICES ASSUME MCInit PROVE PutPromise!Init
      OBVIOUS
    <2>1. InCall = {} /\ Answers \in SUBSET List
      BY DEF MCInit, Init, InCall, Answers, Served
    <2>2. QED
      BY <2>1 DEF MCInit, Init, PutPromise!Init, Answers
  <1>2. Inv /\ [MCNext]_allVars => [PutPromise!Next]_(PutPromise!vars)
    BY StepKeepsPromise DEF Inv
  <1>3. QED
    BY <1>1, <1>2, Invariant, PTL DEF MCSpec, PutReplaces, PutPromise!Spec
=============================================================================
