------------------------- MODULE MCAtomicProviders -------------------------
(***************************************************************************)
(* AtomicProviders for TLC, with history variables and the properties      *)
(* stated with them.                                                       *)
(***************************************************************************)
EXTENDS AtomicProviders, TLC

VARIABLES
    alone,   \* no other call has overlapped the call of the process
    stale,   \* the RRset has changed since the process read it
    read     \* whether the process read for publishDNS ("get") or for `init`, or
             \* for `init` with an answer that broke off ("blind")

allVars == <<vars, alone, stale, read>>

\* Processes, lists and the rest of the records are interchangeable.
MCSymmetry == Permutations(Writer) \cup Permutations(List) \cup Permutations(Rest)

InCall == {w \in Writer : pc[w] \in {"put", "post", "delete", "deleteExact"}}

MCInit ==
    /\ Init
    /\ alone = [w \in Writer |-> FALSE]
    /\ stale = [w \in Writer |-> FALSE]
    /\ read = [w \in Writer |-> "none"]

MCNext ==
    /\ Next
    /\ alone' = [w \in Writer |->
                    /\ w \in InCall'
                    /\ IF InCall' \subseteq InCall THEN alone[w] ELSE InCall' = {w}]
    /\ stale' = [w \in Writer |->
                    /\ seen'[w] # {}
                    /\ seen'[w] = seen[w]
                    /\ stale[w] \/ rrset' # rrset]
    /\ read' = [w \in Writer |->
                    IF pc'[w] \notin {"put", "post"} THEN "none"
                    ELSE IF pc[w] \in {"put", "post"} THEN read[w]
                    ELSE IF pc[w] = "init" /\ Served # {} THEN "blind"
                    ELSE pc[w]]

MCSpec == MCInit /\ [][MCNext]_allVars

\* What the rotator may rely on (module Provider), by every vendor: a call that
\* succeeds and that no other call overlapped has replaced the RRset, and no call
\* but a deletion leaves none.
PutPromise ==
    INSTANCE Provider WITH
        answers <- {r.list : r \in Served},
        putting <- [w \in Writer |-> IF w \in InCall THEN target[w] ELSE NoList]
PutReplaces == PutPromise!Spec

\* What a step of a process does to the records that DNS serves, if the RRset has
\* not changed since the process read it.  A publication leaves them as the owner
\* wrote them, but for the list; `init` makes the first one; nothing else writes,
\* and only a deletion empties the RRset.  The one exception is `init` at PowerDNS
\* after an answer that broke off: it puts its placeholder in the place of whatever
\* is served.  The records PowerDNS does not serve are replaced with the others.
EditsSurvive ==
    [][ \A w \in Writer :
          (pc'[w] # pc[w] /\ ~stale[w] /\ Served' # Served) =>
              CASE read[w] = "get"   -> Rests(Served') = Rests(Served)
                [] read[w] = "init"  -> Served = {}
                [] read[w] = "blind" -> vendor = "powerdns"
                [] read[w] = "none"  -> target[w] = Nothing /\ Served' = {} ]_allVars
=============================================================================
