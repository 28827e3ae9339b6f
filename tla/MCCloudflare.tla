---------------------------- MODULE MCCloudflare ----------------------------
(***************************************************************************)
(* Cloudflare for TLC, with a history variable that says which puts ran    *)
(* alone, and the properties stated with it.                               *)
(***************************************************************************)
EXTENDS Cloudflare, TLC

CONSTANT Nothing   \* the contents a deletion puts: nobody deletes here

ASSUME NothingAssumption == Nothing \notin List \cup {NoList}

VARIABLE alone     \* history: no other put has overlapped this one

\* Processes are interchangeable, and so are the lists they publish.
WriterSymmetry == Permutations(Writer) \cup Permutations(List)

\* A put begins when PutHTTPSRDATA is called.
InPut == {w \in Writer : pc[w] \in {"list", "create", "rollback", "delete"}}

MCInit == Init /\ alone = [w \in Writer |-> FALSE]
MCNext ==
    /\ Next
    /\ alone' = [w \in Writer |->
                    /\ w \in InPut'
                    /\ IF InPut' \subseteq InPut THEN alone[w] ELSE InPut' = {w}]
MCSpec == MCInit /\ [][MCNext]_<<vars, alone>>

\* What the rotator may rely on (module Provider): a put that succeeds and that no
\* other put overlapped has replaced the RRset; every other one leaves a mixture of
\* old and new records, never none.
PutPromise ==
    INSTANCE Provider WITH
        answers <- {content[r] : r \in rrset},
        putting <- [w \in Writer |-> IF w \in InPut THEN target[w] ELSE NoList]
PutReplaces == PutPromise!Spec
=============================================================================
