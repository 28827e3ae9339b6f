------------------------------ MODULE Provider ------------------------------
(***************************************************************************)
(* What a DNS provider promises its callers (pkg/dns): PutHTTPSRDATA has   *)
(* replaced the RRset when it succeeds, unless another call overlapped it, *)
(* and a call that fails leaves a mixture of what was there and what was   *)
(* being put.  A record that exists never goes missing, unless somebody    *)
(* deletes it.                                                             *)
(***************************************************************************)
CONSTANTS
    Writer,    \* the processes that call the provider
    List,      \* ECHConfigLists
    NoList,    \* no call is running
    Nothing    \* what DeleteHTTPSRDATA puts

VARIABLES
    answers,   \* the lists in the records DNS serves
    putting,   \* what each process puts
    result,    \* what its last call returned
    alone      \* has no other call overlapped the one that is running?

vars == <<answers, putting, result, alone>>

Init ==
    /\ answers \in SUBSET List
    /\ putting = [w \in Writer |-> NoList]
    /\ result = [w \in Writer |-> "ok"]
    /\ alone = [w \in Writer |-> FALSE]

Busy == {w \in Writer : putting[w] # NoList}
Content(w) == {putting[w]} \ {Nothing}

Begin(w, list) ==
    /\ putting[w] = NoList
    /\ putting' = [putting EXCEPT ![w] = list]
    /\ alone' = [v \in Writer |-> v = w /\ Busy = {}]
    /\ UNCHANGED <<answers, result>>

\* Some records have changed.
Mixture ==
    /\ answers' \subseteq answers \cup UNION {Content(w) : w \in Busy}
    /\ answers' = {} => answers = {} \/ \E w \in Busy : putting[w] = Nothing

Finish(w, outcome) ==
    /\ w \in Busy
    /\ Mixture
    /\ putting' = [putting EXCEPT ![w] = NoList]
    /\ result' = [result EXCEPT ![w] = outcome]
    /\ alone' = [alone EXCEPT ![w] = FALSE]

Change == Busy # {} /\ Mixture /\ UNCHANGED <<putting, result, alone>>
Succeed(w) == Finish(w, "ok") /\ (alone[w] => answers' = Content(w))
Fail(w) == Finish(w, "error")

\* A call that fails before it reaches the provider.
Refuse(w) ==
    /\ putting[w] = NoList
    /\ result' = [result EXCEPT ![w] = "error"]
    /\ UNCHANGED <<answers, putting, alone>>

Next ==
    \/ Change
    \/ \E w \in Writer : Succeed(w) \/ Fail(w) \/ Refuse(w)
    \/ \E w \in Writer, list \in List \cup {Nothing} : Begin(w, list)

Spec == Init /\ [][Next]_vars
=============================================================================
