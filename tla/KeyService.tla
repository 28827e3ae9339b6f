----------------------------- MODULE KeyService -----------------------------
(***************************************************************************)
(* What ech-keymgr promises to the clients of a managed domain, without    *)
(* lifecycle states, metadata, steps, failures or deadlines: a key is put  *)
(* in the key directory before DNS names it, DNS never goes back to naming *)
(* no key, and a key leaves the directory only when no cached response can *)
(* name it any more ("No interruption", docs/architecture.md section 5).   *)
(***************************************************************************)
EXTENDS Integers

CONSTANTS
    Key,   \* key pairs
    TTL    \* how long a response may stay in a cache

VARIABLES
    keydir,      \* keys whose file is in the directory
    advertised,  \* keys DNS serves
    cache        \* how long a response that names the key may still be cached

vars == <<keydir, advertised, cache>>

Init ==
    /\ keydir = {}
    /\ advertised = {}
    /\ cache = [k \in Key |-> 0]

Install(k) ==
    /\ k \notin keydir
    /\ keydir' = keydir \cup {k}
    /\ UNCHANGED <<advertised, cache>>

Advertise(list) ==
    /\ list # {}
    /\ list \subseteq keydir
    /\ advertised' = list
    /\ cache' = [k \in Key |-> IF k \in list THEN TTL ELSE cache[k]]
    /\ UNCHANGED keydir

\* The one promise that is hard to keep.
Retire(k) ==
    /\ k \in keydir \ advertised
    /\ cache[k] = 0
    /\ keydir' = keydir \ {k}
    /\ UNCHANGED <<advertised, cache>>

\* A response that names k is fetched again as long as DNS serves it.
Elapse ==
    /\ cache' = [k \in Key |-> IF k \in advertised THEN TTL
                               ELSE IF cache[k] > 0 THEN cache[k] - 1 ELSE 0]
    /\ UNCHANGED <<keydir, advertised>>

Next ==
    \/ \E k \in Key : Install(k) \/ Retire(k)
    \/ \E list \in SUBSET Key : Advertise(list)
    \/ Elapse

Spec == Init /\ [][Next]_vars

\* A client that holds a response finds the key of that response in the
\* directory: the zero-downtime claim of the rotation.
Servable == \A k \in Key : cache[k] > 0 \/ k \in advertised => k \in keydir
=============================================================================
