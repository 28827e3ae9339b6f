------------------------------- MODULE Rotator -------------------------------
(***************************************************************************)
(* One managed domain of ech-keymgr: the rotation cycle R1..R9 of          *)
(* internal/rotator, the keystore directory it writes, the HTTPS record it *)
(* publishes, the caches of resolvers and clients, and the web server that *)
(* loads the key directory.                                                *)
(*                                                                         *)
(* One process at a time works on the domain (the daemon's loop, or the    *)
(* operator's CLI while the daemon does nothing).  Every process opens the *)
(* keystore afresh and, when a step fails, drops it: what survives a       *)
(* failed step is what is on disk, so one copy of the metadata is enough   *)
(* here.                                                                   *)
(*                                                                         *)
(* A key stands for one key pair together with its config_id.  Keys are    *)
(* recycled: a fresh key is one that nothing in the world refers to.       *)
(***************************************************************************)
EXTENDS Integers, FiniteSets

CONSTANTS
    Key,              \* key pairs
    NoKey,            \* no key: the rotation has not generated one yet
    NumConfigIDs,     \* 256 in the code: how many entries can be tracked
    TTL,              \* dns.ttl: how long a response may stay in a cache
    SettleDelay,      \* the sleep of R5
    GracePeriod,      \* rotation.grace_period
    Interval,         \* rotation.interval
    SyncReload,       \* TRUE when a reload is complete once Reload returns
    MaxDisturbances   \* bound on faults, crashes and CLI invocations

ASSUME ConstantsAssumption ==
    /\ NoKey \notin Key
    /\ IsFiniteSet(Key)
    /\ {NumConfigIDs, TTL, SettleDelay, GracePeriod, Interval} \subseteq Nat
    /\ SyncReload \in BOOLEAN
    /\ MaxDisturbances \in Nat

VARIABLES
    keydir,     \* keys whose .ech file is in the directory
    meta,       \* .meta.json: the lifecycle state of each key, or "none"
    drop,       \* time left until a grace entry's scheduled_drop_at
    rr,         \* does the HTTPS record exist (ech-keymgr init)?
    dns,        \* keys in the ech= parameter that DNS serves
    cache,      \* how long a response holding the key may still be cached
    loaded,     \* keys the web server has in memory
    reloading,  \* a reload was requested and the server has not done it
    pc,         \* the next step of the running command
    op,         \* the running command
    new,        \* the key pair the command generated
    deadline,   \* time left until the dropAt that R7 computed
    settle,     \* time left of the sleep of R5
    todo,       \* the entries R8 found expired
    lag,        \* how long a response without new may still be cached
    timer,      \* time left until the daemon's ticker fires
    disturbances

storeVars  == <<keydir, meta, drop>>
worldVars  == <<rr, dns, cache>>
serverVars == <<loaded, reloading>>
stepVars   == <<new, deadline, settle, todo, lag>>
procVars   == <<pc, op, stepVars>>
vars == <<storeVars, worldVars, serverVars, procVars, timer, disturbances>>

LifecycleState == {"current", "previous", "grace"}
RotateSteps == {"R1", "R2", "R2meta", "R3", "R4", "R4mark", "R5", "R6",
                "R7", "R7set", "R8", "R8rm", "R9"}

Tracked  == {k \in Key : meta[k] # "none"}
Previous == {k \in Key : meta[k] = "previous"}
Live     == {k \in Key : meta[k] \in {"current", "previous"}}

\* Keys nothing refers to any more: a freshly generated key pair is one.
Fresh == {k \in Key : /\ k \notin keydir \cup dns \cup loaded
                      /\ meta[k] = "none"
                      /\ cache[k] = 0}

Init ==
    /\ keydir = {}
    /\ meta = [k \in Key |-> "none"]
    /\ drop = [k \in Key |-> 0]
    /\ rr \in BOOLEAN
    /\ dns = {}
    /\ cache = [k \in Key |-> 0]
    /\ loaded = {}
    /\ reloading = FALSE
    /\ pc = "idle"
    /\ op = "rotate"
    /\ new = NoKey
    /\ deadline = 0
    /\ settle = 0
    /\ todo = {}
    /\ lag = 0
    /\ timer = 0
    /\ disturbances = 0

-----------------------------------------------------------------------------
(* Starting and ending a command.                                          *)

Disturb == /\ disturbances < MaxDisturbances
           /\ disturbances' = disturbances + 1

\* Mutant: the command that ends does not forget its key.
Return_KeepsKey ==
    /\ pc' = "idle"
    /\ op' = "rotate"
    /\ new' = new
    /\ deadline' = 0
    /\ settle' = 0
    /\ todo' = {}
    /\ lag' = 0

\* The command ends, in success or with an error: its memory is gone.
Return ==
    /\ pc' = "idle"
    /\ op' = "rotate"
    /\ new' = NoKey
    /\ deadline' = 0
    /\ settle' = 0
    /\ todo' = {}
    /\ lag' = 0

\* The daemon's loop rotates at start and on each tick of its ticker.
runDomainLoop ==
    /\ pc = "idle"
    /\ timer = 0
    /\ timer' = Interval
    /\ pc' = "R1"
    /\ UNCHANGED <<storeVars, worldVars, serverVars, op, stepVars, disturbances>>

\* The operator runs `ech-keymgr rotate` or `ech-keymgr keygen`.
RunCLI(command) ==
    /\ pc = "idle"
    /\ Disturb
    /\ op' = command
    /\ pc' = "R1"
    /\ UNCHANGED <<storeVars, worldVars, serverVars, stepVars, timer>>

\* The operator runs `ech-keymgr init`: a record with a placeholder ech=.
doInit ==
    /\ ~rr
    /\ rr' = TRUE
    /\ UNCHANGED <<storeVars, dns, cache, serverVars, procVars, timer, disturbances>>

-----------------------------------------------------------------------------
(* R1, R2: generate a key, write its file, record it in the metadata.      *)

\* R1 succeeds when some config_id is free.
pickConfigID ==
    /\ pc = "R1"
    /\ Cardinality(Tracked) < NumConfigIDs
    /\ \E k \in Fresh : new' = k
    /\ pc' = "R2"
    /\ UNCHANGED <<storeVars, worldVars, serverVars, op, deadline, settle, todo,
                   lag, timer, disturbances>>

\* R1 fails when every config_id is taken.
AllConfigIDsInUse ==
    /\ pc = "R1"
    /\ Cardinality(Tracked) >= NumConfigIDs
    /\ Return
    /\ UNCHANGED <<storeVars, worldVars, serverVars, timer, disturbances>>

\* Store.Add, first half: the .ech file appears under its final name.
AddWriteFile ==
    /\ pc = "R2"
    /\ keydir' = keydir \cup {new}
    /\ pc' = "R2meta"
    /\ UNCHANGED <<meta, drop, worldVars, serverVars, op, stepVars, timer, disturbances>>

\* Mutant: Add demotes every entry, not only the current one.
AddPersist_DemotesAll ==
    /\ pc = "R2meta"
    /\ meta' = [k \in Key |-> IF k = new THEN "current"
                              ELSE IF meta[k] # "none" THEN "previous"
                              ELSE meta[k]]
    /\ \/ /\ op = "rotate"
          /\ pc' = "R3"
          /\ UNCHANGED <<op, stepVars>>
       \/ /\ op = "keygen"
          /\ Return
    /\ UNCHANGED <<keydir, drop, worldVars, serverVars, timer, disturbances>>

\* Store.Add, second half: the old current entry is demoted and the new one
\* recorded, in one rename of .meta.json.  keygen ends here.
AddPersist ==
    /\ pc = "R2meta"
    /\ meta' = [k \in Key |-> IF k = new THEN "current"
                              ELSE IF meta[k] = "current" THEN "previous"
                              ELSE meta[k]]
    /\ \/ /\ op = "rotate"
          /\ pc' = "R3"
          /\ UNCHANGED <<op, stepVars>>
       \/ /\ op = "keygen"
          /\ Return
    /\ UNCHANGED <<keydir, drop, worldVars, serverVars, timer, disturbances>>

\* The metadata cannot be written: Add removes the file again and ignores
\* an error of that removal.
AddPersistFails ==
    /\ pc = "R2meta"
    /\ Disturb
    /\ keydir' \in {keydir, keydir \ {new}}
    /\ Return
    /\ UNCHANGED <<meta, drop, worldVars, serverVars, timer>>

-----------------------------------------------------------------------------
(* R3 and R9: ask the server to reload the key directory.                  *)

ServerTold ==
    IF SyncReload THEN loaded' = keydir /\ UNCHANGED reloading
                  ELSE reloading' = TRUE /\ UNCHANGED loaded

\* Mutant: R3 goes on to R4 without a reload.
reload_OnlyAtR9 ==
    /\ \/ /\ pc = "R3"
          /\ pc' = "R4"
          /\ UNCHANGED <<serverVars, op, stepVars>>
       \/ /\ pc = "R9"
          /\ ServerTold
          /\ Return
    /\ UNCHANGED <<storeVars, worldVars, timer, disturbances>>

reload ==
    /\ ServerTold
    /\ \/ /\ pc = "R3"
          /\ pc' = "R4"
          /\ UNCHANGED <<op, stepVars>>
       \/ /\ pc = "R9"
          /\ Return
    /\ UNCHANGED <<storeVars, worldVars, timer, disturbances>>

\* The reload cannot be requested, or its timeout expires and the server may
\* have been told.
reloadFails ==
    /\ pc \in {"R3", "R9"}
    /\ Disturb
    /\ ServerTold \/ UNCHANGED serverVars
    /\ Return
    /\ UNCHANGED <<storeVars, worldVars, timer>>

\* The server finishes a reload that was requested earlier.
ServerReloads ==
    /\ reloading
    /\ loaded' = keydir
    /\ reloading' = FALSE
    /\ UNCHANGED <<storeVars, worldVars, procVars, timer, disturbances>>

-----------------------------------------------------------------------------
(* R4, R5, R6: publish the overlap list, sleep, publish the new key alone. *)

\* DNS serves the list from now on, and so may every cache for a TTL.
Serve(list) ==
    /\ dns' = list
    /\ cache' = [k \in Key |-> IF k \in list THEN TTL ELSE cache[k]]

\* Mutants: the overlap list without the Previous keys, or with the grace keys;
\* a solo list that still holds the Previous keys.
buildOverlapList_NewOnly == {new}
buildOverlapList_WithGrace == {new} \cup {k \in Key : meta[k] \in {"previous", "grace"}}
buildSoloList_StillOverlap == {new} \cup Previous

buildOverlapList == {new} \cup Previous
buildSoloList    == {new}

\* Every Previous key is read back from its file to build the list.
OverlapReadable == Previous \subseteq keydir

publishOverlap ==
    /\ pc = "R4"
    /\ rr /\ OverlapReadable
    /\ Serve(buildOverlapList)
    /\ lag' = TTL
    /\ pc' = "R4mark"
    /\ UNCHANGED <<storeVars, rr, serverVars, op, new, deadline, settle, todo,
                   timer, disturbances>>

\* R4 ends the rotation when a Previous file cannot be read or the record is
\* not there (ErrRecordNotFound: the operator has to run init first).
OverlapRefused ==
    /\ pc = "R4"
    /\ ~(rr /\ OverlapReadable)
    /\ Return
    /\ UNCHANGED <<storeVars, worldVars, serverVars, timer, disturbances>>

markInDNS ==
    /\ pc = "R4mark"
    /\ pc' = "R5"
    /\ settle' = SettleDelay
    /\ UNCHANGED <<storeVars, worldVars, serverVars, op, new, deadline, todo,
                   lag, timer, disturbances>>

\* Mutant: R6 follows R4 at once.
Sleep_Skipped ==
    /\ pc = "R5"
    /\ pc' = "R6"
    /\ UNCHANGED <<storeVars, worldVars, serverVars, op, stepVars, timer, disturbances>>

Sleep ==
    /\ pc = "R5"
    /\ settle = 0
    /\ pc' = "R6"
    /\ UNCHANGED <<storeVars, worldVars, serverVars, op, stepVars, timer, disturbances>>

publishSolo ==
    /\ pc = "R6"
    /\ Serve(buildSoloList)
    /\ lag' = 0
    /\ pc' = "R7"
    /\ UNCHANGED <<storeVars, rr, serverVars, op, new, deadline, settle, todo,
                   timer, disturbances>>

\* A publication that reports an error has not happened, has happened (the
\* answer was lost), or left some of the old records beside the new ones.
publishDNSFails ==
    /\ rr
    /\ Disturb
    /\ \E kept \in SUBSET dns :
         \/ pc \in {"R4", "R6"} /\ kept = dns /\ Serve(kept)
         \/ pc = "R4" /\ OverlapReadable /\ Serve(kept \cup buildOverlapList)
         \/ pc = "R6" /\ Serve(kept \cup buildSoloList)
    /\ Return
    /\ UNCHANGED <<storeVars, rr, serverVars, timer>>

-----------------------------------------------------------------------------
(* R7, R8: retire the Previous keys, delete the expired ones.              *)

\* dropAt is computed once, after the solo list is published.
ComputeDropAt ==
    /\ pc = "R7"
    /\ deadline' = GracePeriod
    /\ pc' = "R7set"
    /\ UNCHANGED <<storeVars, worldVars, serverVars, op, new, settle, todo, lag,
                   timer, disturbances>>

\* Mutant: the drop deadline is not recorded.
SetStateGrace_NoDeadline(k) ==
    /\ pc = "R7set"
    /\ k \in Previous
    /\ meta' = [meta EXCEPT ![k] = "grace"]
    /\ UNCHANGED <<keydir, drop, worldVars, serverVars, procVars, timer, disturbances>>

SetStateGrace(k) ==
    /\ pc = "R7set"
    /\ k \in Previous
    /\ meta' = [meta EXCEPT ![k] = "grace"]
    /\ drop' = [drop EXCEPT ![k] = deadline]
    /\ UNCHANGED <<keydir, worldVars, serverVars, procVars, timer, disturbances>>

AllPreviousSet ==
    /\ pc = "R7set"
    /\ Previous = {}
    /\ pc' = "R8"
    /\ UNCHANGED <<storeVars, worldVars, serverVars, op, stepVars, timer, disturbances>>

\* Mutants: the prune of every grace entry, of every entry without a deadline
\* in the future, of those entries only whose file is still there.
PruneStart_AllGrace ==
    /\ pc = "R8"
    /\ todo' = {k \in Key : meta[k] = "grace"}
    /\ pc' = "R8rm"
    /\ UNCHANGED <<storeVars, worldVars, serverVars, op, new, deadline, settle,
                   lag, timer, disturbances>>
PruneStart_AnyState ==
    /\ pc = "R8"
    /\ todo' = {k \in Tracked : drop[k] = 0}
    /\ pc' = "R8rm"
    /\ UNCHANGED <<storeVars, worldVars, serverVars, op, new, deadline, settle,
                   lag, timer, disturbances>>
PruneStart_FileMustExist ==
    /\ pc = "R8"
    /\ todo' = {k \in keydir : meta[k] = "grace" /\ drop[k] = 0}
    /\ pc' = "R8rm"
    /\ UNCHANGED <<storeVars, worldVars, serverVars, op, new, deadline, settle,
                   lag, timer, disturbances>>

\* PruneExpired compares every deadline with one reading of the clock.
PruneStart ==
    /\ pc = "R8"
    /\ todo' = {k \in Key : meta[k] = "grace" /\ drop[k] = 0}
    /\ pc' = "R8rm"
    /\ UNCHANGED <<storeVars, worldVars, serverVars, op, new, deadline, settle,
                   lag, timer, disturbances>>

PruneRemove(k) ==
    /\ pc = "R8rm"
    /\ k \in todo \cap keydir
    /\ keydir' = keydir \ {k}
    /\ UNCHANGED <<meta, drop, worldVars, serverVars, procVars, timer, disturbances>>

\* Mutant: the entries go before their files.
PrunePersist_BeforeRemove ==
    /\ pc = "R8rm"
    /\ meta' = [k \in Key |-> IF k \in todo THEN "none" ELSE meta[k]]
    /\ todo' = {}
    /\ pc' = "R9"
    /\ UNCHANGED <<keydir, drop, worldVars, serverVars, op, new, deadline, settle,
                   lag, timer, disturbances>>

\* A file that is already gone is no error; the entries go in one rename.
PrunePersist ==
    /\ pc = "R8rm"
    /\ todo \cap keydir = {}
    /\ meta' = [k \in Key |-> IF k \in todo THEN "none" ELSE meta[k]]
    /\ todo' = {}
    /\ pc' = "R9"
    /\ UNCHANGED <<keydir, drop, worldVars, serverVars, op, new, deadline, settle,
                   lag, timer, disturbances>>

-----------------------------------------------------------------------------
(* Faults, crashes and time.                                               *)

\* A step reports an error before it has an effect: no entropy, a full disk,
\* a failed remove or rename, a cancelled sleep.
StepFails ==
    /\ pc \in {"R1", "R2", "R4mark", "R5", "R7set", "R8rm"}
    /\ Disturb
    /\ Return
    /\ UNCHANGED <<storeVars, worldVars, serverVars, timer>>

\* The process dies; the supervisor restarts the daemon, which rotates at once.
Crash ==
    /\ pc # "idle"
    /\ Disturb
    /\ Return
    /\ timer' = 0
    /\ UNCHANGED <<storeVars, worldVars, serverVars>>

Dec(n) == IF n > 0 THEN n - 1 ELSE 0

\* A key DNS serves is cached afresh all the time; the others age out.
Tick ==
    /\ cache' = [k \in Key |-> IF k \in dns THEN TTL ELSE Dec(cache[k])]
    /\ drop' = [k \in Key |-> Dec(drop[k])]
    /\ deadline' = Dec(deadline)
    /\ settle' = Dec(settle)
    /\ lag' = Dec(lag)
    /\ timer' = Dec(timer)
    /\ UNCHANGED <<keydir, meta, rr, dns, serverVars, pc, op, new, todo, disturbances>>

-----------------------------------------------------------------------------
\* What a command does by itself when nothing disturbs it.
Rotate ==
    \/ pickConfigID \/ AllConfigIDsInUse \/ AddWriteFile \/ AddPersist
    \/ reload \/ publishOverlap \/ OverlapRefused \/ markInDNS \/ Sleep
    \/ publishSolo \/ ComputeDropAt \/ AllPreviousSet \/ PruneStart \/ PrunePersist
    \/ \E k \in Key : SetStateGrace(k) \/ PruneRemove(k)

Fault ==
    \/ AddPersistFails \/ reloadFails \/ publishDNSFails \/ StepFails \/ Crash

Next ==
    \/ runDomainLoop
    \/ \E command \in {"rotate", "keygen"} : RunCLI(command)
    \/ doInit
    \/ Rotate
    \/ Fault
    \/ ServerReloads
    \/ Tick

Spec == Init /\ [][Next]_vars

\* The Go scheduler runs a goroutine that can run, calls return (each has a
\* timeout), timers fire, and the server finishes the reload it was asked for.
\* Nothing obliges a fault, a crash or a CLI command, init included, to happen.
Fairness ==
    /\ WF_vars(runDomainLoop)
    /\ WF_vars(Rotate)
    /\ WF_vars(ServerReloads)
    /\ WF_vars(Tick)

FairSpec == Spec /\ Fairness

-----------------------------------------------------------------------------
(* Properties.                                                             *)

\* Every variable has its type; a command that generated a key knows it.
TypeOK ==
    /\ keydir \subseteq Key
    /\ meta \in [Key -> LifecycleState \cup {"none"}]
    /\ drop \in [Key -> Nat]
    /\ rr \in BOOLEAN
    /\ dns \subseteq Key
    /\ cache \in [Key -> Nat]
    /\ loaded \subseteq Key
    /\ reloading \in BOOLEAN
    /\ pc \in RotateSteps \cup {"idle"}
    /\ op \in {"rotate", "keygen"}
    /\ new \in Key \cup {NoKey}
    /\ new = NoKey <=> pc \in {"idle", "R1"}
    /\ {deadline, settle, lag, timer, disturbances} \subseteq Nat
    /\ todo \subseteq Key

\* A1 of docs/architecture.md: the key directory holds every key that appears
\* in a response any client may have cached, at every step of a rotation,
\* whatever failed or crashed before: a handshake that uses a stale response
\* still finds its key.
KeydirCoversCaches == \A k \in Key : cache[k] > 0 => k \in keydir

\* A key that a client may have cached is in the server's memory, or in the
\* directory while a reload that was asked for after it got there is still to
\* be done: no rotation publishes a key, and no prune or crash leaves one
\* cached, that the server will not load.  When Reload returns with a complete
\* reload, no reload is ever outstanding and no handshake fails.  When it only
\* sends a signal (reloader.go:20-23), handshakes may fail until the server has
\* acted, as R4 does not wait.
ServerHoldsCachedKeys ==
    \A k \in Key : cache[k] > 0 => k \in loaded \/ (reloading /\ k \in keydir)

\* A2 of docs/architecture.md: from R4 to R6 DNS serves a non-empty list of
\* keys of the directory, namely the new key and every Previous key, although
\* the list was read before and earlier rotations may have failed anywhere.
OverlapListIsServable ==
    pc \in {"R4mark", "R5", "R6"} =>
        /\ dns = {new} \cup Previous
        /\ dns \subseteq keydir
        /\ meta[new] = "current"

\* R4 reads every Previous file and fails on the first it cannot read.  No
\* crash, error or interrupted prune leaves an entry without its file that
\* would make every later rotation fail there.
PreviousReadable == \A k \in Key : meta[k] \in {"current", "previous"} => k \in keydir

\* An entry is in state grace only when DNS no longer serves its key, and no
\* later publication, retried or half done, brings the key back.
GraceNotAdvertised == \A k \in dns : meta[k] \in {"current", "previous"}

\* The deletion of a file happens only to a key no cache can hold, and an entry
\* leaves the metadata only after its file is gone: what a crash between the
\* two leaves behind is an entry the next prune finishes.
SafeDeletion ==
    \A k \in Key :
       /\ k \in keydir /\ k \notin keydir' => cache[k] = 0 /\ k \notin dns
       /\ meta[k] # "none" /\ meta'[k] = "none" => k \notin keydir
DeletionIsSafe == [][SafeDeletion]_vars

\* A key only moves forward in its lifecycle (types.go): the demotion of R2 and
\* the retirement of R7 are never undone by a rotation that starts over.
Rank == [s \in LifecycleState \cup {"none"} |->
            CASE s = "current" -> 1 [] s = "previous" -> 2 [] s = "grace" -> 3
              [] s = "none" -> 4]
LifecycleForward ==
    [][ \A k \in Key : /\ meta[k] # "none" => Rank[meta[k]] <= Rank[meta'[k]]
                       /\ meta[k] = "none" => meta'[k] \in {"none", "current"} ]_vars

\* When DNS is about to shrink to the new key at R6, the responses without it
\* have left the caches or have at most TTL - SettleDelay to live: that long
\* clients go on with keys of earlier rotations that DNS names no more.  It is
\* what the code gives, whatever the two are.  docs/architecture.md:88 and
\* rotator/doc.go:19 promise max(TTL, settle_delay) in place of the sleep of R5,
\* with which lag would be 0 here, but rotator.go:111 sleeps SettleDelay, and
\* helpers.go:99 leaves that at 30 s while dns.ttl defaults to 300 s.
LagIsBounded == pc = "R6" => lag = 0 \/ lag + SettleDelay <= TTL

\* The state a rotation aims at: one key in DNS, current, loaded or about to be
\* loaded, nothing left to retire.
Converged ==
    /\ pc = "idle"
    /\ Previous = {}
    /\ \E k \in keydir : /\ dns = {k} /\ meta[k] = "current"
                         /\ k \in loaded \/ reloading

\* Every config_id is taken: pickConfigID fails, and with it every rotation.
Exhausted == Cardinality(Tracked) >= NumConfigIDs

\* Whatever failed before, once the record exists and the disturbances stop,
\* the rotations that follow reach the state a rotation aims at, again and
\* again, without knowing which step failed (rotator.go, comment of Rotate).
\* The one way out is that the config_ids run out and stay so.
RecoversUnlessExhausted == <>rr => []<>Converged \/ <>[]Exhausted

\* The same without the way out, as the comment of Rotate states it.
Recovers == <>rr => []<>Converged

\* Every key in its grace period is deleted some day, with its file, unless the
\* config_ids run out first and no rotation reaches the prune of R8.
GraceKeysDeleted ==
    \/ \A k \in Key : meta[k] = "grace" ~> (meta[k] = "none" /\ k \notin keydir)
    \/ <>[]Exhausted

-----------------------------------------------------------------------------
\* What the rotation promises to clients, see KeyService: every step installs,
\* advertises or retires one key, lets time pass, or is invisible to clients.
Promise == INSTANCE KeyService WITH advertised <- dns
PromiseKept == Promise!Spec
=============================================================================
