---------------------------- MODULE SharedKeydir ----------------------------
(***************************************************************************)
(* Several ech-keymgr processes (the daemon and CLI commands) that work on *)
(* one key directory and one HTTPS record without a lock between them.     *)
(* Each opens the keystore once, at its start, and from then on rewrites   *)
(* the whole of .meta.json from its own memory.                            *)
(*                                                                         *)
(* Rotator has the faults and the server; here R3 and R9 are left out, and *)
(* a process may stop at any step.  A key is a key pair with its config_id *)
(* and file name: that two processes draw the same ones is left out.       *)
(***************************************************************************)
EXTENDS Integers, FiniteSets

CONSTANTS
    Key,           \* key pairs; a fresh one is one nothing refers to
    NoKey,
    Rotators,      \* processes that run rotations (the daemon, `rotate`)
    Generators,    \* processes that run `keygen`
    TTL,           \* how long a response may stay in a cache
    SettleDelay,   \* the sleep of R5
    GracePeriod,   \* rotation.grace_period
    MaxCommands    \* bound on the commands that are started

Proc == Rotators \cup Generators

ASSUME SharedAssumption ==
    /\ NoKey \notin Key
    /\ IsFiniteSet(Key)
    /\ {TTL, SettleDelay, GracePeriod, MaxCommands} \subseteq Nat

VARIABLES
    keydir,   \* keys whose .ech file is in the directory
    disk,     \* .meta.json: the entry of each key
    dns,      \* keys DNS serves
    cache,    \* how long a response that names the key may still be cached
    pc,       \* the next step of each process
    mem,      \* the metadata in the memory of each process
    new,      \* the key each process generated
    timer,    \* time left of the sleep, then of the drop deadline, of each process
    todo,     \* the entries each process has still to mark, or found expired
    started   \* commands started so far

RotateSteps == {"R2", "R2meta", "R4", "R4mark", "R5", "R7", "R7set", "R8rm"}
KeygenSteps == {"keygen", "keygenmeta"}

shared == <<keydir, disk, dns, cache>>
vars == <<shared, pc, mem, new, timer, todo, started>>

\* An entry: its lifecycle state and the time left to scheduled_drop_at.
State == {"none", "current", "previous", "grace"}
Entry == [state : State, drop : Nat]
NoEntry == [state |-> "none", drop |-> 0]

Previous(p) == {k \in Key : mem[p][k].state = "previous"}

Fresh == {k \in Key :
            /\ k \notin keydir \cup dns
            /\ cache[k] = 0
            /\ disk[k] = NoEntry
            /\ \A p \in Proc : new[p] # k /\ k \notin todo[p] /\ mem[p][k] = NoEntry}

NoMemory == [k \in Key |-> NoEntry]

\* An initialised directory without keys.
Init ==
    /\ keydir = {}
    /\ disk = NoMemory
    /\ dns = {}
    /\ cache = [k \in Key |-> 0]
    /\ pc = [p \in Proc |-> "idle"]
    /\ mem = [p \in Proc |-> NoMemory]
    /\ new = [p \in Proc |-> NoKey]
    /\ timer = [p \in Proc |-> 0]
    /\ todo = [p \in Proc |-> {}]
    /\ started = 0

Goto(p, step) == pc' = [pc EXCEPT ![p] = step]

\* persistLocked: what p has in memory, m, becomes the content of .meta.json.
persist(p, m) ==
    /\ mem' = [mem EXCEPT ![p] = m]
    /\ disk' = m

\* Mutant of Exit: the key of the last command is kept.
Exit_KeepsKey(p) ==
    /\ Goto(p, "idle")
    /\ mem' = [mem EXCEPT ![p] = NoMemory]
    /\ timer' = [timer EXCEPT ![p] = 0]
    /\ todo' = [todo EXCEPT ![p] = {}]
    /\ UNCHANGED new

\* The process is gone, and its memory with it.
Exit(p) ==
    /\ Goto(p, "idle")
    /\ mem' = [mem EXCEPT ![p] = NoMemory]
    /\ new' = [new EXCEPT ![p] = NoKey]
    /\ timer' = [timer EXCEPT ![p] = 0]
    /\ todo' = [todo EXCEPT ![p] = {}]

-----------------------------------------------------------------------------
\* A command opens the keystore, the only time it reads the metadata, and
\* generates a key.
OpenOrInit(p) ==
    /\ pc[p] = "idle"
    /\ started < MaxCommands
    /\ started' = started + 1
    /\ mem' = [mem EXCEPT ![p] = disk]
    /\ \E k \in Fresh : new' = [new EXCEPT ![p] = k]
    /\ \/ p \in Rotators /\ Goto(p, "R2")
       \/ p \in Generators /\ Goto(p, "keygen")
    /\ UNCHANGED <<shared, timer, todo>>

AddWriteFile(p) ==
    /\ \/ pc[p] = "R2" /\ Goto(p, "R2meta")
       \/ pc[p] = "keygen" /\ Goto(p, "keygenmeta")
    /\ keydir' = keydir \cup {new[p]}
    /\ UNCHANGED <<disk, dns, cache, mem, new, timer, todo, started>>

\* Mutant of Demoted: the current key is retired at once.
Demoted_ToGrace(p) ==
    [k \in Key |-> IF k = new[p] THEN [state |-> "current", drop |-> 0]
                   ELSE IF mem[p][k].state = "current"
                        THEN [state |-> "grace", drop |-> mem[p][k].drop]
                   ELSE mem[p][k]]

\* The new entry is current, the current one of p's memory is previous.
Demoted(p) ==
    [k \in Key |-> IF k = new[p] THEN [state |-> "current", drop |-> 0]
                   ELSE IF mem[p][k].state = "current"
                        THEN [state |-> "previous", drop |-> mem[p][k].drop]
                   ELSE mem[p][k]]

AddPersist(p) ==
    /\ pc[p] = "R2meta"
    /\ persist(p, Demoted(p))
    /\ Goto(p, "R4")
    /\ UNCHANGED <<keydir, dns, cache, new, timer, todo, started>>

\* keygen ends with Add: nothing is published or reloaded.
doKeygen(p) ==
    /\ pc[p] = "keygenmeta"
    /\ disk' = Demoted(p)
    /\ Exit(p)
    /\ UNCHANGED <<keydir, dns, cache, started>>

Serve(list) ==
    /\ dns' = list
    /\ cache' = [k \in Key |-> IF k \in list THEN TTL ELSE cache[k]]

publishOverlap(p) ==
    /\ pc[p] = "R4"
    /\ Previous(p) \subseteq keydir
    /\ Serve({new[p]} \cup Previous(p))
    /\ todo' = [todo EXCEPT ![p] = {new[p]} \cup Previous(p)]
    /\ Goto(p, "R4mark")
    /\ UNCHANGED <<keydir, disk, mem, new, timer, started>>

\* Nothing but in_dns_since of k changes, but all entries are written.
markInDNS(p, k) ==
    /\ pc[p] = "R4mark"
    /\ k \in todo[p]
    /\ persist(p, mem[p])
    /\ todo' = [todo EXCEPT ![p] = @ \ {k}]
    /\ UNCHANGED <<keydir, dns, cache, pc, new, timer, started>>

Sleep(p) ==
    /\ pc[p] = "R4mark"
    /\ todo[p] = {}
    /\ timer' = [timer EXCEPT ![p] = SettleDelay]
    /\ Goto(p, "R5")
    /\ UNCHANGED <<shared, mem, new, todo, started>>

publishSolo(p) ==
    /\ pc[p] = "R5"
    /\ timer[p] = 0
    /\ Serve({new[p]})
    /\ Goto(p, "R7")
    /\ UNCHANGED <<keydir, disk, mem, new, timer, todo, started>>

ComputeDropAt(p) ==
    /\ pc[p] = "R7"
    /\ timer' = [timer EXCEPT ![p] = GracePeriod]
    /\ Goto(p, "R7set")
    /\ UNCHANGED <<shared, mem, new, todo, started>>

SetStateGrace(p, k) ==
    /\ pc[p] = "R7set"
    /\ k \in Previous(p)
    /\ persist(p, [mem[p] EXCEPT ![k] = [state |-> "grace", drop |-> timer[p]]])
    /\ UNCHANGED <<keydir, dns, cache, pc, new, timer, todo, started>>

\* R8 starts: which entries of p's memory have expired?
PruneStart(p) ==
    /\ pc[p] = "R7set"
    /\ Previous(p) = {}
    /\ todo' = [todo EXCEPT ![p] =
                   {k \in Key : mem[p][k].state = "grace" /\ mem[p][k].drop = 0}]
    /\ Goto(p, "R8rm")
    /\ UNCHANGED <<shared, mem, new, timer, started>>

PruneRemove(p, k) ==
    /\ pc[p] = "R8rm"
    /\ k \in todo[p] \cap keydir
    /\ keydir' = keydir \ {k}
    /\ UNCHANGED <<disk, dns, cache, pc, mem, new, timer, todo, started>>

\* The metadata is written only when something was pruned.  The rotation is over.
PrunePersist(p) ==
    /\ pc[p] = "R8rm"
    /\ todo[p] \cap keydir = {}
    /\ disk' = IF todo[p] = {} THEN disk
               ELSE [k \in Key |-> IF k \in todo[p] THEN NoEntry ELSE mem[p][k]]
    /\ Exit(p)
    /\ UNCHANGED <<keydir, dns, cache, started>>

\* A step fails (R4 for want of a Previous file, for instance), the context is
\* cancelled or the process dies: all that it has in memory is gone.
Stop(p) ==
    /\ pc[p] # "idle"
    /\ Exit(p)
    /\ UNCHANGED <<shared, started>>

Dec(n) == IF n > 0 THEN n - 1 ELSE 0
Age(m) == [k \in Key |-> [state |-> m[k].state, drop |-> Dec(m[k].drop)]]

\* Steps between which a process only computes and works on local files.
LocalWork == {"R2", "R2meta", "keygen", "keygenmeta", "R7set", "R8rm"}

\* Time passes, in units that are long against a series of file operations.
Tick ==
    /\ \A p \in Proc : pc[p] \notin LocalWork
    /\ cache' = [k \in Key |-> IF k \in dns THEN TTL ELSE Dec(cache[k])]
    /\ disk' = Age(disk)
    /\ mem' = [p \in Proc |-> Age(mem[p])]
    /\ timer' = [p \in Proc |-> Dec(timer[p])]
    /\ UNCHANGED <<keydir, dns, pc, new, todo, started>>

Next ==
    \/ \E p \in Proc :
         \/ OpenOrInit(p)
         \/ AddWriteFile(p) \/ AddPersist(p) \/ doKeygen(p)
         \/ publishOverlap(p) \/ \E k \in Key : markInDNS(p, k)
         \/ Sleep(p) \/ publishSolo(p)
         \/ ComputeDropAt(p) \/ \E k \in Key : SetStateGrace(p, k)
         \/ PruneStart(p) \/ \E k \in Key : PruneRemove(p, k)
         \/ PrunePersist(p) \/ Stop(p)
    \/ Tick

Spec == Init /\ [][Next]_vars

-----------------------------------------------------------------------------
\* Every variable has its type.
TypeOK ==
    /\ keydir \subseteq Key
    /\ dns \subseteq Key
    /\ disk \in [Key -> Entry]
    /\ cache \in [Key -> Nat]
    /\ pc \in [Proc -> {"idle"} \cup RotateSteps \cup KeygenSteps]
    /\ mem \in [Proc -> [Key -> Entry]]
    /\ new \in [Proc -> Key \cup {NoKey}]
    /\ timer \in [Proc -> Nat]
    /\ todo \in [Proc -> SUBSET Key]
    /\ \A p \in Proc : pc[p] = "idle" <=> new[p] = NoKey

\* The promise to clients: no interleaving of rotations with `keygen` deletes the
\* file of a key that a cache may hold, or publishes a key without its file.
Promise == INSTANCE KeyService WITH advertised <- dns
PromiseKept == Promise!Spec

\* Between commands no entry on disk makes R4 of the next rotation fail for want
\* of its file: README.md says each step is recoverable on the next cycle.
RotationsCanRead ==
    (\A p \in Proc : pc[p] = "idle")
        => \A k \in Key : disk[k].state \in {"current", "previous"} => k \in keydir
=============================================================================
