------------------------------ MODULE Keystore ------------------------------
(***************************************************************************)
(* A Store of internal/keystore, the handle through which one process uses *)
(* the key directory of a domain: the metadata in its memory, .meta.json   *)
(* on disk, and the .ech files.  Any file operation may fail, the handle   *)
(* may be used again after an error, and the process may die at any step.  *)
(*                                                                         *)
(* atomicWrite renames a complete temporary file over its target, so it    *)
(* happens in one step or not at all.  A key is the number of the Add call *)
(* that brought it; the contents of a file are its key.                    *)
(***************************************************************************)
EXTENDS Integers, Sequences, SequencesExt, FiniteSets

CONSTANTS
    NoMeta,        \* there is no .meta.json
    ConfigID,      \* the ids callers pass to Add
    GracePeriod,   \* between SetState(grace) and scheduled_drop_at
    MaxAdds,       \* bound on the calls of Add
    MaxFaults,     \* bound on failed file operations and crashes
    MaxTime        \* bound on the clock, in seconds

State == {"current", "previous", "grace"}
Name  == [at : Nat, id : ConfigID, suffix : Nat]
Entry == [name : Name, id : ConfigID, key : Nat,
          state : State, drop : Nat]

ASSUME KeystoreAssumption ==
    /\ {GracePeriod, MaxAdds, MaxFaults, MaxTime} \subseteq Nat
    /\ NoMeta \notin Seq(Entry)

VARIABLES
    files,     \* the .ech files: name -> key
    disk,      \* the entries in .meta.json; NoMeta if there is no such file
    mem,       \* meta.Keys of the handle
    pc,        \* closed, idle, or the next step of the running call
    call,      \* the running call: its name, the entry of Add, the loop of a prune
    last,      \* what the last call on this handle returned
    now,       \* the clock; file names carry its seconds
    adds,      \* how many keys were added so far
    faults,    \* how many operations failed and processes died so far
    acked,     \* history: keys whose Add succeeded and that nobody deleted since
    misused    \* history: a handle was used after an error, or a Delete was
               \* interrupted

vars == <<files, disk, mem, pc, call, last, now, adds, faults, acked, misused>>

Call == [op : {"none", "init", "add", "set", "delete", "prune"},
         name : Name \cup {<<>>}, key : Nat, at : Nat, kept : Seq(Entry)]
NoCall == [op |-> "none", name |-> <<>>, key |-> 0, at |-> 0, kept |-> <<>>]

\* The directory may be new, or hold the empty store of an earlier OpenOrInit.
Init ==
    /\ files = <<>>
    /\ disk \in {NoMeta, <<>>}
    /\ mem = <<>>
    /\ pc = "closed"
    /\ call = NoCall
    /\ last = "ok"
    /\ now = 0
    /\ adds = 0
    /\ faults = 0
    /\ acked = {}
    /\ misused = FALSE

Names(entries) == {entries[i].name : i \in DOMAIN entries}
Entries == IF disk = NoMeta THEN <<>> ELSE disk
WithoutFiles(names) == [n \in DOMAIN files \ names |-> files[n]]

\* Lookup: the first entry with the id; 0 if there is none.
Lookup(id) == SelectInSeq(mem, LAMBDA e : e.id = id)

\* Mutant: the call that returns leaves its variables behind.
Return_KeepsCall(outcome) ==
    /\ pc' = "idle"
    /\ call' = call
    /\ last' = outcome

Return(outcome) ==
    /\ pc' = "idle"
    /\ call' = NoCall
    /\ last' = outcome

\* A call begins.  An error before it means that the handle should be gone.
Begin ==
    /\ pc = "idle"
    /\ misused' = (misused \/ last = "error")

Fault == faults < MaxFaults /\ faults' = faults + 1

-----------------------------------------------------------------------------
(* Opening.                                                                *)

Open ==
    /\ pc = "closed"
    /\ disk # NoMeta
    /\ mem' = disk
    /\ Return("ok")
    /\ UNCHANGED <<files, disk, now, adds, faults, acked, misused>>

\* Without .meta.json an empty one is written first.
OpenOrInit ==
    /\ pc = "closed"
    /\ disk = NoMeta
    /\ mem' = <<>>
    /\ pc' = "meta"
    /\ call' = [NoCall EXCEPT !.op = "init"]
    /\ UNCHANGED <<files, disk, last, now, adds, faults, acked, misused>>

\* The process ends, or it dies in the middle of a call.
Exit ==
    /\ \/ pc = "idle" /\ UNCHANGED <<faults, misused>>
       \/ /\ pc \notin {"closed", "idle"}
          /\ Fault
          /\ misused' = (misused \/ call.op = "delete")
    /\ pc' = "closed"
    /\ mem' = <<>>
    /\ call' = NoCall
    /\ last' = "ok"
    /\ UNCHANGED <<files, disk, now, adds, acked>>

-----------------------------------------------------------------------------
(* Add.                                                                    *)

\* Mutant: the name is taken as it is.
uniqueName_NoSuffix(id, key) == [at |-> now, id |-> id, suffix |-> 0]

\* A name that the memory knows gets a random suffix.
uniqueName(id, key) ==
    LET name == [at |-> now, id |-> id, suffix |-> 0]
    IN  IF name \in Names(mem) THEN [name EXCEPT !.suffix = key] ELSE name

Add(id) ==
    /\ Begin
    /\ adds < MaxAdds
    /\ adds' = adds + 1
    /\ call' = [NoCall EXCEPT !.op = "add", !.key = adds + 1,
                              !.name = uniqueName(id, adds + 1)]
    /\ pc' = "file"
    /\ UNCHANGED <<files, disk, mem, last, now, faults, acked>>

WithState(e, state, drop) == [e EXCEPT !.state = state, !.drop = drop]

\* Mutant: the current entry is not demoted.
Demoted_Not == mem

Demoted == [i \in DOMAIN mem |->
               IF mem[i].state = "current" THEN WithState(mem[i], "previous", mem[i].drop)
               ELSE mem[i]]

\* The file appears under its final name; the memory is changed next, before
\* the metadata is written.
AddWriteFile ==
    /\ pc = "file"
    /\ files' = [n \in DOMAIN files \cup {call.name} |->
                    IF n = call.name THEN call.key ELSE files[n]]
    /\ mem' = Append(Demoted, [name |-> call.name, id |-> call.name.id, key |-> call.key,
                               state |-> "current", drop |-> 0])
    /\ pc' = "meta"
    /\ UNCHANGED <<disk, call, last, now, adds, faults, acked, misused>>

AddWriteFails ==
    /\ pc = "file"
    /\ Fault
    /\ Return("error")
    /\ UNCHANGED <<files, disk, mem, now, adds, acked, misused>>

-----------------------------------------------------------------------------
(* Writing .meta.json, the last step of every call that changes it.        *)

persistLocked ==
    /\ pc = "meta"
    /\ disk' = mem
    /\ acked' = acked \cup (IF call.op = "add" THEN {call.key} ELSE {})
    /\ Return("ok")
    /\ UNCHANGED <<files, mem, now, adds, faults, misused>>

\* The memory keeps the change.  Add tries to remove its file again, Delete
\* has removed it for good, and OpenOrInit returns no handle.
persistFails ==
    /\ pc = "meta"
    /\ Fault
    /\ \/ /\ call.op = "init"
          /\ pc' = "closed"
          /\ call' = NoCall
          /\ UNCHANGED <<files, last, misused>>
       \/ /\ call.op = "add"
          /\ files' \in {files, WithoutFiles({call.name})}
          /\ Return("error")
          /\ UNCHANGED misused
       \/ /\ call.op \notin {"init", "add"}
          /\ misused' = (misused \/ call.op = "delete")
          /\ Return("error")
          /\ UNCHANGED files
    /\ UNCHANGED <<disk, mem, now, adds, acked>>

-----------------------------------------------------------------------------
(* SetState, Delete.                                                       *)

\* R7 retires an entry; R4 (markInDNS) writes an entry with the state it has.
SetState(id, state) ==
    /\ Begin
    /\ LET i == Lookup(id)
       IN  \/ /\ i = 0
              /\ Return("not found")
              /\ UNCHANGED mem
           \/ /\ i # 0
              /\ state \in {mem[i].state, "grace"}
              /\ mem' = [mem EXCEPT ![i] =
                    WithState(@, state, IF state = "grace" THEN now + GracePeriod ELSE mem[i].drop)]
              /\ pc' = "meta"
              /\ call' = [NoCall EXCEPT !.op = "set"]
              /\ UNCHANGED last
    /\ UNCHANGED <<files, disk, now, adds, faults, acked>>

\* Mutant: the entry goes and the file stays.
Delete_KeepsFile(id) ==
    /\ Begin
    /\ Lookup(id) # 0
    /\ mem' = RemoveAt(mem, Lookup(id))
    /\ acked' = acked \ {mem[Lookup(id)].key}
    /\ pc' = "meta"
    /\ call' = [NoCall EXCEPT !.op = "delete"]
    /\ UNCHANGED <<files, disk, last, now, adds, faults>>

\* A file that is gone is no error.
Delete(id) ==
    /\ Begin
    /\ Lookup(id) # 0
    /\ files' = WithoutFiles({mem[Lookup(id)].name})
    /\ acked' = acked \ {mem[Lookup(id)].key}
    /\ mem' = RemoveAt(mem, Lookup(id))
    /\ pc' = "meta"
    /\ call' = [NoCall EXCEPT !.op = "delete"]
    /\ UNCHANGED <<disk, last, now, adds, faults>>

\* No such entry, or its file cannot be removed.
DeleteFails(id) ==
    /\ Begin
    /\ \/ Lookup(id) = 0 /\ UNCHANGED faults /\ Return("not found")
       \/ Lookup(id) # 0 /\ Fault /\ Return("error")
    /\ UNCHANGED <<files, disk, mem, now, adds, acked>>

-----------------------------------------------------------------------------
(* PruneExpired: one pass over the entries.                                *)

PruneExpired ==
    /\ Begin
    /\ call' = [NoCall EXCEPT !.op = "prune", !.at = 1]
    /\ pc' = "prune"
    /\ UNCHANGED <<files, disk, mem, last, now, adds, faults, acked>>

\* Mutant: the state of the entry does not matter.
Expired_AnyState(e) == e.drop <= now

Expired(e) == e.state = "grace" /\ e.drop <= now

PruneStep ==
    /\ pc = "prune"
    /\ call.at <= Len(mem)
    /\ LET e == mem[call.at]
       IN  IF Expired(e)
           THEN /\ files' = WithoutFiles({e.name})
                /\ acked' = acked \ {e.key}
                /\ call' = [call EXCEPT !.at = @ + 1]
           ELSE /\ call' = [call EXCEPT !.at = @ + 1, !.kept = Append(@, e)]
                /\ UNCHANGED <<files, acked>>
    /\ UNCHANGED <<disk, mem, pc, last, now, adds, faults, misused>>

\* A file that cannot be removed ends the pass.  The memory forgets the
\* entries that were pruned; .meta.json still has them.
PruneFails ==
    /\ pc = "prune"
    /\ call.at <= Len(mem)
    /\ Expired(mem[call.at])
    /\ Fault
    /\ mem' = call.kept \o SubSeq(mem, call.at, Len(mem))
    /\ Return("error")
    /\ UNCHANGED <<files, disk, now, adds, acked, misused>>

\* Mutant: .meta.json is left to the next call.
PruneDone_NoPersist ==
    /\ pc = "prune"
    /\ call.at > Len(mem)
    /\ mem' = call.kept
    /\ Return("ok")
    /\ UNCHANGED <<files, disk, now, adds, faults, acked, misused>>

\* Nothing is written if nothing was pruned.
PruneDone ==
    /\ pc = "prune"
    /\ call.at > Len(mem)
    /\ mem' = call.kept
    /\ \/ call.kept = mem /\ Return("ok")
       \/ call.kept # mem /\ pc' = "meta" /\ UNCHANGED <<call, last>>
    /\ UNCHANGED <<files, disk, now, adds, faults, acked, misused>>

-----------------------------------------------------------------------------
Tick ==
    /\ now < MaxTime
    /\ now' = now + 1
    /\ UNCHANGED <<files, disk, mem, pc, call, last, adds, faults, acked, misused>>

Next ==
    \/ Open \/ OpenOrInit \/ Exit
    \/ \E id \in ConfigID :
         \/ Add(id) \/ Delete(id) \/ DeleteFails(id)
         \/ \E state \in State : SetState(id, state)
    \/ AddWriteFile \/ AddWriteFails \/ persistLocked \/ persistFails
    \/ PruneExpired \/ PruneStep \/ PruneFails \/ PruneDone
    \/ Tick

Spec == Init /\ [][Next]_vars

-----------------------------------------------------------------------------
(* Properties.                                                             *)

\* Every variable has its type; a handle that runs no call has no call's variables.
TypeOK ==
    /\ DOMAIN files \subseteq Name
    /\ \A n \in DOMAIN files : files[n] \in Nat
    /\ disk = NoMeta \/ disk \in Seq(Entry)
    /\ mem \in Seq(Entry)
    /\ pc \in {"closed", "idle", "file", "meta", "prune"}
    /\ call \in Call
    /\ call.op = "add" => call.name \in Name
    /\ pc \in {"closed", "idle"} => call = NoCall
    /\ last \in {"ok", "not found", "error"}
    /\ now \in Nat /\ adds \in Nat /\ faults \in Nat
    /\ acked \subseteq Nat
    /\ misused \in BOOLEAN

\* A key whose Add returned no error survives everything but its own deletion:
\* .meta.json has its entry, and the file of that entry has its key, although
\* later calls fail, leave the memory ahead of the disk, or reuse an id within
\* the same second.
AckedDurable ==
    \A key \in acked : \E i \in DOMAIN Entries :
        /\ Entries[i].key = key
        /\ Entries[i].name \in DOMAIN files
        /\ files[Entries[i].name] = key

\* A current or previous entry of .meta.json has its file (R4 of a rotation reads
\* it), whatever failed or crashed, provided that a handle is dropped when a call
\* on it fails.  The entry of an Add that failed stays in the memory of its
\* handle, without a file; the next call that persists would write it.
LiveEntryHasFile ==
    ~misused /\ pc \in {"idle", "closed"} => \A i \in DOMAIN Entries :
        Entries[i].state \in {"current", "previous"} => Entries[i].name \in DOMAIN files

\* A call that returns no error leaves nothing in memory that a crash could lose:
\* with handles dropped on error, memory and disk agree whenever the last call
\* succeeded.
OkIsDurable == ~misused /\ pc = "idle" /\ last = "ok" => mem = disk

\* A private key that no entry refers to costs a fault: no sequence of calls that
\* succeed leaves one behind.
OrphanCostsAFault ==
    Cardinality(DOMAIN files \ (Names(Entries) \cup Names(mem)))
        <= faults + (IF call.op = "add" THEN 1 ELSE 0)

\* The current entry is the newest one, in memory and on disk, and so there is at
\* most one: it is the key that Current() returns and that DNS lists first.
CurrentIsNewest ==
    \A entries \in {mem, Entries} : \A i, j \in DOMAIN entries :
        entries[i].state = "current" => entries[j].key <= entries[i].key
=============================================================================
