------------------------------- MODULE Daemon -------------------------------
(***************************************************************************)
(* The commands that rotate: `daemon`, one loop per domain until a signal  *)
(* cancels the context, and `rotate`, one domain after the other.  Of the  *)
(* rotation there is what the context can interrupt: calls to the server   *)
(* and to the DNS provider, the sleep, and the local steps between them.   *)
(***************************************************************************)
EXTENDS Settings, FiniteSets

CONSTANTS
    Raw,           \* configuration files: [domains, credentials]
    Silent,        \* providers that never answer
    MaxRequests    \* bound: requests that one publication makes

\* A publication reads before it writes.
ASSUME DaemonAssumption ==
    /\ \A raw \in Raw : raw.domains \in Seq(DomainConfig)
    /\ MaxRequests \in Nat \ {0, 1}

VARIABLES
    domains,     \* the domains of the file, with their defaults
    creds,       \* its credentials
    cmd,         \* "daemon" or "rotate"
    main,        \* "load", "run", "exit 0", "exit 1", "killed" or "panic"
    todo,        \* rotate: the domains it was asked to rotate
    turn,        \* rotate: how many of them it has started with
    cancelled,   \* a signal has cancelled the daemon's context
    loop,        \* each domain: "none", "rotate", "wait" or "returned"
    step,        \* where its rotation stands
    sent,        \* the requests the step has begun
    calling,     \* it waits for the answer to the last of them
    tick,        \* the ticker's channel holds a tick
    last,        \* how its last rotation ended: "none", "ok" or "failed"
    owner,       \* where its record was last written
    underway,    \* history: that request had begun when the signal came
    late         \* history: what was carried out outside after the signal

mainVars == <<domains, creds, cmd, main, todo, turn, cancelled>>
callVars == <<sent, calling, underway>>
effectVars == <<owner, late>>
vars == <<mainVars, callVars, effectVars, loop, step, tick, last>>

Domains == DOMAIN domains
Cmds == {"daemon", "rotate"}
Steps == {"none", "build", "R1", "R3", "R4", "R5", "R6", "R7", "R9"}

Init ==
    /\ \E raw \in Raw : domains = Loaded(raw.domains) /\ creds = raw.credentials
    /\ cmd \in Cmds
    /\ main = "load" /\ todo = <<>> /\ turn = 0 /\ cancelled = FALSE
    /\ loop = [i \in Domains |-> "none"] /\ step = [i \in Domains |-> "none"]
    /\ sent = [i \in Domains |-> 0] /\ calling = [i \in Domains |-> FALSE]
    /\ tick = [i \in Domains |-> FALSE]
    /\ last = [i \in Domains |-> "none"] /\ owner = [i \in Domains |-> <<>>]
    /\ underway = [i \in Domains |-> FALSE] /\ late = [i \in Domains |-> 0]

-----------------------------------------------------------------------------
(* Starting.                                                               *)

loadRefused ==
    /\ main = "load" /\ ~Accepted(domains, creds)
    /\ main' = "exit 1"
    /\ UNCHANGED <<domains, creds, cmd, todo, turn, cancelled, loop, step, callVars, tick, last, effectVars>>

doDaemon ==
    /\ main = "load" /\ cmd = "daemon" /\ Accepted(domains, creds)
    /\ main' = "run"
    /\ loop' = [i \in Domains |-> "rotate"]
    /\ step' = [i \in Domains |-> "build"]
    /\ UNCHANGED <<domains, creds, cmd, todo, turn, cancelled, callVars, tick, last, effectVars>>

\* All domains, or the one that is named.
doRotate ==
    /\ main = "load" /\ cmd = "rotate" /\ Accepted(domains, creds)
    /\ \/ todo' = [i \in Domains |-> i]
       \/ \E i \in Domains : todo' = <<findDomain(domains, domains[i].fqdn)>>
    /\ main' = "run"
    /\ UNCHANGED <<domains, creds, cmd, turn, cancelled, loop, step, callVars, tick, last, effectVars>>

rotateNext ==
    /\ main = "run" /\ cmd = "rotate" /\ turn < Len(todo)
    /\ \A i \in Domains : step[i] = "none"
    /\ turn' = turn + 1
    /\ step' = [step EXCEPT ![todo[turn']] = "build"]
    /\ UNCHANGED <<domains, creds, cmd, main, todo, cancelled, loop, callVars, tick, last, effectVars>>

\* Mutant: the exit status is that of the last rotation.
Failed_LastOnly == last[todo[Len(todo)]] = "failed"
Failed == \E i \in Domains : last[i] = "failed"

exit ==
    /\ main = "run"
    /\ IF cmd = "daemon" THEN \A i \in Domains : loop[i] = "returned"
                         ELSE turn = Len(todo) /\ \A i \in Domains : step[i] = "none"
    /\ main' = IF cmd = "rotate" /\ Failed THEN "exit 1" ELSE "exit 0"
    /\ UNCHANGED <<domains, creds, cmd, todo, turn, cancelled, loop, step, callVars, tick, last, effectVars>>

\* SIGINT or SIGTERM: `rotate` does not handle it.
Signal ==
    /\ main = "run" /\ ~cancelled
    /\ cancelled' = (cmd = "daemon")
    /\ main' = IF cmd = "daemon" THEN main ELSE "killed"
    /\ underway' = calling
    /\ UNCHANGED <<domains, creds, cmd, todo, turn, loop, step, sent, calling, tick, last, effectVars>>

-----------------------------------------------------------------------------
(* One rotation.                                                           *)

Running(i) == main = "run" /\ step[i] # "none"

NotCalling(i) ==
    /\ calling' = [calling EXCEPT ![i] = FALSE]
    /\ underway' = [underway EXCEPT ![i] = FALSE]

\* The daemon's ticker starts after the first rotation, and a tick may be
\* waiting already after a later one.
Return(i, outcome) ==
    /\ step' = [step EXCEPT ![i] = "none"]
    /\ sent' = [sent EXCEPT ![i] = 0] /\ NotCalling(i)
    /\ last' = [last EXCEPT ![i] = outcome]
    /\ loop' = IF cmd = "daemon" THEN [loop EXCEPT ![i] = "wait"] ELSE loop
    /\ main' = IF cmd = "daemon" /\ TickerInterval(domains[i]) <= 0 THEN "panic" ELSE main
    /\ UNCHANGED <<domains, creds, cmd, todo, turn, cancelled, tick>>

Following == [build |-> "R1", R1 |-> "R3", R3 |-> "R4", R4 |-> "R5",
              R5 |-> "R6", R6 |-> "R7", R7 |-> "R9"]
Advance(i) ==
    /\ step' = [step EXCEPT ![i] = Following[@]]
    /\ sent' = [sent EXCEPT ![i] = 0] /\ NotCalling(i)
    /\ UNCHANGED <<mainVars, loop, tick, last>>

\* What the credentials name outside the file may be missing or unreadable.
rotateOne(i) ==
    /\ Running(i) /\ step[i] = "build"
    /\ \/ buildRotator(domains[i], creds) /\ Advance(i)
       \/ ~buildRotator(domains[i], creds) /\ Return(i, "failed")
       \/ domains[i].provider \in LoadsFurther /\ Return(i, "failed")
    /\ UNCHANGED effectVars

\* R1 and R2, R7 and R8: no step of them looks at the context.
Local(i) ==
    /\ Running(i) /\ step[i] \in {"R1", "R7"}
    /\ Advance(i)
    /\ UNCHANGED effectVars

\* A reload is one command or signal; a publication is several requests, of which
\* the first one reads and the later ones may write.
Reloads == {"R3", "R9"}
Publishes == {"R4", "R6"}
Outside == Reloads \cup Publishes
Requests(i) == IF step[i] \in Reloads THEN 1 ELSE MaxRequests

\* Mutant: the context is asked before the first request of a publication only.
call_FirstOnly(i) ==
    /\ Running(i) /\ step[i] \in Outside /\ ~calling[i]
    /\ sent[i] < Requests(i)
    /\ sent[i] = 0 => ~cancelled
    /\ sent' = [sent EXCEPT ![i] = @ + 1]
    /\ calling' = [calling EXCEPT ![i] = TRUE]
    /\ UNCHANGED <<mainVars, loop, step, underway, tick, last, effectVars>>

\* A reload, or the next request: none starts under a cancelled context.
call(i) ==
    /\ Running(i) /\ step[i] \in Outside /\ ~calling[i]
    /\ sent[i] < Requests(i)
    /\ ~cancelled
    /\ sent' = [sent EXCEPT ![i] = @ + 1]
    /\ calling' = [calling EXCEPT ![i] = TRUE]
    /\ UNCHANGED <<mainVars, loop, step, underway, tick, last, effectVars>>

\* The request under way reloads the server, or writes.
CarriedOut(i) ==
    /\ calling[i]
    /\ step[i] \in Reloads \/ sent[i] > 1
    /\ owner' = IF step[i] \in Publishes THEN [owner EXCEPT ![i] = Owner(domains[i])] ELSE owner
    /\ late' = IF cancelled THEN [late EXCEPT ![i] = @ + 1] ELSE late

\* It fails before it is carried out, or it only reads.
NoEffect == UNCHANGED effectVars

Done(i) == IF step[i] = "R9" THEN Return(i, "ok") ELSE Advance(i)

\* Another request follows.
Continue(i) ==
    /\ sent[i] < Requests(i)
    /\ NotCalling(i)
    /\ UNCHANGED <<mainVars, loop, step, sent, tick, last>>

Answers(i) == step[i] \in Reloads \/ domains[i].provider \notin Silent
answer(i) ==
    /\ Running(i) /\ calling[i] /\ Answers(i)
    /\ \/ CarriedOut(i) /\ (Done(i) \/ Continue(i))
       \/ step[i] \in Publishes /\ NoEffect /\ Continue(i)

\* Mutant: requests are not bound to the context.
cancelCall_Unbound(i) ==
    /\ Running(i) /\ step[i] \in Outside /\ cancelled /\ ~calling[i]
    /\ Return(i, "failed")
    /\ NoEffect

\* The context ends a request, and refuses one; the one under way may have been
\* carried out.
cancelCall(i) ==
    /\ Running(i) /\ step[i] \in Outside /\ cancelled
    /\ Return(i, "failed")
    /\ NoEffect \/ CarriedOut(i)

\* R5: the timer, or the context.
Sleep(i) ==
    /\ Running(i) /\ step[i] = "R5"
    /\ \/ Advance(i)
       \/ cancelled /\ Return(i, "failed")
    /\ UNCHANGED effectVars

\* Any other error; a request that failed may have been carried out.
Fail(i) ==
    /\ Running(i) /\ step[i] # "R5"
    /\ calling[i] => Answers(i)
    /\ Return(i, "failed")
    /\ NoEffect \/ CarriedOut(i)

-----------------------------------------------------------------------------
(* The daemon's loop.                                                      *)

\* Mutant: one rotation at a time.
mayRotate_Alone(i) == \A j \in Domains : step[j] = "none"
mayRotate(i) == step[i] = "none"

\* The channel holds one tick; further ones are dropped.
Tick(i) ==
    /\ main = "run" /\ cmd = "daemon"
    /\ loop[i] = "wait" \/ (loop[i] = "rotate" /\ last[i] # "none")
    /\ ~tick[i]
    /\ tick' = [tick EXCEPT ![i] = TRUE]
    /\ UNCHANGED <<mainVars, loop, step, callVars, last, effectVars>>

\* The select takes either channel when both are ready.
selectTick(i) ==
    /\ main = "run" /\ loop[i] = "wait" /\ tick[i] /\ mayRotate(i)
    /\ tick' = [tick EXCEPT ![i] = FALSE]
    /\ loop' = [loop EXCEPT ![i] = "rotate"]
    /\ step' = [step EXCEPT ![i] = "build"]
    /\ UNCHANGED <<mainVars, callVars, last, effectVars>>

selectDone(i) ==
    /\ main = "run" /\ loop[i] = "wait" /\ cancelled
    /\ loop' = [loop EXCEPT ![i] = "returned"]
    /\ UNCHANGED <<mainVars, step, callVars, tick, last, effectVars>>

-----------------------------------------------------------------------------

\* `init`, run by hand, writes where its own relName says.
doInit(i) ==
    /\ main = "run" /\ buildProvider(domains[i], creds) /\ owner[i] = <<>>
    /\ owner' = [owner EXCEPT ![i] = Owner(domains[i])]
    /\ UNCHANGED <<mainVars, loop, step, callVars, tick, last, late>>

Stopped == main \notin {"load", "run"} /\ UNCHANGED vars

Rotation(i) ==
    rotateOne(i) \/ Local(i) \/ call(i) \/ answer(i) \/ cancelCall(i) \/ Sleep(i) \/ Fail(i)
Loop(i) == Tick(i) \/ selectTick(i) \/ selectDone(i)

Next ==
    \/ loadRefused \/ doDaemon \/ doRotate \/ rotateNext \/ exit \/ Signal
    \/ \E i \in Domains : Rotation(i) \/ Loop(i) \/ doInit(i)
    \/ Stopped

Spec == Init /\ [][Next]_vars

\* Steps of this process are taken, ticks come, and a select that finds both
\* channels ready again and again takes each of them some time.
FairSpec ==
    /\ Spec
    /\ WF_vars(loadRefused \/ doDaemon \/ doRotate \/ rotateNext \/ exit)
    /\ \A i \in 1 .. 2 :
          /\ WF_vars(i \in Domains /\ Rotation(i))
          /\ WF_vars(i \in Domains /\ Tick(i))
          /\ WF_vars(i \in Domains /\ (selectTick(i) \/ selectDone(i)))
          /\ SF_vars(i \in Domains /\ selectDone(i))

-----------------------------------------------------------------------------
(* Properties.                                                             *)

\* What the daemon still does to a server or to DNS after the signal is, for each
\* domain, at most the one request that the signal found under way: a publication
\* is cut off between its requests, and a rotation that the select begins after the
\* signal reaches neither.
OnlyTheCallUnderWay ==
    [][\A i \in Domains : late'[i] # late[i] => underway[i] /\ late'[i] = 1]_vars

\* Every loop returns after the signal, also one whose provider never answers.
ShutdownEnds == cancelled ~> main = "exit 0"

\* A provider that never answers does not keep the daemon from rotating the others.
OthersKeepRotating ==
    \A i \in 1 .. 2 :
        (main = "run" /\ cmd = "daemon" /\ i \in Domains /\ domains[i].provider \notin Silent)
            ~> (i \in Domains /\ step[i] = "build") \/ cancelled


\* The record is the one at record_fqdn, for every spelling of it and of the zone
\* that contains it, except for names like a.z.z in the zone z: what is left of it
\* without the zone ends in the zone again, and passes for an absolute name.
PublishesAtRecord ==
    \A i \in Domains :
        InZone(domains[i]) /\ ~Ambiguous(domains[i])
            => owner[i] \in {<<>>, Canonical(domains[i].fqdn)}

\* `rotate` reports success only if it has rotated every domain it was asked for.
ExitStatusTells ==
    (cmd = "rotate" /\ main = "exit 0") => \A n \in DOMAIN todo : last[todo[n]] = "ok"
=============================================================================
