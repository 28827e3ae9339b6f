------------------------------ MODULE Settings ------------------------------
(***************************************************************************)
(* What the program makes of its configuration: defaults, validation       *)
(* (internal/config), the provider, the reloader and the rotator built     *)
(* from a domain (cmd/ech-keymgr/helpers.go), and the name of its record.  *)
(*                                                                         *)
(* A text is "", " " (blank) or a word.  A name is the sequence of its     *)
(* labels and whether a dot follows them; "A" and "Z" are capitals.  A     *)
(* period is a number of hours.                                            *)
(***************************************************************************)
EXTENDS Integers, SequencesExt

CONSTANT Compiled    \* the providers of this binary

HostName == [labels : Seq(STRING), dot : BOOLEAN]
DomainConfig ==
    [ fqdn : HostName, zone : HostName, public_name : STRING, keydir : STRING,
      interval : Int, grace : Int, ttl : Int, provider : STRING, ref : STRING,
      strategy : STRING, pid_file : STRING, signal : STRING, command : STRING, unit : STRING ]

Blank(text) == text \in {"", " "}
Or(value, zero, default) == IF value = zero THEN default ELSE value

-----------------------------------------------------------------------------
(* Loading.  credentials: name -> [provider, extra], with the keys of Extra. *)

applyDefaults(d) ==
    LET strategy == Or(d.strategy, "", "signal")
    IN  [d EXCEPT !.interval = Or(@, 0, 3), !.grace = Or(@, 0, 6), !.ttl = Or(@, 0, 300),
                  !.strategy = strategy,
                  !.signal = IF strategy = "signal" THEN Or(@, "", "SIGHUP") ELSE @]

Resolves(d, credentials) == d.ref = "" \/ d.ref \in DOMAIN credentials
Credential(d, credentials) == credentials[d.ref]


ReloadValid(d) ==
    \/ d.strategy = "signal" /\ d.pid_file # ""
    \/ d.strategy = "exec" /\ d.command # ""
    \/ d.strategy = "systemd" /\ d.unit # ""

validateDomain(d, credentials) ==
    /\ d.fqdn.labels # <<>> /\ d.zone.labels # <<>>
    /\ ~Blank(d.public_name) /\ ~Blank(d.keydir) /\ ~Blank(d.provider)
    /\ d.ref # "" => Credential(d, credentials).provider \in {"", d.provider}
    /\ ReloadValid(d)

Loaded(domains) == [i \in DOMAIN domains |-> applyDefaults(domains[i])]

Accepted(domains, credentials) ==
    /\ domains # <<>>
    /\ \A i \in DOMAIN domains : Resolves(domains[i], credentials) /\ validateDomain(domains[i], credentials)
    /\ \A i, j \in DOMAIN domains : domains[i].fqdn = domains[j].fqdn => i = j

-----------------------------------------------------------------------------
(* Building.                                                               *)

\* What New of each provider asks of its credentials; of some it goes on to load or
\* to validate what they name: an edgerc file and its section, a host, an AWS profile.
LoadsFurther == {"akamai", "route53"}
EdgeGrid == {"client_token", "client_secret", "access_token"}
Complete(provider, extra) ==
    CASE provider = "cloudflare" -> "api_token" \in extra
      [] provider = "powerdns"   -> {"api_url", "api_key"} \subseteq extra
      [] provider = "route53"    -> /\ "hosted_zone_id" \in extra
                                    /\ "access_key_id" \in extra <=> "secret_access_key" \in extra
      [] provider = "akamai"     -> \/ "edgerc_path" \in extra /\ "host" \notin extra
                                    \/ "host" \in extra /\ "edgerc_path" \notin extra /\ EdgeGrid \subseteq extra
      [] OTHER                   -> TRUE

Extra(d, credentials) == IF d.ref = "" THEN {} ELSE Credential(d, credentials).extra
buildProvider(d, credentials) ==
    d.provider \in Compiled /\ Complete(d.provider, Extra(d, credentials))

Signals == {"HUP", "USR1", "USR2", "TERM", "QUIT", "INT"}
parseSignal(name) == Blank(name) \/ name \in Signals \cup {"SIG" \o s : s \in Signals}

buildReloader(d) ==
    \/ d.strategy = "signal" /\ d.pid_file # "" /\ parseSignal(d.signal)
    \/ d.strategy = "exec" /\ d.command # ""
    \/ d.strategy = "systemd" /\ d.unit # ""

newRotator(d) == d.fqdn.labels # <<>> /\ d.zone.labels # <<>> /\ d.public_name # ""

buildRotator(d, credentials) ==
    buildProvider(d, credentials) /\ buildReloader(d) /\ newRotator(d)

\* Mutant: the ticker takes the interval as it is.
TickerInterval_AsIs(d) == d.interval

\* The daemon's last line of defence: NewTicker panics unless it is positive.
TickerInterval(d) == IF d.interval <= 0 THEN 3 ELSE d.interval

-----------------------------------------------------------------------------
(* Names.                                                                  *)

Apex == <<"@">>
LowerLabel(l) == IF l = "A" THEN "a" ELSE IF l = "Z" THEN "z" ELSE l
ToLower(labels) == [i \in DOMAIN labels |-> LowerLabel(labels[i])]

\* Without the dot at the end, in lower case.
Canonical(name) == ToLower(name.labels)

\* What the rotator, init and verify hand to the provider.
relName(fqdn, zone) ==
    LET f == Canonical(fqdn)
        z == Canonical(zone)
    IN  IF f = z THEN Apex
        ELSE IF IsSuffix(z, f) THEN SubSeq(f, 1, Len(f) - Len(z)) ELSE f

\* Mutant: "@" is a name like any other.
OwnerName_NoApex(name, zone) ==
    IF IsSuffix(Canonical(zone), ToLower(name)) THEN ToLower(name) ELSE ToLower(name) \o Canonical(zone)

\* What the provider makes of it (fqdn, pdnsName, key).  A relative name that
\* ends in the labels of the zone is taken for an absolute one.
OwnerName(name, zone) ==
    LET z == Canonical(zone)
    IN  IF name \in {<<>>, Apex} THEN z
        ELSE IF IsSuffix(z, ToLower(name)) THEN ToLower(name)
        ELSE ToLower(name) \o z

Owner(d) == OwnerName(relName(d.fqdn, d.zone), d.zone)
InZone(d) == IsSuffix(Canonical(d.zone), Canonical(d.fqdn))

\* The relative name is one that the provider reads as something else.
Ambiguous(d) ==
    LET f == Canonical(d.fqdn)
        z == Canonical(d.zone)
    IN  IsSuffix(z \o z, f) \/ f = Apex \o z

\* findDomain: the first domain of that name, whatever its case; 0 if none.
findDomain(domains, fqdn) ==
    SelectInSeq(domains, LAMBDA d : d.fqdn.dot = fqdn.dot /\ Canonical(d.fqdn) = Canonical(fqdn))
=============================================================================
