------------------------------ MODULE MCDaemon ------------------------------
EXTENDS Daemon, TLC

Host(labels, dot) == [labels |-> labels, dot |-> dot]

Base == [ fqdn |-> Host(<<"a", "z">>, FALSE), zone |-> Host(<<"z">>, FALSE), public_name |-> "p", keydir |-> "k",
          interval |-> 0, grace |-> 0, ttl |-> 0, provider |-> "cloudflare", ref |-> "cf",
          strategy |-> "", pid_file |-> "f", signal |-> "", command |-> "", unit |-> "" ]

\* Differs from the plain one in the case of its name, and lacks its token.
Other == [Base EXCEPT !.fqdn = Host(<<"A", "z">>, FALSE), !.keydir = "l", !.ref = ""]

Credentials ==
    "cf"   :> [provider |-> "cloudflare", extra |-> {"api_token"}] @@
    "r53"  :> [provider |-> "", extra |-> {"hosted_zone_id", "access_key_id"}] @@
    "aws"  :> [provider |-> "route53", extra |-> {"hosted_zone_id"}] @@
    "edge" :> [provider |-> "akamai", extra |-> {"edgerc_path"}] @@
    "both" :> [provider |-> "akamai", extra |-> {"edgerc_path", "host"} \cup EdgeGrid] @@
    "pdns" :> [provider |-> "powerdns", extra |-> {"api_url", "api_key"}]

Single ==
    { Base,
      [Base EXCEPT !.pid_file = ""],
      [Base EXCEPT !.strategy = "exec"],
      [Base EXCEPT !.strategy = "systemd", !.unit = "nginx", !.ref = "r53", !.provider = "route53"],
      [Base EXCEPT !.strategy = "exec", !.command = "reload", !.ref = "edge", !.provider = "akamai",
                   !.interval = -1, !.fqdn = Host(<<"A", "b", "z">>, TRUE), !.zone = Host(<<"b", "Z">>, FALSE)],
      [Base EXCEPT !.ref = "both", !.provider = "akamai"],
      [Base EXCEPT !.ref = "pdns", !.provider = "powerdns", !.fqdn = Host(<<"Z">>, FALSE),
                   !.zone = Host(<<"z">>, TRUE), !.signal = "USR2"],
      [Base EXCEPT !.signal = "SIGHUPP"],
      [Base EXCEPT !.strategy = "restart"],
      [Base EXCEPT !.ref = "pdns"],
      [Base EXCEPT !.ref = "lost"],
      [Base EXCEPT !.ref = ""],
      [Base EXCEPT !.ref = "", !.provider = "mock"],
      [Base EXCEPT !.public_name = " "],
      [Base EXCEPT !.fqdn = Host(<<"a", "y">>, FALSE)],
      [Base EXCEPT !.fqdn = Host(<<"a", "Z", "z">>, FALSE)] }

SilentOne == [Base EXCEPT !.keydir = "l", !.provider = "route53", !.ref = "aws", !.fqdn = Host(<<"b", "z">>, FALSE)]

File(list) == [domains |-> list, credentials |-> Credentials]

MCRaw == {File(<<d>>) : d \in Single} \cup {File(<<>>), File(<<Other, Base>>), File(<<Base, SilentOne>>), File(<<Base, Base>>)}
MCCompiled == {"cloudflare", "route53", "akamai", "powerdns"}
=============================================================================
