------------------------------ MODULE MCCollector ------------------------------
\* Values of Collector's constants for TLC.
EXTENDS Collector

\* Two nodes, and one command of each kind.
TwoNodes == <<"a", "b">>
ThreeCommands == <<"hostname", "gpu", "ping">>

\* The commands of _build_commands; the unit of time is ten seconds, so the
\* defaults 10 s, 30 s and 5 minutes are 1, 3 and 30.
OneNode == <<"a">>
AllCommands == <<"hostname", "hostname_fqdn", "ip_addr", "os_release", "uname", "machine_id",
                 "gpu", "df", "memory", "load", "uptime", "cpu", "ping">>

=============================================================================
