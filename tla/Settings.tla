------------------------------ MODULE Settings ------------------------------
(***************************************************************************)
(* src/src/config.rs: what parse_yaml makes of a YAML document, and        *)
(* merge_settings, which joins it with the command line and the defaults.  *)
(*                                                                         *)
(* A document maps its keys to values [type, value].  An Option is a       *)
(* sequence of at most one element, so a.or(b) is the head of a \o b and   *)
(* unwrap_or(d) appends d at the end.                                      *)
(***************************************************************************)
EXTENDS Naturals, Sequences, SequencesExt

CONSTANTS
    Addr,             \* IP addresses
    Loopback,         \* IpAddr::is_loopback
    DefaultListen,    \* DEFAULT_LISTEN
    DefaultHosts,     \* default_hosts_path()
    DefaultRefresh,   \* DEFAULT_REFRESH_SECS
    DefaultKeys       \* the spellings of "default"

ASSUME AddrAssumption == Loopback \subseteq Addr /\ DefaultListen \in Loopback
ASSUME RefreshAssumption == DefaultRefresh \in Nat \ {0}

Err == [ok |-> FALSE]
None == <<>>
IsOption(o, S) == o \in Seq(S) /\ Len(o) <= 1

\* HostsSetting::Disabled; HostsSetting::Path is the path.
Disabled == "HostsSetting::Disabled"

-----------------------------------------------------------------------------
(***************************************************************************)
(* parse_yaml.                                                             *)
(***************************************************************************)

Required == {"proxies", "rules"}
Field == {"listen", "hosts", "refresh", "http"} \cup Required

\* An optional key that is absent, or null, is None.
Present(y, f) == f \in DOMAIN y /\ y[f].type # "null"
Optional(y, f) == IF Present(y, f) THEN <<y[f].value>> ELSE None

\* HostsVisitor: a path that is not empty, or false.
HostsFits(v) == (v.type = "str" /\ v.value # "") \/ (v.type = "bool" /\ ~v.value)
HostsSetting(y) ==
    IF Present(y, "hosts") /\ y["hosts"].type = "bool" THEN <<Disabled>> ELSE Optional(y, "hosts")

\* ProxyRefVisitor: a name, or a list of names, none of them empty.
Names(v) == IF v.type = "str" THEN <<v.value>> ELSE v.value
ProxyRefFits(v) ==
    v.type \in {"str", "seq"} /\ Names(v) # <<>> /\ \A i \in DOMAIN Names(v) : Names(v)[i] # ""

\* The value of key f has the type the field has.
Fits(f, v) ==
    \/ f = "listen" /\ v.type = "str" /\ v.value \in Addr
    \/ f = "refresh" /\ v.type = "int" /\ v.value \in Nat
    \/ f = "http" /\ v.type = "bool"
    \/ f = "hosts" /\ HostsFits(v)
    \/ f = "proxies" /\ v.type = "map" /\ \A n \in DOMAIN v.value : v.value[n].type = "str"
    \/ f = "rules" /\ v.type = "map" /\ \A k \in DOMAIN v.value : ProxyRefFits(v.value[k])

\* serde: no unknown key, none missing, every value of the right type.
Deserializes(y) ==
    /\ DOMAIN y \subseteq Field /\ Required \subseteq DOMAIN y
    /\ \A f \in DOMAIN y : (f \notin Required /\ ~Present(y, f)) \/ Fits(f, y[f])

\* FileConfig of a document.
FileConfig(y) ==
    [ok |-> TRUE, listen |-> Optional(y, "listen"), hosts |-> HostsSetting(y),
     refresh |-> Optional(y, "refresh"), http |-> Optional(y, "http"),
     proxies |-> [n \in DOMAIN y["proxies"].value |-> y["proxies"].value[n].value],
     rules |-> [k \in DOMAIN y["rules"].value |-> Names(y["rules"].value[k])]]

ParseYaml(y) ==
    IF /\ Deserializes(y)
       /\ DOMAIN y["proxies"].value # {} /\ "" \notin DOMAIN y["proxies"].value
       /\ DOMAIN y["rules"].value \cap DefaultKeys # {}
    THEN FileConfig(y) ELSE Err

-----------------------------------------------------------------------------
(***************************************************************************)
(* merge_settings.                                                         *)
(***************************************************************************)

\* hosts_path: --no-hosts, --hosts, the YAML, the default.
HostsChosen(yaml, cli) ==
    IF cli.noHosts THEN Disabled ELSE Head(cli.hosts \o yaml.hosts \o <<DefaultHosts>>)

HostsPath(yaml, cli) == IF HostsChosen(yaml, cli) = Disabled THEN None ELSE <<HostsChosen(yaml, cli)>>

\* Mutant of Listen: the YAML before the command line.
ListenYamlFirst(yaml, cli) == Head(yaml.listen \o cli.listen \o <<DefaultListen>>)

Listen(yaml, cli) == Head(cli.listen \o yaml.listen \o <<DefaultListen>>)
Refresh(yaml, cli) == Head(cli.refresh \o yaml.refresh \o <<DefaultRefresh>>)

MergeSettings(yaml, cli) ==
    IF Listen(yaml, cli) \notin Loopback \/ Refresh(yaml, cli) = 0 THEN Err
    ELSE [ok |-> TRUE, listen |-> Listen(yaml, cli), refresh |-> Refresh(yaml, cli),
          http |-> ~cli.noHttp /\ Head(yaml.http \o <<TRUE>>),
          hostsPath |-> HostsPath(yaml, cli)]
=============================================================================
