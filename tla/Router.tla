------------------------------- MODULE Router -------------------------------
(***************************************************************************)
(* Runtime::from_yaml, Router::lookup and routing_fingerprint of           *)
(* src/src/router.rs, and ProxyConfig::parse of src/src/proxy.rs.  The     *)
(* rules of a config are a HashMap: from_yaml and routing_fingerprint walk *)
(* it in an order that is arbitrary, the same for one parsed config and    *)
(* new each time the text is parsed.  Two configs are built one after the  *)
(* other here, as two polls do.                                            *)
(***************************************************************************)
EXTENDS Target

CONSTANTS
    Key,         \* the keys of rules
    Rank,        \* where a lower-case key sorts
    DefaultKey,  \* "default"
    HostKey,     \* the keys that are host names
    Proxy,       \* proxy names
    Yaml,        \* configs parse_yaml accepts: [proxies, rules]
    Written,     \* [text, host, port]: a Host header and what it means
    DefaultPort  \* of the listener

\* rules : key -> list of proxy names; proxies : name -> URL.
\* parse_yaml has seen to it that there is a proxy and a default.
ASSUME YamlAssumption ==
    \A y \in Yaml :
        /\ DOMAIN y.proxies \subseteq Proxy /\ y.proxies # <<>>
        /\ DOMAIN y.rules \subseteq Key
        /\ \A k \in DOMAIN y.rules : y.rules[k] \in Seq(Proxy)
        /\ \E k \in DOMAIN y.rules : Lower(k) = DefaultKey

ASSUME WrittenAssumption == \A w \in Written : w.text \in Seq(STRING)

\* Strings are ordered: two of them sort to the same place only if they are one.
ASSUME RankAssumption ==
    /\ \A k \in Key : Rank[Lower(k)] \in Nat
    /\ \A k, l \in Key : Rank[Lower(k)] = Rank[Lower(l)] => Lower(k) = Lower(l)

VARIABLES
    pc,         \* "proxies", "rules", "ready"
    yaml,       \* the config
    order,      \* the keys walked so far
    rules,      \* Router::rules, from lower-case names
    default,    \* default
    hostnames,  \* hostnames
    built       \* the results, oldest first

vars == <<pc, yaml, order, rules, default, hostnames, built>>

NoHops == <<Err>>    \* Option::None

Init ==
    /\ pc = "proxies"
    /\ yaml \in Yaml
    /\ order = <<>>
    /\ rules = <<>>
    /\ default = NoHops
    /\ hostnames = <<>>
    /\ built = <<>>

\* ProxyConfig::parse.  A URL is [scheme, host, port], host and port of at most
\* one element, or Err if Url::parse refuses it.
KnownPort == [http |-> <<80>>, https |-> <<443>>, socks5 |-> <<>>]
ParseProxy(u) ==
    IF /\ u # Err /\ u.scheme \in DOMAIN KnownPort
       /\ u.host # <<>> /\ u.port \o KnownPort[u.scheme] # <<>>
    THEN [ok |-> TRUE, kind |-> u.scheme, host |-> u.host, port |-> Head(u.port \o KnownPort[u.scheme])]
    ELSE Err

Todo == DOMAIN yaml.rules \ ToSet(order)

IsDefault(k) == Lower(k) = DefaultKey

\* resolve: every proxy of the list is known.
Resolves(k) == ToSet(yaml.rules[k]) \subseteq DOMAIN yaml.proxies
Hops(y, k) == [i \in DOMAIN y.rules[k] |->
                  [name |-> y.rules[k][i], proxy |-> ParseProxy(y.proxies[y.rules[k][i]])]]

Return(r) ==
    /\ built' = Append(built, r)
    /\ pc' = "ready"

\* ProxyConfig::parse of every URL, or the error of one.
ParseProxies ==
    /\ pc = "proxies"
    /\ IF \A p \in DOMAIN yaml.proxies : ParseProxy(yaml.proxies[p]).ok
       THEN pc' = "rules" /\ UNCHANGED built
       ELSE Return(Err)
    /\ UNCHANGED <<yaml, order, rules, default, hostnames>>

\* f with x mapped to v.
Insert(f, x, v) == [y \in DOMAIN f \cup {x} |-> IF y = x THEN v ELSE f[y]]

\* The next rule of the walk: the default, a host, or an error.
WalkRule(k) ==
    /\ pc = "rules" /\ k \in Todo
    /\ order' = Append(order, k)
    /\ \/ /\ IsDefault(k) /\ Resolves(k)
          /\ default' = Hops(yaml, k)
          /\ UNCHANGED <<pc, rules, hostnames, built>>
       \/ /\ ~IsDefault(k) /\ IsValidHostname(k) /\ Resolves(k)
          /\ rules' = Insert(rules, Lower(k), Hops(yaml, k))
          /\ hostnames' = IF \E i \in DOMAIN hostnames : Lower(hostnames[i]) = Lower(k)
                          THEN hostnames ELSE Append(hostnames, k)
          /\ UNCHANGED <<pc, default, built>>
       \/ /\ ~Resolves(k) \/ (~IsDefault(k) /\ ~IsValidHostname(k))
          /\ Return(Err)
          /\ UNCHANGED <<rules, default, hostnames>>
    /\ UNCHANGED yaml

\* A stable sort of keys by their lower-case form: the keys that come before
\* the one at place i, and the keys in that order.
Ahead(s, i) ==
    {j \in DOMAIN s : \/ Rank[Lower(s[j])] < Rank[Lower(s[i])]
                      \/ Rank[Lower(s[j])] = Rank[Lower(s[i])] /\ j < i}
SortKeys(s) == [n \in DOMAIN s |-> s[CHOOSE i \in DOMAIN s : Cardinality(Ahead(s, i)) = n - 1]]

SortedRules(y, walk) ==
    LET keys == SortKeys(walk)
    IN  [n \in DOMAIN walk |-> <<Lower(keys[n]), y.rules[keys[n]]>>]

\* Mutant of RoutingFingerprint: the URLs are not hashed.
FingerprintOfNames(y, walk) == [proxies |-> DOMAIN y.proxies, rules |-> SortedRules(y, walk)]

\* What is hashed: the proxies by name, the rules by lower-case name.
RoutingFingerprint(y, walk) == [proxies |-> y.proxies, rules |-> SortedRules(y, walk)]

\* The walk is over: the default is there and not empty, hostnames is sorted.
Finish ==
    /\ pc = "rules" /\ Todo = {}
    /\ Return(IF default \in {NoHops, <<>>} THEN Err
              ELSE [ok |-> TRUE, yaml |-> yaml, rules |-> rules, default |-> default,
                    hostnames |-> SortKeys(hostnames),
                    fingerprint |-> RoutingFingerprint(yaml, order)])
    /\ UNCHANGED <<yaml, order, rules, default, hostnames>>

\* The next poll parses a text again, the same one or another.
NextPoll(y) ==
    /\ pc = "ready" /\ Len(built) < 2
    /\ pc' = "proxies" /\ yaml' = y
    /\ order' = <<>> /\ rules' = <<>> /\ default' = NoHops /\ hostnames' = <<>>
    /\ UNCHANGED built

Next ==
    \/ ParseProxies \/ Finish
    \/ \E k \in Key : WalkRule(k)
    \/ \E y \in Yaml : NextPoll(y)

Spec == Init /\ [][Next]_vars

\* Mutant of TrimDots: the name is taken as it is.
KeepDots(h) == h

\* trim_end_matches('.').
TrimDots(h) == SubSeq(h, 1, Len(h) - Cardinality({i \in DOMAIN h : \A j \in i..Len(h) : h[j] = "."}))

\* Router::lookup of a built runtime.
Lookup(r, host) ==
    LET h == Lower(TrimDots(host)) IN IF h \in DOMAIN r.rules THEN r.rules[h] ELSE r.default

\* What the HTTP reader makes of each Host header.
Requests == {[meant |-> w, target |-> ParseHostPort(w.text, DefaultPort)] : w \in Written}

-----------------------------------------------------------------------------
(***************************************************************************)
(* Properties.                                                             *)
(***************************************************************************)

\* No two keys differ in case only.
Distinct(y) == \A k, l \in DOMAIN y.rules : Lower(k) = Lower(l) => k = l

\* Whether a config is accepted does not depend on the order of the walk: it
\* is, if and only if all URLs, host names and references are good and the
\* default is not empty.
Acceptable(y) ==
    /\ \A p \in DOMAIN y.proxies : ParseProxy(y.proxies[p]).ok
    /\ \A k \in DOMAIN y.rules :
          /\ ToSet(y.rules[k]) \subseteq DOMAIN y.proxies
          /\ IsDefault(k) \/ k \in HostKey
AcceptedIffGood ==
    (pc = "ready" /\ Distinct(yaml)) =>
        (Last(built).ok <=> Acceptable(yaml)
                            /\ \A k \in DOMAIN yaml.rules : IsDefault(k) => yaml.rules[k] # <<>>)

\* A request is routed by the rule of the host it means, in whatever case, with
\* whatever dots, port and brackets its Host header writes it, through the
\* proxies that rule names, and by the default if there is no rule; the target
\* that goes to the proxy means the same host and port.  The managed block
\* sends every host with a rule here, once.
Route(host) ==
    LET spelled == {k \in DOMAIN yaml.rules : Lower(k) = host}
        meant == IF spelled = {} THEN {k \in DOMAIN yaml.rules : IsDefault(k)} ELSE spelled
    IN  {Hops(yaml, k) : k \in meant}
Spells(text, host) ==
    \E n \in 0..Len(text) :
        /\ \A i \in (n + 1)..Len(text) : text[i] = "."
        /\ n = 0 \/ text[n] # "."
        /\ Lower(SubSeq(text, 1, n)) = host
ReadsAsMeant ==
    \A q \in Requests :
        /\ q.target.ok <=> q.meant.port >= 0
        /\ q.target.ok => /\ Spells(q.target.host, q.meant.host)
                          /\ q.target.port = q.meant.port
                          /\ ParseHostPort(FormatTarget(q.target), DefaultPort) = q.target
Asked == {<<q.target.host, q.meant.host>> : q \in {q \in Requests : q.target.ok}}
RoutesAsWritten ==
    (pc = "ready" /\ Last(built).ok) =>
        LET r == Last(built)
        IN  /\ ReadsAsMeant /\ \A a \in Asked : Lookup(r, a[1]) \in Route(a[2])
            /\ {Lower(r.hostnames[n]) : n \in DOMAIN r.hostnames} = DOMAIN r.rules
            /\ Cardinality(DOMAIN r.rules) = Len(r.hostnames)

\* Equal fingerprints mean equal routing, down to the address of each proxy, so
\* a poll that publishes nothing leaves nothing out; and a text that is parsed
\* again has the routing and the fingerprint it had, if no two keys differ in
\* case only, so a poll that finds it unchanged publishes nothing.
FingerprintExact ==
    (Len(built) = 2 /\ built[1].ok /\ built[2].ok) =>
        /\ built[1].fingerprint = built[2].fingerprint =>
              /\ built[1].rules = built[2].rules
              /\ built[1].default = built[2].default
        /\ (built[1].yaml = built[2].yaml /\ Distinct(built[1].yaml)) => built[1] = built[2]
=============================================================================
