------------------------------ MODULE MCRouter ------------------------------
(* Model-checking instances of Router: n and N are one host; x is no proxy.   *)
EXTENDS Router, TLC

MCLowerOf == [N |-> "n", Default |-> "default"]
MCLetter == {"n", "N", "m", "default", "Default"}
MCDefault == <<"default">>
n == <<"n">>
m == <<"m">>
dot == <<".">>

\* Bad: empty labels, hyphens at the edge, a strange character, too long.
BadList == <<dot \o n, n \o dot, n \o dot \o dot \o m, <<"-", "n">>, <<"n", "-">>, <<"n", " ", "m">>,
             <<>>, n \o n \o n \o n, n \o m \o n \o dot \o m \o m>>
BadKeys == ToSet(BadList)
MCHostKey == {n, <<"N">>, m, n \o dot \o m, <<"n", "-", "1">>}
MCKey == BadKeys \cup MCHostKey \cup {MCDefault, <<"Default">>}
MCRank == n :> 3 @@ m :> 2 @@ MCDefault :> 1 @@ (n \o dot \o m) :> 5 @@ <<"n", "-", "1">> :> 4
          @@ [k \in BadKeys |-> 5 + CHOOSE i \in DOMAIN BadList : BadList[i] = k]

Url(scheme, port) == [scheme |-> scheme, host |-> <<"h">>, port |-> port]
Pq == [p |-> Url("http", <<>>), q |-> Url("socks5", <<1080>>)]

\* The configs with some of keys, a default among them, and lists for hops.
Configs(keys, lists) ==
    LET maps == UNION {[K -> lists] : K \in {K \in SUBSET keys : \E k \in K : Lower(k) = MCDefault}}
    IN  [proxies : {Pq}, rules : maps]
OneRule(proxies, k) == [proxies |-> proxies, rules |-> (MCDefault :> <<"p">> @@ k :> <<"p">>)]

\* n in two spellings, without and with another host.
TwoSpellings == Configs({n, <<"N">>, MCDefault}, {<<"p">>, <<"q", "p">>})
MCYaml ==
    TwoSpellings \cup {[y EXCEPT !.rules = @ @@ m :> <<"q">>] : y \in TwoSpellings}
    \cup Configs({n, MCDefault}, {<<"p">>, <<"x">>, <<>>})
    \cup {OneRule(Pq, k) : k \in BadKeys \cup {n \o dot \o m, <<"n", "-", "1">>}}
    \cup {OneRule([p |-> u], n) : u \in {Url("https", <<>>), Url("http", <<81>>), Url("http", <<80>>),
                                         Url("socks5", <<>>), Url("ftp", <<21>>), Err,
                                         [Url("socks5", <<1>>) EXCEPT !.host = <<>>]}}

\* Ways to write a host and a port.
Ports == {<<":">> \o Decimal(p) : p \in {0, 80, 9999, 65535}} \cup {<<":", "+", "8">>}
PortOf(s) == IF s = <<":", "+", "8">> THEN 8 ELSE CHOOSE p \in {0, 80, 9999, 65535} : <<":">> \o Decimal(p) = s
Hosts == {<<n, n>>, <<<<"N">>, n>>, <<<<"N", ".">>, n>>, <<m \o dot \o dot, m>>, <<n \o dot \o m, n \o dot \o m>>}
V6 == <<":", ":", "1">>
Bracketed(h) == <<"[">> \o h \o <<"]">>
Good(spelled, host) ==
    {[text |-> spelled, host |-> host, port |-> 80]}
    \cup {[text |-> spelled \o p, host |-> host, port |-> PortOf(p)] : p \in Ports}
MCWritten ==
    UNION {Good(h[1], h[2]) : h \in Hosts} \cup Good(Bracketed(V6), V6)
    \cup {[text |-> V6, host |-> V6, port |-> 80]}
    \cup {[text |-> t, host |-> <<>>, port |-> -1] :
            t \in {<<>>, <<"n", ":", "x">>, <<"n", ":", "+">>, <<"n", ":", "-", "1">>,
                   n \o <<":", "6", "5", "5", "3", "6">>, <<"[", ":", ":", "1">>,
                   Bracketed(V6) \o n, Bracketed(V6) \o <<":">>}}
=============================================================================
