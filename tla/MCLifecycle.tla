---------------------------- MODULE MCLifecycle ----------------------------
(* Lifecycle, Settings: the documents and command lines TLC explores. *)
EXTENDS Lifecycle, TLC

str(s) == [type |-> "str", value |-> s]
bool(b) == [type |-> "bool", value |-> b]
int(n) == [type |-> "int", value |-> n]
map(m) == [type |-> "map", value |-> m]
seq(s) == [type |-> "seq", value |-> s]
null == [type |-> "null"]

Doc(n, yaml) == [size |-> n, utf8 |-> TRUE, yaml |-> yaml]
Px == "proxies" :> map("p" :> str("url"))
Rules(names) == "rules" :> map([n \in names \cup {"default"} |-> str("p")])

\* A table with one site, at the size limit.
One == Doc(2, Px @@ Rules({"n"}))
\* The host of the config URL among the sites; another hosts file.
Hairpin == Doc(1, Px @@ Rules({"c"}) @@ "hosts" :> str("other") @@ "http" :> bool(FALSE))
\* A listen and a refresh that only a start looks at; a list of proxies; no site, so that
\* it is also what a text looks like that is saved in place and not complete yet.
NoStart == Doc(1, Px @@ "listen" :> str("lan") @@ "refresh" :> int(0)
                  @@ "rules" :> map("DEFAULT" :> seq(<<"p", "p">>)))
\* The routing of One, another spelling and settings of its own.
Moved == Doc(1, Px @@ Rules({"N"}) @@ "listen" :> str("lo2") @@ "hosts" :> bool(FALSE) @@ "http" :> null)

\* The last one is too large.
MCDocuments == {One, Hairpin, NoStart, Moved, [One EXCEPT !.size = 3]}

\* A character half old, half new.
MCMixed == {[One EXCEPT !.utf8 = FALSE]}

MCLower == [k \in {"n", "c", "default"} |-> k] @@ "N" :> "n" @@ "DEFAULT" :> "default"

\* What parse_yaml refuses: an unknown key, no proxies, one without a name, no default,
\* hosts: true, no path, a list that is empty, a name that is, a listen that is no address.
ASSUME RefusedAssumption ==
    \A y \in {Px @@ Rules({}) @@ "port" :> int(1), Rules({}), "proxies" :> map(<<>>) @@ Rules({}),
              "proxies" :> map("" :> str("url")) @@ Rules({}), Px @@ "rules" :> map("n" :> str("p")),
              Px @@ Rules({}) @@ "hosts" :> bool(TRUE), Px @@ Rules({}) @@ "hosts" :> str(""),
              Px @@ "rules" :> map("default" :> seq(<<>>)), Px @@ "rules" :> map("default" :> seq(<<"p", "">>)),
              Px @@ Rules({}) @@ "listen" :> str("n")} :
        ~ParseYaml(y).ok

\* What from_yaml refuses: a URL of no proxy, a key that is no host name, an unknown proxy.
ASSUME NotBuiltAssumption ==
    \A y \in {"proxies" :> map("p" :> str("bad")) @@ Rules({}), Px @@ Rules({"-"}),
              Px @@ "rules" :> map("default" :> str("q"))} :
        ParseYaml(y).ok /\ ~Builds(ParseYaml(y))

Plain == [listen |-> None, hosts |-> None, noHosts |-> FALSE, noHttp |-> FALSE, refresh |-> None]
MCClis == {Plain,
           [Plain EXCEPT !.listen = <<"lo2">>, !.refresh = <<5>>, !.hosts = <<"other">>],
           [Plain EXCEPT !.noHosts = TRUE, !.noHttp = TRUE]}
============================================================================
