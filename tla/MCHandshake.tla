---------------------------- MODULE MCHandshake -----------------------------
(* Model-checking instance of Handshake: proxies of all kinds, for SOCKS5 with *)
(* a user, without, and with one that is too long; payloads that look like the *)
(* end of a header, answers cut short, refused, without a status, too long.    *)
EXTENDS Handshake, TLC

MCHops == <<[kind |-> "http", user |-> FALSE, longUser |-> FALSE],
            [kind |-> "socks5", user |-> TRUE, longUser |-> FALSE],
            [kind |-> "https", user |-> TRUE, longUser |-> FALSE],
            [kind |-> "socks5", user |-> TRUE, longUser |-> TRUE],
            [kind |-> "socks5", user |-> FALSE, longUser |-> FALSE]>>

Crlf == <<CR, LF>>
Empty == Crlf \o Crlf

Request(h) == <<"GET">> \o Crlf \o <<h>> \o Empty
Late == <<"x">> \o Empty \o <<"y">>

\* Requests for a host, and such that name none.
MCRequests ==
    [s \in {Request(h) \o body : h \in {"short", "long"}, body \in {<<>>, Late}} |->
        [host |-> s[4], length |-> 8]]
    @@ [s \in {<<"GET">> \o Crlf \o <<"other">> \o Crlf \o <<"short">> \o Empty} |->
        [host |-> "short", length |-> 11]]
    @@ [s \in {<<"GET">> \o Crlf \o <<"badHost">> \o Crlf \o <<"short">> \o Empty,
               <<"short">> \o Empty,
               <<"GET">> \o Crlf \o <<NotUtf8>> \o Crlf \o <<"short">> \o Empty} |->
        [host |-> NoTarget, length |-> 0]]

Vec1(s) == <<Len(s)>> \o s
Vec2(s) == <<Len(s) \div 256, Len(s) % 256>> \o s
Body(extensions) ==
    [i \in 1..34 |-> 3] \o Vec1(<<7>>) \o Vec2(<<19, 1>>) \o Vec1(<<0>>) \o Vec2(extensions)
Record(type, content) == <<type, 3, 1>> \o Vec2(content)
Hello(extensions) == <<1, 0>> \o Vec2(Body(extensions))
Sni(names) == <<0, 0>> \o Vec2(Vec2(names))
Name(type, host) == <<type>> \o Vec2(host)

MCSpelling == [short |-> <<97>>, long |-> <<98, 98>>]

\* Hellos with other extensions, other names and bytes behind; hellos without
\* a name, with one that is empty or no text, with lengths that do not fit;
\* another record, another message; and a hello cut into two records.
MCHellos ==
    LET good(h) == {Record(22, Hello(before \o Sni(names \o Name(0, MCSpelling[h])))) :
                        before \in {<<>>, <<0, 5>> \o Vec2(<<0>>)}, names \in {<<>>, Name(1, <<0>>)}}
        whole == Hello(Sni(Name(0, <<97>>)))
        bad == {Record(22, Hello(e)) :
                    e \in {<<>>, Sni(Name(0, <<>>)), Sni(Name(0, <<255>>)), Sni(Name(1, <<97>>)),
                           <<0, 0, 0, 9>> \o Vec2(Name(0, <<97>>)), Sni(<<0, 0, 2, 97>>), <<0, 0, 0>>}}
               \cup {Record(23, whole), Record(22, <<2>> \o Tail(whole)), Record(22, <<1, 0, 0>>),
                     Record(22, <<1, 0, 0, 3, 0, 0, 0>>),
                     Record(22, SubSeq(whole, 1, 40)) \o Record(22, SubSeq(whole, 41, Len(whole)))}
    IN  [s \in good("short") \cup good("long") |->
            [host |-> IF s \in good("short") THEN "short" ELSE "long", length |-> Len(s)]]
        @@ [s \in {h \o <<23, 3, 3>> : h \in good("short")} |->
            [host |-> "short", length |-> Len(s) - 3]]
        @@ [s \in bad |-> [host |-> NoTarget, length |-> 0]]

MCMeant == [http |-> MCRequests, https |-> MCHellos]
MCClientStreams == [http |-> DOMAIN MCRequests, https |-> DOMAIN MCHellos]

MCHttp ==
    {line \o more \o Empty \o <<"p", CR>> \o Empty :
        line \in {<<"200">>, <<"407">>, <<NotUtf8>>, <<>>},
        more \in {<<>>, Crlf \o <<"via">>, Crlf \o <<"via">> \o Crlf \o <<"date", "etc">>}}
    \cup {<<"200", CR, LF, CR>>, <<"200">> \o Crlf \o <<"200">> \o Crlf \o <<"a", "b", "c">>}

MCAddress == {<<1, 9, 9, 9, 9, 0, 80>>, <<3, 0, 0, 80>>, <<3, 2, 9, 9, 0, 80>>,
              <<4>> \o [i \in 1..16 |-> i] \o <<0, 80>>, <<2, 9, 9>>}

MCSocks ==
    {choice \o <<5, code, 0>> \o address \o <<5, 0>> :
        choice \in {<<5, 0>>, <<5, 2, 1, 0>>}, code \in {0, 1}, address \in MCAddress}
    \cup {<<5, 2, 1, 1>>, <<5, 255>>, <<4, 0>>, <<5, 0, 4, 0, 0, 1>>, <<5, 0, 5, 0, 0, 3>>}

MCReplies == [http |-> MCHttp, https |-> MCHttp, socks5 |-> MCSocks]
=============================================================================
