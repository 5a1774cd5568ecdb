------------------------------ MODULE Handshake ------------------------------
(***************************************************************************)
(* The bytes of one connection, from the client's first one to the relay:  *)
(* read_http_target of src/src/http.rs, connect_with_fallback of           *)
(* src/src/router.rs, ProxyConfig::connect with HTTP CONNECT and SOCKS5    *)
(* and PrefixedStream of src/src/proxy.rs, and the part of                 *)
(* handle_connection of src/src/main.rs that joins them.                   *)
(*                                                                         *)
(* A stream is the sequence of all that a peer will send, chosen at first; *)
(* a read takes the bytes that happen to have arrived.  On an HTTP stream  *)
(* a line's content is one token, on a SOCKS5 stream a byte is its number. *)
(* A peer may close, fail or stay silent after any byte.                   *)
(***************************************************************************)
EXTENDS ClientHello, FiniteSets

CONSTANTS
    Hops,            \* the proxies of the rule, in order: [kind, user, longUser]
    ClientStreams,   \* ClientStreams[protocol]: what clients send
    Meant,           \* Meant[protocol][stream]: the host asked for and the length
                     \* of the message that asks for it
    Replies,         \* Replies[kind]: what proxies of that kind send
    Host,            \* hosts; the same token is the Host line that names it
    LongHost,        \* those longer than 255 bytes
    Spelling,        \* Spelling[h]: the bytes of h
    MaxHeader,       \* MAX_HTTP_HEADER (64 KiB)
    MaxHello,        \* MAX_CLIENT_HELLO (64 KiB)
    ChunkSize,       \* the chunk (1024) or buf (512) of a read
    BufSize          \* a_buf, b_buf of the relay (16 KiB)

Kind == {"http", "https", "socks5"}

\* What the first bytes can be besides a host: unusable, or incomplete.
NoTarget == "none"
Bad == "bad"
More == "more"

ASSUME HopsAssumption ==
    Hops \in Seq([kind : Kind, user : BOOLEAN, longUser : BOOLEAN])
ASSUME SizesAssumption ==
    {MaxHeader, MaxHello} \subseteq Nat /\ {ChunkSize, BufSize} \subseteq Nat \ {0}
ASSUME HostAssumption ==
    /\ {NoTarget, Bad, More} \cap Host = {}
    /\ LongHost \subseteq Host /\ DOMAIN Spelling = Host
    /\ \A g, h \in Host : Spelling[g] = Spelling[h] => g = h

IsStream(s) == s \in Seq({s[i] : i \in DOMAIN s})
ASSUME StreamsAssumption ==
    /\ \A s \in ClientStreams["http"] : IsStream(s)
    /\ ClientStreams["https"] \subseteq Seq(Nat)
    /\ \A s \in Replies["http"] \cup Replies["https"] : IsStream(s)
    /\ Replies["socks5"] \subseteq Seq(Nat)

VARIABLES
    stage,    \* what the handler awaits
    protocol, \* the listener's: "http" or "https"
    client,   \* the client's stream
    cpos,     \* how many bytes of it the handler has read
    initial,  \* the bytes read before the target was known
    target,   \* the host it is on
    hop,      \* index of the hop that is tried
    reply,    \* the stream of the hop dialled last
    dialled,  \* history: which hop that was
    pos,      \* how many bytes of it have been read
    need,     \* how many bytes read_exact waits for
    prefix,   \* PrefixedStream: what is left of the prefix
    toProxy,  \* history: client bytes written to the hop, after its handshake
    toClient, \* history: bytes of the hop passed on by the relay
    verdict   \* history: what the handshake with the hop made of its answer

clientVars == <<protocol, client, cpos, initial, target>>
hopVars == <<hop, reply, dialled, pos, need, prefix, verdict>>
tunnelVars == <<toProxy, toClient>>
vars == <<stage, clientVars, hopVars, tunnelVars>>

\* The stages of ProxyConfig::connect; a failure in one of them ends the hop.
HopStage == {"dial", "tls", "reply", "method", "auth", "head", "len", "skip"}
Stage == {"first", "bad", "initial", "tunnel", "end"} \cup HopStage

Init ==
    /\ stage = "first"
    /\ protocol \in {"http", "https"}
    /\ client \in ClientStreams[protocol] /\ cpos = 0
    /\ initial = <<>> /\ target = NoTarget
    /\ hop = 1 /\ reply = <<>> /\ dialled = 1 /\ pos = 0 /\ need = 0 /\ prefix = <<>>
    /\ verdict = "none"
    /\ toProxy = <<>> /\ toClient = <<>>

-----------------------------------------------------------------------------
(***************************************************************************)
(* Texts.                                                                  *)
(***************************************************************************)

CR == "CR"
LF == "LF"
NotUtf8 == "notUtf8"

EndsAt(s, i) == SubSeq(s, i, i + 3) = <<CR, LF, CR, LF>>

\* header_end: the place of the first empty line, 0 if there is none.
HeaderEnd(s) ==
    LET ends == {i \in 1..(Len(s) - 3) : EndsAt(s, i)}
    IN  IF ends = {} THEN 0 ELSE CHOOSE i \in ends : \A j \in ends : i <= j

HeaderOf(s) == SubSeq(s, 1, HeaderEnd(s) - 1)
Has(s, token) == \E i \in DOMAIN s : s[i] = token

\* parse_http_host: the first Host line after the request line, if the header
\* is UTF-8 and there is such a line with a host that parses.
ParseHost(header) ==
    LET head == HeaderOf(header)
        places == {i \in 3..Len(head) : head[i - 1] = LF /\ head[i - 2] = CR
                                         /\ head[i] \in Host \cup {"badHost"}}
    IN  IF Has(head, NotUtf8) \/ places = {} THEN Bad
        ELSE LET line == head[CHOOSE i \in places : \A j \in places : i <= j]
             IN  IF line = "badHost" THEN Bad ELSE line

\* The status line of http_connect: there is one, in UTF-8, and it says 200.
StatusOk(head) == head # <<>> /\ ~Has(head, NotUtf8) /\ head[1] = "200"

-----------------------------------------------------------------------------
(***************************************************************************)
(* read_until_header_end: the client's first bytes.                        *)
(***************************************************************************)

\* A read of k bytes is possible.
Chunk(stream, at, k) == k <= ChunkSize /\ at + k <= Len(stream)

\* What the bytes say, however many they are.
HttpSays(buf) == IF HeaderEnd(buf) # 0 THEN ParseHost(buf) ELSE More
HttpsSays(buf) ==
    LET hello == ParseTlsSni(buf)
        named == {h \in Host : Spelling[h] = hello.name}
    IN  CASE hello.status = "more" -> More
          [] hello.status = "bad" -> Bad
          [] hello.status = "found" ->
               IF named = {} THEN Bad ELSE CHOOSE h \in named : TRUE
Says(p, buf) == IF p = "http" THEN HttpSays(buf) ELSE HttpsSays(buf)

\* What a stream means is what its message says once it is there to the last
\* byte, and not before.
ASSUME MeantAssumption ==
    \A p \in {"http", "https"} : \A s \in ClientStreams[p] :
        LET meant == Meant[p][s]
        IN  IF meant.host = NoTarget THEN Says(p, s) \notin Host
            ELSE /\ meant.host \in Host /\ meant.length \in 1..Len(s)
                 /\ Says(p, SubSeq(s, 1, meant.length)) = meant.host
                 /\ Says(p, SubSeq(s, 1, meant.length - 1)) = More

\* Mutants of HttpFirst: no limit on the size; the size is looked at first.
HttpFirstUnbounded(buf) == HttpSays(buf)
HttpFirstSizeFirst(buf) == IF Len(buf) > MaxHeader THEN Bad ELSE HttpSays(buf)

\* read_until_header_end and parse_http_host: a complete header is read,
\* whatever its size.
HttpFirst(buf) == IF HeaderEnd(buf) = 0 /\ Len(buf) > MaxHeader THEN Bad ELSE HttpSays(buf)

\* read_https_target: the size is looked at first.
HttpsFirst(buf) == IF Len(buf) > MaxHello THEN Bad ELSE HttpsSays(buf)

First(buf) == IF protocol = "http" THEN HttpFirst(buf) ELSE HttpsFirst(buf)

\* The next bytes arrive in the buffer.
ReadFirst ==
    /\ stage = "first"
    /\ \E k \in 1..ChunkSize : Chunk(client, cpos, k) /\ cpos' = cpos + k
    /\ initial' = SubSeq(client, 1, cpos')
    /\ UNCHANGED <<protocol, client, hopVars, tunnelVars>>

FirstMore ==
    /\ ReadFirst
    /\ First(initial') = More
    /\ UNCHANGED <<stage, target>>

\* The target is known; without a hop to try, connect_with_fallback fails.
FirstTarget ==
    /\ ReadFirst
    /\ First(initial') \in Host
    /\ target' = First(initial')
    /\ stage' = IF Hops = <<>> THEN "end" ELSE "dial"

\* The bytes name no target, or they are too many.
FirstBad ==
    /\ ReadFirst
    /\ First(initial') = Bad
    /\ stage' = "bad"
    /\ UNCHANGED target

\* The handler ends, by an error, a timeout or the end of a stream.
End(from) ==
    /\ stage = from /\ stage' = "end"
    /\ UNCHANGED <<clientVars, hopVars, tunnelVars>>

FirstFails == End("first")

-----------------------------------------------------------------------------
(***************************************************************************)
(* ProxyConfig::connect.                                                   *)
(***************************************************************************)

This == Hops[hop]

\* The connection is made, and the first message written unless TLS is first.
Dialled ==
    /\ stage = "dial"
    /\ reply' \in Replies[This.kind] /\ dialled' = hop
    /\ pos' = 0 /\ need' = 2 /\ verdict' = "none"
    /\ stage' = CASE This.kind = "http" -> "reply"
                  [] This.kind = "https" -> "tls"
                  [] This.kind = "socks5" -> "method"
    /\ UNCHANGED <<clientVars, hop, prefix, tunnelVars>>

\* The TLS handshake is over, the CONNECT request is written.
TlsDone ==
    /\ stage = "tls" /\ stage' = "reply"
    /\ UNCHANGED <<clientVars, hopVars, tunnelVars>>

\* Mutant of NextHop: the other hops are not tried.
NextHopGivesUp ==
    /\ hop' = hop
    /\ stage' = "end"

\* This hop is given up; the next one, if any, is a new connection.
NextHop ==
    /\ hop' = IF hop < Len(Hops) THEN hop + 1 ELSE hop
    /\ stage' = IF hop < Len(Hops) THEN "dial" ELSE "end"

\* Any I/O error, end of stream or timeout on the way.
HopFails ==
    /\ stage \in HopStage
    /\ NextHop
    /\ UNCHANGED <<clientVars, reply, dialled, pos, need, prefix, verdict, tunnelVars>>

\* The handshake succeeded and left these bytes unread.
Accepted(rest) ==
    /\ stage' = "initial" /\ prefix' = rest /\ verdict' = "accepted"
    /\ UNCHANGED <<hop, reply, dialled>>

Refused ==
    /\ NextHop
    /\ verdict' = "refused"
    /\ UNCHANGED <<clientVars, reply, dialled, prefix, tunnelVars>>

\* read_connect_response: k more bytes, no end of the header yet.
ReplyMore ==
    /\ stage = "reply"
    /\ \E k \in 1..ChunkSize : Chunk(reply, pos, k) /\ pos' = pos + k
    /\ HeaderEnd(SubSeq(reply, 1, pos')) = 0 /\ pos' <= MaxHeader
    /\ UNCHANGED <<stage, clientVars, hop, reply, dialled, need, prefix, verdict, tunnelVars>>

\* Mutant of ReplyDone: leftover is forgotten.
ReplyDoneForgets ==
    /\ stage = "reply"
    /\ \E k \in 1..ChunkSize : Chunk(reply, pos, k) /\ pos' = pos + k
    /\ LET response == SubSeq(reply, 1, pos')
       IN  HeaderEnd(response) # 0 /\ StatusOk(HeaderOf(response)) /\ Accepted(<<>>)
    /\ UNCHANGED <<clientVars, need, tunnelVars>>

\* The header is complete and says 200; what follows it is the prefix.
ReplyDone ==
    /\ stage = "reply"
    /\ \E k \in 1..ChunkSize : Chunk(reply, pos, k) /\ pos' = pos + k
    /\ LET response == SubSeq(reply, 1, pos')
       IN  /\ HeaderEnd(response) # 0 /\ StatusOk(HeaderOf(response))
           /\ Accepted(SubSeq(response, HeaderEnd(response) + 4, pos'))
    /\ UNCHANGED <<clientVars, need, tunnelVars>>

\* Mutant of ReplyRefused: the size is looked at before the empty line.
ReplyRefusedBySize ==
    /\ stage = "reply"
    /\ \E k \in 1..ChunkSize : Chunk(reply, pos, k) /\ pos' = pos + k
    /\ LET response == SubSeq(reply, 1, pos')
       IN  \/ pos' > MaxHeader
           \/ HeaderEnd(response) # 0 /\ ~StatusOk(HeaderOf(response))
    /\ Refused
    /\ UNCHANGED need

\* The header is complete and says something else, or it is too large.
ReplyRefused ==
    /\ stage = "reply"
    /\ \E k \in 1..ChunkSize : Chunk(reply, pos, k) /\ pos' = pos + k
    /\ LET response == SubSeq(reply, 1, pos')
       IN  IF HeaderEnd(response) # 0 THEN ~StatusOk(HeaderOf(response)) ELSE pos' > MaxHeader
    /\ Refused
    /\ UNCHANGED need

-----------------------------------------------------------------------------
(***************************************************************************)
(* socks5_connect.                                                         *)
(***************************************************************************)

\* read_exact got what it needs.
Got == pos + need <= Len(reply)
Byte(i) == reply[pos + i]

\* The answer of read_exact is in order; the next message, if any, is written
\* and n bytes are awaited.
Exact(from, to, n) ==
    /\ stage = from /\ Got
    /\ stage' = to
    /\ pos' = pos + need /\ need' = n
    /\ UNCHANGED <<clientVars, hop, reply, dialled, prefix, verdict, tunnelVars>>

\* User name and password are asked for and fit their length bytes.
MethodPassword ==
    /\ Exact("method", "auth", 2)
    /\ This.user /\ ~This.longUser
    /\ Byte(1) = 5 /\ Byte(2) = 2

\* No authentication; the host fits its length byte.
MethodNone ==
    /\ Exact("method", "head", 4)
    /\ Byte(1) = 5 /\ Byte(2) = 0
    /\ target \notin LongHost

Authenticated ==
    /\ Exact("auth", "head", 4)
    /\ Byte(1) = 1 /\ Byte(2) = 0
    /\ target \notin LongHost

HeadOk == Byte(1) = 5 /\ Byte(2) = 0

\* An address of 4 or 16 bytes and a port, or a length byte before them.
HeadAddress ==
    \/ Exact("head", "skip", 6) /\ HeadOk /\ Byte(4) = 1
    \/ Exact("head", "skip", 18) /\ HeadOk /\ Byte(4) = 4
HeadDomain == Exact("head", "len", 1) /\ HeadOk /\ Byte(4) = 3

LenRead == stage = "len" /\ Got /\ Exact("len", "skip", Byte(1) + 2)

\* Address and port are read to the last byte, and nothing behind them.
AddressSkipped ==
    /\ stage = "skip" /\ Got
    /\ pos' = pos + need
    /\ Accepted(<<>>)
    /\ UNCHANGED <<clientVars, need, tunnelVars>>

\* A bail! of socks5_connect.
SocksRefused ==
    /\ Got
    /\ \/ /\ stage = "method"
          /\ ~(Byte(1) = 5 /\ Byte(2) = 0 /\ target \notin LongHost)
          /\ ~(This.user /\ ~This.longUser /\ Byte(1) = 5 /\ Byte(2) = 2)
       \/ stage = "auth" /\ ~(Byte(1) = 1 /\ Byte(2) = 0 /\ target \notin LongHost)
       \/ stage = "head" /\ ~(HeadOk /\ Byte(4) \in {1, 3, 4})
    /\ pos' = pos + need
    /\ Refused
    /\ UNCHANGED need

-----------------------------------------------------------------------------
(***************************************************************************)
(* The first bytes go to the proxy, then the relay runs.                   *)
(***************************************************************************)

SendInitial ==
    /\ stage = "initial" /\ stage' = "tunnel"
    /\ toProxy' = initial
    /\ UNCHANGED <<clientVars, hopVars, toClient>>

\* Error or timeout: no other hop is tried.
InitialFails == End("initial")

\* The relay reads from the client and writes to the proxy.
ClientToProxy ==
    /\ stage = "tunnel"
    /\ \E k \in 1..BufSize :
          /\ cpos + k <= Len(client)
          /\ cpos' = cpos + k
          /\ toProxy' = toProxy \o SubSeq(client, cpos + 1, cpos + k)
    /\ UNCHANGED <<stage, protocol, client, initial, target, hopVars, toClient>>

\* PrefixedStream::poll_read: what is left of the prefix, as far as it fits.
PrefixToClient ==
    /\ stage = "tunnel" /\ prefix # <<>>
    /\ LET n == IF Len(prefix) < BufSize THEN Len(prefix) ELSE BufSize
       IN  /\ toClient' = toClient \o SubSeq(prefix, 1, n)
           /\ prefix' = SubSeq(prefix, n + 1, Len(prefix))
    /\ UNCHANGED <<stage, clientVars, hop, reply, dialled, pos, need, verdict, toProxy>>

\* PrefixedStream::poll_read, later: the stream itself.
ProxyToClient ==
    /\ stage = "tunnel" /\ prefix = <<>>
    /\ \E k \in 1..BufSize :
          /\ pos + k <= Len(reply)
          /\ pos' = pos + k
          /\ toClient' = toClient \o SubSeq(reply, pos + 1, pos + k)
    /\ UNCHANGED <<stage, clientVars, hop, reply, dialled, need, prefix, verdict, toProxy>>

TunnelEnds == End("tunnel")

Connect ==
    \/ Dialled \/ TlsDone \/ HopFails
    \/ ReplyMore \/ ReplyDone \/ ReplyRefused
    \/ MethodPassword \/ MethodNone \/ Authenticated \/ HeadAddress \/ HeadDomain
    \/ LenRead \/ AddressSkipped \/ SocksRefused

Next ==
    \/ FirstMore \/ FirstTarget \/ FirstBad \/ FirstFails
    \/ Connect
    \/ SendInitial \/ InitialFails
    \/ ClientToProxy \/ PrefixToClient \/ ProxyToClient \/ TunnelEnds

Spec == Init /\ [][Next]_vars

-----------------------------------------------------------------------------
(***************************************************************************)
(* Properties.                                                             *)
(***************************************************************************)

\* Types of the state; neither buffer outgrows the limit by more than one read.
TypeOK ==
    /\ stage \in Stage
    /\ protocol \in {"http", "https"}
    /\ client \in ClientStreams[protocol] /\ cpos \in 0..Len(client)
    /\ Len(initial) <= (IF protocol = "http" THEN MaxHeader ELSE MaxHello) + ChunkSize
    /\ target \in Host \cup {NoTarget}
    /\ {hop, dialled} \subseteq 1..Len(Hops) \cup {1}
    /\ pos \in 0..Len(reply)
    /\ stage = "reply" => pos <= MaxHeader + ChunkSize
    /\ need \in Nat
    /\ verdict \in {"none", "accepted", "refused"}

\* A request or a ClientHello is understood as soon as it is complete, however
\* it is cut into reads, and for what it says; it is refused only for its size.
\* (A header counts without the bytes read behind it, a ClientHello with them.)
TargetRight ==
    LET meant == Meant[protocol][client]
    IN  /\ target \in {NoTarget, meant.host}
        /\ (stage = "first" /\ meant.host # NoTarget) => cpos < meant.length
        /\ (stage = "bad" /\ meant.host # NoTarget) =>
              IF protocol = "http" THEN meant.length > MaxHeader + 1
                                   ELSE meant.length + ChunkSize > MaxHello + 1

\* What a SOCKS5 server must say (RFC 1928, RFC 1929) to a client with or
\* without a user: the length of its answer, 0 if it does not consent.
SocksLength(user, s) ==
    LET authed == user /\ Len(s) >= 4 /\ SubSeq(s, 1, 4) = <<5, 2, 1, 0>>
        at == IF authed THEN 4 ELSE 2
        length == IF Len(s) < at + 5 THEN 0
                  ELSE CASE s[at + 4] = 1 -> at + 10
                         [] s[at + 4] = 4 -> at + 22
                         [] s[at + 4] = 3 -> at + 7 + s[at + 5]
                         [] OTHER -> 0
    IN  IF (authed \/ (Len(s) >= 2 /\ SubSeq(s, 1, 2) = <<5, 0>>))
            /\ length \in 1..Len(s)
            /\ s[at + 1] = 5 /\ s[at + 2] = 0
        THEN length ELSE 0

\* The same for CONNECT: up to the empty line behind a header that says 200.
HttpLength(s) ==
    LET empty == {n \in 4..Len(s) : EndsAt(s, n - 3)}
        length == CHOOSE n \in empty : \A j \in empty : n <= j
    IN  IF /\ empty # {}
           /\ s[1] = "200"
           /\ \A i \in 1..length : s[i] # NotUtf8
        THEN length ELSE 0

Judged == Hops[dialled]

AnswerLength ==
    IF Judged.kind = "socks5" THEN SocksLength(Judged.user, reply) ELSE HttpLength(reply)

\* However the bytes are cut into reads, the proxy is sent exactly what the
\* client sent, once it has accepted, and the client is sent exactly what
\* follows the proxy's answer: nothing lost, repeated or out of order, no byte
\* of a handshake passed on, no client byte spent on a hop that failed.
StreamsExact ==
    /\ stage = "tunnel" => toProxy = SubSeq(client, 1, cpos)
    /\ stage \in {"initial", "tunnel"} =>
          toClient \o prefix \o SubSeq(reply, pos + 1, Len(reply))
              = SubSeq(reply, AnswerLength + 1, Len(reply))

\* The verdict on a hop does not depend on how its answer is cut into reads,
\* but for CONNECT answers that are longer than MaxHeader by up to one read:
\* a proxy that consents is used, another one is not.
VerdictRight ==
    /\ verdict = "accepted" =>
          /\ AnswerLength > 0
          /\ Judged.kind # "socks5" => AnswerLength <= MaxHeader + ChunkSize
    /\ verdict = "refused" =>
          \/ AnswerLength = 0
          \/ Judged.kind # "socks5" /\ AnswerLength > MaxHeader + 1
          \/ Judged.kind = "socks5" /\ (target \in LongHost \/ Judged.longUser)

-----------------------------------------------------------------------------
(***************************************************************************)
(* The handler as Server has it, with one step for each phase.             *)
(***************************************************************************)

\* All hops failed, or there was none; Server takes one more step to end.
Exhausted == stage = "end" /\ target # NoTarget /\ verdict # "accepted"

ServerStage ==
    CASE stage = "first" -> "reading"
      [] stage \in HopStage \/ Exhausted -> "connecting"
      [] stage = "initial" -> "writing"
      [] stage = "tunnel" -> "relaying"
      [] OTHER -> "none"

HopsLeft == IF target = NoTarget \/ Exhausted THEN <<>> ELSE SubSeq(Hops, hop, Len(Hops))
HopsTried ==
    IF target = NoTarget THEN <<>> ELSE IF Exhausted THEN Hops ELSE SubSeq(Hops, 1, hop - 1)

Me == "me"    \* the connection

\* The table: a rule with these hops for every host, and another default.
OtherHop == [kind |-> "http", user |-> FALSE, longUser |-> FALSE]
Table == [rules |-> [h \in Host |-> Hops], default |-> <<OtherHop>>]

Srv == INSTANCE Server WITH
    Conn <- {Me}, MaxConnections <- 1,
    Hop <- [kind : Kind, user : BOOLEAN, longUser : BOOLEAN],
    Tables <- <<Table>>,
    up <- TRUE, table <- 1, permits <- IF ServerStage = "none" THEN 1 ELSE 0,
    stage <- [c \in {Me} |-> ServerStage],
    host <- [c \in {Me} |-> Meant[protocol][client].host],
    hops <- [c \in {Me} |-> HopsLeft], tried <- [c \in {Me} |-> HopsTried],
    snap <- [c \in {Me} |-> 1]

\* Byte by byte, through every exchange with every proxy, the handler takes the
\* steps Server gives it or none: no hop is left out or tried twice, no stage is
\* skipped, the hops are those of the host the client means, and each end is one
\* that gives the permit back.
ImplementsHandler == [][Srv!Handler(Me)]_(Srv!vars)
=============================================================================
