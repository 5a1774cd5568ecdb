------------------------------- MODULE Target -------------------------------
(***************************************************************************)
(* src/src/target.rs: the target a Host header names, its form for CONNECT,*)
(* and the host names rules may have.  Texts are sequences of characters;  *)
(* a word without dots or colons, such as "default", may stand for one.    *)
(***************************************************************************)
EXTENDS Integers, Sequences, FiniteSets, SequencesExt

CONSTANTS
    LowerOf,    \* the upper-case letters and their lower-case forms
    Letter,     \* the letters of both cases
    MaxName,    \* 253
    MaxLabel    \* 63

Err == [ok |-> FALSE]

Digit == <<"0", "1", "2", "3", "4", "5", "6", "7", "8", "9">>
Alnum == Letter \cup ToSet(Digit)

\* to_ascii_lowercase.
Lower(s) == [i \in DOMAIN s |-> IF s[i] \in DOMAIN LowerOf THEN LowerOf[s[i]] ELSE s[i]]

Places(s, c) == {i \in DOMAIN s : s[i] = c}
Before(s, i) == SubSeq(s, 1, i - 1)
After(s, i) == SubSeq(s, i + 1, Len(s))

\* str::parse::<u16>: a plus sign is allowed, overflow is an error.
ParsePort(s) ==
    LET digits == IF Len(s) > 1 /\ s[1] = "+" THEN Tail(s) ELSE s
        value == FoldLeft(LAMBDA n, c : 10 * n + (CHOOSE d \in 0..9 : Digit[d + 1] = c), 0, digits)
    IN  IF digits # <<>> /\ ToSet(digits) \subseteq ToSet(Digit) /\ value < 2^16
        THEN [ok |-> TRUE, port |-> value] ELSE Err

TargetOf(host, port) == IF port.ok THEN [ok |-> TRUE, host |-> host, port |-> port.port] ELSE Err

\* [host] or [host]:port; the first closing bracket ends the host.
ParseBracketed(value, default) ==
    LET close == Places(value, "]")
        at == CHOOSE i \in close : \A j \in close : i <= j
        rest == After(value, at)
    IN  IF close = {} THEN Err
        ELSE TargetOf(SubSeq(value, 2, at - 1),
                      IF rest = <<>> THEN [ok |-> TRUE, port |-> default]
                      ELSE IF rest[1] = ":" THEN ParsePort(Tail(rest)) ELSE Err)

\* host:port with one colon and a port; anything else is a host.
ParseHostPort(value, default) ==
    LET colons == Places(value, ":")
        at == CHOOSE i \in colons : TRUE
    IN  IF value = <<>> THEN Err
        ELSE IF value[1] = "[" THEN ParseBracketed(value, default)
        ELSE IF Cardinality(colons) = 1 /\ at # Len(value)
        THEN TargetOf(Before(value, at), ParsePort(After(value, at)))
        ELSE [ok |-> TRUE, host |-> value, port |-> default]

\* A u16 in decimal.
Decimal(n) ==
    LET width == CHOOSE w \in 1..5 : n < 10^w /\ (w = 1 \/ n >= 10^(w - 1))
    IN  [i \in 1..width |-> Digit[((n \div 10^(width - i)) % 10) + 1]]

FormatTarget(t) ==
    (IF ":" \in ToSet(t.host) /\ t.host[1] # "[" THEN <<"[">> \o t.host \o <<"]">> ELSE t.host)
        \o <<":">> \o Decimal(t.port)

\* Mutant of IsValidDnsLabel: the last character is not looked at.
LabelEndsInHyphen(label) ==
    Len(label) \in 1..MaxLabel /\ label[1] \in Alnum /\ ToSet(label) \subseteq Alnum \cup {"-"}

IsValidDnsLabel(label) ==
    /\ Len(label) \in 1..MaxLabel
    /\ label[1] \in Alnum /\ label[Len(label)] \in Alnum
    /\ ToSet(label) \subseteq Alnum \cup {"-"}

\* host.split('.').
Labels(host) ==
    LET cuts == {0, Len(host) + 1} \cup Places(host, ".")
    IN  {SubSeq(host, i + 1, (CHOOSE j \in cuts : j > i /\ \A k \in cuts : k > i => j <= k) - 1) :
            i \in cuts \ {Len(host) + 1}}

IsValidHostname(host) == Len(host) \in 1..MaxName /\ \A label \in Labels(host) : IsValidDnsLabel(label)
=============================================================================
