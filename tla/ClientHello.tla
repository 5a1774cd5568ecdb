----------------------------- MODULE ClientHello -----------------------------
(***************************************************************************)
(* parse_tls_sni of src/src/tls.rs: the name a TLS client asks for, out of *)
(* the bytes received so far.  A byte is a number from 0 to 255.  Where    *)
(* the code walks a slice, here a place in the sequence moves on; place 0  *)
(* says that the slice was too short ("truncated", "missing").             *)
(***************************************************************************)
EXTENDS Naturals, Sequences

NeedMore == [status |-> "more", name |-> <<>>]
Invalid == [status |-> "bad", name |-> <<>>]
Found(name) == [status |-> "found", name |-> name]

U16(s, i) == 256 * s[i] + s[i + 1]

\* The number in the w bytes at i.
Number(s, i, w) == IF w = 1 THEN s[i] ELSE U16(s, i)

\* The place behind a block with a length of w bytes at i.
After(s, i, w) ==
    IF i = 0 \/ i + w - 1 > Len(s) THEN 0
    ELSE LET next == i + w + Number(s, i, w)
         IN  IF next - 1 > Len(s) THEN 0 ELSE next

\* The content of such a block, as a sequence of one; none if truncated.
Block(s, i, w) ==
    IF After(s, i, w) = 0 THEN <<>> ELSE <<SubSeq(s, i + w, After(s, i, w) - 1)>>

\* In a list of entries with a type of w bytes and a length of two, the
\* content of the first entry of type 0, if no entry up to it is truncated.
FirstOfType0(list, w) ==
    LET from[i \in 1..(Len(list) + 1)] ==
            IF After(list, i + w, 2) = 0 THEN <<>>
            ELSE IF Number(list, i, w) = 0 THEN Block(list, i + w, 2)
            ELSE from[After(list, i + w, 2)]
    IN  from[1]

\* parse_sni_extension: the first host name of the list.
ParseSniExtension(data) ==
    LET names == Block(data, 1, 2)
        host == IF names = <<>> THEN <<>> ELSE FirstOfType0(names[1], 1)
    IN  IF host = <<>> \/ host = <<<<>>>> THEN Invalid ELSE Found(host[1])

\* parse_client_hello_body: behind version and random come session id, cipher
\* suites, compression methods and extensions.
ParseClientHelloBody(body) ==
    LET extensions == Block(body, After(body, After(body, After(body, 35, 1), 2), 1), 2)
        sni == IF extensions = <<>> THEN <<>> ELSE FirstOfType0(extensions[1], 2)
    IN  IF sni = <<>> THEN Invalid ELSE ParseSniExtension(sni[1])

\* The content of a record: the whole hello is awaited.  A hello that goes on
\* in the next record is never complete: the first is all that is looked at.
ParseRecord(record) ==
    IF Len(record) < 4 \/ record[1] # 1 THEN Invalid
    ELSE LET end == 4 + 65536 * record[2] + U16(record, 3)
         IN  IF Len(record) < end THEN NeedMore
             ELSE ParseClientHelloBody(SubSeq(record, 5, end))

\* One whole record is awaited.
ParseTlsSni(buf) ==
    IF Len(buf) < 5 THEN NeedMore
    ELSE IF buf[1] # 22 THEN Invalid
    ELSE IF After(buf, 4, 2) = 0 THEN NeedMore
    ELSE ParseRecord(SubSeq(buf, 6, After(buf, 4, 2) - 1))
=============================================================================
