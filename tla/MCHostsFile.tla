---------------------------- MODULE MCHostsFile -----------------------------
(* Model-checking instance of HostsFile: every text of at most MaxLen tokens. *)
EXTENDS HostsFile

CONSTANT MaxLen

AllFiles == {s \in UNION {[1..k -> Token] : k \in 0..MaxLen} : Joined(s)}

\* Texts whose marks are in order, too long to be among the others.
TidyFiles == {<<>>, <<UserLine, LF>>,
              <<UserLine, CRLF, BEGIN_MARK, CRLF, "n1", CRLF, END_MARK, CRLF>>,
              <<BEGIN_MARK, LF, END_MARK, LF, UserLine>>,
             <<UserLine, LF, UserLine, CR>>, <<UserLine, CRLF, UserLine, CR>>}

MixedFiles == AllFiles \cup TidyFiles

\* A complete block with an END mark in front of it, and a line behind it.
StrayFiles == {<<UserLine, LF, END_MARK, LF>> \o RenderBlock("n1", LF) \o <<UserLine, LF>>}
=============================================================================
