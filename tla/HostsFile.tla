----------------------------- MODULE HostsFile ------------------------------
(***************************************************************************)
(* src/src/hosts.rs: how the managed block is found and replaced in the    *)
(* text of the hosts file, and sync_hosts, which reads the file, computes  *)
(* the new text and writes it through a temporary file.  Any file          *)
(* operation may fail, the process may be killed between two of them, and  *)
(* the user may edit the file at any time.                                 *)
(*                                                                         *)
(* A text is a sequence of tokens: the two marks, the two line ends, a     *)
(* carriage return with no line feed behind it, the address line of a      *)
(* block (one token per set of names) and a user's line.                   *)
(***************************************************************************)
EXTENDS Naturals, Sequences, FiniteSets

CONSTANTS
    Names,      \* address lines render_block may write
    NoNames,    \* an empty list of names: no address line
    MaxCalls,   \* bound: how often sync_hosts is called
    MaxEdits,   \* bound: how often the user edits the file
    Files       \* texts the file may have at first

BEGIN_MARK == "BEGIN"
END_MARK == "END"
LF == "LF"
CRLF == "CRLF"
CR == "CR"
UserLine == "user"
Token == {BEGIN_MARK, END_MARK, LF, CRLF, CR, UserLine} \cup (Names \ {NoNames})

\* A carriage return and a line feed are the one token CRLF.
Joined(s) == \A i \in 1..(Len(s) - 1) : ~(s[i] = CR /\ s[i + 1] = LF)

ASSUME NamesAssumption == NoNames \in Names /\ Names \cap {BEGIN_MARK, END_MARK, LF, CRLF, CR} = {}
ASSUME FilesAssumption == Files \subseteq Seq(Token) /\ \A s \in Files : Joined(s)
ASSUME BoundAssumption == MaxCalls \in Nat /\ MaxEdits \in Nat

-----------------------------------------------------------------------------
(***************************************************************************)
(* The text.                                                               *)
(***************************************************************************)

Has(s, tok) == \E i \in DOMAIN s : s[i] = tok

\* str::find: the first place of tok, 0 if there is none.
Find(s, tok) ==
    IF Has(s, tok)
    THEN CHOOSE i \in DOMAIN s : s[i] = tok /\ \A j \in 1..(i - 1) : s[j] # tok
    ELSE 0

EndsInNewline(s) == s # <<>> /\ s[Len(s)] \in {LF, CRLF}
NewlineOf(s) == IF Has(s, CRLF) THEN CRLF ELSE LF

RenderBlock(ns, nl) ==
    IF ns = NoNames THEN <<BEGIN_MARK, nl, END_MARK, nl>>
    ELSE <<BEGIN_MARK, nl, ns, nl, END_MARK, nl>>

\* The place after one line end at i, if there is one.
SkipEol(s, i) == IF i <= Len(s) /\ s[i] \in {LF, CRLF} THEN i + 1 ELSE i

\* Everything from start up to, not including, after gives way to block.
Splice(s, start, after, block) ==
    SubSeq(s, 1, start - 1) \o block
        \o (IF EndsInNewline(block) THEN <<>> ELSE <<LF>>)
        \o SubSeq(s, after, Len(s))

\* A line feed is pushed behind a last line that has none; behind a carriage
\* return it makes a CRLF.
EndLine(s) ==
    IF s = <<>> \/ EndsInNewline(s) THEN s
    ELSE IF s[Len(s)] = CR THEN Append(SubSeq(s, 1, Len(s) - 1), CRLF)
    ELSE Append(s, LF)

AppendBlock(s, block) ==
    EndLine(s) \o (IF s = <<>> THEN <<>> ELSE <<NewlineOf(s)>>)
        \o block \o (IF EndsInNewline(block) THEN <<>> ELSE <<LF>>)

\* Mutant of ReplaceManagedBlock: the line end after the block is kept.
ReplaceKeepsEol(s, block) ==
    LET start == Find(s, BEGIN_MARK)
        end == Find(s, END_MARK)
    IN  IF start # 0 /\ end > start THEN Splice(s, start, end + 1, block)
        ELSE IF start # 0 THEN Splice(s, start, Len(s) + 1, block)
        ELSE AppendBlock(s, block)

\* Mutant of ReplaceManagedBlock: all that follows the block is cut off.
ReplaceTruncates(s, block) ==
    LET start == Find(s, BEGIN_MARK)
    IN  IF start # 0 THEN Splice(s, start, Len(s) + 1, block) ELSE AppendBlock(s, block)

\* The block from the first BEGIN to the first END is replaced; a BEGIN with
\* no END after it takes the rest of the file with it.
ReplaceManagedBlock(s, block) ==
    LET start == Find(s, BEGIN_MARK)
        end == Find(s, END_MARK)
    IN  IF start # 0 /\ end > start THEN Splice(s, start, SkipEol(s, end + 1), block)
        ELSE IF start # 0 THEN Splice(s, start, Len(s) + 1, block)
        ELSE AppendBlock(s, block)

\* What sync_hosts wants to write.
Updated(s, ns) == ReplaceManagedBlock(s, RenderBlock(ns, NewlineOf(s)))

-----------------------------------------------------------------------------
(***************************************************************************)
(* sync_hosts and write_atomic.                                            *)
(***************************************************************************)

VARIABLES
    pc,        \* where sync_hosts stands
    names,     \* its argument
    original,  \* what it read
    file,      \* the hosts file: its text, or Absent
    mode,      \* its permissions: the user's, or those of a new file
    tmp,       \* the temporary file: its text, or Absent
    tmpMode,   \* permissions of the temporary file
    outcome,   \* what the last call returned
    calls,     \* how often sync_hosts was called
    edits,     \* how often the user edited the file
    fellBack,  \* history: this call began a write in place
    unremoved, \* history: this call could not remove the temporary file
    seenMode   \* history: the permissions this call found, or "none"

history == <<fellBack, unremoved, seenMode>>
vars == <<pc, names, original, file, mode, tmp, tmpMode, outcome, calls, edits, history>>

Absent == <<"no file">>

\* Permissions: those the user gave first, those he changes them to, and those
\* of a file just created.
Mode == {"user", "changed", "new"}

Init ==
    /\ pc = "idle"
    /\ names = NoNames
    /\ original = <<>>
    /\ file \in Files
    /\ mode = "user"
    /\ tmp = Absent
    /\ tmpMode = "new"
    /\ outcome = "none"
    /\ calls = 0
    /\ edits = 0
    /\ fellBack = FALSE /\ unremoved = FALSE /\ seenMode = "none"

Return(how) == pc' = "idle" /\ outcome' = how

\* The prefixes of s that a write cut short may leave.
Cut(s) == {SubSeq(s, 1, n) : n \in 0..(Len(s) - 1)}

\* sync_hosts(path, ip, x) reads the file and finds it up to date, or goes on.
Read(x) ==
    /\ pc = "idle" /\ file # Absent
    /\ calls < MaxCalls /\ calls' = calls + 1
    /\ names' = x
    /\ original' = file
    /\ IF Updated(file, x) = file
       THEN Return("same")
       ELSE pc' = "writeTmp" /\ outcome' = "none"
    /\ fellBack' = FALSE /\ unremoved' = FALSE /\ seenMode' = "none"
    /\ UNCHANGED <<file, mode, tmp, tmpMode, edits>>

\* read_to_string fails: no such file, not UTF-8, not permitted.
ReadFails ==
    /\ pc = "idle"
    /\ calls < MaxCalls /\ calls' = calls + 1
    /\ Return("unread")
    /\ UNCHANGED <<names, original, file, mode, tmp, tmpMode, edits, history>>

\* Mutant of WriteTmp: a failed write is not noticed.
WriteTmpGoesOn ==
    /\ pc = "writeTmp"
    /\ tmp' \in Cut(Updated(original, names)) \cup {Updated(original, names)}
    /\ tmpMode' = IF tmp = Absent THEN "new" ELSE tmpMode
    /\ pc' = "copyMode"
    /\ UNCHANGED <<names, original, file, mode, outcome, calls, edits, history>>

\* fs::write(&tmp): creates or truncates it; if it cannot be opened or filled
\* the call ends.
WriteTmp ==
    /\ pc = "writeTmp"
    /\ \/ /\ tmp' = Updated(original, names)
          /\ tmpMode' = IF tmp = Absent THEN "new" ELSE tmpMode
          /\ pc' = "copyMode"
          /\ UNCHANGED outcome
       \/ /\ tmp' \in Cut(Updated(original, names)) \cup {tmp}
          /\ tmpMode' = IF tmp = Absent THEN "new" ELSE tmpMode
          /\ pc' = "cleanup"
          /\ outcome' = "error"
    /\ UNCHANGED <<names, original, file, mode, calls, edits, history>>

\* Mutant of CopyMode: the permissions are looked up, and not set.
LookAtMode ==
    /\ pc = "copyMode"
    /\ file # Absent /\ seenMode' = mode /\ pc' = "rename"
    /\ UNCHANGED <<names, original, file, mode, tmp, tmpMode, outcome, calls, edits, fellBack, unremoved>>

\* The permissions fs::metadata finds are set on the temporary file, and a
\* failure to set them ends the call; if it finds none, because the file is
\* gone or for any other reason, the call goes on without.
CopyMode ==
    /\ pc = "copyMode"
    /\ \/ /\ file # Absent /\ seenMode' = mode
          /\ \/ tmpMode' = mode /\ pc' = "rename" /\ UNCHANGED outcome
             \/ pc' = "cleanup" /\ outcome' = "error" /\ UNCHANGED tmpMode
       \/ pc' = "rename" /\ UNCHANGED <<tmpMode, outcome, seenMode>>
    /\ UNCHANGED <<names, original, file, mode, tmp, calls, edits, fellBack, unremoved>>

\* fs::rename; where it fails the file is written in place.
Rename ==
    /\ pc = "rename"
    /\ \/ /\ file' = tmp /\ mode' = tmpMode /\ tmp' = Absent
          /\ Return("changed")
       \/ /\ pc' = "writeInPlace"
          /\ UNCHANGED <<file, mode, tmp, outcome>>
    /\ UNCHANGED <<names, original, tmpMode, calls, edits, history>>

\* fs::write(path) truncates the file ...
Truncate ==
    /\ pc = "writeInPlace"
    /\ file' = <<>>
    /\ mode' = IF file = Absent THEN "new" ELSE mode
    /\ fellBack' = TRUE
    /\ pc' = "fill"
    /\ UNCHANGED <<names, original, tmp, tmpMode, outcome, calls, edits, unremoved, seenMode>>

\* ... and then fills it, wholly or in part.
Fill ==
    /\ pc = "fill"
    /\ \/ file' = Updated(original, names) /\ outcome' = "changed"
       \/ file' \in Cut(Updated(original, names)) /\ outcome' = "error"
    /\ pc' = "cleanup"
    /\ UNCHANGED <<names, original, mode, tmp, tmpMode, calls, edits, history>>

\* The file cannot even be opened for writing.
FillRefused ==
    /\ pc = "writeInPlace"
    /\ pc' = "cleanup" /\ outcome' = "error"
    /\ UNCHANGED <<names, original, file, mode, tmp, tmpMode, calls, edits, history>>

\* Mutant of Cleanup: the temporary file stays after an error.
CleanupOnSuccess ==
    /\ pc = "cleanup"
    /\ tmp' = IF outcome = "error" THEN tmp ELSE Absent
    /\ pc' = "idle"
    /\ UNCHANGED <<names, original, file, mode, tmpMode, outcome, calls, edits, history>>

\* The temporary file is removed, if that succeeds, and the call returns.
Cleanup ==
    /\ pc = "cleanup"
    /\ \/ tmp' = Absent /\ UNCHANGED unremoved
       \/ tmp # Absent /\ UNCHANGED tmp /\ unremoved' = TRUE
    /\ pc' = "idle"
    /\ UNCHANGED <<names, original, file, mode, tmpMode, outcome, calls, edits, fellBack, seenMode>>

\* The process is killed and starts again.
Crash ==
    /\ pc # "idle"
    /\ Return("crashed")
    /\ UNCHANGED <<names, original, file, mode, tmp, tmpMode, calls, edits, history>>

\* The user adds a line at the end, or at the beginning, of the file.
UserEdit ==
    /\ edits < MaxEdits /\ file # Absent
    /\ edits' = edits + 1
    /\ file' \in {file \o <<UserLine, LF>>, <<UserLine, LF>> \o file}
    /\ UNCHANGED <<pc, names, original, mode, tmp, tmpMode, outcome, calls, history>>

\* The user gives the file other permissions.
UserChmod ==
    /\ edits < MaxEdits /\ file # Absent
    /\ edits' = edits + 1
    /\ mode # "changed" /\ mode' = "changed"
    /\ UNCHANGED <<pc, names, original, file, tmp, tmpMode, outcome, calls, history>>

\* The user removes the file.
UserRemoves ==
    /\ edits < MaxEdits /\ file # Absent
    /\ edits' = edits + 1
    /\ file' = Absent
    /\ UNCHANGED <<pc, names, original, mode, tmp, tmpMode, outcome, calls, history>>

Sync ==
    \/ \E x \in Names : Read(x)
    \/ ReadFails \/ WriteTmp \/ CopyMode \/ Rename
    \/ Truncate \/ Fill \/ FillRefused \/ Cleanup

Next == Sync \/ Crash \/ UserEdit \/ UserChmod \/ UserRemoves

Spec == Init /\ [][Next]_vars

-----------------------------------------------------------------------------
(***************************************************************************)
(* Properties.                                                             *)
(***************************************************************************)

\* Types of the state.
TypeOK ==
    /\ pc \in {"idle", "writeTmp", "copyMode", "rename", "writeInPlace", "fill", "cleanup"}
    /\ names \in Names
    /\ original \in Seq(Token)
    /\ {file, tmp} \subseteq Seq(Token) \cup {Absent}
    /\ {mode, tmpMode} \subseteq Mode /\ seenMode \in Mode \cup {"none"}
    /\ outcome \in {"none", "same", "changed", "error", "unread", "crashed"}
    /\ calls \in 0..MaxCalls /\ edits \in 0..MaxEdits
    /\ fellBack \in BOOLEAN /\ unremoved \in BOOLEAN

Places(s, tok) == {i \in DOMAIN s : s[i] = tok}

\* No marks, or one BEGIN and, after it, one END.
WellFormed(s) ==
    \/ ~Has(s, BEGIN_MARK) /\ ~Has(s, END_MARK)
    \/ /\ Cardinality(Places(s, BEGIN_MARK)) = 1 /\ Cardinality(Places(s, END_MARK)) = 1
       /\ Find(s, BEGIN_MARK) < Find(s, END_MARK)

\* Place i lies between a BEGIN and an END.
Managed(s, i) ==
    \E b \in Places(s, BEGIN_MARK), e \in Places(s, END_MARK) :
        b < i /\ i < e /\ \A k \in b..i : s[k] # END_MARK

\* The user's lines outside every managed block.
UserLines(s) == Cardinality({i \in Places(s, UserLine) : ~Managed(s, i)})

\* A sync of a well-formed file leaves it so, with all the user's lines it
\* read, whatever the user did meanwhile (it may lose what it did not read).
KeepsRest ==
    [][(pc = "rename" /\ file' # file /\ edits' = edits /\ WellFormed(original)) =>
            WellFormed(file') /\ UserLines(file') = UserLines(original)]_vars

\* Wherever the process is killed and whatever fails, the hosts file is a
\* whole text, the old or the new one, unless this call began a write in
\* place; and only a rename changes its permissions: to those the call found
\* when it looked (the user's, if they are not changed in between), or, if it
\* could not look, to those of the temporary file.
CrashKeepsWhole ==
    [][/\ (file' # file /\ edits' = edits /\ ~fellBack') => file' = Updated(original, names)
       /\ (edits' = edits /\ file # Absent /\ file' # Absent /\ mode' # mode) =>
              pc = "rename" /\ seenMode \in {"none", mode'}]_vars

\* The one text whose line ends a sync turns: its last line ends in a carriage
\* return, and the line feed behind it makes the first CRLF.
TurnsCrlf(s) == ~Has(s, BEGIN_MARK) /\ ~Has(s, CRLF) /\ s # <<>> /\ s[Len(s)] = CR

\* A sync that succeeded is stable, on every text, malformed ones included:
\* the next poll with the same names finds nothing to do (else every poll
\* would rewrite the file, or it would grow).  Only where the sync itself
\* turned the line ends does the next one write the block anew, once.
SecondSyncQuiet ==
    (pc = "idle" /\ outcome = "changed" /\ file = Updated(original, names)) =>
        LET again == Updated(file, names)
        IN  (again = file \/ TurnsCrlf(original)) /\ Updated(again, names) = again

\* Every return of a sync that began to write, with success or error, leaves
\* no temporary file, not even one a killed process left before, unless this
\* call tried to remove it and could not.
NoTempLeft ==
    (pc = "idle" /\ outcome \in {"changed", "error"} /\ ~unremoved) => tmp = Absent

\* README.md:82: the program "leaves the rest of the file unchanged": no step
\* of the program, on any text, drops a line of the user outside a block.
LeavesRestUnchanged ==
    [][(edits' = edits /\ ~fellBack') => UserLines(file') = UserLines(file)]_vars
=============================================================================
