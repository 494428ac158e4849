------------------------------ MODULE PipeCapture ------------------------------
(***************************************************************************)
(* Class PipeCapture: what OnReadable() makes of the bytes a command       *)
(* writes.  Multi-byte characters may be split between two reads, and a    *)
(* minimal line discipline lets text progress bars overwrite themselves.   *)
(*                                                                         *)
(* Bytes are classes: lead2 and lead3 begin a character of two and three   *)
(* bytes, cont continues one, bad belongs to none; any other byte is a     *)
(* character.  A character of several bytes is named by its first.         *)
(***************************************************************************)
EXTENDS Integers, SequencesExt

CONSTANT READBUF_SIZE   \* size of m_readbuf, holds at least one character

ASSUME ReadbufAssumption == READBUF_SIZE \in Nat /\ READBUF_SIZE >= 3

\* PipeCapture::PipeCapture(): m_readbuf up to m_fill_offset, m_linevec, m_cursor,
\* m_capturebuf, m_line_start and m_callerbuf, which the caller sees
NewCapture == [readbuf |-> <<>>, linevec |-> <<>>, cursor |-> 0,
               capturebuf |-> <<>>, line_start |-> 0, callerbuf |-> <<>>]

\* Any byte which is not the name of what was found instead of a character
Byte == STRING \ {"INVALID", "PARTIAL"}

utf8_char_length(byte) ==
    CASE byte = "lead2" -> 2
      [] byte = "lead3" -> 3
      [] byte \in {"cont", "bad"} -> -1
      [] OTHER -> 1

\* get_utf8_char_validated() of the bytes from i on
get_utf8_char_validated(bytes, i) ==
    LET length == utf8_char_length(bytes[i])
        present == {j \in DOMAIN bytes : i < j /\ j < i + length}
    IN  IF length = -1 \/ \E j \in present : bytes[j] # "cont" THEN "INVALID"
        ELSE IF i + length - 1 > Len(bytes) THEN "PARTIAL"
        ELSE bytes[i]

Keep(chars, c) == IF c \in {"INVALID", "PARTIAL"} THEN chars ELSE Append(chars, c)

\* The loop over m_readbuf: the characters in it, invalid bytes skipped
Decoded(bytes) ==
    FoldLeft(Keep, <<>>, [i \in DOMAIN bytes |-> get_utf8_char_validated(bytes, i)])

\* MUTANT of PartialChar: what is left of a character is dropped
PartialChar_Dropped(bytes) == <<>>

\* The partial character at the end, which is kept for the next read
PartialChar(bytes) ==
    LET begun == {i \in DOMAIN bytes : get_utf8_char_validated(bytes, i) = "PARTIAL"}
    IN  IF begun = {} THEN <<>>
        ELSE SubSeq(bytes, CHOOSE i \in begun : TRUE, Len(bytes))

\* Replaces what m_capturebuf holds of the current line
Paste(pc) ==
    [pc EXCEPT !.capturebuf = SubSeq(@, 1, pc.line_start) \o pc.linevec]

\* The line discipline for one character
Put(pc, uc) ==
    CASE uc = "backspace" -> [pc EXCEPT !.cursor = IF @ > 0 THEN @ - 1 ELSE 0]
      [] uc = "return" -> [pc EXCEPT !.cursor = 0]
      [] uc = "newline" -> LET pasted == Paste([pc EXCEPT !.linevec = Append(@, uc)])
                      IN  [pasted EXCEPT !.line_start = Len(pasted.capturebuf),
                                         !.linevec = <<>>, !.cursor = 0]
      [] uc = "ctrl" -> pc          \* Ctrl-A and Ctrl-B of e2fsck
      [] OTHER -> [pc EXCEPT !.linevec = IF pc.cursor < Len(@)
                                         THEN [@ EXCEPT ![pc.cursor + 1] = uc]
                                         ELSE Append(@, uc),
                             !.cursor = @ + 1]

\* OnReadable() after a read of bytes; m_callerbuf is brought up to date when
\* somebody listens to signal_update
OnReadable(pc, bytes, listened) ==
    LET readbuf == pc.readbuf \o bytes
        line == FoldLeft(Put, [pc EXCEPT !.readbuf = PartialChar(readbuf)],
                         Decoded(readbuf))
        pasted == Paste(line)
    IN  IF listened THEN [pasted EXCEPT !.callerbuf = pasted.capturebuf] ELSE pasted

\* OnReadable() at the end of the file
OnEof(pc) == [pc EXCEPT !.callerbuf = pc.capturebuf]

----------------------------------------------------------------------------
(* What a terminal shows of the same bytes, for the properties.            *)

Move(column, c) ==
    CASE c = "backspace" -> IF column > 0 THEN column - 1 ELSE 0
      [] c = "return" -> 0
      [] c = "ctrl" -> column
      [] OTHER -> column + 1

\* Column before the character at j of a line
Column(line, j) == FoldLeft(Move, 0, SubSeq(line, 1, j - 1))

Printed(line) == {j \in DOMAIN line : line[j] \notin {"backspace", "return", "ctrl"}}

\* Every column shows the character printed there last.
ShownLine(line) ==
    LET columns == {Column(line, j) : j \in Printed(line)}
    IN  [k \in 1 .. Cardinality(columns) |->
            line[CHOOSE j \in Printed(line) :
                    /\ Column(line, j) = k - 1
                    /\ \A i \in Printed(line) : Column(line, i) = k - 1 => i <= j]]

\* A line is complete when a newline ends it.
Show(screen, c) ==
    IF c = "newline"
    THEN [above |-> screen.above \o Append(ShownLine(screen.line), c), line |-> <<>>]
    ELSE [screen EXCEPT !.line = Append(@, c)]

Screen(bytes) ==
    LET screen == FoldLeft(Show, [above |-> <<>>, line |-> <<>>], Decoded(bytes))
    IN  screen.above \o ShownLine(screen.line)
=============================================================================
