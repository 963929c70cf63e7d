----------------------------- MODULE Scrollback -----------------------------
(***************************************************************************)
(* What the console of kernel/console.c keeps and shows: the last Keep     *)
(* lines of everything written, and a window of Rows lines that stays with *)
(* the end of the text while it shows the end, and otherwise stays with    *)
(* the lines it shows until they are lost.  Lines are numbered from the    *)
(* first one written since the console was cleared.                        *)
(***************************************************************************)
EXTENDS Integers, Sequences

CONSTANTS Keep, Rows, Cols, Chars, Space

VARIABLES
  lines,    \* the lines kept, oldest first
  col,      \* the column the next character goes to
  len,      \* the length of the line being written
  first,    \* the number of the oldest line kept
  top,      \* the number of the first line in the window
  shown     \* whether the display shows the console

EmptyLine == [c \in 1 .. Cols |-> Space]
BlankPage == lines = <<EmptyLine>> /\ col = 0 /\ len = 0 /\ first = 0 /\ top = 0

ScrollbackInit == BlankPage /\ shown \in BOOLEAN

AtEnd == top + Rows >= first + Len(lines)
WindowAtEnd(start, n) == IF n > Rows THEN start + n - Rows ELSE start

(* The text becomes page, of which the last Keep lines are kept, and its   *)
(* last line, now of length n, goes on at column at.                       *)
Written(page, at, n) ==
  LET extra == IF Len(page) > Keep THEN Len(page) - Keep ELSE 0
  IN  /\ lines' = SubSeq(page, extra + 1, Len(page))
      /\ first' = first + extra
      /\ col' = at /\ len' = n
      /\ top' = IF AtEnd /\ shown THEN WindowAtEnd(first', Len(lines'))
                ELSE IF first' > top THEN first' ELSE top
      /\ UNCHANGED shown

LastLine == lines[Len(lines)]
SetLast(line) == [lines EXCEPT ![Len(lines)] = line]
Return == Written(lines, 0, len)

(* A line ends at its length: what an erasure left to the right of it goes *)
(* when the next line is begun.                                            *)
NewLine ==
  LET ended == [c \in 1 .. Cols |-> IF c > len THEN Space ELSE LastLine[c]]
  IN  Written(Append(SetLast(ended), EmptyLine), 0, 0)

Erase ==
  IF col = 0 THEN Written(lines, 0, len)
  ELSE Written(SetLast([LastLine EXCEPT ![col] = Space]), col - 1,
               IF len > col - 1 THEN col - 1 ELSE len)
Put(ch) ==
  LET page == SetLast([LastLine EXCEPT ![col + 1] = ch])
  IN  IF col + 1 = Cols THEN Written(Append(page, EmptyLine), 0, 0)
      ELSE Written(page, col + 1, IF len < col + 1 THEN col + 1 ELSE len)

Scroll ==
  /\ shown
  /\ top' \in {top - 1, top + 1} /\ top' >= first /\ top' + Rows <= first + Len(lines)
  /\ UNCHANGED <<lines, col, len, first, shown>>

Clear == BlankPage' /\ UNCHANGED shown
Show == shown' \in BOOLEAN /\ UNCHANGED <<lines, col, len, first, top>>

ScrollbackNext ==
  \/ NewLine \/ Return \/ Erase \/ Scroll \/ Clear \/ Show
  \/ \E ch \in Chars : Put(ch)

ScrollbackSpec ==
  ScrollbackInit /\ [][ScrollbackNext]_<<lines, col, len, first, top, shown>>
=============================================================================
