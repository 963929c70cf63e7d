------------------------------ MODULE Console ------------------------------
(***************************************************************************)
(* The text console of kernel/console.c: a ring of lines, the line and     *)
(* column being written, the window on the ring, and the screen that       *)
(* draw_screen copies the window to.                                       *)
(*                                                                         *)
(* console_write and console_puts are sequences of console_putc that draw  *)
(* once at the end.  Colours, serial output and the debug log are left     *)
(* out; vga_enabled and the framebuffer are settled before console_init.   *)
(***************************************************************************)
EXTENDS Integers

CONSTANTS
  BUF_LINES,
  Rows,         \* visible_rows
  Cols,         \* visible_cols
  Chars,        \* printing characters
  Space,
  MaxLost       \* bound on the lines lost since the last clear

ASSUME ConsoleAssumption ==
  /\ {BUF_LINES, Rows, Cols} \subseteq Nat \ {0} /\ Rows <= BUF_LINES
  /\ MaxLost \in Nat
  /\ Space \notin Chars

VARIABLES
  ring,           \* buf, line_len, head, count, cur_line, cur_col and view, the first
                  \* line of the window counted from head; and lost, a history
                  \* variable, the lines overwritten since the last clear
  logs_visible,   \* console_display_enabled
  display_hold,
  screen          \* what was drawn last: a function on the rows

vars == <<ring, logs_visible, display_hold, screen>>

Lines == 0 .. (BUF_LINES - 1)
Blank == [c \in 1 .. Cols |-> Space]
Splash == [r \in 0 .. (Rows - 1) |-> [c \in 1 .. Cols |-> "logo"]]

idx(h, off) == (h + off) % BUF_LINES

-----------------------------------------------------------------------------
Fresh == [buf |-> [l \in Lines |-> Blank], line_len |-> [l \in Lines |-> 0], head |-> 0,
          count |-> 1, cur_line |-> 0, cur_col |-> 0, view |-> 0, lost |-> 0]

erase_prev_char(s) ==
  IF s.cur_col = 0 THEN s
  ELSE [s EXCEPT !.buf[s.cur_line][s.cur_col] = Space,
                 !.cur_col = @ - 1,
                 !.line_len[s.cur_line] = IF @ > s.cur_col - 1 THEN s.cur_col - 1 ELSE @]

follow_tail(s) == s.count <= Rows \/ s.view + Rows >= s.count
TailStart(n) == IF n > Rows THEN n - Rows ELSE 0

(* The window when the oldest line is lost: the same lines, one nearer. *)
\* Mutant: leaves the offset alone, so the text slides through the window.
ViewSlides(v) == v
ViewAfterLoss(v) == IF v > 0 THEN v - 1 ELSE v

Cleared(b, l) == [b EXCEPT ![l] = Blank]

newline(s) ==
  LET next == (s.cur_line + 1) % BUF_LINES
      full == s.count >= BUF_LINES
      padded == [s.buf EXCEPT ![s.cur_line] =
                   [c \in 1 .. Cols |-> IF c > s.line_len[s.cur_line] THEN Space ELSE @[c]]]
  IN  [s EXCEPT !.buf = Cleared(padded, next),
                !.line_len[next] = 0,
                !.cur_col = 0,
                !.cur_line = next,
                !.count = IF full THEN @ ELSE @ + 1,
                !.head = IF full THEN (@ + 1) % BUF_LINES ELSE @,
                !.view = IF full THEN ViewAfterLoss(@) ELSE @,
                !.lost = IF full THEN @ + 1 ELSE @]

Wrapped(s) == IF s.cur_col >= Cols THEN newline(s) ELSE s
Stored(s, ch) ==
  [s EXCEPT !.buf[s.cur_line][s.cur_col + 1] = ch,
            !.cur_col = @ + 1,
            !.line_len[s.cur_line] = IF @ < s.cur_col + 1 THEN s.cur_col + 1 ELSE @]

Typed(s, ch) ==
  CASE ch = "LF" -> newline(s)
    [] ch = "CR" -> [s EXCEPT !.cur_col = 0]
    [] ch = "BS" -> erase_prev_char(s)
    [] OTHER -> Wrapped(Stored(Wrapped(s), ch))

Followed(s, follow) == IF follow /\ logs_visible THEN [s EXCEPT !.view = TailStart(s.count)] ELSE s

(* console_emit_char decides whether to follow before it writes. *)
console_emit_char(s, ch) == Followed(Typed(s, ch), follow_tail(s))

(***************************************************************************)
(* draw_screen, given the ring it draws and whether it may.                *)
(***************************************************************************)
Start(s) ==
  IF s.count <= Rows THEN 0
  ELSE IF s.view + Rows > s.count THEN s.count - Rows ELSE s.view

draw_screen(s, hold, visible) ==
  screen' = IF hold \/ ~visible THEN screen
            ELSE [r \in 0 .. (Rows - 1) |->
                    IF Start(s) + r >= s.count THEN Blank ELSE s.buf[idx(s.head, Start(s) + r)]]

-----------------------------------------------------------------------------
(* console_init; the boot command line may have hidden the logs. *)
Init ==
  /\ ring = Fresh
  /\ logs_visible \in BOOLEAN /\ display_hold = FALSE
  /\ screen = [r \in 0 .. (Rows - 1) |-> Blank]

console_putc(ch) ==
  LET s == console_emit_char(ring, ch)
  IN  /\ s.lost <= MaxLost
      /\ ring' = s
      /\ draw_screen(s, display_hold, logs_visible)
      /\ UNCHANGED <<logs_visible, display_hold>>

console_backspace ==
  LET erased == erase_prev_char(ring)
      s == Followed(erased, follow_tail(erased))
  IN  /\ ring' = s
      /\ draw_screen(s, display_hold, logs_visible)
      /\ UNCHANGED <<logs_visible, display_hold>>

console_clear ==
  /\ display_hold' = FALSE
  /\ ring' = Fresh
  /\ draw_screen(Fresh, FALSE, logs_visible)
  /\ UNCHANGED logs_visible

MoveWindow(v) ==
  /\ logs_visible
  /\ ring' = [ring EXCEPT !.view = v]
  /\ draw_screen([ring EXCEPT !.view = v], display_hold, logs_visible)
  /\ UNCHANGED <<logs_visible, display_hold>>

console_scroll_up == ring.view > 0 /\ MoveWindow(ring.view - 1)

\* Mutant: scrolls until the last line leaves the window.
ScrollDownTooFar == ring.view < ring.count /\ MoveWindow(ring.view + 1)
console_scroll_down == ring.view + Rows < ring.count /\ MoveWindow(ring.view + 1)

\* Mutant: shows the console again without drawing it.
ShowsWithoutDrawing(visible) ==
  logs_visible' = visible /\ UNCHANGED <<ring, display_hold, screen>>
console_set_logs_visible(visible) ==
  /\ logs_visible' = visible
  /\ draw_screen(ring, display_hold, visible)
  /\ UNCHANGED <<ring, display_hold>>

(* kernel_main draws the boot logo and holds the display. *)
console_hold_display_until_input ==
  /\ display_hold' = TRUE
  /\ screen' = Splash
  /\ UNCHANGED <<ring, logs_visible>>

(* console_getc releases the hold with every character it returns. *)
console_release_display_hold ==
  /\ display_hold
  /\ display_hold' = FALSE
  /\ draw_screen(ring, FALSE, logs_visible)
  /\ UNCHANGED <<ring, logs_visible>>

Next ==
  \/ \E ch \in Chars \cup {"LF", "CR", "BS"} : console_putc(ch)
  \/ console_backspace \/ console_clear \/ console_scroll_up \/ console_scroll_down
  \/ \E visible \in BOOLEAN : console_set_logs_visible(visible)
  \/ console_hold_display_until_input \/ console_release_display_hold

Spec == Init /\ [][Next]_vars

-----------------------------------------------------------------------------
TypeOK ==
  /\ ring.head \in Lines /\ ring.cur_line \in Lines
  /\ ring.count \in 1 .. BUF_LINES /\ ring.cur_col \in 0 .. (Cols - 1)
  /\ ring.view \in Nat /\ ring.lost \in Nat
  /\ ring.buf \in [Lines -> [1 .. Cols -> Chars \cup {Space}]]
  /\ ring.line_len \in [Lines -> 0 .. Cols]
  /\ logs_visible \in BOOLEAN /\ display_hold \in BOOLEAN

(***************************************************************************)
(* The line being written is always the newest of the ring, the ring only  *)
(* starts to turn when it is full, and the window never reaches past the   *)
(* newest line, so that draw_screen need not clamp it: newline, clearing   *)
(* and scrolling keep head, count, cur_line and view consistent when the   *)
(* ring wraps.                                                             *)
(***************************************************************************)
RingConsistent ==
  /\ ring.cur_line = idx(ring.head, ring.count - 1)
  /\ ring.count < BUF_LINES => ring.head = 0
  /\ ring.view <= TailStart(ring.count)

(***************************************************************************)
(* While the display shows the console and is not held for the boot logo,  *)
(* the screen shows the lines of the window as they are now: every         *)
(* operation that changes them, shows the logs again or lifts the hold     *)
(* draws the screen.  The ring it shows is well typed.                     *)
(***************************************************************************)
ScreenCurrent ==
  TypeOK /\ (logs_visible /\ ~display_hold =>
    \A r \in 0 .. (Rows - 1) :
      screen[r] = IF r < ring.count - ring.view THEN ring.buf[idx(ring.head, ring.view + r)] ELSE Blank)

(* The lines of a ring, oldest first. *)
Text(s) == [n \in 1 .. s.count |-> s.buf[idx(s.head, n - 1)]]

(***************************************************************************)
(* The ring implements the abstract text and window: the last BUF_LINES    *)
(* lines in order and nothing of what was overwritten; a window at the end *)
(* stays at the end, and one that was scrolled back keeps showing the same *)
(* lines while output goes on and the ring wraps under it.                 *)
(***************************************************************************)
Abstract == INSTANCE Scrollback WITH
  Keep <- BUF_LINES,
  lines <- Text(ring),
  col <- ring.cur_col,
  len <- ring.line_len[ring.cur_line],
  first <- ring.lost,
  top <- ring.lost + ring.view,
  shown <- logs_visible

ImplementsScrollback == Abstract!ScrollbackSpec
=============================================================================
