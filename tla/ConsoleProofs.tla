---------------------------- MODULE ConsoleProofs ---------------------------
(***************************************************************************)
(* For every number of lines, rows and columns: the scroll-back ring stays *)
(* consistent, the screen shows what the ring holds, and ring and window   *)
(* implement Scrollback.                                                   *)
(***************************************************************************)
EXTENDS Console, SequenceTheorems, TLAPS

(* A ring: the fields that RingConsistent is about, well typed. *)
Fields == {"buf", "line_len", "head", "count", "cur_line", "cur_col", "view", "lost"}

Ring(s) ==
  /\ DOMAIN s = Fields
  /\ s.head \in Lines /\ s.cur_line \in Lines /\ s.count \in 1 .. BUF_LINES
  /\ s.view \in Nat /\ s.cur_col \in Nat
  /\ s.cur_line = idx(s.head, s.count - 1)
  /\ s.count < BUF_LINES => s.head = 0
  /\ s.view <= TailStart(s.count)

LEMMA Mod1 ==
  ASSUME NEW n \in Nat, n < BUF_LINES PROVE n % BUF_LINES = n
  BY ConsoleAssumption, SMTT(30)

LEMMA Mod2 ==
  ASSUME NEW n \in Nat, BUF_LINES <= n, n < 2 * BUF_LINES
  PROVE  n % BUF_LINES = n - BUF_LINES
  BY ConsoleAssumption, SMTT(30)

(* The line after the newest is the oldest of a full ring, or a new one. *)
LEMMA NextLine ==
  ASSUME NEW h \in Lines, NEW n \in 1 .. BUF_LINES, n < BUF_LINES => h = 0
  PROVE  LET next == (idx(h, n - 1) + 1) % BUF_LINES
         IN  /\ next \in Lines
             /\ n < BUF_LINES => next = idx(h, n)
             /\ n >= BUF_LINES => /\ (h + 1) % BUF_LINES \in Lines
                                  /\ next = idx((h + 1) % BUF_LINES, n - 1)
<1>0. BUF_LINES \in Nat \ {0} /\ h \in 0 .. (BUF_LINES - 1)
  BY ConsoleAssumption DEF Lines
<1>1. CASE n < BUF_LINES
  <2>1. h = 0 /\ n - 1 \in Nat /\ n - 1 < BUF_LINES
    BY <1>0, <1>1
  <2>2. idx(h, n - 1) = n - 1 /\ idx(h, n) = n
    BY <1>0, <1>1, <2>1, Mod1 DEF idx
  <2>3. (n - 1 + 1) % BUF_LINES = n
    BY <1>0, <1>1, Mod1
  <2> QED BY <1>0, <1>1, <2>2, <2>3 DEF Lines
<1>2. CASE n >= BUF_LINES
  <2>1. n = BUF_LINES
    BY <1>0, <1>2
  <2>2. (idx(h, n - 1) + 1) % BUF_LINES = h
    <3>1. CASE h = 0
      <4>1. idx(h, n - 1) = BUF_LINES - 1
        BY <1>0, <2>1, <3>1, Mod1 DEF idx
      <4>2. BUF_LINES % BUF_LINES = 0
        BY <1>0, Mod2
      <4> QED BY <1>0, <3>1, <4>1, <4>2
    <3>2. CASE h # 0
      <4>1. idx(h, n - 1) = h - 1
        BY <1>0, <2>1, <3>2, Mod2 DEF idx
      <4> QED BY <1>0, <3>2, <4>1, Mod1
    <3> QED BY <3>1, <3>2
  <2>3. CASE h = BUF_LINES - 1
    <3>1. (h + 1) % BUF_LINES = 0
      BY <1>0, <2>3, Mod2
    <3>2. idx(0, n - 1) = BUF_LINES - 1
      BY <1>0, <2>1, Mod1 DEF idx
    <3> QED BY <1>0, <2>1, <2>2, <2>3, <3>1, <3>2 DEF Lines
  <2>4. CASE h # BUF_LINES - 1
    <3>1. (h + 1) % BUF_LINES = h + 1
      BY <1>0, <2>4, Mod1
    <3>2. idx(h + 1, n - 1) = h
      BY <1>0, <2>1, <2>4, Mod2 DEF idx
    <3> QED BY <1>0, <2>1, <2>2, <2>4, <3>1, <3>2 DEF Lines
  <2> QED BY <2>3, <2>4
<1> QED BY <1>0, <1>1, <1>2

LEMMA NewlineRing ==
  ASSUME NEW s, Ring(s) PROVE Ring(newline(s))
<1> DEFINE t == newline(s)
           next == (s.cur_line + 1) % BUF_LINES
<1> SUFFICES Ring(t)
  OBVIOUS
<1>1. /\ s.head \in Lines /\ s.count \in 1 .. BUF_LINES /\ s.view \in Nat
      /\ DOMAIN s = Fields
      /\ s.count < BUF_LINES => s.head = 0
      /\ s.cur_line = idx(s.head, s.count - 1) /\ s.view <= TailStart(s.count)
      /\ BUF_LINES \in Nat \ {0} /\ Rows \in Nat \ {0}
  BY ConsoleAssumption DEF Ring
<1>2. /\ DOMAIN t = Fields /\ t.cur_line = next /\ t.cur_col = 0
      /\ t.count = IF s.count >= BUF_LINES THEN s.count ELSE s.count + 1
      /\ t.head = IF s.count >= BUF_LINES THEN (s.head + 1) % BUF_LINES ELSE s.head
      /\ t.view = IF s.count >= BUF_LINES THEN ViewAfterLoss(s.view) ELSE s.view
  BY <1>1 DEF newline, Fields
<1> HIDE DEF t
<1>3. /\ next \in Lines
      /\ s.count < BUF_LINES => next = idx(s.head, s.count)
      /\ s.count >= BUF_LINES => /\ (s.head + 1) % BUF_LINES \in Lines
                                 /\ next = idx((s.head + 1) % BUF_LINES, s.count - 1)
  BY <1>1, NextLine
<1> HIDE DEF next
<1>4. CASE s.count >= BUF_LINES
  <2>1. /\ t.count = s.count /\ t.count = BUF_LINES /\ t.head = (s.head + 1) % BUF_LINES
        /\ t.view = ViewAfterLoss(s.view)
    BY <1>1, <1>2, <1>4
  <2>2. t.cur_line = idx(t.head, t.count - 1)
    BY <1>2, <1>3, <1>4, <2>1
  <2>3. t.view \in Nat /\ t.view <= s.view
    BY <1>1, <2>1 DEF ViewAfterLoss
  <2>4. TailStart(s.count) \in Nat
    BY <1>1 DEF TailStart
  <2>5. t.view <= TailStart(t.count)
    BY <1>1, <2>1, <2>3, <2>4
  <2>6. t.head \in Lines /\ t.cur_line \in Lines
    BY <1>2, <1>3, <1>4, <2>1
  <2>7. t.count \in 1 .. BUF_LINES /\ ~(t.count < BUF_LINES)
    BY <1>1, <2>1
  <2>8. DOMAIN t = Fields /\ t.cur_col \in Nat
    BY <1>2
  <2> QED BY <2>2, <2>3, <2>5, <2>6, <2>7, <2>8, Zenon DEF Ring
<1>5. CASE ~(s.count >= BUF_LINES)
  <2>0. s.count < BUF_LINES
    BY <1>1, <1>5
  <2>1. t.count = s.count + 1 /\ t.head = s.head /\ t.view = s.view
    BY <1>2, <1>5
  <2>2. t.count \in 1 .. BUF_LINES /\ t.count - 1 = s.count /\ t.head = 0
    BY <1>1, <2>0, <2>1
  <2>3. t.cur_line = idx(t.head, t.count - 1)
    BY <1>2, <1>3, <2>0, <2>1, <2>2
  <2>4. TailStart(s.count) \in Nat /\ TailStart(t.count) \in Nat /\ TailStart(s.count) <= TailStart(t.count)
    BY <1>1, <2>1 DEF TailStart
  <2>5. t.view \in Nat /\ t.view <= TailStart(t.count)
    BY <1>1, <2>1, <2>4
  <2>6. t.head \in Lines /\ t.cur_line \in Lines
    BY <1>1, <1>2, <1>3, <2>1
  <2>7. DOMAIN t = Fields /\ t.cur_col \in Nat
    BY <1>2
  <2> QED BY <2>2, <2>3, <2>5, <2>6, <2>7, Zenon DEF Ring
<1> QED BY <1>4, <1>5

(* What a step leaves alone keeps a ring a ring. *)
LEMMA SameRing ==
  ASSUME NEW s, NEW t, Ring(s), DOMAIN t = Fields, t.cur_col \in Nat,
         t.head = s.head, t.cur_line = s.cur_line, t.count = s.count, t.view = s.view
  PROVE  Ring(t)
  BY DEF Ring

LEMMA EraseRing ==
  ASSUME NEW s, Ring(s) PROVE Ring(erase_prev_char(s))
<1> DEFINE t == erase_prev_char(s)
<1>1. CASE s.cur_col = 0
  BY <1>1 DEF erase_prev_char
<1>2. CASE s.cur_col # 0
  <2>1. DOMAIN s = Fields /\ s.cur_col \in Nat
    BY DEF Ring
  <2>2. /\ DOMAIN t = Fields /\ t.head = s.head /\ t.cur_line = s.cur_line
        /\ t.count = s.count /\ t.view = s.view /\ t.cur_col = s.cur_col - 1
    BY <1>2, <2>1 DEF erase_prev_char, Fields
  <2> HIDE DEF t
  <2>3. Ring(t)
    BY <1>2, <2>1, <2>2, SameRing
  <2> QED BY <2>3 DEF t
<1> QED BY <1>1, <1>2

LEMMA TypedRing ==
  ASSUME NEW s, NEW ch, Ring(s) PROVE Ring(Typed(s, ch))
<1>1. ASSUME NEW r, Ring(r) PROVE Ring(Wrapped(r))
  BY <1>1, NewlineRing DEF Wrapped
<1>2. ASSUME NEW r, Ring(r) PROVE Ring(Stored(r, ch))
  <2> DEFINE t == Stored(r, ch)
  <2>1. DOMAIN r = Fields /\ r.cur_col \in Nat
    BY <1>2 DEF Ring
  <2>2. /\ DOMAIN t = Fields /\ t.head = r.head /\ t.cur_line = r.cur_line
        /\ t.count = r.count /\ t.view = r.view /\ t.cur_col = r.cur_col + 1
    BY <2>1 DEF Stored, Fields
  <2> HIDE DEF t
  <2>3. Ring(t)
    BY <1>2, <2>1, <2>2, SameRing
  <2> QED BY <2>3 DEF t
<1>3. Ring([s EXCEPT !.cur_col = 0])
  <2> DEFINE t == [s EXCEPT !.cur_col = 0]
  <2>1. /\ DOMAIN t = Fields /\ t.head = s.head /\ t.cur_line = s.cur_line
        /\ t.count = s.count /\ t.view = s.view /\ t.cur_col = 0
    BY DEF Ring, Fields
  <2> HIDE DEF t
  <2>2. Ring(t)
    BY <2>1, SameRing
  <2> QED BY <2>2 DEF t
<1>4. Ring(newline(s)) /\ Ring(Wrapped(Stored(Wrapped(s), ch)))
  BY <1>1, <1>2, NewlineRing
<1> QED BY <1>3, <1>4, EraseRing DEF Typed

LEMMA FollowedRing ==
  ASSUME NEW s, NEW follow, Ring(s) PROVE Ring(Followed(s, follow))
<1> DEFINE t == [s EXCEPT !.view = TailStart(s.count)]
<1>1. Ring(t)
  <2>1. /\ DOMAIN t = Fields /\ t.head = s.head /\ t.cur_line = s.cur_line
        /\ t.count = s.count /\ t.cur_col = s.cur_col /\ t.view = TailStart(s.count)
    BY DEF Ring, Fields
  <2> HIDE DEF t
  <2>2. TailStart(s.count) \in Nat
    BY ConsoleAssumption DEF TailStart, Ring
  <2> QED BY <2>1, <2>2 DEF Ring
<1> QED BY <1>1 DEF Followed

LEMMA FreshRing == Ring(Fresh)
<1> DEFINE t == Fresh
<1>1. /\ DOMAIN t = Fields /\ t.head = 0 /\ t.count = 1
      /\ t.cur_line = 0 /\ t.cur_col = 0 /\ t.view = 0
  BY DEF Fresh, Fields
<1> SUFFICES Ring(t)
  OBVIOUS
<1> HIDE DEF t
<1>2. idx(0, 0) = 0 /\ TailStart(1) = 0 /\ 0 \in Lines /\ 1 \in 1 .. BUF_LINES
  BY ConsoleAssumption, Mod1 DEF idx, TailStart, Lines
<1> QED BY <1>1, <1>2 DEF Ring

(* The inductive invariant. *)
IInv == Ring(ring)

LEMMA RingStep == Ring(ring) /\ [Next]_vars => Ring(ring')
<1> SUFFICES ASSUME Ring(ring), [Next]_vars PROVE Ring(ring')
  OBVIOUS
<1>1. ASSUME NEW ch \in Chars \cup {"LF", "CR", "BS"}, console_putc(ch)
      PROVE  Ring(ring')
  BY <1>1, TypedRing, FollowedRing DEF console_putc, console_emit_char
<1>2. CASE console_backspace
  <2>1. Ring(erase_prev_char(ring))
    BY EraseRing
  <2> QED BY <1>2, <2>1, FollowedRing DEF console_backspace
<1>3. CASE console_clear
  BY <1>3, FreshRing DEF console_clear
<1>4. ASSUME NEW v \in Nat, v <= TailStart(ring.count), MoveWindow(v) PROVE Ring(ring')
  <2>1. /\ DOMAIN ring' = Fields /\ ring'.head = ring.head /\ ring'.cur_line = ring.cur_line
        /\ ring'.count = ring.count /\ ring'.cur_col = ring.cur_col /\ ring'.view = v
    BY <1>4 DEF MoveWindow, Ring, Fields
  <2> QED BY <1>4, <2>1 DEF Ring
<1>5. CASE console_scroll_up
  <2>1. ring.view - 1 \in Nat /\ ring.view - 1 <= TailStart(ring.count)
    BY <1>5, ConsoleAssumption DEF console_scroll_up, Ring, TailStart
  <2> QED BY <1>4, <1>5, <2>1 DEF console_scroll_up
<1>6. CASE console_scroll_down
  <2>1. ring.view + 1 \in Nat /\ ring.view + 1 <= TailStart(ring.count)
    BY <1>6, ConsoleAssumption DEF console_scroll_down, Ring, TailStart
  <2> QED BY <1>4, <1>6, <2>1 DEF console_scroll_down
<1>7. CASE UNCHANGED ring
  BY <1>7
<1> QED
  BY <1>1, <1>2, <1>3, <1>5, <1>6, <1>7, Zenon
  DEF Next, vars, console_set_logs_visible, console_hold_display_until_input,
      console_release_display_hold

(***************************************************************************)
(* For every number of lines, rows and columns, the line being written is  *)
(* the newest of the ring, the ring turns only when it is full, and the    *)
(* window never reaches past the newest line, through every wrap caused by *)
(* newline and every scroll of kernel/console.c.                           *)
(***************************************************************************)
THEOREM RingStaysConsistent == Spec => []RingConsistent
<1>1. Init => IInv
  BY FreshRing DEF Init, IInv
<1>2. IInv /\ [Next]_vars => IInv'
  BY RingStep DEF IInv
<1>3. IInv => RingConsistent
  BY DEF IInv, Ring, RingConsistent
<1> QED BY <1>1, <1>2, <1>3, PTL DEF Spec

-----------------------------------------------------------------------------
LEMMA IsSequence ==
  ASSUME NEW n \in Nat, NEW S, NEW f \in [1 .. n -> S]
  PROVE  f \in Seq(S) /\ Len(f) = n
  OBVIOUS

(* What a ring stores, well typed. *)
Line == [1 .. Cols -> Chars \cup {Space}]
Store(s) ==
  /\ DOMAIN s = Fields
  /\ s.cur_line \in Lines /\ s.cur_col \in 0 .. Cols /\ s.lost \in Nat
  /\ s.buf \in [Lines -> Line] /\ s.line_len \in [Lines -> 0 .. Cols]

(* The line being written as newline leaves it. *)
Ended(s) == [c \in 1 .. Cols |-> IF c > s.line_len[s.cur_line] THEN Space ELSE s.buf[s.cur_line][c]]

LEMMA BlankLine == Blank \in Line
  BY DEF Blank, Line

LEMMA NewlineFacts ==
  ASSUME NEW s, Ring(s), Store(s), NEW t, t = newline(s)
  PROVE  /\ Store(t) /\ t.cur_col = 0 /\ t.line_len[t.cur_line] = 0
         /\ \A l \in Lines : t.buf[l] = IF l = t.cur_line THEN Blank
                                        ELSE IF l = s.cur_line THEN Ended(s) ELSE s.buf[l]
         /\ t.lost = IF s.count >= BUF_LINES THEN s.lost + 1 ELSE s.lost
<1> DEFINE padded == [s.buf EXCEPT ![s.cur_line] = Ended(s)]
           next == (s.cur_line + 1) % BUF_LINES
<1>0. next \in Lines
  BY NextLine DEF Ring
<1>1. DOMAIN s = Fields /\ s.cur_line \in Lines /\ s.buf \in [Lines -> Line]
  BY DEF Store
<1>2. /\ DOMAIN t = Fields /\ t.cur_line = next /\ t.cur_col = 0
      /\ t.line_len = [s.line_len EXCEPT ![next] = 0]
      /\ t.lost = IF s.count >= BUF_LINES THEN s.lost + 1 ELSE s.lost
  BY <1>1 DEF newline, Fields
<1>3. t.buf = Cleared(padded, next)
  BY <1>1 DEF newline, Fields, Ended
<1>4. Ended(s) \in Line
  BY <1>1 DEF Ended, Line
<1> HIDE DEF padded, next
<1>5. /\ padded \in [Lines -> Line]
      /\ \A l \in Lines : padded[l] = IF l = s.cur_line THEN Ended(s) ELSE s.buf[l]
  BY <1>1, <1>4 DEF padded
<1>6. /\ t.buf \in [Lines -> Line]
      /\ \A l \in Lines : t.buf[l] = IF l = next THEN Blank ELSE padded[l]
  BY <1>3, <1>5, BlankLine DEF Cleared
<1>7. /\ t.line_len \in [Lines -> 0 .. Cols] /\ t.line_len[next] = 0
      /\ t.lost \in Nat /\ t.cur_col \in 0 .. Cols
  <2>1. s.line_len \in [Lines -> 0 .. Cols] /\ s.lost \in Nat /\ 0 \in 0 .. Cols
    BY ConsoleAssumption DEF Store
  <2>2. t.line_len \in [Lines -> 0 .. Cols] /\ t.line_len[next] = 0
    BY <1>0, <1>2, <2>1
  <2>3. t.lost \in Nat
    BY <1>2, <2>1
  <2> QED BY <1>2, <2>1, <2>2, <2>3, Zenon
<1>8. Store(t)
  BY <1>0, <1>2, <1>6, <1>7, Zenon DEF Store
<1> QED BY <1>2, <1>5, <1>6, <1>7, <1>8

(* Stored and erase_prev_char change one line and where it ends. *)
LEMMA StoredFacts ==
  ASSUME NEW s, Store(s), s.cur_col < Cols, NEW ch \in Chars, NEW t, t = Stored(s, ch)
  PROVE  /\ Store(t)
         /\ t.head = s.head /\ t.cur_line = s.cur_line /\ t.count = s.count
         /\ t.view = s.view /\ t.lost = s.lost /\ t.cur_col = s.cur_col + 1
         /\ \A l \in Lines : t.buf[l] = IF l = s.cur_line
                                        THEN [s.buf[l] EXCEPT ![s.cur_col + 1] = ch] ELSE s.buf[l]
         /\ t.line_len[t.cur_line] = IF s.line_len[s.cur_line] < s.cur_col + 1 THEN s.cur_col + 1
                                     ELSE s.line_len[s.cur_line]
<1>1. /\ DOMAIN s = Fields /\ s.cur_line \in Lines /\ s.buf \in [Lines -> Line]
      /\ s.line_len \in [Lines -> 0 .. Cols] /\ s.cur_col \in 0 .. Cols /\ s.lost \in Nat
      /\ Cols \in Nat
  BY ConsoleAssumption DEF Store
<1>2. /\ DOMAIN t = Fields
      /\ t.head = s.head /\ t.cur_line = s.cur_line /\ t.count = s.count
      /\ t.view = s.view /\ t.lost = s.lost /\ t.cur_col = s.cur_col + 1
  BY <1>1 DEF Stored, Fields
<1> DEFINE line == [s.buf[s.cur_line] EXCEPT ![s.cur_col + 1] = ch]
           len == IF s.line_len[s.cur_line] < s.cur_col + 1 THEN s.cur_col + 1
                  ELSE s.line_len[s.cur_line]
<1>3. t.buf = [s.buf EXCEPT ![s.cur_line] = line]
  BY <1>1 DEF Stored, Fields
<1>4. t.line_len = [s.line_len EXCEPT ![s.cur_line] = len]
  BY <1>1 DEF Stored, Fields
<1>5. line \in Line /\ len \in 0 .. Cols
  BY <1>1 DEF Line
<1> HIDE DEF line, len
<1>6. /\ t.buf \in [Lines -> Line]
      /\ \A l \in Lines : t.buf[l] = IF l = s.cur_line THEN line ELSE s.buf[l]
  BY <1>1, <1>3, <1>5
<1>7. t.line_len \in [Lines -> 0 .. Cols] /\ t.line_len[t.cur_line] = len
  BY <1>1, <1>2, <1>4, <1>5
<1>8. t.cur_col \in 0 .. Cols
  BY <1>1, <1>2
<1>9. Store(t)
  BY <1>1, <1>2, <1>6, <1>7, <1>8, Zenon DEF Store
<1> QED BY <1>2, <1>6, <1>7, <1>9 DEF line, len

LEMMA EraseFacts ==
  ASSUME NEW s, Store(s), s.cur_col # 0, NEW t, t = erase_prev_char(s)
  PROVE  /\ Store(t)
         /\ t.head = s.head /\ t.cur_line = s.cur_line /\ t.count = s.count
         /\ t.view = s.view /\ t.lost = s.lost /\ t.cur_col = s.cur_col - 1
         /\ \A l \in Lines : t.buf[l] = IF l = s.cur_line
                                        THEN [s.buf[l] EXCEPT ![s.cur_col] = Space] ELSE s.buf[l]
         /\ t.line_len[t.cur_line] = IF s.line_len[s.cur_line] > s.cur_col - 1 THEN s.cur_col - 1
                                     ELSE s.line_len[s.cur_line]
<1>1. /\ DOMAIN s = Fields /\ s.cur_line \in Lines /\ s.buf \in [Lines -> Line]
      /\ s.line_len \in [Lines -> 0 .. Cols] /\ s.cur_col \in 0 .. Cols /\ s.lost \in Nat
      /\ Cols \in Nat
  BY ConsoleAssumption DEF Store
<1> DEFINE line == [s.buf[s.cur_line] EXCEPT ![s.cur_col] = Space]
           len == IF s.line_len[s.cur_line] > s.cur_col - 1 THEN s.cur_col - 1
                  ELSE s.line_len[s.cur_line]
           u == [s EXCEPT !.buf[s.cur_line][s.cur_col] = Space, !.cur_col = @ - 1,
                          !.line_len[s.cur_line] = IF @ > s.cur_col - 1 THEN s.cur_col - 1 ELSE @]
<1>0. t = u
  BY DEF erase_prev_char
<1>2. /\ DOMAIN t = Fields
      /\ t.head = s.head /\ t.cur_line = s.cur_line /\ t.count = s.count
      /\ t.view = s.view /\ t.lost = s.lost /\ t.cur_col = s.cur_col - 1
  BY <1>0, <1>1 DEF Fields
<1>3. t.buf = [s.buf EXCEPT ![s.cur_line] = line]
  BY <1>0, <1>1 DEF Fields
<1>4. t.line_len = [s.line_len EXCEPT ![s.cur_line] = len]
  BY <1>0, <1>1 DEF Fields
<1>5. line \in Line /\ len \in 0 .. Cols
  BY <1>1 DEF Line
<1> HIDE DEF line, len, u
<1>6. /\ t.buf \in [Lines -> Line]
      /\ \A l \in Lines : t.buf[l] = IF l = s.cur_line THEN line ELSE s.buf[l]
  BY <1>1, <1>3, <1>5
<1>7. t.line_len \in [Lines -> 0 .. Cols] /\ t.line_len[t.cur_line] = len
  BY <1>1, <1>2, <1>4, <1>5
<1>8. t.cur_col \in 0 .. Cols
  BY <1>1, <1>2
<1>9. Store(t)
  BY <1>1, <1>2, <1>6, <1>7, <1>8, Zenon DEF Store
<1> QED BY <1>2, <1>6, <1>7, <1>9 DEF line, len

(* The offsets of a ring are lines of its own. *)
LEMMA OffsetLines ==
  ASSUME NEW h \in Lines, NEW a \in 0 .. (BUF_LINES - 1), NEW b \in 0 .. (BUF_LINES - 1)
  PROVE  idx(h, a) \in Lines /\ (idx(h, a) = idx(h, b) => a = b)
<1>0. BUF_LINES \in Nat \ {0} /\ h \in 0 .. (BUF_LINES - 1)
  BY ConsoleAssumption DEF Lines
<1>1. ASSUME NEW n \in 0 .. (BUF_LINES - 1)
      PROVE  idx(h, n) = IF h + n < BUF_LINES THEN h + n ELSE h + n - BUF_LINES
  <2>1. CASE h + n < BUF_LINES
    BY <1>0, <2>1, Mod1 DEF idx
  <2>2. CASE ~(h + n < BUF_LINES)
    BY <1>0, <2>2, Mod2 DEF idx
  <2> QED BY <2>1, <2>2
<1>2. /\ idx(h, a) = IF h + a < BUF_LINES THEN h + a ELSE h + a - BUF_LINES
      /\ idx(h, b) = IF h + b < BUF_LINES THEN h + b ELSE h + b - BUF_LINES
  BY <1>1
<1>3. Lines = 0 .. (BUF_LINES - 1)
  BY DEF Lines
<1> QED BY <1>0, <1>2, <1>3

(* The lines of a ring as a sequence; the one being written is the last. *)
LEMMA TextFacts ==
  ASSUME NEW s, Ring(s), Store(s)
  PROVE  /\ Text(s) \in Seq(Line) /\ Len(Text(s)) = s.count
         /\ \A n \in 1 .. s.count :
              /\ Text(s)[n] = s.buf[idx(s.head, n - 1)]
              /\ idx(s.head, n - 1) \in Lines
              /\ idx(s.head, n - 1) = s.cur_line <=> n = s.count
<1>1. /\ s.head \in Lines /\ s.count \in 1 .. BUF_LINES /\ s.cur_line = idx(s.head, s.count - 1)
      /\ s.buf \in [Lines -> Line] /\ BUF_LINES \in Nat \ {0}
  BY ConsoleAssumption DEF Ring, Store
<1>2. ASSUME NEW n \in 1 .. s.count
      PROVE  /\ idx(s.head, n - 1) \in Lines
             /\ idx(s.head, n - 1) = s.cur_line <=> n = s.count
  <2>1. n - 1 \in 0 .. (BUF_LINES - 1) /\ s.count - 1 \in 0 .. (BUF_LINES - 1)
    BY <1>1
  <2>2. idx(s.head, n - 1) = idx(s.head, s.count - 1) => n - 1 = s.count - 1
    BY <1>1, <2>1, OffsetLines
  <2> QED BY <1>1, <2>1, <2>2, OffsetLines
<1>3. Text(s) \in [1 .. s.count -> Line]
  BY <1>1, <1>2 DEF Text
<1>4. s.count \in Nat
  BY <1>1
<1>5. Text(s) \in Seq(Line) /\ Len(Text(s)) = s.count
  BY <1>3, <1>4, IsSequence
<1>6. \A n \in 1 .. s.count : Text(s)[n] = s.buf[idx(s.head, n - 1)]
  BY DEF Text
<1> QED BY <1>2, <1>5, <1>6

(* Writing in the last line of a ring. *)
LEMMA LastWritten ==
  ASSUME NEW s, NEW t, Ring(s), Store(s), Ring(t), Store(t), NEW line \in Line,
         t.head = s.head, t.count = s.count,
         \A l \in Lines : t.buf[l] = IF l = s.cur_line THEN line ELSE s.buf[l]
  PROVE  Text(t) = [Text(s) EXCEPT ![s.count] = line]
<1> DEFINE n == s.count
           set == [Text(s) EXCEPT ![n] = line]
<1>1. /\ n \in Nat \ {0} /\ Text(s) \in Seq(Line) /\ Len(Text(s)) = n
      /\ Text(t) \in Seq(Line) /\ Len(Text(t)) = n
  <2>1. n \in Nat \ {0}
    BY ConsoleAssumption DEF Ring
  <2> QED BY <2>1, TextFacts, Zenon
<1>2. \A i \in 1 .. n : Text(t)[i] = IF i = n THEN line ELSE Text(s)[i]
  BY TextFacts
<1> HIDE DEF n
<1>3. /\ set \in Seq(Line) /\ Len(set) = n
      /\ \A i \in 1 .. n : set[i] = IF i = n THEN line ELSE Text(s)[i]
  <2>1. n \in 1 .. Len(Text(s))
    BY <1>1
  <2> QED BY <1>1, <2>1, ExceptSeq
<1> HIDE DEF set
<1>4. Text(t) = set
  BY <1>1, <1>2, <1>3, SeqEqual
<1> QED BY <1>4 DEF set, n

(* One line further in a ring that has turned by one. *)
LEMMA TurnedOffset ==
  ASSUME NEW h \in Lines, NEW i \in 1 .. BUF_LINES
  PROVE  idx((h + 1) % BUF_LINES, i - 1) = idx(h, i)
<1>0. BUF_LINES \in Nat \ {0} /\ h \in 0 .. (BUF_LINES - 1)
  BY ConsoleAssumption DEF Lines
<1>1. CASE h + 1 < BUF_LINES
  <2>1. (h + 1) % BUF_LINES = h + 1 /\ h + 1 + (i - 1) = h + i
    BY <1>0, <1>1, Mod1
  <2> QED BY <2>1 DEF idx
<1>2. CASE h + 1 = BUF_LINES
  <2>1. (h + 1) % BUF_LINES = 0
    BY <1>0, <1>2, Mod2
  <2>2. (0 + (i - 1)) % BUF_LINES = i - 1
    BY <1>0, Mod1
  <2>3. (h + i) % BUF_LINES = h + i - BUF_LINES
    BY <1>0, <1>2, Mod2
  <2> QED BY <1>0, <1>2, <2>1, <2>2, <2>3 DEF idx
<1> QED BY <1>0, <1>1, <1>2

(* The last elements of a sequence that two appends made. *)
LEMMA PageFacts ==
  ASSUME NEW text \in Seq(Line), NEW n \in Nat \ {0}, Len(text) = n,
         NEW line \in Line, NEW more \in Line, NEW d \in {0, 1}
  PROVE  LET page == Append([text EXCEPT ![n] = line], more)
             rest == SubSeq(page, d + 1, n + 1)
         IN  /\ page \in Seq(Line) /\ Len(page) = n + 1
             /\ rest \in Seq(Line) /\ Len(rest) = n + 1 - d
             /\ \A i \in 1 .. (n + 1 - d) :
                  rest[i] = IF i + d = n + 1 THEN more ELSE IF i + d = n THEN line ELSE text[i + d]
<1> DEFINE set == [text EXCEPT ![n] = line]
           page == Append(set, more)
           rest == SubSeq(page, d + 1, n + 1)
<1>2. /\ set \in Seq(Line) /\ Len(set) = n
      /\ \A i \in 1 .. n : set[i] = IF i = n THEN line ELSE text[i]
  <2>1. n \in 1 .. Len(text)
    OBVIOUS
  <2> QED BY <2>1, ExceptSeq
<1> HIDE DEF set
<1>3. /\ page \in Seq(Line) /\ Len(page) = n + 1
      /\ \A i \in 1 .. (n + 1) : page[i] = IF i = n + 1 THEN more ELSE set[i]
  <2>1. /\ page \in Seq(Line) /\ Len(page) = Len(set) + 1
        /\ \A i \in 1 .. Len(set) : page[i] = set[i]
        /\ page[Len(set) + 1] = more
    BY <1>2, AppendProperties
  <2> HIDE DEF page
  <2> QED BY <1>2, <2>1
<1> HIDE DEF page
<1>4. /\ rest \in Seq(Line) /\ Len(rest) = n + 1 - d
      /\ \A i \in 1 .. (n + 1 - d) : rest[i] = page[i + d]
  <2>1. /\ d + 1 \in Int /\ n + 1 \in Int /\ (n + 1) - (d + 1) + 1 = n + 1 - d /\ d + 1 <= n + 1
        /\ \A i \in Int : (d + 1) + i - 1 = i + d
    OBVIOUS
  <2>2. \A i \in (d + 1) .. (n + 1) : page[i] \in Line
    BY <1>3, ElementOfSeq
  <2>3. /\ rest \in Seq(Line)
        /\ Len(rest) = IF d + 1 <= n + 1 THEN (n + 1) - (d + 1) + 1 ELSE 0
        /\ \A i \in 1 .. ((n + 1) - (d + 1) + 1) : rest[i] = page[(d + 1) + i - 1]
    BY <2>1, <2>2, SubSeqProperties
  <2> HIDE DEF rest
  <2> QED BY <2>1, <2>3
<1> HIDE DEF rest
<1>5. ASSUME NEW i \in 1 .. (n + 1 - d)
      PROVE  rest[i] = IF i + d = n + 1 THEN more ELSE IF i + d = n THEN line ELSE text[i + d]
  <2>1. rest[i] = page[i + d] /\ i + d \in 1 .. (n + 1)
    BY <1>4
  <2>2. page[i + d] = IF i + d = n + 1 THEN more ELSE set[i + d]
    BY <1>3, <2>1
  <2>3. i + d # n + 1 => set[i + d] = IF i + d = n THEN line ELSE text[i + d]
    BY <1>2, <2>1
  <2> QED BY <2>1, <2>2, <2>3
<1>6. /\ page \in Seq(Line) /\ Len(page) = n + 1
      /\ rest \in Seq(Line) /\ Len(rest) = n + 1 - d
      /\ \A i \in 1 .. (n + 1 - d) :
           rest[i] = IF i + d = n + 1 THEN more ELSE IF i + d = n THEN line ELSE text[i + d]
  BY <1>3, <1>4, <1>5
<1> QED BY <1>6, Zenon DEF rest, page, set

(***************************************************************************)
(* newline ends the last line and begins another; a full ring loses its    *)
(* oldest line for it, and the window goes with the lines it shows.        *)
(***************************************************************************)
LEMMA NewlineText ==
  ASSUME NEW s, Ring(s), Store(s), NEW t, t = newline(s)
  PROVE  LET page == Append([Text(s) EXCEPT ![s.count] = Ended(s)], Blank)
             d == IF s.count + 1 > BUF_LINES THEN 1 ELSE 0
         IN  /\ Len(page) = s.count + 1
             /\ Text(t) = SubSeq(page, d + 1, s.count + 1)
             /\ t.count = s.count + 1 - d /\ t.lost = s.lost + d
             /\ t.lost + t.view = IF d = 1 /\ s.view = 0 THEN t.lost ELSE s.lost + s.view
<1> DEFINE n == s.count
           d == IF n + 1 > BUF_LINES THEN 1 ELSE 0
           page == Append([Text(s) EXCEPT ![n] = Ended(s)], Blank)
           rest == SubSeq(page, d + 1, n + 1)
<1>1. /\ s.head \in Lines /\ s.count \in 1 .. BUF_LINES /\ s.view \in Nat
      /\ s.cur_line = idx(s.head, s.count - 1) /\ (s.count < BUF_LINES => s.head = 0)
      /\ s.lost \in Nat /\ BUF_LINES \in Nat \ {0} /\ DOMAIN s = Fields /\ n = s.count
      /\ s.cur_line \in Lines /\ s.buf \in [Lines -> Line]
  BY ConsoleAssumption DEF Ring, Store
<1>3. Ring(t) /\ Store(t)
  BY NewlineRing, NewlineFacts
<1>4. /\ \A l \in Lines : t.buf[l] = IF l = t.cur_line THEN Blank
                                     ELSE IF l = s.cur_line THEN Ended(s) ELSE s.buf[l]
      /\ t.lost = IF s.count >= BUF_LINES THEN s.lost + 1 ELSE s.lost
  BY NewlineFacts
<1>5. /\ t.count = IF s.count >= BUF_LINES THEN s.count ELSE s.count + 1
      /\ t.head = IF s.count >= BUF_LINES THEN (s.head + 1) % BUF_LINES ELSE s.head
      /\ t.view = IF s.count >= BUF_LINES THEN ViewAfterLoss(s.view) ELSE s.view
  BY <1>1 DEF newline, Fields
<1> HIDE DEF n
<1>6. /\ d \in {0, 1} /\ (d = 1 <=> n >= BUF_LINES) /\ n \in Nat \ {0}
      /\ t.count = n + 1 - d /\ t.lost = s.lost + d /\ t.count \in Nat
  BY <1>1, <1>4, <1>5
<1> HIDE DEF d
<1>7. t.lost + t.view = IF d = 1 /\ s.view = 0 THEN t.lost ELSE s.lost + s.view
  <2>1. CASE d = 1
    BY <1>1, <1>5, <1>6, <2>1 DEF ViewAfterLoss
  <2>2. CASE d = 0
    BY <1>1, <1>5, <1>6, <2>2
  <2> QED BY <1>6, <2>1, <2>2
<1>8. Ended(s) \in Line
  BY <1>1 DEF Ended, Line
<1>9. /\ Text(s) \in Seq(Line) /\ Len(Text(s)) = n
      /\ Text(t) \in Seq(Line) /\ Len(Text(t)) = n + 1 - d
  BY <1>1, <1>3, <1>6, TextFacts, Zenon
<1>10. /\ Len(page) = n + 1
       /\ rest \in Seq(Line) /\ Len(rest) = n + 1 - d
       /\ \A i \in 1 .. (n + 1 - d) :
            rest[i] = IF i + d = n + 1 THEN Blank ELSE IF i + d = n THEN Ended(s) ELSE Text(s)[i + d]
  BY <1>6, <1>8, <1>9, BlankLine, PageFacts
<1> HIDE DEF rest, page
<1>11. ASSUME NEW i \in 1 .. (n + 1 - d)
       PROVE  Text(t)[i] = rest[i]
  <2>1. /\ Text(t)[i] = t.buf[idx(t.head, i - 1)] /\ idx(t.head, i - 1) \in Lines
        /\ idx(t.head, i - 1) = t.cur_line <=> i = n + 1 - d
    BY <1>3, <1>6, TextFacts
  <2>2. CASE i = n + 1 - d
    <3>1. Text(t)[i] = Blank
      BY <1>4, <2>1, <2>2
    <3>2. i + d = n + 1
      BY <1>6, <2>2
    <3> QED BY <1>10, <3>1, <3>2
  <2>3. CASE i # n + 1 - d
    <3>1. i + d \in 1 .. n /\ i \in 1 .. BUF_LINES /\ i + d # n + 1
      BY <1>1, <1>6, <2>3
    <3>2. idx(t.head, i - 1) = idx(s.head, (i + d) - 1)
      <4>1. CASE d = 1
        <5>1. (i + d) - 1 = i /\ t.head = (s.head + 1) % BUF_LINES
          BY <1>1, <1>5, <1>6, <4>1
        <5> QED BY <1>1, <3>1, <5>1, TurnedOffset
      <4>2. CASE d = 0
        BY <1>1, <1>5, <1>6, <4>2
      <4> QED BY <1>6, <4>1, <4>2
    <3>3. /\ Text(s)[i + d] = s.buf[idx(s.head, (i + d) - 1)]
          /\ idx(s.head, (i + d) - 1) = s.cur_line <=> i + d = n
      BY <1>1, <3>1, TextFacts
    <3>4. Text(t)[i] = IF i + d = n THEN Ended(s) ELSE Text(s)[i + d]
      BY <1>4, <2>1, <2>3, <3>2, <3>3
    <3> QED BY <1>10, <3>1, <3>4
  <2> QED BY <2>2, <2>3
<1>12. Text(t) = rest
  BY <1>9, <1>10, <1>11, SeqEqual
<1> QED BY <1>6, <1>7, <1>10, <1>12, Zenon DEF rest, page, d, n

(***************************************************************************)
(* Between the rings s and t the text became page, which goes on at column *)
(* at of a last line of length n, and the window has not been moved yet.   *)
(***************************************************************************)
Extra(page) == IF Len(page) > BUF_LINES THEN Len(page) - BUF_LINES ELSE 0
Turned(s, t, page, at, n) ==
  /\ Text(t) = SubSeq(page, Extra(page) + 1, Len(page))
  /\ t.lost = s.lost + Extra(page) /\ t.cur_col = at /\ t.line_len[t.cur_line] = n
  /\ t.lost + t.view = IF s.lost + s.view >= t.lost THEN s.lost + s.view ELSE t.lost

LEMMA WholeSubSeq ==
  ASSUME NEW S, NEW text \in Seq(S) PROVE SubSeq(text, 1, Len(text)) = text
<1> DEFINE n == Len(text)
           sub == SubSeq(text, 1, n)
<1>1. n \in Nat /\ \A i \in 1 .. n : text[i] \in S
  BY LenProperties, ElementOfSeq
<1>2. text \in Seq(S) /\ Len(text) = n
  OBVIOUS
<1> HIDE DEF n
<1>3. 1 \in Int /\ n \in Int /\ n - 1 + 1 = n /\ \A i \in Int : 1 + i - 1 = i
  BY <1>1
<1>4. /\ sub \in Seq(S) /\ Len(sub) = IF 1 <= n THEN n - 1 + 1 ELSE 0
      /\ \A i \in 1 .. (n - 1 + 1) : sub[i] = text[1 + i - 1]
  BY <1>1, <1>3, SubSeqProperties
<1> HIDE DEF sub
<1>5. Len(sub) = n /\ \A i \in 1 .. n : sub[i] = text[i]
  BY <1>1, <1>3, <1>4
<1>6. sub = text
  BY <1>2, <1>4, <1>5, SeqEqual
<1> QED BY <1>6 DEF sub, n

LEMMA SameTurned ==
  ASSUME NEW s, NEW t, Ring(s), Store(s), Ring(t), Store(t),
         t.lost = s.lost, t.view = s.view
  PROVE  Turned(s, t, Text(t), t.cur_col, t.line_len[t.cur_line])
<1>1. Text(t) \in Seq(Line) /\ Len(Text(t)) = t.count
  BY TextFacts
<1>2. /\ t.count \in 1 .. BUF_LINES /\ BUF_LINES \in Nat /\ s.lost \in Nat /\ s.view \in Nat
  BY ConsoleAssumption DEF Ring, Store
<1>3. Extra(Text(t)) = 0
  BY <1>1, <1>2 DEF Extra
<1>4. SubSeq(Text(t), 1, Len(Text(t))) = Text(t)
  BY <1>1, WholeSubSeq
<1>5. t.lost + t.view = IF s.lost + s.view >= t.lost THEN s.lost + s.view ELSE t.lost
  BY <1>2
<1>6. t.lost = s.lost + 0 /\ 0 + 1 = 1
  BY <1>2
<1> QED BY <1>3, <1>4, <1>5, <1>6, Zenon DEF Turned

LEMMA NewlineTurned ==
  ASSUME NEW s, NEW t, Ring(s), Store(s), t = newline(s)
  PROVE  Turned(s, t, Append([Text(s) EXCEPT ![s.count] = Ended(s)], Blank), 0, 0)
<1> DEFINE page == Append([Text(s) EXCEPT ![s.count] = Ended(s)], Blank)
           d == IF s.count + 1 > BUF_LINES THEN 1 ELSE 0
<1>1. /\ Len(page) = s.count + 1
      /\ Text(t) = SubSeq(page, d + 1, s.count + 1)
      /\ t.lost = s.lost + d
      /\ t.lost + t.view = IF d = 1 /\ s.view = 0 THEN t.lost ELSE s.lost + s.view
  BY NewlineText, Zenon
<1>2. t.cur_col = 0 /\ t.line_len[t.cur_line] = 0
  BY NewlineFacts
<1>3. /\ s.count \in 1 .. BUF_LINES /\ BUF_LINES \in Nat /\ s.lost \in Nat /\ s.view \in Nat
  BY ConsoleAssumption DEF Ring, Store
<1> HIDE DEF page
<1>4. Extra(page) = d
  BY <1>1, <1>3 DEF Extra
<1>5. t.lost + t.view = IF s.lost + s.view >= t.lost THEN s.lost + s.view ELSE t.lost
  BY <1>1, <1>3
<1> HIDE DEF d
<1>6. Turned(s, t, page, 0, 0)
  BY <1>1, <1>2, <1>4, <1>5, Zenon DEF Turned
<1> QED BY <1>6 DEF page

LEMMA LastLine ==
  ASSUME NEW s, Ring(s), Store(s)
  PROVE  Text(s)[s.count] = s.buf[s.cur_line] /\ s.buf[s.cur_line] \in Line
<1>1. s.count \in 1 .. s.count /\ s.cur_line \in Lines /\ s.buf \in [Lines -> Line]
  BY ConsoleAssumption DEF Ring, Store
<1> QED BY <1>1, TextFacts

(* erase_prev_char, where there is a character to erase. *)
LEMMA EraseTurned ==
  ASSUME NEW s, NEW t, Ring(s), Store(s), s.cur_col # 0, t = erase_prev_char(s)
  PROVE  Turned(s, t, [Text(s) EXCEPT ![s.count] = [Text(s)[s.count] EXCEPT ![s.cur_col] = Space]],
                s.cur_col - 1, IF s.line_len[s.cur_line] > s.cur_col - 1 THEN s.cur_col - 1
                               ELSE s.line_len[s.cur_line])
<1> DEFINE line == [s.buf[s.cur_line] EXCEPT ![s.cur_col] = Space]
           len == IF s.line_len[s.cur_line] > s.cur_col - 1 THEN s.cur_col - 1
                  ELSE s.line_len[s.cur_line]
<1>1. Ring(t)
  BY EraseRing
<1>2. /\ Store(t) /\ t.head = s.head /\ t.count = s.count
      /\ t.view = s.view /\ t.lost = s.lost /\ t.cur_col = s.cur_col - 1
      /\ t.line_len[t.cur_line] = len
      /\ \A l \in Lines : t.buf[l] = IF l = s.cur_line
                                     THEN [s.buf[l] EXCEPT ![s.cur_col] = Space] ELSE s.buf[l]
  BY EraseFacts
<1>3. line \in Line
  BY LastLine, ConsoleAssumption DEF Line, Store
<1>4. Text(t) = [Text(s) EXCEPT ![s.count] = line]
  <2>1. \A l \in Lines : t.buf[l] = IF l = s.cur_line THEN line ELSE s.buf[l]
    BY <1>2
  <2> HIDE DEF line
  <2>2. Store(t) /\ t.head = s.head /\ t.count = s.count
    BY <1>2
  <2> QED BY <1>1, <1>3, <2>1, <2>2, LastWritten
<1>5. line = [Text(s)[s.count] EXCEPT ![s.cur_col] = Space]
  BY LastLine
<1> HIDE DEF line, len
<1>6. Turned(s, t, Text(t), s.cur_col - 1, len)
  BY <1>1, <1>2, SameTurned
<1> QED BY <1>4, <1>5, <1>6, Zenon DEF len

(* A printing character, and the new line begun when it fills the last one. *)
LEMMA PutTurned ==
  ASSUME NEW s, NEW t, NEW ch \in Chars, Ring(s), Store(s), s.cur_col < Cols,
         t = Wrapped(Stored(s, ch))
  PROVE  LET page == [Text(s) EXCEPT ![s.count] = [Text(s)[s.count] EXCEPT ![s.cur_col + 1] = ch]]
         IN  /\ Ring(t) /\ Store(t) /\ t.cur_col < Cols
             /\ s.cur_col + 1 = Cols => Turned(s, t, Append(page, Blank), 0, 0)
             /\ s.cur_col + 1 # Cols =>
                  Turned(s, t, page, s.cur_col + 1,
                         IF s.line_len[s.cur_line] < s.cur_col + 1 THEN s.cur_col + 1
                         ELSE s.line_len[s.cur_line])
<1> DEFINE u == Stored(s, ch)
           line == [s.buf[s.cur_line] EXCEPT ![s.cur_col + 1] = ch]
           len == IF s.line_len[s.cur_line] < s.cur_col + 1 THEN s.cur_col + 1
                  ELSE s.line_len[s.cur_line]
           page == [Text(s) EXCEPT ![s.count] = line]
<1>0. /\ s.cur_col \in 0 .. (Cols - 1) /\ Cols \in Nat \ {0} /\ s.lost \in Nat
      /\ s.line_len[s.cur_line] \in 0 .. Cols /\ s.cur_line \in Lines
  BY ConsoleAssumption DEF Store
<1>1. /\ Store(u) /\ u.head = s.head /\ u.count = s.count /\ u.cur_line = s.cur_line
      /\ u.view = s.view /\ u.lost = s.lost /\ u.cur_col = s.cur_col + 1
      /\ u.line_len[u.cur_line] = len
      /\ \A l \in Lines : u.buf[l] = IF l = s.cur_line
                                     THEN [s.buf[l] EXCEPT ![s.cur_col + 1] = ch] ELSE s.buf[l]
  BY StoredFacts
<1>2. t = Wrapped(u)
  OBVIOUS
<1> HIDE DEF u, len
<1>3. Ring(u)
  <2>1. DOMAIN u = Fields /\ u.cur_col \in Nat
    <3>1. Store(u) /\ u.cur_col = s.cur_col + 1
      BY <1>1
    <3> QED BY <1>0, <3>1 DEF Store
  <2> QED BY <1>1, <2>1, SameRing
<1>4. line \in Line
  BY <1>0, LastLine DEF Line
<1>5. Text(u) = page
  <2>1. \A l \in Lines : u.buf[l] = IF l = s.cur_line THEN line ELSE s.buf[l]
    BY <1>1
  <2> HIDE DEF line
  <2>2. Store(u) /\ u.head = s.head /\ u.count = s.count
    BY <1>1
  <2> QED BY <1>3, <1>4, <2>1, <2>2, LastWritten
<1>6. line = [Text(s)[s.count] EXCEPT ![s.cur_col + 1] = ch]
  BY LastLine
<1>7. CASE s.cur_col + 1 = Cols
  <2>1. t = newline(u)
    BY <1>0, <1>1, <1>2, <1>7 DEF Wrapped
  <2>2. Ring(t) /\ Store(t) /\ t.cur_col = 0
    <3>1. Store(u)
      BY <1>1
    <3> QED BY <1>3, <2>1, <3>1, NewlineRing, NewlineFacts
  <2>3. Ended(u) = u.buf[u.cur_line]
    <3>1. u.line_len[u.cur_line] = Cols
      <4>1. len = Cols
        BY <1>0, <1>7 DEF len
      <4> QED BY <1>1, <4>1
    <3>2. u.buf[u.cur_line] \in [1 .. Cols -> Chars \cup {Space}]
      BY <1>1, <1>3, LastLine DEF Line
    <3>3. \A c \in 1 .. Cols : ~(c > Cols)
      BY ConsoleAssumption
    <3> QED BY <3>1, <3>2, <3>3 DEF Ended
  <2>4. [Text(u) EXCEPT ![u.count] = Ended(u)] = Text(u)
    <3>1. \A l \in Lines : u.buf[l] = IF l = u.cur_line THEN u.buf[u.cur_line] ELSE u.buf[l]
      OBVIOUS
    <3>2. u.buf[u.cur_line] \in Line
      BY <1>1, <1>3, LastLine
    <3>3. Store(u) /\ u.head = u.head /\ u.count = u.count
      BY <1>1
    <3>4. Text(u) = [Text(u) EXCEPT ![u.count] = u.buf[u.cur_line]]
      BY <1>3, <3>1, <3>2, <3>3, LastWritten, Zenon
    <3> QED BY <2>3, <3>4
  <2>5. Turned(u, t, Append(Text(u), Blank), 0, 0)
    BY <1>1, <1>3, <2>1, <2>4, NewlineTurned
  <2>6. Turned(s, t, Append(Text(u), Blank), 0, 0)
    BY <1>1, <2>5, Zenon DEF Turned
  <2>7. t.cur_col < Cols
    BY <1>0, <2>2
  <2> QED BY <1>5, <1>6, <1>7, <2>2, <2>6, <2>7, Zenon
<1>8. CASE s.cur_col + 1 # Cols
  <2>1. t = u /\ t.cur_col < Cols
    BY <1>0, <1>1, <1>2, <1>8 DEF Wrapped
  <2>2. Turned(s, u, Text(u), s.cur_col + 1, len)
    BY <1>1, <1>3, SameTurned
  <2>3. Ring(t) /\ Store(t) /\ Turned(s, t, page, s.cur_col + 1, len)
    BY <1>1, <1>3, <1>5, <2>1, <2>2
  <2> HIDE DEF page, line
  <2> QED BY <1>6, <1>8, <2>1, <2>3, Zenon DEF len, page
<1> QED BY <1>7, <1>8

-----------------------------------------------------------------------------
(* The invariant of the ring with what it stores. *)
Writable(s) == Ring(s) /\ Store(s) /\ s.cur_col < Cols

LEMMA FreshWritable == Writable(Fresh)
<1> DEFINE t == Fresh
<1>1. /\ DOMAIN t = Fields /\ t.cur_line = 0 /\ t.cur_col = 0 /\ t.lost = 0
      /\ t.buf = [l \in Lines |-> Blank] /\ t.line_len = [l \in Lines |-> 0]
  BY DEF Fresh, Fields
<1> HIDE DEF t
<1>2. 0 \in Lines /\ 0 \in 0 .. Cols /\ 0 < Cols
  BY ConsoleAssumption DEF Lines
<1>3. Store(t)
  BY <1>1, <1>2, BlankLine DEF Store
<1> QED BY <1>1, <1>2, <1>3, FreshRing DEF Writable, t

LEMMA Numbers ==
  ASSUME NEW s, Writable(s)
  PROVE  s.lost \in Nat /\ s.view \in Nat /\ s.count \in Nat /\ s.view <= TailStart(s.count)
<1>1. s.lost \in Nat
  BY DEF Writable, Store
<1>2. s.view \in Nat /\ s.count \in 1 .. BUF_LINES /\ s.view <= TailStart(s.count)
  BY DEF Writable, Ring
<1> QED BY <1>1, <1>2, ConsoleAssumption

LEMMA SameText ==
  ASSUME NEW s, NEW t, t.buf = s.buf, t.head = s.head, t.count = s.count
  PROVE  Text(t) = Text(s)
  BY DEF Text

(* Moving the window changes nothing else. *)
LEMMA ViewOnly ==
  ASSUME NEW s, Store(s), NEW v, NEW t, t = [s EXCEPT !.view = v]
  PROVE  /\ t.buf = s.buf /\ t.line_len = s.line_len /\ t.head = s.head /\ t.count = s.count
         /\ t.cur_line = s.cur_line /\ t.cur_col = s.cur_col /\ t.lost = s.lost /\ t.view = v
         /\ Store(t) /\ Text(t) = Text(s)
<1>1. /\ DOMAIN t = Fields
      /\ t.buf = s.buf /\ t.line_len = s.line_len /\ t.head = s.head /\ t.count = s.count
      /\ t.cur_line = s.cur_line /\ t.cur_col = s.cur_col /\ t.lost = s.lost /\ t.view = v
  BY DEF Store, Fields
<1>2. Store(t)
  BY <1>1 DEF Store
<1>3. Text(t) = Text(s)
  BY <1>1, SameText
<1> QED BY <1>1, <1>2, <1>3

LEMMA FollowedWritable ==
  ASSUME NEW s, NEW follow, Writable(s) PROVE Writable(Followed(s, follow))
<1>1. Ring(Followed(s, follow))
  BY FollowedRing DEF Writable
<1>2. CASE follow /\ logs_visible
  <2> DEFINE t == [s EXCEPT !.view = TailStart(s.count)]
  <2>1. Followed(s, follow) = t
    BY <1>2 DEF Followed
  <2>2. Store(t) /\ t.cur_col = s.cur_col
    BY ViewOnly DEF Writable
  <2> HIDE DEF t
  <2> QED BY <1>1, <2>1, <2>2 DEF Writable
<1>3. CASE ~(follow /\ logs_visible)
  BY <1>3 DEF Followed
<1> QED BY <1>2, <1>3

LEMMA EraseWritable ==
  ASSUME NEW s, Writable(s) PROVE Writable(erase_prev_char(s))
<1> DEFINE t == erase_prev_char(s)
<1>1. Ring(t)
  BY EraseRing DEF Writable
<1>2. CASE s.cur_col = 0
  BY <1>2 DEF erase_prev_char
<1>3. CASE s.cur_col # 0
  <2>1. Store(t) /\ t.cur_col = s.cur_col - 1
    BY <1>3, EraseFacts DEF Writable
  <2>2. s.cur_col \in Nat /\ s.cur_col < Cols /\ Cols \in Nat
    BY ConsoleAssumption DEF Writable, Store
  <2> HIDE DEF t
  <2>3. t.cur_col < Cols
    BY <2>1, <2>2
  <2> QED BY <1>1, <2>1, <2>3 DEF Writable, t
<1> QED BY <1>2, <1>3

LEMMA ReturnFacts ==
  ASSUME NEW s, Writable(s), NEW t, t = [s EXCEPT !.cur_col = 0]
  PROVE  /\ Writable(t) /\ t.cur_col = 0 /\ Text(t) = Text(s) /\ t.lost = s.lost /\ t.view = s.view
         /\ t.line_len[t.cur_line] = s.line_len[s.cur_line]
<1>1. /\ DOMAIN t = Fields
      /\ t.buf = s.buf /\ t.line_len = s.line_len /\ t.head = s.head /\ t.count = s.count
      /\ t.cur_line = s.cur_line /\ t.cur_col = 0 /\ t.lost = s.lost /\ t.view = s.view
  BY DEF Writable, Store, Fields
<1>2. Ring(t)
  <2>1. Ring(s) /\ 0 \in Nat
    BY DEF Writable
  <2> QED BY <1>1, <2>1, SameRing
<1>3. Store(t) /\ t.cur_col < Cols
  BY <1>1, ConsoleAssumption DEF Writable, Store
<1>4. Text(t) = Text(s)
  BY <1>1, SameText
<1> QED BY <1>1, <1>2, <1>3, <1>4 DEF Writable

LEMMA PutIs ==
  ASSUME NEW s, NEW ch, Writable(s), ch \notin {"LF", "CR", "BS"}
  PROVE  Typed(s, ch) = Wrapped(Stored(s, ch))
<1>1. Wrapped(s) = s
  <2>1. ~(s.cur_col >= Cols)
    BY ConsoleAssumption DEF Writable, Store
  <2> QED BY <2>1 DEF Wrapped
<1>2. ch # "LF" /\ ch # "CR" /\ ch # "BS"
  OBVIOUS
<1> QED BY <1>1, <1>2 DEF Typed

LEMMA TypedWritable ==
  ASSUME NEW s, NEW ch \in Chars \cup {"LF", "CR", "BS"}, Writable(s)
  PROVE  Writable(Typed(s, ch))
<1>1. CASE ch = "LF"
  <2>1. Typed(s, ch) = newline(s)
    BY <1>1 DEF Typed
  <2>2. Ring(newline(s)) /\ Store(newline(s)) /\ newline(s).cur_col = 0
    BY NewlineRing, NewlineFacts DEF Writable
  <2>3. 0 < Cols
    BY ConsoleAssumption
  <2> QED BY <2>1, <2>2, <2>3 DEF Writable
<1>2. CASE ch = "CR"
  <2>1. Typed(s, ch) = [s EXCEPT !.cur_col = 0]
    BY <1>2 DEF Typed
  <2> QED BY <2>1, ReturnFacts
<1>3. CASE ch = "BS"
  <2>1. Typed(s, ch) = erase_prev_char(s)
    BY <1>3 DEF Typed
  <2> QED BY <2>1, EraseWritable
<1>4. CASE ch \notin {"LF", "CR", "BS"}
  <2>1. ch \in Chars
    BY <1>4
  <2>2. Typed(s, ch) = Wrapped(Stored(s, ch))
    BY <1>4, PutIs
  <2> DEFINE t == Wrapped(Stored(s, ch))
  <2>3. Ring(t) /\ Store(t) /\ t.cur_col < Cols
    BY <2>1, PutTurned DEF Writable
  <2> HIDE DEF t
  <2> QED BY <2>2, <2>3 DEF Writable, t
<1> QED BY <1>1, <1>2, <1>3, <1>4

-----------------------------------------------------------------------------
(* What the screen shows of a ring. *)
Shows(drawn, s) ==
  \A r \in 0 .. (Rows - 1) :
    drawn[r] = IF r < s.count - s.view THEN s.buf[idx(s.head, s.view + r)] ELSE Blank

SInv ==
  /\ Writable(ring) /\ logs_visible \in BOOLEAN /\ display_hold \in BOOLEAN
  /\ logs_visible /\ ~display_hold => Shows(screen, ring)

LEMMA Drawn ==
  ASSUME NEW s, Ring(s), NEW hold, NEW visible, ~hold, visible, draw_screen(s, hold, visible)
  PROVE  Shows(screen', s)
<1>1. s.count \in Nat /\ s.view \in Nat /\ s.view <= TailStart(s.count) /\ Rows \in Nat
  BY ConsoleAssumption DEF Ring
<1>2. Start(s) = s.view
  BY <1>1 DEF Start, TailStart
<1>3. screen' = [r \in 0 .. (Rows - 1) |->
                   IF Start(s) + r >= s.count THEN Blank ELSE s.buf[idx(s.head, Start(s) + r)]]
  BY DEF draw_screen
<1>4. \A r \in 0 .. (Rows - 1) :
        screen'[r] = IF s.view + r >= s.count THEN Blank ELSE s.buf[idx(s.head, s.view + r)]
  BY <1>2, <1>3
<1>5. \A r \in 0 .. (Rows - 1) : s.view + r >= s.count <=> ~(r < s.count - s.view)
  BY <1>1
<1> QED BY <1>4, <1>5 DEF Shows

(* Every operation that draws, draws the ring it leaves. *)
LEMMA DrawnInv ==
  ASSUME Writable(ring'), logs_visible' \in BOOLEAN, display_hold' \in BOOLEAN,
         draw_screen(ring', display_hold', logs_visible')
  PROVE  SInv'
<1>1. ASSUME logs_visible', ~display_hold' PROVE Shows(screen', ring')
  BY <1>1, Drawn DEF Writable
<1>2. Shows(screen, ring)' <=> Shows(screen', ring')
  BY DEF Shows
<1>3. Writable(ring)'
  OBVIOUS
<1> QED BY <1>1, <1>2, <1>3 DEF SInv

LEMMA WritableStep == SInv /\ [Next]_vars => Writable(ring')
<1> SUFFICES ASSUME SInv, [Next]_vars PROVE Writable(ring')
  OBVIOUS
<1>0. Writable(ring)
  BY DEF SInv
<1>1. ASSUME NEW ch \in Chars \cup {"LF", "CR", "BS"}, console_putc(ch) PROVE Writable(ring')
  <2>1. Writable(Typed(ring, ch))
    BY <1>0, TypedWritable
  <2> QED BY <1>1, <2>1, FollowedWritable DEF console_putc, console_emit_char
<1>2. CASE console_backspace
  <2>1. Writable(erase_prev_char(ring))
    BY <1>0, EraseWritable
  <2> QED BY <1>2, <2>1, FollowedWritable DEF console_backspace
<1>3. CASE console_clear
  BY <1>3, FreshWritable DEF console_clear
<1>4. ASSUME NEW v, MoveWindow(v) PROVE Writable(ring')
  <2>1. Ring(ring')
    BY <1>0, RingStep DEF Writable
  <2>2. Store(ring') /\ ring'.cur_col = ring.cur_col
    BY <1>0, <1>4, ViewOnly DEF MoveWindow, Writable
  <2> QED BY <1>0, <2>1, <2>2 DEF Writable
<1>5. CASE console_scroll_up \/ console_scroll_down
  BY <1>4, <1>5, Zenon DEF console_scroll_up, console_scroll_down
<1>6. CASE UNCHANGED ring
  BY <1>0, <1>6
<1> QED
  BY <1>1, <1>2, <1>3, <1>5, <1>6, Zenon
  DEF Next, vars, console_set_logs_visible, console_hold_display_until_input,
      console_release_display_hold

LEMMA ScreenStep == SInv /\ [Next]_vars => SInv'
<1> SUFFICES ASSUME SInv, [Next]_vars PROVE SInv'
  OBVIOUS
<1>0. Writable(ring') /\ logs_visible \in BOOLEAN /\ display_hold \in BOOLEAN
  BY WritableStep DEF SInv
<1>1. ASSUME NEW ch \in Chars \cup {"LF", "CR", "BS"}, console_putc(ch) PROVE SInv'
  BY <1>0, <1>1, DrawnInv DEF console_putc
<1>2. CASE console_backspace
  BY <1>0, <1>2, DrawnInv DEF console_backspace
<1>3. CASE console_clear
  BY <1>0, <1>3, DrawnInv DEF console_clear
<1>4. ASSUME NEW v, MoveWindow(v) PROVE SInv'
  BY <1>0, <1>4, DrawnInv DEF MoveWindow
<1>5. CASE console_scroll_up \/ console_scroll_down
  BY <1>4, <1>5, Zenon DEF console_scroll_up, console_scroll_down
<1>6. ASSUME NEW visible \in BOOLEAN, console_set_logs_visible(visible) PROVE SInv'
  BY <1>0, <1>6, DrawnInv DEF console_set_logs_visible
<1>7. CASE console_hold_display_until_input
  BY <1>0, <1>7 DEF console_hold_display_until_input, SInv
<1>8. CASE console_release_display_hold
  BY <1>0, <1>8, DrawnInv DEF console_release_display_hold
<1>9. CASE UNCHANGED vars
  BY <1>9, Zenon DEF SInv, Shows, vars
<1> QED BY <1>1, <1>2, <1>3, <1>5, <1>6, <1>7, <1>8, <1>9, Zenon DEF Next

LEMMA ScreenInit == Init => SInv
<1> SUFFICES ASSUME Init PROVE SInv
  OBVIOUS
<1>1. /\ ring.count = 1 /\ ring.head = 0 /\ ring.view = 0
      /\ ring.buf = [l \in Lines |-> Blank]
  BY DEF Init, Fresh
<1>2. 0 \in Lines /\ idx(0, 0) = 0 /\ Rows \in Nat
  BY ConsoleAssumption, Mod1 DEF Lines, idx
<1>3. \A r \in 0 .. (Rows - 1) : r < 1 - 0 => r = 0 /\ 0 + r = 0
  BY <1>2
<1>4. Shows(screen, ring)
  BY <1>1, <1>2, <1>3 DEF Init, Shows
<1> QED BY <1>4, FreshWritable DEF Init, SInv

(***************************************************************************)
(* For every size of ring and of screen: while the display shows the       *)
(* console and is not held for the boot logo, the screen shows the lines   *)
(* of the window as they are now.  Whatever changes them in                *)
(* kernel/console.c draws the screen, and draw_screen's own arithmetic on  *)
(* the window agrees with the ring's.                                      *)
(***************************************************************************)
THEOREM ScreenStaysCurrent == Spec => []ScreenCurrent
<1>2. SInv => ScreenCurrent
  <2> SUFFICES ASSUME SInv PROVE ScreenCurrent
    OBVIOUS
  <2>1. TypeOK
    <3>1. ring.cur_col \in 0 .. (Cols - 1)
      BY ConsoleAssumption DEF SInv, Writable, Store
    <3> QED BY <3>1 DEF SInv, Writable, Ring, Store, Line, TypeOK
  <2> QED BY <2>1, Zenon DEF SInv, Shows, ScreenCurrent
<1> QED BY <1>2, ScreenInit, ScreenStep, PTL DEF Spec

-----------------------------------------------------------------------------
(* The ring implements the scroll-back. *)

(* console_emit_char and console_backspace move the window, if they do, to *)
(* the end of the text, when it showed the end before.                     *)
LEMMA WrittenStep ==
  ASSUME Writable(ring), NEW t, Writable(t), NEW page, NEW at, NEW n, Turned(ring, t, page, at, n),
         ring' = Followed(t, follow_tail(ring)), logs_visible' = logs_visible,
         logs_visible \in BOOLEAN
  PROVE  Abstract!Written(page, at, n)
<1>1. /\ Text(t) = SubSeq(page, Extra(page) + 1, Len(page))
      /\ t.lost = ring.lost + Extra(page) /\ t.cur_col = at /\ t.line_len[t.cur_line] = n
      /\ t.lost + t.view = IF ring.lost + ring.view >= t.lost THEN ring.lost + ring.view ELSE t.lost
  BY DEF Turned
<1>2. /\ Len(Text(ring)) = ring.count /\ Len(Text(t)) = t.count
      /\ ring.lost \in Nat /\ ring.view \in Nat /\ ring.count \in Nat
      /\ t.lost \in Nat /\ t.count \in Nat /\ Rows \in Nat
  <2>1. Len(Text(ring)) = ring.count /\ Len(Text(t)) = t.count
    BY TextFacts, Zenon DEF Writable
  <2>2. ring.lost \in Nat /\ ring.view \in Nat /\ ring.count \in Nat
    BY Numbers
  <2>3. t.lost \in Nat /\ t.count \in Nat /\ Rows \in Nat
    BY Numbers, ConsoleAssumption
  <2> QED BY <2>1, <2>2, <2>3, Zenon
<1>3. follow_tail(ring) <=> ring.lost + ring.view + Rows >= ring.lost + Len(Text(ring))
  BY <1>2 DEF follow_tail
<1>4. Abstract!AtEnd <=> follow_tail(ring)
  BY <1>3 DEF Abstract!AtEnd
<1>5. /\ Text(ring') = Text(t) /\ ring'.lost = t.lost /\ ring'.cur_col = t.cur_col
      /\ ring'.line_len[ring'.cur_line] = t.line_len[t.cur_line]
      /\ ring'.view = IF follow_tail(ring) /\ logs_visible THEN TailStart(t.count) ELSE t.view
  <2>1. CASE follow_tail(ring) /\ logs_visible
    <3>1. ring' = [t EXCEPT !.view = TailStart(t.count)]
      BY <2>1 DEF Followed
    <3>2. Store(t)
      BY DEF Writable
    <3> DEFINE u == [t EXCEPT !.view = TailStart(t.count)]
    <3>3. /\ Text(u) = Text(t) /\ u.lost = t.lost /\ u.cur_col = t.cur_col
          /\ u.line_len = t.line_len /\ u.cur_line = t.cur_line /\ u.view = TailStart(t.count)
      BY <3>2, ViewOnly
    <3> HIDE DEF u
    <3>4. ring' = u
      BY <3>1 DEF u
    <3> QED BY <2>1, <3>3, <3>4
  <2>2. CASE ~(follow_tail(ring) /\ logs_visible)
    <3>1. ring' = t
      BY <2>2 DEF Followed
    <3> QED BY <2>2, <3>1
  <2> QED BY <2>1, <2>2
<1>6. ring'.lost + ring'.view = IF Abstract!AtEnd /\ logs_visible
                                THEN Abstract!WindowAtEnd(ring'.lost, Len(Text(ring')))
                                ELSE IF ring'.lost > ring.lost + ring.view THEN ring'.lost
                                ELSE ring.lost + ring.view
  <2>1. t.lost + TailStart(t.count) = Abstract!WindowAtEnd(t.lost, t.count)
    BY <1>2 DEF TailStart, Abstract!WindowAtEnd
  <2>2. t.lost + t.view = IF t.lost > ring.lost + ring.view THEN t.lost ELSE ring.lost + ring.view
    <3>1. t.lost + t.view = IF ring.lost + ring.view >= t.lost THEN ring.lost + ring.view ELSE t.lost
      BY <1>1
    <3>2. ring.lost \in Nat /\ ring.view \in Nat /\ t.lost \in Nat
      BY <1>2
    <3> QED BY <3>1, <3>2
  <2> QED BY <1>2, <1>4, <1>5, <2>1, <2>2
<1> QED BY <1>1, <1>5, <1>6, Zenon DEF Abstract!Written, Extra

LEMMA AbstractLast ==
  ASSUME Writable(ring)
  PROVE  /\ Abstract!LastLine = Text(ring)[ring.count]
         /\ \A line : Abstract!SetLast(line) = [Text(ring) EXCEPT ![ring.count] = line]
<1>1. Len(Text(ring)) = ring.count
  BY TextFacts DEF Writable
<1> QED BY <1>1, Zenon DEF Abstract!LastLine, Abstract!SetLast

(* What one character does to the text. *)
LEMMA PutcImplements ==
  ASSUME SInv, NEW ch \in Chars \cup {"LF", "CR", "BS"}, console_putc(ch)
  PROVE  Abstract!ScrollbackNext
<1> DEFINE t == Typed(ring, ch)
           len == ring.line_len[ring.cur_line]
<1>0. /\ Writable(ring) /\ Ring(ring) /\ Store(ring) /\ logs_visible \in BOOLEAN
      /\ ring.cur_col < Cols
  BY DEF SInv, Writable
<1>1. Writable(t)
  BY <1>0, TypedWritable
<1>2. ring' = Followed(t, follow_tail(ring)) /\ logs_visible' = logs_visible
  BY DEF console_putc, console_emit_char
<1> HIDE DEF t
<1>3. ASSUME NEW page, NEW at, NEW n, Turned(ring, t, page, at, n)
      PROVE  Abstract!Written(page, at, n)
  BY <1>0, <1>1, <1>2, <1>3, WrittenStep
<1>4. CASE ch = "LF"
  <2>1. t = newline(ring)
    BY <1>4 DEF t, Typed
  <2>2. Turned(ring, t, Append([Text(ring) EXCEPT ![ring.count] = Ended(ring)], Blank), 0, 0)
    BY <1>0, <2>1, NewlineTurned
  <2>3. Ended(ring) = [c \in 1 .. Cols |-> IF c > len THEN Space ELSE Abstract!LastLine[c]]
    BY <1>0, AbstractLast, LastLine DEF Ended
  <2>4. Abstract!EmptyLine = Blank
    BY DEF Abstract!EmptyLine, Blank
  <2>5. Abstract!Written(Append(Abstract!SetLast(Ended(ring)), Abstract!EmptyLine), 0, 0)
    BY <1>0, <1>3, <2>2, <2>4, AbstractLast
  <2>6. Abstract!NewLine
    BY <2>3, <2>5, Zenon DEF Abstract!NewLine
  <2> QED BY <2>6 DEF Abstract!ScrollbackNext
<1>5. CASE ch = "CR"
  <2>1. t = [ring EXCEPT !.cur_col = 0]
    BY <1>5 DEF t, Typed
  <2>2. /\ t.cur_col = 0 /\ Text(t) = Text(ring) /\ t.lost = ring.lost /\ t.view = ring.view
        /\ t.line_len[t.cur_line] = len
    BY <1>0, <2>1, ReturnFacts
  <2>3. Turned(ring, t, Text(ring), 0, len)
    BY <1>0, <1>1, <2>2, SameTurned DEF Writable
  <2>4. Abstract!Return
    BY <1>3, <2>3, Zenon DEF Abstract!Return
  <2> QED BY <2>4 DEF Abstract!ScrollbackNext
<1>6. CASE ch = "BS"
  <2>1. t = erase_prev_char(ring)
    BY <1>6 DEF t, Typed
  <2>2. CASE ring.cur_col = 0
    <3>1. t = ring
      BY <2>1, <2>2 DEF erase_prev_char
    <3>2. Turned(ring, t, Text(ring), 0, len)
      BY <1>0, <2>2, <3>1, SameTurned
    <3>3. Abstract!Erase
      BY <1>3, <2>2, <3>2, Zenon DEF Abstract!Erase
    <3> QED BY <3>3 DEF Abstract!ScrollbackNext
  <2>3. CASE ring.cur_col # 0
    <3> DEFINE line == [Text(ring)[ring.count] EXCEPT ![ring.cur_col] = Space]
               n == IF len > ring.cur_col - 1 THEN ring.cur_col - 1 ELSE len
    <3>1. Turned(ring, t, [Text(ring) EXCEPT ![ring.count] = line], ring.cur_col - 1, n)
      BY <1>0, <2>1, <2>3, EraseTurned
    <3> HIDE DEF n, line
    <3>3. Abstract!Written(Abstract!SetLast(line), ring.cur_col - 1, n)
      BY <1>0, <1>3, <3>1, AbstractLast
    <3>4. line = [Abstract!LastLine EXCEPT ![ring.cur_col] = Space]
      BY <1>0, AbstractLast DEF line
    <3>5. Abstract!Erase
      BY <2>3, <3>3, <3>4, Zenon DEF Abstract!Erase, n
    <3> QED BY <3>5 DEF Abstract!ScrollbackNext
  <2> QED BY <2>2, <2>3
<1>7. CASE ch \notin {"LF", "CR", "BS"}
  <2>0. ch \in Chars
    BY <1>7
  <2>1. t = Wrapped(Stored(ring, ch))
    BY <1>0, <1>7, PutIs DEF t
  <2> DEFINE line == [Text(ring)[ring.count] EXCEPT ![ring.cur_col + 1] = ch]
             page == [Text(ring) EXCEPT ![ring.count] = line]
             n == IF len < ring.cur_col + 1 THEN ring.cur_col + 1 ELSE len
  <2>2. /\ ring.cur_col + 1 = Cols => Turned(ring, t, Append(page, Blank), 0, 0)
        /\ ring.cur_col + 1 # Cols => Turned(ring, t, page, ring.cur_col + 1, n)
    BY <1>0, <2>0, <2>1, PutTurned, Zenon
  <2>4. page = Abstract!SetLast([Abstract!LastLine EXCEPT ![ring.cur_col + 1] = ch])
    BY <1>0, AbstractLast
  <2>5. Abstract!EmptyLine = Blank
    BY DEF Abstract!EmptyLine, Blank
  <2> HIDE DEF n, page, line
  <2>6. /\ ring.cur_col + 1 = Cols => Abstract!Written(Append(page, Abstract!EmptyLine), 0, 0)
        /\ ring.cur_col + 1 # Cols =>
             Abstract!Written(page, ring.cur_col + 1, n)
    BY <1>3, <2>2, <2>5
  <2>7. Abstract!Put(ch)
    BY <2>4, <2>6, Zenon DEF Abstract!Put, n
  <2> QED BY <2>0, <2>7 DEF Abstract!ScrollbackNext
<1> QED BY <1>4, <1>5, <1>6, <1>7

LEMMA BackspaceImplements ==
  ASSUME SInv, console_backspace PROVE Abstract!ScrollbackNext
<1> DEFINE t == erase_prev_char(ring)
           len == ring.line_len[ring.cur_line]
<1>0. /\ Writable(ring) /\ Ring(ring) /\ Store(ring) /\ logs_visible \in BOOLEAN
  BY DEF SInv, Writable
<1>1. Writable(t)
  BY <1>0, EraseWritable
<1>2. ring' = Followed(t, follow_tail(t)) /\ logs_visible' = logs_visible
  BY DEF console_backspace
<1>3. follow_tail(t) <=> follow_tail(ring)
  <2>1. t.count = ring.count /\ t.view = ring.view
    <3>1. CASE ring.cur_col = 0
      BY <3>1 DEF erase_prev_char
    <3>2. CASE ring.cur_col # 0
      BY <1>0, <3>2, EraseFacts
    <3> QED BY <3>1, <3>2
  <2> HIDE DEF t
  <2> QED BY <2>1 DEF follow_tail
<1>4. ring' = Followed(t, follow_tail(ring))
  BY <1>2, <1>3 DEF Followed
<1>5. ASSUME NEW page, NEW at, NEW n, Turned(ring, t, page, at, n)
      PROVE  Abstract!Written(page, at, n)
  BY <1>0, <1>1, <1>2, <1>4, <1>5, WrittenStep
<1>6. CASE ring.cur_col = 0
  <2>1. t = ring
    BY <1>6 DEF erase_prev_char
  <2>2. Turned(ring, t, Text(ring), 0, len)
    BY <1>0, <1>6, <2>1, SameTurned
  <2>3. Abstract!Erase
    BY <1>5, <1>6, <2>2, Zenon DEF Abstract!Erase
  <2> QED BY <2>3 DEF Abstract!ScrollbackNext
<1>7. CASE ring.cur_col # 0
  <2> DEFINE line == [Text(ring)[ring.count] EXCEPT ![ring.cur_col] = Space]
             n == IF len > ring.cur_col - 1 THEN ring.cur_col - 1 ELSE len
  <2>1. Turned(ring, t, [Text(ring) EXCEPT ![ring.count] = line], ring.cur_col - 1, n)
    BY <1>0, <1>7, EraseTurned
  <2> HIDE DEF n, line, t
  <2>3. Abstract!Written(Abstract!SetLast(line), ring.cur_col - 1, n)
    BY <1>0, <1>5, <2>1, AbstractLast
  <2>4. line = [Abstract!LastLine EXCEPT ![ring.cur_col] = Space]
    BY <1>0, AbstractLast DEF line
  <2>5. Abstract!Erase
    BY <1>7, <2>3, <2>4, Zenon DEF Abstract!Erase, n
  <2> QED BY <2>5 DEF Abstract!ScrollbackNext
<1> QED BY <1>6, <1>7

LEMMA FreshPage ==
  /\ Text(Fresh) = <<Blank>> /\ Fresh.cur_col = 0 /\ Fresh.line_len[Fresh.cur_line] = 0
  /\ Fresh.lost = 0 /\ Fresh.lost + Fresh.view = 0
<1> DEFINE t == Fresh
<1>1. /\ t.count = 1 /\ t.head = 0 /\ t.cur_line = 0 /\ t.cur_col = 0 /\ t.lost = 0 /\ t.view = 0
      /\ t.buf = [l \in Lines |-> Blank] /\ t.line_len = [l \in Lines |-> 0]
  BY DEF Fresh
<1> HIDE DEF t
<1>2. 0 \in Lines /\ idx(0, 1 - 1) = 0
  BY ConsoleAssumption, Mod1 DEF Lines, idx
<1>3. Text(t) = [n \in 1 .. 1 |-> Blank]
  <2>1. \A n \in 1 .. 1 : t.buf[idx(t.head, n - 1)] = Blank
    BY <1>1, <1>2
  <2>2. Text(t) = [n \in 1 .. 1 |-> t.buf[idx(t.head, n - 1)]]
    BY <1>1 DEF Text
  <2> QED BY <2>1, <2>2
<1>4. [n \in 1 .. 1 |-> Blank] = <<Blank>>
  <2>1. [n \in 1 .. 1 |-> Blank] \in [1 .. 1 -> Line] /\ 1 \in Nat
    BY BlankLine
  <2>2. [n \in 1 .. 1 |-> Blank] \in Seq(Line) /\ Len([n \in 1 .. 1 |-> Blank]) = 1
    BY <2>1, IsSequence
  <2>3. <<Blank>> \in Seq(Line) /\ Len(<<Blank>>) = 1 /\ <<Blank>>[1] = Blank
    BY BlankLine
  <2> QED BY <2>2, <2>3, SeqEqual
<1>5. t.lost + t.view = 0 /\ t.line_len[t.cur_line] = 0
  BY <1>1, <1>2
<1> QED BY <1>1, <1>3, <1>4, <1>5 DEF t

LEMMA ScrollImplements ==
  ASSUME SInv, console_scroll_up \/ console_scroll_down PROVE Abstract!ScrollbackNext
<1>0. Ring(ring) /\ Store(ring) /\ Writable(ring)
  BY DEF SInv, Writable
<1>1. /\ ring.view \in Nat /\ ring.count \in Nat /\ ring.lost \in Nat
      /\ ring.view <= TailStart(ring.count) /\ Rows \in Nat
  BY <1>0, Numbers, ConsoleAssumption
<1>2. PICK v \in {ring.view - 1, ring.view + 1} :
         MoveWindow(v) /\ v >= 0 /\ v + Rows <= ring.count
  <2>1. CASE console_scroll_up
    <3>1. ring.view > 0 /\ MoveWindow(ring.view - 1)
      BY <2>1 DEF console_scroll_up
    <3>2. ring.view - 1 >= 0 /\ ring.view - 1 + Rows <= ring.count
      BY <1>1, <3>1 DEF TailStart
    <3> QED BY <3>1, <3>2
  <2>2. CASE console_scroll_down
    <3>1. ring.view + Rows < ring.count /\ MoveWindow(ring.view + 1)
      BY <2>2 DEF console_scroll_down
    <3>2. ring.view + 1 >= 0 /\ ring.view + 1 + Rows <= ring.count
      BY <1>1, <3>1
    <3> QED BY <3>1, <3>2
  <2> QED BY <2>1, <2>2
<1>3. logs_visible /\ logs_visible' = logs_visible /\ ring' = [ring EXCEPT !.view = v]
  BY <1>2 DEF MoveWindow
<1>4. /\ Text(ring') = Text(ring) /\ ring'.lost = ring.lost /\ ring'.cur_col = ring.cur_col
      /\ ring'.line_len[ring'.cur_line] = ring.line_len[ring.cur_line] /\ ring'.view = v
  <2> DEFINE u == [ring EXCEPT !.view = v]
  <2>1. /\ Text(u) = Text(ring) /\ u.lost = ring.lost /\ u.cur_col = ring.cur_col
        /\ u.line_len = ring.line_len /\ u.cur_line = ring.cur_line /\ u.view = v
    BY <1>0, ViewOnly
  <2> HIDE DEF u
  <2>2. ring' = u
    BY <1>3 DEF u
  <2> QED BY <2>1, <2>2
<1>5. Len(Text(ring)) = ring.count
  BY <1>0, TextFacts
<1>6. /\ ring'.lost + ring'.view \in {(ring.lost + ring.view) - 1, ring.lost + ring.view + 1}
      /\ ring'.lost + ring'.view >= ring.lost
      /\ ring'.lost + ring'.view + Rows <= ring.lost + Len(Text(ring))
  <2>1. ring'.lost + ring'.view = ring.lost + v /\ Len(Text(ring)) = ring.count
    BY <1>4, <1>5
  <2>2. v \in {ring.view - 1, ring.view + 1} /\ v >= 0 /\ v + Rows <= ring.count
    BY <1>2
  <2>3. /\ ring.lost + v \in {(ring.lost + ring.view) - 1, ring.lost + ring.view + 1}
        /\ ring.lost + v >= ring.lost
        /\ ring.lost + v + Rows <= ring.lost + ring.count
    BY <1>1, <2>2
  <2> QED BY <2>1, <2>3
<1>7. Abstract!Scroll
  <2>1. logs_visible /\ logs_visible' = logs_visible
    BY <1>3
  <2> QED BY <1>4, <1>6, <2>1 DEF Abstract!Scroll
<1> QED BY <1>7 DEF Abstract!ScrollbackNext

(***************************************************************************)
(* For every size of ring and of window, the console of kernel/console.c   *)
(* implements the scroll-back: it keeps the last BUF_LINES lines of what   *)
(* was written, in order and with nothing of what the ring overwrote; a    *)
(* window at the end of the text stays at the end, and one that was        *)
(* scrolled back keeps showing the same lines until they are lost.         *)
(***************************************************************************)
THEOREM ScrollbackImplemented == Spec => ImplementsScrollback
<1> DEFINE av == <<Text(ring), ring.cur_col, ring.line_len[ring.cur_line], ring.lost,
                   ring.lost + ring.view, logs_visible>>
<1>1. Init => SInv
  BY ScreenInit
<1>2. Init => Abstract!ScrollbackInit
  <2>1. Abstract!EmptyLine = Blank
    BY DEF Abstract!EmptyLine, Blank
  <2> QED BY <2>1, FreshPage DEF Init, Abstract!ScrollbackInit, Abstract!BlankPage
<1>3. SInv /\ [Next]_vars => [Abstract!ScrollbackNext]_av
  <2> SUFFICES ASSUME SInv, [Next]_vars PROVE Abstract!ScrollbackNext \/ UNCHANGED av
    OBVIOUS
  <2>1. CASE console_clear
    <3>1. ring' = Fresh /\ logs_visible' = logs_visible
      BY <2>1 DEF console_clear
    <3>2. Abstract!EmptyLine = Blank
      BY DEF Abstract!EmptyLine, Blank
    <3>3. Abstract!Clear
      BY <3>1, <3>2, FreshPage DEF Abstract!Clear, Abstract!BlankPage
    <3> QED BY <3>3 DEF Abstract!ScrollbackNext
  <2>2. ASSUME NEW visible \in BOOLEAN, console_set_logs_visible(visible)
        PROVE  Abstract!ScrollbackNext
    <3>1. ring' = ring /\ logs_visible' \in BOOLEAN
      BY <2>2 DEF console_set_logs_visible
    <3>2. Abstract!Show
      BY <3>1 DEF Abstract!Show
    <3> QED BY <3>2 DEF Abstract!ScrollbackNext
  <2>3. CASE console_hold_display_until_input \/ console_release_display_hold \/ UNCHANGED vars
    <3>1. ring' = ring /\ logs_visible' = logs_visible
      BY <2>3 DEF console_hold_display_until_input, console_release_display_hold, vars
    <3> QED BY <3>1
  <2> QED BY <2>1, <2>2, <2>3, PutcImplements, BackspaceImplements, ScrollImplements, Zenon DEF Next
<1> QED BY <1>1, <1>2, <1>3, ScreenStep, PTL DEF Spec, ImplementsScrollback, Abstract!ScrollbackSpec
=============================================================================
