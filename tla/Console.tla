------------------------------ MODULE Console ------------------------------
(***************************************************************************)
(* kprintf, the kernel log and the text screen: threads format texts into  *)
(* a buffer of their own, which kprintf hands to klog_write piece by       *)
(* piece; what klog_flush_to_screen takes out of the log goes through      *)
(* kputchar_direct to the cells of the screen.                             *)
(*                                                                         *)
(* What happens between two calls of klog_write is local to the thread.    *)
(* The cells are a function of the characters put on the screen, so they   *)
(* are not a variable.                                                     *)
(***************************************************************************)
EXTENDS Klog, SequencesExt

CONSTANTS
  Chars,                  \* the characters printed
  Formats,                \* the texts printed: sequences of items
  BufLen,                 \* KPRINTF_BUF_MAX
  NumRoom,                \* the 35 kprintf keeps free for a number
  MaxCalls,               \* bound on the calls of kprintf by a thread
  Width, Height,          \* lfb.width, lfb.height
  CharWidth, CharHeight,
  NL, BLANK               \* the newline, an empty cell

(* An item is a character, %c in effect, or a number: the characters put   *)
(* before it one by one (a sign, 0x) and its digits.                       *)
Item(before, digits) == [before |-> before, digits |-> digits]
Letter(c) == Item(<<c>>, <<>>)
TextOf(f) == FlattenSeq([i \in DOMAIN f |-> f[i].before \o f[i].digits])

ASSUME ConsoleShape ==
  /\ {NumRoom, BufLen, Width, Height} \subseteq Nat
  /\ 1 < NumRoom /\ NumRoom <= BufLen /\ BufLen <= BufMax
  /\ CharWidth \in 1..Width /\ CharHeight \in 1..Height
  /\ Formats \subseteq Seq([before : Seq(Chars), digits : Seq(Chars)])
  /\ \A f \in Formats : \A i \in DOMAIN f : Len(f[i].digits) <= NumRoom

VARIABLES
  pieces,   \* the pieces each thread's kprintf has yet to hand over
  calls,    \* the texts each thread has called kprintf with
  log       \* by place in the log: the call whose character it is, the
            \* pieces of it then left, and the character

cvars == <<vars, pieces, calls, log>>

-----------------------------------------------------------------------------
(* kprintf, on s = [out, buf]: the pieces handed over and local_buf.       *)

(* Mutant: idx is not reset.                                               *)
HandedKept(s) == [out |-> Append(s.out, s.buf), buf |-> s.buf]

Handed(s) == [out |-> Append(s.out, s.buf), buf |-> <<>>]

(* CHECK_AND_FLUSH and the store of c.                                     *)
PutChar(s, c) ==
  LET t == IF Len(s.buf) >= BufLen - 1 THEN Handed(s) ELSE s
  IN [t EXCEPT !.buf = Append(@, c)]

(* Mutant: the room for the digits is not looked at.                       *)
PutDigitsAnyway(s, digits) == [s EXCEPT !.buf = @ \o digits]

(* local_putnum, after the test for room.                                  *)
PutDigits(s, digits) ==
  LET t == IF digits # <<>> /\ Len(s.buf) > BufLen - NumRoom THEN Handed(s) ELSE s
  IN [t EXCEPT !.buf = @ \o digits]

PutItem(s, item) ==
  LET t == IF Len(s.buf) >= BufLen - 1 THEN Handed(s) ELSE s
  IN PutDigits(FoldLeft(PutChar, t, item.before), item.digits)

(* The pieces of a text.                                                   *)
Pieces(f) ==
  LET s == FoldLeft(PutItem, [out |-> <<>>, buf |-> <<>>], f)
  IN IF s.buf = <<>> THEN s.out ELSE Handed(s).out

-----------------------------------------------------------------------------
CInit ==
  /\ Init
  /\ pieces = [w \in Writers |-> <<>>]
  /\ calls = [w \in Writers |-> <<>>]
  /\ log = <<>>

(* klog_write of the first of the pieces ps, the last ones of w's call n.  *)
HandOver(w, n, ps) ==
  /\ Reserve(w, Len(Head(ps)))
  /\ log' = log \o [i \in 1..Len(Head(ps)) |->
                      [call |-> <<w, n>>, left |-> Len(ps), c |-> Head(ps)[i]]]
  /\ pieces' = [pieces EXCEPT ![w] = Tail(ps)]

(* A thread calls kprintf. An empty text changes nothing.                  *)
Kprintf(w, f) ==
  /\ pieces[w] = <<>> /\ Pieces(f) # <<>> /\ Len(calls[w]) < MaxCalls
  /\ HandOver(w, Len(calls[w]) + 1, Pieces(f))
  /\ calls' = [calls EXCEPT ![w] = Append(@, f)]

(* kprintf goes on with its next piece.                                    *)
KprintfOn(w) ==
  /\ pieces[w] # <<>>
  /\ HandOver(w, Len(calls[w]), pieces[w])
  /\ UNCHANGED calls

CNext ==
  \/ \E w \in Writers : (\E f \in Formats : Kprintf(w, f)) \/ KprintfOn(w)
  \/ /\ (\E w \in Writers : Write(w)) \/ Flush
     /\ UNCHANGED <<pieces, calls, log>>

(* Every thread on the ready list, idle among them, runs again and again.  *)
CSpec ==
  /\ CInit /\ [][CNext]_cvars
  /\ WF_cvars(Flush /\ UNCHANGED <<pieces, calls, log>>)
  /\ \A w \in Writers : WF_cvars(KprintfOn(w) \/ (Write(w) /\ UNCHANGED <<pieces, calls, log>>))

-----------------------------------------------------------------------------
Cols == Width \div CharWidth
Rows == Height \div CharHeight
EmptyRow == [x \in 0..(Cols - 1) |-> BLANK]

(* The characters kputchar_direct is called with for an entry of screen.   *)
Shown(e) == IF e = DROP THEN <<DROP, DROP, DROP, DROP, DROP, DROP>>
            ELSE IF e = JUNK THEN <<JUNK>>
            ELSE <<IF log[e + 1].c = NL THEN NL ELSE e>>

(* draw_char_at; putpixel drops what is off the screen.                    *)
Draw(cells, x, y, c) ==
  [r \in DOMAIN cells |-> [k \in DOMAIN cells[r] |->
     IF r = y \div CharHeight /\ k = x \div CharWidth THEN c ELSE cells[r][k]]]

(* lfb_scroll.                                                             *)
Scroll(cells) == [r \in DOMAIN cells |-> IF r + 1 \in DOMAIN cells THEN cells[r + 1] ELSE EmptyRow]

(* Mutant: the line is full only when the cursor is past the end.          *)
WrapsLate(x) == x > Width

Wraps(x) == x + CharWidth > Width

(* kputchar_direct, on s = [cells, x, y].                                  *)
Putchar(s, c) ==
  LET drawn == IF c = NL THEN s.cells ELSE Draw(s.cells, s.x, s.y, c)
      x == IF c = NL THEN 0 ELSE s.x + CharWidth
      wraps == Wraps(x)
      y == s.y + (IF c = NL THEN CharHeight ELSE 0) + (IF wraps THEN CharHeight ELSE 0)
      scrolls == y + CharHeight > Height
  IN [cells |-> IF scrolls THEN Scroll(drawn) ELSE drawn,
      x |-> IF wraps THEN 0 ELSE x,
      y |-> IF scrolls THEN y - CharHeight ELSE y]

(* The screen after init_LFB and everything shown since.                   *)
Displayed ==
  FoldLeft(Putchar, [cells |-> [r \in 0..(Rows - 1) |-> EmptyRow], x |-> 0, y |-> 0],
           FlattenSeq([i \in DOMAIN screen |-> Shown(screen[i])]))

-----------------------------------------------------------------------------
(* What the screen should show of a text t: its lines broken at newlines   *)
(* and after Cols characters, the last Rows of them, the one the cursor is *)
(* in included. place[i] is where the i-th character goes, counting lines  *)
(* from the first ever shown.                                              *)
Places(t) ==
  LET after(p, c) == IF c = NL \/ p.col = Cols - 1 THEN [line |-> p.line + 1, col |-> 0]
                     ELSE [p EXCEPT !.col = @ + 1]
      place[i \in 1..(Len(t) + 1)] ==
        IF i = 1 THEN [line |-> 0, col |-> 0] ELSE after(place[i - 1], t[i - 1])
  IN place

(* The screen shows the last lines of the text, each character in its      *)
(* place and nothing else, and the cursor is on it, however often lines    *)
(* wrapped, filled the width exactly or scrolled.                          *)
LayoutExact ==
  LET t == FlattenSeq([i \in DOMAIN screen |-> Shown(screen[i])])
      place == Places(t)
      cur == place[Len(t) + 1]
      top == IF cur.line < Rows THEN 0 ELSE cur.line - Rows + 1
      at(r, k) == {i \in DOMAIN t : t[i] # NL /\ place[i] = [line |-> top + r, col |-> k]}
      d == Displayed
  IN /\ d.x = cur.col * CharWidth /\ d.y = (cur.line - top) * CharHeight
     /\ \A r \in 0..(Rows - 1), k \in 0..(Cols - 1) :
          IF at(r, k) = {} THEN d.cells[r][k] = BLANK
          ELSE \A i \in at(r, k) : d.cells[r][k] = t[i]

(* The places in the log that the n-th text of w has got.                 *)
PlacesOf(w, n) == {i \in DOMAIN log : log[i].call = <<w, n>>}

(* No piece is longer than local_buf, although the digits of a number are  *)
(* stored without a test: the room kept for them is enough wherever in the *)
(* text it comes.                                                          *)
BufferFits ==
  \A i \in DOMAIN log :
    Cardinality({j \in DOMAIN log : log[j].call = log[i].call /\ log[j].left = log[i].left}) <= BufLen

(* The text of every call gets into the log whole and in order, though it  *)
(* is cut into pieces and other threads' pieces come between; a text that  *)
(* leaves NumRoom free in local_buf is never torn.                         *)
TextsWhole ==
  \A w \in Writers : \A n \in DOMAIN calls[w] :
    LET text == TextOf(calls[w][n])
        at == PlacesOf(w, n)
        nth(i) == Cardinality({j \in at : j <= i})
    IN /\ \A i \in at : nth(i) <= Len(text) /\ log[i].c = text[nth(i)]
       /\ (n < Len(calls[w]) \/ pieces[w] = <<>>) => Cardinality(at) = Len(text)
       /\ Len(text) <= BufLen - NumRoom => \A i, j \in at : i..j \subseteq at
=============================================================================
