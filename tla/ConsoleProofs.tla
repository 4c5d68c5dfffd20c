------------------------------ MODULE ConsoleProofs ------------------------------
(***************************************************************************)
(* fbcon on every framebuffer it accepts, printing anything, interrupted   *)
(* at any store and by panics that are interrupted themselves: no pixel    *)
(* outside the framebuffer is ever touched (StaysOnScreen), a panic's text *)
(* goes out complete on every sink (PanicIsComplete), and the cells of the *)
(* screen hold the end of what was printed (ScreenIsRight).                *)
(***************************************************************************)
EXTENDS Console, WellFoundedInduction, TLAPS

(***************************************************************************)
(* The invariant, of a console that is up                                  *)
(***************************************************************************)

\* The cells fit the framebuffer.
Geometry ==
    /\ bi \in Framebuffers
    /\ cols \in Nat /\ cols > 0 /\ MARGIN + cols * CELL <= bi.width
    /\ rows \in Nat /\ rows > 0 /\ MARGIN + rows * CELL <= bi.height

\* The cursor is on a cell.
OnCell == cur_col < cols /\ cur_row < rows

\* The panic's first newline, which sets a stray cursor right, is still on
\* its way to fbcon.
NewlinePending ==
    /\ mode = "panic" /\ text = PanicText
    /\ \/ at = "ready" /\ pos = 1 /\ \E f \in DOMAIN sinks : sinks[f] = "fbcon"
       \/ /\ at \in {"sink", "poll"} /\ pos = 2 /\ ch = "\n"
          /\ \E f \in DOMAIN sinks : sinks[f] = "fbcon" /\ f >= sink

InPutc == {"putc", "advance", "wrap", "row", "check", "scroll", "settle"}

\* Where the cursor can be at each store of fbcon_putc.
Tracked ==
    /\ cur_col \in Nat /\ cur_row \in Nat
    /\ at \in {"ready", "sink", "poll"} => OnCell \/ NewlinePending
    /\ at = "poll" => sink \in DOMAIN sinks /\ sinks[sink] = "serial"
    /\ at \in InPutc => sink \in DOMAIN sinks /\ sinks[sink] = "fbcon"
    /\ at \in {"ready", "sink", "poll"} \/ at \in InPutc
    /\ at = "putc" => OnCell \/ ch = "\n"
    /\ at = "advance" => OnCell
    /\ at = "wrap" => cur_row < rows
    /\ at \in {"row", "check", "scroll", "settle"} => cur_col < cols
    /\ at = "scroll" => copied <= rows - 1
    /\ mode \in {"run", "panic", "halt"}
    /\ mode = "halt" => at = "ready" /\ OnCell

FInv ==
    /\ bi \in Framebuffers /\ sinks \in Seq({"serial", "fbcon"})
    /\ sink \in Nat /\ sink > 0 /\ copied \in Nat /\ pos \in Nat
    /\ mode \in {"panic", "halt"} => text = PanicText
    /\ mode = "halt" => pos > Len(text)
    /\ mode = "boot" => ~ready
    /\ ready => Geometry /\ Tracked /\ InsideFramebuffer

(***************************************************************************)
(* Geometry                                                                *)
(***************************************************************************)

LEMMA MulMonotone ==
    ASSUME NEW x \in Nat, NEW y \in Nat, NEW d \in Nat, x <= y
    PROVE  x * d <= y * d
<1>1. (y - x) * d >= 0
  OBVIOUS
<1>2. (y - x) * d = y * d - x * d
  OBVIOUS
<1> QED
  BY <1>1, <1>2

\* As many cells as fit between the margins do, and one does.
LEMMA CellsFit ==
    ASSUME NEW size \in Nat, size >= 2 * MARGIN + CELL
    PROVE  LET n == (size - 2 * MARGIN) \div CELL
           IN  n \in Nat /\ n > 0 /\ MARGIN + n * CELL <= size
<1>1. CELL \in Nat /\ CELL > 0 /\ MARGIN \in Nat
  BY ConsoleAssumption
<1>2. PICK m \in Nat : m = size - 2 * MARGIN /\ m >= CELL
  BY <1>1
<1>3. PICK n \in Nat : n = m \div CELL /\ n >= 1 /\ n * CELL <= m
  BY <1>1, <1>2
<1>4. n * CELL \in Nat
  BY <1>1
<1>5. MARGIN + n * CELL <= size
  BY <1>1, <1>2, <1>3, <1>4
<1> QED
  BY <1>2, <1>3, <1>5

LEMMA FramebufferTypes ==
    ASSUME bi \in Framebuffers
    PROVE  /\ bi.width \in Nat /\ bi.height \in Nat /\ bi.pitch32 \in Nat
           /\ bi.width <= bi.pitch32
<1>1. bi \in Framebuffer /\ bi.pitch32 >= bi.width
  BY ConsoleAssumption
<1> QED
  BY <1>1 DEF Framebuffer

\* The far edge of a cell on the screen is in the framebuffer.
LEMMA CellInside ==
    ASSUME Geometry
    PROVE  /\ \A c \in Nat : c < cols => MARGIN + (c + 1) * CELL <= bi.pitch32
           /\ \A r \in Nat : r < rows => MARGIN + (r + 1) * CELL <= bi.height
           /\ bi.width <= bi.pitch32
<1>1. /\ CELL \in Nat /\ MARGIN \in Nat /\ cols \in Nat /\ rows \in Nat
      /\ bi.width \in Nat /\ bi.height \in Nat /\ bi.pitch32 \in Nat
      /\ bi.width <= bi.pitch32 /\ cols * CELL \in Nat /\ rows * CELL \in Nat
      /\ MARGIN + cols * CELL <= bi.width /\ MARGIN + rows * CELL <= bi.height
  BY ConsoleAssumption, FramebufferTypes DEF Geometry
<1>2. ASSUME NEW c \in Nat, c < cols PROVE MARGIN + (c + 1) * CELL <= bi.pitch32
  <2>1. (c + 1) * CELL <= cols * CELL /\ (c + 1) * CELL \in Nat
    BY <1>1, <1>2, MulMonotone
  <2> QED BY <1>1, <2>1
<1>3. ASSUME NEW r \in Nat, r < rows PROVE MARGIN + (r + 1) * CELL <= bi.height
  <2>1. (r + 1) * CELL <= rows * CELL /\ (r + 1) * CELL \in Nat
    BY <1>1, <1>3, MulMonotone
  <2> QED BY <1>1, <2>1
<1> QED
  BY <1>1, <1>2, <1>3

(***************************************************************************)
(* Steps                                                                   *)
(***************************************************************************)

LEMMA PanicTextType ==
    PanicText \in Seq(Char) /\ PanicText[1] = "\n" /\ Len(PanicText) \in Nat \ {0}
<1>1. "\n" \in Char
  BY DEF Char
<1> QED
  BY <1>1, ConsoleAssumption DEF PanicText

LEMMA ConsoleInit == Init => FInv
  BY DEF Init, FInv

LEMMA FbconInitStep ==
    ASSUME FInv, FbconInit
    PROVE  FInv'
<1>1. /\ mode = "run" /\ at = "ready" /\ Usable(bi) /\ bi \in Framebuffers
      /\ cols' = (bi.width - 2 * MARGIN) \div CELL
      /\ rows' = (bi.height - 2 * MARGIN) \div CELL
      /\ cur_col' = 0 /\ cur_row' = 0 /\ reach' = <<bi.width, bi.height>>
      /\ UNCHANGED <<bi, mode, at, sink, copied>>
  BY DEF FInv, FbconInit, Idle, machine
<1>2. Geometry'
  <2>1. /\ bi.width \in Nat /\ bi.height \in Nat
        /\ bi.width >= 2 * MARGIN + CELL /\ bi.height >= 2 * MARGIN + CELL
    <3>1. bi.width \in Nat /\ bi.height \in Nat
      BY <1>1, FramebufferTypes
    <3>2. bi.width >= MinWidth /\ bi.height >= MinHeight
      BY <1>1 DEF Usable
    <3>3. /\ MinWidth \in Nat /\ MinHeight \in Nat /\ MARGIN \in Nat /\ CELL \in Nat
          /\ MinWidth >= 2 * MARGIN + CELL /\ MinHeight >= 2 * MARGIN + CELL
      BY ConsoleAssumption, Zenon
    <3> QED BY <3>1, <3>2, <3>3
  <2> QED BY <1>1, <2>1, CellsFit DEF Geometry
<1>3. InsideFramebuffer'
  <2>1. reach'[1] = bi.width /\ reach'[2] = bi.height
    BY <1>1
  <2> QED BY <1>1, <2>1, FramebufferTypes DEF InsideFramebuffer
<1>4. Tracked'
  BY <1>1, <1>2 DEF Tracked, Geometry, OnCell, InPutc
<1>5. sinks' \in Seq({"serial", "fbcon"})
  BY DEF FInv, FbconInit
<1>6. mode' = "run" /\ pos' = 1
  BY <1>1 DEF FbconInit, Nothing
<1> QED
  BY <1>1, <1>2, <1>3, <1>4, <1>5, <1>6 DEF FInv

\* Steps outside fbcon_putc leave its state alone.
LEMMA FbconFrame ==
    ASSUME FInv, ready, UNCHANGED <<bi, cols, rows, cur_col, cur_row, reach>>
    PROVE  /\ Geometry' /\ InsideFramebuffer'
           /\ OnCell' <=> OnCell
  BY DEF FInv, Geometry, InsideFramebuffer, OnCell

LEMMA EmitStep ==
    ASSUME FInv, EmitNext \/ NextSink \/ PollBusy \/ Send
    PROVE  FInv'
<1>1. /\ UNCHANGED <<bi, mode, sinks, text, copied>> /\ UNCHANGED fbcon
      /\ at \in {"ready", "sink", "poll"}
  BY DEF EmitNext, Emit, NextSink, PollBusy, Send, MaySend, machine, printing, fbcon
<1>2. UNCHANGED <<ready, cols, rows, cur_col, cur_row, reach>>
  BY <1>1 DEF fbcon, cursor
<1>3. sink' \in Nat /\ sink' > 0 /\ pos' \in Nat /\ (pos' = pos \/ mode # "halt")
  <2>1. EmitNext => mode # "halt"
    BY PanicTextType DEF FInv, EmitNext
  <2> QED BY <2>1 DEF FInv, EmitNext, Emit, NextSink, PollBusy, Send, MaySend,
       printing
<1>4. CASE ~ready
  BY <1>1, <1>2, <1>3, <1>4 DEF FInv
<1>5. CASE ready
  <2>1. Geometry' /\ InsideFramebuffer' /\ (OnCell' <=> OnCell)
    BY <1>1, <1>2, <1>5, FbconFrame
  <2>2. /\ Tracked /\ sink \in Nat
    BY <1>5 DEF FInv
  <2>3. ASSUME EmitNext PROVE Tracked'
    <3>1. /\ at = "ready" /\ pos <= Len(text) /\ ch' = text[pos] /\ sink' = 1 /\ at' = "sink"
          /\ pos' = pos + 1
      BY <2>3 DEF EmitNext, Emit
    <3>2. NewlinePending => NewlinePending'
      <4> SUFFICES ASSUME NewlinePending PROVE NewlinePending'
        OBVIOUS
      <4>1. mode = "panic" /\ text = PanicText /\ pos = 1
        BY <3>1 DEF NewlinePending
      <4>2. PICK f \in DOMAIN sinks : sinks[f] = "fbcon"
        BY <3>1 DEF NewlinePending
      <4>3. text[1] = "\n"
        BY <4>1, PanicTextType
      <4>4. f >= sink'
        BY <3>1, <4>2 DEF FInv
      <4> QED BY <1>1, <3>1, <4>1, <4>2, <4>3, <4>4 DEF NewlinePending
    <3>3. mode # "halt"
      BY <3>1, PanicTextType DEF FInv
    <3> QED BY <1>1, <1>2, <2>1, <2>2, <3>1, <3>2, <3>3 DEF Tracked, InPutc
  <2>4. ASSUME NextSink PROVE Tracked'
    <3>1. at = "sink" /\ UNCHANGED <<ch, pos>>
      BY <2>4 DEF NextSink, printing
    <3>2. CASE sink > Len(sinks)
      <4>1. at' = "ready" /\ UNCHANGED sink
        BY <2>4, <3>2, <2>2 DEF NextSink
      <4>2. ~NewlinePending
        BY <2>2, <3>1, <3>2 DEF FInv, NewlinePending
      <4> QED BY <1>1, <1>2, <2>1, <2>2, <3>1, <4>1, <4>2 DEF Tracked, InPutc
    <3>3. CASE sink <= Len(sinks) /\ sinks[sink] = "serial" /\ present
      <4>1. at' = "poll" /\ UNCHANGED sink
        BY <2>2, <2>4, <3>3 DEF NextSink
      <4>2. sink \in DOMAIN sinks
        BY <3>3 DEF FInv
      <4>3. NewlinePending => NewlinePending'
        BY <1>1, <3>1, <4>1 DEF NewlinePending
      <4> QED BY <1>1, <1>2, <2>1, <2>2, <3>1, <3>3, <4>1, <4>2, <4>3 DEF Tracked, InPutc
    <3>4. CASE sink <= Len(sinks) /\ sinks[sink] = "serial" /\ ~present
      <4>1. at' = "sink" /\ sink' = sink + 1
        BY <2>2, <2>4, <3>1, <3>4 DEF NextSink
      <4>2. NewlinePending => NewlinePending'
        BY <1>1, <3>1, <3>4, <4>1 DEF NewlinePending, FInv
      <4> QED BY <1>1, <1>2, <2>1, <2>2, <3>1, <4>1, <4>2 DEF Tracked, InPutc
    <3>5. CASE sink <= Len(sinks) /\ sinks[sink] = "fbcon"
      <4>1. at' = "putc" /\ UNCHANGED sink
        BY <2>2, <2>4, <3>5 DEF NextSink
      <4>2. sink \in DOMAIN sinks
        BY <3>5 DEF FInv
      <4>3. NewlinePending => ch = "\n"
        BY <3>1 DEF NewlinePending
      <4> QED BY <1>1, <1>2, <2>1, <2>2, <3>1, <3>5, <4>1, <4>2, <4>3 DEF Tracked, InPutc
    <3>6. sink > Len(sinks) \/ (sink <= Len(sinks) /\ sinks[sink] \in {"serial", "fbcon"})
      BY <2>4 DEF NextSink
    <3> QED BY <3>2, <3>3, <3>4, <3>5, <3>6
  <2>5. ASSUME PollBusy PROVE Tracked'
    <3>1. at = "poll" /\ UNCHANGED <<at, ch, pos, sink>>
      BY <2>5 DEF PollBusy, printing
    <3>2. NewlinePending => NewlinePending'
      BY <1>1, <3>1 DEF NewlinePending
    <3> QED BY <1>1, <1>2, <2>1, <2>2, <3>1, <3>2 DEF Tracked, InPutc
  <2>6. ASSUME Send PROVE Tracked'
    <3>1. at = "poll" /\ UNCHANGED <<ch, pos>>
          /\ \/ UNCHANGED <<at, sink>>
             \/ at' = "sink" /\ sink' = sink + 1
      BY <2>6 DEF Send, MaySend, printing
    <3>2. sinks[sink] = "serial"
      BY <2>2, <3>1 DEF Tracked
    <3>3. NewlinePending => NewlinePending'
      BY <1>1, <3>1, <3>2 DEF NewlinePending, FInv
    <3> QED BY <1>1, <1>2, <2>1, <2>2, <3>1, <3>3 DEF Tracked, InPutc
  <2>7. Tracked'
    BY <2>3, <2>4, <2>5, <2>6
  <2> QED BY <1>1, <1>2, <1>3, <2>1, <2>7 DEF FInv
<1> QED BY <1>4, <1>5

\* fbcon_putc: it draws only with its cursor on a cell, and leaves it there.
LEMMA PutcStep ==
    ASSUME FInv, Putc
    PROVE  FInv'
<1>1. /\ at \in InPutc
      /\ UNCHANGED <<bi, mode, sinks, text, pos, ready, cols, rows, ch>>
  BY DEF Putc, PutReturn, PutControl, Draw, Advance, Wrap, NextRow, CheckRow, ScrollCopy,
     ScrollFill, Settle, Elsewhere, machine, printing, InPutc
<1>2. sink' \in Nat /\ sink' > 0 /\ copied' \in Nat
  BY DEF FInv, Putc, PutReturn, PutControl, Draw, Advance, Wrap, NextRow, CheckRow,
     ScrollCopy, ScrollFill, Settle, PutDone, cursor
<1>3. CASE ~ready
  BY <1>1, <1>2, <1>3 DEF FInv
<1>4. CASE ready
  <2>1. /\ Geometry /\ Tracked /\ mode # "halt" /\ InsideFramebuffer
        /\ sink \in DOMAIN sinks /\ sinks[sink] = "fbcon" /\ sink \in Nat
        /\ cur_col \in Nat /\ cur_row \in Nat /\ cols \in Nat /\ rows \in Nat
        /\ cols > 0 /\ rows > 0 /\ copied \in Nat
    BY <1>1, <1>4 DEF FInv, Tracked, InPutc, Geometry
  <2>2. Geometry'
    BY <1>1, <2>1 DEF Geometry
  <2> USE DEF InPutc, OnCell
  <2>3. ASSUME PutReturn PROVE Tracked' /\ InsideFramebuffer'
    BY <1>1, <2>1, <2>3 DEF PutReturn, Tracked, InsideFramebuffer
  <2>4. ASSUME PutControl PROVE Tracked' /\ InsideFramebuffer'
    BY <1>1, <2>1, <2>4 DEF PutControl, Tracked, InsideFramebuffer, cursor
  <2>5. ASSUME Draw PROVE Tracked' /\ InsideFramebuffer'
    <3>1. OnCell
      BY <2>1, <2>5 DEF Draw, Tracked
    <3>2. /\ reach'[1] = MARGIN + (cur_col + 1) * CELL
          /\ reach'[2] = MARGIN + (cur_row + 1) * CELL
      BY <2>5 DEF Draw
    <3>3. InsideFramebuffer'
      BY <1>1, <2>1, <3>1, <3>2, CellInside DEF InsideFramebuffer
    <3>4. Tracked'
      BY <1>1, <2>1, <2>5, <3>1 DEF Draw, Tracked, cursor
    <3> QED BY <3>3, <3>4
  <2>6. ASSUME Advance PROVE Tracked' /\ InsideFramebuffer'
    BY <1>1, <2>1, <2>6 DEF Advance, LineFull, Tracked, InsideFramebuffer
  <2>7. ASSUME Wrap PROVE Tracked' /\ InsideFramebuffer'
    BY <1>1, <2>1, <2>7 DEF Wrap, Tracked, InsideFramebuffer
  <2>8. ASSUME NextRow PROVE Tracked' /\ InsideFramebuffer'
    BY <1>1, <2>1, <2>8 DEF NextRow, Tracked, InsideFramebuffer
  <2>9. ASSUME CheckRow PROVE Tracked' /\ InsideFramebuffer'
    BY <1>1, <2>1, <2>9 DEF CheckRow, PutDone, Tracked, InsideFramebuffer, cursor
  <2>10. ASSUME ScrollCopy PROVE Tracked' /\ InsideFramebuffer'
    <3>1. /\ at = "scroll" /\ copied < rows - 1 /\ copied' = copied + 1
          /\ reach'[1] = bi.pitch32 /\ reach'[2] = MARGIN + (copied + 2) * CELL
          /\ UNCHANGED <<at, sink, cur_col, cur_row>>
      BY <2>10 DEF ScrollCopy, cursor
    <3>2. copied + 1 \in Nat /\ copied + 1 < rows /\ (copied + 1) + 1 = copied + 2
      BY <2>1, <3>1
    <3>3. reach'[2] <= bi.height
      BY <2>1, <3>1, <3>2, CellInside
    <3>4. bi.pitch32 <= bi.pitch32
      BY FramebufferTypes DEF FInv
    <3>5. InsideFramebuffer'
      BY <1>1, <3>1, <3>3, <3>4 DEF InsideFramebuffer
    <3>6. Tracked'
      BY <1>1, <2>1, <3>1, <3>2 DEF Tracked
    <3> QED BY <3>5, <3>6
  <2>11. ASSUME ScrollFill PROVE Tracked' /\ InsideFramebuffer'
    <3>1. /\ at = "scroll" /\ at' = "settle" /\ reach'[1] = bi.width
          /\ reach'[2] = MARGIN + rows * CELL /\ UNCHANGED <<sink, cur_col, cur_row>>
      BY <2>11 DEF ScrollFill, cursor
    <3>2. InsideFramebuffer'
      BY <1>1, <2>1, <3>1, CellInside DEF InsideFramebuffer, Geometry
    <3>3. Tracked'
      BY <1>1, <2>1, <3>1 DEF Tracked
    <3> QED BY <3>2, <3>3
  <2>12. ASSUME Settle PROVE Tracked' /\ InsideFramebuffer'
    BY <1>1, <2>1, <2>12 DEF Settle, PutDone, Tracked, InsideFramebuffer
  <2>13. Tracked' /\ InsideFramebuffer'
    BY <2>3, <2>4, <2>5, <2>6, <2>7, <2>8, <2>9, <2>10, <2>11, <2>12 DEF Putc
  <2> QED BY <1>1, <1>2, <2>2, <2>13 DEF FInv
<1> QED BY <1>3, <1>4

\* A panic drops what was being printed; wherever it finds the cursor, its
\* text starts with a newline.
LEMMA PanicStep ==
    ASSUME FInv, Panic
    PROVE  FInv'
<1>1. /\ UNCHANGED <<bi, sinks, ready, cols, rows, cur_col, cur_row, copied, reach>>
      /\ mode # "boot" /\ mode' = "panic" /\ text' = PanicText /\ pos' = 1
      /\ at' = "ready" /\ sink' = 1
  BY DEF Panic, machine, cursor
<1>2. CASE ~ready
  BY <1>1, <1>2 DEF FInv
<1>3. CASE ready
  <2>1. Geometry' /\ InsideFramebuffer' /\ (OnCell' <=> OnCell)
    BY <1>1, <1>3, FbconFrame
  <2>2. OnCell \/ \E f \in DOMAIN sinks : sinks[f] = "fbcon"
    BY <1>3 DEF FInv, Tracked, NewlinePending
  <2>3. Tracked'
    BY <1>1, <1>3, <2>1, <2>2 DEF FInv, Tracked, NewlinePending, InPutc
  <2> QED BY <1>1, <2>1, <2>3 DEF FInv
<1> QED BY <1>2, <1>3

\* The steps between two characters.
LEMMA BetweenStep ==
    ASSUME FInv, SerialInit \/ PanicHalt \/ Halted \/ UNCHANGED vars \/ (\E d : Kprintf(d))
    PROVE  FInv'
<1> USE DEF machine, serial, fbcon, printing, cursor
<1>1. CASE SerialInit
  <2>1. /\ ~ready /\ ~ready' /\ mode' = "run" /\ UNCHANGED <<bi, sink, copied, pos>>
        /\ sinks' \in Seq({"serial", "fbcon"})
    BY <1>1 DEF SerialInit, FInv
  <2> QED BY <2>1 DEF FInv
<1>2. CASE Halted \/ UNCHANGED vars
  <2>1. UNCHANGED <<bi, mode, sinks, at, ch, sink, text, pos, ready, cols, rows, cur_col,
                    cur_row, copied, reach>>
    BY <1>2 DEF Halted, vars
  <2>2. ready => Geometry' /\ InsideFramebuffer' /\ (OnCell' <=> OnCell)
    BY <2>1, FbconFrame
  <2>3. NewlinePending' <=> NewlinePending
    BY <2>1 DEF NewlinePending
  <2> QED BY <2>1, <2>2, <2>3 DEF FInv, Tracked
<1>3. CASE PanicHalt
  <2>1. /\ mode = "panic" /\ mode' = "halt" /\ at = "ready" /\ pos > Len(text)
        /\ UNCHANGED <<bi, sinks, at, ch, sink, text, pos, ready, cols, rows, cur_col,
                       cur_row, copied, reach>>
    BY <1>3 DEF PanicHalt, Idle
  <2>2. text = PanicText /\ pos # 1
    BY <2>1, PanicTextType DEF FInv
  <2>3. ~NewlinePending
    BY <2>1, <2>2 DEF NewlinePending
  <2>4. ready => Geometry' /\ InsideFramebuffer' /\ (OnCell' <=> OnCell)
    BY <2>1, FbconFrame
  <2>5. ready => Tracked'
    BY <2>1, <2>3, <2>4 DEF FInv, Tracked, InPutc
  <2> QED BY <2>1, <2>2, <2>4, <2>5 DEF FInv
<1>4. CASE \E d : Kprintf(d)
  <2>1. /\ mode = "run" /\ at = "ready" /\ pos' = 1
        /\ UNCHANGED <<bi, mode, sinks, at, ch, sink, ready, cols, rows, cur_col, cur_row,
                       copied, reach>>
    BY <1>4 DEF Kprintf, Idle
  <2>2. ready => Geometry' /\ InsideFramebuffer' /\ (OnCell' <=> OnCell)
    BY <2>1, FbconFrame
  <2>3. ready => Tracked'
    BY <2>1, <2>2 DEF FInv, Tracked, NewlinePending, InPutc
  <2> QED BY <2>1, <2>2, <2>3 DEF FInv
<1> QED
  BY <1>1, <1>2, <1>3, <1>4

LEMMA ConsoleInductive == FInv /\ [Next]_vars => FInv'
  BY FbconInitStep, EmitStep, PutcStep, PanicStep, BetweenStep DEF Next, Step

\* fbcon touches no pixel outside the framebuffer, also when a panic finds the
\* cursor past the last column or row (fbcon.c:133).
THEOREM StaysOnScreen == FairSpec => []InsideFramebuffer
<1>1. FInv => InsideFramebuffer
  BY DEF FInv, InsideFramebuffer
<1> QED
  BY <1>1, ConsoleInit, ConsoleInductive, PTL DEF FairSpec, Spec

(***************************************************************************)
(* Texts                                                                   *)
(***************************************************************************)

\* Induction over the naturals, for a set: were one missing, a least one would be.
LEMMA NatSetInduction ==
    ASSUME NEW S \in SUBSET Nat, 0 \in S, \A n \in S : n + 1 \in S
    PROVE  \A n \in Nat : n \in S
<1> SUFFICES ASSUME Nat \ S # {} PROVE FALSE
  OBVIOUS
<1> DEFINE R == OpToRel(<, Nat)
<1>1. IsWellFoundedOn(R, Nat)
  BY NatLessThanWellFounded
<1>2. \A x, y \in Nat : x < y => <<x, y>> \in R
  BY DEF OpToRel
<1> HIDE DEF R
<1> DEFINE T == Nat \ S
<1>3. T \in SUBSET Nat /\ T # {}
  OBVIOUS
<1> HIDE DEF T
<1>4. PICK x \in T : \A y \in T : ~ (<<y, x>> \in R)
  BY <1>1, <1>3, WFMin, ZenonT(20)
<1>5. x \in Nat /\ x # 0 /\ x \notin S
  BY <1>4 DEF T
<1>6. x - 1 \in Nat /\ x - 1 < x /\ (x - 1) + 1 = x
  BY <1>5
<1>7. x - 1 \notin T
  BY <1>2, <1>4, <1>5, <1>6
<1>8. x - 1 \in S
  BY <1>6, <1>7 DEF T
<1>9. x \in S
  BY <1>6, <1>8
<1> QED BY <1>5, <1>9

LEMMA AppendFacts ==
    ASSUME NEW S, NEW s \in Seq(S), NEW e \in S
    PROVE  /\ Append(s, e) \in Seq(S) /\ Len(Append(s, e)) = Len(s) + 1
           /\ Append(s, e)[Len(s) + 1] = e
           /\ \A k \in 1 .. Len(s) : Append(s, e)[k] = s[k]
OBVIOUS

\* A recurrence over the characters of a text has a solution: g gives the next
\* value from the last one and the position.
Solves(f, n, V, v, g) ==
    /\ f \in [0 .. n -> V] /\ f[0] = v
    /\ \A k \in 1 .. n : f[k] = g[<<f[k - 1], k>>]

LEMMA RecurrenceSolved ==
    ASSUME NEW V, NEW v \in V, NEW n \in Nat, NEW g \in [V \X (1 .. n) -> V]
    PROVE  \E f : Solves(f, n, V, v, g)
<1> DEFINE S == {m \in Nat : m <= n => \E f : Solves(f, m, V, v, g)}
<1>1. 0 \in S
  <2>1. Solves([k \in 0 .. 0 |-> v], 0, V, v, g)
    BY DEF Solves
  <2> QED BY <2>1
<1>2. ASSUME NEW m \in S PROVE m + 1 \in S
  <2> SUFFICES ASSUME m + 1 <= n PROVE \E f : Solves(f, m + 1, V, v, g)
    OBVIOUS
  <2>1. m \in Nat /\ m <= n /\ m + 1 \in 1 .. n
    OBVIOUS
  <2>2. PICK f : Solves(f, m, V, v, g)
    BY <2>1
  <2>3. PICK b : b = g[<<f[m], m + 1>>]
    OBVIOUS
  <2>4. f[m] \in V
    BY <2>1, <2>2 DEF Solves
  <2>5. b \in V
    BY <2>1, <2>3, <2>4
  <2> DEFINE u == [k \in 0 .. (m + 1) |-> IF k = m + 1 THEN b ELSE f[k]]
  <2>6. \A k \in 0 .. m : k # m + 1 /\ k \in 0 .. (m + 1) /\ f[k] \in V
    BY <2>1, <2>2 DEF Solves
  <2>7. \A k \in 0 .. m : u[k] = f[k]
    BY <2>6
  <2>8. u[m + 1] = b
    BY <2>1
  <2>9. u \in [0 .. (m + 1) -> V]
    <3>1. \A k \in 0 .. (m + 1) : k # m + 1 => k \in 0 .. m
      BY <2>1
    <3> QED BY <2>5, <2>6, <3>1
  <2>10. u[0] = v
    BY <2>1, <2>2, <2>7 DEF Solves
  <2> HIDE DEF u
  <2>11. ASSUME NEW k \in 1 .. (m + 1)
         PROVE  u[k] = g[<<u[k - 1], k>>]
    <3>1. k - 1 \in 0 .. m /\ (k # m + 1 => k \in 1 .. m /\ k \in 0 .. m)
      BY <2>1
    <3>2. u[k - 1] = f[k - 1]
      BY <2>7, <3>1
    <3>3. CASE k = m + 1
      <4>1. k - 1 = m
        BY <2>1, <3>3
      <4> QED BY <2>3, <2>8, <3>2, <3>3, <4>1
    <3>4. CASE k # m + 1
      <4>1. f[k] = g[<<f[k - 1], k>>]
        BY <2>2, <3>1, <3>4 DEF Solves
      <4> QED BY <2>7, <3>1, <3>2, <3>4, <4>1
    <3> QED BY <3>3, <3>4
  <2> QED BY <2>9, <2>10, <2>11 DEF Solves
<1> DEFINE SS == S
<1>3. SS \in SUBSET Nat /\ 0 \in SS /\ \A m \in SS : m + 1 \in SS
  BY <1>1, <1>2
<1>4. n \in SS
  <2> HIDE DEF SS
  <2> QED BY <1>3, NatSetInduction
<1> QED BY <1>4

\* The bytes a character should come to.
Sent(c) == IF c = "\n" THEN <<"\r", "\n">> ELSE <<c>>

LEMMA SentType == \A c \in Char : Sent(c) \in Seq(Char)
<1>1. "\r" \in Char /\ "\n" \in Char
  BY DEF Char
<1>2. <<"\r", "\n">> \in Seq(Char)
  BY <1>1
<1> QED BY <1>2 DEF Sent

\* OnWire is the recurrence its definition spells.
LEMMA WireGrows ==
    ASSUME NEW w \in Seq(Char)
    PROVE  /\ OnWire(w)[0] = << >>
           /\ \A k \in 1 .. Len(w) : OnWire(w)[k] = OnWire(w)[k - 1] \o Sent(w[k])
           /\ \A k \in 0 .. Len(w) : OnWire(w)[k] \in Seq(Char)
<1>1. PICK n \in Nat : n = Len(w)
  OBVIOUS
<1> DEFINE F(s) == [k \in 0 .. n |-> IF k = 0 THEN << >> ELSE s[k - 1] \o Sent(w[k])]
<1>2. OnWire(w) = CHOOSE s : s = F(s)
  BY <1>1 DEF OnWire, Sent
<1> DEFINE g == [x \in Seq(Char) \X (1 .. n) |-> x[1] \o Sent(w[x[2]])]
<1>3. \A k \in 1 .. n : w[k] \in Char
  BY <1>1
<1>4. g \in [Seq(Char) \X (1 .. n) -> Seq(Char)]
  <2>1. \A k \in 1 .. n : Sent(w[k]) \in Seq(Char)
    BY <1>3, SentType
  <2>2. \A x \in Seq(Char) \X (1 .. n) : x[1] \in Seq(Char) /\ x[2] \in 1 .. n
    OBVIOUS
  <2>3. \A x \in Seq(Char) \X (1 .. n) : x[1] \o Sent(w[x[2]]) \in Seq(Char)
    BY <2>1, <2>2
  <2> QED BY <2>3
<1>5. PICK s : Solves(s, n, Seq(Char), << >>, g)
  <2>1. << >> \in Seq(Char)
    OBVIOUS
  <2> HIDE DEF g
  <2> QED BY <1>4, <2>1, RecurrenceSolved
<1>6. \A k \in 0 .. n : s[k] \in Seq(Char)
  BY <1>5 DEF Solves
<1>7. ASSUME NEW k \in 1 .. n PROVE s[k] = s[k - 1] \o Sent(w[k])
  <2>1. k - 1 \in 0 .. n
    OBVIOUS
  <2>2. s[k - 1] \in Seq(Char)
    BY <1>6, <2>1
  <2>3. s[k] = g[<<s[k - 1], k>>]
    BY <1>5 DEF Solves
  <2> QED BY <2>2, <2>3
<1>8. s = F(s)
  <2>1. ASSUME NEW k \in 0 .. n
        PROVE  s[k] = IF k = 0 THEN << >> ELSE s[k - 1] \o Sent(w[k])
    <3>1. k = 0 \/ k \in 1 .. n
      OBVIOUS
    <3>2. s[0] = << >>
      BY <1>5 DEF Solves
    <3> QED BY <1>7, <3>1, <3>2
  <2>2. s = [k \in 0 .. n |-> s[k]]
    BY <1>5 DEF Solves
  <2> QED BY <2>1, <2>2
<1>9. OnWire(w) = F(OnWire(w))
  <2> HIDE DEF F
  <2> QED BY <1>2, <1>8, Zenon
<1>10. PICK u : u = OnWire(w)
  OBVIOUS
<1>11. u = F(u)
  BY <1>9, <1>10
<1>12. u[0] = << >>
  BY <1>11
<1>13. ASSUME NEW k \in 1 .. n PROVE u[k] = u[k - 1] \o Sent(w[k])
  <2>1. k \in 0 .. n /\ k # 0
    OBVIOUS
  <2> QED BY <1>11, <2>1
<1> DEFINE T == {m \in Nat : m <= n => u[m] \in Seq(Char)}
<1>14. 0 \in T
  <2>1. << >> \in Seq(Char)
    OBVIOUS
  <2> QED BY <1>12, <2>1
<1>15. ASSUME NEW m \in T PROVE m + 1 \in T
  <2> SUFFICES ASSUME m + 1 <= n PROVE u[m + 1] \in Seq(Char)
    OBVIOUS
  <2>1. m \in Nat /\ m <= n /\ m + 1 \in 1 .. n /\ (m + 1) - 1 = m
    OBVIOUS
  <2>2. u[m] \in Seq(Char)
    BY <2>1
  <2>3. Sent(w[m + 1]) \in Seq(Char)
    BY <1>3, <2>1, SentType
  <2>4. u[m + 1] = u[m] \o Sent(w[m + 1])
    BY <1>13, <2>1
  <2> QED BY <2>2, <2>3, <2>4
<1> DEFINE TT == T
<1>16. TT \in SUBSET Nat /\ 0 \in TT /\ \A m \in TT : m + 1 \in TT
  BY <1>14, <1>15
<1>17. \A m \in Nat : m \in TT
  <2> HIDE DEF TT
  <2> QED BY <1>16, NatSetInduction
<1>18. \A m \in 0 .. n : u[m] \in Seq(Char)
  BY <1>17
<1> QED BY <1>1, <1>10, <1>12, <1>13, <1>18

(***************************************************************************)
(* What a panic prints                                                     *)
(***************************************************************************)

\* kmain registers the serial port, then fbcon if there is a framebuffer.
Registered ==
    /\ mode \in {"boot", "run", "panic", "halt"} /\ ready \in BOOLEAN
    /\ mode = "boot" => ~ready /\ sinks = << >>
    /\ mode # "boot" =>
         /\ Len(sinks) = (IF ready THEN 2 ELSE 1) /\ sinks[1] = "serial"
         /\ ready => sinks[2] = "fbcon"
         /\ present <=> uart # "absent"
    /\ ~ready => shown = << >> /\ at \notin InPutc
    /\ at \in {"ready", "sink", "poll"} \union InPutc

\* The panic's text up to its nth character: on the wire and on the screen.
Wired(n) == OnWire(PanicText)[n]
Shown(n) == SubSeq(PanicText, 1, n)

\* The bytes of the current character that the UART has and has not got.
OnItsWay ==
    \/ out = Bytes(ch) /\ (uart = "ok" => wire = Wired(pos - 2))
    \/ /\ ch = "\n" /\ out = <<"\n">>
       /\ uart = "ok" => wire = Append(Wired(pos - 2), "\r")

\* Every sink has had the characters before the current one, and the sinks
\* before the current one that as well.
Progress ==
    mode \in {"panic", "halt"} =>
        /\ text = PanicText /\ pos \in 1 .. (Len(PanicText) + 1)
        /\ mode = "halt" => at = "ready" /\ pos = Len(PanicText) + 1
        /\ at = "ready" =>
             /\ uart = "ok" => wire = Wired(pos - 1)
             /\ ready => shown = Shown(pos - 1)
        /\ at # "ready" =>
             /\ pos > 1 /\ ch = PanicText[pos - 1]
             /\ sink \in IF ready THEN 1 .. 3 ELSE 1 .. 2
             /\ at = "poll" => sink = 1 /\ OnItsWay
             /\ at \in InPutc => sink = 2 /\ ready
             /\ at = "sink" /\ sink = 1 /\ uart = "ok" => wire = Wired(pos - 2)
             /\ sink > 1 /\ uart = "ok" => wire = Wired(pos - 1)
             /\ ready => shown = Shown(IF sink > 2 THEN pos - 1 ELSE pos - 2)

PInv == Registered /\ Progress

\* The bytes serial_putc sends, one after the other.
LEMMA WiredFacts ==
    ASSUME NEW n \in 1 .. Len(PanicText)
    PROVE  /\ Wired(n - 1) \in Seq(Char)
           /\ PanicText[n] = "\n" =>
                Wired(n) = Append(Append(Wired(n - 1), "\r"), "\n")
           /\ PanicText[n] # "\n" => Wired(n) = Append(Wired(n - 1), PanicText[n])
<1>1. PanicText \in Seq(Char) /\ Len(PanicText) \in Nat
  BY PanicTextType
<1>2. n - 1 \in 0 .. Len(PanicText)
  BY <1>1
<1>3. PICK s \in Seq(Char) : s = Wired(n - 1)
  BY <1>1, <1>2, WireGrows DEF Wired
<1>4. Wired(n) = s \o Sent(PanicText[n])
  BY <1>1, <1>3, WireGrows DEF Wired
<1>5. PanicText[n] \in Char /\ "\n" \in Char /\ "\r" \in Char
  BY <1>1 DEF Char
<1>6. CASE PanicText[n] = "\n"
  <2>1. Wired(n) = s \o <<"\r", "\n">>
    BY <1>4, <1>6 DEF Sent
  <2>2. s \o <<"\r", "\n">> = Append(Append(s, "\r"), "\n")
    BY <1>5
  <2> QED BY <1>3, <1>6, <2>1, <2>2
<1>7. CASE PanicText[n] # "\n"
  <2>1. Wired(n) = s \o <<PanicText[n]>>
    BY <1>4, <1>7 DEF Sent
  <2>2. s \o <<PanicText[n]>> = Append(s, PanicText[n])
    BY <1>5
  <2> QED BY <1>3, <1>7, <2>1, <2>2
<1> QED BY <1>6, <1>7

LEMMA ShownFacts ==
    /\ Shown(0) = << >> /\ Wired(0) = << >>
    /\ Shown(Len(PanicText)) = PanicText
    /\ \A n \in 1 .. Len(PanicText) : Shown(n) = Append(Shown(n - 1), PanicText[n])
<1>1. PanicText \in Seq(Char) /\ Len(PanicText) \in Nat
  BY PanicTextType
<1>2. Wired(0) = << >>
  BY <1>1, WireGrows DEF Wired
<1>3. PICK t \in Seq(Char), L \in Nat : t = PanicText /\ L = Len(t)
  BY <1>1
<1>4. SubSeq(t, 1, 0) = << >> /\ SubSeq(t, 1, L) = t
  BY <1>3
<1>5. ASSUME NEW n \in 1 .. L
      PROVE  SubSeq(t, 1, n) = Append(SubSeq(t, 1, n - 1), t[n])
  BY <1>3
<1> QED BY <1>2, <1>3, <1>4, <1>5 DEF Shown

LEMMA PanicInit == Init => PInv
<1> SUFFICES ASSUME Init PROVE PInv
  OBVIOUS
<1> QED BY DEF Init, PInv, Registered, Progress, InPutc

LEMMA RegisteredStep ==
    ASSUME FInv, PInv, [Next]_vars
    PROVE  Registered'
<1> USE DEF machine, serial, fbcon, printing, cursor, InPutc
<1>1. Registered
  BY DEF PInv
<1>2. CASE SerialInit
  <2>1. sinks = << >> /\ Len(sinks) = 0 /\ mode = "boot"
    BY <1>1, <1>2 DEF Registered, SerialInit
  <2>2. Len(sinks) < MAX_SINKS
    BY <2>1, ConsoleAssumption
  <2>3. Len(sinks') = 1 /\ sinks'[1] = "serial"
    BY <1>2, <2>1, <2>2 DEF SerialInit
  <2> QED BY <1>1, <1>2, <2>3 DEF SerialInit, Registered
<1>3. CASE FbconInit
  <2>1. /\ mode = "run" /\ ~ready /\ sinks[1] = "serial" /\ Len(sinks) = 1
        /\ sinks \in Seq({"serial", "fbcon"})
    BY <1>1, <1>3 DEF Registered, FbconInit, FInv
  <2>2. Len(sinks) < MAX_SINKS
    BY <2>1, ConsoleAssumption
  <2>3. Len(sinks') = 2 /\ sinks'[1] = "serial" /\ sinks'[2] = "fbcon"
    <3>1. sinks' = Append(sinks, "fbcon")
      BY <1>3, <2>2 DEF FbconInit
    <3>2. PICK S : sinks \in Seq(S) /\ "fbcon" \in S
      BY <2>1
    <3>3. PICK t \in Seq(S) : t = sinks /\ Len(t) = 1 /\ t[1] = "serial"
      BY <2>1, <3>2
    <3>4. /\ Len(Append(t, "fbcon")) = 2 /\ Append(t, "fbcon")[1] = "serial"
          /\ Append(t, "fbcon")[2] = "fbcon"
      <4>0. PICK a : a = Append(t, "fbcon")
        OBVIOUS
      <4>1. PICK n \in Nat : n = Len(t)
        BY <3>3
      <4>2. Len(a) = n + 1 /\ a[n + 1] = "fbcon" /\ \A k \in 1 .. n : a[k] = t[k]
        <5>1. t \in Seq(S) /\ "fbcon" \in S
          BY <3>2
        <5>2. /\ Len(Append(t, "fbcon")) = Len(t) + 1
              /\ Append(t, "fbcon")[Len(t) + 1] = "fbcon"
              /\ \A k \in 1 .. Len(t) : Append(t, "fbcon")[k] = t[k]
          BY <5>1, AppendFacts
        <5> QED BY <4>0, <4>1, <5>2, Zenon
      <4>3. n = 1
        BY <3>3, <4>1
      <4>4. n + 1 = 2 /\ 1 \in 1 .. n
        BY <4>3
      <4> QED BY <3>3, <4>0, <4>2, <4>4
    <3> QED BY <3>1, <3>3, <3>4
  <2> QED BY <1>1, <1>3, <2>1, <2>3 DEF FbconInit, Registered
<1>4. CASE \E d : Kprintf(d)
  BY <1>1, <1>4 DEF Kprintf, Registered
<1>5. CASE EmitNext \/ NextSink
  <2>1. /\ UNCHANGED <<uart, mode, sinks, present, ready, shown>>
        /\ at' \in {"ready", "sink", "poll", "putc"}
    BY <1>5 DEF EmitNext, NextSink, Emit
  <2>2. at' = "putc" => sink <= Len(sinks) /\ sinks[sink] = "fbcon"
    BY <1>5 DEF EmitNext, NextSink, Emit
  <2>3. at' = "putc" => ready
    <3> SUFFICES ASSUME at' = "putc", ~ready PROVE FALSE
      OBVIOUS
    <3>1. Len(sinks) = 0 \/ (Len(sinks) = 1 /\ sinks[1] = "serial")
      BY <1>1 DEF Registered
    <3>2. sink \in Nat /\ sink > 0
      BY DEF FInv
    <3> QED BY <2>2, <3>1, <3>2
  <2> QED BY <1>1, <2>1, <2>3 DEF Registered
<1>6. CASE PollBusy \/ Send
  BY <1>1, <1>6 DEF PollBusy, Send, MaySend, Registered
<1>7. CASE Putc
  <2>1. /\ UNCHANGED <<uart, mode, sinks, present, ready>>
        /\ at' \in {"ready", "sink", "poll"} \union InPutc
        /\ at \in InPutc
    BY <1>7 DEF Putc, PutReturn, PutControl, Draw, Advance, Wrap, NextRow, CheckRow,
       ScrollCopy, ScrollFill, Settle, PutDone, Elsewhere
  <2>2. ready \/ shown' = shown
    BY <1>1, <2>1 DEF Registered
  <2> QED BY <1>1, <2>1, <2>2 DEF Registered
<1>8. CASE Panic
  BY <1>1, <1>8 DEF Panic, Registered
<1>9. CASE PanicHalt
  BY <1>1, <1>9 DEF PanicHalt, Registered
<1>10. CASE Halted \/ UNCHANGED vars
  BY <1>1, <1>10 DEF Halted, vars, Registered
<1> QED BY <1>2, <1>3, <1>4, <1>5, <1>6, <1>7, <1>8, <1>9, <1>10 DEF Next, Step

\* A character is taken from the panic's text and goes to the first sink.
LEMMA EmitProgress ==
    ASSUME FInv, PInv, mode \in {"panic", "halt"}, EmitNext
    PROVE  Progress'
<1>1. /\ Progress /\ at = "ready" /\ pos <= Len(text) /\ ch' = text[pos] /\ sink' = 1
      /\ at' = "sink" /\ pos' = pos + 1
      /\ UNCHANGED <<uart, mode, text, wire, ready, shown>>
  BY DEF PInv, EmitNext, Emit, machine, serial, fbcon
<1>2. PICK n \in Nat, L \in Nat : n = pos /\ L = Len(PanicText) /\ n \in 1 .. L
  BY <1>1, PanicTextType DEF Progress
<1>3. /\ text = PanicText /\ mode # "halt"
      /\ uart = "ok" => wire = Wired(n - 1)
      /\ ready => shown = Shown(n - 1)
  BY <1>1, <1>2 DEF Progress
<1>4. (n + 1) - 2 = n - 1 /\ (n + 1) - 1 = n /\ n + 1 > 1 /\ n + 1 \in 1 .. (L + 1)
  BY <1>2
<1> QED BY <1>1, <1>2, <1>3, <1>4 DEF Progress, InPutc

\* The loop over the sinks: the next one, or none is left.
LEMMA SinkProgress ==
    ASSUME FInv, PInv, mode \in {"panic", "halt"}, NextSink
    PROVE  Progress'
<1>1. /\ Progress /\ at = "sink" /\ Registered /\ mode # "boot"
      /\ UNCHANGED <<uart, mode, sinks, ch, text, pos, wire, ready, shown>>
  BY DEF PInv, NextSink, machine, printing, fbcon
<1>2. PICK n \in Nat, L \in Nat :
        n = pos /\ L = Len(PanicText) /\ n \in 1 .. (L + 1) /\ n > 1
  BY <1>1, PanicTextType DEF Progress
<1>3. /\ text = PanicText /\ ch = PanicText[n - 1] /\ mode # "halt"
      /\ sink \in Nat /\ sink > 0 /\ sink <= 3 /\ (~ready => sink <= 2)
      /\ sink = 1 /\ uart = "ok" => wire = Wired(n - 2)
      /\ sink > 1 /\ uart = "ok" => wire = Wired(n - 1)
      /\ ready => shown = Shown(IF sink > 2 THEN n - 1 ELSE n - 2)
  BY <1>1, <1>2 DEF Progress
<1>4. /\ Len(sinks) = (IF ready THEN 2 ELSE 1) /\ sinks[1] = "serial"
      /\ ready => sinks[2] = "fbcon"
      /\ present <=> uart # "absent"
  BY <1>1 DEF Registered
<1>5. CASE sink > Len(sinks)
  <2>1. at' = "ready" /\ sink > 1 /\ (ready => sink > 2)
    BY <1>3, <1>4, <1>5 DEF NextSink
  <2> QED BY <1>1, <1>2, <1>3, <2>1 DEF Progress
<1>6. CASE sink <= Len(sinks) /\ sink = 1 /\ present
  <2>1. at' = "poll" /\ sink' = 1 /\ out' = Bytes(ch)
    BY <1>1, <1>4, <1>6 DEF NextSink
  <2>2. OnItsWay'
    BY <1>1, <1>2, <1>3, <1>6, <2>1 DEF OnItsWay, Bytes
  <2> QED BY <1>1, <1>2, <1>3, <1>6, <2>1, <2>2 DEF Progress, InPutc
<1>7. CASE sink <= Len(sinks) /\ sink = 1 /\ ~present
  <2>1. at' = "sink" /\ sink' = 2 /\ uart # "ok"
    BY <1>1, <1>4, <1>7 DEF NextSink
  <2> QED BY <1>1, <1>2, <1>3, <1>7, <2>1 DEF Progress, InPutc
<1>8. CASE sink <= Len(sinks) /\ sink # 1
  <2>1. sink = 2 /\ ready
    BY <1>3, <1>4, <1>8
  <2>2. at' = "putc" /\ sink' = 2
    BY <1>1, <1>4, <1>8, <2>1 DEF NextSink
  <2> QED BY <1>1, <1>2, <1>3, <2>1, <2>2 DEF Progress, InPutc
<1>9. sink > Len(sinks) \/ sink <= Len(sinks)
  BY <1>3, <1>4
<1> QED BY <1>5, <1>6, <1>7, <1>8, <1>9

\* serial_putc: a byte at a time, the carriage return first.
LEMMA SerialProgress ==
    ASSUME FInv, PInv, mode \in {"panic", "halt"}, PollBusy \/ Send
    PROVE  Progress'
<1>1. /\ Progress /\ at = "poll"
      /\ UNCHANGED <<uart, mode, sinks, ch, text, pos, ready, shown>>
  BY DEF PInv, PollBusy, Send, MaySend, machine, printing, fbcon
<1>2. PICK n \in Nat, L \in Nat :
        n = pos /\ L = Len(PanicText) /\ n \in 1 .. (L + 1) /\ n > 1
  BY <1>1, PanicTextType DEF Progress
<1>3. /\ text = PanicText /\ ch = PanicText[n - 1] /\ mode # "halt"
      /\ sink = 1 /\ OnItsWay
      /\ ready => shown = Shown(n - 2)
  BY <1>1, <1>2 DEF Progress
<1>4. CASE PollBusy
  <2>1. UNCHANGED <<at, sink, out, wire>>
    BY <1>4 DEF PollBusy
  <2>2. OnItsWay'
    BY <1>1, <1>3, <2>1 DEF OnItsWay, Bytes
  <2> QED BY <1>1, <1>2, <1>3, <2>1, <2>2 DEF Progress, InPutc
<1>5. CASE Send
  <2>1. PICK s : s = Wired(n - 2)
    OBVIOUS
  <2>2. /\ ch = "\n" => Wired(n - 1) = Append(Append(s, "\r"), "\n")
        /\ ch # "\n" => Wired(n - 1) = Append(s, ch)
    <3>1. n - 1 \in 1 .. L /\ (n - 1) - 1 = n - 2
      BY <1>2
    <3> QED BY <1>2, <1>3, <2>1, <3>1, WiredFacts
  <2>3. /\ wire' = IF uart = "ok" THEN Append(wire, Head(out)) ELSE wire
        /\ out' = Tail(out)
        /\ Len(out) > 1 => UNCHANGED <<at, sink>>
        /\ ~(Len(out) > 1) => at' = "sink" /\ sink' = sink + 1
    BY <1>5 DEF Send
  <2>4. CASE ch = "\n" /\ out = <<"\r", "\n">>
    <3>1. Len(out) = 2 /\ Head(out) = "\r" /\ Tail(out) = <<"\n">>
      BY <2>4
    <3>2. uart = "ok" => wire = s
      BY <1>2, <1>3, <2>1, <2>4, <3>1 DEF OnItsWay
    <3>3. at' = "poll" /\ sink' = 1 /\ out' = <<"\n">>
          /\ (uart = "ok" => wire' = Append(s, "\r"))
      BY <1>1, <1>3, <2>3, <3>1, <3>2
    <3>4. OnItsWay'
      BY <1>1, <1>2, <2>1, <2>4, <3>3 DEF OnItsWay
    <3> QED BY <1>1, <1>2, <1>3, <3>3, <3>4 DEF Progress, InPutc
  <2>5. CASE ch = "\n" /\ out = <<"\n">>
    <3>1. Len(out) = 1 /\ Head(out) = "\n" /\ out # <<"\r", "\n">>
      BY <2>5
    <3>2. uart = "ok" => wire = Append(s, "\r")
      BY <1>2, <1>3, <2>1, <2>5, <3>1 DEF OnItsWay, Bytes
    <3>3. at' = "sink" /\ sink' = 2 /\ (uart = "ok" => wire' = Wired(n - 1))
      <4>1. at' = "sink" /\ sink' = sink + 1
        BY <2>3, <3>1
      <4>2. sink' = 2
        BY <1>3, <4>1
      <4>3. uart = "ok" => wire' = Append(wire, "\n")
        BY <2>3, <3>1
      <4> QED BY <2>2, <2>5, <3>2, <4>1, <4>2, <4>3
    <3> QED BY <1>1, <1>2, <1>3, <3>3 DEF Progress, InPutc
  <2>6. CASE ch # "\n"
    <3>1. out = <<ch>> /\ (uart = "ok" => wire = s)
      BY <1>2, <1>3, <2>1, <2>6 DEF OnItsWay, Bytes
    <3>2. Len(out) = 1 /\ Head(out) = ch
      BY <3>1
    <3>3. at' = "sink" /\ sink' = 2 /\ (uart = "ok" => wire' = Wired(n - 1))
      <4>1. at' = "sink" /\ sink' = sink + 1
        BY <2>3, <3>2
      <4>2. sink' = 2
        BY <1>3, <4>1
      <4>3. uart = "ok" => wire' = Append(wire, ch)
        BY <2>3, <3>2
      <4> QED BY <2>2, <2>6, <3>1, <4>1, <4>2, <4>3
    <3> QED BY <1>1, <1>2, <1>3, <3>3 DEF Progress, InPutc
  <2>7. ch = "\n" => out = <<"\r", "\n">> \/ out = <<"\n">>
    BY <1>3 DEF OnItsWay, Bytes
  <2> QED BY <2>4, <2>5, <2>6, <2>7
<1> QED BY <1>4, <1>5

\* fbcon_putc ends with the character shown.
LEMMA PutcProgress ==
    ASSUME FInv, PInv, mode \in {"panic", "halt"}, Putc
    PROVE  Progress'
<1>1. /\ Progress /\ at \in InPutc
      /\ UNCHANGED <<uart, mode, sinks, ch, text, pos, ready, wire>>
      /\ \/ at' \in InPutc /\ UNCHANGED <<sink, shown>>
         \/ PutDone
  BY DEF PInv, Putc, PutReturn, PutControl, Draw, Advance, Wrap, NextRow, CheckRow,
     ScrollCopy, ScrollFill, Settle, Elsewhere, machine, printing, serial, InPutc
<1>2. PICK n \in Nat, L \in Nat :
        n = pos /\ L = Len(PanicText) /\ n \in 1 .. (L + 1) /\ n > 1
  BY <1>1, PanicTextType DEF Progress, InPutc
<1>3. /\ text = PanicText /\ ch = PanicText[n - 1] /\ mode # "halt"
      /\ sink = 2 /\ ready /\ shown = Shown(n - 2)
      /\ uart = "ok" => wire = Wired(n - 1)
  BY <1>1, <1>2 DEF Progress, InPutc
<1>4. CASE at' \in InPutc /\ UNCHANGED <<sink, shown>>
  BY <1>1, <1>2, <1>3, <1>4 DEF Progress, InPutc
<1>5. CASE PutDone
  <2>1. at' = "sink" /\ sink' = 3 /\ shown' = Append(shown, ch)
    BY <1>3, <1>5 DEF PutDone
  <2>2. shown' = Shown(n - 1)
    <3>1. n - 1 \in 1 .. L /\ (n - 1) - 1 = n - 2
      BY <1>2
    <3> QED BY <1>2, <1>3, <2>1, <3>1, ShownFacts
  <2> QED BY <1>1, <1>2, <1>3, <2>1, <2>2 DEF Progress, InPutc
<1> QED BY <1>1, <1>4, <1>5

LEMMA ProgressStep ==
    ASSUME FInv, PInv, [Next]_vars
    PROVE  Progress'
<1>1. CASE Panic
  <2>1. /\ mode' = "panic" /\ text' = PanicText /\ pos' = 1 /\ at' = "ready"
        /\ wire' = << >> /\ shown' = << >>
    BY <1>1 DEF Panic
  <2> QED BY <2>1, ShownFacts, PanicTextType DEF Progress
<1>2. CASE PanicHalt
  <2>1. /\ mode = "panic" /\ mode' = "halt" /\ at = "ready" /\ pos > Len(text)
        /\ Progress
        /\ UNCHANGED <<uart, at, text, pos, wire, ready, shown>>
    BY <1>2 DEF PanicHalt, Idle, PInv, machine, printing, serial, fbcon
  <2> QED BY <2>1, PanicTextType DEF Progress
<1>3. CASE Halted \/ UNCHANGED vars
  <2>1. /\ UNCHANGED <<uart, mode, sinks, at, ch, sink, text, pos, out, wire, ready, shown>>
        /\ Progress
    BY <1>3 DEF Halted, vars, PInv, machine, printing, serial, fbcon
  <2>2. OnItsWay' <=> OnItsWay
    BY <2>1 DEF OnItsWay, Bytes
  <2> QED BY <2>1, <2>2 DEF Progress
<1>4. CASE SerialInit \/ FbconInit \/ \E d : Kprintf(d)
  <2>1. mode' = "run"
    BY <1>4 DEF SerialInit, FbconInit, Kprintf
  <2> QED BY <2>1 DEF Progress
<1>5. CASE EmitNext \/ NextSink \/ PollBusy \/ Send \/ Putc
  <2>1. mode' = mode
    BY <1>5 DEF EmitNext, NextSink, PollBusy, Send, Putc, PutReturn, PutControl, Draw,
       Advance, Wrap, NextRow, CheckRow, ScrollCopy, ScrollFill, Settle, Elsewhere
  <2>2. CASE mode \notin {"panic", "halt"}
    BY <2>1, <2>2 DEF Progress
  <2> QED BY <1>5, <2>2, EmitProgress, SinkProgress, SerialProgress, PutcProgress
<1> QED BY <1>1, <1>2, <1>3, <1>4, <1>5 DEF Next, Step

LEMMA PanicInductive == FInv /\ PInv /\ [Next]_vars => PInv'
  BY RegisteredStep, ProgressStep DEF PInv

\* When a panic has halted, every registered console has all of its text,
\* whatever it interrupted and however often it was interrupted (panic.c:6).
THEOREM PanicIsComplete == FairSpec => []PanicTextComplete
<1>1. FInv /\ PInv => PanicTextComplete
  <2> SUFFICES ASSUME PInv, mode = "halt" PROVE
          /\ ready => shown = PanicText
          /\ uart = "ok" => wire = OnWire(PanicText)[Len(PanicText)]
    BY DEF PanicTextComplete
  <2>1. PICK L \in Nat : L = Len(PanicText)
    BY PanicTextType
  <2>2. at = "ready" /\ pos = L + 1 /\ (L + 1) - 1 = L
    BY <2>1 DEF PInv, Progress
  <2>3. /\ ready => shown = Shown(L)
        /\ uart = "ok" => wire = Wired(L)
    BY <2>1, <2>2 DEF PInv, Progress
  <2> QED BY <2>1, <2>3, ShownFacts DEF Wired
<1> QED
  BY <1>1, ConsoleInit, ConsoleInductive, PanicInit, PanicInductive, PTL DEF FairSpec, Spec

(***************************************************************************)
(* What the screen shows                                                   *)
(***************************************************************************)

Symbols == Char \union {Space}
Rows(n) == [0 .. (n - 1) -> Symbols]
Sheets(n) == [lines : Seq(Rows(n)) \ {<< >>}, col : 0 .. (n - 1)]

\* The paper as fbcon has it, and as it is after the current character; the
\* lines with that character struck.
Sheet == Paper(cols, shown)
After == Typed(cols, Sheet, ch)
Struck(p, c) == [p.lines EXCEPT ![Len(p.lines)] = [@ EXCEPT ![p.col] = c]]

\* fbcon prints characters; its screen has rows of symbols.
ScreenTypes ==
    /\ text \in Seq(Char) /\ pos > 0 /\ shown \in Seq(Char)
    /\ at # "ready" => ch \in Char
    /\ screen \in [0 .. (rows - 1) -> Rows(cols)]

\* The first line of the paper that has to be on the screen: a panic does not
\* answer for the line it finds.
First == IF mode = "run" THEN 1 ELSE 2

\* A screen s of h rows shows the end of the lines L, from line f on, when the
\* last one is in row n; and nothing below it.
Shows(s, h, f, L, n) ==
    \A r \in 0 .. (h - 1) :
        r <= n /\ Len(L) - (n - r) >= f => s[r] = L[Len(L) - (n - r)]
Lines(L, n) == Shows(screen, rows, First, L, n)
Below(n) == \A r \in 0 .. (rows - 1) : r > n => screen[r] = BlankRow(cols)

\* Row n is where the text has come to on a screen that scrolls.
Placed(L, n) ==
    mode = "run" => n + 1 = Len(L) \/ (rows <= n + 1 /\ n + 1 <= Len(L))

\* A panic that has shown nothing yet has a cursor that may be anywhere.
Steady == mode = "run" \/ shown # << >>

LastBlank(L) == L[Len(L)] = BlankRow(cols)

\* scroll, with the rows above row c moved already.
Halfway(s, h, f, L, c) ==
    \A r \in 0 .. (h - 1) :
        /\ r < c /\ Len(L) - (h - 1 - r) >= f => s[r] = L[Len(L) - (h - 1 - r)]
        /\ r >= c /\ Len(L) - (h - r) >= f => s[r] = L[Len(L) - (h - r)]
Scrolling(L) == Halfway(screen, rows, First, L, copied)

\* Before fbcon_putc draws; once it has drawn a glyph; and when the cursor has
\* moved on.
Resting ==
    IF Steady
    THEN /\ cur_col = Sheet.col /\ OnCell
         /\ Lines(Sheet.lines, cur_row) /\ Placed(Sheet.lines, cur_row)
    ELSE at = "putc" => ch = "\n"
Drawn ==
    /\ Steady /\ ch \notin {"\n", "\r", "control"}
    /\ at = "advance" => cur_col = Sheet.col
    /\ at = "wrap" => Sheet.col + 1 >= cols
    /\ Lines(Struck(Sheet, ch), cur_row) /\ Placed(Struck(Sheet, ch), cur_row)
Moved ==
    /\ cur_col = After.col
    /\ at = "row" =>
         /\ LastBlank(After.lines)
         /\ Lines(After.lines, cur_row + 1) /\ Placed(After.lines, cur_row + 1)
         /\ cur_row < rows \/ Len(After.lines) <= First
    /\ at = "check" =>
         /\ cur_row >= rows => LastBlank(After.lines)
         /\ Lines(After.lines, cur_row) /\ Placed(After.lines, cur_row)
         /\ cur_row <= rows \/ Len(After.lines) <= First
    /\ at = "scroll" =>
         /\ LastBlank(After.lines) /\ cur_row >= rows
         /\ Scrolling(After.lines) /\ Placed(After.lines, cur_row)
    /\ at = "settle" =>
         /\ cur_row >= rows
         /\ Lines(After.lines, rows - 1) /\ Placed(After.lines, cur_row)

OnScreen ==
    /\ ScreenTypes /\ Below(cur_row)
    /\ at \in {"ready", "sink", "poll", "putc"} => Resting
    /\ at \in {"advance", "wrap"} => Drawn
    /\ at \in {"row", "check", "scroll", "settle"} => Moved

SInv == ready => OnScreen

LEMMA BlankFacts ==
    ASSUME NEW n \in Nat
    PROVE  BlankRow(n) \in Rows(n)
BY DEF BlankRow, Rows, Symbols

\* Striking a glyph changes one place of the last line.
LEMMA StruckFacts ==
    ASSUME NEW n \in Nat \ {0}, NEW p \in Sheets(n), NEW c \in Char
    PROVE  LET L == p.lines
               S == Struck(p, c)
           IN  /\ S \in Seq(Rows(n)) /\ Len(S) = Len(L)
               /\ \A k \in 1 .. (Len(L) - 1) : S[k] = L[k]
               /\ S[Len(L)] = [L[Len(L)] EXCEPT ![p.col] = c]
<1>1. PICK L \in Seq(Rows(n)), x \in 0 .. (n - 1) : L = p.lines /\ x = p.col /\ L # << >>
  BY DEF Sheets
<1>2. PICK N \in Nat : N = Len(L) /\ N > 0 /\ DOMAIN L = 1 .. N
  BY <1>1
<1>3. L[N] \in Rows(n)
  BY <1>1, <1>2
<1>4. PICK R : R = [L[N] EXCEPT ![x] = c]
  OBVIOUS
<1>5. R \in Rows(n)
  BY <1>1, <1>3, <1>4 DEF Rows, Symbols
<1>6. PICK S : S = [L EXCEPT ![N] = R]
  OBVIOUS
<1>7. Struck(p, c) = S
  BY <1>1, <1>2, <1>4, <1>6 DEF Struck
<1>8. \A k \in 1 .. N : L[k] \in Rows(n)
  BY <1>1, <1>2
<1>9. S \in [1 .. N -> Rows(n)]
  <2>1. L \in [1 .. N -> Rows(n)]
    BY <1>1, <1>2
  <2> QED BY <1>2, <1>5, <1>6, <2>1
<1>10. S \in Seq(Rows(n)) /\ Len(S) = N
  BY <1>2, <1>9
<1>11. S[N] = R /\ \A k \in 1 .. (N - 1) : S[k] = L[k]
  BY <1>2, <1>6
<1> QED BY <1>1, <1>2, <1>4, <1>7, <1>10, <1>11

\* What a character does to the paper.
LEMMA TypedFacts ==
    ASSUME NEW n \in Nat \ {0}, NEW p \in Sheets(n), NEW c \in Char
    PROVE  LET q == Typed(n, p, c)
           IN  /\ q \in Sheets(n)
               /\ c = "\n" => q.lines = Append(p.lines, BlankRow(n)) /\ q.col = 0
               /\ c = "\r" => q.lines = p.lines /\ q.col = 0
               /\ c = "control" => q = p
               /\ c \notin {"\n", "\r", "control"} =>
                    IF p.col + 1 < n
                    THEN q.lines = Struck(p, c) /\ q.col = p.col + 1
                    ELSE q.lines = Append(Struck(p, c), BlankRow(n)) /\ q.col = 0
<1>1. /\ p.lines \in Seq(Rows(n)) /\ p.lines # << >> /\ p.col \in 0 .. (n - 1)
      /\ p = [lines |-> p.lines, col |-> p.col]
  BY DEF Sheets
<1>2. PICK B \in Rows(n) : B = BlankRow(n)
  BY BlankFacts
<1>3. PICK q : q = Typed(n, p, c)
  OBVIOUS
<1>4. \A s \in Seq(Rows(n)) : Append(s, B) \in Seq(Rows(n)) /\ Append(s, B) # << >>
  BY <1>2
<1>5. CASE c = "\n"
  <2>1. q = [lines |-> Append(p.lines, B), col |-> 0]
    BY <1>2, <1>3, <1>5 DEF Typed
  <2>2. q \in Sheets(n)
    BY <1>1, <1>4, <2>1 DEF Sheets
  <2> QED BY <1>2, <1>3, <1>5, <2>1, <2>2
<1>6. CASE c = "\r"
  <2>1. q = [p EXCEPT !.col = 0]
    BY <1>3, <1>6 DEF Typed
  <2>2. q = [lines |-> p.lines, col |-> 0]
    BY <1>1, <2>1
  <2>3. q \in Sheets(n)
    BY <1>1, <2>2 DEF Sheets
  <2> QED BY <1>3, <1>6, <2>2, <2>3
<1>7. CASE c = "control"
  <2>1. q = p
    BY <1>3, <1>7 DEF Typed
  <2> QED BY <1>3, <1>7, <2>1
<1>8. CASE c \notin {"\n", "\r", "control"}
  <2>1. PICK S \in Seq(Rows(n)) : S = Struck(p, c) /\ S # << >>
    <3>1. Struck(p, c) \in Seq(Rows(n)) /\ Len(Struck(p, c)) = Len(p.lines)
      BY StruckFacts
    <3>2. Len(p.lines) \in Nat /\ Len(p.lines) # 0
      BY <1>1
    <3>3. Struck(p, c) # << >>
      BY <3>1, <3>2
    <3> QED BY <3>1, <3>3
  <2>2. [p.lines EXCEPT ![Len(p.lines)] = [@ EXCEPT ![p.col] = c]] = S
    BY <2>1 DEF Struck
  <2>3. CASE p.col + 1 < n
    <3>1. q = [lines |-> S, col |-> p.col + 1]
      BY <1>3, <1>8, <2>2, <2>3 DEF Typed
    <3>2. p.col + 1 \in 0 .. (n - 1)
      BY <1>1, <2>3
    <3>3. q \in Sheets(n)
      BY <2>1, <3>1, <3>2 DEF Sheets
    <3> QED BY <1>3, <1>8, <2>1, <2>3, <3>1, <3>3
  <2>4. CASE ~(p.col + 1 < n)
    <3>1. q = [lines |-> Append(S, B), col |-> 0]
      BY <1>2, <1>3, <1>8, <2>2, <2>4 DEF Typed
    <3>2. q \in Sheets(n)
      BY <1>1, <1>4, <2>1, <3>1 DEF Sheets
    <3> QED BY <1>2, <1>3, <1>8, <2>1, <2>4, <3>1, <3>2
  <2> QED BY <2>3, <2>4
<1> QED BY <1>5, <1>6, <1>7, <1>8

FirstSheet(n) == [lines |-> <<BlankRow(n)>>, col |-> 0]

LEMMA FirstSheetType == \A n \in Nat \ {0} : FirstSheet(n) \in Sheets(n)
<1> SUFFICES ASSUME NEW n \in Nat \ {0} PROVE FirstSheet(n) \in Sheets(n)
  OBVIOUS
<1>1. PICK B \in Rows(n) : B = BlankRow(n)
  BY BlankFacts
<1>2. <<B>> \in Seq(Rows(n)) /\ <<B>> # << >> /\ 0 \in 0 .. (n - 1)
  BY <1>1
<1> QED BY <1>1, <1>2 DEF FirstSheet, Sheets

\* Papers is the recurrence its definition spells.
LEMMA PapersGrow ==
    ASSUME NEW c \in Nat \ {0}, NEW w \in Seq(Char)
    PROVE  /\ Papers(c, w)[0] = FirstSheet(c)
           /\ \A k \in 1 .. Len(w) : Papers(c, w)[k] = Typed(c, Papers(c, w)[k - 1], w[k])
           /\ \A k \in 0 .. Len(w) : Papers(c, w)[k] \in Sheets(c)
<1>1. PICK n \in Nat : n = Len(w)
  OBVIOUS
<1> DEFINE F(s) == [k \in 0 .. n |-> IF k = 0 THEN FirstSheet(c)
                                     ELSE Typed(c, s[k - 1], w[k])]
<1>2. Papers(c, w) = CHOOSE s : s = F(s)
  BY <1>1 DEF Papers, FirstSheet
<1> DEFINE V == Sheets(c)
           g == [x \in V \X (1 .. n) |-> Typed(c, x[1], w[x[2]])]
<1>3. \A k \in 1 .. n : w[k] \in Char
  BY <1>1
<1>a. \A p \in V : \A k \in 1 .. n : Typed(c, p, w[k]) \in V
  BY <1>3, TypedFacts
<1>b. FirstSheet(c) \in V
  BY FirstSheetType
<1> HIDE DEF V
<1>4. g \in [V \X (1 .. n) -> V]
  <2>1. \A x \in V \X (1 .. n) : x[1] \in V /\ x[2] \in 1 .. n
    OBVIOUS
  <2>2. \A x \in V \X (1 .. n) : Typed(c, x[1], w[x[2]]) \in V
    BY <1>a, <2>1
  <2> QED BY <2>2
<1>5. PICK s : Solves(s, n, V, FirstSheet(c), g)
  <2> HIDE DEF g
  <2> QED BY <1>4, <1>b, RecurrenceSolved
<1>6. \A k \in 0 .. n : s[k] \in V
  BY <1>5 DEF Solves
<1>7. ASSUME NEW k \in 1 .. n PROVE s[k] = Typed(c, s[k - 1], w[k])
  <2>1. k - 1 \in 0 .. n
    OBVIOUS
  <2>2. s[k - 1] \in V
    BY <1>6, <2>1
  <2>3. s[k] = g[<<s[k - 1], k>>]
    BY <1>5 DEF Solves
  <2> QED BY <2>2, <2>3
<1>8. s = F(s)
  <2>1. ASSUME NEW k \in 0 .. n
        PROVE  s[k] = IF k = 0 THEN FirstSheet(c) ELSE Typed(c, s[k - 1], w[k])
    <3>1. k = 0 \/ k \in 1 .. n
      OBVIOUS
    <3>2. s[0] = FirstSheet(c)
      BY <1>5 DEF Solves
    <3> QED BY <1>7, <3>1, <3>2
  <2>2. s = [k \in 0 .. n |-> s[k]]
    BY <1>5 DEF Solves
  <2> QED BY <2>1, <2>2
<1>9. Papers(c, w) = F(Papers(c, w))
  <2> HIDE DEF F
  <2> QED BY <1>2, <1>8, Zenon
<1>10. PICK u : u = Papers(c, w)
  OBVIOUS
<1>11. u = F(u)
  BY <1>9, <1>10
<1>12. u[0] = FirstSheet(c)
  BY <1>11
<1>13. ASSUME NEW k \in 1 .. n PROVE u[k] = Typed(c, u[k - 1], w[k])
  <2>1. k \in 0 .. n /\ k # 0
    OBVIOUS
  <2> QED BY <1>11, <2>1
<1> DEFINE T == {m \in Nat : m <= n => u[m] \in V}
<1>14. 0 \in T
  BY <1>12, <1>b
<1>15. ASSUME NEW m \in T PROVE m + 1 \in T
  <2> SUFFICES ASSUME m + 1 <= n PROVE u[m + 1] \in V
    OBVIOUS
  <2>1. m \in Nat /\ m <= n /\ m + 1 \in 1 .. n /\ (m + 1) - 1 = m
    OBVIOUS
  <2>2. u[m] \in V
    BY <2>1
  <2>3. u[m + 1] = Typed(c, u[m], w[m + 1])
    BY <1>13, <2>1
  <2> QED BY <1>a, <2>1, <2>2, <2>3
<1> DEFINE TT == T
<1>16. TT \in SUBSET Nat /\ 0 \in TT /\ \A m \in TT : m + 1 \in TT
  BY <1>14, <1>15
<1>17. \A m \in Nat : m \in TT
  <2> HIDE DEF TT
  <2> QED BY <1>16, NatSetInduction
<1>18. \A m \in 0 .. n : u[m] \in V
  BY <1>17
<1> QED BY <1>1, <1>10, <1>12, <1>13, <1>18 DEF V

LEMMA PaperType ==
    ASSUME NEW c \in Nat \ {0}, NEW w \in Seq(Char)
    PROVE  Paper(c, w) \in Sheets(c)
<1>1. PICK n \in Nat : n = Len(w) /\ n \in 0 .. n
  OBVIOUS
<1> QED BY <1>1, PapersGrow DEF Paper

LEMMA PaperOfNothing ==
    ASSUME NEW c \in Nat \ {0}
    PROVE  Paper(c, << >>) = FirstSheet(c)
<1>1. << >> \in Seq(Char) /\ Len(<< >>) = 0
  OBVIOUS
<1> QED BY <1>1, PapersGrow DEF Paper

\* The next character goes on from the paper so far.
LEMMA PaperGrows ==
    ASSUME NEW c \in Nat \ {0}, NEW w \in Seq(Char), NEW x \in Char
    PROVE  Paper(c, Append(w, x)) = Typed(c, Paper(c, w), x)
<1>1. PICK n \in Nat : n = Len(w)
  OBVIOUS
<1>0. PICK v : v = Append(w, x)
  OBVIOUS
<1>2. /\ v \in Seq(Char) /\ Len(v) = n + 1 /\ v[n + 1] = x
      /\ \A k \in 1 .. n : v[k] = w[k]
  <2>1. /\ Append(w, x) \in Seq(Char) /\ Len(Append(w, x)) = Len(w) + 1
        /\ Append(w, x)[Len(w) + 1] = x
        /\ \A k \in 1 .. Len(w) : Append(w, x)[k] = w[k]
    OBVIOUS
  <2> QED BY <1>0, <1>1, <2>1, Zenon
<1>3. PICK a : a = Papers(c, w)
  OBVIOUS
<1>4. PICK b : b = Papers(c, v)
  OBVIOUS
<1>5. a[0] = FirstSheet(c) /\ \A k \in 1 .. n : a[k] = Typed(c, a[k - 1], w[k])
  BY <1>1, <1>3, PapersGrow
<1>6. b[0] = FirstSheet(c) /\ \A k \in 1 .. (n + 1) : b[k] = Typed(c, b[k - 1], v[k])
  BY <1>2, <1>4, PapersGrow
<1> DEFINE T == {m \in Nat : m <= n => a[m] = b[m]}
<1>7. 0 \in T
  BY <1>5, <1>6
<1>8. ASSUME NEW m \in T PROVE m + 1 \in T
  <2> SUFFICES ASSUME m + 1 <= n PROVE a[m + 1] = b[m + 1]
    OBVIOUS
  <2>1. /\ m \in Nat /\ m <= n /\ m + 1 \in 1 .. n /\ (m + 1) - 1 = m
        /\ m + 1 \in 1 .. (n + 1)
    OBVIOUS
  <2>2. a[m] = b[m] /\ v[m + 1] = w[m + 1]
    BY <1>2, <2>1
  <2>3. a[m + 1] = Typed(c, a[m], w[m + 1])
    BY <1>5, <2>1
  <2>4. b[m + 1] = Typed(c, b[m], v[m + 1])
    BY <1>6, <2>1
  <2> QED BY <2>2, <2>3, <2>4
<1> DEFINE TT == T
<1>9. TT \in SUBSET Nat /\ 0 \in TT /\ \A m \in TT : m + 1 \in TT
  BY <1>7, <1>8
<1>10. n \in TT
  <2> HIDE DEF TT
  <2> QED BY <1>9, NatSetInduction
<1>11. a[n] = b[n]
  BY <1>10
<1>12. b[n + 1] = Typed(c, b[n], x)
  <2>1. n + 1 \in 1 .. (n + 1) /\ (n + 1) - 1 = n
    OBVIOUS
  <2> QED BY <1>2, <1>6, <2>1
<1> QED BY <1>0, <1>1, <1>2, <1>3, <1>4, <1>11, <1>12 DEF Paper

(***************************************************************************)
(* What each store of fbcon_putc does to the picture                       *)
(***************************************************************************)

\* A blank line more, with the last line one row further down.
LEMMA ShowsMore ==
    ASSUME NEW R, NEW L \in Seq(R), NEW B \in R, NEW s, NEW h \in Nat, NEW n \in Nat,
           NEW f \in 1 .. 2, Shows(s, h, f, L, n),
           \A r \in 0 .. (h - 1) : r > n => s[r] = B
    PROVE  Shows(s, h, f, Append(L, B), n + 1)
<1>1. PICK N \in Nat : N = Len(L)
  OBVIOUS
<1>2. PICK M : M = Append(L, B)
  OBVIOUS
<1>3. Len(M) = N + 1 /\ M[N + 1] = B /\ \A k \in 1 .. N : M[k] = L[k]
  <2>1. /\ Append(L, B) \in Seq(R) /\ Len(Append(L, B)) = Len(L) + 1
        /\ Append(L, B)[Len(L) + 1] = B
        /\ \A k \in 1 .. Len(L) : Append(L, B)[k] = L[k]
    OBVIOUS
  <2> QED BY <1>1, <1>2, <2>1, Zenon
<1>4. ASSUME NEW r \in 0 .. (h - 1), r <= n + 1, (N + 1) - ((n + 1) - r) >= f
      PROVE  s[r] = M[(N + 1) - ((n + 1) - r)]
  <2>1. CASE r = n + 1
    <3>1. (N + 1) - ((n + 1) - r) = N + 1 /\ r > n
      BY <2>1
    <3> QED BY <1>3, <3>1
  <2>2. CASE r # n + 1
    <3>1. PICK k \in Int : k = N - (n - r)
      OBVIOUS
    <3>2. (N + 1) - ((n + 1) - r) = k /\ k \in 1 .. N /\ k >= f /\ r <= n
      BY <1>4, <2>2, <3>1
    <3>3. s[r] = L[k]
      BY <1>1, <3>1, <3>2 DEF Shows
    <3> QED BY <1>3, <3>2, <3>3
  <2> QED BY <2>1, <2>2
<1> QED BY <1>2, <1>3, <1>4 DEF Shows

\* A glyph, on the screen and on the paper.
Glyph(s, n, y, c) ==
    [r \in DOMAIN s |-> [x \in DOMAIN s[r] |-> IF r = n /\ x = y THEN c ELSE s[r][x]]]

LEMMA ShowsStruck ==
    ASSUME NEW w \in Nat \ {0}, NEW p \in Sheets(w), NEW c \in Char,
           NEW h \in Nat, NEW n \in Nat, n < h, NEW f \in 1 .. 2,
           NEW s \in [0 .. (h - 1) -> Rows(w)], Shows(s, h, f, p.lines, n),
           NEW t, t = Glyph(s, n, p.col, c)
    PROVE  /\ t \in [0 .. (h - 1) -> Rows(w)]
           /\ \A r \in 0 .. (h - 1) : r > n => t[r] = s[r]
           /\ Shows(t, h, f, Struck(p, c), n)
<1>1. PICK L \in Seq(Rows(w)), y \in 0 .. (w - 1) : L = p.lines /\ y = p.col
  BY DEF Sheets
<1>2. PICK N \in Nat : N = Len(L)
  OBVIOUS
<1>3. PICK S : S = Struck(p, c)
  OBVIOUS
<1>4. /\ Len(S) = N /\ S[N] = [L[N] EXCEPT ![y] = c]
      /\ \A k \in 1 .. (N - 1) : S[k] = L[k]
  BY <1>1, <1>2, <1>3, StruckFacts
<1>5. t = [r \in DOMAIN s |-> [x \in DOMAIN s[r] |->
                  IF r = n /\ x = y THEN c ELSE s[r][x]]]
  <2>1. t = Glyph(s, n, y, c)
    BY <1>1
  <2> QED BY <2>1 DEF Glyph
<1>6. \A r \in 0 .. (h - 1) : s[r] \in Rows(w)
  OBVIOUS
<1>7. ASSUME NEW r \in 0 .. (h - 1)
      PROVE  /\ t[r] = [x \in 0 .. (w - 1) |-> IF r = n /\ x = y THEN c ELSE s[r][x]]
             /\ t[r] \in Rows(w)
             /\ r # n => t[r] = s[r]
             /\ r = n => t[r] = [s[r] EXCEPT ![y] = c]
  <2>1. s[r] \in [0 .. (w - 1) -> Symbols] /\ c \in Symbols
    BY <1>6 DEF Rows, Symbols
  <2>2. t[r] = [x \in 0 .. (w - 1) |-> IF r = n /\ x = y THEN c ELSE s[r][x]]
    BY <1>5, <2>1
  <2>3. t[r] \in Rows(w)
    BY <2>1, <2>2 DEF Rows
  <2>4. r # n => t[r] = s[r]
    BY <2>1, <2>2
  <2>5. r = n => t[r] = [s[r] EXCEPT ![y] = c]
    BY <2>1, <2>2
  <2> QED BY <2>2, <2>3, <2>4, <2>5
<1>8. t \in [0 .. (h - 1) -> Rows(w)]
  <2>1. DOMAIN s = 0 .. (h - 1)
    OBVIOUS
  <2>2. t = [r \in 0 .. (h - 1) |-> t[r]]
    BY <1>5, <2>1
  <2> QED BY <1>7, <2>2
<1>9. ASSUME NEW r \in 0 .. (h - 1), r <= n, N - (n - r) >= f
      PROVE  t[r] = S[N - (n - r)]
  <2>1. PICK k \in Int : k = N - (n - r)
    OBVIOUS
  <2>2. s[r] = L[k] /\ k >= f
    BY <1>1, <1>2, <1>9, <2>1 DEF Shows
  <2>3. CASE r = n
    <3>1. k = N
      BY <2>1, <2>3
    <3>2. t[r] = [s[r] EXCEPT ![y] = c]
      BY <1>7, <2>3
    <3>3. s[r] = L[N]
      BY <2>2, <3>1
    <3>4. S[k] = [L[N] EXCEPT ![y] = c]
      BY <1>4, <3>1
    <3> QED BY <2>1, <3>2, <3>3, <3>4, Zenon
  <2>4. CASE r # n
    <3>1. k \in 1 .. (N - 1)
      BY <1>9, <2>1, <2>4
    <3> QED BY <1>4, <1>7, <2>1, <2>2, <2>4, <3>1
  <2> QED BY <2>3, <2>4
<1>10. Shows(t, h, f, S, n)
  BY <1>4, <1>9 DEF Shows
<1>11. ASSUME NEW r \in 0 .. (h - 1), r > n PROVE t[r] = s[r]
  <2>1. r # n
    BY <1>11
  <2> QED BY <1>7, <2>1
<1> QED BY <1>3, <1>8, <1>10, <1>11

\* scroll copies one row more.
LEMMA HalfwayMore ==
    ASSUME NEW S, NEW L \in Seq(S), NEW h \in Nat, NEW f \in 1 .. 2, NEW c \in Nat,
           c < h - 1, NEW s \in [0 .. (h - 1) -> S], Halfway(s, h, f, L, c)
    PROVE  LET t == [s EXCEPT ![c] = s[c + 1]]
           IN  t \in [0 .. (h - 1) -> S] /\ Halfway(t, h, f, L, c + 1)
<1>1. PICK N \in Nat : N = Len(L)
  OBVIOUS
<1>2. PICK t : t = [s EXCEPT ![c] = s[c + 1]]
  OBVIOUS
<1>3. c \in 0 .. (h - 1) /\ c + 1 \in 0 .. (h - 1)
  OBVIOUS
<1>4. t[c] = s[c + 1] /\ \A r \in 0 .. (h - 1) : r # c => t[r] = s[r]
  BY <1>2, <1>3
<1>5. t \in [0 .. (h - 1) -> S]
  BY <1>2, <1>3
<1>6. ASSUME NEW r \in 0 .. (h - 1)
      PROVE  /\ r < c + 1 /\ N - (h - 1 - r) >= f => t[r] = L[N - (h - 1 - r)]
             /\ r >= c + 1 /\ N - (h - r) >= f => t[r] = L[N - (h - r)]
  <2>1. CASE r = c
    <3>1. h - (c + 1) = h - 1 - r /\ c + 1 >= c /\ ~(r >= c + 1)
      BY <2>1
    <3>2. N - (h - (c + 1)) >= f => s[c + 1] = L[N - (h - (c + 1))]
      BY <1>1, <1>3, <3>1 DEF Halfway
    <3> QED BY <1>4, <2>1, <3>1, <3>2
  <2>2. CASE r # c
    <3>1. (r < c + 1 <=> r < c) /\ (r >= c + 1 => r >= c)
      BY <2>2
    <3>2. t[r] = s[r]
      BY <1>4, <2>2
    <3> QED BY <1>1, <3>1, <3>2 DEF Halfway
  <2> QED BY <2>1, <2>2
<1> QED BY <1>1, <1>2, <1>5, <1>6 DEF Halfway

\* scroll clears the last row: the picture stands one row higher.
LEMMA HalfwayEnds ==
    ASSUME NEW S, NEW L \in Seq(S), NEW B \in S, NEW h \in Nat \ {0}, NEW f \in 1 .. 2,
           L # << >>, L[Len(L)] = B,
           NEW s \in [0 .. (h - 1) -> S], Halfway(s, h, f, L, h - 1)
    PROVE  LET t == [s EXCEPT ![h - 1] = B]
           IN  t \in [0 .. (h - 1) -> S] /\ Shows(t, h, f, L, h - 1)
<1>1. PICK N \in Nat : N = Len(L) /\ N > 0
  OBVIOUS
<1>2. PICK t : t = [s EXCEPT ![h - 1] = B]
  OBVIOUS
<1>3. h - 1 \in 0 .. (h - 1)
  OBVIOUS
<1>4. t[h - 1] = B /\ \A r \in 0 .. (h - 1) : r # h - 1 => t[r] = s[r]
  BY <1>2, <1>3
<1>5. t \in [0 .. (h - 1) -> S]
  BY <1>2, <1>3
<1>6. ASSUME NEW r \in 0 .. (h - 1), N - ((h - 1) - r) >= f
      PROVE  t[r] = L[N - ((h - 1) - r)]
  <2>1. CASE r = h - 1
    <3>1. N - ((h - 1) - r) = N
      BY <2>1
    <3> QED BY <1>1, <1>4, <2>1, <3>1
  <2>2. CASE r # h - 1
    <3>1. r < h - 1 /\ h - 1 - r = (h - 1) - r
      BY <2>2
    <3> QED BY <1>1, <1>4, <1>6, <2>2, <3>1 DEF Halfway
  <2> QED BY <2>1, <2>2
<1> QED BY <1>1, <1>2, <1>5, <1>6 DEF Shows

\* scroll begins when the last line has just left the screen.
LEMMA HalfwayBegins ==
    ASSUME NEW S, NEW L \in Seq(S), NEW h \in Nat \ {0}, NEW f \in 1 .. 2, NEW s,
           NEW n \in Nat, n >= h, n <= h \/ Len(L) <= f, Shows(s, h, f, L, n)
    PROVE  Halfway(s, h, f, L, 0)
<1>1. PICK N \in Nat : N = Len(L)
  OBVIOUS
<1>2. ASSUME NEW r \in 0 .. (h - 1), N - (h - r) >= f
      PROVE  s[r] = L[N - (h - r)]
  <2>1. n = h
    BY <1>1, <1>2
  <2> QED BY <1>1, <1>2, <2>1 DEF Shows
<1>3. \A r \in 0 .. (h - 1) : ~(r < 0)
  OBVIOUS
<1> QED BY <1>1, <1>2, <1>3 DEF Halfway

(***************************************************************************)
(* Steps                                                                   *)
(***************************************************************************)

LEMMA ScreenInit == Init => SInv
  BY DEF Init, SInv

\* What the steps below rest on.
LEMMA PaperNow ==
    ASSUME FInv, PInv, SInv, ready
    PROVE  /\ OnScreen /\ Tracked
           /\ cols \in Nat \ {0} /\ rows \in Nat \ {0} /\ First \in 1 .. 2
           /\ cur_col \in Nat /\ cur_row \in Nat /\ copied \in Nat
           /\ shown \in Seq(Char) /\ screen \in [0 .. (rows - 1) -> Rows(cols)]
           /\ Sheet \in Sheets(cols)
<1>1. OnScreen /\ Tracked /\ Geometry /\ copied \in Nat
  BY DEF SInv, FInv
<1>2. cols \in Nat \ {0} /\ rows \in Nat \ {0}
  BY <1>1 DEF Geometry
<1>3. First \in 1 .. 2
  BY DEF First
<1>4. cur_col \in Nat /\ cur_row \in Nat
  BY <1>1 DEF Tracked
<1>5. shown \in Seq(Char) /\ screen \in [0 .. (rows - 1) -> Rows(cols)]
  BY <1>1 DEF OnScreen, ScreenTypes
<1>6. Sheet \in Sheets(cols)
  BY <1>2, <1>5, PaperType DEF Sheet
<1> QED BY <1>1, <1>2, <1>3, <1>4, <1>5, <1>6

\* Steps outside fbcon_putc leave the picture alone.
LEMMA PictureKept ==
    ASSUME ready, OnScreen, UNCHANGED <<cols, rows, cur_col, cur_row, screen, shown>>,
           mode' = "run" <=> mode = "run",
           at \in {"ready", "sink", "poll"}, at' \in {"ready", "sink", "poll", "putc"},
           text' \in Seq(Char), pos' > 0, at' # "ready" => ch' \in Char,
           ~Steady /\ at' = "putc" => ch' = "\n"
    PROVE  SInv'
<1>1. Sheet' = Sheet
  BY DEF Sheet
<1>2. PICK p : p = Sheet
  OBVIOUS
<1>3. First' = First /\ (Steady' <=> Steady) /\ (OnCell' <=> OnCell)
  BY DEF First, Steady, OnCell
<1>4. (Lines(p.lines, cur_row))' <=> Lines(p.lines, cur_row)
  BY <1>3 DEF Lines, Shows
<1>5. (Placed(p.lines, cur_row))' <=> Placed(p.lines, cur_row)
  BY DEF Placed
<1>6. Below(cur_row)'
  BY DEF OnScreen, Below
<1>7. ScreenTypes'
  BY DEF OnScreen, ScreenTypes
<1>8. Resting'
  <2>1. CASE Steady
    <3>1. cur_col = p.col /\ OnCell /\ Lines(p.lines, cur_row) /\ Placed(p.lines, cur_row)
      BY <1>2, <2>1 DEF OnScreen, Resting
    <3>2. /\ cur_col' = Sheet'.col /\ OnCell'
          /\ (Lines(p.lines, cur_row))' /\ (Placed(p.lines, cur_row))'
      BY <1>1, <1>2, <1>3, <1>4, <1>5, <3>1
    <3> QED BY <1>1, <1>2, <1>3, <2>1, <3>2 DEF Resting
  <2>2. CASE ~Steady
    BY <1>3, <2>2 DEF Resting
  <2> QED BY <2>1, <2>2
<1> QED BY <1>6, <1>7, <1>8 DEF SInv, OnScreen

LEMMA ShownNothing ==
    ASSUME NEW n \in 0 .. Len(PanicText), Shown(n) = << >>
    PROVE  n = 0
<1>1. PICK t \in Seq(Char), L \in Nat : t = PanicText /\ L = Len(t)
  BY PanicTextType
<1>2. Len(SubSeq(t, 1, n)) = n
  BY <1>1
<1> QED BY <1>1, <1>2 DEF Shown

\* emit and serial_putc.  The first character that a panic gives fbcon is its
\* newline.
LEMMA EmitPicture ==
    ASSUME FInv, PInv, SInv, ready, EmitNext \/ NextSink \/ PollBusy \/ Send
    PROVE  SInv'
<1> USE DEF machine, serial, fbcon, cursor, printing
<1>1. /\ OnScreen /\ text \in Seq(Char) /\ pos \in Nat /\ pos > 0
      /\ at # "ready" => ch \in Char
  BY PaperNow DEF OnScreen, ScreenTypes, FInv
<1>2. /\ UNCHANGED <<mode, cols, rows, cur_col, cur_row, screen, shown, text>>
      /\ at \in {"ready", "sink", "poll"}
  BY DEF EmitNext, Emit, NextSink, PollBusy, Send, MaySend
<1>3. CASE EmitNext
  <2>1. /\ pos <= Len(text) /\ at' = "sink" /\ ch' = text[pos] /\ pos' = pos + 1
    BY <1>3 DEF EmitNext, Emit
  <2>2. text[pos] \in Char /\ pos + 1 > 0
    BY <1>1, <2>1
  <2> QED BY <1>1, <1>2, <2>1, <2>2, PictureKept
<1>4. CASE PollBusy \/ Send
  <2>1. at' \in {"sink", "poll"} /\ UNCHANGED <<ch, pos>> /\ at = "poll"
    BY <1>4 DEF PollBusy, Send, MaySend
  <2> QED BY <1>1, <1>2, <2>1, PictureKept
<1>5. CASE NextSink
  <2>1. at = "sink" /\ at' \in {"ready", "sink", "poll", "putc"} /\ UNCHANGED <<ch, pos>>
    BY <1>5 DEF NextSink
  <2>2. ASSUME ~Steady, at' = "putc" PROVE ch = "\n"
    <3>1. mode \in {"panic", "halt"} /\ shown = << >>
      BY <2>2 DEF Steady, PInv, Registered, FInv
    <3>2. sinks[1] = "serial" /\ Len(sinks) = 2
      BY <3>1 DEF PInv, Registered
    <3>3. sink <= Len(sinks) /\ sinks[sink] = "fbcon"
      BY <1>5, <2>1, <2>2 DEF NextSink
    <3>4. sink = 2
      BY <3>2, <3>3 DEF FInv
    <3>5. PICK n \in Nat, L \in Nat :
            n = pos /\ L = Len(PanicText) /\ n \in 1 .. (L + 1) /\ n > 1
      BY <2>1, <3>1, PanicTextType DEF PInv, Progress
    <3>6. ch = PanicText[n - 1] /\ shown = Shown(n - 2)
      BY <2>1, <3>1, <3>4, <3>5 DEF PInv, Progress
    <3>7. n - 2 = 0
      <4>1. n - 2 \in 0 .. L
        BY <3>5
      <4> QED BY <3>1, <3>5, <3>6, <4>1, ShownNothing
    <3>8. n - 1 = 1
      BY <3>7
    <3> QED BY <3>6, <3>8, PanicTextType
  <2> QED BY <1>1, <1>2, <2>1, <2>2, PictureKept
<1> QED BY <1>3, <1>4, <1>5

\* kmain prints characters once the framebuffer console is up.
LEMMA KprintfPicture ==
    ASSUME FInv, PInv, SInv, ready, NEW d, Kprintf(d),
           d \in Directives \/ \E c \in Char : d = [conv |-> "c", arg |-> c]
    PROVE  SInv'
<1>1. /\ OnScreen
      /\ at # "ready" => ch \in Char
  BY PaperNow DEF OnScreen, ScreenTypes
<1>2. /\ UNCHANGED <<mode, cols, rows, cur_col, cur_row, screen, shown, at, ch>>
      /\ at = "ready" /\ text' = Expand(d) /\ pos' = 1 /\ d.conv = "c"
  BY DEF Kprintf, Idle, fbcon, cursor
<1>3. d.arg \in Char
  <2>1. CASE d \in Directives
    <3>1. d \in Directive
      BY <2>1, ConsoleAssumption
    <3> QED BY <1>2, <3>1 DEF Directive
  <2>2. CASE \E c \in Char : d = [conv |-> "c", arg |-> c]
    BY <2>2
  <2> QED BY <2>1, <2>2
<1>4. text' = <<d.arg>>
  BY <1>2 DEF Expand
<1>5. text' \in Seq(Char) /\ pos' > 0
  BY <1>2, <1>3, <1>4
<1> QED BY <1>1, <1>2, <1>5, PictureKept

\* fbcon_init clears the screen.
LEMMA FbconPicture ==
    ASSUME FInv, PInv, SInv, FbconInit
    PROVE  SInv'
<1>1. FInv' /\ ready'
  BY FbconInitStep DEF FbconInit
<1>2. /\ mode' = "run" /\ at' = "ready" /\ text' = << >> /\ pos' = 1
      /\ cur_col' = 0 /\ cur_row' = 0 /\ shown' = << >>
      /\ screen' = [r \in 0 .. (rows' - 1) |-> BlankRow(cols')]
  BY DEF FbconInit, Idle, Nothing, PInv, Registered, fbcon
<1>3. PICK w \in Nat \ {0}, h \in Nat \ {0} : w = cols' /\ h = rows'
  BY <1>1 DEF FInv, Geometry
<1>4. PICK B \in Rows(w) : B = BlankRow(w)
  BY <1>3, BlankFacts
<1>5. screen' = [r \in 0 .. (h - 1) |-> B]
  BY <1>2, <1>3, <1>4
<1>6. Sheet' = FirstSheet(w)
  BY <1>2, <1>3, PaperOfNothing DEF Sheet
<1>7. Sheet'.lines = <<B>> /\ Sheet'.col = 0
  BY <1>4, <1>6 DEF FirstSheet
<1>8. PICK L : L = <<B>>
  OBVIOUS
<1>9. Len(L) = 1 /\ L[1] = B
  BY <1>8
<1>10. Shows(screen', h, 1, L, 0)
  <2>1. ASSUME NEW r \in 0 .. (h - 1), r <= 0, 1 - (0 - r) >= 1
        PROVE  screen'[r] = L[1 - (0 - r)]
    <3>1. 1 - (0 - r) = 1
      BY <2>1
    <3> QED BY <1>5, <1>9, <3>1
  <2> QED BY <1>9, <2>1 DEF Shows
<1>11. Resting'
  <2>1. First' = 1 /\ Steady' /\ OnCell'
    BY <1>2, <1>3 DEF First, Steady, OnCell
  <2>2. (Lines(L, 0))' /\ (Placed(L, 0))'
    BY <1>3, <1>10, <1>9, <2>1 DEF Lines, Placed
  <2> QED BY <1>2, <1>7, <1>8, <2>1, <2>2 DEF Resting
<1>12. Below(cur_row)'
  BY <1>3, <1>4, <1>5 DEF Below
<1>13. ScreenTypes'
  BY <1>2, <1>3, <1>4, <1>5 DEF ScreenTypes
<1> QED BY <1>2, <1>11, <1>12, <1>13 DEF SInv, OnScreen

\* A panic takes the screen as it finds it.
LEMMA PanicPicture ==
    ASSUME FInv, PInv, SInv, ready, Panic
    PROVE  SInv'
<1>1. /\ OnScreen
      /\ mode' = "panic" /\ text' = PanicText /\ pos' = 1 /\ at' = "ready" /\ shown' = << >>
      /\ UNCHANGED <<cols, rows, cur_row, screen>>
  BY PaperNow DEF Panic, cursor
<1>2. ScreenTypes'
  BY <1>1, PanicTextType DEF OnScreen, ScreenTypes
<1>3. Below(cur_row)'
  BY <1>1 DEF OnScreen, Below
<1>4. Resting'
  BY <1>1 DEF Resting, Steady
<1> QED BY <1>1, <1>2, <1>3, <1>4 DEF SInv, OnScreen

\* fbcon_putc works on one character, and the paper waits for it.
LEMMA PutcFrame ==
    ASSUME FInv, PInv, SInv, Putc
    PROVE  /\ ready /\ at \in InPutc /\ UNCHANGED <<mode, ready, cols, rows, ch, text, pos>>
           /\ First' = First /\ ch \in Char /\ After \in Sheets(cols)
           /\ shown' = shown => Sheet' = Sheet /\ After' = After /\ (Steady' <=> Steady)
<1>1. at \in InPutc /\ UNCHANGED <<mode, ready, cols, rows, ch, text, pos>>
  BY DEF Putc, PutReturn, PutControl, Draw, Advance, Wrap, NextRow, CheckRow, ScrollCopy,
     ScrollFill, Settle, Elsewhere, machine, printing, InPutc
<1>2. ready
  BY <1>1 DEF PInv, Registered
<1>3. ch \in Char /\ Sheet \in Sheets(cols) /\ cols \in Nat \ {0}
  BY <1>1, <1>2, PaperNow DEF OnScreen, ScreenTypes, InPutc
<1>4. After \in Sheets(cols)
  BY <1>3, TypedFacts DEF After
<1>5. shown' = shown => Sheet' = Sheet
  BY <1>1 DEF Sheet
<1>6. shown' = shown => After' = After
  BY <1>1, <1>5 DEF After
<1>7. First' = First /\ (shown' = shown => (Steady' <=> Steady))
  BY <1>1 DEF First, Steady
<1> QED BY <1>1, <1>2, <1>3, <1>4, <1>5, <1>6, <1>7

\* The types after a store, and what is below the cursor.
LEMMA PutcTypes ==
    ASSUME FInv, PInv, SInv, Putc, shown' = shown \/ shown' = Append(shown, ch),
           screen' \in [0 .. (rows - 1) -> Rows(cols)]
    PROVE  ScreenTypes'
<1>1. shown \in Seq(Char) /\ OnScreen /\ ready
  BY PutcFrame, PaperNow
<1>2. ch \in Char /\ UNCHANGED <<cols, rows, ch, text, pos>>
  BY PutcFrame
<1>3. shown' \in Seq(Char)
  BY <1>1, <1>2
<1>4. text \in Seq(Char) /\ pos > 0
  BY <1>1 DEF OnScreen, ScreenTypes
<1> QED BY <1>2, <1>3, <1>4 DEF ScreenTypes

LEMMA BelowKept ==
    ASSUME UNCHANGED <<cols, rows, screen>>, Below(cur_row),
           cur_row \in Nat, rows \in Nat, cur_row' \in Nat, cur_row' >= cur_row
    PROVE  Below(cur_row)'
<1> SUFFICES ASSUME NEW r \in 0 .. (rows - 1), r > cur_row'
             PROVE  screen[r] = BlankRow(cols)
  BY DEF Below
<1>1. r > cur_row
  OBVIOUS
<1> QED BY <1>1 DEF Below

\* The cursor is back at the left edge, and a blank line is to come.
LEMMA FedPicture ==
    ASSUME FInv, PInv, SInv, Putc, UNCHANGED <<cur_row, screen, shown>>,
           at' = "row", cur_col' = 0, After.col = 0,
           NEW K \in Seq(Rows(cols)), After.lines = Append(K, BlankRow(cols)),
           Lines(K, cur_row), Placed(K, cur_row),
           cur_row < rows \/ Len(K) + 1 <= First
    PROVE  SInv'
<1>1. /\ ready /\ UNCHANGED <<mode, ready, cols, rows>> /\ First' = First
      /\ After' = After
  BY PutcFrame
<1>2. /\ OnScreen /\ cols \in Nat \ {0} /\ rows \in Nat \ {0} /\ First \in 1 .. 2
      /\ cur_row \in Nat /\ screen \in [0 .. (rows - 1) -> Rows(cols)]
  BY <1>1, PaperNow
<1>3. PICK B \in Rows(cols) : B = BlankRow(cols)
  BY <1>2, BlankFacts
<1>4. PICK M : M = Append(K, B)
  OBVIOUS
<1>5. PICK N \in Nat : N = Len(K)
  OBVIOUS
<1>6. Len(M) = N + 1 /\ M[N + 1] = B
  <2>1. Len(Append(K, B)) = Len(K) + 1 /\ Append(K, B)[Len(K) + 1] = B
    BY <1>3
  <2> QED BY <1>4, <1>5, <2>1, Zenon
<1>7. After.lines = M
  BY <1>3, <1>4
<1>8. Shows(screen, rows, First, M, cur_row + 1)
  <2>1. \A r \in 0 .. (rows - 1) : r > cur_row => screen[r] = B
    BY <1>2, <1>3 DEF OnScreen, Below
  <2>2. Shows(screen, rows, First, K, cur_row)
    BY DEF Lines
  <2> QED BY <1>2, <1>3, <1>4, <2>1, <2>2, ShowsMore
<1>9. (Lines(M, cur_row + 1))'
  BY <1>1, <1>8 DEF Lines
<1>10. (Placed(M, cur_row + 1))'
  BY <1>1, <1>2, <1>5, <1>6 DEF Placed
<1>11. (LastBlank(M))'
  BY <1>1, <1>3, <1>6 DEF LastBlank
<1>12. cur_row < rows \/ Len(M) <= First
  BY <1>2, <1>5, <1>6
<1>13. Moved'
  BY <1>1, <1>7, <1>9, <1>10, <1>11, <1>12 DEF Moved
<1>14. ScreenTypes'
  BY <1>1, <1>2, PutcTypes
<1>15. Below(cur_row)'
  BY <1>1, <1>2 DEF OnScreen, Below
<1> QED BY <1>13, <1>14, <1>15 DEF SInv, OnScreen

\* The cursor stays in its row.
LEMMA StayPicture ==
    ASSUME FInv, PInv, SInv, Putc, UNCHANGED <<cur_row, screen, shown>>,
           at' = "check", cur_col' = After.col, cur_row < rows,
           Lines(After.lines, cur_row), Placed(After.lines, cur_row)
    PROVE  SInv'
<1>1. /\ ready /\ UNCHANGED <<mode, ready, cols, rows>> /\ First' = First
      /\ After' = After
  BY PutcFrame
<1>2. /\ OnScreen /\ rows \in Nat \ {0} /\ cur_row \in Nat
      /\ screen \in [0 .. (rows - 1) -> Rows(cols)]
  BY <1>1, PaperNow
<1>3. PICK M : M = After.lines
  OBVIOUS
<1>4. (Lines(M, cur_row))' /\ (Placed(M, cur_row))'
  BY <1>1, <1>3 DEF Lines, Placed
<1>5. ~(cur_row >= rows) /\ cur_row <= rows
  BY <1>2
<1>6. Moved'
  BY <1>1, <1>3, <1>4, <1>5 DEF Moved
<1>7. ScreenTypes'
  BY <1>1, <1>2, PutcTypes
<1>8. Below(cur_row)'
  BY <1>1, <1>2 DEF OnScreen, Below
<1> QED BY <1>6, <1>7, <1>8 DEF SInv, OnScreen

\* fbcon_putc returns, with the last line in row n.
LEMMA DonePicture ==
    ASSUME FInv, PInv, SInv, Putc, PutDone, UNCHANGED <<cur_col, screen>>,
           NEW n \in Nat, n < rows, cur_row' = n, Below(n),
           cur_col = After.col, Lines(After.lines, n), Placed(After.lines, n)
    PROVE  SInv'
<1>1. /\ ready /\ UNCHANGED <<mode, ready, cols, rows>> /\ First' = First
      /\ ch \in Char /\ After \in Sheets(cols)
      /\ at' = "sink" /\ shown' = Append(shown, ch)
  BY PutcFrame DEF PutDone
<1>2. /\ cols \in Nat \ {0} /\ shown \in Seq(Char)
      /\ screen \in [0 .. (rows - 1) -> Rows(cols)]
  BY <1>1, PaperNow
<1>3. Sheet' = After
  <2>1. Sheet' = Paper(cols, Append(shown, ch))
    BY <1>1 DEF Sheet
  <2>2. Paper(cols, Append(shown, ch)) = Typed(cols, Paper(cols, shown), ch)
    BY <1>1, <1>2, PaperGrows
  <2> QED BY <2>1, <2>2 DEF After, Sheet
<1>4. PICK q : q = After
  OBVIOUS
<1>5. (Lines(q.lines, cur_row))' /\ (Placed(q.lines, cur_row))'
  BY <1>1, <1>4 DEF Lines, Placed
<1>6. Steady'
  <2>1. Append(shown, ch) # << >>
    BY <1>1, <1>2
  <2> QED BY <1>1, <2>1 DEF Steady
<1>7. OnCell'
  <2>1. After.col \in 0 .. (cols - 1)
    BY <1>1 DEF Sheets
  <2> QED BY <1>1, <1>2, <2>1 DEF OnCell
<1>8. Resting'
  BY <1>3, <1>4, <1>5, <1>6, <1>7 DEF Resting
<1>9. ScreenTypes'
  BY <1>1, <1>2, PutcTypes
<1>10. Below(cur_row)'
  BY <1>1 DEF Below
<1> QED BY <1>1, <1>8, <1>9, <1>10 DEF SInv, OnScreen

\* A newline or a carriage return; a character that is not printed.
LEMMA ReturnPicture ==
    ASSUME FInv, PInv, SInv, PutReturn \/ PutControl
    PROVE  SInv'
<1>1. Putc /\ at = "putc" /\ UNCHANGED <<cur_row, screen, shown>>
  BY DEF Putc, PutReturn, PutControl, cursor
<1>2. ready /\ ch \in Char
  BY <1>1, PutcFrame
<1>3. /\ OnScreen /\ cols \in Nat \ {0} /\ rows \in Nat \ {0} /\ First \in 1 .. 2
      /\ cur_row \in Nat /\ Sheet \in Sheets(cols)
  BY <1>2, PaperNow
<1>4. Resting
  BY <1>1, <1>3 DEF OnScreen
<1>5. PICK p \in Sheets(cols) : p = Sheet
  BY <1>3
<1>6. After = Typed(cols, p, ch)
  BY <1>5 DEF After
<1>7. CASE ch = "\n"
  <2>1. PutReturn /\ at' = "row" /\ cur_col' = 0
    BY <1>7 DEF PutReturn, PutControl
  <2>2. After.lines = Append(p.lines, BlankRow(cols)) /\ After.col = 0
    BY <1>2, <1>3, <1>6, <1>7, TypedFacts
  <2>3. p.lines \in Seq(Rows(cols))
    BY DEF Sheets
  <2>4. CASE Steady
    <3>1. /\ Lines(p.lines, cur_row) /\ Placed(p.lines, cur_row) /\ cur_row < rows
      BY <1>4, <1>5, <2>4 DEF Resting, OnCell
    <3> QED BY <1>1, <2>1, <2>2, <2>3, <3>1, FedPicture
  <2>5. CASE ~Steady
    <3>1. mode # "run" /\ shown = << >> /\ First = 2
      BY <2>5 DEF Steady, First
    <3>2. p = FirstSheet(cols)
      BY <1>3, <1>5, <3>1, PaperOfNothing DEF Sheet
    <3>3. Len(p.lines) = 1
      BY <3>2 DEF FirstSheet
    <3>4. Lines(p.lines, cur_row)
      <4>1. \A r \in 0 .. (rows - 1) : r <= cur_row => ~(1 - (cur_row - r) >= 2)
        BY <1>3
      <4> QED BY <3>1, <3>3, <4>1 DEF Lines, Shows
    <3>5. Placed(p.lines, cur_row)
      BY <3>1 DEF Placed
    <3>6. Len(p.lines) + 1 <= First
      BY <3>1, <3>3
    <3> QED BY <1>1, <2>1, <2>2, <2>3, <3>4, <3>5, <3>6, FedPicture
  <2> QED BY <2>4, <2>5
<1>8. CASE ch # "\n"
  <2>1. Steady
    BY <1>1, <1>4, <1>8 DEF Resting
  <2>2. /\ cur_col = p.col /\ Lines(p.lines, cur_row) /\ Placed(p.lines, cur_row)
        /\ cur_row < rows
    BY <1>4, <1>5, <2>1 DEF Resting, OnCell
  <2>3. at' = "check"
    BY <1>8 DEF PutReturn, PutControl
  <2>4. After.lines = p.lines /\ cur_col' = After.col
    <3>1. CASE PutReturn
      <4>1. ch = "\r" /\ cur_col' = 0
        BY <1>8, <3>1 DEF PutReturn
      <4> QED BY <1>2, <1>3, <1>6, <4>1, TypedFacts
    <3>2. CASE PutControl
      <4>1. ch = "control" /\ cur_col' = cur_col
        BY <3>2 DEF PutControl, cursor
      <4>2. After = p
        BY <1>2, <1>3, <1>6, <4>1, TypedFacts
      <4> QED BY <2>2, <4>1, <4>2
    <3> QED BY <3>1, <3>2
  <2> QED BY <1>1, <2>2, <2>3, <2>4, StayPicture
<1> QED BY <1>7, <1>8

\* draw_glyph
LEMMA DrawPicture ==
    ASSUME FInv, PInv, SInv, Draw
    PROVE  SInv'
<1>1. /\ Putc /\ at = "putc" /\ at' = "advance" /\ ch \notin {"\n", "\r", "control"}
      /\ UNCHANGED <<cur_col, cur_row, shown>>
  BY DEF Putc, Draw, cursor
<1>2. /\ ready /\ UNCHANGED <<mode, ready, cols, rows, ch>> /\ First' = First
      /\ ch \in Char /\ Sheet' = Sheet /\ (Steady' <=> Steady)
  BY <1>1, PutcFrame
<1>3. /\ OnScreen /\ cols \in Nat \ {0} /\ rows \in Nat \ {0} /\ First \in 1 .. 2
      /\ cur_row \in Nat /\ Sheet \in Sheets(cols)
      /\ screen \in [0 .. (rows - 1) -> Rows(cols)]
  BY <1>2, PaperNow
<1>4. Resting /\ Steady
  BY <1>1, <1>3 DEF OnScreen, Resting
<1>5. PICK p \in Sheets(cols) : p = Sheet
  BY <1>3
<1>6. /\ cur_col = p.col /\ Lines(p.lines, cur_row) /\ Placed(p.lines, cur_row)
      /\ cur_row < rows
  BY <1>4, <1>5 DEF Resting, OnCell
<1>7. PICK t : t = Glyph(screen, cur_row, p.col, ch)
  OBVIOUS
<1>8. screen' = t
  <2>1. screen' = Glyph(screen, cur_row, cur_col, ch)
    BY DEF Draw, Glyph
  <2> QED BY <1>6, <1>7, <2>1
<1>9. PICK S : S = Struck(p, ch)
  OBVIOUS
<1>10. /\ t \in [0 .. (rows - 1) -> Rows(cols)]
       /\ \A r \in 0 .. (rows - 1) : r > cur_row => t[r] = screen[r]
       /\ Shows(t, rows, First, S, cur_row)
  <2>1. Shows(screen, rows, First, p.lines, cur_row)
    BY <1>6 DEF Lines
  <2>2. PICK w \in Nat \ {0}, h \in Nat : w = cols /\ h = rows
    BY <1>3
  <2>3. PICK n \in Nat, f \in 1 .. 2, s \in [0 .. (h - 1) -> Rows(w)], c \in Char :
          n = cur_row /\ f = First /\ s = screen /\ c = ch
    BY <1>2, <1>3, <2>2
  <2>4. n < h /\ p \in Sheets(w) /\ Shows(s, h, f, p.lines, n)
    BY <1>6, <2>1, <2>2, <2>3
  <2>5. t = Glyph(s, n, p.col, c)
    BY <1>7, <2>3
  <2>6. /\ t \in [0 .. (h - 1) -> Rows(w)]
        /\ \A r \in 0 .. (h - 1) : r > n => t[r] = s[r]
        /\ Shows(t, h, f, Struck(p, c), n)
    BY <2>4, <2>5, ShowsStruck
  <2> QED BY <1>9, <2>2, <2>3, <2>6
<1>11. Len(S) = Len(p.lines)
  BY <1>2, <1>3, <1>9, StruckFacts
<1>12. Struck(Sheet, ch)' = S
  <2>1. Sheet' = p /\ ch' = ch
    BY <1>2, <1>5
  <2> QED BY <1>9, <2>1 DEF Struck
<1>13. (Lines(S, cur_row))' /\ (Placed(S, cur_row))'
  BY <1>1, <1>2, <1>6, <1>8, <1>10, <1>11 DEF Lines, Placed
<1>14. Drawn'
  BY <1>1, <1>2, <1>4, <1>5, <1>6, <1>12, <1>13 DEF Drawn
<1>15. ScreenTypes'
  BY <1>1, <1>8, <1>10, PutcTypes
<1>16. Below(cur_row)'
  <2>1. \A r \in 0 .. (rows - 1) : r > cur_row => screen[r] = BlankRow(cols)
    BY <1>3 DEF OnScreen, Below
  <2> QED BY <1>1, <1>2, <1>8, <1>10, <2>1 DEF Below
<1> QED BY <1>1, <1>14, <1>15, <1>16 DEF SInv, OnScreen

\* The cursor after a glyph, on the same line or at the left edge.
LEMMA AdvancePicture ==
    ASSUME FInv, PInv, SInv, Advance \/ Wrap
    PROVE  SInv'
<1>1. Putc /\ at \in {"advance", "wrap"} /\ UNCHANGED <<cur_row, screen, shown>>
  BY DEF Putc, Advance, Wrap
<1>2. /\ ready /\ UNCHANGED <<mode, ready, cols, rows, ch>> /\ First' = First
      /\ ch \in Char /\ Sheet' = Sheet /\ (Steady' <=> Steady)
  BY <1>1, PutcFrame
<1>3. /\ OnScreen /\ cols \in Nat \ {0} /\ rows \in Nat \ {0} /\ First \in 1 .. 2
      /\ cur_row \in Nat /\ Sheet \in Sheets(cols) /\ Tracked
      /\ screen \in [0 .. (rows - 1) -> Rows(cols)]
  BY <1>2, PaperNow
<1>4. Drawn /\ cur_row < rows
  BY <1>1, <1>3 DEF OnScreen, Tracked, OnCell
<1>5. PICK p \in Sheets(cols) : p = Sheet
  BY <1>3
<1>6. PICK S : S = Struck(p, ch)
  OBVIOUS
<1>7. /\ Lines(S, cur_row) /\ Placed(S, cur_row) /\ Steady
      /\ ch \notin {"\n", "\r", "control"}
  BY <1>4, <1>5, <1>6 DEF Drawn
<1>8. /\ p.col + 1 < cols => After.lines = S /\ After.col = p.col + 1
      /\ ~(p.col + 1 < cols) => After.lines = Append(S, BlankRow(cols)) /\ After.col = 0
  <2>1. After = Typed(cols, p, ch)
    BY <1>5 DEF After
  <2> QED BY <1>2, <1>3, <1>6, <1>7, <2>1, TypedFacts
<1>9. p.col \in Nat
  BY DEF Sheets
<1>10. CASE Wrap
  <2>1. at = "wrap" /\ at' = "row" /\ cur_col' = 0
    BY <1>10 DEF Wrap
  <2>2. ~(p.col + 1 < cols)
    BY <1>3, <1>4, <1>5, <1>9, <2>1 DEF Drawn
  <2>3. S \in Seq(Rows(cols))
    BY <1>2, <1>3, <1>6, StruckFacts
  <2> QED BY <1>1, <1>4, <1>7, <1>8, <2>1, <2>2, <2>3, FedPicture
<1>11. CASE Advance
  <2>1. /\ at = "advance" /\ cur_col = p.col /\ cur_col' = p.col + 1
        /\ at' = IF p.col + 1 >= cols THEN "wrap" ELSE "check"
    BY <1>4, <1>5, <1>11 DEF Advance, Drawn, LineFull
  <2>2. CASE p.col + 1 < cols
    <3>1. at' = "check"
      BY <1>3, <1>9, <2>1, <2>2
    <3> QED BY <1>1, <1>4, <1>7, <1>8, <2>1, <2>2, <3>1, StayPicture
  <2>3. CASE ~(p.col + 1 < cols)
    <3>1. at' = "wrap" /\ p.col + 1 >= cols
      BY <1>3, <1>9, <2>1, <2>3
    <3>2. Struck(Sheet, ch)' = S
      <4>1. Sheet' = p /\ ch' = ch
        BY <1>2, <1>5
      <4> QED BY <1>6, <4>1 DEF Struck
    <3>3. (Lines(S, cur_row))' /\ (Placed(S, cur_row))'
      BY <1>1, <1>2, <1>7 DEF Lines, Placed
    <3>4. Drawn'
      BY <1>2, <1>5, <1>7, <3>1, <3>2, <3>3 DEF Drawn
    <3>5. ScreenTypes'
      BY <1>1, <1>3, PutcTypes
    <3>6. Below(cur_row)'
      BY <1>1, <1>2, <1>3 DEF OnScreen, Below
    <3> QED BY <3>1, <3>4, <3>5, <3>6 DEF SInv, OnScreen
  <2> QED BY <2>2, <2>3
<1> QED BY <1>10, <1>11

\* cur_row moves on, and the row is checked.
LEMMA RowPicture ==
    ASSUME FInv, PInv, SInv, NextRow \/ CheckRow
    PROVE  SInv'
<1>1. Putc /\ at \in {"row", "check"} /\ UNCHANGED <<cur_col, screen>>
  BY DEF Putc, NextRow, CheckRow, cursor
<1>2. /\ ready /\ UNCHANGED <<mode, ready, cols, rows>> /\ First' = First
      /\ After \in Sheets(cols)
      /\ shown' = shown => After' = After
  BY <1>1, PutcFrame
<1>3. /\ OnScreen /\ rows \in Nat \ {0} /\ First \in 1 .. 2 /\ cur_row \in Nat
      /\ screen \in [0 .. (rows - 1) -> Rows(cols)]
  BY <1>2, PaperNow
<1>4. Moved /\ Below(cur_row)
  BY <1>1, <1>3 DEF OnScreen
<1>5. PICK M \in Seq(Rows(cols)), y \in 0 .. (cols - 1) : M = After.lines /\ y = After.col
  BY <1>2 DEF Sheets
<1>6. cur_col = y
  BY <1>4, <1>5 DEF Moved
<1>7. CASE NextRow
  <2>1. at = "row" /\ at' = "check" /\ cur_row' = cur_row + 1 /\ shown' = shown
    BY <1>7 DEF NextRow
  <2>2. /\ LastBlank(M) /\ Lines(M, cur_row + 1) /\ Placed(M, cur_row + 1)
        /\ cur_row < rows \/ Len(M) <= First
    BY <1>4, <1>5, <2>1 DEF Moved
  <2>3. cur_row + 1 <= rows \/ Len(M) <= First
    BY <1>3, <2>2
  <2>4. (Lines(M, cur_row))' /\ (Placed(M, cur_row))' /\ (LastBlank(M))'
    BY <1>1, <1>2, <2>1, <2>2 DEF Lines, Placed, LastBlank
  <2>5. Moved'
    BY <1>1, <1>2, <1>5, <1>6, <2>1, <2>3, <2>4 DEF Moved
  <2>6. ScreenTypes'
    BY <1>1, <1>3, <2>1, PutcTypes
  <2>7. Below(cur_row)'
    <3>1. cur_row' \in Nat /\ cur_row' >= cur_row
      BY <1>3, <2>1
    <3> QED BY <1>1, <1>2, <1>3, <1>4, <3>1, BelowKept
  <2> QED BY <2>1, <2>5, <2>6, <2>7 DEF SInv, OnScreen
<1>8. CASE CheckRow
  <2>1. at = "check" /\ cur_row' = cur_row
    BY <1>8 DEF CheckRow, cursor
  <2>2. /\ cur_row >= rows => LastBlank(M)
        /\ Lines(M, cur_row) /\ Placed(M, cur_row)
        /\ cur_row <= rows \/ Len(M) <= First
    BY <1>4, <1>5, <2>1 DEF Moved
  <2>3. CASE cur_row >= rows
    <3>1. at' = "scroll" /\ copied' = 0 /\ shown' = shown
      BY <1>8, <2>3 DEF CheckRow
    <3>2. Halfway(screen, rows, First, M, 0)
      <4>1. Shows(screen, rows, First, M, cur_row)
        BY <2>2 DEF Lines
      <4> QED BY <1>3, <2>2, <2>3, <4>1, HalfwayBegins
    <3>3. (Scrolling(M))' /\ (LastBlank(M))' /\ (Placed(M, cur_row))'
      BY <1>1, <1>2, <2>1, <2>2, <2>3, <3>1, <3>2 DEF Scrolling, LastBlank, Placed
    <3>4. Moved'
      BY <1>1, <1>2, <1>5, <1>6, <2>1, <2>3, <3>1, <3>3 DEF Moved
    <3>5. ScreenTypes'
      BY <1>1, <1>3, <3>1, PutcTypes
    <3>6. Below(cur_row)'
      BY <1>1, <1>2, <1>4, <2>1 DEF Below
    <3> QED BY <3>1, <3>4, <3>5, <3>6 DEF SInv, OnScreen
  <2>4. CASE ~(cur_row >= rows)
    <3>1. PutDone /\ cur_row < rows
      BY <1>3, <1>8, <2>4 DEF CheckRow
    <3> QED BY <1>1, <1>3, <1>4, <1>5, <1>6, <2>1, <2>2, <3>1, DonePicture
  <2> QED BY <2>3, <2>4
<1> QED BY <1>7, <1>8

\* scroll
LEMMA ScrollPicture ==
    ASSUME FInv, PInv, SInv, ScrollCopy \/ ScrollFill
    PROVE  SInv'
<1>1. Putc /\ at = "scroll" /\ UNCHANGED <<cur_col, cur_row, shown>>
  BY DEF Putc, ScrollCopy, ScrollFill, cursor
<1>2. /\ ready /\ UNCHANGED <<mode, ready, cols, rows>> /\ First' = First
      /\ After \in Sheets(cols) /\ After' = After
  BY <1>1, PutcFrame
<1>3. /\ OnScreen /\ cols \in Nat \ {0} /\ rows \in Nat \ {0} /\ First \in 1 .. 2
      /\ cur_row \in Nat /\ copied \in Nat
      /\ screen \in [0 .. (rows - 1) -> Rows(cols)]
  BY <1>2, PaperNow
<1>4. PICK M \in Seq(Rows(cols)), y \in 0 .. (cols - 1) :
        M = After.lines /\ y = After.col /\ M # << >>
  BY <1>2 DEF Sheets
<1>5. /\ cur_col = y /\ LastBlank(M) /\ cur_row >= rows /\ Scrolling(M)
      /\ Placed(M, cur_row)
  BY <1>1, <1>3, <1>4 DEF OnScreen, Moved
<1>6. PICK w \in Nat \ {0}, h \in Nat \ {0}, n \in Nat : w = cols /\ h = rows /\ n = cur_row
  BY <1>3
<1>7. PICK f \in 1 .. 2, k \in Nat, s \in [0 .. (h - 1) -> Rows(w)] :
        f = First /\ k = copied /\ s = screen
  BY <1>3, <1>6
<1>8. Halfway(s, h, f, M, k) /\ M \in Seq(Rows(w)) /\ n >= h
  BY <1>5, <1>6, <1>7 DEF Scrolling
<1>9. Below(cur_row)'
  <2>1. \A r \in 0 .. (h - 1) : ~(r > n)
    BY <1>8
  <2> QED BY <1>1, <1>2, <1>6, <2>1 DEF Below
<1>10. CASE ScrollCopy
  <2>1. /\ k < h - 1 /\ at' = "scroll" /\ copied' = k + 1
        /\ screen' = [s EXCEPT ![k] = s[k + 1]]
    BY <1>1, <1>6, <1>7, <1>10 DEF ScrollCopy
  <2>2. screen' \in [0 .. (h - 1) -> Rows(w)] /\ Halfway(screen', h, f, M, k + 1)
    <3>1. PICK t : t = [s EXCEPT ![k] = s[k + 1]]
      OBVIOUS
    <3>2. t \in [0 .. (h - 1) -> Rows(w)] /\ Halfway(t, h, f, M, k + 1)
      BY <1>8, <2>1, <3>1, HalfwayMore
    <3> QED BY <2>1, <3>1, <3>2
  <2>3. (Scrolling(M))' /\ (LastBlank(M))' /\ (Placed(M, cur_row))'
    BY <1>1, <1>2, <1>5, <1>6, <1>7, <2>1, <2>2 DEF Scrolling, LastBlank, Placed
  <2>4. Moved'
    BY <1>1, <1>2, <1>4, <1>5, <2>1, <2>3 DEF Moved
  <2>5. ScreenTypes'
    BY <1>1, <1>6, <2>2, PutcTypes
  <2> QED BY <1>9, <2>1, <2>4, <2>5 DEF SInv, OnScreen
<1>11. CASE ScrollFill
  <2>1. PICK B \in Rows(w) : B = BlankRow(w)
    BY BlankFacts
  <2>2. /\ k = h - 1 /\ at' = "settle"
        /\ screen' = [s EXCEPT ![h - 1] = B]
    BY <1>6, <1>7, <1>11, <2>1 DEF ScrollFill
  <2>3. screen' \in [0 .. (h - 1) -> Rows(w)] /\ Shows(screen', h, f, M, h - 1)
    <3>1. PICK t : t = [s EXCEPT ![h - 1] = B]
      OBVIOUS
    <3>2. M[Len(M)] = B
      BY <1>5, <1>6, <2>1 DEF LastBlank
    <3>3. t \in [0 .. (h - 1) -> Rows(w)] /\ Shows(t, h, f, M, h - 1)
      BY <1>4, <1>8, <2>2, <3>1, <3>2, HalfwayEnds
    <3> QED BY <2>2, <3>1, <3>3
  <2>4. (Lines(M, rows - 1))' /\ (Placed(M, cur_row))'
    BY <1>1, <1>2, <1>5, <1>6, <1>7, <2>3 DEF Lines, Placed
  <2>5. Moved'
    BY <1>1, <1>2, <1>4, <1>5, <2>2, <2>4 DEF Moved
  <2>6. ScreenTypes'
    BY <1>1, <1>6, <2>3, PutcTypes
  <2> QED BY <1>9, <2>2, <2>5, <2>6 DEF SInv, OnScreen
<1> QED BY <1>10, <1>11

\* The cursor returns to the last row.
LEMMA SettlePicture ==
    ASSUME FInv, PInv, SInv, Settle
    PROVE  SInv'
<1>1. /\ Putc /\ at = "settle" /\ PutDone /\ cur_row' = rows - 1
      /\ UNCHANGED <<cur_col, screen>>
  BY DEF Putc, Settle
<1>2. /\ ready /\ After \in Sheets(cols)
  BY <1>1, PutcFrame
<1>3. OnScreen /\ rows \in Nat \ {0} /\ cur_row \in Nat
  BY <1>2, PaperNow
<1>4. PICK M \in Seq(Rows(cols)) : M = After.lines
  BY <1>2 DEF Sheets
<1>5. /\ cur_col = After.col /\ cur_row >= rows /\ Lines(M, rows - 1)
      /\ Placed(M, cur_row)
  BY <1>1, <1>3, <1>4 DEF OnScreen, Moved
<1>6. PICK n \in Nat : n = rows - 1 /\ n < rows
  BY <1>3
<1>7. Placed(M, n)
  <2>1. PICK N \in Nat : N = Len(M)
    OBVIOUS
  <2>2. ASSUME cur_row + 1 = N \/ (rows <= cur_row + 1 /\ cur_row + 1 <= N)
        PROVE  rows <= n + 1 /\ n + 1 <= N
    BY <1>3, <1>5, <1>6, <2>2
  <2> QED BY <1>5, <2>1, <2>2 DEF Placed
<1>8. Below(n)
  <2>1. \A r \in 0 .. (rows - 1) : ~(r > n)
    BY <1>3, <1>6
  <2> QED BY <2>1 DEF Below
<1> QED BY <1>1, <1>4, <1>5, <1>6, <1>7, <1>8, DonePicture

LEMMA SameScreen ==
    ASSUME SInv, UNCHANGED vars
    PROVE  SInv'
<1>1. UNCHANGED <<mode, at, ch, text, pos, ready, cols, rows, cur_col, cur_row, screen,
                  copied, shown>>
  BY DEF vars, fbcon, cursor, printing
<1> QED BY <1>1 DEF SInv, OnScreen, ScreenTypes, Below, Resting, Drawn, Moved, Lines,
           Scrolling, Placed, LastBlank, Steady, OnCell, First, Sheet, After, Struck

LEMMA ScreenInductive == FInv /\ PInv /\ SInv /\ [Next]_vars => SInv'
<1> SUFFICES ASSUME FInv, PInv, SInv, [Next]_vars PROVE SInv'
  OBVIOUS
<1>1. CASE ready
  <2>1. CASE \/ \E c \in Char : Kprintf([conv |-> "c", arg |-> c])
             \/ \E d \in Directives : Kprintf(d)
    BY <1>1, <2>1, KprintfPicture
  <2>2. CASE Putc
    BY <2>2, ReturnPicture, DrawPicture, AdvancePicture, RowPicture, ScrollPicture,
       SettlePicture DEF Putc
  <2>3. CASE PanicHalt \/ Halted \/ UNCHANGED vars
    <3>1. CASE at \in {"ready", "sink", "poll"}
      <4>1. /\ UNCHANGED <<cols, rows, cur_col, cur_row, screen, shown, at, ch, text, pos>>
            /\ (mode' = "run" <=> mode = "run")
        BY <2>3 DEF PanicHalt, Halted, vars, fbcon, cursor, printing
      <4>2. OnScreen /\ ScreenTypes
        BY <1>1, PaperNow DEF OnScreen
      <4> QED BY <1>1, <3>1, <4>1, <4>2, PictureKept DEF ScreenTypes
    <3>2. CASE at \notin {"ready", "sink", "poll"}
      <4>1. mode # "halt" /\ at # "ready"
        BY <1>1, <3>2 DEF FInv, Tracked
      <4>2. UNCHANGED vars
        BY <2>3, <4>1 DEF PanicHalt, Halted, Idle
      <4> QED BY <4>2, SameScreen
    <3> QED BY <3>1, <3>2
  <2>4. CASE SerialInit \/ FbconInit
    BY <1>1, <2>4 DEF SerialInit, FbconInit, FInv
  <2>5. CASE EmitNext \/ NextSink \/ PollBusy \/ Send
    BY <1>1, <2>5, EmitPicture
  <2>6. CASE Panic
    BY <1>1, <2>6, PanicPicture
  <2> QED BY <2>1, <2>2, <2>3, <2>4, <2>5, <2>6 DEF Next, Step
<1>2. CASE ~ready
  <2>1. CASE FbconInit
    BY <2>1, FbconPicture
  <2>2. CASE ~FbconInit
    <3>1. ready' = ready
      <4>1. CASE Putc
        BY <4>1 DEF Putc, PutReturn, PutControl, Draw, Advance, Wrap, NextRow, CheckRow,
           ScrollCopy, ScrollFill, Settle, Elsewhere
      <4>2. CASE EmitNext \/ NextSink \/ PollBusy \/ Send
        BY <4>2 DEF EmitNext, NextSink, PollBusy, Send, fbcon
      <4>3. CASE \/ SerialInit \/ (\E d : Kprintf(d)) \/ Panic \/ PanicHalt \/ Halted
                 \/ UNCHANGED vars
        BY <4>3 DEF SerialInit, Kprintf, Panic, PanicHalt, Halted, vars, fbcon
      <4> QED BY <2>2, <4>1, <4>2, <4>3 DEF Next, Step
    <3> QED BY <1>2, <3>1 DEF SInv
  <2> QED BY <2>1, <2>2
<1> QED BY <1>1, <1>2

\* The screen shows the end of the text fbcon was given, on every framebuffer:
\* of all kmain printed, or, after a panic, of the panic's own lines, whatever
\* store of fbcon_putc it interrupted (fbcon.c:111).
THEOREM ScreenIsRight == FairSpec => []ScreenShowsText
<1>1. FInv /\ PInv /\ SInv => ScreenShowsText
  <2> SUFFICES ASSUME FInv, PInv, SInv, ready, at \in {"ready", "sink", "poll"}, Steady
               PROVE  LET p == Paper(cols, shown)
                          n == Len(p.lines)
                          own == IF mode = "run" THEN 0 .. (n - 1) ELSE 0 .. (n - 2)
                      IN  /\ cur_col = p.col
                          /\ \A k \in own : k <= cur_row =>
                               screen[cur_row - k] = p.lines[n - k]
                          /\ \A r \in (cur_row + 1) .. (rows - 1) :
                               screen[r] = BlankRow(cols)
                          /\ mode = "run" => cur_row + 1 = IF n < rows THEN n ELSE rows
    BY DEF ScreenShowsText, Steady
  <2>1. /\ OnScreen /\ rows \in Nat \ {0} /\ cur_row \in Nat /\ Sheet \in Sheets(cols)
    BY PaperNow
  <2>2. Resting /\ Below(cur_row)
    BY <2>1 DEF OnScreen
  <2>3. PICK L \in Seq(Rows(cols)), x \in 0 .. (cols - 1) :
          L = Paper(cols, shown).lines /\ x = Paper(cols, shown).col
    BY <2>1 DEF Sheets, Sheet
  <2>4. /\ cur_col = x /\ cur_row < rows /\ Lines(L, cur_row) /\ Placed(L, cur_row)
    BY <2>2, <2>3 DEF Resting, Sheet, OnCell
  <2>5. PICK N \in Nat : N = Len(L)
    OBVIOUS
  <2>6. ASSUME NEW k \in IF mode = "run" THEN 0 .. (N - 1) ELSE 0 .. (N - 2), k <= cur_row
        PROVE  screen[cur_row - k] = L[N - k]
    <3>1. k \in Nat /\ N - k >= First
      BY <2>5 DEF First
    <3>2. PICK r \in Nat : r = cur_row - k
      BY <2>1, <2>6, <3>1
    <3>3. r \in 0 .. (rows - 1) /\ r <= cur_row /\ cur_row - r = k
      BY <2>1, <2>4, <3>1, <3>2
    <3>4. N - (cur_row - r) >= First => screen[r] = L[N - (cur_row - r)]
      BY <2>4, <2>5, <3>3 DEF Lines, Shows
    <3> QED BY <3>1, <3>2, <3>3, <3>4
  <2>7. ASSUME NEW r \in (cur_row + 1) .. (rows - 1) PROVE screen[r] = BlankRow(cols)
    <3>1. r \in 0 .. (rows - 1) /\ r > cur_row
      BY <2>1
    <3> QED BY <2>2, <3>1 DEF Below
  <2>8. ASSUME mode = "run" PROVE cur_row + 1 = IF N < rows THEN N ELSE rows
    <3>1. cur_row + 1 = N \/ (rows <= cur_row + 1 /\ cur_row + 1 <= N)
      BY <2>4, <2>5, <2>8 DEF Placed
    <3> QED BY <2>1, <2>4, <3>1
  <2> QED BY <2>3, <2>4, <2>5, <2>6, <2>7, <2>8
<1> QED
  BY <1>1, ConsoleInit, ConsoleInductive, PanicInit, PanicInductive, ScreenInit,
     ScreenInductive, PTL DEF FairSpec, Spec

================================================================================
