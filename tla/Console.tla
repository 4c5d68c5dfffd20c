-------------------------------- MODULE Console --------------------------------
(***************************************************************************)
(* kernel/debug/kprintf.c, kernel/graphics/fbcon.c,                        *)
(* kernel/arch/x86_64/serial.c and the printing of kernel/debug/panic.c.   *)
(*                                                                         *)
(* A call of kprintf is one directive of its format; the text it comes to  *)
(* goes to the sinks character by character.  A fault or an NMI may strike *)
(* between any two stores of a sink; panic then prints through the same    *)
(* sinks from whatever state they were left in, and never returns.  An NMI *)
(* may strike a panic too, also one that has halted.                       *)
(*                                                                         *)
(* A screen cell is what the last glyph drawn in it shows; colours are     *)
(* left out.  Upper and lower case digits are not told apart.              *)
(***************************************************************************)
EXTENDS Integers, SequencesExt

CONSTANTS
    CELL, MARGIN,           \* glyph cell and border, in pixels
    MinWidth, MinHeight,    \* 320 and 200 in the source
    MAX_SINKS,
    DEC, HEX,               \* the bases: 10 and 16 in the source
    INT, LONG,              \* 2^32 and 2^64: the values of an int and a long
    POINTER,                \* field width of %p: 16
    BUF,                    \* digits that buf holds: 24
    PollLimit,              \* 100000 in the source
    Framebuffers,           \* what the bootinfo may say of the framebuffer
    Uarts,                  \* "ok", "wedged" (never ready), "absent"
    Directives,             \* what kprintf is asked to print, besides characters
    PanicWords,             \* what panic prints after its first newline
    MaxChars                \* bound on the characters printed before a panic

Char == {"\n", "\r", "control", "a", "b"}

\* A conversion of a format, with the register its argument is passed in.
Directive ==
    [conv : {"d", "u", "x", "p"}, zero : BOOLEAN, width : Nat, longs : 0 .. 2,
     arg : 0 .. (LONG - 1)]
    \union [conv : {"s"}, arg : Seq(Char) \union {<<"null">>}]
    \union [conv : {"c", "%", "?"}, arg : Char]

Framebuffer ==
    [format : {"xrgb", "xbgr", "none"}, base : {"null", "set"},
     width : Nat, height : Nat, pitch32 : Nat]

ASSUME ConsoleAssumption ==
    /\ CELL \in Nat \ {0} /\ MARGIN \in Nat
    /\ MinWidth \in Nat /\ MinWidth >= 2 * MARGIN + CELL
    /\ MinHeight \in Nat /\ MinHeight >= 2 * MARGIN + CELL
    /\ DEC \in Nat /\ HEX \in Nat /\ DEC > 1 /\ HEX > 1 /\ POINTER \in Nat
    /\ INT \in Nat \ {0} /\ LONG \in Nat /\ LONG % INT = 0 /\ INT % 2 = 0
    /\ BUF \in Nat /\ Directives \subseteq Directive
    /\ MAX_SINKS \in Nat /\ MAX_SINKS >= 2 /\ PollLimit \in Nat \ {0} /\ MaxChars \in Nat
    /\ Framebuffers \subseteq Framebuffer
    /\ \A f \in Framebuffers : f.pitch32 >= f.width
    /\ Uarts \subseteq {"ok", "wedged", "absent"}
    /\ PanicWords \in Seq(Char)

VARIABLES
    uart, bi,             \* the machine: its UART and its framebuffer
    mode,                 \* "boot", "run", "panic", "halt"
    sinks,                \* registered sinks, in order
    at, ch, sink,         \* where emit is, its character and its i
    asked,                \* the directive of the current or last kprintf
    text, pos,            \* what it prints, and its next character
    nmi,                  \* an NMI has struck; the next one stays blocked
    present, out, polls,  \* serial_putc: bytes left to send, reads of the LSR
    ready, cols, rows, cur_col, cur_row, screen, copied,   \* fbcon
    reach,                \* right and bottom edge of the last pixels accessed
    wire,                 \* what left the UART since kprintf or panic began
    shown                 \* what fbcon was given, since it or the panic began

machine == <<uart, bi>>
serial == <<present, out, polls, wire>>
cursor == <<cur_col, cur_row>>
fbcon == <<ready, cols, rows, cursor, screen, copied, reach, shown>>
printing == <<asked, text, pos>>
vars == <<machine, mode, nmi, sinks, at, ch, sink, printing, serial, fbcon>>

--------------------------------------------------------------------------------
(* Initialisation *)

\* serial_init, and kmain's console_register of a port that may be absent.
SerialInit ==
    /\ mode = "boot"
    /\ present' = (uart # "absent")
    /\ sinks' = IF Len(sinks) < MAX_SINKS THEN Append(sinks, "serial") ELSE sinks
    /\ mode' = "run"
    /\ UNCHANGED <<machine, nmi, at, ch, sink, printing, out, polls, wire, fbcon>>

\* The early returns of fbcon_init.
Usable(f) ==
    /\ f.format # "none" /\ f.base = "set"
    /\ f.width >= MinWidth /\ f.height >= MinHeight

\* No kprintf is in progress, or none has been called since.
Idle == at = "ready" /\ pos > Len(text)
None == [conv |-> "c", arg |-> "\n"]
Nothing == asked' = None /\ text' = << >> /\ pos' = 1

Space == " "
BlankRow(n) == [c \in 0 .. (n - 1) |-> Space]

\* fbcon_init and kmain's console_register, between two kprintfs.
FbconInit ==
    /\ mode = "run" /\ Idle /\ ~ready
    /\ Usable(bi)
    /\ cols' = (bi.width - 2 * MARGIN) \div CELL
    /\ rows' = (bi.height - 2 * MARGIN) \div CELL
    /\ cur_col' = 0 /\ cur_row' = 0
    /\ screen' = [r \in 0 .. (rows' - 1) |-> BlankRow(cols')]
    /\ reach' = <<bi.width, bi.height>>
    /\ ready' = TRUE
    /\ sinks' = IF Len(sinks) < MAX_SINKS THEN Append(sinks, "fbcon") ELSE sinks
    /\ Nothing /\ wire' = << >>
    /\ UNCHANGED <<machine, mode, nmi, at, ch, sink, present, out, polls, copied,
                   shown>>

--------------------------------------------------------------------------------
(* kvprintf: the text of one directive. *)

\* va_arg of an int, an unsigned int, a long or an unsigned long.
Unsigned(d) == IF d.longs > 0 THEN d.arg ELSE d.arg % INT
Values(d) == IF d.longs > 0 THEN LONG ELSE INT
Signed(d) ==
    IF 2 * Unsigned(d) < Values(d) THEN Unsigned(d) ELSE Unsigned(d) - Values(d)

\* dig, for bases up to 16.
Dig == <<"0", "1", "2", "3", "4", "5", "6", "7", "8", "9",
         "a", "b", "c", "d", "e", "f">>

\* Mutant: while (v) { ... } instead of do { ... } while (v).
DigitsWhile(v, base) ==
    LET n == CHOOSE k \in 0 .. BUF : v < base ^ k /\ \A j \in 0 .. (k - 1) : v >= base ^ j
    IN  [k \in 1 .. n |-> Dig[1 + ((v \div base ^ (n - k)) % base)]]

\* The do loop of emit_uint stops after as many digits as v has, at least one.
Digits(v, base) ==
    LET n == CHOOSE k \in 1 .. BUF : v < base ^ k /\ \A j \in 1 .. (k - 1) : v >= base ^ j
    IN  [k \in 1 .. n |-> Dig[1 + ((v \div base ^ (n - k)) % base)]]

emit_uint(v, base, width, zero) ==
    LET digits == Digits(v, base)
    IN  [k \in 1 .. (width - Len(digits)) |-> IF zero THEN "0" ELSE Space] \o digits

\* m = (u64)v, and 0 - m for a negative v.
Magnitude(v) == IF v < 0 THEN (0 - (v % LONG)) % LONG ELSE v

\* The switch of kvprintf.
Expand(d) ==
    CASE d.conv = "s" -> d.arg
      [] d.conv = "c" -> <<d.arg>>
      [] d.conv = "d" -> (IF Signed(d) < 0 THEN <<"-">> ELSE << >>)
                           \o emit_uint(Magnitude(Signed(d)), DEC, d.width, d.zero)
      [] d.conv = "u" -> emit_uint(Unsigned(d), DEC, d.width, d.zero)
      [] d.conv = "x" -> emit_uint(Unsigned(d), HEX, d.width, d.zero)
      [] d.conv = "p" -> <<"0", "x">> \o emit_uint(d.arg, HEX, POINTER, TRUE)
      [] d.conv = "%" -> <<"%">>
      [] OTHER -> <<"%", d.arg>>

--------------------------------------------------------------------------------
(* emit *)

Emit(c) ==
    /\ at = "ready"
    /\ ch' = c /\ sink' = 1 /\ at' = "sink"

\* kprintf, called by kmain.  Bound: characters until MaxChars are on the
\* screen, other conversions until the framebuffer console is up.
Kprintf(d) ==
    /\ mode = "run" /\ Idle
    /\ IF d.conv = "c" THEN Len(shown) < MaxChars ELSE ~ready
    /\ asked' = d /\ text' = Expand(d) /\ pos' = 1
    /\ wire' = << >>
    /\ UNCHANGED <<machine, mode, nmi, sinks, at, ch, sink, present, out, polls,
                   fbcon>>

EmitNext ==
    /\ pos <= Len(text)
    /\ Emit(text[pos])
    /\ pos' = pos + 1
    /\ UNCHANGED <<machine, mode, nmi, sinks, asked, text, serial, fbcon>>

\* Mutant: a bare newline.
BytesRaw(c) == <<c>>

\* What serial_putc sends for a character.
Bytes(c) == IF c = "\n" THEN <<"\r", "\n">> ELSE <<c>>

\* The loop over the sinks.
NextSink ==
    /\ at = "sink"
    /\ \/ /\ sink > Len(sinks)
          /\ at' = "ready"
          /\ UNCHANGED <<sink, out, polls>>
       \/ /\ sink <= Len(sinks) /\ sinks[sink] = "serial"
          /\ IF present
             THEN /\ out' = Bytes(ch)
                  /\ polls' = 0
                  /\ at' = "poll" /\ UNCHANGED sink
             ELSE sink' = sink + 1 /\ UNCHANGED <<at, out, polls>>
       \/ /\ sink <= Len(sinks) /\ sinks[sink] = "fbcon"
          /\ at' = "putc"
          /\ UNCHANGED <<sink, out, polls>>
    /\ UNCHANGED <<machine, mode, nmi, sinks, ch, printing, present, wire, fbcon>>

--------------------------------------------------------------------------------
(* serial_putc *)

\* Mutant: no limit on the reads of the line status.
PollForever ==
    /\ at = "poll"
    /\ uart = "ok" => polls < PollLimit - 1
    /\ polls' = IF uart = "ok" THEN polls + 1 ELSE polls
    /\ UNCHANGED <<machine, mode, nmi, sinks, at, ch, sink, printing, present,
                   out, wire, fbcon>>

\* A UART that works empties its register within the limit.
PollBusy ==
    /\ at = "poll"
    /\ polls < IF uart = "ok" THEN PollLimit - 1 ELSE PollLimit
    /\ polls' = polls + 1
    /\ UNCHANGED <<machine, mode, nmi, sinks, at, ch, sink, printing, present,
                   out, wire, fbcon>>

\* The register is empty, or the loop has run out.
MaySend == at = "poll" /\ (uart = "ok" \/ polls = PollLimit)

\* outb: a byte written to a UART that is stuck goes nowhere.
Send ==
    /\ MaySend
    /\ wire' = IF uart = "ok" THEN Append(wire, Head(out)) ELSE wire
    /\ out' = Tail(out) /\ polls' = 0
    /\ IF Len(out) > 1
       THEN UNCHANGED <<at, sink>>
       ELSE at' = "sink" /\ sink' = sink + 1
    /\ UNCHANGED <<machine, mode, nmi, sinks, ch, printing, present, fbcon>>

--------------------------------------------------------------------------------
(* fbcon_putc, one step per store that another call of it can see. *)

Elsewhere ==
    UNCHANGED <<machine, mode, nmi, sinks, ch, printing, serial, ready, cols, rows>>

PutDone ==
    /\ at' = "sink" /\ sink' = sink + 1
    /\ shown' = Append(shown, ch)

\* Newline and carriage return: cur_col = 0.
PutReturn ==
    /\ at = "putc" /\ ch \in {"\n", "\r"}
    /\ cur_col' = 0
    /\ at' = IF ch = "\n" THEN "row" ELSE "check"
    /\ Elsewhere /\ UNCHANGED <<sink, cur_row, screen, copied, reach, shown>>

\* A character below 0x20 leaves the screen alone.
PutControl ==
    /\ at = "putc" /\ ch = "control"
    /\ at' = "check"
    /\ Elsewhere /\ UNCHANGED <<sink, cursor, screen, copied, reach, shown>>

\* draw_glyph
Draw ==
    /\ at = "putc" /\ ch \notin {"\n", "\r", "control"}
    /\ reach' = <<MARGIN + (cur_col + 1) * CELL, MARGIN + (cur_row + 1) * CELL>>
    /\ screen' = [r \in DOMAIN screen |-> [c \in DOMAIN screen[r] |->
                    IF r = cur_row /\ c = cur_col THEN ch ELSE screen[r][c]]]
    /\ at' = "advance"
    /\ Elsewhere /\ UNCHANGED <<sink, cursor, copied, shown>>

LineFull(n) == n >= cols

Advance ==
    /\ at = "advance"
    /\ cur_col' = cur_col + 1
    /\ at' = IF LineFull(cur_col + 1) THEN "wrap" ELSE "check"
    /\ Elsewhere /\ UNCHANGED <<sink, cur_row, screen, copied, reach, shown>>

Wrap ==
    /\ at = "wrap"
    /\ cur_col' = 0 /\ at' = "row"
    /\ Elsewhere /\ UNCHANGED <<sink, cur_row, screen, copied, reach, shown>>

NextRow ==
    /\ at = "row"
    /\ cur_row' = cur_row + 1 /\ at' = "check"
    /\ Elsewhere /\ UNCHANGED <<sink, cur_col, screen, copied, reach, shown>>

CheckRow ==
    /\ at = "check"
    /\ IF cur_row >= rows
       THEN at' = "scroll" /\ copied' = 0 /\ UNCHANGED <<sink, shown>>
       ELSE PutDone /\ UNCHANGED copied
    /\ Elsewhere /\ UNCHANGED <<cursor, screen, reach>>

\* scroll: the copy, row by row.
ScrollCopy ==
    /\ at = "scroll"
    /\ copied < rows - 1
    /\ screen' = [screen EXCEPT ![copied] = screen[copied + 1]]
    /\ reach' = <<bi.pitch32, MARGIN + (copied + 2) * CELL>>
    /\ copied' = copied + 1
    /\ Elsewhere /\ UNCHANGED <<at, sink, cursor, shown>>

\* Mutant: the last row keeps its text.
ScrollNoFill ==
    /\ at = "scroll" /\ copied = rows - 1
    /\ at' = "settle"
    /\ Elsewhere /\ UNCHANGED <<sink, cursor, screen, reach, copied, shown>>

\* scroll: the last row is cleared.
ScrollFill ==
    /\ at = "scroll" /\ copied = rows - 1
    /\ screen' = [screen EXCEPT ![rows - 1] = BlankRow(cols)]
    /\ reach' = <<bi.width, MARGIN + rows * CELL>>
    /\ at' = "settle"
    /\ Elsewhere /\ UNCHANGED <<sink, cursor, copied, shown>>

Settle ==
    /\ at = "settle"
    /\ cur_row' = rows - 1
    /\ PutDone
    /\ Elsewhere /\ UNCHANGED <<cur_col, screen, copied, reach>>

Putc ==
    \/ PutReturn \/ PutControl \/ Draw \/ Advance \/ Wrap \/ NextRow
    \/ CheckRow \/ ScrollCopy \/ ScrollFill \/ Settle

--------------------------------------------------------------------------------
(* panic *)

\* Mutant: the banner does not start with a newline.
PanicNoNewline == PanicWords

\* A newline, the banner, the reason and the status, without their wording.
PanicText == <<"\n">> \o PanicWords

\* A failed check or a fault in the kernel, or an NMI, which also interrupts
\* a panic: whatever was being printed is dropped.
Panic ==
    /\ \/ mode = "run" /\ nmi' \in BOOLEAN
       \/ mode \in {"panic", "halt"} /\ ~nmi /\ nmi' = TRUE
    /\ mode' = "panic" /\ asked' = None /\ text' = PanicText /\ pos' = 1
    /\ at' = "ready" /\ sink' = 1 /\ ch' = "\n"
    /\ out' = << >> /\ polls' = 0
    /\ wire' = << >> /\ shown' = << >>
    /\ UNCHANGED <<machine, sinks, present, ready, cols, rows, cursor,
                   screen, copied, reach>>

\* halt_forever: interrupts are off, NMIs are not.
PanicHalt ==
    /\ mode = "panic" /\ Idle
    /\ mode' = "halt"
    /\ UNCHANGED <<machine, nmi, sinks, at, ch, sink, printing, serial, fbcon>>

Halted == mode = "halt" /\ UNCHANGED vars

--------------------------------------------------------------------------------
Init ==
    /\ uart \in Uarts /\ bi \in Framebuffers
    /\ mode = "boot" /\ nmi = FALSE /\ sinks = << >>
    /\ at = "ready" /\ ch = "\n" /\ sink = 1
    /\ asked = None /\ text = << >> /\ pos = 1
    /\ present = FALSE /\ out = << >> /\ polls = 0
    /\ ready = FALSE /\ cols = 0 /\ rows = 0 /\ cur_col = 0 /\ cur_row = 0
    /\ screen = << >> /\ copied = 0 /\ reach = <<0, 0>>
    /\ wire = << >> /\ shown = << >>

\* The processor's next step of a call that has begun.
Step == EmitNext \/ NextSink \/ PollBusy \/ Send \/ Putc \/ PanicHalt

Next ==
    \/ SerialInit \/ FbconInit
    \/ \E c \in Char : Kprintf([conv |-> "c", arg |-> c])
    \/ \E d \in Directives : Kprintf(d)
    \/ Step \/ Panic \/ Halted

Spec == Init /\ [][Next]_vars
FairSpec == Spec /\ WF_vars(Step)

--------------------------------------------------------------------------------
(* Properties *)

\* The pixels draw_glyph, fill_rect and scroll access are in the framebuffer,
\* also when a panic finds the cursor one past its range (fbcon.c:133).
InsideFramebuffer ==
    ready => reach[1] <= bi.pitch32 /\ reach[2] <= bi.height

\* The text as a typewriter with that many columns and endless paper sets it.
Typed(columns, p, c) ==
    LET n == Len(p.lines)
        Fed == [lines |-> Append(p.lines, BlankRow(columns)), col |-> 0]
        struck == [p.lines EXCEPT ![n] = [@ EXCEPT ![p.col] = c]]
    IN  CASE c = "\n" -> Fed
          [] c = "\r" -> [p EXCEPT !.col = 0]
          [] c = "control" -> p
          [] OTHER -> IF p.col + 1 < columns
                      THEN [lines |-> struck, col |-> p.col + 1]
                      ELSE [lines |-> Append(struck, BlankRow(columns)), col |-> 0]
Papers(columns, words) ==
    LET after[k \in 0 .. Len(words)] ==
            IF k = 0 THEN [lines |-> <<BlankRow(columns)>>, col |-> 0]
            ELSE Typed(columns, after[k - 1], words[k])
    IN  after
Paper(columns, words) == Papers(columns, words)[Len(words)]

\* The screen shows the last rows of the text fbcon_putc was given, and after
\* a panic all of the panic's own text that fits, whatever was interrupted.
ScreenShowsText ==
    ready /\ at \in {"ready", "sink", "poll"} /\ (mode = "run" \/ shown # << >>) =>
        LET p == Paper(cols, shown)
            n == Len(p.lines)
            own == IF mode = "run" THEN 0 .. (n - 1) ELSE 0 .. (n - 2)
        IN  /\ cur_col = p.col
            /\ \A k \in own : k <= cur_row => screen[cur_row - k] = p.lines[n - k]
            /\ \A r \in (cur_row + 1) .. (rows - 1) : screen[r] = BlankRow(cols)
            /\ mode = "run" => cur_row + 1 = IF n < rows THEN n ELSE rows

\* What kmain logs reads back as what it was asked to print: the digits on
\* the wire have the value of the argument in its own type, the longest
\* and the most negative included; there is at least one, they fill the
\* field, and a number longer than its field has no leading zero.
PrintedReadsBack ==
    LET number == SelectSeq(wire, LAMBDA c : \E k \in DOMAIN Dig : Dig[k] = c)
        Value(base) ==
            FoldLeft(LAMBDA v, c : v * base + SelectInSeq(Dig, LAMBDA x : x = c) - 1,
                     0, number)
        minus == IF "-" \in ToSet(wire) THEN 1 ELSE 0
        Fills(width) ==
            /\ number # << >> /\ Len(wire) - minus >= width
            /\ Len(wire) - minus > width => number[1] # "0" \/ Len(number) = 1
    IN  uart = "ok" /\ mode = "run" /\ Idle =>
          CASE asked.conv = "d" ->
                 Value(DEC) * (1 - 2 * minus) = Signed(asked) /\ Fills(asked.width)
            [] asked.conv = "u" -> Value(DEC) = Unsigned(asked) /\ Fills(asked.width)
            [] asked.conv = "x" -> Value(HEX) = Unsigned(asked) /\ Fills(asked.width)
            [] asked.conv = "p" -> Value(HEX) = asked.arg /\ Len(wire) = POINTER + 2
            [] OTHER -> TRUE

\* What a receiver should get of a text, after each of its characters.
OnWire(words) ==
    LET sent[k \in 0 .. Len(words)] ==
            IF k = 0 THEN << >>
            ELSE sent[k - 1] \o IF words[k] = "\n" THEN <<"\r", "\n">>
                                ELSE <<words[k]>>
    IN  sent

\* "Output goes to every registered console" (panic.c:6): all of the panic's
\* text, each newline on the wire preceded by a carriage return.
PanicTextComplete ==
    mode = "halt" =>
        /\ ready => shown = PanicText
        /\ uart = "ok" => wire = OnWire(PanicText)[Len(PanicText)]

\* A wedged UART cannot hang the kernel (serial.c:55): a panic prints and halts.
PanicHalts == mode = "panic" ~> mode = "halt"

================================================================================
