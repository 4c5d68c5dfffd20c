-------------------------------- MODULE Bootinfo --------------------------------
(***************************************************************************)
(* The platform part of the bootinfo: efi_main fills it in from what the   *)
(* firmware offers (bootloader/uefi/main.c), and the kernel's framebuffer  *)
(* console draws by it (kernel/graphics/fbcon.c).                          *)
(*                                                                         *)
(* A pixel in memory is its four bytes in order of address.  A colour is   *)
(* its red, green and blue part.                                           *)
(***************************************************************************)
EXTENDS Acpi

CONSTANTS
    Modes,                 \* GOP modes the firmware may have set
    MinWidth, MinHeight,   \* 320 and 200 in the source
    MARGIN, CELL           \* pixels around the text, and of a character cell

ASSUME BootinfoAssumption ==
    /\ MARGIN \in Nat /\ CELL \in Nat \ {0}
    /\ MinWidth \in Nat /\ MinWidth >= 2 * MARGIN + CELL
    /\ MinHeight \in Nat /\ MinHeight >= 2 * MARGIN + CELL
    /\ \A m \in Modes :
         /\ {m.HorizontalResolution, m.VerticalResolution,
             m.PixelsPerScanLine} \subseteq Nat
         /\ m.PixelsPerScanLine >= m.HorizontalResolution

VARIABLES
    gop,       \* the mode, or Absent
    bi,        \* the bootinfo page
    fg, bg,    \* the console's colours
    vram,      \* the pixels stored, by their index from fb_base
    asked      \* the colour the kernel meant each point of the screen to have

screen == <<fg, bg, vram, asked>>
vars == <<search, pc, gop, bi, screen>>

\* LocateProtocol finds no GOP.
Absent == [PixelFormat |-> "none"]

--------------------------------------------------------------------------------
(* The loader *)

\* AllocatePages does not clear the page: lmemset does.
ClearBootinfo ==
    /\ pc = "clear"
    /\ bi' = [f \in DOMAIN bi |-> 0]
    /\ pc' = "search"
    /\ UNCHANGED <<search, gop, screen>>

\* Mutant: the formats are taken by the order of their names.
FormatByName(m) ==
    CASE m.PixelFormat = "RGBX" -> "XRGB8888"
      [] m.PixelFormat = "BGRX" -> "XBGR8888"
      [] OTHER -> "NONE"

FormatOf(m) ==
    CASE m.PixelFormat = "BGRX" -> "XRGB8888"
      [] m.PixelFormat = "RGBX" -> "XBGR8888"
      [] OTHER -> "NONE"      \* PixelBitMask, PixelBltOnly, or no GOP

\* What fill_framebuffer leaves of the bootinfo b.
Filled(b) ==
    IF FormatOf(gop) = "NONE"
    THEN [b EXCEPT !.fb_format = "NONE"]
    ELSE [b EXCEPT !.fb_format = FormatOf(gop),
                   !.fb_base = gop.FrameBufferBase,
                   !.fb_width = gop.HorizontalResolution,
                   !.fb_height = gop.VerticalResolution,
                   !.fb_pitch = gop.PixelsPerScanLine * 4]

\* bi->acpi_rsdp = find_acpi_rsdp(), then fill_framebuffer(bi).
FillBootinfo ==
    /\ pc = "found"
    /\ bi' = Filled([bi EXCEPT !.acpi_rsdp = found])
    /\ pc' = "kernel"
    /\ UNCHANGED <<search, gop, screen>>

--------------------------------------------------------------------------------
(* The kernel *)

\* 0x00RRGGBB as a little-endian word, swizzled for R, G, B, X framebuffers.
to_native(c) ==
    IF bi.fb_format = "XBGR8888" THEN <<c[1], c[2], c[3], 0>>
    ELSE <<c[3], c[2], c[1], 0>>

\* A memory once v has been stored at every address of S.
Put(mem, S, v) ==
    [x \in S \union DOMAIN mem |-> IF x \in S THEN v ELSE mem[x]]

\* A rectangle of pixels, and the stores that give it a colour.
Rect(x, y, w, h) == (x .. (x + w - 1)) \X (y .. (y + h - 1))
Offset(p) == p[2] * (bi.fb_pitch \div 4) + p[1]
Offsets(points) == {Offset(p) : p \in points}
Stored(points, c) == Put(vram, Offsets(points), to_native(c))
Meant(points, c) == Put(asked, points, c)

Accepted ==
    /\ bi.fb_format \in {"XRGB8888", "XBGR8888"}
    /\ bi.fb_base # 0 /\ bi.fb_width >= MinWidth /\ bi.fb_height >= MinHeight

FbconInit ==
    /\ pc = "kernel"
    /\ IF Accepted
       THEN LET all == Rect(0, 0, bi.fb_width, bi.fb_height)
            IN  /\ vram' = Stored(all, bg) /\ asked' = Meant(all, bg)
                /\ pc' = "ready"
       ELSE pc' = "serial_only" /\ UNCHANGED <<vram, asked>>
    /\ UNCHANGED <<search, gop, bi, fg, bg>>

\* The panic's colours.
SetColors ==
    /\ pc = "ready"
    /\ fg' = <<255, 180, 171>> /\ bg' = <<51, 10, 10>>
    /\ UNCHANGED <<search, pc, gop, bi, vram, asked>>

\* draw_glyph in the first cell, with the glyph's points lit.
DrawGlyph(lit) ==
    LET cell == Rect(MARGIN, MARGIN, CELL, CELL)
    IN  /\ pc = "ready"
        /\ vram' = Put(Stored(cell \ lit, bg), Offsets(lit), to_native(fg))
        /\ asked' = Put(Meant(cell \ lit, bg), lit, fg)
        /\ UNCHANGED <<search, pc, gop, bi, fg, bg>>

Glyph == \E lit \in SUBSET Rect(MARGIN, MARGIN, CELL, CELL) : DrawGlyph(lit)

\* No framebuffer console: the serial port is the only sink.
SerialOnly == pc = "serial_only" /\ UNCHANGED vars

Init ==
    /\ SearchInit /\ pc = "clear"
    /\ gop \in Modes \union {Absent}
    /\ bi = [f \in {"fb_base", "fb_width", "fb_height", "fb_pitch", "fb_format",
                    "acpi_rsdp"} |-> "stale"]
    /\ fg = <<232, 227, 213>> /\ bg = <<11, 14, 20>>
    /\ vram = << >> /\ asked = << >>

Search == (FindStep \/ FindEnd) /\ UNCHANGED <<gop, bi, screen>>

Next ==
    \/ ClearBootinfo \/ Search \/ FillBootinfo
    \/ FbconInit \/ SetColors \/ Glyph \/ SerialOnly

Spec == Init /\ [][Next]_vars

--------------------------------------------------------------------------------
(* Properties *)

\* The colour a mode shows at a point of the screen.
Shows(m, p) ==
    LET px == vram[p[2] * m.PixelsPerScanLine + p[1]]
    IN  IF m.PixelFormat = "RGBX" THEN <<px[1], px[2], px[3]>>
        ELSE <<px[3], px[2], px[1]>>

\* Loader and kernel agree on what the bootinfo says of the framebuffer, the
\* one filling it in and the other drawing: the screen shows every colour meant,
\* at the point it was meant for, on modes of either byte order and with scan lines
\* longer than the screen is wide; nothing is stored outside the screen, and
\* nothing at all on a mode without a linear framebuffer.
ScreenShowsColours ==
    \/ vram = << >>
    \/ /\ gop.PixelFormat \in {"RGBX", "BGRX"}
       /\ LET all == Rect(0, 0, gop.HorizontalResolution, gop.VerticalResolution)
          IN  /\ DOMAIN asked = all
              /\ \A p \in all : Shows(gop, p) = asked[p]
              /\ DOMAIN vram =
                   {p[2] * gop.PixelsPerScanLine + p[1] : p \in all}

================================================================================
