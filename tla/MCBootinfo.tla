------------------------------- MODULE MCBootinfo -------------------------------
(***************************************************************************)
(* Bootinfo with tables of up to seven bytes modulo sixteen, the first     *)
(* three of them the ACPI 1.0 part, and screens of nine to twelve points.  *)
(***************************************************************************)
EXTENDS Bootinfo

MCVersion1 == {
    Null,
    <<1, 15, 0, 0, 0, 5, 5>>,     \* ACPI 1.0; the rest is not looked at
    <<1, 0, 0, 5, 10, 0, 0>>}     \* its checksum is wrong

MCVersion2 == {
    <<2, 14, 0, 5, 11, 0, 0>>,    \* no signature
    <<1, 14, 1, 5, 11, 0, 0>>,    \* revision 1
    <<1, 13, 2, 5, 11, 7, 7>>,    \* ACPI 2.0 of the least length
    <<1, 13, 2, 7, 3, 2, 4>>,     \* of the greatest
    <<1, 13, 2, 6, 8, 2, 1>>,     \* in between
    <<1, 13, 2, 7, 4, 2, 4>>,     \* wrong extended checksum
    <<1, 13, 2, 4, 12, 0, 0>>,    \* too short
    <<1, 13, 2, 8, 0, 0, 0>>,     \* too long
    <<1, 12, 3, 7, 9, 0, 0>>}     \* a later revision

MCConfigTables ==
    [guid : {"acpi20"}, table : MCVersion1 \union MCVersion2]
      \union [guid : {"acpi10"}, table : MCVersion1]
      \union {[guid |-> "other", table |-> Null]}

Mode(format, base, w, h, line) ==
    [PixelFormat |-> format, FrameBufferBase |-> base,
     HorizontalResolution |-> w, VerticalResolution |-> h,
     PixelsPerScanLine |-> line]

MCModes ==
    {Mode(f, 4096, 3, 3, l) : f \in {"RGBX", "BGRX", "mask", "blt"}, l \in {3, 4}}
      \union {Mode("RGBX", 0, 3, 3, 3), Mode("BGRX", 4096, 2, 3, 3),
              Mode("RGBX", 4096, 3, 2, 3), Mode("BGRX", 4096, 3, 4, 5)}

================================================================================
