--------------------------------- MODULE MCPmm ---------------------------------
(***************************************************************************)
(* Pmm with small maps: 1 MiB is LowPages pages and a page holds PageBytes *)
(* bytes of bitmap, so that bitmaps of several pages occur.                *)
(***************************************************************************)
EXTENDS Pmm

Range(b, l, t) == [base |-> b, length |-> l, type |-> t]

\* The low region is too short for the bitmap once 1 MiB is skipped, the
\* highest page is not a multiple of eight, and memory is fragmented.
Fragmented == <<Range(0, 10, "usable"), Range(10, 2, "reserved"),
                Range(12, 10, "usable"), Range(22, 4, "mmio")>>

\* The bitmap lies below the other pages, the last byte is a whole one.
WholeBytes == <<Range(1, 3, "reserved"), Range(7, 5, "usable"),
                Range(12, 5, "reserved"), Range(17, 7, "usable")>>

\* The bitmap fills the last usable region, so the cursor starts past the
\* last page, on a bit that only pads the last byte.
PaddedTail == <<Range(9, 2, "usable"), Range(11, 7, "reserved"),
                Range(18, 3, "usable")>>

\* The same, with a highest page that is a multiple of eight.
WholeTail == <<Range(9, 2, "usable"), Range(11, 10, "reserved"),
               Range(21, 3, "usable")>>

NoUsable == <<Range(0, 4, "reserved"), Range(16, 4, "mmio")>>
NoFit == <<Range(2, 7, "usable"), Range(16, 2, "usable")>>

MCMaps == {Fragmented, WholeBytes, PaddedTail, NoUsable, NoFit}
MCTailMaps == {WholeTail}

================================================================================
