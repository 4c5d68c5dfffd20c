-------------------------------- MODULE MCReloc --------------------------------
(***************************************************************************)
(* Reloc with six-bit addresses: words of two bytes, dynamic entries of    *)
(* four and relocations of six, images of up to 22 bytes.                  *)
(***************************************************************************)
EXTENDS Reloc

Image(b, s, d) == [base |-> b, size |-> s, dynamic |-> d]

\* In the middle, at the start and at the very end of the address space, one
\* byte past it, empty; the dynamic section with room for up to four
\* entries, for none, and outside on either side.
MCImages ==
    {Image(10, 22, d) : d \in {9, 10 + 6, 10 + 9, 10 + 18, 10 + 19, 10 + 22, 33}}
      \union {Image(0, 21, 5), Image(41, 22, 41 + 6), Image(42, 22, 42 + 6),
              Image(10, 0, 10), Image(63, 22, 63)}

Entry(t, v) == [d_tag |-> t, d_val |-> v]
MCDyns ==
    {Entry("NULL", 0), Entry("other", 63)}
      \union {Entry("RELA", v) : v \in {0, 4, 10, 11, 22, 23, 63}}
      \union {Entry("RELASZ", v) : v \in {0, 6, 12, 18, 11, 60}}
      \union {Entry("RELAENT", v) : v \in {0, 5, 6}}

Fix(o, a) == [r_offset |-> o, r_type |-> "RELATIVE", r_addend |-> a]
MCRelas ==
    {Fix(0, 3), Fix(1, 0), Fix(12, -10), Fix(20, 21), Fix(19, -11), Fix(19, 22),
     Fix(21, 0), Fix(22, 0), Fix(23, 0), Fix(62, 0), Fix(63, -32), Fix(4, -32),
     Fix(4, 31), [Fix(4, 0) EXCEPT !.r_type = "other"]}

================================================================================
