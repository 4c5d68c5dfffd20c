------------------------------- MODULE MCElfPlan -------------------------------
(***************************************************************************)
(* ElfPlan on sixteen bytes of memory in pages of four, so that the last   *)
(* page cannot be used: its end does not fit the address type.             *)
(***************************************************************************)
EXTENDS ElfPlan

Load(paddr, filesz, memsz, flags) ==
    [p_type |-> "PT_LOAD", p_flags |-> flags, p_offset |-> paddr % 4,
     p_vaddr |-> paddr, p_paddr |-> paddr, p_filesz |-> filesz,
     p_memsz |-> memsz, p_align |-> 4]

Good == {Load(p, z[1], z[2], f) : p \in {0, 1, 4, 6},
           z \in {<<1, 1>>, <<2, 5>>}, f \in {{"R", "X"}, {"R", "W"}}}
        \union {Load(8, 1, 1, {"R"})}

\* Empty ones, and one with each thing wrong.
Code == Load(4, 1, 2, {"R", "X"})
Odd ==
    {[Code EXCEPT !.p_filesz = 0, !.p_memsz = 0],
     [Code EXCEPT !.p_type = "PT_NOTE", !.p_filesz = 9],
     [Code EXCEPT !.p_filesz = 3],
     [Code EXCEPT !.p_align = 3], [Code EXCEPT !.p_offset = 2],
     [Code EXCEPT !.p_offset = 2, !.p_align = 1], [Code EXCEPT !.p_vaddr = 8],
     [Code EXCEPT !.p_flags = {"W", "X"}], [Code EXCEPT !.p_flags = {"other"}],
     [Code EXCEPT !.p_offset = 4, !.p_filesz = 2],
     [Code EXCEPT !.p_offset = 15, !.p_align = 1],
     Load(15, 0, 2, {"R"}), Load(12, 1, 2, {"R"})}

MCPhdrs == Good \union Odd

Ehdr(first, phoff, e) == [first |-> first, e_phoff |-> phoff, e_entry |-> e]
MCHeaders == {Ehdr("OK", 0, 4), Ehdr("OK", 0, 1), Ehdr("OK", 0, 7),
              Ehdr("OK", 4, 4), Ehdr("OK", 15, 4), Ehdr("ERR_TYPE", 0, 4)}

================================================================================
