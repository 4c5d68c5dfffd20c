------------------------------ MODULE MCMemoryMap ------------------------------
(***************************************************************************)
(* MemoryMap on a five-page address space: pages of two bytes, addresses   *)
(* up to 9, so that the page at 8 ends one past the last address.          *)
(***************************************************************************)
EXTENDS MemoryMap

Desc(start, pages, type) ==
    [PhysicalStart |-> start, NumberOfPages |-> pages, Type |-> type]

Good ==
    {Desc(s, n, t) : s \in {0, 2, 4, 6}, n \in {1, 2},
                     t \in {"EfiConventionalMemory", "EfiLoaderData"}}
    \ {Desc(6, 2, t) : t \in {"EfiConventionalMemory", "EfiLoaderData"}}
Odd == {Desc(0, 3, "EfiLoaderCode"), Desc(2, 3, "EfiLoaderData"),
        Desc(4, 1, "EfiMemoryMappedIO")}
Bad == {Desc(2, 0, "EfiLoaderData"), Desc(3, 1, "EfiLoaderData"),
        Desc(8, 1, "EfiLoaderData"), Desc(6, 9, "EfiConventionalMemory")}

MCDescriptors == Good \union Odd \union Bad

Seg(b, e) == [page_base |-> b, page_end |-> e]
\* One segment, one of two pages, two with a hole between them and in
\* descending order, two that touch, and none; then plans elf_plan does not
\* make: an unaligned one, an empty one and two segments that overlap.
MCPlans == {<<Seg(2, 4)>>, <<Seg(2, 6)>>, <<Seg(4, 6), Seg(0, 2)>>,
            <<Seg(2, 4), Seg(4, 6)>>, << >>,
            <<Seg(2, 5)>>, <<Seg(2, 2)>>, <<Seg(2, 6), Seg(4, 6)>>}

================================================================================
