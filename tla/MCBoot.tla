--------------------------------- MODULE MCBoot ---------------------------------
(***************************************************************************)
(* Boot on a machine of twenty-one pages, eight of them below 1 MiB.       *)
(***************************************************************************)
EXTENDS Boot

\* The loader's image lies low; the firmware uses one page above.
MCInitialType ==
    [p \in Page |-> CASE p < LowPages -> "loader" [] p = LowPages -> "bootservices"
                      [] OTHER -> "conventional"]

\* Out of address order, with free pages between and after them.  The case
\* of MCPmmTail needs usable memory to end at page sixteen, and cannot occur.
MCSegments == <<{15}, {11}>>

================================================================================
