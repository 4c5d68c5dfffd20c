----------------------------- MODULE PageAllocator -----------------------------
(***************************************************************************)
(* What a physical page allocator promises its callers (the pmm_* API of   *)
(* kernel/include/kernel.h), with no bitmap, cursor or scan: it manages a  *)
(* pool carved out of the memory it was granted, a page has at most one    *)
(* owner, and an allocation fails only when every page has an owner.       *)
(***************************************************************************)
EXTENDS Integers

VARIABLES
    phase,   \* "off" before initialisation, "on", "halted" after a panic
    grant,   \* the pages the boot map declares usable
    pool,    \* the pages the allocator hands out
    owned,   \* those a caller holds
    out      \* what the last allocation returned, 0 for none

vars == <<phase, grant, pool, owned, out>>

Init ==
    /\ phase = "off"
    /\ pool = {} /\ owned = {} /\ out = 0

Start ==
    /\ phase = "off"
    /\ phase' = "on"
    /\ pool' \in SUBSET (grant \ {0})
    /\ owned' = {}
    /\ UNCHANGED <<grant, out>>

Allocate ==
    /\ phase = "on"
    /\ out' \in pool \ owned
    /\ owned' = owned \union {out'}
    /\ UNCHANGED <<phase, grant, pool>>

Exhaust ==
    /\ phase = "on"
    /\ owned = pool
    /\ out' = 0
    /\ UNCHANGED <<phase, grant, pool, owned>>

Release ==
    /\ phase = "on"
    /\ \E p \in owned : owned' = owned \ {p}
    /\ UNCHANGED <<phase, grant, pool, out>>

Halt ==
    /\ phase' = "halted"
    /\ UNCHANGED <<grant, pool, owned, out>>

Next == Start \/ Allocate \/ Exhaust \/ Release \/ Halt

Spec == Init /\ [][Next]_vars

================================================================================
