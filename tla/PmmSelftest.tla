------------------------------ MODULE PmmSelftest ------------------------------
(***************************************************************************)
(* kernel/mm/pmm.c: pmm_selftest, as kmain calls it right after pmm_init,  *)
(* on the allocator of Pmm.  The first word of each page is modelled,      *)
(* because the test writes it; a page's pattern is named by the page.      *)
(* Boot starts it from the loader's map.                                   *)
(***************************************************************************)
EXTENDS Pmm

CONSTANT ST_PAGES       \* 512 in the source

VARIABLES
    step,      \* "off", "alloc", "write", "verify", "free", "pass", "fail"
    i,         \* the loop counter
    got,       \* the pages allocated
    before,    \* free_pages when the test began
    word       \* pattern written to the first word of a page, -1 before

tvars == <<step, i, got, before, word>>

\* pmm_init of kmain
Boot == (PmmInit \/ InitPanic) /\ UNCHANGED tvars

Begin ==
    /\ status = "idle" /\ step = "off"
    /\ before' = free_pages
    /\ step' = "alloc" /\ i' = 0
    /\ UNCHANGED <<vars, got, word>>

\* The call of pmm_alloc_page, and the steps inside it.
CallAlloc ==
    /\ step = "alloc" /\ i < ST_PAGES /\ i = Len(got)
    /\ AllocCall
    /\ i' = i + 1
    /\ UNCHANGED <<step, got, before, word>>

InAlloc == (ScanStep \/ ScanExhausted) /\ UNCHANGED tvars

\* got[i] = the result, or "exhausted": the pages got so far stay allocated.
Store ==
    /\ step = "alloc" /\ status = "idle" /\ i = Len(got) + 1
    /\ got' = Append(got, ret)
    /\ IF ret = 0 THEN step' = "fail" /\ UNCHANGED i
       ELSE /\ step' = IF i = ST_PAGES THEN "write" ELSE "alloc"
            /\ i' = IF i = ST_PAGES THEN 0 ELSE i
    /\ UNCHANGED <<vars, before, word>>

\* Write the pattern to page got[i] and compare it with the ones after it.
Write ==
    /\ step = "write"
    /\ word' = [word EXCEPT ![got[i + 1]] = got[i + 1]]
    /\ IF \E j \in (i + 2) .. ST_PAGES : got[j] = got[i + 1]
       THEN step' = "fail" /\ UNCHANGED i
       ELSE /\ step' = IF i + 1 = ST_PAGES THEN "verify" ELSE "write"
            /\ i' = IF i + 1 = ST_PAGES THEN 0 ELSE i + 1
    /\ UNCHANGED <<vars, got, before>>

Verify ==
    /\ step = "verify"
    /\ step' = IF \A j \in 1 .. ST_PAGES : word[got[j]] = got[j]
               THEN "free" ELSE "fail"
    /\ UNCHANGED <<vars, i, got, before, word>>

\* Mutant: the last page is not freed.
FreeAllButOne ==
    /\ step = "free" /\ i < ST_PAGES
    /\ IF i + 1 < ST_PAGES THEN Free(got[i + 1], TRUE) ELSE UNCHANGED vars
    /\ i' = i + 1
    /\ UNCHANGED <<step, got, before, word>>

\* pmm_free_page(got[i]), which may panic.
FreeNext ==
    /\ step = "free"
    /\ i < ST_PAGES
    /\ Free(got[i + 1], TRUE)
    /\ i' = i + 1
    /\ UNCHANGED <<step, got, before, word>>

\* The leak check.
Compare ==
    /\ step = "free" /\ status = "idle" /\ i = ST_PAGES
    /\ step' = IF free_pages = before THEN "pass" ELSE "fail"
    /\ UNCHANGED <<vars, i, got, before, word>>

Selftest ==
    \/ Begin \/ CallAlloc \/ InAlloc \/ Store \/ Write \/ Verify
    \/ FreeNext \/ Compare

--------------------------------------------------------------------------------
(* Properties *)

\* The verdict is right, and a passed test leaves no trace: the test passes
\* on every machine with ST_PAGES allocator pages and then leaves the
\* allocator as it found it but for the cursor; it fails on every other and
\* then has kept every page there was (pmm.c:177).
VerdictRight ==
    /\ step = "pass" =>
         allocator_pages >= ST_PAGES /\ Owned = {} /\ free_pages = allocator_pages
    /\ step = "fail" =>
         allocator_pages < ST_PAGES /\ Owned = Pool /\ free_pages = 0

================================================================================
