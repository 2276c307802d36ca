-------------------------------- MODULE Pmm --------------------------------
(***************************************************************************)
(* The physical page allocator (mm/pmm.c): a bitmap with one bit for each  *)
(* frame of the managed memory, and the count of the frames in use that    *)
(* the statistics report.                                                  *)
(*                                                                         *)
(* An allocator is a record: total is total_frames, used the frames whose  *)
(* bit is set and count the counter used_frames.  Every operator takes an  *)
(* allocator, or a record with at least these fields, and gives the one    *)
(* the C function leaves.  Addresses are counted in units of which a page  *)
(* holds PAGE_SIZE; a frame is named by its number.                        *)
(***************************************************************************)
EXTENDS Integers, FiniteSets, SequencesExt

CONSTANTS PAGE_SIZE, PMM_DIRECT_MAP_END, MIN_FRAMES, NONE

ASSUME PmmAssumption ==
    /\ PAGE_SIZE \in Nat \ {0}
    /\ PMM_DIRECT_MAP_END \in Nat
    /\ MIN_FRAMES \in Nat

align_down_page(a) == a - (a % PAGE_SIZE)

align_up_page(a) == align_down_page(a + PAGE_SIZE - 1)

frame_index(a) == a \div PAGE_SIZE

(***************************************************************************)
(* Marking a range.  Used rounds outwards, free rounds inwards, and both   *)
(* count only the bits that change.                                        *)
(***************************************************************************)
FramesOf(lo, hi, total) ==
    {f \in 0 .. total - 1 : lo <= f * PAGE_SIZE /\ f * PAGE_SIZE < hi}

\* A bug to catch: frames already in use are counted again.
pmm_mark_used_range_again(m, from, to) ==
    LET fs == FramesOf(align_down_page(from), align_up_page(to), m.total)
    IN  IF to <= from THEN m
        ELSE [m EXCEPT !.used = @ \cup fs, !.count = @ + Cardinality(fs)]

pmm_mark_used_range(m, from, to) ==
    LET fs == FramesOf(align_down_page(from), align_up_page(to), m.total)
    IN  IF to <= from THEN m
        ELSE [m EXCEPT !.used = @ \cup fs, !.count = @ + Cardinality(fs \ m.used)]

pmm_mark_free_range(m, from, to) ==
    LET fs == FramesOf(align_up_page(from), align_down_page(to), m.total)
    IN  IF to <= from THEN m
        ELSE [m EXCEPT !.used = @ \ fs, !.count = @ - Cardinality(fs \cap m.used)]

(***************************************************************************)
(* Boot.  map is the Multiboot memory map, a sequence of records with      *)
(* address, length and whether the region is available; reserved is the    *)
(* sequence of the ranges that collect_reserved gathers.                   *)
(***************************************************************************)
Available(map) == SelectSeq(map, LAMBDA r : r.available)

compute_managed_limit(map) ==
    LET low  == {r \in ToSet(Available(map)) : r.address < PMM_DIRECT_MAP_END}
        ends == {Min({r.address + r.length, PMM_DIRECT_MAP_END}) : r \in low}
    IN  align_down_page(Max(ends \cup {0}))

\* add_reserved widens a range to whole pages and leaves an empty one out.
collect_reserved(ranges) ==
    LET kept == SelectSeq(ranges, LAMBDA r : r.from < r.to)
    IN  [i \in DOMAIN kept |->
            [from |-> align_down_page(kept[i].from), to |-> align_up_page(kept[i].to)]]

\* A range in the way moves the candidate past it and restarts the search, so
\* what is found is the lowest start that no range overlaps.
clear_of(from, len, end, reserved) ==
    LET clear == {s \in from .. end - len :
                    \A i \in DOMAIN reserved : ~(s < reserved[i].to /\ reserved[i].from < s + len)}
    IN  IF clear = {} THEN NONE ELSE Min(clear)

find_bitmap_home(map, reserved, managed, len) ==
    LET home(r) == clear_of(align_up_page(r.address), len,
                            Min({align_down_page(r.address + r.length), managed}), reserved)
        fits == SelectSeq(Available(map), LAMBDA r : home(r) # NONE)
    IN  IF fits = <<>> THEN NONE ELSE home(Head(fits))

NoMemory == [total |-> 0, used |-> {}, count |-> 0, home |-> NONE]

\* The bitmap has one bit a frame, eight to a unit, and fills whole pages.
bitmap_len(total) == align_up_page((total + 7) \div 8)

pmm_init(map, ranges) ==
    LET managed == compute_managed_limit(map)
        total   == managed \div PAGE_SIZE
        len     == bitmap_len(total)
        res     == collect_reserved(ranges)
        home    == find_bitmap_home(map, res, managed, len)
        full    == [total |-> total, used |-> 0 .. total - 1, count |-> total, home |-> home]
        freed   == FoldLeft(LAMBDA m, r : pmm_mark_free_range(m, r.address, r.address + r.length),
                            full, Available(map))
        kept    == FoldLeft(LAMBDA m, r : pmm_mark_used_range(m, r.from, r.to), freed, res)
    IN  IF total < MIN_FRAMES \/ home = NONE THEN NoMemory
        ELSE pmm_mark_used_range(kept, home, home + len)

(***************************************************************************)
(* Allocation is first fit: the lowest run of n free frames.  The result   *)
(* of pmm_find is the first frame of the run, or NONE.                     *)
(***************************************************************************)
pmm_find(m, n) ==
    LET runs == {f \in 0 .. m.total - n : (f .. f + n - 1) \cap m.used = {}}
    IN  IF n = 0 \/ runs = {} THEN NONE ELSE Min(runs)

pmm_take(m, f, n) == [m EXCEPT !.used = @ \cup (f .. f + n - 1), !.count = @ + n]

\* A range out of bounds or with a free frame in it is refused whole.
pmm_free_pages(m, f, n) ==
    IF n = 0 \/ f + n > m.total \/ ~((f .. f + n - 1) \subseteq m.used) THEN m
    ELSE [m EXCEPT !.used = @ \ (f .. f + n - 1), !.count = @ - n]

pmm_free_page(m, f) == pmm_free_pages(m, f, 1)
=============================================================================
