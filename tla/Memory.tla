------------------------------- MODULE Memory ------------------------------
(***************************************************************************)
(* Physical frames, the kernel heap and the address spaces of processes    *)
(* together: mm/pmm.c and mm/memory.c (modules Pmm and Heap), mm/vmm.c,    *)
(* syscall/mman.c, the stack growth of hal/isr.c and the part of           *)
(* proc/exec.c that builds an image.                                       *)
(*                                                                         *)
(* m is the machine: the page allocator and the heap, with data, what each *)
(* frame holds as far as a user page in it shows, and lost, the frames     *)
(* that vmm_alloc_range took and could not map (the code forgets them).    *)
(* as[p] is the address space of process p, NONE when there is none: its   *)
(* block in the heap, the frame of its PML4, the frames of the page tables *)
(* below it, and the frame of every page.  A table is named by its level   *)
(* and the pages it covers.  Addresses of the user half count pages.       *)
(* Page permissions and the kernel half, which all address spaces share,   *)
(* are left out: no frame is taken or given back on their account.         *)
(***************************************************************************)
EXTENDS Heap, Functions

CONSTANTS Procs,            \* the processes
          LEVELS,           \* levels of tables below the PML4: 3 on x86-64
          FANOUT,           \* entries of a table: 512 on x86-64
          MMAP_MIN, MMAP_TOP, USER_END, USER_STACK_MAX, USER_STACK_SIZE,
          AS_SIZE,          \* sizeof(address_space_t)
          ARGV_SIZE,        \* the vectors of load_script and build_stack
          MAX_INTERP,       \* nested scripts
          Limits            \* the instances explored: see Init

ASSUME MemoryAssumption ==
    /\ LEVELS \in Nat \ {0} /\ FANOUT \in Nat \ {0, 1}
    /\ 0 < MMAP_MIN /\ MMAP_MIN <= MMAP_TOP
    /\ MMAP_TOP <= USER_END - USER_STACK_MAX
    /\ USER_STACK_SIZE \in 1 .. USER_STACK_MAX

VARIABLES m, as,
          ptrs,             \* blocks that the rest of the kernel holds
          dma,              \* runs of frames that drivers hold
          lim               \* the instance explored

vars == <<m, as, ptrs, dma, lim>>

UserPages == 0 .. USER_END - 1

\* The value of a page that a program or the loader wrote.
DIRTY == 1

(***************************************************************************)
(* Address spaces.                                                         *)
(***************************************************************************)
create(r, f) ==
    IF r.at = NONE THEN [m |-> r.m, as |-> NONE]
    ELSE IF f = NONE THEN [m |-> k_free(r.m, r.at), as |-> NONE]
    ELSE [m  |-> pmm_take(r.m, f, 1),
          as |-> [at |-> r.at, pml4 |-> f, tables |-> <<>>, ptes |-> <<>>,
                  brk_start |-> 0, brk |-> 0, mmap_hint |-> MMAP_TOP]]

create_from(r) == create(r, pmm_find(r.m, 1))

vmm_create_address_space(x) == create_from(k_malloc(x, AS_SIZE))

\* The missing tables on the way to a page, from the top; the ones made
\* before a failure stay.
make_table(r, id, t) ==
    IF ~r.ok \/ id \in DOMAIN r.as.tables THEN r
    ELSE IF t = NONE THEN [r EXCEPT !.ok = FALSE]
    ELSE [r EXCEPT !.m = pmm_take(@, t, 1), !.as.tables = @ @@ (id :> t)]

set_pte(r, v, f) == IF r.ok THEN [r EXCEPT !.as.ptes = (v :> f) @@ @] ELSE r

vmm_map_page(x, a, v, f) ==
    set_pte(FoldLeft(LAMBDA r, l : make_table(r, <<l, v \div FANOUT ^ l>>, pmm_find(r.m, 1)),
                     [m |-> x, as |-> a, ok |-> TRUE],
                     [i \in 1 .. LEVELS |-> LEVELS + 1 - i]), v, f)

vmm_range_is_free(a, lo, hi) == DOMAIN a.ptes \cap (lo .. hi - 1) = {}

\* A frame whose tables cannot be made is not given back.
or_lost(r, f) == IF r.ok THEN r ELSE [r EXCEPT !.m.lost = @ \cup {f}]

\* A bug to catch: a fresh frame is mapped as it is.
alloc_one_dirty(r, v, f) ==
    IF ~r.ok \/ v \in DOMAIN r.as.ptes THEN r
    ELSE IF f = NONE THEN [r EXCEPT !.ok = FALSE]
    ELSE or_lost(vmm_map_page(pmm_take(r.m, f, 1), r.as, v, f), f)

\* One page of vmm_alloc_range: a zeroed frame, unless the page is there.
alloc_one(r, v, f) ==
    IF ~r.ok \/ v \in DOMAIN r.as.ptes THEN r
    ELSE IF f = NONE THEN [r EXCEPT !.ok = FALSE]
    ELSE or_lost(vmm_map_page([pmm_take(r.m, f, 1) EXCEPT !.data[f] = 0], r.as, v, f), f)

vmm_alloc_range(x, a, lo, hi) ==
    FoldLeft(LAMBDA r, v : alloc_one(r, v, pmm_find(r.m, 1)),
             [m |-> x, as |-> a, ok |-> TRUE], [i \in 1 .. hi - lo |-> lo + i - 1])

\* What a free frame holds is not kept track of: it counts as dirty.
free_frames(x, fs) ==
    [FoldSet(LAMBDA f, y : pmm_free_page(y, f), x, fs) EXCEPT
        !.data = [f \in DOMAIN @ |-> IF f \in fs THEN DIRTY ELSE @[f]]]

vmm_free_range(x, a, lo, hi) ==
    LET gone == DOMAIN a.ptes \cap (lo .. hi - 1)
    IN  [m  |-> free_frames(x, {a.ptes[v] : v \in gone}),
         as |-> [a EXCEPT !.ptes = Restrict(@, DOMAIN @ \ gone)]]

\* The pages, then the tables, then the PML4 and the structure.
Owned(a) == Range(a.ptes) \cup Range(a.tables) \cup {a.pml4}

vmm_destroy_address_space(x, a) ==
    IF a = NONE THEN x ELSE k_free(free_frames(x, Owned(a)), a.at)

\* A bug to catch: the copy that could not be mapped is not given back.
copied_leaking(r, f, from) == IF r.ok THEN [r EXCEPT !.m.data[f] = r.m.data[from]] ELSE r

\* The page is copied once it is mapped; a copy not mapped goes back.
copied(r, f, from) ==
    IF r.ok THEN [r EXCEPT !.m.data[f] = r.m.data[from]]
    ELSE [r EXCEPT !.m = pmm_free_page(@, f)]

\* One page of vmm_clone.
clone_one(r, v, from, f) ==
    IF ~r.ok THEN r
    ELSE IF f = NONE THEN [r EXCEPT !.ok = FALSE]
    ELSE copied(vmm_map_page(pmm_take(r.m, f, 1), r.as, v, f), f, from)

clone_done(r) ==
    IF r.ok THEN [m |-> r.m, as |-> r.as]
    ELSE [m |-> vmm_destroy_address_space(r.m, r.as), as |-> NONE]

clone_into(new, src) ==
    IF new.as = NONE THEN new
    ELSE clone_done(FoldLeft(LAMBDA r, v : clone_one(r, v, src.ptes[v], pmm_find(r.m, 1)),
            [m  |-> new.m, ok |-> TRUE,
             as |-> [new.as EXCEPT !.brk_start = src.brk_start, !.brk = src.brk,
                                   !.mmap_hint = src.mmap_hint]],
            SetToSortSeq(DOMAIN src.ptes, <)))

vmm_clone(x, src) == clone_into(vmm_create_address_space(x), src)

vmm_copy_to(x, a, vs, value) ==
    [x EXCEPT !.data = [f \in DOMAIN @ |-> IF f \in {a.ptes[v] : v \in vs} THEN value ELSE @[f]]]

(***************************************************************************)
(* Images.  A file is a script that names its interpreter or a program,    *)
(* whose segments have the pages lo .. hi - 1, of which those below mid    *)
(* come from the file.  ok tells whether the rest of the ELF file passes   *)
(* the loader's tests.                                                     *)
(***************************************************************************)
read_segment(r, s) ==
    IF ~r.ok THEN r
    ELSE [r EXCEPT !.m = vmm_copy_to(@, r.as, s.lo .. s.mid - 1, DIRTY),
                   !.as.brk_start = Max({@, s.hi})]

load_segment(r, s) ==
    IF ~r.ok THEN r ELSE read_segment(vmm_alloc_range(r.m, r.as, s.lo, s.hi), s)

set_break(r, ok) == [r EXCEPT !.ok = @ /\ ok, !.as.brk = r.as.brk_start]

load_elf(x, a, file) ==
    set_break(FoldLeft(load_segment, [m |-> x, as |-> a, ok |-> TRUE], file.segments), file.ok)

\* The strings and the vector v go to the top page; fits tells whether they do.
put_vector(r, v, fits) ==
    IF v.at = NONE THEN [r EXCEPT !.ok = FALSE]
    ELSE [r EXCEPT !.ok = fits,
                   !.m  = k_free(IF fits THEN vmm_copy_to(v.m, r.as, {USER_END - 1}, DIRTY)
                                 ELSE v.m, v.at)]

put_strings(r, fits) ==
    IF ~r.ok THEN r ELSE put_vector(r, k_malloc(r.m, ARGV_SIZE), fits)

build_stack(r, fits) ==
    IF ~r.ok THEN r
    ELSE put_strings(vmm_alloc_range(r.m, r.as, USER_END - USER_STACK_SIZE, USER_END), fits)

\* One script on the way to the program: its text img and the argument vector
\* v of its interpreter are held until the interpreter is loaded.
run_interp(r, img, v) ==
    IF v.at = NONE THEN [r EXCEPT !.m = k_free(v.m, img), !.name = NONE]
    ELSE [m |-> v.m, held |-> <<v.at, img>> \o r.held,
          name |-> lim.files[r.name].interp, depth |-> r.depth + 1]

read_script(r, img) ==
    IF img.at = NONE THEN [r EXCEPT !.name = NONE]
    ELSE IF r.depth >= MAX_INTERP THEN [r EXCEPT !.m = k_free(img.m, img.at), !.name = NONE]
    ELSE run_interp(r, img.at, k_malloc(img.m, ARGV_SIZE))

load_script(r) ==
    IF r.name \in DOMAIN lim.files /\ lim.files[r.name].script
    THEN read_script(r, k_malloc(r.m, lim.files[r.name].length)) ELSE r

loaded(r, img) ==
    IF r.ok THEN [m |-> k_free(r.m, img), as |-> r.as]
    ELSE [m |-> vmm_destroy_address_space(k_free(r.m, img), r.as), as |-> NONE]

fill(new, img, file, fits) ==
    IF new.as = NONE THEN [m |-> k_free(new.m, img), as |-> NONE]
    ELSE loaded(build_stack(load_elf(new.m, new.as, file), fits), img)

read_program(img, file, fits) ==
    IF img.at = NONE THEN [m |-> img.m, as |-> NONE]
    ELSE fill(vmm_create_address_space(img.m), img.at, file, fits)

load_program(r, fits) ==
    IF r.name \in DOMAIN lim.files
    THEN read_program(k_malloc(r.m, lim.files[r.name].length), lim.files[r.name], fits)
    ELSE [m |-> r.m, as |-> NONE]

\* Whatever came of it, the scripts and vectors are freed, the last one first.
load_held(r, fits) == [load_program(r, fits) EXCEPT !.m = FoldLeft(k_free, @, r.held)]

load_image(x, name, fits) ==
    load_held(FoldLeft(LAMBDA r, i : load_script(r),
                       [m |-> x, held |-> <<>>, name |-> name, depth |-> 0],
                       [i \in 1 .. MAX_INTERP + 1 |-> i]), fits)

(***************************************************************************)
(* mman.c.                                                                 *)
(***************************************************************************)
\* The highest free range below the hint and above the start of the heap.
find_free(a, len) ==
    LET fits == {lo \in a.brk_start .. a.mmap_hint - len : vmm_range_is_free(a, lo, lo + len)}
    IN  IF fits = {} THEN NONE ELSE Max(fits)

user_range(addr, len) == len # 0 /\ addr + len <= USER_END

\* All of a range or none of it: what a failure had mapped goes back.
or_none(r, lo, hi) == IF r.ok THEN r ELSE vmm_free_range(r.m, r.as, lo, hi) @@ [ok |-> FALSE]

MapOrNot(r, lo, hi) == or_none(vmm_alloc_range(r.m, r.as, lo, hi), lo, hi)

Step(p, r) ==
    /\ m' = r.m
    /\ as' = [as EXCEPT ![p] = r.as]
    /\ UNCHANGED <<ptrs, dma, lim>>

Runs(p) == as[p] # NONE

grown(r, want) == IF r.ok THEN [r EXCEPT !.as.brk = want] ELSE r

sys_brk(p) ==
    /\ Runs(p)
    /\ \E want \in lim.breaks :
        /\ want >= as[p].brk_start /\ want <= MMAP_TOP
        /\ IF want > as[p].brk
           THEN /\ vmm_range_is_free(as[p], as[p].brk, want)
                /\ Step(p, grown(MapOrNot([m |-> m, as |-> as[p]], as[p].brk, want), want))
           ELSE Step(p, [vmm_free_range(m, as[p], want, as[p].brk) EXCEPT !.as.brk = want])

\* Without MAP_FIXED the search moves the hint, also when the frames run out or
\* when it ends at address 0, which is taken for a failure.
sys_mmap(p) ==
    /\ Runs(p)
    /\ \E len \in lim.lens :
        LET va   == find_free(as[p], len)
            from == [m |-> m, as |-> [as[p] EXCEPT !.mmap_hint = va]]
        IN  /\ va # NONE
            /\ Step(p, IF va = 0 THEN from ELSE MapOrNot(from, va, va + len))

MmapFixed(p) ==
    /\ Runs(p)
    /\ \E va \in lim.fixed, len \in lim.lens, noreplace \in BOOLEAN :
        /\ user_range(va, len) /\ va >= MMAP_MIN
        /\ noreplace => vmm_range_is_free(as[p], va, va + len)
        /\ Step(p, MapOrNot(vmm_free_range(m, as[p], va, va + len), va, va + len))

sys_munmap(p) ==
    /\ Runs(p)
    /\ \E va \in lim.fixed, len \in lim.lens :
        LET hint == IF va + len > as[p].mmap_hint /\ va < MMAP_TOP
                    THEN Min({va + len, MMAP_TOP}) ELSE as[p].mmap_hint
        IN  /\ user_range(va, len)
            /\ Step(p, [vmm_free_range(m, as[p], va, va + len) EXCEPT !.as.mmap_hint = hint])

\* A fault below the stack (isr_handler) or a system call's buffer there
\* (vmm_user_ok).
GrowStack(p) ==
    /\ Runs(p)
    /\ \E v \in USER_END - USER_STACK_MAX .. USER_END - 1 :
        /\ v \notin DOMAIN as[p].ptes
        /\ Step(p, vmm_alloc_range(m, as[p], v, v + 1))

\* The program writes to one of its pages.
Store(p) ==
    /\ Runs(p)
    /\ \E v \in DOMAIN as[p].ptes, value \in lim.values :
        Step(p, [m |-> vmm_copy_to(m, as[p], {v}, value), as |-> as[p]])

(***************************************************************************)
(* Processes.                                                              *)
(***************************************************************************)
\* The first process; created tells whether process_create_user succeeds.
started(r, created) ==
    IF created \/ r.as = NONE THEN r
    ELSE [m |-> vmm_destroy_address_space(r.m, r.as), as |-> NONE]

process_exec(p) ==
    /\ p \in lim.procs
    /\ \A q \in Procs : ~Runs(q)
    /\ \E name \in DOMAIN lim.files, created \in BOOLEAN :
        Step(p, started(load_image(m, name, TRUE), created))

\* The old image stays when there is no new one, and goes when there is.
replaced(r, old) ==
    IF r.as = NONE THEN [m |-> r.m, as |-> old]
    ELSE [m |-> vmm_destroy_address_space(r.m, old), as |-> r.as]

process_execve(p) ==
    /\ Runs(p)
    /\ \E name \in DOMAIN lim.files, fits \in BOOLEAN :
        Step(p, replaced(load_image(m, name, fits), as[p]))

process_fork(p) ==
    /\ Runs(p)
    /\ \E q \in lim.procs : ~Runs(q) /\ Step(q, vmm_clone(m, as[p]))

process_exit(p) ==
    /\ Runs(p)
    /\ Step(p, [m |-> vmm_destroy_address_space(m, as[p]), as |-> NONE])

(***************************************************************************)
(* The rest of the kernel and its drivers.                                 *)
(***************************************************************************)
KernelMalloc ==
    /\ Cardinality(ptrs) < lim.blocks
    /\ \E size \in lim.sizes :
        \E r \in {k_malloc(m, size)} :
            /\ m' = r.m
            /\ ptrs' = ptrs \cup ({r.at} \ {NONE})
    /\ UNCHANGED <<as, dma, lim>>

KernelFree ==
    /\ \E at \in ptrs : m' = k_free(m, at) /\ ptrs' = ptrs \ {at}
    /\ UNCHANGED <<as, dma, lim>>

dma_alloc ==
    /\ \E n \in lim.runs :
        LET f == pmm_find(m, n) IN
        /\ f # NONE
        /\ m' = pmm_take(m, f, n)
        /\ dma' = dma \cup {<<f, n>>}
    /\ UNCHANGED <<as, ptrs, lim>>

dma_free ==
    /\ \E d \in dma : m' = pmm_free_pages(m, d[1], d[2]) /\ dma' = dma \ {d}
    /\ UNCHANGED <<as, ptrs, lim>>

(***************************************************************************)
(* k_memory_init on the memory map of the instance.  Frames hold anything  *)
(* at power-on.                                                            *)
(***************************************************************************)
k_memory_init(map, ranges) ==
    LET pmm == pmm_init(map, ranges)
    IN  k_heap_init([total |-> pmm.total, used |-> pmm.used, count |-> pmm.count,
                     home |-> pmm.home, heap |-> <<>>, lost |-> {},
                     data |-> [f \in 0 .. pmm.total - 1 |-> DIRTY]])

Init ==
    /\ lim \in Limits
    /\ m = k_memory_init(lim.map, lim.ranges)
    /\ as = [p \in Procs |-> NONE]
    /\ ptrs = {}
    /\ dma = {}

Next ==
    \/ \E p \in Procs :
        \/ sys_brk(p) \/ sys_mmap(p) \/ MmapFixed(p) \/ sys_munmap(p)
        \/ GrowStack(p) \/ Store(p)
        \/ process_exec(p) \/ process_execve(p) \/ process_fork(p) \/ process_exit(p)
    \/ KernelMalloc \/ KernelFree \/ dma_alloc \/ dma_free

Spec == Init /\ [][Next]_vars

-----------------------------------------------------------------------------
Spaces == {as[p] : p \in Procs} \ {NONE}

Covers(b) == b.at .. b.at + BLOCK_HEADER_SIZE + b.size - 1

HeapFrames == {frame_index(u) : u \in UNION {Covers(m.heap[i]) : i \in DOMAIN m.heap}}

\* Frames that the memory map does not give whole, that a reserved range
\* touches, or that the bitmap is in.
Withheld ==
    {f \in 0 .. m.total - 1 :
        \/ \A i \in DOMAIN lim.map :
            \/ ~lim.map[i].available
            \/ lim.map[i].address > f * PAGE_SIZE
            \/ lim.map[i].address + lim.map[i].length < (f + 1) * PAGE_SIZE
        \/ \E i \in DOMAIN lim.ranges :
            /\ lim.ranges[i].from < lim.ranges[i].to
            /\ lim.ranges[i].from < (f + 1) * PAGE_SIZE
            /\ f * PAGE_SIZE < lim.ranges[i].to}

BitmapFrames ==
    {f \in 0 .. m.total - 1 :
        m.home <= f * PAGE_SIZE /\ f * PAGE_SIZE < m.home + bitmap_len(m.total)}

\* State has its type, the break and the hint of an address space are inside
\* the part of the user half that is theirs, and the counter that pmm_get_stats
\* reports is the number of bits set in the bitmap.  A program with a segment
\* has nothing mapped below MMAP_MIN; one without has its heap at 0.
TypeOK ==
    /\ m.used \subseteq 0 .. m.total - 1
    /\ m.count = Cardinality(m.used)
    /\ m.data \in [0 .. m.total - 1 -> {0, DIRTY}]
    /\ \A a \in Spaces :
        /\ a.brk_start = 0 \/ MMAP_MIN <= a.brk_start
        /\ DOMAIN a.ptes \subseteq Min({MMAP_MIN, a.brk_start}) .. USER_END - 1
        /\ a.brk_start <= a.brk /\ a.brk <= MMAP_TOP
        /\ a.mmap_hint \in a.brk_start .. MMAP_TOP

\* Nothing is ever mapped below MMAP_MIN (include/kernel/mm/vmm.h: "nothing below:
\* a NULL dereference must fault"; tests/exec.c: "nothing may be mapped at page 0").
\* It does not hold: load_elf accepts a program without a segment to load, whose
\* brk_start stays 0, and sys_brk then maps page 0.
NothingBelowMmapMin ==
    \A a \in Spaces : DOMAIN a.ptes \subseteq MMAP_MIN .. USER_END - 1

\* Every frame in use has exactly one owner: the firmware, kernel and modules,
\* the frame bitmap, the heap, a driver, one PML4, one page table, or one page
\* of one process.  So no frame is handed out twice, none that is mapped is
\* free, and none is forgotten by a failed fork, execve, mmap or brk, except
\* those that vmm_alloc_range loses when a page table cannot be made.
FramesHaveOneOwner ==
    m.total > 0 =>
        LET owned == {Owned(a) : a \in Spaces}
            runs  == {d[1] .. d[1] + d[2] - 1 : d \in dma}
            all   == Withheld \cup BitmapFrames \cup HeapFrames \cup m.lost
                        \cup UNION owned \cup UNION runs
            size(a) == Cardinality(DOMAIN a.ptes) + Cardinality(DOMAIN a.tables) + 1
        IN  /\ m.used = all
            /\ Cardinality(all) = Cardinality(Withheld) + Cardinality(BitmapFrames)
                    + Cardinality(HeapFrames) + Cardinality(m.lost)
                    + MapThenSumSet(size, Spaces) + MapThenSumSet(Cardinality, runs)

\* The blocks of the heap tile its frames in address order, with no gap but at
\* the end of a run of frames and no overlap, and the blocks in use are those
\* that the rest of the kernel or an address space holds: neither split, merge
\* nor a failed execve or fork loses a block or gives one out twice.
HeapIsTiled ==
    /\ \A i \in 1 .. Len(m.heap) - 1 :
        \/ adjacent(m.heap[i], m.heap[i + 1])
        \/ LET end == m.heap[i].at + BLOCK_HEADER_SIZE + m.heap[i].size
           IN  /\ end < m.heap[i + 1].at
               /\ end % PAGE_SIZE = 0 /\ m.heap[i + 1].at % PAGE_SIZE = 0
    /\ m.heap # <<>> =>
        /\ Head(m.heap).at % PAGE_SIZE = 0
        /\ (Last(m.heap).at + BLOCK_HEADER_SIZE + Last(m.heap).size) % PAGE_SIZE = 0
    /\ {b.at : b \in {c \in ToSet(m.heap) : ~c.free}} = ptrs \cup {a.at : a \in Spaces}

(***************************************************************************)
(* What a program sees of its memory, against the promise of UserMemory.   *)
(***************************************************************************)
View(p) ==
    [v \in UserPages |-> IF Runs(p) /\ v \in DOMAIN as[p].ptes THEN m.data[as[p].ptes[v]] ELSE NONE]

Image(file) ==
    LET in(v, lo, hi) == lo <= v /\ v < hi
        segs == ToSet(file.segments)
    IN  [v \in UserPages |->
            IF v = USER_END - 1 \/ \E s \in segs : in(v, s.lo, s.mid) THEN DIRTY
            ELSE IF v >= USER_END - USER_STACK_SIZE \/ \E s \in segs : in(v, s.lo, s.hi) THEN 0
            ELSE NONE]

ProgramImages ==
    LET files == UNION {Range(l.files) : l \in Limits}
    IN  {Image(f) : f \in {g \in files : ~g.script}}

Promise ==
    INSTANCE UserMemory WITH
        Pages <- UserPages, ABSENT <- NONE,
        Images <- ProgramImages,
        memory <- [p \in Procs |-> View(p)]

\* Address spaces implement private memories: a page keeps what its process
\* stored through everything others do, a new page is zero and shows nothing
\* of the frame's last owner, fork copies all or nothing, and execve that
\* fails leaves the old image untouched.
MemoryIsPrivate == Promise!Spec
=============================================================================
