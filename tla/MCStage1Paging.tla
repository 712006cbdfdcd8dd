--------------------------- MODULE MCStage1Paging ---------------------------
(***************************************************************************)
(* Stage 1 on a small machine: tables of 4 entries, 64 pages of physical   *)
(* addresses of which 1..40 are RAM, the APIC at page 60. The boot records *)
(* are those of a firmware that places kernel, stack and memory-map buffer *)
(* in several ways, with a buffer large enough for all tables or not, and  *)
(* that reports the descriptors in ascending order or the buffer's last.   *)
(***************************************************************************)
EXTENDS Stage1Paging, SequencesExt

MCFrames == 0..63

RECURSIVE GapEnd(_, _)
GapEnd(free, p) == IF p \in free THEN GapEnd(free, p + 1) ELSE p

(* A memory map: conventional descriptors for the gaps of free, in order,  *)
(* then or first the three allocations. Adjacent loader-data descriptors   *)
(* are merged, as firmware does.                                           *)
Describe(kernel, kPages, stack, mmap, size, free, bufferFirst) ==
    LET starts == SetToSortSeq({p \in free : p - 1 \notin free}, LAMBDA a, b : a < b)
        gaps == [n \in DOMAIN starts |->
                    [type |-> Conventional, start |-> starts[n],
                     pages |-> GapEnd(free, starts[n]) - starts[n]]]
        code_ == << [type |-> "loader code", start |-> kernel, pages |-> kPages] >>
        data == IF mmap + size = stack
                THEN << [type |-> LoaderData, start |-> mmap,
                         pages |-> size + STACK_PAGES] >>
                ELSE << [type |-> LoaderData, start |-> stack, pages |-> STACK_PAGES],
                        [type |-> LoaderData, start |-> mmap, pages |-> size] >>
    IN  IF bufferFirst THEN data \o code_ \o gaps ELSE gaps \o code_ \o data

Record(kernel, kPages, stack, mmap, used, size, free, bufferFirst) ==
    [kernelPhys |-> kernel, kernelPages |-> kPages, stackPhys |-> stack,
     mmapPhys |-> mmap, mmapPages |-> used,
     descs |-> Describe(kernel, kPages, stack, mmap, size, free, bufferFirst)]

(* Free pages below top, outside the allocations and the firmware's pages. *)
Free(kernel, kPages, stack, mmap, size, low, top) ==
    (low..top) \ (Pages(kernel, kPages) \cup Pages(stack, STACK_PAGES)
                  \cup Pages(mmap, size) \cup {5})

Apart(kernel, kPages, stack, mmap, size) ==
    /\ Pages(kernel, kPages) \cap Pages(stack, STACK_PAGES) = {}
    /\ Pages(kernel, kPages) \cap Pages(mmap, size) = {}
    /\ Pages(stack, STACK_PAGES) \cap Pages(mmap, size) = {}

(* A buffer that holds every table: the scan may or may not find it.       *)
AmpleBoots ==
    {Record(c[1], 2, c[2], c[3], 2, 24, Free(c[1], 2, c[2], c[3], 24, 1, 40), c[4]) :
        c \in {x \in {1, 4, 34} \X {7, 32, 38} \X {8, 10} \X BOOLEAN :
                  Apart(x[1], 2, x[2], x[3], 24)}}

(* A buffer too small for the tables: the rest is conventional memory,     *)
(* which may run out too.                                                  *)
TightBoots ==
    {Record(c[1], 2, c[2], c[3], 1, c[4], Free(c[1], 2, c[2], c[3], c[4], 1, c[5]), TRUE) :
        c \in {x \in {4, 14, 36} \X {2, 12, 18} \X {9, 15} \X {3, 5} \X {4, 22, 40} :
                  Apart(x[1], 2, x[2], x[3], x[4])}}

(* The descriptor of the buffer is never scanned (too many ranges before   *)
(* it); the kernel or the stack lies right behind the buffer, or behind    *)
(* conventional pages that are then both in the pool and in a range.       *)
UnseenBoots ==
    {Record(c[1], 2, c[2], 15, 1, 3, Free(c[1], 2, c[2], 15, 3, c[3], 40), FALSE) :
        c \in {<<18, 30, 1>>, <<30, 18, 1>>, <<18, 20, 1>>, <<20, 18, 1>>,
               <<20, 30, 7>>, <<30, 21, 7>>}}

(* Firmware that reports no descriptor.                                    *)
NoMap == {[kernelPhys |-> 2, kernelPages |-> 2, stackPhys |-> 6,
           mmapPhys |-> 10, mmapPages |-> 0, descs |-> << >>]}

MCBoots == AmpleBoots \cup TightBoots \cup UnseenBoots \cup NoMap
=============================================================================
