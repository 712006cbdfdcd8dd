---------------------------- MODULE KernelImage ----------------------------
(***************************************************************************)
(* How the kernel gets from its ELF file into memory: objcopy (external)   *)
(* writes the file contents of the segments, pad_kernel_raw.py lengthens   *)
(* them to the end of .bss, gen_kernel_blob.py turns the result into an    *)
(* array of the loader, and efi_main copies the array into the pages it    *)
(* asked for. Addresses are those the kernel is linked at. The tools count *)
(* them from 0, and are right for a kernel that is linked there (ld.ld).   *)
(***************************************************************************)
EXTENDS Integers, Sequences, FiniteSetsExt

CONSTANTS
    PAGE,           \* bytes of a page (4096)
    HeaderLists     \* the program headers of the kernels linked:
                    \* [load, vaddr, filesz, memsz]

Header == [load : BOOLEAN, vaddr : Nat, filesz : Nat, memsz : Nat]
Loads(hs) == {hs[n] : n \in {n \in DOMAIN hs : hs[n].load}}
Extent(h) == h.vaddr .. h.vaddr + h.memsz - 1

KernelImageConstants ==
    /\ PAGE \in Nat \ {0}
    /\ \A hs \in HeaderLists :
          /\ hs \in Seq(Header)
          /\ \A n \in DOMAIN hs : hs[n].filesz <= hs[n].memsz
          /\ \A m, n \in DOMAIN hs :
                (m # n /\ hs[m].load /\ hs[n].load) => Extent(hs[m]) \cap Extent(hs[n]) = {}

VARIABLES
    headers,
    pc,
    i,              \* the counter of the loop that runs
    end,            \* max_load_vaddr_plus_memsz so far
    raw,            \* kernel.raw, then kernel_blob
    kernelPages,    \* pages asked for
    memory          \* the bytes from kernelPhys, as far as written

vars == <<headers, pc, i, end, raw, kernelPages, memory>>

(* A byte of the file is named by its address; .bss and gaps are zero.     *)
FileByte(hs, a) ==
    IF \E h \in Loads(hs) : a \in h.vaddr .. h.vaddr + h.filesz - 1
    THEN <<"byte", a>> ELSE <<"zero">>

(* objcopy -O binary: from the lowest segment with contents (Base) to the  *)
(* end of the last contents of a segment.                                  *)
WithContents(hs) == {h \in Loads(hs) : h.filesz > 0}
Base(hs) ==
    IF WithContents(hs) = {} THEN 0 ELSE Min({h.vaddr : h \in WithContents(hs)})
Objcopy(hs) ==
    LET n == Max({Base(hs)} \cup {h.vaddr + h.filesz : h \in WithContents(hs)}) - Base(hs)
    IN  [k \in 1..n |-> FileByte(hs, Base(hs) + k - 1)]

Init ==
    /\ headers \in HeaderLists
    /\ pc = "scan" /\ i = 0 /\ end = 0
    /\ raw = Objcopy(headers)
    /\ kernelPages = 0 /\ memory = << >>

(* Mutant of SegmentEnd: what the file holds of the segment.               *)
SegmentEndFile(h) == h.vaddr + h.filesz
SegmentEnd(h) == h.vaddr + h.memsz

ScanHeader ==
    /\ pc = "scan" /\ i < Len(headers)
    /\ LET h == headers[i + 1] IN
       end' = IF h.load /\ SegmentEnd(h) > end THEN SegmentEnd(h) ELSE end
    /\ i' = i + 1
    /\ UNCHANGED <<headers, pc, raw, kernelPages, memory>>

(* Mutant of TooLong: an image without .bss is refused.                    *)
TooLongOrFull == Len(raw) >= end
TooLong == Len(raw) > end

EndScan ==
    /\ pc = "scan" /\ i = Len(headers)
    /\ pc' = IF end = 0 \/ TooLong THEN "error" ELSE "pad"
    /\ i' = 0
    /\ UNCHANGED <<headers, end, raw, kernelPages, memory>>

Pad ==
    /\ pc = "pad"
    /\ raw' = raw \o [k \in 1..end - Len(raw) |-> <<"zero">>]
    /\ pc' = "alloc"
    /\ UNCHANGED <<headers, i, end, kernelPages, memory>>

(* Mutant of PagesFor: rounded down.                                       *)
PagesForWhole(n) == IF n \div PAGE = 0 THEN 1 ELSE n \div PAGE
PagesFor(n) ==
    LET pages == (n + PAGE - 1) \div PAGE
    IN  IF pages = 0 THEN 1 ELSE pages

AllocKernel ==
    /\ pc = "alloc"
    /\ kernelPages' = PagesFor(Len(raw))
    /\ pc' = "copy"
    /\ UNCHANGED <<headers, i, end, raw, memory>>

CopyByte ==
    /\ pc = "copy" /\ i < Len(raw)
    /\ memory' = Append(memory, raw[i + 1])
    /\ i' = i + 1
    /\ UNCHANGED <<headers, pc, end, raw, kernelPages>>

EndCopy ==
    /\ pc = "copy" /\ i = Len(raw)
    /\ pc' = "loaded"
    /\ UNCHANGED <<headers, i, end, raw, kernelPages, memory>>

MakeBlob == ScanHeader \/ EndScan \/ Pad
LoadKernel == AllocKernel \/ CopyByte \/ EndCopy
-----------------------------------------------------------------------------
(* Properties.                                                             *)

(* A kernel whose contents begin at 0 (ld.ld, line 15) is entered with all *)
(* its memory in place: at each address of a segment is the byte of the    *)
(* file, or zero in .bss, whose variables (g_idt, the tick counters) the   *)
(* kernel takes to be zero at its start.                                   *)
LinkedAtZero(hs) == Base(hs) = 0
ImageComplete ==
    (pc = "loaded" /\ LinkedAtZero(headers)) =>
        \A h \in Loads(headers) : \A a \in Extent(h) :
            /\ a + 1 \in DOMAIN memory
            /\ memory[a + 1] = FileByte(headers, a)

(* No byte is copied behind the pages that were asked for, and no page is  *)
(* asked for in vain (an empty kernel takes one).                          *)
CopiedIntoPages ==
    pc \in {"copy", "loaded"} =>
        /\ Len(raw) <= kernelPages * PAGE
        /\ kernelPages > 1 => Len(raw) > (kernelPages - 1) * PAGE

(* The tools refuse only a kernel without memory of its own.               *)
RefusedOnlyWhenEmpty ==
    pc = "error" => \A h \in Loads(headers) : h.vaddr + h.memsz = 0
=============================================================================
