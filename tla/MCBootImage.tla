----------------------------- MODULE MCBootImage -----------------------------
(* Kernels of one or two segments in any order, with gaps, with and        *)
(* without .bss, some not loaded, some linked above 0, where objcopy's     *)
(* image starts with the first contents; loaders from one block to more    *)
(* than the image holds; every image of 14 to 60 sectors, with FAT sectors *)
(* of eight entries and blocks of two bytes; pages of four bytes.          *)
EXTENDS BootImage

Seg(v, f, m) == [load |-> TRUE, vaddr |-> v, filesz |-> f, memsz |-> m]
MCNotLoaded == [load |-> FALSE, vaddr |-> 5, filesz |-> 0, memsz |-> 4]
MCSegments == {Seg(0, 0, 0), Seg(0, 2, 2), Seg(0, 3, 4), Seg(5, 0, 3), Seg(5, 2, 4)}
MCHeaderLists ==
    {<< >>} \cup {<<h>> : h \in MCSegments \cup {MCNotLoaded}}
    \cup {<<Seg(0, 2, 2), g>> : g \in {Seg(5, 0, 3), Seg(5, 2, 4), MCNotLoaded}}
    \cup {<<g, Seg(0, 3, 4)>> : g \in {Seg(5, 0, 3), Seg(5, 2, 4), MCNotLoaded}}

MCTotals == 14..60
MCLoaderSizes == {1, 2, 12, 13, 29, 30, 48, 63, 70}
=============================================================================
