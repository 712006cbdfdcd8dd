------------------------------ MODULE BootImage ------------------------------
(***************************************************************************)
(* The way of the kernel from its ELF file to its place in memory: the     *)
(* padded blob (KernelImage) is linked into the loader's file, which is    *)
(* put on the disk image (FatImage); the firmware reads the file through   *)
(* the FAT and starts the loader, which copies the blob. Linking and       *)
(* firmware are external.                                                  *)
(***************************************************************************)
EXTENDS FatImage

CONSTANTS
    PAGE, HeaderLists,      \* see KernelImage
    LoaderSizes,            \* bytes of the loader's file before the blob
    SectorBytes             \* bytes_per_sector, a cluster

VARIABLES
    headers, stage, kernelIndex, end, raw, kernelPages, memory, \* KernelImage
    loaderSize              \* where the blob is in the loader's file

K == INSTANCE KernelImage WITH pc <- stage, i <- kernelIndex

ASSUME BootImageAssumption ==
    /\ K!KernelImageConstants
    /\ LoaderSizes \subseteq Nat \ {0}
    /\ SectorBytes \in Nat \ {0}

imageVars == <<geometry, pc, tries, i, fat, data>>
kernelVars == <<headers, stage, kernelIndex, end, raw, kernelPages, memory>>
bootVars == <<imageVars, kernelVars, loaderSize>>

BootInit ==
    /\ Init /\ K!Init
    /\ loaderSize \in LoaderSizes

Blocks(n) == (n + SectorBytes - 1) \div SectorBytes

BuildKernel ==
    /\ K!MakeBlob
    /\ UNCHANGED <<imageVars, loaderSize>>

(* The blob becomes part of the loader (kernel_blob.inc), whose file is    *)
(* the one main reads.                                                     *)
Link ==
    /\ stage = "alloc"
    /\ ReadFile(Blocks(loaderSize + Len(raw)))
    /\ UNCHANGED <<kernelVars, loaderSize>>

BuildImage ==
    /\ MakeImage
    /\ UNCHANGED <<kernelVars, loaderSize>>

(* The block the firmware finds at the k-th cluster of the file.           *)
BlockRead(k) == data[SectorOf(Cluster(fat[1])[k])]

(* The firmware follows the first FAT from the directories and reads the   *)
(* loader's file: from a wrong block it gets other bytes.                  *)
FirmwareLoad ==
    /\ pc = "made"
    /\ raw' = [b \in 1..Len(raw) |->
                  LET k == Blocks(loaderSize + b)
                  IN  IF BlockRead(k) = <<"file", k>> THEN raw[b] ELSE <<"other">>]
    /\ pc' = "booted"
    /\ UNCHANGED <<geometry, tries, i, fat, data, loaderSize>>
    /\ UNCHANGED <<headers, stage, kernelIndex, end, kernelPages, memory>>

RunLoader ==
    /\ pc = "booted"
    /\ K!LoadKernel
    /\ UNCHANGED <<imageVars, loaderSize>>

Ended ==
    /\ pc = "error" \/ stage \in {"error", "loaded"}
    /\ UNCHANGED bootVars

BootNext ==
    \/ BuildKernel \/ Link \/ BuildImage \/ FirmwareLoad \/ RunLoader \/ Ended

BootSpec == BootInit /\ [][BootNext]_bootVars
-----------------------------------------------------------------------------
(* Properties.                                                             *)

(* From the ELF file to the jump: on every image whose sizes settle, a     *)
(* kernel linked at 0 is entered with each byte of each segment at its     *)
(* address, through padding, linking, FAT, firmware and copying, and .bss  *)
(* is zero; no byte is copied behind the pages asked for, and none is      *)
(* asked for in vain (KernelImage).                                        *)
KernelArrives == K!CopiedIntoPages /\ (Settled => K!ImageComplete)

(* The tools refuse only a kernel without memory of its own, and a loader  *)
(* that does not fit the image.                                            *)
RefusedWithReason == K!RefusedOnlyWhenEmpty /\ RefusedOnlyWhenTooLarge
=============================================================================
