------------------------------ MODULE FatImage ------------------------------
(***************************************************************************)
(* The disk image the firmware boots from, as made by                      *)
(* src-os/uefi/make_fat16_image.py: the number of FAT sectors is found by  *)
(* iteration, the clusters of the loader's file are chained in both FATs,  *)
(* and the directories and the file are written into the data sectors. A   *)
(* step is an iteration of a loop. Names, the boot sector and the bytes of *)
(* a sector are left out: a sector holds a directory entry or a block of   *)
(* the file.                                                               *)
(***************************************************************************)
EXTENDS Integers, Sequences

CONSTANTS
    Totals,         \* values of total_sectors (32768 in the code)
    EntriesPerSector,   \* FAT entries of a sector (256)
    RootSectors,    \* root_dir_sectors (4)
    ClusterLimit    \* first cluster number that is not allowed (0xFFF0)

ASSUME FatAssumption ==
    /\ Totals \subseteq Nat
    /\ EntriesPerSector \in Nat /\ EntriesPerSector > 1
    /\ {RootSectors, ClusterLimit} \subseteq Nat

Reserved == 1       \* reserved_sectors
Fats == 2           \* fat_count
EfiDir == 2         \* efi_dir_clus
BootDir == 3        \* boot_dir_clus
FirstCluster == 4   \* file_first_clus
EOC == -1           \* 0xFFFF

VARIABLES
    total, file,            \* the parameters: sectors, clusters of the file
    pc, tries, i,           \* where main is, iterations done
    fatSectors, clusterCount,
    fat,                    \* fat1 and fat2
    data                    \* what each data sector holds

geometry == <<total, file, fatSectors, clusterCount>>
vars == <<geometry, pc, tries, i, fat, data>>

DataSectors(f) == total - Reserved - RootSectors - Fats * f
Needed == IF file = 0 THEN 1 ELSE file      \* file_clusters_needed

Zeroes(n) == [k \in 1..n |-> 0]
Empty == <<"zero", 0>>

Init ==
    /\ total \in Totals /\ file = 0
    /\ pc = "read" /\ tries = 0 /\ i = 0
    /\ fatSectors = 1 /\ clusterCount = 0
    /\ fat = << << >>, << >> >> /\ data = << >>

(* main reads the loader's file (efi_data): n clusters are begun.          *)
ReadFile(n) ==
    /\ pc = "read"
    /\ file' = n
    /\ pc' = "size"
    /\ UNCHANGED <<total, fatSectors, clusterCount, tries, i, fat, data>>

(* Mutant of FatFor: the two reserved entries are forgotten.               *)
FatForClusters(n) == (n + EntriesPerSector - 1) \div EntriesPerSector

(* Sectors of a FAT for n clusters: clusters are numbered from 2.          *)
FatFor(n) == (n + 2 + EntriesPerSector - 1) \div EntriesPerSector

SizeFat ==
    /\ pc = "size"
    /\ clusterCount' = DataSectors(fatSectors)
    /\ fatSectors' = FatFor(clusterCount')
    /\ tries' = tries + 1
    /\ pc' = IF fatSectors' = fatSectors \/ tries' = 20 THEN "check" ELSE "size"
    /\ UNCHANGED <<total, file, i, fat, data>>

CannotBeMade ==
    \/ clusterCount < 10
    \/ DataSectors(fatSectors) < 1
    \/ FirstCluster + Needed >= ClusterLimit

(* One of the checks raises an error, or the image is begun: both FATs,    *)
(* with the entries of the directories (entries 0 and 1, which no file     *)
(* uses, are left 0), and no data.                                         *)
Refuse ==
    /\ pc = "check" /\ CannotBeMade
    /\ pc' = "error"
    /\ UNCHANGED <<geometry, tries, i, fat, data>>

(* An entry is set by assigning a slice: behind the end it is appended.    *)
SetEntry(t, cluster, value) ==
    IF cluster < Len(t) THEN [t EXCEPT ![cluster + 1] = value] ELSE Append(t, value)

(* An entry is set in both FATs.                                           *)
SetBoth(t, cluster, value) == [n \in 1..Fats |-> SetEntry(t[n], cluster, value)]

BeginImage ==
    /\ pc = "check" /\ ~CannotBeMade
    /\ fat' = SetBoth(SetBoth([n \in 1..Fats |->
                    Zeroes(fatSectors * EntriesPerSector)], EfiDir, EOC), BootDir, EOC)
    /\ data' = [k \in 1..DataSectors(fatSectors) |-> Empty]
    /\ pc' = "chain"
    /\ UNCHANGED <<geometry, tries, i>>

Chain ==
    /\ pc = "chain"
    /\ LET cluster == FirstCluster + i IN
       fat' = SetBoth(fat, cluster, IF i + 1 = Needed THEN EOC ELSE cluster + 1)
    /\ i' = IF i + 1 = Needed THEN 0 ELSE i + 1
    /\ pc' = IF i + 1 = Needed THEN "directories" ELSE "chain"
    /\ UNCHANGED <<geometry, tries, data>>

(* Mutant of SectorOf: clusters counted from 0.                            *)
SectorOfZero(cluster) == cluster + 1
SectorOf(cluster) == cluster - 2 + 1

WriteDirectories ==
    /\ pc = "directories"
    /\ data' = [data EXCEPT ![SectorOf(EfiDir)] = <<"dir", BootDir>>,
                            ![SectorOf(BootDir)] = <<"dir", FirstCluster>>]
    /\ pc' = "file"
    /\ UNCHANGED <<geometry, tries, i, fat>>

(* write_cluster asserts that the sector exists.                           *)
WriteFile ==
    /\ pc = "file"
    /\ LET sector == SectorOf(FirstCluster + i) IN
       \/ /\ sector \in DOMAIN data
          /\ data' = [data EXCEPT ![sector] = <<"file", i + 1>>]
          /\ i' = i + 1
          /\ pc' = IF i + 1 = Needed THEN "made" ELSE "file"
       \/ /\ sector \notin DOMAIN data
          /\ pc' = "error"
          /\ UNCHANGED <<i, data>>
    /\ UNCHANGED <<geometry, tries, fat>>

MakeImage ==
    \/ SizeFat \/ Refuse \/ BeginImage \/ Chain \/ WriteDirectories \/ WriteFile
-----------------------------------------------------------------------------
(* Properties.                                                             *)

(* What the firmware finds when it follows the file through one FAT: the   *)
(* cluster of each block.                                                  *)
Cluster(t) ==
    LET at[k \in 1..Needed] == IF k = 1 THEN FirstCluster ELSE t[at[k - 1] + 1]
    IN  at

(* An image that is made can be read: following the directories and either *)
(* FAT leads to every block of the file in order and then to its end, and  *)
(* no FAT has grown (which would shift the data behind it).                *)
Readable ==
    pc = "made" =>
        /\ data[SectorOf(EfiDir)] = <<"dir", BootDir>>
        /\ data[SectorOf(BootDir)] = <<"dir", FirstCluster>>
        /\ \A n \in 1..Fats :
              /\ Len(fat[n]) = fatSectors * EntriesPerSector
              /\ \A k \in 1..Needed :
                    data[Cluster(fat[n])[k] - 1] = <<"file", k>>
              /\ fat[n][Cluster(fat[n])[Needed] + 1] = EOC

(* The two sizes depend on each other, and for some totals the iteration   *)
(* alternates between two sizes until its limit. When it settles, and it   *)
(* does for the code's total, each data sector has an entry, and the image *)
(* can be read however much of it the file fills.                          *)
Settled == tries < 20
FatCoversData ==
    (Settled /\ pc \notin {"read", "size", "check", "error"}) =>
        DataSectors(fatSectors) + 2 <= fatSectors * EntriesPerSector
ReadableWhenSettled == Settled => Readable

(* A file is refused only when it does not fit: an error means fewer than  *)
(* ten clusters, a cluster number too high or more clusters than sectors.  *)
RefusedOnlyWhenTooLarge ==
    pc = "error" => CannotBeMade \/ Needed + 2 > DataSectors(fatSectors)
=============================================================================
