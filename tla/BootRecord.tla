----------------------------- MODULE BootRecord ------------------------------
(***************************************************************************)
(* Decoding a boot record (libfsfat_boot_record.c): the format of the file *)
(* system and where its regions lie.  The fields of the sector are the     *)
(* values of a record; the arithmetic on them wraps like that of the code, *)
(* at Narrow (2^32) and at Wide (2^64).                                    *)
(***************************************************************************)
EXTENDS Integers

CONSTANTS
  Narrow,
  Wide,
  SectorSizes,            (* bytes per sector the formats allow            *)
  MaximumClusterExponent, (* of the sectors of a cluster block             *)
  Fat12Limit,             (* clusters from which a volume is FAT-16        *)
  Fat16Limit,             (* clusters from which a volume is FAT-32        *)
  EntrySizeInRoot         (* bytes of a directory entry                    *)

ClusterSizes == {1, 2, 4, 8, 16, 32, 64, 128}

ASSUME BootRecordAssumption ==
  /\ Narrow \in Nat \ {0}
  /\ Wide \in Nat \ {0}
  /\ \A n \in ClusterSizes : Wide % (Narrow * n) = 0
  /\ SectorSizes \subseteq Nat \ {0}
  /\ \A bytes \in SectorSizes : bytes % 4 = 0
  /\ MaximumClusterExponent \in Nat
  /\ Fat12Limit \in Nat
  /\ Fat16Limit \in Nat
  /\ EntrySizeInRoot \in Nat

Numbers == 0 .. Narrow - 1

(* The fields of the sector: "sectors_16bit" and "sectors_32bit" are two   *)
(* places for one number, as are the two for the size of a table.          *)
BootSectors ==
  [signature : BOOLEAN, exfat : BOOLEAN, bytes_per_sector : Numbers,
   sectors_per_cluster_block : Numbers, reserved : Numbers, tables : Numbers,
   root_entries : Numbers, sectors_16bit : Numbers, sectors_32bit : Numbers,
   table_16bit : Numbers, table_32bit : Numbers, root_cluster : Numbers,
   table_offset : Numbers, first_cluster_offset : Numbers, clusters : Numbers]

Exponents == {n \in 0 .. MaximumClusterExponent : 2 ^ n \in SectorSizes}

(* What libfsfat_boot_record_read_data refuses.                            *)
Rejected(data) ==
  \/ ~ data.signature
  \/ /\ data.exfat
     /\ \/ data.bytes_per_sector \notin Exponents
        \/ data.sectors_per_cluster_block > MaximumClusterExponent
  \/ /\ ~ data.exfat
     /\ \/ data.bytes_per_sector \notin SectorSizes
        \/ data.sectors_per_cluster_block \notin ClusterSizes

(* The number of 32 bits wins over that of 16 bits.                        *)
TotalNumberOfSectors(data) ==
  IF data.sectors_32bit # 0 THEN data.sectors_32bit ELSE data.sectors_16bit

(* The fields of FAT-32 are read from the sector whatever the number of    *)
(* clusters says about the format.                                         *)
HasFat32Fields(data) ==
  data.root_entries = 0 /\ data.sectors_16bit = 0 /\ data.table_16bit = 0

TableSize(data) ==
  IF HasFat32Fields(data) THEN data.table_32bit ELSE data.table_16bit

RootDirectoryCluster(data) ==
  IF HasFat32Fields(data) THEN data.root_cluster ELSE 0

(* Mutation: the reserved sectors are counted as data.                     *)
ClustersUnreserved(data) ==
  ((TotalNumberOfSectors(data) - ((data.tables * TableSize(data)) % Narrow)) % Wide)
    \div data.sectors_per_cluster_block

(* The tables are multiplied with 32 bits and subtracted with 64.  The     *)
(* sectors of the root directory are not subtracted.                       *)
Clusters(data) ==
  ((TotalNumberOfSectors(data) - data.reserved
     - ((data.tables * TableSize(data)) % Narrow)) % Wide)
    \div data.sectors_per_cluster_block

FormatOf(clusters) ==
  IF clusters < Fat12Limit THEN "fat12"
  ELSE IF clusters < Fat16Limit THEN "fat16"
  ELSE "fat32"

FatBootRecord(data) ==
  LET bytes      == data.bytes_per_sector
      used       == data.reserved + data.tables * TableSize(data)
      root_bytes == data.root_entries * EntrySizeInRoot
      has_range  == RootDirectoryCluster(data) = 0
  IN
  [format                   |-> FormatOf(Clusters(data)),
   bytes_per_sector         |-> bytes,
   cluster_block_size       |-> data.sectors_per_cluster_block * bytes,
   total_number_of_clusters |-> Clusters(data) % Narrow,
   allocation_table_offset  |-> data.reserved * bytes,
   allocation_table_size    |-> TableSize(data) * bytes,
   first_cluster_offset     |-> used * bytes + IF has_range THEN root_bytes ELSE 0,
   root_directory_offset    |-> IF has_range THEN used * bytes ELSE 0,
   root_directory_size      |-> IF has_range THEN root_bytes ELSE 0,
   root_directory_cluster   |-> RootDirectoryCluster(data)]

ExfatBootRecord(data) ==
  LET bytes == 2 ^ data.bytes_per_sector
  IN
  [format                   |-> "exfat",
   bytes_per_sector         |-> bytes,
   cluster_block_size       |-> 2 ^ data.sectors_per_cluster_block * bytes,
   total_number_of_clusters |-> data.clusters,
   allocation_table_offset  |-> data.table_offset * bytes,
   allocation_table_size    |-> data.table_32bit * bytes,
   first_cluster_offset     |-> data.first_cluster_offset * bytes,
   root_directory_offset    |-> 0,
   root_directory_size      |-> 0,
   root_directory_cluster   |-> data.root_cluster]

ReadBootRecord(data) ==
  IF data.exfat THEN ExfatBootRecord(data) ELSE FatBootRecord(data)
=============================================================================
