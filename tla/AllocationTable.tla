-------------------------- MODULE AllocationTable ---------------------------
(***************************************************************************)
(* Reading the boot record and the allocation table of a volume that is    *)
(* opened (libfsfat_volume.c, libfsfat_file_system.c and                   *)
(* libfsfat_allocation_table.c).  The boot record says where the table is  *)
(* and how many entries it has; the table is read sector by sector into a  *)
(* buffer and decoded from there.  For the FAT formats a reversed table is *)
(* filled along the way, which leads from a cluster back to the one that   *)
(* precedes it in its chain.                                               *)
(*                                                                         *)
(* A byte has two digits of NibbleBase values (16 in the code).            *)
(***************************************************************************)
EXTENDS BootRecord

CONSTANTS
  NibbleBase,
  MaximumNumberOfClusters,
  Volumes                 (* pairs of a boot sector and the bytes of the   *)
                          (* volume from the offset of its table on        *)

ByteBase == NibbleBase * NibbleBase

ASSUME AllocationTableAssumption ==
  /\ NibbleBase \in Nat \ {0, 1}
  /\ MaximumNumberOfClusters \in Nat \ {0}
  /\ \A volume \in Volumes :
       /\ volume.sector \in BootSectors
       /\ \A i \in DOMAIN volume.disk : volume.disk[i] \in 0 .. ByteBase - 1

VARIABLES
  data,                   (* the boot sector                               *)
  disk,
  boot_record,
  table_offset,           (* bytes read                                    *)
  read_size,              (* bytes of the sector in the buffer             *)
  table_data,             (* the buffer, two bytes longer than a sector    *)
  table_data_offset,      (* bytes of the buffer that are decoded          *)
  table_index,            (* the next entry                                *)
  cluster_numbers,
  reversed_cluster_numbers,
  result                  (* "boot_record", "tables", "running", "table"   *)
                          (* or "error"                                    *)

inputs == <<data, disk>>

tables == <<table_offset, read_size, table_data, table_data_offset, table_index,
            cluster_numbers, reversed_cluster_numbers>>

tableVars == <<inputs, boot_record, tables, result>>

NotRead == [format |-> "none"]

TableIdle ==
  /\ boot_record = NotRead
  /\ table_offset = 0
  /\ read_size = 0
  /\ table_data = <<>>
  /\ table_data_offset = 0
  /\ table_index = 0
  /\ cluster_numbers = <<>>
  /\ reversed_cluster_numbers = <<>>

TableInit ==
  /\ \E volume \in Volumes : data = volume.sector /\ disk = volume.disk
  /\ TableIdle
  /\ result = "boot_record"

format == boot_record.format
size == boot_record.allocation_table_size
BytesPerSector == boot_record.bytes_per_sector
NumberOfClusterNumbers == boot_record.total_number_of_clusters

Indexes == 0 .. NumberOfClusterNumbers - 1

GetBootRecord ==
  /\ result = "boot_record"
  /\ ~ Rejected(data)
  /\ boot_record' = ReadBootRecord(data)
  /\ result' = "tables"
  /\ UNCHANGED <<inputs, tables>>

(* The sector cannot be read, or is refused.                               *)
FailBootRecord ==
  /\ result = "boot_record"
  /\ result' = "error"
  /\ UNCHANGED <<inputs, boot_record, tables>>

SizeAllowed ==
  /\ NumberOfClusterNumbers # 0
  /\ NumberOfClusterNumbers <= MaximumNumberOfClusters

(* The table has an entry for each cluster that was counted, and so does   *)
(* the reversed table, which exFAT has none of.                            *)
InitializeTables ==
  /\ result = "tables"
  /\ SizeAllowed
  /\ table_offset' = 0
  /\ read_size' = BytesPerSector
  /\ table_data' = [i \in 0 .. BytesPerSector + 1 |-> 0]
  /\ table_data_offset' = BytesPerSector
  /\ table_index' = 0
  /\ cluster_numbers' = [c \in Indexes |-> 0]
  /\ reversed_cluster_numbers' =
       IF format = "exfat" THEN <<>> ELSE [c \in Indexes |-> 0]
  /\ result' = "running"
  /\ UNCHANGED <<inputs, boot_record>>

FailTables ==
  /\ result = "tables"
  /\ ~ SizeAllowed
  /\ result' = "error"
  /\ UNCHANGED <<inputs, boot_record, tables>>

SectorDecoded ==
  table_data_offset >= read_size \/ table_index >= NumberOfClusterNumbers

(* The bytes behind a short last sector stay what they were.               *)
ReadSector ==
  LET rest  == size - table_offset
      count == IF read_size > rest THEN rest ELSE read_size
  IN
  /\ result = "running"
  /\ SectorDecoded
  /\ table_offset < size
  /\ \A i \in 0 .. count - 1 : table_offset + i \in DOMAIN disk
  /\ read_size' = count
  /\ table_data' = [i \in DOMAIN table_data |->
                      IF i < count THEN disk[table_offset + i] ELSE table_data[i]]
  /\ table_offset' = table_offset + count
  /\ table_data_offset' = 0
  /\ UNCHANGED <<inputs, boot_record, table_index, cluster_numbers,
                 reversed_cluster_numbers, result>>

(* A read fails, as it does at the end of the volume.                     *)
FailRead ==
  /\ result = "running"
  /\ SectorDecoded
  /\ table_offset < size
  /\ result' = "error"
  /\ UNCHANGED <<inputs, boot_record, tables>>

Finish ==
  /\ result = "running"
  /\ SectorDecoded
  /\ table_offset >= size
  /\ result' = "table"
  /\ UNCHANGED <<inputs, boot_record, tables>>

Decoding == result = "running" /\ ~ SectorDecoded

Data(i) == table_data[table_data_offset + i]

(* Mutation: the reversed table leads on, from an entry to its number.     *)
JoinReversedForth(reversed, tested, number, index) ==
  IF format # "exfat" /\ tested < NumberOfClusterNumbers
  THEN [reversed EXCEPT ![index] = number]
  ELSE reversed

(* An entry joins the reversed table when "tested" is a cluster number.    *)
JoinReversed(reversed, tested, number, index) ==
  IF format # "exfat" /\ tested < NumberOfClusterNumbers
  THEN [reversed EXCEPT ![number] = index]
  ELSE reversed

(* Three bytes hold two entries.  The first one is filed under its twelve  *)
(* bits, but tested with all twenty-four.                                  *)
DecodePair ==
  LET both   == Data(0) + ByteBase * Data(1) + ByteBase * ByteBase * Data(2)
      first  == both % (ByteBase * NibbleBase)
      second == both \div (ByteBase * NibbleBase)
      r      == JoinReversed(reversed_cluster_numbers, both, first, table_index)
  IN
  /\ Decoding
  /\ format = "fat12"
  /\ table_data_offset' = table_data_offset + 3
  /\ \/ /\ table_index + 1 < NumberOfClusterNumbers
        /\ cluster_numbers' = [cluster_numbers EXCEPT ![table_index] = first,
                                                      ![table_index + 1] = second]
        /\ reversed_cluster_numbers' = JoinReversed(r, second, second, table_index + 1)
        /\ table_index' = table_index + 2
     \/ /\ table_index + 1 = NumberOfClusterNumbers
        /\ cluster_numbers' = [cluster_numbers EXCEPT ![table_index] = first]
        /\ reversed_cluster_numbers' = r
        /\ table_index' = table_index + 1
  /\ UNCHANGED <<inputs, boot_record, table_offset, read_size, table_data, result>>

EntrySize == IF format = "fat16" THEN 2 ELSE 4

(* Mutation: the entry is put together from its highest byte on.           *)
NumberBigEndian ==
  IF EntrySize = 2
  THEN ByteBase * Data(0) + Data(1)
  ELSE ByteBase * (ByteBase * (ByteBase * Data(0) + Data(1)) + Data(2)) + Data(3)

(* Bytes from the lowest on.                                               *)
Number ==
  IF EntrySize = 2
  THEN Data(0) + ByteBase * Data(1)
  ELSE Data(0) + ByteBase * (Data(1) + ByteBase * (Data(2) + ByteBase * Data(3)))

DecodeOne ==
  /\ Decoding
  /\ format # "fat12"
  /\ cluster_numbers' = [cluster_numbers EXCEPT ![table_index] = Number]
  /\ reversed_cluster_numbers' =
       JoinReversed(reversed_cluster_numbers, Number, Number, table_index)
  /\ table_index' = table_index + 1
  /\ table_data_offset' = table_data_offset + EntrySize
  /\ UNCHANGED <<inputs, boot_record, table_offset, read_size, table_data, result>>

TableNext ==
  \/ GetBootRecord \/ FailBootRecord
  \/ InitializeTables \/ FailTables
  \/ ReadSector \/ FailRead \/ Finish
  \/ DecodePair \/ DecodeOne

(***************************************************************************)
(* Properties.                                                             *)
(***************************************************************************)

(* The digits of a table, and the number that some of them make up.        *)
Digit(i) ==
  IF i % 2 = 0 THEN disk[i \div 2] % NibbleBase ELSE disk[i \div 2] \div NibbleBase

Byte(i) == disk[i]

(* The bytes of the table that an entry has.                               *)
StoredEntry(c) ==
  CASE format = "fat12" ->
         Digit(3 * c) + NibbleBase * (Digit(3 * c + 1) + NibbleBase * Digit(3 * c + 2))
    [] format = "fat16" ->
         Byte(2 * c) + ByteBase * Byte(2 * c + 1)
    [] OTHER ->
         Byte(4 * c) + ByteBase * (Byte(4 * c + 1)
           + ByteBase * (Byte(4 * c + 2) + ByteBase * Byte(4 * c + 3)))

(* Only the lower 28 bits of an entry of FAT-32, seven digits, are used    *)
(* (lines 381-382 of the format documentation).                            *)
Entry(c) ==
  IF format = "fat32"
  THEN StoredEntry(c) % (ByteBase * ByteBase * ByteBase * NibbleBase)
  ELSE StoredEntry(c)

(* The entries that lie in the first "bytes" bytes of the table.           *)
EntriesWithin(bytes) ==
  {c \in Indexes : IF format = "fat12" THEN 3 * c + 3 <= 2 * bytes
                                       ELSE EntrySize * (c + 1) <= bytes}

(* An entry of the array is the entry of the table, however many sectors   *)
(* the table has.  Two exceptions are known: of twelve bits it holds for   *)
(* the first sector, and of FAT-32 for the entries whose upper four bits   *)
(* are not set, since the code keeps all 32 bits (allocation_table.c:415). *)
TableDecoded ==
  result = "table" =>
    \A c \in EntriesWithin(IF format = "fat12" /\ size > BytesPerSector
                           THEN BytesPerSector ELSE size) :
      StoredEntry(c) = Entry(c) => cluster_numbers[c] = Entry(c)

(* The same without the exceptions.                                        *)
EveryEntryDecoded ==
  result = "table" => \A c \in EntriesWithin(size) : cluster_numbers[c] = Entry(c)

(* The reversed table leads back along the table: from a cluster to the    *)
(* last entry that names it, and from no cluster to an entry that does not *)
(* name it.  An entry of twelve bits with an even index may be missing.    *)
ReversedLeadsBack ==
  result = "table" /\ format # "exfat" =>
    \A n \in Indexes :
      LET naming == {c \in Indexes : c < table_index /\ cluster_numbers[c] = n}
      IN  /\ reversed_cluster_numbers[n] # 0 => reversed_cluster_numbers[n] \in naming
          /\ format # "fat12" /\ naming # {} =>
               \A c \in naming : c <= reversed_cluster_numbers[n]

(* The sectors of the root directory, and the clusters as the format       *)
(* documentation counts them (its lines 94 and 98), which leaves the root  *)
(* directory out.                                                          *)
CeilDiv(n, d) == (n + d - 1) \div d

RootSectors == CeilDiv(data.root_entries * EntrySizeInRoot, data.bytes_per_sector)

UsedSectors == data.reserved + data.tables * TableSize(data)

DocumentedClusters ==
  (TotalNumberOfSectors(data) - UsedSectors - RootSectors)
    \div data.sectors_per_cluster_block

RootClusters == CeilDiv(RootSectors, data.sectors_per_cluster_block)

(* A volume whose table is read has its regions inside of it: no number of *)
(* clusters that wrapped gets through, unless the tables alone are close to*)
(* 2^32 sectors.  The number is that of the documentation, or larger by the*)
(* clusters that the root directory takes, so that the format is that of   *)
(* the documentation, too, except as close to a limit as that              *)
(* (libfsfat_boot_record.c:812-828).                                       *)
ClustersCounted ==
  /\ result = "table"
  /\ format # "exfat"
  /\ UsedSectors < Narrow - MaximumNumberOfClusters
  => /\ UsedSectors <= TotalNumberOfSectors(data)
     /\ NumberOfClusterNumbers \in
          DocumentedClusters .. DocumentedClusters + RootClusters
     /\ format # FormatOf(DocumentedClusters) =>
          \E limit \in {Fat12Limit, Fat16Limit} :
            /\ DocumentedClusters < limit
            /\ limit <= DocumentedClusters + RootClusters
=============================================================================
