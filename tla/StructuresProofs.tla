--------------------------- MODULE StructuresProofs --------------------------
(***************************************************************************)
(* Proofs about what a volume stores, for every boot sector, every size of *)
(* a sector and every table, for every date and for every name.            *)
(***************************************************************************)
EXTENDS Structures, FiniteSetTheorems, WellFoundedInduction, TLAPS

-----------------------------------------------------------------------------
(***************************************************************************)
(* Numbers.                                                                *)
(***************************************************************************)

LEMMA DivBounds ==
  ASSUME NEW a \in Int, NEW b \in Nat \ {0}
  PROVE  /\ a \div b \in Int
         /\ (a \div b) * b <= a /\ a < (a \div b) * b + b
         /\ a >= 0 => a \div b \in Nat
OBVIOUS

LEMMA DivUnique ==
  ASSUME NEW a \in Int, NEW b \in Nat \ {0}, NEW q \in Int, q * b <= a, a < q * b + b
  PROVE  a \div b = q /\ a % b = a - q * b
OBVIOUS

LEMMA ModBounds ==
  ASSUME NEW a \in Int, NEW b \in Nat \ {0}
  PROVE  /\ a % b \in 0 .. b - 1
         /\ a = (a \div b) * b + (a % b)
OBVIOUS

LEMMA Products ==
  ASSUME NEW a \in Nat, NEW b \in Nat
  PROVE  a * b \in Nat
OBVIOUS

LEMMA ProductsGrow ==
  ASSUME NEW a \in Int, NEW b \in Int, NEW n \in Nat, a <= b
  PROVE  a * n <= b * n
OBVIOUS

(* The two digits of a byte.                                               *)
LEMMA Digits ==
  ASSUME NEW byte \in 0 .. ByteBase - 1
  PROVE  /\ byte % NibbleBase \in 0 .. NibbleBase - 1
         /\ byte \div NibbleBase \in 0 .. NibbleBase - 1
         /\ byte = (byte % NibbleBase) + NibbleBase * (byte \div NibbleBase)
<1>1. NibbleBase \in Nat \ {0} /\ ByteBase = NibbleBase * NibbleBase
  BY AllocationTableAssumption DEF ByteBase
<1>2. byte \in Nat /\ byte < NibbleBase * NibbleBase
  BY <1>1
<1>3. /\ byte % NibbleBase \in 0 .. NibbleBase - 1
      /\ byte = (byte \div NibbleBase) * NibbleBase + (byte % NibbleBase)
      /\ byte \div NibbleBase \in Nat
  <2>1. byte \in Int /\ byte >= 0 /\ NibbleBase \in Nat \ {0}
    BY <1>1, <1>2
  <2>2. byte \div NibbleBase \in Nat
    BY <2>1, DivBounds
  <2>3. /\ byte % NibbleBase \in 0 .. NibbleBase - 1
        /\ byte = (byte \div NibbleBase) * NibbleBase + (byte % NibbleBase)
    BY <2>1, ModBounds
  <2> QED
    BY <2>2, <2>3
<1> DEFINE high == byte \div NibbleBase
<1>4. ASSUME high >= NibbleBase PROVE FALSE
  <2>1. high \in Nat /\ high * NibbleBase <= byte
    BY <1>1, <1>2, <1>3
  <2> HIDE DEF high
  <2>2. NibbleBase * NibbleBase <= high * NibbleBase
    BY <1>1, <1>4, <2>1, ProductsGrow
  <2> QED
    BY <1>1, <1>2, <2>1, <2>2
<1> HIDE DEF high
<1>5. high \in 0 .. NibbleBase - 1
  BY <1>1, <1>3, <1>4 DEF high
<1> QED
  BY <1>1, <1>3, <1>5 DEF high

(* Three bytes hold two numbers of three digits.                           *)
LEMMA TwoOfThreeDigits ==
  ASSUME NEW d0 \in 0 .. ByteBase - 1, NEW d1 \in 0 .. ByteBase - 1,
         NEW d2 \in 0 .. ByteBase - 1,
         NEW both, both = d0 + ByteBase * d1 + ByteBase * ByteBase * d2
  PROVE  /\ both \in Nat
         /\ both % (ByteBase * NibbleBase) \in 0 .. both
         /\ both \div (ByteBase * NibbleBase) \in Nat
         /\ both % (ByteBase * NibbleBase)
              = (d0 % NibbleBase) + NibbleBase * (d0 \div NibbleBase
                                    + NibbleBase * (d1 % NibbleBase))
         /\ both \div (ByteBase * NibbleBase)
              = d1 \div NibbleBase + NibbleBase * ((d2 % NibbleBase)
                                       + NibbleBase * (d2 \div NibbleBase))
<1> DEFINE N == NibbleBase
           l0 == d0 % NibbleBase
           h0 == d0 \div NibbleBase
           l1 == d1 % NibbleBase
           h1 == d1 \div NibbleBase
           l2 == d2 % NibbleBase
           h2 == d2 \div NibbleBase
           M  == ByteBase * NibbleBase
           first == l0 + N * (h0 + N * l1)
           second == h1 + N * (l2 + N * h2)
<1>1. N \in Nat /\ N >= 2 /\ ByteBase = N * N /\ M = N * N * N
  BY AllocationTableAssumption DEF ByteBase
<1>2. /\ l0 \in 0 .. N - 1 /\ h0 \in 0 .. N - 1 /\ d0 = l0 + N * h0
      /\ l1 \in 0 .. N - 1 /\ h1 \in 0 .. N - 1 /\ d1 = l1 + N * h1
      /\ l2 \in 0 .. N - 1 /\ h2 \in 0 .. N - 1 /\ d2 = l2 + N * h2
  BY Digits
<1> HIDE DEF N, l0, h0, l1, h1, l2, h2, M
<1>3. both = first + second * M
  <2>1. both = l0 + N * h0 + N * N * (l1 + N * h1) + (N * N) * (N * N) * (l2 + N * h2)
    BY <1>1, <1>2
  <2> QED
    BY <1>1, <1>2, <2>1
<1>4. first \in Nat /\ second \in Nat /\ M \in Nat
  <2>1. N * l1 \in Nat /\ N * h2 \in Nat /\ N * N \in Nat
    BY <1>1, <1>2, Products
  <2>2. N * (h0 + N * l1) \in Nat /\ N * (l2 + N * h2) \in Nat /\ N * N * N \in Nat
    BY <1>1, <1>2, <2>1, Products
  <2> QED
    BY <1>1, <1>2, <2>2
<1>5. first < M
  <2>1. l1 * N <= (N - 1) * N
    BY <1>1, <1>2, ProductsGrow
  <2>2. h0 + N * l1 <= N * N - 1
    BY <1>1, <1>2, <2>1
  <2>3. h0 + N * l1 \in Int /\ N * N - 1 \in Int
    BY <1>1, <1>2
  <2>4. (h0 + N * l1) * N <= (N * N - 1) * N
    BY <1>1, <2>2, <2>3, ProductsGrow
  <2>5. first <= N - 1 + (N * N - 1) * N
    BY <1>1, <1>2, <2>4
  <2> QED
    BY <1>1, <1>2, <2>5
<1> HIDE DEF first, second
<1>6. both \in Nat /\ first <= both
  <2>1. second * M \in Nat
    BY <1>4, Products
  <2> QED
    BY <1>3, <1>4, <2>1
<1>7. both \div M = second /\ both % M = first
  <2>1. M \in Nat \ {0} /\ second * M <= both /\ both < second * M + M
    BY <1>3, <1>4, <1>5
  <2>2. both \div M = second /\ both % M = both - second * M
    <3>1. both \in Int /\ second \in Int
      BY <1>4, <1>6
    <3> QED
      BY <2>1, <3>1, DivUnique
  <2> DEFINE product == second * M
  <2>3. product \in Int /\ both = first + product /\ both % M = both - product
    BY <1>3, <1>4, <2>2
  <2> HIDE DEF product
  <2>4. both % M = first
    BY <1>4, <2>3
  <2> QED
    BY <2>2, <2>4
<1> QED
  BY <1>4, <1>6, <1>7 DEF M, first, second, N, l0, h0, l1, h1, l2, h2

-----------------------------------------------------------------------------
(***************************************************************************)
(* The invariant about the tables.                                         *)
(***************************************************************************)

Opened == result \in {"tables", "running", "table"}

Filling == result \in {"running", "table"}

(* Only a sector that is not refused is decoded.                           *)
BootRecordRead ==
  /\ result = "boot_record" \/ Opened =>
       /\ data \in BootSectors
       /\ \A i \in DOMAIN disk : disk[i] \in 0 .. ByteBase - 1
  /\ Opened => ~ Rejected(data) /\ boot_record = ReadBootRecord(data)

(* An entry for each cluster.                                              *)
TablesSized ==
  Filling =>
    /\ SizeAllowed
    /\ cluster_numbers \in [Indexes -> Nat]
    /\ table_index \in 0 .. NumberOfClusterNumbers
    /\ format # "exfat" => reversed_cluster_numbers \in [Indexes -> Nat]

(* Whole sectors are read, each into the front of the buffer.              *)
SectorBuffered ==
  Filling =>
    /\ read_size = BytesPerSector
    /\ \E sectors \in Nat : table_offset = sectors * BytesPerSector
    /\ table_offset <= size
    /\ table_data \in [0 .. BytesPerSector + 1 -> 0 .. ByteBase - 1]
    /\ table_data_offset \in Nat
    /\ table_offset = 0 => table_index = 0 /\ table_data_offset = BytesPerSector
    /\ table_offset > 0 =>
         \A i \in 0 .. BytesPerSector - 1 :
           /\ table_offset - BytesPerSector + i \in DOMAIN disk
           /\ table_data[i] = disk[table_offset - BytesPerSector + i]

DecodedOnes == EntrySize * table_index = table_offset - BytesPerSector + table_data_offset

(* Sixteen or thirty-two bits: the next entry lies where the buffer is     *)
(* decoded up to, until there are no more entries.                         *)
OnesDecoded ==
  Filling /\ format # "fat12" =>
    /\ \A c \in EntriesWithin(size) : c < table_index => cluster_numbers[c] = StoredEntry(c)
    /\ table_index < NumberOfClusterNumbers =>
         table_data_offset <= BytesPerSector /\ DecodedOnes

(* Twelve bits: the same, in the first sector.                             *)
PairsDecoded ==
  Filling /\ format = "fat12" =>
    /\ \A c \in EntriesWithin(BytesPerSector) :
         c < table_index => cluster_numbers[c] = StoredEntry(c)
    /\ table_offset = BytesPerSector /\ table_index < NumberOfClusterNumbers =>
         \E pairs \in Nat : table_index = 2 * pairs /\ table_data_offset = 3 * pairs
    /\ table_offset > BytesPerSector =>
         \A c \in EntriesWithin(BytesPerSector) : c < table_index

(* The reversed table leads back along the entries that were decoded.      *)
ReversedSoFar ==
  Filling /\ format # "exfat" =>
    \A n \in Indexes :
      LET naming == {c \in Indexes : c < table_index /\ cluster_numbers[c] = n}
      IN  /\ reversed_cluster_numbers[n] # 0 => reversed_cluster_numbers[n] \in naming
          /\ format # "fat12" =>
               \A c \in naming : c <= reversed_cluster_numbers[n]

TableInv ==
  /\ BootRecordRead /\ TablesSized /\ SectorBuffered
  /\ OnesDecoded /\ PairsDecoded /\ ReversedSoFar

-----------------------------------------------------------------------------
(***************************************************************************)
(* The boot record.                                                        *)
(***************************************************************************)

LEMMA SectorTypes ==
  ASSUME data \in BootSectors
  PROVE  /\ data.bytes_per_sector \in Nat /\ data.sectors_per_cluster_block \in Nat
         /\ data.reserved \in Nat /\ data.tables \in Nat /\ data.root_entries \in Nat
         /\ data.clusters \in Nat /\ data.table_32bit \in Nat
         /\ TableSize(data) \in Nat
         /\ TotalNumberOfSectors(data) \in 0 .. Narrow - 1
         /\ data.tables * TableSize(data) \in Nat
<1>1. /\ data.bytes_per_sector \in Nat /\ data.sectors_per_cluster_block \in Nat
      /\ data.reserved \in Nat /\ data.tables \in Nat /\ data.root_entries \in Nat
      /\ data.clusters \in Nat /\ data.table_32bit \in Nat /\ data.table_16bit \in Nat
      /\ data.sectors_32bit \in 0 .. Narrow - 1 /\ data.sectors_16bit \in 0 .. Narrow - 1
  BY BootRecordAssumption DEF BootSectors, Numbers
<1>2. TableSize(data) \in Nat
  BY <1>1 DEF TableSize
<1>3. data.tables * TableSize(data) \in Nat
  BY <1>1, <1>2, Products
<1> QED
  BY <1>1, <1>2, <1>3 DEF TotalNumberOfSectors

LEMMA RecordFacts ==
  ASSUME BootRecordRead, Opened
  PROVE  /\ format \in {"fat12", "fat16", "fat32", "exfat"}
         /\ format = "exfat" <=> data.exfat
         /\ BytesPerSector \in Nat \ {0} /\ BytesPerSector % 4 = 0
         /\ NumberOfClusterNumbers \in Nat
         /\ \E sectors \in Nat : size = sectors * BytesPerSector
<1>1. data \in BootSectors /\ ~ Rejected(data) /\ boot_record = ReadBootRecord(data)
  BY DEF BootRecordRead
<1>2. \A bytes \in SectorSizes : bytes \in Nat \ {0} /\ bytes % 4 = 0
  BY BootRecordAssumption
<1>3. CASE data.exfat
  <2>1. boot_record = ExfatBootRecord(data) /\ data.bytes_per_sector \in Exponents
    BY <1>1, <1>3 DEF ReadBootRecord, Rejected
  <2>2. 2 ^ data.bytes_per_sector \in SectorSizes
    BY <2>1 DEF Exponents
  <2>3. /\ format = "exfat"
        /\ BytesPerSector = 2 ^ data.bytes_per_sector
        /\ NumberOfClusterNumbers = data.clusters
        /\ size = data.table_32bit * BytesPerSector
    BY <2>1 DEF ExfatBootRecord, format, BytesPerSector, NumberOfClusterNumbers, size
  <2> QED
    BY <1>1, <1>2, <1>3, <2>2, <2>3, SectorTypes
<1>4. CASE ~ data.exfat
  <2>1. boot_record = FatBootRecord(data) /\ data.bytes_per_sector \in SectorSizes
    BY <1>1, <1>4 DEF ReadBootRecord, Rejected
  <2>2. /\ format = FormatOf(Clusters(data))
        /\ BytesPerSector = data.bytes_per_sector
        /\ NumberOfClusterNumbers = Clusters(data) % Narrow
        /\ size = TableSize(data) * BytesPerSector
    BY <2>1 DEF FatBootRecord, format, BytesPerSector, NumberOfClusterNumbers, size
  <2>3. format \in {"fat12", "fat16", "fat32"}
    BY <2>2 DEF FormatOf
  <2>4. Clusters(data) \in Int
    <3> DEFINE wrapped == (data.tables * TableSize(data)) % Narrow
               left == (TotalNumberOfSectors(data) - data.reserved - wrapped) % Wide
    <3>1. wrapped \in Int
      <4>1. data.tables * TableSize(data) \in Int /\ Narrow \in Nat \ {0}
        BY <1>1, SectorTypes, BootRecordAssumption
      <4> QED
        BY <4>1, ModBounds
    <3>2. TotalNumberOfSectors(data) - data.reserved - wrapped \in Int
      <4> HIDE DEF wrapped
      <4> QED
        BY <1>1, <3>1, SectorTypes
    <3> HIDE DEF wrapped
    <3>3. left \in Int
      BY <3>2, ModBounds, BootRecordAssumption
    <3> HIDE DEF left
    <3>4. data.sectors_per_cluster_block \in Nat \ {0}
      BY <1>1, <1>4 DEF Rejected, ClusterSizes
    <3>5. left \div data.sectors_per_cluster_block \in Int
      BY <3>3, <3>4, DivBounds
    <3> QED
      BY <3>5 DEF Clusters, left, wrapped
  <2>5. Clusters(data) % Narrow \in Nat
    BY <2>4, ModBounds, BootRecordAssumption
  <2> QED
    BY <1>1, <1>2, <1>4, <2>1, <2>2, <2>3, <2>5, SectorTypes
<1> QED
  BY <1>3, <1>4

(* Less than a multiple of what divides the larger modulus too.            *)
LEMMA WrappedBelow ==
  ASSUME NEW w \in Nat, NEW n \in Nat \ {0}, NEW s \in Nat \ {0}, w % (n * s) = 0,
         NEW d \in Nat \ {0}, NEW m \in Nat, d < n - m
  PROVE  ((w - d) \div s) % n > m
<1> DEFINE q == w \div (n * s)
           c == (d + s - 1) \div s
<1>1. n * s \in Nat \ {0}
  BY SMT
<1>2. q \in Int /\ w = q * (n * s)
  <2> DEFINE k == n * s
  <2>1. k \in Nat \ {0} /\ w \in Int /\ w % k = 0 /\ q = w \div k
    BY <1>1
  <2> HIDE DEF q, k
  <2>2. w = (w \div k) * k + (w % k) /\ w \div k \in Int
    BY <2>1, ModBounds, DivBounds
  <2>3. q \in Int /\ w = q * k
    BY <2>1, <2>2
  <2> QED
    BY <2>3 DEF k
<1>3. c \in Int /\ c * s <= d + s - 1 /\ d + s - 1 < c * s + s
  <2>1. d + s - 1 \in Int
    OBVIOUS
  <2> QED
    BY <2>1, DivBounds
<1> HIDE DEF q, c
<1>4. c >= 1 /\ c <= d
  <2>1. ASSUME c <= 0 PROVE FALSE
    <3>1. c * s <= 0 * s
      BY <1>3, <2>1, ProductsGrow
    <3> QED
      BY <1>3, <3>1
  <2>2. ASSUME c >= d + 1 PROVE FALSE
    <3>1. (d + 1) * s <= c * s
      BY <1>3, <2>2, ProductsGrow
    <3>2. (d + 1) * s = d * s + s /\ d * s >= d
      BY SMT
    <3> QED
      BY <1>3, <3>1, <3>2
  <2> QED
    BY <1>3, <2>1, <2>2
<1>5. (w - d) \div s = q * n - c
  <2>1. (q * n - c) * s = w - c * s
    BY <1>2, <1>3
  <2>2. w - d \in Int /\ q * n - c \in Int
    BY <1>2, <1>3
  <2>3. (q * n - c) * s <= w - d /\ w - d < (q * n - c) * s + s
    BY <1>3, <2>1
  <2> QED
    BY <2>2, <2>3, DivUnique
<1>6. (q * n - c) % n = n - c
  <2>1. (q - 1) * n = q * n - n /\ q * n \in Int
    BY <1>2
  <2>2. q * n - c \in Int /\ q - 1 \in Int
    BY <1>2, <1>3
  <2>3. (q - 1) * n <= q * n - c /\ q * n - c < (q - 1) * n + n
    BY <1>3, <1>4, <2>1
  <2>4. (q * n - c) % n = (q * n - c) - (q - 1) * n
    BY <2>2, <2>3, DivUnique
  <2> QED
    BY <1>3, <2>1, <2>4
<1> QED
  BY <1>3, <1>4, <1>5, <1>6

LEMMA SmallMod ==
  ASSUME NEW a \in Int, NEW b \in Nat \ {0}
  PROVE  /\ a >= 0 /\ a < b => a % b = a
         /\ a < 0 /\ a >= 0 - b => a % b = b + a
<1>1. ASSUME a >= 0, a < b PROVE a % b = a
  <2>1. 0 * b <= a /\ a < 0 * b + b /\ 0 \in Int
    BY <1>1
  <2>2. a % b = a - 0 * b
    BY <2>1, DivUnique
  <2> QED
    BY <2>2
<1>2. ASSUME a < 0, a >= 0 - b PROVE a % b = b + a
  <2>1. (0 - 1) * b <= a /\ a < (0 - 1) * b + b /\ 0 - 1 \in Int
    BY <1>2
  <2>2. a % b = a - (0 - 1) * b
    BY <2>1, DivUnique
  <2> QED
    BY <2>2
<1> QED
  BY <1>1, <1>2

(* Leaving r out of x takes at most the rounded up quotient away.          *)
LEMMA DivApart ==
  ASSUME NEW x \in Int, NEW r \in Nat, NEW s \in Nat \ {0}
  PROVE  /\ CeilDiv(r, s) \in Nat
         /\ x \div s \in (x - r) \div s .. (x - r) \div s + CeilDiv(r, s)
<1> DEFINE q == x \div s
           p == (x - r) \div s
           c == (r + s - 1) \div s
<1>1. q \in Int /\ q * s <= x /\ x < q * s + s
  BY DivBounds
<1>2. p \in Int /\ p * s <= x - r /\ x - r < p * s + s
  <2>1. x - r \in Int
    OBVIOUS
  <2> QED
    BY <2>1, DivBounds
<1>3. c \in Nat /\ c * s <= r + s - 1 /\ r + s - 1 < c * s + s
  <2>1. r + s - 1 \in Int /\ r + s - 1 >= 0
    OBVIOUS
  <2> QED
    BY <2>1, DivBounds
<1> HIDE DEF q, p, c
<1>4. p <= q
  <2>1. ASSUME p >= q + 1 PROVE FALSE
    <3>1. (q + 1) * s <= p * s
      BY <1>1, <1>2, <2>1, ProductsGrow
    <3>2. (q + 1) * s = q * s + s
      BY <1>1
    <3> QED
      BY <1>1, <1>2, <3>1, <3>2
  <2> QED
    BY <1>1, <1>2, <2>1
<1>5. q <= p + c
  <2>1. ASSUME q >= p + c + 1 PROVE FALSE
    <3>1. (p + c + 1) * s <= q * s
      BY <1>1, <1>2, <1>3, <2>1, ProductsGrow
    <3>2. (p + c + 1) * s = p * s + c * s + s
      BY <1>2, <1>3
    <3> QED
      BY <1>1, <1>2, <1>3, <3>1, <3>2
  <2> QED
    BY <1>1, <1>2, <1>3, <2>1
<1>6. CeilDiv(r, s) = c
  BY DEF CeilDiv, c
<1>7. q \in p .. p + c
  BY <1>1, <1>2, <1>3, <1>4, <1>5
<1> QED
  BY <1>3, <1>6, <1>7 DEF q, p

LEMMA FormatsApart ==
  ASSUME NEW c \in Int, NEW d \in Int, NEW e \in Int, d <= c, c <= e,
         FormatOf(c) # FormatOf(d)
  PROVE  \E limit \in {Fat12Limit, Fat16Limit} : d < limit /\ limit <= e
<1>1. Fat12Limit \in Int /\ Fat16Limit \in Int
  BY BootRecordAssumption
<1> QED
  BY <1>1 DEF FormatOf

LEMMA ClustersCountedNow ==
  ASSUME BootRecordRead, TablesSized
  PROVE  ClustersCounted
<1> SUFFICES ASSUME result = "table", format # "exfat",
                    UsedSectors < Narrow - MaximumNumberOfClusters
             PROVE  /\ UsedSectors <= TotalNumberOfSectors(data)
                    /\ NumberOfClusterNumbers \in
                         DocumentedClusters .. DocumentedClusters + RootClusters
                    /\ format # FormatOf(DocumentedClusters) =>
                         \E limit \in {Fat12Limit, Fat16Limit} :
                           /\ DocumentedClusters < limit
                           /\ limit <= DocumentedClusters + RootClusters
  BY DEF ClustersCounted
<1> DEFINE total == TotalNumberOfSectors(data)
           tables_size == data.tables * TableSize(data)
           per_block == data.sectors_per_cluster_block
           left == total - UsedSectors
<1>1. Opened /\ Filling
  BY DEF Opened, Filling
<1>2. /\ data \in BootSectors /\ ~ Rejected(data) /\ ~ data.exfat
      /\ boot_record = FatBootRecord(data)
  BY <1>1, RecordFacts DEF BootRecordRead, ReadBootRecord
<1>3. /\ format = FormatOf(Clusters(data))
      /\ NumberOfClusterNumbers = Clusters(data) % Narrow
  BY <1>2 DEF FatBootRecord, format, NumberOfClusterNumbers
<1>4. /\ per_block \in Nat \ {0} /\ Wide % (Narrow * per_block) = 0
      /\ data.bytes_per_sector \in Nat \ {0}
  <2>1. per_block \in ClusterSizes /\ data.bytes_per_sector \in SectorSizes
    BY <1>2 DEF Rejected
  <2> HIDE DEF per_block
  <2>2. per_block \in Nat \ {0}
    BY <2>1 DEF ClusterSizes
  <2>3. Wide % (Narrow * per_block) = 0
    BY <2>1, BootRecordAssumption
  <2> QED
    BY <2>1, <2>2, <2>3, BootRecordAssumption DEF per_block
<1>5. /\ Narrow \in Nat \ {0} /\ Wide \in Nat \ {0} /\ Narrow <= Wide
      /\ MaximumNumberOfClusters \in Nat
  <2>1. Narrow \in Nat \ {0} /\ Wide \in Nat \ {0} /\ Wide % (Narrow * 1) = 0
    BY BootRecordAssumption DEF ClusterSizes
  <2>2. Narrow * 1 = Narrow
    BY <2>1
  <2>3. Wide % Narrow = 0
    BY <2>1, <2>2
  <2>4. Wide >= 0 /\ Wide < Narrow => Wide % Narrow = Wide
    BY <2>1, SmallMod
  <2> QED
    BY <2>1, <2>3, <2>4, AllocationTableAssumption
<1>6. /\ total \in 0 .. Narrow - 1 /\ tables_size \in Nat /\ data.reserved \in Nat
      /\ UsedSectors = data.reserved + tables_size
  BY <1>2, SectorTypes DEF UsedSectors
<1>7. NumberOfClusterNumbers # 0 /\ NumberOfClusterNumbers <= MaximumNumberOfClusters
  BY <1>1 DEF TablesSized, SizeAllowed
<1> HIDE DEF total, tables_size, per_block
<1>8. tables_size % Narrow = tables_size
  <2>1. tables_size >= 0 /\ tables_size < Narrow /\ tables_size \in Int
    BY <1>5, <1>6
  <2> QED
    BY <1>5, <2>1, SmallMod
<1>9. Clusters(data) = (left % Wide) \div per_block
  <2>1. Clusters(data) = ((total - data.reserved - (tables_size % Narrow)) % Wide) \div per_block
    BY DEF Clusters, total, tables_size, per_block
  <2>2. total - data.reserved - tables_size = left
    BY <1>6
  <2> QED
    BY <1>8, <2>1, <2>2
<1>10. left \in Int /\ left < Narrow /\ left > 0 - Narrow
  BY <1>5, <1>6
<1>11. ASSUME left < 0 PROVE FALSE
  <2> DEFINE d == 0 - left
  <2>1. left % Wide = Wide + left
    <3>1. left >= 0 - Wide
      BY <1>5, <1>10
    <3> HIDE DEF left
    <3> QED
      BY <1>5, <1>10, <1>11, <3>1, SmallMod
  <2>2. d \in Nat \ {0} /\ d < Narrow - MaximumNumberOfClusters /\ Wide + left = Wide - d
    BY <1>5, <1>6, <1>10, <1>11
  <2> HIDE DEF d, left
  <2>3. ((Wide - d) \div per_block) % Narrow > MaximumNumberOfClusters
    <3>1. Wide \in Nat /\ Narrow \in Nat \ {0} /\ per_block \in Nat \ {0}
          /\ Wide % (Narrow * per_block) = 0 /\ MaximumNumberOfClusters \in Nat
      BY <1>4, <1>5
    <3> QED
      BY <2>2, <3>1, WrappedBelow
  <2>4. NumberOfClusterNumbers > MaximumNumberOfClusters
    BY <1>3, <1>9, <2>1, <2>2, <2>3
  <2>5. NumberOfClusterNumbers \in Nat
    BY <1>1, RecordFacts
  <2> QED
    BY <1>5, <1>7, <2>4, <2>5
<1>12. NumberOfClusterNumbers = left \div per_block /\ Clusters(data) = left \div per_block
  <2> HIDE DEF left
  <2>1. left \in Nat /\ left < Narrow /\ left < Wide
    BY <1>5, <1>10, <1>11
  <2>2. left % Wide = left
    BY <1>5, <2>1, SmallMod
  <2> DEFINE q == left \div per_block
  <2>3. q \in Nat /\ q * per_block <= left
    BY <1>4, <2>1, DivBounds
  <2> HIDE DEF q
  <2>4. q <= q * per_block
    BY <1>4, <2>3
  <2>5. q < Narrow /\ q >= 0 /\ q \in Int
    BY <1>4, <1>5, <2>1, <2>3, <2>4
  <2>6. q % Narrow = q
    BY <1>5, <2>5, SmallMod
  <2> QED
    BY <1>3, <1>9, <2>2, <2>6 DEF q
<1>13. RootSectors \in Nat
  <2>1. data.root_entries * EntrySizeInRoot \in Nat
    BY <1>2, SectorTypes, Products, BootRecordAssumption
  <2>2. CeilDiv(data.root_entries * EntrySizeInRoot, data.bytes_per_sector) \in Nat
    BY <1>4, <2>1, DivApart, 0 \in Int
  <2> QED
    BY <2>2 DEF RootSectors
<1>14. /\ DocumentedClusters = (left - RootSectors) \div per_block
       /\ RootClusters = CeilDiv(RootSectors, per_block)
  BY DEF DocumentedClusters, RootClusters, total, per_block
<1>15. UsedSectors <= total
  BY <1>5, <1>6, <1>11
<1> HIDE DEF left
<1>16. /\ left \div per_block \in
            (left - RootSectors) \div per_block
              .. (left - RootSectors) \div per_block + CeilDiv(RootSectors, per_block)
       /\ CeilDiv(RootSectors, per_block) \in Nat
  BY <1>4, <1>10, <1>13, DivApart
<1>17. DocumentedClusters \in Int /\ RootClusters \in Nat
  <2>1. left - RootSectors \in Int
    BY <1>10, <1>13
  <2>2. (left - RootSectors) \div per_block \in Int
    BY <1>4, <2>1, DivBounds
  <2> QED
    BY <1>14, <1>16, <2>2
<1>18. NumberOfClusterNumbers \in DocumentedClusters .. DocumentedClusters + RootClusters
  BY <1>12, <1>14, <1>16
<1>19. format = FormatOf(NumberOfClusterNumbers)
  BY <1>3, <1>12
<1>20. ASSUME format # FormatOf(DocumentedClusters)
       PROVE  \E limit \in {Fat12Limit, Fat16Limit} :
                DocumentedClusters < limit /\ limit <= DocumentedClusters + RootClusters
  <2>1. /\ NumberOfClusterNumbers \in Int /\ DocumentedClusters + RootClusters \in Int
        /\ DocumentedClusters <= NumberOfClusterNumbers
        /\ NumberOfClusterNumbers <= DocumentedClusters + RootClusters
    BY <1>17, <1>18
  <2> QED
    BY <1>17, <1>19, <1>20, <2>1, FormatsApart
<1> QED
  BY <1>15, <1>18, <1>20 DEF total

-----------------------------------------------------------------------------
(***************************************************************************)
(* The steps.                                                              *)
(***************************************************************************)

LEMMA ConstantsStay ==
  ASSUME UNCHANGED <<inputs, boot_record>>
  PROVE  /\ UNCHANGED <<data, disk, boot_record, format, size, BytesPerSector,
                        NumberOfClusterNumbers, Indexes, EntrySize, SizeAllowed>>
         /\ \A c : StoredEntry(c)' = StoredEntry(c)
         /\ \A bytes : EntriesWithin(bytes)' = EntriesWithin(bytes)
<1>1. UNCHANGED <<data, disk, boot_record>>
  BY DEF inputs
<1>2. UNCHANGED <<format, size, BytesPerSector, NumberOfClusterNumbers>>
  BY <1>1 DEF format, size, BytesPerSector, NumberOfClusterNumbers
<1>3. UNCHANGED <<Indexes, EntrySize, SizeAllowed>>
  BY <1>2 DEF Indexes, EntrySize, SizeAllowed
<1>4. \A c : StoredEntry(c)' = StoredEntry(c)
  BY <1>1, <1>2 DEF StoredEntry, Digit, Byte
<1>5. \A bytes : EntriesWithin(bytes)' = EntriesWithin(bytes)
  BY <1>2, <1>3 DEF EntriesWithin
<1> QED
  BY <1>1, <1>2, <1>3, <1>4, <1>5

LEMMA NotFilling ==
  ASSUME ~ Filling
  PROVE  TablesSized /\ SectorBuffered /\ OnesDecoded /\ PairsDecoded /\ ReversedSoFar
BY DEF TablesSized, SectorBuffered, OnesDecoded, PairsDecoded, ReversedSoFar

LEMMA TableInvStarts == Init => TableInv
<1> SUFFICES ASSUME Init PROVE TableInv
  OBVIOUS
<1>1. \/ result = "none"
      \/ result = "boot_record" /\ \E volume \in Volumes : data = volume.sector /\ disk = volume.disk
  BY DEF Init, TableInit, NoTables
<1>2. ~ Filling /\ ~ Opened
  BY <1>1 DEF Filling, Opened
<1>3. BootRecordRead
  BY <1>1, <1>2, AllocationTableAssumption DEF BootRecordRead
<1> QED
  BY <1>2, <1>3, NotFilling DEF TableInv

LEMMA BootRecordReadKept ==
  ASSUME BootRecordRead, UNCHANGED <<inputs, boot_record>>,
         result' = "error" \/ result' = result \/ (Opened /\ result' \in {"running", "table"})
  PROVE  BootRecordRead'
<1>1. UNCHANGED <<data, disk, boot_record>>
  BY DEF inputs
<1> QED
  BY <1>1 DEF BootRecordRead, Opened

LEMMA StopsKeep ==
  ASSUME TableInv, GetBootRecord \/ FailBootRecord \/ FailTables \/ FailRead
  PROVE  TableInv'
<1>1. result' \in {"tables", "error"}
  BY DEF GetBootRecord, FailBootRecord, FailTables, FailRead
<1>2. ~ Filling'
  BY <1>1 DEF Filling
<1>3. BootRecordRead'
  <2>1. CASE GetBootRecord
    BY <2>1 DEF GetBootRecord, TableInv, BootRecordRead, Opened, inputs
  <2>2. CASE FailBootRecord \/ FailTables \/ FailRead
    BY <2>2 DEF FailBootRecord, FailTables, FailRead, BootRecordRead, Opened
  <2> QED
    BY <2>1, <2>2
<1>4. (~ Filling => TablesSized /\ SectorBuffered /\ OnesDecoded /\ PairsDecoded /\ ReversedSoFar)'
  BY <1>2 DEF TablesSized, SectorBuffered, OnesDecoded, PairsDecoded, ReversedSoFar
<1> QED
  BY <1>2, <1>3, <1>4 DEF TableInv

LEMMA FinishKeeps ==
  ASSUME TableInv, Finish
  PROVE  TableInv'
<1>1. Opened /\ Filling /\ Filling' /\ result' = "table" /\ UNCHANGED <<inputs, boot_record, tables>>
  BY DEF Finish, Opened, Filling
<1>2. BootRecordRead'
  BY <1>1, BootRecordReadKept DEF TableInv
<1>3. /\ UNCHANGED <<format, size, BytesPerSector, NumberOfClusterNumbers, Indexes,
                     EntrySize, SizeAllowed, disk>>
      /\ \A c : StoredEntry(c)' = StoredEntry(c)
      /\ \A bytes : EntriesWithin(bytes)' = EntriesWithin(bytes)
  BY <1>1, ConstantsStay
<1>4. UNCHANGED <<table_offset, read_size, table_data, table_data_offset, table_index,
                  cluster_numbers, reversed_cluster_numbers>>
  BY <1>1 DEF tables
<1>5. TablesSized'
  BY <1>1, <1>3, <1>4 DEF TableInv, TablesSized
<1>6. SectorBuffered'
  BY <1>1, <1>3, <1>4 DEF TableInv, SectorBuffered
<1>7. OnesDecoded'
  BY <1>1, <1>3, <1>4 DEF TableInv, OnesDecoded, DecodedOnes
<1>8. PairsDecoded'
  BY <1>1, <1>3, <1>4 DEF TableInv, PairsDecoded
<1>9. ReversedSoFar'
  BY <1>1, <1>3, <1>4 DEF TableInv, ReversedSoFar
<1> QED
  BY <1>2, <1>5, <1>6, <1>7, <1>8, <1>9 DEF TableInv

LEMMA InitializeKeeps ==
  ASSUME TableInv, InitializeTables
  PROVE  TableInv'
<1>1. Opened /\ Filling' /\ result' = "running" /\ UNCHANGED <<inputs, boot_record>> /\ SizeAllowed
  BY DEF InitializeTables, Opened, Filling
<1>2. BootRecordRead'
  BY <1>1, BootRecordReadKept DEF TableInv
<1>3. /\ UNCHANGED <<format, size, BytesPerSector, NumberOfClusterNumbers, Indexes,
                     EntrySize, SizeAllowed, disk>>
      /\ \A bytes : EntriesWithin(bytes)' = EntriesWithin(bytes)
  BY <1>1, ConstantsStay
<1>4. /\ BytesPerSector \in Nat \ {0} /\ NumberOfClusterNumbers \in Nat
      /\ \E sectors \in Nat : size = sectors * BytesPerSector
      /\ size \in Nat
  <2>1. /\ BytesPerSector \in Nat \ {0} /\ NumberOfClusterNumbers \in Nat
        /\ \E sectors \in Nat : size = sectors * BytesPerSector
    BY <1>1, RecordFacts DEF TableInv
  <2> QED
    BY <2>1, Products
<1>5. /\ table_offset' = 0 /\ read_size' = BytesPerSector
      /\ table_data' = [i \in 0 .. BytesPerSector + 1 |-> 0]
      /\ table_data_offset' = BytesPerSector /\ table_index' = 0
      /\ cluster_numbers' = [c \in Indexes |-> 0]
      /\ format # "exfat" => reversed_cluster_numbers' = [c \in Indexes |-> 0]
  BY DEF InitializeTables
<1>6. TablesSized'
  BY <1>1, <1>3, <1>4, <1>5 DEF TablesSized
<1>7. SectorBuffered'
  <2>1. 0 \in 0 .. ByteBase - 1
    <3>1. NibbleBase \in Nat /\ NibbleBase >= 2
      BY AllocationTableAssumption
    <3>2. NibbleBase * NibbleBase >= 2 * 2
      BY <3>1
    <3> QED
      BY <3>1, <3>2 DEF ByteBase
  <2>2. table_data' \in [0 .. BytesPerSector + 1 -> 0 .. ByteBase - 1]
    BY <1>5, <2>1
  <2>3. 0 = 0 * BytesPerSector
    BY <1>4
  <2> QED
    BY <1>1, <1>3, <1>4, <1>5, <2>2, <2>3 DEF SectorBuffered
<1>8. \A c \in Indexes : c >= 0
  BY <1>4 DEF Indexes
<1>9. OnesDecoded'
  <2>1. \A c \in EntriesWithin(size) : c \in Int /\ ~ (c < 0)
    BY <1>4 DEF EntriesWithin, Indexes
  <2>2. EntrySize * 0 = 0 - BytesPerSector + BytesPerSector
    BY <1>4 DEF EntrySize
  <2> QED
    BY <1>1, <1>3, <1>4, <1>5, <2>1, <2>2 DEF OnesDecoded, DecodedOnes
<1>10. PairsDecoded'
  <2>1. \A c \in EntriesWithin(BytesPerSector) : c \in Int /\ ~ (c < 0)
    BY <1>4 DEF EntriesWithin, Indexes
  <2> QED
    BY <1>1, <1>3, <1>4, <1>5, <2>1 DEF PairsDecoded
<1>11. ReversedSoFar'
  BY <1>1, <1>3, <1>4, <1>5, <1>8 DEF ReversedSoFar, Indexes
<1> QED
  BY <1>2, <1>6, <1>7, <1>9, <1>10, <1>11 DEF TableInv

LEMMA ReadSectorKeeps ==
  ASSUME TableInv, ReadSector
  PROVE  TableInv'
<1>1. /\ result = "running" /\ Opened /\ Filling /\ Filling' /\ result' = result
      /\ UNCHANGED <<inputs, boot_record, table_index, cluster_numbers,
                     reversed_cluster_numbers>>
      /\ SectorDecoded /\ table_offset < size
  BY DEF ReadSector, Opened, Filling
<1>2. BootRecordRead'
  BY <1>1, BootRecordReadKept DEF TableInv
<1>3. /\ UNCHANGED <<format, size, BytesPerSector, NumberOfClusterNumbers, Indexes,
                     EntrySize, SizeAllowed, disk>>
      /\ \A c : StoredEntry(c)' = StoredEntry(c)
      /\ \A bytes : EntriesWithin(bytes)' = EntriesWithin(bytes)
  BY <1>1, ConstantsStay
<1>4. /\ BytesPerSector \in Nat \ {0} /\ NumberOfClusterNumbers \in Nat
      /\ \E sectors \in Nat : size = sectors * BytesPerSector
      /\ format \in {"fat12", "fat16", "fat32", "exfat"}
  BY <1>1, RecordFacts DEF TableInv
<1>5. /\ read_size = BytesPerSector
      /\ \E sectors \in Nat : table_offset = sectors * BytesPerSector
      /\ table_data \in [0 .. BytesPerSector + 1 -> 0 .. ByteBase - 1]
      /\ table_data_offset \in Nat
      /\ table_offset = 0 => table_index = 0 /\ table_data_offset = BytesPerSector
  BY <1>1 DEF TableInv, SectorBuffered
<1>6. PICK all \in Nat : size = all * BytesPerSector
  BY <1>4
<1>7. PICK done \in Nat : table_offset = done * BytesPerSector
  BY <1>5
<1>8. /\ (done + 1) * BytesPerSector <= size
      /\ (done + 1) * BytesPerSector = table_offset + BytesPerSector
      /\ table_offset \in Nat /\ size \in Nat
  <2>1. ASSUME all <= done PROVE FALSE
    <3>1. all * BytesPerSector <= done * BytesPerSector
      BY <1>4, <2>1, ProductsGrow
    <3> QED
      BY <1>1, <1>4, <1>6, <1>7, <3>1
  <2>2. done + 1 <= all
    BY <2>1
  <2>3. (done + 1) * BytesPerSector <= all * BytesPerSector
    BY <1>4, <2>2, ProductsGrow
  <2>4. done * BytesPerSector \in Nat /\ all * BytesPerSector \in Nat
    BY <1>4, Products
  <2> QED
    BY <1>4, <1>6, <1>7, <2>3, <2>4
<1>9. (IF read_size > size - table_offset THEN size - table_offset ELSE read_size)
        = BytesPerSector
  BY <1>4, <1>5, <1>8
<1>10. /\ \A i \in 0 .. BytesPerSector - 1 : table_offset + i \in DOMAIN disk
       /\ read_size' = BytesPerSector
       /\ table_data' = [i \in DOMAIN table_data |->
                           IF i < BytesPerSector THEN disk[table_offset + i]
                           ELSE table_data[i]]
       /\ table_offset' = table_offset + BytesPerSector
       /\ table_data_offset' = 0
  BY <1>9 DEF ReadSector
<1>11. TablesSized'
  BY <1>1, <1>3 DEF TableInv, TablesSized
<1>12. SectorBuffered'
  <2>1. \A i \in DOMAIN disk : disk[i] \in 0 .. ByteBase - 1
    BY <1>1 DEF TableInv, BootRecordRead
  <2>2. table_data' \in [0 .. BytesPerSector + 1 -> 0 .. ByteBase - 1]
    <3>1. ASSUME NEW i \in 0 .. BytesPerSector + 1
          PROVE  (IF i < BytesPerSector THEN disk[table_offset + i] ELSE table_data[i])
                   \in 0 .. ByteBase - 1
      BY <1>4, <1>5, <1>10, <2>1
    <3> QED
      BY <1>5, <1>10, <3>1
  <2>3. ASSUME NEW i \in 0 .. BytesPerSector - 1
        PROVE  /\ table_offset' - BytesPerSector + i \in DOMAIN disk
               /\ table_data'[i] = disk[table_offset' - BytesPerSector + i]
    <3>1. table_offset' - BytesPerSector + i = table_offset + i
      BY <1>4, <1>8, <1>10
    <3>2. i \in DOMAIN table_data /\ i < BytesPerSector
      BY <1>4, <1>5
    <3> QED
      BY <1>10, <3>1, <3>2
  <2>4. \E sectors \in Nat : table_offset' = sectors * BytesPerSector
    BY <1>8, <1>10
  <2>5. table_offset' <= size /\ table_offset' > 0
    BY <1>4, <1>8, <1>10
  <2> QED
    BY <1>1, <1>3, <1>10, <2>2, <2>3, <2>4, <2>5 DEF SectorBuffered
<1>13. table_index \in 0 .. NumberOfClusterNumbers
  BY <1>1 DEF TableInv, TablesSized
<1>14. table_index < NumberOfClusterNumbers => table_data_offset >= BytesPerSector
  BY <1>1, <1>4, <1>5, <1>13 DEF SectorDecoded
<1>15. OnesDecoded'
  <2> SUFFICES ASSUME format # "fat12" PROVE OnesDecoded'
    BY <1>3 DEF OnesDecoded
  <2>1. /\ \A c \in EntriesWithin(size) : c < table_index => cluster_numbers[c] = StoredEntry(c)
        /\ table_index < NumberOfClusterNumbers =>
             table_data_offset <= BytesPerSector /\ DecodedOnes
    BY <1>1 DEF TableInv, OnesDecoded
  <2>2. ASSUME table_index < NumberOfClusterNumbers
        PROVE  EntrySize * table_index = table_offset' - BytesPerSector + 0
    BY <1>4, <1>5, <1>8, <1>10, <1>14, <2>1, <2>2 DEF DecodedOnes
  <2> QED
    BY <1>1, <1>3, <1>4, <1>10, <2>1, <2>2 DEF OnesDecoded, DecodedOnes
<1>16. PairsDecoded'
  <2> SUFFICES ASSUME format = "fat12" PROVE PairsDecoded'
    BY <1>3 DEF PairsDecoded
  <2>1. /\ \A c \in EntriesWithin(BytesPerSector) :
             c < table_index => cluster_numbers[c] = StoredEntry(c)
        /\ table_offset = BytesPerSector /\ table_index < NumberOfClusterNumbers =>
             \E pairs \in Nat : table_index = 2 * pairs /\ table_data_offset = 3 * pairs
        /\ table_offset > BytesPerSector =>
             \A c \in EntriesWithin(BytesPerSector) : c < table_index
    BY <1>1 DEF TableInv, PairsDecoded
  <2>2. table_offset' = BytesPerSector => table_index = 2 * 0 /\ table_data_offset' = 3 * 0
    BY <1>4, <1>5, <1>8, <1>10
  <2>3. ASSUME table_offset' > BytesPerSector, NEW c \in EntriesWithin(BytesPerSector)
        PROVE  c < table_index
    <3>1. c \in Int /\ c < NumberOfClusterNumbers /\ 3 * c + 3 <= 2 * BytesPerSector
      BY <1>4 DEF EntriesWithin, Indexes
    <3>2. CASE table_offset > BytesPerSector
      BY <2>1, <3>2
    <3>3. CASE table_index = NumberOfClusterNumbers
      BY <3>1, <3>3
    <3>4. CASE table_offset = BytesPerSector /\ table_index < NumberOfClusterNumbers
      <4>1. PICK pairs \in Nat : table_index = 2 * pairs /\ table_data_offset = 3 * pairs
        BY <2>1, <3>4
      <4> QED
        BY <1>4, <1>14, <3>1, <3>4, <4>1
    <3>5. table_offset >= BytesPerSector
      <4>1. done >= 1
        BY <1>4, <1>7, <1>8, <1>10, <2>3
      <4>2. 1 * BytesPerSector <= done * BytesPerSector
        BY <1>4, <4>1, ProductsGrow
      <4> QED
        BY <1>4, <1>7, <4>2
    <3> QED
      BY <1>4, <1>8, <1>13, <3>2, <3>3, <3>4, <3>5
  <2> QED
    BY <1>1, <1>3, <1>4, <1>10, <2>1, <2>2, <2>3 DEF PairsDecoded
<1>17. ReversedSoFar'
  BY <1>1, <1>3 DEF TableInv, ReversedSoFar
<1> QED
  BY <1>2, <1>11, <1>12, <1>15, <1>16, <1>17 DEF TableInv

(* What a step of the decoding leaves as it is.                            *)
Decodes ==
  /\ Decoding
  /\ UNCHANGED <<inputs, boot_record, table_offset, read_size, table_data, result>>
  /\ cluster_numbers' \in [Indexes -> Nat]
  /\ \A c \in Indexes : c < table_index => cluster_numbers'[c] = cluster_numbers[c]
  /\ table_index' \in table_index .. NumberOfClusterNumbers
  /\ table_data_offset' \in Nat

LEMMA DecodingFacts ==
  ASSUME TableInv, Decoding
  PROVE  /\ Opened /\ Filling /\ result = "running"
         /\ BytesPerSector \in Nat \ {0} /\ BytesPerSector % 4 = 0
         /\ NumberOfClusterNumbers \in Nat
         /\ format \in {"fat12", "fat16", "fat32", "exfat"}
         /\ table_index \in Indexes /\ table_index \in Nat
         /\ table_index < NumberOfClusterNumbers
         /\ table_data_offset \in 0 .. BytesPerSector - 1
         /\ table_offset \in Nat /\ table_offset >= BytesPerSector
         /\ table_data \in [0 .. BytesPerSector + 1 -> 0 .. ByteBase - 1]
         /\ \A i \in 0 .. BytesPerSector - 1 :
              table_data[i] = disk[table_offset - BytesPerSector + i]
         /\ \A i \in 0 .. ByteBase - 1 : i \in Nat
         /\ ByteBase \in Nat
<1>1. Opened /\ Filling /\ result = "running"
  BY DEF Decoding, Opened, Filling
<1>2. /\ BytesPerSector \in Nat \ {0} /\ BytesPerSector % 4 = 0
      /\ NumberOfClusterNumbers \in Nat
      /\ format \in {"fat12", "fat16", "fat32", "exfat"}
  BY <1>1, RecordFacts DEF TableInv
<1>3. /\ read_size = BytesPerSector
      /\ \E sectors \in Nat : table_offset = sectors * BytesPerSector
      /\ table_data \in [0 .. BytesPerSector + 1 -> 0 .. ByteBase - 1]
      /\ table_data_offset \in Nat
      /\ table_offset = 0 => table_data_offset = BytesPerSector
      /\ table_offset > 0 =>
           \A i \in 0 .. BytesPerSector - 1 :
             table_data[i] = disk[table_offset - BytesPerSector + i]
  BY <1>1 DEF TableInv, SectorBuffered
<1>4. table_index \in 0 .. NumberOfClusterNumbers
  BY <1>1 DEF TableInv, TablesSized
<1>5. table_data_offset < BytesPerSector /\ table_index < NumberOfClusterNumbers
  BY <1>2, <1>3, <1>4 DEF Decoding, SectorDecoded
<1>6. table_offset \in Nat /\ table_offset >= BytesPerSector
  <2>1. PICK sectors \in Nat : table_offset = sectors * BytesPerSector
    BY <1>3
  <2>2. sectors # 0
    BY <1>2, <1>3, <1>5, <2>1
  <2>3. 1 * BytesPerSector <= sectors * BytesPerSector
    BY <1>2, <2>2, ProductsGrow
  <2> QED
    BY <1>2, <2>1, <2>3
<1>7. ByteBase \in Nat
  <2>1. NibbleBase \in Nat
    BY AllocationTableAssumption
  <2> QED
    BY <2>1, Products DEF ByteBase
<1> QED
  BY <1>1, <1>2, <1>3, <1>4, <1>5, <1>6, <1>7 DEF Indexes

LEMMA BufferKept ==
  ASSUME TableInv, Decodes
  PROVE  /\ Filling' /\ BootRecordRead' /\ TablesSized' = (format # "exfat" =>
                reversed_cluster_numbers' \in [Indexes -> Nat])
         /\ SectorBuffered'
<1>1. /\ Opened /\ Filling /\ Filling' /\ result' = result
      /\ UNCHANGED <<inputs, boot_record>> /\ UNCHANGED <<table_offset, read_size, table_data>>
  BY DecodingFacts DEF Decodes, Filling
<1>2. BootRecordRead'
  <2>1. BootRecordRead
    BY DEF TableInv
  <2>2. result' = "error" \/ result' = result \/ (Opened /\ result' \in {"running", "table"})
    BY <1>1
  <2>3. UNCHANGED <<inputs, boot_record>>
    BY <1>1
  <2> QED
    BY <2>1, <2>2, <2>3, BootRecordReadKept
<1>3. UNCHANGED <<format, size, BytesPerSector, NumberOfClusterNumbers, Indexes,
                  SizeAllowed, disk>>
  BY <1>1, ConstantsStay
<1>4. TablesSized' = (format # "exfat" => reversed_cluster_numbers' \in [Indexes -> Nat])
  <2>1. SizeAllowed
    BY <1>1 DEF TableInv, TablesSized
  <2>2. table_index' \in 0 .. NumberOfClusterNumbers
    BY DecodingFacts DEF Decodes
  <2>3. cluster_numbers' \in [Indexes -> Nat]
    BY DEF Decodes
  <2> QED
    BY <1>1, <1>3, <2>1, <2>2, <2>3 DEF TablesSized
<1>5. SectorBuffered'
  <2>1. table_offset # 0
    <3>1. table_offset >= BytesPerSector /\ BytesPerSector \in Nat \ {0}
      BY DecodingFacts DEF Decodes
    <3> QED
      BY <3>1
  <2> QED
    BY <1>1, <1>3, <2>1 DEF TableInv, SectorBuffered, Decodes
<1> QED
  BY <1>1, <1>2, <1>4, <1>5

(* The reversed table, when the entries up to "upto" have been filed.      *)
Leads(reversed, numbers, upto) ==
  \A n \in Indexes :
    LET naming == {c \in Indexes : c < upto /\ numbers[c] = n}
    IN  /\ reversed[n] # 0 => reversed[n] \in naming
        /\ format # "fat12" => \A c \in naming : c <= reversed[n]

LEMMA LeadsOn ==
  ASSUME NumberOfClusterNumbers \in Nat,
         NEW reversed \in [Indexes -> Nat], NEW numbers, NEW changed, NEW index \in Indexes,
         NEW number \in Nat, NEW tested \in Nat, number <= tested,
         format # "fat12" => tested = number,
         format # "exfat", Leads(reversed, numbers, index),
         \A c \in Indexes : c < index => changed[c] = numbers[c],
         changed[index] = number
  PROVE  /\ JoinReversed(reversed, tested, number, index) \in [Indexes -> Nat]
         /\ Leads(JoinReversed(reversed, tested, number, index), changed, index + 1)
<1>1. \A c \in Indexes : c \in Int /\ (c < index + 1 <=> c < index \/ c = index)
  BY DEF Indexes
<1>2. index \in Nat
  BY DEF Indexes
<1>3. CASE tested < NumberOfClusterNumbers
  <2>1. number \in Indexes
    BY <1>3 DEF Indexes
  <2>2. JoinReversed(reversed, tested, number, index) = [reversed EXCEPT ![number] = index]
    BY <1>3 DEF JoinReversed
  <2> QED
    BY <1>1, <1>2, <2>1, <2>2 DEF Leads
<1>4. CASE ~ (tested < NumberOfClusterNumbers)
  <2>1. JoinReversed(reversed, tested, number, index) = reversed
    BY <1>4 DEF JoinReversed
  <2>2. format # "fat12" => number \notin Indexes
    BY <1>4 DEF Indexes
  <2> QED
    BY <1>1, <1>2, <2>1, <2>2 DEF Leads
<1> QED
  BY <1>3, <1>4

(* An entry that begins in a sector ends in it.                            *)
LEMMA Aligned ==
  ASSUME NEW i \in Int, NEW t \in Int, NEW q \in Int, NEW b \in Int, t < 4 * b
  PROVE  /\ 2 * i = 4 * q + t => t + 2 <= 4 * b
         /\ 4 * i = 4 * q + t => t + 4 <= 4 * b
OBVIOUS

LEMMA DecodeOneKeeps ==
  ASSUME TableInv, DecodeOne
  PROVE  TableInv'
<1> DEFINE step == EntrySize
<1>1. /\ Decoding /\ format # "fat12"
      /\ cluster_numbers' = [cluster_numbers EXCEPT ![table_index] = Number]
      /\ reversed_cluster_numbers' =
           JoinReversed(reversed_cluster_numbers, Number, Number, table_index)
      /\ table_index' = table_index + 1
      /\ table_data_offset' = table_data_offset + EntrySize
      /\ UNCHANGED <<inputs, boot_record, table_offset, read_size, table_data, result>>
  BY DEF DecodeOne
<1>2. /\ Filling
      /\ BytesPerSector \in Nat \ {0} /\ BytesPerSector % 4 = 0
      /\ NumberOfClusterNumbers \in Nat
      /\ format \in {"fat12", "fat16", "fat32", "exfat"}
      /\ table_index \in Indexes /\ table_index \in Nat
      /\ table_index < NumberOfClusterNumbers
      /\ table_data_offset \in 0 .. BytesPerSector - 1
      /\ table_offset \in Nat /\ table_offset >= BytesPerSector
      /\ table_data \in [0 .. BytesPerSector + 1 -> 0 .. ByteBase - 1]
      /\ \A i \in 0 .. BytesPerSector - 1 :
           table_data[i] = disk[table_offset - BytesPerSector + i]
      /\ ByteBase \in Nat
  BY <1>1, DecodingFacts
<1>3. /\ cluster_numbers \in [Indexes -> Nat]
      /\ format # "exfat" => reversed_cluster_numbers \in [Indexes -> Nat]
  BY <1>2 DEF TableInv, TablesSized
<1>4. /\ \A c \in EntriesWithin(size) : c < table_index => cluster_numbers[c] = StoredEntry(c)
      /\ EntrySize * table_index = table_offset - BytesPerSector + table_data_offset
  BY <1>1, <1>2 DEF TableInv, OnesDecoded, DecodedOnes
<1>5. EntrySize = IF format = "fat16" THEN 2 ELSE 4
  BY DEF EntrySize
<1>6. table_data_offset + EntrySize <= BytesPerSector
  <2>1. \E sectors \in Nat : table_offset = sectors * BytesPerSector
    BY <1>2 DEF TableInv, SectorBuffered
  <2>2. PICK sectors \in Nat : table_offset = sectors * BytesPerSector
    BY <2>1
  <2>3. PICK quads \in Int : BytesPerSector = 4 * quads
    BY <1>2
  <2> DEFINE before == (sectors - 1) * quads
  <2>4. before \in Int /\ table_offset - BytesPerSector = 4 * before
    BY <2>2, <2>3
  <2> HIDE DEF before
  <2>5. CASE EntrySize = 2
    <3>1. 2 * table_index = 4 * before + table_data_offset
      BY <1>4, <2>4, <2>5
    <3>2. table_index \in Int /\ table_data_offset \in Int /\ table_data_offset < 4 * quads
      BY <1>2, <2>3
    <3> QED
      BY <2>3, <2>4, <2>5, <3>1, <3>2, Aligned
  <2>6. CASE EntrySize = 4
    <3>1. 4 * table_index = 4 * before + table_data_offset
      BY <1>4, <2>4, <2>6
    <3>2. table_index \in Int /\ table_data_offset \in Int /\ table_data_offset < 4 * quads
      BY <1>2, <2>3
    <3> QED
      BY <2>3, <2>4, <2>6, <3>1, <3>2, Aligned
  <2> QED
    BY <1>5, <2>5, <2>6
<1>7. ASSUME NEW k \in 0 .. EntrySize - 1
      PROVE  Data(k) = disk[EntrySize * table_index + k] /\ Data(k) \in Nat
  <2>1. /\ table_data_offset + k \in 0 .. BytesPerSector - 1
        /\ table_offset - BytesPerSector + (table_data_offset + k) = EntrySize * table_index + k
    BY <1>2, <1>4, <1>5, <1>6
  <2> QED
    BY <1>2, <2>1 DEF Data
<1>8. Number = StoredEntry(table_index) /\ Number \in Nat
  <2>1. CASE format = "fat16"
    <3>1. EntrySize = 2 /\ 0 \in 0 .. EntrySize - 1 /\ 1 \in 0 .. EntrySize - 1
      BY <1>5, <2>1
    <3>2. /\ Number = Data(0) + ByteBase * Data(1)
          /\ StoredEntry(table_index) = disk[2 * table_index] + ByteBase * disk[2 * table_index + 1]
      BY <2>1, <3>1 DEF Number, StoredEntry, Byte
    <3>3. Data(0) = disk[2 * table_index] /\ Data(1) = disk[2 * table_index + 1]
          /\ Data(0) \in Nat /\ Data(1) \in Nat
      BY <1>2, <1>7, <3>1
    <3>4. ByteBase * Data(1) \in Nat
      BY <1>2, <3>3, Products
    <3> QED
      BY <3>2, <3>3, <3>4
  <2>2. CASE format # "fat16"
    <3>1. /\ EntrySize = 4 /\ 0 \in 0 .. EntrySize - 1 /\ 1 \in 0 .. EntrySize - 1
          /\ 2 \in 0 .. EntrySize - 1 /\ 3 \in 0 .. EntrySize - 1
      BY <1>5, <2>2
    <3>2. /\ Number = Data(0) + ByteBase * (Data(1) + ByteBase * (Data(2) + ByteBase * Data(3)))
          /\ StoredEntry(table_index) =
               disk[4 * table_index] + ByteBase * (disk[4 * table_index + 1]
                 + ByteBase * (disk[4 * table_index + 2]
                   + ByteBase * disk[4 * table_index + 3]))
      BY <1>1, <2>2, <3>1 DEF Number, StoredEntry, Byte
    <3>3. /\ Data(0) = disk[4 * table_index] /\ Data(1) = disk[4 * table_index + 1]
          /\ Data(2) = disk[4 * table_index + 2] /\ Data(3) = disk[4 * table_index + 3]
          /\ Data(0) \in Nat /\ Data(1) \in Nat /\ Data(2) \in Nat /\ Data(3) \in Nat
      BY <1>2, <1>7, <3>1
    <3>4. ByteBase * Data(3) \in Nat
      BY <1>2, <3>3, Products
    <3>5. Data(2) + ByteBase * Data(3) \in Nat
      BY <3>3, <3>4
    <3>6. ByteBase * (Data(2) + ByteBase * Data(3)) \in Nat
      BY <1>2, <3>5, Products
    <3>7. Data(1) + ByteBase * (Data(2) + ByteBase * Data(3)) \in Nat
      BY <3>3, <3>6
    <3>8. ByteBase * (Data(1) + ByteBase * (Data(2) + ByteBase * Data(3))) \in Nat
      BY <1>2, <3>7, Products
    <3> QED
      BY <3>2, <3>3, <3>8
  <2> QED
    BY <2>1, <2>2
<1>9. Decodes
  <2>1. cluster_numbers' \in [Indexes -> Nat]
    BY <1>1, <1>2, <1>3, <1>8
  <2>2. \A c \in Indexes : c < table_index => cluster_numbers'[c] = cluster_numbers[c]
    BY <1>1, <1>2, <1>3
  <2>3. /\ table_index' \in table_index .. NumberOfClusterNumbers
        /\ table_data_offset' \in Nat
    BY <1>1, <1>2, <1>5
  <2> QED
    BY <1>1, <2>1, <2>2, <2>3 DEF Decodes
<1>10. /\ UNCHANGED <<format, size, BytesPerSector, NumberOfClusterNumbers, Indexes, EntrySize>>
       /\ \A c : StoredEntry(c)' = StoredEntry(c)
       /\ \A bytes : EntriesWithin(bytes)' = EntriesWithin(bytes)
  BY <1>1, ConstantsStay
<1>11. cluster_numbers'[table_index] = Number
  BY <1>1, <1>2, <1>3
<1>12. ASSUME format # "exfat"
       PROVE  /\ reversed_cluster_numbers' \in [Indexes -> Nat]
              /\ Leads(reversed_cluster_numbers', cluster_numbers', table_index')
  <2>1. Leads(reversed_cluster_numbers, cluster_numbers, table_index)
    BY <1>2, <1>12 DEF TableInv, ReversedSoFar, Leads
  <2>2. Number <= Number
    BY <1>8
  <2>3. reversed_cluster_numbers \in [Indexes -> Nat]
    BY <1>3, <1>12
  <2>4. \A c \in Indexes : c < table_index => cluster_numbers'[c] = cluster_numbers[c]
    BY <1>9 DEF Decodes
  <2>5. /\ JoinReversed(reversed_cluster_numbers, Number, Number, table_index) \in [Indexes -> Nat]
        /\ Leads(JoinReversed(reversed_cluster_numbers, Number, Number, table_index),
                 cluster_numbers', table_index + 1)
    BY <1>2, <1>8, <1>11, <1>12, <2>1, <2>2, <2>3, <2>4, LeadsOn
  <2> QED
    BY <1>1, <2>5
<1>13. OnesDecoded'
  <2>1. ASSUME NEW c \in EntriesWithin(size), c < table_index + 1
        PROVE  cluster_numbers'[c] = StoredEntry(c)
    <3>1. c \in Indexes /\ c \in Int
      BY <1>2 DEF EntriesWithin, Indexes
    <3>2. CASE c = table_index
      BY <1>8, <1>11, <3>2
    <3>3. CASE c < table_index
      BY <1>4, <1>9, <3>1, <3>3 DEF Decodes
    <3> QED
      BY <1>2, <2>1, <3>1, <3>2, <3>3
  <2>2. /\ table_data_offset + EntrySize <= BytesPerSector
        /\ EntrySize * (table_index + 1)
             = table_offset - BytesPerSector + (table_data_offset + EntrySize)
    BY <1>2, <1>4, <1>5, <1>6
  <2> QED
    BY <1>1, <1>10, <2>1, <2>2 DEF OnesDecoded, DecodedOnes
<1>14. ReversedSoFar'
  BY <1>10, <1>12 DEF ReversedSoFar, Leads
<1>15. PairsDecoded'
  BY <1>1, <1>10 DEF PairsDecoded
<1> QED
  BY <1>9, <1>12, <1>13, <1>14, <1>15, BufferKept DEF TableInv

LEMMA DecodePairKeeps ==
  ASSUME TableInv, DecodePair
  PROVE  TableInv'
<1> DEFINE both   == Data(0) + ByteBase * Data(1) + ByteBase * ByteBase * Data(2)
           first  == both % (ByteBase * NibbleBase)
           second == both \div (ByteBase * NibbleBase)
           once   == JoinReversed(reversed_cluster_numbers, both, first, table_index)
           twice  == JoinReversed(once, second, second, table_index + 1)
<1>1. /\ Decoding /\ format = "fat12"
      /\ table_data_offset' = table_data_offset + 3
      /\ \/ /\ table_index + 1 < NumberOfClusterNumbers
            /\ cluster_numbers' = [cluster_numbers EXCEPT ![table_index] = first,
                                                          ![table_index + 1] = second]
            /\ reversed_cluster_numbers' = twice
            /\ table_index' = table_index + 2
         \/ /\ table_index + 1 = NumberOfClusterNumbers
            /\ cluster_numbers' = [cluster_numbers EXCEPT ![table_index] = first]
            /\ reversed_cluster_numbers' = once
            /\ table_index' = table_index + 1
      /\ UNCHANGED <<inputs, boot_record, table_offset, read_size, table_data, result>>
  BY DEF DecodePair
<1>2. /\ Filling
      /\ BytesPerSector \in Nat \ {0}
      /\ NumberOfClusterNumbers \in Nat
      /\ table_index \in Indexes /\ table_index \in Nat
      /\ table_index < NumberOfClusterNumbers
      /\ table_data_offset \in 0 .. BytesPerSector - 1
      /\ table_offset \in Nat /\ table_offset >= BytesPerSector
      /\ table_data \in [0 .. BytesPerSector + 1 -> 0 .. ByteBase - 1]
      /\ \A i \in 0 .. BytesPerSector - 1 :
           table_data[i] = disk[table_offset - BytesPerSector + i]
  BY <1>1, DecodingFacts
<1>3. /\ cluster_numbers \in [Indexes -> Nat]
      /\ reversed_cluster_numbers \in [Indexes -> Nat]
  BY <1>1, <1>2 DEF TableInv, TablesSized
<1>4. /\ Data(0) \in 0 .. ByteBase - 1
      /\ Data(1) \in 0 .. ByteBase - 1
      /\ Data(2) \in 0 .. ByteBase - 1
  BY <1>2 DEF Data
<1>5. /\ both \in Nat /\ first \in 0 .. both /\ second \in Nat
      /\ first = (Data(0) % NibbleBase) + NibbleBase * (Data(0) \div NibbleBase
                                          + NibbleBase * (Data(1) % NibbleBase))
      /\ second = Data(1) \div NibbleBase + NibbleBase * ((Data(2) % NibbleBase)
                                          + NibbleBase * (Data(2) \div NibbleBase))
  <2> DEFINE d0 == Data(0)
             d1 == Data(1)
             d2 == Data(2)
  <2>1. d0 \in 0 .. ByteBase - 1 /\ d1 \in 0 .. ByteBase - 1 /\ d2 \in 0 .. ByteBase - 1
        /\ both = d0 + ByteBase * d1 + ByteBase * ByteBase * d2
    BY <1>4
  <2> HIDE DEF d0, d1, d2, both
  <2>2. /\ both \in Nat /\ first \in 0 .. both /\ second \in Nat
        /\ first = (d0 % NibbleBase) + NibbleBase * (d0 \div NibbleBase
                                          + NibbleBase * (d1 % NibbleBase))
        /\ second = d1 \div NibbleBase + NibbleBase * ((d2 % NibbleBase)
                                          + NibbleBase * (d2 \div NibbleBase))
    BY <2>1, TwoOfThreeDigits
  <2> QED
    BY <2>2 DEF d0, d1, d2
<1> HIDE DEF both, first, second
<1>6. /\ \A c \in EntriesWithin(BytesPerSector) :
           c < table_index => cluster_numbers[c] = StoredEntry(c)
      /\ table_offset = BytesPerSector =>
           \E pairs \in Nat : table_index = 2 * pairs /\ table_data_offset = 3 * pairs
      /\ table_offset > BytesPerSector =>
           \A c \in EntriesWithin(BytesPerSector) : c < table_index
  BY <1>1, <1>2 DEF TableInv, PairsDecoded
<1>7. /\ \A c \in EntriesWithin(BytesPerSector) :
           c \in Nat /\ c \in Indexes /\ 3 * c + 3 <= 2 * BytesPerSector
      /\ \A c \in Indexes : c \in Nat /\ c < NumberOfClusterNumbers
  BY <1>1, <1>2 DEF EntriesWithin, Indexes
<1>8. /\ first \in Nat /\ first <= both
      /\ cluster_numbers'[table_index] = first
      /\ table_index + 1 < NumberOfClusterNumbers =>
           table_index + 1 \in Indexes /\ cluster_numbers'[table_index + 1] = second
  <2>1. table_index + 1 < NumberOfClusterNumbers => table_index + 1 \in Indexes
    BY <1>2 DEF Indexes
  <2>2. first \in Nat /\ first <= both
    BY <1>5
  <2>3. CASE table_index + 1 < NumberOfClusterNumbers
    BY <1>1, <1>2, <1>3, <2>1, <2>2, <2>3
  <2>4. CASE table_index + 1 = NumberOfClusterNumbers
    BY <1>1, <1>2, <1>3, <2>2, <2>4
  <2> QED
    BY <1>1, <2>3, <2>4
<1>9. Decodes
  <2>1. CASE table_index + 1 < NumberOfClusterNumbers
    <3>1. cluster_numbers' = [cluster_numbers EXCEPT ![table_index] = first,
                                                     ![table_index + 1] = second]
          /\ table_index' = table_index + 2
      BY <1>1, <1>2, <2>1
    <3>2. cluster_numbers' \in [Indexes -> Nat]
      BY <1>2, <1>3, <1>5, <1>8, <2>1, <3>1
    <3>3. \A c \in Indexes : c < table_index => cluster_numbers'[c] = cluster_numbers[c]
      BY <1>2, <1>3, <1>7, <3>1
    <3>4. table_index' \in table_index .. NumberOfClusterNumbers /\ table_data_offset' \in Nat
      BY <1>1, <1>2, <2>1, <3>1
    <3> QED
      BY <1>1, <3>2, <3>3, <3>4 DEF Decodes
  <2>2. CASE table_index + 1 = NumberOfClusterNumbers
    <3>1. cluster_numbers' = [cluster_numbers EXCEPT ![table_index] = first]
          /\ table_index' = table_index + 1
      BY <1>1, <1>2, <2>2
    <3>2. cluster_numbers' \in [Indexes -> Nat]
      BY <1>2, <1>3, <1>8, <3>1
    <3>3. \A c \in Indexes : c < table_index => cluster_numbers'[c] = cluster_numbers[c]
      BY <1>2, <1>3, <1>7, <3>1
    <3>4. table_index' \in table_index .. NumberOfClusterNumbers /\ table_data_offset' \in Nat
      BY <1>1, <1>2, <2>2, <3>1
    <3> QED
      BY <1>1, <3>2, <3>3, <3>4 DEF Decodes
  <2> QED
    BY <1>1, <2>1, <2>2
<1>10. /\ UNCHANGED <<format, size, BytesPerSector, NumberOfClusterNumbers, Indexes, EntrySize>>
       /\ \A c : StoredEntry(c)' = StoredEntry(c)
       /\ \A bytes : EntriesWithin(bytes)' = EntriesWithin(bytes)
  BY <1>1, ConstantsStay
<1>11. table_index' = IF table_index + 1 < NumberOfClusterNumbers
                      THEN table_index + 2 ELSE table_index + 1
  BY <1>1, <1>2
<1>12. /\ once \in [Indexes -> Nat]
       /\ Leads(once, cluster_numbers', table_index + 1)
  <2>1. Leads(reversed_cluster_numbers, cluster_numbers, table_index)
    BY <1>1, <1>2 DEF TableInv, ReversedSoFar, Leads
  <2>2. \A c \in Indexes : c < table_index => cluster_numbers'[c] = cluster_numbers[c]
    BY <1>9 DEF Decodes
  <2>3. format # "exfat" /\ (format # "fat12" => both = first)
    BY <1>1
  <2>4. /\ JoinReversed(reversed_cluster_numbers, both, first, table_index) \in [Indexes -> Nat]
        /\ Leads(JoinReversed(reversed_cluster_numbers, both, first, table_index),
                 cluster_numbers', table_index + 1)
    <3> HIDE DEF once, twice
    <3> QED
      BY <1>2, <1>3, <1>5, <1>8, <2>1, <2>2, <2>3, LeadsOn
  <2> QED
    BY <2>4
<1> HIDE DEF once
<1>13. ASSUME table_index + 1 < NumberOfClusterNumbers
       PROVE  /\ twice \in [Indexes -> Nat]
              /\ Leads(twice, cluster_numbers', table_index + 1 + 1)
  <2>1. second <= second
    BY <1>5
  <2> QED
    BY <1>1, <1>2, <1>5, <1>8, <1>12, <1>13, <2>1, LeadsOn
<1> HIDE DEF twice
<1>14. /\ reversed_cluster_numbers' \in [Indexes -> Nat]
       /\ Leads(reversed_cluster_numbers', cluster_numbers', table_index')
  <2>1. CASE table_index + 1 < NumberOfClusterNumbers
    <3>1. reversed_cluster_numbers' = twice /\ table_index' = table_index + 1 + 1
      BY <1>1, <1>2, <2>1
    <3> QED
      BY <1>13, <2>1, <3>1
  <2>2. CASE table_index + 1 = NumberOfClusterNumbers
    <3>1. reversed_cluster_numbers' = once /\ table_index' = table_index + 1
      BY <1>1, <1>2, <2>2
    <3> QED
      BY <1>12, <3>1
  <2> QED
    BY <1>1, <2>1, <2>2
<1>15. ASSUME table_offset = BytesPerSector
       PROVE  /\ table_index \in EntriesWithin(BytesPerSector) => first = StoredEntry(table_index)
              /\ table_index + 1 \in EntriesWithin(BytesPerSector) =>
                   second = StoredEntry(table_index + 1)
  <2>1. PICK pairs \in Nat : table_index = 2 * pairs /\ table_data_offset = 3 * pairs
    BY <1>6, <1>15
  <2>2. \A i \in 0 .. BytesPerSector - 1 : table_data[i] = disk[i]
    BY <1>2, <1>15
  <2>3. \A c : StoredEntry(c) = Digit(3 * c) + NibbleBase * (Digit(3 * c + 1)
                                       + NibbleBase * Digit(3 * c + 2))
    BY <1>1 DEF StoredEntry
  <2>4. ASSUME table_index \in EntriesWithin(BytesPerSector)
        PROVE  first = StoredEntry(table_index)
    <3>1. 3 * pairs + 1 \in 0 .. BytesPerSector - 1 /\ 3 * pairs \in 0 .. BytesPerSector - 1
      BY <1>2, <1>7, <2>1, <2>4
    <3>2. Data(0) = disk[3 * pairs] /\ Data(1) = disk[3 * pairs + 1]
      <4>1. Data(0) = table_data[3 * pairs] /\ Data(1) = table_data[3 * pairs + 1]
        BY <2>1 DEF Data
      <4> QED
        BY <2>2, <3>1, <4>1
    <3>3. /\ 3 * table_index = 6 * pairs
          /\ (6 * pairs) % 2 = 0 /\ (6 * pairs) \div 2 = 3 * pairs
          /\ (6 * pairs + 1) % 2 # 0 /\ (6 * pairs + 1) \div 2 = 3 * pairs
          /\ (6 * pairs + 2) % 2 = 0 /\ (6 * pairs + 2) \div 2 = 3 * pairs + 1
      BY <2>1
    <3>4. /\ Digit(6 * pairs) = disk[3 * pairs] % NibbleBase
          /\ Digit(6 * pairs + 1) = disk[3 * pairs] \div NibbleBase
          /\ Digit(6 * pairs + 2) = disk[3 * pairs + 1] % NibbleBase
      BY <3>3 DEF Digit
    <3>5. StoredEntry(table_index) = Digit(6 * pairs) + NibbleBase * (Digit(6 * pairs + 1)
                                                + NibbleBase * Digit(6 * pairs + 2))
      BY <2>3, <3>3
    <3> QED
      BY <1>5, <3>2, <3>4, <3>5
  <2>5. ASSUME table_index + 1 \in EntriesWithin(BytesPerSector)
        PROVE  second = StoredEntry(table_index + 1)
    <3>1. 3 * pairs + 1 \in 0 .. BytesPerSector - 1 /\ 3 * pairs + 2 \in 0 .. BytesPerSector - 1
      BY SMTT(30), <1>2, <1>7, <2>1, <2>5
    <3>2. Data(1) = disk[3 * pairs + 1] /\ Data(2) = disk[3 * pairs + 2]
      <4>1. Data(1) = table_data[3 * pairs + 1] /\ Data(2) = table_data[3 * pairs + 2]
        BY <2>1 DEF Data
      <4> QED
        BY <2>2, <3>1, <4>1
    <3>3. /\ 3 * (table_index + 1) = 6 * pairs + 3
          /\ 6 * pairs + 3 + 1 = 6 * pairs + 4 /\ 6 * pairs + 3 + 2 = 6 * pairs + 5
          /\ (6 * pairs + 3) % 2 # 0 /\ (6 * pairs + 3) \div 2 = 3 * pairs + 1
          /\ (6 * pairs + 4) % 2 = 0 /\ (6 * pairs + 4) \div 2 = 3 * pairs + 2
          /\ (6 * pairs + 5) % 2 # 0 /\ (6 * pairs + 5) \div 2 = 3 * pairs + 2
      BY <2>1
    <3>4. /\ Digit(6 * pairs + 3) = disk[3 * pairs + 1] \div NibbleBase
          /\ Digit(6 * pairs + 4) = disk[3 * pairs + 2] % NibbleBase
          /\ Digit(6 * pairs + 5) = disk[3 * pairs + 2] \div NibbleBase
      BY <3>3 DEF Digit
    <3>5. StoredEntry(table_index + 1) = Digit(6 * pairs + 3) + NibbleBase * (Digit(6 * pairs + 4)
                                                + NibbleBase * Digit(6 * pairs + 5))
      BY <2>3, <3>3
    <3> QED
      BY <1>5, <3>2, <3>4, <3>5
  <2> QED
    BY <2>4, <2>5
<1>16. PairsDecoded'
  <2>1. ASSUME NEW c \in EntriesWithin(BytesPerSector), c < table_index'
        PROVE  cluster_numbers'[c] = StoredEntry(c)
    <3>1. CASE c < table_index
      BY <1>6, <1>7, <1>9, <3>1 DEF Decodes
    <3>2. CASE c >= table_index
      <4>1. table_offset = BytesPerSector
        BY <1>2, <1>6, <1>7, <3>2
      <4>2. c = table_index \/ c = table_index + 1
        <5>1. c \in Nat
          BY <1>7
        <5>2. table_index' \in Nat /\ table_index' <= table_index + 2
          BY <1>2, <1>11
        <5> QED
          BY <1>2, <2>1, <3>2, <5>1, <5>2
      <4>3. CASE c = table_index
        BY <1>8, <1>15, <4>1, <4>3
      <4>4. CASE c = table_index + 1
        BY <1>7, <1>8, <1>15, <4>1, <4>4
      <4> QED
        BY <4>2, <4>3, <4>4
    <3> QED
      BY <1>2, <1>7, <3>1, <3>2
  <2>2. ASSUME table_offset = BytesPerSector, table_index' < NumberOfClusterNumbers
        PROVE  \E pairs \in Nat : table_index' = 2 * pairs /\ table_data_offset' = 3 * pairs
    <3>1. PICK pairs \in Nat : table_index = 2 * pairs /\ table_data_offset = 3 * pairs
      BY <1>6, <2>2
    <3>2. /\ table_index' = 2 * (pairs + 1) /\ table_data_offset' = 3 * (pairs + 1)
          /\ pairs + 1 \in Nat
      BY <1>1, <1>2, <1>11, <2>2, <3>1
    <3> QED
      BY <3>2
  <2>3. ASSUME table_offset > BytesPerSector, NEW c \in EntriesWithin(BytesPerSector)
        PROVE  c < table_index'
    BY <1>2, <1>6, <1>7, <1>11, <2>3
  <2> QED
    BY <1>1, <1>10, <2>1, <2>2, <2>3 DEF PairsDecoded
<1>17. OnesDecoded'
  BY <1>1, <1>10 DEF OnesDecoded
<1>18. ReversedSoFar'
  BY <1>10, <1>14 DEF ReversedSoFar, Leads
<1> QED
  BY <1>9, <1>14, <1>16, <1>17, <1>18, BufferKept DEF TableInv

LEMMA TableInvKept == TableInv /\ [Next]_vars => TableInv'
<1> SUFFICES ASSUME TableInv, [Next]_vars PROVE TableInv'
  OBVIOUS
<1>1. CASE TableNext
  BY <1>1, StopsKeep, InitializeKeeps, ReadSectorKeeps, FinishKeeps, DecodePairKeeps,
     DecodeOneKeeps DEF TableNext
<1>2. CASE UNCHANGED tableVars
  <2>1. UNCHANGED <<inputs, boot_record, table_offset, read_size, table_data,
                    table_data_offset, table_index, cluster_numbers,
                    reversed_cluster_numbers, result>>
    BY <1>2 DEF tableVars, tables
  <2>2. UNCHANGED <<Opened, Filling>> /\ result' = result
    BY <2>1 DEF Opened, Filling
  <2>3. BootRecordRead'
    BY <2>1, BootRecordReadKept DEF TableInv
  <2>4. /\ UNCHANGED <<format, size, BytesPerSector, NumberOfClusterNumbers, Indexes,
                       EntrySize, SizeAllowed, disk>>
        /\ \A c : StoredEntry(c)' = StoredEntry(c)
        /\ \A bytes : EntriesWithin(bytes)' = EntriesWithin(bytes)
    BY <2>1, ConstantsStay
  <2>5. TablesSized'
    BY <2>1, <2>2, <2>4 DEF TableInv, TablesSized
  <2>6. SectorBuffered'
    BY <2>1, <2>2, <2>4 DEF TableInv, SectorBuffered
  <2>7. OnesDecoded'
    BY <2>1, <2>2, <2>4 DEF TableInv, OnesDecoded, DecodedOnes
  <2>8. PairsDecoded'
    BY <2>1, <2>2, <2>4 DEF TableInv, PairsDecoded
  <2>9. ReversedSoFar'
    BY <2>1, <2>2, <2>4 DEF TableInv, ReversedSoFar
  <2> QED
    BY <2>3, <2>5, <2>6, <2>7, <2>8, <2>9 DEF TableInv
<1> QED
  BY <1>1, <1>2 DEF Next, vars

THEOREM TableInvariant == Spec => []TableInv
<1> QED
  BY TableInvStarts, TableInvKept, PTL DEF Spec

-----------------------------------------------------------------------------
(***************************************************************************)
(* The theorems.                                                           *)
(***************************************************************************)

LEMMA AllDecoded ==
  ASSUME BootRecordRead, TablesSized, SectorBuffered, OnesDecoded, PairsDecoded,
         result = "table", SectorDecoded, table_offset >= size
  PROVE  TableDecoded
<1>1. Filling /\ Opened
  BY DEF Filling, Opened
<1>2. /\ BytesPerSector \in Nat \ {0} /\ NumberOfClusterNumbers \in Nat
      /\ format \in {"fat12", "fat16", "fat32", "exfat"}
  BY <1>1, RecordFacts
<1>3. /\ read_size = BytesPerSector /\ table_data_offset \in Nat
      /\ \E sectors \in Nat : table_offset = sectors * BytesPerSector
      /\ table_offset <= size
      /\ table_offset = 0 => table_index = 0 /\ table_data_offset = BytesPerSector
      /\ table_index \in 0 .. NumberOfClusterNumbers
  BY <1>1 DEF SectorBuffered, TablesSized
<1>4. size \in Nat /\ table_offset = size
  <2>1. size \in Nat
    <3>1. PICK sectors \in Nat : size = sectors * BytesPerSector
      BY <1>1, RecordFacts
    <3> QED
      BY <1>2, <3>1, Products
  <2>2. table_offset \in Nat
    BY <1>2, <1>3, Products
  <2> QED
    BY <1>3, <2>1, <2>2
<1>5. table_index < NumberOfClusterNumbers => table_data_offset >= BytesPerSector
  BY <1>2, <1>3 DEF SectorDecoded
<1>6. \A bytes : \A c \in EntriesWithin(bytes) : c \in Nat /\ c < NumberOfClusterNumbers
  BY <1>2 DEF EntriesWithin, Indexes
<1>7. CASE format # "fat12"
  <2>1. \A c \in EntriesWithin(size) : c < table_index => cluster_numbers[c] = StoredEntry(c)
    BY <1>1, <1>7 DEF OnesDecoded
  <2>2. ASSUME NEW c \in EntriesWithin(size) PROVE c < table_index
    <3>1. CASE table_index = NumberOfClusterNumbers
      BY <1>6, <3>1
    <3>2. CASE table_index < NumberOfClusterNumbers
      <4>1. EntrySize * table_index = table_offset - BytesPerSector + table_data_offset
            /\ table_data_offset = BytesPerSector
        BY <1>1, <1>2, <1>3, <1>5, <1>7, <3>2 DEF OnesDecoded, DecodedOnes
      <4>2. EntrySize * table_index = size
        BY <1>2, <1>4, <4>1
      <4>3. EntrySize * (c + 1) <= size /\ c \in Nat
        BY <1>6, <1>7 DEF EntriesWithin
      <4>4. EntrySize = 2 \/ EntrySize = 4
        BY DEF EntrySize
      <4>5. CASE EntrySize = 2
        BY <1>3, <4>2, <4>3, <4>5
      <4>6. CASE EntrySize = 4
        BY <1>3, <4>2, <4>3, <4>6
      <4> QED
        BY <4>4, <4>5, <4>6
    <3> QED
      BY <1>2, <1>3, <3>1, <3>2
  <2> QED
    BY <1>7, <2>1, <2>2 DEF TableDecoded
<1>8. CASE format = "fat12"
  <2>1. /\ \A c \in EntriesWithin(BytesPerSector) :
             c < table_index => cluster_numbers[c] = StoredEntry(c)
        /\ table_offset = BytesPerSector /\ table_index < NumberOfClusterNumbers =>
             \E pairs \in Nat : table_index = 2 * pairs /\ table_data_offset = 3 * pairs
        /\ table_offset > BytesPerSector =>
             \A c \in EntriesWithin(BytesPerSector) : c < table_index
    BY <1>1, <1>8 DEF PairsDecoded
  <2>2. \A bytes : \A c \in EntriesWithin(bytes) : 3 * c + 3 <= 2 * bytes
    BY <1>8 DEF EntriesWithin
  <2>3. ASSUME size > BytesPerSector
        PROVE  \A c \in EntriesWithin(BytesPerSector) : cluster_numbers[c] = StoredEntry(c)
    BY <1>2, <1>4, <2>1, <2>3
  <2>4. ASSUME ~ (size > BytesPerSector), NEW c \in EntriesWithin(size)
        PROVE  cluster_numbers[c] = StoredEntry(c)
    <3>1. c \in Nat /\ c < NumberOfClusterNumbers /\ 3 * c + 3 <= 2 * size
      BY <1>6, <2>2
    <3>2. size # 0
      BY <3>1
    <3>3. size = BytesPerSector
      <4>1. PICK sectors \in Nat : table_offset = sectors * BytesPerSector
        BY <1>3
      <4>2. sectors # 0
        BY <1>2, <1>4, <3>2, <4>1
      <4>3. 1 * BytesPerSector <= sectors * BytesPerSector
        BY <1>2, <4>2, ProductsGrow
      <4> QED
        BY <1>2, <1>4, <2>4, <4>1, <4>3
    <3>4. c \in EntriesWithin(BytesPerSector)
      BY <3>3
    <3>5. c < table_index
      <4>1. CASE table_index = NumberOfClusterNumbers
        BY <3>1, <4>1
      <4>2. CASE table_index < NumberOfClusterNumbers
        <5>1. PICK pairs \in Nat : table_index = 2 * pairs /\ table_data_offset = 3 * pairs
          BY <1>4, <2>1, <3>3, <4>2
        <5> QED
          BY <1>2, <1>5, <3>1, <3>3, <4>2, <5>1
      <4> QED
        BY <1>2, <1>3, <4>1, <4>2
    <3> QED
      BY <2>1, <3>4, <3>5
  <2> QED
    BY <1>8, <2>3, <2>4 DEF TableDecoded
<1> QED
  BY <1>7, <1>8

(* The table is finished in the step that finds all of it read.            *)
Finished == result = "table" => SectorDecoded /\ table_offset >= size

LEMMA FinishedKept == Finished /\ [Next]_vars => Finished'
<1> SUFFICES ASSUME Finished, [Next]_vars PROVE Finished'
  OBVIOUS
<1>1. CASE TableNext
  <2>1. CASE Finish
    <3>1. SectorDecoded /\ table_offset >= size /\ UNCHANGED <<inputs, boot_record, tables>>
      BY <2>1 DEF Finish
    <3>2. UNCHANGED <<table_offset, read_size, table_data_offset, table_index>>
      BY <3>1 DEF tables
    <3>3. UNCHANGED <<size, NumberOfClusterNumbers>>
      BY <3>1, ConstantsStay
    <3>4. UNCHANGED SectorDecoded
      BY <3>2, <3>3 DEF SectorDecoded
    <3> QED
      BY <3>1, <3>2, <3>3, <3>4 DEF Finished
  <2>2. CASE ~ Finish
    <3>1. result' # "table"
      BY <1>1, <2>2 DEF TableNext, GetBootRecord, FailBootRecord, InitializeTables, FailTables,
         ReadSector, FailRead, DecodePair, DecodeOne, Decoding
    <3> QED
      BY <3>1 DEF Finished
  <2> QED
    BY <2>1, <2>2
<1>2. CASE UNCHANGED tableVars
  <2>1. UNCHANGED <<inputs, boot_record, table_offset, read_size, table_data_offset,
                    table_index, result>>
    BY <1>2 DEF tableVars, tables
  <2>2. UNCHANGED <<size, NumberOfClusterNumbers>>
    BY <2>1, ConstantsStay
  <2>3. UNCHANGED SectorDecoded
    BY <2>1, <2>2 DEF SectorDecoded
  <2> QED
    BY <2>1, <2>2, <2>3 DEF Finished
<1> QED
  BY <1>1, <1>2 DEF Next, vars

(* Every entry of sixteen bits is decoded as it is stored, and so is every *)
(* entry of thirty-two bits of exFAT and of FAT-32 whose upper four bits   *)
(* are not set, however many sectors, clusters and values there are, and   *)
(* of twelve bits every entry that lies in the first sector                *)
(* (libfsfat_allocation_table_read_file_io_handle).                        *)
THEOREM TableIsDecoded == Spec => []TableDecoded
<1>1. Init => Finished
  BY DEF Init, TableInit, NoTables, Finished
<1>2. TableInv /\ Finished => TableDecoded
  <2>1. CASE result = "table"
    BY <2>1, AllDecoded DEF TableInv, Finished
  <2>2. CASE result # "table"
    BY <2>2 DEF TableDecoded
  <2> QED
    BY <2>1, <2>2
<1> QED
  BY <1>1, <1>2, FinishedKept, TableInvariant, PTL DEF Spec

(* The reversed table leads from a cluster back to an entry that names it, *)
(* whatever the table holds: chains that meet, loops, and numbers that are *)
(* no clusters (libfsfat_allocation_table.c:344).                          *)
THEOREM ReversedTableLeadsBack == Spec => []ReversedLeadsBack
<1>1. TableInv => ReversedLeadsBack
  BY DEF TableInv, ReversedSoFar, ReversedLeadsBack, Filling
<1> QED
  BY <1>1, TableInvariant, PTL

(* The number of clusters, and the format with it, is that of the          *)
(* documentation up to the clusters of the root directory, for every boot  *)
(* sector, whatever its numbers do at the limits of 32 and of 64 bits      *)
(* (libfsfat_boot_record.c:812).                                           *)
THEOREM ClustersAreCounted == Spec => []ClustersCounted
<1>1. TableInv => ClustersCounted
  BY ClustersCountedNow DEF TableInv
<1> QED
  BY <1>1, TableInvariant, PTL

-----------------------------------------------------------------------------
(***************************************************************************)
(* The calendar: the days before a year and before a month, in closed      *)
(* form, what the loops and sums of libfsfat_date_time.c and               *)
(* pyfsfat_datetime.c count in days.                                       *)
(***************************************************************************)

(* What fails for a number fails for a least one first.                    *)
LEMMA FirstNatural ==
  ASSUME NEW S, S \subseteq Nat, S # {}
  PROVE  \E i \in S : \A j \in S : i <= j
<1>1. IsWellFoundedOn(OpToRel(<, Nat), Nat)
  BY NatLessThanWellFounded
<1>2. PICK i \in S : \A j \in S : ~ (<<j, i>> \in OpToRel(<, Nat))
  BY <1>1, WFMin
<1>3. \A j \in S : ~ (j < i)
  BY <1>2 DEF OpToRel
<1> QED BY <1>3

(* The days of the years before a year.                                    *)
DaysToYear(year) == 365 * year + (year + 3) \div 4 - (year + 99) \div 100 + (year + 399) \div 400

(* A year is one of 365 or 366 days, by the rule of DaysInYear             *)
(* (libfsfat_date_time.c, pyfsfat_datetime.c).                             *)
LEMMA YearByYear ==
  ASSUME NEW year \in Nat
  PROVE  /\ DaysToYear(year) \in Nat
         /\ DaysInYear(year) \in {365, 366}
         /\ DaysToYear(year + 1) = DaysToYear(year) + DaysInYear(year)
<1>1. (year + 4) \div 4 = (year + 3) \div 4 + (IF year % 4 = 0 THEN 1 ELSE 0)
  OBVIOUS
<1>2. (year + 100) \div 100 = (year + 99) \div 100 + (IF year % 100 = 0 THEN 1 ELSE 0)
  OBVIOUS
<1>3. (year + 400) \div 400 = (year + 399) \div 400 + (IF year % 400 = 0 THEN 1 ELSE 0)
  OBVIOUS
<1>4. year % 400 = 0 => year % 100 = 0
  OBVIOUS
<1>5. year % 100 = 0 => year % 4 = 0
  OBVIOUS
<1>6. DaysToYear(year) \in Nat
  BY DEF DaysToYear
<1>7. /\ year + 1 + 3 = year + 4 /\ year + 1 + 99 = year + 100 /\ year + 1 + 399 = year + 400
  OBVIOUS
<1>8. DaysToYear(year + 1) = 365 * year + 365 + (year + 4) \div 4 - (year + 100) \div 100
                               + (year + 400) \div 400
  BY <1>7 DEF DaysToYear
<1>9. /\ (year + 3) \div 4 \in Int
      /\ (year + 99) \div 100 \in Int
      /\ (year + 399) \div 400 \in Int
  OBVIOUS
<1> QED
  BY <1>1, <1>2, <1>3, <1>4, <1>5, <1>6, <1>8, <1>9 DEF DaysToYear, DaysInYear, IsLeapYear

(* A century that starts with a year of two noughts is as long as the loop *)
(* over centuries takes it to be (pyfsfat_datetime.c).                     *)
LEMMA CenturyByCentury ==
  ASSUME NEW year \in Nat
  PROVE  /\ DaysInCentury(year) \in {36524, 36525}
         /\ year % 100 = 0 =>
              /\ (year + 100) % 100 = 0
              /\ DaysToYear(year + 100) = DaysToYear(year) + DaysInCentury(year)
<1>1. DaysInCentury(year) \in {36524, 36525}
  BY DEF DaysInCentury
<1>2. (year + 100) % 100 = year % 100
  OBVIOUS
<1>3. ASSUME year % 100 = 0
      PROVE  DaysToYear(year + 100) = DaysToYear(year) + DaysInCentury(year)
  <2>1. (year + 103) \div 4 = (year + 3) \div 4 + 25
    OBVIOUS
  <2>2. (year + 199) \div 100 = (year + 99) \div 100 + 1
    OBVIOUS
  <2>3. (year + 499) \div 400 = (year + 399) \div 400 + (IF year % 400 = 0 THEN 1 ELSE 0)
    BY <1>3
  <2>4. year + 100 + 3 = year + 103 /\ year + 100 + 99 = year + 199 /\ year + 100 + 399 = year + 499
    OBVIOUS
  <2>5. DaysToYear(year + 100) = 365 * year + 36500 + (year + 103) \div 4
                                 - (year + 199) \div 100 + (year + 499) \div 400
    BY <2>4 DEF DaysToYear
  <2>6. /\ (year + 3) \div 4 \in Int
        /\ (year + 99) \div 100 \in Int
        /\ (year + 399) \div 400 \in Int
    OBVIOUS
  <2> QED
    BY <2>1, <2>2, <2>3, <2>5, <2>6 DEF DaysToYear, DaysInCentury
<1> QED
  BY <1>1, <1>2, <1>3

(* The days of a year before a month, and before a thirteenth.             *)
DaysToMonth(month, year) ==
  IF month <= 1 THEN 0
  ELSE IF month = 2 THEN 31
  ELSE 31 + DaysInMonth(2, year) + (153 * (IF month <= 13 THEN month - 3 ELSE 10) + 2) \div 5

(* Up to each month, and past the last, the days of the months add up.     *)
LEMMA MonthByMonth ==
  ASSUME NEW year \in Nat, NEW month \in Nat
  PROVE  /\ DaysToMonth(month, year) \in Nat
         /\ DaysInMonth(month, year) \in Nat
         /\ DaysToMonth(month + 1, year) = DaysToMonth(month, year) + DaysInMonth(month, year)
<1>1. DaysInMonth(2, year) \in {28, 29}
  BY DEF DaysInMonth
<1>2. CASE month >= 14
  BY <1>1, <1>2 DEF DaysToMonth, DaysInMonth
<1>3. CASE month = 0
  BY <1>3 DEF DaysToMonth, DaysInMonth
<1>4. CASE month = 1
  BY <1>4 DEF DaysToMonth, DaysInMonth
<1>5. CASE month = 2
  BY <1>1, <1>5 DEF DaysToMonth
<1>6. CASE month \in {3, 4, 5, 6, 7, 8, 9, 10, 11, 12, 13}
  BY <1>1, <1>6 DEF DaysToMonth, DaysInMonth
<1> QED
  BY <1>2, <1>3, <1>4, <1>5, <1>6

(* The months of the calendar have 28 to 31 days.                          *)
LEMMA MonthLength ==
  ASSUME NEW year \in Nat, NEW month \in 1 .. 12
  PROVE  DaysInMonth(month, year) >= 28 /\ DaysInMonth(month, year) <= 31
BY DEF DaysInMonth

(* The twelve months fill the year.                                        *)
LEMMA YearOfMonths ==
  ASSUME NEW year \in Nat
  PROVE  DaysToMonth(1, year) = 0 /\ DaysToMonth(13, year) = DaysInYear(year)
BY DEF DaysToMonth, DaysInMonth, DaysInYear

(* The number of a day of the calendar is the days before its year and     *)
(* before its month, up to a constant.                                     *)
LEMMA NumberOfDay ==
  ASSUME NEW year \in Nat, year >= 1, NEW month \in 1 .. 12, NEW day \in Nat
  PROVE  DayNumber(year, month, day) = DaysToYear(year) + DaysToMonth(month, year) + day - 60
<1>1. DaysInMonth(2, year) = DaysInYear(year) - 337 /\ DaysInYear(year) \in Nat
  BY DEF DaysInMonth, DaysInYear
<1>2. DaysToYear(year + 1) = DaysToYear(year) + DaysInYear(year)
      /\ DaysToYear(year) \in Nat
  BY YearByYear
<1>3. (year - 1) \div 4 = (year + 3) \div 4 - 1
      /\ (year - 1) \div 100 = (year + 99) \div 100 - 1
      /\ (year - 1) \div 400 = (year + 399) \div 400 - 1
  OBVIOUS
<1>4. /\ (year + 1 + 3) \div 4 = year \div 4 + 1
      /\ (year + 1 + 99) \div 100 = year \div 100 + 1
      /\ (year + 1 + 399) \div 400 = year \div 400 + 1
  OBVIOUS
<1>5. /\ year \div 4 \in Int /\ year \div 100 \in Int /\ year \div 400 \in Int
      /\ (year + 3) \div 4 \in Int
      /\ (year + 99) \div 100 \in Int
      /\ (year + 399) \div 400 \in Int
  OBVIOUS
<1>6. CASE month <= 2
  <2>1. DayNumber(year, month, day)
          = 365 * (year - 1) + (year - 1) \div 4 - (year - 1) \div 100 + (year - 1) \div 400
              + (153 * (month + 9) + 2) \div 5 + day
    BY <1>6 DEF DayNumber
  <2>2. (153 * (month + 9) + 2) \div 5 = (IF month = 1 THEN 306 ELSE 337)
    BY <1>6
  <2>3. DaysToMonth(month, year) = (IF month = 1 THEN 0 ELSE 31)
    BY <1>6 DEF DaysToMonth
  <2>4. DaysToYear(year) = 365 * year + (year + 3) \div 4 - (year + 99) \div 100 + (year + 399) \div 400
    BY DEF DaysToYear
  <2> QED
    BY <1>3, <1>5, <2>1, <2>2, <2>3, <2>4
<1>7. CASE month >= 3
  <2>1. DayNumber(year, month, day)
          = 365 * year + year \div 4 - year \div 100 + year \div 400
              + (153 * (month - 3) + 2) \div 5 + day
    BY <1>7 DEF DayNumber
  <2>2. DaysToMonth(month, year) = 31 + DaysInMonth(2, year) + (153 * (month - 3) + 2) \div 5
    BY <1>7 DEF DaysToMonth
  <2>3. DaysToYear(year + 1)
          = 365 * (year + 1) + (year \div 4 + 1) - (year \div 100 + 1) + (year \div 400 + 1)
    BY <1>4 DEF DaysToYear
  <2>4. (153 * (month - 3) + 2) \div 5 \in Int
    OBVIOUS
  <2> QED
    BY <1>1, <1>2, <1>5, <2>1, <2>2, <2>3, <2>4
<1> QED
  BY <1>6, <1>7

(* A loop that leads on from p by next until it stops; trace[p] is where   *)
(* it would be after each number of rounds.                                *)
Loop(S, Stops, next, trace) ==
  /\ next \in [S -> S]
  /\ \A p \in S : trace[p][0] = p
  /\ \A p \in S \ Stops : \A k \in Nat : trace[next[p]][k] = trace[p][k + 1]
  /\ \A p \in S : \E k \in Nat : trace[p][k] \in Stops

(* A loop that ends from everywhere has a value: it is where the least     *)
(* number of rounds leads after which it stops. This is what makes the     *)
(* recursive functions of DateTime what their definitions say.             *)
LEMMA LoopExists ==
  ASSUME NEW S, NEW Stops, NEW next, NEW trace, Loop(S, Stops, next, trace)
  PROVE  \E f : f = [p \in S |-> IF p \in Stops THEN p ELSE f[next[p]]]
<1> USE DEF Loop
<1> DEFINE Ends(p) == {k \in Nat : trace[p][k] \in Stops}
           First(p) == CHOOSE k \in Ends(p) : \A j \in Ends(p) : k <= j
           f == [p \in S |-> trace[p][First(p)]]
<1>1. ASSUME NEW p \in S PROVE First(p) \in Ends(p) /\ \A j \in Ends(p) : First(p) <= j
  <2>1. Ends(p) \subseteq Nat /\ Ends(p) # {}
    OBVIOUS
  <2>2. \E k \in Ends(p) : \A j \in Ends(p) : k <= j
    <3> HIDE DEF Ends
    <3> QED BY <2>1, FirstNatural
  <2> HIDE DEF Ends
  <2> QED
    BY <2>2
<1>2. ASSUME NEW p \in S, p \in Stops PROVE f[p] = p
  <2>1. 0 \in Ends(p)
    BY <1>2
  <2>2. First(p) <= 0 /\ First(p) \in Nat
    <3> HIDE DEF First
    <3> QED BY <1>1, <2>1
  <2>3. First(p) = 0
    <3> HIDE DEF First
    <3> QED BY <2>2
  <2> HIDE DEF First
  <2> QED BY <2>3
<1>3. ASSUME NEW p \in S, p \notin Stops PROVE f[p] = f[next[p]]
  <2>1. next[p] \in S /\ p \in S \ Stops
    BY <1>3
  <2>2. PICK n \in Nat : n = First(next[p]) /\ trace[next[p]][n] \in Stops
    <3> HIDE DEF First
    <3> QED BY <1>1, <2>1
  <2>3. PICK m \in Nat : m = First(p) /\ trace[p][m] \in Stops
    <3> HIDE DEF First
    <3> QED BY <1>1
  <2>4. m # 0
    BY <1>3, <2>3
  <2>5. PICK l \in Nat : l + 1 = m
    <3>1. m - 1 \in Nat /\ (m - 1) + 1 = m
      BY <2>4
    <3> QED BY <3>1
  <2>6. trace[next[p]][l] = trace[p][m]
    BY <2>1, <2>5
  <2>7. n <= l
    <3>1. l \in Ends(next[p])
      BY <2>3, <2>6
    <3> HIDE DEF First, Ends
    <3> QED BY <1>1, <2>1, <2>2, <3>1
  <2>8. trace[next[p]][n] = trace[p][n + 1]
    BY <2>1
  <2>9. m <= n + 1
    <3>1. n + 1 \in Ends(p)
      BY <2>2, <2>8
    <3> HIDE DEF First, Ends
    <3> QED BY <1>1, <2>3, <3>1
  <2>10. n = l
    BY <2>5, <2>7, <2>9
  <2> HIDE DEF First
  <2> QED
    BY <2>1, <2>2, <2>3, <2>6, <2>10
<1> HIDE DEF First, Ends
<1>4. f = [p \in S |-> IF p \in Stops THEN p ELSE f[next[p]]]
  <2>1. \A p \in S : f[p] = IF p \in Stops THEN p ELSE f[next[p]]
    <3> HIDE DEF f
    <3> QED BY <1>2, <1>3
  <2>2. f = [p \in S |-> f[p]]
    OBVIOUS
  <2> HIDE DEF f
  <2>3. [p \in S |-> f[p]] = [p \in S |-> IF p \in Stops THEN p ELSE f[next[p]]]
    BY <2>1
  <2> QED BY <2>2, <2>3
<1> QED
  BY <1>4

-----------------------------------------------------------------------------
(* What the loops would come to if they did not stop.                      *)
Anytime == [year : Nat, month : Nat, days : Int]

(* What a round of the loops over centuries and over years leaves.         *)
LEMMA YearChanged ==
  ASSUME NEW q \in Counts, NEW year, NEW days
  PROVE  [q EXCEPT !.days = days, !.year = year]
           = [year |-> year, month |-> q.month, days |-> days]
<1>1. PICK r : r = [q EXCEPT !.days = days]
  OBVIOUS
<1>2. r = [year |-> q.year, month |-> q.month, days |-> days]
  BY <1>1 DEF Counts
<1>3. [r EXCEPT !.year = year] = [year |-> year, month |-> q.month, days |-> days]
  BY <1>2
<1>4. [q EXCEPT !.days = days, !.year = year] = [[q EXCEPT !.days = days] EXCEPT !.year = year]
  OBVIOUS
<1> QED BY <1>1, <1>3, <1>4

(* What a round of the loop over months leaves.                            *)
LEMMA MonthChanged ==
  ASSUME NEW q \in Counts, NEW month, NEW days
  PROVE  [q EXCEPT !.days = days, !.month = month]
           = [year |-> q.year, month |-> month, days |-> days]
<1>1. PICK r : r = [q EXCEPT !.days = days]
  OBVIOUS
<1>2. r = [year |-> q.year, month |-> q.month, days |-> days]
  BY <1>1 DEF Counts
<1>3. [r EXCEPT !.month = month] = [year |-> q.year, month |-> month, days |-> days]
  BY <1>2
<1>4. [q EXCEPT !.days = days, !.month = month] = [[q EXCEPT !.days = days] EXCEPT !.month = month]
  OBVIOUS
<1> QED BY <1>1, <1>3, <1>4

(* The loop over the years (pyfsfat_datetime.c): it ends, because every    *)
(* round takes a year off the days.                                        *)
LEMMA SkipYearsEquation ==
  ASSUME NEW p \in Counts
  PROVE  SkipYears[p] = IF p.days <= DaysInYear(p.year) THEN p
                        ELSE SkipYears[[year  |-> p.year + 1, month |-> p.month,
                                        days  |-> p.days - DaysInYear(p.year)]]
<1> DEFINE Stops == {q \in Anytime : q.days <= DaysInYear(q.year)}
           Later(q) == [year  |-> q.year + 1, month |-> q.month,
                        days  |-> q.days - DaysInYear(q.year)]
           next == [q \in Counts |-> IF q \in Stops THEN q ELSE Later(q)]
           After(q, k) == [year  |-> q.year + k, month |-> q.month,
                           days  |-> q.days - (DaysToYear(q.year + k) - DaysToYear(q.year))]
           trace == [q \in Counts |-> [k \in Nat |-> After(q, k)]]
<1>1. ASSUME NEW q \in Counts
      PROVE  /\ q.year \in Nat /\ q.month \in Nat /\ q.days \in Nat
             /\ q = [year |-> q.year, month |-> q.month, days |-> q.days]
             /\ q \in Anytime
             /\ q \in Stops <=> q.days <= DaysInYear(q.year)
  BY DEF Counts, Anytime
<1>2. ASSUME NEW q \in Counts, q \notin Stops PROVE Later(q) \in Counts
  <2>1. q.days > DaysInYear(q.year) /\ DaysInYear(q.year) \in Nat
    BY <1>1, <1>2, YearByYear
  <2>2. q.days - DaysInYear(q.year) \in Nat
    BY <1>1, <2>1
  <2> QED
    BY <1>1, <2>2 DEF Counts
<1>3. next \in [Counts -> Counts]
  BY <1>2
<1>4. ASSUME NEW q \in Counts PROVE trace[q][0] = q
  <2>1. q.year + 0 = q.year
    BY <1>1
  <2>2. q.days - (DaysToYear(q.year) - DaysToYear(q.year)) = q.days
    BY <1>1, YearByYear
  <2>3. After(q, 0) = q
    BY <1>1, <2>1, <2>2
  <2> QED BY <2>3
<1>5. ASSUME NEW q \in Counts \ Stops, NEW k \in Nat
      PROVE  trace[next[q]][k] = trace[q][k + 1]
  <2>1. PICK r : r = Later(q)
    OBVIOUS
  <2>2. next[q] = r /\ r \in Counts
    BY <1>2, <2>1
  <2>3. r.year = q.year + 1 /\ r.month = q.month /\ r.days = q.days - DaysInYear(q.year)
    BY <2>1
  <2>4. r.year + k = q.year + (k + 1)
    BY <1>1, <2>3
  <2>5. DaysToYear(r.year) = DaysToYear(q.year) + DaysInYear(q.year)
    BY <1>1, <2>3, YearByYear
  <2>6. /\ DaysToYear(q.year) \in Nat /\ DaysInYear(q.year) \in Nat
        /\ DaysToYear(q.year + (k + 1)) \in Nat
    BY <1>1, YearByYear
  <2>7. r.days - (DaysToYear(r.year + k) - DaysToYear(r.year))
          = q.days - (DaysToYear(q.year + (k + 1)) - DaysToYear(q.year))
    BY <1>1, <2>3, <2>4, <2>5, <2>6
  <2>8. After(r, k) = After(q, k + 1)
    BY <2>3, <2>4, <2>7
  <2>9. trace[r][k] = After(r, k) /\ trace[q][k + 1] = After(q, k + 1)
    BY <2>2
  <2> QED BY <2>2, <2>8, <2>9
<1>6. ASSUME NEW q \in Counts PROVE \E k \in Nat : trace[q][k] \in Stops
  <2>1. PICK k \in Nat : k = q.days
    BY <1>1
  <2>2. PICK y \in Nat : y = q.year
    BY <1>1
  <2>3. DaysToYear(y + k) - DaysToYear(y) >= k
    BY DEF DaysToYear
  <2>4. DaysToYear(y + k) \in Nat /\ DaysToYear(y) \in Nat
    BY YearByYear
  <2>5. PICK r : r = After(q, k)
    OBVIOUS
  <2>6. /\ r.year = y + k /\ r.month = q.month
        /\ r.days = k - (DaysToYear(y + k) - DaysToYear(y))
        /\ r = [year |-> r.year, month |-> r.month, days |-> r.days]
    BY <2>1, <2>2, <2>5
  <2>7. r.days \in Int /\ r.days <= 0 /\ DaysInYear(r.year) \in Nat
    BY <2>3, <2>4, <2>6, YearByYear
  <2>8. r \in Anytime
    BY <1>1, <2>2, <2>6, <2>7 DEF Anytime
  <2>9. r \in Stops
    BY <2>7, <2>8
  <2> QED BY <2>5, <2>9
<1>7. \E f : f = [q \in Counts |-> IF q \in Stops THEN q ELSE f[next[q]]]
  <2> HIDE DEF Stops, next, trace
  <2>1. Loop(Counts, Stops, next, trace)
    BY <1>3, <1>4, <1>5, <1>6 DEF Loop
  <2> QED BY <2>1, LoopExists
<1>8. ASSUME NEW q \in Counts
      PROVE  [q EXCEPT !.days = @ - DaysInYear(q.year), !.year = @ + 1] = Later(q)
  BY YearChanged
<1>9. \E f : f = [q \in Counts |->
                   IF q.days <= DaysInYear(q.year) THEN q
                   ELSE f[[q EXCEPT !.days = @ - DaysInYear(q.year), !.year = @ + 1]]]
  <2>1. PICK f : f = [q \in Counts |-> IF q \in Stops THEN q ELSE f[next[q]]]
    BY <1>7
  <2>2. ASSUME NEW q \in Counts
        PROVE  (IF q \in Stops THEN q ELSE f[next[q]])
                 = IF q.days <= DaysInYear(q.year) THEN q
                   ELSE f[[q EXCEPT !.days = @ - DaysInYear(q.year), !.year = @ + 1]]
    <3>1. CASE q \in Stops
      BY <1>1, <3>1
    <3>2. CASE q \notin Stops
      <4>1. next[q] = Later(q)
        BY <3>2
      <4> HIDE DEF next, Later
      <4> QED BY <1>1, <1>8, <3>2, <4>1
    <3> QED BY <3>1, <3>2
  <2> HIDE DEF Stops, next, trace
  <2>3. [q \in Counts |-> IF q \in Stops THEN q ELSE f[next[q]]]
          = [q \in Counts |->
               IF q.days <= DaysInYear(q.year) THEN q
               ELSE f[[q EXCEPT !.days = @ - DaysInYear(q.year), !.year = @ + 1]]]
    BY <2>2
  <2> QED BY <2>1, <2>3
<1>10. SkipYears = [q \in Counts |->
                   IF q.days <= DaysInYear(q.year) THEN q
                   ELSE SkipYears[[q EXCEPT !.days = @ - DaysInYear(q.year), !.year = @ + 1]]]
  BY <1>9 DEF SkipYears
<1> HIDE DEF Stops, next, trace
<1>11. SkipYears[p] = IF p.days <= DaysInYear(p.year) THEN p
                   ELSE SkipYears[[p EXCEPT !.days = @ - DaysInYear(p.year), !.year = @ + 1]]
  BY <1>10
<1> QED
  BY <1>8, <1>11

(* The days of the centuries that the loop goes through up to a year.      *)
DaysToCentury(year) ==
  36524 * (year \div 100) + (IF year % 100 = 0 THEN (year + 300) \div 400 ELSE 0)

(* The sum over the centuries that the loop goes through, from any year.   *)
LEMMA CenturyOnCentury ==
  ASSUME NEW year \in Nat
  PROVE  /\ DaysToCentury(year) \in Nat
         /\ DaysInCentury(year) \in {36524, 36525}
         /\ DaysToCentury(year + 100) = DaysToCentury(year) + DaysInCentury(year)
<1>1. (year + 100) % 100 = year % 100 /\ (year + 100) \div 100 = year \div 100 + 1
  OBVIOUS
<1>2. year \div 100 \in Nat /\ (year + 300) \div 400 \in Nat
  OBVIOUS
<1>3. DaysToCentury(year) \in Nat /\ DaysInCentury(year) \in {36524, 36525}
  BY <1>2 DEF DaysToCentury, DaysInCentury
<1>4. year % 400 = 0 => year % 100 = 0
  OBVIOUS
<1>5. CASE year % 100 = 0
  <2>1. (year + 400) \div 400 = (year + 300) \div 400 + (IF year % 400 = 0 THEN 1 ELSE 0)
    BY <1>5
  <2>2. DaysToCentury(year + 100) = 36524 * (year \div 100 + 1) + (year + 400) \div 400
    BY <1>1, <1>5 DEF DaysToCentury
  <2> QED
    BY <1>2, <1>3, <1>5, <2>1, <2>2 DEF DaysToCentury, DaysInCentury
<1>6. CASE year % 100 # 0
  BY <1>1, <1>2, <1>3, <1>4, <1>6 DEF DaysToCentury, DaysInCentury
<1> QED
  BY <1>5, <1>6

(* The loop over the centuries.                                            *)
LEMMA SkipCenturiesEquation ==
  ASSUME NEW p \in Counts
  PROVE  SkipCenturies[p] = IF p.days <= DaysInCentury(p.year) THEN p
                        ELSE SkipCenturies[[year  |-> p.year + 100, month |-> p.month,
                                        days  |-> p.days - DaysInCentury(p.year)]]
<1> DEFINE Stops == {q \in Anytime : q.days <= DaysInCentury(q.year)}
           Later(q) == [year  |-> q.year + 100, month |-> q.month,
                        days  |-> q.days - DaysInCentury(q.year)]
           next == [q \in Counts |-> IF q \in Stops THEN q ELSE Later(q)]
           After(q, k) == [year  |-> q.year + 100 * k, month |-> q.month,
                           days  |-> q.days - (DaysToCentury(q.year + 100 * k) - DaysToCentury(q.year))]
           trace == [q \in Counts |-> [k \in Nat |-> After(q, k)]]
<1>1. ASSUME NEW q \in Counts
      PROVE  /\ q.year \in Nat /\ q.month \in Nat /\ q.days \in Nat
             /\ q = [year |-> q.year, month |-> q.month, days |-> q.days]
             /\ q \in Anytime
             /\ q \in Stops <=> q.days <= DaysInCentury(q.year)
  BY DEF Counts, Anytime
<1>2. ASSUME NEW q \in Counts, q \notin Stops PROVE Later(q) \in Counts
  <2>1. q.days > DaysInCentury(q.year) /\ DaysInCentury(q.year) \in Nat
    BY <1>1, <1>2, CenturyOnCentury
  <2>2. q.days - DaysInCentury(q.year) \in Nat
    BY <1>1, <2>1
  <2> QED
    BY <1>1, <2>2 DEF Counts
<1>3. next \in [Counts -> Counts]
  BY <1>2
<1>4. ASSUME NEW q \in Counts PROVE trace[q][0] = q
  <2>1. q.year + 100 * 0 = q.year
    BY <1>1
  <2>2. q.days - (DaysToCentury(q.year) - DaysToCentury(q.year)) = q.days
    BY <1>1, CenturyOnCentury
  <2>3. After(q, 0) = q
    BY <1>1, <2>1, <2>2
  <2> QED BY <2>3
<1>5. ASSUME NEW q \in Counts \ Stops, NEW k \in Nat
      PROVE  trace[next[q]][k] = trace[q][k + 1]
  <2>1. PICK r : r = Later(q)
    OBVIOUS
  <2>2. next[q] = r /\ r \in Counts
    BY <1>2, <2>1
  <2>3. r.year = q.year + 100 /\ r.month = q.month /\ r.days = q.days - DaysInCentury(q.year)
    BY <2>1
  <2>4. r.year + 100 * k = q.year + 100 * (k + 1)
    BY <1>1, <2>3
  <2>5. DaysToCentury(r.year) = DaysToCentury(q.year) + DaysInCentury(q.year)
    BY <1>1, <2>3, CenturyOnCentury
  <2>6. /\ DaysToCentury(q.year) \in Nat /\ DaysInCentury(q.year) \in Nat
        /\ DaysToCentury(q.year + 100 * (k + 1)) \in Nat
    BY <1>1, CenturyOnCentury
  <2>7. r.days - (DaysToCentury(r.year + 100 * k) - DaysToCentury(r.year))
          = q.days - (DaysToCentury(q.year + 100 * (k + 1)) - DaysToCentury(q.year))
    BY <1>1, <2>3, <2>4, <2>5, <2>6
  <2>8. After(r, k) = After(q, k + 1)
    BY <2>3, <2>4, <2>7
  <2>9. trace[r][k] = After(r, k) /\ trace[q][k + 1] = After(q, k + 1)
    BY <2>2
  <2> QED BY <2>2, <2>8, <2>9
<1>6. ASSUME NEW q \in Counts PROVE \E k \in Nat : trace[q][k] \in Stops
  <2>1. PICK k \in Nat : k = q.days
    BY <1>1
  <2>2. PICK y \in Nat : y = q.year
    BY <1>1
  <2>3. DaysToCentury(y + 100 * k) - DaysToCentury(y) >= k
    BY DEF DaysToCentury
  <2>4. DaysToCentury(y + 100 * k) \in Nat /\ DaysToCentury(y) \in Nat
    BY CenturyOnCentury
  <2>5. PICK r : r = After(q, k)
    OBVIOUS
  <2>6. /\ r.year = y + 100 * k /\ r.month = q.month
        /\ r.days = k - (DaysToCentury(y + 100 * k) - DaysToCentury(y))
        /\ r = [year |-> r.year, month |-> r.month, days |-> r.days]
    BY <2>1, <2>2, <2>5
  <2>7. r.days \in Int /\ r.days <= 0 /\ DaysInCentury(r.year) \in Nat
    BY <2>3, <2>4, <2>6, CenturyOnCentury
  <2>8. r \in Anytime
    BY <1>1, <2>2, <2>6, <2>7 DEF Anytime
  <2>9. r \in Stops
    BY <2>7, <2>8
  <2> QED BY <2>5, <2>9
<1>7. \E f : f = [q \in Counts |-> IF q \in Stops THEN q ELSE f[next[q]]]
  <2> HIDE DEF Stops, next, trace
  <2>1. Loop(Counts, Stops, next, trace)
    BY <1>3, <1>4, <1>5, <1>6 DEF Loop
  <2> QED BY <2>1, LoopExists
<1>8. ASSUME NEW q \in Counts
      PROVE  [q EXCEPT !.days = @ - DaysInCentury(q.year), !.year = @ + 100] = Later(q)
  BY YearChanged
<1>9. \E f : f = [q \in Counts |->
                   IF q.days <= DaysInCentury(q.year) THEN q
                   ELSE f[[q EXCEPT !.days = @ - DaysInCentury(q.year), !.year = @ + 100]]]
  <2>1. PICK f : f = [q \in Counts |-> IF q \in Stops THEN q ELSE f[next[q]]]
    BY <1>7
  <2>2. ASSUME NEW q \in Counts
        PROVE  (IF q \in Stops THEN q ELSE f[next[q]])
                 = IF q.days <= DaysInCentury(q.year) THEN q
                   ELSE f[[q EXCEPT !.days = @ - DaysInCentury(q.year), !.year = @ + 100]]
    <3>1. CASE q \in Stops
      BY <1>1, <3>1
    <3>2. CASE q \notin Stops
      <4>1. next[q] = Later(q)
        BY <3>2
      <4> HIDE DEF next, Later
      <4> QED BY <1>1, <1>8, <3>2, <4>1
    <3> QED BY <3>1, <3>2
  <2> HIDE DEF Stops, next, trace
  <2>3. [q \in Counts |-> IF q \in Stops THEN q ELSE f[next[q]]]
          = [q \in Counts |->
               IF q.days <= DaysInCentury(q.year) THEN q
               ELSE f[[q EXCEPT !.days = @ - DaysInCentury(q.year), !.year = @ + 100]]]
    BY <2>2
  <2> QED BY <2>1, <2>3
<1>10. SkipCenturies = [q \in Counts |->
                   IF q.days <= DaysInCentury(q.year) THEN q
                   ELSE SkipCenturies[[q EXCEPT !.days = @ - DaysInCentury(q.year), !.year = @ + 100]]]
  BY <1>9 DEF SkipCenturies
<1> HIDE DEF Stops, next, trace
<1>11. SkipCenturies[p] = IF p.days <= DaysInCentury(p.year) THEN p
                   ELSE SkipCenturies[[p EXCEPT !.days = @ - DaysInCentury(p.year), !.year = @ + 100]]
  BY <1>10
<1> QED
  BY <1>8, <1>11

(* The loop over the months: it ends at the thirteenth, or before.         *)
LEMMA SkipMonthsEquation ==
  ASSUME NEW p \in Counts
  PROVE  SkipMonths[p] = IF p.days <= DaysInMonth(p.month, p.year) \/ p.month > 12 THEN p
                        ELSE SkipMonths[[year  |-> p.year, month |-> p.month + 1,
                                        days  |-> p.days - DaysInMonth(p.month, p.year)]]
<1> DEFINE Stops == {q \in Anytime : q.days <= DaysInMonth(q.month, q.year) \/ q.month > 12}
           Later(q) == [year  |-> q.year, month |-> q.month + 1,
                        days  |-> q.days - DaysInMonth(q.month, q.year)]
           next == [q \in Counts |-> IF q \in Stops THEN q ELSE Later(q)]
           After(q, k) == [year  |-> q.year, month |-> q.month + k,
                           days  |-> q.days - (DaysToMonth(q.month + k, q.year) - DaysToMonth(q.month, q.year))]
           trace == [q \in Counts |-> [k \in Nat |-> After(q, k)]]
<1>1. ASSUME NEW q \in Counts
      PROVE  /\ q.year \in Nat /\ q.month \in Nat /\ q.days \in Nat
             /\ q = [year |-> q.year, month |-> q.month, days |-> q.days]
             /\ q \in Anytime
             /\ (q \in Stops) <=> (q.days <= DaysInMonth(q.month, q.year) \/ q.month > 12)
  BY DEF Counts, Anytime
<1>2. ASSUME NEW q \in Counts, q \notin Stops PROVE Later(q) \in Counts
  <2>1. q.days > DaysInMonth(q.month, q.year) /\ DaysInMonth(q.month, q.year) \in Nat
    BY <1>1, <1>2, MonthByMonth
  <2>2. q.days - DaysInMonth(q.month, q.year) \in Nat
    BY <1>1, <2>1
  <2> QED
    BY <1>1, <2>2 DEF Counts
<1>3. next \in [Counts -> Counts]
  BY <1>2
<1>4. ASSUME NEW q \in Counts PROVE trace[q][0] = q
  <2>1. q.month + 0 = q.month
    BY <1>1
  <2>2. q.days - (DaysToMonth(q.month, q.year) - DaysToMonth(q.month, q.year)) = q.days
    BY <1>1, MonthByMonth
  <2>3. After(q, 0) = q
    BY <1>1, <2>1, <2>2
  <2> QED BY <2>3
<1>5. ASSUME NEW q \in Counts \ Stops, NEW k \in Nat
      PROVE  trace[next[q]][k] = trace[q][k + 1]
  <2>1. PICK r : r = Later(q)
    OBVIOUS
  <2>2. next[q] = r /\ r \in Counts
    BY <1>2, <2>1
  <2>3. r.year = q.year /\ r.month = q.month + 1 /\ r.days = q.days - DaysInMonth(q.month, q.year)
    BY <2>1
  <2>4. r.month + k = q.month + (k + 1)
    BY <1>1, <2>3
  <2>5. DaysToMonth(r.month, r.year) = DaysToMonth(q.month, q.year) + DaysInMonth(q.month, q.year)
    BY <1>1, <2>3, MonthByMonth
  <2>6. /\ DaysToMonth(q.month, q.year) \in Nat /\ DaysInMonth(q.month, q.year) \in Nat
        /\ DaysToMonth(q.month + (k + 1), q.year) \in Nat
    <3>1. q.year \in Nat /\ q.month \in Nat /\ q.month + (k + 1) \in Nat
      BY <1>1
    <3> HIDE DEF Stops, Later, next, After, trace
    <3> QED BY <3>1, MonthByMonth
  <2>7. r.days - (DaysToMonth(r.month + k, r.year) - DaysToMonth(r.month, r.year))
          = q.days - (DaysToMonth(q.month + (k + 1), q.year) - DaysToMonth(q.month, q.year))
    BY <1>1, <2>3, <2>4, <2>5, <2>6
  <2>8. After(r, k) = After(q, k + 1)
    BY <2>3, <2>4, <2>7
  <2>9. trace[r][k] = After(r, k) /\ trace[q][k + 1] = After(q, k + 1)
    BY <2>2
  <2> QED BY <2>2, <2>8, <2>9
<1>6. ASSUME NEW q \in Counts PROVE \E k \in Nat : trace[q][k] \in Stops
  <2>1. PICK r : r = After(q, 13)
    OBVIOUS
  <2>2. r.year = q.year /\ r.month = q.month + 13
        /\ r.days = q.days - (DaysToMonth(q.month + 13, q.year) - DaysToMonth(q.month, q.year))
        /\ r = [year |-> r.year, month |-> r.month, days |-> r.days]
    BY <2>1
  <2>3. r.days \in Int
    BY <1>1, <2>2, MonthByMonth
  <2>4. r \in Anytime /\ r.month > 12
    BY <1>1, <2>2, <2>3 DEF Anytime
  <2>5. r \in Stops
    BY <2>4
  <2> QED BY <2>1, <2>5
<1>7. \E f : f = [q \in Counts |-> IF q \in Stops THEN q ELSE f[next[q]]]
  <2> HIDE DEF Stops, next, trace
  <2>1. Loop(Counts, Stops, next, trace)
    BY <1>3, <1>4, <1>5, <1>6 DEF Loop
  <2> QED BY <2>1, LoopExists
<1>8. ASSUME NEW q \in Counts
      PROVE  [q EXCEPT !.days = @ - DaysInMonth(q.month, q.year), !.month = @ + 1] = Later(q)
  BY MonthChanged
<1>9. \E f : f = [q \in Counts |->
                   IF q.days <= DaysInMonth(q.month, q.year) \/ q.month > 12 THEN q
                   ELSE f[[q EXCEPT !.days = @ - DaysInMonth(q.month, q.year), !.month = @ + 1]]]
  <2>1. PICK f : f = [q \in Counts |-> IF q \in Stops THEN q ELSE f[next[q]]]
    BY <1>7
  <2>2. ASSUME NEW q \in Counts
        PROVE  (IF q \in Stops THEN q ELSE f[next[q]])
                 = IF q.days <= DaysInMonth(q.month, q.year) \/ q.month > 12 THEN q
                   ELSE f[[q EXCEPT !.days = @ - DaysInMonth(q.month, q.year), !.month = @ + 1]]
    <3>1. CASE q \in Stops
      BY <1>1, <3>1
    <3>2. CASE q \notin Stops
      <4>1. next[q] = Later(q)
        BY <3>2
      <4> HIDE DEF next, Later
      <4> QED BY <1>1, <1>8, <3>2, <4>1
    <3> QED BY <3>1, <3>2
  <2> HIDE DEF Stops, next, trace
  <2>3. [q \in Counts |-> IF q \in Stops THEN q ELSE f[next[q]]]
          = [q \in Counts |->
               IF q.days <= DaysInMonth(q.month, q.year) \/ q.month > 12 THEN q
               ELSE f[[q EXCEPT !.days = @ - DaysInMonth(q.month, q.year), !.month = @ + 1]]]
    BY <2>2
  <2> QED BY <2>1, <2>3
<1>10. SkipMonths = [q \in Counts |->
                   IF q.days <= DaysInMonth(q.month, q.year) \/ q.month > 12 THEN q
                   ELSE SkipMonths[[q EXCEPT !.days = @ - DaysInMonth(q.month, q.year), !.month = @ + 1]]]
  BY <1>9 DEF SkipMonths
<1> HIDE DEF Stops, next, trace
<1>11. SkipMonths[p] = IF p.days <= DaysInMonth(p.month, p.year) \/ p.month > 12 THEN p
                   ELSE SkipMonths[[p EXCEPT !.days = @ - DaysInMonth(p.month, p.year), !.month = @ + 1]]
  BY <1>10
<1> QED
  BY <1>8, <1>11

-----------------------------------------------------------------------------
(* Two sums of the same terms are equal.                                   *)
LEMMA SumIsTotal ==
  ASSUME NEW sum, NEW total \in [Nat -> Nat], NEW term \in [Nat -> Nat],
         \A n \in Nat : sum[n] = IF n = 0 THEN 0 ELSE term[n] + sum[n - 1],
         \A n \in Nat : total[n] = IF n = 0 THEN 0 ELSE term[n] + total[n - 1]
  PROVE  \A n \in Nat : sum[n] = total[n]
<1> DEFINE Others == {n \in Nat : sum[n] # total[n]}
<1>1. ASSUME Others # {} PROVE FALSE
  <2>1. PICK n \in Others : \A j \in Others : n <= j
    <3>1. Others \subseteq Nat
      OBVIOUS
    <3> HIDE DEF Others
    <3> QED BY <1>1, <3>1, FirstNatural
  <2>2. n \in Nat /\ sum[n] # total[n] /\ n # 0
    OBVIOUS
  <2>3. n - 1 \in Nat /\ n - 1 \notin Others
    <3>1. n - 1 \in Nat /\ ~ (n <= n - 1)
      BY <2>2
    <3> HIDE DEF Others
    <3> QED BY <2>1, <3>1
  <2>4. sum[n - 1] = total[n - 1]
    BY <2>3
  <2> QED
    BY <2>2, <2>4
<1> QED
  BY <1>1

(* The loop over the months of a date (libfsfat_date_time.c) sums its own  *)
(* month, too.                                                             *)
LEMMA MonthsSummed ==
  ASSUME NEW year \in Nat, NEW month \in Nat
  PROVE  DaysOfMonths(year)[month] = DaysToMonth(month + 1, year)
<1> DEFINE total == [n \in Nat |-> DaysToMonth(n + 1, year)]
           term == [n \in Nat |-> DaysInMonth(n, year)]
<1>1. total \in [Nat -> Nat] /\ term \in [Nat -> Nat]
  <2>1. ASSUME NEW n \in Nat PROVE DaysToMonth(n + 1, year) \in Nat /\ DaysInMonth(n, year) \in Nat
    <3>1. n + 1 \in Nat
      OBVIOUS
    <3> HIDE DEF total, term
    <3> QED BY <3>1, MonthByMonth
  <2> QED BY <2>1
<1>2. ASSUME NEW n \in Nat
      PROVE  total[n] = IF n = 0 THEN 0 ELSE DaysInMonth(n, year) + total[n - 1]
  <2>1. CASE n = 0
    BY <2>1, YearOfMonths
  <2>2. CASE n # 0
    <3>1. n - 1 \in Nat /\ (n - 1) + 1 = n
      BY <2>2
    <3>2. total[n] = DaysToMonth(n + 1, year) /\ total[n - 1] = DaysToMonth(n, year)
      BY <3>1
    <3>3. DaysToMonth(n + 1, year) = DaysToMonth(n, year) + DaysInMonth(n, year)
          /\ DaysToMonth(n, year) \in Nat /\ DaysInMonth(n, year) \in Nat
      <4> HIDE DEF total, term
      <4> QED BY MonthByMonth
    <3> HIDE DEF total
    <3> QED BY <2>2, <3>2, <3>3
  <2> QED BY <2>1, <2>2
<1> HIDE DEF total
<1>3. \E days : days = [n \in Nat |-> IF n = 0 THEN 0 ELSE DaysInMonth(n, year) + days[n - 1]]
  <2>1. total = [n \in Nat |-> total[n]]
    BY <1>1
  <2>2. [n \in Nat |-> total[n]]
          = [n \in Nat |-> IF n = 0 THEN 0 ELSE DaysInMonth(n, year) + total[n - 1]]
    BY <1>2
  <2> QED BY <2>1, <2>2
<1>4. DaysOfMonths(year)
        = [n \in Nat |-> IF n = 0 THEN 0 ELSE DaysInMonth(n, year) + DaysOfMonths(year)[n - 1]]
  BY <1>3 DEF DaysOfMonths
<1>5. \A n \in Nat : term[n] = DaysInMonth(n, year)
  OBVIOUS
<1> HIDE DEF term
<1>6. PICK sum : sum = DaysOfMonths(year)
  OBVIOUS
<1>7. \A n \in Nat : sum[n] = IF n = 0 THEN 0 ELSE term[n] + sum[n - 1]
  <2>1. sum = [n \in Nat |-> IF n = 0 THEN 0 ELSE DaysInMonth(n, year) + sum[n - 1]]
    BY <1>4, <1>6
  <2>2. ASSUME NEW n \in Nat
        PROVE  sum[n] = IF n = 0 THEN 0 ELSE DaysInMonth(n, year) + sum[n - 1]
    BY <2>1
  <2> QED BY <1>5, <2>2
<1>8. \A n \in Nat : total[n] = IF n = 0 THEN 0 ELSE term[n] + total[n - 1]
  BY <1>2, <1>5
<1>9. sum[month] = total[month]
  BY <1>1, <1>7, <1>8, SumIsTotal
<1> QED
  BY <1>6, <1>9 DEF total

(* The loop over the years of a date (libfsfat_date_time.c) sums its own   *)
(* year, but not 1980.                                                     *)
LEMMA YearsSummed ==
  ASSUME NEW year \in Nat
  PROVE  DaysOfYears[year] = DaysToYear(1981 + year) - DaysToYear(1981)
<1> DEFINE total == [n \in Nat |-> DaysToYear(1981 + n) - DaysToYear(1981)]
           term == [n \in Nat |-> DaysInYear(1980 + n)]
<1>1. total \in [Nat -> Nat] /\ term \in [Nat -> Nat]
  <2>1. ASSUME NEW n \in Nat
        PROVE DaysToYear(1981 + n) - DaysToYear(1981) \in Nat /\ DaysInYear(1980 + n) \in Nat
    <3>1. DaysToYear(1981 + n) >= DaysToYear(1981)
      BY DEF DaysToYear
    <3>2. 1980 + n \in Nat /\ 1981 + n \in Nat /\ 1981 \in Nat
      OBVIOUS
    <3> QED BY <3>1, <3>2, YearByYear
  <2> QED BY <2>1
<1>2. ASSUME NEW n \in Nat
      PROVE  total[n] = IF n = 0 THEN 0 ELSE DaysInYear(1980 + n) + total[n - 1]
  <2>1. CASE n = 0
    <3>1. total[n] = DaysToYear(1981) - DaysToYear(1981)
      BY <2>1
    <3>2. DaysToYear(1981) \in Nat
      BY YearByYear
    <3> QED BY <2>1, <3>1, <3>2
  <2>2. CASE n # 0
    <3>1. n - 1 \in Nat /\ 1981 + (n - 1) = 1980 + n /\ 1980 + n + 1 = 1981 + n /\ 1980 + n \in Nat
      BY <2>2
    <3>2. total[n] = DaysToYear(1981 + n) - DaysToYear(1981)
          /\ total[n - 1] = DaysToYear(1980 + n) - DaysToYear(1981)
      BY <3>1
    <3>3. DaysToYear(1980 + n + 1) = DaysToYear(1980 + n) + DaysInYear(1980 + n)
          /\ DaysToYear(1980 + n) \in Nat /\ DaysInYear(1980 + n) \in Nat
      BY <3>1, YearByYear
    <3>4. DaysToYear(1981) \in Nat
      BY YearByYear
    <3> HIDE DEF total
    <3> QED BY <2>2, <3>1, <3>2, <3>3, <3>4
  <2> QED BY <2>1, <2>2
<1> HIDE DEF total
<1>3. \E days : days = [n \in Nat |-> IF n = 0 THEN 0 ELSE DaysInYear(1980 + n) + days[n - 1]]
  <2>1. total = [n \in Nat |-> total[n]]
    BY <1>1
  <2>2. [n \in Nat |-> total[n]]
          = [n \in Nat |-> IF n = 0 THEN 0 ELSE DaysInYear(1980 + n) + total[n - 1]]
    BY <1>2
  <2> QED BY <2>1, <2>2
<1>4. DaysOfYears
        = [n \in Nat |-> IF n = 0 THEN 0 ELSE DaysInYear(1980 + n) + DaysOfYears[n - 1]]
  BY <1>3 DEF DaysOfYears
<1>5. \A n \in Nat : term[n] = DaysInYear(1980 + n)
  OBVIOUS
<1> HIDE DEF term
<1>6. PICK sum : sum = DaysOfYears
  OBVIOUS
<1>7. \A n \in Nat : sum[n] = IF n = 0 THEN 0 ELSE term[n] + sum[n - 1]
  <2>1. sum = [n \in Nat |-> IF n = 0 THEN 0 ELSE DaysInYear(1980 + n) + sum[n - 1]]
    BY <1>4, <1>6
  <2>2. ASSUME NEW n \in Nat
        PROVE  sum[n] = IF n = 0 THEN 0 ELSE DaysInYear(1980 + n) + sum[n - 1]
    BY <2>1
  <2> QED BY <1>5, <2>2
<1>8. \A n \in Nat : total[n] = IF n = 0 THEN 0 ELSE term[n] + total[n - 1]
  BY <1>2, <1>5
<1>9. sum[year] = total[year]
  BY <1>1, <1>7, <1>8, SumIsTotal
<1> QED
  BY <1>6, <1>9 DEF total

-----------------------------------------------------------------------------
(* Where the loops end.                                                    *)

(* The day that is counted off to is the same, and there is none only when *)
(* there was none.                                                         *)
SameDay(p, r) ==
  /\ r \in Counts
  /\ r.year >= p.year
  /\ DaysToYear(r.year) + DaysToMonth(r.month, r.year) + r.days
       = DaysToYear(p.year) + DaysToMonth(p.month, p.year) + p.days
  /\ r.days = 0 <=> p.days = 0

(* The days before a date are natural numbers.                             *)
LEMMA CountTypes ==
  ASSUME NEW p \in Counts
  PROVE  /\ p.year \in Nat /\ p.month \in Nat /\ p.days \in Nat
         /\ DaysToYear(p.year) \in Nat
         /\ DaysToMonth(p.month, p.year) \in Nat
<1>1. p.year \in Nat /\ p.month \in Nat /\ p.days \in Nat
  BY DEF Counts
<1>2. DaysToYear(p.year) \in Nat
  BY <1>1, YearByYear
<1>3. DaysToMonth(p.month, p.year) \in Nat
  BY <1>1, MonthByMonth
<1> QED
  BY <1>1, <1>2, <1>3

(* A day that is kept twice is kept.                                       *)
LEMMA SameDayChains ==
  ASSUME NEW p \in Counts, NEW q, NEW r, SameDay(p, q), SameDay(q, r)
  PROVE  SameDay(p, r)
<1>1. q \in Counts /\ r \in Counts
  BY DEF SameDay
<1> QED
  BY <1>1, CountTypes DEF SameDay

(* A loop that stops at once keeps the day.                                *)
LEMMA SameDayStays ==
  ASSUME NEW p \in Counts
  PROVE  SameDay(p, p)
BY CountTypes DEF SameDay

YearReached(p, r) ==
  SameDay(p, r) /\ r.month = 1 /\ r.days <= DaysInYear(r.year)

(* The loop over the years keeps the day and ends within a year.           *)
LEMMA YearsSkipped ==
  ASSUME NEW p \in Counts, p.month = 1
  PROVE  YearReached(p, SkipYears[p])
<1> DEFINE Others == {n \in Nat : \E q \in Counts :
                        q.days = n /\ q.month = 1 /\ ~ YearReached(q, SkipYears[q])}
<1>1. ASSUME Others # {} PROVE FALSE
  <2>1. PICK n \in Others : \A j \in Others : n <= j
    <3>1. Others \subseteq Nat
      OBVIOUS
    <3> HIDE DEF Others
    <3> QED BY <1>1, <3>1, FirstNatural
  <2>2. PICK q \in Counts : q.days = n /\ q.month = 1 /\ ~ YearReached(q, SkipYears[q])
    OBVIOUS
  <2>3. n \in Nat /\ q.year \in Nat /\ DaysInYear(q.year) \in {365, 366}
        /\ DaysToYear(q.year) \in Nat
        /\ DaysToYear(q.year + 1) = DaysToYear(q.year) + DaysInYear(q.year)
    BY <2>2, CountTypes, YearByYear
  <2>4. CASE n <= DaysInYear(q.year)
    <3>1. SkipYears[q] = q
      BY <2>2, <2>4, SkipYearsEquation
    <3> QED
      BY <2>2, <2>4, <3>1, SameDayStays DEF YearReached
  <2>5. CASE n > DaysInYear(q.year)
    <3>1. PICK m \in Nat : m = n - DaysInYear(q.year)
      BY <2>3, <2>5
    <3>2. m < n /\ m # 0
      BY <2>3, <2>5, <3>1
    <3>3. PICK l : l = [year |-> q.year + 1, month |-> 1, days |-> m]
      OBVIOUS
    <3>4. l \in Counts /\ l.year = q.year + 1 /\ l.month = 1 /\ l.days = m
      BY <2>3, <3>3 DEF Counts
    <3>5. SkipYears[q] = SkipYears[l]
      <4>1. ~ (q.days <= DaysInYear(q.year))
        BY <2>2, <2>3, <2>5
      <4> QED
        BY <2>2, <3>1, <3>3, <4>1, SkipYearsEquation
    <3>6. m \notin Others
      <4> HIDE DEF Others
      <4> QED BY <2>1, <2>3, <3>2
    <3>7. YearReached(l, SkipYears[q])
      BY <3>4, <3>5, <3>6
    <3>8. SameDay(q, l)
      <4>1. DaysToMonth(1, q.year) = 0 /\ DaysToMonth(1, l.year) = 0
        BY DEF DaysToMonth
      <4> QED
        BY <2>2, <2>3, <3>1, <3>2, <3>4, <4>1 DEF SameDay
    <3> QED
      BY <2>2, <3>7, <3>8, SameDayChains DEF YearReached
  <2> QED BY <2>3, <2>4, <2>5
<1>2. p.days \in Nat
  BY CountTypes
<1> QED
  BY <1>1, <1>2

CenturyReached(p, r) == SameDay(p, r) /\ r.month = 1

(* The loop over the centuries keeps the day.                              *)
LEMMA CenturiesSkipped ==
  ASSUME NEW p \in Counts, p.month = 1, p.year % 100 = 0
  PROVE  CenturyReached(p, SkipCenturies[p])
<1> DEFINE Others == {n \in Nat : \E q \in Counts :
                        /\ q.days = n /\ q.month = 1 /\ q.year % 100 = 0
                        /\ ~ CenturyReached(q, SkipCenturies[q])}
<1>1. ASSUME Others # {} PROVE FALSE
  <2>1. PICK n \in Others : \A j \in Others : n <= j
    <3>1. Others \subseteq Nat
      OBVIOUS
    <3> HIDE DEF Others
    <3> QED BY <1>1, <3>1, FirstNatural
  <2>2. PICK q \in Counts : /\ q.days = n /\ q.month = 1 /\ q.year % 100 = 0
                            /\ ~ CenturyReached(q, SkipCenturies[q])
    OBVIOUS
  <2>3. n \in Nat /\ q.year \in Nat /\ DaysInCentury(q.year) \in {36524, 36525}
        /\ DaysToYear(q.year) \in Nat
        /\ (q.year + 100) % 100 = 0
        /\ DaysToYear(q.year + 100) = DaysToYear(q.year) + DaysInCentury(q.year)
    BY <2>2, CountTypes, CenturyByCentury
  <2>4. CASE n <= DaysInCentury(q.year)
    <3>1. SkipCenturies[q] = q
      BY <2>2, <2>4, SkipCenturiesEquation
    <3> QED
      BY <2>2, <3>1, SameDayStays DEF CenturyReached
  <2>5. CASE n > DaysInCentury(q.year)
    <3>1. PICK m \in Nat : m = n - DaysInCentury(q.year)
      BY <2>3, <2>5
    <3>2. m < n /\ m # 0
      BY <2>3, <2>5, <3>1
    <3>3. PICK l : l = [year |-> q.year + 100, month |-> 1, days |-> m]
      OBVIOUS
    <3>4. l \in Counts /\ l.year = q.year + 100 /\ l.month = 1 /\ l.days = m
      BY <2>3, <3>3 DEF Counts
    <3>5. SkipCenturies[q] = SkipCenturies[l]
      <4>1. ~ (q.days <= DaysInCentury(q.year))
        BY <2>2, <2>3, <2>5
      <4> QED
        BY <2>2, <3>1, <3>3, <4>1, SkipCenturiesEquation
    <3>6. m \notin Others
      <4> HIDE DEF Others
      <4> QED BY <2>1, <2>3, <3>2
    <3>7. CenturyReached(l, SkipCenturies[q])
      BY <2>3, <3>4, <3>5, <3>6
    <3>8. SameDay(q, l)
      <4>1. DaysToMonth(1, q.year) = 0 /\ DaysToMonth(1, l.year) = 0
        BY DEF DaysToMonth
      <4> QED
        BY <2>2, <2>3, <3>1, <3>2, <3>4, <4>1 DEF SameDay
    <3> QED
      BY <2>2, <3>7, <3>8, SameDayChains DEF CenturyReached
  <2> QED BY <2>3, <2>4, <2>5
<1>2. p.days \in Nat
  BY CountTypes
<1> QED
  BY <1>1, <1>2

WithinYear(p) ==
  p.month \in 1 .. 12 /\ DaysToMonth(p.month, p.year) + p.days <= DaysInYear(p.year)

MonthReached(p, r) ==
  SameDay(p, r) /\ r.month \in 1 .. 12 /\ r.days <= DaysInMonth(r.month, r.year)

(* The loop over the months keeps the day and ends within one of the       *)
(* twelve.                                                                 *)
LEMMA MonthsSkipped ==
  ASSUME NEW p \in Counts, WithinYear(p)
  PROVE  MonthReached(p, SkipMonths[p])
<1> DEFINE Others == {n \in Nat : \E q \in Counts :
                        /\ 12 - q.month = n /\ WithinYear(q)
                        /\ ~ MonthReached(q, SkipMonths[q])}
<1>1. ASSUME Others # {} PROVE FALSE
  <2>1. PICK n \in Others : \A j \in Others : n <= j
    <3>1. Others \subseteq Nat
      OBVIOUS
    <3> HIDE DEF Others
    <3> QED BY <1>1, <3>1, FirstNatural
  <2>2. PICK q \in Counts : /\ 12 - q.month = n /\ WithinYear(q)
                            /\ ~ MonthReached(q, SkipMonths[q])
    OBVIOUS
  <2>3. /\ n \in Nat /\ q.year \in Nat /\ q.month \in 1 .. 12 /\ q.days \in Nat
        /\ DaysToMonth(q.month, q.year) \in Nat /\ DaysToYear(q.year) \in Nat
        /\ DaysToMonth(q.month, q.year) + q.days <= DaysInYear(q.year)
    BY <2>2, CountTypes DEF WithinYear
  <2>4. /\ DaysInMonth(q.month, q.year) \in Nat
        /\ DaysToMonth(q.month + 1, q.year)
             = DaysToMonth(q.month, q.year) + DaysInMonth(q.month, q.year)
    <3> HIDE DEF Others
    <3>1. q.month \in Nat
      BY <2>3
    <3> QED BY <2>3, <3>1, MonthByMonth
  <2>5. CASE q.days <= DaysInMonth(q.month, q.year)
    <3>1. SkipMonths[q] = q
      BY <2>5, SkipMonthsEquation
    <3> QED
      BY <2>2, <2>3, <2>5, <3>1, SameDayStays DEF MonthReached
  <2>6. CASE q.days > DaysInMonth(q.month, q.year)
    <3>1. PICK m \in Nat : m = q.days - DaysInMonth(q.month, q.year)
      BY <2>3, <2>4, <2>6
    <3>2. m # 0 /\ q.days # 0
      BY <2>3, <2>4, <2>6, <3>1
    <3>3. q.month # 12
      <4>1. ASSUME q.month = 12 PROVE FALSE
        <5>1. DaysToMonth(13, q.year) = DaysInYear(q.year) /\ q.month + 1 = 13
          BY <2>3, <4>1, YearOfMonths
        <5> QED
          BY <2>3, <2>4, <2>6, <5>1
      <4> QED BY <4>1
    <3>4. PICK l : l = [year |-> q.year, month |-> q.month + 1, days |-> m]
      OBVIOUS
    <3>5. l \in Counts /\ l.year = q.year /\ l.month = q.month + 1 /\ l.days = m
      BY <2>3, <3>4 DEF Counts
    <3>6. SkipMonths[q] = SkipMonths[l]
      <4>1. ~ (q.days <= DaysInMonth(q.month, q.year) \/ q.month > 12)
        BY <2>3, <2>4, <2>6
      <4> QED
        BY <3>1, <3>4, <4>1, SkipMonthsEquation
    <3>7. n - 1 \in Nat /\ n - 1 < n /\ 12 - l.month = n - 1 /\ l.month \in 1 .. 12
      BY <2>2, <2>3, <3>3, <3>5
    <3>8. n - 1 \notin Others
      <4> HIDE DEF Others
      <4> QED BY <2>1, <2>3, <3>7
    <3>9. WithinYear(l)
      BY <2>3, <2>4, <3>1, <3>5, <3>7 DEF WithinYear
    <3>10. MonthReached(l, SkipMonths[q])
      BY <3>5, <3>6, <3>7, <3>8, <3>9
    <3>11. SameDay(q, l)
      BY <2>3, <2>4, <3>1, <3>2, <3>5 DEF SameDay
    <3> QED
      BY <2>2, <3>10, <3>11, SameDayChains DEF MonthReached
  <2> QED BY <2>3, <2>4, <2>5, <2>6
<1>2. 12 - p.month \in Nat
  BY DEF WithinYear
<1> QED
  BY <1>1, <1>2

-----------------------------------------------------------------------------
(* The loop over the centuries starts at one, or has less than one to go.  *)
StartsWell(year, days) == year % 100 = 0 \/ days <= 36524

(* The three loops one after the other turn a number of days into the date *)
(* of that day, whatever the number.                                       *)
LEMMA DateIsOfCalendar ==
  ASSUME NEW year \in Nat, year >= 1, NEW days \in Nat,
         StartsWell(year, days)
  PROVE  /\ DateOf(year, days).month \in 1 .. 12
         /\ DateOf(year, days).days = 0 <=> days = 0
         /\ days # 0 =>
              /\ DateOf(year, days).days
                   \in 1 .. DaysInMonth(DateOf(year, days).month, DateOf(year, days).year)
              /\ DayNumber(DateOf(year, days).year, DateOf(year, days).month, DateOf(year, days).days)
                   = DayNumber(year, 1, 0) + days
<1>1. PICK p : p = [year |-> year, month |-> 1, days |-> days]
  OBVIOUS
<1>2. p \in Counts /\ p.year = year /\ p.month = 1 /\ p.days = days
  BY <1>1 DEF Counts
<1>3. PICK c : c = SkipCenturies[p]
  OBVIOUS
<1>4. CenturyReached(p, c)
  <2>1. CASE year % 100 = 0
    <3>1. p.year % 100 = 0
      BY <1>2, <2>1
    <3> QED
      BY <1>2, <1>3, <3>1, CenturiesSkipped
  <2>2. CASE days <= 36524
    <3>1. DaysInCentury(year) \in {36524, 36525}
      BY CenturyByCentury
    <3>2. p.days <= DaysInCentury(p.year)
      BY <1>2, <2>2, <3>1
    <3>3. c = p
      BY <1>2, <1>3, <3>2, SkipCenturiesEquation
    <3> QED
      BY <1>2, <3>3, SameDayStays DEF CenturyReached
  <2> QED BY <2>1, <2>2 DEF StartsWell
<1>5. PICK y : y = SkipYears[c]
  OBVIOUS
<1>6. YearReached(c, y) /\ c \in Counts
  BY <1>4, <1>5, YearsSkipped DEF CenturyReached, SameDay
<1>7. y \in Counts /\ y.month = 1 /\ y.days <= DaysInYear(y.year)
  BY <1>6 DEF YearReached, SameDay
<1>8. PICK r : r = SkipMonths[y]
  OBVIOUS
<1>9. MonthReached(y, r)
  <2>1. DaysToMonth(1, y.year) = 0
    BY DEF DaysToMonth
  <2>2. WithinYear(y)
    BY <1>7, <2>1, CountTypes DEF WithinYear
  <2> QED
    BY <1>7, <1>8, <2>2, MonthsSkipped
<1>10. DateOf(year, days) = r
  BY <1>1, <1>3, <1>5, <1>8 DEF DateOf
<1>11. SameDay(p, r)
  <2>1. SameDay(p, y)
    BY <1>2, <1>4, <1>6, SameDayChains DEF CenturyReached, YearReached
  <2> QED
    BY <1>2, <1>9, <2>1, SameDayChains DEF MonthReached
<1>12. /\ r \in Counts /\ r.month \in 1 .. 12 /\ r.days <= DaysInMonth(r.month, r.year)
       /\ r.year >= year
       /\ r.days = 0 <=> days = 0
  BY <1>2, <1>9, <1>11 DEF MonthReached, SameDay
<1>13. DaysToYear(r.year) + DaysToMonth(r.month, r.year) + r.days = DaysToYear(year) + days
  <2>1. DaysToMonth(1, year) = 0 /\ DaysToYear(year) \in Nat
    BY YearByYear DEF DaysToMonth
  <2> QED
    BY <1>2, <1>11, <2>1 DEF SameDay
<1>14. r.year \in Nat /\ r.days \in Nat /\ r.year >= 1
  BY <1>12 DEF Counts
<1>15. DayNumber(r.year, r.month, r.days)
         = DaysToYear(r.year) + DaysToMonth(r.month, r.year) + r.days - 60
  BY <1>12, <1>14, NumberOfDay
<1>16. DayNumber(year, 1, 0) = DaysToYear(year) - 60
  <2>1. DaysToMonth(1, year) = 0 /\ DaysToYear(year) \in Nat
    BY YearByYear DEF DaysToMonth
  <2>2. DayNumber(year, 1, 0) = DaysToYear(year) + DaysToMonth(1, year) + 0 - 60
    <3>1. 1 \in 1 .. 12 /\ 0 \in Nat
      OBVIOUS
    <3> QED BY <3>1, NumberOfDay
  <2> QED BY <2>1, <2>2
<1>17. DaysToYear(r.year) \in Nat /\ DaysToMonth(r.month, r.year) \in Nat /\ DaysToYear(year) \in Nat
  <2>1. DaysToYear(r.year) \in Nat /\ DaysToMonth(r.month, r.year) \in Nat
    BY <1>12, CountTypes
  <2> QED BY <2>1, YearByYear
<1>18. DayNumber(r.year, r.month, r.days) = DayNumber(year, 1, 0) + days
  BY <1>13, <1>14, <1>15, <1>16, <1>17
<1>19. days # 0 => r.days \in 1 .. DaysInMonth(r.month, r.year)
  <2>1. DaysInMonth(r.month, r.year) \in Nat
    <3>1. r.month \in Nat
      BY <1>12
    <3> QED BY <1>14, <3>1, MonthByMonth
  <2> QED BY <1>12, <1>14, <2>1
<1> QED
  BY <1>10, <1>12, <1>18, <1>19

(* A timestamp is ahead of its date by the days of Ahead: by the month and *)
(* the year that are summed with those before them (libfsfat_date_time.c). *)
LEMMA DaysAhead ==
  ASSUME NEW d \in StoredDates, IsDate(d)
  PROVE  /\ Days(d) = DaysSince1980(d) + Ahead(d)
         /\ Days(d) \in Nat /\ Days(d) >= 28 /\ Days(d) <= 60000
<1>1. /\ d.year \in 0 .. 127 /\ d.month \in 1 .. 12
      /\ d.day \in 1 .. DaysInMonth(d.month, 1980 + d.year)
  BY DEF StoredDates, IsDate
<1>2. PICK year \in Nat : year = 1980 + d.year
  BY <1>1
<1>3. PICK month \in 1 .. 12 : month = d.month
  BY <1>1
<1>4. month \in Nat /\ d.year \in Nat /\ d.day \in Nat /\ d.day >= 1
      /\ year >= 1980 /\ year <= 2107
  <2>1. d.day \in Int
    BY DEF StoredDates
  <2> QED BY <1>1, <1>2, <1>3, <2>1
<1>5. /\ DaysInMonth(month, year) >= 28 /\ DaysInMonth(month, year) <= 31
      /\ DaysInMonth(month, year) \in Nat
      /\ DaysToMonth(month, year) \in Nat
      /\ DaysToMonth(month + 1, year) = DaysToMonth(month, year) + DaysInMonth(month, year)
  <2>1. DaysInMonth(month, year) >= 28 /\ DaysInMonth(month, year) <= 31
    BY MonthLength
  <2> QED
    BY <1>4, <2>1, MonthByMonth
<1>6. /\ DaysToYear(year) \in Nat /\ DaysInYear(year) \in {365, 366}
      /\ DaysToYear(year + 1) = DaysToYear(year) + DaysInYear(year)
  BY YearByYear
<1>7. DaysOfMonths(1980 + d.year)[d.month] = DaysToMonth(month + 1, year)
  BY <1>2, <1>3, <1>4, MonthsSummed
<1>8. DaysOfYears[d.year] = DaysToYear(year + 1) - DaysToYear(1981)
  <2>1. 1981 + d.year = year + 1
    BY <1>2, <1>4
  <2> QED
    BY <1>4, <2>1, YearsSummed
<1>9. Days(d) = d.day + DaysToMonth(month + 1, year) + (DaysToYear(year + 1) - DaysToYear(1981))
  BY <1>7, <1>8 DEF Days
<1>10. /\ DaysToYear(1980) = 723180 /\ DaysToYear(1981) = 723546
       /\ DayNumber(1980, 1, 1) = 723121 /\ DaysInYear(1980) = 366
  BY DEF DaysToYear, DayNumber, DaysInYear, IsLeapYear
<1>11. DayNumber(1980 + d.year, d.month, d.day)
         = DaysToYear(year) + DaysToMonth(month, year) + d.day - 60
  BY <1>2, <1>3, <1>4, NumberOfDay
<1>12. Days(d) = DaysSince1980(d) + Ahead(d)
  BY <1>2, <1>3, <1>4, <1>5, <1>6, <1>9, <1>10, <1>11 DEF DaysSince1980, Ahead
<1>13. DaysToMonth(month, year) <= 366
  BY <1>6 DEF DaysToMonth, DaysInMonth
<1>14. DaysToYear(year) >= 723180 /\ DaysToYear(year) <= 723180 + 46600
  BY <1>4 DEF DaysToYear
<1>15. d.day <= 31
  BY <1>1, <1>2, <1>3, <1>4, <1>5
<1> QED
  BY <1>4, <1>5, <1>6, <1>9, <1>10, <1>12, <1>13, <1>14, <1>15

(* The hundredths of a second within a minute of a stored date,            *)
StoredHundredths(d) == 200 * d.seconds + d.fraction

(* the values a timestamp has since 1980,                                  *)
SinceThen(timestamp) ==
  /\ timestamp.minutes \in Nat
  /\ timestamp.hundredths \in Nat /\ timestamp.hundredths < 6000

(* and the time a date stands for, if it is at UTC.                        *)
StandsFor(timestamp, d) ==
  /\ ~ IsElsewhere(d) => timestamp.minutes = MinutesAhead(d)
  /\ timestamp.hundredths = StoredHundredths(d)

(* The timestamp of a date, to the minute.                                 *)
LEMMA TimeAhead ==
  ASSUME NEW d \in StoredDates, IsDate(d)
  PROVE  StandsFor(Timestamp(d), d) /\ SinceThen(Timestamp(d))
<1>1. /\ Days(d) = DaysSince1980(d) + Ahead(d)
      /\ Days(d) \in Nat /\ Days(d) >= 28
  BY DaysAhead
<1>2. /\ d.hours \in Nat /\ d.minutes \in Nat /\ d.seconds \in Nat /\ d.fraction \in Nat
      /\ d.seconds < 30 /\ d.fraction < 200
  BY DEF StoredDates, IsDate
<1>3. UtcOffset(d) \in Int /\ UtcOffset(d) >= -960
  <2>1. d.utc_offset \in Nat
    BY DEF StoredDates
  <2>2. d.utc_offset % 128 \in Nat
    BY <2>1
  <2>3. PICK quarters \in Nat : quarters = d.utc_offset % 128
    BY <2>2
  <2>4. CASE d.utc_offset < 128
    BY <2>4 DEF UtcOffset
  <2>5. CASE ~ (d.utc_offset < 128) /\ quarters < 64
    <3>1. UtcOffset(d) = quarters * 15
      BY <2>3, <2>5 DEF UtcOffset
    <3> QED BY <3>1
  <2>6. CASE ~ (d.utc_offset < 128) /\ ~ (quarters < 64)
    <3>1. UtcOffset(d) = - (128 - quarters) * 15
      BY <2>3, <2>6 DEF UtcOffset
    <3> QED BY <2>6, <3>1
  <2> QED BY <2>4, <2>5, <2>6
<1>4. /\ Timestamp(d).minutes = (Days(d) * 24 + d.hours) * 60 + d.minutes + UtcOffset(d)
      /\ Timestamp(d).hundredths = 200 * d.seconds + d.fraction
  BY DEF Timestamp
<1>5. ASSUME ~ IsElsewhere(d)
      PROVE  Timestamp(d).minutes = MinutesAhead(d)
  <2>1. d.utc_offset \in 0 .. 128
    BY <1>5 DEF StoredDates, IsElsewhere
  <2>2. UtcOffset(d) = 0
    <3>1. CASE d.utc_offset < 128
      BY <3>1 DEF UtcOffset
    <3>2. CASE d.utc_offset = 128
      <4>1. 128 % 128 = 0 /\ ~ (128 < 128) /\ 0 < 64 /\ 0 * 15 = 0
        OBVIOUS
      <4> QED
        BY <3>2, <4>1 DEF UtcOffset
    <3> QED
      BY <2>1, <3>1, <3>2
  <2>3. PICK days \in Nat, hours \in Nat, minutes \in Nat :
          days = Days(d) /\ hours = d.hours /\ minutes = d.minutes
    BY <1>1, <1>2
  <2>4. (days * 24 + hours) * 60 + minutes + 0 = (days * 24 + hours) * 60 + minutes
    OBVIOUS
  <2> QED
    BY <1>1, <1>4, <2>2, <2>3, <2>4 DEF MinutesAhead
<1>6. Timestamp(d).minutes \in Nat
  <2>1. PICK days \in Nat : days = Days(d) /\ days >= 28
    BY <1>1
  <2>2. PICK hours \in Nat, minutes \in Nat : hours = d.hours /\ minutes = d.minutes
    BY <1>2
  <2>3. PICK offset \in Int : offset = UtcOffset(d) /\ offset >= -960
    BY <1>3
  <2>4. (days * 24 + hours) * 60 + minutes + offset \in Nat
    BY <2>1, <2>2, <2>3
  <2> QED BY <1>4, <2>1, <2>2, <2>3, <2>4
<1>7. Timestamp(d).hundredths \in Nat /\ Timestamp(d).hundredths < 6000
  <2>1. PICK seconds \in Nat, fraction \in Nat :
          /\ seconds = d.seconds /\ fraction = d.fraction
          /\ seconds < 30 /\ fraction < 200
    BY <1>2
  <2>2. 200 * seconds + fraction \in Nat /\ 200 * seconds + fraction < 6000
    BY <2>1
  <2> QED BY <1>4, <2>1, <2>2
<1> QED
  BY <1>4, <1>5, <1>6, <1>7 DEF StandsFor, SinceThen, StoredHundredths

(* The days of the calendar at which the loops start.                      *)
LEMMA FixedDays ==
  /\ DayNumber(1980, 1, 1) = 723121
  /\ DayNumber(1970, 1, 0) = 719468
  /\ DayNumber(2000, 1, 0) = 730425
  /\ LastOf1999 = 7304
BY DEF DayNumber, LastOf1999

(* The days between 1970 and 1980 are whole days.                          *)
LEMMA DayAndTime ==
  ASSUME NEW m \in Nat
  PROVE  /\ m \div (24 * 60) \in Nat
         /\ (m + MinutesBefore1980) \div (24 * 60) = m \div (24 * 60) + 3652
         /\ (m + MinutesBefore1980) % (24 * 60) = m % (24 * 60)
<1>1. 24 * 60 = 1440 /\ MinutesBefore1980 = 5258880
  BY DEF MinutesBefore1980
<1>2. /\ m \div 1440 \in Nat
      /\ (m + 5258880) \div 1440 = m \div 1440 + 3652
      /\ (m + 5258880) % 1440 = m % 1440
  OBVIOUS
<1> QED BY <1>1, <1>2

(* What a script is shown of a timestamp.                                  *)
ShownRight(minutes, hundredths, what) ==
  IF what.is = "error"
  THEN minutes \div (24 * 60) = LastOf1999
  ELSE /\ DayNumber(what.date.year, what.date.month, what.date.days)
            = DayNumber(1980, 1, 1) + minutes \div (24 * 60)
       /\ what.date.month \in 1 .. 12
       /\ what.date.days \in 1 .. DaysInMonth(what.date.month, what.date.year)
       /\ what.minutes = minutes % (24 * 60)
       /\ what.hundredths = hundredths

(* Every timestamp since 1980 is shown as the date and time it stands for, *)
(* or is in the last day of 1999 (pyfsfat_datetime.c:675).                 *)
LEMMA TimestampShown ==
  ASSUME NEW timestamp, SinceThen(timestamp)
  PROVE  ShownRight(timestamp.minutes, timestamp.hundredths, Shown(timestamp))
<1>1. PICK m \in Nat : m = timestamp.minutes
  BY DEF SinceThen
<1>2. PICK h \in Nat : h = timestamp.hundredths /\ h < 6000
  BY DEF SinceThen
<1>3. h \div 6000 = 0 /\ h % 6000 = h
  BY <1>2
<1>4. PICK q \in Nat : q = m \div (24 * 60)
  BY DayAndTime
<1>5. PICK days \in Nat : days = q + 3653
  OBVIOUS
<1> DEFINE Posix == timestamp.minutes + timestamp.hundredths \div 6000 + MinutesBefore1980
           Counted == Posix \div (24 * 60) + 1
           On == IF Counted >= DaysBefore2000 THEN DateOf(2000, Counted - DaysBefore2000)
                                              ELSE DateOf(1970, Counted)
<1>6. Shown(timestamp) = [is         |-> IF On.days = 0 \/ On.month > 12 THEN "error" ELSE "date",
                          date       |-> On,
                          minutes    |-> Posix % (24 * 60),
                          hundredths |-> timestamp.hundredths % 6000]
  BY DEF Shown
<1>7. Posix = m + MinutesBefore1980
  BY <1>1, <1>2, <1>3 DEF MinutesBefore1980
<1> HIDE DEF Posix
<1>8. Counted = days /\ Posix % (24 * 60) = m % (24 * 60)
  BY <1>4, <1>5, <1>7, DayAndTime
<1> HIDE DEF Counted
<1>9. PICK what : what = Shown(timestamp)
  OBVIOUS
<1> HIDE DEF On
<1>10. PICK on : on = On
  OBVIOUS
<1>11. /\ on.month \in 1 .. 12
       /\ on.days = 0 => q = 7304
       /\ on.days # 0 =>
            /\ on.days \in 1 .. DaysInMonth(on.month, on.year)
            /\ DayNumber(on.year, on.month, on.days) = 723121 + q
  <2>1. CASE days >= 10957
    <3>1. PICK n \in Nat : n = days - 10957
      BY <2>1
    <3>2. on = DateOf(2000, n)
      BY <1>8, <1>10, <2>1, <3>1 DEF DaysBefore2000, On
    <3>3. StartsWell(2000, n) /\ 2000 \in Nat /\ 2000 >= 1
      BY DEF StartsWell
    <3>4. /\ on.month \in 1 .. 12
          /\ on.days = 0 <=> n = 0
          /\ n # 0 => /\ on.days \in 1 .. DaysInMonth(on.month, on.year)
                      /\ DayNumber(on.year, on.month, on.days) = 730425 + n
      BY <3>2, <3>3, DateIsOfCalendar, FixedDays
    <3> QED
      BY <1>5, <3>1, <3>4
  <2>2. CASE days < 10957
    <3>1. on = DateOf(1970, days)
      BY <1>8, <1>10, <2>2 DEF DaysBefore2000, On
    <3>2. StartsWell(1970, days) /\ 1970 \in Nat /\ 1970 >= 1 /\ days # 0
      BY <1>5, <2>2 DEF StartsWell
    <3>3. /\ on.month \in 1 .. 12
          /\ on.days = 0 <=> days = 0
          /\ days # 0 => /\ on.days \in 1 .. DaysInMonth(on.month, on.year)
                         /\ DayNumber(on.year, on.month, on.days) = 719468 + days
      BY <3>1, <3>2, DateIsOfCalendar, FixedDays
    <3> QED
      BY <1>5, <3>2, <3>3
  <2> QED BY <2>1, <2>2
<1>12. what.date = on /\ what.minutes = m % (24 * 60) /\ what.hundredths = h
       /\ (what.is = "error" <=> on.days = 0)
  <2>1. ~ (on.month > 12)
    BY <1>11
  <2>2. timestamp.hundredths % 6000 = h
    BY <1>2, <1>3
  <2> QED
    BY <1>6, <1>8, <1>9, <1>10, <2>1, <2>2
<1>13. ShownRight(m, h, what)
  <2>1. CASE what.is = "error"
    BY <1>4, <1>11, <1>12, <2>1, FixedDays DEF ShownRight
  <2>2. CASE what.is # "error"
    BY <1>4, <1>11, <1>12, <2>2, FixedDays DEF ShownRight
  <2> QED BY <2>1, <2>2
<1> QED
  BY <1>1, <1>2, <1>9, <1>13

-----------------------------------------------------------------------------
(* The timestamp is that of the date, and what is shown that of the        *)
(* timestamp.                                                              *)
DateInv ==
  /\ HasTimestamp => date \in StoredDates /\ fat_timestamp = Timestamp(date)
  /\ shown.is # "none" =>
       /\ date \in StoredDates /\ fat_timestamp = Timestamp(date)
       /\ shown = Shown(Timestamp(date))

(* The invariant holds at first,                                           *)
LEMMA DateInvStarts == Init => DateInv
<1>1. ASSUME fat_timestamp = [minutes |-> 0], shown = [is |-> "none"] PROVE DateInv
  <2>1. "hundredths" \notin DOMAIN fat_timestamp
    BY <1>1
  <2>2. ~ HasTimestamp
    BY <2>1 DEF HasTimestamp
  <2> QED
    BY <1>1, <2>2 DEF DateInv
<1> QED
  BY <1>1 DEF Init, DateIdle, DateInit

(* and every step keeps it.                                                *)
LEMMA DateInvKept == DateInv /\ [Next]_vars => DateInv'
<1> SUFFICES ASSUME DateInv, [Next]_vars PROVE DateInv'
  OBVIOUS
<1>1. CASE UNCHANGED dateVars
  BY <1>1 DEF DateInv, dateVars, HasTimestamp
<1>2. CASE DateNext
  <2>1. CASE GetTimestamp
    BY <1>2, <2>1 DEF DateNext, GetTimestamp, DateInv
  <2>2. CASE ShowTimestamp
    BY <1>2, <2>2 DEF DateNext, ShowTimestamp, DateInv, HasTimestamp
  <2> QED
    BY <1>2, <2>1, <2>2 DEF DateNext
<1> QED
  BY <1>1, <1>2 DEF Next, vars

(* A timestamp is shown as the day of the calendar and the time of day that*)
(* it stands for, a date at UTC as those that are stored and ahead by the  *)
(* known number of days, and the three loops that count the days off end at*)
(* a day of that calendar; the last day of 1999 is the only one that is    *)
(* refused (pyfsfat_datetime.c:675).                                       *)
THEOREM DatesAreShown == Spec => []DateShown
<1>1. DateInv => DateShown
  <2> SUFFICES ASSUME DateInv, shown.is # "none", IsDate(date)
               PROVE  /\ IsShown(fat_timestamp.minutes)
                      /\ ~ IsElsewhere(date) => IsShown(MinutesAhead(date))
    BY DEF DateShown
  <2>1. date \in StoredDates /\ shown = Shown(Timestamp(date))
        /\ fat_timestamp = Timestamp(date)
    BY DEF DateInv
  <2>2. StandsFor(Timestamp(date), date) /\ SinceThen(Timestamp(date))
    BY <2>1, TimeAhead, Zenon
  <2>3. ShownRight(Timestamp(date).minutes, Timestamp(date).hundredths, Shown(Timestamp(date)))
    BY <2>2, TimestampShown, Zenon
  <2>4. ShownRight(fat_timestamp.minutes, StoredHundredths(date), shown)
    BY <2>1, <2>2, <2>3, Zenon DEF StandsFor
  <2>5. IsShown(fat_timestamp.minutes)
    BY <2>4, Zenon DEF ShownRight, IsShown, StoredHundredths
  <2>6. ~ IsElsewhere(date) => fat_timestamp.minutes = MinutesAhead(date)
    BY <2>1, <2>2, Zenon DEF StandsFor
  <2> QED
    BY <2>5, <2>6, Zenon
<1> QED
  BY <1>1, DateInvStarts, DateInvKept, PTL DEF Spec

-----------------------------------------------------------------------------
(***************************************************************************)
(* Names.                                                                  *)
(***************************************************************************)

(* The name of a directory entry as a sequence of characters.              *)
LEMMA SameSequence ==
  ASSUME NEW S, NEW s \in Seq(S), NEW t \in Seq(S), Len(s) = Len(t),
         \A i \in 1 .. Len(s) : s[i] = t[i]
  PROVE  s = t
OBVIOUS

LEMMA SubSeqIs ==
  ASSUME NEW S, NEW s \in Seq(S), NEW m \in Nat \ {0}, NEW n \in Nat, m <= n + 1, n <= Len(s)
  PROVE  /\ SubSeq(s, m, n) \in Seq(S)
         /\ Len(SubSeq(s, m, n)) = n - m + 1
         /\ \A i \in 1 .. n - m + 1 : SubSeq(s, m, n)[i] = s[m + i - 1]
OBVIOUS

LEMMA JoinedIs ==
  ASSUME NEW S, NEW s \in Seq(S), NEW t \in Seq(S)
  PROVE  /\ s \o t \in Seq(S)
         /\ Len(s \o t) = Len(s) + Len(t)
         /\ \A i \in 1 .. Len(s) : (s \o t)[i] = s[i]
         /\ \A i \in 1 .. Len(t) : (s \o t)[Len(s) + i] = t[i]
OBVIOUS

LEMMA PaddedIs ==
  ASSUME NEW s \in Seq(Nat), NEW n \in Nat, NEW character \in Nat, Len(s) <= n
  PROVE  /\ Padded(s, n, character) \in Seq(Nat)
         /\ Len(Padded(s, n, character)) = n
         /\ \A i \in 1 .. Len(s) : Padded(s, n, character)[i] = s[i]
         /\ \A i \in Len(s) + 1 .. n : Padded(s, n, character)[i] = character
<1>1. PICK m \in Nat : m = Len(s)
  OBVIOUS
<1>2. n - m \in Nat
  BY <1>1
<1>3. PICK t : t = [i \in 1 .. n - m |-> character]
  OBVIOUS
<1>4. t \in Seq(Nat) /\ Len(t) = n - m /\ \A i \in 1 .. n - m : t[i] = character
  BY <1>2, <1>3
<1>5. Padded(s, n, character) = s \o t
  BY <1>1, <1>3 DEF Padded
<1>6. /\ s \o t \in Seq(Nat) /\ Len(s \o t) = n
      /\ \A i \in 1 .. m : (s \o t)[i] = s[i]
  BY <1>1, <1>4
<1>7. ASSUME NEW i \in m + 1 .. n PROVE (s \o t)[i] = character
  <2>1. i - m \in 1 .. n - m /\ m + (i - m) = i
    BY <1>1, <1>7
  <2>2. (s \o t)[m + (i - m)] = t[i - m]
    BY <1>1, <1>4, <2>1, JoinedIs
  <2> QED BY <1>4, <2>1, <2>2
<1> QED BY <1>1, <1>5, <1>6, <1>7

(* Where a character is first.                                             *)
LEMMA FoundFirst ==
  ASSUME NEW s \in Seq(Nat), NEW character \in Nat, NEW n \in 1 .. Len(s),
         s[n] = character, \A i \in 1 .. n - 1 : s[i] # character
  PROVE  SelectInSeq(s, LAMBDA c : c = character) = n
<1> DEFINE found == {i \in 1 .. Len(s) : s[i] = character}
<1>1. n \in found /\ \A i \in found : n <= i
  OBVIOUS
<1>2. SelectInSeq(s, LAMBDA c : c = character) = Min(found)
  BY <1>1 DEF SelectInSeq
<1>3. Min(found) = n
  <2>1. \A i \in found : i \in Int
    OBVIOUS
  <2> HIDE DEF found
  <2>2. \E i \in found : \A j \in found : i <= j
    BY <1>1
  <2>3. Min(found) \in found /\ \A j \in found : Min(found) <= j
    BY <2>2 DEF Min
  <2>4. Min(found) <= n /\ n <= Min(found)
    BY <1>1, <2>3
  <2>5. Min(found) \in Int /\ n \in Int
    BY <2>1, <2>3
  <2> QED BY <2>4, <2>5
<1> QED BY <1>2, <1>3

LEMMA FoundNowhere ==
  ASSUME NEW s \in Seq(Nat), NEW character \in Nat, \A i \in 1 .. Len(s) : s[i] # character
  PROVE  SelectInSeq(s, LAMBDA c : c = character) = 0
BY DEF SelectInSeq

(* What is in front of the first character of a kind.                      *)
LEMMA UpToIs ==
  ASSUME NEW s \in Seq(Nat), NEW character \in Nat, NEW n \in Nat, n <= Len(s),
         \A i \in 1 .. n : s[i] # character,
         n < Len(s) => s[n + 1] = character
  PROVE  UpTo(s, character) = SubSeq(s, 1, n)
<1>1. CASE n < Len(s)
  <2>1. n + 1 \in 1 .. Len(s) /\ (n + 1) - 1 = n
    BY <1>1
  <2>2. SelectInSeq(s, LAMBDA c : c = character) = n + 1
    BY <1>1, <2>1, FoundFirst
  <2>3. PICK at \in Nat : at = n + 1 /\ at # 0 /\ at - 1 = n
    <3>1. n + 1 \in Nat /\ n + 1 # 0 /\ (n + 1) - 1 = n
      OBVIOUS
    <3> QED BY <3>1
  <2>4. SelectInSeq(s, LAMBDA c : c = character) = at
    BY <2>2, <2>3
  <2>5. UpTo(s, character) = SubSeq(s, 1, at - 1)
    BY <2>3, <2>4 DEF UpTo
  <2> QED BY <2>3, <2>5
<1>2. CASE n = Len(s)
  <2>1. SelectInSeq(s, LAMBDA c : c = character) = 0
    BY <1>2, FoundNowhere
  <2>2. SubSeq(s, 1, n) = s
    BY <1>2
  <2> QED BY <2>1, <2>2 DEF UpTo
<1> QED BY <1>1, <1>2

(* Two runs of a sequence next to each other are one.                      *)
LEMMA RunsJoined ==
  ASSUME NEW S, NEW s \in Seq(S), NEW a \in Nat, NEW b \in Nat, a <= b, b <= Len(s)
  PROVE  SubSeq(s, 1, a) \o SubSeq(s, a + 1, b) = SubSeq(s, 1, b)
<1>1. PICK q : q = SubSeq(s, 1, a)
  OBVIOUS
<1>2. PICK r : r = SubSeq(s, a + 1, b)
  OBVIOUS
<1>3. PICK t : t = SubSeq(s, 1, b)
  OBVIOUS
<1>4. q \in Seq(S) /\ Len(q) = a /\ \A i \in 1 .. a : q[i] = s[i]
  BY <1>1, SubSeqIs
<1>5. r \in Seq(S) /\ Len(r) = b - a /\ \A i \in 1 .. b - a : r[i] = s[a + i]
  <2>1. a + 1 \in Nat \ {0} /\ a + 1 <= b + 1 /\ b - (a + 1) + 1 = b - a
    OBVIOUS
  <2>2. \A i \in 1 .. b - a : (a + 1) + i - 1 = a + i
    OBVIOUS
  <2> QED BY <1>2, <2>1, <2>2, SubSeqIs
<1>6. t \in Seq(S) /\ Len(t) = b /\ \A i \in 1 .. b : t[i] = s[i]
  BY <1>3, SubSeqIs
<1>7. q \o r \in Seq(S) /\ Len(q \o r) = b
  <2>1. q \o r \in Seq(S) /\ Len(q \o r) = Len(q) + Len(r)
    BY <1>4, <1>5, JoinedIs
  <2>2. Len(q) + Len(r) = b
    BY <1>4, <1>5
  <2> QED BY <2>1, <2>2
<1>8. ASSUME NEW i \in 1 .. b PROVE (q \o r)[i] = t[i]
  <2>1. CASE i <= a
    <3>1. i \in 1 .. Len(q)
      BY <1>4, <2>1
    <3>2. (q \o r)[i] = q[i]
      BY <1>4, <1>5, <3>1, JoinedIs
    <3> QED BY <1>4, <1>6, <3>1, <3>2
  <2>2. CASE i > a
    <3>1. PICK j \in 1 .. b - a : i = a + j
      <4>1. i - a \in 1 .. b - a /\ i = a + (i - a)
        BY <2>2
      <4> QED BY <4>1
    <3>2. (q \o r)[Len(q) + j] = r[j]
      <4>1. j \in 1 .. Len(r)
        BY <1>5
      <4> QED BY <1>4, <1>5, <4>1, JoinedIs
    <3> QED BY <1>4, <1>5, <1>6, <3>1, <3>2
  <2>3. i <= a \/ i > a
    OBVIOUS
  <2> QED BY <2>1, <2>2, <2>3
<1>9. q \o r = t
  BY <1>6, <1>7, <1>8, SameSequence
<1> QED BY <1>1, <1>2, <1>3, <1>9

(* What joins the first sequences of several, one after the other.         *)
Joins(f, n, seqs) ==
  f = [i \in 1 .. n |-> IF i = 1 THEN seqs[i] ELSE f[i - 1] \o seqs[i]]

LEMMA JoinsAre ==
  ASSUME NEW n, NEW seqs, NEW f, Joins(f, n, seqs), NEW i \in 1 .. n
  PROVE  f[i] = IF i = 1 THEN seqs[i] ELSE f[i - 1] \o seqs[i]
BY DEF Joins

(* There is one at most.                                                   *)
LEMMA SameJoins ==
  ASSUME NEW n \in Nat, NEW seqs, NEW f, NEW g, Joins(f, n, seqs), Joins(g, n, seqs)
  PROVE  f = g
<1> DEFINE Others == {i \in 1 .. n : f[i] # g[i]}
<1>1. \A i \in 1 .. n : /\ f[i] = IF i = 1 THEN seqs[i] ELSE f[i - 1] \o seqs[i]
                       /\ g[i] = IF i = 1 THEN seqs[i] ELSE g[i - 1] \o seqs[i]
  BY JoinsAre
<1>2. ASSUME Others # {} PROVE FALSE
  <2>1. PICK i \in Others : \A j \in Others : i <= j
    <3>1. Others \subseteq Nat
      OBVIOUS
    <3> HIDE DEF Others
    <3> QED BY <1>2, <3>1, FirstNatural
  <2>2. i \in 1 .. n /\ f[i] # g[i] /\ i # 1
    BY <1>1
  <2>3. i - 1 \in 1 .. n /\ i - 1 \notin Others
    <3>1. i - 1 \in 1 .. n /\ ~ (i <= i - 1)
      BY <2>2
    <3> HIDE DEF Others
    <3> QED BY <2>1, <3>1
  <2>4. f[i - 1] = g[i - 1]
    BY <2>3
  <2>5. f[i] = f[i - 1] \o seqs[i] /\ g[i] = g[i - 1] \o seqs[i]
    BY <1>1, <2>2
  <2> QED BY <2>2, <2>4, <2>5
<1>3. \A i \in 1 .. n : f[i] = g[i]
  BY <1>2
<1>4. f = [i \in 1 .. n |-> f[i]] /\ g = [i \in 1 .. n |-> g[i]]
  BY DEF Joins
<1> QED BY <1>3, <1>4

(* The parts that a name is cut into, one behind the other, are the name.  *)
LEMMA PartsFlattened ==
  ASSUME NEW s \in Seq(Nat), NEW length \in Nat \ {0}, NEW n \in Nat \ {0},
         Len(s) = n * length
  PROVE  /\ Parts(s, length) \in Seq(Seq(Nat))
         /\ Len(Parts(s, length)) = n
         /\ FlattenSeq(Parts(s, length)) = s
<1>1. Len(s) \div length = n
  <2>1. n * length \in Int /\ n * length <= n * length /\ n * length < n * length + length
    OBVIOUS
  <2> QED BY <2>1, DivUnique
<1>2. PICK seqs : seqs = Parts(s, length)
  OBVIOUS
<1>3. seqs = [i \in 1 .. n |-> SubSeq(s, (i - 1) * length + 1, i * length)]
  BY <1>1, <1>2 DEF Parts
<1>4. ASSUME NEW i \in 1 .. n
      PROVE  /\ (i - 1) * length \in Nat /\ i * length \in Nat
             /\ (i - 1) * length + length = i * length
             /\ (i - 1) * length <= i * length /\ i * length <= Len(s)
  <2>1. i \in Nat /\ i - 1 \in Nat /\ i <= n
    OBVIOUS
  <2>2. i * length <= n * length
    BY <2>1, ProductsGrow
  <2> QED BY <2>1, <2>2
<1>5. \A i \in 1 .. n : seqs[i] \in Seq(Nat)
  <2> SUFFICES ASSUME NEW i \in 1 .. n PROVE seqs[i] \in Seq(Nat)
    OBVIOUS
  <2>1. PICK a \in Nat : a = (i - 1) * length
    BY <1>4
  <2>2. PICK b \in Nat : b = i * length
    BY <1>4
  <2>3. a + 1 \in Nat \ {0} /\ a + 1 <= b + 1 /\ b <= Len(s)
    BY <1>4, <2>1, <2>2
  <2>4. seqs[i] = SubSeq(s, a + 1, b)
    BY <1>3, <2>1, <2>2
  <2> QED BY <2>3, <2>4, SubSeqIs
<1>6. seqs \in Seq(Seq(Nat)) /\ Len(seqs) = n
  <2>1. seqs \in [1 .. n -> Seq(Nat)]
    BY <1>3, <1>5
  <2> QED BY <2>1
<1>7. PICK joined : joined = [i \in 1 .. n |-> SubSeq(s, 1, i * length)]
  OBVIOUS
<1>8. ASSUME NEW i \in 1 .. n
      PROVE  joined[i] = IF i = 1 THEN seqs[i] ELSE joined[i - 1] \o seqs[i]
  <2>1. PICK a \in Nat : a = (i - 1) * length
    BY <1>4
  <2>2. PICK b \in Nat : b = i * length
    BY <1>4
  <2>3. a <= b /\ b <= Len(s)
    BY <1>4, <2>1, <2>2
  <2>4. seqs[i] = SubSeq(s, a + 1, b) /\ joined[i] = SubSeq(s, 1, b)
    BY <1>3, <1>7, <2>1, <2>2
  <2>5. CASE i = 1
    <3>1. a + 1 = 1
      BY <2>1, <2>5
    <3> QED BY <2>4, <2>5, <3>1
  <2>6. CASE i # 1
    <3>1. i - 1 \in 1 .. n
      BY <2>6
    <3>2. joined[i - 1] = SubSeq(s, 1, a)
      BY <1>7, <2>1, <3>1
    <3>3. SubSeq(s, 1, a) \o SubSeq(s, a + 1, b) = SubSeq(s, 1, b)
      BY <2>3, RunsJoined
    <3> QED BY <2>4, <2>6, <3>2, <3>3
  <2> QED BY <2>5, <2>6
<1>9. Joins(joined, n, seqs)
  <2>1. joined = [i \in 1 .. n |-> joined[i]]
    BY <1>7
  <2> QED BY <1>8, <2>1 DEF Joins
<1> DEFINE flatten[i \in 1 .. Len(seqs)] ==
      IF i = 1 THEN seqs[i] ELSE flatten[i - 1] \o seqs[i]
<1>10. FlattenSeq(seqs) = flatten[Len(seqs)]
  BY <1>6 DEF FlattenSeq
<1>11. flatten = [i \in 1 .. Len(seqs) |->
                    IF i = 1 THEN seqs[i] ELSE flatten[i - 1] \o seqs[i]]
  <2>1. \E f : f = [i \in 1 .. Len(seqs) |-> IF i = 1 THEN seqs[i] ELSE f[i - 1] \o seqs[i]]
    BY <1>6, <1>9 DEF Joins
  <2> QED BY <2>1
<1> HIDE DEF flatten
<1>12. PICK f : f = flatten
  OBVIOUS
<1>13. Joins(f, n, seqs)
  BY <1>6, <1>11, <1>12 DEF Joins
<1>14. f = joined
  BY <1>9, <1>13, SameJoins
<1>15. FlattenSeq(seqs) = joined[n]
  BY <1>6, <1>10, <1>12, <1>14
<1>16. joined[n] = s
  <2>1. n \in 1 .. n
    OBVIOUS
  <2>2. joined[n] = SubSeq(s, 1, Len(s))
    BY <1>7, <2>1
  <2> QED BY <2>2
<1> QED BY <1>2, <1>6, <1>15, <1>16

(* A number of whole parts.                                                *)
LEMMA RoundedUpIs ==
  ASSUME NEW n \in Nat, NEW length \in Nat \ {0}
  PROVE  \E k \in Nat : /\ RoundedUp(n, length) = k * length
                        /\ k * length \in Nat
                        /\ n <= k * length
                        /\ k * length < n + length
<1>1. PICK k : k = (n + length - 1) \div length
  OBVIOUS
<1>2. n + length - 1 \in Int /\ n + length - 1 >= 0
  OBVIOUS
<1>3. k \in Nat /\ k * length <= n + length - 1 /\ n + length - 1 < k * length + length
  BY <1>1, <1>2, DivBounds
<1>4. PICK m \in Nat : m = k * length
  <2>1. k * length \in Nat
    BY <1>3
  <2> QED BY <2>1
<1>5. n <= m /\ m < n + length
  BY <1>3, <1>4
<1>6. RoundedUp(n, length) = m
  BY <1>1, <1>4 DEF RoundedUp
<1> QED BY <1>3, <1>4, <1>5, <1>6

LEMMA NoParts ==
  ASSUME NEW s \in Seq(Nat), NEW length \in Nat \ {0}, Len(s) = 0
  PROVE  Parts(s, length) = <<>>
<1>1. 0 \div length = 0
  OBVIOUS
<1>2. Parts(s, length) = [i \in 1 .. 0 |-> SubSeq(s, (i - 1) * length + 1, i * length)]
  BY <1>1 DEF Parts
<1> QED BY <1>2

LEMMA ReversedTwice ==
  ASSUME NEW S, NEW s \in Seq(S)
  PROVE  /\ Reverse(s) \in Seq(S)
         /\ Len(Reverse(s)) = Len(s)
         /\ Reverse(Reverse(s)) = s
<1>1. PICK n \in Nat : n = Len(s)
  OBVIOUS
<1>2. PICK t : t = Reverse(s)
  OBVIOUS
<1>3. t = [i \in 1 .. n |-> s[(n - i) + 1]]
  BY <1>1, <1>2 DEF Reverse
<1>4. \A i \in 1 .. n : (n - i) + 1 \in 1 .. n /\ n - ((n - i) + 1) + 1 = i
  BY <1>1
<1>5. t \in Seq(S) /\ Len(t) = n
  BY <1>1, <1>3, <1>4
<1>6. Reverse(t) = [i \in 1 .. n |-> t[(n - i) + 1]]
  BY <1>5 DEF Reverse
<1>7. ASSUME NEW i \in 1 .. n PROVE t[(n - i) + 1] = s[i]
  <2>1. PICK j \in 1 .. n : j = (n - i) + 1 /\ (n - j) + 1 = i
    BY <1>4
  <2>2. t[j] = s[(n - j) + 1]
    BY <1>3, <2>1
  <2> QED BY <2>1, <2>2
<1>8. Reverse(t) = [i \in 1 .. n |-> s[i]]
  BY <1>6, <1>7
<1>9. s = [i \in 1 .. n |-> s[i]]
  BY <1>1
<1> QED BY <1>1, <1>2, <1>5, <1>8, <1>9

(* A name that is filled up behind its end, or full, is read back.         *)
LEMMA FilledName ==
  ASSUME NEW name \in Seq(Nat), NEW p \in Seq(Nat), NEW character \in Nat,
         ~ HasCharacter(name, character), Len(name) <= Len(p),
         \A i \in 1 .. Len(name) : p[i] = name[i],
         Len(name) < Len(p) => p[Len(name) + 1] = character
  PROVE  UpTo(p, character) = name
<1>1. PICK n \in Nat : n = Len(name)
  OBVIOUS
<1>2. \A i \in 1 .. n : p[i] # character
  BY <1>1 DEF HasCharacter
<1>3. UpTo(p, character) = SubSeq(p, 1, n)
  BY <1>1, <1>2, UpToIs
<1>4. PICK t : t = SubSeq(p, 1, n)
  OBVIOUS
<1>5. t \in Seq(Nat) /\ Len(t) = n /\ \A i \in 1 .. n : t[i] = p[i]
  BY <1>1, <1>4, SubSeqIs
<1>6. t = name
  BY <1>1, <1>5, SameSequence
<1> QED BY <1>3, <1>4, <1>6

(* The parts of exFAT are put together to the name they were cut from.     *)
LEMMA ExfatNameIs ==
  ASSUME NEW name \in Seq(Nat), ~ HasCharacter(name, Nul)
  PROVE  /\ ExfatParts(name) \in Seq(Seq(Nat))
         /\ HasExfatName(ExfatParts(name)) => NameFromExfat(ExfatParts(name)) = name
<1>0. ExfatPart \in Nat \ {0} /\ Nul \in Nat
  BY DirectoryEntryAssumption DEF Nul
<1>1. PICK n \in Nat : n = Len(name)
  OBVIOUS
<1>2. PICK k \in Nat : /\ RoundedUp(n, ExfatPart) = k * ExfatPart
                       /\ k * ExfatPart \in Nat
                       /\ n <= k * ExfatPart
  BY <1>0, RoundedUpIs
<1>3. PICK m \in Nat : m = k * ExfatPart
  BY <1>2
<1>4. PICK p : p = Padded(name, m, Nul)
  OBVIOUS
<1>5. /\ p \in Seq(Nat) /\ Len(p) = m
      /\ \A i \in 1 .. n : p[i] = name[i]
      /\ \A i \in n + 1 .. m : p[i] = Nul
  <2>1. Len(name) <= m
    BY <1>1, <1>2, <1>3
  <2>2. /\ Padded(name, m, Nul) \in Seq(Nat)
        /\ Len(Padded(name, m, Nul)) = m
        /\ \A i \in 1 .. Len(name) : Padded(name, m, Nul)[i] = name[i]
        /\ \A i \in Len(name) + 1 .. m : Padded(name, m, Nul)[i] = Nul
    BY <1>0, <2>1, PaddedIs
  <2> QED BY <1>1, <1>4, <2>2
<1>6. ExfatParts(name) = Parts(p, ExfatPart)
  BY <1>1, <1>2, <1>3, <1>4 DEF ExfatParts
<1>7. CASE k = 0
  <2>1. m = 0
    BY <1>0, <1>3, <1>7
  <2>2. ExfatParts(name) = <<>>
    BY <1>0, <1>5, <1>6, <2>1, NoParts
  <2> QED BY <2>2 DEF HasExfatName
<1>8. CASE k # 0
  <2>1. Parts(p, ExfatPart) \in Seq(Seq(Nat)) /\ FlattenSeq(Parts(p, ExfatPart)) = p
    BY <1>0, <1>3, <1>5, <1>8, PartsFlattened
  <2>2. UpTo(p, Nul) = name
    <3>1. n < m => p[n + 1] = Nul
      <4> SUFFICES ASSUME n < m PROVE p[n + 1] = Nul
        OBVIOUS
      <4>1. n + 1 \in n + 1 .. m
        OBVIOUS
      <4> QED BY <1>5, <4>1
    <3>2. Len(name) <= Len(p)
      BY <1>1, <1>2, <1>3, <1>5
    <3> QED BY <1>0, <1>1, <1>5, <3>1, <3>2, FilledName
  <2> QED BY <1>6, <2>1, <2>2 DEF NameFromExfat
<1> QED BY <1>7, <1>8

LEMMA SmallRest ==
  ASSUME NEW n \in Nat, NEW length \in Nat \ {0}, n % length = 0
  PROVE  RoundedUp(n, length) = n
<1>1. PICK k : k = n \div length
  OBVIOUS
<1>2. k \in Nat /\ k * length = n
  <2>1. k \in Nat
    BY <1>1, DivBounds
  <2>2. n = k * length + (n % length)
    BY <1>1
  <2>3. k * length \in Nat
    BY <2>1
  <2> QED BY <2>1, <2>2, <2>3
<1>3. n + length - 1 \in Int /\ k * length <= n + length - 1
        /\ n + length - 1 < k * length + length
  BY <1>2
<1>4. (n + length - 1) \div length = k
  BY <1>2, <1>3, DivUnique
<1> QED BY <1>2, <1>4 DEF RoundedUp

(* The parts of VFAT, the last of them first.                              *)
LEMMA LongNameIs ==
  ASSUME NEW name \in Seq(Nat), ~ HasCharacter(name, Nul)
  PROVE  /\ LongParts(name) \in Seq(Seq(Nat))
         /\ HasLongName(LongParts(name)) => NameFromLong(LongParts(name)) = name
<1>0. LongPart \in Nat \ {0} /\ Nul \in Nat /\ Fill \in Nat
  BY DirectoryEntryAssumption DEF Nul, Fill
<1>1. PICK n \in Nat : n = Len(name)
  OBVIOUS
<1>2. PICK ended : ended = IF n % LongPart = 0 THEN name ELSE Append(name, Nul)
  OBVIOUS
<1>3. PICK l \in Nat : /\ ended \in Seq(Nat) /\ Len(ended) = l /\ n <= l
                       /\ \A i \in 1 .. n : ended[i] = name[i]
                       /\ n < l => ended[n + 1] = Nul
                       /\ l = n => n % LongPart = 0
  <2>1. CASE n % LongPart = 0
    BY <1>1, <1>2, <2>1
  <2>2. CASE n % LongPart # 0
    <3>1. ended = Append(name, Nul)
      BY <1>2, <2>2
    <3>2. /\ ended \in Seq(Nat) /\ Len(ended) = n + 1 /\ n + 1 \in Nat /\ n + 1 # n
          /\ \A i \in 1 .. n : ended[i] = name[i]
          /\ ended[n + 1] = Nul
      BY <1>0, <1>1, <3>1
    <3> QED BY <3>2
  <2> QED BY <2>1, <2>2
<1>4. PICK k \in Nat : /\ RoundedUp(l, LongPart) = k * LongPart
                       /\ k * LongPart \in Nat
                       /\ l <= k * LongPart
  BY <1>0, RoundedUpIs
<1>5. PICK m \in Nat : m = k * LongPart
  BY <1>4
<1>6. PICK p : p = Padded(ended, m, Fill)
  OBVIOUS
<1>7. p \in Seq(Nat) /\ Len(p) = m /\ \A i \in 1 .. l : p[i] = ended[i]
  <2>1. ended \in Seq(Nat) /\ Len(ended) <= m
    BY <1>3, <1>4, <1>5
  <2>2. /\ Padded(ended, m, Fill) \in Seq(Nat)
        /\ Len(Padded(ended, m, Fill)) = m
        /\ \A i \in 1 .. Len(ended) : Padded(ended, m, Fill)[i] = ended[i]
    BY <1>0, <2>1, PaddedIs
  <2> QED BY <1>3, <1>6, <2>2
<1>8. LongParts(name) = Reverse(Parts(p, LongPart))
  BY <1>1, <1>2, <1>3, <1>4, <1>5, <1>6 DEF LongParts
<1>9. CASE k = 0
  <2>1. m = 0
    BY <1>0, <1>5, <1>9
  <2>2. Parts(p, LongPart) = <<>>
    BY <1>0, <1>7, <2>1, NoParts
  <2>3. <<>> \in Seq(Seq(Nat)) /\ Len(<<>>) = 0
    OBVIOUS
  <2>4. Reverse(<<>>) \in Seq(Seq(Nat)) /\ Len(Reverse(<<>>)) = 0
    BY <2>3, ReversedTwice
  <2>5. LongParts(name) \in Seq(Seq(Nat)) /\ Len(LongParts(name)) = 0
    BY <1>8, <2>2, <2>4
  <2> QED BY <2>5 DEF HasLongName
<1>10. UpTo(p, Nul) = name
  <2>1. \A i \in 1 .. n : p[i] = name[i]
    <3> SUFFICES ASSUME NEW i \in 1 .. n PROVE p[i] = name[i]
      OBVIOUS
    <3>1. i \in 1 .. l
      BY <1>3
    <3> QED BY <1>3, <1>7, <3>1
  <2>2. n < m => p[n + 1] = Nul
    <3> SUFFICES ASSUME n < m PROVE p[n + 1] = Nul
      OBVIOUS
    <3>1. CASE l = n
      <4>1. RoundedUp(n, LongPart) = n
        BY <1>0, <1>3, <3>1, SmallRest
      <4> QED BY <1>4, <1>5, <3>1, <4>1
    <3>2. CASE l # n
      <4>1. n < l /\ n + 1 \in 1 .. l
        BY <1>3, <3>2
      <4> QED BY <1>3, <1>7, <4>1
    <3> QED BY <3>1, <3>2
  <2>3. n <= m
    BY <1>3, <1>4, <1>5
  <2> QED BY <1>0, <1>1, <1>7, <2>1, <2>2, <2>3, FilledName
<1>11. CASE k # 0
  <2>1. Parts(p, LongPart) \in Seq(Seq(Nat)) /\ FlattenSeq(Parts(p, LongPart)) = p
    BY <1>0, <1>5, <1>7, <1>11, PartsFlattened
  <2>2. /\ LongParts(name) \in Seq(Seq(Nat))
        /\ Reverse(LongParts(name)) = Parts(p, LongPart)
    BY <1>8, <2>1, ReversedTwice
  <2> QED BY <1>10, <2>1, <2>2 DEF NameFromLong
<1> QED BY <1>9, <1>11

(* Either part of a short name.                                            *)
LEMMA PartIs ==
  ASSUME NEW s \in Seq(Nat), NEW a \in Nat, NEW b \in Nat, a + b <= Len(s),
         NEW name \in Seq(Nat), Len(name) <= b, ~ HasCharacter(name, Space),
         \A i \in 1 .. Len(name) : s[a + i] = name[i],
         \A i \in Len(name) + 1 .. b : s[a + i] = Space
  PROVE  UpTo(SubSeq(s, a + 1, a + b), Space) = name
<1>1. PICK n \in Nat : n = Len(name)
  OBVIOUS
<1>2. PICK p : p = SubSeq(s, a + 1, a + b)
  OBVIOUS
<1>3. p \in Seq(Nat) /\ Len(p) = b /\ \A i \in 1 .. b : p[i] = s[a + i]
  <2>1. a + 1 \in Nat \ {0} /\ a + b \in Nat /\ a + 1 <= (a + b) + 1
          /\ (a + b) - (a + 1) + 1 = b
    OBVIOUS
  <2>2. \A i \in 1 .. b : (a + 1) + i - 1 = a + i
    OBVIOUS
  <2> QED BY <1>2, <2>1, <2>2, SubSeqIs
<1>4. \A i \in 1 .. n : p[i] = name[i]
  <2> SUFFICES ASSUME NEW i \in 1 .. n PROVE p[i] = name[i]
    OBVIOUS
  <2>1. i \in 1 .. b
    BY <1>1
  <2> QED BY <1>1, <1>3, <2>1
<1>5. n < b => p[n + 1] = Space
  <2> SUFFICES ASSUME n < b PROVE p[n + 1] = Space
    OBVIOUS
  <2>1. n + 1 \in 1 .. b /\ n + 1 \in n + 1 .. b
    OBVIOUS
  <2> QED BY <1>1, <1>3, <2>1
<1>6. Space \in Nat /\ Len(name) <= Len(p)
  BY <1>3 DEF Space
<1> QED BY <1>1, <1>2, <1>3, <1>4, <1>5, <1>6, FilledName

(* The first part.                                                         *)
LEMMA FirstPartIs ==
  ASSUME NEW s \in Seq(Nat), NEW b \in Nat, b <= Len(s),
         NEW name \in Seq(Nat), Len(name) <= b, ~ HasCharacter(name, Space),
         \A i \in 1 .. Len(name) : s[i] = name[i],
         \A i \in Len(name) + 1 .. b : s[i] = Space
  PROVE  UpTo(SubSeq(s, 1, b), Space) = name
<1>1. PICK zero \in Nat : zero = 0
  OBVIOUS
<1>2. \A i \in 1 .. b : zero + i = i
  BY <1>1
<1>3. zero + b = b /\ zero + 1 = 1
  BY <1>1
<1>4. zero + b <= Len(s)
  BY <1>3
<1>5. \A i \in 1 .. Len(name) : s[zero + i] = name[i]
  <2> SUFFICES ASSUME NEW i \in 1 .. Len(name) PROVE s[zero + i] = name[i]
    OBVIOUS
  <2>1. i \in 1 .. b
    OBVIOUS
  <2> QED BY <1>2, <2>1
<1>6. \A i \in Len(name) + 1 .. b : s[zero + i] = Space
  <2> SUFFICES ASSUME NEW i \in Len(name) + 1 .. b PROVE s[zero + i] = Space
    OBVIOUS
  <2>1. i \in 1 .. b
    OBVIOUS
  <2> QED BY <1>2, <2>1
<1>7. UpTo(SubSeq(s, zero + 1, zero + b), Space) = name
  BY <1>4, <1>5, <1>6, PartIs
<1> QED BY <1>3, <1>7

LEMMA ShortSizes ==
  /\ ShortBase \in Nat \ {0} /\ ShortExtension \in Nat \ {0}
  /\ ShortBase + ShortExtension \in Nat
  /\ Space \in Nat /\ Dot \in Nat
BY DirectoryEntryAssumption DEF Space, Dot

(* A name that its base holds.                                             *)
LEMMA BaseOnly ==
  ASSUME NEW name \in Seq(Nat), ~ HasCharacter(name, Space), Len(name) <= ShortBase,
         NEW entry,
         entry.name_data = Padded(name, ShortBase + ShortExtension, Space)
  PROVE  NameFromShort(entry) = name
<1>1. PICK n \in Nat : n = Len(name)
  OBVIOUS
<1>2. PICK s : s = Padded(name, ShortBase + ShortExtension, Space)
  OBVIOUS
<1>3. /\ s \in Seq(Nat) /\ Len(s) = ShortBase + ShortExtension
      /\ \A i \in 1 .. n : s[i] = name[i]
      /\ \A i \in n + 1 .. ShortBase + ShortExtension : s[i] = Space
  <2>1. PICK total \in Nat : total = ShortBase + ShortExtension
    BY ShortSizes
  <2>2. Len(name) <= total
    BY <1>1, <2>1, ShortSizes
  <2>3. /\ Padded(name, total, Space) \in Seq(Nat)
        /\ Len(Padded(name, total, Space)) = total
        /\ \A i \in 1 .. Len(name) : Padded(name, total, Space)[i] = name[i]
        /\ \A i \in Len(name) + 1 .. total : Padded(name, total, Space)[i] = Space
    BY <2>2, ShortSizes, PaddedIs
  <2> QED BY <1>1, <1>2, <2>1, <2>3
<1>4. UpTo(SubSeq(s, 1, ShortBase), Space) = name
  <2>1. \A i \in 1 .. Len(name) : s[i] = name[i]
    BY <1>1, <1>3
  <2>2. \A i \in Len(name) + 1 .. ShortBase : s[i] = Space
    BY <1>1, <1>3, ShortSizes
  <2>3. ShortBase <= Len(s)
    BY <1>3, ShortSizes
  <2> QED BY <1>3, <2>1, <2>2, <2>3, ShortSizes, FirstPartIs
<1>5. UpTo(SubSeq(s, ShortBase + 1, ShortBase + ShortExtension), Space) = <<>>
  <2>0. <<>> \in Seq(Nat)
    OBVIOUS
  <2>1. PICK none \in Seq(Nat) : none = <<>>
    BY <2>0
  <2>2. Len(none) = 0 /\ ~ HasCharacter(none, Space)
    BY <2>1 DEF HasCharacter
  <2>3. \A i \in 1 .. Len(none) : s[ShortBase + i] = none[i]
    BY <2>2
  <2>4. \A i \in Len(none) + 1 .. ShortExtension : s[ShortBase + i] = Space
    <3> SUFFICES ASSUME NEW i \in 1 .. ShortExtension PROVE s[ShortBase + i] = Space
      BY <2>2
    <3>1. ShortBase + i \in n + 1 .. ShortBase + ShortExtension
      BY <1>1, ShortSizes
    <3> QED BY <1>3, <3>1
  <2>5. UpTo(SubSeq(s, ShortBase + 1, ShortBase + ShortExtension), Space) = none
    <3>1. ShortBase + ShortExtension <= Len(s) /\ Len(none) <= ShortExtension
      BY <1>3, <2>2, ShortSizes
    <3> QED BY <1>3, <2>2, <2>3, <2>4, <3>1, ShortSizes, PartIs
  <2> QED BY <2>1, <2>5
<1> QED BY <1>2, <1>4, <1>5 DEF NameFromShort

(* A part of a name has no character that the name has not.                *)
LEMMA PartHasNone ==
  ASSUME NEW s \in Seq(Nat), NEW character, ~ HasCharacter(s, character),
         NEW m \in Nat \ {0}, NEW n \in Nat, m <= n + 1, n <= Len(s)
  PROVE  ~ HasCharacter(SubSeq(s, m, n), character)
<1>1. PICK p : p = SubSeq(s, m, n)
  OBVIOUS
<1>2. p \in Seq(Nat) /\ Len(p) = n - m + 1 /\ \A i \in 1 .. n - m + 1 : p[i] = s[m + i - 1]
  BY <1>1, SubSeqIs
<1>3. DOMAIN p = 1 .. n - m + 1 /\ DOMAIN s = 1 .. Len(s)
  BY <1>2
<1>4. \A i \in 1 .. n - m + 1 : m + i - 1 \in 1 .. Len(s)
  OBVIOUS
<1> QED BY <1>1, <1>2, <1>3, <1>4 DEF HasCharacter

(* A label that its base does not hold.                                    *)
LEMMA LabelIs ==
  ASSUME NEW name \in Seq(Nat), ~ HasCharacter(name, Space), Len(name) > ShortBase,
         Len(name) <= ShortBase + ShortExtension, NEW entry, entry.type = "label",
         entry.name_data = Padded(name, ShortBase + ShortExtension, Space)
  PROVE  NameFromShort(entry) = name
<1>1. PICK n \in Nat : n = Len(name)
  OBVIOUS
<1>2. PICK s : s = Padded(name, ShortBase + ShortExtension, Space)
  OBVIOUS
<1>3. /\ s \in Seq(Nat) /\ Len(s) = ShortBase + ShortExtension
      /\ \A i \in 1 .. n : s[i] = name[i]
      /\ \A i \in n + 1 .. ShortBase + ShortExtension : s[i] = Space
  <2>1. PICK total \in Nat : total = ShortBase + ShortExtension
    BY ShortSizes
  <2>2. Len(name) <= total
    BY <1>1, <2>1, ShortSizes
  <2>3. /\ Padded(name, total, Space) \in Seq(Nat)
        /\ Len(Padded(name, total, Space)) = total
        /\ \A i \in 1 .. Len(name) : Padded(name, total, Space)[i] = name[i]
        /\ \A i \in Len(name) + 1 .. total : Padded(name, total, Space)[i] = Space
    BY <2>2, ShortSizes, PaddedIs
  <2> QED BY <1>1, <1>2, <2>1, <2>3
<1>4. PICK base : base = SubSeq(name, 1, ShortBase)
  OBVIOUS
<1>5. PICK extension : extension = SubSeq(name, ShortBase + 1, n)
  OBVIOUS
<1>6. /\ base \in Seq(Nat) /\ Len(base) = ShortBase
      /\ \A i \in 1 .. ShortBase : base[i] = name[i]
      /\ ~ HasCharacter(base, Space)
  <2>1. ShortBase \in Nat /\ 1 \in Nat \ {0} /\ 1 <= ShortBase + 1 /\ ShortBase <= Len(name)
          /\ ShortBase - 1 + 1 = ShortBase
    BY ShortSizes
  <2>2. /\ base \in Seq(Nat) /\ Len(base) = ShortBase
        /\ \A i \in 1 .. ShortBase : base[i] = name[1 + i - 1]
    BY <1>4, <2>1, SubSeqIs
  <2>3. \A i \in 1 .. ShortBase : 1 + i - 1 = i
    BY ShortSizes
  <2>4. ~ HasCharacter(base, Space)
    BY <1>4, <2>1, PartHasNone
  <2> QED BY <2>2, <2>3, <2>4
<1>7. /\ extension \in Seq(Nat) /\ Len(extension) = n - ShortBase
      /\ \A i \in 1 .. n - ShortBase : extension[i] = name[ShortBase + i]
      /\ ~ HasCharacter(extension, Space)
  <2>1. ShortBase + 1 \in Nat \ {0} /\ ShortBase + 1 <= n + 1 /\ n <= Len(name)
          /\ n - (ShortBase + 1) + 1 = n - ShortBase
    BY <1>1, ShortSizes
  <2>2. /\ extension \in Seq(Nat) /\ Len(extension) = n - ShortBase
        /\ \A i \in 1 .. n - ShortBase : extension[i] = name[(ShortBase + 1) + i - 1]
    BY <1>5, <2>1, SubSeqIs
  <2>3. \A i \in 1 .. n - ShortBase : (ShortBase + 1) + i - 1 = ShortBase + i
    BY <1>1, ShortSizes
  <2>4. ~ HasCharacter(extension, Space)
    BY <1>5, <2>1, PartHasNone
  <2> QED BY <2>2, <2>3, <2>4
<1>8. UpTo(SubSeq(s, 1, ShortBase), Space) = base
  <2>1. \A i \in 1 .. Len(base) : s[i] = base[i]
    <3> SUFFICES ASSUME NEW i \in 1 .. ShortBase PROVE s[i] = base[i]
      BY <1>6
    <3>1. i \in 1 .. n
      BY <1>1, ShortSizes
    <3> QED BY <1>3, <1>6, <3>1
  <2>2. \A i \in Len(base) + 1 .. ShortBase : s[i] = Space
    BY <1>6, ShortSizes
  <2>3. ShortBase <= Len(s) /\ Len(base) <= ShortBase
    BY <1>3, <1>6, ShortSizes
  <2> QED BY <1>3, <1>6, <2>1, <2>2, <2>3, ShortSizes, FirstPartIs
<1>9. UpTo(SubSeq(s, ShortBase + 1, ShortBase + ShortExtension), Space) = extension
  <2>1. \A i \in 1 .. Len(extension) : s[ShortBase + i] = extension[i]
    <3> SUFFICES ASSUME NEW i \in 1 .. n - ShortBase PROVE s[ShortBase + i] = extension[i]
      BY <1>7
    <3>1. ShortBase + i \in 1 .. n
      BY <1>1, ShortSizes
    <3> QED BY <1>3, <1>7, <3>1
  <2>2. \A i \in Len(extension) + 1 .. ShortExtension : s[ShortBase + i] = Space
    <3> SUFFICES ASSUME NEW i \in n - ShortBase + 1 .. ShortExtension
                 PROVE  s[ShortBase + i] = Space
      BY <1>7
    <3>1. ShortBase + i \in n + 1 .. ShortBase + ShortExtension
      BY <1>1, ShortSizes
    <3> QED BY <1>3, <3>1
  <2>3. ShortBase + ShortExtension <= Len(s) /\ Len(extension) <= ShortExtension
    BY <1>1, <1>3, <1>7, ShortSizes
  <2> QED BY <1>3, <1>7, <2>1, <2>2, <2>3, ShortSizes, PartIs
<1>10. extension # <<>>
  BY <1>1, <1>7, ShortSizes
<1>11. base \o extension = name
  <2>1. ShortBase \in Nat /\ ShortBase <= n /\ n <= Len(name)
    BY <1>1, ShortSizes
  <2>2. base \o extension = SubSeq(name, 1, n)
    BY <1>1, <1>4, <1>5, <2>1, RunsJoined
  <2>3. SubSeq(name, 1, n) = name
    BY <1>1
  <2> QED BY <2>2, <2>3
<1> QED BY <1>2, <1>8, <1>9, <1>10, <1>11 DEF NameFromShort

(* A name with an extension.                                               *)
LEMMA DottedIs ==
  ASSUME NEW name \in Seq(Nat), ~ HasCharacter(name, Space),
         NEW dot \in 1 .. Len(name) - 1,
         \A i \in DOMAIN name : name[i] = Dot <=> i = dot,
         Len(SubSeq(name, 1, dot - 1)) <= ShortBase,
         Len(SubSeq(name, dot + 1, Len(name))) <= ShortExtension,
         NEW entry, entry.type # "label", entry.name_data = ShortData(name)
  PROVE  NameFromShort(entry) = name
<1>1. PICK n \in Nat : n = Len(name)
  OBVIOUS
<1>2. PICK d \in Nat : d = dot - 1 /\ d + 1 = dot /\ d < n /\ dot < n
  <2>1. dot - 1 \in Nat /\ (dot - 1) + 1 = dot /\ dot - 1 < n /\ dot < n
    BY <1>1
  <2> QED BY <2>1
<1>3. PICK base : base = SubSeq(name, 1, d)
  OBVIOUS
<1>4. PICK extension : extension = SubSeq(name, dot + 1, n)
  OBVIOUS
<1>5. /\ base \in Seq(Nat) /\ Len(base) = d /\ d <= ShortBase
      /\ ~ HasCharacter(base, Space)
  <2>1. 1 \in Nat \ {0} /\ 1 <= d + 1 /\ d <= Len(name) /\ d - 1 + 1 = d
    BY <1>1, <1>2
  <2>2. base \in Seq(Nat) /\ Len(base) = d
    BY <1>3, <2>1, SubSeqIs
  <2>3. ~ HasCharacter(base, Space)
    BY <1>3, <2>1, PartHasNone
  <2> QED BY <1>2, <1>3, <2>2, <2>3
<1>6. /\ extension \in Seq(Nat) /\ Len(extension) = n - dot
      /\ n - dot <= ShortExtension
      /\ ~ HasCharacter(extension, Space)
  <2>1. dot + 1 \in Nat \ {0} /\ dot + 1 <= n + 1 /\ n <= Len(name)
          /\ n - (dot + 1) + 1 = n - dot
    BY <1>1, <1>2
  <2>2. extension \in Seq(Nat) /\ Len(extension) = n - dot
    BY SMTT(30), <1>4, <2>1, SubSeqIs
  <2>3. ~ HasCharacter(extension, Space)
    BY <1>4, <2>1, PartHasNone
  <2> QED BY <1>1, <1>4, <2>2, <2>3
<1>7. SelectInSeq(name, LAMBDA c : c = Dot) = dot
  <2>1. dot \in 1 .. Len(name) /\ \A i \in 1 .. dot - 1 : i \in DOMAIN name /\ i # dot
    OBVIOUS
  <2>2. name[dot] = Dot /\ \A i \in 1 .. dot - 1 : name[i] # Dot
    BY <2>1
  <2> QED BY <2>1, <2>2, ShortSizes, FoundFirst
<1>8. PICK first : first = Padded(base, ShortBase, Space)
  OBVIOUS
<1>9. PICK second : second = Padded(extension, ShortExtension, Space)
  OBVIOUS
<1>10. PICK s : s = first \o second
  OBVIOUS
<1>11. entry.name_data = s
  <2>1. dot # 0
    OBVIOUS
  <2>2. ShortData(name) = Padded(SubSeq(name, 1, dot - 1), ShortBase, Space)
                            \o Padded(SubSeq(name, dot + 1, Len(name)), ShortExtension, Space)
    BY <1>7, <2>1 DEF ShortData
  <2> QED BY <1>1, <1>2, <1>3, <1>4, <1>8, <1>9, <1>10, <2>2
<1>12. /\ first \in Seq(Nat) /\ Len(first) = ShortBase
       /\ \A i \in 1 .. d : first[i] = base[i]
       /\ \A i \in d + 1 .. ShortBase : first[i] = Space
  <2>1. Len(base) <= ShortBase
    BY <1>5
  <2>2. /\ Padded(base, ShortBase, Space) \in Seq(Nat)
        /\ Len(Padded(base, ShortBase, Space)) = ShortBase
        /\ \A i \in 1 .. Len(base) : Padded(base, ShortBase, Space)[i] = base[i]
        /\ \A i \in Len(base) + 1 .. ShortBase : Padded(base, ShortBase, Space)[i] = Space
    BY <1>5, <2>1, ShortSizes, PaddedIs
  <2> QED BY <1>5, <1>8, <2>2
<1>13. PICK e \in Nat : e = n - dot /\ Len(extension) = e /\ e <= ShortExtension /\ e # 0
  <2>1. n - dot \in Nat /\ n - dot # 0
    BY <1>1, <1>2
  <2> QED BY <1>6, <2>1
<1>14. /\ second \in Seq(Nat) /\ Len(second) = ShortExtension
       /\ \A i \in 1 .. e : second[i] = extension[i]
       /\ \A i \in e + 1 .. ShortExtension : second[i] = Space
  <2>1. Len(extension) <= ShortExtension
    BY <1>13
  <2>2. /\ Padded(extension, ShortExtension, Space) \in Seq(Nat)
        /\ Len(Padded(extension, ShortExtension, Space)) = ShortExtension
        /\ \A i \in 1 .. Len(extension) : Padded(extension, ShortExtension, Space)[i] = extension[i]
        /\ \A i \in Len(extension) + 1 .. ShortExtension : Padded(extension, ShortExtension, Space)[i] = Space
    BY <1>6, <2>1, ShortSizes, PaddedIs
  <2> QED BY <1>9, <1>13, <2>2
<1>15. /\ s \in Seq(Nat) /\ Len(s) = ShortBase + ShortExtension
       /\ \A i \in 1 .. ShortBase : s[i] = first[i]
       /\ \A i \in 1 .. ShortExtension : s[ShortBase + i] = second[i]
  <2>1. /\ first \o second \in Seq(Nat)
        /\ Len(first \o second) = Len(first) + Len(second)
        /\ \A i \in 1 .. Len(first) : (first \o second)[i] = first[i]
        /\ \A i \in 1 .. Len(second) : (first \o second)[Len(first) + i] = second[i]
    <3>1. first \in Seq(Nat) /\ second \in Seq(Nat)
      BY <1>12, <1>14
    <3> QED BY <3>1, JoinedIs
  <2> QED BY <1>10, <1>12, <1>14, <2>1
<1>16. UpTo(SubSeq(s, 1, ShortBase), Space) = base
  <2>1. \A i \in 1 .. Len(base) : s[i] = base[i]
    <3> SUFFICES ASSUME NEW i \in 1 .. d PROVE s[i] = base[i]
      BY <1>5
    <3>1. i \in 1 .. ShortBase
      BY <1>5, ShortSizes
    <3> QED BY <1>12, <1>15, <3>1
  <2>2. \A i \in Len(base) + 1 .. ShortBase : s[i] = Space
    <3> SUFFICES ASSUME NEW i \in d + 1 .. ShortBase PROVE s[i] = Space
      BY <1>5
    <3>1. i \in 1 .. ShortBase
      BY ShortSizes
    <3> QED BY <1>12, <1>15, <3>1
  <2>3. ShortBase <= Len(s) /\ Len(base) <= ShortBase
    BY <1>5, <1>15, ShortSizes
  <2> QED BY <1>5, <1>15, <2>1, <2>2, <2>3, ShortSizes, FirstPartIs
<1>17. UpTo(SubSeq(s, ShortBase + 1, ShortBase + ShortExtension), Space) = extension
  <2>1. \A i \in 1 .. Len(extension) : s[ShortBase + i] = extension[i]
    <3> SUFFICES ASSUME NEW i \in 1 .. e PROVE s[ShortBase + i] = extension[i]
      BY <1>13
    <3>1. i \in 1 .. ShortExtension
      BY <1>13, ShortSizes
    <3> QED BY <1>14, <1>15, <3>1
  <2>2. \A i \in Len(extension) + 1 .. ShortExtension : s[ShortBase + i] = Space
    <3> SUFFICES ASSUME NEW i \in e + 1 .. ShortExtension PROVE s[ShortBase + i] = Space
      BY <1>13
    <3>1. i \in 1 .. ShortExtension
      BY ShortSizes
    <3> QED BY <1>14, <1>15, <3>1
  <2>3. ShortBase + ShortExtension <= Len(s) /\ Len(extension) <= ShortExtension
    BY <1>13, <1>15, ShortSizes
  <2> QED BY <1>6, <1>15, <2>1, <2>2, <2>3, ShortSizes, PartIs
<1>18. extension # <<>>
  BY <1>13
<1>19. Append(base, Dot) = SubSeq(name, 1, dot)
  <2>1. PICK t : t = SubSeq(name, 1, dot)
    OBVIOUS
  <2>2. t \in Seq(Nat) /\ Len(t) = dot /\ \A i \in 1 .. dot : t[i] = name[i]
    <3>1. 1 \in Nat \ {0} /\ dot \in Nat /\ 1 <= dot + 1 /\ dot <= Len(name)
            /\ dot - 1 + 1 = dot
      OBVIOUS
    <3>2. /\ t \in Seq(Nat) /\ Len(t) = dot
          /\ \A i \in 1 .. dot : t[i] = name[1 + i - 1]
      BY <2>1, <3>1, SubSeqIs
    <3>3. \A i \in 1 .. dot : 1 + i - 1 = i
      OBVIOUS
    <3> QED BY <3>2, <3>3
  <2>3. \A i \in 1 .. d : base[i] = name[i]
    <3>1. 1 \in Nat \ {0} /\ 1 <= d + 1 /\ d <= Len(name) /\ d - 1 + 1 = d
      BY <1>1, <1>2
    <3>2. \A i \in 1 .. d : base[i] = name[1 + i - 1]
      BY <1>3, <3>1, SubSeqIs
    <3>3. \A i \in 1 .. d : 1 + i - 1 = i
      OBVIOUS
    <3> QED BY <3>2, <3>3
  <2>4. PICK u : u = Append(base, Dot)
    OBVIOUS
  <2>5. /\ u \in Seq(Nat) /\ Len(u) = d + 1 /\ u[d + 1] = Dot
        /\ \A i \in 1 .. d : u[i] = base[i]
    BY <1>5, <2>4, ShortSizes
  <2>6. name[dot] = Dot
    OBVIOUS
  <2>7. ASSUME NEW i \in 1 .. dot PROVE u[i] = t[i]
    <3>1. i \in 1 .. d \/ i = dot
      BY <1>2
    <3> QED BY <1>2, <2>2, <2>3, <2>5, <2>6, <3>1
  <2> QED BY SMTT(30), <1>2, <2>1, <2>2, <2>4, <2>5, <2>7, SameSequence
<1>20. Append(base, Dot) \o extension = name
  <2>1. dot \in Nat /\ dot <= n /\ n <= Len(name)
    BY <1>1, <1>2
  <2>2. SubSeq(name, 1, dot) \o SubSeq(name, dot + 1, n) = SubSeq(name, 1, n)
    BY <2>1, RunsJoined
  <2>3. SubSeq(name, 1, n) = name
    BY <1>1
  <2> QED BY <1>4, <1>19, <2>2, <2>3
<1> QED BY <1>11, <1>16, <1>17, <1>18, <1>20 DEF NameFromShort

(* A name that is stored in a short entry, or as a label, and has no space.*)
LEMMA ShortNameIs ==
  ASSUME NEW stored, Storable(stored), stored.kind \in {"short", "label"},
         ~ HasCharacter(stored.name, Space)
  PROVE  NameFromShort(EntryOf(stored)) = stored.name
<1>1. PICK name \in Seq(Nat) : name = stored.name
  BY DEF Storable
<1>2. PICK entry : entry = EntryOf(stored)
  OBVIOUS
<1>3. entry.type = stored.kind /\ entry.name_data = ShortData(name)
  BY <1>1, <1>2 DEF EntryOf
<1>4. ~ HasCharacter(name, Space)
  BY <1>1
<1>5. ~ HasCharacter(name, Dot) =>
        entry.name_data = Padded(name, ShortBase + ShortExtension, Space)
  <2> SUFFICES ASSUME ~ HasCharacter(name, Dot)
               PROVE  entry.name_data = Padded(name, ShortBase + ShortExtension, Space)
    OBVIOUS
  <2>1. \A i \in 1 .. Len(name) : name[i] # Dot
    BY DEF HasCharacter
  <2>2. SelectInSeq(name, LAMBDA c : c = Dot) = 0
    BY <2>1, ShortSizes, FoundNowhere
  <2> QED BY <1>3, <2>2 DEF ShortData
<1>6. CASE stored.kind = "label"
  <2>1. ~ HasCharacter(name, Dot) /\ Len(name) <= ShortBase + ShortExtension
    BY <1>1, <1>6 DEF Storable, Fits
  <2>2. CASE Len(name) <= ShortBase
    BY <1>1, <1>2, <1>4, <1>5, <2>1, <2>2, BaseOnly
  <2>3. CASE Len(name) > ShortBase
    BY <1>1, <1>2, <1>3, <1>4, <1>5, <1>6, <2>1, <2>3, LabelIs
  <2>4. Len(name) <= ShortBase \/ Len(name) > ShortBase
    BY ShortSizes
  <2> QED BY <2>2, <2>3, <2>4
<1>7. CASE stored.kind = "short"
  <2>1. CASE ~ HasCharacter(name, Dot) /\ Fits(name, ShortBase)
    <3>1. Len(name) <= ShortBase
      BY <2>1 DEF Fits
    <3> QED BY <1>1, <1>2, <1>4, <1>5, <2>1, <3>1, BaseOnly
  <2>2. CASE \E dot \in 1 .. Len(name) - 1 :
               /\ \A i \in DOMAIN name : name[i] = Dot <=> i = dot
               /\ Fits(SubSeq(name, 1, dot - 1), ShortBase)
               /\ Fits(SubSeq(name, dot + 1, Len(name)), ShortExtension)
    <3>1. PICK dot \in 1 .. Len(name) - 1 :
               /\ \A i \in DOMAIN name : name[i] = Dot <=> i = dot
               /\ Len(SubSeq(name, 1, dot - 1)) <= ShortBase
               /\ Len(SubSeq(name, dot + 1, Len(name))) <= ShortExtension
      BY <2>2 DEF Fits
    <3>2. entry.type # "label"
      BY <1>3, <1>7
    <3> QED BY <1>1, <1>2, <1>3, <1>4, <3>1, <3>2, DottedIs
  <2> QED BY <1>1, <1>7, <2>1, <2>2 DEF Storable
<1> QED BY <1>6, <1>7

(* A part of a sequence is one.                                            *)
LEMMA UpToInSeq ==
  ASSUME NEW s \in Seq(Nat), NEW character \in Nat
  PROVE  UpTo(s, character) \in Seq(Nat)
<1> DEFINE found == {i \in 1 .. Len(s) : s[i] = character}
<1>1. CASE found = {}
  <2>1. \A i \in 1 .. Len(s) : s[i] # character
    BY <1>1
  <2>2. SelectInSeq(s, LAMBDA c : c = character) = 0
    BY <2>1, FoundNowhere
  <2> QED BY <2>2 DEF UpTo
<1>2. CASE found # {}
  <2>1. PICK n \in found : \A i \in found : n <= i
    <3>1. found \subseteq Nat
      OBVIOUS
    <3> HIDE DEF found
    <3> QED BY <1>2, <3>1, FirstNatural
  <2>2. n \in 1 .. Len(s) /\ s[n] = character /\ \A i \in 1 .. n - 1 : s[i] # character
    BY <2>1
  <2>3. SelectInSeq(s, LAMBDA c : c = character) = n
    BY <2>2, FoundFirst
  <2>4. UpTo(s, character) = SubSeq(s, 1, n - 1)
    <3>1. n # 0
      BY <2>2
    <3> QED BY <2>3, <3>1 DEF UpTo
  <2>5. 1 \in Nat \ {0} /\ n - 1 \in Nat /\ 1 <= (n - 1) + 1 /\ n - 1 <= Len(s)
    BY <2>2
  <2> QED BY <2>4, <2>5, SubSeqIs
<1> QED BY <1>1, <1>2

(* An entry of a short name has as many characters as there is room for.   *)
LEMMA ShortDataIs ==
  ASSUME NEW stored, Storable(stored), stored.kind \in {"short", "label"}
  PROVE  /\ ShortData(stored.name) \in Seq(Nat)
         /\ Len(ShortData(stored.name)) = ShortBase + ShortExtension
<1>1. PICK name \in Seq(Nat) : name = stored.name
  BY DEF Storable
<1>2. ASSUME ~ HasCharacter(name, Dot), Len(name) <= ShortBase + ShortExtension
      PROVE  /\ ShortData(name) \in Seq(Nat)
             /\ Len(ShortData(name)) = ShortBase + ShortExtension
  <2>1. \A i \in 1 .. Len(name) : name[i] # Dot
    BY <1>2 DEF HasCharacter
  <2>2. SelectInSeq(name, LAMBDA c : c = Dot) = 0
    BY <2>1, ShortSizes, FoundNowhere
  <2>3. PICK total \in Nat : total = ShortBase + ShortExtension
    BY ShortSizes
  <2>4. ShortData(name) = Padded(name, total, Space)
    BY <2>2, <2>3 DEF ShortData
  <2>5. Len(name) <= total
    BY <1>2, <2>3
  <2>6. Padded(name, total, Space) \in Seq(Nat) /\ Len(Padded(name, total, Space)) = total
    BY <2>5, ShortSizes, PaddedIs
  <2> QED BY <2>3, <2>4, <2>6
<1>3. CASE stored.kind = "label"
  BY <1>1, <1>2, <1>3 DEF Storable, Fits
<1>4. CASE stored.kind = "short"
  <2>1. CASE ~ HasCharacter(name, Dot) /\ Fits(name, ShortBase)
    <3>1. Len(name) <= ShortBase + ShortExtension
      BY <2>1, ShortSizes DEF Fits
    <3> QED BY <1>1, <1>2, <2>1, <3>1
  <2>2. CASE \E dot \in 1 .. Len(name) - 1 :
               /\ \A i \in DOMAIN name : name[i] = Dot <=> i = dot
               /\ Fits(SubSeq(name, 1, dot - 1), ShortBase)
               /\ Fits(SubSeq(name, dot + 1, Len(name)), ShortExtension)
    <3>1. PICK dot \in 1 .. Len(name) - 1 :
               /\ \A i \in DOMAIN name : name[i] = Dot <=> i = dot
               /\ Len(SubSeq(name, 1, dot - 1)) <= ShortBase
               /\ Len(SubSeq(name, dot + 1, Len(name))) <= ShortExtension
      BY <2>2 DEF Fits
    <3>2. SelectInSeq(name, LAMBDA c : c = Dot) = dot
      <4>1. dot \in 1 .. Len(name) /\ \A i \in 1 .. dot - 1 : i \in DOMAIN name /\ i # dot
        OBVIOUS
      <4>2. name[dot] = Dot /\ \A i \in 1 .. dot - 1 : name[i] # Dot
        BY <3>1, <4>1
      <4> QED BY <4>1, <4>2, ShortSizes, FoundFirst
    <3>3. PICK base : base = SubSeq(name, 1, dot - 1)
      OBVIOUS
    <3>4. PICK extension : extension = SubSeq(name, dot + 1, Len(name))
      OBVIOUS
    <3>5. base \in Seq(Nat) /\ extension \in Seq(Nat)
      <4>1. /\ 1 \in Nat \ {0} /\ dot - 1 \in Nat /\ 1 <= (dot - 1) + 1 /\ dot - 1 <= Len(name)
            /\ dot + 1 \in Nat \ {0} /\ Len(name) \in Nat /\ dot + 1 <= Len(name) + 1
            /\ Len(name) <= Len(name)
        OBVIOUS
      <4> QED BY <3>3, <3>4, <4>1, SubSeqIs
    <3>6. PICK first : first = Padded(base, ShortBase, Space)
      OBVIOUS
    <3>7. PICK second : second = Padded(extension, ShortExtension, Space)
      OBVIOUS
    <3>8. first \in Seq(Nat) /\ Len(first) = ShortBase
      <4>1. Len(base) <= ShortBase
        BY <3>1, <3>3
      <4> QED BY <3>5, <3>6, <4>1, ShortSizes, PaddedIs
    <3>9. second \in Seq(Nat) /\ Len(second) = ShortExtension
      <4>1. Len(extension) <= ShortExtension
        BY <3>1, <3>4
      <4> QED BY <3>5, <3>7, <4>1, ShortSizes, PaddedIs
    <3>10. ShortData(name) = first \o second
      <4>1. dot # 0
        OBVIOUS
      <4> QED BY <3>2, <3>3, <3>4, <3>6, <3>7, <4>1 DEF ShortData
    <3>11. first \o second \in Seq(Nat) /\ Len(first \o second) = Len(first) + Len(second)
      <4>1. first \in Seq(Nat) /\ second \in Seq(Nat)
        BY <3>8, <3>9
      <4> QED BY <4>1, JoinedIs
    <3> QED BY <1>1, <3>8, <3>9, <3>10, <3>11
  <2> QED BY <1>1, <1>4, <2>1, <2>2 DEF Storable
<1> QED BY <1>3, <1>4

LEMMA ShortNameInSeq ==
  ASSUME NEW stored, Storable(stored), stored.kind \in {"short", "label"}
  PROVE  NameFromShort(EntryOf(stored)) \in Seq(Nat)
<1>1. PICK s \in Seq(Nat) : s = ShortData(stored.name) /\ Len(s) = ShortBase + ShortExtension
  BY ShortDataIs
<1>2. PICK entry : entry = EntryOf(stored) /\ entry.name_data = s
  <2>1. EntryOf(stored).name_data = s
    BY <1>1 DEF EntryOf
  <2> QED BY <2>1
<1>3. /\ SubSeq(s, 1, ShortBase) \in Seq(Nat)
      /\ SubSeq(s, ShortBase + 1, ShortBase + ShortExtension) \in Seq(Nat)
  BY <1>1, ShortSizes, SubSeqIs
<1>4. PICK base : base = UpTo(SubSeq(s, 1, ShortBase), Space)
  OBVIOUS
<1>5. PICK extension :
        extension = UpTo(SubSeq(s, ShortBase + 1, ShortBase + ShortExtension), Space)
  OBVIOUS
<1>6. base \in Seq(Nat) /\ extension \in Seq(Nat)
  BY <1>3, <1>4, <1>5, ShortSizes, UpToInSeq
<1>7. /\ base \o extension \in Seq(Nat)
      /\ Append(base, Dot) \o extension \in Seq(Nat)
  BY <1>6, ShortSizes
<1>8. NameFromShort(entry) \in {base, base \o extension, Append(base, Dot) \o extension}
  BY <1>2, <1>4, <1>5 DEF NameFromShort
<1> QED BY <1>2, <1>6, <1>7, <1>8

LEMMA NamesAreTold ==
  /\ None \notin Seq(Nat)
  /\ NoArray \notin Seq(Seq(Nat))
BY DEF None, NoArray

-----------------------------------------------------------------------------
(* The name that everybody gets.                                           *)
LEMMA OneNameIs ==
  ASSUME stored_name \in StoredNames
  PROVE  /\ OneName \in Seq(Nat)
         /\ stored_name.kind \in {"short", "label"} =>
              OneName = NameFromShort(EntryOf(stored_name))
         /\ stored_name.kind \notin {"short", "label"} => OneName = stored_name.name
<1>1. Storable(stored_name)
  BY DirectoryEntryAssumption
<1>2. stored_name.name \in Seq(Nat)
  BY <1>1 DEF Storable
<1>3. CASE stored_name.kind \in {"short", "label"}
  <2>1. OneName = NameFromShort(EntryOf(stored_name))
    <3>1. CASE HasCharacter(stored_name.name, Space)
      BY <1>3, <3>1 DEF OneName, Spaced
    <3>2. CASE ~ HasCharacter(stored_name.name, Space)
      <4>1. NameFromShort(EntryOf(stored_name)) = stored_name.name
        BY <1>1, <1>3, <3>2, ShortNameIs
      <4> QED BY <3>2, <4>1 DEF OneName, Spaced
    <3> QED BY <3>1, <3>2
  <2>2. NameFromShort(EntryOf(stored_name)) \in Seq(Nat)
    BY <1>1, <1>3, ShortNameInSeq
  <2> QED BY <1>3, <2>1, <2>2
<1>4. CASE stored_name.kind \notin {"short", "label"}
  <2>1. OneName = stored_name.name
    BY <1>4 DEF OneName, Spaced
  <2> QED BY <1>2, <1>4, <2>1
<1> QED BY <1>3, <1>4

(* An entry that has been given its name, and the copy of it.              *)
IsUnicode == IF stored_name.kind \in {"short", "label"} THEN 0 ELSE 1

NamedEntry == WithName(EntryOf(stored_name), OneName, IsUnicode)

Copied == [NamedEntry EXCEPT !.name_entries_array = NoArray]

LEMMA EntriesHold ==
  /\ EntryOf(stored_name).type # "none" <=> stored_name.kind # "none"
  /\ EntryOf(stored_name).name = None
  /\ EntryOf(stored_name).name_entries_array =
       IF stored_name.kind = "file" THEN ExfatParts(stored_name.name) ELSE NoArray
  /\ NamedEntry.type = EntryOf(stored_name).type /\ NamedEntry.name = OneName
  /\ Copied.type = EntryOf(stored_name).type /\ Copied.name = OneName
  /\ NamedEntry.is_unicode = IsUnicode /\ Copied.is_unicode = IsUnicode
BY DEF EntryOf, WithName, NamedEntry, Copied

(* Only a name with too many parts cannot be put together.                 *)
LEMMA TooLongIs ==
  ASSUME stored_name \in StoredNames
  PROVE  CannotBeNamed(EntryOf(stored_name)) <=> TooLong
<1>1. Storable(stored_name)
  BY DirectoryEntryAssumption
<1>2. CASE stored_name.kind = "file"
  <2>1. stored_name.name \in Seq(Nat) /\ ~ HasCharacter(stored_name.name, Nul)
    BY <1>1, <1>2 DEF Storable
  <2>2. ExfatParts(stored_name.name) # NoArray
    BY <2>1, ExfatNameIs, NamesAreTold
  <2> QED BY <1>2, <2>2, EntriesHold DEF CannotBeNamed, TooLong, HasExfatName
<1>3. CASE stored_name.kind # "file"
  BY <1>3, EntriesHold DEF CannotBeNamed, TooLong
<1> QED BY <1>2, <1>3

(* What an entry is given is its name.                                     *)
LEMMA NamedIs ==
  ASSUME stored_name \in StoredNames, stored_name.kind # "long", ~ TooLong
  PROVE  Named(EntryOf(stored_name)) = NamedEntry
<1>1. Storable(stored_name)
  BY DirectoryEntryAssumption
<1>2. PICK entry : entry = EntryOf(stored_name)
  OBVIOUS
<1>3. entry.name = None
  BY <1>2, EntriesHold
<1>4. CASE stored_name.kind = "file"
  <2>1. stored_name.name \in Seq(Nat) /\ ~ HasCharacter(stored_name.name, Nul)
    BY <1>1, <1>4 DEF Storable
  <2>2. /\ entry.name_entries_array = ExfatParts(stored_name.name)
        /\ entry.name_entries_array # NoArray
    BY <1>2, <1>4, <2>1, EntriesHold, ExfatNameIs, NamesAreTold
  <2>3. NameFromExfat(ExfatParts(stored_name.name)) = stored_name.name
    BY <1>4, <2>1, ExfatNameIs DEF TooLong, HasExfatName
  <2>4. OneName = stored_name.name
    BY <1>4, OneNameIs
  <2> QED BY <1>2, <1>3, <1>4, <2>2, <2>3, <2>4 DEF Named, NamedEntry, IsUnicode
<1>5. CASE stored_name.kind # "file"
  <2>1. entry.name_entries_array = NoArray
    BY <1>2, <1>5, EntriesHold
  <2>2. entry.type = stored_name.kind
    BY <1>2 DEF EntryOf
  <2>3. CASE stored_name.kind \in {"short", "label"}
    BY <1>2, <1>3, <2>1, <2>2, <2>3, OneNameIs DEF Named, NamedEntry, IsUnicode
  <2>4. CASE stored_name.kind = "exfat_label"
    <3>1. entry.name_data = stored_name.name
      BY <1>2, <2>4 DEF EntryOf
    <3>2. OneName = stored_name.name
      BY <2>4, OneNameIs
    <3> QED BY <1>2, <1>3, <2>1, <2>2, <2>4, <3>1, <3>2 DEF Named, NamedEntry, IsUnicode
  <2> QED BY <1>1, <1>5, <2>3, <2>4 DEF Storable
<1> QED BY <1>4, <1>5

(* It keeps it.                                                            *)
LEMMA NamedOnce ==
  ASSUME stored_name \in StoredNames
  PROVE  /\ ~ CannotBeNamed(NamedEntry) /\ Named(NamedEntry) = NamedEntry
         /\ Named(Copied) = Copied
<1>1. OneName # None
  BY OneNameIs, NamesAreTold
<1>2. NamedEntry.name # None /\ Copied.name # None
  BY <1>1, EntriesHold
<1>3. ~ CannotBeNamed(NamedEntry)
  BY <1>2 DEF CannotBeNamed
<1>4. Named(NamedEntry) = NamedEntry
  BY <1>2 DEF Named
<1>5. Named(Copied) = Copied
  BY <1>2 DEF Named
<1> QED BY <1>3, <1>4, <1>5

(* Of an entry and of its copy a caller gets the same.                     *)
LEMMA CallersGet ==
  ASSUME stored_name \in StoredNames
  PROVE  /\ NameForCaller(NamedEntry) = IF Speakable THEN OneName ELSE "error"
         /\ NameForCaller(Copied) = IF Speakable THEN OneName ELSE "error"
<1>1. Speakable <=> \A i \in DOMAIN OneName : IsConvertible(IsUnicode, OneName[i])
  BY DEF Speakable, IsConvertible, IsUnicode
<1> QED BY <1>1, EntriesHold DEF NameForCaller

(* What differs in case from a character that can be converted can be      *)
(* converted too.                                                          *)
LEMMA FoldedNotSurrogate ==
  ASSUME NEW c \in Nat, NEW d \in Nat, NEW is_unicode,
         IsConvertible(is_unicode, c), towupper(c) = towupper(d)
  PROVE  d \notin Surrogates
<1>1. c \notin Surrogates
  BY DEF IsConvertible, Surrogates
<1>2. ~ (c >= 55296 /\ c <= 57343)
  BY <1>1 DEF Surrogates
<1>3. towupper(c) = c \/ towupper(c) < 128
  BY DEF towupper
<1>4. towupper(d) = d \/ d < 128
  BY DEF towupper
<1>5. ~ (d >= 55296 /\ d <= 57343)
  <2>1. CASE d < 128
    BY <2>1
  <2>2. CASE towupper(d) = d
    BY <1>2, <1>3, <2>2
  <2> QED BY <1>4, <2>1, <2>2
<1>6. \A e \in Surrogates : e >= 55296 /\ e <= 57343
  BY DEF Surrogates
<1> QED BY <1>5, <1>6

(* A string is equal to a name when it differs in case only.               *)
LEMMA ComparedIs ==
  ASSUME stored_name \in StoredNames, NEW string \in Seq(Nat)
  PROVE  /\ Compare(NamedEntry, string) = "error" =>
              ~ Speakable \/ \E i \in DOMAIN string : string[i] \in Surrogates
         /\ Compare(NamedEntry, string) = "equal" <=>
              Speakable /\ Folded(string) = Folded(OneName)
<1>1. PICK name \in Seq(Nat) : name = OneName
  BY OneNameIs
<1>2. PICK both : both = 1 .. IF Len(name) < Len(string) THEN Len(name) ELSE Len(string)
  OBVIOUS
<1>3. both \subseteq Nat /\ both \subseteq DOMAIN name /\ both \subseteq DOMAIN string
  BY <1>2
<1> DEFINE Fails(i) == ~ IsConvertible(IsUnicode, name[i]) \/ string[i] \in Surrogates
<1>4. PICK ends : ends = {i \in both : Fails(i) \/ towupper(name[i]) # towupper(string[i])}
  OBVIOUS
<1>5. Compare(NamedEntry, string) =
        IF ends # {}
        THEN LET i == CHOOSE i \in ends : \A j \in ends : i <= j
             IN  IF Fails(i) THEN "error"
                 ELSE IF towupper(string[i]) < towupper(name[i]) THEN "less" ELSE "greater"
        ELSE IF Len(string) > Len(name) THEN "greater"
        ELSE IF Len(name) > Len(string) THEN "less"
        ELSE "equal"
  BY <1>1, <1>2, <1>4, EntriesHold DEF Compare
<1>6. Speakable <=> \A i \in DOMAIN name : IsConvertible(IsUnicode, name[i])
  BY <1>1 DEF Speakable, IsConvertible, IsUnicode
<1>7. Compare(NamedEntry, string) = "error" => \E i \in both : Fails(i)
  <2>1. SUFFICES ASSUME Compare(NamedEntry, string) = "error" PROVE \E i \in both : Fails(i)
    OBVIOUS
  <2>2. ends # {}
    BY <1>5, <2>1
  <2>3. ends \subseteq Nat
    BY <1>3, <1>4
  <2>4. PICK i \in ends : i = CHOOSE k \in ends : \A j \in ends : k <= j
    <3>1. \E i \in ends : \A j \in ends : i <= j
      BY <2>2, <2>3, FirstNatural
    <3> QED BY <3>1
  <2>5. Fails(i)
    BY <1>5, <2>1, <2>2, <2>4
  <2> QED BY <1>4, <2>4, <2>5
<1>8. Compare(NamedEntry, string) = "equal" <=> ends = {} /\ Len(name) = Len(string)
  BY <1>5
<1>9. ASSUME ends = {}, Len(name) = Len(string)
      PROVE  Speakable /\ Folded(string) = Folded(name)
  <2>1. DOMAIN string = both /\ DOMAIN name = both
    BY <1>2, <1>9
  <2>2. \A i \in both : towupper(name[i]) = towupper(string[i]) /\ ~ Fails(i)
    BY <1>4, <1>9
  <2> QED BY <1>6, <2>1, <2>2 DEF Folded
<1>10. ASSUME Speakable, Folded(string) = Folded(name)
       PROVE  ends = {} /\ Len(name) = Len(string)
  <2>1. DOMAIN Folded(string) = DOMAIN string /\ DOMAIN Folded(name) = DOMAIN name
    BY DEF Folded
  <2>2. DOMAIN string = DOMAIN name
    BY <1>10, <2>1
  <2>3. Len(string) = Len(name)
    BY <2>2
  <2>4. ASSUME NEW i \in both
        PROVE  towupper(name[i]) = towupper(string[i]) /\ ~ Fails(i)
    <3>1. i \in DOMAIN string /\ i \in DOMAIN name
      BY <1>3
    <3>2. Folded(string)[i] = towupper(string[i]) /\ Folded(name)[i] = towupper(name[i])
      BY <3>1 DEF Folded
    <3>3. towupper(name[i]) = towupper(string[i])
      BY <1>10, <3>2
    <3>4. IsConvertible(IsUnicode, name[i])
      BY <1>6, <1>10, <3>1
    <3>5. PICK c, d : c = name[i] /\ d = string[i]
      OBVIOUS
    <3>6. c \in Nat /\ d \in Nat
      BY <3>1, <3>5
    <3>7. string[i] \notin Surrogates
      <4>1. IsConvertible(IsUnicode, c) /\ towupper(c) = towupper(d)
        BY <3>3, <3>4, <3>5
      <4> QED BY <3>5, <3>6, <4>1, FoldedNotSurrogate
    <3> QED BY <3>3, <3>4, <3>7
  <2> QED BY <1>4, <2>3, <2>4
<1>11. Compare(NamedEntry, string) = "error" =>
         ~ Speakable \/ \E i \in DOMAIN string : string[i] \in Surrogates
  BY <1>3, <1>6, <1>7
<1> QED BY <1>1, <1>8, <1>9, <1>10, <1>11

(* Before and after the parts of a long name are put together, and before  *)
(* and after anybody has asked for the name.                               *)
Unread ==
  /\ ~ Read
  /\ stored_name.kind = "long"
  /\ long_name_entries = LongParts(stored_name.name)
  /\ directory_entry = EntryOf(stored_name)
  /\ file_entry = [type |-> "none"]
  /\ answer = [to |-> "none"]

Unnamed == Read /\ stored_name.kind # "long" /\ directory_entry = EntryOf(stored_name)

HasName == Read /\ ~ TooLong /\ directory_entry = NamedEntry

EntryInv ==
  \/ EntryIdle
  \/ /\ stored_name \in StoredNames
     /\ Unread \/ Unnamed \/ HasName
     /\ \/ file_entry = [type |-> "none"]
        \/ ~ TooLong /\ file_entry = Copied
     /\ NameKept

LEMMA EntryBegins == EntryIdle \/ EntryInit => EntryInv
<1> SUFFICES ASSUME EntryInit PROVE EntryInv
  BY DEF EntryInv
<1>1. stored_name \in StoredNames /\ Storable(stored_name)
  BY DirectoryEntryAssumption DEF EntryInit
<1>2. answer = [to |-> "none"] /\ answer.to = "none"
  BY DEF EntryInit
<1>3. NameKept
  BY <1>2 DEF NameKept
<1>4. CASE stored_name.kind = "long"
  <2>1. stored_name.name \in Seq(Nat) /\ ~ HasCharacter(stored_name.name, Nul)
    BY <1>1, <1>4 DEF Storable
  <2>2. LongParts(stored_name.name) # NoArray
    BY <2>1, LongNameIs, NamesAreTold
  <2>3. Unread
    BY <1>4, <2>2 DEF EntryInit, Unread, Read
  <2> QED BY <1>1, <1>3, <2>3 DEF EntryInit, EntryInv
<1>5. CASE stored_name.kind # "long"
  <2>1. Unnamed
    BY <1>5 DEF EntryInit, Unnamed, Read
  <2> QED BY <1>1, <1>3, <2>1 DEF EntryInit, EntryInv
<1> QED BY <1>4, <1>5

(* What stays when neither the name that is stored nor the reading of it   *)
(* changes.                                                                *)
LEMMA SameNames ==
  ASSUME UNCHANGED <<stored_name, long_name_entries>>
  PROVE  /\ (stored_name \in StoredNames)' <=> stored_name \in StoredNames
         /\ Read' <=> Read
         /\ TooLong' <=> TooLong
         /\ OneName' = OneName
         /\ Speakable' <=> Speakable
         /\ EntryOf(stored_name)' = EntryOf(stored_name)
         /\ NamedEntry' = NamedEntry
         /\ Copied' = Copied
BY DEF Read, TooLong, OneName, Spaced, Speakable, IsUnicode, NamedEntry, Copied

(* Nothing of an entry that is not there.                                  *)
LEMMA NothingDone == EntryIdle => ~ EntryNext
<1> SUFFICES ASSUME EntryIdle PROVE ~ EntryNext
  OBVIOUS
<1>1. Read /\ directory_entry.type = "none" /\ file_entry.type = "none"
  BY DEF EntryIdle, Read
<1> QED BY <1>1 DEF EntryNext, GetNameFromLongNameEntries, GetNameFromDirectoryEntry,
                    CloneDirectoryEntry, GetNameFromFileEntry, CompareWithString

(* An entry that can be named has its name after it has been asked for.    *)
LEMMA NowNamed ==
  ASSUME stored_name \in StoredNames, Unnamed \/ HasName
  PROVE  /\ CannotBeNamed(directory_entry) <=> TooLong
         /\ ~ TooLong => Named(directory_entry) = NamedEntry
<1>1. CASE Unnamed
  BY <1>1, TooLongIs, NamedIs DEF Unnamed
<1>2. CASE HasName
  BY <1>2, NamedOnce DEF HasName
<1> QED BY <1>1, <1>2

LEMMA EntryGoesOn == EntryInv /\ EntryNext => EntryInv'
<1> SUFFICES ASSUME EntryInv, EntryNext PROVE EntryInv'
  OBVIOUS
<1>1. /\ stored_name \in StoredNames
      /\ Unread \/ Unnamed \/ HasName
      /\ \/ file_entry = [type |-> "none"]
         \/ ~ TooLong /\ file_entry = Copied
      /\ NameKept
  BY NothingDone DEF EntryInv
<1>2. CASE GetNameFromLongNameEntries
  <2>1. Unread
    BY <1>1, <1>2 DEF GetNameFromLongNameEntries, Unnamed, HasName
  <2>2. /\ stored_name' = stored_name /\ file_entry' = file_entry /\ answer' = answer
        /\ long_name_entries' = NoArray
        /\ HasLongName(long_name_entries)
        /\ directory_entry' =
             WithName(directory_entry, NameFromLong(long_name_entries), 1)
    BY <1>2 DEF GetNameFromLongNameEntries
  <2>3. Storable(stored_name)
    BY <1>1, DirectoryEntryAssumption
  <2>4. stored_name.name \in Seq(Nat) /\ ~ HasCharacter(stored_name.name, Nul)
    BY <2>1, <2>3 DEF Storable, Unread
  <2>5. NameFromLong(long_name_entries) = stored_name.name
    BY <2>1, <2>2, <2>4, LongNameIs DEF Unread
  <2>6. OneName = stored_name.name /\ ~ TooLong
    BY <1>1, <2>1, OneNameIs DEF Unread, TooLong
  <2>7. directory_entry' = NamedEntry
    BY <2>1, <2>2, <2>5, <2>6 DEF Unread, NamedEntry, IsUnicode
  <2>8. NamedEntry' = NamedEntry /\ (~ TooLong)'
    BY <2>2, <2>6 DEF NamedEntry, IsUnicode, OneName, Spaced, TooLong
  <2>9. HasName'
    BY <2>2, <2>7, <2>8 DEF HasName, Read
  <2>10. file_entry' = [type |-> "none"] /\ answer' = [to |-> "none"]
    BY <2>1, <2>2 DEF Unread
  <2>11. NameKept'
    BY <2>10 DEF NameKept
  <2>12. (stored_name \in StoredNames)'
    BY <1>1, <2>2
  <2> QED BY <2>9, <2>10, <2>11, <2>12 DEF EntryInv
<1>3. CASE GetNameFromDirectoryEntry
  <2>1. UNCHANGED <<stored_name, long_name_entries>> /\ file_entry' = file_entry
    BY <1>3 DEF GetNameFromDirectoryEntry
  <2>2. Unnamed \/ HasName
    BY <1>1, <1>3 DEF GetNameFromDirectoryEntry, Unread
  <2>3. CASE TooLong
    <3>1. answer' = [to |-> "name", name |-> "error"] /\ directory_entry' = directory_entry
      BY <1>1, <1>3, <2>2, <2>3, NowNamed DEF GetNameFromDirectoryEntry
    <3>2. NameKept'
      BY <2>1, <2>3, <3>1, SameNames DEF NameKept
    <3>3. Unnamed'
      <4>1. EntryOf(stored_name)' = EntryOf(stored_name) /\ (Read' <=> Read)
              /\ stored_name' = stored_name
        BY <2>1, SameNames
      <4> QED BY <2>2, <2>3, <3>1, <4>1 DEF Unnamed, HasName
    <3> QED BY <1>1, <2>1, <3>2, <3>3, SameNames DEF EntryInv
  <2>4. CASE ~ TooLong
    <3>1. /\ directory_entry' = NamedEntry
          /\ answer' = [to |-> "name", name |-> IF Speakable THEN OneName ELSE "error"]
      BY <1>1, <1>3, <2>2, <2>4, NowNamed, CallersGet DEF GetNameFromDirectoryEntry
    <3>2. NameKept'
      BY <2>1, <2>4, <3>1, SameNames DEF NameKept
    <3>3. HasName'
      BY <2>1, <2>2, <2>4, <3>1, SameNames DEF Unnamed, HasName
    <3> QED BY <1>1, <2>1, <3>2, <3>3, SameNames DEF EntryInv
  <2> QED BY <2>3, <2>4
<1>4. CASE CloneDirectoryEntry
  <2>1. UNCHANGED <<stored_name, long_name_entries>> /\ answer' = answer
    BY <1>4 DEF CloneDirectoryEntry
  <2>2. Unnamed \/ HasName
    BY <1>1, <1>4 DEF CloneDirectoryEntry, Unread
  <2>3. ~ TooLong /\ Named(directory_entry) = NamedEntry
    BY <1>1, <1>4, <2>2, NowNamed DEF CloneDirectoryEntry
  <2>4. directory_entry' = NamedEntry /\ file_entry' = Copied
    BY <1>4, <2>3 DEF CloneDirectoryEntry, Clone, Copied
  <2>5. HasName'
    BY <2>1, <2>2, <2>3, <2>4, SameNames DEF Unnamed, HasName
  <2>6. NameKept'
    BY <1>1, <2>1, SameNames DEF NameKept
  <2> QED BY <1>1, <2>1, <2>3, <2>4, <2>5, <2>6, SameNames DEF EntryInv
<1>5. CASE GetNameFromFileEntry
  <2>1. UNCHANGED <<stored_name, long_name_entries>> /\ directory_entry' = directory_entry
    BY <1>5 DEF GetNameFromFileEntry
  <2>2. ~ TooLong /\ file_entry = Copied
    BY <1>1, <1>5 DEF GetNameFromFileEntry
  <2>3. /\ file_entry' = Copied
        /\ answer' = [to |-> "name", name |-> IF Speakable THEN OneName ELSE "error"]
    BY <1>1, <1>5, <2>2, NamedOnce, CallersGet DEF GetNameFromFileEntry
  <2>4. NameKept'
    BY <2>1, <2>2, <2>3, SameNames DEF NameKept
  <2>5. Unnamed \/ HasName
    <3>1. file_entry.type # "none"
      BY <1>5 DEF GetNameFromFileEntry
    <3>2. ~ Unread
      BY <3>1 DEF Unread
    <3> QED BY <1>1, <3>2
  <2>6. (Unnamed \/ HasName)'
    <3>1. /\ EntryOf(stored_name)' = EntryOf(stored_name) /\ (Read' <=> Read)
          /\ stored_name' = stored_name /\ NamedEntry' = NamedEntry
          /\ (TooLong' <=> TooLong)
      BY <2>1, SameNames
    <3> QED BY <2>1, <2>5, <3>1 DEF Unnamed, HasName
  <2> QED BY <1>1, <2>1, <2>2, <2>3, <2>4, <2>6, SameNames DEF EntryInv
<1>6. CASE CompareWithString
  <2>1. UNCHANGED <<stored_name, long_name_entries>> /\ file_entry' = file_entry
    BY <1>6 DEF CompareWithString
  <2>2. Unnamed \/ HasName
    BY <1>1, <1>6 DEF CompareWithString, Unread
  <2>3. CASE TooLong
    <3>1. PICK string \in Strings :
            /\ answer' = [to |-> "compare", string |-> string, is |-> "error"]
            /\ directory_entry' = directory_entry
      BY <1>1, <1>6, <2>2, <2>3, NowNamed DEF CompareWithString
    <3>2. NameKept'
      BY <2>1, <2>3, <3>1, SameNames DEF NameKept
    <3>3. Unnamed'
      <4>1. EntryOf(stored_name)' = EntryOf(stored_name) /\ (Read' <=> Read)
              /\ stored_name' = stored_name
        BY <2>1, SameNames
      <4> QED BY <2>2, <2>3, <3>1, <4>1 DEF Unnamed, HasName
    <3> QED BY <1>1, <2>1, <3>2, <3>3, SameNames DEF EntryInv
  <2>4. CASE ~ TooLong
    <3>1. PICK string \in Strings :
            /\ answer' = [to |-> "compare", string |-> string,
                          is |-> Compare(NamedEntry, string)]
            /\ directory_entry' = NamedEntry
      BY <1>1, <1>6, <2>2, <2>4, NowNamed DEF CompareWithString
    <3>2. /\ Compare(NamedEntry, string) = "error" =>
               ~ Speakable \/ \E i \in DOMAIN string : string[i] \in Surrogates
          /\ Compare(NamedEntry, string) = "equal" <=>
               Speakable /\ Folded(string) = Folded(OneName)
      <4>1. string \in Seq(Nat)
        BY DirectoryEntryAssumption
      <4> QED BY <1>1, <4>1, ComparedIs
    <3>3. /\ answer'.to = "compare" /\ answer'.string = string
          /\ answer'.is = Compare(NamedEntry, string)
      BY <3>1
    <3>4. NameKept'
      BY <2>1, <2>4, <3>2, <3>3, SameNames DEF NameKept
    <3>5. HasName'
      BY <2>1, <2>2, <2>4, <3>1, SameNames DEF Unnamed, HasName
    <3> QED BY <1>1, <2>1, <3>4, <3>5, SameNames DEF EntryInv
  <2> QED BY <2>3, <2>4
<1> QED BY <1>2, <1>3, <1>4, <1>5, <1>6 DEF EntryNext

LEMMA EntryStays == EntryInv /\ UNCHANGED entryVars => EntryInv'
<1> SUFFICES ASSUME EntryInv, UNCHANGED entryVars PROVE EntryInv'
  OBVIOUS
<1>1. /\ stored_name' = stored_name /\ long_name_entries' = long_name_entries
      /\ directory_entry' = directory_entry /\ file_entry' = file_entry
      /\ answer' = answer
  BY DEF entryVars
<1>2. UNCHANGED <<stored_name, long_name_entries>>
  BY <1>1
<1>3. CASE EntryIdle
  BY <1>1, <1>3 DEF EntryIdle, EntryInv
<1>4. CASE ~ EntryIdle
  <2>1. /\ stored_name \in StoredNames
        /\ Unread \/ Unnamed \/ HasName
        /\ \/ file_entry = [type |-> "none"]
           \/ ~ TooLong /\ file_entry = Copied
        /\ NameKept
    BY <1>4 DEF EntryInv
  <2>2. NameKept'
    BY <1>1, <1>2, <2>1, SameNames DEF NameKept
  <2>3. (Unread \/ Unnamed \/ HasName)'
    BY <1>1, <1>2, <2>1, SameNames DEF Unread, Unnamed, HasName
  <2> QED BY <1>1, <1>2, <2>1, <2>2, <2>3, SameNames DEF EntryInv
<1> QED BY <1>3, <1>4

(* Whoever asks for the name of an entry, and of which of its copies, gets *)
(* the same one, put together again from the parts it was stored in        *)
(* (libfsfat_directory_entry.c:1404-1750), and a string is found equal to  *)
(* it when it differs in case only; or everybody fails, for a name that is *)
(* too long and for one with a character that cannot be converted (1962-   *)
(* 1990, 2034-2060, libfsfat_name.c:137-191).                              *)
THEOREM NamesAreKept == Spec => []NameKept
<1>1. Init => EntryInv
  BY EntryBegins DEF Init
<1>2. EntryInv /\ [Next]_vars => EntryInv'
  BY EntryGoesOn, EntryStays DEF Next, vars
<1>3. EntryInv => NameKept
  BY DEF EntryInv, EntryIdle, NameKept
<1> QED BY <1>1, <1>2, <1>3, PTL DEF Spec
=============================================================================
