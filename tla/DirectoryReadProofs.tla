------------------------- MODULE DirectoryReadProofs --------------------------
(***************************************************************************)
(* Proofs about the reading of a directory, and about the lookup of one of *)
(* its entries by its identifier.                                          *)
(***************************************************************************)
EXTENDS EntryByIdentifier, FiniteSetTheorems, SequenceTheorems,
        WellFoundedInduction, TLAPS

(***************************************************************************)
(* Lists of what was read.                                                 *)
(***************************************************************************)

(* The elements of a set of numbers in order.                              *)
Enumerates(index, n, S) ==
  /\ S \subseteq Nat
  /\ index \in [1 .. n -> S]
  /\ \A a, b \in 1 .. n : a < b => index[a] < index[b]
  /\ \A j \in S : \E r \in 1 .. n : index[r] = j

(* The elements of s are those of q at the indexes in S, in order.         *)
Lists(q, s, S) ==
  \E index : /\ Enumerates(index, Len(s), S)
             /\ \A r \in 1 .. Len(s) : s[r] = q[index[r]]

(* The r-th element of a set of indexes has r elements up to it.           *)
LEMMA ElementsUpTo ==
  ASSUME NEW S, NEW n \in Nat, NEW index, Enumerates(index, n, S),
         NEW r \in 1 .. n, NEW T, T = {j \in S : j <= index[r]}
  PROVE  Cardinality(T) = r
<1>0. /\ S \subseteq Nat
      /\ index \in [1 .. n -> S]
      /\ \A a, b \in 1 .. n : a < b => index[a] < index[b]
      /\ \A j \in S : \E a \in 1 .. n : index[a] = j
  BY DEF Enumerates
<1> DEFINE f == [a \in 1 .. r |-> index[a]]
<1>1. \A a \in 1 .. n : index[a] \in S /\ index[a] \in Nat
  BY <1>0
<1>2. \A a \in 1 .. r : a \in 1 .. n
  OBVIOUS
<1>3. \A a \in 1 .. r : f[a] \in T
  <2> SUFFICES ASSUME NEW a \in 1 .. r PROVE index[a] \in T
    OBVIOUS
  <2>1. r \in 1 .. n /\ a \in 1 .. n /\ a <= r
    OBVIOUS
  <2>2. a < r => index[a] < index[r]
    BY <1>0, <2>1
  <2>3. index[a] <= index[r]
    BY <1>1, <2>1, <2>2
  <2> QED BY <1>0, <2>1, <2>3
<1>4. f \in [1 .. r -> T]
  BY <1>3
<1>5. \A a, b \in 1 .. r : f[a] = f[b] => a = b
  <2> SUFFICES ASSUME NEW a \in 1 .. r, NEW b \in 1 .. r, index[a] = index[b] PROVE a = b
    OBVIOUS
  <2>1. a \in 1 .. n /\ b \in 1 .. n /\ ~ (a < b) /\ ~ (b < a)
    BY <1>0, <1>1, <1>2
  <2> QED BY <2>1
<1>6. \A t \in T : \E a \in 1 .. r : f[a] = t
  <2> SUFFICES ASSUME NEW t \in T PROVE \E a \in 1 .. r : f[a] = t
    OBVIOUS
  <2>1. r \in 1 .. n /\ t \in S /\ t <= index[r]
    OBVIOUS
  <2>2. PICK a \in 1 .. n : index[a] = t
    BY <1>0, <2>1
  <2>3. ~ (r < a)
    BY <1>0, <1>1, <2>1, <2>2
  <2> QED BY <2>1, <2>2, <2>3
<1>7. f \in Bijection(1 .. r, T)
  BY <1>4, <1>5, <1>6, Zenon DEF Bijection, Injection, Surjection, IsInjective
<1>8. ExistsBijection(1 .. r, T)
  BY <1>7 DEF ExistsBijection
<1> QED BY <1>8, FS_CountingElements

LEMMA ListIsInOrder ==
  ASSUME seen \in Seq(Int), NEW s \in Seq(Int), NEW S, S \subseteq 1 .. Len(seen),
         Lists(seen, s, S)
  PROVE  s = InOrder(S)
<1>0. PICK n \in Nat : n = Len(s) /\ s = [r \in 1 .. n |-> s[r]]
  OBVIOUS
<1>1. PICK index : Enumerates(index, n, S) /\ \A r \in 1 .. n : s[r] = seen[index[r]]
  BY <1>0 DEF Lists
<1>e. /\ index \in [1 .. n -> S]
      /\ \A a, b \in 1 .. n : a < b => index[a] < index[b]
      /\ \A j \in S : \E a \in 1 .. n : index[a] = j
  BY <1>1 DEF Enumerates
<1> DEFINE rank(j) == Cardinality({i \in S : i <= j})
<1>2. \A j \in S : j \in Nat
  OBVIOUS
<1>3. ASSUME NEW r \in 1 .. n PROVE rank(index[r]) = r
  <2>1. PICK T : T = {j \in S : j <= index[r]}
    OBVIOUS
  <2>2. Cardinality(T) = r
    BY <1>1, <1>2, <2>1, ElementsUpTo
  <2>3. rank(index[r]) = Cardinality(T)
    BY <2>1
  <2> QED BY <2>2, <2>3
<1>4. Cardinality(S) = n
  <2>1. CASE n = 0
    <3>1. S = {}
      BY <1>e, <2>1
    <3> QED BY <2>1, <3>1, FS_EmptySet
  <2>2. CASE n # 0
    <3>5. n \in 1 .. n
      BY <2>2
    <3>0. n \in 1 .. n /\ index[n] \in Nat
      BY <1>e, <1>2, <3>5
    <3>1. Cardinality({j \in S : j <= index[n]}) = n
      BY <1>3, <3>0
    <3>2. ASSUME NEW j \in S PROVE j <= index[n]
      <4>1. PICK a \in 1 .. n : index[a] = j
        BY <1>e
      <4>2. a = n \/ a < n
        OBVIOUS
      <4>3. a < n => index[a] < index[n]
        BY <1>e, <3>0
      <4>4. j \in Nat
        BY <1>2
      <4> QED BY <3>0, <4>1, <4>2, <4>3, <4>4
    <3>3. {j \in S : j <= index[n]} = S
      BY <3>2
    <3> QED BY <3>1, <3>3
  <2> QED BY <2>1, <2>2
<1> HIDE DEF rank
<1>5. ASSUME NEW r \in 1 .. n PROVE (CHOOSE j \in S : rank(j) = r) = index[r]
  <2>1. index[r] \in S /\ rank(index[r]) = r
    BY <1>e, <1>3
  <2>2. ASSUME NEW j \in S, rank(j) = r PROVE j = index[r]
    <3>1. PICK a \in 1 .. n : index[a] = j
      BY <1>e
    <3>2. rank(j) = a
      BY <1>3, <3>1
    <3> QED BY <2>2, <3>1, <3>2
  <2> QED BY <2>1, <2>2
<1>6. [r \in 1 .. n |-> seen[CHOOSE j \in S : rank(j) = r]] = [r \in 1 .. n |-> s[r]]
  BY <1>1, <1>5
<1>7. InOrder(S) = [r \in 1 .. Cardinality(S) |-> seen[CHOOSE j \in S : rank(j) = r]]
  BY DEF InOrder, rank
<1> QED BY <1>0, <1>4, <1>6, <1>7

LEMMA ListsNothing ==
  ASSUME NEW q
  PROVE  Lists(q, <<>>, {})
<1>1. Enumerates(<<>>, Len(<<>>), {})
  BY DEF Enumerates
<1> QED BY <1>1 DEF Lists

LEMMA ListsNoneElse ==
  ASSUME NEW q, NEW s \in Seq(Int), Lists(q, s, {})
  PROVE  s = <<>>
<1>1. Len(s) = 0
  BY DEF Lists, Enumerates
<1> QED BY <1>1

LEMMA ListStays ==
  ASSUME NEW q \in Seq(Int), NEW s \in Seq(Int), NEW S, S \subseteq 1 .. Len(q),
         Lists(q, s, S), NEW p \in Int
  PROVE  Lists(Append(q, p), s, S)
<1>1. PICK n \in Nat : n = Len(s)
  OBVIOUS
<1>2. PICK longer : longer = Append(q, p)
  OBVIOUS
<1>3. PICK index : Enumerates(index, n, S) /\ \A r \in 1 .. n : s[r] = q[index[r]]
  BY <1>1 DEF Lists
<1>4. \A r \in 1 .. n : s[r] = longer[index[r]]
  <2>1. \A j \in S : longer[j] = q[j]
    BY <1>2
  <2>2. \A r \in 1 .. n : index[r] \in S
    BY <1>3 DEF Enumerates
  <2> QED BY <1>3, <2>1, <2>2
<1>5. Lists(longer, s, S)
  BY <1>1, <1>3, <1>4 DEF Lists
<1> QED BY <1>2, <1>5

LEMMA ListGrows ==
  ASSUME NEW q \in Seq(Int), NEW s \in Seq(Int), NEW S, S \subseteq 1 .. Len(q),
         Lists(q, s, S), NEW p \in Int, NEW T, T = S \cup {Len(q) + 1}
  PROVE  Lists(Append(q, p), Append(s, p), T)
<1>n. PICK n \in Nat : n = Len(s)
  OBVIOUS
<1>m. PICK m \in Nat : m = Len(q) + 1
  OBVIOUS
<1>0. PICK index : Enumerates(index, n, S) /\ \A r \in 1 .. n : s[r] = q[index[r]]
  BY <1>n DEF Lists
<1>1. /\ index \in [1 .. n -> S]
      /\ \A a, b \in 1 .. n : a < b => index[a] < index[b]
      /\ \A j \in S : \E r \in 1 .. n : index[r] = j
      /\ \A r \in 1 .. n : s[r] = q[index[r]]
  BY <1>0 DEF Enumerates
<1>2. Len(Append(s, p)) = n + 1 /\ \A j \in S : j \in Nat /\ j < m
  BY <1>n, <1>m
<1> DEFINE next == [r \in 1 .. n + 1 |-> IF r = n + 1 THEN m ELSE index[r]]
<1>3. next \in [1 .. n + 1 -> T]
  <2>1. ASSUME NEW r \in 1 .. n + 1 PROVE next[r] \in T
    <3>1. CASE r = n + 1
      BY <1>m, <3>1
    <3>2. CASE r # n + 1
      <4>1. r \in 1 .. n
        BY <3>2
      <4> QED BY <1>1, <3>2, <4>1
    <3> QED BY <3>1, <3>2
  <2> QED BY <2>1
<1>4. \A a, b \in 1 .. n + 1 : a < b => next[a] < next[b]
  <2> SUFFICES ASSUME NEW a \in 1 .. n + 1, NEW b \in 1 .. n + 1, a < b
               PROVE  next[a] < next[b]
    OBVIOUS
  <2>1. a \in 1 .. n /\ a # n + 1
    OBVIOUS
  <2>2. next[a] = index[a] /\ index[a] \in S
    BY <1>1, <2>1
  <2>3. CASE b = n + 1
    BY <1>2, <2>2, <2>3
  <2>4. CASE b # n + 1
    <3>1. b \in 1 .. n
      BY <2>4
    <3>2. next[b] = index[b]
      BY <2>4
    <3> QED BY <1>1, <2>1, <2>2, <3>1, <3>2
  <2> QED BY <2>3, <2>4
<1>5. \A j \in T : \E r \in 1 .. n + 1 : next[r] = j
  <2> SUFFICES ASSUME NEW j \in T PROVE \E r \in 1 .. n + 1 : next[r] = j
    OBVIOUS
  <2>1. CASE j = m
    <3>1. n + 1 \in 1 .. n + 1 /\ next[n + 1] = m
      OBVIOUS
    <3> QED BY <2>1, <3>1
  <2>2. CASE j \in S
    <3>1. PICK r \in 1 .. n : index[r] = j
      BY <1>1, <2>2
    <3>2. r \in 1 .. n + 1 /\ r # n + 1
      OBVIOUS
    <3>3. next[r] = j
      BY <3>1, <3>2
    <3> QED BY <3>2, <3>3
  <2> QED BY <1>m, <2>1, <2>2
<1>6. \A r \in 1 .. n + 1 : Append(s, p)[r] = Append(q, p)[next[r]]
  <2> SUFFICES ASSUME NEW r \in 1 .. n + 1 PROVE Append(s, p)[r] = Append(q, p)[next[r]]
    OBVIOUS
  <2>1. CASE r = n + 1
    <3>1. next[r] = m /\ Append(s, p)[r] = p /\ Append(q, p)[m] = p
      BY <1>n, <1>m, <2>1
    <3> QED BY <3>1
  <2>2. CASE r # n + 1
    <3>0. r \in 1 .. n
      BY <2>2
    <3>1. next[r] = index[r] /\ index[r] \in S
      BY <1>1, <2>2, <3>0
    <3>2. Append(s, p)[r] = s[r]
      BY <1>n, <3>0
    <3>3. \A j \in S : Append(q, p)[j] = q[j]
      OBVIOUS
    <3> QED BY <1>1, <3>0, <3>1, <3>2, <3>3
  <2> QED BY <2>1, <2>2
<1>7. Enumerates(next, n + 1, T)
  BY <1>m, <1>1, <1>2, <1>3, <1>4, <1>5 DEF Enumerates
<1> HIDE DEF next
<1>8. PICK grown : grown = Append(s, p)
  OBVIOUS
<1>9. PICK longer : longer = Append(q, p)
  OBVIOUS
<1>10. n + 1 = Len(grown) /\ \A r \in 1 .. n + 1 : grown[r] = longer[next[r]]
  BY <1>2, <1>6, <1>8, <1>9
<1>11. Lists(longer, grown, T)
  BY <1>7, <1>10 DEF Lists
<1> QED BY <1>8, <1>9, <1>11

(***************************************************************************)
(* What the reader holds while it reads.                                   *)
(***************************************************************************)

Entries == [identifier : Int, names : Seq(Int), data : Int]

Directories ==
  [entries : Seq(Int), file_entries : Seq(Entries), self_entry : Int,
   parent_entry : Int, volume_label_entry : Int]

ReadTypeOK ==
  /\ method \in {"chain", "range"}
  /\ volume \in Volumes
  /\ allocation_table \in Tables
  /\ cluster_number \in Nat
  /\ cluster_block_tree \subseteq Nat
  /\ IsFiniteSet(cluster_block_tree)
  /\ step \in {"cluster", "entry", "done"}
  /\ step # "done" => result = "running"
  /\ position \in Int
  /\ end_position \in Int
  /\ last_vfat_sequence_number \in Int
  /\ name_entries_array \in Seq(Int) \ {<<>>}
  /\ current_file_entry \in Nat
  /\ data_stream_entry \in Int
  /\ directory \in Directories
  /\ result \in {"running", "directory", "error"}
  /\ seen \in Seq(Int)

InCluster(p, cluster) ==
  ClusterStart(cluster) <= p /\ p < ClusterStart(cluster) + EntriesPerCluster

(* Every cluster of the chain is read from its start to its end, and what  *)
(* was read lies in a cluster of the tree, before the next entry.          *)
ChainAccounted ==
  /\ step = "cluster" => Len(seen) = EntriesPerCluster * Cardinality(cluster_block_tree)
  /\ step = "entry" =>
       /\ InChain
       /\ cluster_number \in cluster_block_tree
       /\ end_position = ClusterStart(cluster_number) + EntriesPerCluster
       /\ ClusterStart(cluster_number) <= position
       /\ position <= end_position
       /\ Len(seen) + (end_position - position)
            = EntriesPerCluster * Cardinality(cluster_block_tree)
  /\ \A j \in 1 .. Len(seen) :
       \E cluster \in cluster_block_tree :
         /\ InCluster(seen[j], cluster)
         /\ step = "entry" /\ cluster = cluster_number => seen[j] < position

(* The range is read from its start to its end.                            *)
RangeAccounted ==
  /\ step = "entry"
  /\ end_position = RangeSize
  /\ position = Len(seen)
  /\ position <= RangeSize
  /\ \A j \in 1 .. Len(seen) : seen[j] = j - 1

Accounted ==
  step # "done" =>
    /\ method = "chain" => ChainAccounted
    /\ method = "range" => RangeAccounted /\ IsFat(volume)

(* The file entries are those that were read, each with what belongs to it.*)
Identifiers ==
  [i \in 1 .. Len(directory.file_entries) |-> directory.file_entries[i].identifier]

IsLast(k) == \A j \in k + 1 .. Len(seen) : ~ IsFile(KindAt(j))

PartsOf(k) ==
  IF KindAt(k).type = "file"
  THEN {j \in Behind(k) : KindAt(j).type = "name"}
  ELSE LongNameParts(k)

Belongs(i, k) ==
  /\ i = Len(directory.file_entries) <=> IsLast(k)
  /\ Lists(seen, directory.file_entries[i].names, PartsOf(k))
  /\ NamesInSequence(directory.file_entries[i].names)
  /\ DataStreamsOf(k) = {directory.file_entries[i].data} \ {None}

Listed ==
  result # "error" =>
    /\ Lists(seen, Identifiers, FilesSeen)
    /\ \A i \in 1 .. Len(directory.file_entries) : \A k \in FilesSeen :
         directory.file_entries[i].identifier = seen[k] => Belongs(i, k)

(* The long name that is being read is the latest one, as far as it was    *)
(* read; its last part has the number that is remembered.                  *)
LatestName == LongNameParts(Len(seen) + 1)

NameHeld == IF name_entries_array = NoArray THEN <<>> ELSE name_entries_array

HoldsName ==
  step # "done" =>
    /\ Lists(seen, NameHeld, LatestName)
    /\ NamesInSequence(NameHeld)
    /\ \A n \in 1 .. Len(NameHeld) : NameHeld[n] \in Places /\ IsLong(volume[NameHeld[n]])
    /\ NameHeld # <<>> =>
         last_vfat_sequence_number = volume[NameHeld[Len(NameHeld)]].seq

(* The file that is being read is the last one, with its data stream.      *)
HoldsFile ==
  step # "done" =>
    /\ IsFat(volume) => current_file_entry = 0
    /\ IsExfat(volume) => current_file_entry = Len(directory.file_entries)
    /\ data_stream_entry =
         IF current_file_entry = 0 THEN None
         ELSE directory.file_entries[current_file_entry].data

ReadInv ==
  /\ ReadTypeOK
  /\ \A j \in 1 .. Len(seen) : seen[j] \in Places
  /\ Accounted
  /\ Listed
  /\ HoldsName
  /\ HoldsFile
  /\ result = "directory" => ReadToTheEnd

-----------------------------------------------------------------------------
(***************************************************************************)
(* The history when an entry is read.                                      *)
(***************************************************************************)

ReadNext(p) ==
  /\ p \in Places
  /\ seen' = Append(seen, p)
  /\ UNCHANGED <<method, volume>>

LEMMA KindsOfVolume ==
  ASSUME ReadTypeOK, NEW p \in Places
  PROVE  /\ volume[p] \in Kinds
         /\ volume[p].seq \in Nat
         /\ p \in Int
<1>1. volume[p] \in Kinds /\ p \in Int
  BY DirectoryReadAssumption DEF ReadTypeOK, Places
<1>2. volume[p].seq \in 0 .. 31
  BY <1>1 DEF Kinds
<1> QED BY <1>1, <1>2

LEMMA HistoryGrows ==
  ASSUME ReadTypeOK, NEW p, ReadNext(p), NEW n \in Nat, n = Len(seen)
  PROVE  /\ Len(seen)' = n + 1
         /\ seen'[n + 1] = p
         /\ \A j \in 1 .. n : seen'[j] = seen[j]
         /\ \A j \in 1 .. n : KindAt(j)' = KindAt(j)
         /\ KindAt(n + 1)' = volume[p]
         /\ \A kind : IsFile(kind)' = IsFile(kind)
         /\ \A kind : IsLabel(kind)' = IsLabel(kind)
<1>0. seen \in Seq(Int) /\ p \in Int
  BY KindsOfVolume DEF ReadTypeOK, ReadNext
<1>1. /\ Len(seen)' = n + 1
      /\ seen'[n + 1] = p
      /\ \A j \in 1 .. n : seen'[j] = seen[j]
  BY <1>0 DEF ReadNext
<1> QED
  BY <1>1 DEF ReadNext, KindAt, IsFile, IsShortName, IsLabel

LEMMA FilesGrow ==
  ASSUME ReadTypeOK, NEW p, ReadNext(p), NEW n \in Nat, n = Len(seen)
  PROVE  /\ IsFile(volume[p]) => FilesSeen' = FilesSeen \cup {n + 1}
         /\ ~ IsFile(volume[p]) => FilesSeen' = FilesSeen
<1>1. \A k \in 1 .. n : IsFile(KindAt(k))' <=> IsFile(KindAt(k))
  BY HistoryGrows DEF IsFile, IsShortName, IsLabel, ReadNext
<1>2. IsFile(KindAt(n + 1))' <=> IsFile(volume[p])
  BY HistoryGrows DEF IsFile, IsShortName, IsLabel, ReadNext
<1>3. Len(seen)' = n + 1
  BY HistoryGrows
<1>4. FilesSeen' = {k \in 1 .. n + 1 : IsFile(KindAt(k))'}
  BY <1>3 DEF FilesSeen
<1>5. 1 .. n + 1 = (1 .. n) \cup {n + 1}
  OBVIOUS
<1> QED
  BY <1>1, <1>2, <1>4, <1>5 DEF FilesSeen

(* What is behind an entry grows as long as no file entry is read.         *)
LEMMA BehindGrows ==
  ASSUME ReadTypeOK, NEW p, ReadNext(p), NEW n \in Nat, n = Len(seen),
         NEW k \in 1 .. n
  PROVE  /\ ~ IsFile(volume[p]) /\ IsLast(k) => Behind(k)' = Behind(k) \cup {n + 1}
         /\ IsFile(volume[p]) \/ ~ IsLast(k) => Behind(k)' = Behind(k)
         /\ IsLast(k)' <=> IsLast(k) /\ ~ IsFile(volume[p])
<1>1. \A j \in 1 .. n : IsFile(KindAt(j))' <=> IsFile(KindAt(j))
  BY HistoryGrows DEF IsFile, IsShortName, IsLabel, ReadNext
<1>2. IsFile(KindAt(n + 1))' <=> IsFile(volume[p])
  BY HistoryGrows DEF IsFile, IsShortName, IsLabel, ReadNext
<1>3. Len(seen)' = n + 1
  BY HistoryGrows
<1>4. Behind(k)' = {j \in k + 1 .. n + 1 : \A i \in k + 1 .. j : ~ IsFile(KindAt(i))'}
  BY <1>3 DEF Behind
<1>5. IsLast(k)' <=> \A j \in k + 1 .. n + 1 : ~ IsFile(KindAt(j))'
  BY <1>3 DEF IsLast
<1>6. ASSUME NEW j \in k + 1 .. n
      PROVE  (\A i \in k + 1 .. j : ~ IsFile(KindAt(i))') <=> j \in Behind(k)
  <2>1. \A i \in k + 1 .. j : i \in 1 .. n
    OBVIOUS
  <2> QED BY <1>1, <2>1 DEF Behind
<1>7. (\A i \in k + 1 .. n + 1 : ~ IsFile(KindAt(i))') <=> IsLast(k) /\ ~ IsFile(volume[p])
  <2>1. k + 1 .. n + 1 = (k + 1 .. n) \cup {n + 1}
    OBVIOUS
  <2>2. \A i \in k + 1 .. n : i \in 1 .. n
    OBVIOUS
  <2> QED BY <1>1, <1>2, <2>1, <2>2 DEF IsLast
<1>8. Behind(k) \subseteq k + 1 .. n
  BY DEF Behind
<1>9. k + 1 .. n + 1 = (k + 1 .. n) \cup {n + 1}
  OBVIOUS
<1> QED
  BY <1>4, <1>5, <1>6, <1>7, <1>8, <1>9

LEMMA NothingBehind ==
  ASSUME ReadTypeOK, NEW p, ReadNext(p), NEW n \in Nat, n = Len(seen)
  PROVE  /\ Behind(n + 1)' = {}
         /\ IsLast(n + 1)'
<1>1. Len(seen)' = n + 1
  BY HistoryGrows
<1> QED BY <1>1 DEF Behind, IsLast

LEMMA BeforeGrows ==
  ASSUME ReadTypeOK, NEW p, ReadNext(p), NEW n \in Nat, n = Len(seen)
  PROVE  /\ \A k \in 1 .. n + 1 : Before(k)' = Before(k)
         /\ IsFile(volume[p]) => Before(n + 2)' = {}
         /\ ~ IsFile(volume[p]) => Before(n + 2)' = Before(n + 1) \cup {n + 1}
<1>1. \A j \in 1 .. n : IsFile(KindAt(j))' <=> IsFile(KindAt(j))
  BY HistoryGrows DEF IsFile, IsShortName, IsLabel, ReadNext
<1>2. IsFile(KindAt(n + 1))' <=> IsFile(volume[p])
  BY HistoryGrows DEF IsFile, IsShortName, IsLabel, ReadNext
<1>3. ASSUME NEW k \in 1 .. n + 1 PROVE Before(k)' = Before(k)
  <2>1. Before(k)' = {j \in 1 .. k - 1 : \A i \in j .. k - 1 : ~ IsFile(KindAt(i))'}
    BY DEF Before
  <2>2. \A j \in 1 .. k - 1 : \A i \in j .. k - 1 : i \in 1 .. n
    OBVIOUS
  <2> QED BY <1>1, <2>1, <2>2 DEF Before
<1>4. Before(n + 2)' = {j \in 1 .. n + 1 : \A i \in j .. n + 1 : ~ IsFile(KindAt(i))'}
  BY DEF Before
<1>5. Before(n + 1) = {j \in 1 .. n : \A i \in j .. n : ~ IsFile(KindAt(i))}
  BY DEF Before
<1>6. \A j \in 1 .. n + 1 : n + 1 \in j .. n + 1
  OBVIOUS
<1>7. \A j \in 1 .. n : j .. n + 1 = (j .. n) \cup {n + 1}
  OBVIOUS
<1>8. \A j \in 1 .. n : \A i \in j .. n : i \in 1 .. n
  OBVIOUS
<1>9. 1 .. n + 1 = (1 .. n) \cup {n + 1} /\ n + 1 .. n + 1 = {n + 1}
  OBVIOUS
<1>10. CASE IsFile(volume[p])
  BY <1>2, <1>3, <1>4, <1>6, <1>10
<1>11. CASE ~ IsFile(volume[p])
  <2>1. ASSUME NEW j \in 1 .. n
        PROVE  (\A i \in j .. n + 1 : ~ IsFile(KindAt(i))') <=> j \in Before(n + 1)
    BY <1>1, <1>2, <1>5, <1>7, <1>8, <1>11
  <2>2. \A i \in n + 1 .. n + 1 : ~ IsFile(KindAt(i))'
    BY <1>2, <1>9, <1>11
  <2>3. Before(n + 1) \subseteq 1 .. n
    BY <1>5
  <2>4. Before(n + 2)' = Before(n + 1) \cup {n + 1}
    BY <1>4, <1>9, <2>1, <2>2, <2>3
  <2> QED BY <1>3, <1>11, <2>4
<1> QED BY <1>10, <1>11

(* The latest long name, by the kind of the entry that is read.            *)
LEMMA LongNameGrows ==
  ASSUME ReadTypeOK, NEW p, ReadNext(p), NEW n \in Nat, n = Len(seen)
  PROVE  /\ \A k \in 1 .. n + 1 : LongNameParts(k)' = LongNameParts(k)
         /\ IsFile(volume[p]) => LongNameParts(n + 2)' = {}
         /\ ~ IsFile(volume[p]) /\ ~ IsLong(volume[p])
              => LongNameParts(n + 2)' = LongNameParts(n + 1)
         /\ ~ IsFile(volume[p]) /\ IsLong(volume[p]) /\ volume[p].last
              => LongNameParts(n + 2)' = {n + 1}
         /\ ~ IsFile(volume[p]) /\ IsLong(volume[p]) /\ ~ volume[p].last
              => LongNameParts(n + 2)' = LongNameParts(n + 1) \cup {n + 1}
<1>1. \A j \in 1 .. n : KindAt(j)' = KindAt(j)
  BY HistoryGrows
<1>2. KindAt(n + 1)' = volume[p]
  BY HistoryGrows
<1>3. ASSUME NEW k \in 1 .. n + 1 PROVE LongNameParts(k)' = LongNameParts(k)
  <2>1. Before(k)' = Before(k)
    BY BeforeGrows
  <2>2. \A j \in Before(k) : j \in 1 .. n
    BY DEF Before
  <2> QED BY <1>1, <2>1, <2>2 DEF LongNameParts
<1>4. CASE IsFile(volume[p])
  <2>1. Before(n + 2)' = {}
    BY <1>4, BeforeGrows
  <2>2. LongNameParts(n + 2)' = {}
    BY <2>1 DEF LongNameParts
  <2> QED BY <1>3, <1>4, <2>2
<1>5. CASE ~ IsFile(volume[p])
  <2> DEFINE before == Before(n + 1)
             parts == LongNameParts(n + 1)
  <2>1. Before(n + 2)' = before \cup {n + 1}
    BY <1>5, BeforeGrows
  <2>2. \A j \in before : j \in 1 .. n /\ j < n + 1
    BY DEF Before
  <2>3. LongNameParts(n + 2)' =
          {j \in before \cup {n + 1} :
             /\ IsLong(KindAt(j)')
             /\ \A i \in before \cup {n + 1} :
                  i > j => ~ (IsLong(KindAt(i)') /\ KindAt(i)'.last)}
    BY <2>1 DEF LongNameParts, IsLong
  <2>4. parts =
          {j \in before :
             /\ IsLong(KindAt(j))
             /\ \A i \in before : i > j => ~ (IsLong(KindAt(i)) /\ KindAt(i).last)}
    BY DEF LongNameParts
  <2> HIDE DEF before, parts
  <2>5. \A j \in before : KindAt(j)' = KindAt(j)
    BY <1>1, <2>2
  <2>6. \A i \in before \cup {n + 1} : ~ (i > n + 1)
    BY <2>2
  <2>7. n + 1 \in LongNameParts(n + 2)' <=> IsLong(volume[p])
    BY <1>2, <2>3, <2>6
  <2>8. ASSUME NEW j \in before
        PROVE  j \in LongNameParts(n + 2)'
                 <=> j \in parts /\ ~ (IsLong(volume[p]) /\ volume[p].last)
    BY <1>2, <2>2, <2>3, <2>4, <2>5
  <2>9. LongNameParts(n + 2)' \subseteq before \cup {n + 1} /\ parts \subseteq before
    BY <2>3, <2>4
  <2>10. n + 1 \notin before
    BY <2>2
  <2>11. /\ ~ IsLong(volume[p]) => LongNameParts(n + 2)' = parts
         /\ IsLong(volume[p]) /\ volume[p].last => LongNameParts(n + 2)' = {n + 1}
         /\ IsLong(volume[p]) /\ ~ volume[p].last => LongNameParts(n + 2)' = parts \cup {n + 1}
    BY <2>7, <2>8, <2>9, <2>10
  <2> QED BY <1>3, <1>5, <2>11 DEF parts
<1> QED BY <1>4, <1>5

LEMMA PartsAreIndexes ==
  ASSUME NEW k \in Nat
  PROVE  /\ LongNameParts(k) \subseteq 1 .. k - 1
         /\ Behind(k) \subseteq k + 1 .. Len(seen)
         /\ FilesSeen \subseteq 1 .. Len(seen)
BY DEF LongNameParts, Before, Behind, FilesSeen

-----------------------------------------------------------------------------
(***************************************************************************)
(* Positions.                                                              *)
(***************************************************************************)

LEMMA ProductsGrow ==
  ASSUME NEW a \in Int, NEW b \in Int, NEW e \in Nat, a <= b
  PROVE  a * e <= b * e
<1>1. b - a >= 0 /\ (b - a) * e = b * e - a * e
  OBVIOUS
<1>2. (b - a) * e >= 0
  BY <1>1
<1> QED BY <1>1, <1>2

LEMMA SizesAreNumbers ==
  /\ EntriesPerCluster \in Nat /\ EntriesPerCluster > 0
  /\ LastClusterNumber \in Nat
  /\ RangeSize \in Nat
BY DirectoryReadAssumption

(* The entries of a cluster that a chain may lead to are places.           *)
LEMMA ClusterBounds ==
  ASSUME NEW c \in Nat, c >= 2, c < LastClusterNumber
  PROVE  /\ ClusterStart(c) \in Nat
         /\ ClusterStart(c) + EntriesPerCluster <= LastClusterNumber * EntriesPerCluster
<1> DEFINE e == EntriesPerCluster
<1>1. e \in Nat /\ LastClusterNumber \in Nat
  BY SizesAreNumbers
<1> HIDE DEF e
<1>2. 0 * e <= (c - 2) * e
  BY <1>1, ProductsGrow
<1>3. (c - 1) * e <= LastClusterNumber * e
  BY <1>1, ProductsGrow
<1>4. (c - 1) * e = (c - 2) * e + e
  BY <1>1
<1>5. 0 * e = 0 /\ (c - 2) * e \in Int /\ LastClusterNumber * e \in Int
  BY <1>1
<1>6. (c - 2) * e \in Nat /\ (c - 2) * e + e <= LastClusterNumber * e
  BY <1>2, <1>3, <1>4, <1>5
<1> QED
  BY <1>6 DEF ClusterStart, FirstCluster, e

LEMMA ClustersApart ==
  ASSUME NEW c \in Nat, NEW d \in Nat, NEW p \in Int, InCluster(p, c), InCluster(p, d)
  PROVE  c = d
<1> DEFINE e == EntriesPerCluster
<1>1. e \in Nat
  BY SizesAreNumbers
<1>2. /\ (c - 2) * e <= p /\ p < (c - 2) * e + e
      /\ (d - 2) * e <= p /\ p < (d - 2) * e + e
  BY DEF InCluster, ClusterStart, FirstCluster
<1> HIDE DEF e
<1>3. /\ (c - 2) * e \in Int /\ (d - 2) * e \in Int
      /\ (c - 1) * e = (c - 2) * e + e
      /\ (d - 1) * e = (d - 2) * e + e
  BY <1>1
<1>4. CASE c < d
  <2>1. (c - 1) * e <= (d - 2) * e
    BY <1>1, <1>4, ProductsGrow
  <2> QED BY <1>1, <1>2, <1>3, <2>1
<1>5. CASE d < c
  <2>1. (d - 1) * e <= (c - 2) * e
    BY <1>1, <1>5, ProductsGrow
  <2> QED BY <1>1, <1>2, <1>3, <2>1
<1> QED BY <1>4, <1>5

(* An entry that is read lies at a place, and was not read before.         *)
LEMMA EntryIsNew ==
  ASSUME ReadTypeOK, Accounted, Reading
  PROVE  /\ position \in Places
         /\ position \in Nat
         /\ \A j \in 1 .. Len(seen) : seen[j] # position
<1>0. /\ cluster_number \in Nat /\ cluster_block_tree \subseteq Nat
      /\ position \in Int /\ end_position \in Int /\ seen \in Seq(Int)
      /\ method \in {"chain", "range"}
      /\ step = "entry" /\ position < end_position
      /\ LastClusterNumber * EntriesPerCluster \in Nat
  BY SizesAreNumbers DEF ReadTypeOK, Reading
<1>1. CASE method = "chain"
  <2>1. ChainAccounted
    BY <1>0, <1>1 DEF Accounted
  <2>2. /\ cluster_number >= 2 /\ cluster_number < LastClusterNumber
        /\ end_position = ClusterStart(cluster_number) + EntriesPerCluster
        /\ ClusterStart(cluster_number) <= position
    BY <1>0, <2>1 DEF ChainAccounted, InChain
  <2>3. /\ ClusterStart(cluster_number) \in Nat
        /\ end_position <= LastClusterNumber * EntriesPerCluster
    BY <1>0, <2>2, ClusterBounds
  <2>4. position \in Nat /\ position \in Places
    BY <1>0, <2>2, <2>3, SizesAreNumbers DEF Places
  <2>5. ASSUME NEW j \in 1 .. Len(seen), seen[j] = position
        PROVE  FALSE
    <3>1. PICK cluster \in cluster_block_tree :
            /\ InCluster(seen[j], cluster)
            /\ cluster = cluster_number => seen[j] < position
      BY <1>0, <2>1 DEF ChainAccounted
    <3>2. InCluster(position, cluster_number)
      BY <1>0, <2>2 DEF InCluster
    <3>3. cluster = cluster_number
      BY <1>0, <2>5, <3>1, <3>2, ClustersApart
    <3> QED BY <1>0, <2>5, <3>1, <3>3
  <2> QED BY <2>4, <2>5
<1>2. CASE method = "range"
  <2>1. RangeAccounted
    BY <1>0, <1>2 DEF Accounted
  <2>2. position \in Nat /\ position < RangeSize
    BY <1>0, <2>1 DEF RangeAccounted
  <2>3. position \in Places
    BY <1>0, <2>2, SizesAreNumbers DEF Places
  <2>4. ASSUME NEW j \in 1 .. Len(seen) PROVE seen[j] # position
    BY <1>0, <2>1 DEF RangeAccounted
  <2> QED BY <2>2, <2>3, <2>4
<1> QED BY <1>0, <1>1, <1>2

(* The account when an entry is read and the loop goes on.                 *)
LEMMA AccountedGoesOn ==
  ASSUME ReadTypeOK, Accounted, Reading,
         seen' = Append(seen, position),
         position' = position + 1,
         UNCHANGED <<method, volume, cluster_number, cluster_block_tree, end_position, step>>
  PROVE  Accounted'
<1>0. /\ cluster_block_tree \subseteq Nat
      /\ position \in Int /\ end_position \in Int /\ seen \in Seq(Int)
      /\ step = "entry" /\ position < end_position
  BY DEF ReadTypeOK, Reading
<1>1. /\ Len(seen') = Len(seen) + 1
      /\ seen'[Len(seen) + 1] = position
      /\ \A j \in 1 .. Len(seen) : seen'[j] = seen[j]
      /\ 1 .. Len(seen') = (1 .. Len(seen)) \cup {Len(seen) + 1}
      /\ Len(seen) \in Nat
  BY <1>0
<1>2. CASE method = "chain"
  <2>1. ChainAccounted
    BY <1>0, <1>2 DEF Accounted
  <2>2. /\ InChain
        /\ cluster_number \in cluster_block_tree
        /\ end_position = ClusterStart(cluster_number) + EntriesPerCluster
        /\ ClusterStart(cluster_number) <= position
        /\ Len(seen) + (end_position - position)
             = EntriesPerCluster * Cardinality(cluster_block_tree)
    BY <1>0, <2>1 DEF ChainAccounted
  <2>3. ClusterStart(cluster_number) \in Int
    BY <1>0, <2>2, SizesAreNumbers DEF ReadTypeOK, ClusterStart, FirstCluster
  <2>4. \A j \in 1 .. Len(seen') :
          \E cluster \in cluster_block_tree :
            /\ InCluster(seen'[j], cluster)
            /\ cluster = cluster_number => seen'[j] < position + 1
    <3>1. ASSUME NEW j \in 1 .. Len(seen)
          PROVE  \E cluster \in cluster_block_tree :
                   /\ InCluster(seen'[j], cluster)
                   /\ cluster = cluster_number => seen'[j] < position + 1
      <4>1. PICK cluster \in cluster_block_tree :
              /\ InCluster(seen[j], cluster)
              /\ cluster = cluster_number => seen[j] < position
        BY <1>0, <2>1 DEF ChainAccounted
      <4>2. seen[j] \in Int
        BY <1>0
      <4> QED BY <1>0, <1>1, <4>1, <4>2
    <3>2. InCluster(position, cluster_number)
      BY <1>0, <2>2 DEF InCluster
    <3>3. \E cluster \in cluster_block_tree :
            /\ InCluster(seen'[Len(seen) + 1], cluster)
            /\ cluster = cluster_number => seen'[Len(seen) + 1] < position + 1
      BY <1>0, <1>1, <2>2, <3>2
    <3> QED BY <1>1, <3>1, <3>3
  <2>5. ClusterStart(cluster_number)' = ClusterStart(cluster_number)
    BY DEF ClusterStart
  <2>6. InChain'
    BY <2>2 DEF InChain
  <2>7. Len(seen') + (end_position - (position + 1))
          = EntriesPerCluster * Cardinality(cluster_block_tree)
    <3>1. Len(seen') + (end_position - (position + 1)) = Len(seen) + (end_position - position)
      BY <1>0, <1>1
    <3> QED BY <2>2, <3>1
  <2>8. ClusterStart(cluster_number) <= position + 1 /\ position + 1 <= end_position
    BY <1>0, <2>2, <2>3
  <2>9. ChainAccounted'
    BY <1>0, <2>2, <2>4, <2>5, <2>6, <2>7, <2>8 DEF ChainAccounted, InCluster, ClusterStart
  <2> QED BY <1>2, <2>9 DEF Accounted
<1>3. CASE method = "range"
  <2>1. RangeAccounted /\ IsFat(volume)
    BY <1>0, <1>3 DEF Accounted
  <2>2. \A j \in 1 .. Len(seen') : seen'[j] = j - 1
    BY <1>1, <2>1 DEF RangeAccounted
  <2>3. RangeAccounted'
    BY <1>0, <1>1, <2>1, <2>2 DEF RangeAccounted
  <2>4. IsFat(volume)'
    BY <2>1 DEF IsFat
  <2> QED BY <1>3, <2>3, <2>4 DEF Accounted
<1> QED BY <1>2, <1>3 DEF ReadTypeOK

-----------------------------------------------------------------------------
(***************************************************************************)
(* What belongs to the file entries, when an entry is read.                *)
(***************************************************************************)

LEMMA FormatKnown ==
  ASSUME ReadTypeOK
  PROVE  /\ IsFat(volume) \/ IsExfat(volume)
         /\ \A p \in Places : volume[p].type \in Types
         /\ IsFat(volume) => \A p \in Places : volume[p].type \notin ExfatTypes
         /\ IsExfat(volume) =>
              \A p \in Places : volume[p].type \notin ShortTypes \cup {"long"}
<1>1. volume \in [Places -> Kinds] /\ (IsFat(volume) \/ IsExfat(volume))
  BY DirectoryReadAssumption DEF ReadTypeOK
<1>2. \A p \in Places : volume[p].type \in Types
  BY <1>1 DEF Kinds
<1> QED
  BY <1>1, <1>2 DEF IsFat, IsExfat, ExfatTypes, ShortTypes

(* The kinds of file entries.                                              *)
LEMMA FileKinds ==
  ASSUME NEW kind
  PROVE  /\ IsFile(kind) => kind.type = "file" \/ kind.type \in ShortTypes
         /\ kind.type = "file" => IsFile(kind)
         /\ kind.type \in {"name", "stream", "long", "unallocated", "terminator", "bitmap",
                           "exfat_label"} => ~ IsFile(kind)
         /\ IsLabel(kind) => ~ IsFile(kind) \/ kind.type = "file"
BY DEF IsFile, IsShortName, ShortTypes

LEMMA FileEntryIs ==
  ASSUME ReadTypeOK, NEW i \in 1 .. Len(directory.file_entries)
  PROVE  /\ directory.file_entries[i] \in Entries
         /\ directory.file_entries[i].names \in Seq(Int)
         /\ directory.file_entries[i].identifier \in Int
         /\ directory.file_entries[i].data \in Int
<1>1. directory.file_entries \in Seq(Entries)
  BY DEF ReadTypeOK, Directories
<1>2. directory.file_entries[i] \in Entries
  BY <1>1
<1> QED BY <1>2 DEF Entries

LEMMA PartsGrow ==
  ASSUME ReadTypeOK, NEW p, ReadNext(p), NEW n \in Nat, n = Len(seen),
         NEW k \in 1 .. n
  PROVE  /\ volume[p].type # "name" \/ ~ IsLast(k) => PartsOf(k)' = PartsOf(k)
         /\ volume[p].type = "name" /\ IsLast(k) /\ KindAt(k).type = "file"
              => PartsOf(k)' = PartsOf(k) \cup {n + 1}
         /\ PartsOf(k) \subseteq 1 .. n
<1>1. /\ \A j \in 1 .. n : KindAt(j)' = KindAt(j)
      /\ KindAt(n + 1)' = volume[p]
  BY HistoryGrows
<1>2. /\ ~ IsFile(volume[p]) /\ IsLast(k) => Behind(k)' = Behind(k) \cup {n + 1}
      /\ IsFile(volume[p]) \/ ~ IsLast(k) => Behind(k)' = Behind(k)
  BY BehindGrows
<1>3. LongNameParts(k)' = LongNameParts(k)
  BY LongNameGrows
<1>4. /\ LongNameParts(k) \subseteq 1 .. n
      /\ Behind(k) \subseteq 1 .. n
  BY PartsAreIndexes
<1>5. PartsOf(k) \subseteq 1 .. n
  BY <1>4 DEF PartsOf
<1>6. CASE KindAt(k).type # "file"
  BY <1>1, <1>3, <1>5, <1>6 DEF PartsOf
<1>7. CASE KindAt(k).type = "file"
  <2>1. PartsOf(k) = {j \in Behind(k) : KindAt(j).type = "name"}
    BY <1>7 DEF PartsOf
  <2>2. PartsOf(k)' = {j \in Behind(k)' : KindAt(j)'.type = "name"}
    BY <1>1, <1>7 DEF PartsOf
  <2>3. volume[p].type = "name" => ~ IsFile(volume[p])
    BY FileKinds
  <2>4. \A j \in Behind(k) : KindAt(j)' = KindAt(j)
    BY <1>1, <1>4
  <2>5. Behind(k)' = Behind(k) => PartsOf(k)' = PartsOf(k)
    BY <2>1, <2>2, <2>4
  <2>6. Behind(k)' = Behind(k) \cup {n + 1} =>
          /\ volume[p].type = "name" => PartsOf(k)' = PartsOf(k) \cup {n + 1}
          /\ volume[p].type # "name" => PartsOf(k)' = PartsOf(k)
    BY <1>1, <2>1, <2>2, <2>4
  <2> QED BY <1>2, <1>5, <1>7, <2>3, <2>5, <2>6
<1> QED BY <1>6, <1>7

LEMMA DataStreamsGrow ==
  ASSUME ReadTypeOK, NEW p, ReadNext(p), NEW n \in Nat, n = Len(seen),
         NEW k \in 1 .. n
  PROVE  /\ volume[p].type # "stream" \/ ~ IsLast(k) => DataStreamsOf(k)' = DataStreamsOf(k)
         /\ volume[p].type = "stream" /\ IsLast(k)
              => DataStreamsOf(k)' = DataStreamsOf(k) \cup {p}
<1>1. /\ \A j \in 1 .. n : KindAt(j)' = KindAt(j)
      /\ \A j \in 1 .. n : seen'[j] = seen[j]
      /\ KindAt(n + 1)' = volume[p]
      /\ seen'[n + 1] = p
  BY HistoryGrows
<1>2. /\ ~ IsFile(volume[p]) /\ IsLast(k) => Behind(k)' = Behind(k) \cup {n + 1}
      /\ IsFile(volume[p]) \/ ~ IsLast(k) => Behind(k)' = Behind(k)
  BY BehindGrows
<1>3. \A j \in Behind(k) : KindAt(j)' = KindAt(j) /\ seen'[j] = seen[j]
  BY <1>1, PartsAreIndexes
<1>4. DataStreamsOf(k)' = {seen'[j] : j \in {i \in Behind(k)' : KindAt(i)'.type = "stream"}}
  BY DEF DataStreamsOf
<1>5. DataStreamsOf(k) = {seen[j] : j \in {i \in Behind(k) : KindAt(i).type = "stream"}}
  BY DEF DataStreamsOf
<1>6. volume[p].type = "stream" => ~ IsFile(volume[p])
  BY FileKinds
<1>7. Behind(k)' = Behind(k) => DataStreamsOf(k)' = DataStreamsOf(k)
  BY <1>3, <1>4, <1>5
<1>8. ASSUME Behind(k)' = Behind(k) \cup {n + 1}
      PROVE  /\ volume[p].type = "stream" => DataStreamsOf(k)' = DataStreamsOf(k) \cup {p}
             /\ volume[p].type # "stream" => DataStreamsOf(k)' = DataStreamsOf(k)
  <2>1. CASE volume[p].type = "stream"
    <3>1. {i \in Behind(k)' : KindAt(i)'.type = "stream"}
            = {i \in Behind(k) : KindAt(i).type = "stream"} \cup {n + 1}
      BY <1>1, <1>3, <1>8, <2>1
    <3> QED BY <1>1, <1>3, <1>4, <1>5, <2>1, <3>1
  <2>2. CASE volume[p].type # "stream"
    <3>1. {i \in Behind(k)' : KindAt(i)'.type = "stream"}
            = {i \in Behind(k) : KindAt(i).type = "stream"}
      BY <1>1, <1>3, <1>8, <2>2
    <3> QED BY <1>3, <1>4, <1>5, <2>2, <3>1
  <2> QED BY <2>1, <2>2
<1> QED BY <1>2, <1>6, <1>7, <1>8

(* A file entry that is not changed keeps what belongs to it, if the entry *)
(* that is read is not one of its own.                                     *)
LEMMA BelongsStays ==
  ASSUME ReadTypeOK, NEW p, ReadNext(p), NEW n \in Nat, n = Len(seen),
         NEW k \in 1 .. n, NEW i \in 1 .. Len(directory.file_entries),
         Belongs(i, k),
         volume[p].type \notin {"name", "stream"} \/ ~ IsLast(k),
         directory'.file_entries[i] = directory.file_entries[i],
         Len(directory'.file_entries)
           = Len(directory.file_entries) + (IF IsFile(volume[p]) THEN 1 ELSE 0)
  PROVE  Belongs(i, k)'
<1>1. /\ PartsOf(k)' = PartsOf(k)
      /\ DataStreamsOf(k)' = DataStreamsOf(k)
      /\ PartsOf(k) \subseteq 1 .. n
  BY PartsGrow, DataStreamsGrow
<1>2. IsLast(k)' <=> IsLast(k) /\ ~ IsFile(volume[p])
  BY BehindGrows
<1>3. /\ i = Len(directory.file_entries) <=> IsLast(k)
      /\ Lists(seen, directory.file_entries[i].names, PartsOf(k))
      /\ NamesInSequence(directory.file_entries[i].names)
      /\ DataStreamsOf(k) = {directory.file_entries[i].data} \ {None}
  BY DEF Belongs
<1>4. seen \in Seq(Int) /\ p \in Int /\ seen' = Append(seen, p)
  BY KindsOfVolume DEF ReadTypeOK, ReadNext
<1>5. directory.file_entries[i].names \in Seq(Int)
  BY FileEntryIs
<1>6. Lists(seen', directory.file_entries[i].names, PartsOf(k))
  BY <1>1, <1>3, <1>4, <1>5, ListStays
<1>7. NamesInSequence(directory.file_entries[i].names)'
  BY <1>3 DEF NamesInSequence, ReadNext
<1>8. i = Len(directory'.file_entries) <=> IsLast(k)'
  <2>1. Len(directory.file_entries) \in Nat
    BY DEF ReadTypeOK, Directories
  <2>2. i \in Nat /\ i <= Len(directory.file_entries)
    BY <2>1
  <2>3. CASE IsFile(volume[p])
    <3>1. i # Len(directory'.file_entries) /\ ~ IsLast(k)'
      BY <1>2, <2>1, <2>2, <2>3
    <3> QED BY <3>1
  <2>4. CASE ~ IsFile(volume[p])
    <3>1. Len(directory'.file_entries) = Len(directory.file_entries)
      BY <2>1, <2>4
    <3>2. IsLast(k)' <=> IsLast(k)
      BY <1>2, <2>4
    <3> QED BY <1>3, <3>1, <3>2
  <2> QED BY <2>3, <2>4
<1> QED
  BY <1>1, <1>3, <1>6, <1>7, <1>8 DEF Belongs

-----------------------------------------------------------------------------
(***************************************************************************)
(* The file entries, when an entry is read.                                *)
(***************************************************************************)

LEMMA IdentifiersAre ==
  ASSUME ReadTypeOK
  PROVE  /\ Identifiers \in Seq(Int)
         /\ Len(Identifiers) = Len(directory.file_entries)
         /\ Len(directory.file_entries) \in Nat
<1>1. directory.file_entries \in Seq(Entries)
  BY DEF ReadTypeOK, Directories
<1>2. Len(directory.file_entries) \in Nat
  BY <1>1
<1>3. \A i \in 1 .. Len(directory.file_entries) : directory.file_entries[i].identifier \in Int
  BY FileEntryIs
<1> QED
  BY <1>2, <1>3 DEF Identifiers

(* No file entry has the identifier of an entry that was not read.         *)
LEMMA IdentifiersSeen ==
  ASSUME ReadTypeOK, Listed, result # "error",
         NEW i \in 1 .. Len(directory.file_entries)
  PROVE  \E j \in 1 .. Len(seen) : directory.file_entries[i].identifier = seen[j]
<1>1. Lists(seen, Identifiers, FilesSeen)
  BY DEF Listed
<1>2. Identifiers \in Seq(Int) /\ i \in 1 .. Len(Identifiers)
  BY IdentifiersAre
<1>3. \E j \in FilesSeen : Identifiers[i] = seen[j]
  <2>1. PICK s \in Seq(Int) : s = Identifiers
    BY <1>2
  <2>2. Lists(seen, s, FilesSeen) /\ i \in 1 .. Len(s)
    BY <1>1, <1>2, <2>1
  <2>3. \E j \in FilesSeen : s[i] = seen[j]
    BY <2>2 DEF Lists, Enumerates
  <2> QED BY <2>1, <2>3
<1>4. Identifiers[i] = directory.file_entries[i].identifier
  BY DEF Identifiers
<1> QED BY <1>3, <1>4 DEF FilesSeen

(* No file entry is added.                                                 *)
LEMMA SameFileEntries ==
  ASSUME ReadTypeOK, Listed, result # "error",
         NEW p, ReadNext(p), ~ IsFile(volume[p]),
         Len(directory'.file_entries) = Len(directory.file_entries),
         \A i \in 1 .. Len(directory.file_entries) :
           directory'.file_entries[i].identifier = directory.file_entries[i].identifier,
         \A i \in 1 .. Len(directory.file_entries), k \in FilesSeen :
           Belongs(i, k) => Belongs(i, k)'
  PROVE  Listed'
<1>1. PICK n \in Nat : n = Len(seen)
  BY DEF ReadTypeOK
<1>2. /\ Lists(seen, Identifiers, FilesSeen)
      /\ \A i \in 1 .. Len(directory.file_entries) : \A k \in FilesSeen :
           directory.file_entries[i].identifier = seen[k] => Belongs(i, k)
  BY DEF Listed
<1>3. FilesSeen' = FilesSeen /\ FilesSeen \subseteq 1 .. n
  BY <1>1, FilesGrow, PartsAreIndexes
<1>4. Identifiers' = Identifiers
  BY DEF Identifiers
<1>5. seen \in Seq(Int) /\ p \in Int /\ seen' = Append(seen, p) /\ Identifiers \in Seq(Int)
  BY KindsOfVolume, IdentifiersAre DEF ReadTypeOK, ReadNext
<1>6. Lists(seen', Identifiers, FilesSeen)
  BY <1>1, <1>2, <1>3, <1>5, ListStays
<1>7. \A k \in 1 .. n : seen'[k] = seen[k]
  BY <1>1, HistoryGrows
<1>8. \A i \in 1 .. Len(directory.file_entries) : \A k \in FilesSeen :
        directory'.file_entries[i].identifier = seen'[k] => Belongs(i, k)'
  BY <1>1, <1>2, <1>3, <1>7
<1> QED
  BY <1>3, <1>4, <1>6, <1>8 DEF Listed

LEMMA AppendIs ==
  ASSUME NEW s \in Seq(Int), NEW p \in Int
  PROVE  Append(s, p) = [i \in 1 .. Len(s) + 1 |-> IF i = Len(s) + 1 THEN p ELSE s[i]]
<1> DEFINE longer == [i \in 1 .. Len(s) + 1 |-> IF i = Len(s) + 1 THEN p ELSE s[i]]
<1>1. Append(s, p) \in Seq(Int) /\ Len(Append(s, p)) = Len(s) + 1
  OBVIOUS
<1>2. longer \in Seq(Int) /\ Len(longer) = Len(s) + 1
  OBVIOUS
<1>3. \A i \in 1 .. Len(s) + 1 : Append(s, p)[i] = longer[i]
  OBVIOUS
<1> HIDE DEF longer
<1>4. Append(s, p) = longer
  BY <1>1, <1>2, <1>3, SeqEqual
<1> QED BY <1>4 DEF longer

(* A file entry is added.                                                  *)
LEMMA OneMoreFileEntry ==
  ASSUME ReadTypeOK, Listed, result # "error",
         NEW p, ReadNext(p), IsFile(volume[p]), NEW n \in Nat, n = Len(seen),
         \A j \in 1 .. Len(seen) : seen[j] # p,
         NEW entry \in Entries, entry.identifier = p,
         directory'.file_entries = Append(directory.file_entries, entry),
         Lists(seen', entry.names, PartsOf(n + 1)'),
         NamesInSequence(entry.names)',
         entry.data = None
  PROVE  Listed'
<1>1. n \in Nat /\ n = Len(seen)
  OBVIOUS
<1>a. PICK m \in Nat : m = Len(directory.file_entries)
  BY IdentifiersAre
<1>2. /\ Lists(seen, Identifiers, FilesSeen)
      /\ \A i \in 1 .. m : \A k \in FilesSeen :
           directory.file_entries[i].identifier = seen[k] => Belongs(i, k)
  BY <1>a DEF Listed
<1>3. FilesSeen' = FilesSeen \cup {n + 1} /\ FilesSeen \subseteq 1 .. n
  BY <1>1, FilesGrow, PartsAreIndexes
<1>4. directory.file_entries \in Seq(Entries)
  BY DEF ReadTypeOK, Directories
<1>5. /\ Len(directory'.file_entries) = m + 1
      /\ \A i \in 1 .. m : directory'.file_entries[i] = directory.file_entries[i]
      /\ directory'.file_entries[m + 1] = entry
      /\ 1 .. m + 1 = (1 .. m) \cup {m + 1}
  BY <1>4, <1>a
<1>6. seen \in Seq(Int) /\ p \in Int /\ seen' = Append(seen, p) /\ Identifiers \in Seq(Int)
  BY KindsOfVolume, IdentifiersAre DEF ReadTypeOK, ReadNext
<1>7. Identifiers' = Append(Identifiers, p)
  <2>1. Identifiers' = [i \in 1 .. m + 1 |-> directory'.file_entries[i].identifier]
    BY <1>5 DEF Identifiers
  <2>2. Identifiers = [i \in 1 .. m |-> directory.file_entries[i].identifier]
    BY <1>a DEF Identifiers
  <2>3. Len(Identifiers) = m
    BY <1>a, IdentifiersAre
  <2>4. Append(Identifiers, p) = [i \in 1 .. m + 1 |-> IF i = m + 1 THEN p ELSE Identifiers[i]]
    <3>1. PICK s \in Seq(Int) : s = Identifiers
      BY <1>6
    <3>2. Append(s, p) = [i \in 1 .. Len(s) + 1 |-> IF i = Len(s) + 1 THEN p ELSE s[i]]
      BY <1>6, AppendIs
    <3>3. Len(s) = m
      BY <2>3, <3>1
    <3> QED BY <3>1, <3>2, <3>3
  <2>5. \A i \in 1 .. m + 1 :
          directory'.file_entries[i].identifier = IF i = m + 1 THEN p ELSE Identifiers[i]
    <3>1. ASSUME NEW i \in 1 .. m
          PROVE  directory'.file_entries[i].identifier = Identifiers[i] /\ i # m + 1
      BY <1>5, <2>2
    <3> QED BY <1>5, <3>1
  <2> QED BY <2>1, <2>4, <2>5
<1>8. Lists(seen', Identifiers', FilesSeen')
  BY <1>1, <1>2, <1>3, <1>6, <1>7, ListGrows
<1>9. /\ \A k \in 1 .. n : seen'[k] = seen[k]
      /\ seen'[n + 1] = p
      /\ KindAt(n + 1)' = volume[p]
  BY <1>1, HistoryGrows
<1>10. ASSUME NEW i \in 1 .. m + 1, NEW k \in FilesSeen',
              directory'.file_entries[i].identifier = seen'[k]
       PROVE  Belongs(i, k)'
  <2>1. CASE i \in 1 .. m /\ k \in FilesSeen
    <3>1. Belongs(i, k) /\ k \in 1 .. n
      BY <1>2, <1>3, <1>5, <1>9, <1>10, <2>1
    <3>2. volume[p].type \notin {"name", "stream"}
      BY FileKinds
    <3>3. Len(directory'.file_entries)
            = Len(directory.file_entries) + (IF IsFile(volume[p]) THEN 1 ELSE 0)
      BY <1>5, <1>a
    <3>4. i \in 1 .. Len(directory.file_entries)
          /\ directory'.file_entries[i] = directory.file_entries[i]
      BY <1>5, <1>a, <2>1
    <3> QED BY <1>1, <3>1, <3>2, <3>3, <3>4, BelongsStays
  <2>2. CASE i \in 1 .. m /\ k = n + 1
    <3>1. PICK j \in 1 .. Len(seen) : directory.file_entries[i].identifier = seen[j]
      BY <1>a, <2>2, IdentifiersSeen
    <3> QED BY <1>5, <1>9, <1>10, <2>2, <3>1
  <2>3. CASE i = m + 1 /\ k \in FilesSeen
    <3>1. seen'[k] = p /\ k \in 1 .. Len(seen) /\ seen'[k] = seen[k]
      BY <1>1, <1>3, <1>5, <1>9, <1>10, <2>3
    <3> QED BY <3>1
  <2>4. CASE i = m + 1 /\ k = n + 1
    <3>1. Behind(n + 1)' = {} /\ IsLast(n + 1)'
      BY <1>1, NothingBehind
    <3>2. DataStreamsOf(n + 1)' = {}
      BY <3>1 DEF DataStreamsOf
    <3>3. /\ i = Len(directory'.file_entries)
          /\ Lists(seen', entry.names, PartsOf(n + 1)')
          /\ {entry.data} \ {None} = {}
      BY <1>1, <1>5, <2>4
    <3>4. Belongs(m + 1, n + 1)'
      BY <1>5, <2>4, <3>1, <3>2, <3>3 DEF Belongs
    <3> QED BY <2>4, <3>4
  <2> QED BY <1>3, <1>5, <2>1, <2>2, <2>3, <2>4
<1> QED
  BY <1>5, <1>8, <1>10 DEF Listed

(* An entry that belongs to no file entry.                                 *)
LEMMA ListedPasses ==
  ASSUME ReadTypeOK, Listed, result # "error",
         NEW p, ReadNext(p), ~ IsFile(volume[p]),
         volume[p].type \notin {"name", "stream"},
         directory'.file_entries = directory.file_entries
  PROVE  Listed'
<1>1. PICK n \in Nat : n = Len(seen)
  BY DEF ReadTypeOK
<1>2. Len(directory'.file_entries)
        = Len(directory.file_entries) + (IF IsFile(volume[p]) THEN 1 ELSE 0)
  BY IdentifiersAre
<1>3. ASSUME NEW i \in 1 .. Len(directory.file_entries), NEW k \in FilesSeen, Belongs(i, k)
      PROVE  Belongs(i, k)'
  <2>1. k \in 1 .. n
    BY <1>1, PartsAreIndexes
  <2>2. directory'.file_entries[i] = directory.file_entries[i]
    OBVIOUS
  <2> QED BY <1>1, <1>2, <1>3, <2>1, <2>2, BelongsStays
<1> QED BY <1>3, SameFileEntries

-----------------------------------------------------------------------------
(***************************************************************************)
(* The long name that is being read, when an entry is read.                *)
(***************************************************************************)

LEMMA LatestNameGrows ==
  ASSUME ReadTypeOK, NEW p, ReadNext(p)
  PROVE  /\ IsFile(volume[p]) => LatestName' = {}
         /\ ~ IsFile(volume[p]) /\ ~ IsLong(volume[p]) => LatestName' = LatestName
         /\ ~ IsFile(volume[p]) /\ IsLong(volume[p]) /\ volume[p].last
              => LatestName' = {Len(seen) + 1}
         /\ ~ IsFile(volume[p]) /\ IsLong(volume[p]) /\ ~ volume[p].last
              => LatestName' = LatestName \cup {Len(seen) + 1}
         /\ LatestName \subseteq 1 .. Len(seen)
<1>1. PICK n \in Nat : n = Len(seen)
  BY DEF ReadTypeOK
<1>2. Len(seen)' = n + 1
  BY <1>1, HistoryGrows
<1>3. LatestName = LongNameParts(n + 1)
  BY <1>1 DEF LatestName
<1>4. LatestName' = LongNameParts(n + 2)'
  BY <1>2 DEF LatestName, LongNameParts, Before
<1>5. LongNameParts(n + 1) \subseteq 1 .. n
  BY PartsAreIndexes
<1>6. /\ IsFile(volume[p]) => LongNameParts(n + 2)' = {}
      /\ ~ IsFile(volume[p]) /\ ~ IsLong(volume[p])
           => LongNameParts(n + 2)' = LongNameParts(n + 1)
      /\ ~ IsFile(volume[p]) /\ IsLong(volume[p]) /\ volume[p].last
           => LongNameParts(n + 2)' = {n + 1}
      /\ ~ IsFile(volume[p]) /\ IsLong(volume[p]) /\ ~ volume[p].last
           => LongNameParts(n + 2)' = LongNameParts(n + 1) \cup {n + 1}
  BY <1>1, LongNameGrows
<1> QED BY <1>1, <1>3, <1>4, <1>5, <1>6

NumberRemembered ==
  NameHeld # <<>> => last_vfat_sequence_number = volume[NameHeld[Len(NameHeld)]].seq

LEMMA HoldsNameIs ==
  ASSUME ReadTypeOK, HoldsName, step # "done"
  PROVE  /\ Lists(seen, NameHeld, LatestName)
         /\ NamesInSequence(NameHeld)
         /\ \A i \in 1 .. Len(NameHeld) : NameHeld[i] \in Places /\ IsLong(volume[NameHeld[i]])
         /\ NumberRemembered
         /\ NameHeld \in Seq(Int)
<1>1. NameHeld \in Seq(Int)
  BY DEF ReadTypeOK, NameHeld
<1> QED BY <1>1 DEF HoldsName, NumberRemembered

(* A part of a long name is no file entry.                                 *)
LEMMA NamePasses ==
  ASSUME ReadTypeOK, HoldsName, step # "done",
         NEW p, ReadNext(p), ~ IsFile(volume[p]), ~ IsLong(volume[p]),
         UNCHANGED name_fields
  PROVE  HoldsName'
<1>1. NameHeld' = NameHeld /\ last_vfat_sequence_number' = last_vfat_sequence_number
  BY DEF NameHeld, name_fields, NoArray
<1>2. LatestName' = LatestName /\ LatestName \subseteq 1 .. Len(seen)
  BY LatestNameGrows
<1>3. seen \in Seq(Int) /\ p \in Int /\ seen' = Append(seen, p) /\ volume' = volume
  BY KindsOfVolume DEF ReadTypeOK, ReadNext
<1>4. Lists(seen', NameHeld, LatestName)
  BY <1>2, <1>3, HoldsNameIs, ListStays
<1> QED
  BY <1>1, <1>2, <1>3, <1>4, HoldsNameIs DEF HoldsName, NumberRemembered, NamesInSequence

(* A name that has been taken.                                             *)
LEMMA NameTaken ==
  ASSUME ReadTypeOK, NEW p, ReadNext(p), IsFile(volume[p]), NameHeld' = <<>>
  PROVE  HoldsName'
<1>1. LatestName' = {}
  BY LatestNameGrows
<1>2. Lists(seen', <<>>, {})
  BY ListsNothing
<1>3. Lists(seen', NameHeld', LatestName')
  BY <1>1, <1>2
<1>4. NamesInSequence(NameHeld)'
  BY DEF NamesInSequence
<1> QED BY <1>3, <1>4 DEF HoldsName

(* exFAT has no such names.                                                *)
LEMMA ExfatHoldsNoName ==
  ASSUME ReadTypeOK, HoldsName, step # "done", IsExfat(volume)
  PROVE  NameHeld = <<>>
<1>1. \A i \in 1 .. Len(NameHeld) : NameHeld[i] \in Places /\ IsLong(volume[NameHeld[i]])
  BY HoldsNameIs
<1>2. \A q \in Places : ~ IsLong(volume[q])
  BY FormatKnown DEF IsLong
<1>3. Len(NameHeld) = 0
  BY <1>1, <1>2, HoldsNameIs
<1> QED BY <1>3, HoldsNameIs

LEMMA NamedEntry ==
  ASSUME ReadTypeOK, NEW p \in Places, NEW s \in Seq(Int), s # <<>>, NEW q, q = Append(s, p)
  PROVE  /\ q \in Seq(Int) /\ Len(q) = Len(s) + 1 /\ q # <<>> /\ q # NoArray
         /\ q[Len(q)] = p
         /\ q[1] = s[1]
         /\ \A i \in 1 .. Len(s) : q[i] = s[i]
<1>1. p \in Int /\ Len(s) \in Nat /\ Len(s) # 0
  BY DEF Places
<1>2. q \in Seq(Int) /\ Len(q) = Len(s) + 1
  BY <1>1
<1>3. q[Len(q)] = p /\ q[1] = s[1] /\ \A i \in 1 .. Len(s) : q[i] = s[i]
  BY <1>1
<1>4. Len(NoArray) = 1
  BY DEF NoArray
<1> QED BY <1>1, <1>2, <1>3, <1>4

LEMMA NameStarts ==
  ASSUME ReadTypeOK, NEW p, ReadNext(p), IsLong(volume[p]), volume[p].last,
         name_entries_array' = <<p>>,
         last_vfat_sequence_number' = volume[p].seq
  PROVE  HoldsName'
<1>1. ~ IsFile(volume[p])
  BY FileKinds DEF IsLong
<1>2. LatestName' = {Len(seen) + 1}
  BY <1>1, LatestNameGrows
<1>3. seen \in Seq(Int) /\ p \in Int /\ p \in Places /\ seen' = Append(seen, p) /\ volume' = volume
  BY KindsOfVolume DEF ReadTypeOK, ReadNext
<1>4. p # None
  BY <1>3, SizesAreNumbers DEF Places, None
<1>5. NameHeld' = <<p>>
  BY <1>4 DEF NameHeld, NoArray
<1>6. Lists(seen, <<>>, {})
  BY ListsNothing
<1>7. Append(<<>>, p) = <<p>> /\ {} \cup {Len(seen) + 1} = {Len(seen) + 1}
      /\ <<>> \in Seq(Int) /\ {} \subseteq 1 .. Len(seen)
  OBVIOUS
<1>8. Lists(Append(seen, p), Append(<<>>, p), {Len(seen) + 1})
  BY <1>3, <1>6, <1>7, ListGrows
<1>9. Lists(seen', NameHeld', LatestName')
  BY <1>2, <1>3, <1>5, <1>7, <1>8
<1>10. Len(<<p>>) = 1 /\ <<p>>[1] = p /\ 1 .. 1 = {1} /\ DOMAIN <<p>> = {1}
  OBVIOUS
<1>11. volume[p].seq \in Int
  BY <1>3, KindsOfVolume
<1>12. NamesInSequence(NameHeld)'
  BY <1>3, <1>5, <1>10, <1>11 DEF NamesInSequence
<1>13. \A i \in 1 .. Len(NameHeld') : NameHeld'[i] \in Places /\ IsLong(volume'[NameHeld'[i]])
  BY <1>3, <1>5, <1>10
<1>14. last_vfat_sequence_number' = volume'[NameHeld'[Len(NameHeld')]].seq
  BY <1>3, <1>5, <1>10
<1> QED BY <1>9, <1>12, <1>13, <1>14 DEF HoldsName, IsLong

LEMMA NameGoesOn ==
  ASSUME ReadTypeOK, HoldsName, step # "done",
         NEW p, ReadNext(p), IsLong(volume[p]), ~ volume[p].last,
         volume[p].seq + 1 = last_vfat_sequence_number,
         name_entries_array # NoArray,
         name_entries_array' = Append(name_entries_array, p),
         last_vfat_sequence_number' = volume[p].seq
  PROVE  HoldsName'
<1>1. ~ IsFile(volume[p])
  BY FileKinds DEF IsLong
<1>2. LatestName' = LatestName \cup {Len(seen) + 1} /\ LatestName \subseteq 1 .. Len(seen)
  BY <1>1, LatestNameGrows
<1>3. seen \in Seq(Int) /\ p \in Int /\ p \in Places /\ seen' = Append(seen, p) /\ volume' = volume
  BY KindsOfVolume DEF ReadTypeOK, ReadNext
<1>4. PICK s \in Seq(Int) : s = name_entries_array /\ s # <<>>
  BY DEF ReadTypeOK
<1>5. PICK q : q = Append(s, p)
  OBVIOUS
<1>6. /\ q \in Seq(Int) /\ Len(q) = Len(s) + 1 /\ q # <<>> /\ q # NoArray
      /\ q[Len(q)] = p
      /\ q[1] = s[1]
      /\ \A i \in 1 .. Len(s) : q[i] = s[i]
  BY SMTT(30), <1>3, <1>4, <1>5, NamedEntry
<1>7. NameHeld = s /\ NameHeld' = q
  BY <1>4, <1>5, <1>6 DEF NameHeld, NoArray
<1>8. /\ Lists(seen, s, LatestName)
      /\ NamesInSequence(s)
      /\ \A i \in 1 .. Len(s) : s[i] \in Places /\ IsLong(volume[s[i]])
      /\ last_vfat_sequence_number = volume[s[Len(s)]].seq
  BY <1>4, <1>7, HoldsNameIs DEF NumberRemembered
<1>9. Lists(seen', q, LatestName')
  BY <1>2, <1>3, <1>4, <1>5, <1>8, ListGrows
<1>10. DOMAIN s = 1 .. Len(s) /\ DOMAIN q = 1 .. Len(s) + 1
       /\ 1 .. Len(s) + 1 = (1 .. Len(s)) \cup {Len(s) + 1}
       /\ Len(s) \in Nat /\ Len(s) # 0
  BY <1>4, <1>6
<1>a. s[1] \in Places /\ s[Len(s)] \in Places
  BY <1>8, <1>10
<1>11. PICK first \in Nat : first = volume[s[1]].seq
  BY <1>a, KindsOfVolume
<1>b. PICK seq \in Nat : seq = volume[p].seq
  BY <1>3, KindsOfVolume
<1>12. \A i \in 1 .. Len(s) : volume[s[i]].seq = first - (i - 1)
  BY <1>8, <1>10, <1>11 DEF NamesInSequence
<1>13. seq = first - (Len(s) + 1 - 1)
  <2>1. volume[s[Len(s)]].seq = first - (Len(s) - 1)
    BY <1>10, <1>12
  <2>2. seq + 1 = first - (Len(s) - 1)
    BY <1>8, <1>b, <2>1
  <2>3. PICK m \in Nat : m = Len(s)
    BY <1>10
  <2>4. seq \in Int /\ first \in Int /\ seq + 1 = first - (m - 1)
    BY <2>2, <2>3
  <2>5. seq = first - (m + 1 - 1)
    BY <2>4
  <2> QED BY <2>3, <2>5
<1>14. \A i \in 1 .. Len(s) : volume[q[i]].seq = first - (i - 1)
  BY <1>6, <1>12
<1>15. \A i \in 1 .. Len(s) + 1 : volume[q[i]].seq = first - (i - 1)
  <2>1. volume[q[Len(s) + 1]].seq = first - (Len(s) + 1 - 1)
    BY <1>6, <1>b, <1>13
  <2>2. \A i \in 1 .. Len(s) + 1 : i \in 1 .. Len(s) \/ i = Len(s) + 1
    BY <1>10
  <2>3. ASSUME NEW i \in 1 .. Len(s) + 1 PROVE volume[q[i]].seq = first - (i - 1)
    BY <1>14, <2>1, <2>2
  <2> QED BY <2>3
<1>16. NamesInSequence(NameHeld)'
  BY <1>3, <1>6, <1>7, <1>10, <1>11, <1>15 DEF NamesInSequence
<1>17. \A i \in 1 .. Len(q) : q[i] \in Places /\ IsLong(volume[q[i]])
  BY <1>3, <1>6, <1>8, <1>10
<1> QED BY <1>3, <1>6, <1>7, <1>9, <1>16, <1>17 DEF HoldsName, IsLong

-----------------------------------------------------------------------------
(***************************************************************************)
(* The steps.                                                              *)
(***************************************************************************)

LEMMA DirectoryIs ==
  ASSUME ReadTypeOK
  PROVE  /\ directory \in Directories
         /\ EmptyDirectory \in Directories
         /\ directory.entries \in Seq(Int)
         /\ directory.file_entries \in Seq(Entries)
         /\ \A p \in Int : Append(directory.entries, p) \in Seq(Int)
BY DEF ReadTypeOK, Directories, EmptyDirectory, None

LEMMA PlacesSeen ==
  ASSUME ReadInv, seen' = seen \/ (Reading /\ seen' = Append(seen, position))
  PROVE  \A j \in 1 .. Len(seen') : seen'[j] \in Places
<1>1. CASE seen' = seen
  BY <1>1 DEF ReadInv
<1>2. CASE Reading /\ seen' = Append(seen, position)
  <2>1. position \in Places /\ seen \in Seq(Int) /\ position \in Int
    BY <1>2, EntryIsNew DEF ReadInv, ReadTypeOK
  <2>2. \A j \in 1 .. Len(seen') :
          (j \in 1 .. Len(seen) /\ seen'[j] = seen[j]) \/ seen'[j] = position
    BY <1>2, <2>1
  <2> QED BY <2>1, <2>2 DEF ReadInv
<1> QED BY <1>1, <1>2

(* The function returns without a directory.                               *)
LEMMA Fails ==
  ASSUME ReadInv, Return("error"),
         seen' = seen \/ (Reading /\ seen' = Append(seen, position))
  PROVE  ReadInv'
<1>1. ReadTypeOK
  BY DEF ReadInv
<1>2. seen' \in Seq(Int)
  <2>1. seen \in Seq(Int) /\ position \in Int
    BY <1>1 DEF ReadTypeOK
  <2>2. Append(seen, position) \in Seq(Int)
    BY <2>1
  <2> QED BY <2>1, <2>2
<1>3. NoArray \in Seq(Int) \ {<<>>}
  BY DEF NoArray, None
<1>4. ReadTypeOK'
  BY <1>1, <1>2, <1>3, DirectoryIs
  DEF ReadTypeOK, Return, inputs, chain_fields, exfat_fields
<1>5. Accounted' /\ Listed' /\ HoldsName' /\ HoldsFile' /\ result' # "directory"
  BY DEF Return, Accounted, Listed, HoldsName, HoldsFile
<1>6. \A j \in 1 .. Len(seen') : seen'[j] \in Places
  BY <1>1, PlacesSeen DEF ReadInv
<1> QED BY <1>4, <1>5, <1>6 DEF ReadInv

(* The function returns the directory.                                     *)
LEMMA Finishes ==
  ASSUME ReadInv, Return("directory"), Listed', ReadToTheEnd',
         seen' = seen \/ (Reading /\ seen' = Append(seen, position))
  PROVE  ReadInv'
<1>1. ReadTypeOK
  BY DEF ReadInv
<1>2. seen' \in Seq(Int)
  <2>1. seen \in Seq(Int) /\ position \in Int
    BY <1>1 DEF ReadTypeOK
  <2>2. Append(seen, position) \in Seq(Int)
    BY <2>1
  <2> QED BY <2>1, <2>2
<1>3. NoArray \in Seq(Int) \ {<<>>}
  BY DEF NoArray, None
<1>4. ReadTypeOK'
  BY <1>1, <1>2, <1>3, DirectoryIs
  DEF ReadTypeOK, Return, inputs, chain_fields, exfat_fields
<1>5. Accounted' /\ HoldsName' /\ HoldsFile'
  BY DEF Return, Accounted, HoldsName, HoldsFile
<1>6. \A j \in 1 .. Len(seen') : seen'[j] \in Places
  BY <1>1, PlacesSeen DEF ReadInv
<1> QED BY <1>4, <1>5, <1>6 DEF ReadInv

LEMMA SameList ==
  ASSUME Listed, result # "error", UNCHANGED <<method, volume, directory, seen>>
  PROVE  Listed'
<1>1. \A k : KindAt(k)' = KindAt(k)
  BY DEF KindAt
<1>2. \A kind : /\ IsFile(kind)' <=> IsFile(kind)
                /\ IsLong(kind)' <=> IsLong(kind)
  BY DEF IsFile, IsShortName, IsLabel, IsLong
<1>3. \A k : IsFile(KindAt(k))' <=> IsFile(KindAt(k))
  BY <1>1 DEF IsFile, IsShortName, IsLabel
<1>4. FilesSeen' = FilesSeen /\ Identifiers' = Identifiers
  BY <1>3 DEF FilesSeen, Identifiers
<1>5. ASSUME NEW k, NEW i, Belongs(i, k)
      PROVE  Belongs(i, k)'
  <2>1. Behind(k)' = Behind(k) /\ Before(k)' = Before(k) /\ (IsLast(k)' <=> IsLast(k))
    BY <1>3 DEF Behind, Before, IsLast
  <2>2. LongNameParts(k)' = LongNameParts(k)
    BY <1>1, <2>1 DEF LongNameParts, IsLong
  <2>3. PartsOf(k)' = PartsOf(k)
    BY <1>1, <2>1, <2>2 DEF PartsOf
  <2>4. DataStreamsOf(k)' = DataStreamsOf(k)
    BY <1>1, <2>1 DEF DataStreamsOf
  <2>5. NamesInSequence(directory.file_entries[i].names)
          => NamesInSequence(directory.file_entries[i].names)'
    BY DEF NamesInSequence, IsLong
  <2> QED BY <1>5, <2>1, <2>3, <2>4, <2>5 DEF Belongs
<1> QED BY <1>4, <1>5 DEF Listed

LEMMA SameName ==
  ASSUME HoldsName, step # "done", UNCHANGED <<method, volume, name_fields, seen>>
  PROVE  HoldsName'
BY DEF HoldsName, NameHeld, LatestName, LongNameParts, Before, NamesInSequence, KindAt, IsFile,
       IsShortName, IsLabel, IsLong, name_fields, NoArray

LEMMA SameFile ==
  ASSUME HoldsFile, step # "done", UNCHANGED <<volume, exfat_fields>>,
         directory'.file_entries = directory.file_entries
  PROVE  HoldsFile'
BY DEF HoldsFile, exfat_fields, IsFat, IsExfat

(* The loop over the chain.                                                *)
LEMMA Enters == ReadInv /\ EnterCluster => ReadInv'
<1> SUFFICES ASSUME ReadInv, EnterCluster PROVE ReadInv'
  OBVIOUS
<1>0. ReadTypeOK /\ Accounted /\ Listed /\ HoldsName /\ HoldsFile /\ result = "running"
  BY DEF ReadInv, ReadTypeOK, EnterCluster
<1>1. /\ step = "cluster" /\ InChain
      /\ cluster_number \notin cluster_block_tree
      /\ cluster_block_tree' = cluster_block_tree \cup {cluster_number}
      /\ position' = ClusterStart(cluster_number)
      /\ end_position' = ClusterStart(cluster_number) + EntriesPerCluster
      /\ step' = "entry"
      /\ UNCHANGED <<method, volume, allocation_table, cluster_number, name_fields,
                     exfat_fields, directory, result, seen>>
  BY DEF EnterCluster, inputs
<1>2. method = "chain" /\ ChainAccounted
  BY <1>0, <1>1 DEF Accounted, RangeAccounted, ReadTypeOK
<1>3. /\ cluster_number \in Nat /\ cluster_block_tree \subseteq Nat
      /\ IsFiniteSet(cluster_block_tree)
      /\ EntriesPerCluster \in Nat /\ EntriesPerCluster > 0
      /\ ClusterStart(cluster_number) \in Int
  BY <1>0, SizesAreNumbers DEF ReadTypeOK, ClusterStart, FirstCluster
<1>4. /\ IsFiniteSet(cluster_block_tree')
      /\ Cardinality(cluster_block_tree') = Cardinality(cluster_block_tree) + 1
      /\ Cardinality(cluster_block_tree) \in Nat
  BY <1>1, <1>3, FS_AddElement, FS_CardinalityType
<1>5. EntriesPerCluster * (Cardinality(cluster_block_tree) + 1)
        = EntriesPerCluster * Cardinality(cluster_block_tree) + EntriesPerCluster
  BY <1>3, <1>4
<1>6. Len(seen) = EntriesPerCluster * Cardinality(cluster_block_tree) /\ Len(seen) \in Nat
  BY <1>0, <1>1, <1>2 DEF ChainAccounted, ReadTypeOK
<1>7. Len(seen) + (end_position' - position')
        = EntriesPerCluster * Cardinality(cluster_block_tree')
  BY <1>1, <1>3, <1>4, <1>5, <1>6
<1>8. \A j \in 1 .. Len(seen) :
        \E cluster \in cluster_block_tree' :
          InCluster(seen[j], cluster) /\ cluster # cluster_number
  BY <1>1, <1>2 DEF ChainAccounted
<1>9. ChainAccounted'
  BY SMTT(30), <1>1, <1>3, <1>7, <1>8 DEF ChainAccounted, InChain, InCluster, ClusterStart
<1>10. Accounted'
  BY <1>1, <1>2, <1>9 DEF Accounted
<1>11. ReadTypeOK'
  BY <1>0, <1>1, <1>3, <1>4 DEF ReadTypeOK, name_fields, exfat_fields
<1>12. Listed'
  BY <1>0, <1>1, SameList
<1>13. HoldsName'
  BY <1>0, <1>1, SameName
<1>14. HoldsFile'
  BY <1>0, <1>1, SameFile
<1> QED BY <1>0, <1>1, <1>10, <1>11, <1>12, <1>13, <1>14 DEF ReadInv

LEMMA GoesToNext == ReadInv /\ NextCluster => ReadInv'
<1> SUFFICES ASSUME ReadInv, NextCluster PROVE ReadInv'
  OBVIOUS
<1>0. ReadTypeOK /\ Accounted /\ Listed /\ HoldsName /\ HoldsFile /\ result = "running"
  BY DEF ReadInv, ReadTypeOK, NextCluster
<1>1. /\ step = "entry" /\ position = end_position /\ method = "chain"
      /\ cluster_number < NumberOfClusters
      /\ cluster_number' = allocation_table[cluster_number]
      /\ step' = "cluster"
      /\ UNCHANGED <<method, volume, allocation_table, cluster_block_tree, position,
                     end_position, name_fields, exfat_fields, directory, result, seen>>
  BY DEF NextCluster, inputs
<1>2. ChainAccounted
  BY <1>0, <1>1 DEF Accounted
<1>3. cluster_number' \in Nat
  BY <1>0, <1>1, DirectoryReadAssumption DEF ReadTypeOK
<1>4. Len(seen) = EntriesPerCluster * Cardinality(cluster_block_tree)
  <2>1. Len(seen) + (end_position - position)
          = EntriesPerCluster * Cardinality(cluster_block_tree)
    BY <1>1, <1>2 DEF ChainAccounted
  <2>2. Len(seen) \in Nat /\ end_position - position = 0
    BY <1>0, <1>1 DEF ReadTypeOK
  <2> QED BY <2>1, <2>2
<1>5. \A j \in 1 .. Len(seen) : \E cluster \in cluster_block_tree : InCluster(seen[j], cluster)
  BY <1>2 DEF ChainAccounted
<1>6. ChainAccounted'
  BY <1>1, <1>4, <1>5 DEF ChainAccounted, InCluster, ClusterStart
<1>7. Accounted'
  BY <1>1, <1>6 DEF Accounted
<1>8. ReadTypeOK'
  BY <1>0, <1>1, <1>3 DEF ReadTypeOK, name_fields, exfat_fields
<1>9. Listed' /\ HoldsName' /\ HoldsFile'
  BY <1>0, <1>1, SameList, SameName, SameFile
<1> QED BY <1>0, <1>1, <1>7, <1>8, <1>9 DEF ReadInv

LEMMA Leaves == ReadInv /\ (LeaveChain \/ LeaveRange) => ReadInv'
<1> SUFFICES ASSUME ReadInv, LeaveChain \/ LeaveRange PROVE ReadInv'
  OBVIOUS
<1>0. ReadTypeOK /\ Accounted /\ Listed /\ result = "running"
  BY DEF ReadInv, ReadTypeOK, LeaveChain, LeaveRange
<1>1. /\ Return("directory") /\ seen' = seen
      /\ UNCHANGED <<method, volume, cluster_number, cluster_block_tree, directory>>
  BY DEF LeaveChain, LeaveRange, Return, inputs, chain_fields
<1>2. Listed'
  BY <1>0, <1>1, SameList
<1>3. CASE LeaveChain
  <2>1. step = "cluster" /\ ~ InChain
    BY <1>3 DEF LeaveChain
  <2>2. method = "chain" /\ ChainAccounted
    BY <1>0, <2>1 DEF Accounted, RangeAccounted, ReadTypeOK
  <2>3. Len(seen) = EntriesPerCluster * Cardinality(cluster_block_tree)
    BY <2>1, <2>2 DEF ChainAccounted
  <2>4. ReadToTheEnd'
    BY <1>1, <2>1, <2>2, <2>3 DEF ReadToTheEnd, InChain
  <2> QED BY <1>1, <1>2, <2>4, Finishes
<1>4. CASE LeaveRange
  <2>1. step = "entry" /\ position = end_position /\ method = "range"
    BY <1>4 DEF LeaveRange
  <2>2. Len(seen) = RangeSize
    BY <1>0, <2>1 DEF Accounted, RangeAccounted
  <2>3. ReadToTheEnd'
    BY <1>1, <2>1, <2>2 DEF ReadToTheEnd
  <2> QED BY <1>1, <1>2, <2>3, Finishes
<1> QED BY <1>3, <1>4

-----------------------------------------------------------------------------
(***************************************************************************)
(* The entries.                                                            *)
(***************************************************************************)

LEMMA EntryRead ==
  ASSUME ReadInv, Reading, seen' = Append(seen, position), UNCHANGED <<method, volume>>
  PROVE  /\ ReadTypeOK /\ Accounted /\ Listed /\ HoldsName /\ HoldsFile
         /\ result = "running" /\ step = "entry"
         /\ ReadNext(position)
         /\ position \in Places /\ position \in Int /\ position # None
         /\ \A j \in 1 .. Len(seen) : seen[j] # position /\ seen[j] \in Places
         /\ seen \in Seq(Int) /\ seen' \in Seq(Int)
         /\ volume[position] \in Kinds
<1>1. ReadTypeOK /\ Accounted /\ Listed /\ HoldsName /\ HoldsFile /\ step = "entry"
  BY DEF ReadInv, Reading
<1>2. result = "running" /\ seen \in Seq(Int)
  BY <1>1 DEF ReadTypeOK
<1>3. position \in Nat /\ position \in Places /\ \A j \in 1 .. Len(seen) : seen[j] # position
  BY <1>1, EntryIsNew
<1>4. ReadNext(position) /\ position # None
  BY <1>3 DEF ReadNext, None
<1>5. volume[position] \in Kinds
  BY <1>1, <1>3, KindsOfVolume
<1>6. seen' \in Seq(Int)
  BY <1>2, <1>3
<1> QED BY <1>1, <1>2, <1>3, <1>4, <1>5, <1>6 DEF ReadInv

(* The loop goes on behind an entry.                                       *)
LEMMA GoesOn ==
  ASSUME ReadInv, Reading,
         seen' = Append(seen, position),
         position' = position + 1,
         UNCHANGED <<inputs, chain_fields, step, result>>,
         directory' \in Directories,
         name_entries_array' \in Seq(Int) \ {<<>>},
         last_vfat_sequence_number' \in Int,
         current_file_entry' \in Nat,
         data_stream_entry' \in Int,
         Listed', HoldsName', HoldsFile'
  PROVE  ReadInv'
<1>1. UNCHANGED <<method, volume, allocation_table, cluster_number, cluster_block_tree,
                  end_position, step, result>>
  BY DEF inputs, chain_fields
<1>2. ReadTypeOK /\ Accounted /\ result = "running" /\ step = "entry"
      /\ position \in Int /\ seen' \in Seq(Int)
  BY <1>1, EntryRead
<1>3. ReadTypeOK'
  BY <1>1, <1>2 DEF ReadTypeOK
<1>4. Accounted'
  BY <1>1, <1>2, AccountedGoesOn
<1>5. \A j \in 1 .. Len(seen') : seen'[j] \in Places
  BY PlacesSeen
<1> QED BY <1>1, <1>2, <1>3, <1>4, <1>5 DEF ReadInv

(* An entry that belongs to no file entry.                                 *)
LEMMA Passes ==
  ASSUME ReadInv, Reading,
         seen' = Append(seen, position),
         position' = position + 1,
         UNCHANGED <<inputs, chain_fields, step, result, name_fields, exfat_fields>>,
         ~ IsFile(volume[position]), ~ IsLong(volume[position]),
         volume[position].type \notin {"name", "stream"},
         directory' \in Directories,
         directory'.file_entries = directory.file_entries
  PROVE  ReadInv'
<1>1. UNCHANGED <<method, volume>>
  BY DEF inputs
<1>2. /\ ReadTypeOK /\ Listed /\ HoldsName /\ HoldsFile
      /\ result = "running" /\ step = "entry"
      /\ ReadNext(position)
  BY <1>1, EntryRead
<1>3. Listed'
  BY <1>2, ListedPasses
<1>4. HoldsName'
  BY <1>2, NamePasses
<1>5. HoldsFile'
  BY <1>1, <1>2, SameFile
<1>6. /\ name_entries_array' \in Seq(Int) \ {<<>>}
      /\ last_vfat_sequence_number' \in Int
      /\ current_file_entry' \in Nat
      /\ data_stream_entry' \in Int
  BY <1>2 DEF ReadTypeOK, name_fields, exfat_fields
<1> QED BY <1>3, <1>4, <1>5, <1>6, GoesOn

(* The directory with an entry more.                                       *)
LEMMA EntryKept ==
  ASSUME NEW changed \in Directories, NEW p \in Int
  PROVE  /\ [changed EXCEPT !.entries = Append(@, p)] \in Directories
         /\ [changed EXCEPT !.entries = Append(@, p)].file_entries = changed.file_entries
<1>1. changed.entries \in Seq(Int)
  BY DEF Directories
<1>2. Append(changed.entries, p) \in Seq(Int)
  BY <1>1
<1> QED BY <1>2 DEF Directories

LEMMA Keeps ==
  ASSUME ReadInv, Reading, NEW changed \in Directories, Keep(changed)
  PROVE  /\ seen' = Append(seen, position)
         /\ position' = position + 1
         /\ UNCHANGED <<inputs, chain_fields, step, result, method, volume>>
         /\ directory' \in Directories
         /\ directory'.file_entries = changed.file_entries
<1>1. position \in Int
  BY DEF ReadInv, ReadTypeOK
<1>2. directory' = [changed EXCEPT !.entries = Append(@, position)]
  BY DEF Keep
<1>3. directory' \in Directories /\ directory'.file_entries = changed.file_entries
  BY <1>1, <1>2, EntryKept
<1> QED BY <1>3 DEF Keep, inputs

LEMMA FailsReading ==
  ASSUME ReadInv, Reading, FailEntry
  PROVE  ReadInv'
BY Fails DEF FailEntry

LEMMA TerminatorRead == ReadInv /\ ReadTerminator => ReadInv'
<1> SUFFICES ASSUME ReadInv, ReadTerminator PROVE ReadInv'
  OBVIOUS
<1>1. /\ Reading /\ volume[position].type = "terminator"
      /\ seen' = Append(seen, position) /\ Return("directory")
      /\ UNCHANGED <<method, volume, directory>>
  BY DEF ReadTerminator, Kind, Return, inputs
<1>2. /\ ReadTypeOK /\ Listed /\ result = "running" /\ ReadNext(position)
      /\ seen \in Seq(Int)
  BY <1>1, EntryRead
<1>3. ~ IsFile(volume[position])
  BY <1>1, FileKinds
<1>4. Listed'
  BY <1>1, <1>2, <1>3, ListedPasses
<1>5. ReadToTheEnd'
  <2>1. PICK n \in Nat : n = Len(seen)
    BY <1>2
  <2>2. Len(seen)' = n + 1 /\ KindAt(n + 1)' = volume[position]
    BY <1>2, <2>1, HistoryGrows
  <2>3. Len(seen') > 0 /\ volume'[seen'[Len(seen')]].type = "terminator"
    BY <1>1, <2>2 DEF KindAt
  <2> QED BY <2>3 DEF ReadToTheEnd, KindAt
<1> QED BY <1>1, <1>4, <1>5, Finishes

LEMMA UnallocatedRead == ReadInv /\ ReadUnallocated => ReadInv'
<1> SUFFICES ASSUME ReadInv, ReadUnallocated PROVE ReadInv'
  OBVIOUS
<1>1. /\ Reading /\ volume[position].type = "unallocated"
      /\ seen' = Append(seen, position) /\ position' = position + 1
      /\ UNCHANGED <<inputs, chain_fields, step, result, name_fields, exfat_fields, directory>>
  BY DEF ReadUnallocated, Kind
<1>2. ~ IsFile(volume[position]) /\ ~ IsLong(volume[position])
  BY <1>1, FileKinds DEF IsLong
<1>3. directory' \in Directories
  BY <1>1, DirectoryIs DEF ReadInv
<1> QED BY <1>1, <1>2, <1>3, Passes

LEMMA OtherEntryRead ==
  ReadInv /\ (ReadSelf \/ ReadParent \/ ReadLabel \/ ReadOther) => ReadInv'
<1> SUFFICES ASSUME ReadInv, ReadSelf \/ ReadParent \/ ReadLabel \/ ReadOther
             PROVE  ReadInv'
  OBVIOUS
<1>1. Reading
  BY DEF ReadSelf, ReadParent, ReadLabel, ReadOther
<1>2. /\ ~ IsFile(volume[position]) /\ ~ IsLong(volume[position])
      /\ volume[position].type \notin {"name", "stream"}
  BY DEF ReadSelf, ReadParent, ReadLabel, ReadOther, Kind, IsFile, IsShortName, IsLabel, IsLong,
         ShortTypes
<1>3. CASE FailEntry
  BY <1>1, <1>3, FailsReading
<1>4. ASSUME NEW changed \in Directories, changed.file_entries = directory.file_entries,
             Keep(changed), UNCHANGED <<name_fields, exfat_fields>>
      PROVE  ReadInv'
  <2>1. /\ seen' = Append(seen, position)
        /\ position' = position + 1
        /\ UNCHANGED <<inputs, chain_fields, step, result>>
        /\ directory' \in Directories
        /\ directory'.file_entries = changed.file_entries
    BY <1>1, <1>4, Keeps
  <2> QED BY <1>1, <1>2, <1>4, <2>1, Passes
<1>5. directory \in Directories /\ position \in Int
  BY DEF ReadInv, ReadTypeOK
<1>6. ASSUME NEW changed, Keep(changed), UNCHANGED <<name_fields, exfat_fields>>,
             \/ changed = directory
             \/ changed = [directory EXCEPT !.self_entry = position]
             \/ changed = [directory EXCEPT !.parent_entry = position]
             \/ changed = [directory EXCEPT !.volume_label_entry = position]
      PROVE  ReadInv'
  <2>1. changed \in Directories /\ changed.file_entries = directory.file_entries
    BY <1>5, <1>6 DEF Directories
  <2> QED BY <1>4, <1>6, <2>1
<1>7. CASE ReadSelf
  <2>1. CASE directory.self_entry # None
    BY <1>3, <1>7, <2>1 DEF ReadSelf
  <2>2. CASE directory.self_entry = None
    BY <1>6, <1>7, <2>2 DEF ReadSelf
  <2> QED BY <2>1, <2>2
<1>8. CASE ReadParent
  <2>1. CASE directory.parent_entry # None
    BY <1>3, <1>8, <2>1 DEF ReadParent
  <2>2. CASE directory.parent_entry = None
    BY <1>6, <1>8, <2>2 DEF ReadParent
  <2> QED BY <2>1, <2>2
<1>9. CASE ReadLabel
  <2>1. CASE directory.volume_label_entry # None
    BY <1>3, <1>9, <2>1 DEF ReadLabel
  <2>2. CASE directory.volume_label_entry = None
    BY <1>6, <1>9, <2>2 DEF ReadLabel
  <2> QED BY <2>1, <2>2
<1>10. CASE ReadOther
  BY <1>6, <1>10 DEF ReadOther
<1> QED BY <1>7, <1>8, <1>9, <1>10


LEMMA ShortNameRead == ReadInv /\ ReadShortName => ReadInv'
<1> SUFFICES ASSUME ReadInv, ReadShortName PROVE ReadInv'
  OBVIOUS
<1>0. PICK entry : entry = FileEntry(position, NameHeld)
  OBVIOUS
<1> DEFINE changed == [directory EXCEPT !.file_entries = Append(@, entry)]
<1>1. /\ Reading /\ IsShortName(volume[position])
      /\ Keep(changed)
      /\ name_entries_array' = NoArray
      /\ UNCHANGED <<last_vfat_sequence_number, exfat_fields>>
  BY <1>0 DEF ReadShortName, Kind, NameHeld
<1>2. seen' = Append(seen, position) /\ UNCHANGED <<method, volume>>
  BY <1>1 DEF Keep, inputs
<1>3. /\ ReadTypeOK /\ Listed /\ HoldsName /\ HoldsFile
      /\ result = "running" /\ step = "entry"
      /\ ReadNext(position)
      /\ position \in Places /\ position \in Int
      /\ \A j \in 1 .. Len(seen) : seen[j] # position
      /\ seen \in Seq(Int)
  BY <1>1, <1>2, EntryRead
<1>4. IsFile(volume[position]) /\ volume[position].type \in ShortTypes
  BY <1>1 DEF IsFile, IsShortName
<1>5. /\ Lists(seen, NameHeld, LatestName)
      /\ NamesInSequence(NameHeld)
      /\ NameHeld \in Seq(Int)
  BY <1>3, HoldsNameIs
<1>6. entry \in Entries /\ entry.identifier = position /\ entry.names = NameHeld
      /\ entry.data = None
  BY <1>0, <1>3, <1>5 DEF Entries, FileEntry, None
<1>7. changed \in Directories /\ changed.file_entries = Append(directory.file_entries, entry)
  <2>1. Append(directory.file_entries, entry) \in Seq(Entries)
    BY <1>3, <1>6, DirectoryIs
  <2> QED BY <1>3, <2>1, DirectoryIs DEF Directories
<1> HIDE DEF changed
<1>8. /\ position' = position + 1
      /\ UNCHANGED <<inputs, chain_fields, step, result>>
      /\ directory' \in Directories
      /\ directory'.file_entries = Append(directory.file_entries, entry)
  BY <1>1, <1>7, Keeps
<1>9. PICK n \in Nat : n = Len(seen)
  BY <1>3
<1>10. PartsOf(n + 1)' = LatestName
  <2>1. KindAt(n + 1)' = volume[position]
    BY <1>3, <1>9, HistoryGrows
  <2>2. volume[position].type # "file"
    BY <1>4 DEF ShortTypes
  <2>3. LongNameParts(n + 1)' = LongNameParts(n + 1)
    BY <1>3, <1>9, LongNameGrows
  <2> QED BY <1>9, <2>1, <2>2, <2>3 DEF PartsOf, LatestName
<1>11. Lists(seen', entry.names, PartsOf(n + 1)')
  <2>1. LatestName \subseteq 1 .. Len(seen)
    BY <1>3, LatestNameGrows
  <2>2. Lists(Append(seen, position), NameHeld, LatestName)
    BY <1>3, <1>5, <2>1, ListStays
  <2> QED BY <1>2, <1>6, <1>10, <2>2
<1>12. NamesInSequence(entry.names)'
  BY <1>2, <1>5, <1>6 DEF NamesInSequence, IsLong
<1>13. Listed'
  BY <1>3, <1>4, <1>6, <1>8, <1>9, <1>11, <1>12, OneMoreFileEntry
<1>14. NameHeld' = <<>>
  BY <1>1 DEF NameHeld, NoArray
<1>15. HoldsName'
  BY <1>3, <1>4, <1>14, NameTaken
<1>16. IsFat(volume) /\ ~ IsExfat(volume)
  <2>1. ~ IsExfat(volume)
    BY <1>3, <1>4, FormatKnown
  <2> QED BY <1>3, <2>1, FormatKnown
<1>17. current_file_entry' = 0 /\ data_stream_entry' = None
  BY <1>1, <1>3, <1>16 DEF HoldsFile, exfat_fields
<1>18. HoldsFile'
  BY <1>2, <1>16, <1>17 DEF HoldsFile, IsFat, IsExfat
<1>19. /\ name_entries_array' \in Seq(Int) \ {<<>>}
       /\ last_vfat_sequence_number' \in Int
       /\ current_file_entry' \in Nat
       /\ data_stream_entry' \in Int
  BY <1>1, <1>3, <1>17 DEF ReadTypeOK, NoArray, None
<1> QED BY <1>1, <1>2, <1>8, <1>13, <1>15, <1>18, <1>19, GoesOn

LEMMA LongNameRead == ReadInv /\ ReadLongName => ReadInv'
<1> SUFFICES ASSUME ReadInv, ReadLongName PROVE ReadInv'
  OBVIOUS
<1>1. Reading /\ IsLong(volume[position])
  BY DEF ReadLongName, Kind
<1>2. CASE ~ Follows(volume[position])
  <2>1. FailEntry
    BY <1>2 DEF ReadLongName, Kind
  <2> QED BY <1>1, <2>1, FailsReading
<1>3. CASE Follows(volume[position])
  <2>1. /\ name_entries_array' = IF volume[position].last THEN <<position>>
                                 ELSE Append(name_entries_array, position)
        /\ last_vfat_sequence_number' = volume[position].seq
        /\ Keep(directory)
        /\ UNCHANGED exfat_fields
    BY <1>3 DEF ReadLongName, Kind
  <2>2. directory \in Directories
    BY DEF ReadInv, ReadTypeOK
  <2>3. /\ seen' = Append(seen, position)
        /\ position' = position + 1
        /\ UNCHANGED <<inputs, chain_fields, step, result, method, volume>>
        /\ directory' \in Directories
        /\ directory'.file_entries = directory.file_entries
    BY <1>1, <2>1, <2>2, Keeps
  <2>4. /\ ReadTypeOK /\ Listed /\ HoldsName /\ HoldsFile
        /\ result = "running" /\ step = "entry"
        /\ ReadNext(position)
        /\ position \in Places /\ position \in Int
    BY <1>1, <2>3, EntryRead
  <2>5. /\ ~ IsFile(volume[position])
        /\ volume[position].type \notin {"name", "stream"}
    BY <1>1, FileKinds DEF IsLong
  <2>6. Listed'
    BY <2>3, <2>4, <2>5, ListedPasses
  <2>7. HoldsFile'
    BY <2>1, <2>3, <2>4, SameFile
  <2>8. HoldsName' /\ name_entries_array' \in Seq(Int) \ {<<>>}
    <3>1. CASE volume[position].last
      <4>1. name_entries_array' = <<position>>
        BY <2>1, <3>1
      <4>2. HoldsName'
        BY <1>1, <2>1, <2>4, <3>1, <4>1, NameStarts
      <4> QED BY <2>4, <4>1, <4>2
    <3>2. CASE ~ volume[position].last
      <4>1. /\ volume[position].seq + 1 = last_vfat_sequence_number
            /\ name_entries_array # NoArray
        BY <1>3, <3>2 DEF Follows
      <4>2. name_entries_array' = Append(name_entries_array, position)
        BY <2>1, <3>2
      <4>3. HoldsName'
        BY <1>1, <2>1, <2>4, <3>2, <4>1, <4>2, NameGoesOn
      <4>4. name_entries_array \in Seq(Int) /\ position \in Int
        BY <2>4 DEF ReadTypeOK
      <4>5. Append(name_entries_array, position) \in Seq(Int) \ {<<>>}
        <5>1. PICK s \in Seq(Int) : s = name_entries_array
          BY <4>4
        <5>2. Append(s, position) \in Seq(Int) /\ Len(Append(s, position)) # 0
          BY <4>4
        <5> QED BY <5>1, <5>2
      <4> QED BY <4>2, <4>3, <4>5
    <3> QED BY <3>1, <3>2
  <2>9. volume[position].seq \in Nat
    BY <2>4, KindsOfVolume
  <2>10. /\ last_vfat_sequence_number' \in Int
         /\ current_file_entry' \in Nat
         /\ data_stream_entry' \in Int
    BY <2>1, <2>4, <2>9 DEF ReadTypeOK, exfat_fields
  <2> QED BY <1>1, <2>3, <2>6, <2>7, <2>8, <2>10, GoesOn
<1> QED BY <1>2, <1>3

LEMMA FileRead == ReadInv /\ ReadFile => ReadInv'
<1> SUFFICES ASSUME ReadInv, ReadFile PROVE ReadInv'
  OBVIOUS
<1>0. PICK entry : entry = FileEntry(position, <<>>)
  OBVIOUS
<1> DEFINE changed == [directory EXCEPT !.file_entries = Append(@, entry)]
<1>1. /\ Reading /\ volume[position].type = "file"
      /\ Keep(changed)
      /\ current_file_entry' = Len(directory.file_entries) + 1
      /\ data_stream_entry' = None
      /\ UNCHANGED name_fields
  BY <1>0 DEF ReadFile, Kind
<1>2. seen' = Append(seen, position) /\ UNCHANGED <<method, volume>>
  BY <1>1 DEF Keep, inputs
<1>3. /\ ReadTypeOK /\ Listed /\ HoldsName /\ HoldsFile
      /\ result = "running" /\ step = "entry"
      /\ ReadNext(position)
      /\ position \in Places /\ position \in Int
      /\ \A j \in 1 .. Len(seen) : seen[j] # position
      /\ seen \in Seq(Int)
  BY <1>1, <1>2, EntryRead
<1>4. IsFile(volume[position])
  BY <1>1, FileKinds
<1>5. IsExfat(volume) /\ ~ IsFat(volume)
  <2>1. ~ IsFat(volume)
    BY <1>1, <1>3, FormatKnown DEF ExfatTypes
  <2> QED BY <1>3, <2>1, FormatKnown
<1>6. entry \in Entries /\ entry.identifier = position /\ entry.names = <<>>
      /\ entry.data = None
  BY <1>0, <1>3 DEF Entries, FileEntry, None
<1>7. changed \in Directories /\ changed.file_entries = Append(directory.file_entries, entry)
  <2>1. Append(directory.file_entries, entry) \in Seq(Entries)
    BY <1>3, <1>6, DirectoryIs
  <2> QED BY <1>3, <2>1, DirectoryIs DEF Directories
<1> HIDE DEF changed
<1>8. /\ position' = position + 1
      /\ UNCHANGED <<inputs, chain_fields, step, result>>
      /\ directory' \in Directories
      /\ directory'.file_entries = Append(directory.file_entries, entry)
  BY <1>1, <1>7, Keeps
<1>9. PICK n \in Nat : n = Len(seen)
  BY <1>3
<1>10. PartsOf(n + 1)' = {}
  <2>1. KindAt(n + 1)' = volume[position]
    BY <1>3, <1>9, HistoryGrows
  <2>2. Behind(n + 1)' = {}
    BY <1>3, <1>9, NothingBehind
  <2> QED BY <1>1, <2>1, <2>2 DEF PartsOf
<1>11. Lists(seen', entry.names, PartsOf(n + 1)')
  BY <1>6, <1>10, ListsNothing
<1>12. NamesInSequence(entry.names)'
  BY <1>6 DEF NamesInSequence
<1>13. Listed'
  BY <1>3, <1>4, <1>6, <1>8, <1>9, <1>11, <1>12, OneMoreFileEntry
<1>14. NameHeld' = <<>>
  <2>1. NameHeld = <<>>
    BY <1>3, <1>5, ExfatHoldsNoName
  <2> QED BY <1>1, <2>1 DEF NameHeld, name_fields, NoArray
<1>15. HoldsName'
  BY <1>3, <1>4, <1>14, NameTaken
<1>16. HoldsFile'
  <2>1. directory.file_entries \in Seq(Entries)
    BY <1>3, DirectoryIs
  <2>2. PICK m \in Nat : m = Len(directory.file_entries)
    BY <2>1
  <2>3. Len(directory'.file_entries) = m + 1 /\ directory'.file_entries[m + 1] = entry
    BY <1>6, <1>8, <2>1, <2>2
  <2>4. current_file_entry' = m + 1 /\ current_file_entry' # 0
    BY <1>1, <2>2
  <2>5. ~ IsFat(volume)'
    BY <1>2, <1>5 DEF IsFat
  <2> QED BY <1>1, <1>6, <2>3, <2>4, <2>5 DEF HoldsFile
<1>17. /\ name_entries_array' \in Seq(Int) \ {<<>>}
       /\ last_vfat_sequence_number' \in Int
       /\ current_file_entry' \in Nat
       /\ data_stream_entry' \in Int
  BY <1>1, <1>3, IdentifiersAre DEF ReadTypeOK, name_fields, None
<1> QED BY <1>1, <1>2, <1>8, <1>13, <1>15, <1>16, <1>17, GoesOn


(* The file entry that an entry of exFAT belongs to is the last one.       *)
LEMMA CurrentFile ==
  ASSUME ReadInv, Reading, seen' = Append(seen, position), UNCHANGED <<method, volume>>,
         volume[position].type \in {"stream", "name"}, current_file_entry # 0
  PROVE  /\ IsExfat(volume) /\ ~ IsFat(volume)
         /\ current_file_entry = Len(directory.file_entries)
         /\ current_file_entry \in 1 .. Len(directory.file_entries)
         /\ data_stream_entry = directory.file_entries[current_file_entry].data
         /\ \A k \in FilesSeen : KindAt(k).type = "file"
         /\ ~ IsFile(volume[position])
<1>1. /\ ReadTypeOK /\ HoldsFile /\ step = "entry" /\ position \in Places
      /\ \A j \in 1 .. Len(seen) : seen[j] \in Places
  BY EntryRead
<1>2. ~ IsFat(volume)
  BY <1>1 DEF HoldsFile
<1>3. IsExfat(volume)
  BY <1>1, <1>2, FormatKnown
<1>4. current_file_entry = Len(directory.file_entries) /\ current_file_entry \in Nat
  BY <1>1, <1>3 DEF HoldsFile, ReadTypeOK
<1>5. current_file_entry \in 1 .. Len(directory.file_entries)
  BY <1>4
<1>6. data_stream_entry = directory.file_entries[current_file_entry].data
  BY <1>1 DEF HoldsFile
<1>7. ASSUME NEW k \in FilesSeen PROVE KindAt(k).type = "file"
  <2>1. IsFile(KindAt(k)) /\ seen[k] \in Places
    BY <1>1 DEF FilesSeen
  <2>2. KindAt(k).type \notin ShortTypes
    BY <1>1, <1>3, <2>1, FormatKnown DEF KindAt
  <2> QED BY <2>1, <2>2, FileKinds
<1>8. ~ IsFile(volume[position])
  BY FileKinds
<1> QED BY <1>2, <1>3, <1>4, <1>5, <1>6, <1>7, <1>8

(* A file entry changes, but for its identifier.                            *)
WithData(m, p) == [directory.file_entries[m] EXCEPT !.data = p]

DirectoryWithData(m, p) == [directory EXCEPT !.file_entries[m].data = p]

WithName(m, p) == [directory.file_entries[m] EXCEPT !.names = Append(@, p)]

DirectoryWithName(m, p) == [directory EXCEPT !.file_entries[m].names = Append(@, p)]

LEMMA DataChanged ==
  ASSUME ReadTypeOK, NEW m \in 1 .. Len(directory.file_entries), NEW p \in Int,
         NEW entry, entry = WithData(m, p),
         NEW changed, changed = DirectoryWithData(m, p)
  PROVE  /\ changed \in Directories
         /\ changed.file_entries = [directory.file_entries EXCEPT ![m] = entry]
         /\ entry.identifier = directory.file_entries[m].identifier
<1>1. /\ directory.file_entries[m] \in Entries
      /\ directory.file_entries[m].names \in Seq(Int)
      /\ directory.file_entries \in Seq(Entries)
      /\ directory \in Directories
  BY FileEntryIs, DirectoryIs
<1>2. Append(directory.file_entries[m].names, p) \in Seq(Int)
  BY <1>1
<1>3. entry \in Entries /\ entry.identifier = directory.file_entries[m].identifier
  BY <1>1, <1>2 DEF Entries, WithData
<1>4. [directory.file_entries EXCEPT ![m] = entry] \in Seq(Entries)
  BY <1>1, <1>3
<1>5. changed = [directory EXCEPT !.file_entries = [directory.file_entries EXCEPT ![m] = entry]]
  BY DEF WithData, DirectoryWithData
<1>6. changed \in Directories /\ changed.file_entries = [directory.file_entries EXCEPT ![m] = entry]
  BY <1>1, <1>4, <1>5 DEF Directories
<1> QED BY <1>3, <1>6

LEMMA NamesChanged ==
  ASSUME ReadTypeOK, NEW m \in 1 .. Len(directory.file_entries), NEW p \in Int,
         NEW entry, entry = WithName(m, p),
         NEW changed, changed = DirectoryWithName(m, p)
  PROVE  /\ changed \in Directories
         /\ changed.file_entries = [directory.file_entries EXCEPT ![m] = entry]
         /\ entry.identifier = directory.file_entries[m].identifier
<1>1. /\ directory.file_entries[m] \in Entries
      /\ directory.file_entries[m].names \in Seq(Int)
      /\ directory.file_entries \in Seq(Entries)
      /\ directory \in Directories
  BY FileEntryIs, DirectoryIs
<1>2. Append(directory.file_entries[m].names, p) \in Seq(Int)
  BY <1>1
<1>3. entry \in Entries /\ entry.identifier = directory.file_entries[m].identifier
  BY <1>1, <1>2 DEF Entries, WithName
<1>4. [directory.file_entries EXCEPT ![m] = entry] \in Seq(Entries)
  BY <1>1, <1>3
<1>5. changed = [directory EXCEPT !.file_entries = [directory.file_entries EXCEPT ![m] = entry]]
  BY DEF WithName, DirectoryWithName
<1>6. changed \in Directories /\ changed.file_entries = [directory.file_entries EXCEPT ![m] = entry]
  BY <1>1, <1>4, <1>5 DEF Directories
<1> QED BY <1>3, <1>6

(* One file entry is changed, so that it has what belongs to it again.     *)
LEMMA LastFileEntryChanges ==
  ASSUME ReadTypeOK, Listed, result # "error",
         NEW p, ReadNext(p), ~ IsFile(volume[p]),
         NEW m \in 1 .. Len(directory.file_entries), m = Len(directory.file_entries),
         NEW entry, entry.identifier = directory.file_entries[m].identifier,
         directory'.file_entries = [directory.file_entries EXCEPT ![m] = entry],
         \A k \in FilesSeen : IsLast(k) /\ Belongs(m, k) => Belongs(m, k)'
  PROVE  Listed'
<1>1. PICK n \in Nat : n = Len(seen)
  BY DEF ReadTypeOK
<1>2. directory.file_entries \in Seq(Entries)
  BY DirectoryIs
<1>3. /\ Len(directory'.file_entries) = Len(directory.file_entries)
      /\ \A i \in 1 .. Len(directory.file_entries) :
           i # m => directory'.file_entries[i] = directory.file_entries[i]
      /\ directory'.file_entries[m] = entry
  BY <1>2
<1>4. \A i \in 1 .. Len(directory.file_entries) :
        directory'.file_entries[i].identifier = directory.file_entries[i].identifier
  BY <1>3
<1>5. Len(directory'.file_entries)
        = Len(directory.file_entries) + (IF IsFile(volume[p]) THEN 1 ELSE 0)
  BY <1>3, IdentifiersAre
<1>6. ASSUME NEW i \in 1 .. Len(directory.file_entries), NEW k \in FilesSeen, Belongs(i, k)
      PROVE  Belongs(i, k)'
  <2>1. k \in 1 .. n
    BY <1>1, PartsAreIndexes
  <2>2. i = Len(directory.file_entries) <=> IsLast(k)
    BY <1>6 DEF Belongs
  <2>3. CASE i = m
    BY <1>6, <2>2, <2>3
  <2>4. CASE i # m
    <3>1. ~ IsLast(k) /\ directory'.file_entries[i] = directory.file_entries[i]
      BY <1>3, <2>2, <2>4
    <3> QED BY <1>1, <1>5, <1>6, <2>1, <3>1, BelongsStays
  <2> QED BY <2>3, <2>4
<1> QED BY <1>3, <1>4, <1>6, SameFileEntries

LEMMA DataStreamRead == ReadInv /\ ReadDataStream => ReadInv'
<1> SUFFICES ASSUME ReadInv, ReadDataStream PROVE ReadInv'
  OBVIOUS
<1>1. Reading /\ volume[position].type = "stream"
  BY DEF ReadDataStream, Kind
<1>2. CASE data_stream_entry # None \/ current_file_entry = 0
  <2>1. FailEntry
    BY <1>2 DEF ReadDataStream
  <2> QED BY <1>1, <2>1, FailsReading
<1>3. CASE data_stream_entry = None /\ current_file_entry # 0
  <2>1. PICK m \in Nat : m = current_file_entry
    BY DEF ReadInv, ReadTypeOK
  <2>2. PICK changed : changed = DirectoryWithData(m, position)
    OBVIOUS
  <2>3. PICK entry : entry = WithData(m, position)
    OBVIOUS
  <2>4. /\ data_stream_entry' = position
        /\ Keep(changed)
        /\ UNCHANGED <<name_fields, current_file_entry>>
    BY <1>3, <2>1, <2>2 DEF ReadDataStream, DirectoryWithData
  <2>5. seen' = Append(seen, position) /\ UNCHANGED <<method, volume>>
    BY <2>4 DEF Keep, inputs
  <2>6. /\ ReadTypeOK /\ Listed /\ HoldsName /\ HoldsFile
        /\ result = "running" /\ step = "entry"
        /\ ReadNext(position)
        /\ position \in Places /\ position \in Int /\ position # None
    BY <1>1, <2>5, EntryRead
  <2>7. /\ IsExfat(volume) /\ ~ IsFat(volume)
        /\ m = Len(directory.file_entries)
        /\ m \in 1 .. Len(directory.file_entries)
        /\ data_stream_entry = directory.file_entries[m].data
        /\ ~ IsFile(volume[position])
    BY <1>1, <1>3, <2>1, <2>5, CurrentFile
  <2>8. /\ changed \in Directories
        /\ changed.file_entries = [directory.file_entries EXCEPT ![m] = entry]
        /\ entry.identifier = directory.file_entries[m].identifier
    BY <2>2, <2>3, <2>6, <2>7, DataChanged
  <2>9. entry.data = position /\ entry.names = directory.file_entries[m].names
    <3>1. directory.file_entries[m] \in Entries
      BY <2>6, <2>7, FileEntryIs
    <3> QED BY <2>3, <3>1 DEF Entries, WithData
  <2>10. /\ position' = position + 1
         /\ UNCHANGED <<inputs, chain_fields, step, result>>
         /\ directory' \in Directories
         /\ directory'.file_entries = [directory.file_entries EXCEPT ![m] = entry]
    BY <1>1, <2>4, <2>8, Keeps
  <2>11. /\ Len(directory'.file_entries) = m
         /\ directory'.file_entries[m] = entry
    BY <2>6, <2>7, <2>10, DirectoryIs
  <2>12. ASSUME NEW k \in FilesSeen, IsLast(k), Belongs(m, k)
         PROVE  Belongs(m, k)'
    <3>1. PICK n \in Nat : n = Len(seen) /\ k \in 1 .. n
      BY <2>6, PartsAreIndexes DEF ReadTypeOK
    <3>2. /\ Lists(seen, entry.names, PartsOf(k))
          /\ NamesInSequence(entry.names)
          /\ DataStreamsOf(k) = {directory.file_entries[m].data} \ {None}
      BY <2>9, <2>12 DEF Belongs
    <3>3. PartsOf(k)' = PartsOf(k) /\ PartsOf(k) \subseteq 1 .. Len(seen)
      BY <1>1, <2>6, <3>1, PartsGrow
    <3>4. DataStreamsOf(k)' = DataStreamsOf(k) \cup {position}
      BY <1>1, <2>6, <2>12, <3>1, DataStreamsGrow
    <3>5. IsLast(k)'
      BY <2>6, <2>7, <2>12, <3>1, BehindGrows
    <3>6. entry.names \in Seq(Int) /\ seen \in Seq(Int)
      BY <2>6, <2>7, <2>9, FileEntryIs DEF ReadTypeOK
    <3>7. Lists(seen', entry.names, PartsOf(k)')
      BY <2>5, <2>6, <3>2, <3>3, <3>6, ListStays
    <3>8. NamesInSequence(entry.names)'
      BY <2>5, <3>2 DEF NamesInSequence, IsLong
    <3>9. DataStreamsOf(k)' = {entry.data} \ {None}
      BY <1>3, <2>6, <2>7, <2>9, <3>2, <3>4
    <3> QED BY <2>11, <3>5, <3>7, <3>8, <3>9 DEF Belongs
  <2>13. Listed'
    BY <2>6, <2>7, <2>8, <2>10, <2>12, LastFileEntryChanges
  <2>14. HoldsName'
    BY <1>1, <2>4, <2>6, <2>7, NamePasses DEF IsLong
  <2>15. HoldsFile'
    <3>1. current_file_entry' = m /\ m # 0
      BY <1>3, <2>1, <2>4
    <3>2. ~ IsFat(volume)'
      BY <2>5, <2>7 DEF IsFat
    <3> QED BY <2>4, <2>9, <2>11, <3>1, <3>2 DEF HoldsFile
  <2>16. /\ name_entries_array' \in Seq(Int) \ {<<>>}
         /\ last_vfat_sequence_number' \in Int
         /\ current_file_entry' \in Nat
         /\ data_stream_entry' \in Int
    BY <2>4, <2>6 DEF ReadTypeOK, name_fields
  <2> QED BY <1>1, <2>5, <2>10, <2>13, <2>14, <2>15, <2>16, GoesOn
<1> QED BY <1>2, <1>3

LEMMA FileNameRead == ReadInv /\ ReadFileName => ReadInv'
<1> SUFFICES ASSUME ReadInv, ReadFileName PROVE ReadInv'
  OBVIOUS
<1>1. Reading /\ volume[position].type = "name"
  BY DEF ReadFileName, Kind
<1>2. CASE current_file_entry = 0
  <2>1. FailEntry
    BY <1>2 DEF ReadFileName
  <2> QED BY <1>1, <2>1, FailsReading
<1>3. CASE current_file_entry # 0
  <2>1. PICK m \in Nat : m = current_file_entry
    BY DEF ReadInv, ReadTypeOK
  <2>2. PICK changed : changed = DirectoryWithName(m, position)
    OBVIOUS
  <2>3. PICK entry : entry = WithName(m, position)
    OBVIOUS
  <2>4. Keep(changed) /\ UNCHANGED <<name_fields, exfat_fields>>
    BY <1>3, <2>1, <2>2 DEF ReadFileName, DirectoryWithName
  <2>5. seen' = Append(seen, position) /\ UNCHANGED <<method, volume>>
    BY <2>4 DEF Keep, inputs
  <2>6. /\ ReadTypeOK /\ Listed /\ HoldsName /\ HoldsFile
        /\ result = "running" /\ step = "entry"
        /\ ReadNext(position)
        /\ position \in Places /\ position \in Int
    BY <1>1, <2>5, EntryRead
  <2>7. /\ IsExfat(volume) /\ ~ IsFat(volume)
        /\ m = Len(directory.file_entries)
        /\ m \in 1 .. Len(directory.file_entries)
        /\ data_stream_entry = directory.file_entries[m].data
        /\ \A k \in FilesSeen : KindAt(k).type = "file"
        /\ ~ IsFile(volume[position])
    BY <1>1, <1>3, <2>1, <2>5, CurrentFile
  <2>8. /\ changed \in Directories
        /\ changed.file_entries = [directory.file_entries EXCEPT ![m] = entry]
        /\ entry.identifier = directory.file_entries[m].identifier
    BY <2>2, <2>3, <2>6, <2>7, NamesChanged
  <2>9. PICK names \in Seq(Int) : names = directory.file_entries[m].names
    BY <2>6, <2>7, FileEntryIs
  <2>10. entry.names = Append(names, position)
         /\ entry.data = directory.file_entries[m].data
    <3>1. directory.file_entries[m] \in Entries
      BY <2>6, <2>7, FileEntryIs
    <3> QED BY <2>3, <2>9, <3>1 DEF Entries, WithName
  <2>11. /\ position' = position + 1
         /\ UNCHANGED <<inputs, chain_fields, step, result>>
         /\ directory' \in Directories
         /\ directory'.file_entries = [directory.file_entries EXCEPT ![m] = entry]
    BY <1>1, <2>4, <2>8, Keeps
  <2>12. /\ Len(directory'.file_entries) = m
         /\ directory'.file_entries[m] = entry
    BY <2>6, <2>7, <2>11, DirectoryIs
  <2>13. ASSUME NEW k \in FilesSeen, IsLast(k), Belongs(m, k)
         PROVE  Belongs(m, k)'
    <3>1. PICK n \in Nat : n = Len(seen) /\ k \in 1 .. n
      BY <2>6, PartsAreIndexes DEF ReadTypeOK
    <3>2. /\ Lists(seen, names, PartsOf(k))
          /\ DataStreamsOf(k) = {entry.data} \ {None}
      BY <2>9, <2>10, <2>13 DEF Belongs
    <3>3. /\ PartsOf(k)' = PartsOf(k) \cup {Len(seen) + 1}
          /\ PartsOf(k) \subseteq 1 .. Len(seen)
      BY <1>1, <2>6, <2>7, <2>13, <3>1, PartsGrow
    <3>4. DataStreamsOf(k)' = DataStreamsOf(k)
      BY <1>1, <2>6, <3>1, DataStreamsGrow
    <3>5. IsLast(k)'
      BY <2>6, <2>7, <2>13, <3>1, BehindGrows
    <3>6. seen \in Seq(Int)
      BY <2>6 DEF ReadTypeOK
    <3>7. Lists(seen', entry.names, PartsOf(k)')
      BY <2>5, <2>6, <2>10, <3>2, <3>3, <3>6, ListGrows
    <3>8. NamesInSequence(entry.names)'
      <4>1. \A r \in DOMAIN entry.names : ~ IsLong(volume[entry.names[r]])
        <5>1. PICK index : /\ Enumerates(index, Len(names), PartsOf(k))
                           /\ \A r \in 1 .. Len(names) : names[r] = seen[index[r]]
          BY <3>2 DEF Lists
        <5>2. \A j \in PartsOf(k) : KindAt(j).type = "name"
          BY <2>7 DEF PartsOf
        <5>3. \A r \in 1 .. Len(names) : volume[names[r]].type = "name"
          BY <5>1, <5>2 DEF Enumerates, KindAt
        <5>4. PICK longer : longer = Append(names, position)
          OBVIOUS
        <5>5. /\ DOMAIN longer = (1 .. Len(names)) \cup {Len(names) + 1}
              /\ \A r \in 1 .. Len(names) : longer[r] = names[r]
              /\ longer[Len(names) + 1] = position
          BY <2>6, <5>4
        <5>6. \A r \in DOMAIN longer : volume[longer[r]].type = "name"
          BY <1>1, <5>3, <5>5
        <5> QED BY <2>10, <5>4, <5>6 DEF IsLong
      <4> QED BY <2>5, <4>1 DEF NamesInSequence, IsLong
    <3> QED BY <2>12, <3>2, <3>4, <3>5, <3>7, <3>8 DEF Belongs
  <2>14. Listed'
    BY <2>6, <2>7, <2>8, <2>11, <2>13, LastFileEntryChanges
  <2>15. HoldsName'
    BY <1>1, <2>4, <2>6, <2>7, NamePasses DEF IsLong
  <2>16. HoldsFile'
    <3>1. current_file_entry' = m /\ m # 0 /\ data_stream_entry' = data_stream_entry
      BY <1>3, <2>1, <2>4 DEF exfat_fields
    <3>2. ~ IsFat(volume)'
      BY <2>5, <2>7 DEF IsFat
    <3> QED BY <2>7, <2>10, <2>12, <3>1, <3>2 DEF HoldsFile
  <2>17. /\ name_entries_array' \in Seq(Int) \ {<<>>}
         /\ last_vfat_sequence_number' \in Int
         /\ current_file_entry' \in Nat
         /\ data_stream_entry' \in Int
    BY <2>4, <2>6 DEF ReadTypeOK, name_fields, exfat_fields
  <2> QED BY <1>1, <2>5, <2>11, <2>14, <2>15, <2>16, <2>17, GoesOn
<1> QED BY <1>2, <1>3

-----------------------------------------------------------------------------
(***************************************************************************)
(* The theorems.                                                           *)
(***************************************************************************)

LEMMA ReadInit == SearchInit => ReadInv
<1> SUFFICES ASSUME SearchInit PROVE ReadInv
  OBVIOUS
<1>1. /\ method \in Methods /\ volume \in Volumes /\ (method = "range" => IsFat(volume))
      /\ allocation_table \in Tables /\ cluster_number = 2 /\ cluster_block_tree = {}
      /\ step = IF method = "chain" THEN "cluster" ELSE "entry"
      /\ position = 0 /\ end_position = RangeSize
      /\ last_vfat_sequence_number = 0 /\ name_entries_array = NoArray
      /\ current_file_entry = 0 /\ data_stream_entry = None
      /\ directory = EmptyDirectory /\ result = "running" /\ seen = <<>>
  BY DEF SearchInit, Init, FirstCluster
<1>2. Len(seen) = 0 /\ 1 .. Len(seen) = {} /\ seen \in Seq(Int) /\ method \in {"chain", "range"}
  BY <1>1, DirectoryReadAssumption
<1>3. Cardinality(cluster_block_tree) = 0 /\ IsFiniteSet(cluster_block_tree)
  BY <1>1, FS_EmptySet
<1>4. NoArray \in Seq(Int) \ {<<>>} /\ EmptyDirectory \in Directories /\ RangeSize \in Nat
  BY SizesAreNumbers DEF NoArray, None, EmptyDirectory, Directories
<1>5. ReadTypeOK
  BY <1>1, <1>2, <1>3, <1>4 DEF ReadTypeOK, None
<1>6. Accounted
  <2>1. CASE method = "chain"
    <3>1. ChainAccounted
      BY <1>1, <1>2, <1>3, <2>1, SizesAreNumbers DEF ChainAccounted
    <3> QED BY <2>1, <3>1 DEF Accounted
  <2>2. CASE method = "range"
    <3>1. RangeAccounted
      BY <1>1, <1>2, <1>4, <2>2 DEF RangeAccounted
    <3> QED BY <1>1, <2>2, <3>1 DEF Accounted
  <2> QED BY <1>2, <2>1, <2>2
<1>7. Listed
  <2>1. FilesSeen = {}
    BY <1>2 DEF FilesSeen
  <2>2. directory.file_entries = <<>> /\ Len(directory.file_entries) = 0
    BY <1>1 DEF EmptyDirectory
  <2>3. Identifiers = <<>>
    BY <2>2 DEF Identifiers
  <2>4. Lists(seen, Identifiers, FilesSeen)
    BY <2>1, <2>3, ListsNothing
  <2> QED BY <2>1, <2>4 DEF Listed
<1>8. HoldsName
  <2>1. NameHeld = <<>>
    BY <1>1 DEF NameHeld
  <2>2. LatestName = {}
    <3>1. LatestName \subseteq 1 .. Len(seen) + 1 - 1
      BY <1>2, PartsAreIndexes DEF LatestName
    <3> QED BY <1>2, <3>1
  <2>3. Lists(seen, NameHeld, LatestName)
    BY <2>1, <2>2, ListsNothing
  <2>4. NamesInSequence(NameHeld)
    BY <2>1 DEF NamesInSequence
  <2> QED BY <2>1, <2>3, <2>4 DEF HoldsName
<1>9. HoldsFile
  BY <1>1 DEF HoldsFile, EmptyDirectory
<1> QED BY <1>1, <1>2, <1>5, <1>6, <1>7, <1>8, <1>9 DEF ReadInv

LEMMA ReadStays == ReadInv /\ UNCHANGED vars => ReadInv'
<1> SUFFICES ASSUME ReadInv, UNCHANGED vars PROVE ReadInv'
  OBVIOUS
<1>1. UNCHANGED <<method, volume, allocation_table, cluster_number, cluster_block_tree, step,
                  position, end_position, last_vfat_sequence_number, name_entries_array,
                  current_file_entry, data_stream_entry, directory, result, seen,
                  name_fields, exfat_fields>>
  BY DEF vars, inputs, chain_fields, name_fields, exfat_fields
<1>2. ReadTypeOK'
  BY <1>1 DEF ReadInv, ReadTypeOK
<1>3. Accounted'
  BY <1>1 DEF ReadInv, Accounted, ChainAccounted, RangeAccounted, InChain, InCluster,
              ClusterStart, IsFat
<1>4. Listed'
  <2>1. CASE result = "error"
    BY <1>1, <2>1 DEF Listed
  <2>2. CASE result # "error"
    BY <1>1, <2>2, SameList DEF ReadInv
  <2> QED BY <2>1, <2>2
<1>5. HoldsName' /\ HoldsFile'
  <2>1. CASE step = "done"
    BY <1>1, <2>1 DEF HoldsName, HoldsFile
  <2>2. CASE step # "done"
    BY <1>1, <2>2, SameName, SameFile DEF ReadInv
  <2> QED BY <2>1, <2>2
<1>6. (result = "directory" => ReadToTheEnd)'
  BY <1>1 DEF ReadInv, ReadToTheEnd, InChain, KindAt
<1>7. \A j \in 1 .. Len(seen') : seen'[j] \in Places
  BY <1>1 DEF ReadInv
<1> QED BY <1>2, <1>3, <1>4, <1>5, <1>6, <1>7 DEF ReadInv

LEMMA ReadingFails == ReadInv /\ (FailFirstRead \/ FailTable \/ FailRead) => ReadInv'
<1> SUFFICES ASSUME ReadInv, FailFirstRead \/ FailTable \/ FailRead PROVE ReadInv'
  OBVIOUS
<1>1. CASE FailFirstRead \/ FailTable
  BY <1>1, Fails DEF FailFirstRead, FailTable
<1>2. CASE FailRead
  BY <1>2, FailsReading DEF FailRead
<1> QED BY <1>1, <1>2

LEMMA ReadNextInv == ReadInv /\ [ReadOrSearch]_<<vars, search>> => ReadInv'
<1> SUFFICES ASSUME ReadInv, [ReadOrSearch]_<<vars, search>> PROVE ReadInv'
  OBVIOUS
<1>1. CASE UNCHANGED vars
  BY <1>1, ReadStays
<1>2. CASE FailRead
  BY <1>2, ReadingFails
<1>3. CASE Step
  <2>1. CASE ReadEntry
    BY <2>1, TerminatorRead, UnallocatedRead, OtherEntryRead, ShortNameRead, LongNameRead,
       FileRead, DataStreamRead, FileNameRead DEF ReadEntry
  <2>2. CASE EnterCluster \/ NextCluster \/ LeaveChain \/ LeaveRange
    BY <2>2, Enters, GoesToNext, Leaves
  <2>3. CASE FailFirstRead \/ FailTable
    BY <2>3, ReadingFails
  <2> QED BY <1>3, <2>1, <2>2, <2>3 DEF Step
<1> QED BY <1>1, <1>2, <1>3 DEF ReadOrSearch, ReadStep, SearchStep

LEMMA ReadInvListsFiles == ReadInv => ListsFiles
<1> SUFFICES ASSUME ReadInv, result = "directory"
             PROVE  /\ ReadToTheEnd
                    /\ Identifiers = InOrder(FilesSeen)
  BY DEF ListsFiles, Identifiers
<1>1. ReadTypeOK /\ Listed /\ ReadToTheEnd /\ seen \in Seq(Int)
  BY DEF ReadInv, ReadTypeOK
<1>2. Lists(seen, Identifiers, FilesSeen)
  BY <1>1 DEF Listed
<1>3. FilesSeen \subseteq 1 .. Len(seen)
  BY DEF FilesSeen
<1>4. PICK s \in Seq(Int) : s = Identifiers
  BY <1>1, IdentifiersAre
<1>5. s = InOrder(FilesSeen)
  BY <1>1, <1>2, <1>3, <1>4, ListIsInOrder
<1> QED BY <1>1, <1>4, <1>5

LEMMA ReadInvEntriesBelong == ReadInv => EntriesBelong
<1> SUFFICES ASSUME ReadInv, result = "directory",
                    NEW i \in DOMAIN directory.file_entries, NEW k \in FilesSeen,
                    directory.file_entries[i].identifier = seen[k]
             PROVE  /\ directory.file_entries[i].names = NamesOf(k)
                    /\ NamesInSequence(directory.file_entries[i].names)
                    /\ DataStreamsOf(k) = {directory.file_entries[i].data} \ {None}
  BY DEF EntriesBelong
<1>1. ReadTypeOK /\ Listed /\ seen \in Seq(Int)
  BY DEF ReadInv, ReadTypeOK
<1>2. i \in 1 .. Len(directory.file_entries)
  BY <1>1, DirectoryIs
<1>3. Belongs(i, k)
  BY <1>1, <1>2 DEF Listed
<1>4. PICK s \in Seq(Int) : s = directory.file_entries[i].names
  BY <1>1, <1>2, FileEntryIs
<1>5. PICK n \in Nat : n = Len(seen)
  BY <1>1
<1>6. k \in 1 .. n
  BY <1>5 DEF FilesSeen
<1>7. PartsOf(k) \subseteq 1 .. Len(seen)
  <2>1. LongNameParts(k) \subseteq 1 .. k - 1 /\ Behind(k) \subseteq k + 1 .. n
    BY <1>5, <1>6, PartsAreIndexes
  <2> QED BY <1>5, <1>6, <2>1 DEF PartsOf
<1>8. s = InOrder(PartsOf(k))
  BY <1>1, <1>3, <1>4, <1>7, ListIsInOrder DEF Belongs
<1>9. InOrder(PartsOf(k)) = NamesOf(k)
  BY DEF NamesOf, PartsOf
<1> QED BY <1>3, <1>4, <1>8, <1>9 DEF Belongs

(* Every state of a reading accounts for the entries that were read, for   *)
(* the file entries that are listed and for the name that is being read    *)
(* (libfsfat_file_system_read_directory, libfsfat_file_system.c:504-1132,  *)
(* and libfsfat_file_system_read_directory_by_range, 1133-1484).           *)
THEOREM ReadingAccounted == SearchSpec => []ReadInv
<1>1. ReadInv /\ [ReadOrSearch]_<<vars, search>> => ReadInv'
  BY ReadNextInv
<1> QED BY ReadInit, <1>1, PTL DEF SearchSpec

(* A directory that is returned lists every file entry up to the terminator*)
(* or the end of its clusters, in the order in which they are stored, and  *)
(* no other (libfsfat_file_system_read_directory, lines 641-1037).         *)
THEOREM FilesListed == SearchSpec => []ListsFiles
BY ReadingAccounted, ReadInvListsFiles, PTL

(* A file entry has the parts of a name and the data stream that are its   *)
(* own: a long name is taken by the short name behind it and by no other   *)
(* (libfsfat_file_system_read_directory, lines 727-1037).                  *)
THEOREM EntriesKeepTheirOwn == SearchSpec => []EntriesBelong
BY ReadingAccounted, ReadInvEntriesBelong, PTL

(***************************************************************************)
(* The lookup of an entry by its identifier.                               *)
(***************************************************************************)

(* A set of numbers has a first and, below a bound, a last one.            *)
LEMMA FirstNatural ==
  ASSUME NEW S, S \subseteq Nat, S # {}
  PROVE  \E i \in S : \A j \in S : i <= j
<1>1. IsWellFoundedOn(OpToRel(<, Nat), Nat)
  BY NatLessThanWellFounded
<1>2. PICK i \in S : \A j \in S : ~ (<<j, i>> \in OpToRel(<, Nat))
  BY <1>1, WFMin
<1>3. \A j \in S : ~ (j < i)
  BY <1>2 DEF OpToRel
<1> QED BY <1>3

LEMMA LastNatural ==
  ASSUME NEW n \in Nat, NEW S, S \subseteq 0 .. n, S # {}
  PROVE  \E i \in S : \A j \in S : j <= i
<1> DEFINE T == {n - j : j \in S}
<1>1. T \subseteq Nat /\ T # {}
  <2>1. ASSUME NEW j \in S PROVE n - j \in Nat
    <3>1. j \in 0 .. n
      OBVIOUS
    <3> QED BY <3>1
  <2>2. PICK j \in S : TRUE
    OBVIOUS
  <2>3. n - j \in T
    OBVIOUS
  <2> QED BY <2>1, <2>3
<1>2. PICK t \in T : \A u \in T : t <= u
  <2> HIDE DEF T
  <2> QED BY <1>1, FirstNatural
<1>3. PICK i \in S : t = n - i
  OBVIOUS
<1>4. ASSUME NEW j \in S PROVE j <= i
  <2>1. n - j \in T
    OBVIOUS
  <2>2. t <= n - j
    BY <1>2, <2>1
  <2>3. i \in 0 .. n /\ j \in 0 .. n
    OBVIOUS
  <2> QED BY <1>3, <2>2, <2>3
<1> QED BY <1>4

(* The cluster that leads to another.                                      *)
LEMMA ReversedIs ==
  ASSUME allocation_table \in [0 .. NumberOfClusters - 1 -> Nat], NEW cluster
  PROVE  Reversed(cluster) \in Nat
<1> DEFINE before == {c \in DOMAIN allocation_table : allocation_table[c] = cluster}
<1>1. NumberOfClusters \in Nat
  BY DirectoryReadAssumption
<1>2. CASE before = {}
  BY <1>2 DEF Reversed
<1>3. CASE before # {}
  <2>1. before \subseteq 0 .. NumberOfClusters - 1
    OBVIOUS
  <2>2. before \subseteq 0 .. NumberOfClusters
    BY <1>1, <2>1
  <2>3. \E c \in before : \A b \in before : b <= c
    <3> HIDE DEF before
    <3> QED BY <1>1, <1>3, <2>2, LastNatural
  <2>4. Reversed(cluster) \in before
    BY <1>3, <2>3 DEF Reversed
  <2> QED BY <1>1, <2>1, <2>4
<1> QED BY <1>2, <1>3

(* A sequence with an element in front of it.                              *)
LEMMA Prepended ==
  ASSUME NEW S, NEW s \in Seq(S), NEW x \in S, NEW t, t = <<x>> \o s
  PROVE  /\ t \in Seq(S)
         /\ Len(t) = Len(s) + 1
         /\ t[1] = x
         /\ \A i \in 1 .. Len(s) : t[i + 1] = s[i]
<1>1. PICK n \in Nat : n = Len(s)
  OBVIOUS
<1>2. <<x>> \in Seq(S) /\ Len(<<x>>) = 1
  OBVIOUS
<1>3. t \in Seq(S) /\ Len(t) = 1 + n
  BY <1>1, <1>2
<1>4. t[1] = x
  BY <1>1, <1>2
<1>5. ASSUME NEW i \in 1 .. n PROVE t[i + 1] = s[i]
  <2>1. i + 1 \in 1 .. 1 + n /\ i + 1 > 1 /\ (i + 1) - 1 = i
    BY <1>5
  <2> QED BY <1>1, <1>2, <2>1
<1> QED BY <1>1, <1>3, <1>4, <1>5

(* A long name has a beginning.                                            *)
LEMMA NameStartIs ==
  ASSUME NEW p \in Nat
  PROVE  /\ NameStart(p) \in 0 .. p
         /\ \A i \in NameStart(p) .. p - 1 : IsLong(volume[i])
<1> DEFINE Starts == {q \in 0 .. p : \A i \in q .. p - 1 : IsLong(volume[i])}
<1>1. p \in Starts
  OBVIOUS
<1>2. PICK q \in Starts : \A r \in Starts : q <= r
  <2>1. Starts \subseteq Nat /\ Starts # {}
    BY <1>1
  <2> HIDE DEF Starts
  <2> QED BY <2>1, FirstNatural
<1>3. q \in 0 .. p /\ \A i \in q .. p - 1 : IsLong(volume[i])
  OBVIOUS
<1>4. q = 0 \/ ~ IsLong(volume[q - 1])
  <2> SUFFICES ASSUME q # 0, IsLong(volume[q - 1]) PROVE FALSE
    OBVIOUS
  <2>1. q - 1 \in 0 .. p
    BY <1>3
  <2>2. \A i \in q - 1 .. p - 1 : IsLong(volume[i])
    <3> SUFFICES ASSUME NEW i \in q - 1 .. p - 1 PROVE IsLong(volume[i])
      OBVIOUS
    <3>1. i = q - 1 \/ i \in q .. p - 1
      BY <1>3
    <3> QED BY <1>3, <3>1
  <2>3. q - 1 \in Starts
    BY <2>1, <2>2
  <2>4. q <= q - 1
    <3> HIDE DEF Starts
    <3> QED BY <1>2, <2>3
  <2> QED BY <1>3, <2>4
<1> HIDE DEF Starts
<1>5. \E r \in 0 .. p : /\ \A i \in r .. p - 1 : IsLong(volume[i])
                        /\ r = 0 \/ ~ IsLong(volume[r - 1])
  BY <1>3, <1>4
<1>6. /\ NameStart(p) \in 0 .. p
      /\ \A i \in NameStart(p) .. p - 1 : IsLong(volume[i])
  BY <1>5 DEF NameStart
<1> QED BY <1>6

-----------------------------------------------------------------------------
(***************************************************************************)
(* The invariant about a search.                                           *)
(***************************************************************************)

SearchRecord ==
  [step : {"none", "first", "back", "forth", "name", "done"}, identifier : Nat,
   cluster_number : Nat, position : Int, end : Int, last_vfat_sequence_number : Nat,
   names : Seq(Places), data_stream : Int, safe_directory_entry : Int,
   result : {"running", "root", "error", "read error", "entry"}]

Searching(s) == KindOf(s.identifier).type

(* Which way is gone, and how the function is left.                        *)
SearchGoes(s) ==
  /\ s.step = "first" =>
       /\ s.names = <<>>
       /\ s.last_vfat_sequence_number = 0
       /\ s.cluster_number = ClusterOf(s.identifier) + 2
  /\ s.step = "back" => Searching(s) \in ShortTypes
  /\ s.step = "forth" => Searching(s) = "file"
  /\ s.step = "name" \/ s.result = "entry" => Searching(s) \in ShortTypes \cup {"file"}
  /\ s.result = "entry" => s.step = "done"

(* The parts of a long name that have been found.                          *)
PartsFound(s) ==
  Searching(s) \in ShortTypes =>
    /\ \A i \in 1 .. Len(s.names) - 1 :
         volume[s.names[i + 1]].seq # 0 =>
           volume[s.names[i]].seq = volume[s.names[i + 1]].seq + 1
    /\ s.step # "done" =>
         s.last_vfat_sequence_number =
           IF Len(s.names) = 0 THEN 0 ELSE volume[s.names[1]].seq

NamesFound(s) ==
  Searching(s) = "file" =>
    \A i \in 1 .. Len(s.names) : volume[s.names[i]].type = "name"

(* The places from one to the one before another.                          *)
Run(q, p) == [i \in 1 .. p - q |-> q + i - 1]

(* A well formed name is found from its end.                               *)
WellFormedFound(s) ==
  Searching(s) \in ShortTypes /\ WellFormed(s.identifier) =>
    IF ClusterOf(s.identifier) = 0
    THEN s.names = <<>> /\ s.step # "back"
    ELSE /\ s.step = "back" =>
              /\ s.position \in NameStart(s.identifier) - 1 .. s.identifier - 1
              /\ s.names = Run(s.position + 1, s.identifier)
              /\ s.last_vfat_sequence_number = s.identifier - s.position - 1
         /\ s.step = "name" \/ s.result = "entry" =>
              s.names = Run(NameStart(s.identifier), s.identifier)

SearchedWell(s) ==
  /\ s \in SearchRecord
  /\ SearchGoes(s)
  /\ PartsFound(s)
  /\ NamesFound(s)
  /\ WellFormedFound(s)

SearchInv ==
  /\ volume \in [Places -> Kinds]
  /\ allocation_table \in [0 .. NumberOfClusters - 1 -> Nat]
  /\ SearchedWell(search)

(***************************************************************************)
(* Every action keeps it.                                                  *)
(***************************************************************************)

LEMMA ClusterOfIs ==
  ASSUME NEW p \in Nat
  PROVE  ClusterOf(p) \in Nat
<1>1. EntriesPerCluster \in Nat \ {0} /\ p + FirstClusterOffset \in Nat
  BY DirectoryReadAssumption, EntryByIdentifierAssumption
<1> QED BY <1>1 DEF ClusterOf

LEMMA ClusterStartIs ==
  ASSUME NEW cluster \in Nat
  PROVE  ClusterStart(cluster) \in Int
<1>1. EntriesPerCluster \in Nat /\ cluster - FirstCluster \in Int
  BY DirectoryReadAssumption DEF FirstCluster
<1> QED BY <1>1 DEF ClusterStart

(* What is a part of a name lies where entries can be read.                *)
LEMMA KindOfPlace ==
  ASSUME volume \in [Places -> Kinds], NEW p,
         KindOf(p).type # "unallocated"
  PROVE  p \in Places /\ KindOf(p) = volume[p] /\ p \in Nat /\ volume[p].seq \in Nat
<1>1. p \in DOMAIN volume
  BY DEF KindOf
<1>2. p \in Places /\ KindOf(p) = volume[p]
  BY <1>1 DEF KindOf
<1>3. volume[p] \in Kinds
  BY <1>2
<1>4. volume[p].seq \in 0 .. 31
  BY <1>3 DEF Kinds
<1>5. volume[p].seq \in Nat
  BY <1>4
<1>6. p \in Nat
  BY <1>2, DirectoryReadAssumption DEF Places
<1> QED BY <1>2, <1>5, <1>6

(* The volume is the same all along.                                       *)
LEMMA SameVolume ==
  ASSUME volume' = volume, NEW p
  PROVE  /\ KindOf(p)' = KindOf(p)
         /\ NameStart(p)' = NameStart(p)
         /\ WellFormed(p)' <=> WellFormed(p)
<1>1. KindOf(p)' = KindOf(p)
  BY DEF KindOf
<1>2. \A kind : IsLong(kind)' <=> IsLong(kind)
  BY DEF IsLong
<1>3. NameStart(p)' = NameStart(p)
  BY <1>2 DEF NameStart, IsLong
<1>4. WellFormed(p)' <=> WellFormed(p)
  BY <1>3 DEF WellFormed
<1> QED BY <1>1, <1>3, <1>4

(* The invariant is one about the record of the search.                    *)
LEMMA SearchGoesOn ==
  ASSUME SearchInv, UNCHANGED <<volume, allocation_table>>, NEW s, search' = s,
         SearchedWell(s)
  PROVE  SearchInv'
<1>1. \A p : /\ KindOf(p)' = KindOf(p)
             /\ NameStart(p)' = NameStart(p)
             /\ WellFormed(p)' <=> WellFormed(p)
  BY SameVolume
<1>2. SearchGoes(s)'
  BY <1>1 DEF SearchedWell, SearchGoes, Searching, ClusterOf
<1>3. PartsFound(s)' /\ NamesFound(s)'
  BY <1>1 DEF SearchedWell, PartsFound, NamesFound, Searching
<1>4. WellFormedFound(s)'
  BY <1>1 DEF SearchedWell, WellFormedFound, Searching, ClusterOf
<1>5. SearchedWell(s)'
  BY <1>2, <1>3, <1>4 DEF SearchedWell
<1>6. SearchedWell(search)'
  BY <1>5
<1> QED BY <1>6 DEF SearchInv

(* A search that is left without an entry.                                 *)
LEMMA SearchStops ==
  ASSUME SearchInv, UNCHANGED vars, NEW outcome, outcome \in {"root", "error", "read error"},
         search' = Ends(outcome)
  PROVE  SearchInv'
<1>1. PICK s : s = Ends(outcome)
  OBVIOUS
<1>2. search \in SearchRecord
  BY DEF SearchInv, SearchedWell
<1>3. PICK r : r = [search EXCEPT !.step = "done"]
  OBVIOUS
<1>4. r \in SearchRecord /\ s = [r EXCEPT !.result = outcome]
  BY <1>1, <1>2, <1>3 DEF SearchRecord, Ends
<1>5. /\ s \in SearchRecord
      /\ s.step = "done" /\ s.result = outcome
      /\ s.identifier = search.identifier /\ s.names = search.names
  BY <1>2, <1>3, <1>4 DEF SearchRecord
<1>6. SearchGoes(s) /\ PartsFound(s) /\ NamesFound(s) /\ WellFormedFound(s)
  <2>1. SearchGoes(s)
    BY <1>5 DEF SearchGoes
  <2>2. PartsFound(s)
    BY <1>5 DEF SearchInv, SearchedWell, PartsFound, Searching
  <2>3. NamesFound(s)
    BY <1>5 DEF SearchInv, SearchedWell, NamesFound, Searching
  <2>4. WellFormedFound(s)
    BY <1>5 DEF SearchInv, SearchedWell, WellFormedFound, Searching
  <2> QED BY <2>1, <2>2, <2>3, <2>4
<1>7. UNCHANGED <<volume, allocation_table>>
  BY DEF vars, inputs
<1> QED BY <1>1, <1>5, <1>6, <1>7, SearchGoesOn DEF SearchedWell

(* The first part of a name is put in front of none, the others of those   *)
(* behind.                                                                 *)
LEMMA EmptyRun ==
  ASSUME NEW p \in Nat
  PROVE  Run(p, p) = <<>>
<1>1. Run(p, p) = [i \in 1 .. 0 |-> p + i - 1]
  BY DEF Run
<1> QED BY <1>1

LEMMA RunGrows ==
  ASSUME NEW q \in Nat, NEW p \in Nat, q < p
  PROVE  <<q>> \o Run(q + 1, p) = Run(q, p)
<1>1. PICK n \in Nat : p - q = n + 1 /\ p - (q + 1) = n
  <2>1. p - q - 1 \in Nat
    OBVIOUS
  <2> QED BY <2>1
<1>2. Run(q + 1, p) = [i \in 1 .. n |-> q + i] /\ Run(q, p) = [i \in 1 .. n + 1 |-> q + i - 1]
  <2>1. \A i \in 1 .. n : (q + 1) + i - 1 = q + i
    OBVIOUS
  <2> QED BY <1>1, <2>1 DEF Run
<1>3. PICK s : s = Run(q + 1, p)
  OBVIOUS
<1>4. s \in Seq(Nat) /\ Len(s) = n /\ \A i \in 1 .. n : s[i] = q + i
  BY <1>2, <1>3
<1>5. PICK t : t = <<q>> \o s
  OBVIOUS
<1>6. /\ t \in Seq(Nat) /\ Len(t) = n + 1 /\ t[1] = q
      /\ \A i \in 1 .. n : t[i + 1] = s[i]
  BY <1>4, <1>5, Prepended
<1>7. ASSUME NEW i \in 1 .. n + 1 PROVE t[i] = q + i - 1
  <2>1. CASE i = 1
    BY <1>6, <2>1
  <2>2. CASE i # 1
    <3>1. PICK j \in 1 .. n : i = j + 1
      <4>1. i - 1 \in 1 .. n /\ i = (i - 1) + 1
        BY <2>2
      <4> QED BY <4>1
    <3>2. t[j + 1] = q + j
      BY <1>4, <1>6
    <3> QED BY <3>1, <3>2
  <2> QED BY <2>1, <2>2
<1>8. t = [i \in 1 .. n + 1 |-> t[i]]
  BY <1>6
<1>9. t = [i \in 1 .. n + 1 |-> q + i - 1]
  BY <1>7, <1>8
<1> QED BY <1>2, <1>3, <1>5, <1>9

(* What a well formed name is, as the search meets it.                     *)
LEMMA WellFormedIs ==
  ASSUME volume \in [Places -> Kinds], NEW p \in Places, WellFormed(p),
         NEW q, q = NameStart(p)
  PROVE  /\ p \in Nat /\ q \in Nat /\ 1 <= q /\ q <= p
         /\ volume[q - 1].type \in ShortTypes
         /\ \A i \in q - 1 .. p : i \in Places /\ KindOf(i) = volume[i]
         /\ \A i \in q .. p - 1 : IsLong(volume[i]) /\ volume[i].seq = p - i
<1>1. p \in Nat /\ Places = 0 .. LastClusterNumber * EntriesPerCluster + RangeSize
  BY DirectoryReadAssumption DEF Places
<1>2. q \in 0 .. p /\ \A i \in q .. p - 1 : IsLong(volume[i])
  BY <1>1, NameStartIs
<1>3. q % EntriesPerCluster # 0
  BY DEF WellFormed
<1>4. q # 0
  <2> SUFFICES ASSUME q = 0 PROVE FALSE
    OBVIOUS
  <2>1. EntriesPerCluster \in Nat \ {0}
    BY DirectoryReadAssumption
  <2>2. 0 % EntriesPerCluster = 0
    BY <2>1
  <2> QED BY <1>3, <2>2
<1>5. q \in Nat /\ 1 <= q /\ q <= p
  BY <1>1, <1>2, <1>4
<1>6. /\ volume[q - 1].type \in ShortTypes
      /\ \A i \in q .. p - 1 : volume[i].seq = p - i
  BY DEF WellFormed
<1>7. LastClusterNumber * EntriesPerCluster + RangeSize \in Int
  BY DirectoryReadAssumption
<1>8. ASSUME NEW i \in q - 1 .. p PROVE i \in Places /\ KindOf(i) = volume[i]
  <2>1. p <= LastClusterNumber * EntriesPerCluster + RangeSize
    BY <1>1
  <2>2. i \in Places
    BY <1>1, <1>5, <1>7, <2>1
  <2> QED BY <2>2 DEF KindOf
<1> QED BY <1>1, <1>2, <1>5, <1>6, <1>8

(* The root directory is had without a search                              *)
(* (libfsfat_file_system_get_file_entry_by_identifier, line 2636).         *)
LEMMA RootSearched == SearchInv /\ SearchRoot /\ UNCHANGED vars => SearchInv'
  BY SearchStops DEF SearchRoot

(* An entry that cannot be read ends the search (line 1656).               *)
LEMMA ReadNotFound == SearchInv /\ SearchFailRead /\ UNCHANGED vars => SearchInv'
  BY SearchStops DEF SearchFailRead

(* A short entry that is searched for is one of the volume.                *)
LEMMA SearchedPlace ==
  ASSUME volume \in [Places -> Kinds], NEW p, KindOf(p).type \in ShortTypes \cup {"file"}
  PROVE  p \in Places
  BY KindOfPlace DEF ShortTypes

(* What the fields of a search are.                                        *)
LEMMA SearchFields ==
  ASSUME NEW s \in SearchRecord
  PROVE  /\ s.identifier \in Nat /\ s.cluster_number \in Nat
         /\ s.position \in Int /\ s.last_vfat_sequence_number \in Nat
         /\ s.names \in Seq(Places)
  BY DEF SearchRecord

(* From a short name the search goes back, or takes no long name (line     *)
(* 1619).                                                                  *)
LEMMA BackStarts ==
  ASSUME SearchInv, SearchFirst, UNCHANGED vars, Searching(search) \in ShortTypes
  PROVE  SearchInv'
<1>0. PICK p : p = search.identifier
  OBVIOUS
<1>1. PICK way : way = IF search.cluster_number > 2 THEN "back" ELSE "name"
  OBVIOUS
<1>2. PICK s : s = [search EXCEPT !.step = way, !.position = search.identifier - 1]
  OBVIOUS
<1>3. search' = s
  BY <1>1, <1>2 DEF SearchFirst, Searching
<1>4. search \in SearchRecord /\ way \in {"back", "name"}
  BY <1>1 DEF SearchInv, SearchedWell
<1>5. search.identifier \in Nat /\ search.identifier - 1 \in Int
  <2>1. search.identifier \in Nat
    BY <1>4, SearchFields
  <2> QED BY <2>1
<1>6. PICK r : r = [search EXCEPT !.step = way]
  OBVIOUS
<1>7. r \in SearchRecord /\ s = [r EXCEPT !.position = search.identifier - 1]
  BY <1>2, <1>4, <1>6 DEF SearchRecord
<1>8. /\ s \in SearchRecord
      /\ s.step = way /\ s.position = p - 1 /\ s.identifier = p
      /\ s.names = search.names /\ s.result = search.result
      /\ s.last_vfat_sequence_number = search.last_vfat_sequence_number
  BY <1>0, <1>4, <1>5, <1>6, <1>7 DEF SearchRecord
<1>9. /\ search.step = "first" /\ search.names = <<>>
      /\ search.last_vfat_sequence_number = 0 /\ search.result # "entry"
      /\ search.cluster_number = ClusterOf(p) + 2
  BY <1>0 DEF SearchFirst, SearchInv, SearchedWell, SearchGoes
<1>10. SearchGoes(s) /\ PartsFound(s) /\ NamesFound(s)
  <2>1. SearchGoes(s)
    BY <1>0, <1>4, <1>8, <1>9 DEF SearchGoes, Searching
  <2>2. Len(s.names) = 0
    BY <1>8, <1>9
  <2>3. PartsFound(s) /\ NamesFound(s)
    BY <1>8, <1>9, <2>2 DEF PartsFound, NamesFound
  <2> QED BY <2>1, <2>3
<1>11. WellFormedFound(s)
  <2> SUFFICES ASSUME WellFormed(p) PROVE WellFormedFound(s)
    BY <1>8 DEF WellFormedFound
  <2>1. PICK q : q = NameStart(p)
    OBVIOUS
  <2>2. p \in Places
    BY <1>0, SearchedPlace DEF SearchInv, Searching
  <2>3. p \in Nat /\ q \in Nat /\ q <= p
    BY <2>1, <2>2, WellFormedIs DEF SearchInv
  <2>4. ClusterOf(p) \in Nat
    BY <2>3, ClusterOfIs
  <2>5. CASE ClusterOf(p) = 0
    <3>1. way = "name"
      BY <1>1, <1>9, <2>5
    <3> QED BY <1>8, <1>9, <2>5, <3>1 DEF WellFormedFound
  <2>6. CASE ClusterOf(p) # 0
    <3>1. way = "back"
      BY <1>1, <1>9, <2>4, <2>6
    <3>2. p - 1 \in q - 1 .. p - 1 /\ (p - 1) + 1 = p /\ p - (p - 1) - 1 = 0
      BY <2>3
    <3>3. s.names = Run(s.position + 1, p)
      BY <1>8, <1>9, <2>3, <3>2, EmptyRun
    <3> QED BY <1>8, <1>9, <2>1, <2>6, <3>1, <3>2, <3>3 DEF WellFormedFound
  <2> QED BY <2>5, <2>6
<1>12. UNCHANGED <<volume, allocation_table>>
  BY DEF vars, inputs
<1> QED BY <1>3, <1>8, <1>10, <1>11, <1>12, SearchGoesOn DEF SearchedWell

(* From a file of exFAT it goes forth (line 1768).                         *)
LEMMA ForthStarts ==
  ASSUME SearchInv, SearchFirst, UNCHANGED vars, Searching(search) = "file"
  PROVE  SearchInv'
<1>0. PICK p : p = search.identifier
  OBVIOUS
<1>1. PICK s : s = [search EXCEPT !.step = "forth", !.position = search.identifier + 1]
  OBVIOUS
<1>2. search' = s
  BY <1>1 DEF SearchFirst, Searching, ShortTypes
<1>3. search \in SearchRecord
  BY DEF SearchInv, SearchedWell
<1>4. search.identifier \in Nat /\ search.identifier + 1 \in Int
  <2>1. search.identifier \in Nat
    BY <1>3, SearchFields
  <2> QED BY <2>1
<1>5. PICK r : r = [search EXCEPT !.step = "forth"]
  OBVIOUS
<1>6. r \in SearchRecord /\ s = [r EXCEPT !.position = search.identifier + 1]
  BY <1>1, <1>3, <1>5 DEF SearchRecord
<1>7. /\ s \in SearchRecord
      /\ s.step = "forth" /\ s.identifier = p
      /\ s.names = search.names /\ s.result = search.result
  BY <1>0, <1>3, <1>4, <1>5, <1>6 DEF SearchRecord
<1>8. /\ search.step = "first" /\ search.names = <<>> /\ search.result # "entry"
  BY DEF SearchFirst, SearchInv, SearchedWell, SearchGoes
<1>9. Searching(s) = "file" /\ Searching(s) \notin ShortTypes
  BY <1>0, <1>7 DEF Searching, ShortTypes
<1>10. SearchGoes(s) /\ PartsFound(s) /\ WellFormedFound(s)
  BY <1>7, <1>8, <1>9 DEF SearchGoes, PartsFound, WellFormedFound
<1>11. NamesFound(s)
  <2>1. Len(s.names) = 0
    BY <1>7, <1>8
  <2> QED BY <2>1 DEF NamesFound
<1>12. UNCHANGED <<volume, allocation_table>>
  BY DEF vars, inputs
<1> QED BY <1>2, <1>7, <1>10, <1>11, <1>12, SearchGoesOn DEF SearchedWell

(* Any other entry is none of a file (line 1585).                          *)
LEMMA FirstSearched == SearchInv /\ SearchFirst /\ UNCHANGED vars => SearchInv'
<1> SUFFICES ASSUME SearchInv, SearchFirst, UNCHANGED vars PROVE SearchInv'
  OBVIOUS
<1>1. CASE Searching(search) \in ShortTypes
  BY <1>1, BackStarts
<1>2. CASE Searching(search) = "file"
  BY <1>2, ForthStarts
<1>3. CASE Searching(search) \notin ShortTypes /\ Searching(search) # "file"
  <2>1. search' = Ends("error")
    BY <1>3 DEF SearchFirst, Searching
  <2> QED BY <2>1, SearchStops
<1> QED BY <1>1, <1>2, <1>3

(* A part in front of those that are numbered one by one.                  *)
LEMMA NumbersGrow ==
  ASSUME NEW names \in Seq(Places), NEW q \in Places, NEW more, more = <<q>> \o names,
         \A i \in 1 .. Len(names) - 1 :
           volume[names[i + 1]].seq # 0 =>
             volume[names[i]].seq = volume[names[i + 1]].seq + 1,
         names # <<>> /\ volume[names[1]].seq # 0 => volume[q].seq = volume[names[1]].seq + 1
  PROVE  \A i \in 1 .. Len(more) - 1 :
           volume[more[i + 1]].seq # 0 =>
             volume[more[i]].seq = volume[more[i + 1]].seq + 1
<1>1. PICK n \in Nat : n = Len(names)
  OBVIOUS
<1>2. /\ more \in Seq(Places) /\ Len(more) = n + 1 /\ more[1] = q
      /\ \A i \in 1 .. n : more[i + 1] = names[i]
  BY <1>1, Prepended
<1>3. ASSUME NEW i \in 1 .. n, volume[more[i + 1]].seq # 0
      PROVE  volume[more[i]].seq = volume[more[i + 1]].seq + 1
  <2>1. more[i + 1] = names[i]
    BY <1>2
  <2>2. CASE i = 1
    <3>1. names # <<>>
      BY <1>1
    <3> QED BY <1>2, <1>3, <2>1, <2>2, <3>1
  <2>3. CASE i # 1
    <3>1. PICK j \in 1 .. n - 1 : i = j + 1
      <4>1. i - 1 \in 1 .. n - 1 /\ i = (i - 1) + 1
        BY <2>3
      <4> QED BY <4>1
    <3>2. j \in 1 .. n
      BY <3>1
    <3>3. more[i] = names[j]
      BY <1>2, <3>1, <3>2
    <3>4. names[i] = names[j + 1]
      BY <3>1
    <3> QED BY <1>1, <1>3, <2>1, <3>1, <3>3, <3>4
  <2> QED BY <2>2, <2>3
<1>4. Len(more) - 1 = n
  BY <1>2
<1> QED BY <1>3, <1>4

(* A part of a name that is met comes in front of those found (line 1667). *)
LEMMA LongNameSearched == SearchInv /\ BackLongName /\ UNCHANGED vars => SearchInv'
<1> SUFFICES ASSUME SearchInv, BackLongName, UNCHANGED vars PROVE SearchInv'
  OBVIOUS
<1>1. PICK p : p = search.identifier
  OBVIOUS
<1>2. PICK pos : pos = search.position
  OBVIOUS
<1>3. PICK number : number = KindOf(pos).seq
  OBVIOUS
<1>4. search \in SearchRecord /\ volume \in [Places -> Kinds]
  BY DEF SearchInv, SearchedWell
<1>5. search.step = "back" /\ IsLong(KindOf(pos))
  BY <1>2 DEF BackLongName
<1>6. pos \in Places /\ pos \in Nat /\ KindOf(pos) = volume[pos] /\ number \in Nat
  BY <1>3, <1>4, <1>5, KindOfPlace DEF IsLong
<1>7. CASE search.last_vfat_sequence_number # 0
             /\ search.last_vfat_sequence_number + 1 # number
  <2>1. search' = Ends("error")
    BY <1>2, <1>3, <1>7 DEF BackLongName
  <2> QED BY <2>1, SearchStops
<1>8. CASE ~ (search.last_vfat_sequence_number # 0
                /\ search.last_vfat_sequence_number + 1 # number)
  <2>1. PICK more : more = <<pos>> \o search.names
    OBVIOUS
  <2>2. PICK s : s = [search EXCEPT !.names = more,
                        !.last_vfat_sequence_number = number, !.position = pos - 1]
    OBVIOUS
  <2>3. search' = s
    BY <1>2, <1>3, <1>8, <2>1, <2>2 DEF BackLongName
  <2>4. search.names \in Seq(Places)
    BY <1>4, SearchFields
  <2>5. more \in Seq(Places)
    BY <1>6, <2>1, <2>4, Prepended
  <2>6. PICK r : r = [search EXCEPT !.names = more]
    OBVIOUS
  <2>7. PICK u : u = [r EXCEPT !.last_vfat_sequence_number = number]
    OBVIOUS
  <2>8. r \in SearchRecord
    BY <1>4, <2>5, <2>6 DEF SearchRecord
  <2>9. u \in SearchRecord
    BY <1>6, <2>7, <2>8 DEF SearchRecord
  <2>10. s = [u EXCEPT !.position = pos - 1]
    BY <1>4, <2>2, <2>6, <2>7 DEF SearchRecord
  <2>11. pos - 1 \in Int
    BY <1>6
  <2>12. /\ s \in SearchRecord
         /\ s.step = search.step /\ s.identifier = p /\ s.result = search.result
         /\ s.names = more /\ s.last_vfat_sequence_number = number /\ s.position = pos - 1
    BY <1>1, <1>4, <2>6, <2>7, <2>8, <2>9, <2>10, <2>11 DEF SearchRecord
  <2>13. Searching(s) = Searching(search) /\ Searching(search) \in ShortTypes
    BY <1>1, <1>5, <2>12 DEF SearchInv, SearchedWell, SearchGoes, Searching
  <2>14. SearchGoes(s)
    BY <1>5, <2>12, <2>13 DEF SearchInv, SearchedWell, SearchGoes
  <2>15. NamesFound(s)
    BY <2>13 DEF NamesFound, ShortTypes
  <2>16. PartsFound(s)
    <3>1. /\ \A i \in 1 .. Len(search.names) - 1 :
               volume[search.names[i + 1]].seq # 0 =>
                 volume[search.names[i]].seq = volume[search.names[i + 1]].seq + 1
          /\ search.last_vfat_sequence_number =
               IF Len(search.names) = 0 THEN 0 ELSE volume[search.names[1]].seq
      BY <1>5, <2>13 DEF SearchInv, SearchedWell, PartsFound
    <3>2. search.names # <<>> /\ volume[search.names[1]].seq # 0
            => volume[pos].seq = volume[search.names[1]].seq + 1
      <4> SUFFICES ASSUME search.names # <<>>, volume[search.names[1]].seq # 0
                   PROVE  volume[pos].seq = volume[search.names[1]].seq + 1
        OBVIOUS
      <4>1. Len(search.names) # 0
        BY <2>4
      <4>2. search.last_vfat_sequence_number = volume[search.names[1]].seq
        BY <3>1, <4>1
      <4> QED BY <1>3, <1>6, <1>8, <4>2
    <3>3. \A i \in 1 .. Len(more) - 1 :
            volume[more[i + 1]].seq # 0 =>
              volume[more[i]].seq = volume[more[i + 1]].seq + 1
      BY <1>6, <2>1, <2>4, <3>1, <3>2, NumbersGrow
    <3>4. Len(more) # 0 /\ more[1] = pos
      <4>1. Len(search.names) \in Nat
        BY <2>4
      <4>2. Len(more) = Len(search.names) + 1 /\ more[1] = pos
        BY <1>6, <2>1, <2>4, Prepended
      <4> QED BY <4>1, <4>2
    <3>5. s.last_vfat_sequence_number = volume[s.names[1]].seq
      BY <1>3, <1>6, <2>12, <3>4
    <3> QED BY <2>12, <3>3, <3>4, <3>5 DEF PartsFound
  <2>17. WellFormedFound(s)
    <3> SUFFICES ASSUME WellFormed(p) PROVE WellFormedFound(s)
      BY <2>12 DEF WellFormedFound
    <3>1. PICK q : q = NameStart(p)
      OBVIOUS
    <3>2. p \in Places
      BY <1>1, <1>4, <2>13, SearchedPlace DEF Searching
    <3>3. /\ p \in Nat /\ q \in Nat /\ 1 <= q /\ q <= p
          /\ volume[q - 1].type \in ShortTypes
          /\ \A i \in q .. p - 1 : volume[i].seq = p - i
      BY <1>4, <3>1, <3>2, WellFormedIs
    <3>4. /\ ClusterOf(p) # 0
          /\ pos \in q - 1 .. p - 1
          /\ search.names = Run(pos + 1, p)
      BY <1>1, <1>2, <1>5, <2>13, <3>1 DEF SearchInv, SearchedWell, WellFormedFound
    <3>5. pos # q - 1
      BY <1>5, <1>6, <3>3 DEF IsLong, ShortTypes
    <3>6. pos \in q .. p - 1
      BY <3>3, <3>4, <3>5
    <3>7. number = p - pos
      BY <1>3, <1>6, <3>3, <3>6
    <3>8. pos - 1 \in q - 1 .. p - 1 /\ (pos - 1) + 1 = pos /\ p - (pos - 1) - 1 = p - pos
      BY <1>6, <3>3, <3>6
    <3>9. more = Run(pos, p)
      <4>1. pos < p
        BY <1>6, <3>3, <3>6
      <4> QED BY <1>6, <2>1, <3>3, <3>4, <4>1, RunGrows
    <3>10. s.names = Run(s.position + 1, p)
      BY <2>12, <3>8, <3>9
    <3>11. s.step # "name" /\ s.result # "entry"
      BY <1>5, <2>12 DEF SearchInv, SearchedWell, SearchGoes
    <3>12. /\ s.position \in NameStart(p) - 1 .. p - 1
           /\ s.last_vfat_sequence_number = p - s.position - 1
      BY <2>12, <3>1, <3>7, <3>8
    <3> QED BY <2>12, <3>4, <3>10, <3>11, <3>12 DEF WellFormedFound
  <2>18. UNCHANGED <<volume, allocation_table>>
    BY DEF vars, inputs
  <2> QED BY <2>3, <2>12, <2>14, <2>15, <2>16, <2>17, <2>18, SearchGoesOn DEF SearchedWell
<1> QED BY <1>7, <1>8

(* A search that goes back, or stops at the beginning of a name, with what *)
(* it has found.                                                           *)
LEMMA BackGoesOn ==
  ASSUME SearchInv, UNCHANGED vars, search.step = "back", NEW s \in SearchRecord, search' = s,
         s.step \in {"back", "name"}, s.identifier = search.identifier,
         s.names = search.names, s.result = search.result,
         s.last_vfat_sequence_number = search.last_vfat_sequence_number,
         WellFormedFound(s)
  PROVE  SearchInv'
<1>1. Searching(s) = Searching(search) /\ Searching(search) \in ShortTypes
  BY DEF SearchInv, SearchedWell, SearchGoes, Searching
<1>2. SearchGoes(s)
  BY <1>1 DEF SearchInv, SearchedWell, SearchGoes
<1>3. PartsFound(s)
  BY <1>1 DEF SearchInv, SearchedWell, PartsFound
<1>4. NamesFound(s)
  BY <1>1 DEF NamesFound, ShortTypes
<1>5. UNCHANGED <<volume, allocation_table>>
  BY DEF vars, inputs
<1> QED BY <1>2, <1>3, <1>4, <1>5, SearchGoesOn DEF SearchedWell

(* At an entry that is no part the whole of a well formed name is found.   *)
LEMMA WellFormedEnds ==
  ASSUME SearchInv, search.step = "back", ~ IsLong(KindOf(search.position)),
         WellFormed(search.identifier)
  PROVE  /\ ClusterOf(search.identifier) # 0
         /\ KindOf(search.position).type \in ShortTypes
         /\ search.names = Run(NameStart(search.identifier), search.identifier)
<1>1. PICK p : p = search.identifier
  OBVIOUS
<1>2. PICK q : q = NameStart(p)
  OBVIOUS
<1>3. volume \in [Places -> Kinds] /\ Searching(search) \in ShortTypes
  BY DEF SearchInv, SearchedWell, SearchGoes
<1>4. p \in Places
  BY <1>1, <1>3, SearchedPlace DEF Searching
<1>5. /\ p \in Nat /\ q \in Nat /\ 1 <= q /\ q <= p
      /\ volume[q - 1].type \in ShortTypes
      /\ \A i \in q - 1 .. p : KindOf(i) = volume[i]
      /\ \A i \in q .. p - 1 : IsLong(volume[i])
  BY <1>1, <1>2, <1>3, <1>4, WellFormedIs
<1>6. PICK pos : pos = search.position
  OBVIOUS
<1>7. ClusterOf(p) # 0 /\ pos \in q - 1 .. p - 1 /\ search.names = Run(pos + 1, p)
  BY <1>1, <1>2, <1>3, <1>6 DEF SearchInv, SearchedWell, WellFormedFound
<1>8. KindOf(pos) = volume[pos] /\ ~ IsLong(volume[pos])
  <2>1. pos \in q - 1 .. p
    BY <1>5, <1>7
  <2> QED BY <1>5, <1>6, <2>1
<1>9. pos = q - 1
  <2> SUFFICES ASSUME pos # q - 1 PROVE FALSE
    OBVIOUS
  <2>1. pos \in q .. p - 1
    BY <1>5, <1>7
  <2> QED BY <1>5, <1>8, <2>1
<1>10. pos + 1 = q
  BY <1>5, <1>9
<1> QED BY <1>1, <1>2, <1>5, <1>6, <1>7, <1>8, <1>9, <1>10

(* Another entry ends the search, or that of its cluster (line 1705).      *)
LEMMA OtherSearched == SearchInv /\ BackOther /\ UNCHANGED vars => SearchInv'
<1> SUFFICES ASSUME SearchInv, BackOther, UNCHANGED vars PROVE SearchInv'
  OBVIOUS
<1>1. search.step = "back" /\ ~ IsLong(KindOf(search.position)) /\ search \in SearchRecord
  BY DEF BackOther, SearchInv, SearchedWell
<1>2. CASE KindOf(search.position).type \in ShortTypes \cup {"terminator"}
  <2>1. PICK s : s = [search EXCEPT !.step = "name"]
    OBVIOUS
  <2>2. search' = s
    BY <1>2, <2>1 DEF BackOther
  <2>3. /\ s \in SearchRecord /\ s.step = "name" /\ s.identifier = search.identifier
        /\ s.names = search.names /\ s.result = search.result
        /\ s.last_vfat_sequence_number = search.last_vfat_sequence_number
    BY <1>1, <2>1 DEF SearchRecord
  <2>4. WellFormedFound(s)
    BY <1>1, <2>3, WellFormedEnds DEF WellFormedFound
  <2> QED BY <1>1, <2>2, <2>3, <2>4, BackGoesOn
<1>3. CASE KindOf(search.position).type \notin ShortTypes \cup {"terminator"}
  <2>1. search' = BackNext
    BY <1>3 DEF BackOther
  <2>2. CASE search.cluster_number >= NumberOfClusters
    BY <2>1, <2>2, SearchStops DEF BackNext
  <2>3. CASE ~ (search.cluster_number >= NumberOfClusters)
    <3>1. PICK cluster : cluster = Reversed(search.cluster_number)
      OBVIOUS
    <3>2. PICK start : start = ClusterStart(cluster)
      OBVIOUS
    <3>3. PICK way : way = IF cluster > 2 THEN "back" ELSE "name"
      OBVIOUS
    <3>4. PICK s : s = [search EXCEPT !.cluster_number = cluster, !.position = start,
                          !.step = way]
      OBVIOUS
    <3>5. search' = s
      BY <2>1, <2>3, <3>1, <3>2, <3>3, <3>4 DEF BackNext
    <3>6. cluster \in Nat /\ start \in Int /\ way \in {"back", "name"}
      BY <3>1, <3>2, <3>3, ReversedIs, ClusterStartIs DEF SearchInv
    <3>7. PICK r : r = [search EXCEPT !.cluster_number = cluster]
      OBVIOUS
    <3>8. PICK u : u = [r EXCEPT !.position = start]
      OBVIOUS
    <3>9. r \in SearchRecord
      BY <1>1, <3>6, <3>7 DEF SearchRecord
    <3>10. u \in SearchRecord
      BY <3>6, <3>8, <3>9 DEF SearchRecord
    <3>11. s = [u EXCEPT !.step = way]
      BY <1>1, <3>4, <3>7, <3>8 DEF SearchRecord
    <3>12. /\ s \in SearchRecord /\ s.step = way /\ s.identifier = search.identifier
           /\ s.names = search.names /\ s.result = search.result
           /\ s.last_vfat_sequence_number = search.last_vfat_sequence_number
      BY ZenonT(60), <1>1, <3>6, <3>7, <3>8, <3>9, <3>10, <3>11 DEF SearchRecord
    <3>13. WellFormedFound(s)
      BY <1>1, <1>3, <3>12, WellFormedEnds DEF WellFormedFound
    <3> QED BY <1>1, <3>5, <3>6, <3>12, <3>13, BackGoesOn
  <2> QED BY <2>2, <2>3
<1> QED BY <1>2, <1>3

-----------------------------------------------------------------------------

(* A search for a file of exFAT.                                           *)
LEMMA ForthGoesOn ==
  ASSUME SearchInv, UNCHANGED vars, search.step = "forth", NEW s \in SearchRecord, search' = s,
         s.step \in {"forth", "name"}, s.identifier = search.identifier,
         s.result = search.result, NamesFound(s)
  PROVE  SearchInv'
<1>1. Searching(s) = Searching(search) /\ Searching(search) = "file"
  BY DEF SearchInv, SearchedWell, SearchGoes, Searching
<1>2. SearchGoes(s)
  BY <1>1 DEF SearchInv, SearchedWell, SearchGoes
<1>3. PartsFound(s) /\ WellFormedFound(s)
  BY <1>1 DEF PartsFound, WellFormedFound, ShortTypes
<1>4. UNCHANGED <<volume, allocation_table>>
  BY DEF vars, inputs
<1> QED BY <1>2, <1>3, <1>4, SearchGoesOn DEF SearchedWell

(* A step forth that finds no part of the name.                            *)
LEMMA ForthKeeps ==
  ASSUME SearchInv, UNCHANGED vars, search.step = "forth", NEW s \in SearchRecord, search' = s,
         s.step \in {"forth", "name"}, s.identifier = search.identifier,
         s.result = search.result, s.names = search.names
  PROVE  SearchInv'
<1>1. NamesFound(s)
  BY DEF SearchInv, SearchedWell, NamesFound, Searching
<1> QED BY <1>1, ForthGoesOn

(* A data stream keeps the next entry from being initialized (line 1786).  *)
LEMMA InitializeSearched == SearchInv /\ ForthFailInitialize /\ UNCHANGED vars => SearchInv'
  BY SearchStops DEF ForthFailInitialize

(* The data stream of the file (line 1817).                                *)
LEMMA DataStreamSearched == SearchInv /\ ForthDataStream /\ UNCHANGED vars => SearchInv'
<1> SUFFICES ASSUME SearchInv, ForthDataStream, UNCHANGED vars PROVE SearchInv'
  OBVIOUS
<1>1. search.step = "forth" /\ search \in SearchRecord
  BY DEF ForthDataStream, Forth, SearchInv, SearchedWell
<1>2. CASE search.data_stream # None
  <2>1. search' = Ends("error")
    BY <1>2 DEF ForthDataStream
  <2> QED BY <2>1, SearchStops
<1>3. CASE search.data_stream = None
  <2>1. PICK pos : pos = search.position
    OBVIOUS
  <2>2. PICK s : s = [search EXCEPT !.data_stream = pos, !.position = pos + 1,
                        !.safe_directory_entry = pos]
    OBVIOUS
  <2>3. search' = s
    BY <1>3, <2>1, <2>2 DEF ForthDataStream
  <2>4. pos \in Int
    BY <1>1, <2>1, SearchFields
  <2>5. PICK r : r = [search EXCEPT !.data_stream = pos]
    OBVIOUS
  <2>6. PICK u : u = [r EXCEPT !.position = pos + 1]
    OBVIOUS
  <2>7. r \in SearchRecord
    BY <1>1, <2>4, <2>5 DEF SearchRecord
  <2>8. pos + 1 \in Int
    BY <2>4
  <2>9. u \in SearchRecord
    BY <2>6, <2>7, <2>8 DEF SearchRecord
  <2>10. s = [u EXCEPT !.safe_directory_entry = pos]
    BY <1>1, <2>2, <2>5, <2>6 DEF SearchRecord
  <2>11. /\ s \in SearchRecord /\ s.step = search.step /\ s.identifier = search.identifier
         /\ s.names = search.names /\ s.result = search.result
    BY ZenonT(60), <1>1, <2>4, <2>5, <2>6, <2>7, <2>9, <2>10 DEF SearchRecord
  <2> QED BY <1>1, <2>3, <2>11, ForthKeeps
<1> QED BY <1>2, <1>3

(* A part of the name of the file (line 1836).                             *)
LEMMA NameSearched == SearchInv /\ ForthName /\ UNCHANGED vars => SearchInv'
<1> SUFFICES ASSUME SearchInv, ForthName, UNCHANGED vars PROVE SearchInv'
  OBVIOUS
<1>1. search.step = "forth" /\ search \in SearchRecord /\ volume \in [Places -> Kinds]
  BY DEF ForthName, Forth, SearchInv, SearchedWell
<1>2. PICK pos : pos = search.position
  OBVIOUS
<1>3. KindOf(pos).type = "name"
  BY <1>2 DEF ForthName
<1>4. pos \in Places /\ pos \in Nat /\ volume[pos].type = "name"
  BY <1>1, <1>3, KindOfPlace
<1>5. PICK more : more = Append(search.names, pos)
  OBVIOUS
<1>6. PICK s : s = [search EXCEPT !.names = more, !.position = pos + 1]
  OBVIOUS
<1>7. search' = s
  BY <1>2, <1>5, <1>6 DEF ForthName
<1>8. search.names \in Seq(Places)
  BY <1>1, SearchFields
<1>9. more \in Seq(Places)
  BY <1>4, <1>5, <1>8
<1>10. PICK r : r = [search EXCEPT !.names = more]
  OBVIOUS
<1>11. r \in SearchRecord
  BY <1>1, <1>9, <1>10 DEF SearchRecord
<1>12. s = [r EXCEPT !.position = pos + 1]
  BY <1>1, <1>6, <1>10 DEF SearchRecord
<1>13. pos + 1 \in Int
  BY <1>4
<1>14. /\ s \in SearchRecord /\ s.step = search.step /\ s.identifier = search.identifier
       /\ s.names = more /\ s.result = search.result
  BY <1>1, <1>10, <1>11, <1>12, <1>13 DEF SearchRecord
<1>15. NamesFound(s)
  <2>1. PICK n \in Nat : n = Len(search.names)
    BY <1>8
  <2>2. \A i \in 1 .. n : volume[search.names[i]].type = "name"
    BY <1>1, <2>1 DEF SearchInv, SearchedWell, SearchGoes, NamesFound
  <2>3. Len(more) = n + 1 /\ more[n + 1] = pos /\ \A i \in 1 .. n : more[i] = search.names[i]
    BY <1>5, <1>8, <2>1
  <2>4. \A i \in 1 .. n + 1 : i \in 1 .. n \/ i = n + 1
    BY <2>1
  <2>5. \A i \in 1 .. n + 1 : volume[more[i]].type = "name"
    BY <1>4, <2>2, <2>3, <2>4
  <2> QED BY <1>14, <2>3, <2>5 DEF NamesFound
<1> QED BY <1>1, <1>7, <1>14, <1>15, ForthGoesOn

(* The next cluster of the chain (line 1882).                              *)
LEMMA NextClusterSearched ==
  ASSUME SearchInv, UNCHANGED vars, search.step = "forth", search' = ForthNext
  PROVE  SearchInv'
<1>1. search \in SearchRecord
  BY DEF SearchInv, SearchedWell
<1>2. CASE search.cluster_number >= NumberOfClusters
  BY <1>2, SearchStops DEF ForthNext
<1>3. CASE ~ (search.cluster_number >= NumberOfClusters)
  <2>1. PICK cluster : cluster = allocation_table[search.cluster_number]
    OBVIOUS
  <2>2. cluster \in Nat
    <3>1. NumberOfClusters \in Nat /\ search.cluster_number \in Nat
      BY <1>1, SearchFields, DirectoryReadAssumption
    <3>2. search.cluster_number \in 0 .. NumberOfClusters - 1
      BY <1>3, <3>1
    <3> QED BY <2>1, <3>2 DEF SearchInv
  <2>3. PICK start : start = ClusterStart(cluster)
    OBVIOUS
  <2>4. start \in Int /\ start + EntriesPerCluster \in Int
    <3>1. start \in Int
      BY <2>2, <2>3, ClusterStartIs
    <3>2. EntriesPerCluster \in Nat
      BY DirectoryReadAssumption
    <3> QED BY <3>1, <3>2
  <2>5. PICK last : last = start + EntriesPerCluster
    OBVIOUS
  <2>6. PICK way : way = IF cluster >= 2 /\ cluster < LastClusterNumber THEN "forth" ELSE "name"
    OBVIOUS
  <2>7. PICK s : s = [search EXCEPT !.cluster_number = cluster, !.position = start,
                        !.end = last, !.step = way]
    OBVIOUS
  <2>8. search' = s
    BY <1>3, <2>1, <2>3, <2>5, <2>6, <2>7 DEF ForthNext
  <2>9. way \in {"forth", "name"}
    BY <2>6
  <2>10. PICK r : r = [search EXCEPT !.cluster_number = cluster]
    OBVIOUS
  <2>11. PICK u : u = [r EXCEPT !.position = start]
    OBVIOUS
  <2>12. PICK w : w = [u EXCEPT !.end = last]
    OBVIOUS
  <2>13. r \in SearchRecord
    BY <1>1, <2>2, <2>10 DEF SearchRecord
  <2>14. u \in SearchRecord
    BY <2>4, <2>11, <2>13 DEF SearchRecord
  <2>15. w \in SearchRecord
    BY <2>4, <2>5, <2>12, <2>14 DEF SearchRecord
  <2>16. s = [w EXCEPT !.step = way]
    BY <1>1, <2>7, <2>10, <2>11, <2>12 DEF SearchRecord
  <2>17. /\ s \in SearchRecord /\ s.step = way /\ s.identifier = search.identifier
         /\ s.names = search.names /\ s.result = search.result
    <3>1. u.identifier = search.identifier /\ u.names = search.names /\ u.result = search.result
      BY <1>1, <2>10, <2>11, <2>13 DEF SearchRecord
    <3>2. w.identifier = search.identifier /\ w.names = search.names /\ w.result = search.result
      BY <2>12, <2>14, <3>1 DEF SearchRecord
    <3> QED BY <2>9, <2>15, <2>16, <3>2 DEF SearchRecord
  <2> QED BY <2>8, <2>9, <2>17, ForthKeeps
<1> QED BY <1>2, <1>3

(* The end of a cluster (line 1876).                                       *)
LEMMA ClusterSearched == SearchInv /\ ForthCluster /\ UNCHANGED vars => SearchInv'
  BY NextClusterSearched DEF ForthCluster

(* Another entry ends the search, or that of its cluster (line 1855).      *)
LEMMA OtherPassed == SearchInv /\ ForthOther /\ UNCHANGED vars => SearchInv'
<1> SUFFICES ASSUME SearchInv, ForthOther, UNCHANGED vars PROVE SearchInv'
  OBVIOUS
<1>1. search.step = "forth" /\ search \in SearchRecord
  BY DEF ForthOther, Forth, SearchInv, SearchedWell
<1>2. CASE KindOf(search.position).type \in {"file", "terminator"}
  <2>1. PICK s : s = [search EXCEPT !.step = "name"]
    OBVIOUS
  <2>2. search' = s
    BY <1>2, <2>1 DEF ForthOther
  <2>3. /\ s \in SearchRecord /\ s.step = "name" /\ s.identifier = search.identifier
        /\ s.names = search.names /\ s.result = search.result
    BY <1>1, <2>1 DEF SearchRecord
  <2> QED BY <1>1, <2>2, <2>3, ForthKeeps
<1>3. CASE KindOf(search.position).type \notin {"file", "terminator"}
  BY <1>1, <1>3, NextClusterSearched DEF ForthOther
<1> QED BY <1>2, <1>3

-----------------------------------------------------------------------------

(* Parts that are kept for the name of a well formed one are all of them.  *)
LEMMA NamePartsAre ==
  ASSUME SearchInv, search.step = "name"
  PROVE  /\ NameParts \in {<<>>, search.names}
         /\ Searching(search) = "file" => NameParts = search.names
         /\ WellFormed(search.identifier) /\ Searching(search) \in ShortTypes =>
              NameParts = search.names
<1>1. NameParts \in {<<>>, search.names}
  BY DEF NameParts
<1>2. ASSUME Searching(search) = "file" PROVE NameParts = search.names
  BY <1>2 DEF NameParts, Searching, ShortTypes
<1>3. ASSUME WellFormed(search.identifier), Searching(search) \in ShortTypes,
             search.last_vfat_sequence_number = 0
      PROVE  search.names = <<>>
  <2>1. PICK p : p = search.identifier
    OBVIOUS
  <2>2. PICK q : q = NameStart(p)
    OBVIOUS
  <2>3. volume \in [Places -> Kinds] /\ search.names \in Seq(Places)
    BY SearchFields DEF SearchInv, SearchedWell
  <2>4. p \in Places
    BY <1>3, <2>1, <2>3, SearchedPlace DEF Searching
  <2>5. /\ p \in Nat /\ q \in Nat /\ q <= p
        /\ \A i \in q .. p - 1 : volume[i].seq = p - i
    BY <1>3, <2>1, <2>2, <2>3, <2>4, WellFormedIs
  <2>6. CASE ClusterOf(p) = 0
    BY <1>3, <2>1, <2>6 DEF SearchInv, SearchedWell, WellFormedFound
  <2>7. CASE ClusterOf(p) # 0
    <3>1. search.names = Run(q, p)
      BY <1>3, <2>1, <2>2, <2>7 DEF SearchInv, SearchedWell, WellFormedFound
    <3>2. CASE q = p
      BY <2>5, <3>1, <3>2, EmptyRun
    <3>3. CASE q # p
      <4>1. PICK n \in Nat : p - q = n + 1
        <5>1. p - q - 1 \in Nat /\ p - q = (p - q - 1) + 1
          BY <2>5, <3>3
        <5> QED BY <5>1
      <4>2. search.names = [i \in 1 .. n + 1 |-> q + i - 1]
        BY <3>1, <4>1 DEF Run
      <4>3. Len(search.names) = n + 1 /\ search.names[1] = q
        BY <2>5, <4>2
      <4>4. search.last_vfat_sequence_number = volume[q].seq
        BY <1>3, <4>3 DEF SearchInv, SearchedWell, PartsFound
      <4>5. volume[q].seq = p - q
        BY <2>5, <3>3
      <4> QED BY <1>3, <4>1, <4>4, <4>5
    <3> QED BY <3>2, <3>3
  <2> QED BY <2>6, <2>7
<1>4. ASSUME WellFormed(search.identifier), Searching(search) \in ShortTypes
      PROVE  NameParts = search.names
  BY <1>3, <1>4 DEF NameParts
<1> QED BY <1>1, <1>2, <1>4

(* The name is decoded and the file entry made (lines 1751 and 1904).      *)
LEMMA NameTakenFrom == SearchInv /\ SearchName /\ UNCHANGED vars => SearchInv'
<1> SUFFICES ASSUME SearchInv, SearchName, UNCHANGED vars PROVE SearchInv'
  OBVIOUS
<1>1. search.step = "name" /\ search \in SearchRecord
  BY DEF SearchName, SearchInv, SearchedWell
<1>2. PICK s : s = [Ends("entry") EXCEPT !.names = NameParts]
  OBVIOUS
<1>3. search' = s
  BY <1>2 DEF SearchName
<1>4. PICK r : r = [search EXCEPT !.step = "done"]
  OBVIOUS
<1>5. PICK u : u = [r EXCEPT !.result = "entry"]
  OBVIOUS
<1>6. r \in SearchRecord /\ u \in SearchRecord /\ u = Ends("entry")
  BY <1>1, <1>4, <1>5 DEF SearchRecord, Ends
<1>7. NameParts \in Seq(Places)
  <2>1. search.names \in Seq(Places) /\ <<>> \in Seq(Places)
    BY <1>1, SearchFields
  <2> QED BY <1>1, <2>1, NamePartsAre
<1>8. s = [u EXCEPT !.names = NameParts]
  BY <1>2, <1>6
<1>9. /\ s \in SearchRecord /\ s.step = "done" /\ s.result = "entry"
      /\ s.identifier = search.identifier /\ s.names = NameParts
  BY <1>1, <1>4, <1>5, <1>6, <1>7, <1>8 DEF SearchRecord
<1>10. Searching(s) = Searching(search) /\ Searching(search) \in ShortTypes \cup {"file"}
  BY <1>1, <1>9 DEF Searching, SearchInv, SearchedWell, SearchGoes
<1>11. SearchGoes(s)
  BY <1>9, <1>10 DEF SearchGoes
<1>12. PartsFound(s)
  <2>1. CASE s.names = <<>>
    BY <1>9, <2>1 DEF PartsFound
  <2>2. CASE s.names = search.names
    BY <1>9, <1>10, <2>2 DEF SearchInv, SearchedWell, PartsFound
  <2> QED BY <1>9, <2>1, <2>2, NamePartsAre, <1>1
<1>13. NamesFound(s)
  BY <1>1, <1>9, <1>10, NamePartsAre DEF SearchInv, SearchedWell, NamesFound
<1>14. WellFormedFound(s)
  BY <1>1, <1>9, <1>10, NamePartsAre DEF SearchInv, SearchedWell, WellFormedFound
<1>15. UNCHANGED <<volume, allocation_table>>
  BY DEF vars, inputs
<1> QED BY <1>3, <1>9, <1>11, <1>12, <1>13, <1>14, <1>15, SearchGoesOn DEF SearchedWell

(* The reading of a directory changes neither the volume nor the table.    *)
LEMMA InputsStay ==
  ASSUME Step \/ FailRead
  PROVE  UNCHANGED <<volume, allocation_table>>
<1>1. CASE EnterCluster \/ LeaveChain \/ NextCluster \/ FailTable \/ LeaveRange
             \/ FailFirstRead \/ FailRead
  BY <1>1 DEF EnterCluster, LeaveChain, NextCluster, FailTable, LeaveRange, FailFirstRead,
              FailRead, FailEntry, Return, inputs
<1>2. CASE ReadTerminator \/ ReadUnallocated \/ ReadSelf \/ ReadParent \/ ReadLabel
  BY <1>2 DEF ReadTerminator, ReadUnallocated, ReadSelf, ReadParent, ReadLabel, FailEntry,
              Keep, Return, inputs
<1>3. CASE ReadShortName \/ ReadLongName \/ ReadFile \/ ReadDataStream \/ ReadFileName
             \/ ReadOther
  BY <1>3 DEF ReadShortName, ReadLongName, ReadFile, ReadDataStream, ReadFileName, ReadOther,
              FailEntry, Keep, Return, inputs
<1> QED BY <1>1, <1>2, <1>3 DEF Step, ReadEntry

(* A reading, and a step that changes nothing, leave the search alone.     *)
LEMMA SearchStays ==
  ASSUME SearchInv, UNCHANGED <<volume, allocation_table, search>>
  PROVE  SearchInv'
<1>1. PICK s : s = search
  OBVIOUS
<1>2. search' = s /\ SearchedWell(s)
  BY <1>1 DEF SearchInv
<1> QED BY <1>2, SearchGoesOn

(* Every step of a lookup keeps the invariant.                             *)
LEMMA SearchNextInv == SearchInv /\ [ReadOrSearch]_<<vars, search>> => SearchInv'
<1> SUFFICES ASSUME SearchInv, [ReadOrSearch]_<<vars, search>> PROVE SearchInv'
  OBVIOUS
<1>1. CASE ReadStep \/ (FailRead /\ UNCHANGED search)
  BY <1>1, InputsStay, SearchStays DEF ReadStep
<1>2. CASE SearchStep
  BY <1>2, RootSearched, FirstSearched, LongNameSearched, OtherSearched, InitializeSearched,
     DataStreamSearched, NameSearched, OtherPassed, ClusterSearched, NameTakenFrom
     DEF SearchStep
<1>3. CASE SearchFailRead /\ UNCHANGED vars
  BY <1>3, ReadNotFound
<1>4. CASE UNCHANGED <<vars, search>>
  BY <1>4, SearchStays DEF vars, inputs
<1> QED BY <1>1, <1>2, <1>3, <1>4 DEF ReadOrSearch

(* A search that has found nothing yet.                                    *)
LEMMA SearchedStarts ==
  ASSUME volume \in [Places -> Kinds], NEW s \in SearchRecord,
         s.step \in {"none", "first"}, s.result = "running", s.names = <<>>,
         s.last_vfat_sequence_number = 0,
         s.step = "first" => s.cluster_number = ClusterOf(s.identifier) + 2
  PROVE  SearchedWell(s)
<1>1. Len(s.names) = 0
  OBVIOUS
<1>2. SearchGoes(s)
  BY DEF SearchGoes
<1>3. PartsFound(s) /\ NamesFound(s)
  BY <1>1 DEF PartsFound, NamesFound
<1>4. WellFormedFound(s)
  BY DEF WellFormedFound
<1> QED BY <1>2, <1>3, <1>4 DEF SearchedWell

(* A lookup starts at any entry of the first clusters.                     *)
LEMMA SearchInitInv == SearchInit => SearchInv
<1> SUFFICES ASSUME SearchInit PROVE SearchInv
  OBVIOUS
<1>1. /\ volume \in [Places -> Kinds]
      /\ allocation_table \in [0 .. NumberOfClusters - 1 -> Nat]
  BY DirectoryReadAssumption DEF SearchInit, Init
<1>2. <<>> \in Seq(Places) /\ None \in Int
  BY DEF None
<1>3. Searched \in SearchRecord
  BY <1>2 DEF Searched, SearchRecord
<1>4. CASE search = Searched
  <2>1. /\ search.step = "none" /\ search.result = "running" /\ search.names = <<>>
        /\ search.last_vfat_sequence_number = 0
    BY <1>4 DEF Searched
  <2> QED BY <1>1, <1>3, <1>4, <2>1, SearchedStarts DEF SearchInv
<1>5. ASSUME NEW p \in 0 .. 2 * EntriesPerCluster - 1, search = Search(p)
      PROVE  SearchInv
  <2>1. EntriesPerCluster \in Nat \ {0} /\ FirstClusterOffset \in Nat
    BY DirectoryReadAssumption, EntryByIdentifierAssumption
  <2>2. p \in Nat
    BY <1>5, <2>1
  <2>3. PICK cluster \in Nat : cluster = ClusterOf(p)
    BY <2>2, ClusterOfIs
  <2>4. PICK last \in Int : last = (ClusterOf(p) + 1) * EntriesPerCluster - FirstClusterOffset
    <3>1. (cluster + 1) * EntriesPerCluster - FirstClusterOffset \in Int
      BY <2>1
    <3> QED BY <2>3, <3>1
  <2>5. PICK begin : begin = Searched
    OBVIOUS
  <2>6. begin \in SearchRecord
    BY <1>3, <2>5
  <2>7. /\ begin.result = "running" /\ begin.names = <<>>
        /\ begin.last_vfat_sequence_number = 0
    BY <2>5 DEF Searched
  <2>8. search = [begin EXCEPT !.step = "first", !.identifier = p,
                    !.cluster_number = cluster + 2, !.end = last]
    BY <1>5, <2>3, <2>4, <2>5 DEF Search
  <2>9. PICK r : r = [begin EXCEPT !.step = "first"]
    OBVIOUS
  <2>10. PICK u : u = [r EXCEPT !.identifier = p]
    OBVIOUS
  <2>11. PICK w : w = [u EXCEPT !.cluster_number = cluster + 2]
    OBVIOUS
  <2>12. PICK s : s = [w EXCEPT !.end = last]
    OBVIOUS
  <2>13. r \in SearchRecord
    BY <2>6, <2>9 DEF SearchRecord
  <2>14. u \in SearchRecord
    BY <2>2, <2>10, <2>13 DEF SearchRecord
  <2>15. w \in SearchRecord
    <3>1. cluster + 2 \in Nat
      OBVIOUS
    <3> QED BY <2>11, <2>14, <3>1 DEF SearchRecord
  <2>16. s \in SearchRecord
    BY <2>12, <2>15 DEF SearchRecord
  <2>17. search = s
    BY <2>6, <2>8, <2>9, <2>10, <2>11, <2>12 DEF SearchRecord
  <2>18. /\ u.step = "first" /\ u.result = "running" /\ u.names = <<>>
         /\ u.last_vfat_sequence_number = 0 /\ u.identifier = p
    BY <2>6, <2>7, <2>9, <2>10, <2>13 DEF SearchRecord
  <2>19. /\ s.step = "first" /\ s.result = "running" /\ s.names = <<>>
         /\ s.last_vfat_sequence_number = 0 /\ s.cluster_number = ClusterOf(s.identifier) + 2
    BY <2>3, <2>11, <2>12, <2>14, <2>15, <2>18 DEF SearchRecord
  <2> QED BY <1>1, <2>16, <2>17, <2>19, SearchedStarts DEF SearchInv
<1> QED BY <1>4, <1>5 DEF SearchInit

(* The invariant gives the property at the end of the search.              *)
LEMMA SearchInvEntryAsListed == SearchInv => EntryAsListed
<1> SUFFICES ASSUME SearchInv, search.result = "entry" PROVE EntryAsListed
  BY DEF EntryAsListed
<1>1. PICK p : p = search.identifier
  OBVIOUS
<1>2. /\ volume \in [Places -> Kinds] /\ search \in SearchRecord
      /\ Searching(search) \in ShortTypes \cup {"file"}
  BY DEF SearchInv, SearchedWell, SearchGoes
<1>3. p \in Places /\ Searching(search) = volume[p].type
  <2>1. p \in Places
    BY <1>1, <1>2, SearchedPlace DEF Searching
  <2> QED BY <1>1, <1>2, <2>1 DEF Searching, KindOf
<1>4. volume[p].type \in ShortTypes /\ WellFormed(p) =>
        search.names = IF ClusterOf(p) = 0 THEN <<>>
                       ELSE [i \in 1 .. p - NameStart(p) |-> NameStart(p) + i - 1]
  BY <1>1, <1>3 DEF SearchInv, SearchedWell, WellFormedFound, Run
<1>5. volume[p].type \in ShortTypes =>
        \A i \in 1 .. Len(search.names) - 1 :
          volume[search.names[i + 1]].seq # 0 =>
            volume[search.names[i]].seq = volume[search.names[i + 1]].seq + 1
  BY <1>3 DEF SearchInv, SearchedWell, PartsFound
<1>6. volume[p].type = "file" =>
        \A i \in DOMAIN search.names : volume[search.names[i]].type = "name"
  <2>1. DOMAIN search.names = 1 .. Len(search.names)
    BY <1>2, SearchFields
  <2> QED BY <1>3, <2>1 DEF SearchInv, SearchedWell, NamesFound
<1> QED BY <1>1, <1>4, <1>5, <1>6 DEF EntryAsListed

(* Every state of a lookup accounts for the parts that were found          *)
(* (libfsfat_file_system_read_directory_entry_by_identifier,               *)
(* libfsfat_file_system.c:1485-1960).                                      *)
THEOREM SearchesGoWell == SearchSpec => []SearchInv
<1>1. SearchInit => SearchInv
  BY SearchInitInv
<1>2. SearchInv /\ [ReadOrSearch]_<<vars, search>> => SearchInv'
  BY SearchNextInv
<1> QED BY <1>1, <1>2, PTL DEF SearchSpec

(* An entry that is found by its identifier has the long name that reading *)
(* its directory gives it, where that name lies in one cluster behind      *)
(* another entry, and none in the first bytes of the volume; the parts of  *)
(* any name are numbered one by one, but for what comes before a part     *)
(* numbered 0; a name of exFAT is made of name                             *)
(* entries (lines 1619-1903).                                              *)
THEOREM EntriesAsListed == SearchSpec => []EntryAsListed
<1>1. SearchInv => EntryAsListed
  BY SearchInvEntryAsListed
<1> QED BY <1>1, SearchesGoWell, PTL

=============================================================================
