---------------------------- MODULE MCStructures ----------------------------
(* Digits of two values: a byte is a number below 4.  Sectors of four or   *)
(* of eight bytes, and numbers that wrap at 64 and at 8192.  Names of a    *)
(* few letters in parts of one to three.  Every day, legal or not, of      *)
(* years at the ends of centuries and of the range.                        *)
EXTENDS Structures

Merged(f, g) == [x \in DOMAIN f |-> IF x \in DOMAIN g THEN g[x] ELSE f[x]]

(* One sector is reserved, one table of two sectors, four clusters.        *)
Plain ==
  [signature |-> TRUE, exfat |-> FALSE, bytes_per_sector |-> 4,
   sectors_per_cluster_block |-> 1, reserved |-> 1, tables |-> 1,
   root_entries |-> 1, sectors_16bit |-> 7, sectors_32bit |-> 0,
   table_16bit |-> 2, table_32bit |-> 0, root_cluster |-> 0,
   table_offset |-> 0, first_cluster_offset |-> 0, clusters |-> 0]

PlainExfat ==
  Merged(Plain, [exfat |-> TRUE, bytes_per_sector |-> 2, clusters |-> 3,
                 sectors_per_cluster_block |-> 0, table_32bit |-> 3,
                 first_cluster_offset |-> 4, root_cluster |-> 2])

Zeros(bytes) == [i \in 0 .. bytes - 1 |-> 0]

(* The numbers of a boot record, over an empty table.                      *)
Sectors ==
  {Merged(Plain, numbers) : numbers \in
     [bytes_per_sector : {4, 8}, sectors_per_cluster_block : {1, 2},
      reserved : {1, 3}, tables : {1, 2, 31}, root_entries : {0, 3},
      sectors_16bit : {0, 7, 12}, sectors_32bit : {0, 9, 15},
      table_16bit : {0, 1, 2}, table_32bit : {1, 2}]}
  \cup {Merged(Plain, field) : field \in
          {[signature |-> FALSE], [bytes_per_sector |-> 3],
           [sectors_per_cluster_block |-> 3]}}
  \cup {Merged(PlainExfat, field) : field \in
          {[signature |-> FALSE], [bytes_per_sector |-> 1],
           [sectors_per_cluster_block |-> 3],
           [bytes_per_sector |-> 3, sectors_per_cluster_block |-> 2]}}

(* Tables of one and of more sectors, with every entry of some values.     *)
Fat12 == Plain

Fat16 == Merged(Plain, [sectors_16bit |-> 8, table_16bit |-> 3, sectors_32bit |-> 9])

Fat32 ==
  Merged(Plain, [sectors_16bit |-> 0, root_entries |-> 0, table_16bit |-> 0,
                 table_32bit |-> 7, sectors_32bit |-> 15, root_cluster |-> 2])

WideEntries(count, width, values) ==
  {[i \in 0 .. count * width - 1 |->
      (f[i \div width] \div 4 ^ (i % width)) % 4] : f \in [0 .. count - 1 -> values]}

MCVolumes ==
  {[sector |-> s, disk |-> Zeros(16)] : s \in Sectors}
  \cup {[sector |-> Fat12, disk |-> d] :
          d \in [0 .. 7 -> {0, 1, 3}]}
  \cup {[sector |-> Fat16, disk |-> d] : d \in WideEntries(6, 2, {0, 2, 5}) \cup WideEntries(6, 2, {5, 13})}
  \cup {[sector |-> Fat32, disk |-> d] :
          d \in WideEntries(7, 4, {1, 6}) \cup WideEntries(7, 4, {2, 197})
               \cup WideEntries(7, 4, {69, 133})}
  \cup {[sector |-> PlainExfat, disk |-> d] : d \in WideEntries(3, 4, {0, 2, 5, 228})}

MCShortVolumes == {[sector |-> Fat12, disk |-> d] : d \in [0 .. 7 -> {0, 3}]}

(* Up to a length of the letters a, A and b; 97, 65 and 98.                *)
Words(length) == UNION {[1 .. n -> {65, 97, 98}] : n \in 1 .. length}

(* Names with a character that cannot be converted.                        *)
Unspeakable(c) == {<<c>>, <<97, c>>, <<c, 98>>, <<97, c, 98>>}

MCStoredNames ==
  {[kind |-> "short", name |-> w] : w \in Words(3)}
  \cup {[kind |-> "short", name |-> b \o <<46>> \o e] : b \in Words(3), e \in Words(1)}
  \cup {[kind |-> "short", name |-> <<97, 32, 98>> \o e] : e \in {<<>>, <<46, 97>>}}
  \cup {[kind |-> "label", name |-> w] : w \in Words(4)}
  \cup {[kind |-> "label", name |-> <<97, 32>> \o w] : w \in Words(2)}
  \cup {[kind |-> "long", name |-> w] : w \in Words(5)}
  \cup {[kind |-> "file", name |-> w] : w \in Words(5)}
  \cup {[kind |-> "exfat_label", name |-> w] : w \in Words(2) \cup {<<>>}}
  \cup {[kind |-> k, name |-> w] : k \in {"short", "label"}, w \in Unspeakable(200)}
  \cup {[kind |-> k, name |-> w] :
          k \in {"long", "file", "exfat_label"}, w \in Unspeakable(55296)}

MCStrings ==
  {<<>>} \cup Words(3) \cup {<<97, 46, 98>>} \cup Unspeakable(200) \cup Unspeakable(55296)

MCTimes ==
  {[hours |-> 0, minutes |-> 0, seconds |-> 0, fraction |-> 0, utc_offset |-> 0],
   [hours |-> 23, minutes |-> 59, seconds |-> 29, fraction |-> 199, utc_offset |-> 4],
   [hours |-> 0, minutes |-> 10, seconds |-> 1, fraction |-> 100, utc_offset |-> 252],
   [hours |-> 31, minutes |-> 63, seconds |-> 31, fraction |-> 255, utc_offset |-> 132]}

MCDates ==
  {[year |-> y, month |-> m, day |-> d, hours |-> t.hours, minutes |-> t.minutes,
    seconds |-> t.seconds, fraction |-> t.fraction, utc_offset |-> t.utc_offset] :
     y \in {0, 1, 4, 19, 20, 21, 119, 120, 127}, m \in 0 .. 15, d \in 0 .. 31, t \in MCTimes}
=============================================================================
