# A verification development for libfsfat

libfsfat reads FAT-12, FAT-16, FAT-32 and exFAT file systems. This directory
holds TLA+ modules translated from its C code, TLC configurations that check
them on small instances, and theorems about them that TLAPS checks for every
value of the constants. Lines are given as `file.c:line`; a file without a
directory is in `src/libfsfat/`.

## The system

The library is a stack of objects. A caller opens a **volume**; the volume
reads the **boot record**, builds a **file system** with its **allocation
table** and its root **directory**, and hands out **file entries**. A file
entry reads its sub directory or its data on first use and keeps the result.
Nothing is written to the volume; all state is in memory.

```
 fsfatinfo, fsfatmount, pyfsfat          tools and binding
        |
 libfsfat_volume   (read/write lock)     open, close, root, by path, by identifier
        |                 \
 libfsfat_file_entry       libfsfat_io_handle <- libfsfat_boot_record
 (read/write lock each)    |
        |                 libfsfat_file_system -- directory cache (libfcache)
        |                  |        |       \
 libfdata stream    libfsfat_directory   libfsfat_allocation_table
 of segments        libfsfat_directory_entry, _name, _date_time
                           |
                    libfsfat_block_tree, _block_tree_node, _block_descriptor
```

### Components

| component | state | operations | what is hard | what makes it correct |
|---|---|---|---|---|
| Volume (`libfsfat_volume.c`) | io handle, file IO handle and who owns it, file system, root directory, lock | open, open_file_io_handle, close, free, signal_abort, labels, root entry, by identifier, by path | an open takes the lock twice, with the ownership flag set the second time; a failed open leaves values of the boot record; file entries outlive a close | a closed volume holds nothing; a handle is closed by who opened it; open after a failed open behaves like the first |
| File entry (`libfsfat_file_entry.c`) | directory entry, lazily read directory, lazily built data stream and its offset, extents, lock | getters, number of / get sub file entries, read, read at, seek, offset, size, extents, free | readers create the directory and the stream while they hold the lock for reading | a read moves the offset by what it read; a lazily created object is created once and lives as long as the entry |
| File system (`libfsfat_file_system.c`) | allocation table, root directory, cache of directories | read table, read directory by chain and by range, read one entry by identifier, data stream of a chain, lookup by path | cluster chains that loop, leave the volume or run backwards; a sequence of 32-byte entries read as a protocol; entries of a cached directory used after the cache may drop it | a walk ends, visits a cluster once, and maps byte n of the file to the cluster where it is; each file entry gets the name written before or after it |
| Allocation table (`libfsfat_allocation_table.c`) | array of cluster numbers, reversed array | read, lookup | 12-bit entries that straddle sectors; 28-bit entries; the largest cluster numbers | entry c of the array is entry c of the table on disk |
| Block tree (`libfsfat_block_tree.c`, `_node.c`) | nodes created on demand, one descriptor per block | insert, get, free | several levels, division that truncates, who frees a refused descriptor | it is a dictionary from blocks to descriptors |
| Boot record (`libfsfat_boot_record.c`) | sizes and offsets of the volume | read | formats told apart by counts; unsigned arithmetic | the regions it computes follow each other inside the volume |
| Directory entry (`libfsfat_directory_entry.c`) | decoded 32 bytes, name entries | read, clone, get name, compare names | entry types by value of the first byte; names pieced together from several entries | a name is the characters of its entries in order |
| Directory (`libfsfat_directory.c`) | entries, file entries, self, parent, label | count, by index, by name, label, free | one entry is in several lists | a name finds the first entry that has it |
| Name (`libfsfat_name.c`) | none | compare with and without case | end of one string before the other | equal names differ in nothing but case |
| Date and time (`libfsfat_date_time.c`) | none | FAT date and time to a count of 10 ms | leap years, 2-second steps, time zones, two epochs in Python | a date that is shown is the date that the count stands for |
| Cluster block data (`libfsfat_cluster_block_data.c`) | none; the shared IO handle | seek, read | a seek and a read of one handle, under no common lock | a read gives data of the file |
| IO handle, extent | plain records | initialize, clear, free | nothing of their own | part of the operations above |
| Wide and narrow name support, errors, notify, codepage (`libfsfat_support.c`, `_error.c`, `_notify.c`, `_debug.c`) | none | signature check, printing | nothing | not modelled |
| fsfattools mount (`mount_handle.c`, `mount_file_system.c`, `mount_file_entry.c`, `mount_fuse.c`, `mount_dokan.c`) | volume and path prefix; a FUSE file handle per open file | open, close, lookup, read, list, stat | a file entry goes from callback to callback; names are escaped and taken back | every file entry is freed once; what is listed can be opened |
| fsfattools info (`info_handle.c`, `fsfatinfo.c`) | an info handle over the library | print the volume, the hierarchy, a bodyfile, an entry | a recursion that builds paths and owns a file entry per level | a path that is printed leads to its entry |
| fsfattools signal, getopt, output | none | options, printing | formatting | not modelled |
| pyfsfat | reference counts of Python objects over library objects | the library's, plus a file object as IO handle | object life time, threads that let go of the interpreter | a volume lives as long as an entry of it; the file object is held as long as it is used |
| ossfuzz, tests, build files | none | drive the library | nothing | not modelled; read as documentation of intent |
| libcdata, libfdata, libfcache, libcthreads, libbfio, libuna, libfguid, libfdatetime and others | in other repositories (empty here) | arrays, streams, caches, locks, IO | external | modelled from how libfsfat uses them, marked external in the map |

### Interaction

Calls go down the stack; there are no messages and no threads of the library's
own. Concurrency comes from callers: with `HAVE_LIBFSFAT_MULTI_THREAD_SUPPORT`
the volume and each file entry have a read/write lock, the file system creates
one that it never takes (`libfsfat_file_system.c:154`). Shared state below the
locks is the file IO handle, the directory cache (behind the write lock of the
volume), and the root directory object (shared by the volume and every root
file entry, each behind its own lock).

### What is hard to test

* **Lazy creation under a shared lock.** A file entry reads its directory and
  its data stream on first use. Reads and seeks hold its lock for writing while
  they do so, but `get_number_of_sub_file_entries`, `get_sub_file_entry_*`,
  `get_offset` and `get_number_of_extents` hold it for reading only
  (`libfsfat_file_entry.c:1176`, `2357`, `2523`), so that their steps
  interleave.
* **State that is published before it is complete.** An open builds the file
  system in the field of the volume outside of the lock, and takes the lock
  twice for the file IO handle and its ownership.
* **Failure at any point.** Every read may fail. What was built so far must be
  taken back, or handed over, exactly once.
* **Data that is a protocol.** Directory entries change the meaning of the ones
  before or after them; cluster chains may come back to themselves, run
  backwards, leave the table or end early.
* **Boundaries.** Twelve-bit entries, divisions that truncate, the last partial
  segment of a file, the first free size of a tree.

The list with its lines is under `hazards` in `PROJECT.json`. There is no
persistence, no message and no timer in this code, so there is nothing to
recover, to lose or to time out.

## The modules

A model checking module `MC<name>` gives a module its small instances, with one
configuration `MC<name><variant>.cfg` for each run.

| module | models | kind |
|---|---|---|
| `BlockMap` | a dictionary from blocks to descriptors | abstract specification |
| `BlockTree` | block tree and nodes | implements `BlockMap` |
| `BlockTreeProofs` | theorems about `BlockTree` | proofs |
| `DataStream` | the walk of a cluster chain that builds a data stream and extents | sequential |
| `DataStreamProofs` | theorems about `DataStream` | proofs |
| `FileCursor` | one offset that reads and seeks move atomically | abstract specification |
| `FileEntry` | a file entry used by threads | implements `FileCursor` |
| `FileEntryProofs` | theorems about `FileEntry` | proofs |
| `DirectoryRead` | reading a directory along a chain or over a range | sequential |
| `DirectoryReadProofs` | theorems about `DirectoryRead` and `EntryByIdentifier` | proofs |
| `Volume` | open, close and use of a volume by threads | concurrent |
| `VolumeProofs` | theorems about `Volume` | proofs |
| `EntryByIdentifier` | one entry by its identifier, on top of `DirectoryRead` | sequential |
| `PathLookup` | the walk along a path, and the cache of directories | sequential |
| `BootRecord` | what a boot record says, as operators | algorithm |
| `AllocationTable` | boot record and allocation table of an open, on top of `BootRecord` | sequential |
| `DirectoryEntry` | names put together, kept, cloned and compared | sequential |
| `DateTime` | timestamps, and the dates that Python shows for them | algorithm |
| `Structures` | one of `AllocationTable`, `DirectoryEntry`, `DateTime` | composition |
| `StructuresProofs` | theorems about `AllocationTable`, `BootRecord`, `DirectoryEntry` and `DateTime`, in `Structures` | proofs |
| `PathString` | paths and names escaped for the host and taken back | algorithm |
| `MountTool` | the requests of FUSE or Dokan, on top of `PathLookup` and `PathString` | sequential |
| `InfoTool` | the info tool, on top of `PathLookup` | sequential |
| `PythonBinding` | a script with threads over the Python objects | concurrent |
| `Tools` | one of `MountTool`, `InfoTool`, `PythonBinding` | composition |
| `ToolsProofs` | theorems about the two tools, in `Tools` | proofs |
| `PythonProofs` | theorems about `PythonBinding`, in `Tools` | proofs |

`FileEntry` stands on `DataStream` and `DirectoryRead`: each is one atomic or
stepwise "walk" in it, and their results are what their own modules say.
`DataStream` and `DirectoryRead` stand on `BlockTree` through the abstraction
`BlockMap`: the tree is a set of blocks, and a read is the first one when its
block is not in the set. `AllocationTable` is the function that both take as
`allocation_table`. `PathLookup` takes a directory as `DirectoryRead` lists it,
and a name as `DirectoryEntry` decodes it; `MountTool` and `InfoTool` call its
steps, so that a request of the host goes all the way down to the cache. They
take a sub directory as `FileEntry` answers for it to one thread.

Error handling that only reports (`libcerror_error_set`), tests of arguments for
NULL, failed allocations and debug output are left out everywhere. A failing
read of the volume is an action of its own.

### BlockTree

Nodes are records with the fields of `libfsfat_internal_block_tree_node_t`,
identified by their range. One call runs at a time; each level of its descent
is a step (`Descend`, `CreateSubNode`). `NumberOfSubNodes` is 256 in the code.
The descriptor that a caller passes belongs to the tree when the call returns 1
and to the caller when it returns 0 or -1; `OneOwner` follows every descriptor
through refusals and through the recursive free.

The run uses volumes of one to three levels with two entries per node, sizes
that fill their nodes and sizes that do not, and offsets on, between and outside
of blocks. `ImplementsBlockMap` maps the tree to the dictionary of what its
leaves hold; a call that a volume's tail makes impossible (see the observations)
is outside of its domain. `CallEnds` assumes weak fairness of the steps of a
call: a function that runs keeps running.

### DataStream

`libfsfat_file_system_get_data_stream` as one action per turn of its loop. The
stream of libfdata is the sequence of its segments, each with its start in the
file (external). `chain` is a history of the clusters the walk has read, and of
the place of each in the file; `asked` remembers the size that was asked for.
`TreeLimit` is the end of the volume for the block tree.

The run starts from every table with six entries, which name clusters of the
volume, clusters outside of it, or end the chain: chains with loops, merges,
gaps, backward steps and every early end occur. Files are empty, shorter than
one cluster, ends on and between cluster boundaries, and longer than their
chain. `StreamHasSize` bounds the stream by the file and by the chain.
`ForwardStreamFollowsChain` says, for chains whose clusters ascend, that every
byte of the stream is read from where the chain puts it, and
`ForwardExtentsAreRuns` that an extent is a longest run. Without `Forward` the
first of them is refuted by `data_stream_backward`. `WalkEnds` assumes weak
fairness of the walk.

### FileEntry

The fields are those of `libfsfat_internal_file_entry_t`; the lock is the set of
`readers` and the `writer`. One action is a step between two accesses of a
thread to these fields, so that threads that hold the lock for reading
interleave as they can in the code. Objects have numbers in the order of their
creation, so that a freed and a replaced one can be told apart. `broken` makes
the chain of the file one that cannot be walked to its end; a directory read may
fail at any time. `Roots` says whether the entry is that of the root directory,
which borrows its directory from the file system and has no data, and
`unsupported` that it is marked as a device, a directory and a volume label at
once, which reads, seeks and `get_offset` refuse before they take the lock
(`libfsfat_file_entry.c:2000`).

A read hands the buffer to libfdata, which moves the offset as it reads; it may
fail half way (`libfsfat_file_entry.c:2059`), with the offset where it stopped
(`PartlyRead`, external). A read at an offset has been moved there by then, and
nothing moves it back (2176). `FileCursor` has both failures as actions of their
own: they are the only calls that return -1 and move the offset.

The run has two sets of behaviours. In the first, one thread calls every
operation and the other all but those that differ only in what they read; in the
second, one thread uses the directory and the other the getters and the data.
`ImplementsCursor` is the refinement of `FileCursor`. It holds although the
stream is created under a lock for reading and the last creator wins: a thread
that creates it has seen no stream under the lock, so that no read or seek can
have moved the offset of an earlier one. `SubFileEntriesAnswered` and
`ExtentsAnswered` are about entries whose directory, or data, one thread asks
for (`Alone`): then every answer is right. Of several
threads that ask for extents, each gets all of them, but may get some twice.
`FreedCompletely` says the same of the entry as a whole: it frees all that it
created. With two threads that use the directory the first of them fails, which
`file_entry_directory_race` shows.

`CallsEnd` assumes weak fairness of the steps of each thread; the calls of a
behaviour are bounded by `MaxCalls`, so that no thread is overtaken for ever at
the lock. Three calls are one that creates, one that races it and one that
observes.

### DirectoryRead

One action per entry of 32 bytes, in the order of the tests in the loop. An
entry is abstracted to its kind: what `libfsfat_directory_entry_read_data` makes
of it and the sequence number of a long name. The decoder asks for the format of
the file system first, so that a volume has the types of FAT or those of exFAT
and not both (`IsFat`, `IsExfat`; `libfsfat_directory_entry.c:377`), and a range
is one of FAT; an unknown type of exFAT counts as "bitmap". `seen` is a history
of what was read. `EntriesBelong` compares the names and the data stream of each
file with a definition over that history: for a short name the long name in
front of it, numbered without a gap, for a file of exFAT the entries behind it.
Clusters have four entries, and names, streams and files cross from one to the
next; chains end, come back to the first cluster or leave the table. The range
has five entries.

The decoder and both readers are taken as they are. A terminator is an entry
whose 32 bytes are zero (`libfsfat_directory_entry.c:414`), so "stale" entries
with a first byte of 0 are files; the range reader knows a label only by its
exact attributes (`libfsfat_file_system.c:1283`).

### EntryByIdentifier

`search` holds the variables of
`libfsfat_file_system_read_directory_entry_by_identifier`: backwards from a
short name over the parts of its long name, and along the reversed table into
the cluster before; forwards from a file of exFAT over its data stream and its
name. A behaviour is either the reading of a directory or a lookup in the same
volume, so that `EntryAsListed` can compare both: a short name whose long name
lies in one cluster behind another entry gets that name, unless the entry lies
within the first bytes of the volume, as many as a cluster has, where no long
name is looked for; whatever is found is numbered without a gap, but for what
comes before a part numbered 0, and parts that end with such a one are none
(`NameParts`). Lookups are of the entries of the first two clusters, with one
entry's worth of bytes in front of them (`FirstClusterOffset`), so that entries
on both sides of that limit are looked up. Where the two readers differ is in
the observations, and for exFAT in the run `entry_by_identifier`. `ReadsEnd` has
weak fairness of the steps of the two functions, except for those that fail to
read; a lookup ends for chains that end, because it has no test for those that
do not.

### Volume

The steps of an open outside of the lock are actions; what happens inside of the
lock is one action, except that a close frees the file system before it clears
the pointer, which an open may see. `file_systems` holds how far each allocated
file system was read. With a file system that was freed, reading its parts may
come out either way. `serial_opens` is the discipline of callers that let no
other call run during an open, which is what the tests and tools of the
repository do; `libfsfat_volume_close` and `_get_root_directory` are raced in
both disciplines. The properties about answers and ownership are stated for the
first discipline. Four calls are enough for open, failed open, open and a use or
a close of both.

### PathLookup

A pointer to a directory of the cache is the number of the cluster it was read
from, and `Freed` once the cache has given that directory up. `CacheWith` lets a
full cache give up any of its directories (libfcache is external), so that the
result cannot depend on the choice. `Resolve` says what a path means: the entry
its names lead to. `Meaning` says it for each place of the path, from the place
before (`MeaningAfter`), so that a proof can go along the path; it knows of the
tree only, not of the walk, its cache or its clones. The run has a cache of two
directories for a tree of three, files that are read as directories, names that
differ in case, and paths that lead nowhere, end with a separator or have an
empty name. A name of a path may fail at any directory (`FailSegment`): the
directory cannot be read, or one of its names or the path has a character that
cannot be converted.

### BootRecord, AllocationTable

A boot sector is the record of its numbers. Sums and products wrap where those
of the code do, at 64 and 8192 in the run for 2^32 and 2^64; the run has a few
values of every number, such that sizes wrap, tables are larger than the volume,
and volumes are at the limits between the formats. An open that `TableNext` lets
through has numbers whose table could be read. `ClustersCounted` compares the
count with that of the format documentation.

A byte has two digits of `NibbleBase` values (16 in the code, 2 in the run), so
that twelve, sixteen and thirty-two bits become three, four and eight digits and
every carry between entries, bytes and sectors occurs with few tables. The size
of a table is a whole number of sectors, as the boot record computes it.
`Entry` defines an entry by its digits on disk, independently of the loop, and
as the format documentation has it: of FAT-32 only the lower 28 bits, seven
digits, are a number (its lines 381-382). `TableDecoded` leaves out what is known
to be decoded otherwise: the entries of twelve bits beyond the first sector,
which `allocation_table_fat12` shows to be wrong, and those of FAT-32 whose upper
four bits are set, since the code keeps all 32 bits (`allocation_table.c:415`),
so that no walk follows such a link. The tables of the run have
both kinds.

### DirectoryEntry, DateTime, Structures

`ShortData`, `LongParts` and `ExfatParts` store a name as the format
documentation has it; the actions put it together again, in the order that
callers ask in. A name that is kept, one that is put together later, and one of
a clone must be the same (`NameKept`). `Storable` says which names there are: a
short name has one dot or none, with a base and an extension that fit, and no
field ends with a space; "." and ".." are entries that no file entry is made of.
The code cuts a short name or a label at its first space, where only trailing
spaces are padding; `OneName` says what is left. The
run has every word of up to five letters of three, short names of up to three
letters with and without an extension, and some with a space, so that names fill
their parts and do not.

A character is its number, a byte in short names and labels and 16 bits in the
others. The entry keeps a name as it is stored; a caller gets it converted
(`NameForCaller`), and a comparison converts a character of the name and one of
the string at a time (`Compare`). Both fail for what cannot be converted, which
is external (`IsConvertible`): the code asks libuna for ASCII, which has no bytes
from 0x80, whatever codepage a short name was written in
(`libfsfat_directory_entry.c:2048`), and half of a pair of UTF-16 is no
character. A comparison that has found a difference, or the end of the string,
before such a character never gets to it. `NameKept` says which names fail
(`TooLong`, or not `Speakable`) and that no other does; the run has names with
such a character in front, in the middle and at the end. Names with whole pairs
of UTF-16 are left out: what they are to a caller is up to libuna.

`DateOf` counts the days of a timestamp off as `pyfsfat_datetime.c` does;
`DayNumber` numbers the days of the calendar in closed form. The run has every
day, also of months 0 and 13 to 15, of nine years at the ends of leap cycles and
centuries and of the range, and times with every kind of offset from UTC. The
timestamp of a date is ahead of it (run `timestamps`), and `DateShown` says by
how much for a date at UTC. Of every date it says that what is shown is what its
timestamp stands for; it says nothing of how the stored offset from UTC becomes
part of the timestamp, where the code and the format documentation differ (see
the observations).

`Structures` puts the three modules side by side: a behaviour decodes one
structure. None of them can do anything to another.

### MountTool, PathString

A request of the host is one record. The host serves one at a time: `fuse_loop`
by its definition, and Dokan because the tool asks for one thread
(`fsfatmount.c:441`, `487`). A request looks its path up, or takes the mount file
entry of its context. Only the number of file entries and who holds them is
kept, which is what `FileEntriesAccounted` is about: those of contexts and
requests, and those that are lost, in the two ways the code loses them. Any
call of the library may fail at every step. `MaxLost` ends the requests once one
is lost, as the state repeats from there.

In `PathString` a character is an element of a path, and so is the code of an
escaped one. `ListedCanBeOpened` says that what is listed can be opened under
both hosts, which have different separators and escape characters: the name that
the host was given, behind its separator, is converted to the separator of the
library and the name in the volume. `Copied` is the loop that converts.

### InfoTool

The recursive function is a stack of calls. Each owns a file entry, and
`FileEntriesAccounted` covers them as well. `ValueString` is the text that is
printed for a path: control characters become `\x##` (`info_handle.c:1085`), all
else stays. `PrintedPathsLead` follows the text of each path without control
characters with `Resolve`. For the others it says nothing, since no lookup takes
the digits back: the run has a name with a control character, and the text
printed for it leads nowhere. `NamesDistinct`, which the tree of the run has, is
what the theorem about it takes of a volume, see below.

### PythonBinding

The objects have reference counts, one for each name the script has, for each
call that runs and for each object that keeps another. A call begins with the
interpreter, does its work in the library without it, and ends with it again, so
that calls of two threads interleave in between. One thread, the owner, opens
and closes the volume; the scripts of the run combine opening and closing with
lookups, lookups with reads, and sequences with their iteration.
`VolumeOutlivesEntries` counts the references again from who has them, so that a
reference that is lost or kept shows at once. `UndisturbedAnswers` allows a read
or an iteration to go wrong only if another thread came between its two steps,
which does happen.

### Tools

One program at a time. `ProgramsGetOn` assumes weak fairness of serving a request
and of the steps of the info tool once it has begun: each is the next statement
of a function that runs. The host does not have to ask for anything.

## The runs

| run | result | states | shows |
|---|---|---|---|
| `block_tree` | passes | 25,124 | the tree is a dictionary, owns each descriptor once, answers every call |
| `data_stream` | passes | 236,152 | walks end, read no cluster twice, have the right size and follow forward chains |
| `data_stream_backward` | violation | | a chain that steps backwards is mapped to wrong clusters |
| `file_entry` | passes | 587,335 | one atomic offset through reads that fail half way, no lock left behind, the borrowed directory kept; right answers and no leak with one user of the directory and of the data |
| `file_entry_directory_race` | violation | | a second user of the directory makes a call fail |
| `directory_read` | passes | 917,172 | files in order with their own names and data; entries by identifier as they are listed; reading and lookup end |
| `entry_by_identifier` | violation | | a listed file of exFAT is not found by its identifier |
| `volume` | passes | 344,475 | ownership of handles, an empty closed volume, opens after failed opens |
| `decoding` | passes | 264,682 | regions and counts of a boot record; table entries and the way back; names; dates |
| `allocation_table_fat12` | violation | | entries across sectors are decoded wrongly |
| `timestamps` | violation | | a timestamp does not count from 1 January 1980 |
| `programs` | passes | 543,897 | paths lead to their entries through a small cache; no file entry is lost or freed twice but in two known ways; listings and printed paths lead back; references keep the volume; the tools get on |

Each run that passes has a mutant for each of its properties: a definition
changed in the way of a plausible bug, with which TLC finds the property
violated (`mutants` in `PROJECT.json`). The changed definitions stand in front of
the ones they change and are marked "Mutation".

### Observations without a run

The models follow the code also where it differs from a comment or the format
documentation in ways that need no model checker to see:

* A seek by a distance of -1 with SEEK_CUR or SEEK_END returns -1 and does
  nothing (`libfsfat_file_entry.c:2280`).
* Two first calls of `libfsfat_file_entry_get_number_of_extents` at the same
  time append the extents twice (`libfsfat_file_entry.c:2537`).
* A close between the two critical sections of `libfsfat_volume_open` leaves the
  flag of a handle created in the library on a closed volume
  (`libfsfat_volume.c:402`).
* A directory entry with a first byte of 0 and other bytes set is a file, where
  the format documentation has a terminator; a label with another attribute is a
  file of the root of FAT-12 and FAT-16.
* The upper four bits of an entry of FAT-32 are kept, where the format
  documentation has them unused (`libfsfat_allocation_table.c:415`).
* The last blocks of a volume that is a little larger than 256 sub nodes of its
  root cannot be filed in the block tree, because the division that finds the
  size of a sub node truncates (`libfsfat_block_tree_node.c:149`).
* The root directory can be had while the volume is still being opened, without
  its directory or its file IO handle: only the field is tested
  (`libfsfat_volume.c:1038`, `1578`). `SerialRootComplete` is what remains for
  callers that open before they share.
* The identifier of the root directory is that of its first entry
  (`libfsfat_volume.c:1030`, `libfsfat_file_system.c:2636`), so that this entry
  cannot be had by its identifier.
* A lookup by identifier takes the number of the cluster from the offset in the
  volume without subtracting that of the first cluster
  (`libfsfat_file_system.c:1600`); it goes on backwards at the start of the
  cluster before (1748), so that a long name across clusters is cut or that of
  another file; in the first bytes of the volume, as many as a cluster has, it
  looks for no long name (1623), which matters where boot record and tables are
  smaller than a cluster; a part numbered 0 is compared with nothing (1667); its
  loop over a cluster is not ended by its bound (1634), and a
  chain that comes back to itself keeps it going for ever (1623, 1901).
* A lookup by path that finds nothing returns 0 and makes a file entry all the
  same (`libfsfat_file_system.c:2865`). The mount tool
  (`mount_handle.c:866`) and the Python binding (`pyfsfat_volume.c:1243`) lose
  it, the info tool frees it. A path of one character is that of the root,
  whatever the character is (2760), and an empty name ends the walk with the
  entry before it (2818), whose directory the cache may have given up.
* A lookup of a sub entry by a name that is not there returns -1, where the
  comment says 0 (`libfsfat_file_entry.c:1631`).
* `mount_handle_get_file_entry_by_path` fails for a path that ends with a
  separator, because the length of the name wraps (`mount_handle.c:821`).
  `mount_fuse_releasedir` does not free the file entry of the directory
  (`mount_fuse.c:1012`). Every file entry is shown as a regular file
  (`mount_file_entry.c:517`). The size of an escaped name is ten times its
  length, so that Dokan cannot list a directory with a name of 26 characters
  (`mount_dokan.c:202`).
* The info tool goes down for ever in directories that contain themselves, and
  tests its abort flag nowhere; a bodyfile ends at the first file whose data
  cannot be read whole.
* An allocation table has as many entries as the volume has clusters, although
  their numbers begin at 2, so that the last two have none; the sectors of the
  root directory are not subtracted (`libfsfat_boot_record.c:812`); the product
  at 814 has 32 bits, that at 832 has 64. A count that has wrapped is refused by
  the largest size of a table (`libfsfat_allocation_table.c:69`).
* A name has at most nine entries of exFAT (`libfsfat_directory_entry.c:1626`), so
  that names of more than 135 characters fail, and with them every lookup by
  name in their directory. A short name or a label is cut at its first space
  (1471, 1481), where the format documentation has only trailing spaces ignored.
* A short name with a byte from 0x80 cannot be had
  (`libfsfat_directory_entry.c:1974`, `2048`), where the format documentation
  has such bytes in some codepage, and a first byte of 0x05 is not taken back to
  0xe5. A comparison that comes to such a byte fails, and with it the lookup by
  name in the directory (`libfsfat_name.c:158`).
* A read at an offset that fails leaves the offset of the entry where it failed
  (`libfsfat_file_entry.c:2176`).
* The info tool prints control characters in a form that is no name any more
  (`info_handle.c:1085`).
* A timestamp of FAT is read as a FILETIME by the mount tool
  (`mount_file_entry.c:303`). Python cannot show 31 December 1999
  (`pyfsfat_datetime.c:675`). The offset from UTC is added where it should be
  subtracted (`libfsfat_date_time.c:147`).
* In Python, a thread that closes the volume may free the file object of an
  opening that another thread has just begun; an iterator that two threads share
  gives an item twice and leaves one out; a read of one thread may get what lies
  where another has moved the IO handle (`libfsfat_cluster_block_data.c:127`); a
  failed `get_size` of a file object returns 1
  (`pyfsfat_file_object_io_handle.c:1522`).

## The proofs

`DataStreamProofs` proves about `DataStream`, for every table, every size of
table, cluster and volume, and every file:

| theorem | establishes |
|---|---|
| `TypeCorrect` | `TypeOK`: the fields keep their types; the rest of the size never goes below zero |
| `ClustersReadOnce` | `NoClusterTwice`: no cluster is read twice in a walk |
| `StreamSizeCorrect` | `StreamHasSize`: a stream is as long as the file, or as its chain |
| `ForwardStreamCorrect` | `ForwardStreamFollowsChain`: a forward chain is mapped byte for byte |
| `ExtentsCorrect` | `ForwardExtentsAreRuns`: no two extents of a forward chain overlap or could be joined |

The assumption is `DataStreamAssumption`: the constants are natural numbers, a
cluster has a positive size, the data area does not start at offset 0, and table
entries are natural numbers.

None of the properties is inductive. The walk knows the file only as flushed
segments and a run of two offsets in the volume, so the invariant relates these
to the history of clusters: `ChainInv` (the clusters of the chain are the blocks
of the tree, at ascending positions in the file) gives `ClustersReadOnce`;
`StreamInv` adds `RunAccounts` (segments and run together stand for all clusters
read, and what is left of the size for the rest) and, for forward chains,
`RunAgrees` (a cluster that is in no segment yet lies in the volume where the run
says). The step that ends a run turns `RunAgrees` into `StreamAgrees` for the
new segment; the step that merges a cluster needs that a forward cluster that
does not start a new run lies exactly at the end of the run.
`ExtentsInv` adds that the extents are appended together with the segments
(`ExtentsApart`) and that the run in progress starts behind the end of the last
extent (`RunApart`): it was started at a cluster that lies behind a gap. Only a
segment is clipped to the size of the file, so that it is never larger than its
extent.

`FileEntryProofs` proves about `FileEntry`, for any number of threads and calls,
every size of the file and of its chain:

| theorem | establishes |
|---|---|
| `TypeCorrect` | `TypeOK`: the fields keep their types and point to what is allocated |
| `CursorImplemented` | `ImplementsCursor`: the calls of the threads, with reads that fail half way, implement `FileCursor` |
| `RootKept` | `RootDirectoryKept`: the entry of the root never frees the directory it borrows |
| `AloneAnswered` | `SubFileEntriesAnswered`: a thread that alone lists an entry fails only for a reason |
| `ExtentsComplete` | `ExtentsAnswered`: the extents are the runs of the chain, once each for a thread alone, at least once for several |
| `EverythingFreed` | `FreedCompletely`: a freed entry has freed every directory and stream it created, if no two threads raced for them |

The assumption is `FileEntryAssumption`: sizes are natural numbers, offsets are
integers, and the value for "no writer" is not a thread. The invariant `Inv` has
three parts besides the types. `Locked` says that a writer excludes every other
thread that is inside of the lock. `OffsetWaits` says that the offset is 0 as
long as there is no stream or any thread is building one. It is inductive only
together with `Locked`: a thread that builds a stream under the lock for reading
keeps every thread that could move the offset out, and a thread that finds a
stream does not build one. `SetStream`, the step that replaces the stream and
sets the offset to 0, is therefore a stutter of the cursor; every other step is
one of its actions or leaves offset and answer alone. A read that fails is an
action of the cursor as well, which says how far it may have moved the offset.
`RootKept` follows from `Borrowed`: no thread that uses the entry of the root
gets past the test for a directory that is not there.

The last three follow the two lazily created objects through the calls of one
user. `Listing` gives every step of a call that lists what it has met
(`DirectoryWork`: a call that is at a step has not failed, or its walk has) and
leaves no directory allocated but the one in the field and the one in the hands
of the thread (`DirectoriesAllocated`); it holds while the directory is asked
for by one thread (`Alone`). `Walking` holds for any number of threads: a walk
that is at its n-th run has the first n in the array, and the stream is there
only when the array is complete; `WalkingAlone` makes that an equality for one
thread and a chain that can be walked: its walks do not fail, so that the array
holds nothing but what the one walk has appended (failed walks of a broken chain
leave their runs behind, and none of them completes). `Gone` says that the
thread that frees an entry is the last one in it, so that what is allocated when
it is done is what `Listing` and `WalkingAlone` say there was before.

`BlockTreeProofs` proves about `BlockTree`, for every number of entries in a
node, every size of a block and of a volume, and every history of calls:

| theorem | establishes |
|---|---|
| `DescriptorsOwned` | `OneOwner`: a descriptor is in one place of the tree, or the caller's |
| `DictionaryImplemented` | `ImplementsBlockMap`: the tree is a dictionary from blocks to descriptors |

The assumption is `TreeAssumption`: a node has at least two entries, blocks and
volumes have a positive size, and `MaxLevels` levels are enough for the largest
volume. The code finds the size of a node by a loop; here it is the first power
that is large enough, which a least counterexample shows to be there. The
invariant `TreeInv` is about the shape of the tree during a descent: `PathsKept`
(with a node, all nodes above it are there), `Linked` (every node is an entry of
one that is there), `OnPath` (the call has descended along the offset it was
given), `InLeaves` (only leaves hold descriptors) and `Owned` (nobody has a
descriptor twice). From there a step that creates a node is a stutter of the
dictionary, and the step that ends a call is one of its calls: the leaf that the
call has come to is the only one that can hold its block.

`VolumeProofs` proves about `Volume`, for any number of threads, calls and
handles:

| theorem | establishes |
|---|---|
| `TypeCorrect` | `TypeOK`: what the volume points to is allocated and open, whatever the threads do |
| `HandlesComeBack` | `HandlesReturned`: a closed volume has given every handle back |
| `ClosedEmpty` | `ClosedIsEmpty`: a closed volume keeps no file system and no flag |
| `OpensSucceed` | `OpenSucceeds`: a failed open leaves nothing in the way of the next |
| `RootsComplete` | `SerialRootComplete`: the root is not handed out incomplete |

The assumption is `VolumeAssumption`: the handles of the callers and those of
the library are different, and "none" is neither. `TypeCorrect` rests on `Inv`,
in which `Owned` gives every open a handle that no other open and not the volume
has, and that is open from the step that opened it. The other four are about
callers that open a volume before they share it, and rest on two invariants
more, which hold under that discipline only:

* `Lending` accounts for every handle: `Back` for those that neither the volume
  nor an open holds, `Flagged` says that the two flags of the volume give its
  handle back in the right way, `Returnable` the same of an open with its own
  knowledge. `Alone` (nothing runs beside an open) keeps the flags and the handle
  of the volume together between the two critical sections of an open.
* `Reading` says that the volume has at most the file system it points to, that
  one is there only during an open, in an open volume or until a close clears
  it, how far it was read at each step, and why calls fail.

`ToolsProofs` proves about `Tools`, for every tree of directories, every size of
the cache, any number of contexts and every path that is asked for:

| theorem | establishes |
|---|---|
| `EntriesAccounted` | `FileEntriesAccounted`: every file entry is held by somebody, or lost in one of the two known ways |
| `NoEntryDangles` | `NothingDangles`: what a path leads to does not depend on the cache |
| `PathsAreResolved` | `PathResolved`: a walk ends with the entry the names of its path lead to, and with none if they lead nowhere |
| `RequestsAreAnswered` | `AnsweredByPath`: a request is answered by what its path, taken back from the host's form, leads to |
| `WhatIsListedOpens` | `ListedCanBeOpened`: a list has every entry once, under a name that is taken back to that of the entry |
| `PrintedPathsAreRight` | `PrintedPathsLead`: what the info tool prints for a path without control characters leads to the entry it is printed with |

The assumptions are `MountAssumption` (there are finitely many contexts, and what
the host asks for are sequences of characters), `InfoAssumption` (so are the paths
of the info tool) and `PathLookupAssumption`: numbers of clusters are natural
numbers, directories and names are sequences, and whatever cluster an entry names
is read as something, or fails. The account is
not inductive: a request that begins or returns resets its fields without
freeing, which loses nothing only because of `Holding`: a request has a file
entry of its own only while it describes or lists, a sub file entry only while it
lists, and the context it is to open stays closed until it does. `Printing` does
the same for the calls of the info tool. `NoEntryDangles` rests on `Walking`: the
directory of an entry is read, hence in the cache, in the step that finds the
entry, a walk that has no entry is still at the root, and the next directory of a
walk is one that can be read (`EntryFound`, which needs that a set of indices has
a least one).

`PathsAreResolved` compares the walk, which jumps from name to name, with
`Meaning`, which goes character by character. `WalkMeans` says that at the start
of a name the walk has the directory and the entry that the path means there;
within a name the meaning does not change (`MeaningWithin`), so that the end of
the name gives both the same next entry (`SegmentMeans`). A walk that has found
nothing stays without an entry (`LostForGood`), as does the rest of the path.
`RequestsAreAnswered` adds that the walk of a request is that of its path
(`Answering`) until it is answered, that a path of the host, once converted,
begins with a separator (`ConvertedPath`), so that it is no path of one character
that should lead nowhere, and that one tool runs (`OneTool`): the info tool could
otherwise walk while the mount tool waits.

`WhatIsListedOpens` has two halves. `Listing` says that a request that lists has
listed the names before the one it is at, of the directory it was asked for.
`NameReturns` says that a name escaped and taken back is the same name, for every
name and both hosts. Escaping joins what each character becomes, and taking back
reads one character at a time, so that it goes character by character of the name:
what was copied from a prefix is what is copied there from the whole
(`CopyOfPrefix`), and a character that is plain, doubled or written as digits is
copied back (`CharacterReturns`).

`PrintedPathsAreRight` is about paths without control characters, whose text is
the path itself. It follows the stack of calls: `CallRight` says that each call
has a path that leads to a directory, separator included (`Leads`), and a sub
entry of it. A path means the same when something is put behind it
(`MeaningOfPrefix`), so that the path of a sub entry leads to the first entry of
its name there (`NameMeans`). That needs the hypothesis `NamesDistinct`: a
directory has no namesake before it, names have no separator in them and are not
empty, and identifiers do not decrease along a directory. Without it the property
is not true: nothing keeps a damaged volume from having two directories of one
name, and what lies in the second is then printed with a path that leads to the
first, or nowhere. `MCNamesDistinct` has TLC confirm that the tree of the run is
such a volume, although two of its names differ only in case.

`DirectoryReadProofs` proves about the reading of directories, for every content
of the volume, every allocation table, every size of a cluster and of the range:

| theorem | establishes |
|---|---|
| `ReadingAccounted` | `ReadInv`: the account of what was read, below |
| `FilesListed` | `ListsFiles`: a directory lists all file entries up to its end, in order, and no others |
| `EntriesKeepTheirOwn` | `EntriesBelong`: a file entry has its own name, without a gap, and its own data stream |
| `SearchesGoWell` | `SearchInv`: the account of a lookup by identifier, below |
| `EntriesAsListed` | `EntryAsListed`: an entry has the same name by its identifier as in its directory |

The assumptions are `DirectoryReadAssumption`, that a cluster has at least one
entry, table entries are natural numbers, and a volume is one of FAT or one of
exFAT, and `EntryByIdentifierAssumption`, that what lies in front of the first
cluster has a size.
`ReadInv` relates every variable of the reader to the history `seen`. `Accounted`
says that every cluster in the tree but the one that is being read was read as a
whole, so that clusters are apart, the next entry is one that was not read before
(`EntryIsNew`), and its identifier is that of no file entry. `Listed` says of each
file entry which parts of the history belong to it; only the last one can change,
as the entries behind any other end at the next. `HoldsName` says that the
array of name entries is the latest long name in the history, numbered down to
`last_vfat_sequence_number`; a short name takes it, and there is none after a
file entry. `HoldsFile` says that the current file of exFAT is the last one.

`ListsFiles` and `EntriesBelong` compare lists with `InOrder`, which counts the
elements below an index. `Lists` says the same with a function that enumerates
the indexes, so that a list can grow by one at its end (`ListGrows`) or stay
while the history grows (`ListStays`), and `ListIsInOrder` leads back to
`InOrder` once, at the end.

`EntryAsListed` compares a lookup with the name as a writer puts it, which is the
one that reading the directory gives. `SearchInv` says what a lookup has found
so far. For a short name the parts are numbered one by one and
`last_vfat_sequence_number` is the number of the first of them (`PartsFound`);
if its long name is well formed, they are exactly the entries behind the one at
`position` (`WellFormedFound`), so that the first entry that is no part of a name
is the one in front of the long name, and the search ends there
(`WellFormedEnds`) without leaving the cluster. That the whole name is not dropped
as one numbered 0 follows from the same numbers (`NamePartsAre`). For a file of
exFAT all parts are name entries (`NamesFound`). The table need not be acyclic:
the theorem is about lookups that end, and `ReadsEnd` is for TLC.

`PythonProofs` proves about the Python binding, for any number of threads,
objects, sequences and openings:

| theorem | establishes |
|---|---|
| `HandleIsOwned` | `HandleOwned`: the volume object has the file object as long as the library uses it |
| `VolumeOutlives` | `VolumeOutlivesEntries`: an entry that somebody has keeps the volume it points into |
| `AnswersUndisturbed` | `UndisturbedAnswers`: a read or an iteration goes wrong only if another call came between its steps |

The assumption is `PythonAssumption`: the owner is one of the threads, and the
numbers of things are natural numbers. `Counted` in `PythonInv` is the account
of the references: the count of an object is the number of names, of running
calls and of objects that refer to it, each of which is a finite set, so that
every step adds or removes one element. `Present` says that what is referred to
has not been freed. `OpeningsKept` and `HandleSteps` follow the owner through
opening and closing; `Answers` and `NextAlone` say that what a call has read of
the position, or of the index of an iterator, is still so unless it is marked
as disturbed.

`StructuresProofs` proves about the decoders of `Structures`, for every size of
a sector, every number of clusters, every content of the disk, every date and
every name:

| theorem | establishes |
|---|---|
| `TableIsDecoded` | `TableDecoded`: entry c of the array is entry c on the disk, for twelve bits within the first sector, of FAT-32 where the upper four bits are not set |
| `ReversedTableLeadsBack` | `ReversedLeadsBack`: the reversed table leads to an entry that names the cluster |
| `ClustersAreCounted` | `ClustersCounted`: the count and the format agree with the documentation up to the clusters of the root directory |
| `DatesAreShown` | `DateShown`: a timestamp is shown as the day of the calendar and the time of day it stands for, a date at UTC as its own day, ahead by the known days |
| `NamesAreKept` | `NameKept`: a name is put together to what was cut, whoever asks for it and when; only one that is too long or cannot be converted fails |

The assumptions are `BootRecordAssumption` and `AllocationTableAssumption`: the
numbers of a boot sector are numbers of their width, the wide width is a multiple
of the narrow one times a cluster (2^64 of 2^32 times a power of two), sectors
are multiples of four bytes, and a byte has two digits. `TableInv` is about the
two nested loops: the buffer holds the sector before `table_offset`
(`SectorBuffered`), every entry before `table_index` is decoded, and the next one
lies where the buffer is decoded up to (`OnesDecoded`; `PairsDecoded` for the
loop that takes two entries of twelve bits from three bytes); `ReversedSoFar`
says the same of the way back. `TwoOfThreeDigits` relates the masks and shifts to
the digits of an entry, and `WrappedBelow` and `DivApart` take the count of
clusters through the wraps of 32 and 64 bits.

For `DateShown` the invariant (`DateInv`) only says that the timestamp is that of
the date and that what is shown is that of the timestamp; the work is in the
functions. `DaysToYear` and `DaysToMonth` are the days before a year and before a
month in closed form. The two sums of `libfsfat_date_time.c` are equal to them
(`MonthsSummed`, `YearsSummed`). A loop of `pyfsfat_datetime.c` is a recursive
function, which is what its definition says only if every loop ends: `LoopExists`
takes the state after the least number of rounds that stops it, and the closed
form gives that state (`SkipYearsEquation` and the two like it). Each loop then
keeps the day it counts off from (`SameDay`), and where the last one ends is a day
of the calendar (`DateIsOfCalendar`). Nothing bounds the number of days there;
that a date is stored in few bits is only used for its own fields.

`NamesAreKept` has the assumption `DirectoryEntryAssumption`: parts and fields have
a positive size, the names of a volume are `Storable`, and neither they nor the
strings have a character 0. Its invariant
(`EntryInv`) follows an entry from the parts of its name (`Unread`, `Unnamed`) to
the name that it keeps (`HasName`) and that its copy has (`Copied`). That the
parts give the name back is for every length of a name and of a part: the name is
filled up to whole parts (`RoundedUpIs`), the parts one behind another are what
was cut (`PartsFlattened`), and the first character that fills up ends it
(`FilledName`). `FlattenSeq` is a recursive function; `SameJoins` shows that its
equation has one solution, which `PartsFlattened` gives in closed form. A short
name without a space is its base and its extension (`BaseOnly`, `LabelIs`,
`DottedIs`). Whether a name can be converted depends on its characters and on
`is_unicode`, which is that of the kind of the entry (`CallersGet`). A comparison
is "equal" only if it has gone through all characters and none failed, and an
error has a character that is to blame (`ComparedIs`).

Liveness (`WalkEnds`, `CallEnds`, `CallsEnd`, `ReadsEnd`, `ProgramsGetOn`) is
model-checked only: the prover has no fairness and no ENABLED. Every other
property of a passing run is proved.

The provers have no induction over data: the theorems of the library for it
take an operator as a parameter. What takes the place of an induction in these
proofs is the invariant itself, or a set of counterexamples with its least
element (`FirstNatural`). A recursive function such as `Meaning` or `Copied` needs
it twice: `MeaningExists` shows that a function satisfies the recursion, without
which the definition says nothing, and the lemmas about it take the first place
where they would fail.

## Plan

What is modelled covers the operations of every part with rules of its own. What
the runs check is proved but for liveness. What could follow is detail: several
Python volume objects, and the getters of the volume under concurrent opens.

## Not modelled

The labels, the abort flag that nothing tests and the getters of plain values of
the volume and of the boot record: they read a field under the lock and change
nothing. Freeing the lists of a directory that could not be read. Several Python
volume objects, and a volume opened by two Python threads at the same time, which
the volume itself answers for (`Volume`). A failed open leaves values of its boot
record in the IO handle (`libfsfat_volume.c:1024`), where only a getter of an
unopened volume would show them.

Debug output, error objects, formatting, command lines, the test of a signature,
fuzzers and tests: they have no state to be right or wrong about. The inside of
the libyal libraries, which are other repositories, is modelled only as far as
this code uses it.
