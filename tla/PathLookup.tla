----------------------------- MODULE PathLookup ----------------------------
(***************************************************************************)
(* A file entry by path (libfsfat_file_system.c): the walk along the names *)
(* of a path and the cache of directories that it goes through.            *)
(*                                                                         *)
(* The cache owns its directories and frees one when it needs its place    *)
(* (libfcache chooses which), also while a walk still points to it.  A     *)
(* pointer to a cached directory is the number of its first cluster; when  *)
(* the directory is freed all pointers to it become Freed.                 *)
(*                                                                         *)
(* The caller holds the lock of the volume for writing during a walk       *)
(* (libfsfat_volume.c), so walks do not overlap.                           *)
(***************************************************************************)
EXTENDS Integers, SequencesExt

CONSTANTS
  Content,          (* cluster number -> what is read as a directory there *)
  Root,             (* stands for the root directory, not in the cache     *)
  Upper,            (* characters with a capital -> the capital            *)
  MaximumCached     (* LIBFSFAT_MAXIMUM_CACHE_ENTRIES_DIRECTORIES          *)

Null == -1

Freed == -2

(* LIBFSFAT_SEPARATOR *)
FileSystemSeparator == "\\"

NoEntry == [name |-> <<>>, cluster |-> Null, id |-> Null, kind |-> "none"]

(* What an entry has as its cluster may be read as a directory, whatever it *)
(* is.                                                                     *)
ASSUME PathLookupAssumption ==
  /\ DOMAIN Content \subseteq Nat
  /\ Root \in DOMAIN Content
  /\ \A c \in DOMAIN Content :
       /\ Content[c] \in Seq(ToSet(Content[c]))
       /\ \A i \in DOMAIN Content[c] :
            /\ Content[c][i].cluster \in DOMAIN Content
            /\ Content[c][i].name \in Seq(ToSet(Content[c][i].name))
  /\ MaximumCached \in Nat \ {0}

VARIABLES
  directory_cache,
  lookup            (* the walk: its path and the variables of the function*)

lookupVars == <<directory_cache, lookup>>

(* The variables of a walk at its start, before a leading separator. *)
NewLookup(path) ==
  [state |-> "walk", path |-> path,
   index |-> IF Len(path) > 0 /\ path[1] = FileSystemSeparator THEN 2 ELSE 1,
   directory |-> Root, entry |-> NoEntry, owner |-> Null, cluster |-> 0, result |-> 0]

NoLookup == [NewLookup(<<>>) EXCEPT !.state = "none"]

LookupInit ==
  /\ directory_cache = {}
  /\ lookup = NoLookup

(* libfsfat_name_compare: equal without regard to case. *)
Capital(c) == IF c \in DOMAIN Upper THEN Upper[c] ELSE c

SameName(name, string) ==
  /\ Len(name) = Len(string)
  /\ \A i \in DOMAIN name : Capital(name[i]) = Capital(string[i])

(* libfsfat_directory_get_file_entry_by_utf8_name and _utf16_name: the     *)
(* first entry of that name, no entry if there is none.                    *)
EntryByName(directory, string) ==
  LET same == {i \in DOMAIN Content[directory] : SameName(Content[directory][i].name, string)}
  IN IF same = {} THEN NoEntry
     ELSE Content[directory][CHOOSE i \in same : \A j \in same : i <= j]

(* libfsfat_file_system_get_directory: the directories that the cache may  *)
(* hold afterwards.  A place is freed only for a directory that is read.   *)
CacheWith(cluster) ==
  IF cluster \in directory_cache THEN {directory_cache}
  ELSE {(directory_cache \ {victim}) \cup {cluster} :
          victim \in IF Cardinality(directory_cache) < MaximumCached
                       THEN {Null} ELSE directory_cache}

Pointer(pointer, cache) ==
  IF pointer \in directory_cache \ cache THEN Freed ELSE pointer

(* The segment from the index up to a separator or the end of the path. *)
SegmentEnd ==
  CHOOSE i \in lookup.index .. Len(lookup.path) + 1 :
    /\ \/ i = Len(lookup.path) + 1
       \/ lookup.path[i] = FileSystemSeparator
    /\ \A j \in lookup.index .. i - 1 : lookup.path[j] # FileSystemSeparator

Segment == SubSeq(lookup.path, lookup.index, SegmentEnd - 1)

AtSegment ==
  /\ lookup.state = "walk"
  /\ Len(lookup.path) > 1
  /\ lookup.index <= Len(lookup.path)

(* Mutation: a directory that is not the root directory is kept for the    *)
(* next segment.                                                           *)
SegmentDirectoryKept ==
  IF lookup.directory = Null THEN lookup.cluster ELSE lookup.directory

(* The directory of the segment: only the root directory is not asked of   *)
(* the cache.                                                              *)
SegmentDirectory ==
  IF lookup.directory = Root THEN Root ELSE lookup.cluster

SegmentCaches ==
  IF lookup.directory = Root THEN {directory_cache} ELSE CacheWith(lookup.cluster)

(* An empty segment ends the walk and leaves the entry of the last one. *)
EmptySegment ==
  /\ AtSegment
  /\ Segment = <<>>
  /\ \E cache \in SegmentCaches :
       /\ directory_cache' = cache
       /\ lookup' = [lookup EXCEPT !.directory = SegmentDirectory, !.state = "end", !.result = 0,
                       !.index = SegmentEnd + 1,
                       !.owner = Pointer(lookup.owner, cache)]

(* A directory has no such name: the walk ends without an entry. *)
MissSegment ==
  /\ AtSegment
  /\ Segment # <<>>
  /\ EntryByName(SegmentDirectory, Segment) = NoEntry
  /\ \E cache \in SegmentCaches :
       /\ directory_cache' = cache
       /\ lookup' = [lookup EXCEPT !.directory = SegmentDirectory, !.state = "end", !.result = 0,
                       !.index = SegmentEnd + 1, !.entry = NoEntry, !.owner = Null]

(* The entry is found: its data is the directory of the next segment, and  *)
(* below the root directory the walk goes on through the cache.            *)
FindSegment ==
  /\ AtSegment
  /\ Segment # <<>>
  /\ EntryByName(SegmentDirectory, Segment) # NoEntry
  /\ \E cache \in SegmentCaches :
       /\ directory_cache' = cache
       /\ LET entry == EntryByName(SegmentDirectory, Segment)
          IN lookup' = [lookup EXCEPT
               !.directory = IF SegmentDirectory = Root THEN Null ELSE SegmentDirectory,
               !.index = SegmentEnd + 1, !.entry = entry, !.owner = SegmentDirectory,
               !.cluster = entry.cluster, !.result = 1]

(* A directory that is not in the cache cannot be read; or, once there is  *)
(* the directory, a character of the segment or of a name in the directory *)
(* cannot be converted (DirectoryEntry has how a comparison fails).        *)
FailSegment ==
  /\ AtSegment
  /\ \/ /\ lookup.directory # Root
        /\ lookup.cluster \notin directory_cache
        /\ lookup' = [lookup EXCEPT !.state = "end", !.result = -1]
        /\ UNCHANGED directory_cache
     \/ /\ Segment # <<>>
        /\ \E cache \in SegmentCaches :
             /\ directory_cache' = cache
             /\ lookup' = [lookup EXCEPT !.directory = SegmentDirectory, !.state = "end",
                             !.result = -1, !.owner = Pointer(lookup.owner, cache)]

(* The end of the path.  A path of one character is that of the root       *)
(* directory, whatever the character is.                                   *)
EndPath ==
  /\ lookup.state = "walk"
  /\ \/ Len(lookup.path) <= 1
     \/ lookup.index > Len(lookup.path)
  /\ lookup' = [lookup EXCEPT !.state = "end",
                  !.result = IF Len(lookup.path) <= 1 THEN 1 ELSE lookup.result]
  /\ UNCHANGED directory_cache

LookupStep == EmptySegment \/ MissSegment \/ FindSegment \/ FailSegment \/ EndPath

(* Mutation: the directory is not reset when there is an entry. *)
MadeWithDirectory == [entry |-> lookup.entry, directory |-> lookup.directory]

(* The file entry that a walk makes unless it failed: of the entry, which  *)
(* is cloned, or of the root directory.  It keeps the directory only if    *)
(* there is no entry; otherwise it reads its directory when it needs one.  *)
MadeFileEntry ==
  [entry |-> lookup.entry,
   directory |-> IF lookup.entry = NoEntry THEN lookup.directory ELSE Null]

-----------------------------------------------------------------------------
(* What a path means: the entry that its names lead to, one after another. *)
(* A separator at the start or at the end does not matter; an empty name   *)
(* leads nowhere.  The meaning of the path before place i of it is that of *)
(* the names that end there: where the next one starts, whether they lead  *)
(* to an entry, and the directory that it opens.                           *)
MeaningAfter(path, meaning, i) ==
  IF i <= Len(path) /\ path[i] # FileSystemSeparator THEN meaning
  ELSE IF i = 1 \/ (i = Len(path) + 1 /\ meaning.start = i)
    THEN [meaning EXCEPT !.start = i + 1]
  ELSE LET name == SubSeq(path, meaning.start, i - 1)
           entry == IF meaning.found /\ name # <<>>
                      THEN EntryByName(meaning.cluster, name) ELSE NoEntry
       IN [start |-> i + 1, found |-> entry # NoEntry, cluster |-> entry.cluster, entry |-> entry]

Meaning(path) ==
  LET meaning[i \in 0 .. Len(path) + 1] ==
        IF i = 0 THEN [start |-> 1, found |-> TRUE, cluster |-> Root, entry |-> NoEntry]
        ELSE MeaningAfter(path, meaning[i - 1], i)
  IN meaning

Resolve(path) == Meaning(path)[Len(path) + 1]

(* A walk that does not fail finds an entry exactly if the names of the    *)
(* path lead to one, and then that entry: the directory of each name is    *)
(* the one read from the entry before it, from the cache or not            *)
(* (libfsfat_file_system.c:2765).  A path of one character is that of the  *)
(* root directory, as it should be if the character is a separator.        *)
PathResolved ==
  /\ lookup.state = "end"
  /\ lookup.result # -1
  /\ Len(lookup.path) # 1 \/ lookup.path[1] = FileSystemSeparator
  => /\ (lookup.result = 1) = Resolve(lookup.path).found
     /\ lookup.result = 1 => lookup.entry = Resolve(lookup.path).entry

(* A file entry that was found does not depend on the cache: its entry is  *)
(* cloned before the cache can free the directory it is in, however small  *)
(* the cache and whichever directory it gives up, and it borrows no other  *)
(* directory than that of the root (libfsfat_file_system.c:2465 hands out  *)
(* a directory that the cache goes on to own, 2885 clones, 2899).          *)
NothingDangles ==
  lookup.state = "end" /\ lookup.result = 1 =>
    /\ lookup.owner # Freed
    /\ MadeFileEntry.directory \in {Root, Null}
=============================================================================
