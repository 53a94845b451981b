--------------------------- MODULE DirectoryEntry ---------------------------
(***************************************************************************)
(* The name of a directory entry (libfsfat_directory_entry.c,              *)
(* libfsfat_name.c): put together from the entries that store it, kept, and*)
(* copied with the entry into the file entries that use it.  A character is*)
(* its number: a byte of a short name or of a volume label, and 16 bits of *)
(* the other names.                                                        *)
(***************************************************************************)
EXTENDS Integers, SequencesExt

CONSTANTS
  ShortBase,              (* characters of a short name before its dot (8) *)
  ShortExtension,         (* and after it (3)                              *)
  LongPart,               (* characters in an entry of VFAT (13)           *)
  MaximumLongParts,       (* entries of VFAT that a name may have (20)     *)
  ExfatPart,              (* characters in an entry of exFAT (15)          *)
  MaximumExfatParts,      (* entries of exFAT that a name may have (9)     *)
  StoredNames,            (* pairs of the kind of an entry and its name    *)
  Strings                 (* that entries are looked up by                 *)

Nul == 0
Space == 32
Dot == 46
Fill == 65535
Deleted == 229

(* The halves of a character that takes two times 16 bits.                 *)
Surrogates == 55296 .. 57343

HasCharacter(s, character) == \E i \in DOMAIN s : s[i] = character

(* Trailing spaces fill up what holds a short name or a part of it.        *)
Fits(s, length) == Len(s) <= length /\ (s # <<>> => s[Len(s)] # Space)

(* The names that the format has (documentation, lines 430-700).  A first  *)
(* character 0xe5 of a short name is stored as 0x05, and the name here is  *)
(* what is stored.  Names with a character of two halves are left out: a   *)
(* half that a name has is one without the other.                          *)
Storable(stored) ==
  LET name == stored.name
  IN  /\ stored.kind \in {"short", "label", "long", "file", "exfat_label"}
      /\ name \in Seq(Nat)
      /\ ~ HasCharacter(name, Nul)
      /\ IF stored.kind \in {"short", "label"}
         THEN /\ \A i \in DOMAIN name : name[i] < 256
              /\ name # <<>> => name[1] # Deleted
         ELSE /\ \A i \in DOMAIN name : name[i] < 65536
              /\ \A i \in 1 .. Len(name) - 1 :
                   name[i] \notin Surrogates \/ name[i + 1] \notin Surrogates
      /\ stored.kind = "label" =>
           ~ HasCharacter(name, Dot) /\ Fits(name, ShortBase + ShortExtension)
      /\ stored.kind = "short" =>
           \/ ~ HasCharacter(name, Dot) /\ Fits(name, ShortBase)
           \/ \E dot \in 1 .. Len(name) - 1 :
                /\ \A i \in DOMAIN name : name[i] = Dot <=> i = dot
                /\ Fits(SubSeq(name, 1, dot - 1), ShortBase)
                /\ Fits(SubSeq(name, dot + 1, Len(name)), ShortExtension)

ASSUME DirectoryEntryAssumption ==
  /\ {ShortBase, ShortExtension, LongPart, ExfatPart} \subseteq Nat \ {0}
  /\ {MaximumLongParts, MaximumExfatParts} \subseteq Nat
  /\ \A stored \in StoredNames : Storable(stored)
  /\ \A string \in Strings : string \in Seq(Nat) /\ ~ HasCharacter(string, Nul)

VARIABLES
  stored_name,            (* what the volume stores                        *)
  long_name_entries,      (* of VFAT, collected by the one who reads       *)
  directory_entry,
  file_entry,             (* the copy of it that a file entry has          *)
  answer

entryVars == <<stored_name, long_name_entries, directory_entry, file_entry, answer>>

None == <<-1>>

NoArray == <<None>>

(***************************************************************************)
(* How a name is stored (format documentation, lines 430-700).             *)
(***************************************************************************)

Padded(s, length, padding) ==
  s \o [i \in 1 .. length - Len(s) |-> padding]

Parts(s, length) ==
  [i \in 1 .. Len(s) \div length |-> SubSeq(s, (i - 1) * length + 1, i * length)]

RoundedUp(n, length) == ((n + length - 1) \div length) * length

(* A part that is not full ends with a zero and is filled up.              *)
LongParts(name) ==
  LET ended == IF Len(name) % LongPart = 0 THEN name ELSE Append(name, Nul)
  IN Reverse(Parts(Padded(ended, RoundedUp(Len(ended), LongPart), Fill), LongPart))

ExfatParts(name) ==
  Parts(Padded(name, RoundedUp(Len(name), ExfatPart), Nul), ExfatPart)

ShortData(name) ==
  LET dot == SelectInSeq(name, LAMBDA c : c = Dot)
  IN  IF dot = 0
      THEN Padded(name, ShortBase + ShortExtension, Space)
      ELSE Padded(SubSeq(name, 1, dot - 1), ShortBase, Space)
             \o Padded(SubSeq(name, dot + 1, Len(name)), ShortExtension, Space)

(* An entry as it has been read (libfsfat_directory_entry_read_data).      *)
EntryOf(stored) ==
  [type               |-> CASE stored.kind = "long" -> "short" [] OTHER -> stored.kind,
   name_data          |-> CASE stored.kind \in {"short", "label"} -> ShortData(stored.name)
                            [] stored.kind = "exfat_label" -> stored.name
                            [] OTHER -> ShortData(<<>>),
   name_entries_array |-> IF stored.kind = "file" THEN ExfatParts(stored.name) ELSE NoArray,
   name               |-> None,
   is_unicode         |-> 0]

EntryIdle ==
  /\ stored_name = [kind |-> "none", name |-> None]
  /\ long_name_entries = NoArray
  /\ directory_entry = [type |-> "none"]
  /\ file_entry = [type |-> "none"]
  /\ answer = [to |-> "none"]

EntryInit ==
  /\ stored_name \in StoredNames
  /\ long_name_entries =
       IF stored_name.kind = "long" THEN LongParts(stored_name.name) ELSE NoArray
  /\ directory_entry = EntryOf(stored_name)
  /\ file_entry = [type |-> "none"]
  /\ answer = [to |-> "none"]

(***************************************************************************)
(* libfsfat_directory_entry_get_name and the two ways to put a name        *)
(* together that it and the reading of a directory use.                    *)
(***************************************************************************)

(* Up to the first character of a kind, or all of it.                      *)
UpTo(s, character) ==
  LET at == SelectInSeq(s, LAMBDA c : c = character)
  IN IF at = 0 THEN s ELSE SubSeq(s, 1, at - 1)

NameFromShort(entry) ==
  LET base      == UpTo(SubSeq(entry.name_data, 1, ShortBase), Space)
      extension == UpTo(SubSeq(entry.name_data, ShortBase + 1, ShortBase + ShortExtension),
                        Space)
  IN  IF extension = <<>> THEN base
      ELSE IF entry.type = "label" THEN base \o extension
      ELSE Append(base, Dot) \o extension

HasExfatName(parts) == Len(parts) \in 1 .. MaximumExfatParts

NameFromExfat(parts) == UpTo(FlattenSeq(parts), Nul)

HasLongName(parts) == Len(parts) \in 1 .. MaximumLongParts

(* The part that is stored first is the last of the name.                  *)
NameFromLong(parts) == UpTo(FlattenSeq(Reverse(parts)), Nul)

(* An entry with a name, of bytes or of 16 bits for a character.           *)
WithName(entry, name, is_unicode) ==
  [entry EXCEPT !.name = name, !.is_unicode = is_unicode]

(* An entry that has its name, or is given it.  Others than these have none*)
(* and are no error.                                                       *)
Named(entry) ==
  IF entry.name # None THEN entry
  ELSE IF entry.name_entries_array # NoArray
  THEN WithName(entry, NameFromExfat(entry.name_entries_array), 1)
  ELSE IF entry.type \in {"short", "label"} THEN WithName(entry, NameFromShort(entry), 0)
  ELSE IF entry.type = "exfat_label" THEN WithName(entry, entry.name_data, 1)
  ELSE entry

CannotBeNamed(entry) ==
  entry.name = None /\ entry.name_entries_array # NoArray
    /\ ~ HasExfatName(entry.name_entries_array)

Read == long_name_entries = NoArray

(* What libuna is asked to make of each character of a name, as a byte of  *)
(* ASCII or as UTF-16.  It refuses the others.                             *)
IsConvertible(is_unicode, character) ==
  IF is_unicode = 0 THEN character < 128 ELSE character \notin Surrogates

(* Whoever gets the name gets it converted; the entry keeps it as it is.   *)
NameForCaller(entry) ==
  IF \A i \in DOMAIN entry.name : IsConvertible(entry.is_unicode, entry.name[i])
  THEN entry.name
  ELSE "error"

(* The reading of a directory puts a long name together before anybody     *)
(* else sees the entry, or fails.                                          *)
GetNameFromLongNameEntries ==
  /\ ~ Read
  /\ HasLongName(long_name_entries)
  /\ directory_entry' =
       WithName(directory_entry, NameFromLong(long_name_entries), 1)
  /\ long_name_entries' = NoArray
  /\ UNCHANGED <<stored_name, file_entry, answer>>

GetNameFromDirectoryEntry ==
  /\ Read
  /\ directory_entry.type # "none"
  /\ IF CannotBeNamed(directory_entry)
     THEN answer' = [to |-> "name", name |-> "error"] /\ UNCHANGED directory_entry
     ELSE /\ directory_entry' = Named(directory_entry)
          /\ answer' = [to |-> "name", name |-> NameForCaller(directory_entry')]
  /\ UNCHANGED <<stored_name, long_name_entries, file_entry>>

(* Mutation: the entry is copied as it is, its array left behind.          *)
CloneUnnamed(entry) == [entry EXCEPT !.name_entries_array = NoArray]

(* The copy has no array: the entry that is copied is given its name first.*)
Clone(entry) == [Named(entry) EXCEPT !.name_entries_array = NoArray]

CloneDirectoryEntry ==
  /\ Read
  /\ directory_entry.type # "none"
  /\ file_entry.type = "none"
  /\ ~ CannotBeNamed(directory_entry)
  /\ file_entry' = Clone(directory_entry)
  /\ directory_entry' = Named(directory_entry)
  /\ UNCHANGED <<stored_name, long_name_entries, answer>>

GetNameFromFileEntry ==
  /\ file_entry.type # "none"
  /\ file_entry' = Named(file_entry)
  /\ answer' = [to |-> "name", name |-> NameForCaller(file_entry')]
  /\ UNCHANGED <<stored_name, long_name_entries, directory_entry>>

(***************************************************************************)
(* libfsfat_name_compare_with_utf8_string and its twin.                    *)
(***************************************************************************)

towupper(c) == IF c \in 97 .. 122 THEN c - 32 ELSE c

(* "less" is a string that is less than the name.  Characters are converted*)
(* when their turn comes: one that cannot be is an error, unless the string*)
(* and the name have differed, or one of them has ended, before it.        *)
Compare(entry, string) ==
  LET name     == entry.name
      both     == 1 .. IF Len(name) < Len(string) THEN Len(name) ELSE Len(string)
      Fails(i) == \/ ~ IsConvertible(entry.is_unicode, name[i])
                  \/ string[i] \in Surrogates
      ends     == {i \in both : Fails(i) \/ towupper(name[i]) # towupper(string[i])}
  IN  IF ends # {}
      THEN LET i == CHOOSE i \in ends : \A j \in ends : i <= j
           IN  IF Fails(i) THEN "error"
               ELSE IF towupper(string[i]) < towupper(name[i]) THEN "less" ELSE "greater"
      ELSE IF Len(string) > Len(name) THEN "greater"
      ELSE IF Len(name) > Len(string) THEN "less"
      ELSE "equal"

(* An entry without a name cannot be compared.                             *)
CompareWithString ==
  /\ Read
  /\ directory_entry.type # "none"
  /\ \E string \in Strings :
       IF CannotBeNamed(directory_entry)
       THEN /\ answer' = [to |-> "compare", string |-> string, is |-> "error"]
            /\ UNCHANGED directory_entry
       ELSE /\ directory_entry' = Named(directory_entry)
            /\ answer' = [to |-> "compare", string |-> string,
                          is |-> Compare(directory_entry', string)]
  /\ UNCHANGED <<stored_name, long_name_entries, file_entry>>

EntryNext ==
  \/ GetNameFromLongNameEntries
  \/ GetNameFromDirectoryEntry
  \/ CloneDirectoryEntry
  \/ GetNameFromFileEntry
  \/ CompareWithString

(***************************************************************************)
(* Properties.                                                             *)
(***************************************************************************)

(* An entry of exFAT may have 17 parts, of which nine are enough for the   *)
(* code (libfsfat_directory_entry.c:1626).                                 *)
TooLong ==
  stored_name.kind = "file"
    /\ Len(ExfatParts(stored_name.name)) \notin 1 .. MaximumExfatParts

Folded(s) == [i \in DOMAIN s |-> towupper(s[i])]

(* A short name, or a volume label, with a space that fills nothing up.    *)
Spaced ==
  stored_name.kind \in {"short", "label"} /\ HasCharacter(stored_name.name, Space)

(* The name of an entry for everybody: the one that is stored, but that    *)
(* either part of a short name ends at its first space, where the format   *)
(* has only trailing spaces ignored (documentation, line 639).             *)
OneName ==
  IF Spaced THEN NameFromShort(EntryOf(stored_name)) ELSE stored_name.name

(* A name of characters that everybody can be told.  The format lets a     *)
(* short name have the bytes from 0x80, of a codepage (documentation, line *)
(* 657), which the code does not ask for: no caller can have such a name.  *)
Speakable ==
  \A i \in DOMAIN OneName :
    IF stored_name.kind \in {"short", "label"}
    THEN OneName[i] < 128
    ELSE OneName[i] \notin Surrogates

(* Whoever asks for the name, and of which of the copies, in whatever      *)
(* order, gets the same name, which is the one that is stored, and a string*)
(* is found equal to it when it differs in nothing but case.  Or each of   *)
(* them fails, always, for a name that is too long or that has a character *)
(* that cannot be converted, and for no other; but that such a character   *)
(* may go unnoticed where a string differs from the name before it.        *)
NameKept ==
  /\ answer.to = "name" =>
       answer.name = IF TooLong \/ ~ Speakable THEN "error" ELSE OneName
  /\ answer.to = "compare" =>
       /\ TooLong => answer.is = "error"
       /\ answer.is = "error" =>
            TooLong \/ ~ Speakable \/ \E i \in DOMAIN answer.string :
                                        answer.string[i] \in Surrogates
       /\ answer.is = "equal" <=>
            ~ TooLong /\ Speakable /\ Folded(answer.string) = Folded(OneName)
=============================================================================
