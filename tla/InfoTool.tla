------------------------------ MODULE InfoTool ------------------------------
(***************************************************************************)
(* The info tool (fsfattools/info_handle.c, fsfatinfo.c): the hierarchy of *)
(* the files of a volume, also as a bodyfile with digests of the data; one *)
(* file entry, by its path or its identifier; or the volume itself.        *)
(*                                                                         *)
(* The function that prints a file entry calls itself for every sub file   *)
(* entry.  Its calls are a stack: each has the file entry it prints, its   *)
(* path, the blocks of the data it has yet to read for a digest, and the   *)
(* index of the sub file entry it is at.                                   *)
(***************************************************************************)
EXTENDS MountTool

CONSTANTS
  InfoPaths,         (* paths asked for, in the form of the library        *)
  RootIdentifier,    (* of the root directory: where its entries begin     *)
  DigestBlocks       (* blocks of 4096 bytes in each file                  *)

ASSUME InfoAssumption == \A path \in InfoPaths : path \in Seq(ToSet(path))

VARIABLES
  info,              (* what is printed: "hierarchy", "entry", .. "closed" *)
  calls,             (* the calls of the function that prints              *)
  printed            (* the entries printed, their paths and the text      *)

infoVars == <<info, calls, printed>>

InfoInit ==
  /\ info = IF tool = "info" THEN "start" ELSE "closed"
  /\ calls = <<>>
  /\ printed = {}

(* info_handle_name_value_fprint: control characters, for which "\n" stands*)
(* here as in PathString, are printed as \x and two digits, all others as  *)
(* they are, the separator among them.                                     *)
ControlCharacter == "\n"

ValueString(value) ==
  IF ControlCharacter \notin ToSet(value) THEN value
  ELSE FlattenSeq([i \in DOMAIN value |->
         IF value[i] = ControlCharacter THEN <<"\\", "x", "0a">> ELSE <<value[i]>>])

Printed(path, entry) == [path |-> path, text |-> ValueString(path), entry |-> entry]

(* A call prints the path, to which the path of the directory has been     *)
(* put together, then the name.                                            *)
Called(entry, path) ==
  [entry |-> entry, path |-> path, index |-> 0,
   blocks |-> IF info = "bodyfile" /\ entry.kind = "file" THEN DigestBlocks ELSE 0]

(* info_handle_file_system_hierarchy_fprint, with a bodyfile or without. *)
PrintHierarchy ==
  /\ info = "start"
  /\ info' \in {"hierarchy", "bodyfile"}
  /\ file_entries' = file_entries + 1
  /\ calls' = <<Called(NoEntry, <<FileSystemSeparator>>)>>
  /\ UNCHANGED <<printed, tool, mount_handle, lost, context, request, lookupVars>>

Call == Last(calls)

(* Mutation: the name of the root directory gets a separator as well. *)
SubPathSeparated == Call.path \o Call.entry.name \o <<FileSystemSeparator>>

(* The path of the sub file entries: there is a separator after the name,  *)
(* and the root directory, which has no name, brings its own.              *)
SubPath ==
  IF Call.entry.name = <<>> THEN Call.path
  ELSE Call.path \o Call.entry.name \o <<FileSystemSeparator>>

(* A file entry is freed by the call that got it, when the call for it has *)
(* returned or failed: all of them if one fails, as each fails in its turn.*)
FailHierarchy ==
  /\ calls # <<>>
  /\ info' = "close"
  /\ calls' = <<>>
  /\ file_entries' = file_entries - Len(calls)
  /\ UNCHANGED <<printed, tool, mount_handle, lost, context, request, lookupVars>>

(* info_handle_file_entry_calculate_md5: every block has to be read whole. *)
DigestBlock ==
  /\ calls # <<>>
  /\ Call.blocks > 0
  /\ calls' = [calls EXCEPT ![Len(calls)].blocks = @ - 1]
  /\ UNCHANGED <<info, printed, tool, mount_handle, file_entries, lost, context, request, lookupVars>>

PrintFileEntry ==
  /\ calls # <<>>
  /\ Call.index = 0
  /\ Call.blocks = 0
  /\ printed' = printed \cup {Printed(Call.path \o Call.entry.name, Call.entry)}
  /\ calls' = [calls EXCEPT ![Len(calls)].index = 1]
  /\ UNCHANGED <<info, tool, mount_handle, file_entries, lost, context, request, lookupVars>>

CallForSubFileEntry ==
  /\ calls # <<>>
  /\ Call.index \in 1 .. Len(SubEntriesOf(Call.entry))
  /\ file_entries' = file_entries + 1
  /\ calls' = Append(calls, Called(SubEntriesOf(Call.entry)[Call.index], SubPath))
  /\ UNCHANGED <<info, printed, tool, mount_handle, lost, context, request, lookupVars>>

ReturnFromCall ==
  /\ calls # <<>>
  /\ Call.index > Len(SubEntriesOf(Call.entry))
  /\ file_entries' = file_entries - 1
  /\ calls' = IF Len(calls) = 1 THEN <<>>
              ELSE [Front(calls) EXCEPT ![Len(calls) - 1].index = @ + 1]
  /\ info' = IF Len(calls) = 1 THEN "close" ELSE info
  /\ UNCHANGED <<printed, tool, mount_handle, lost, context, request, lookupVars>>

(* info_handle_file_entry_fprint_by_path: a file entry that was not found  *)
(* is freed as well.                                                       *)
PrintByPath ==
  /\ info = "start"
  /\ \E path \in InfoPaths : lookup' = NewLookup(path)
  /\ info' = "path"
  /\ UNCHANGED <<calls, printed, mountVars, directory_cache>>

WalkByPath ==
  /\ info = "path"
  /\ LookupStep
  /\ UNCHANGED <<infoVars, mountVars>>

PrintFound ==
  /\ info = "path"
  /\ lookup.state = "end"
  /\ printed' = IF lookup.result = 1
                  THEN {Printed(lookup.path, lookup.entry)} ELSE printed
  /\ lookup' = NoLookup
  /\ info' = "close"
  /\ UNCHANGED <<calls, mountVars, directory_cache>>

(* info_handle_file_entry_fprint_by_identifier: an identifier is where an  *)
(* entry is in the volume.  That of the root directory is where its first  *)
(* entry is, which cannot be had this way.                                 *)
PrintByIdentifier ==
  /\ info = "start"
  /\ \E entry \in UNION {ToSet(Content[c]) : c \in DOMAIN Content} \cup {NoEntry} :
       printed' \in
         {{}, {Printed(<<>>, IF entry.id = RootIdentifier THEN NoEntry ELSE entry)}}
  /\ info' = "close"
  /\ UNCHANGED <<calls, mountVars, lookupVars>>

(* info_handle_volume_fprint: the format and the label. *)
PrintVolume ==
  /\ info = "start"
  /\ info' = "close"
  /\ UNCHANGED <<calls, printed, mountVars, lookupVars>>

(* info_handle_close_input and info_handle_free: the volume is closed and  *)
(* freed after the last of its file entries.                               *)
CloseInput ==
  /\ info = "close"
  /\ info' = "closed"
  /\ UNCHANGED <<calls, printed, mountVars, lookupVars>>

InfoStep ==
  \/ DigestBlock \/ PrintFileEntry \/ CallForSubFileEntry \/ ReturnFromCall
  \/ WalkByPath \/ PrintFound
  \/ CloseInput

InfoNext ==
  \/ PrintHierarchy \/ PrintByPath \/ PrintByIdentifier \/ PrintVolume
  \/ InfoStep
  \/ FailHierarchy
=============================================================================
