----------------------------- MODULE MountTool -----------------------------
(***************************************************************************)
(* The mount tool (fsfattools): requests of FUSE (mount_fuse.c) or Dokan   *)
(* (mount_dokan.c) on the files of a volume.  Either serves one request    *)
(* after another, fuse_loop by its definition and Dokan with one thread    *)
(* (fsfatmount.c:441, 487).                                                *)
(*                                                                         *)
(* A request looks up its path (mount_handle.c) or uses the mount file     *)
(* entry that an earlier one left in its context (fh of FUSE, Context of   *)
(* Dokan), and has to free what it takes.  Mount file entries own one file *)
(* entry of the library each (mount_file_entry.c); only their number and   *)
(* who holds them matters, and file entries that nobody holds are lost.    *)
(***************************************************************************)
EXTENDS PathLookup

CONSTANTS
  Contexts,          (* files and directories that are open at once        *)
  HostPaths,         (* Host -> the paths asked for                        *)
  DokanMaxPath,      (* DOKAN_MAX_PATH                                     *)
  MaxLost            (* bounds requests: none once this many are lost      *)

ASSUME MountAssumption ==
  /\ IsFiniteSet(Contexts)
  /\ \A host \in {"fuse", "dokan"} : \A path \in HostPaths[host] : path \in Seq(ToSet(path))

VARIABLES
  tool,              (* "fuse", "dokan", or another tool                   *)
  mount_handle,      (* "initialized", "open", "freed" or "none"           *)
  file_entries,      (* file entries of the library that are allocated     *)
  lost,              (* how many of them nobody can free any more          *)
  context,           (* what each context holds                            *)
  request            (* the request that is served                         *)

mountVars == <<tool, mount_handle, file_entries, lost, context, request>>

INSTANCE PathString WITH Host <- tool

(* A context and the operation that opened it. *)
Closed == [op |-> "none", entry |-> NoEntry, directory |-> Null]

Opened(op, made) == [op |-> op, entry |-> made.entry, directory |-> made.directory]

Idle ==
  [state |-> "idle", op |-> "none", path |-> <<>>, context |-> Null, temporary |-> Closed,
   sub |-> FALSE, index |-> 0, listed |-> <<>>, error |-> FALSE, answer |-> "none"]

MountInit ==
  /\ mount_handle = IF tool \in {"fuse", "dokan"} THEN "initialized" ELSE "none"
  /\ file_entries = 0
  /\ lost = 0
  /\ context = [c \in Contexts |-> Closed]
  /\ request = Idle

(* What may be asked of each host: an open leaves its file entry in the    *)
(* context, a query frees it again.                                        *)
OpenOps == IF tool = "fuse" THEN {"open", "opendir"} ELSE {"CreateFile"}

QueryOps == IF tool = "fuse" THEN {"getattr"} ELSE {"GetFileInformation", "FindFiles"}

ListOps == {"readdir", "FindFiles"}

(* mount_handle_open, and mount_handle_free if it fails (fsfatmount.c). *)
OpenVolume ==
  /\ mount_handle = "initialized"
  /\ mount_handle' \in {"open", "freed"}
  /\ UNCHANGED <<tool, file_entries, lost, context, request, lookupVars>>

(* The loop ends and FUSE calls destroy; the volume is not freed, nor are  *)
(* the file entries of files that are still open.  Dokan frees nothing.    *)
Unmount ==
  /\ mount_handle = "open"
  /\ request.state = "idle"
  /\ mount_handle' = "freed"
  /\ UNCHANGED <<tool, file_entries, lost, context, request, lookupVars>>

MayRequest ==
  /\ mount_handle = "open"
  /\ request.state = "idle"
  /\ lost < MaxLost

(* An open for writing, or one that is to create a file, is refused. *)
RefuseOpen ==
  /\ MayRequest
  /\ \E op \in OpenOps \ {"opendir"} :
       request' = [Idle EXCEPT !.state = "done", !.op = op, !.answer = "refused"]
  /\ UNCHANGED <<tool, mount_handle, file_entries, lost, context, lookupVars>>

(* A request that starts with its path: mount_handle_get_file_entry_by_path*)
(* ignores one separator at the end and has the path converted.            *)
WithoutSeparator(path) ==
  IF Len(path) >= 2 /\ Last(path) = PathSeparator THEN Front(path) ELSE path

AskByPath ==
  /\ MayRequest
  /\ \E op \in OpenOps \cup QueryOps, path \in HostPaths[tool], c \in Contexts :
       LET converted == ToFileEntryPath(WithoutSeparator(path))
           asked == [Idle EXCEPT !.op = op, !.path = path, !.context = c]
       IN /\ op \in OpenOps => context[c] = Closed
          /\ IF converted.valid
               THEN /\ request' = [asked EXCEPT !.state = "lookup"]
                    /\ lookup' = NewLookup(converted.text)
               ELSE /\ request' = [asked EXCEPT !.state = "done", !.answer = "no entry"]
                    /\ UNCHANGED lookup
  /\ UNCHANGED <<tool, mount_handle, file_entries, lost, context, directory_cache>>

(* A request that uses its context. *)
AskOpen ==
  /\ MayRequest
  /\ \E c \in Contexts, op \in {"read", "readdir", "ReadFile"} :
       /\ context[c].op = [read |-> "open", readdir |-> "opendir", ReadFile |-> "CreateFile"][op]
       /\ request' = [Idle EXCEPT !.state = IF op = "readdir" THEN "list" ELSE "read",
                        !.op = op, !.context = c]
  /\ UNCHANGED <<tool, mount_handle, file_entries, lost, context, lookupVars>>

Walk ==
  /\ request.state = "lookup"
  /\ LookupStep
  /\ UNCHANGED mountVars

Answer(answer) == [request EXCEPT !.state = "done", !.answer = answer]

Fail(answer) == [request EXCEPT !.state = "done", !.error = TRUE, !.answer = answer]

(* The walk failed or found nothing.  If it found nothing, there is a file *)
(* entry all the same, and nobody frees it.                                *)
NotFound ==
  /\ request.state = "lookup"
  /\ lookup.state = "end"
  /\ lookup.result # 1
  /\ file_entries' = IF lookup.result = 0 THEN file_entries + 1 ELSE file_entries
  /\ lost' = IF lookup.result = 0 THEN lost + 1 ELSE lost
  /\ request' = IF lookup.result = 0 THEN Answer("no entry") ELSE Fail("no entry")
  /\ lookup' = NoLookup
  /\ UNCHANGED <<tool, mount_handle, context, directory_cache>>

(* The name of the mount file entry begins after the last separator.  That *)
(* is the one ignored at the end of the path, if there is one: the length  *)
(* of the name wraps, and the file entry is freed again.                   *)
NameFails == WithoutSeparator(request.path) # request.path

FoundUnnamed ==
  /\ request.state = "lookup"
  /\ lookup.state = "end"
  /\ lookup.result = 1
  /\ NameFails
  /\ request' = Fail("no entry")
  /\ lookup' = NoLookup
  /\ UNCHANGED <<tool, mount_handle, file_entries, lost, context, directory_cache>>

(* Mutation: any result but -1 is taken for a file entry. *)
FoundAny ==
  /\ request.state = "lookup"
  /\ lookup.state = "end"
  /\ lookup.result # -1
  /\ ~ NameFails
  /\ file_entries' = file_entries + 1
  /\ IF request.op \in OpenOps
       THEN /\ context' = [context EXCEPT ![request.context] = Opened(request.op, MadeFileEntry)]
            /\ request' = Answer("ok")
       ELSE /\ request' = [request EXCEPT !.temporary = Opened(request.op, MadeFileEntry),
                             !.state = IF request.op = "FindFiles" THEN "list" ELSE "stat"]
            /\ UNCHANGED context
  /\ lookup' = NoLookup
  /\ UNCHANGED <<tool, mount_handle, lost, directory_cache>>

Found ==
  /\ request.state = "lookup"
  /\ lookup.state = "end"
  /\ lookup.result = 1
  /\ ~ NameFails
  /\ file_entries' = file_entries + 1
  /\ IF request.op \in OpenOps
       THEN /\ context' = [context EXCEPT ![request.context] = Opened(request.op, MadeFileEntry)]
            /\ request' = Answer("ok")
       ELSE /\ request' = [request EXCEPT !.temporary = Opened(request.op, MadeFileEntry),
                             !.state = IF request.op = "FindFiles" THEN "list" ELSE "stat"]
            /\ UNCHANGED context
  /\ lookup' = NoLookup
  /\ UNCHANGED <<tool, mount_handle, lost, directory_cache>>

(* Mutation: a sub file entry is not freed when a list fails. *)
EndedButSub(answered) ==
  /\ request' = [answered EXCEPT !.temporary = Closed, !.sub = FALSE]
  /\ file_entries' = file_entries - (IF request.temporary # Closed THEN 1 ELSE 0)

(* A request ends: a query frees its file entry, whether it fails or not. *)
Ended(answered) ==
  /\ request' = [answered EXCEPT !.temporary = Closed, !.sub = FALSE]
  /\ file_entries' = file_entries - (IF request.temporary # Closed THEN 1 ELSE 0)
                                  - (IF request.sub THEN 1 ELSE 0)

Stat ==
  /\ request.state = "stat"
  /\ Ended(Answer("ok")) \/ Ended(Fail("error"))
  /\ UNCHANGED <<tool, mount_handle, lost, context, lookupVars>>

ReadFile ==
  /\ request.state = "read"
  /\ Ended(Answer("ok")) \/ Ended(Fail("error"))
  /\ UNCHANGED <<tool, mount_handle, lost, context, lookupVars>>

(* The sub file entries of a file entry, from its own directory and not    *)
(* from the cache (libfsfat_file_entry.c).                                 *)
Listed == IF request.temporary # Closed THEN request.temporary ELSE context[request.context]

SubEntriesOf(entry) ==
  IF entry = NoEntry THEN Content[Root]
  ELSE IF entry.kind = "directory" THEN Content[entry.cluster]
  ELSE <<>>

SubEntries == SubEntriesOf(Listed.entry)

(* The entries "." and ".." are filled in and the sub file entries counted.*)
StartList ==
  /\ request.state = "list"
  /\ request.index = 0
  /\ \/ Ended(Fail("error"))
     \/ /\ request' = [request EXCEPT !.index = 1]
        /\ UNCHANGED file_entries
  /\ UNCHANGED <<tool, mount_handle, lost, context, lookupVars>>

GetSubFileEntry ==
  /\ request.state = "list"
  /\ request.index \in 1 .. Len(SubEntries)
  /\ ~ request.sub
  /\ \/ Ended(Fail("error"))
     \/ /\ request' = [request EXCEPT !.sub = TRUE]
        /\ file_entries' = file_entries + 1
  /\ UNCHANGED <<tool, mount_handle, lost, context, lookupVars>>

(* The size of a name is that of the string allocated for it, and Dokan    *)
(* takes names up to a size only.                                          *)
NameFits ==
  tool = "dokan" => FromFileEntryPathSize(SubEntries[request.index].name) <= DokanMaxPath

FillSubFileEntry ==
  /\ request.sub
  /\ \/ Ended(Fail("error"))
     \/ /\ NameFits
        /\ request' = [request EXCEPT !.sub = FALSE, !.index = @ + 1,
             !.listed = Append(@, FromFileEntryPath(SubEntries[request.index].name))]
        /\ file_entries' = file_entries - 1
  /\ UNCHANGED <<tool, mount_handle, lost, context, lookupVars>>

(* Mutation: the list goes on to an entry after the last. *)
EndListLate ==
  /\ request.state = "list"
  /\ request.index > Len(SubEntries) + 1
  /\ Ended(Answer("ok"))
  /\ UNCHANGED <<tool, mount_handle, lost, context, lookupVars>>

EndList ==
  /\ request.state = "list"
  /\ request.index > Len(SubEntries)
  /\ Ended(Answer("ok"))
  /\ UNCHANGED <<tool, mount_handle, lost, context, lookupVars>>

(* The host has the answer. *)
Return ==
  /\ request.state = "done"
  /\ request' = Idle
  /\ UNCHANGED <<tool, mount_handle, file_entries, lost, context, lookupVars>>

(* mount_fuse_release and mount_dokan_CloseFile free the mount file entry, *)
(* mount_fuse_releasedir only clears the context.                          *)
CloseFile ==
  /\ MayRequest
  /\ \E c \in Contexts :
       /\ context[c].op \in {"open", "CreateFile"}
       /\ context' = [context EXCEPT ![c] = Closed]
  /\ file_entries' = file_entries - 1
  /\ UNCHANGED <<tool, mount_handle, lost, request, lookupVars>>

ReleaseDirectory ==
  /\ MayRequest
  /\ \E c \in Contexts :
       /\ context[c].op = "opendir"
       /\ context' = [context EXCEPT ![c] = Closed]
  /\ lost' = lost + 1
  /\ UNCHANGED <<tool, mount_handle, file_entries, request, lookupVars>>

Serve ==
  \/ Walk \/ NotFound \/ FoundUnnamed \/ Found
  \/ Stat \/ ReadFile
  \/ StartList \/ GetSubFileEntry \/ FillSubFileEntry \/ EndList
  \/ Return

MountNext ==
  \/ OpenVolume \/ Unmount
  \/ RefuseOpen \/ AskByPath \/ AskOpen \/ CloseFile \/ ReleaseDirectory
  \/ Serve

-----------------------------------------------------------------------------
Held ==
  Cardinality({c \in Contexts : context[c] # Closed})
    + (IF request.temporary # Closed THEN 1 ELSE 0)
    + (IF request.sub THEN 1 ELSE 0)

(* The entry that a path of the host means, by the tree of the volume. *)
Meant(path) == Resolve(ToFileEntryPath(path).text)

(* The answer to a request by path is the one the tree of the volume gives:*)
(* a file that is there is opened and described, and its context holds the *)
(* entry of just that path; "no entry" is answered only for a path that    *)
(* leads nowhere (mount_fuse.c:357, mount_handle.c:848).                   *)
AnsweredByPath ==
  request.state = "done" /\ request.path # <<>> /\ ~ request.error =>
    IF ToFileEntryPath(WithoutSeparator(request.path)).valid
      THEN /\ (request.answer = "ok") = Meant(WithoutSeparator(request.path)).found
           /\ request.answer = "ok" /\ request.op \in OpenOps =>
                context[request.context].entry = Meant(request.path).entry
      ELSE request.answer = "no entry"

(* What a directory lists can be opened: every sub entry is listed once and*)
(* in order, and its name, escaped for the host and appended to the path of*)
(* the directory, is converted back to the name by which the directory     *)
(* finds it, character for character (mount_fuse.c:818,                    *)
(* mount_path_string.c).                                                   *)
ListedCanBeOpened ==
  request.op \in ListOps /\ request.state = "done" /\ request.answer = "ok" =>
    LET entry == IF request.op = "FindFiles" THEN Meant(WithoutSeparator(request.path)).entry
                 ELSE context[request.context].entry
        content == SubEntriesOf(entry)
    IN /\ Len(request.listed) = Len(content)
       /\ \A i \in DOMAIN content :
            LET converted == ToFileEntryPath(<<PathSeparator>> \o request.listed[i])
            IN /\ converted.valid
               /\ converted.text = <<Separator>> \o content[i].name
=============================================================================
