-------------------------------- MODULE Tools -------------------------------
(***************************************************************************)
(* The programs over the library: the mount tool under FUSE and under      *)
(* Dokan, the info tool, and a script over the Python binding.  A behaviour*)
(* is the run of one of them.                                              *)
(***************************************************************************)
EXTENDS InfoTool, PythonBinding

CONSTANT
  Programs           (* subset of {"fuse", "dokan", "info", "python"}      *)

toolVars == <<mountVars, infoVars, lookupVars>>

vars == <<toolVars, pythonVars>>

Init ==
  /\ tool \in Programs
  /\ LookupInit
  /\ MountInit
  /\ InfoInit
  /\ IF tool = "python" THEN PythonInit ELSE PythonIdle

Next ==
  \/ MountNext /\ UNCHANGED <<infoVars, pythonVars>>
  \/ InfoNext /\ UNCHANGED pythonVars
  \/ tool = "python" /\ PythonNext /\ UNCHANGED toolVars

(* A program goes on with what it does until it is done with it; nobody    *)
(* has to ask it for anything.                                             *)
Fairness ==
  /\ WF_vars(Serve /\ UNCHANGED <<infoVars, pythonVars>>)
  /\ WF_vars(InfoStep /\ UNCHANGED pythonVars)

Spec == Init /\ [][Next]_vars /\ Fairness

(* Every file entry that is allocated is held: by a context, by the request*)
(* that is served, by a call of the function that prints; or it is lost in *)
(* the two ways there are, a path that leads nowhere (mount_handle.c:866)  *)
(* and a directory that FUSE releases (mount_fuse.c:1012).  No other way   *)
(* through the tools, failures included, loses one or frees one twice.     *)
FileEntriesAccounted ==
  file_entries = Held + Len(calls) + lost

(* A volume whose names tell its directories apart: no name is empty or has*)
(* a separator, that of a directory is none of those before it but for     *)
(* case, and identifiers, which are places in the volume, increase.        *)
NamesDistinct ==
  \A c \in DOMAIN Content :
    /\ \A i \in DOMAIN Content[c] :
         /\ Content[c][i].name # <<>>
         /\ FileSystemSeparator \notin ToSet(Content[c][i].name)
         /\ Content[c][i].id \in Int
    /\ \A j \in DOMAIN Content[c] : \A i \in 1 .. j - 1 :
         /\ Content[c][i].id <= Content[c][j].id
         /\ Content[c][j].kind = "directory" =>
              ~ SameName(Content[c][i].name, Content[c][j].name)

(* What the info tool prints for the path of an entry leads to the entry,  *)
(* if there is no control character in the path: the path put together on  *)
(* the way down (info_handle.c:1743) is the one that a lookup takes apart  *)
(* (libfsfat_file_system.c:2787).  Where entries have the same name but for*)
(* case it leads to the first.  A control character is printed as \x and   *)
(* digits (info_handle.c:1085), which no lookup takes back: the text for   *)
(* such a path leads elsewhere or nowhere.  (A path of one character has no*)
(* separator to lead anywhere, see EndPath.)                               *)
PrintedPathsLead ==
  \A p \in {q \in printed : Len(q.path) > 1 /\ ControlCharacter \notin ToSet(q.path)} :
    LET meant == Resolve(p.text)
    IN /\ meant.found
       /\ SameName(meant.entry.name, p.entry.name)
       /\ meant.entry.id <= p.entry.id

(* Every request is answered, for a walk gets to the end of its path and a *)
(* list to the end of its directory; and the info tool, once it has begun, *)
(* gets through the directories, which are a tree, and closes the volume.  *)
ProgramsGetOn ==
  /\ (request.state # "idle") ~> (request.state = "idle")
  /\ (info \in {"hierarchy", "bodyfile", "path"}) ~> (info = "closed")
=============================================================================
