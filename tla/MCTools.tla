------------------------------- MODULE MCTools ------------------------------
(* A tree of three directories: the root directory, \a and \a\b.  The names*)
(* have to be escaped for one host or the other, and two differ in case.   *)
(* Clusters of files are read as directories as well: those of 4 have the  *)
(* form of an entry by chance, an empty file has no cluster.               *)
EXTENDS Tools

Entry(id, name, cluster, kind) ==
  [id |-> id, name |-> name, cluster |-> cluster, kind |-> kind]

MCRoot == 1

MCContent ==
  1 :> <<Entry(10, <<"a">>, 2, "directory"), Entry(11, <<"A">>, 4, "file"),
         Entry(12, <<"/", "\n", "^">>, 0, "file")>>
  @@ 2 :> <<Entry(20, <<"b">>, 3, "directory"), Entry(21, <<"U+2028">>, 4, "file")>>
  @@ 3 :> <<Entry(30, <<"a">>, 4, "file")>>
  @@ 4 :> <<Entry(40, <<"b">>, 0, "file")>>
  @@ 0 :> <<>>

MCUpper == "a" :> "A" @@ "b" :> "B"

MCHostPaths ==
  [fuse |-> {<<"/">>, <<"/", "a">>, <<"/", "A">>, <<"/", "c">>,
             <<"/", "a", "/", "b">>, <<"/", "a", "/", "b", "/", "a">>,
             <<"/", "a", "/", "b", "/", "a", "/", "b">>,
             <<"/", "a", "/", "c">>, <<"/", "\\", "x", "2f", "\\", "x", "0a", "^">>,
             <<"/", "a", "/", "\\", "U", "00002028">>,
             <<"/", "\\", "x", "5c">>, <<"/", "a", "/", "\\", "\\", "b">>, <<"/", "a", "\\">>},
   dokan |-> {<<"\\">>, <<"\\", "a">>, <<"\\", "A">>, <<"\\", "c">>,
              <<"\\", "a", "\\", "b", "\\", "a">>, <<"\\", "a", "\\">>,
              <<"\\", "^", "x", "2f", "^", "X", "0a", "^", "^">>,
              <<"\\", "a", "\\", "^", "u", "00002028">>},
   info |-> {}]

MCInfoPaths ==
  {<<"\\", "a", "\\", "b">>, <<"a", "\\", "b", "\\", "a">>, <<"\\", "a", "\\", "\\", "b">>,
   <<"\\", "a", "\\", "b", "\\", "\\">>, <<"\\", "c">>, <<"a">>, <<>>}

(* Two names of the root directory differ only in case, but the first is   *)
(* that of the directory.                                                  *)
ASSUME MCNamesDistinct == NamesDistinct

(* What scripts do with the Python binding: open and close, read, iterate. *)
MCScripts ==
  {{"open", "open_file_object", "close", "volume_entry"},
   {"open_file_object", "volume_entry", "sub_file_entry", "read"},
   {"open", "volume_entry", "sub_file_entries", "next"},
   {"open", "volume_entry", "sub_file_entries", "item"}}
=============================================================================
