------------------------- MODULE MCDirectoryScanner -------------------------
(***************************************************************************)
(* A small disk for DirectoryScanner: a directory "a" that holds           *)
(* "x/.DS_Store", room for a directory ".b" to which "a/x" can be moved,   *)
(* and for an AppleDouble file "._s".                                      *)
(***************************************************************************)
EXTENDS DirectoryScanner

MCPaths ==
    {<<>>, <<"a">>, <<"a", "x">>, <<"a", "x", ".DS_Store">>,
     <<".b">>, <<".b", ".DS_Store">>, <<"._s">>}

MCDisk ==
    [p \in MCPaths |->
        CASE p \in {<<>>, <<"a">>, <<"a", "x">>} -> [kind |-> "dir", node |-> Len(p), mod |-> 0, meta |-> 0]
          [] p = <<"a", "x", ".DS_Store">> -> [kind |-> "file", node |-> 3, mod |-> 0, meta |-> 0]
          [] OTHER -> [kind |-> "absent", node |-> 0, mod |-> 0, meta |-> 0]]

\* Each option on and off, and moved items with and without all of the removed ones.
MCOptions ==
    {[compare |-> TRUE, bump |-> b, detectMoved |-> d, reportAll |-> a] :
        <<b, d, a>> \in {<<TRUE, TRUE, TRUE>>, <<TRUE, TRUE, FALSE>>, <<FALSE, FALSE, TRUE>>, <<TRUE, FALSE, FALSE>>}}

MCExcludable == {<<".b">>}

MCSystemFiles == {<<"._s">>}

MCDotFiles == {p \in MCPaths \ {<<>>} : Last(p) \in {".b", ".DS_Store"}}

MCDSStores == {p \in MCDotFiles : Last(p) = ".DS_Store"}
=============================================================================
