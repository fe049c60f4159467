--------------------------- MODULE MCGraphFolders ---------------------------
(* Small instances of GraphFolders: the paths and the calls.                 *)
EXTENDS GraphFolders, TLC

CONSTANTS f1, f2, f3, f4, f5, f6, f7, f8, d1, d2, d3, d4, d5, d6, d7

FolderIds == {f1, f2, f3, f4, f5, f6, f7, f8}
FileIds == {d1, d2, d3, d4, d5, d6, d7}

EnsureOf(p) == [kind |-> "ensure_folder", path |-> p, dst |-> p]
WriteOf(p) == [kind |-> "write", path |-> p, dst |-> p]
CreateOf(p) == [kind |-> "create", path |-> p, dst |-> p]
DeleteOf(p) == [kind |-> "delete", path |-> p, dst |-> p]
MoveOf(s, d) == [kind |-> "move", path |-> s, dst |-> d]

A == <<"a">>
AB == <<"a", "b">>
C == <<"c">>
CB == <<"c", "b">>

Tree == {<< >>, A, AB, C, CB}

\* Nested folders that come, go, change places, and meet a file.
AllCalls ==
  { EnsureOf(AB), EnsureOf(CB), WriteOf(CB), CreateOf(AB), DeleteOf(A), DeleteOf(CB),
    MoveOf(A, C), MoveOf(AB, CB), MoveOf(C, A) }

\* Threads that make, replace, remove and move the same folders.
SharedCalls ==
  { EnsureOf(AB), EnsureOf(C), CreateOf(A), WriteOf(AB), DeleteOf(A), DeleteOf(C),
    MoveOf(C, AB), MoveOf(A, AB) }
SharedTree == {<< >>, A, AB, C}

\* A weekly archive: folders and files are only added.
ArchiveCalls == { EnsureOf(AB), WriteOf(<<"a", "b", "f">>), WriteOf(<<"a", "c", "f">>) }
ArchiveTree == {<< >>, A, AB, <<"a", "c">>, <<"a", "b", "f">>, <<"a", "c", "f">>}

\* A folder that is moved away and made again.
RenameCalls == { EnsureOf(A), MoveOf(A, C) }
=============================================================================
