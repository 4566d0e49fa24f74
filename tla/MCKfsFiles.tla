----------------------------- MODULE MCKfsFiles -----------------------------
(***************************************************************************)
(* Instances of KfsFiles.                                                  *)
(***************************************************************************)
EXTENDS KfsFiles, TLC

CONSTANTS t1, t2

Flat == {<<"a">>, <<"b">>}
Nested == {<<"a">>, <<"a", "b">>}
Tree == {<<"a">>, <<"b">>, <<"a", "b">>}

ReadOrCreate == {{}, {"write", "creat"}}
CreateOrTrunc == {{"creat"}, {"write", "trunc"}}

\* A file is created or opened as it is, or emptied and appended to.
Everything == {{"write", "creat"}, {"append", "trunc"}}

\* Offsets to and from the end; from the position they reach every place.
Around == {-1, 0, 1}

Interchangeable == Permutations(Task)
=============================================================================
