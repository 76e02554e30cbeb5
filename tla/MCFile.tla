------------------------------- MODULE MCFile -------------------------------
(* Instances of FatFsRefines: one file used through one handle. *)
EXTENDS FatFsRefines, TLC

\* open() flags: read/write/create and read only.
ReadWrite == { {"READ", "WRITE", "CREAT"}, {"READ"} }
\* The same with append, truncate and exclusive.
FileModes == { {"READ", "WRITE", "CREAT"}, {"READ"},
               {"READ", "WRITE", "APPEND", "CREAT"}, {"WRITE", "TRUNC"},
               {"WRITE", "CREAT", "EXCL"} }

\* The payload bytes are interchangeable.
BytePermutations == Permutations(Bytes)
=============================================================================
