------------------------------ MODULE MCVolume ------------------------------
(* Instances of FatVolume: several files and handles on a small volume. *)
EXTENDS FatVolume, FatFsInv, TLC

ReadWrite == { {"READ", "WRITE", "CREAT"}, {"READ"} }

\* open() flags with O_TRUNC.
AnyUse == { {"READ", "WRITE", "CREAT"}, {"WRITE", "TRUNC"} }

\* The names are interchangeable.
NamePermutations == Permutations(Names)

\* No step reads the result of an earlier call.
WithoutResult ==
  <<fat, dir, disk, file_num, read_only, pc, call, crashes, faults, owner>>
=============================================================================
