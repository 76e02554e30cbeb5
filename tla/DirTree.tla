------------------------------ MODULE DirTree -------------------------------
(***************************************************************************)
(* What the directory calls promise, apart from any layout: a tree of      *)
(* named files and directories.  A call that succeeds does to the tree     *)
(* what its name says; one that fails leaves it alone.                     *)
(***************************************************************************)
EXTENDS Integers, Sequences, SequencesExt

CONSTANTS Paths        \* the paths calls are given, sequences of names

VARIABLES tree,        \* the kind of every path that exists
          result,      \* the last call and its outcome
          tight        \* there is hardly any room left

Parent(p) == Front(p)
IsDir(p) == p = <<>> \/ (p \in DOMAIN tree /\ tree[p] = "dir")
Exists(p) == p \in DOMAIN tree
Empty(p) == \A q \in DOMAIN tree : Parent(q) # p

Without(p) == [q \in DOMAIN tree \ {p} |-> tree[q]]
With(p, kind) == [q \in DOMAIN tree \cup {p} |-> IF q = p THEN kind ELSE tree[q]]

Init == tree = <<>> /\ tight \in BOOLEAN /\ result = [op |-> "none", path |-> <<>>, ok |-> TRUE]

\* A call succeeds only where it can.
Allowed(op, p) ==
  CASE op = "create" -> IsDir(Parent(p)) /\ ~IsDir(p)
    [] op = "mkdir"  -> IsDir(Parent(p)) /\ ~Exists(p)
    [] op = "unlink" -> Exists(p) /\ ~IsDir(p)
    [] op = "rmdir"  -> Exists(p) /\ Empty(p)

\* What makes the tree grow may also fail for lack of room, and rmdir of a file
\* because it is none.
MayFail(op, p) == \/ ~Allowed(op, p)
                  \/ tight /\ op \in {"create", "mkdir"}
                  \/ op = "rmdir" /\ ~IsDir(p)

After(op, p) ==
  CASE op = "create" -> With(p, "file")
    [] op = "mkdir"  -> With(p, "dir")
    [] OTHER -> Without(p)

Call(op, p) ==
  \/ /\ Allowed(op, p)
     /\ tree' = After(op, p)
     /\ result' = [op |-> op, path |-> p, ok |-> TRUE]
  \/ /\ MayFail(op, p)
     /\ UNCHANGED tree
     /\ result' = [op |-> op, path |-> p, ok |-> FALSE]

Next == tight' \in BOOLEAN /\ \E op \in {"create", "mkdir", "unlink", "rmdir"}, p \in Paths : Call(op, p)

Spec == Init /\ [][Next]_<<tree, result, tight>>
=============================================================================
