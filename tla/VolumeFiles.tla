----------------------------- MODULE VolumeFiles -----------------------------
(***************************************************************************)
(* What embext.c promises its caller, without inodes, blocks or buffers:   *)
(* the files of a volume by name, handles with a position, and files that  *)
(* grow at their end.                                                      *)
(***************************************************************************)
EXTENDS Integers, Sequences

CONSTANTS Names, Handles

VARIABLES
  content,  \* the cells of every file
  handle,   \* the file of every handle, its position and whether it may write
  answer    \* the result of the last call

files == <<content, handle, answer>>

Closed == [name |-> <<>>, pos |-> 0, write |-> FALSE]
Init == handle = [h \in Handles |-> Closed] /\ answer = [op |-> "none", got |-> <<>>]

Ahead(h) == Len(content[handle[h].name]) - handle[h].pos

\* A file that is there is found, and a place in it can be sought.
Refuse(h) ==
  /\ answer'.op = "refused" /\ answer'.by = h /\ UNCHANGED <<content, handle>>
  /\ answer'.of = "open" /\ answer'.err = "ENOENT" => answer'.arg \notin Names
  /\ answer'.of = "lseek" => answer'.arg \notin 0..Len(content[handle[h].name])
  /\ answer'.of = "write" => ~handle[h].write
Elsewhere ==
  /\ answer'.op \in {"mount", "umount", "readdir", "open", "close"}
  /\ UNCHANGED <<content, handle>>

Open(h, name, write) ==
  /\ handle[h] = Closed
  /\ handle' = [handle EXCEPT ![h] = [name |-> name, pos |-> 0, write |-> write]]
  /\ answer'.op = "open" /\ answer'.name = name /\ UNCHANGED content

\* A read ends short at the end of the file only.
Read(h) ==
  /\ answer'.op = "read" /\ Len(answer'.got) <= Ahead(h)
  /\ answer'.got = [i \in 1..Len(answer'.got) |-> content[handle[h].name][handle[h].pos + i]]
  /\ answer'.short => Len(answer'.got) = Ahead(h)
  /\ handle' = [handle EXCEPT ![h].pos = @ + Len(answer'.got)]
  /\ UNCHANGED content

Extend(h) ==
  /\ handle[h].write /\ answer'.op = "write"
  /\ content' = [content EXCEPT ![handle[h].name] = @ \o answer'.got]
  /\ handle' = [handle EXCEPT ![h].pos = Len(content'[handle[h].name])]

Seek(h) ==
  /\ answer'.op = "lseek" /\ answer'.new \in 0..Len(content[handle[h].name])
  /\ handle' = [handle EXCEPT ![h].pos = answer'.new] /\ UNCHANGED content

Stat(h) ==
  /\ answer' = [op |-> "fstat", got |-> <<>>, size |-> Len(content[handle[h].name])]
  /\ UNCHANGED <<content, handle>>

Close(h) ==
  /\ handle' = [handle EXCEPT ![h] = Closed] /\ UNCHANGED content
  /\ answer'.op = "close"

Next ==
  \/ Elsewhere
  \/ \E h \in Handles :
       \/ Refuse(h)
       \/ \E name \in Names, write \in BOOLEAN : Open(h, name, write)
       \/ handle[h] # Closed /\ (Read(h) \/ Extend(h) \/ Seek(h) \/ Stat(h) \/ Close(h))

Spec == Init /\ [][Next]_files
=============================================================================
