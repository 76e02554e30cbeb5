------------------------------ MODULE PosixFile ------------------------------
(***************************************************************************)
(* What gristle promises the caller of open, read, write, lseek, close and *)
(* unlink about one file used through one handle (src/src/gristle.h, "con- *)
(* forms to the IEEE standard"): a byte sequence and a position, with no   *)
(* sectors, clusters or buffers.  Bytes move one at a time, so that a      *)
(* write that fails has stored a prefix.                                   *)
(*                                                                         *)
(* Two departures from POSIX that the code documents are kept: a created   *)
(* file exists once a byte is written to it, and a position beyond the end *)
(* is refused.                                                             *)
(***************************************************************************)
EXTENDS Integers, Sequences

CONSTANTS Bytes, Modes

VARIABLES
  exists,   \* the name is in the directory, or will be when closed
  content,  \* the bytes of the file
  flags,    \* access of the open handle, {} when closed
  pos,      \* position of the handle
  job,      \* the running call
  ret       \* the result of the last call

posix == <<exists, content, flags, pos, job, ret>>

NoJob == [op |-> "none", todo |-> <<>>, n |-> 0, got |-> <<>>, new |-> 0]
Init ==
  /\ ~exists /\ content = <<>> /\ flags = {} /\ pos = 0 /\ job = NoJob
  /\ ret.op = "none"

Idle == job.op = "none"
Running(op) == job.op = op
File == <<exists, content, flags, pos>>
Answer(op, err) == ret'.op = op /\ ret'.err = err
Done(op, err) == Answer(op, err) /\ job' = NoJob
Access(m) == {"OPEN"} \cup (m \cap {"READ", "WRITE", "APPEND"})

Refuse ==
  /\ Idle /\ UNCHANGED <<File, job>>
  /\ \/ flags = {} /\ \E op \in {"lseek", "close"} : Answer(op, "EBADF")
     \/ "READ" \notin flags /\ Answer("read", "EBADF")
     \/ "WRITE" \notin flags /\ Answer("write", "EBADF")
     \/ flags # {} /\ \E op \in {"open", "unlink"} : Answer(op, "ENFILE")
     \/ ~exists /\ \E op \in {"open", "unlink"} : Answer(op, "ENOENT")
     \/ exists /\ Answer("open", "EEXIST")

OpenNew(m) ==
  /\ Idle /\ flags = {} /\ ~exists /\ "CREAT" \in m
  /\ flags' = Access(m) /\ content' = <<>> /\ pos' = 0
  /\ Answer("open", "OK") /\ UNCHANGED <<exists, job>>
OpenOld(m) ==
  /\ Idle /\ flags = {} /\ exists /\ ~ {"CREAT", "EXCL"} \subseteq m
  /\ ~ {"WRITE", "TRUNC"} \subseteq m
  /\ flags' = Access(m) /\ pos' = 0
  /\ Answer("open", "OK") /\ UNCHANGED <<exists, content, job>>
OpenTruncate(m) ==
  /\ Idle /\ flags = {} /\ exists /\ ~ {"CREAT", "EXCL"} \subseteq m
  /\ {"WRITE", "TRUNC"} \subseteq m
  /\ flags' = Access(m) /\ pos' = 0 /\ content' = <<>>
  /\ job' = [NoJob EXCEPT !.op = "open"] /\ UNCHANGED <<exists, ret>>
EndOpen == Running("open") /\ Done("open", "OK") /\ UNCHANGED File

BeginWrite(bs) ==
  /\ Idle /\ {"OPEN", "WRITE"} \subseteq flags
  /\ job' = [NoJob EXCEPT !.op = IF "APPEND" \in flags THEN "append" ELSE "write",
                          !.todo = bs]
  /\ UNCHANGED <<File, ret>>
ToEnd ==
  /\ Running("append") /\ pos' = Len(content)
  /\ job' = [job EXCEPT !.op = "write"] /\ UNCHANGED <<exists, content, flags, ret>>
PutByte ==
  /\ Running("write") /\ job.todo # <<>>
  /\ content' = IF pos = Len(content) THEN Append(content, Head(job.todo))
                ELSE [content EXCEPT ![pos + 1] = Head(job.todo)]
  /\ pos' = pos + 1 /\ exists' = TRUE
  /\ job' = [job EXCEPT !.todo = Tail(@)] /\ UNCHANGED <<flags, ret>>
EndWrite ==
  /\ Running("write") /\ job.todo = <<>> /\ Done("write", "OK") /\ UNCHANGED File
\* Only a write that has to enlarge the file may fail: the volume is full.
FailWrite ==
  /\ Running("write") /\ job.todo # <<>> /\ pos = Len(content)
  /\ Done("write", "EIO") /\ UNCHANGED File

BeginRead(n) ==
  /\ Idle /\ {"OPEN", "READ"} \subseteq flags
  /\ job' = [NoJob EXCEPT !.op = "read", !.n = n] /\ UNCHANGED <<File, ret>>
GetByte ==
  /\ Running("read") /\ job.n > 0 /\ pos < Len(content)
  /\ job' = [job EXCEPT !.n = @ - 1, !.got = Append(@, content[pos + 1])]
  /\ pos' = pos + 1 /\ UNCHANGED <<exists, content, flags, ret>>
\* A read ends short at the end of the file only.
EndRead ==
  /\ Running("read") /\ (job.n = 0 \/ pos = Len(content))
  /\ ret'.got = job.got /\ Done("read", "OK") /\ UNCHANGED File

BeginSeek(new) ==
  /\ Idle /\ flags # {}
  /\ job' = [NoJob EXCEPT !.op = "lseek", !.new = new] /\ UNCHANGED <<File, ret>>
Move ==
  /\ Running("lseek") /\ job.new <= Len(content)
  /\ pos' = job.new /\ job' = [job EXCEPT !.op = "moved"]
  /\ UNCHANGED <<exists, content, flags, ret>>
Outside ==
  /\ Running("lseek") /\ job.new > Len(content)
  /\ job' = [job EXCEPT !.op = "refused"] /\ UNCHANGED <<File, ret>>
EndSeek ==
  /\ \/ Running("moved") /\ ret'.new = job.new /\ Done("lseek", "OK")
     \/ Running("refused") /\ Done("lseek", "ESEEK")
  /\ UNCHANGED File

BeginClose ==
  /\ Idle /\ flags # {} /\ job' = [NoJob EXCEPT !.op = "close"]
  /\ UNCHANGED <<File, ret>>
EndClose ==
  /\ Running("close") /\ Done("close", "OK") /\ flags' = {} /\ pos' = 0
  /\ UNCHANGED <<exists, content>>
\* A file that could not be stored stays open.
FailClose ==
  /\ Running("close") /\ exists /\ Done("close", "EIO") /\ UNCHANGED File

BeginUnlink ==
  /\ Idle /\ flags = {} /\ exists
  /\ job' = [NoJob EXCEPT !.op = "unlink"] /\ UNCHANGED <<File, ret>>
Remove ==
  /\ Running("unlink") /\ exists /\ exists' = FALSE /\ content' = <<>>
  /\ UNCHANGED <<flags, pos, job, ret>>
EndUnlink ==
  /\ Running("unlink") /\ ~exists /\ Done("unlink", "OK") /\ UNCHANGED File

Next ==
  \/ Refuse \/ EndOpen \/ ToEnd \/ PutByte \/ EndWrite \/ FailWrite
  \/ GetByte \/ EndRead \/ Move \/ Outside \/ EndSeek
  \/ BeginClose \/ EndClose \/ FailClose \/ BeginUnlink \/ Remove \/ EndUnlink
  \/ \E m \in Modes : OpenNew(m) \/ OpenOld(m) \/ OpenTruncate(m)
  \/ /\ Idle /\ job'.op \in {"write", "append"} /\ job'.todo \in Seq(Bytes)
     /\ BeginWrite(job'.todo)
  \/ Idle /\ job'.op = "read" /\ job'.n \in Nat /\ BeginRead(job'.n)
  \/ Idle /\ job'.op = "lseek" /\ job'.new \in Nat /\ BeginSeek(job'.new)

Spec == Init /\ [][Next]_posix
=============================================================================
