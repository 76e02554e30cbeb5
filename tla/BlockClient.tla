---------------------------- MODULE BlockClient ----------------------------
(***************************************************************************)
(* The caller's side of src/src/block.h: one call at a time, block_init()  *)
(* first.  The drivers BlockSd and BlockPc extend this module; a program   *)
(* is linked with one of them.                                             *)
(***************************************************************************)
EXTENDS Integers

CONSTANTS
  Data, Blank,     \* what a block can hold; what an empty bus reads as
  BlockSize,       \* BLOCK_SIZE
  Word,            \* 2^32: blockno_t and byte addresses wrap here
  Asked            \* the block numbers callers ask for

ASSUME BlockAssumption ==
  /\ Blank \notin Data
  /\ BlockSize \in Nat \ {0} /\ Word \in Nat \ {0} /\ Word % BlockSize = 0
  /\ Asked \subseteq 0 .. Word - 1

VARIABLES
  store,           \* the medium's blocks, those callers can reach
  call, ret,       \* the running call and the result of the last one
  stored,          \* auxiliary: the running write has reached the medium
  ready            \* the last block_init() succeeded

clientVars == <<store, call, ret, stored, ready>>

NoCall == [op |-> "none", block |-> 0, data |-> Blank]
Result(op, ok, data) == [op |-> op, ok |-> ok, data |-> data]
ByteSpace == Word \div BlockSize    \* block numbers a 32-bit byte address tells apart

ClientInit ==
  /\ call = NoCall /\ ret = Result("none", TRUE, Blank)
  /\ stored = FALSE /\ ready = FALSE

Begin(op, block, data) ==
  /\ call.op = "none"
  /\ op # "init" => ready
  /\ call' = [op |-> op, block |-> block, data |-> data]
  /\ stored' = FALSE
  /\ UNCHANGED <<store, ret, ready>>

Return(ok, data) ==
  /\ ret' = Result(call.op, ok, data)
  /\ call' = NoCall /\ stored' = FALSE
  /\ ready' = (IF call.op = "init" THEN ok ELSE ready)
  /\ UNCHANGED store

ClientTypeOK ==
  /\ DOMAIN store \subseteq 0 .. Word - 1
  /\ \A b \in DOMAIN store : store[b] \in Data
  /\ call \in [op : {"none", "init", "read", "write"}, block : Asked \cup {0},
               data : Data \cup {Blank}]
  /\ ret \in [op : {"none", "init", "read", "write"}, ok : BOOLEAN,
              data : Data \cup {Blank}]
  /\ stored \in BOOLEAN /\ ready \in BOOLEAN
=============================================================================
