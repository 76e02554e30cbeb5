---------------------------- MODULE BlockDevice ----------------------------
(***************************************************************************)
(* What src/src/block.h promises of any block driver, whatever the medium: *)
(* block n is the one that starts n * BLOCK_SIZE bytes into the medium     *)
(* (block.h:36, 81); a block_read() that returns 0 delivers what it holds, *)
(* a block_write() that returns 0 has stored it, and a call that reports   *)
(* an error has changed nothing.                                           *)
(*                                                                         *)
(* The promise is suspended while the medium is out (sound = FALSE), until *)
(* a block_init() succeeds, and for the numbers from reach on: asked for   *)
(* one of those a driver may serve another block.  block.h has no such     *)
(* limit; its promise is the one with reach above every number.            *)
(***************************************************************************)
EXTENDS Integers

CONSTANTS Data     \* what a block can hold
VARIABLES
  store,           \* the medium: block number -> Data
  call,            \* the running call: operation, block, data
  ret,             \* the last call's operation, outcome and data
  stored,          \* the running write has taken effect
  sound,           \* the medium has been in place since block_init()
  reach            \* the numbers below are the ones promised

vars == <<store, call, ret, stored, sound, reach>>
Promised == sound /\ call.block < reach
Idle == call.op = "none"

Ask ==
  /\ Idle /\ call'.op \in {"init", "read", "write"}
  /\ stored' = FALSE
  /\ UNCHANGED <<store, ret, sound, reach>>

Store ==
  /\ call.op = "write" /\ ~stored
  /\ \E b \in DOMAIN store :
       /\ Promised => b = call.block
       /\ store' = [store EXCEPT ![b] = call.data]
  /\ stored' = TRUE
  /\ UNCHANGED <<call, ret, sound, reach>>

Fail ==
  /\ ~Idle /\ ~stored
  /\ ret'.op = call.op /\ ret'.ok = FALSE
  /\ call'.op = "none"
  /\ UNCHANGED <<store, stored, sound, reach>>

ReadDone ==
  /\ call.op = "read"
  /\ ret'.op = "read" /\ ret'.ok = TRUE
  /\ Promised => call.block \in DOMAIN store /\ ret'.data = store[call.block]
  /\ call'.op = "none"
  /\ UNCHANGED <<store, stored, sound, reach>>

WriteDone ==
  /\ call.op = "write"
  /\ ret'.op = "write" /\ ret'.ok = TRUE
  /\ sound => stored
  /\ call'.op = "none" /\ stored' = FALSE
  /\ UNCHANGED <<store, sound, reach>>

InitDone ==
  /\ call.op = "init"
  /\ ret'.op = "init" /\ ret'.ok = TRUE
  /\ call'.op = "none" /\ sound' \in BOOLEAN
  /\ sound => UNCHANGED store
  /\ UNCHANGED <<stored, reach>>

Eject == sound' = FALSE /\ UNCHANGED <<store, call, ret, stored, reach>>
\* Another medium, in the middle of a call too: other contents, perhaps wider
\* addresses.
Insert == ~sound /\ UNCHANGED <<call, ret, stored, sound>>

Init == call.op = "none" /\ ~stored /\ ~sound
Next == Ask \/ Store \/ Fail \/ ReadDone \/ WriteDone \/ InitDone \/ Eject \/ Insert
Spec == Init /\ [][Next]_vars
=============================================================================
