---------------------------- MODULE BlockDrivers ---------------------------
(***************************************************************************)
(* The two drivers behind the interface of src/src/block.h.  A program is  *)
(* built with one of them: driver is chosen at the start and the other     *)
(* one's variables rest.  Both implement BlockDevice.                      *)
(***************************************************************************)
EXTENDS BlockSd, BlockPc

VARIABLE driver

vars == <<clientVars, sdVars, pcVars, driver>>

Init == \/ driver = "sd" /\ SdInit
           /\ blocks = "null" /\ block_fs_size = 0 /\ block_ro = FALSE /\ accessed = {}
        \/ driver = "pc" /\ PcInit
           /\ pc = "idle" /\ tries = 0 /\ swaps = 0 /\ drv = 0 /\ card = 0
           /\ inserted = TRUE /\ listening = FALSE /\ sound = FALSE
Next == \/ driver = "sd" /\ SdNext /\ UNCHANGED <<pcVars, driver>>
        \/ driver = "pc" /\ PcNext /\ UNCHANGED <<sdVars, driver>>
Spec == Init /\ [][Next]_vars

\* The drivers run on their own: a call goes on as long as the card answers.
SdSteps == driver = "sd" /\ SdDriver /\ UNCHANGED <<pcVars, driver>>
SdCardReady == \* ACMD41 is not answered "busy" for ever
  driver = "sd" /\ WaitReady(0) /\ UNCHANGED <<pcVars, driver>>
PcSteps == driver = "pc" /\ (PcReject \/ PcRead \/ PcStore \/ PcWritten
                             \/ \E n \in Images : PcInitBody(n))
           /\ UNCHANGED <<sdVars, driver>>
FairSpec == Spec /\ WF_vars(SdSteps) /\ SF_vars(SdCardReady) /\ WF_vars(PcSteps)

(***************************************************************************)
(* Both drivers keep the promise of block.h (BlockDevice), for requests    *)
(* inside and outside the medium, and through the removal and exchange of  *)
(* the card at any poll: for the block numbers whose byte offset fits the  *)
(* word it is computed in, or that are sent to the card as they are.       *)
(***************************************************************************)
Device == INSTANCE BlockDevice WITH
  sound <- IF driver = "sd" THEN sound ELSE ready,
  reach <- IF driver = "sd" THEN Space(card) ELSE ByteSpace
ImplementsDevice == Device!Spec

(***************************************************************************)
(* The promise as block.h gives it, for every number.  The drivers do not  *)
(* keep it, and TLC refutes it: for a byte offset that does not fit a word *)
(* (block_sd.c:299, 327; block_pc.c:87, 101) both serve another block.     *)
(***************************************************************************)
Promise == INSTANCE BlockDevice WITH
  sound <- IF driver = "sd" THEN sound ELSE ready, reach <- Word
ImplementsEveryNumber == Promise!Spec

TypeOK ==
  /\ ClientTypeOK
  /\ driver \in {"sd", "pc"}
  /\ driver = "sd" =>
       /\ pc \in Labels /\ tries \in 0 .. Retries /\ swaps \in 0 .. MaxSwaps
       /\ drv \in [card_type : {"NONE", "SC", "HC", "ERROR"}, read_only : BOOLEAN,
                   size : Nat, error : {"none", "NOT_PRESENT"}]
       /\ card \in Cards /\ inserted \in BOOLEAN /\ listening \in BOOLEAN /\ sound \in BOOLEAN
  /\ driver = "pc" =>
       /\ blocks \in {"null", "live", "freed"}
       /\ block_fs_size \in Images \cup {0} /\ block_ro \in BOOLEAN

(***************************************************************************)
(* Between a successful sd_card_reset() and the removal of the card, the   *)
(* driver's unit of addresses (card_type) and number of blocks (size) are  *)
(* the card's, and a protected card is known to be protected.  read_only   *)
(* is never cleared (block_sd.c:206, 235), so the converse does not hold   *)
(* once cards are changed.                                                 *)
(***************************************************************************)
CardKnown == (driver = "sd" /\ sound /\ ready /\ call.op # "init") =>
  /\ (drv.card_type = "SC") = ByteAddressed(card)
  /\ drv.size = Capacity(card)
  /\ card.wp => drv.read_only

(***************************************************************************)
(* Every call of the SD driver ends, unless the card stops answering in    *)
(* one of the polls without a bound (CMD55's answer, the two start tokens: *)
(* block_sd.c:57, 170, 308), answers a read with an error token (308), or  *)
(* stays in the slot and never ceases to be busy (355).                    *)
(***************************************************************************)
Hung == \/ pc \in {"CMD55", "csdtoken", "readtoken"} /\ ~listening
        \/ pc = "readstuck"
        \/ pc = "stuckbusy" /\ listening
CallsReturn == (call.op # "none") ~> (call.op = "none" \/ Hung)
=============================================================================
