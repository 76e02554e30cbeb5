------------------------------ MODULE BlockSd ------------------------------
(***************************************************************************)
(* The SD card driver, src/src/block_drivers/block_sd.c, and the card on   *)
(* the other end of the SPI bus.  pc names the command whose answer        *)
(* sd_command() polls for, or the transfer that follows it.  The card      *)
(* (Answers, CsdBytes, Eject, Insert) is external: it is what the code     *)
(* expects of an SD card in SPI mode.  An empty slot reads as 0xFF, and so *)
(* does a card that has got no CMD0 since it was put in: it is not in SPI  *)
(* mode yet.  Cards come and go at any poll.                               *)
(***************************************************************************)
EXTENDS BlockClient

CONSTANTS
  Cards,           \* cards that may be put into the slot
  Retries,         \* SD_RETRIES
  MaxSwaps,        \* bound: cards put in
  Misbehave        \* subset of {"reject", "readerror", "busy"}: what a card may do

ASSUME SlotAssumption == Retries \in Nat /\ MaxSwaps \in Nat

VARIABLES
  pc, tries,       \* where the driver is; polls made by sd_command()
  drv,             \* SDCard card: what the driver knows
  card, inserted,  \* the card, and whether it is in the slot
  listening,       \* it has been there since a CMD0: in SPI mode
  sound,           \* auxiliary: listening since the last block_init()
  swaps

sdVars == <<pc, tries, drv, card, inserted, listening, sound, swaps>>

NoAnswer == 255
Commands == {"CMD0", "CMD8", "CMD55", "ACMD41", "CMD9", "CMD17", "CMD24"}
\* Loops of the driver that end only when the card says so.
Unbounded == {"CMD55", "csdtoken", "readtoken", "readstuck", "stuckbusy"}
Labels == {"idle", "echo", "csd", "readdata", "senddata", "busy"} \cup Commands \cup Unbounded

(***************************************************************************)
(* The card (external).                                                    *)
(***************************************************************************)
ByteAddressed(c) == c.kind \in {"v1", "v2"}
Capacity(c) == IF ByteAddressed(c)
               THEN (c.csize + 1) * 2^(c.mult + 2) * 2^(c.rbl - 9)
               ELSE (c.csize + 1) * 1024
Space(c) == IF ByteAddressed(c) THEN ByteSpace ELSE Word
Reached(c) == {b % Space(c) : b \in Asked} \cap (0 .. Capacity(c) - 1)

\* Mutant: block numbers for every card.
AddressPlain(block) == block
Address(block) ==
  IF drv.card_type = "SC" THEN (block * BlockSize) % Word ELSE block
\* The block the card finds at the address it was sent.
AtCard(block) ==
  IF ByteAddressed(card) THEN Address(block) \div BlockSize ELSE Address(block)

Answers(command) ==
  CASE command = "CMD0"   -> {1}
    [] command = "CMD8"   -> {IF card.kind \in {"v1", "mmc"} THEN 5 ELSE 1}
    [] command = "CMD55"  -> {IF card.kind = "mmc" THEN 5 ELSE 1}
    [] command = "ACMD41" -> IF card.kind = "mmc" THEN {5} ELSE {0, 1}
    [] command = "CMD9"   -> {IF card.kind = "mmc" THEN 5 ELSE 0}
    [] OTHER -> {IF AtCard(call.block) \in DOMAIN store THEN 0 ELSE 64}

\* The register of the card's layout: version 1 (byte addresses) or 2.
CsdBytes(c) ==
  [k \in 0 .. 15 |->
     IF ByteAddressed(c)
     THEN CASE k = 0  -> 0
            [] k = 5  -> 80 + c.rbl
            [] k = 6  -> 128 + c.csize \div 1024
            [] k = 7  -> (c.csize \div 4) % 256
            [] k = 8  -> (c.csize % 4) * 64 + 45
            [] k = 9  -> 180 + c.mult \div 2
            [] k = 10 -> (c.mult % 2) * 128 + 127
            [] k = 14 -> IF c.wp THEN 32 ELSE 0
            [] OTHER -> 255
     ELSE CASE k = 0  -> 64
            [] k = 7  -> c.csize \div 65536
            [] k = 8  -> (c.csize \div 256) % 256
            [] k = 9  -> c.csize % 256
            [] k = 14 -> IF c.wp THEN 16 ELSE 0
            [] OTHER -> 255]
\* What the driver shifts in: nothing but ones once the card is out.
Csd == IF listening THEN CsdBytes(card) ELSE [k \in 0 .. 15 |-> 255]

Eject ==
  /\ inserted /\ inserted' = FALSE /\ listening' = FALSE /\ sound' = FALSE
  /\ UNCHANGED <<clientVars, pc, tries, drv, card, swaps>>

Insert(c) ==
  /\ ~inserted /\ swaps < MaxSwaps
  /\ card' = c /\ inserted' = TRUE /\ swaps' = swaps + 1
  /\ \E s \in [Reached(c) -> Data] : store' = s
  /\ UNCHANGED <<call, ret, stored, ready, pc, tries, drv, listening, sound>>

(***************************************************************************)
(* sd_command: an answer, or 0xFF after SD_RETRIES polls.                  *)
(***************************************************************************)
Goto(label) == pc' = label /\ tries' = 0
Keep == UNCHANGED <<card, inserted, listening, swaps>>
Bus == UNCHANGED <<clientVars, sound>>

Gets(command, r) ==
  /\ pc = command
  /\ \/ /\ listening /\ r \in Answers(command)
        /\ tries < Retries \/ command = "CMD55"
     \/ tries = Retries /\ command # "CMD55" /\ r = NoAnswer
\* Mutant: polls on without counting up to SD_RETRIES.
PollUncounted ==
  /\ pc \in Commands \ {"CMD55"}
  /\ tries' = tries + 1
  /\ Bus /\ Keep /\ UNCHANGED <<pc, drv>>
Poll ==
  /\ pc \in Commands \ {"CMD55"} /\ tries < Retries
  /\ tries' = tries + 1
  /\ Bus /\ Keep /\ UNCHANGED <<pc, drv>>
\* while(c == 0xFF), while(c != 0xFE): no bound.
PollOn ==
  /\ pc \in Unbounded
  /\ UNCHANGED <<clientVars, sdVars>>

(***************************************************************************)
(* sd_card_reset, called by block_init.                                    *)
(***************************************************************************)
\* CMD0 puts the card in the slot into SPI mode.
BeginInit ==
  /\ Begin("init", 0, Blank)
  /\ Goto("CMD0") /\ listening' = inserted
  /\ UNCHANGED <<drv, card, inserted, sound, swaps>>

InitReturns(ok) ==
  /\ Return(ok, Blank) /\ Goto("idle")
  /\ sound' = (IF ok THEN listening ELSE sound)
  /\ Keep

Reset(r) ==
  /\ Gets("CMD0", r)
  /\ IF r = NoAnswer
     THEN /\ drv' = [drv EXCEPT !.card_type = "ERROR", !.error = "NOT_PRESENT"]
          /\ InitReturns(FALSE)
     ELSE Goto("CMD8") /\ Bus /\ Keep /\ UNCHANGED drv

CheckVersion(r) ==
  /\ Gets("CMD8", r)
  /\ IF r = 5
     THEN /\ drv' = [drv EXCEPT !.card_type = "SC"]
          /\ Goto("CMD55") /\ Bus /\ Keep
     ELSE IF r = 1
     THEN Goto("echo") /\ Bus /\ Keep /\ UNCHANGED drv
     ELSE /\ drv' = [drv EXCEPT !.card_type = "ERROR"]
          /\ InitReturns(FALSE)

\* The four bytes after CMD8's answer: the voltage and the test pattern.
CheckEcho ==
  /\ pc = "echo"
  /\ IF listening /\ card.kind # "badvolt"
     THEN /\ drv' = [drv EXCEPT !.card_type = "HC"]
          /\ Goto("CMD55") /\ Bus /\ Keep
     ELSE /\ drv' = [drv EXCEPT !.card_type = "ERROR"]
          /\ InitReturns(FALSE)

\* The answer to CMD55 is waited for without bound, and not looked at.
AppCommand(r) ==
  /\ Gets("CMD55", r)
  /\ Goto("ACMD41") /\ Bus /\ Keep /\ UNCHANGED drv

\* Mutant: repeats ACMD41 until it is answered 0.
WaitReadyZero(r) ==
  /\ Gets("ACMD41", r)
  /\ Goto(IF r # 0 THEN "CMD55" ELSE "CMD9")
  /\ Bus /\ Keep /\ UNCHANGED drv
\* ACMD41 is sent again while the card is busy.
WaitReady(r) ==
  /\ Gets("ACMD41", r)
  /\ Goto(IF r = 1 THEN "CMD55" ELSE "CMD9")
  /\ Bus /\ Keep /\ UNCHANGED drv

SendCsd(r) ==
  /\ Gets("CMD9", r)
  /\ IF r # 0
     THEN /\ drv' = [drv EXCEPT !.card_type = "ERROR"]
          /\ InitReturns(FALSE)
     ELSE Goto("csdtoken") /\ Bus /\ Keep /\ UNCHANGED drv

CsdToken ==
  /\ pc = "csdtoken" /\ listening
  /\ Goto("csd") /\ Bus /\ Keep /\ UNCHANGED drv

SizeV1(b) ==
  LET c_size == (b[6] % 4) * 1024 + b[7] * 4 + b[8] \div 64
      mult   == (b[9] * 2 + b[10] \div 128) % 8
  IN  (c_size + 1) * 2^(mult + 2) * 2^((b[5] % 16) - 9)
SizeV2(b) == ((b[7] % 16) * 65536 + b[8] * 256 + b[9] + 1) * 1024
ProtectBits(b) == (b[14] \div 16) % 4 # 0
\* Mutant: goes by the answer to CMD8 alone.
CsdTypeByVersion(b) == drv.card_type
CsdType(b) == IF (b[0] \div 64) % 2 = 1 THEN "HC" ELSE "SC"
CsdSize(b) == IF CsdType(b) = "HC" THEN SizeV2(b) ELSE SizeV1(b)

\* read_only is set here and nowhere cleared.
ReadCsd ==
  /\ pc = "csd"
  /\ drv' = [drv EXCEPT !.card_type = CsdType(Csd),
                        !.size = CsdSize(Csd),
                        !.read_only = @ \/ ProtectBits(Csd)]
  /\ InitReturns(TRUE)

(***************************************************************************)
(* block_read, block_write.                                                *)
(***************************************************************************)
BeginRead(b) ==
  /\ Begin("read", b, Blank) /\ Goto("CMD17")
  /\ Keep /\ UNCHANGED <<drv, sound>>

BeginWrite(b, d) ==
  /\ Begin("write", b, d) /\ Goto("CMD24")
  /\ Keep /\ UNCHANGED <<drv, sound>>

Returns(ok, data) ==
  Return(ok, data) /\ Goto("idle") /\ Keep /\ UNCHANGED <<drv, sound>>

Started(command, next, r) ==
  /\ Gets(command, r)
  /\ IF r # 0
     THEN Returns(FALSE, Blank)
     ELSE Goto(next) /\ Bus /\ Keep /\ UNCHANGED drv
StartRead(r) == Started("CMD17", "readtoken", r)
StartWrite(r) == Started("CMD24", "senddata", r)

\* The start token, or an error token that the driver goes on polling past.
ReadToken ==
  /\ pc = "readtoken" /\ listening
  /\ \/ Goto("readdata")
     \/ "readerror" \in Misbehave /\ Goto("readstuck")
  /\ Bus /\ Keep /\ UNCHANGED drv

ReadData ==
  /\ pc = "readdata"
  /\ Returns(TRUE, IF listening THEN store[AtCard(call.block)] ELSE Blank)

\* The card takes the data, or rejects it: the driver does not look at its
\* data response.  It may stay busy for ever.
SendData ==
  /\ pc = "senddata"
  /\ \/ /\ listening
        /\ store' = [store EXCEPT ![AtCard(call.block)] = call.data]
        /\ stored' = TRUE
     \/ /\ ~listening \/ "reject" \in Misbehave
        /\ UNCHANGED <<store, stored>>
  /\ \/ Goto("busy")
     \/ listening /\ "busy" \in Misbehave /\ Goto("stuckbusy")
  /\ Keep /\ UNCHANGED <<call, ret, ready, drv, sound>>

\* A card that is out does not pull the line down: not busy.
WaitBusy ==
  /\ pc = "busy" \/ (pc = "stuckbusy" /\ ~listening)
  /\ Returns(TRUE, Blank)

SdInit ==
  /\ ClientInit
  /\ pc = "idle" /\ tries = 0 /\ swaps = 0
  /\ drv = [card_type |-> "NONE", read_only |-> FALSE, size |-> 0, error |-> "none"]
  /\ card \in Cards /\ inserted \in BOOLEAN /\ listening = FALSE /\ sound = FALSE
  /\ store \in [Reached(card) -> Data]

SdDriver ==
  \/ Poll \/ PollOn
  \/ \E r \in {0, 1, 5, 64, NoAnswer} :
       \/ Reset(r) \/ CheckVersion(r) \/ AppCommand(r) \/ WaitReady(r)
       \/ SendCsd(r) \/ StartRead(r) \/ StartWrite(r)
  \/ CheckEcho \/ CsdToken \/ ReadCsd \/ ReadToken \/ ReadData \/ SendData \/ WaitBusy
SdCaller ==
  \/ BeginInit
  \/ \E b \in Asked : BeginRead(b)
  \/ \E b \in Asked, d \in Data : BeginWrite(b, d)
SdSlot == Eject \/ \E c \in Cards : Insert(c)
SdNext == SdDriver \/ SdCaller \/ SdSlot
=============================================================================
