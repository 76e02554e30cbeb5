------------------------------ MODULE BlockPc ------------------------------
(***************************************************************************)
(* The image-file driver, src/src/block_drivers/block_pc.c: block_init()   *)
(* reads a whole image into memory, block_read() and block_write() copy    *)
(* blocks from and to it.  Byte offsets are 32-bit, so a block number is   *)
(* served modulo 2^32 / 512 when its offset passes the bound check.        *)
(***************************************************************************)
EXTENDS BlockClient

CONSTANTS
  Images,          \* sizes in bytes of the image files block_init() may find
  MaxImage         \* block_fs_size must stay below this: 2 GB

ASSUME ImagesAssumption ==
  /\ Images \subseteq Nat
  /\ MaxImage \in Nat /\ MaxImage + BlockSize <= Word
  /\ \A n \in Images : n % BlockSize = 0

VARIABLES
  blocks,          \* the buffer: not there, allocated, freed but still pointed at
  block_fs_size, block_ro,
  accessed         \* auxiliary: the bytes the last block access copied

pcVars == <<blocks, block_fs_size, block_ro, accessed>>

\* (block + 1) * BLOCK_SIZE - 1, in uint32_t
LastByte(b) == ((((b + 1) * BlockSize) % Word) - 1) % Word
\* Mutant: accepts the block that begins at the end of the image.
AcceptsNext(b) == (b * BlockSize) % Word <= block_fs_size
Accepts(b) == LastByte(b) <= block_fs_size
Offset(b) == (b * BlockSize) % Word
InBuffer(b) == Offset(b) \div BlockSize

\* fopen, ftell, malloc and fread; a short read frees the buffer and keeps
\* the pointer to it.
ImageLoads(n) ==
  /\ n < MaxImage
  /\ blocks' = "live" /\ block_fs_size' = n
  /\ \E s \in [0 .. (n \div BlockSize) - 1 -> Data] : store' = s
  /\ ret' = Result("init", TRUE, Blank) /\ ready' = TRUE
ImageFails(n) ==
  /\ \/ blocks' = blocks /\ block_fs_size' = block_fs_size       \* fopen
     \/ n >= MaxImage /\ blocks' = blocks /\ block_fs_size' = n
     \/ n < MaxImage /\ blocks' = "null" /\ block_fs_size' = n   \* malloc
     \/ n < MaxImage /\ blocks' = "freed" /\ block_fs_size' = n  \* fread
  /\ ret' = Result("init", FALSE, Blank) /\ ready' = FALSE
  /\ UNCHANGED store

\* Begin and the body of each call are separate steps only for the caller's
\* sake: the driver itself is one memcpy.
PcBeginInit ==
  ~ready /\ Begin("init", 0, Blank) /\ UNCHANGED pcVars
PcInitBody(n) ==
  /\ call.op = "init"
  /\ ImageLoads(n) \/ ImageFails(n)
  /\ call' = NoCall /\ accessed' = {}
  /\ UNCHANGED <<stored, block_ro>>

PcBeginRead(b) == Begin("read", b, Blank) /\ UNCHANGED pcVars
PcBeginWrite(b, d) == Begin("write", b, d) /\ UNCHANGED pcVars

PcReject ==
  /\ call.op \in {"read", "write"} /\ ~stored /\ ~Accepts(call.block)
  /\ Return(FALSE, Blank)
  /\ UNCHANGED pcVars

PcRead ==
  /\ call.op = "read" /\ Accepts(call.block)
  /\ accessed' = Offset(call.block) .. Offset(call.block) + BlockSize - 1
  /\ Return(TRUE, IF InBuffer(call.block) \in DOMAIN store
                  THEN store[InBuffer(call.block)] ELSE Blank)
  /\ UNCHANGED <<blocks, block_fs_size, block_ro>>

\* The memcpy of block_write: it looks at neither block_ro nor ready.
PcStore ==
  /\ call.op = "write" /\ ~stored /\ Accepts(call.block)
  /\ accessed' = Offset(call.block) .. Offset(call.block) + BlockSize - 1
  /\ store' = [b \in DOMAIN store |->
                 IF b = InBuffer(call.block) THEN call.data ELSE store[b]]
  /\ stored' = TRUE
  /\ UNCHANGED <<call, ret, ready, blocks, block_fs_size, block_ro>>

PcWritten ==
  /\ call.op = "write" /\ stored
  /\ Return(TRUE, Blank)
  /\ UNCHANGED pcVars

\* block_halt frees the buffer and keeps the pointer; callers halt once, and
\* only after a block_init() that succeeded.
PcHalt ==
  /\ call.op = "none" /\ ready /\ blocks = "live"
  /\ blocks' = "freed" /\ ready' = FALSE
  /\ UNCHANGED <<store, call, ret, stored, block_fs_size, block_ro, accessed>>

PcSetRo(ro) ==
  /\ call.op = "none" /\ block_ro' = ro
  /\ UNCHANGED <<clientVars, blocks, block_fs_size, accessed>>

PcInit ==
  /\ ClientInit
  /\ blocks = "null" /\ block_fs_size = 0 /\ block_ro = FALSE /\ accessed = {}
  /\ store \in [{} -> Data]

PcNext ==
  \/ PcBeginInit \/ \E n \in Images : PcInitBody(n)
  \/ \E b \in Asked : PcBeginRead(b)
  \/ \E b \in Asked, d \in Data : PcBeginWrite(b, d)
  \/ PcReject \/ PcRead \/ PcStore \/ PcWritten \/ PcHalt
  \/ \E ro \in BOOLEAN : PcSetRo(ro)

(***************************************************************************)
(* An access that passes the bound check stays inside the image, for every *)
(* 32-bit block number, those whose byte offset wraps included             *)
(* (block_read and block_write, block_pc.c:87 and 101).                     *)
(***************************************************************************)
InImage == accessed \subseteq 0 .. block_fs_size - 1
=============================================================================
