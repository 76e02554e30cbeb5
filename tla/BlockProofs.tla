---------------------------- MODULE BlockProofs ----------------------------
(***************************************************************************)
(* The image-file driver stays inside its image, whatever the block size,  *)
(* the images, the width of a word and the block numbers it is asked for.  *)
(* Both drivers implement what block.h promises (BlockDevice) of the       *)
(* blocks whose byte offset fits a word, for every set of cards and images *)
(* and every exchange of cards; the SD driver knows its card; and the      *)
(* variables of both keep to their types.                                  *)
(***************************************************************************)
EXTENDS BlockDrivers, TLAPS

\* A block is more than one byte: the bound check lets a block end one byte
\* behind the image, which an image of whole blocks then rules out.
BlocksHaveBytes == BlockSize > 1

-----------------------------------------------------------------------------
(* Arithmetic. *)

\* A product of naturals grows with its first factor.
LEMMA Monotone ==
  ASSUME NEW a \in Nat, NEW b \in Nat, NEW c \in Nat, a <= b
  PROVE  a * c \in Nat /\ b * c \in Nat /\ a * c <= b * c
  <1>1. b = a + (b - a) /\ b - a \in Nat
    OBVIOUS
  <1>2. b * c = a * c + (b - a) * c
    BY <1>1, Z3
  <1>3. (b - a) * c \in Nat /\ a * c \in Nat
    BY <1>1
  <1> QED BY <1>2, <1>3

\* Division with remainder.
LEMMA Division ==
  ASSUME NEW a \in Nat, NEW w \in Nat \ {0}
  PROVE  a \div w \in Nat /\ a % w \in 0 .. w - 1 /\ a = (a \div w) * w + (a % w)
  OBVIOUS

\* A multiple of a number is some number of times it.
LEMMA Multiple ==
  ASSUME NEW a \in Nat, NEW c \in Nat \ {0}, a % c = 0
  PROVE  \E k \in Nat : a = k * c
  <1> DEFINE k == a \div c
  <1>1. k \in Nat /\ a = k * c
    BY Division
  <1> QED BY <1>1

\* What is left of a multiple of c, modulo another multiple of c, is one.
LEMMA MultipleModulo ==
  ASSUME NEW b \in Nat, NEW k \in Nat \ {0}, NEW c \in Nat \ {0}
  PROVE  \E m \in 0 .. k - 1 : (b * c) % (k * c) = m * c
  <1> DEFINE q == (b * c) \div (k * c)
             r == (b * c) % (k * c)
             m == b - q * k
  <1>1. b * c \in Nat /\ k * c \in Nat \ {0}
    OBVIOUS
  <1>2. q \in Nat /\ r \in Nat /\ r < k * c /\ b * c = q * (k * c) + r
    <2> DEFINE a == b * c
               w == k * c
    <2> HIDE DEF a, w
    <2>1. a \in Nat /\ w \in Nat \ {0}
      BY <1>1 DEF a, w
    <2>2. a \div w \in Nat /\ a % w \in 0 .. w - 1 /\ a = (a \div w) * w + (a % w)
      BY <2>1, Division
    <2>3. a % w \in Nat /\ a % w < w
      BY <2>1, <2>2
    <2> QED BY <2>2, <2>3 DEF a, w
  <1>3. m \in Int /\ r = m * c
    <2> HIDE DEF q, r
    <2>1. q * (k * c) = (q * k) * c /\ q * k \in Int
      BY <1>2, Z3
    <2>2. (b - q * k) * c = b * c - (q * k) * c
      BY <1>2, <2>1, Z3
    <2> QED BY <1>2, <2>1, <2>2
  <1> HIDE DEF q, r, m
  <1>4. ASSUME m < 0 PROVE FALSE
    <2>1. -m \in Nat /\ 1 <= -m
      BY <1>3, <1>4
    <2>2. 1 * c <= (-m) * c
      BY <2>1, Monotone
    <2>3. (-m) * c = -r
      BY <1>3, <2>1, Z3
    <2> QED BY <2>2, <2>3, <1>2
  <1>5. ASSUME k <= m PROVE FALSE
    <2>1. k * c <= m * c
      BY <1>3, <1>5, Monotone
    <2> QED BY <2>1, <1>2, <1>3
  <1>6. m \in 0 .. k - 1
    BY <1>3, <1>4, <1>5
  <1> QED BY <1>3, <1>6 DEF r

\* A number has one remainder.
LEMMA Remainder ==
  ASSUME NEW q \in Nat, NEW w \in Nat \ {0}, NEW r \in 0 .. w - 1
  PROVE  (q * w + r) % w = r
  <1> DEFINE a == q * w + r
             p == a \div w
             s == a % w
  <1>1. a \in Nat
    OBVIOUS
  <1>2. p \in Nat /\ s \in 0 .. w - 1 /\ a = p * w + s
    BY <1>1, Division
  <1>3. a = q * w + r
    OBVIOUS
  <1> HIDE DEF a, p, s
  <1>4. ASSUME p < q PROVE FALSE
    <2>1. (p + 1) * w <= q * w
      BY <1>2, <1>4, Monotone
    <2>2. (p + 1) * w = p * w + w
      BY <1>2, Z3
    <2> QED BY <1>2, <1>3, <2>1, <2>2
  <1>5. ASSUME q < p PROVE FALSE
    <2>1. (q + 1) * w <= p * w
      BY <1>2, <1>5, Monotone
    <2>2. (q + 1) * w = q * w + w
      BY <1>2, Z3
    <2> QED BY <1>2, <1>3, <2>1, <2>2
  <1>6. p = q
    BY <1>2, <1>4, <1>5
  <1>7. s = r
    BY <1>2, <1>3, <1>6
  <1> QED BY <1>7 DEF s, a

-----------------------------------------------------------------------------
(* The bound check. *)

\* A block that passes the check of block_read and block_write ends inside the
\* image: where the end wraps to 0 the check compares the largest word, and an
\* image that holds the block's last byte but one holds the whole block.
LEMMA AcceptedInside ==
  ASSUME BlocksHaveBytes, NEW b \in Nat, NEW n \in Images, n < MaxImage,
         LastByte(b) <= n
  PROVE  Offset(b) \in Nat /\ Offset(b) + BlockSize <= n
  <1> DEFINE c == BlockSize
  <1>1. /\ c \in Nat /\ c > 1 /\ Word \in Nat \ {0}
        /\ n \in Nat /\ n + c < Word
    BY BlockAssumption, ImagesAssumption DEF BlocksHaveBytes
  <1>2. PICK k \in Nat : Word = k * c
    BY <1>1, Multiple, BlockAssumption
  <1>3. k # 0
    BY <1>1, <1>2
  <1>4. PICK j \in Nat : n = j * c
    <2>1. n % c = 0
      BY ImagesAssumption
    <2> QED BY <1>1, <2>1, Multiple
  <1>5. PICK m \in 0 .. k - 1 : Offset(b) = m * c
    <2>1. k \in Nat \ {0} /\ c \in Nat \ {0}
      BY <1>1, <1>3
    <2>2. \E m \in 0 .. k - 1 : (b * c) % (k * c) = m * c
      BY <2>1, MultipleModulo
    <2> QED BY <1>2, <2>2 DEF Offset
  <1> DEFINE q == (b * c) \div Word
  <1>6. b * c \in Nat
    BY <1>1
  <1>7. q \in Nat /\ b * c = q * Word + m * c
    BY <1>1, <1>5, <1>6, Division DEF Offset
  <1>8. (b + 1) * c = q * Word + m * c + c /\ (m + 1) * c = m * c + c
    <2> HIDE DEF q
    <2> QED BY <1>1, <1>7, <1>6, Z3
  <1> HIDE DEF q, c
  <1>9. CASE m + 1 = k
    <2>1. (b + 1) * c = (q + 1) * Word + 0
      BY <1>1, <1>2, <1>7, <1>8, <1>9, Z3
    <2>2. ((b + 1) * c) % Word = 0
      BY <1>1, <1>7, <2>1, Remainder
    <2>3. LastByte(b) = Word - 1
      BY <1>1, <2>2 DEF LastByte, c
    <2> QED BY <1>1, <2>3
  <1>10. CASE m + 1 < k
    <2>1. (m + 2) * c <= k * c
      BY <1>1, <1>3, <1>10, Monotone
    <2>2. (m + 2) * c = m * c + c + c /\ m * c \in Nat
      BY <1>1, Z3
    <2>3. m * c + c \in 0 .. Word - 1
      BY <1>1, <1>2, <2>1, <2>2
    <2>4. ((b + 1) * c) % Word = m * c + c
      <3>1. (q * Word + (m * c + c)) % Word = m * c + c
        BY <1>1, <1>7, <2>3, Remainder
      <3>2. (b + 1) * c = q * Word + (m * c + c)
        BY <1>1, <1>7, <1>8, <2>2
      <3> QED BY <3>1, <3>2
    <2>5. LastByte(b) = m * c + c - 1
      BY <1>1, <2>2, <2>3, <2>4 DEF LastByte, c
    <2>6. ASSUME j < m + 1 PROVE FALSE
      <3>1. j * c <= m * c
        BY <1>1, <2>6, Monotone
      <3> QED BY <1>1, <1>4, <2>2, <2>5, <3>1
    <2>7. (m + 1) * c <= j * c
      BY <1>1, <2>6, Monotone
    <2> QED BY <1>1, <1>4, <1>5, <1>8, <2>2, <2>7 DEF c
  <1> QED BY <1>3, <1>9, <1>10

-----------------------------------------------------------------------------
(* The invariant. *)

\* What the checks of block_read and block_write rely on: a block is asked for
\* only once an image has been loaded whole, and then its size is the image's.
\* The SD driver leaves the image alone.
ImageInv ==
  /\ InImage
  /\ driver = "sd" => accessed = {}
  /\ driver = "pc" =>
       /\ call.block \in Nat
       /\ call.op \in {"read", "write"} => ready
       /\ ready => block_fs_size \in Images /\ block_fs_size < MaxImage

\* Nothing has been accessed at the start.
LEMMA ImageInit == Init => ImageInv
  <1>1. Init => accessed = {} /\ call = NoCall /\ ready = FALSE
    BY DEF Init, PcInit, SdInit, ClientInit
  <1>2. NoCall.block = 0 /\ NoCall.op = "none"
    BY DEF NoCall
  <1> QED BY <1>1, <1>2 DEF ImageInv, InImage

\* A block access that passes the check stays inside the image.
LEMMA AccessInside ==
  ASSUME BlocksHaveBytes, ImageInv, driver = "pc", call.op \in {"read", "write"},
         Accepts(call.block)
  PROVE  Offset(call.block) .. Offset(call.block) + BlockSize - 1
           \subseteq 0 .. block_fs_size - 1
  <1>1. block_fs_size \in Nat /\ BlockSize \in Nat
    BY BlockAssumption, ImagesAssumption DEF ImageInv
  <1>2. Offset(call.block) \in Nat /\ Offset(call.block) + BlockSize <= block_fs_size
    BY AcceptedInside DEF ImageInv, Accepts
  <1> QED BY <1>1, <1>2

\* The steps of the image-file driver.
LEMMA PcKeeps ==
  ASSUME BlocksHaveBytes, ImageInv, driver = "pc", driver' = "pc", PcNext
  PROVE  ImageInv'
  <1> USE DEF ImageInv, InImage
  <1>1. CASE PcBeginInit
    BY <1>1 DEF PcBeginInit, Begin, pcVars
  <1>2. ASSUME NEW n \in Images, PcInitBody(n) PROVE ImageInv'
    BY <1>2 DEF PcInitBody, ImageLoads, ImageFails, NoCall
  <1>3. ASSUME NEW b \in Asked, PcBeginRead(b) PROVE ImageInv'
    BY <1>3, BlockAssumption DEF PcBeginRead, Begin, pcVars
  <1>4. ASSUME NEW b \in Asked, NEW d \in Data, PcBeginWrite(b, d) PROVE ImageInv'
    BY <1>4, BlockAssumption DEF PcBeginWrite, Begin, pcVars
  <1>5. CASE PcReject
    BY <1>5 DEF PcReject, Return, NoCall, pcVars
  <1>6. CASE PcRead
    <2>1. accessed' \subseteq 0 .. block_fs_size - 1
      BY <1>6, AccessInside DEF PcRead
    <2> QED BY <1>6, <2>1 DEF PcRead, Return, NoCall
  <1>7. CASE PcStore
    <2>1. accessed' \subseteq 0 .. block_fs_size - 1
      BY <1>7, AccessInside DEF PcStore
    <2> QED BY <1>7, <2>1 DEF PcStore
  <1>8. CASE PcWritten
    BY <1>8 DEF PcWritten, Return, NoCall, pcVars
  <1>9. CASE PcHalt
    BY <1>9 DEF PcHalt
  <1>10. ASSUME NEW ro \in BOOLEAN, PcSetRo(ro) PROVE ImageInv'
    BY <1>10 DEF PcSetRo, clientVars
  <1> QED
    BY <1>1, <1>2, <1>3, <1>4, <1>5, <1>6, <1>7, <1>8, <1>9, <1>10 DEF PcNext

\* Every step of a program built with either driver.
LEMMA ImageStep ==
  ASSUME BlocksHaveBytes, ImageInv, [Next]_vars
  PROVE  ImageInv'
  <1>1. CASE driver = "sd" /\ SdNext /\ UNCHANGED <<pcVars, driver>>
    BY <1>1 DEF ImageInv, InImage, pcVars
  <1>2. CASE driver = "pc" /\ PcNext /\ UNCHANGED <<sdVars, driver>>
    BY <1>2, PcKeeps
  <1>3. CASE UNCHANGED vars
    BY <1>3 DEF ImageInv, InImage, vars, clientVars, pcVars
  <1> QED BY <1>1, <1>2, <1>3 DEF Next

\* block_read and block_write never touch memory behind the image: for every
\* image of whole blocks, every 32-bit block number whether its byte offset wraps
\* or not, and however block_init fails or is repeated.
THEOREM AccessesInImage == ASSUME BlocksHaveBytes PROVE Spec => []InImage
  <1>1. ImageInv /\ [Next]_vars => ImageInv'
    BY ImageStep
  <1>2. ImageInv => InImage
    BY DEF ImageInv
  <1> QED BY ImageInit, <1>1, <1>2, PTL DEF Spec

-----------------------------------------------------------------------------
(* The refinement: block numbers. *)

\* Dividing a product by its second factor gives the first.
LEMMA Quotient ==
  ASSUME NEW m \in Nat, NEW c \in Nat \ {0}
  PROVE  (m * c) \div c = m
  <1> DEFINE a == m * c
             p == a \div c
  <1>1. a \in Nat
    OBVIOUS
  <1>2. p \in Nat /\ a % c \in 0 .. c - 1 /\ a = p * c + (a % c)
    BY <1>1, Division
  <1>3. a % c = 0
    <2>1. (m * c + 0) % c = 0
      BY Remainder
    <2> QED BY <2>1
  <1> HIDE DEF p
  <1>4. p * c = m * c
    BY <1>1, <1>2, <1>3
  <1>5. ASSUME p < m PROVE FALSE
    <2>1. (p + 1) * c <= m * c
      BY <1>2, <1>5, Monotone
    <2>2. (p + 1) * c = p * c + c
      BY <1>2, Z3
    <2> QED BY <1>1, <1>2, <1>4, <2>1, <2>2
  <1>6. ASSUME m < p PROVE FALSE
    <2>1. (m + 1) * c <= p * c
      BY <1>2, <1>6, Monotone
    <2>2. (m + 1) * c = m * c + c
      BY Z3
    <2> QED BY <1>1, <1>2, <1>4, <2>1, <2>2
  <1> QED BY <1>2, <1>5, <1>6 DEF p

\* The block at a byte address is the block's number modulo the number of blocks a
\* byte address tells apart.
LEMMA BlockAtOffset ==
  ASSUME NEW b \in Nat
  PROVE  ((b * BlockSize) % Word) \div BlockSize = b % ByteSpace
  <1> DEFINE c == BlockSize
  <1>1. c \in Nat \ {0} /\ Word \in Nat \ {0}
    BY BlockAssumption
  <1>2. PICK k \in Nat : Word = k * c
    BY <1>1, Multiple, BlockAssumption
  <1>3. k \in Nat \ {0} /\ ByteSpace = k
    BY <1>1, <1>2, Quotient DEF ByteSpace
  <1> DEFINE q == b \div k
             r == b % k
  <1>4. q \in Nat /\ r \in 0 .. k - 1 /\ b = q * k + r
    BY <1>3, Division
  <1> HIDE DEF q, r, c
  <1>5. b * c = q * Word + r * c
    <2>1. (q * k + r) * c = q * (k * c) + r * c
      BY <1>1, <1>3, <1>4, Z3
    <2> QED BY <1>2, <1>4, <2>1
  <1>6. r * c \in 0 .. Word - 1
    <2>1. (r + 1) * c <= k * c /\ r * c \in Nat
      BY <1>1, <1>3, <1>4, Monotone
    <2>2. (r + 1) * c = r * c + c
      BY <1>1, <1>4, Z3
    <2> QED BY <1>1, <1>2, <2>1, <2>2
  <1>7. (b * c) % Word = r * c
    BY <1>1, <1>4, <1>5, <1>6, Remainder
  <1>8. (r * c) \div c = r
    BY <1>1, <1>4, Quotient
  <1> QED BY <1>3, <1>7, <1>8 DEF c, r

\* A number below the modulus is its own remainder.
LEMMA Below ==
  ASSUME NEW b \in Nat, NEW w \in Nat, b < w
  PROVE  b % w = b
  <1>1. (0 * w + b) % w = b
    BY Remainder
  <1> QED BY <1>1

\* So is a block number whose byte address fits.
LEMMA InSpace ==
  ASSUME NEW b \in Nat, b < ByteSpace
  PROVE  b % ByteSpace = b
  <1>1. ByteSpace \in Nat
    BY BlockAssumption, Division DEF ByteSpace
  <1> QED BY <1>1, Below

-----------------------------------------------------------------------------
(* Both drivers implement BlockDevice. *)

\* The card takes what it is sent: the driver does not look at its answer.
CardsAccept == "reject" \notin Misbehave

InitLabels  == {"CMD0", "CMD8", "echo", "CMD55", "ACMD41", "CMD9", "csdtoken", "csd"}
ReadLabels  == {"CMD17", "readtoken", "readstuck", "readdata"}
WriteLabels == {"CMD24", "senddata", "busy", "stuckbusy"}

\* What holds between the steps of the SD driver: the call each label belongs to;
\* a card that listens while a block is transferred is the one that was
\* initialised, addressed in the unit it uses; and once it has agreed to a
\* transfer, the block it was sent the address of is there.
SdInv ==
  /\ pc \in {"idle"} \cup InitLabels \cup ReadLabels \cup WriteLabels
  /\ pc = "idle" => call.op = "none"
  /\ pc \in InitLabels => call.op = "init"
  /\ pc \in ReadLabels => call.op = "read"
  /\ pc \in WriteLabels => call.op = "write"
  /\ stored => pc \in {"busy", "stuckbusy"}
  /\ sound \in BOOLEAN /\ listening \in BOOLEAN /\ inserted \in BOOLEAN
  /\ sound => listening
  /\ listening => inserted
  /\ sound /\ pc \in {"busy", "stuckbusy"} => stored
  /\ call.op \in {"read", "write"} => ready
  /\ listening /\ ready /\ call.op # "init" => sound
  /\ "card_type" \in DOMAIN drv
  /\ sound /\ ready /\ call.op # "init" => ((drv.card_type = "SC") <=> ByteAddressed(card))
  /\ listening /\ pc \in {"readtoken", "readdata", "senddata"} => AtCard(call.block) \in DOMAIN store

\* And of the image-file driver: the image is reachable by its block numbers.
PcInv ==
  /\ stored => call.op = "write"
  /\ ready \in BOOLEAN
  /\ call.op = "init" => ~ready
  /\ ready => DOMAIN store = 0 .. (block_fs_size \div BlockSize) - 1

PromiseInv ==
  /\ ImageInv
  /\ driver \in {"sd", "pc"}
  /\ stored \in BOOLEAN
  /\ call.block \in 0 .. Word - 1
  /\ driver = "sd" => SdInv
  /\ driver = "pc" => PcInv

-----------------------------------------------------------------------------
(* The image-file driver. *)

\* An accepted block is there, and it is the one that was asked for unless its byte
\* offset does not fit a word.
LEMMA PcBlock ==
  ASSUME BlocksHaveBytes, PromiseInv, driver = "pc", call.op \in {"read", "write"},
         Accepts(call.block)
  PROVE  /\ call.block < ByteSpace => InBuffer(call.block) = call.block
         /\ InBuffer(call.block) \in DOMAIN store
  <1> DEFINE b == call.block
             n == block_fs_size
             c == BlockSize
  <1>1. c \in Nat \ {0} /\ b \in Nat /\ n \in Nat /\ ready /\ n \in Images
    BY BlockAssumption, ImagesAssumption DEF PromiseInv, ImageInv
  <1>2. Offset(b) \in Nat /\ Offset(b) + c <= n
    BY AcceptedInside DEF PromiseInv, ImageInv, Accepts
  <1>3. b < ByteSpace => InBuffer(b) = b
    BY <1>1, BlockAtOffset, InSpace DEF InBuffer, Offset
  <1>4. InBuffer(b) \in 0 .. (n \div c) - 1
    <2> DEFINE p == Offset(b) \div c
               j == n \div c
    <2>1. p \in Nat /\ p * c <= Offset(b)
      <3> DEFINE o == Offset(b)
      <3> HIDE DEF o, c
      <3>1. o \div c \in Nat /\ o % c \in 0 .. c - 1 /\ o = (o \div c) * c + (o % c)
        BY <1>1, <1>2, Division DEF o
      <3> QED BY <1>1, <1>2, <3>1 DEF o
    <2>2. j \in Nat /\ n % c \in 0 .. c - 1 /\ n = j * c + (n % c)
      BY <1>1, Division
    <2>3. n % c = 0
      BY <1>1, ImagesAssumption
    <2>4. (p + 1) * c = p * c + c
      <3> HIDE DEF p, c
      <3> QED BY <1>1, <2>1, Z3
    <2> HIDE DEF p, j, c
    <2>5. ASSUME j <= p PROVE FALSE
      <3>1. j * c <= p * c
        BY <1>1, <2>1, <2>2, <2>5, Monotone
      <3> QED BY <1>1, <1>2, <2>1, <2>2, <2>3, <2>4, <3>1
    <2>6. p \in 0 .. j - 1
      BY <2>1, <2>2, <2>5
    <2> QED BY <2>6 DEF InBuffer, p, j, c
  <1>5. DOMAIN store = 0 .. (n \div c) - 1
    BY <1>1 DEF PromiseInv, PcInv
  <1> QED BY <1>3, <1>4, <1>5

\* The driver's steps keep what it relies on.
LEMMA PcKeepsPromise ==
  ASSUME BlocksHaveBytes, PromiseInv, driver = "pc", driver' = "pc", PcNext
  PROVE  PromiseInv'
  <1>1. ImageInv'
    BY PcKeeps DEF PromiseInv
  <1>2. call'.block \in 0 .. Word - 1 /\ stored' \in BOOLEAN /\ PcInv'
    <2> USE DEF PromiseInv, PcInv
    <2>0. 0 \in 0 .. Word - 1 /\ Asked \subseteq 0 .. Word - 1
      BY BlockAssumption
    <2>1. CASE PcBeginInit
      BY <2>0, <2>1 DEF PcBeginInit, Begin, pcVars
    <2>2. ASSUME NEW n \in Images, PcInitBody(n) PROVE call'.block \in 0 .. Word - 1 /\ stored' \in BOOLEAN /\ PcInv'
      BY <2>0, <2>2 DEF PcInitBody, ImageLoads, ImageFails, NoCall
    <2>3. ASSUME NEW b \in Asked, PcBeginRead(b) PROVE call'.block \in 0 .. Word - 1 /\ stored' \in BOOLEAN /\ PcInv'
      BY <2>0, <2>3 DEF PcBeginRead, Begin, pcVars
    <2>4. ASSUME NEW b \in Asked, NEW d \in Data, PcBeginWrite(b, d)
          PROVE call'.block \in 0 .. Word - 1 /\ stored' \in BOOLEAN /\ PcInv'
      BY <2>0, <2>4 DEF PcBeginWrite, Begin, pcVars
    <2>5. CASE PcReject
      BY <2>0, <2>5 DEF PcReject, Return, NoCall, pcVars
    <2>6. CASE PcRead
      BY <2>0, <2>6 DEF PcRead, Return, NoCall
    <2>7. CASE PcStore
      BY <2>7 DEF PcStore
    <2>8. CASE PcWritten
      BY <2>0, <2>8 DEF PcWritten, Return, NoCall, pcVars
    <2>9. CASE PcHalt
      BY <2>9 DEF PcHalt
    <2>10. ASSUME NEW ro \in BOOLEAN, PcSetRo(ro) PROVE call'.block \in 0 .. Word - 1 /\ stored' \in BOOLEAN /\ PcInv'
      BY <2>10 DEF PcSetRo, clientVars
    <2> QED
      BY <2>1, <2>2, <2>3, <2>4, <2>5, <2>6, <2>7, <2>8, <2>9, <2>10 DEF PcNext
  <1> QED BY <1>1, <1>2 DEF PromiseInv

\* The driver's steps are steps of the promise.
LEMMA PcImplements ==
  ASSUME BlocksHaveBytes, PromiseInv, driver = "pc", driver' = "pc", PcNext
  PROVE  [Device!Next]_(Device!vars)
  <1> USE DEF PromiseInv, PcInv, Device!Next, Device!Idle
  <1>1. CASE PcBeginInit
    BY <1>1 DEF PcBeginInit, Begin, pcVars, Device!Ask
  <1>2. ASSUME NEW n \in Images, PcInitBody(n) PROVE Device!Next
    <2>1. CASE ImageLoads(n)
      BY <1>2, <2>1 DEF PcInitBody, ImageLoads, NoCall, Result, Device!InitDone
    <2>2. CASE ImageFails(n)
      BY <1>2, <2>2 DEF PcInitBody, ImageFails, NoCall, Result, Device!Fail
    <2> QED BY <1>2, <2>1, <2>2 DEF PcInitBody
  <1>3. ASSUME NEW b \in Asked, PcBeginRead(b) PROVE Device!Next
    BY <1>3 DEF PcBeginRead, Begin, pcVars, Device!Ask
  <1>4. ASSUME NEW b \in Asked, NEW d \in Data, PcBeginWrite(b, d) PROVE Device!Next
    BY <1>4 DEF PcBeginWrite, Begin, pcVars, Device!Ask
  <1>5. CASE PcReject
    BY <1>5 DEF PcReject, Return, NoCall, Result, pcVars, Device!Fail
  <1>6. CASE PcRead
    BY <1>6, PcBlock DEF PcRead, Return, NoCall, Result, Device!ReadDone, Device!Promised
  <1>7. CASE PcStore
    <2>1. /\ InBuffer(call.block) \in DOMAIN store
          /\ store' = [store EXCEPT ![InBuffer(call.block)] = call.data]
      BY <1>7, PcBlock DEF PcStore
    <2> QED BY <1>7, <2>1, PcBlock DEF PcStore, Device!Store, Device!Promised
  <1>8. CASE PcWritten
    BY <1>8 DEF PcWritten, Return, NoCall, Result, pcVars, Device!WriteDone
  <1>9. CASE PcHalt
    BY <1>9 DEF PcHalt, Device!Eject
  <1>10. ASSUME NEW ro \in BOOLEAN, PcSetRo(ro) PROVE UNCHANGED Device!vars
    BY <1>10 DEF PcSetRo, clientVars, Device!vars
  <1> QED
    BY <1>1, <1>2, <1>3, <1>4, <1>5, <1>6, <1>7, <1>8, <1>9, <1>10 DEF PcNext

-----------------------------------------------------------------------------
(* The SD driver. *)

\* The block at the address the card is sent is the one that was asked for, unless
\* the card counts bytes and the address does not fit a word.
LEMMA SdBlock ==
  ASSUME NEW b \in 0 .. Word - 1, (drv.card_type = "SC") <=> ByteAddressed(card)
  PROVE  b < Space(card) => AtCard(b) = b
  <1>1. CASE ByteAddressed(card)
    BY <1>1, BlockAtOffset, InSpace DEF AtCard, Address, Space
  <1>2. CASE ~ByteAddressed(card)
    BY <1>2 DEF AtCard, Address
  <1> QED BY <1>1, <1>2

\* The register tells the unit of the card's addresses.
LEMMA CsdKind ==
  ASSUME listening
  PROVE  (CsdType(Csd) = "SC") <=> ByteAddressed(card)
  <1>1. Csd[0] = IF ByteAddressed(card) THEN 0 ELSE 64
    BY DEF Csd, CsdBytes
  <1>2. (0 \div 64) % 2 = 0 /\ (64 \div 64) % 2 = 1
    OBVIOUS
  <1> QED BY <1>1, <1>2 DEF CsdType

\* A step that only goes on to another label of the same call.
LEMMA SdGoesOn ==
  ASSUME PromiseInv, driver = "sd", driver' = "sd", Bus, Keep, UNCHANGED <<pcVars, drv>>,
         call.op # "none", ~stored,
         \/ {pc, pc'} \subseteq InitLabels
         \/ {pc, pc'} \subseteq ReadLabels
         \/ {pc, pc'} \subseteq WriteLabels,
         pc' \notin {"busy", "stuckbusy"},
         listening /\ pc' \in {"readtoken", "readdata", "senddata"} => AtCard(call.block) \in DOMAIN store
  PROVE  PromiseInv' /\ UNCHANGED Device!vars
  <1>1. UNCHANGED Device!vars
    BY DEF Bus, Keep, clientVars, Device!vars, Space, ByteAddressed
  <1>2. ImageInv'
    BY DEF PromiseInv, ImageInv, InImage, Bus, clientVars, pcVars
  <1>3. SdInv'
    <2>1. UNCHANGED <<call, stored, ready, store, sound, drv, card, inserted, listening>>
      BY DEF Bus, Keep, clientVars
    <2>2. /\ pc' \in InitLabels \cup ReadLabels \cup WriteLabels
          /\ pc' \in InitLabels => call.op = "init"
          /\ pc' \in ReadLabels => call.op = "read"
          /\ pc' \in WriteLabels => call.op = "write"
      BY DEF PromiseInv, SdInv, InitLabels, ReadLabels, WriteLabels
    <2>3. pc' # "idle"
      BY <2>2 DEF InitLabels, ReadLabels, WriteLabels
    <2>4. AtCard(call.block)' = AtCard(call.block)
          /\ (ByteAddressed(card)' <=> ByteAddressed(card))
      BY <2>1 DEF AtCard, Address, ByteAddressed
    <2>5. listening /\ pc' \in {"readtoken", "readdata", "senddata"} =>
            AtCard(call.block)' \in DOMAIN store
      BY <2>4
    <2>6. pc' \notin {"busy", "stuckbusy"} /\ ~stored /\ call.op # "none"
      OBVIOUS
    <2> QED BY <2>1, <2>2, <2>3, <2>4, <2>5, <2>6 DEF PromiseInv, SdInv
  <1> QED BY <1>1, <1>2, <1>3 DEF PromiseInv, Bus, clientVars

\* A call that ends before anything is stored, with an error or with an answer.
LEMMA SdReturns ==
  ASSUME PromiseInv, driver = "sd", driver' = "sd", NEW ok \in BOOLEAN, NEW data,
         Return(ok, data), Goto("idle"), Keep, UNCHANGED pcVars,
         call.op \in {"init", "read", "write"},
         "card_type" \in DOMAIN drv',
         \/ call.op = "init" /\ ~ok /\ UNCHANGED sound
         \/ call.op = "init" /\ ok /\ sound' = listening
              /\ (listening => ((drv'.card_type = "SC") <=> ByteAddressed(card)))
         \/ call.op # "init" /\ UNCHANGED <<drv, sound>>
  PROVE  PromiseInv'
  <1>1. ImageInv'
    BY DEF PromiseInv, ImageInv, InImage, pcVars
  <1>2. SdInv'
    BY DEF PromiseInv, SdInv, Return, NoCall, Goto, Keep, InitLabels, ReadLabels, WriteLabels,
           ByteAddressed
  <1>3. call'.block \in 0 .. Word - 1 /\ stored' \in BOOLEAN
    <2>1. 0 \in 0 .. Word - 1
      BY BlockAssumption
    <2> QED BY <2>1 DEF Return, NoCall
  <1> QED BY <1>1, <1>2, <1>3 DEF PromiseInv

\* An error returned before anything is stored is a failure the promise allows.
LEMMA SdFails ==
  ASSUME PromiseInv, driver = "sd", driver' = "sd", Return(FALSE, Blank), Keep,
         UNCHANGED sound, call.op # "none", ~stored
  PROVE  Device!Fail
  BY DEF PromiseInv, Return, NoCall, Result, Keep, Space, ByteAddressed,
         Device!Fail, Device!Idle

\* What each step has to show.
StepOk == PromiseInv' /\ [Device!Next]_(Device!vars)

\* sd_card_reset fails.
LEMMA InitFails ==
  ASSUME PromiseInv, driver = "sd", driver' = "sd", UNCHANGED pcVars, pc \in InitLabels,
         InitReturns(FALSE), "card_type" \in DOMAIN drv'
  PROVE  StepOk
  <1>1. call.op = "init" /\ ~stored
    BY DEF PromiseInv, SdInv, InitLabels
  <1>2. PromiseInv'
    BY <1>1, SdReturns DEF InitReturns
  <1>3. Device!Fail
    BY <1>1, SdFails DEF InitReturns
  <1> QED BY <1>2, <1>3 DEF StepOk, Device!Next

\* sd_card_reset goes on, perhaps with another type of card.
LEMMA InitGoesOn ==
  ASSUME PromiseInv, driver = "sd", driver' = "sd", UNCHANGED pcVars,
         pc \in InitLabels, pc' \in InitLabels, Bus, Keep, "card_type" \in DOMAIN drv'
  PROVE  StepOk
  <1>1. call.op = "init" /\ ~stored
    BY DEF PromiseInv, SdInv, InitLabels
  <1>2. UNCHANGED Device!vars
    BY DEF Bus, Keep, clientVars, Device!vars, Space, ByteAddressed
  <1>3. ImageInv'
    BY DEF PromiseInv, ImageInv, InImage, Bus, clientVars, pcVars
  <1>4. SdInv'
    BY <1>1 DEF PromiseInv, SdInv, Bus, Keep, clientVars, InitLabels, ReadLabels, WriteLabels
  <1> QED BY <1>2, <1>3, <1>4 DEF StepOk, PromiseInv, Bus, clientVars

\* The steps of sd_card_reset.
LEMMA ResetSteps ==
  ASSUME PromiseInv, driver = "sd", driver' = "sd", UNCHANGED pcVars, NEW r,
         \/ Reset(r) \/ CheckVersion(r) \/ CheckEcho \/ AppCommand(r) \/ WaitReady(r)
         \/ SendCsd(r) \/ CsdToken
  PROVE  StepOk
  <1> USE DEF PromiseInv, SdInv, Gets, Goto, InitLabels
  <1>0. "card_type" \in DOMAIN drv
    OBVIOUS
  <1>1. CASE Reset(r)
    BY <1>1, InitFails, InitGoesOn DEF Reset
  <1>2. CASE CheckVersion(r)
    BY <1>2, InitFails, InitGoesOn DEF CheckVersion
  <1>3. CASE CheckEcho
    BY <1>3, InitFails, InitGoesOn DEF CheckEcho
  <1>4. CASE AppCommand(r)
    BY <1>4, InitGoesOn DEF AppCommand
  <1>5. CASE WaitReady(r)
    BY <1>5, InitGoesOn DEF WaitReady
  <1>6. CASE SendCsd(r)
    BY <1>6, InitFails, InitGoesOn DEF SendCsd
  <1>7. CASE CsdToken
    BY <1>7, InitGoesOn DEF CsdToken
  <1> QED BY <1>1, <1>2, <1>3, <1>4, <1>5, <1>6, <1>7

\* The last step of sd_card_reset, from which on the driver knows the card.
LEMMA ReadCsdStep ==
  ASSUME PromiseInv, driver = "sd", driver' = "sd", UNCHANGED pcVars, ReadCsd
  PROVE  StepOk
  <1>1. call.op = "init" /\ ~stored /\ "card_type" \in DOMAIN drv
    BY DEF PromiseInv, SdInv, InitLabels, ReadCsd
  <1>2. "card_type" \in DOMAIN drv' /\ drv'.card_type = CsdType(Csd)
    BY <1>1 DEF ReadCsd
  <1>3. PromiseInv'
    BY <1>1, <1>2, CsdKind, SdReturns DEF ReadCsd, InitReturns
  <1>4. Device!InitDone
    BY <1>1 DEF PromiseInv, SdInv, ReadCsd, InitReturns, Return, NoCall, Result, Keep, Space,
                ByteAddressed, Device!InitDone
  <1> QED BY <1>3, <1>4 DEF StepOk, Device!Next

\* Polling again.
LEMMA PollSteps ==
  ASSUME PromiseInv, driver = "sd", driver' = "sd", UNCHANGED pcVars, Poll \/ PollOn
  PROVE  StepOk
  <1>1. UNCHANGED <<clientVars, pc, drv, card, inserted, listening, sound>>
    BY DEF Poll, PollOn, Bus, Keep, sdVars
  <1>2. UNCHANGED Device!vars
    BY <1>1 DEF clientVars, Device!vars, Space, ByteAddressed
  <1>3. ImageInv' /\ SdInv'
    BY <1>1 DEF PromiseInv, ImageInv, InImage, clientVars, pcVars, SdInv, AtCard, Address,
                ByteAddressed
  <1> QED BY <1>1, <1>2, <1>3 DEF StepOk, PromiseInv, clientVars

\* The answer to the command of block_read or block_write.
LEMMA StartSteps ==
  ASSUME PromiseInv, driver = "sd", driver' = "sd", UNCHANGED pcVars, NEW r,
         StartRead(r) \/ StartWrite(r)
  PROVE  StepOk
  <1>1. /\ \/ pc = "CMD17" /\ Started("CMD17", "readtoken", r)
           \/ pc = "CMD24" /\ Started("CMD24", "senddata", r)
        /\ call.op \in {"read", "write"} /\ ~stored
    BY DEF StartRead, StartWrite, Started, Gets, PromiseInv, SdInv, ReadLabels, WriteLabels
  <1>2. CASE r # 0
    <2>1. Returns(FALSE, Blank)
      BY <1>1, <1>2 DEF Started
    <2>2. PromiseInv'
      BY <1>1, <2>1, SdReturns DEF Returns, PromiseInv, SdInv
    <2>3. Device!Fail
      BY <1>1, <2>1, SdFails DEF Returns
    <2> QED BY <2>2, <2>3 DEF StepOk, Device!Next
  <1>3. CASE r = 0
    <2>1. listening /\ r \in Answers(pc) /\ AtCard(call.block) \in DOMAIN store
      BY <1>1, <1>3 DEF Started, Gets, NoAnswer, Answers
    <2>2. /\ Bus /\ Keep /\ UNCHANGED drv
          /\ \/ pc = "CMD17" /\ pc' = "readtoken"
             \/ pc = "CMD24" /\ pc' = "senddata"
      BY <1>1, <1>3 DEF Started, Goto
    <2> QED BY <1>1, <2>1, <2>2, SdGoesOn DEF StepOk, ReadLabels, WriteLabels
  <1> QED BY <1>2, <1>3

\* The start token of a block, or an error token.
LEMMA ReadTokenStep ==
  ASSUME PromiseInv, driver = "sd", driver' = "sd", UNCHANGED pcVars, ReadToken
  PROVE  StepOk
  <1>1. call.op = "read" /\ ~stored /\ AtCard(call.block) \in DOMAIN store
    BY DEF ReadToken, PromiseInv, SdInv, ReadLabels
  <1> QED BY <1>1, SdGoesOn DEF StepOk, ReadToken, Goto, ReadLabels

\* In the middle of a transfer, a card that is there is the card that was
\* initialised, and it has the block.
LEMMA Transferred ==
  ASSUME PromiseInv, driver = "sd", listening, pc \in {"readdata", "senddata"}
  PROVE  /\ sound
         /\ call.block < Space(card) => AtCard(call.block) = call.block
         /\ AtCard(call.block) \in DOMAIN store
  <1>1. sound /\ ready /\ call.op # "init" /\ AtCard(call.block) \in DOMAIN store
    BY DEF PromiseInv, SdInv, ReadLabels, WriteLabels
  <1>2. (drv.card_type = "SC") <=> ByteAddressed(card)
    BY <1>1 DEF PromiseInv, SdInv
  <1>3. call.block < Space(card) => AtCard(call.block) = call.block
    BY <1>2, SdBlock DEF PromiseInv
  <1> QED BY <1>1, <1>3

\* The block that was asked for is returned, or what an empty slot reads as.
LEMMA ReadDataStep ==
  ASSUME PromiseInv, driver = "sd", driver' = "sd", UNCHANGED pcVars, ReadData
  PROVE  StepOk
  <1>1. call.op = "read" /\ ~stored
    BY DEF ReadData, PromiseInv, SdInv, ReadLabels
  <1>2. PromiseInv'
    BY <1>1, SdReturns DEF ReadData, Returns, PromiseInv, SdInv
  <1>3. Device!ReadDone
    BY <1>1, Transferred
      DEF PromiseInv, SdInv, ReadData, Returns, Return, NoCall, Result, Keep, Space,
          ByteAddressed, Device!ReadDone, Device!Promised
  <1> QED BY <1>2, <1>3 DEF StepOk, Device!Next

\* The data goes to the block that was asked for, or nowhere.
LEMMA SendDataStep ==
  ASSUME CardsAccept, PromiseInv, driver = "sd", driver' = "sd", UNCHANGED pcVars, SendData
  PROVE  StepOk
  <1>1. call.op = "write" /\ ~stored /\ pc = "senddata" /\ ready
    BY DEF SendData, PromiseInv, SdInv, WriteLabels
  <1>2. ImageInv'
    BY DEF SendData, PromiseInv, ImageInv, InImage, pcVars
  <1>3. CASE listening /\ store' = [store EXCEPT ![AtCard(call.block)] = call.data] /\ stored' = TRUE
    <2>1. Device!Store
      BY <1>1, <1>3, Transferred
        DEF SendData, Keep, Space, ByteAddressed, Device!Store, Device!Promised
    <2>2. SdInv'
      BY <1>1, <1>3 DEF SendData, Goto, Keep, PromiseInv, SdInv, InitLabels, ReadLabels,
                        WriteLabels, ByteAddressed
    <2> QED BY <1>2, <1>3, <2>1, <2>2 DEF StepOk, PromiseInv, SendData, Device!Next
  <1>4. CASE ~listening /\ UNCHANGED <<store, stored>>
    <2>1. UNCHANGED Device!vars
      BY <1>4 DEF SendData, Keep, Space, ByteAddressed, Device!vars
    <2>2. SdInv'
      BY <1>1, <1>4 DEF SendData, Goto, Keep, PromiseInv, SdInv, InitLabels, ReadLabels,
                        WriteLabels, ByteAddressed
    <2> QED BY <1>2, <1>4, <2>1, <2>2 DEF StepOk, PromiseInv, SendData
  <1> QED BY <1>3, <1>4 DEF SendData, CardsAccept

\* block_write returns once the card is no longer busy.
LEMMA WaitBusyStep ==
  ASSUME PromiseInv, driver = "sd", driver' = "sd", UNCHANGED pcVars, WaitBusy
  PROVE  StepOk
  <1>1. call.op = "write" /\ (sound => stored)
    BY DEF WaitBusy, PromiseInv, SdInv, WriteLabels
  <1>2. PromiseInv'
    BY <1>1, SdReturns DEF WaitBusy, Returns, PromiseInv, SdInv
  <1>3. Device!WriteDone
    BY <1>1 DEF WaitBusy, Returns, Return, NoCall, Result, Keep, Space, ByteAddressed,
                Device!WriteDone
  <1> QED BY <1>2, <1>3 DEF StepOk, Device!Next

\* A caller begins a call.
LEMMA CallerSteps ==
  ASSUME PromiseInv, driver = "sd", driver' = "sd", UNCHANGED pcVars, SdCaller
  PROVE  StepOk
  <1>0. 0 \in 0 .. Word - 1 /\ Asked \subseteq 0 .. Word - 1
    BY BlockAssumption
  <1>1. PICK op \in {"init", "read", "write"}, b \in 0 .. Word - 1, d \in Data \cup {Blank} :
          /\ Begin(op, b, d)
          /\ Goto(IF op = "init" THEN "CMD0" ELSE IF op = "read" THEN "CMD17" ELSE "CMD24")
          /\ UNCHANGED <<drv, card, inserted, sound>>
          /\ listening' = IF op = "init" THEN inserted ELSE listening
    BY <1>0 DEF SdCaller, BeginInit, BeginRead, BeginWrite, Keep
  <1>2. Device!Ask
    BY <1>1 DEF Begin, Space, ByteAddressed, Device!Ask, Device!Idle
  <1>3. SdInv'
    <2>1. sound => listening' = TRUE
      BY <1>1 DEF PromiseInv, SdInv
    <2>2. listening' => inserted'
      BY <1>1 DEF PromiseInv, SdInv
    <2>3. /\ call.op = "none" /\ (op # "init" => ready) /\ call'.op = op
          /\ stored' = FALSE /\ UNCHANGED <<store, ready>>
      BY <1>1 DEF Begin
    <2>4. pc' = IF op = "init" THEN "CMD0" ELSE IF op = "read" THEN "CMD17" ELSE "CMD24"
      BY <1>1 DEF Goto
    <2>5. op # "init" => listening' = listening
      BY <1>1
    <2>6. listening' \in BOOLEAN
      <3>1. inserted \in BOOLEAN
        BY DEF PromiseInv, SdInv
      <3> QED BY <1>1, <3>1 DEF PromiseInv, SdInv
    <2> QED BY <1>1, <2>1, <2>2, <2>3, <2>4, <2>5, <2>6 DEF PromiseInv, SdInv, InitLabels,
                ReadLabels, WriteLabels, ByteAddressed
  <1>4. ImageInv' /\ call'.block \in 0 .. Word - 1 /\ stored' \in BOOLEAN
    BY <1>1 DEF PromiseInv, ImageInv, InImage, Begin, pcVars
  <1> QED BY <1>2, <1>3, <1>4 DEF StepOk, PromiseInv, Device!Next

\* The card is taken out, or another is put in.
LEMMA SlotSteps ==
  ASSUME PromiseInv, driver = "sd", driver' = "sd", UNCHANGED pcVars, SdSlot
  PROVE  StepOk
  <1>1. ImageInv' /\ call'.block \in 0 .. Word - 1 /\ stored' \in BOOLEAN
    BY DEF SdSlot, Eject, Insert, PromiseInv, ImageInv, InImage, clientVars, pcVars
  <1>2. CASE Eject
    <2>1. Device!Eject
      BY <1>2 DEF Eject, clientVars, Space, ByteAddressed, Device!Eject
    <2>2. SdInv'
      BY <1>2 DEF PromiseInv, SdInv, Eject, clientVars
    <2> QED BY <1>1, <2>1, <2>2 DEF StepOk, PromiseInv, Device!Next
  <1>3. ASSUME NEW c \in Cards, Insert(c) PROVE StepOk
    <2>1. Device!Insert
      BY <1>3 DEF PromiseInv, SdInv, Insert, Device!Insert, Device!Idle
    <2>2. SdInv'
      BY <1>3 DEF PromiseInv, SdInv, Insert
    <2> QED BY <1>1, <2>1, <2>2 DEF StepOk, PromiseInv, Device!Next
  <1> QED BY <1>2, <1>3 DEF SdSlot

-----------------------------------------------------------------------------
\* A program starts with a driver that promises nothing yet.
LEMMA PromiseInit == Init => PromiseInv /\ Device!Init
  <1> SUFFICES ASSUME Init PROVE PromiseInv /\ Device!Init
    OBVIOUS
  <1>1. call = NoCall /\ stored = FALSE /\ ready = FALSE /\ driver \in {"sd", "pc"}
    BY DEF Init, PcInit, SdInit, ClientInit
  <1>2. NoCall.op = "none" /\ NoCall.block \in 0 .. Word - 1
    BY BlockAssumption DEF NoCall
  <1>3. driver = "sd" => SdInv /\ sound = FALSE
    <2> SUFFICES ASSUME driver = "sd" PROVE SdInv /\ sound = FALSE
      OBVIOUS
    <2>1. pc = "idle" /\ sound = FALSE /\ listening = FALSE /\ inserted \in BOOLEAN
      BY DEF Init, SdInit
    <2>2. "card_type" \in DOMAIN drv
      BY DEF Init, SdInit
    <2> QED BY <1>1, <1>2, <2>1, <2>2 DEF SdInv, InitLabels, ReadLabels, WriteLabels
  <1>4. driver = "pc" => PcInv
    BY <1>1, <1>2 DEF PcInv
  <1> QED BY <1>1, <1>2, <1>3, <1>4, ImageInit DEF PromiseInv, Device!Init

\* Every step of a program with either driver is a step of the promise.
LEMMA PromiseStep ==
  ASSUME BlocksHaveBytes, CardsAccept, PromiseInv, [Next]_vars
  PROVE  StepOk
  <1>1. CASE driver = "sd" /\ SdNext /\ UNCHANGED <<pcVars, driver>>
    BY <1>1, ResetSteps, ReadCsdStep, PollSteps, StartSteps, ReadTokenStep, ReadDataStep,
       SendDataStep, WaitBusyStep, CallerSteps, SlotSteps DEF SdNext, SdDriver
  <1>2. CASE driver = "pc" /\ PcNext /\ UNCHANGED <<sdVars, driver>>
    BY <1>2, PcKeepsPromise, PcImplements DEF StepOk
  <1>3. CASE UNCHANGED vars
    <2>1. UNCHANGED Device!vars
      BY <1>3 DEF vars, clientVars, sdVars, Device!vars, Space, ByteAddressed
    <2>2. ImageInv' /\ SdInv' = SdInv /\ PcInv' = PcInv
      BY <1>3, ImageStep DEF vars, clientVars, sdVars, pcVars, SdInv, PcInv, AtCard, Address,
                             ByteAddressed, PromiseInv
    <2> QED BY <1>3, <2>1, <2>2 DEF StepOk, PromiseInv, vars, clientVars
  <1> QED BY <1>1, <1>2, <1>3 DEF Next

\* block_init, block_read and block_write of either driver do what block.h says,
\* for all cards, all images of whole blocks, all block numbers whose byte offset
\* fits a word (or that the card takes as they are), inside and outside the medium,
\* and cards taken out and put in at any poll, as long as cards do not reject what
\* they are sent.
THEOREM DriversImplement ==
  ASSUME BlocksHaveBytes, CardsAccept PROVE Spec => ImplementsDevice
  <1>1. PromiseInv /\ [Next]_vars => PromiseInv' /\ [Device!Next]_(Device!vars)
    BY PromiseStep DEF StepOk
  <1> QED BY PromiseInit, <1>1, PTL DEF Spec, ImplementsDevice, Device!Spec

-----------------------------------------------------------------------------
(* What the driver knows of the card. *)

\* Cards whose fields fit the widths that the driver takes from the register.
FieldsFit ==
  \A c \in Cards :
    /\ c.wp \in BOOLEAN
    /\ ByteAddressed(c) => c.csize \in 0 .. 4095 /\ c.mult \in 0 .. 7 /\ c.rbl \in 9 .. 15
    /\ ~ByteAddressed(c) => c.csize \in Nat /\ c.csize \div 65536 < 16

\* A number of twenty bits, put together from its bytes.
LEMMA ThreeBytes ==
  ASSUME NEW n \in Nat, n \div 65536 < 16
  PROVE  ((n \div 65536) % 16) * 65536 + ((n \div 256) % 256) * 256 + (n % 256) = n
  <1> DEFINE a == n \div 65536
             b == n \div 256
  <1>1. a \in Nat /\ b \in Nat /\ a < 16 /\ a % 16 = a
    OBVIOUS
  <1>2. n = 256 * b + (n % 256)
    OBVIOUS
  <1>3. b = 256 * a + (b % 256)
    OBVIOUS
  <1> QED BY <1>1, <1>2, <1>3

\* The fields are taken apart the way the register puts them together.
LEMMA CsdDecoded ==
  ASSUME FieldsFit, card \in Cards, listening
  PROVE  CsdSize(Csd) = Capacity(card) /\ (card.wp => ProtectBits(Csd))
  <1> DEFINE b == Csd
             n == card.csize
             m == card.mult
  <1>0. (CsdType(Csd) = "SC") <=> ByteAddressed(card)
    BY CsdKind
  <1>1. CASE ByteAddressed(card)
    <2>1. n \in 0 .. 4095 /\ m \in 0 .. 7 /\ card.rbl \in 9 .. 15
      BY <1>1 DEF FieldsFit
    <2>2. /\ b[5] = 80 + card.rbl /\ b[6] = 128 + n \div 1024 /\ b[7] = (n \div 4) % 256
          /\ b[8] = (n % 4) * 64 + 45 /\ b[9] = 180 + m \div 2 /\ b[10] = (m % 2) * 128 + 127
          /\ b[14] = IF card.wp THEN 32 ELSE 0
      BY <1>1, SMT DEF Csd, CsdBytes
    <2> DEFINE c_size == (b[6] % 4) * 1024 + b[7] * 4 + b[8] \div 64
               mult   == (b[9] * 2 + b[10] \div 128) % 8
    <2> HIDE DEF b, n, m
    <2>3. c_size = n
      BY <2>1, <2>2, SMT
    <2>4. mult = m
      BY <2>1, <2>2, SMT
    <2>5. b[5] % 16 = card.rbl
      BY <2>1, <2>2, SMT
    <2>6. SizeV1(b) = (n + 1) * 2^(m + 2) * 2^(card.rbl - 9)
      BY <2>3, <2>4, <2>5 DEF SizeV1
    <2>7. CsdSize(Csd) = SizeV1(b)
      BY <1>0, <1>1 DEF CsdSize, CsdType, b
    <2>8. card.wp => ProtectBits(b)
      BY <2>2, SMT DEF ProtectBits
    <2> QED BY <1>1, <2>6, <2>7, <2>8 DEF Capacity, b, n, m
  <1>2. CASE ~ByteAddressed(card)
    <2>1. n \in Nat /\ n \div 65536 < 16
      BY <1>2 DEF FieldsFit
    <2>2. /\ b[7] = n \div 65536 /\ b[8] = (n \div 256) % 256 /\ b[9] = n % 256
          /\ b[14] = IF card.wp THEN 16 ELSE 0
      BY <1>2, SMT DEF Csd, CsdBytes
    <2>3. CsdSize(Csd) = SizeV2(b)
      BY <1>0, <1>2, SMT DEF CsdSize, CsdType
    <2> HIDE DEF b, n
    <2>4. (b[7] % 16) * 65536 + b[8] * 256 + b[9] = n
      BY <2>1, <2>2, ThreeBytes, SMT
    <2>5. card.wp => ProtectBits(b)
      BY <2>2, SMT DEF ProtectBits
    <2> QED BY <1>2, <2>3, <2>4, <2>5 DEF Capacity, SizeV2, b, n
  <1> QED BY <1>1, <1>2

CardInv ==
  /\ PromiseInv
  /\ CardKnown
  /\ driver = "sd" => card \in Cards /\ {"size", "read_only"} \subseteq DOMAIN drv

\* A step that leaves the card and what is known of it alone, and is not the end of
\* a reset that succeeds.
LEMMA CardKept ==
  ASSUME CardInv, PromiseInv', UNCHANGED driver,
         driver = "sd" => UNCHANGED <<card, drv>>,
         driver = "sd" /\ sound' /\ ready' /\ call'.op # "init" => sound /\ ready /\ call.op # "init"
  PROVE  CardInv'
  BY DEF CardInv, CardKnown, ByteAddressed, Capacity

\* The steps of sd_card_reset that change what the driver knows either go on with
\* the reset or fail.
LEMMA ResetKeepsCard ==
  ASSUME CardInv, PromiseInv', driver = "sd", driver' = "sd", NEW r,
         \/ Reset(r) \/ CheckVersion(r) \/ CheckEcho \/ AppCommand(r) \/ WaitReady(r)
         \/ SendCsd(r) \/ CsdToken
  PROVE  CardInv'
  <1>1. call.op = "init" /\ "card_type" \in DOMAIN drv
    BY DEF CardInv, PromiseInv, SdInv, Reset, CheckVersion, CheckEcho, AppCommand, WaitReady,
           SendCsd, CsdToken, Gets, InitLabels
  <1>2. call'.op = "init" \/ ready' = FALSE
    BY <1>1 DEF Reset, CheckVersion, CheckEcho, AppCommand, WaitReady, SendCsd, CsdToken,
                InitReturns, Return, Bus, clientVars
  <1>3. card' = card /\ DOMAIN drv' = DOMAIN drv
    BY DEF Reset, CheckVersion, CheckEcho, AppCommand, WaitReady, SendCsd, CsdToken,
           InitReturns, Keep
  <1> QED BY <1>2, <1>3 DEF CardInv, CardKnown

\* A reset that succeeds with a card in the slot has read the card's register.
LEMMA ReadCsdKnows ==
  ASSUME FieldsFit, CardInv, PromiseInv', driver = "sd", driver' = "sd", ReadCsd
  PROVE  CardInv'
  <1>1. {"card_type", "size", "read_only"} \subseteq DOMAIN drv
    BY DEF CardInv, PromiseInv, SdInv
  <1>2. /\ drv'.card_type = CsdType(Csd) /\ drv'.size = CsdSize(Csd)
        /\ drv'.read_only = (drv.read_only \/ ProtectBits(Csd))
        /\ DOMAIN drv' = DOMAIN drv
    BY <1>1 DEF ReadCsd
  <1>3. card' = card /\ sound' = listening
    BY DEF ReadCsd, InitReturns, Keep
  <1>4. listening => /\ (CsdType(Csd) = "SC") <=> ByteAddressed(card)
                   /\ CsdSize(Csd) = Capacity(card) /\ (card.wp => ProtectBits(Csd))
    BY CsdKind, CsdDecoded DEF CardInv
  <1>5. CardKnown'
    <2> SUFFICES ASSUME sound' PROVE
          /\ (drv'.card_type = "SC") = ByteAddressed(card')
          /\ drv'.size = Capacity(card')
          /\ card'.wp => drv'.read_only
      BY DEF CardKnown, ByteAddressed, Capacity
    <2>1. (drv'.card_type = "SC") = ByteAddressed(card) /\ drv'.size = Capacity(card)
      BY <1>2, <1>3, <1>4 DEF ByteAddressed
    <2>2. card.wp => drv'.read_only
      BY <1>2, <1>3, <1>4
    <2> QED BY <1>3, <2>1, <2>2
  <1> QED BY <1>1, <1>2, <1>3, <1>5 DEF CardInv

\* Every step of a program with either driver.
LEMMA CardStep ==
  ASSUME BlocksHaveBytes, CardsAccept, FieldsFit, CardInv, [Next]_vars
  PROVE  CardInv'
  <1>1. PromiseInv'
    BY PromiseStep DEF StepOk, CardInv
  <1>2. CASE driver = "sd" /\ SdNext /\ UNCHANGED <<pcVars, driver>>
    <2>1. CASE Poll \/ PollOn
      BY <1>1, <1>2, <2>1, CardKept DEF Poll, PollOn, Bus, Keep, clientVars, sdVars
    <2>2. ASSUME NEW r, StartRead(r) \/ StartWrite(r) PROVE CardInv'
      <3>1. call.op \in {"read", "write"}
        BY <1>2, <2>2 DEF StartRead, StartWrite, Started, Gets, CardInv, PromiseInv, SdInv,
                          ReadLabels, WriteLabels
      <3>2. UNCHANGED <<card, drv, sound, ready>>
        BY <2>2, <3>1 DEF StartRead, StartWrite, Started, Returns, Return, Bus, Keep, clientVars
      <3> QED BY <1>1, <1>2, <3>1, <3>2, CardKept
    <2>3. CASE ReadToken \/ ReadData \/ SendData \/ WaitBusy
      <3>1. call.op \in {"read", "write"}
        BY <1>2, <2>3 DEF ReadToken, ReadData, SendData, WaitBusy, CardInv, PromiseInv, SdInv,
                          ReadLabels, WriteLabels
      <3>2. UNCHANGED <<card, drv, sound, ready>>
        BY <2>3, <3>1 DEF ReadToken, ReadData, SendData, WaitBusy, Returns, Return, Bus, Keep,
                          clientVars
      <3> QED BY <1>1, <1>2, <3>1, <3>2, CardKept
    <2>4. CASE SdCaller
      BY <1>1, <1>2, <2>4, CardKept DEF SdCaller, BeginInit, BeginRead, BeginWrite, Begin, Keep
    <2>5. CASE Eject
      BY <1>1, <1>2, <2>5, CardKept DEF Eject, clientVars
    <2>6. ASSUME NEW c \in Cards, Insert(c) PROVE CardInv'
      BY <1>1, <1>2, <2>6 DEF Insert, CardInv, CardKnown, PromiseInv, SdInv
    <2> QED BY <1>1, <1>2, <2>1, <2>2, <2>3, <2>4, <2>5, <2>6, ResetKeepsCard, ReadCsdKnows
          DEF SdNext, SdDriver, SdSlot
  <1>3. CASE driver = "pc" /\ PcNext /\ UNCHANGED <<sdVars, driver>>
    BY <1>1, <1>3, CardKept
  <1>4. CASE UNCHANGED vars
    BY <1>1, <1>4, CardKept DEF vars, clientVars, sdVars
  <1> QED BY <1>2, <1>3, <1>4 DEF Next

\* From a block_init that succeeded to the removal of the card, the SD driver counts
\* in the unit the card is addressed in, has its size, and knows it is protected if
\* it is: for every register layout and field, and any cards before it.
THEOREM CardIsKnown ==
  ASSUME BlocksHaveBytes, CardsAccept, FieldsFit PROVE Spec => []CardKnown
  <1>1. Init => CardInv
    <2>1. Init => CardKnown
      BY DEF Init, SdInit, CardKnown
    <2>2. Init /\ driver = "sd" => card \in Cards /\ {"size", "read_only"} \subseteq DOMAIN drv
      BY DEF Init, SdInit
    <2> QED BY <2>1, <2>2, PromiseInit DEF CardInv
  <1>2. CardInv /\ [Next]_vars => CardInv'
    BY CardStep
  <1>3. CardInv => CardKnown
    BY DEF CardInv
  <1> QED BY <1>1, <1>2, <1>3, PTL DEF Spec

-----------------------------------------------------------------------------
(* Types. *)

\* Powers of two that a card's register makes up its capacity from.
LEMMA Powers ==
  ASSUME NEW k \in 0 .. 9
  PROVE  2^k \in Nat
  <1> DEFINE power(j) == 2^j
  <1>1. /\ power(0) \in Nat /\ power(1) \in Nat /\ power(2) \in Nat /\ power(3) \in Nat
        /\ power(4) \in Nat /\ power(5) \in Nat /\ power(6) \in Nat /\ power(7) \in Nat
        /\ power(8) \in Nat /\ power(9) \in Nat
    BY SMT
  <1> HIDE DEF power
  <1>2. power(k) \in Nat
    BY <1>1
  <1> QED BY <1>2 DEF power

\* A card whose fields fit has a number of blocks.
LEMMA CapacityIsNat ==
  ASSUME FieldsFit, NEW c \in Cards
  PROVE  Capacity(c) \in Nat
  <1>1. CASE ByteAddressed(c)
    <2> DEFINE n == c.csize
               m == c.mult
               r == c.rbl
    <2>1. n \in 0 .. 4095 /\ m \in 0 .. 7 /\ r \in 9 .. 15
      BY <1>1 DEF FieldsFit
    <2> HIDE DEF n, m, r
    <2>2. n \in Nat /\ m + 2 \in 0 .. 9 /\ r - 9 \in 0 .. 9
      BY <2>1, SMT
    <2>3. 2^(m + 2) \in Nat /\ 2^(r - 9) \in Nat
      BY <2>2, Powers
    <2> DEFINE x == 2^(m + 2)
               y == 2^(r - 9)
    <2> HIDE DEF x, y
    <2>4. x \in Nat /\ y \in Nat
      BY <2>3 DEF x, y
    <2>5. (n + 1) * x * y \in Nat
      BY <2>2, <2>4
    <2> QED BY <1>1, <2>5 DEF Capacity, n, m, r, x, y
  <1>2. CASE ~ByteAddressed(c)
    BY <1>2 DEF Capacity, FieldsFit
  <1> QED BY <1>1, <1>2

\* What the types rest on: a write has the data it was given, and once the card has
\* agreed to a transfer the block it was sent the address of is there.
TypeInv ==
  /\ TypeOK
  /\ call.op = "write" => call.data \in Data
  /\ driver = "sd" =>
       /\ listening => inserted
       /\ pc \in WriteLabels => call.op = "write"
       /\ listening /\ pc \in {"readtoken", "readdata", "senddata"} =>
            AtCard(call.block) \in DOMAIN store

\* No more blocks than bytes.
LEMMA NoMoreBlocks ==
  ASSUME NEW n \in Nat, NEW c \in Nat \ {0}
  PROVE  n \div c \in Nat /\ n \div c <= n
  <1> DEFINE q == n \div c
  <1>1. q \in Nat /\ n % c \in 0 .. c - 1 /\ n = q * c + (n % c)
    BY Division
  <1>2. n % c \in Nat
    BY <1>1
  <1> HIDE DEF q
  <1>3. 1 * q <= c * q
    BY <1>1, Monotone
  <1>4. c * q = q * c
    BY <1>1
  <1>5. q <= n
    BY <1>1, <1>2, <1>3, <1>4
  <1> QED BY <1>1, <1>5 DEF q

\* What a card can be asked for is a set of block numbers.
LEMMA ReachedBlocks ==
  ASSUME NEW c \in Cards
  PROVE  Reached(c) \subseteq 0 .. Word - 1
  <1>1. ByteSpace \in Nat /\ ByteSpace <= Word
    <2>1. BlockSize \in Nat \ {0} /\ Word \in Nat \ {0} /\ Word % BlockSize = 0
      BY BlockAssumption
    <2>2. ByteSpace \in Nat /\ Word = ByteSpace * BlockSize
      BY <2>1, Division DEF ByteSpace
    <2>3. ByteSpace * 1 <= ByteSpace * BlockSize
      <3>1. 1 * ByteSpace <= BlockSize * ByteSpace
        BY <2>1, <2>2, Monotone
      <3> QED BY <2>1, <2>2, <3>1
    <2> QED BY <2>1, <2>2, <2>3
  <1>2. ByteSpace # 0
    <2>1. BlockSize \in Nat \ {0} /\ Word \in Nat \ {0} /\ Word % BlockSize = 0
      BY BlockAssumption
    <2>2. Word = ByteSpace * BlockSize
      BY <2>1, Division DEF ByteSpace
    <2> QED BY <2>1, <2>2
  <1>3. Space(c) \in Nat \ {0} /\ Space(c) <= Word
    BY <1>1, <1>2, BlockAssumption DEF Space
  <1>4. ASSUME NEW b \in Asked PROVE b % Space(c) \in 0 .. Word - 1
    <2>1. b \in Nat
      BY BlockAssumption
    <2>2. b % Space(c) \in 0 .. Space(c) - 1
      BY <1>3, <2>1, Division
    <2> QED BY <1>3, <2>2, BlockAssumption
  <1> QED BY <1>4 DEF Reached

\* The register's size, or what an empty slot reads as, is a number of blocks.
LEMMA SizeIsNat ==
  ASSUME FieldsFit, card \in Cards
  PROVE  CsdSize(Csd) \in Nat /\ CsdType(Csd) \in {"SC", "HC"} /\ ProtectBits(Csd) \in BOOLEAN
  <1>1. CASE listening
    BY <1>1, CsdDecoded, CapacityIsNat DEF CsdType, ProtectBits
  <1>2. CASE ~listening
    <2>1. \A k \in 0 .. 15 : Csd[k] = 255
      BY <1>2 DEF Csd
    <2>2. Csd[0] = 255 /\ Csd[7] = 255 /\ Csd[8] = 255 /\ Csd[9] = 255
      BY <2>1
    <2>3. CsdType(Csd) = "HC"
      BY <2>2, SMT DEF CsdType
    <2>4. SizeV2(Csd) \in Nat
      BY <2>2, SMT DEF SizeV2
    <2> QED BY <2>3, <2>4 DEF CsdSize, ProtectBits
  <1> QED BY <1>1, <1>2

\* A program starts with values of their types.
LEMMA InitTypes == Init => TypeInv
  <1> SUFFICES ASSUME Init PROVE TypeInv
    OBVIOUS
  <1>1. call = NoCall /\ ret = Result("none", TRUE, Blank) /\ stored = FALSE /\ ready = FALSE
    BY DEF Init, SdInit, PcInit, ClientInit
  <1>2. /\ NoCall \in [op : {"none", "init", "read", "write"}, block : Asked \cup {0},
                       data : Data \cup {Blank}]
        /\ NoCall.op = "none"
        /\ Result("none", TRUE, Blank) \in [op : {"none", "init", "read", "write"}, ok : BOOLEAN,
                                            data : Data \cup {Blank}]
    BY DEF NoCall, Result
  <1>3. CASE driver = "sd" /\ SdInit
    <2>1. DOMAIN store \subseteq 0 .. Word - 1 /\ \A b \in DOMAIN store : store[b] \in Data
      BY <1>3, ReachedBlocks DEF SdInit
    <2>2. pc = "idle" /\ tries \in 0 .. Retries /\ swaps \in 0 .. MaxSwaps
      BY <1>3, SlotAssumption DEF SdInit
    <2>3. drv \in [card_type : {"NONE", "SC", "HC", "ERROR"}, read_only : BOOLEAN,
                   size : Nat, error : {"none", "NOT_PRESENT"}]
      BY <1>3 DEF SdInit
    <2>4. card \in Cards /\ inserted \in BOOLEAN /\ listening = FALSE /\ sound = FALSE
      BY <1>3 DEF SdInit
    <2> QED BY <1>1, <1>2, <1>3, <2>1, <2>2, <2>3, <2>4
          DEF TypeInv, TypeOK, ClientTypeOK, Labels, WriteLabels
  <1>4. CASE driver = "pc" /\ PcInit
    BY <1>1, <1>2, <1>4 DEF TypeInv, TypeOK, ClientTypeOK, PcInit
  <1> QED BY <1>3, <1>4 DEF Init

\* The steps of the image-file driver.
LEMMA PcKeepsTypes ==
  ASSUME TypeInv, driver = "pc", driver' = "pc", PcNext
  PROVE  TypeInv'
  <1> USE DEF TypeInv, TypeOK, ClientTypeOK
  <1>0. Asked \cup {0} \subseteq 0 .. Word - 1
    BY BlockAssumption
  <1>1. CASE PcBeginInit
    BY <1>1 DEF PcBeginInit, Begin, pcVars
  <1>2. ASSUME NEW n \in Images, PcInitBody(n) PROVE TypeInv'
    <2>1. NoCall \in [op : {"none", "init", "read", "write"}, block : Asked \cup {0},
                       data : Data \cup {Blank}] /\ NoCall.op = "none"
      BY DEF NoCall
    <2>2. ret' \in [op : {"none", "init", "read", "write"}, ok : BOOLEAN,
                    data : Data \cup {Blank}]
      <3>1. \A ok \in BOOLEAN : Result("init", ok, Blank) \in
              [op : {"none", "init", "read", "write"}, ok : BOOLEAN, data : Data \cup {Blank}]
        BY DEF Result
      <3> QED BY <1>2, <3>1 DEF PcInitBody, ImageLoads, ImageFails
    <2>3. DOMAIN store' \subseteq 0 .. Word - 1 /\ \A b \in DOMAIN store' : store'[b] \in Data
      <3>1. CASE ImageLoads(n)
        <4>1. n \in Nat /\ n < Word /\ BlockSize \in Nat \ {0} /\ Word \in Nat \ {0}
          BY <3>1, ImagesAssumption, BlockAssumption DEF ImageLoads
        <4>2. n \div BlockSize \in Nat /\ n \div BlockSize <= n
          BY <4>1, NoMoreBlocks
        <4> QED BY <3>1, <4>1, <4>2 DEF ImageLoads
      <3>2. CASE ImageFails(n)
        BY <3>2 DEF ImageFails
      <3> QED BY <1>2, <3>1, <3>2 DEF PcInitBody
    <2> QED BY <1>2, <2>1, <2>2, <2>3 DEF PcInitBody, ImageLoads, ImageFails
  <1>3. ASSUME NEW b \in Asked, PcBeginRead(b) PROVE TypeInv'
    BY <1>3 DEF PcBeginRead, Begin, pcVars
  <1>4. ASSUME NEW b \in Asked, NEW d \in Data, PcBeginWrite(b, d) PROVE TypeInv'
    BY <1>4 DEF PcBeginWrite, Begin, pcVars
  <1>5. CASE PcReject \/ PcRead \/ PcWritten
    <2>1. ASSUME NEW ok \in BOOLEAN, NEW data \in Data \cup {Blank}, Return(ok, data)
          PROVE  /\ call' = NoCall /\ NoCall.op = "none" /\ ready' \in BOOLEAN /\ stored' = FALSE
                 /\ store' = store
                 /\ ret' \in [op : {"none", "init", "read", "write"}, ok : BOOLEAN,
                              data : Data \cup {Blank}]
                 /\ call' \in [op : {"none", "init", "read", "write"}, block : Asked \cup {0},
                               data : Data \cup {Blank}]
      BY <2>1 DEF Return, NoCall, Result
    <2> QED BY <1>5, <2>1 DEF PcReject, PcRead, PcWritten, pcVars
  <1>6. CASE PcStore
    BY <1>6 DEF PcStore
  <1>7. CASE PcHalt
    BY <1>7 DEF PcHalt
  <1>8. ASSUME NEW ro \in BOOLEAN, PcSetRo(ro) PROVE TypeInv'
    BY <1>8 DEF PcSetRo, clientVars
  <1> QED BY <1>1, <1>2, <1>3, <1>4, <1>5, <1>6, <1>7, <1>8 DEF PcNext

\* A return of the SD driver.
LEMMA ReturnTypes ==
  ASSUME TypeInv, NEW ok \in BOOLEAN, NEW data \in Data \cup {Blank}, Return(ok, data)
  PROVE  ClientTypeOK' /\ call'.op = "none" /\ store' = store
  <1>1. /\ call' = NoCall /\ ready' \in BOOLEAN /\ stored' = FALSE /\ store' = store
        /\ ret' = Result(call.op, ok, data)
    BY DEF Return, TypeInv, TypeOK, ClientTypeOK
  <1>2. NoCall.op = "none" /\ call' \in [op : {"none", "init", "read", "write"},
                                        block : Asked \cup {0}, data : Data \cup {Blank}]
    BY <1>1 DEF NoCall
  <1>3. ret' \in [op : {"none", "init", "read", "write"}, ok : BOOLEAN, data : Data \cup {Blank}]
    BY <1>1 DEF Result, TypeInv, TypeOK, ClientTypeOK
  <1> QED BY <1>1, <1>2, <1>3 DEF TypeInv, TypeOK, ClientTypeOK

\* The steps of sd_card_reset.
LEMMA ResetTypes ==
  ASSUME FieldsFit, TypeInv, driver = "sd", driver' = "sd", NEW r,
         \/ Reset(r) \/ CheckVersion(r) \/ CheckEcho \/ AppCommand(r) \/ WaitReady(r)
         \/ SendCsd(r) \/ CsdToken \/ ReadCsd
  PROVE  TypeInv'
  <1>1. drv' \in [card_type : {"NONE", "SC", "HC", "ERROR"}, read_only : BOOLEAN,
                  size : Nat, error : {"none", "NOT_PRESENT"}]
    <2>1. CASE ReadCsd
      <3>1. drv' = [drv EXCEPT !.card_type = CsdType(Csd), !.size = CsdSize(Csd),
                               !.read_only = drv.read_only \/ ProtectBits(Csd)]
        BY <2>1 DEF ReadCsd, TypeInv, TypeOK
      <3> QED BY <3>1, SizeIsNat DEF TypeInv, TypeOK
    <2>2. CASE ~ReadCsd
      <3>1. \/ drv' = drv \/ drv' = [drv EXCEPT !.card_type = "ERROR", !.error = "NOT_PRESENT"]
            \/ drv' = [drv EXCEPT !.card_type = "ERROR"]
            \/ drv' = [drv EXCEPT !.card_type = "SC"] \/ drv' = [drv EXCEPT !.card_type = "HC"]
        BY <2>2 DEF Reset, CheckVersion, CheckEcho, AppCommand, WaitReady, SendCsd, CsdToken
      <3> QED BY <3>1 DEF TypeInv, TypeOK
    <2> QED BY <2>1, <2>2
  <1>2. /\ pc' \in {"idle", "CMD8", "echo", "CMD55", "ACMD41", "CMD9", "csdtoken", "csd"}
        /\ tries' = 0 /\ swaps' = swaps
        /\ card' = card /\ inserted' = inserted /\ listening' = listening
    BY DEF Reset, CheckVersion, CheckEcho, AppCommand, WaitReady, SendCsd, CsdToken, ReadCsd,
           InitReturns, Goto, Keep
  <1>3. \/ Bus \/ \E ok \in BOOLEAN : Return(ok, Blank) /\ sound' = IF ok THEN listening ELSE sound
    BY DEF Reset, CheckVersion, CheckEcho, AppCommand, WaitReady, SendCsd, CsdToken, ReadCsd,
           InitReturns
  <1>4. ClientTypeOK' /\ sound' \in BOOLEAN
    BY <1>3, ReturnTypes DEF Bus, clientVars, TypeInv, TypeOK, ClientTypeOK
  <1>5. (call.op = "write" => call.data \in Data) /\ (call' = call \/ call'.op = "none")
    BY <1>3, ReturnTypes DEF Bus, clientVars, TypeInv
  <1> QED BY <1>1, <1>2, <1>4, <1>5, SlotAssumption
        DEF TypeInv, TypeOK, Labels, Commands, Unbounded, WriteLabels

\* The steps of block_read and block_write, and the polls.
LEMMA TransferTypes ==
  ASSUME TypeInv, driver = "sd", driver' = "sd", NEW r,
         \/ Poll \/ PollOn \/ StartRead(r) \/ StartWrite(r) \/ ReadToken \/ ReadData
         \/ SendData \/ WaitBusy
  PROVE  TypeInv'
  <1>1. CASE Poll \/ PollOn
    BY <1>1, SlotAssumption DEF Poll, PollOn, Bus, Keep, clientVars, sdVars, TypeInv, TypeOK,
       ClientTypeOK, AtCard, Address, ByteAddressed
  <1>2. ASSUME NEW ok \in BOOLEAN, NEW data \in Data \cup {Blank}, Returns(ok, data)
        PROVE  TypeInv'
    <2>1. ClientTypeOK' /\ call'.op = "none" /\ pc' = "idle" /\ tries' = 0
      BY <1>2, ReturnTypes DEF Returns, Goto
    <2> QED BY <1>2, <2>1, SlotAssumption
          DEF Returns, Keep, TypeInv, TypeOK, Labels, WriteLabels
  <1>3. CASE StartRead(r) \/ StartWrite(r)
    <2>1. CASE r # 0
      BY <1>2, <1>3, <2>1 DEF StartRead, StartWrite, Started
    <2>2. CASE r = 0
      <3>1. /\ pc' \in {"readtoken", "senddata"} /\ tries' = 0
            /\ Bus /\ Keep /\ UNCHANGED drv
            /\ pc' = "senddata" => pc = "CMD24"
        BY <1>3, <2>2 DEF StartRead, StartWrite, Started, Goto, Gets
      <3>2. listening => AtCard(call.block) \in DOMAIN store
        BY <1>3, <2>2 DEF StartRead, StartWrite, Started, Gets, Answers, NoAnswer
      <3>3. AtCard(call.block)' = AtCard(call.block) /\ store' = store /\ call' = call
        BY <3>1 DEF AtCard, Address, ByteAddressed, Bus, Keep, clientVars
      <3>4. pc' = "senddata" => call.op = "write"
        BY <3>1 DEF TypeInv, WriteLabels
      <3> QED BY <3>1, <3>2, <3>3, <3>4, SlotAssumption DEF TypeInv, TypeOK, ClientTypeOK, Bus,
            Keep, clientVars, Labels, Unbounded, WriteLabels
    <2> QED BY <2>1, <2>2
  <1>4. CASE ReadToken
    BY <1>4, SlotAssumption DEF ReadToken, Goto, Bus, Keep, clientVars, TypeInv, TypeOK,
       ClientTypeOK, AtCard, Address, ByteAddressed, Labels, Unbounded, WriteLabels
  <1>5. CASE ReadData
    <2>1. (IF listening THEN store[AtCard(call.block)] ELSE Blank) \in Data \cup {Blank}
      BY <1>5 DEF ReadData, TypeInv, TypeOK, ClientTypeOK
    <2> QED BY <1>2, <1>5, <2>1 DEF ReadData
  <1>6. CASE SendData
    <2>1. pc = "senddata" /\ call.op = "write" /\ call.data \in Data
      BY <1>6 DEF SendData, TypeInv, WriteLabels
    <2>2. DOMAIN store' = DOMAIN store /\ \A b \in DOMAIN store' : store'[b] \in Data
      BY <1>6, <2>1 DEF SendData, TypeInv, TypeOK, ClientTypeOK
    <2>3. pc' \in {"busy", "stuckbusy"} /\ tries' = 0 /\ stored' \in BOOLEAN
      BY <1>6 DEF SendData, Goto, TypeInv, TypeOK, ClientTypeOK
    <2> QED BY <1>6, <2>1, <2>2, <2>3, SlotAssumption
          DEF SendData, Keep, TypeInv, TypeOK, ClientTypeOK, Labels, Unbounded, WriteLabels
  <1>7. CASE WaitBusy
    BY <1>2, <1>7 DEF WaitBusy
  <1> QED BY <1>1, <1>3, <1>4, <1>5, <1>6, <1>7

\* A caller begins a call; the card is taken out, or another is put in.
LEMMA CallerTypes ==
  ASSUME TypeInv, driver = "sd", driver' = "sd", SdCaller \/ SdSlot
  PROVE  TypeInv'
  <1>1. CASE SdCaller
    <2>1. PICK op \in {"init", "read", "write"}, b \in Asked \cup {0}, d \in Data \cup {Blank} :
            /\ Begin(op, b, d) /\ (op = "write" => d \in Data)
            /\ Goto(IF op = "init" THEN "CMD0" ELSE IF op = "read" THEN "CMD17" ELSE "CMD24")
            /\ UNCHANGED <<swaps, drv, card, inserted, sound>>
            /\ listening' = IF op = "init" THEN inserted ELSE listening
      BY <1>1 DEF SdCaller, BeginInit, BeginRead, BeginWrite, Keep
    <2>2. call' = [op |-> op, block |-> b, data |-> d] /\ stored' = FALSE
          /\ UNCHANGED <<store, ret, ready>>
      BY <2>1 DEF Begin
    <2>3. pc' \in {"CMD0", "CMD17", "CMD24"} /\ tries' = 0 /\ (pc' = "CMD24" => op = "write")
      BY <2>1 DEF Goto
    <2>4. ClientTypeOK' /\ (call'.op = "write" => call'.data \in Data)
      BY <2>1, <2>2 DEF TypeInv, TypeOK, ClientTypeOK
    <2>5. pc' \in Labels /\ tries' \in 0 .. Retries /\ (pc' \in WriteLabels => call'.op = "write")
      BY <2>2, <2>3, SlotAssumption DEF Labels, Commands, WriteLabels
    <2>6. /\ UNCHANGED <<swaps, drv, card, inserted, sound>>
          /\ listening' \in BOOLEAN /\ (listening' => inserted')
      BY <2>1 DEF TypeInv, TypeOK
    <2> QED BY <2>3, <2>4, <2>5, <2>6 DEF TypeInv, TypeOK
  <1>2. CASE Eject
    <2>1. inserted' = FALSE /\ listening' = FALSE /\ sound' = FALSE /\ UNCHANGED <<pc, tries, drv, card, swaps, call>>
      BY <1>2 DEF Eject, clientVars
    <2>2. ClientTypeOK'
      BY <1>2 DEF Eject, clientVars, TypeInv, TypeOK, ClientTypeOK
    <2> QED BY <2>1, <2>2 DEF TypeInv, TypeOK
  <1>3. ASSUME NEW c \in Cards, Insert(c) PROVE TypeInv'
    <2>1. DOMAIN store' \subseteq 0 .. Word - 1 /\ \A b \in DOMAIN store' : store'[b] \in Data
      BY <1>3, ReachedBlocks DEF Insert
    <2>2. swaps' \in 0 .. MaxSwaps
      BY <1>3, SlotAssumption DEF Insert, TypeInv, TypeOK
    <2>3. /\ ~inserted /\ card' = c /\ inserted' = TRUE
          /\ UNCHANGED <<call, ret, stored, ready, pc, tries, drv, listening, sound>>
      BY <1>3 DEF Insert
    <2>4. ClientTypeOK'
      BY <2>1, <2>3 DEF TypeInv, TypeOK, ClientTypeOK
    <2> QED BY <2>2, <2>3, <2>4 DEF TypeInv, TypeOK, WriteLabels
  <1> QED BY <1>1, <1>2, <1>3 DEF SdSlot

\* Every step of a program with either driver.
LEMMA NextTypes ==
  ASSUME FieldsFit, TypeInv, [Next]_vars
  PROVE  TypeInv'
  <1>1. CASE driver = "sd" /\ SdNext /\ UNCHANGED <<pcVars, driver>>
    BY <1>1, ResetTypes, TransferTypes, CallerTypes DEF SdNext, SdDriver
  <1>2. CASE driver = "pc" /\ PcNext /\ UNCHANGED <<sdVars, driver>>
    BY <1>2, PcKeepsTypes
  <1>3. CASE UNCHANGED vars
    BY <1>3 DEF vars, clientVars, sdVars, pcVars, TypeInv, TypeOK, ClientTypeOK, AtCard, Address,
                ByteAddressed
  <1> QED BY <1>1, <1>2, <1>3 DEF Next

\* Whatever cards are put in and images are found, the drivers' variables, the
\* medium's blocks and the results have their types: a driver never returns or
\* stores what is no block, and a card's number of blocks is a number.
THEOREM DriverTypes == ASSUME FieldsFit PROVE Spec => []TypeOK
  <1>1. TypeInv /\ [Next]_vars => TypeInv'
    BY NextTypes
  <1>2. TypeInv => TypeOK
    BY DEF TypeInv
  <1> QED BY InitTypes, <1>1, <1>2, PTL DEF Spec
=============================================================================
