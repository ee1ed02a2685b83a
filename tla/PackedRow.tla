----------------------------- MODULE PackedRow -----------------------------
(***************************************************************************)
(* The packed fp8 row of a token (fp8kv_k3/layout.py) and how the decode   *)
(* kernel reads it: the writer places fields by byte offset, the kernel    *)
(* addresses the same buffer through a uint8, a float32 and a uint16 view. *)
(* A value is identified with the bytes that hold it.  The decode of a     *)
(* latent's byte is followed bit by bit, in units of 2^-16, but its sign.  *)
(***************************************************************************)
EXTENDS SplitDecode

CONSTANTS
  Nope,          \* NOPE, latents of a row
  Rope,          \* ROPE, rotary values of a row
  Tile,          \* TILE, latents that share a scale
  ScaleByteOff,  \* SCALE_BYTE_OFF
  RopeByteOff,   \* ROPE_BYTE_OFF
  RowBytes,      \* ROW_BYTES
  IntHalf,       \* 2^31 on the device: int32 counts from -IntHalf
  LongHalf       \* 2^63 on the device: int64 counts from -LongHalf

NTiles == Nope \div Tile

ASSUME PackedRowAssumption ==
  /\ Nope \in Nat \ {0} /\ Rope \in Nat \ {0} /\ Tile \in Nat \ {0}
  /\ Nope % Tile = 0
  /\ ScaleByteOff \in Nat /\ ScaleByteOff % 4 = 0 /\ ScaleByteOff >= Nope
  /\ RopeByteOff \in Nat /\ RopeByteOff % 2 = 0
  /\ RopeByteOff >= ScaleByteOff + 4 * NTiles
  /\ RowBytes \in Nat /\ RowBytes % 4 = 0 /\ RowBytes >= RopeByteOff + 2 * Rope
  /\ IntHalf \in Nat \ {0} /\ LongHalf \in Nat /\ LongHalf >= IntHalf
  \* The cache is one allocation: int64 reaches every byte of it.
  /\ \A s \in Seqs : \A i \in 1..Len(Pages[s]) :
       (Pages[s][i] * PageSize + PageSize) * RowBytes <= LongHalf

Latents == 0..(Nope - 1)
Tiles == 0..(NTiles - 1)
Rotary == 0..(Rope - 1)

----------------------------------------------------------------------------
(* The writer: byte ranges inside the row of token tok. *)

Bytes(first, size) == first..(first + size - 1)

LatentBytes(tok, d) == Bytes(tok * RowBytes + d, 1)

ScaleBytes(tok, t) == Bytes(tok * RowBytes + ScaleByteOff + 4 * t, 4)

RotaryBytes(tok, j) == Bytes(tok * RowBytes + RopeByteOff + 2 * j, 2)

\* nope.reshape(n, N_TILES, TILE)
TileOf(d) == d \div Tile

----------------------------------------------------------------------------
(* The kernel: element addresses in its three views. *)

\* n as a two's complement integer counting from -half.
Wrapped(n, half) == ((n + half) % (2 * half)) - half

\* The address arithmetic with the page number as the block table holds it.
InInt32(n) == Wrapped(n, IntHalf)

\* kv_page_number.to(tl.int64): every address computed from it is 64 bits wide.
Address(n) == Wrapped(n, LongHalf)

RowF32 == RowBytes \div 4
RowU16 == RowBytes \div 2

ScaleF32Off == ScaleByteOff \div 4

OffByElement == RopeByteOff \div 4

RopeU16Off == RopeByteOff \div 2

\* The bytes element number n covers in a view of elements of the given size.
Element(size, n) == Bytes(size * n, size)

LatentRead(tok, d) == Element(1, Address(tok * RowBytes + d))

ScaleRead(tok, d) == Element(4, Address(tok * RowF32 + ScaleF32Off + d \div Tile))

RotaryRead(tok, j) == Element(2, Address(tok * RowU16 + RopeU16Off + j))

----------------------------------------------------------------------------
(* dequant.py: fp8e4m3fn to fp16. *)

AllBytes == 0..255

Low(b) == b % 128

\* (b & 0x7F) << 7, and a shift that keeps the fp8 exponent bias in place
ShiftedShort(b) == Low(b) * 64

HalfBits(b) == Low(b) * 128

\* The magnitude of an fp16 given by its 15 low bits, times 256.
Half256(bits) ==
  LET e == bits \div 1024
      m == bits % 1024
  IN  IF e = 0 THEN m ELSE (1024 + m) * 2 ^ (e - 1)

Nan == -1

\* dequant_bitmath: magnitude in units of 2^-16.
Dequant(b) == IF Low(b) = 127 THEN Nan ELSE Half256(HalfBits(b))

\* The lookup table, built with torch's cast: the definition of fp8e4m3fn, with
\* four bits of exponent (bias 7), three of mantissa, denormals and no infinity.
Lut(b) ==
  LET e == Low(b) \div 8
      m == Low(b) % 8
  IN  IF Low(b) = 127 THEN Nan
      ELSE 128 * (IF e = 0 THEN m ELSE (8 + m) * 2 ^ (e - 1))

\* What fp16 can hold: eleven significant bits, not above 65504.
Representable(v) ==
  v \div 65536 < 65504 /\ \E k \in 0..20 : v % 2 ^ k = 0 /\ v \div 2 ^ k < 2048

----------------------------------------------------------------------------

\* Every field the kernel loads for token tok is the field the writer stored
\* there, the scale being the one of the latent's own tile.
ReadsWhatWasWritten(tok) ==
  /\ \A d \in Latents : /\ LatentRead(tok, d) = LatentBytes(tok, d)
                        /\ ScaleRead(tok, d) = ScaleBytes(tok, TileOf(d))
  /\ \A j \in Rotary : RotaryRead(tok, j) = RotaryBytes(tok, j)

\* No two kinds of field of a row share a byte and none leaves its row, so a
\* token written next to another never changes it.
FieldsApart(tok) ==
  LET row == Bytes(tok * RowBytes, RowBytes)
      latents == UNION {LatentBytes(tok, d) : d \in Latents}
      scales == UNION {ScaleBytes(tok, t) : t \in Tiles}
      rotary == UNION {RotaryBytes(tok, j) : j \in Rotary}
  IN  /\ latents \cap scales = {} /\ scales \cap rotary = {} /\ latents \cap rotary = {}
      /\ latents \subseteq row /\ scales \subseteq row /\ rotary \subseteq row

\* The slots of a launch: the pages of its sequences up to their lengths.
Attended ==
  UNION {{Pages[s][n \div PageSize + 1] * PageSize + (n % PageSize) : n \in 0..(lens[s] - 1)} :
           s \in Seqs}

\* Whatever batch a launch on the packed cache is given, at every slot of its
\* sequences the kernel's three views agree with the writer's offsets, and no
\* field lies on another.
RowLayout ==
  [][launch' # launch /\ dtype = "fp8_ds_mla" =>
       \A tok \in Attended' : ReadsWhatWasWritten(tok) /\ FieldsApart(tok)]_vars

\* "bit-exact over all 256 byte values, including denormals and both NaN
\* encodings": whatever the latents of those slots hold, the bit-math decode is
\* the table, and the multiplication by 256 it rests on is exact in fp16.
DecodeExact ==
  [][launch' # launch /\ dtype = "fp8_ds_mla" =>
       \A b \in AllBytes : /\ Dequant(b) = Lut(b)
                           /\ Dequant(b) # Nan => Representable(Dequant(b))]_vars
=============================================================================
