------------------------------- MODULE Packing --------------------------------
(***************************************************************************)
(* Values of tags and their bytes: pack.Pack and pack.Unpack, which make a *)
(* binary image of a schema and read it back, and the second codec,        *)
(* decode.DecodeRaw and EncodeRaw, with which serve and the simulator's    *)
(* sink read and write the same bytes in a PLC.                            *)
(* (internal/pack/pack.go, internal/decode/decode.go, internal/sim/sink.go *)
(* and image.go)                                                           *)
(*                                                                         *)
(* A value is [kind, num, text].  Kind "text" is a string, its characters  *)
(* as codes; "float" is a REAL that is no whole number of Float32, its     *)
(* bytes as text; "wide" is a number of 2^31 and above, its four bytes as  *)
(* text, for TLC's integers have 32 bits.  Schemas are those of Layout.    *)
(***************************************************************************)
EXTENDS Layout

CONSTANTS
  Float32,   \* math.Float32bits: four bytes of each whole number in use
  Reparsed,  \* the REALs whose decimal is read back as another: bytes of both
  Truths     \* the texts strconv.ParseBool takes for true
ASSUME Float32Assumption ==
  /\ DOMAIN Float32 \subseteq Int
  /\ Float32 \in [DOMAIN Float32 -> [1 .. 4 -> 0 .. 255]]
  /\ \A n, m \in DOMAIN Float32 : Float32[n] = Float32[m] => n = m
  /\ 0 \in DOMAIN Float32
ASSUME ReparsedAssumption ==
  /\ DOMAIN Reparsed \subseteq [1 .. 4 -> 0 .. 255]
  /\ Reparsed \in [DOMAIN Reparsed -> [1 .. 4 -> 0 .. 255]]

ValueType ==
  {v \in [kind : {"nil", "number", "bool", "text", "float", "wide"}, num : Int, text : Seq(0 .. 255)] :
     v.kind \in {"float", "wide"} => v.text \in [1 .. 4 -> 0 .. 255]}

Value(k, n, x) == [kind |-> k, num |-> n, text |-> x]
Nil == Value("nil", 0, <<>>)
Number(n) == Value("number", n, <<>>)
Bool(b) == Value("bool", IF b THEN 1 ELSE 0, <<>>)
Text(x) == Value("text", 0, x)

NegativeZero == <<128, 0, 0, 0>>   \* a "float"

Reversed(x) == [i \in 1 .. Len(x) |-> x[Len(x) + 1 - i]]
Ordered(x, endian) == IF endian = "little" THEN Reversed(x) ELSE x
EndianKnown(s) == s.endian \in {"big", "little"}

(* Mutated forms of definitions below, named for the slip each makes.        *)
SintUnsigned == {"INT", "DINT"}
LengthFromCapacity(raw, max) == SubSeq(raw, 3, 2 + max)

----------------------------------------------------------------------------
(* Texts and numbers *)

IsNumeral(x) ==
  LET digits == IF x # <<>> /\ Head(x) = 45 THEN Tail(x) ELSE x
  IN  digits # <<>> /\ \A i \in 1 .. Len(digits) : digits[i] \in 48 .. 57

NumeralOf(x) ==
  LET n[i \in 0 .. Len(x)] ==
        IF i = 0 THEN 0 ELSE IF x[i] = 45 THEN n[i - 1] ELSE 10 * n[i - 1] + x[i] - 48
  IN  IF Head(x) = 45 THEN - n[Len(x)] ELSE n[Len(x)]

Printed(n) ==
  LET size == IF n < 0 THEN - n ELSE n
      d[k \in 0 .. size] == IF k < 10 THEN <<48 + k>> ELSE Append(d[k \div 10], 48 + (k % 10))
  IN  IF n < 0 THEN <<45>> \o d[size] ELSE d[size]

(* asInt64 and asUint64: what they take, and the low n bytes of the result.  *)
(* (A float they would truncate: no schema here has one for an integer tag.) *)
TakenAsInt(v) ==
  \/ v.kind \in {"nil", "number", "wide"}
  \/ v.kind = "text" /\ IsNumeral(v.text)
TakenAsUint(v) == TakenAsInt(v) /\ (v.kind = "text" => Head(v.text) # 45)
IntOf(v) == IF v.kind = "text" THEN NumeralOf(v.text) ELSE v.num

Byte(n, i) == (n \div <<1, 256, 65536, 16777216>>[i + 1]) % 256
IntBytes(v, n) ==
  IF v.kind = "wide" THEN SubSeq(v.text, 5 - n, 4)
  ELSE [i \in 1 .. n |-> Byte(IntOf(v), n - i)]

(* asBool *)
Falses == {<<48>>, <<102>>, <<70>>, <<102, 97, 108, 115, 101>>}
TakenAsBool(v) == v.kind = "text" => v.text \in Truths \cup Falses
IsTrue(v) == IF v.kind = "text" THEN v.text \in Truths
             ELSE v.num # 0 \/ v.kind = "wide" \/ (v.kind = "float" /\ v.text # NegativeZero)

(* asFloat64, in which a text may be a negative zero.                        *)
TakenAsFloat(v) ==
  \/ v.kind = "float"
  \/ TakenAsInt(v) /\ v.kind # "wide" /\ IntOf(v) \in DOMAIN Float32
FloatBytes(v) ==
  IF v.kind = "float" THEN v.text
  ELSE IF v.kind = "text" /\ Head(v.text) = 45 /\ IntOf(v) = 0 THEN NegativeZero
  ELSE Float32[IntOf(v)]

(* asString *)
AsText(v) ==
  CASE v.kind = "number" -> Printed(v.num)
    [] v.kind = "bool" -> IF v.num = 1 THEN <<116, 114, 117, 101>> ELSE <<102, 97, 108, 115, 101>>
    [] OTHER -> v.text

Padded(x, n) == x \o [i \in 1 .. n - Len(x) |-> 0]

----------------------------------------------------------------------------
(* encodeValue and decodeValue *)

Encodes(t, v) ==
  CASE t.type.name \in {"SINT", "INT", "DINT", "TIME"} -> TakenAsInt(v)
    [] t.type.name \in {"BYTE", "CHAR", "USINT", "UINT", "WORD", "UDINT", "DWORD"} -> TakenAsUint(v)
    [] t.type.name = "REAL" -> TakenAsFloat(v)
    [] OTHER -> Len(AsText(v)) <= StringLen(t)

Encoded(t, v, endian) ==
  CASE t.type.name = "REAL" -> Ordered(FloatBytes(v), endian)
    [] t.type.name \in StringTypes ->
         Padded(<<StringLen(t), Len(AsText(v))>> \o AsText(v), SizeBytes(t))
    [] OTHER -> Ordered(IntBytes(v, SizeBytes(t)), endian)

(* The number of bytes, the first the highest.                               *)
NumberOf(x, signed) ==
  LET negative == signed /\ x[1] > 127
      n[i \in 0 .. Len(x)] ==
        IF i = 0 THEN IF negative THEN -1 ELSE 0 ELSE 256 * n[i - 1] + x[i]
  IN  IF Len(x) = 4 /\ x[1] > 127 /\ ~signed THEN Value("wide", 0, x) ELSE Number(n[Len(x)])

RealOf(x) ==
  IF \E n \in DOMAIN Float32 : Float32[n] = x
    THEN Number(CHOOSE n \in DOMAIN Float32 : Float32[n] = x)
    ELSE Value("float", 0, x)

StringOf(raw, max) ==
  SubSeq(raw, 3, 2 + Min({raw[2], raw[1], max, Len(raw) - 2}))

SignedTypes == {"SINT", "INT", "DINT", "TIME"}
Decoded(t, raw, endian) ==
  CASE t.type.name = "REAL" -> RealOf(Ordered(raw, endian))
    [] t.type.name \in StringTypes -> Text(StringOf(raw, Len(raw) - 2))
    [] OTHER -> NumberOf(Ordered(raw, endian), t.type.name \in SignedTypes)

----------------------------------------------------------------------------
(* Pack and Unpack *)

(* A mask of a bit above 7 is no bit of a byte.                              *)
Mask(k) == <<1, 2, 4, 8, 16, 32, 64, 128>>[k + 1]
BitIs(byte, k) == k \in 0 .. 7 /\ (byte \div Mask(k)) % 2 = 1
WithBit(byte, k, v) ==
  IF k \notin 0 .. 7 \/ BitIs(byte, k) = (v = 1) THEN byte
  ELSE IF v = 1 THEN byte + Mask(k) ELSE byte - Mask(k)

ByteOffset(s, t) == TagStart(s, t) \div 8
BitOf(s, t) == Parsed(t.addr, s.db).bit

Put(s, image, t) ==
  LET at == ByteOffset(s, t)
      put == Encoded(t, t.init, s.endian)
  IN  IF t.type.name = "BOOL"
        THEN [image EXCEPT ![at + 1] = WithBit(@, BitOf(s, t), IF IsTrue(t.init) THEN 1 ELSE 0)]
        ELSE [i \in 1 .. Len(image) |-> IF i - at \in 1 .. Len(put) THEN put[i - at] ELSE image[i]]

Packs(s, strict) ==
  /\ Builds(s, strict)
  /\ EndianKnown(s)
  /\ \A t \in TagsOf(s) :
       IF t.type.name = "BOOL" THEN TakenAsBool(t.init)
       ELSE Encodes(t, t.init) /\ ByteOffset(s, t) + SizeBytes(t) <= FinalSize(s)

Packed(s, fill, pad) ==
  LET put[n \in 0 .. Len(s.tags)] ==
        IF n = 0 THEN [i \in 1 .. FinalSize(s) |-> fill] ELSE Put(s, put[n - 1], s.tags[n])
      size == IF pad = 0 THEN FinalSize(s) ELSE ((FinalSize(s) + pad - 1) \div pad) * pad
  IN  put[Len(s.tags)] \o [i \in 1 .. size - FinalSize(s) |-> fill]

Slice(s, t, data) == SubSeq(data, ByteOffset(s, t) + 1, ByteOffset(s, t) + SizeBytes(t))

UnpackedInit(s, t, data) ==
  LET at == ByteOffset(s, t)
  IN  IF t.type.name = "BOOL" THEN Bool(at < Len(data) /\ BitIs(data[at + 1], BitOf(s, t)))
      ELSE IF at + SizeBytes(t) > Len(data) THEN Nil
      ELSE Decoded(t, Slice(s, t, data), s.endian)

(* What unpack makes of a REAL is a float32.  It is saved as the shortest    *)
(* decimal that tells it from other float32s, which is read as a float64 and *)
(* packed as the float32 next to that: for a few, 7.038531e-26 is one,       *)
(* another than the first.                                                   *)
Decimal(v) ==
  IF v.kind = "float" /\ v.text \in DOMAIN Reparsed THEN [v EXCEPT !.text = Reparsed[v.text]] ELSE v

Unpacks(s) == EndianKnown(s) /\ Builds(s, FALSE)

Unpacked(s, data) ==
  [s EXCEPT !.size = Len(data),
            !.tags = [i \in 1 .. Len(s.tags) |->
                        [s.tags[i] EXCEPT !.init = Decimal(UnpackedInit(s, s.tags[i], data))]]]

----------------------------------------------------------------------------
(* decode.go: the readings of serve and of the simulator's sink.             *)

DecodesSigned == {"SINT", "INT", "DINT"}

DecodedRaw(t, raw, endian) ==
  CASE t.type.name = "REAL" -> RealOf(Ordered(raw, endian))
    [] t.type.name \in StringTypes -> Text(StringOf(raw, StringLen(t)))
    [] OTHER -> NumberOf(Ordered(raw, endian), t.type.name \in DecodesSigned)

(* Pull: DecodeRaw gives BYTE, USINT and CHAR as uint8, which Image.Set      *)
(* refuses; Push: EncodeRaw.  A TIME goes through milliseconds.              *)
Pulled(t) == t.type.name \notin {"BYTE", "USINT", "CHAR"}
PushedRaw(t, v, endian) ==
  CASE t.type.name = "REAL" -> Ordered(FloatBytes(v), endian)
    [] t.type.name \in StringTypes ->
         Padded(<<StringLen(t), Len(v.text)>> \o v.text, SizeBytes(t))
    [] OTHER -> Ordered(IntBytes(v, SizeBytes(t)), endian)
==============================================================================
