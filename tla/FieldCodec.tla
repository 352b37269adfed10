------------------------------ MODULE FieldCodec -------------------------------
(***************************************************************************)
(* How the simulators put a value into the bytes of OUTPC, and how the     *)
(* readers take it out again.                                              *)
(*                                                                         *)
(* A value is a number of tenths, and so is the translation of a field.    *)
(* The scale of a field is the fraction num / den.  Fields of four bytes   *)
(* are left out: the numbers of TLC end there.                             *)
(***************************************************************************)
EXTENDS Integers, Sequences

Size(f) == IF f.type \in {"U08", "S08"} THEN 1 ELSE 2

Lo(f) == CASE f.type = "S08" -> -128 [] f.type = "S16" -> -32768 [] OTHER -> 0
Hi(f) == CASE f.type = "U08" -> 255 [] f.type = "S08" -> 127
           [] f.type = "S16" -> 32767 [] OTHER -> 65535

Clamp(f, raw) == IF raw < Lo(f) THEN Lo(f) ELSE IF raw > Hi(f) THEN Hi(f) ELSE raw

(* int(a / b): towards zero.                                               *)
Quotient(a, b) == IF a >= 0 THEN a \div b ELSE -((-a) \div b)

(* A faulty variant: the sign is left in the first byte.                   *)
BytesSigned(f, raw) == IF Size(f) = 1 THEN <<raw % 256>> ELSE <<raw \div 256, raw % 256>>

(* A byte of raw in two's complement, the most significant one first.      *)
Bytes(f, raw) == IF Size(f) = 1 THEN <<raw % 256>> ELSE <<(raw \div 256) % 256, raw % 256>>

Swapped(bytes) == IF Len(bytes) = 2 THEN <<bytes[2], bytes[1]>> ELSE bytes

InBlock(f, buffer) == f.offset + Size(f) <= Len(buffer)

Apart(f, g) == f.offset + Size(f) <= g.offset \/ g.offset + Size(g) <= f.offset

Pack(buffer, f, bytes) ==
  [i \in DOMAIN buffer |-> IF i - f.offset \in DOMAIN bytes THEN bytes[i - f.offset] ELSE buffer[i]]

At(buffer, f) == SubSeq(buffer, f.offset + 1, f.offset + Size(f))

Number(f, bytes) ==
  LET n == IF Size(f) = 1 THEN bytes[1] ELSE 256 * bytes[1] + bytes[2]
  IN IF n > Hi(f) THEN n - (IF Size(f) = 1 THEN 256 ELSE 65536) ELSE n

------------------------------------------------------------------------------
(* A faulty variant: no clamping, a number that does not fit wraps round.  *)
EcuEncodeWrapping(buffer, f, v) ==
  IF ~InBlock(f, buffer) THEN buffer
  ELSE Pack(buffer, f, Bytes(f, Quotient((v - f.translate) * f.den, 10 * f.num)))

(* ecuSim: (value - translate) / scale, big-endian.                        *)
EcuEncode(buffer, f, v) ==
  IF ~InBlock(f, buffer) \/ (f.kind = "bits" /\ f.width = 0) THEN buffer
  ELSE LET raw == IF f.num # 0 THEN Quotient((v - f.translate) * f.den, 10 * f.num)
                               ELSE Quotient(v, 10)
       IN Pack(buffer, f, Bytes(f, Clamp(f, raw)))

(* A faulty variant: the most significant byte first.                      *)
OldEncodeBigEndian(buffer, f, v) ==
  IF ~InBlock(f, buffer) THEN buffer
  ELSE LET raw == IF f.num # 0 THEN Quotient(v * f.den - f.translate * f.num, 10 * f.num)
                               ELSE Quotient(v, 10)
       IN Pack(buffer, f, Bytes(f, Clamp(f, raw)))

(* The older simulator: value / scale - translate, little-endian.          *)
OldEncode(buffer, f, v) ==
  IF ~InBlock(f, buffer) THEN buffer
  ELSE LET raw == IF f.num # 0 THEN Quotient(v * f.den - f.translate * f.num, 10 * f.num)
                               ELSE Quotient(v, 10)
       IN Pack(buffer, f, Swapped(Bytes(f, Clamp(f, raw))))

------------------------------------------------------------------------------
(* The number a reader finds in a field, before scaling, and 0 for a field *)
(* that is not in the block.                                               *)

(* A faulty variant: the bits are counted from one.                        *)
DashRawFromOne(buffer, f) ==
  IF ~InBlock(f, buffer) THEN 0
  ELSE LET n == Number(f, Swapped(At(buffer, f)))
       IN IF f.kind = "bits" /\ f.width > 0 THEN (n \div 2 ^ (f.low + 1)) % 2 ^ f.width ELSE n

DashRaw(buffer, f) ==
  IF ~InBlock(f, buffer) THEN 0
  ELSE LET n == Number(f, Swapped(At(buffer, f)))
       IN IF f.kind = "bits" /\ f.width > 0 THEN (n \div 2 ^ f.low) % 2 ^ f.width ELSE n

InspectRaw(buffer, f) ==
  IF ~InBlock(f, buffer) THEN 0 ELSE Number(f, Swapped(At(buffer, f)))

(* The daemon answers a field of bits with the signed number of the four   *)
(* bytes at its offset, and others with their own bytes, big-endian.       *)
DaemonRaw(buffer, f) ==
  IF f.kind = "bits"
    THEN IF f.offset + 4 > Len(buffer) THEN 0
         ELSE LET b(i) == buffer[f.offset + i]
              IN (IF b(1) > 127 THEN b(1) - 256 ELSE b(1)) * 2 ^ 24 + b(2) * 65536 + b(3) * 256 + b(4)
    ELSE IF ~InBlock(f, buffer) THEN 0 ELSE Number(f, At(buffer, f))

(* Less than one step of the field away, or as near as the field gets.     *)
Near(f, raw, distance) == \/ -10 * f.num < distance /\ distance < 10 * f.num
                          \/ raw = Hi(f) /\ distance <= 0
                          \/ raw = Lo(f) /\ distance >= 0

(* Every reader shows (raw + translate) * scale.                           *)
Distance(f, raw, v) == (10 * raw + f.translate) * f.num - v * f.den

(* It shows v; or v and the translation times the scale less one, as a     *)
(* reader does that scales a translation which the encoder has not scaled. *)
Shows(f, raw, v)        == Near(f, raw, Distance(f, raw, v))
ShowsShifted(f, raw, v) == Near(f, raw, Distance(f, raw, v) - f.translate * (f.num - f.den))
===============================================================================
