----------------------------- MODULE OutpcFrames -----------------------------
(***************************************************************************)
(* The data the daemon serves: OUTPC frames, the block of bytes that one   *)
(* answer of the ECU carries, and the fields that the INI file lays out in *)
(* it.  A frame is a sequence of bytes, a field an offset and a size.  The *)
(* scale and translate that turn raw bytes into a user value are the same  *)
(* for every frame, so the value of a field is kept as its bytes.          *)
(***************************************************************************)
EXTENDS Naturals, Sequences

CONSTANTS
  Byte,    (* the values of a byte                                         *)
  Frames,  (* the payloads (flag byte removed) the ECU can answer with     *)
  Names,   (* the names a client may ask for                               *)
  Fields,  (* those of them that the INI file defines                      *)
  Layout,  (* the place of each field in a frame                           *)
  Requests (* the lists of names clients ask for in one call               *)

ASSUME ByteAssumption == 0 \in Byte
ASSUME FramesAssumption == Frames \subseteq Seq(Byte)
ASSUME FieldsAssumption == Fields \subseteq Names
ASSUME LayoutAssumption ==
  Layout \in [Fields -> [offset : Nat, size : Nat \ {0}]]
ASSUME RequestsAssumption == Requests \subseteq Seq(Names)

NoFrame == << >>

(***************************************************************************)
(* ms2d_decode_field on the first outpc_len bytes of the buffer.  Without  *)
(* a frame the answer is 0.0, which no scaling touches (no bytes here); a  *)
(* field that ends beyond the frame has raw value 0, scaled like any       *)
(* other.                                                                  *)
(***************************************************************************)
Value(bytes, x) ==
  LET offset == Layout[x].offset
      size   == Layout[x].size
  IN  IF bytes = NoFrame
        THEN << >>
        ELSE [i \in 1 .. size |->
                IF offset + size <= Len(bytes) THEN bytes[offset + i] ELSE 0]
==============================================================================
