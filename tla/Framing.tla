------------------------------- MODULE Framing --------------------------------
(***************************************************************************)
(* The frames of the newserial protocol as its Python readers see them: a  *)
(* length of two bytes, the payload, and the payload's CRC-32, all read    *)
(* from a buffer of bytes that may begin anywhere in the stream.           *)
(*                                                                         *)
(* Crc maps the payloads of the requests that are sent to the four bytes   *)
(* of their real CRC-32.  Any other payload is taken not to be followed by *)
(* its CRC: that happens by accident once in 2^32 times.                   *)
(***************************************************************************)
EXTENDS Naturals, Sequences

CONSTANT Crc

Byte == 0 .. 255

ASSUME CrcAssumption ==
  \A p \in DOMAIN Crc : /\ p \in Seq(Byte) /\ 1 <= Len(p) /\ Len(p) <= 1024
                        /\ Crc[p] \in Seq(Byte) /\ Len(Crc[p]) = 4

MaxSize == 1024

(* No payload: a frame's payload is never empty.                           *)
None == << >>

Frame(p) == <<Len(p) \div 256, Len(p) % 256>> \o p \o Crc[p]

Size(b)   == 256 * b[1] + b[2]
Needed(b) == 2 + Size(b) + 4

Payload(b) == SubSeq(b, 3, 2 + Size(b))

Drop(b, n) == SubSeq(b, n + 1, Len(b))

CrcMatches(b) ==
  /\ Payload(b) \in DOMAIN Crc
  /\ SubSeq(b, 3 + Size(b), Needed(b)) = Crc[Payload(b)]

Parsed(request, rest) == [request |-> request, rest |-> rest]

(* The byte F asks for the version; it is sent without a frame.            *)
Version == <<70>>

Bytes(request) == IF request = Version THEN Version ELSE Frame(request)

First(b) == IF b = << >> THEN << >> ELSE <<Head(b)>>

(* The bytes of requests sent one after the other.                         *)
Stream(requests) ==
  LET from[i \in 1 .. Len(requests) + 1] ==
        IF i > Len(requests) THEN << >> ELSE Bytes(requests[i]) \o from[i + 1]
  IN from[1]

------------------------------------------------------------------------------
(* Faulty variants of ParseFramed: the size is not checked; a frame with a *)
(* wrong CRC is not dropped.                                               *)
TrustSize(b) ==
  IF Len(b) < 2 \/ Len(b) < Needed(b) THEN Parsed(None, b)
  ELSE Parsed(IF CrcMatches(b) THEN Payload(b) ELSE None, Drop(b, Needed(b)))

KeepBadFrame(b) ==
  IF Len(b) < 2 THEN Parsed(None, b)
  ELSE IF Size(b) \notin 1 .. MaxSize THEN Parsed(None, Tail(b))
  ELSE IF Len(b) >= Needed(b) /\ CrcMatches(b)
         THEN Parsed(Payload(b), Drop(b, Needed(b)))
  ELSE Parsed(None, b)

------------------------------------------------------------------------------
(* parse_framed_request: what is taken from the buffer, and what it leaves. *)
(* A size that cannot be costs one byte, a wrong CRC the whole frame; the  *)
(* cases are tried in this order.                                          *)
ParseFramed(b) ==
  IF Len(b) < 2 THEN Parsed(None, b)
  ELSE IF Size(b) \notin 1 .. MaxSize THEN Parsed(None, Tail(b))
  ELSE IF Len(b) < Needed(b) THEN Parsed(None, b)
  ELSE Parsed(IF CrcMatches(b) THEN Payload(b) ELSE None, Drop(b, Needed(b)))
===============================================================================
