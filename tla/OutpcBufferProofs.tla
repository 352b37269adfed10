-------------------------- MODULE OutpcBufferProofs --------------------------
(***************************************************************************)
(* Proofs about OutpcBuffer, for any frames, fields, requests and heap.    *)
(*                                                                         *)
(* The argument: the mutex keeps the two critical sections apart           *)
(* (Exclusion); outside the worker's copy the first len bytes of the block *)
(* are those of the frame published last (Storage, Contents); hence, while *)
(* the reader is inside, every field it decodes has its value in that      *)
(* frame, and the frame does not change under it (Reading).                *)
(***************************************************************************)
EXTENDS OutpcBuffer, SequenceTheorems, TLAPS

WorkerInside == wpc \in {"fit", "copy", "unlock", "rerelease"}
ReaderInside == mpc \in {"find", "load", "extract", "unlock"}

Exclusion == /\ WorkerInside <=> mutex = "worker"
             /\ ReaderInside <=> mutex = "main"

Storage == /\ blk = Null => size = 0 /\ len = 0
           /\ Len(mem) = size
           /\ len <= size
           /\ wpc = "copy" => /\ blk # Null
                              /\ copied <= Len(frame)
                              /\ Len(frame) <= size
                              /\ \A i \in 1 .. copied : mem[i] = frame[i]

Contents == /\ wpc # "poll" => frame \in Frames
            /\ published \in Frames \cup {NoFrame}
            /\ len = Len(published)
            /\ wpc # "copy" => \A i \in 1 .. len : mem[i] = published[i]

Decoded == /\ Len(values) <= Len(request)
           /\ \A k \in 1 .. Len(values) :
                request[k] \in Fields /\ values[k] = Value(published, request[k])

Reading ==
  /\ mpc # "idle" => request \in Requests
  /\ mpc \in {"lock", "find", "load", "extract"} => ~ ok
  /\ mpc = "lock" => values = << >>
  /\ mpc \in {"find", "load", "extract"} => Decoded
  /\ mpc \in {"load", "extract"} => Len(values) < Len(request) /\ Pending \in Fields
  /\ mpc = "extract" => ptr = blk /\ plen = len
  /\ mpc = "unlock" /\ ok => Decoded /\ Len(values) = Len(request)
  /\ mpc \in {"unlock", "reply"} /\ ~ ok => values = << >>
  /\ mpc = "reply" => AnswerFromOneFrame

IInv == TypeOK /\ Exclusion /\ Storage /\ Contents /\ Reading

------------------------------------------------------------------------------
(* A value decoded from bytes is a sequence of bytes.                      *)
LEMMA ValueType ==
  ASSUME NEW bytes \in Seq(Byte \cup {Junk}), NEW x \in Fields
  PROVE  Value(bytes, x) \in Seq(Byte \cup {Junk})
<1>1. Layout[x].offset \in Nat /\ Layout[x].size \in Nat \ {0}
  BY LayoutAssumption
<1>2. CASE bytes = NoFrame
  BY <1>2 DEF Value
<1>3. CASE bytes # NoFrame
  <2> DEFINE off == Layout[x].offset
             sz  == Layout[x].size
             val == [i \in 1 .. sz |->
                       IF off + sz <= Len(bytes) THEN bytes[off + i] ELSE 0]
  <2>1. Value(bytes, x) = val
    BY <1>3 DEF Value
  <2>2. ASSUME NEW i \in 1 .. sz
        PROVE  (IF off + sz <= Len(bytes) THEN bytes[off + i] ELSE 0)
                 \in Byte \cup {Junk}
    <3>1. off + sz <= Len(bytes) => off + i \in 1 .. Len(bytes)
      BY <1>1
    <3>2. QED
      BY <3>1, ByteAssumption
  <2>3. val \in [1 .. sz -> Byte \cup {Junk}]
    BY <2>2
  <2>4. QED
    BY <1>1, <2>1, <2>3, IsASeq, SMTT(60)
<1>4. QED
  BY <1>2, <1>3

(* While the reader extracts a field, what it sees is the published frame. *)
LEMMA SeenIsPublished ==
  ASSUME IInv, mpc = "extract"
  PROVE  Seen = published
<1>1. ptr = blk /\ plen = len /\ mutex = "main"
  BY DEF IInv, Reading, Exclusion, ReaderInside
<1>2. wpc # "copy"
  BY <1>1 DEF IInv, Exclusion, WorkerInside
<1>3. plen = Len(published) /\ \A i \in 1 .. plen : mem[i] = published[i]
  BY <1>1, <1>2 DEF IInv, Contents
<1>4. \A i \in 1 .. plen : i \in DOMAIN mem
  BY <1>1 DEF IInv, Storage, TypeOK
<1>5. Seen = [i \in 1 .. plen |-> published[i]]
  BY <1>1, <1>3, <1>4 DEF Seen
<1>6. QED
  BY <1>3, <1>5 DEF IInv, TypeOK

LEMMA InitInv == Init => IInv
<1> SUFFICES ASSUME Init
             PROVE  IInv
  OBVIOUS
<1>1. TypeOK
  BY EmptySeq, Zenon DEF Init, TypeOK, NoFrame
<1>2. Exclusion /\ Storage
  BY DEF Init, Exclusion, WorkerInside, ReaderInside, Storage
<1>3. Contents
  BY DEF Init, Contents, NoFrame
<1>4. Reading
  BY DEF Init, Reading
<1>5. QED
  BY <1>1, <1>2, <1>3, <1>4 DEF IInv

------------------------------------------------------------------------------
(* The reader's part of the invariant survives any step of the worker that *)
(* leaves the buffer pointer, the length and the published frame alone...  *)
LEMMA ReadingKept ==
  Reading /\ UNCHANGED <<reader, blk, len, published>> => Reading'
  BY DEF reader, Reading, Decoded, AnswerFromOneFrame, OneFrame, Pending

(* ...and one that changes them while the reader is outside its critical   *)
(* section.                                                                *)
LEMMA ReadingOutside ==
  Reading /\ ~ ReaderInside /\ UNCHANGED reader => Reading'
  BY DEF reader, Reading, ReaderInside, AnswerFromOneFrame, OneFrame

(* A step of the reader leaves the buffer and its contents alone.          *)
LEMMA StoreKept ==
  Storage /\ Contents /\ UNCHANGED <<blk, size, len, mem, published, worker>>
    => Storage' /\ Contents'
  BY DEF worker, Storage, Contents

(* Each action keeps the invariant.                                        *)
LEMMA NextInv == IInv /\ [Next]_vars => IInv'
<1> SUFFICES ASSUME IInv, [Next]_vars
             PROVE  IInv'
  OBVIOUS
<1> USE FramesAssumption, RequestsAssumption, NullAssumption
<1> USE DEF IInv, TypeOK, Exclusion, WorkerInside, ReaderInside,
            shared, worker, reader
<1>1. CASE Receive
  <2> USE <1>1 DEF Receive
  <2>1. TypeOK' /\ Exclusion'
    OBVIOUS
  <2>2. Storage' /\ Contents'
    BY DEF Storage, Contents
  <2>3. Reading'
    BY ReadingKept
  <2>4. QED
    BY <2>1, <2>2, <2>3
<1>2. CASE WorkerLock
  <2> USE <1>2 DEF WorkerLock
  <2>1. TypeOK' /\ Exclusion'
    OBVIOUS
  <2>2. Storage' /\ Contents'
    BY DEF Storage, Contents
  <2>3. Reading'
    BY ReadingKept
  <2>4. QED
    BY <2>1, <2>2, <2>3
<1>3. CASE Fits
  <2> USE <1>3 DEF Fits, TooSmall
  <2>1. TypeOK' /\ Exclusion'
    OBVIOUS
  <2>2. Storage' /\ Contents'
    BY DEF Storage, Contents
  <2>3. Reading'
    BY ReadingKept
  <2>4. QED
    BY <2>1, <2>2, <2>3
<1>4. CASE Grow
  <2> USE <1>4 DEF Grow, TooSmall
  <2>1. TypeOK' /\ Exclusion'
    OBVIOUS
  <2>2. Storage' /\ Contents'
    BY DEF Storage, Contents
  <2>3. Reading'
    BY ReadingOutside
  <2>4. QED
    BY <2>1, <2>2, <2>3
<1>5. CASE GrowFails
  <2> USE <1>5 DEF GrowFails
  <2>1. TypeOK' /\ Exclusion'
    OBVIOUS
  <2>2. Storage' /\ Contents'
    BY DEF Storage, Contents
  <2>3. Reading'
    BY ReadingKept
  <2>4. QED
    BY <2>1, <2>2, <2>3
<1>6. CASE CopyByte
  <2> USE <1>6 DEF CopyByte
  <2>1. copied + 1 \in 1 .. Len(frame) /\ copied + 1 \in 1 .. Len(mem)
    BY DEF Storage
  <2>2. /\ copied' = copied + 1
        /\ mem' = [mem EXCEPT ![copied + 1] = frame[copied + 1]]
    BY <2>1
  <2>3. TypeOK' /\ Exclusion'
    <3>1. mem' \in Seq(Byte \cup {Junk})
      <4> DEFINE E == Byte \cup {Junk}
                 b == frame[copied + 1]
      <4>1. mem \in Seq(E) /\ b \in E /\ copied + 1 \in 1 .. Len(mem)
        BY <2>1
      <4> HIDE DEF E, b
      <4>2. [mem EXCEPT ![copied + 1] = b] \in Seq(E)
        BY <4>1, ExceptSeq
      <4>3. QED
        BY <2>2, <4>2, Zenon DEF E, b
    <3>2. QED
      BY <2>2, <3>1
  <2>4. Storage'
    BY <2>1, <2>2 DEF Storage
  <2>5. Contents'
    BY <2>2 DEF Contents
  <2>6. Reading'
    BY ReadingKept
  <2>7. QED
    BY <2>3, <2>4, <2>5, <2>6
<1>7. CASE SetLength
  <2> USE <1>7 DEF SetLength
  <2>1. TypeOK' /\ Exclusion'
    OBVIOUS
  <2>2. Storage' /\ Contents'
    BY DEF Storage, Contents
  <2>3. Reading'
    BY ReadingOutside
  <2>4. QED
    BY <2>1, <2>2, <2>3
<1>8. CASE WorkerUnlock
  <2> USE <1>8 DEF WorkerUnlock
  <2>1. TypeOK' /\ Exclusion'
    OBVIOUS
  <2>2. Storage' /\ Contents'
    BY DEF Storage, Contents
  <2>3. Reading'
    BY ReadingKept
  <2>4. QED
    BY <2>1, <2>2, <2>3
<1>9. CASE Relock
  <2> USE <1>9 DEF Relock
  <2>1. TypeOK' /\ Exclusion'
    OBVIOUS
  <2>2. Storage' /\ Contents'
    BY DEF Storage, Contents
  <2>3. Reading'
    BY ReadingKept
  <2>4. QED
    BY <2>1, <2>2, <2>3
<1>10. CASE Rerelease
  <2> USE <1>10 DEF Rerelease
  <2>1. TypeOK' /\ Exclusion'
    OBVIOUS
  <2>2. Storage' /\ Contents'
    BY DEF Storage, Contents
  <2>3. Reading'
    BY ReadingKept
  <2>4. QED
    BY <2>1, <2>2, <2>3
<1>11. CASE Call
  <2> USE <1>11 DEF Call
  <2>1. TypeOK' /\ Exclusion'
    BY EmptySeq, Zenon
  <2>2. Storage' /\ Contents'
    BY StoreKept
  <2>3. Reading'
    BY DEF Reading
  <2>4. QED
    BY <2>1, <2>2, <2>3
<1>12. CASE ReaderLock
  <2> USE <1>12 DEF ReaderLock
  <2>1. TypeOK' /\ Exclusion'
    OBVIOUS
  <2>2. Storage' /\ Contents'
    BY StoreKept
  <2>3. Reading'
    BY DEF Reading, Decoded, AnswerFromOneFrame, OneFrame, Pending
  <2>4. QED
    BY <2>1, <2>2, <2>3
<1>13. CASE FindField
  <2> USE <1>13 DEF FindField
  <2>1. TypeOK' /\ Exclusion'
    OBVIOUS
  <2>2. Storage' /\ Contents'
    BY StoreKept
  <2>3. Reading'
    BY DEF Reading, Decoded, AnswerFromOneFrame, OneFrame, Pending
  <2>4. QED
    BY <2>1, <2>2, <2>3
<1>14. CASE LoadBuffer
  <2> USE <1>14 DEF LoadBuffer
  <2>1. TypeOK' /\ Exclusion'
    OBVIOUS
  <2>2. Storage' /\ Contents'
    BY StoreKept
  <2>3. Reading'
    BY DEF Reading, Decoded, AnswerFromOneFrame, OneFrame, Pending
  <2>4. QED
    BY <2>1, <2>2, <2>3
<1>15. CASE ExtractRaw
  <2> USE <1>15 DEF ExtractRaw
  <2> DEFINE v == Value(published, Pending)
  <2>1. Pending \in Fields /\ Len(values) < Len(request) /\ Decoded
    BY DEF Reading
  <2>2. values' = Append(values, v)
    BY SeenIsPublished
  <2>3. v \in Seq(Byte \cup {Junk})
    <3>1. published \in Seq(Byte \cup {Junk})
      BY SeqMonotonic
    <3>2. QED
      BY <2>1, <3>1, ValueType, Zenon
  <2> HIDE DEF v
  <2>4. TypeOK' /\ Exclusion'
    BY <2>2, <2>3
  <2>5. Storage' /\ Contents'
    BY StoreKept
  <2>6. Decoded'
    <3>1. Len(values') = Len(values) + 1
      BY <2>2
    <3>2. ASSUME NEW k \in 1 .. Len(values')
          PROVE  /\ request[k] \in Fields
                 /\ values'[k] = Value(published, request[k])
      <4>1. CASE k \in 1 .. Len(values)
        BY <2>1, <2>2, <4>1 DEF Decoded
      <4>2. CASE k = Len(values) + 1
        BY <2>1, <2>2, <2>3, <4>2 DEF v, Pending
      <4>3. QED
        BY <3>1, <4>1, <4>2
    <3>3. QED
      BY <2>1, <3>1, <3>2 DEF Decoded
  <2>7. Reading'
    BY <2>6 DEF Reading
  <2>8. QED
    BY <2>4, <2>5, <2>7
<1>16. CASE BuildResult
  <2> USE <1>16 DEF BuildResult
  <2>1. TypeOK' /\ Exclusion'
    OBVIOUS
  <2>2. Storage' /\ Contents'
    BY StoreKept
  <2>3. Reading'
    BY DEF Reading, Decoded, AnswerFromOneFrame, OneFrame, Pending
  <2>4. QED
    BY <2>1, <2>2, <2>3
<1>17. CASE DropResult
  <2> USE <1>17 DEF DropResult
  <2>1. TypeOK' /\ Exclusion'
    BY EmptySeq
  <2>2. Storage' /\ Contents'
    BY StoreKept
  <2>3. Reading'
    BY DEF Reading, Decoded, AnswerFromOneFrame, OneFrame, Pending
  <2>4. QED
    BY <2>1, <2>2, <2>3
<1>18. CASE ReaderUnlock
  <2> USE <1>18 DEF ReaderUnlock
  <2>1. TypeOK' /\ Exclusion'
    OBVIOUS
  <2>2. Storage' /\ Contents'
    BY StoreKept
  <2>3. AnswerFromOneFrame'
    <3>1. CASE ~ ok
      BY <3>1 DEF Reading, AnswerFromOneFrame
    <3>2. CASE ok
      <4>1. Decoded /\ Len(values) = Len(request)
        BY <3>2 DEF Reading
      <4>2. OneFrame(published)
        BY <4>1 DEF Decoded, OneFrame
      <4>3. \A k \in DOMAIN request : request[k] \in Fields
        BY <4>1 DEF Decoded
      <4>4. OneFrame(published)'
        BY <4>2 DEF OneFrame
      <4>5. published \in Frames \cup {NoFrame}
        BY DEF Contents
      <4>6. QED
        BY <3>2, <4>3, <4>4, <4>5 DEF AnswerFromOneFrame
    <3>3. QED
      BY <3>1, <3>2
  <2>4. Reading'
    BY <2>3 DEF Reading
  <2>5. QED
    BY <2>1, <2>2, <2>4
<1>19. CASE Reply
  <2> USE <1>19 DEF Reply
  <2>1. TypeOK' /\ Exclusion'
    OBVIOUS
  <2>2. Storage' /\ Contents'
    BY StoreKept
  <2>3. Reading'
    BY DEF Reading, Decoded, AnswerFromOneFrame, OneFrame, Pending
  <2>4. QED
    BY <2>1, <2>2, <2>3
<1>20. CASE UNCHANGED vars
  BY <1>20, ReadingKept, StoreKept DEF vars
<1>21. QED
  BY <1>1, <1>2, <1>3, <1>4, <1>5, <1>6, <1>7, <1>8, <1>9, <1>10, <1>11, <1>12,
     <1>13, <1>14, <1>15, <1>16, <1>17, <1>18, <1>19, <1>20
     DEF Next, WorkerStep, ReaderStep

THEOREM Inductive == Spec => []IInv
  BY InitInv, NextInv, PTL DEF Spec

------------------------------------------------------------------------------
(* The variables keep their types.                                         *)
THEOREM TypeCorrect == Spec => []TypeOK
  BY Inductive, PTL DEF IInv

(* memcpy never writes outside the block (serial_comm.c:311-321).          *)
THEOREM CopyIsSafe == Spec => []CopyStaysInBlock
<1>1. IInv => CopyStaysInBlock
  BY DEF IInv, Storage, CopyStaysInBlock
<1>2. QED
  BY <1>1, Inductive, PTL

(* A decode reads only written bytes of the live block (decoder.c:87-95).  *)
THEOREM DecodeIsSafe == Spec => []DecodeReadsLiveBytes
<1>1. IInv => DecodeReadsLiveBytes
  <2> SUFFICES ASSUME IInv, mpc = "extract"
               PROVE  ptr = blk /\ \A i \in 1 .. plen : i \in DOMAIN mem /\ mem[i] # Junk
    BY DEF DecodeReadsLiveBytes
  <2>1. ptr = blk /\ plen = len /\ wpc # "copy"
    BY DEF IInv, Reading, Exclusion, ReaderInside, WorkerInside
  <2>2. ASSUME NEW i \in 1 .. plen
        PROVE  i \in DOMAIN mem /\ mem[i] # Junk
    <3>1. i \in DOMAIN mem
      BY <2>1 DEF IInv, Storage, TypeOK
    <3>2. i \in 1 .. Len(published) /\ mem[i] = published[i]
      BY <2>1 DEF IInv, Contents, TypeOK
    <3>3. published[i] \in Byte
      BY <3>2 DEF IInv, TypeOK
    <3>4. QED
      BY <3>1, <3>2, <3>3, JunkAssumption
  <2>3. QED
    BY <2>1, <2>2
<1>2. QED
  BY <1>1, Inductive, PTL

(* Every answer is made of one frame, or is an error (rpc_server.c).       *)
THEOREM AnswersAreWhole == Spec => []AnswerFromOneFrame
<1>1. IInv => AnswerFromOneFrame
  BY DEF IInv, Reading, AnswerFromOneFrame
<1>2. QED
  BY <1>1, Inductive, PTL

------------------------------------------------------------------------------
(* The step of the abstract specification that each step maps to.  The     *)
(* worker's store takes effect when outpc_len is set, the reader's answer  *)
(* when it lets go of the mutex; every other step stutters.                *)
LEMMA InitMaps == Init => S!Init
  BY DEF Init, S!Init, call, S!Idle, NoFrame, S!NoFrame

LEMMA StepMaps == IInv /\ [Next]_vars => [S!Next]_(S!vars)
<1> SUFFICES ASSUME IInv, [Next]_vars
             PROVE  [S!Next]_(S!vars)
  OBVIOUS
<1> USE DEF shared, worker, reader, S!vars
<1>1. ASSUME published' = published, mpc' = mpc, request' = request,
             ok' = ok, values' = values
      PROVE  UNCHANGED S!vars
  BY <1>1 DEF call
<1>2. CASE Receive \/ WorkerLock \/ Fits \/ Grow \/ GrowFails \/ CopyByte
             \/ WorkerUnlock \/ Relock \/ Rerelease \/ UNCHANGED vars
  BY <1>1, <1>2 DEF Receive, WorkerLock, Fits, Grow, GrowFails, CopyByte,
                    WorkerUnlock, Relock, Rerelease, vars
<1>3. CASE SetLength
  <2>1. call' = call
    BY <1>3 DEF SetLength, call
  <2>2. published' \in Frames
    BY <1>3 DEF SetLength, IInv, Contents
  <2>3. QED
    BY <2>1, <2>2 DEF S!Next, S!Publish
<1>4. CASE Call
  <2>1. call.state = "idle" /\ call' = S!Asked(request') /\ request' \in Requests
    BY <1>4 DEF Call, call, S!Asked
  <2>2. published' = published
    BY <1>4 DEF Call
  <2>3. QED
    BY <2>1, <2>2 DEF S!Next, S!Ask
<1>5. CASE ReaderLock \/ FindField \/ LoadBuffer \/ ExtractRaw
             \/ BuildResult \/ DropResult
  <2>1. /\ mpc \notin {"idle", "reply"} /\ mpc' \notin {"idle", "reply"}
        /\ request' = request /\ published' = published
    BY <1>5 DEF ReaderLock, FindField, LoadBuffer, ExtractRaw, BuildResult, DropResult
  <2>2. QED
    BY <2>1 DEF call
<1>6. CASE ReaderUnlock
  <2>1. /\ call = S!Asked(request) /\ published' = published
        /\ call' = [state |-> "answered", request |-> request,
                    ok |-> ok, values |-> values]
    BY <1>6 DEF ReaderUnlock, call, S!Asked
  <2>2. CASE ok
    <3>1. Decoded /\ Len(values) = Len(request)
      BY <1>6, <2>2 DEF ReaderUnlock, IInv, Reading
    <3>2. values = [k \in DOMAIN request |-> Value(published, request[k])]
      BY <3>1 DEF Decoded, IInv, TypeOK
    <3>3. S!Known(request)
      BY <3>1 DEF Decoded, S!Known, IInv, TypeOK
    <3>4. call' = S!Answered(request,
                    [k \in DOMAIN request |-> Value(published, request[k])])
      BY <2>1, <2>2, <3>2 DEF S!Answered
    <3>5. call.state = "asked" /\ call.request = request
      BY <2>1, SMTT(60) DEF S!Asked
    <3>6. S!Answer
      BY <2>1, <3>3, <3>4, <3>5
         DEF S!Answer, Value, S!Value, NoFrame, S!NoFrame
    <3>7. QED
      BY <3>6 DEF S!Next
  <2>3. CASE ~ ok
    <3>1. values = << >> /\ ok = FALSE
      BY <1>6, <2>3 DEF ReaderUnlock, IInv, Reading, TypeOK
    <3>2. S!Refuse
      BY <2>1, <3>1, Zenon DEF S!Refuse, S!Asked, S!Refused
    <3>3. QED
      BY <3>2 DEF S!Next
  <2>4. QED
    BY <2>2, <2>3
<1>7. CASE Reply
  BY <1>7 DEF Reply, call, S!Next, S!Reply, S!Idle
<1>8. QED
  BY <1>2, <1>3, <1>4, <1>5, <1>6, <1>7 DEF Next, WorkerStep, ReaderStep

(* The two threads, their mutex and the byte-by-byte copy implement one    *)
(* atomic store and one atomic read of any list of fields.                 *)
THEOREM Refinement == Spec => ImplementsSnapshot
  BY InitMaps, StepMaps, Inductive, PTL DEF Spec, ImplementsSnapshot, S!Spec
==============================================================================
