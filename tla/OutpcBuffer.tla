----------------------------- MODULE OutpcBuffer -----------------------------
(***************************************************************************)
(* The OUTPC buffer that the daemon's two threads share.                   *)
(*                                                                         *)
(* The worker thread copies every frame it polls into state->outpc_buffer  *)
(* (ms2d_serial_poll_outpc), growing the block with realloc when the frame *)
(* is longer than any before.  The main thread decodes fields out of it to *)
(* answer get_value, get_values and get_all (rpc_server.c).  Both do so    *)
(* under state->mutex, one byte, one field at a time.                      *)
(*                                                                         *)
(* The heap is modelled as far as the buffer needs it: blk names the block *)
(* that is allocated now and mem is its contents.  A pointer to any other  *)
(* block dangles.                                                          *)
(***************************************************************************)
EXTENDS OutpcFrames

CONSTANTS
  Blocks,   (* addresses realloc may return                                *)
  Null,     (* the null pointer                                            *)
  Junk      (* what a byte holds that was never written, or was freed      *)

ASSUME NullAssumption == Null \notin Blocks
ASSUME JunkAssumption == Junk \notin Byte

VARIABLES
  mutex,    (* the thread that holds state->mutex, or "free"               *)
  blk,      (* the live block: state->outpc_buffer                         *)
  size,     (* state->outpc_size                                           *)
  len,      (* state->outpc_len                                            *)
  mem,      (* the contents of the live block, as long as it was allocated *)
  wpc,      (* where the worker thread is in ms2d_serial_poll_outpc        *)
  frame,    (* its local copy of the answer, flag byte removed             *)
  copied,   (* bytes memcpy has moved so far                               *)
  mpc,      (* where the main thread is in the RPC method                  *)
  request,  (* the names asked for                                         *)
  values,   (* the values decoded so far                                   *)
  ok,       (* the method has a result, not NULL                           *)
  ptr,      (* buffer and buffer_len, locals of ms2d_decode_field          *)
  plen,
  published (* history: the frame last stored completely                   *)

shared == <<mutex, blk, size, len, mem, published>>
worker == <<wpc, frame, copied>>
reader == <<mpc, request, values, ok, ptr, plen>>
vars   == <<shared, worker, reader>>

Init == /\ mutex = "free"
        /\ blk = Null
        /\ size = 0
        /\ len = 0
        /\ mem = << >>
        /\ wpc = "poll"
        /\ frame = NoFrame
        /\ copied = 0
        /\ mpc = "idle"
        /\ request = << >>
        /\ values = << >>
        /\ ok = FALSE
        /\ ptr = Null
        /\ plen = 0
        /\ published = NoFrame

------------------------------------------------------------------------------
(***************************************************************************)
(* Faulty variants of some of the actions below, each with a slip the code *)
(* could have: they show what the properties at the end can tell apart.    *)
(***************************************************************************)

(* realloc fails after outpc_size has been raised.                         *)
GrowFailsAfterResize ==
  /\ wpc = "fit"
  /\ blk = Null \/ size < Len(frame)
  /\ size' = Len(frame)
  /\ mutex' = "free"
  /\ wpc' = "poll"
  /\ UNCHANGED <<blk, len, mem, published, frame, copied, reader>>

(* The flag byte is subtracted from the length once more.                  *)
SetLengthTwiceShortened ==
  /\ wpc = "copy"
  /\ copied = Len(frame)
  /\ len' = Len(frame) - 1
  /\ published' = frame
  /\ wpc' = "unlock"
  /\ UNCHANGED <<mutex, blk, size, mem, frame, copied, reader>>

(* outpc_len follows the size of the block, not that of the frame.         *)
SetLengthToSize ==
  /\ wpc = "copy"
  /\ copied = Len(frame)
  /\ len' = size
  /\ published' = frame
  /\ wpc' = "unlock"
  /\ UNCHANGED <<mutex, blk, size, mem, frame, copied, reader>>

(* The method reads without taking the mutex.                              *)
ReaderDoesNotLock ==
  /\ mpc = "lock"
  /\ mpc' = "find"
  /\ UNCHANGED <<shared, worker, request, values, ok, ptr, plen>>

(* get_values takes the mutex for each field, not for the whole call.      *)
ExtractAndUnlock ==
  /\ mpc = "extract"
  /\ values' = Append(values, Value([i \in 1 .. plen |-> mem[i]],
                                    request[Len(values) + 1]))
  /\ mutex' = "free"
  /\ mpc' = "lock"
  /\ UNCHANGED <<blk, size, len, mem, published, worker, request, ok, ptr, plen>>

(* A refused call starts over instead of returning.                        *)
DropAndRestart ==
  /\ mpc = "find"
  /\ values' = << >>
  /\ UNCHANGED <<shared, worker, mpc, request, ok, ptr, plen>>

------------------------------------------------------------------------------
(* The worker thread.                                                      *)

Receive == /\ wpc = "poll"
           /\ frame' \in Frames
           /\ wpc' = "lock"
           /\ UNCHANGED <<shared, copied, reader>>

WorkerLock == /\ wpc = "lock"
              /\ mutex = "free"
              /\ mutex' = "worker"
              /\ wpc' = "fit"
              /\ UNCHANGED <<blk, size, len, mem, published, frame, copied, reader>>

(* !state->outpc_buffer || state->outpc_size < outpc_len                   *)
TooSmall == blk = Null \/ size < Len(frame)

Fits == /\ wpc = "fit"
        /\ ~ TooSmall
        /\ wpc' = "copy"
        /\ copied' = 0
        /\ UNCHANGED <<shared, frame, reader>>

(* realloc may move the block; what it adds is not initialised.            *)
Grow == /\ wpc = "fit"
        /\ TooSmall
        /\ blk' \in Blocks
        /\ mem' = [i \in 1 .. Len(frame) |-> IF i \in DOMAIN mem THEN mem[i] ELSE Junk]
        /\ size' = Len(frame)
        /\ wpc' = "copy"
        /\ copied' = 0
        /\ UNCHANGED <<mutex, len, published, frame, reader>>

GrowFails == /\ wpc = "fit"
             /\ TooSmall
             /\ mutex' = "free"
             /\ wpc' = "poll"
             /\ UNCHANGED <<blk, size, len, mem, published, frame, copied, reader>>

CopyByte == /\ wpc = "copy"
            /\ copied < Len(frame)
            /\ copied' = copied + 1
            /\ mem' = IF copied' \in DOMAIN mem
                        THEN [mem EXCEPT ![copied'] = frame[copied']]
                        ELSE mem
            /\ UNCHANGED <<mutex, blk, size, len, published, wpc, frame, reader>>

SetLength == /\ wpc = "copy"
             /\ copied = Len(frame)
             /\ len' = Len(frame)
             /\ published' = frame
             /\ wpc' = "unlock"
             /\ UNCHANGED <<mutex, blk, size, mem, frame, copied, reader>>

WorkerUnlock == /\ wpc = "unlock"
                /\ mutex' = "free"
                /\ wpc' = "relock"
                /\ UNCHANGED <<blk, size, len, mem, published, frame, copied, reader>>

(* worker_thread takes the mutex once more after a successful poll and     *)
(* does nothing under it, then sleeps until the next poll.                 *)
Relock == /\ wpc = "relock"
          /\ mutex = "free"
          /\ mutex' = "worker"
          /\ wpc' = "rerelease"
          /\ UNCHANGED <<blk, size, len, mem, published, frame, copied, reader>>

Rerelease == /\ wpc = "rerelease"
             /\ mutex' = "free"
             /\ wpc' = "poll"
             /\ UNCHANGED <<blk, size, len, mem, published, frame, copied, reader>>

WorkerStep == WorkerLock \/ Fits \/ Grow \/ GrowFails \/ CopyByte \/ SetLength
                \/ WorkerUnlock \/ Relock \/ Rerelease

------------------------------------------------------------------------------
(* The main thread.                                                        *)

Call == /\ mpc = "idle"
        /\ request' \in Requests
        /\ values' = << >>
        /\ ok' = FALSE
        /\ mpc' = "lock"
        /\ UNCHANGED <<shared, worker, ptr, plen>>

ReaderLock == /\ mpc = "lock"
              /\ mutex = "free"
              /\ mutex' = "main"
              /\ mpc' = "find"
              /\ UNCHANGED <<blk, size, len, mem, published, worker,
                             request, values, ok, ptr, plen>>

Pending == request[Len(values) + 1]

FindField == /\ mpc = "find"
             /\ Len(values) < Len(request)
             /\ Pending \in Fields
             /\ mpc' = "load"
             /\ UNCHANGED <<shared, worker, request, values, ok, ptr, plen>>

(* ms2d_decode_field first copies the pointer and the length...            *)
LoadBuffer == /\ mpc = "load"
              /\ ptr' = blk
              /\ plen' = len
              /\ mpc' = "extract"
              /\ UNCHANGED <<shared, worker, request, values, ok>>

(* ...and then reads through them.                                         *)
Seen == [i \in 1 .. plen |->
           IF ptr = blk /\ i \in DOMAIN mem THEN mem[i] ELSE Junk]

ExtractRaw == /\ mpc = "extract"
              /\ values' = Append(values, Value(Seen, Pending))
              /\ mpc' = "find"
              /\ UNCHANGED <<shared, worker, request, ok, ptr, plen>>

BuildResult == /\ mpc = "find"
               /\ Len(values) = Len(request)
               /\ ok' = TRUE
               /\ mpc' = "unlock"
               /\ UNCHANGED <<shared, worker, request, values, ptr, plen>>

(* The result so far is deleted: a name that is not a field, or no memory. *)
DropResult == /\ mpc = "find"
              /\ values' = << >>
              /\ mpc' = "unlock"
              /\ UNCHANGED <<shared, worker, request, ok, ptr, plen>>

ReaderUnlock == /\ mpc = "unlock"
                /\ mutex' = "free"
                /\ mpc' = "reply"
                /\ UNCHANGED <<blk, size, len, mem, published, worker,
                               request, values, ok, ptr, plen>>

Reply == /\ mpc = "reply"
         /\ mpc' = "idle"
         /\ UNCHANGED <<shared, worker, request, values, ok, ptr, plen>>

ReaderStep == ReaderLock \/ FindField \/ LoadBuffer \/ ExtractRaw
                \/ BuildResult \/ DropResult \/ ReaderUnlock \/ Reply

------------------------------------------------------------------------------
Next == Receive \/ WorkerStep \/ Call \/ ReaderStep

Spec == Init /\ [][Next]_vars

(***************************************************************************)
(* Neither thread is ever stopped inside a critical section.  The worker   *)
(* sleeps 33 ms with the mutex free after every poll and the main thread   *)
(* 10 ms after every call, so a thread that waits for the mutex finds it   *)
(* free again and again and gets it.  No fairness makes a client call or   *)
(* the ECU answer.                                                         *)
(***************************************************************************)
FairSpec == /\ Spec
            /\ WF_vars(WorkerStep)
            /\ WF_vars(ReaderStep)
            /\ SF_vars(ReaderLock)
            /\ SF_vars(WorkerLock)
            /\ SF_vars(Relock)

------------------------------------------------------------------------------
(* Properties.                                                             *)

TypeOK ==
  /\ mutex \in {"free", "worker", "main"}
  /\ blk \in Blocks \cup {Null}
  /\ size \in Nat
  /\ len \in Nat
  /\ mem \in Seq(Byte \cup {Junk})
  /\ wpc \in {"poll", "lock", "fit", "copy", "unlock", "relock", "rerelease"}
  /\ frame \in Seq(Byte)
  /\ copied \in Nat
  /\ mpc \in {"idle", "lock", "find", "load", "extract", "unlock", "reply"}
  /\ request \in Seq(Names)
  /\ values \in Seq(Seq(Byte \cup {Junk}))
  /\ ok \in BOOLEAN
  /\ ptr \in Blocks \cup {Null}
  /\ plen \in Nat
  /\ published \in Seq(Byte)

(* memcpy (serial_comm.c:321) writes only inside the block it was given,   *)
(* whatever order frames of different lengths come in and even after a     *)
(* realloc that failed: no byte it is still to write lies beyond the block.*)
CopyStaysInBlock ==
  wpc = "copy" => blk # Null /\ Len(frame) <= Len(mem)

(* A decode (decoder.c:87-95) reads only through a pointer to the live     *)
(* block and only bytes that a poll has written: no freed block, no byte   *)
(* that realloc added and memcpy has not reached.                          *)
DecodeReadsLiveBytes ==
  mpc = "extract" /\ plen > 0 =>
    ptr = blk /\ \A i \in 1 .. plen : i \in DOMAIN mem /\ mem[i] # Junk

(* An answer with values (rpc_server.c:219-399) has one for every name of  *)
(* the call, in its order, and all of them are those of one and the same   *)
(* frame.  An error carries no value, and a call that names one unknown    *)
(* field is refused as a whole.                                            *)
OneFrame(f) == values = [k \in DOMAIN request |-> Value(f, request[k])]

AnswerFromOneFrame ==
  mpc = "reply" =>
    IF ok THEN /\ \A k \in DOMAIN request : request[k] \in Fields
               /\ \E f \in Frames \cup {NoFrame} : OneFrame(f)
          ELSE values = << >>

(* The two threads together do what one atomic store and one atomic read   *)
(* of several fields would.                                                *)
call ==
  IF mpc = "idle" THEN [state |-> "idle", request |-> << >>, ok |-> FALSE, values |-> << >>]
  ELSE IF mpc = "reply"
    THEN [state |-> "answered", request |-> request, ok |-> ok, values |-> values]
    ELSE [state |-> "asked", request |-> request, ok |-> FALSE, values |-> << >>]

S == INSTANCE Snapshot WITH current <- published

ImplementsSnapshot == S!Spec

CallAnswered == mpc = "lock" ~> mpc = "reply"
FrameStored  == wpc = "lock" ~> wpc = "poll"

(* Every call is answered, whichever of its error returns it takes, and a  *)
(* frame that was received is stored or its poll fails: no path keeps the  *)
(* mutex.                                                                  *)
NobodyStuck == CallAnswered /\ FrameStored
==============================================================================
