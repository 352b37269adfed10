---------------------------- MODULE OutpcContents ------------------------------
(***************************************************************************)
(* From the simulated engine to the numbers a reader shows: both           *)
(* simulators (ecuSim and the older one) build the OUTPC block field by    *)
(* field from the state of the engine, and the dash, inspect_capture and   *)
(* the daemon take the fields out of it again.                             *)
(*                                                                         *)
(* The engine is in any state of its range, and another one for the next   *)
(* block.  The dictionaries that name the fields are modelled by groups of *)
(* names with the same contents.                                           *)
(***************************************************************************)
EXTENDS FieldCodec, FiniteSets

CONSTANTS
  Channels,   (* the fields of the INI file, in the order they are encoded *)
  BlockSize,  (* ochBlockSize                                              *)
  Engines,    (* states of the engine                                      *)
  Debug       (* --debug-values                                            *)

VARIABLES
  engine,  (* the state of the engine when the block was asked for         *)
  counter, (* _debug_counter                                               *)
  ecu, old, (* the blocks under construction                               *)
  done     (* how many channels have been encoded                          *)

vars == <<engine, counter, ecu, old, done>>

Empty == [i \in 1 .. BlockSize |-> 0]

------------------------------------------------------------------------------
(* Which number goes into which field, in tenths.                          *)

Bit(b, n) == IF b THEN n ELSE 0

EngineBits(s) == Bit(s.running, 1) + Bit(s.cranking, 2) + Bit(s.warmup, 12)
SquirtBits(s) == Bit(s.running, 40)

LoadFields    == {"map", "fuelload", "fuelload2", "ignload", "ignload2", "mafload", "eaeload1", "afrload1"}
HundredFields == {"tpsfuelcut", "fuelCorrection", "EAEFuelCorr1", "vetrim1curr"}

(* The names that _get_field_values and state_map have.                    *)
EcuNames == LoadFields \cup HundredFields
            \cup {"rpm", "tps", "coolant", "mat", "airtemp", "engine", "squirt", "coldAdvDeg",
                  "iacstep", "idleDC"}
OldNames == {"rpm", "map", "fuelload", "ignload", "tps", "coolant", "mat", "engine", "squirt",
             "tpsfuelcut", "coldAdvDeg", "iacstep", "idleDC"}

(* _get_field_values.                                                      *)
FieldValue(s, name) ==
  CASE name = "rpm"         -> s.rpm
    [] name \in LoadFields  -> s.map
    [] name = "tps"         -> s.tps
    [] name = "coolant"     -> s.coolant
    [] name \in {"mat", "airtemp"} -> s.mat
    [] name = "engine"      -> 10 * EngineBits(s)
    [] name = "squirt"      -> 10 * SquirtBits(s)
    [] name \in HundredFields -> 1000
    [] name = "coldAdvDeg"  -> Bit(s.warmup, 20)
    [] name = "iacstep"     -> s.iac
    [] name = "idleDC"      -> (s.iac * 392) \div 1000
    [] OTHER                -> 0

(* The state_map of build_outpc.                                           *)
OldFieldValue(s, name) ==
  CASE name = "rpm"      -> s.rpm
    [] name \in {"map", "fuelload", "ignload"} -> s.map
    [] name = "tps"      -> s.tps
    [] name = "coolant"  -> s.coolant
    [] name = "mat"      -> s.mat
    [] name = "engine"   -> 10 * EngineBits(s)
    [] name = "squirt"   -> 10 * SquirtBits(s)
    [] name = "tpsfuelcut" -> 1000
    [] name = "coldAdvDeg" -> Bit(s.warmup, 20)
    [] name = "iacstep"  -> Bit(s.rpm < 10000, 300)
    [] name = "idleDC"   -> Bit(s.rpm < 10000, 350)
    [] OTHER             -> 0

(* _get_debug_values: the k-th of all channels, flags included, in the     *)
(* order of their offsets counts on from the counter.                      *)
DebugValue(k) == 10 * ((counter + k - 1) % 256)

(* What ecuSim puts into the k-th channel, and the channels that have      *)
(* anything put into them.                                                 *)
Sent(k)   == IF Debug THEN DebugValue(k) ELSE FieldValue(engine, Channels[k].name)
EcuFields == {k \in DOMAIN Channels : Debug \/ Channels[k].name \in EcuNames}
OldFields == {k \in DOMAIN Channels : Channels[k].name \in OldNames}

------------------------------------------------------------------------------
Init == /\ engine \in Engines
        /\ counter = 0
        /\ ecu = Empty /\ old = Empty
        /\ done = 0

(* The next channel.  In the debug mode flags are encoded as whole bytes.  *)
Encode ==
  /\ done < Len(Channels)
  /\ LET k == done + 1
         f == Channels[k]
     IN /\ ecu' = IF k \in EcuFields THEN EcuEncode(ecu, f, Sent(k)) ELSE ecu
        /\ old' = IF k \in OldFields THEN OldEncode(old, f, OldFieldValue(engine, f.name)) ELSE old
  /\ done' = done + 1
  /\ UNCHANGED <<engine, counter>>

(* The next request for OUTPC.                                             *)
Build ==
  /\ done = Len(Channels)
  /\ engine' \in Engines
  /\ counter' = IF Debug THEN (counter + 1) % 256 ELSE counter
  /\ ecu' = Empty /\ old' = Empty
  /\ done' = 0

Next == Encode \/ Build

Spec == Init /\ [][Next]_vars

------------------------------------------------------------------------------
Scalars == {k \in DOMAIN Channels : Channels[k].kind = "scalar"}

TypeOK == /\ ecu \in [1 .. BlockSize -> 0 .. 255]
          /\ old \in [1 .. BlockSize -> 0 .. 255]
          /\ done \in 0 .. Len(Channels)
          /\ engine \in Engines /\ counter \in 0 .. 255

(* A channel encoded later has bytes of the k-th one: in the INI file      *)
(* idleDC those of iacstep, and in the debug mode flags those of squirt    *)
(* and engine.                                                             *)
Covered(k, fields, block) ==
  \E j \in fields : /\ k < j /\ j <= done
                   /\ InBlock(Channels[j], block) /\ ~Apart(Channels[j], Channels[k])

(* Whatever the engine does, also beyond what a field can hold, the dash   *)
(* and inspect_capture show each value that the older simulator encoded,   *)
(* up to one step of the field, unless a later one has its bytes, and 0    *)
(* for a field that is not in the block: no field spills into the next one *)
(* (encode_field, decode_field).                                           *)
OldIsShown ==
  \A k \in OldFields \cap Scalars : LET f == Channels[k] IN
    k <= done =>
      IF InBlock(f, old)
        THEN \/ Covered(k, OldFields, old)
             \/ /\ Shows(f, DashRaw(old, f), OldFieldValue(engine, f.name))
                /\ InspectRaw(old, f) = DashRaw(old, f)
        ELSE DashRaw(old, f) = 0

(* The same for ecuSim and a reader of big-endian numbers, as the daemon   *)
(* is, also in the debug mode: without a translation it shows each value   *)
(* that was encoded; with one it is off by the translation times the scale *)
(* less one, since _encode_field reverses raw * scale + translate and the  *)
(* formula of ms2d_decode_field is (raw + translate) * scale.              *)
EcuIsShown ==
  \A k \in EcuFields \cap Scalars : LET f == Channels[k] IN
    k <= done =>
      IF InBlock(f, ecu)
        THEN Covered(k, EcuFields, ecu) \/ ShowsShifted(f, DaemonRaw(ecu, f), Sent(k))
        ELSE DaemonRaw(ecu, f) = 0

Flag(name) == CHOOSE k \in DOMAIN Channels : Channels[k].name = name

(* The flags that share the byte of the field engine are those of the      *)
(* engine, wherever they were encoded (engine_bits).                       *)
FlagsAreShown ==
  done = Len(Channels) /\ ~Debug =>
    \A buffer \in {ecu, old} :
      /\ (DashRaw(buffer, Channels[Flag("ready")]) = 1) = engine.running
      /\ (DashRaw(buffer, Channels[Flag("crank")]) = 1) = engine.cranking
      /\ (DashRaw(buffer, Channels[Flag("warmup")]) = 1) = engine.warmup
===============================================================================
