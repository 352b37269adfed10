------------------------------- MODULE MCReadings -------------------------------
(***************************************************************************)
(* From the engine to the readings: the engine that ecuSim simulates, the  *)
(* OUTPC blocks made of it and the numbers found in them, and the readers  *)
(* of the files that say where they are: the INI file, its definitions of  *)
(* fields, and the tune; then the C client, which reads the answers of the *)
(* daemon.  They share no state; each behaviour is of one of them.         *)
(***************************************************************************)
EXTENDS EngineSimulation, Sequences, TLC

CONSTANTS
  IniLines,     (* the lines an INI file may have                          *)
  IniNames,     (* names of fields                                         *)
  Projects,     (* the settings of a project                               *)
  MaxDepth, MaxNest, MaxLines,  (* of IniReaders                           *)
  OutpcChannels,  (* the fields of OUTPC                                   *)
  DebugChannels,  (* those that the debug mode counts through              *)
  OutpcSize,      (* ochBlockSize                                          *)
  EngineStates    (* what the engine may be in when OUTPC is asked for     *)

Kinds == {"if", "else", "commented", "endif", "set", "unset",
          "section", "page", "signature", "field"}

(* A line has a kind, what it is about, and a value; fields have names.    *)
ASSUME IniAssumption ==
  /\ IniLines \subseteq [kind : Kinds, on : STRING, def : Nat]
  /\ \A line \in IniLines : line.kind = "field" => line.on \in IniNames
  /\ Projects \subseteq [fahrenheit : BOOLEAN, can : BOOLEAN]
  /\ MaxDepth \in Nat /\ MaxNest \in Nat /\ MaxLines \in Nat

Codec == INSTANCE FieldCodec

Channel == [name : STRING, kind : {"scalar", "bits"}, type : {"U08", "S08", "U16", "S16"},
            offset : Nat, num : Nat \ {0}, den : Nat \ {0}, translate : Int,
            low : Nat, width : Nat]

IsScalar(f) == f.kind = "scalar"

(* The field of which the flags of the engine are single bits.             *)
IsEngine(f) == /\ f.name = "engine" /\ IsScalar(f)
               /\ f.type = "U08" /\ f.num = 1 /\ f.den = 1 /\ f.translate = 0
               /\ f.offset < OutpcSize

IsFlag(f, bit) ==
  /\ f.kind = "bits" /\ f.type = "U08" /\ f.low = bit /\ f.width = 1
  /\ \E e \in DOMAIN OutpcChannels :
       IsEngine(OutpcChannels[e]) /\ OutpcChannels[e].offset = f.offset

(* Files of one field with two definitions and two sections; before a page *)
(* directive constants are on page 0.  Two projects differ in both         *)
(* settings.                                                               *)
MCProjects == {[fahrenheit |-> b, can |-> b] : b \in BOOLEAN}

Line(kind, on, def) == [kind |-> kind, on |-> on, def |-> def]

MCLines ==
  {Line("if", c, 0) : c \in {"CELSIUS", "FAHRENHEIT", "CAN_COMMANDS", "NOT_CAN_COMMANDS", "EGTFULL"}}
  \cup {Line(k, "", 0) : k \in {"else", "commented", "endif", "set", "unset"}}
  \cup {Line("section", s, 0) : s \in {"OutputChannels", "Constants"}}
  \cup {Line("page", "", 1)}
  \cup {Line("signature", "", 1), Line("field", "map", 1), Line("field", "map", 2)}

(* Columns as the INI file has them, and some it should not have.          *)
MCColumns ==
  << {<<"scalar">>, <<"Scalar">>, <<"bits">>, <<"array">>, <<"{", "rpm", "}">>},
     {<<"U08">>, <<"S16">>},
     {<<"3">>, <<"at">>},
     {<<"\"", "V", "\"">>, <<"\"", "a", ",", "b", "\"">>, <<"\"", "'", "\"">>, <<"'">>,
      <<"[0:3]">>, <<"[6]">>, << >>},
     {<<"7">>, <<"{", "7", "*", "3", "}">>, <<"\"", "F", "\"">>},
     {<<"0">>, <<"0", ";", "was", "omitted">>, <<"none">>, << >>},
     {<<"3">>, <<"\"", ",", "it", "'", "s", "\"">>} >>

(* Constants of two pages: bits and a scalar that share a byte's           *)
(* neighbourhood, and tables of two-byte numbers up to the end of a page.  *)
Constant(kind, type, page, offset, num, den, translate, low, width, first) ==
  [kind |-> kind, type |-> type, page |-> page, offset |-> offset, num |-> num, den |-> den,
   translate |-> translate, low |-> low, width |-> width, first |-> first]

MCConstants ==
  [nCylinders |-> Constant("bits", "U08", 1, 0, 1, 1, 0, 0, 5, 1),
   engineType |-> Constant("bits", "U08", 1, 0, 1, 1, 0, 5, 1, 1),
   reqFuel    |-> Constant("scalar", "U16", 1, 1, 1, 10, 0, 0, 0, 1),
   injadv     |-> Constant("array", "S16", 1, 3, 1, 10, 0, 0, 0, 2),
   trim       |-> Constant("scalar", "S08", 2, 0, 1, 2, 30, 0, 0, 1),
   curve      |-> Constant("array", "U08", 2, 9, 1, 10, 0, 0, 0, 2)]

CONSTANT NoNumber   (* a text, or an attribute, that is no number          *)

Text(form, cols, rows, values) == [form |-> form, cols |-> cols, rows |-> rows, values |-> values]
Plain(v) == Text("plain", 0, 0, <<v>>)

MCTexts ==
  [nCylinders |-> {Text("quoted", 0, 0, <<40>>), Plain(60)},
   engineType |-> {Plain(10), Plain(0)},
   reqFuel    |-> {Plain(123), Plain(99999), Plain(NoNumber)},
   injadv     |-> {Text("plain", 2, 3, <<-5, 10, 300, -300, 7, NoNumber>>),
                   Text("plain", 1, 2, <<12, 13>>)},
   trim       |-> {Plain(-25), Plain(400)},
   curve      |-> {Text("plain", 1, 4, <<1, 20, 30, 40>>)},
   unknown    |-> {Plain(10)}]

(* Channels of the INI file, moved together; idleDC has the bytes of       *)
(* iacstep, and the last scalar crosses the end of the block.              *)
Scalar(name, type, offset, num, den, translate) ==
  [name |-> name, kind |-> "scalar", type |-> type, offset |-> offset,
   num |-> num, den |-> den, translate |-> translate, low |-> 0, width |-> 0]

Bits(name, offset, low) ==
  [name |-> name, kind |-> "bits", type |-> "U08", offset |-> offset,
   num |-> 1, den |-> 1, translate |-> 0, low |-> low, width |-> 1]

Scalars ==
  << Scalar("rpm", "U16", 0, 1, 1, 0), Scalar("map", "S16", 2, 1, 10, 0),
     Scalar("tps", "S16", 4, 1, 10, 0), Scalar("coolant", "S16", 6, 5555, 100000, -3200),
     Scalar("fuelload", "U08", 8, 1, 1, 0), Scalar("coldAdvDeg", "S08", 9, 1, 10, 0),
     Scalar("squirt", "U08", 10, 1, 1, 0), Scalar("engine", "U08", 11, 1, 1, 0),
     Scalar("iacstep", "S16", 12, 1, 1, 0), Scalar("idleDC", "S16", 12, 392, 1000, 0),
     Scalar("mat", "S16", 15, 1, 10, 0) >>

Flags == << Bits("sched1", 10, 2), Bits("inj1", 10, 3),
            Bits("ready", 11, 0), Bits("crank", 11, 1), Bits("warmup", 11, 3) >>

MCChannels == Scalars \o Flags

(* In the order of offsets.                                                *)
MCDebugChannels ==
  SubSeq(Scalars, 1, 7) \o SubSeq(Flags, 1, 2) \o <<Scalars[8]>> \o SubSeq(Flags, 3, 5)
  \o SubSeq(Scalars, 9, 11)

MCEngines ==
  [rpm : {0, 8505, 700000}, map : {-405, 1013, 35000}, tps : {0, 1000}, coolant : {-400, 750, 1805},
   mat : {850}, iac : {0, 250}, running : BOOLEAN, cranking : BOOLEAN, warmup : BOOLEAN]

Steady == [rpm |-> 8500, map |-> 1013, tps |-> 0, coolant |-> 1800, mat |-> 850, iac |-> 250,
           running |-> TRUE, cranking |-> FALSE, warmup |-> FALSE]

------------------------------------------------------------------------------
VARIABLES
  subject,
  asked, counter, ecuBlock, oldBlock, done,      (* of OutpcContents         *)
  proper, ecu, dash, old, inspect, daemon, odd, deep, conditional, lines,
  text, columns,                                 (* of FieldLines            *)
  file, pages, parsed,                           (* of TuneFile              *)
  value, linked, method, names, answer, was      (* of ClientLibrary         *)

Contents == INSTANCE OutpcContents WITH
              engine <- asked, ecu <- ecuBlock, old <- oldBlock,
              Channels <- OutpcChannels, BlockSize <- OutpcSize, Engines <- EngineStates,
              Debug <- FALSE
Debugging == INSTANCE OutpcContents WITH
               engine <- asked, ecu <- ecuBlock, old <- oldBlock,
               Channels <- DebugChannels, BlockSize <- OutpcSize, Engines <- {Steady},
               Debug <- TRUE
(* The engine is in any state; nothing else that is encoded has the byte   *)
(* that the INI file calls engine, and the flags lie in it.                *)
ASSUME ChannelsAssumption ==
  /\ OutpcSize \in Nat
  /\ EngineStates \subseteq [rpm : Int, map : Int, tps : Int, coolant : Int, mat : Int, iac : Int,
                             running : BOOLEAN, cranking : BOOLEAN, warmup : BOOLEAN]
  /\ OutpcChannels \in Seq(Channel) /\ DebugChannels \in Seq(Channel)
  /\ \A i \in DOMAIN OutpcChannels, j \in Contents!EcuFields \cup Contents!OldFields :
       i # j /\ IsEngine(OutpcChannels[i]) => Codec!Apart(OutpcChannels[j], OutpcChannels[i])
  /\ \A name \in {"ready", "crank", "warmup"} :
       \E k \in DOMAIN OutpcChannels : OutpcChannels[k].name = name
  /\ \A k \in DOMAIN OutpcChannels : LET f == OutpcChannels[k] IN
       /\ f.name = "ready"  => IsFlag(f, 0)
       /\ f.name = "crank"  => IsFlag(f, 1)
       /\ f.name = "warmup" => IsFlag(f, 3)

Ini == INSTANCE IniReaders WITH
         Lines <- IniLines, Names <- IniNames
Columns == INSTANCE FieldLines WITH Numbers <- {"0", "3", "7"}, Columns <- MCColumns
Tune == INSTANCE TuneFile WITH
          Constants <- MCConstants, PageSize <- 15, Numbers <- {0, 1, 9, NoNumber},
          Unnumbered <- NoNumber, Texts <- MCTexts, Word <- NoNumber, MaxElements <- 5
(* Two fields; one has the name of a key of the answers.                   *)
Library == INSTANCE ClientLibrary WITH
             text <- answer, Known <- <<"rpm", "values">>, Unknown <- "speed",
             Values <- {"0", "850"}, Signature <- "MS2Extra"

Subjects == {"engine", "OUTPC", "OUTPC, debug", "conditions", "columns", "tune", "C client"}

outpc == <<asked, counter, ecuBlock, oldBlock, done>>
ini   == <<proper, ecu, dash, old, inspect, daemon, odd, deep, conditional, lines>>
field == <<text, columns>>
tune  == <<file, pages, parsed>>
calls == <<value, linked, method, names, answer, was>>
files == <<ini, field, tune>>
all   == <<vars, subject, outpc, files, calls>>

AnyInit ==
  /\ Init /\ Ini!Init
  /\ \/ /\ subject \in Subjects \ {"OUTPC", "columns"}
        /\ Debugging!Init /\ text = << >> /\ columns = 0
     \/ subject = "OUTPC" /\ Contents!Init /\ text = << >> /\ columns = 0
     \/ subject = "columns" /\ Debugging!Init /\ Columns!Init
  /\ Tune!Init /\ Library!Init

EngineOnly == UNCHANGED <<subject, outpc, files, calls>>
OutpcOnly  == UNCHANGED <<subject, vars, files, calls>>
FilesOnly  == UNCHANGED <<subject, vars, outpc, calls>>
AnyNext == \/ subject = "engine" /\ Next /\ EngineOnly
           \/ subject = "OUTPC" /\ Contents!Next /\ OutpcOnly
           \/ subject = "OUTPC, debug" /\ Debugging!Next /\ OutpcOnly
           \/ subject = "conditions" /\ Ini!Next /\ UNCHANGED <<field, tune>> /\ FilesOnly
           \/ subject = "columns" /\ Columns!Grow /\ UNCHANGED <<ini, tune>> /\ FilesOnly
           \/ subject = "tune" /\ Tune!Next /\ UNCHANGED <<ini, field>> /\ FilesOnly
           \/ subject = "C client" /\ Library!Next /\ UNCHANGED <<subject, vars, outpc, files>>

AnySpec == AnyInit /\ [][AnyNext]_all

------------------------------------------------------------------------------
(* The types of what the behaviour is about.                               *)
TypesOK ==
  CASE subject = "engine"       -> TypeOK
    [] subject = "OUTPC"        -> Contents!TypeOK
    [] subject = "OUTPC, debug" -> Debugging!TypeOK
    [] subject = "conditions"   -> Ini!TypeOK
    [] subject = "columns"      -> Columns!TypeOK
    [] subject = "tune"         -> Tune!TypeOK
    [] subject = "C client"     -> method \in STRING

(* What encoders and decoders in five programs make of each other's        *)
(* numbers.  The dash and inspect_capture show each value that the older   *)
(* simulator encoded, up to one step of the field, and the daemon each     *)
(* that ecuSim encoded, also in its debug mode, but shifted by the         *)
(* translation times the scale less one where a field has a translation;   *)
(* unless a field encoded later has its bytes.  Flags that share a byte    *)
(* are those of the engine; no field spills into another (encode_field,    *)
(* decode_field, _encode_field, ms2d_decode_field).                        *)
BlocksAreShown ==
  /\ subject = "OUTPC" => /\ Contents!OldIsShown
                          /\ Contents!EcuIsShown
                          /\ Contents!FlagsAreShown
  /\ subject = "OUTPC, debug" => Debugging!EcuIsShown

(* However blocks are nested, each of the readers of the INI file that     *)
(* know conditions keeps just the fields of the branches its own symbols   *)
(* select, the daemon those of any project, on the page of the last page   *)
(* directive; an #else with a comment behind it is none for any of them.   *)
(* The daemon finds the definition that its symbols select unless it is    *)
(* repeated.  Where there are no conditions ecuSim, the dash and           *)
(* inspect_capture have the same fields (_process_line,                    *)
(* parse_ini_output_channels, ms2d_ini_parse, ms2d_find_field).            *)
IniIsRead ==
  subject = "conditions" => /\ Ini!ReadersFollowConditions
                            /\ Ini!ConstantsPaged
                            /\ Ini!DaemonFindsTheSame
                            /\ Ini!AllAgreeWithoutConditions

(* Every constant is served as the last number that the file has for it on *)
(* its own page, what no entry set is zero (load_from_msq), and MSQParser  *)
(* returns the same for a page that is in the file once and numbered.      *)
TuneIsRead == subject = "tune" => /\ Tune!TuneIsServed
                                  /\ Tune!NothingElseIsServed
                                  /\ Tune!ReadersAgree

(* Texts are cut where their columns and values are.  Definitions of the   *)
(* INI file are cut just at the commas outside quotes.  ecuSim, the dash   *)
(* and the older simulator read the same field from them; the daemon does, *)
(* too, but for capitals and a translation that is no number; and so does  *)
(* inspect_capture, but that it drops scale and translation beside a       *)
(* comment (split_respecting_quotes, parse_field_line,                     *)
(* parse_output_channel_field, parse_ini_fields).  What the C client finds *)
(* in an answer about one field, all names or the status is what the       *)
(* daemon has put in, and it refuses every list of values (ms2_client.c).  *)
TextsAreRead ==
  /\ subject = "columns" => /\ Columns!SplitsAtOuterCommas
                            /\ Columns!ReadersAgree
                            /\ Columns!DaemonReads
                            /\ Columns!InspectReads
  /\ subject = "C client" => Library!FindsTheAnswer /\ Library!RefusesLists
===============================================================================
