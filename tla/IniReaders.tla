------------------------------ MODULE IniReaders ------------------------------
(***************************************************************************)
(* The five programs of the repository that read the INI file of a project *)
(* read it line by line, each with its own treatment of #if, #else, #endif *)
(* and sections: the simulator ecuSim, the dash, the older simulator,      *)
(* inspect_capture and the daemon.  They must agree on where a field of    *)
(* OUTPC is, or the numbers one of them shows are not those another one    *)
(* sends.                                                                  *)
(*                                                                         *)
(* The file grows here line by line, and each reader takes each line.  A   *)
(* reference reader that knows what the file says goes along.              *)
(***************************************************************************)
EXTENDS Naturals, Sequences, SequencesExt

CONSTANTS
  Lines,     (* the lines a file may have                                  *)
  Names,     (* names of fields                                            *)
  Projects,  (* the ecuSettings that a project may have                    *)
  MaxDepth,  (* MS2D_COND_STACK_MAX, 64 in the code                        *)
  MaxNest,   (* bound: the depth of blocks                                 *)
  MaxLines   (* bound: the lines of a file                                 *)

(* The kinds of lines: "if" on a condition, "else", "endif", "set" and     *)
(* "unset" of CAN_COMMANDS, "section" of a name, "page" and "signature"    *)
(* with their value, and "field" of a name with its definition.  A         *)
(* "commented" line is an #else with a comment behind it, or an #elif: to  *)
(* every reader a line like any other, which says nothing of a field.  A   *)
(* condition with a comment behind it is one that no reader knows.         *)
Line(kind, on, def) == [kind |-> kind, on |-> on, def |-> def]

VARIABLES
  proper, (* the reference, once for each reader                           *)
  ecu, dash, old, inspect, daemon, (* the readers                          *)
  odd,    (* history: the file has what no reader need understand          *)
  deep,   (* history: the file has blocks beyond MaxDepth                  *)
  conditional, (* history: the file has blocks                             *)
  lines   (* history: how many lines there were                            *)

vars == <<proper, ecu, dash, old, inspect, daemon, odd, deep, conditional, lines>>

NoFields == [n \in {} |-> 0]

Put(fields, n, d) == [m \in DOMAIN fields \cup {n} |-> IF m = n THEN d ELSE fields[m]]

AllTrue(stack) == \A i \in DOMAIN stack : stack[i]

Flip(stack) == IF stack = << >> THEN stack ELSE [stack EXCEPT ![Len(stack)] = ~@]

(* A faulty variant: a block never ends.                                   *)
PopNothing(stack) == stack

Pop(stack) == IF stack = << >> THEN stack ELSE Front(stack)

------------------------------------------------------------------------------
(* ecuSim.                                                                 *)

EcuTrue(r, condition) ==
  IF condition = "CAN_COMMANDS" THEN r.can ELSE condition # "CELSIUS"

ParseOutputChannel(r, line) ==
  IF line.kind = "field" THEN [r EXCEPT !.fields = Put(@, line.on, line.def)] ELSE r

(* A faulty variant: a constant is put on the page when it is looked up.   *)
ParseConstantLate(r, line) ==
  CASE line.kind = "page"  -> [r EXCEPT !.page = line.def,
                                        !.constants = [n \in DOMAIN @ |-> <<line.def, @[n][2]>>]]
    [] line.kind = "field" -> [r EXCEPT !.constants = Put(@, line.on, <<r.page, line.def>>)]
    [] OTHER -> r

(* A constant belongs to the page of the last page directive.              *)
ParseConstant(r, line) ==
  CASE line.kind = "page"  -> [r EXCEPT !.page = line.def]
    [] line.kind = "field" -> [r EXCEPT !.constants = Put(@, line.on, <<r.page, line.def>>)]
    [] OTHER -> r

InSectionOfEcu(r, line) ==
  CASE r.section = "OutputChannels" -> ParseOutputChannel(r, line)
    [] r.section = "Constants"      -> ParseConstant(r, line)
    [] OTHER -> r

(* A line that counts.                                                     *)
TakeLine(r, line) ==
  CASE line.kind = "section"   -> [r EXCEPT !.section = line.on]
    [] line.kind = "signature" -> [r EXCEPT !.signature = line.def]
    [] OTHER -> InSectionOfEcu(r, line)

ProcessLine(r, line) ==
  CASE line.kind = "if"      -> [r EXCEPT !.stack = Append(@, EcuTrue(r, line.on))]
    [] line.kind = "else"    -> [r EXCEPT !.stack = Flip(@)]
    [] line.kind = "endif"   -> [r EXCEPT !.stack = Pop(@)]
    [] line.kind = "set"     -> [r EXCEPT !.can = TRUE]
    [] line.kind = "unset"   -> [r EXCEPT !.can = FALSE]
    [] OTHER -> IF AllTrue(r.stack) THEN TakeLine(r, line) ELSE r

------------------------------------------------------------------------------
(* The dash and the older simulator: neither CELSIUS nor CAN_COMMANDS.     *)

(* Lines that every reader with a section flag takes when it is active.    *)
InSection(r, line) ==
  CASE line.kind = "section" -> [r EXCEPT !.in = line.on = "OutputChannels"]
    [] line.kind = "field" /\ r.in -> [r EXCEPT !.fields = Put(@, line.on, line.def)]
    [] OTHER -> r

(* A faulty variant: only the innermost block counts.                      *)
DashLineInnermost(r, line) ==
  CASE line.kind = "if"    -> [r EXCEPT !.stack = Append(@, line.on \notin {"CELSIUS", "CAN_COMMANDS"})]
    [] line.kind = "else"  -> [r EXCEPT !.stack = Flip(@)]
    [] line.kind = "endif" -> [r EXCEPT !.stack = Pop(@)]
    [] OTHER -> IF r.stack = << >> \/ Last(r.stack) THEN InSection(r, line) ELSE r

DashLine(r, line) ==
  CASE line.kind = "if"    -> [r EXCEPT !.stack = Append(@, line.on \notin {"CELSIUS", "CAN_COMMANDS"})]
    [] line.kind = "else"  -> [r EXCEPT !.stack = Flip(@)]
    [] line.kind = "endif" -> [r EXCEPT !.stack = Pop(@)]
    [] OTHER -> IF AllTrue(r.stack) THEN InSection(r, line) ELSE r

(* The older simulator looks for the signature before it looks at the      *)
(* section, and in every one.                                              *)
OldLine(r, line) ==
  CASE line.kind = "if"    -> [r EXCEPT !.stack = Append(@, line.on \notin {"CELSIUS", "CAN_COMMANDS"})]
    [] line.kind = "else"  -> [r EXCEPT !.stack = Flip(@)]
    [] line.kind = "endif" -> [r EXCEPT !.stack = Pop(@)]
    [] OTHER ->
         IF ~AllTrue(r.stack) THEN r
         ELSE IF line.kind = "signature" THEN [r EXCEPT !.signature = line.def]
         ELSE InSection(r, line)

(* inspect_capture knows no conditions.  A faulty variant: any section     *)
(* counts once there was one.                                              *)
InspectLineAnywhere(r, line) ==
  InSection(IF line.kind = "section" THEN [r EXCEPT !.in = TRUE] ELSE r,
            IF line.kind = "section" THEN Line("other", "", 0) ELSE line)

InspectLine(r, line) == InSection(r, line)

------------------------------------------------------------------------------
(* The daemon has its symbols from the ecuSettings of the project.  Fields *)
(* are kept in the order of the file, repeated ones too.                   *)
DaemonTrue(r, condition) ==
  CASE condition = "FAHRENHEIT"       -> r.fahrenheit
    [] condition = "CELSIUS"          -> ~r.fahrenheit
    [] condition = "CAN_COMMANDS"     -> r.can
    [] condition = "NOT_CAN_COMMANDS" -> ~r.can
    [] OTHER                          -> TRUE

InSectionOfDaemon(r, line) ==
  CASE line.kind = "section" -> [r EXCEPT !.in = line.on = "OutputChannels"]
    [] line.kind = "field" /\ r.in -> [r EXCEPT !.fields = Append(@, <<line.on, line.def>>)]
    [] OTHER -> r

(* A faulty variant: only the innermost block is kept.                     *)
DaemonLineReset(r, line) ==
  CASE line.kind = "if"      -> [r EXCEPT !.stack = <<DaemonTrue(r, line.on)>>]
    [] line.kind = "else"    -> [r EXCEPT !.stack = Flip(@)]
    [] line.kind = "endif"   -> [r EXCEPT !.stack = Pop(@)]
    [] OTHER -> IF AllTrue(r.stack) THEN InSectionOfDaemon(r, line) ELSE r

DaemonLine(r, line) ==
  CASE line.kind = "if" ->
         IF Len(r.stack) < MaxDepth
           THEN [r EXCEPT !.stack = Append(@, DaemonTrue(r, line.on))] ELSE r
    [] line.kind = "else"    -> [r EXCEPT !.stack = Flip(@)]
    [] line.kind = "endif"   -> [r EXCEPT !.stack = Pop(@)]
    [] OTHER -> IF AllTrue(r.stack) THEN InSectionOfDaemon(r, line) ELSE r

(* ms2d_find_field returns the first field of a name.                      *)
Find(r, n) == LET first == SelectInSeq(r.fields, LAMBDA f : f[1] = n)
              IN IF first = 0 THEN {} ELSE {r.fields[first][2]}

------------------------------------------------------------------------------
(* The reference: what the file says to a reader with the given symbols.   *)
(* It knows for each open block what its condition was and on which side   *)
(* of the #else the reader is.                                             *)

Here(r) == \A i \in DOMAIN r.blocks : r.blocks[i].holds # r.blocks[i].past

(* Where the file sets CAN_COMMANDS, NOT_CAN_COMMANDS is a symbol of its   *)
(* own.                                                                    *)
ProperTrue(r, condition) ==
  CASE condition = "FAHRENHEIT"       -> r.fahrenheit
    [] condition = "CELSIUS"          -> ~r.fahrenheit
    [] condition = "CAN_COMMANDS"     -> r.can
    [] condition = "NOT_CAN_COMMANDS" -> r.obeys \/ ~r.can
    [] OTHER                          -> TRUE

ProperlyTaken(r, line) ==
  CASE line.kind \in {"set", "unset"} -> IF r.obeys THEN [r EXCEPT !.can = line.kind = "set"] ELSE r
    [] line.kind = "section" -> [r EXCEPT !.section = line.on]
    [] line.kind = "signature" -> [r EXCEPT !.signature = line.def]
    [] line.kind = "page" /\ r.section = "Constants" -> [r EXCEPT !.page = line.def]
    [] line.kind = "field" /\ r.section = "Constants" ->
         [r EXCEPT !.constants = Put(@, line.on, <<r.page, line.def>>)]
    [] line.kind = "field" /\ r.section = "OutputChannels" ->
         [r EXCEPT !.fields = Put(@, line.on, line.def)]
    [] OTHER -> r

ProperLine(r, line) ==
  CASE line.kind = "if" -> [r EXCEPT !.blocks = Append(@, [holds |-> ProperTrue(r, line.on), past |-> FALSE])]
    [] line.kind = "else" ->
         IF r.blocks = << >> THEN r ELSE [r EXCEPT !.blocks[Len(r.blocks)].past = TRUE]
    [] line.kind = "endif" -> IF r.blocks = << >> THEN r ELSE [r EXCEPT !.blocks = Front(@)]
    [] OTHER -> IF Here(r) THEN ProperlyTaken(r, line) ELSE r

------------------------------------------------------------------------------
Reader == [stack |-> << >>, in |-> FALSE, fields |-> NoFields, signature |-> 0]

EcuReader == [stack |-> << >>, can |-> TRUE, section |-> "", page |-> 0,
              fields |-> NoFields, constants |-> NoFields, signature |-> 0]

DaemonReader(fahrenheit, can) ==
  [stack |-> << >>, fahrenheit |-> fahrenheit, can |-> can, in |-> FALSE, fields |-> << >>]

(* obeys: #set and #unset count, as they do for ecuSim.                    *)
ProperReader(fahrenheit, can, obeys) ==
  [blocks |-> << >>, fahrenheit |-> fahrenheit, can |-> can, obeys |-> obeys,
   section |-> "", page |-> 0,
   fields |-> NoFields, constants |-> NoFields, signature |-> 0]

Init == /\ \E s \in Projects :
             /\ proper = [ecu |-> ProperReader(TRUE, TRUE, TRUE),
                          plain |-> ProperReader(TRUE, FALSE, FALSE),
                          daemon |-> ProperReader(s.fahrenheit, s.can, FALSE)]
             /\ daemon = DaemonReader(s.fahrenheit, s.can)
        /\ ecu = EcuReader
        /\ dash = Reader /\ old = Reader /\ inspect = Reader
        /\ odd = FALSE /\ deep = FALSE /\ conditional = FALSE
        /\ lines = 0

Open == proper.plain.blocks

(* A second #else in a block, or a symbol changed in a block that is       *)
(* skipped: the readers take both for what they are elsewhere.             *)
Odd(line) == \/ line.kind = "else" /\ Open # << >> /\ Last(Open).past
             \/ line.kind \in {"set", "unset"} /\ ~Here(proper.ecu)

Read(line) ==
  /\ lines < MaxLines
  /\ line.kind = "if" => Len(Open) < MaxNest
  /\ proper' = [p \in DOMAIN proper |-> ProperLine(proper[p], line)]
  /\ ecu' = ProcessLine(ecu, line)
  /\ dash' = DashLine(dash, line)
  /\ old' = OldLine(old, line)
  /\ inspect' = InspectLine(inspect, line)
  /\ daemon' = DaemonLine(daemon, line)
  /\ odd' = (odd \/ Odd(line))
  /\ deep' = (deep \/ (line.kind = "if" /\ Len(Open) >= MaxDepth))
  /\ conditional' = (conditional \/ line.kind = "if")
  /\ lines' = lines + 1

Next == \E line \in Lines : Read(line)

Spec == Init /\ [][Next]_vars

------------------------------------------------------------------------------
(* The stacks of the readers are as deep as the blocks of the file, but    *)
(* for the daemon's, which ends at MaxDepth.                               *)
TypeOK == /\ DOMAIN ecu.fields \cup DOMAIN ecu.constants \subseteq Names
          /\ DOMAIN dash.fields \cup DOMAIN old.fields \cup DOMAIN inspect.fields \subseteq Names
          /\ Len(daemon.stack) <= MaxDepth
          /\ {Len(ecu.stack), Len(dash.stack), Len(old.stack)} = {Len(Open)}
          /\ lines \in 0 .. MaxLines

(* However blocks are nested, each reader keeps just the fields of the     *)
(* branches its symbols select, in the definition the file gives last: the *)
(* stacks of _process_line and of both parse_ini_output_channels tell      *)
(* which lines count.  A block turns at a bare #else only.                 *)
ReadersFollowConditions ==
  ~odd => /\ ecu.fields = proper.ecu.fields /\ ecu.signature = proper.ecu.signature
          /\ dash.fields = proper.plain.fields
          /\ old.fields = proper.plain.fields /\ old.signature = proper.plain.signature

(* A constant lies on the page of the last page directive before it        *)
(* (_parse_constant), whatever was skipped in between.                     *)
ConstantsPaged == ~odd => ecu.constants = proper.ecu.constants

(* The daemon finds the definition its symbols select, unless a name is    *)
(* defined twice in what counts: the first one wins there                  *)
(* (ms2d_find_field), the last one in the dictionaries of the others.      *)
DaemonFindsTheSame ==
  ~odd /\ ~deep =>
    \A n \in Names :
      (\A i, j \in DOMAIN daemon.fields :
          daemon.fields[i][1] = n /\ daemon.fields[j][1] = n => i = j) =>
        Find(daemon, n) = {proper.daemon.fields[m] : m \in {n} \cap DOMAIN proper.daemon.fields}

(* Without conditions inspect_capture, too, reads the file as the others.  *)
AllAgreeWithoutConditions ==
  ~conditional => /\ inspect.fields = dash.fields
                  /\ ecu.fields = dash.fields
===============================================================================
