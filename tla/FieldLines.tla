------------------------------ MODULE FieldLines -------------------------------
(***************************************************************************)
(* How the programs of the repository read the definition of a field, the  *)
(* right side of a line of the INI file such as                            *)
(*     scalar, S16, 74, "V", 0.01, 0.0 ; was omitted                       *)
(* The text is split at commas, and each column read by its position, so   *)
(* that a comma or a quote in the wrong place, or a comment, may shift or  *)
(* spoil the columns.                                                      *)
(*                                                                         *)
(* A text is a sequence of tokens: commas, quotes, numbers, words.  It     *)
(* grows column by column.  Spaces are left out.  Every reader skips a     *)
(* line of OutputChannels with an expression in braces; constants, which   *)
(* ecuSim alone reads, may have one.                                       *)
(***************************************************************************)
EXTENDS Naturals, Sequences, SequencesExt, FiniteSetsExt

CONSTANTS
  Numbers,  (* tokens that are numbers                                     *)
  Columns   (* Columns[k]: what the k-th column may be, a set of texts     *)

Comma  == ","
Double == "\""
Single == "'"

VARIABLES text, columns

vars == <<text, columns>>

Init == /\ \E c \in Columns[1] : text = c
        /\ columns = 1

(* The next column.                                                        *)
Grow == /\ columns < Len(Columns)
        /\ \E c \in Columns[columns + 1] : text' = text \o <<Comma>> \o c
        /\ columns' = columns + 1

Spec == Init /\ [][Grow]_vars

------------------------------------------------------------------------------
(* Splitting.                                                              *)

(* All columns: a comma between a quote and the next one of the same sort  *)
(* does not count.                                                         *)
AllParts(s, quotes) ==
  LET Step(c, acc) ==
        CASE acc.quote = "" /\ c \in quotes -> [acc EXCEPT !.current = Append(@, c), !.quote = c]
          [] c = acc.quote               -> [acc EXCEPT !.current = Append(@, c), !.quote = ""]
          [] c = Comma /\ acc.quote = "" -> [acc EXCEPT !.parts = Append(@, acc.current), !.current = << >>]
          [] OTHER                       -> [acc EXCEPT !.current = Append(@, c)]
      end == FoldRight(Step, Reverse(s), [parts |-> << >>, current |-> << >>, quote |-> ""])
  IN Append(end.parts, end.current)

(* split_respecting_quotes, with the quotes it respects: a last part that  *)
(* is empty is left out.  A faulty variant: it is kept.                    *)
SplitKeepingEmpty(s, quotes) == AllParts(s, quotes)

Split(s, quotes) ==
  LET parts == AllParts(s, quotes)
  IN IF Last(parts) = << >> THEN Front(parts) ELSE parts

EcuSplit(s)  == Split(s, {Double})
DashSplit(s) == Split(s, {Double, Single})
OldSplit(s)  == Split(s, {Double})
InspectSplit(s) == AllParts(s, {})    (* str.split                         *)

(* split_csv_preserving_quotes keeps a last part that is empty; of its 16  *)
(* parts at most, six are read.                                            *)
DaemonSplit(s) == AllParts(s, {Double, Single})

------------------------------------------------------------------------------
(* Columns.                                                                *)

IsNumber(part) == Len(part) = 1 /\ part[1] \in Numbers

FirstNumber(part, none) ==
  LET i == SelectInSeq(part, LAMBDA c : c \in Numbers) IN IF i = 0 THEN none ELSE part[i]

(* The first number in the column, or 1, also where 0 is the default of a  *)
(* column that is missing.                                                 *)
Numeric(part) == FirstNumber(part, "1")
DashNumeric(part) == Numeric(part)
OldNumeric(part)  == Numeric(part)

(* strip: the double quotes at both ends are left out.                     *)
Unquoted(part) ==
  LET inner == {i \in DOMAIN part : part[i] # Double}
  IN IF inner = {} THEN << >> ELSE SubSeq(part, Min(inner), Max(inner))

Or(parts, k, Reading(_), default) == IF Len(parts) >= k THEN Reading(parts[k]) ELSE default

(* "[lo:hi]" and "[n]" are one token each.                                 *)
Ranged(part) == IF Contains(part, "[0:3]") THEN "[0:3]" ELSE ""
Sized(part)  == IF Contains(part, "[6]") THEN "[6]" ELSE ""

(* str.lower                                                               *)
Kind(parts) == IF parts[1] = <<"Scalar">> THEN <<"scalar">> ELSE parts[1]

None == [type |-> "none"]

Field(type, data, offset, units, scale, translate, range) ==
  [type |-> type, data |-> data, offset |-> offset, units |-> units,
   scale |-> scale, translate |-> translate, range |-> range]

Readable(parts) == Len(parts) >= 3 /\ IsNumber(parts[3])

(* A faulty variant: what is not an array is a scalar.                     *)
EcuFieldAny(s) ==
  LET p == EcuSplit(s)
  IN IF ~Readable(p) THEN None
     ELSE Field(Kind(p)[1], p[2][1], p[3][1], Or(p, 4, Unquoted, << >>), Or(p, 5, Numeric, "1"),
                Or(p, 6, Numeric, "0"), "")

EcuField(s) ==
  LET p == EcuSplit(s)
      Of(k) == Field(Kind(p)[1], p[2][1], p[3][1],
                     Or(p, k, Unquoted, << >>), Or(p, k + 1, Numeric, "1"), Or(p, k + 2, Numeric, "0"),
                     IF k = 5 THEN Or(p, 4, Sized, "") ELSE "")
  IN IF ~Readable(p) THEN None
     ELSE CASE Kind(p) = <<"scalar">> -> Of(4)
            [] Kind(p) = <<"array">>  -> Of(5)
            [] Kind(p) = <<"bits">>   ->
                 Field("bits", p[2][1], p[3][1], << >>, "1", "0", Or(p, 4, Ranged, ""))
            [] OTHER -> None

(* A line of scalars or bits, split into columns p.                        *)
ScalarOrBits(p, Number(_)) ==
  IF ~Readable(p) THEN None
  ELSE CASE Kind(p) = <<"scalar">> ->
              Field("scalar", p[2][1], p[3][1], Or(p, 4, Unquoted, << >>),
                    Or(p, 5, Number, "1"), Or(p, 6, Number, "0"), "")
         [] Kind(p) = <<"bits">> ->
              Field("bits", p[2][1], p[3][1], << >>, "1", "0", Or(p, 4, Ranged, ""))
         [] OTHER -> None

(* A faulty variant: the last column is left out.                          *)
DashFieldShort(s) ==
  LET p == DashSplit(s) IN IF p = << >> THEN None ELSE ScalarOrBits(Front(p), DashNumeric)

DashField(s) == ScalarOrBits(DashSplit(s), DashNumeric)
OldField(s)  == ScalarOrBits(OldSplit(s), OldNumeric)

(* inspect_capture keeps scalars only; a column that is not just a number  *)
(* makes it take both defaults.  A faulty variant: one has the column of   *)
(* the other.                                                              *)
InspectFieldShifted(s) ==
  LET p == InspectSplit(s)
      Plain(k, d) == IF Len(p) >= k /\ IsNumber(p[k]) THEN p[k][1] ELSE d
  IN IF ~Readable(p) \/ Kind(p) # <<"scalar">> THEN None
     ELSE Field("scalar", p[2][1], p[3][1], Or(p, 4, Unquoted, << >>), Plain(6, "1"), Plain(5, "0"), "")

InspectField(s) ==
  LET p == InspectSplit(s)
      plain == \A k \in {5, 6} \cap DOMAIN p : IsNumber(p[k])
  IN IF ~Readable(p) \/ Kind(p) # <<"scalar">> THEN None
     ELSE Field("scalar", p[2][1], p[3][1], Or(p, 4, Unquoted, << >>),
                IF plain /\ Len(p) >= 5 THEN p[5][1] ELSE "1",
                IF plain /\ Len(p) >= 6 THEN p[6][1] ELSE "0", "")

(* The daemon takes small letters only, 0 for an offset that is no number, *)
(* and of bits just where they are.  It takes one quote off each end of    *)
(* the units, where there is one at most.  A faulty variant: quotes do not *)
(* count when the line is split.                                           *)
DaemonScalar(p) ==
  Field("scalar", p[2][1], IF p[3][1] \in Numbers THEN p[3][1] ELSE "0",
        Or(p, 4, Unquoted, << >>),
        IF Len(p) > 4 THEN FirstNumber(p[5], "1") ELSE "1",
        IF Len(p) > 5 THEN FirstNumber(p[6], "0") ELSE "0", "")

DaemonRead(p) ==
  IF Len(p) < 3 THEN None
  ELSE CASE p[1] = <<"scalar">> -> DaemonScalar(p)
         [] p[1] = <<"bits">> ->
              [DaemonScalar(p) EXCEPT !.type = "bits", !.data = "", !.units = << >>,
                                      !.scale = "1", !.translate = "0"]
         [] OTHER -> None

DaemonFieldBare(s) == DaemonRead(InspectSplit(s))

DaemonField(s) == DaemonRead(DaemonSplit(s))

------------------------------------------------------------------------------
TypeOK == /\ text # << >> /\ columns \in 1 .. Len(Columns)
          /\ EcuField(text).type \in {"none", "scalar", "array", "bits"}

Before(s, i, q) == Quantify(1 .. i - 1, LAMBDA j : s[j] = q)

(* The commas of a text that separate its columns: an even number of       *)
(* double quotes comes before them.                                        *)
Separators(s) == {i \in DOMAIN s : s[i] = Comma /\ Before(s, i, Double) % 2 = 0}

(* The splitters of the simulators and, but for single quotes, that of the *)
(* dash cut the text just at the commas outside quotes, and lose none of   *)
(* it: each column is where the INI file has it.                           *)
SplitsAtOuterCommas ==
  LET bounds == {0} \cup Separators(text) \cup {Len(text) + 1}
      Bound(k) == CHOOSE i \in bounds : Quantify(bounds, LAMBDA j : j < i) = k
      proper == [k \in 1 .. Cardinality(bounds) - 1 |-> SubSeq(text, Bound(k - 1) + 1, Bound(k) - 1)]
      full   == IF Last(proper) = << >> THEN Front(proper) ELSE proper
  IN /\ EcuSplit(text) = full
     /\ ~Contains(text, Single) => DashSplit(text) = full

(* The dash, the older simulator and ecuSim read the same field from a     *)
(* line: what one of them encodes, another one decodes.  An array is for   *)
(* ecuSim alone, and single quotes count only for the dash.                *)
ReadersAgree ==
  /\ EcuField(text).type # "array" => OldField(text) = EcuField(text)
  /\ ~Contains(text, Single) => DashField(text) = OldField(text)

(* A line of OutputChannels that is read.                                  *)
Counts == ~Contains(text, "{")

(* The daemon reads from it what the dash reads, with two differences: it  *)
(* does not know a kind in other letters, and a column for the translation *)
(* in which there is no number is 0 to it and 1 to the others.  Of bits it *)
(* keeps the offset.                                                       *)
DaemonReads ==
  LET p == DashSplit(text)
      f == DashField(text)
  IN Counts /\ f.type # "none" =>
       DaemonField(text) =
         CASE p[1] # Kind(p)     -> None
           [] f.type = "bits"    -> [f EXCEPT !.data = "", !.range = ""]
           [] f.type = "scalar"  ->
                [f EXCEPT !.translate = IF Len(p) >= 6 THEN FirstNumber(p[6], "0") ELSE @]

(* If no quoted text holds a comma, inspect_capture reads the scalars that *)
(* ecuSim reads, but with scale 1 and translation 0 if one of both columns *)
(* has more in it than a number, such as a comment.                        *)
InspectReads ==
  LET p == InspectSplit(text)
      plain == \A k \in {5, 6} \cap DOMAIN p : IsNumber(p[k])
      f == EcuField(text)
  IN Counts /\ f.type = "scalar" /\ Split(text, {}) = EcuSplit(text) =>
       InspectField(text) = IF plain THEN f ELSE [f EXCEPT !.scale = "1", !.translate = "0"]
===============================================================================
