------------------------------- MODULE TuneFile --------------------------------
(***************************************************************************)
(* The two readers of a tune file (.msq) of ecuSim: PageBuilder puts the   *)
(* constants into the pages that are served to TunerStudio, MSQParser      *)
(* keeps them as values by page and name.                                  *)
(*                                                                         *)
(* The file grows by one element, and both readers take it: every state is *)
(* what they make of a whole file.  A text is plain, quoted or a table of  *)
(* cols by rows; its values are tenths, or Word for what is no number.     *)
(***************************************************************************)
EXTENDS FieldCodec

CONSTANTS
  Constants,   (* the definitions of the INI file, by name                 *)
  PageSize,    (* bytes of a page                                          *)
  Numbers,     (* numbers that page elements have                          *)
  Unnumbered,  (* one of them: the attribute is missing                    *)
  Texts,       (* Texts[name]: the texts the constant may have             *)
  Word,        (* a text that is no number                                 *)
  MaxElements  (* bound: elements of the file                              *)

VARIABLES
  file,       (* the page elements: [number, entries]                      *)
  pages,      (* PageBuilder.pages, by the number in the file              *)
  parsed      (* TuneData.pages in the order of their first appearance     *)

vars == <<file, pages, parsed>>

PageNumbers == 0 .. 6
Sum(s) == LET f[i \in 0 .. Len(s)] == IF i = 0 THEN 0 ELSE f[i - 1] + 1 + Len(s[i].entries)
          IN f[Len(s)]

------------------------------------------------------------------------------
(* PageBuilder.                                                            *)

(* int(round(a / b)): halves to the even side.                             *)
Rounded(a, b) ==
  LET q == a \div b
      r == 2 * (a % b)
  IN IF r > b \/ (r = b /\ q % 2 = 1) THEN q + 1 ELSE q

Raw(f, v) ==
  Clamp(f, IF f.num # 0 THEN Rounded(v * f.den - f.translate * f.num, 10 * f.num)
                        ELSE Rounded(v, 10))

(* The definition that _encode_array uses for entry i.                     *)
Entry(f, i) == [f EXCEPT !.offset = @ + (i - 1) * Size(f)]

(* A text that is no number is the bits 0, and leaves a scalar alone.      *)
EncodeBits(buffer, f, text) ==
  IF f.width = 0 THEN buffer
  ELSE LET value == IF Len(text.values) = 1 /\ text.values[1] # Word
                      THEN Quotient(text.values[1], 10) ELSE 0
           old   == buffer[f.offset + 1]
           field == (old \div 2 ^ f.low) % 2 ^ f.width
       IN [buffer EXCEPT ![f.offset + 1] = old + ((value % 2 ^ f.width) - field) * 2 ^ f.low]

EncodeScalar(buffer, f, text) ==
  IF Len(text.values) # 1 \/ text.form = "quoted" \/ text.values[1] = Word THEN buffer
  ELSE Pack(buffer, f, Bytes(f, Raw(f, text.values[1])))

(* A faulty variant: every entry takes one byte.                           *)
EncodeArrayBytes(buffer, f, text) ==
  LET put[i \in 0 .. Len(text.values)] ==
        IF i = 0 THEN buffer
        ELSE LET e == [f EXCEPT !.offset = @ + i - 1]
             IN Pack(put[i - 1], e, Bytes(f, Raw(f, IF text.values[i] = Word THEN 0 ELSE text.values[i])))
  IN put[Len(text.values)]

(* Entries that are no numbers are zeros; the page ends the table.         *)
EncodeArray(buffer, f, text) ==
  LET value(i) == IF text.form = "quoted" \/ text.values[i] = Word THEN 0 ELSE text.values[i]
      put[i \in 0 .. Len(text.values)] ==
        IF i = 0 THEN buffer
        ELSE IF ~InBlock(Entry(f, i), buffer) THEN put[i - 1]
        ELSE Pack(put[i - 1], Entry(f, i), Bytes(f, Raw(f, value(i))))
  IN put[Len(text.values)]

(* The size of a table is that of its first dimension.                     *)
EncodeConstant(buffer, f, text) ==
  IF f.offset + Size(f) * f.first > Len(buffer) THEN buffer
  ELSE CASE f.kind = "bits"   -> EncodeBits(buffer, f, text)
         [] f.kind = "scalar" -> EncodeScalar(buffer, f, text)
         [] OTHER             -> EncodeArray(buffer, f, text)

(* A faulty variant: the page of the definition is not compared.           *)
LoadAnywhere(number, name, text) ==
  IF number \notin PageNumbers \/ name \notin DOMAIN Constants THEN pages
  ELSE [pages EXCEPT ![number] = EncodeConstant(@, Constants[name], text)]

(* The pages of the INI file are counted from 1.  An element without a     *)
(* number is skipped, like one whose number no page has.                   *)
Load(number, name, text) ==
  IF number \notin PageNumbers \/ name \notin DOMAIN Constants THEN pages
  ELSE IF Constants[name].page # number + 1 THEN pages
  ELSE [pages EXCEPT ![number] = EncodeConstant(@, Constants[name], text)]

------------------------------------------------------------------------------
(* MSQParser.                                                              *)

(* A faulty variant: rows and columns are swapped.                         *)
ParseArrayTransposed(text) ==
  IF text.cols > 1 /\ text.rows > 1 /\ Len(text.values) = text.cols * text.rows
    THEN [i \in 1 .. text.cols |-> [j \in 1 .. text.rows |-> text.values[(i - 1) + (j - 1) * text.cols + 1]]]
    ELSE <<text.values>>

(* A table whose count is not cols * rows stays one row.                   *)
ParseArray(text) ==
  IF text.cols > 1 /\ text.rows > 1 /\ Len(text.values) = text.cols * text.rows
    THEN [i \in 1 .. text.rows |-> SubSeq(text.values, (i - 1) * text.cols + 1, i * text.cols)]
    ELSE <<text.values>>

ParseValue(text) ==
  IF text.cols > 0 \/ text.rows > 0 THEN [is |-> "list", rows |-> ParseArray(text)]
  ELSE [is |-> IF text.form = "plain" /\ text.values # <<>> /\ text.values[1] # Word
                 THEN "number" ELSE "string",
        rows |-> <<text.values>>]

(* A page without a number is page 0.                                      *)
PageOf(number) == IF number = Unnumbered THEN 0 ELSE number

Places(number) == {i \in DOMAIN parsed : parsed[i].number = number}

(* A faulty variant: the first page of a number is read, and no other.     *)
ParsePageFirst(number) ==
  IF parsed = <<>> THEN <<[number |-> number, data |-> <<>>]>> ELSE parsed

(* A page that comes again replaces the first one, in its place.           *)
ParsePage(number) ==
  IF Places(number) = {}
    THEN Append(parsed, [number |-> number, data |-> <<>>])
    ELSE [i \in DOMAIN parsed |->
            IF i \in Places(number) THEN [parsed[i] EXCEPT !.data = <<>>] ELSE parsed[i]]

(* data is a sequence of entries: the last one of a name counts.           *)
ParseConstant(number, name, text) ==
  [i \in DOMAIN parsed |->
     IF i \in Places(number)
       THEN [parsed[i] EXCEPT !.data = Append(@, [name |-> name, value |-> ParseValue(text)])]
       ELSE parsed[i]]

------------------------------------------------------------------------------
Init == /\ file = <<>>
        /\ pages = [n \in PageNumbers |-> [i \in 1 .. PageSize |-> 0]]
        /\ parsed = <<>>

(* The next element is a page.                                             *)
Page == \E number \in Numbers :
  /\ Sum(file) < MaxElements
  /\ file' = Append(file, [number |-> number, entries |-> <<>>])
  /\ parsed' = ParsePage(PageOf(number))
  /\ UNCHANGED pages

(* The next element is a constant of the page.                             *)
Constant == \E name \in DOMAIN Texts : \E text \in Texts[name] :
  /\ file # <<>> /\ Sum(file) < MaxElements
  /\ LET number == file[Len(file)].number
     IN /\ file' = [file EXCEPT ![Len(file)].entries = Append(@, [name |-> name, text |-> text])]
        /\ pages' = Load(number, name, text)
        /\ parsed' = ParseConstant(PageOf(number), name, text)

Next == Page \/ Constant

Spec == Init /\ [][Next]_vars

------------------------------------------------------------------------------
TypeOK == /\ \A n \in PageNumbers : pages[n] \in [1 .. PageSize -> 0 .. 255]
          /\ {parsed[i].number : i \in DOMAIN parsed} = {PageOf(file[i].number) : i \in DOMAIN file}

(* The entries of the file that set constant name, in order.               *)
Sets(name) ==
  LET f == Constants[name]
      ok(e) == /\ e.name = name
               /\ CASE f.kind = "array" -> e.text.values # <<>> [] f.kind = "bits" -> TRUE
                    [] OTHER -> e.text.form = "plain" /\ e.text.values[1] # Word
      from(p) == IF p.number = f.page - 1 THEN SelectSeq(p.entries, ok) ELSE <<>>
      all[i \in 0 .. Len(file)] == IF i = 0 THEN <<>> ELSE all[i - 1] \o from(file[i])
  IN all[Len(file)]

(* What TunerStudio finds in the page of f, and whether it shows v.        *)
Found(f) ==
  LET buffer == pages[f.page - 1] IN
  IF f.kind = "bits" THEN (buffer[f.offset + 1] \div 2 ^ f.low) % 2 ^ f.width
                     ELSE Number(f, At(buffer, f))

Reads(f, v) == IF f.kind = "bits" THEN Found(f) = Quotient(v, 10) ELSE Shows(f, Found(f), v)

(* The pages serve the tune: every constant reads as the last number that  *)
(* the file has for it on its own page, and every entry of a table in the  *)
(* page, whatever constants share its byte, stand next to it or came       *)
(* before (load_from_msq).                                                 *)
TuneIsServed ==
  \A name \in DOMAIN Constants : LET f == Constants[name] IN
    Sets(name) # <<>> =>
      LET values == Sets(name)[Len(Sets(name))].text.values
      IN \A i \in DOMAIN values :
           values[i] # Word /\ InBlock(Entry(f, i), pages[0]) => Reads(Entry(f, i), values[i])

(* Constants of the file without a definition, on the page of another one  *)
(* or on one without a number, or without a number for a scalar leave the  *)
(* page as it was: what no entry set is zero.                              *)
NothingElseIsServed ==
  \A name \in DOMAIN Constants : LET f == Constants[name] IN
    Sets(name) = <<>> /\ InBlock(f, pages[0]) => Found(f) = 0

(* The two readers agree: on a page that is in the file once, and with its *)
(* number, a number or table that MSQParser returns is what the page       *)
(* serves.  (A page without a number is page 0 to MSQParser and none to    *)
(* PageBuilder.)                                                           *)
ReadersAgree ==
  \A k \in DOMAIN parsed : \A i \in DOMAIN parsed[k].data :
    LET name == parsed[k].data[i].name
        value == parsed[k].data[i].value
    IN /\ name \in DOMAIN Constants /\ value.is \in {"number", "list"}
       /\ \A j \in DOMAIN parsed[k].data : j > i => parsed[k].data[j].name # name
       /\ \E j \in DOMAIN file : /\ file[j].number = parsed[k].number
                                 /\ {h \in DOMAIN file : PageOf(file[h].number) = parsed[k].number} = {j}
       /\ Constants[name].page = parsed[k].number + 1
       => LET f == Constants[name] IN
          \A r \in DOMAIN value.rows : \A c \in DOMAIN value.rows[r] :
            LET e == Entry(f, (r - 1) * Len(value.rows[1]) + c)
            IN value.rows[r][c] # Word /\ InBlock(e, pages[0]) => Reads(e, value.rows[r][c])
===============================================================================
