----------------------------- MODULE EcuCommands ------------------------------
(***************************************************************************)
(* The commands of the ECU simulator (SerialProtocol.handle_request of     *)
(* protocol.py), and a tuning session on top of them: the client keeps its *)
(* own image of each page, writes its changes and compares checksums, over *)
(* a line that may lose a request or an answer.  A request without an      *)
(* answer is sent again.                                                   *)
(*                                                                         *)
(* A checksum is taken to tell any two contents apart, and is represented  *)
(* by the content.  Signature and version are one opaque text.             *)
(***************************************************************************)
EXTENDS Naturals, Sequences

CONSTANTS
  Byte,
  Configured, (* tables that have a page from the start, no special ones   *)
  Unknown,    (* tables that have none                                     *)
  Outpc,      (* what the OUTPC builder may return                         *)
  Text,       (* the signature, padded                                     *)
  PageSize,   (* of a configured page                                      *)
  NewSize,    (* of a page made by a write, 1024 in the code               *)
  MaxLength,  (* the largest number two bytes hold, 65535 in the code      *)
  Offsets, Counts, Contents, (* what requests are made of                  *)
  MaxFaults   (* bound: lost requests and answers                          *)

OutpcTable     == 7
VersionTable   == 14
SignatureTable == 15

Tables == Configured \cup Unknown
Special == {OutpcTable, VersionTable, SignatureTable}

ASSUME TablesAssumption == /\ Configured \cap Unknown = {}
                           /\ Tables \subseteq Nat
                           /\ Configured \cap Special = {}
ASSUME SizesAssumption == /\ PageSize \in Nat /\ NewSize \in Nat /\ MaxLength \in Nat
                          /\ 1 <= PageSize /\ PageSize <= NewSize /\ NewSize < MaxLength
ASSUME RequestsAssumption == /\ 0 \in Byte /\ Contents \subseteq Seq(Byte)
                             /\ Offsets \subseteq Nat /\ Counts \subseteq Nat
ASSUME MaxFaultsAssumption == MaxFaults \in Nat

VARIABLES
  pages,    (* _page_data                                                  *)
  modified, (* _pages_modified                                             *)
  alive,    (* no exception has ended the loop                             *)
  asked,    (* the request the client waits for                            *)
  line,     (* the request on its way                                      *)
  reply,    (* the answer on its way                                       *)
  image,    (* the client's copies of the pages, from a tune of its own    *)
  trusted,  (* the cells of the image it takes for those of the ECU        *)
  faults

vars == <<pages, modified, alive, asked, line, reply, image, trusted, faults>>

None == << >>

Zeros(n) == [i \in 1 .. n |-> 0]

(* data[offset : offset + count]                                           *)
Slice(data, offset, count) ==
  SubSeq(data, offset + 1, IF offset + count < Len(data) THEN offset + count ELSE Len(data))

Checksum(data) == <<data>>

Request(cmd, t, o, n, data) ==
  [cmd |-> cmd, table |-> t, offset |-> o, count |-> n, data |-> data]

(* A request too short for its command is "x", as an unknown command is.   *)
Requests ==
  {Request(c, 0, 0, 0, << >>) : c \in {"Q", "A", "S", "x"}}
    \cup {Request(c, t, o, n, << >>) : c \in {"r", "k"}, t \in Tables \cup Special,
                                       o \in Offsets, n \in Counts}
    \cup {Request("w", t, o, Len(d), d) : t \in Tables, o \in Offsets, d \in Contents}
    \cup {Request("b", t, 0, 0, << >>) : t \in Tables}

Size(t)  == IF t \in Configured THEN PageSize ELSE NewSize
Blank(t) == Zeros(Size(t))

(* set_page_data has given each configured table its page.                 *)
Init == /\ pages \in [Configured -> [1 .. PageSize -> Byte]]
        /\ modified = FALSE /\ alive = TRUE
        /\ asked = None /\ line = None /\ reply = None
        /\ image = [t \in Tables |-> Blank(t)]
        /\ trusted = {}
        /\ faults = 0

------------------------------------------------------------------------------
(* What the handlers answer.                                               *)

Response(flag, payload) == [flag |-> flag, payload |-> payload]

(* struct.pack(">H") of a longer answer raises struct.error.               *)
Fits(response) == 1 + Len(response.payload) <= MaxLength

SignatureQuery == Response("ok", Text)
VersionQuery   == Response("ok", Text)
RealtimeQuery(outpc) == Response("realtime", outpc)
Burn == Response("ok", << >>)

CanRead(q, outpc) ==
  CASE q.table \in {SignatureTable, VersionTable}
                               -> Response("ok", Slice(Text, q.offset, q.count))
    [] q.table = OutpcTable    -> Response("realtime", Slice(outpc, q.offset, q.count))
    [] q.table \in DOMAIN pages -> Response("ok", Slice(pages[q.table], q.offset, q.count))
    [] OTHER                   -> Response("ok", Zeros(q.count))

(* Faulty variants: the offset is left out; an unknown table has an empty  *)
(* checksum.                                                               *)
CrcFromStart(q) ==
  Response("ok", Checksum(IF q.table \in DOMAIN pages
                            THEN Slice(pages[q.table], 0, q.count) ELSE Zeros(q.count)))
CrcOfNothing(q) ==
  Response("ok", Checksum(IF q.table \in DOMAIN pages
                            THEN Slice(pages[q.table], q.offset, q.count) ELSE << >>))

CrcCheck(q) ==
  Response("ok", Checksum(IF q.table \in DOMAIN pages
                            THEN Slice(pages[q.table], q.offset, q.count)
                            ELSE Zeros(q.count)))

(* The page a write leaves: the write is dropped if it does not fit.       *)
Overwritten(page, q) ==
  IF q.offset + Len(q.data) > Len(page) THEN page
  ELSE [i \in DOMAIN page |-> IF i - q.offset \in DOMAIN q.data THEN q.data[i - q.offset]
                                                                  ELSE page[i]]

(* A faulty variant: a slice is assigned that reaches beyond the page,     *)
(* which makes it longer.                                                  *)
CanWriteUnchecked(q) ==
  /\ q.table \in DOMAIN pages
  /\ pages' = [pages EXCEPT ![q.table] =
                 IF q.offset > Len(@) THEN @ \o q.data
                 ELSE SubSeq(@, 1, q.offset) \o q.data
                        \o SubSeq(@, q.offset + Len(q.data) + 1, Len(@))]
  /\ modified' = TRUE

CanWrite(q) ==
  LET page == IF q.table \in DOMAIN pages THEN pages[q.table] ELSE Zeros(NewSize)
  IN /\ pages' = [t \in DOMAIN pages \cup {q.table} |->
                    IF t = q.table THEN Overwritten(page, q) ELSE pages[t]]
     /\ modified' = (\/ modified
                     \/ q.table \notin DOMAIN pages
                     \/ q.offset + Len(q.data) <= Len(page))

(* handle_request: the answer to q.  A write changes the pages, nothing    *)
(* else does; a request the code does not know is answered with an error.  *)
HandleRequest(q, outpc) ==
  CASE q.cmd = "Q" -> SignatureQuery
    [] q.cmd = "A" -> RealtimeQuery(outpc)
    [] q.cmd = "S" -> VersionQuery
    [] q.cmd = "r" -> CanRead(q, outpc)
    [] q.cmd = "w" -> Response("ok", << >>)
    [] q.cmd = "k" -> CrcCheck(q)
    [] q.cmd = "b" -> Burn
    [] OTHER       -> Response("unrecognized", << >>)

------------------------------------------------------------------------------
(* The client and the line.                                                *)

Cells(q) == {<<q.table, i>> : i \in q.offset + 1 .. q.offset + q.count}

Ask(q) ==
  /\ asked = None
  /\ asked' = q /\ line' = q
  /\ IF q.cmd = "w" /\ q.table \in Tables
       THEN /\ image' = [image EXCEPT ![q.table] = Overwritten(@, q)]
            /\ trusted' = trusted \ Cells(q)
       ELSE UNCHANGED <<image, trusted>>
  /\ UNCHANGED <<pages, modified, alive, reply, faults>>

Lose == /\ faults < MaxFaults
        /\ line # None \/ reply # None
        /\ line' = None /\ reply' = None
        /\ faults' = faults + 1
        /\ UNCHANGED <<pages, modified, alive, asked, image, trusted>>

Retry == /\ alive
         /\ asked # None /\ line = None /\ reply = None
         /\ line' = asked
         /\ UNCHANGED <<pages, modified, alive, asked, reply, image, trusted, faults>>

(* What the client makes of the answer: it believes in what it has read in *)
(* full, in what was acknowledged, and in what has the right checksum, as  *)
(* far as its image reaches.  A special table does not read as its page.   *)
Take ==
  /\ reply # None
  /\ asked' = None /\ reply' = None
  /\ LET own   == /\ asked.table \in Tables \ Special
                  /\ asked.offset + asked.count <= Size(asked.table)
         known == \/ asked.cmd = "r" /\ Len(reply.payload) = asked.count
                  \/ asked.cmd = "w"
                  \/ /\ asked.cmd = "k"
                     /\ reply.payload = Checksum(Slice(image[asked.table], asked.offset, asked.count))
     IN IF own /\ known
          THEN /\ trusted' = trusted \cup Cells(asked)
               /\ image' = IF asked.cmd = "r"
                             THEN [image EXCEPT ![asked.table] =
                                     Overwritten(@, [asked EXCEPT !.data = reply.payload])]
                             ELSE image
          ELSE UNCHANGED <<image, trusted>>
  /\ UNCHANGED <<pages, modified, alive, line, faults>>

------------------------------------------------------------------------------
(* The simulator.                                                          *)

(* A faulty variant: a write that is dropped is not acknowledged either.   *)
HandleSilently(outpc) ==
  /\ alive /\ line # None
  /\ line' = None
  /\ IF line.cmd = "w" THEN CanWrite(line) ELSE UNCHANGED <<pages, modified>>
  /\ reply' = IF line.cmd = "w" /\ pages' = pages THEN None ELSE HandleRequest(line, outpc)
  /\ UNCHANGED <<alive, asked, image, trusted, faults>>

(* A request is answered, or its answer is too long to be built and the    *)
(* exception ends the loop.                                                *)
Handle(outpc) ==
  /\ alive /\ line # None
  /\ line' = None
  /\ IF line.cmd = "w" THEN CanWrite(line) ELSE UNCHANGED <<pages, modified>>
  /\ LET response == HandleRequest(line, outpc)
     IN IF Fits(response) THEN reply' = response /\ UNCHANGED alive
                          ELSE alive' = FALSE /\ UNCHANGED reply
  /\ UNCHANGED <<asked, image, trusted, faults>>

Serve == \E outpc \in Outpc : Handle(outpc)

Next == (\E q \in Requests : Ask(q)) \/ Lose \/ Retry \/ Take \/ Serve

(* The loop runs on, and the client waits and asks again until it has its  *)
(* answer.                                                                 *)
Spec == Init /\ [][Next]_vars /\ WF_vars(Retry) /\ WF_vars(Take) /\ WF_vars(Serve)

------------------------------------------------------------------------------
TypeOK == /\ \A t \in DOMAIN pages : Len(pages[t]) = Size(t) /\ pages[t] \in Seq(Byte)
          /\ Configured \subseteq DOMAIN pages /\ DOMAIN pages \subseteq Tables
          /\ modified \in BOOLEAN /\ alive \in BOOLEAN
          /\ asked \in Requests \cup {None} /\ line \in Requests \cup {None}
          /\ \A t \in Tables : Len(image[t]) = Size(t)
          /\ trusted \subseteq Tables \X (1 .. NewSize)
          /\ faults \in 0 .. MaxFaults

(* What the client believes about a page, by reading it, by a write that   *)
(* was acknowledged or by a checksum, is what the ECU has there, whatever  *)
(* was lost and sent again (_handle_can_read, _handle_can_write and        *)
(* _handle_crc_check index the same bytes); a table without a page reads   *)
(* as zeros.                                                               *)
TrustedIsStored ==
  \A c \in trusted :
    image[c[1]][c[2]] = IF c[1] \in DOMAIN pages THEN pages[c[1]][c[2]] ELSE 0

(* The checksum command answers with the checksum of just those bytes that *)
(* a read of the same range returns, for every table that holds a page or  *)
(* may get one, also where the range leaves the page ("Returns CRC32 of    *)
(* the requested page data range").                                        *)
CheckAgreesWithRead ==
  \A q \in Requests :
    q.cmd = "k" /\ q.table \in Tables \ Special =>
      \A outpc \in Outpc : CrcCheck(q).payload = Checksum(CanRead(q, outpc).payload)

(* The client is right about every byte it trusts, and a checksum it may   *)
(* ask for is that of the bytes it would read.                             *)
ClientIsRight == TrustedIsStored /\ CheckAgreesWithRead

(* A read whose answer is too long to be framed: a table without a page    *)
(* reads as as many zeros as were asked for (protocol.py:242-257), and the *)
(* response flag makes one byte more.                                      *)
TooLong(q) == /\ q.cmd = "r"
              /\ q.table \notin Special \cup DOMAIN pages
              /\ 1 + q.count > MaxLength

(* Every request is answered in the end, if need be because it is sent     *)
(* again, unless the loop has ended; and it ends at nothing but a read of  *)
(* a table without a page that is too long to be answered.                 *)
EveryRequestAnswered ==
  /\ asked # None ~> asked = None \/ ~ alive
  /\ [](~ alive => TooLong(asked))
===============================================================================
