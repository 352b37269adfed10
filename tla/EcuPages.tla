------------------------------- MODULE EcuPages -------------------------------
(***************************************************************************)
(* The configuration pages of the ECU simulator (ecuSim): what TunerStudio *)
(* writes into them over the serial line (protocol.py), and how they are   *)
(* kept in a file from one run of the simulator to the next (simulator.py, *)
(* page_builder.py).                                                       *)
(*                                                                         *)
(* The file is overwritten in place when the simulator ends, one record    *)
(* after the other, and the simulator may be interrupted or killed         *)
(* meanwhile.  A record that was cut off is one whose data is shorter than *)
(* its length says.                                                        *)
(***************************************************************************)
EXTENDS Naturals, Sequences

CONSTANTS
  Tables,     (* table numbers                                             *)
  Configured, (* those of MS2_PAGES                                        *)
  Byte,
  PageSize,   (* the size of a page, the same for all                      *)
  MaxFaults   (* bound: signals and failing writes                         *)

ASSUME TablesAssumption == Tables \subseteq Nat /\ Configured \subseteq Tables
ASSUME ConfiguredAssumption == Configured # {}
ASSUME ByteAssumption == 0 \in Byte
ASSUME SizeAssumption == PageSize \in Nat \ {0} /\ MaxFaults \in Nat

VARIABLES
  run,      (* where the simulator is: up, in a part of _cleanup, or off   *)
  pages,    (* _page_data                                                  *)
  modified, (* _pages_modified                                             *)
  left,     (* the tables save_pages_to_file has still to write            *)
  file,     (* the file of --pages                                         *)
  saved,    (* history: the pages the last save was about                 *)
  ending,   (* history: how the last run ended                             *)
  faults

vars == <<run, pages, modified, left, file, saved, ending, faults>>

Page == [1 .. PageSize -> Byte]

NoTables == [t \in {} |-> << >>]

(* What is asked of an ECU without a tune: MSQ pages are another constant. *)
Blank  == [i \in 1 .. PageSize |-> 0]
Fallback == [t \in Configured |-> Blank]

(* announced: the tables the count in the header stands for.               *)
NoFile  == [exists |-> FALSE, header |-> FALSE, announced |-> {}, records |-> NoTables]
NewFile == [NoFile EXCEPT !.exists = TRUE]

Init == /\ run = "up"
        /\ pages = Fallback
        /\ modified = FALSE
        /\ left = {}
        /\ file = NoFile
        /\ saved = Fallback
        /\ ending = "none"
        /\ faults = 0

Fault == faults < MaxFaults /\ faults' = faults + 1

Overlay(page, offset, data) ==
  [i \in 1 .. PageSize |->
     IF i - offset \in DOMAIN data THEN data[i - offset] ELSE page[i]]

With(f, t, v) == [u \in DOMAIN f \cup {t} |-> IF u = t THEN v ELSE f[u]]

------------------------------------------------------------------------------
(***************************************************************************)
(* Faulty variants of some of the operations below, each with a slip the   *)
(* code could have: they show what the properties at the end can tell      *)
(* apart.                                                                  *)
(***************************************************************************)

(* A slice of a bytearray is assigned that reaches beyond its end.         *)
StoreUnchecked(t, offset, data) ==
  /\ t \in DOMAIN pages
  /\ pages' = [pages EXCEPT ![t] =
                 [i \in 1 .. IF offset + Len(data) > PageSize
                               THEN offset + Len(data) ELSE PageSize |->
                    IF i - offset \in DOMAIN data THEN data[i - offset] ELSE @[i]]]
  /\ modified' = TRUE

(* Reading stops at the end of the file, with what has been read.          *)
LoadWhatIsThere(f) == f.exists /\ f.header

(* A new page does not count as a modification.                            *)
CreateQuietly(t, offset, data) ==
  /\ t \notin DOMAIN pages
  /\ pages' = With(pages, t, IF offset + Len(data) <= PageSize
                               THEN Overlay(Blank, offset, data) ELSE Blank)
  /\ UNCHANGED modified

------------------------------------------------------------------------------
(* load_pages_from_file returns None unless the header and every record it *)
(* announces are there in full.                                            *)
Loadable(f) == /\ f.exists /\ f.header
               /\ DOMAIN f.records = f.announced
               /\ \A t \in f.announced : Len(f.records[t]) = PageSize

(* _init_pages; an empty set of pages counts as no file.                   *)
Initial(f) == IF Loadable(f) /\ f.announced # {} THEN f.records ELSE Fallback

------------------------------------------------------------------------------
(* _handle_can_write: the write is acknowledged in every case.             *)

Store(t, offset, data) ==
  /\ t \in DOMAIN pages
  /\ offset + Len(data) <= PageSize
  /\ pages' = [pages EXCEPT ![t] = Overlay(@, offset, data)]
  /\ modified' = TRUE

Overrun(t, offset, data) ==
  /\ t \in DOMAIN pages
  /\ offset + Len(data) > PageSize
  /\ UNCHANGED <<pages, modified>>

Create(t, offset, data) ==
  /\ t \notin DOMAIN pages
  /\ pages' = With(pages, t, IF offset + Len(data) <= PageSize
                               THEN Overlay(Blank, offset, data) ELSE Blank)
  /\ modified' = TRUE

Write(t, offset, data) ==
  /\ run = "up"
  /\ Store(t, offset, data) \/ Overrun(t, offset, data) \/ Create(t, offset, data)
  /\ UNCHANGED <<run, left, file, saved, ending, faults>>

(* Ctrl+C, or an exception out of the loop: _cleanup begins.               *)
Stop == /\ run = "up"
        /\ Fault
        /\ run' = IF modified THEN "open" ELSE "off"
        /\ ending' = IF modified THEN ending ELSE "unchanged"
        /\ UNCHANGED <<pages, modified, left, file, saved>>

(* open(filepath, "wb") empties the file.                                  *)
Open == /\ run = "open"
        /\ file' = NewFile
        /\ left' = DOMAIN pages
        /\ saved' = pages
        /\ run' = "header"
        /\ UNCHANGED <<pages, modified, ending, faults>>

OpenFails == /\ run = "open"
             /\ Fault
             /\ run' = "off"
             /\ ending' = "failed"
             /\ UNCHANGED <<pages, modified, left, file, saved>>

SaveHeader == /\ run = "header"
              /\ file' = [file EXCEPT !.header = TRUE, !.announced = DOMAIN pages]
              /\ run' = "pages"
              /\ UNCHANGED <<pages, modified, left, saved, ending, faults>>

(* Sorted by table number.                                                 *)
SavePage == /\ run = "pages"
            /\ \E t \in left :
                 /\ \A u \in left : t <= u
                 /\ left' = left \ {t}
                 /\ file' = [file EXCEPT !.records = With(@, t, pages[t])]
            /\ UNCHANGED <<run, pages, modified, saved, ending, faults>>

Close == /\ run = "pages"
         /\ left = {}
         /\ run' = "off"
         /\ ending' = "saved"
         /\ UNCHANGED <<pages, modified, left, file, saved, faults>>

(* What a file is after a crash of its writer, who buffers its writes:     *)
(* some records, up to a table that may be cut, are there.                 *)
UpTo(f, t, n) ==
  [f EXCEPT !.records =
     [u \in {v \in DOMAIN f.records : v <= t} |->
        IF u = t THEN SubSeq(f.records[u], 1, n) ELSE f.records[u]]]

Cuts(f) == {NewFile, f, [f EXCEPT !.records = NoTables]}
             \cup {UpTo(f, t, n) : t \in DOMAIN f.records, n \in 0 .. PageSize}

(* A write fails (no space left), or a second Ctrl+C: the file is closed,  *)
(* and keeps what has been written.                                        *)
SaveFails == /\ run \in {"header", "pages"}
             /\ Fault
             /\ run' = "off"
             /\ file' \in Cuts(file)
             /\ ending' = "failed"
             /\ UNCHANGED <<pages, modified, left, saved>>

(* SIGTERM (demo.sh) or SIGKILL, which nothing handles.                    *)
Kill == /\ run # "off"
        /\ Fault
        /\ run' = "off"
        /\ file' \in IF run \in {"header", "pages"} THEN Cuts(file) ELSE {file}
        /\ ending' = "killed"
        /\ UNCHANGED <<pages, modified, left, saved>>

Start == /\ run = "off"
         /\ run' = "up"
         /\ pages' = Initial(file)
         /\ modified' = FALSE
         /\ left' = {}
         /\ UNCHANGED <<file, saved, ending, faults>>

(* The data of a write, up to a page of it, may reach beyond the end.      *)
Data == UNION {[1 .. n -> Byte] : n \in 0 .. PageSize}

Next == \/ \E t \in Tables, offset \in 0 .. PageSize, data \in Data :
             Write(t, offset, data)
        \/ Stop \/ Open \/ OpenFails \/ SaveHeader \/ SavePage \/ Close
        \/ SaveFails \/ Kill \/ Start

Spec == Init /\ [][Next]_vars

------------------------------------------------------------------------------
(* Properties.                                                             *)

Partial(f, V) == DOMAIN f \subseteq Tables /\ f \in [DOMAIN f -> V]

IsFile(f) == /\ f \in [exists : BOOLEAN, header : BOOLEAN,
                       announced : SUBSET Tables, records : {f.records}]
             /\ Partial(f.records, Seq(Byte))

TypeOK ==
  /\ run \in {"up", "open", "header", "pages", "off"}
  /\ Partial(pages, Page)
  /\ modified \in BOOLEAN
  /\ left \subseteq Tables
  /\ IsFile(file)
  /\ Partial(saved, Page)
  /\ ending \in {"none", "unchanged", "saved", "failed", "killed"}
  /\ faults \in 0 .. MaxFaults

(* Whatever happened while the file was written (page_builder.py:303-390), *)
(* the next run has all the pages of one save or none of them: never some  *)
(* pages of a save, and never a page that was cut.                         *)
StartsWhole == run = "up" /\ ~ modified => pages \in {saved, Fallback}

(* Unless the simulator was killed or could not write, the next run goes on*)
(* with the pages of this one, changed or not, old or created              *)
(* (simulator.py:107-134, 253-262).                                        *)
KeptAcrossRuns ==
  [][Start /\ ending \notin {"killed", "failed"} => pages' = pages]_vars

(* "Page data will be auto-saved on exit if modified." (simulator.py:191)  *)
AutoSaved == run = "off" /\ modified /\ ending # "failed" => Initial(file) = pages
===============================================================================
