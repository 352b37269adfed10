---------------------------- MODULE EcuPagesProofs ----------------------------
(***************************************************************************)
(* Proofs about EcuPages, for any tables, bytes and size of a page.        *)
(*                                                                         *)
(* The argument: a file that can be loaded holds what the last save was    *)
(* about (Whole), because while it is written its records are pages of     *)
(* that save and their number is the one announced only at the end         *)
(* (Saving), and every cut takes away a record or a part of one.           *)
(***************************************************************************)
EXTENDS EcuPages, SequenceTheorems, TLAPS

Saving ==
  /\ run \in {"header", "pages"} => file.exists /\ saved = pages
  /\ run = "header" => /\ ~ file.header /\ DOMAIN file.records = {}
                       /\ left = DOMAIN pages
  /\ run = "pages" => /\ file.header
                      /\ file.announced = DOMAIN pages
                      /\ left \subseteq DOMAIN pages
                      /\ DOMAIN file.records = DOMAIN pages \ left
                      /\ \A t \in DOMAIN file.records : file.records[t] = pages[t]

Whole == Loadable(file) => file.records = saved

Known == /\ DOMAIN pages # {}
         /\ run = "up" /\ ~ modified => pages = Initial(file)
         /\ run = "off" /\ ending \notin {"killed", "failed"} => pages = Initial(file)

IInv == TypeOK /\ Saving /\ Whole /\ Known

------------------------------------------------------------------------------
(* A page is a sequence of PageSize bytes, and cut off at its end itself.  *)
LEMMA PageIsSeq ==
  ASSUME NEW page \in Page
  PROVE  /\ page \in Seq(Byte)
         /\ Len(page) = PageSize
         /\ SubSeq(page, 1, PageSize) = page
<1>1. page \in Seq(Byte) /\ Len(page) = PageSize
  BY SizeAssumption DEF Page
<1>2. QED
  BY <1>1, SizeAssumption DEF Page

LEMMA BlankType == Blank \in Page
BY ByteAssumption DEF Blank, Page

LEMMA FallbackType == Partial(Fallback, Page) /\ DOMAIN Fallback # {}
<1>1. Fallback \in [Configured -> Page]
  BY BlankType DEF Fallback
<1>2. QED
  BY <1>1, TablesAssumption, ConfiguredAssumption DEF Partial

LEMMA NoTablesType ==
  ASSUME NEW V
  PROVE  Partial(NoTables, V) /\ DOMAIN NoTables = {}
<1>1. NoTables \in [{} -> V]
  BY DEF NoTables
<1>2. QED
  BY <1>1 DEF Partial

LEMMA WithType ==
  ASSUME NEW V, NEW f, Partial(f, V), NEW t \in Tables, NEW v \in V
  PROVE  /\ Partial(With(f, t, v), V)
         /\ DOMAIN With(f, t, v) = DOMAIN f \cup {t}
         /\ With(f, t, v)[t] = v
         /\ \A u \in DOMAIN f \ {t} : With(f, t, v)[u] = f[u]
BY DEF With, Partial

LEMMA OverlayType ==
  ASSUME NEW page \in Page, NEW offset \in 0 .. PageSize, NEW data \in Data
  PROVE  Overlay(page, offset, data) \in Page
<1>1. PICK n \in 0 .. PageSize : data \in [1 .. n -> Byte]
  BY DEF Data
<1>2. QED
  BY <1>1 DEF Overlay, Page
------------------------------------------------------------------------------
LEMMA NewFileType == /\ IsFile(NoFile) /\ IsFile(NewFile)
                     /\ ~ NewFile.header /\ NewFile.exists /\ ~ NoFile.exists
BY NoTablesType, Zenon DEF NoFile, NewFile, IsFile

(* Other records in a file.                                                *)
LEMMA OtherRecords ==
  ASSUME NEW f, IsFile(f), NEW r, Partial(r, Seq(Byte))
  PROVE  /\ IsFile([f EXCEPT !.records = r])
         /\ [f EXCEPT !.records = r].records = r
         /\ [f EXCEPT !.records = r].exists = f.exists
         /\ [f EXCEPT !.records = r].header = f.header
         /\ [f EXCEPT !.records = r].announced = f.announced
BY DEF IsFile

LEMMA InitialType ==
  ASSUME IInv
  PROVE  /\ Partial(Initial(file), Page)
         /\ DOMAIN Initial(file) # {}
         /\ Initial(file) \in {saved, Fallback}
<1>1. CASE Loadable(file) /\ file.announced # {}
  <2>1. Initial(file) = saved
    BY <1>1 DEF Initial, IInv, Whole
  <2>2. DOMAIN Initial(file) # {}
    BY <1>1 DEF Initial, Loadable
  <2>3. QED
    BY <2>1, <2>2 DEF IInv, TypeOK
<1>2. CASE ~ (Loadable(file) /\ file.announced # {})
  BY <1>2, FallbackType DEF Initial
<1>3. QED
  BY <1>1, <1>2

(* Nothing that is left of a file that was being written can be loaded     *)
(* unless all of it is left.                                               *)
LEMMA CutsAreWhole ==
  ASSUME IInv, run \in {"header", "pages"}, NEW f \in Cuts(file)
  PROVE  IsFile(f) /\ (Loadable(f) => f.records = saved)
<1>a. IsFile(file)
  BY DEF IInv, TypeOK
<1>1. CASE f = NewFile
  BY <1>1, NewFileType DEF Loadable
<1>2. CASE f = file
  BY <1>2, <1>a DEF IInv, Whole
<1>3. CASE f = [file EXCEPT !.records = NoTables]
  <2>1. /\ IsFile(f)
        /\ DOMAIN f.records = {} /\ f.announced = file.announced
        /\ f.header = file.header
    BY <1>3, <1>a, NoTablesType, OtherRecords, Zenon
  <2>2. ~ Loadable(f)
    BY <2>1 DEF Loadable, IInv, Saving, Known
  <2>3. QED
    BY <2>1, <2>2
<1>4. ASSUME NEW t \in DOMAIN file.records, NEW n \in 0 .. PageSize, f = UpTo(file, t, n)
      PROVE  IsFile(f) /\ (Loadable(f) => f.records = saved)
  <2> DEFINE D == {v \in DOMAIN file.records : v <= t}
             r == [u \in D |-> IF u = t THEN SubSeq(file.records[u], 1, n)
                                        ELSE file.records[u]]
  <2>a. t \in Nat /\ Partial(file.records, Seq(Byte))
    BY <1>a, TablesAssumption DEF IsFile, Partial
  <2>b. /\ run = "pages"
        /\ file.announced = DOMAIN pages /\ saved = pages
        /\ DOMAIN file.records = DOMAIN pages \ left
        /\ \A u \in DOMAIN file.records : file.records[u] = pages[u]
    BY DEF IInv, Saving
  <2>c. pages \in [DOMAIN pages -> Page]
    BY DEF IInv, TypeOK, Partial
  <2>d. /\ pages[t] \in Page /\ file.records[t] = pages[t]
        /\ SubSeq(pages[t], 1, n) \in Seq(Byte)
        /\ Len(SubSeq(pages[t], 1, n)) = n
    <3>1. pages[t] \in Page /\ file.records[t] = pages[t]
      BY <2>b, <2>c
    <3>2. n \in Int /\ 1 \in Int /\ \A i \in 1 .. n : pages[t][i] \in Byte
      BY <3>1, SizeAssumption DEF Page
    <3>3. QED
      BY <3>1, <3>2, SubSeqProperties, SizeAssumption
  <2>1. ASSUME NEW u \in D
        PROVE  r[u] \in Seq(Byte)
    BY <2>a, <2>d DEF Partial
  <2>2. Partial(r, Seq(Byte))
    BY <2>a, <2>1, Zenon DEF Partial
  <2>3. /\ IsFile(f) /\ f.records = r /\ f.announced = file.announced
        /\ f.header = file.header
    <3>1. f = [file EXCEPT !.records = r]
      BY <1>4 DEF UpTo
    <3> HIDE DEF r
    <3>2. QED
      BY <1>a, <2>2, <3>1, OtherRecords
  <2>4. ASSUME Loadable(f)
        PROVE  r = saved
    <3>1. D = DOMAIN pages /\ \A u \in D : Len(r[u]) = PageSize
      BY <2>3, <2>4, <2>b, Zenon DEF Loadable
    <3>2. n = PageSize
      <4>1. t \in D
        BY <2>a
      <4>2. r[t] = SubSeq(pages[t], 1, n)
        BY <4>1, <2>d
      <4>3. Len(r[t]) = PageSize
        BY <4>1, <3>1
      <4>4. QED
        BY <4>2, <4>3, <2>d
    <3>3. ASSUME NEW u \in D
          PROVE  r[u] = pages[u]
      BY <2>b, <2>d, <3>1, <3>2, PageIsSeq
    <3>4. QED
      BY <2>b, <2>c, <3>1, <3>3
  <2>5. QED
    BY <2>3, <2>4
<1>5. QED
  BY <1>1, <1>2, <1>3, <1>4 DEF Cuts

------------------------------------------------------------------------------
LEMMA InitInv ==
  ASSUME Init
  PROVE  IInv
<1>1. Initial(file) = Fallback
  BY DEF Init, Initial, Loadable, NoFile
<1>2. TypeOK
  <2>1. Partial(pages, Page) /\ Partial(saved, Page)
    BY FallbackType DEF Init
  <2>2. IsFile(file)
    BY NewFileType DEF Init
  <2>3. faults \in 0 .. MaxFaults
    BY SizeAssumption DEF Init
  <2>4. modified \in BOOLEAN /\ left \subseteq Tables
    BY Zenon DEF Init
  <2>5. run = "up" /\ ending = "none"
    BY DEF Init
  <2>6. QED
    BY <2>1, <2>2, <2>3, <2>4, <2>5 DEF TypeOK
<1>3. Saving
  BY DEF Init, Saving
<1>4. Whole
  BY DEF Init, Whole, Loadable, NoFile
<1>5. Known
  BY <1>1, FallbackType DEF Init, Known
<1>6. QED
  BY <1>2, <1>3, <1>4, <1>5 DEF IInv

(* A write leaves everything but the pages alone, and they stay pages.     *)
LEMMA WriteInv ==
  ASSUME IInv, NEW t \in Tables, NEW offset \in 0 .. PageSize, NEW data \in Data,
         Write(t, offset, data)
  PROVE  IInv'
<1>a. /\ run = "up" /\ run' = run
      /\ UNCHANGED <<left, file, saved, ending, faults>>
      /\ Partial(pages, Page) /\ DOMAIN pages # {}
  BY DEF Write, IInv, TypeOK, Known
<1>1. /\ Partial(pages', Page) /\ DOMAIN pages' # {}
      /\ modified' = TRUE \/ UNCHANGED <<pages, modified>>
  <2>1. CASE Store(t, offset, data)
    <3>1. pages[t] \in Page
      BY <1>a, <2>1 DEF Store, Partial
    <3>2. Overlay(pages[t], offset, data) \in Page
      BY <3>1, OverlayType
    <3>3. QED
      BY <1>a, <2>1, <3>2 DEF Store, Partial
  <2>2. CASE Overrun(t, offset, data)
    BY <1>a, <2>2 DEF Overrun
  <2>3. CASE Create(t, offset, data)
    <3>1. PICK v \in Page : pages' = With(pages, t, v)
      BY <2>3, BlankType, OverlayType DEF Create
    <3>2. /\ Partial(With(pages, t, v), Page)
          /\ DOMAIN With(pages, t, v) = DOMAIN pages \cup {t}
      BY <1>a, <3>1 DEF With, Partial
    <3>3. QED
      BY <2>3, <3>1, <3>2 DEF Create
  <2>4. QED
    BY <2>1, <2>2, <2>3, Zenon DEF Write
<1>2. TypeOK'
  BY <1>a, <1>1, Zenon DEF IInv, TypeOK
<1>3. Saving'
  BY <1>a DEF Saving
<1>4. Whole'
  BY <1>a DEF IInv, Whole
<1>5. Known'
  BY <1>a, <1>1 DEF IInv, Known
<1>6. QED
  BY <1>2, <1>3, <1>4, <1>5 DEF IInv

LEMMA StopInv ==
  ASSUME IInv, Stop
  PROVE  IInv'
<1>1. TypeOK'
  BY SizeAssumption DEF IInv, TypeOK, Stop, Fault
<1>2. Saving'
  BY DEF Saving, Stop
<1>3. Whole'
  BY DEF IInv, Whole, Stop
<1>4. Known'
  BY DEF IInv, TypeOK, Known, Stop
<1>5. QED
  BY <1>1, <1>2, <1>3, <1>4 DEF IInv

(* From here on the pages do not change until the next start.              *)
LEMMA OpenInv ==
  ASSUME IInv, Open
  PROVE  IInv'
<1>1. TypeOK'
  BY NewFileType DEF IInv, TypeOK, Open, Partial
<1>2. Saving'
  BY NewFileType DEF Saving, Open, NewFile, NoFile, NoTables
<1>3. Whole'
  BY NewFileType DEF Whole, Loadable, Open
<1>4. Known'
  BY DEF IInv, Known, Open
<1>5. QED
  BY <1>1, <1>2, <1>3, <1>4 DEF IInv

LEMMA HeaderInv ==
  ASSUME IInv, SaveHeader
  PROVE  IInv'
<1>a. /\ run = "header" /\ run' = "pages"
      /\ UNCHANGED <<pages, modified, left, saved, ending, faults>>
      /\ file' = [file EXCEPT !.header = TRUE, !.announced = DOMAIN pages]
      /\ IsFile(file) /\ file.exists /\ saved = pages
      /\ DOMAIN file.records = {} /\ left = DOMAIN pages /\ Partial(pages, Page)
  BY DEF SaveHeader, IInv, Saving, TypeOK
<1>1. /\ file'.exists /\ file'.header /\ file'.announced = DOMAIN pages
      /\ file'.records = file.records
  BY <1>a DEF IsFile
<1>2. IsFile(file')
  BY <1>a, Zenon DEF IsFile, Partial
<1>3. TypeOK'
  BY <1>a, <1>2 DEF IInv, TypeOK
<1>4. Saving'
  BY <1>a, <1>1 DEF Saving
<1>5. Whole'
  BY <1>a, <1>1 DEF Whole, Loadable, IInv, Known
<1>6. Known'
  BY <1>a DEF IInv, Known
<1>7. QED
  BY <1>3, <1>4, <1>5, <1>6 DEF IInv

LEMMA PageInv ==
  ASSUME IInv, SavePage
  PROVE  IInv'
<1> PICK t \in left : /\ left' = left \ {t}
                      /\ file' = [file EXCEPT !.records = With(@, t, pages[t])]
  BY DEF SavePage
<1>a. /\ run = "pages" /\ UNCHANGED <<run, pages, modified, saved, ending, faults>>
      /\ file.header /\ file.exists /\ saved = pages
      /\ file.announced = DOMAIN pages
      /\ left \subseteq DOMAIN pages
      /\ DOMAIN file.records = DOMAIN pages \ left
      /\ \A u \in DOMAIN file.records : file.records[u] = pages[u]
      /\ IsFile(file) /\ Partial(pages, Page)
  BY DEF SavePage, IInv, Saving, TypeOK
<1> DEFINE r == With(file.records, t, pages[t])
<1>1. pages[t] \in Page /\ pages[t] \in Seq(Byte) /\ t \in Tables
  BY <1>a, PageIsSeq DEF Partial
<1>2. /\ Partial(r, Seq(Byte))
      /\ DOMAIN r = DOMAIN file.records \cup {t}
      /\ r[t] = pages[t]
      /\ \A u \in DOMAIN file.records \ {t} : r[u] = file.records[u]
  BY <1>a, <1>1 DEF With, Partial, IsFile
<1>3. /\ IsFile(file') /\ file'.records = r
      /\ file'.exists = file.exists /\ file'.header = file.header
      /\ file'.announced = file.announced
  <2> DEFINE f == [file EXCEPT !.records = r]
  <2>1. IsFile(file) /\ Partial(r, Seq(Byte))
    BY <1>a, <1>2
  <2>2. /\ IsFile(f) /\ f.records = r
        /\ f.exists = file.exists /\ f.header = file.header
        /\ f.announced = file.announced
    <3> HIDE DEF r
    <3>1. QED
      BY <2>1, OtherRecords
  <2>3. file' = f
    BY <1>a DEF IsFile
  <2>4. QED
    BY <2>2, <2>3
<1> HIDE DEF r
<1>4. DOMAIN r = DOMAIN pages \ left' /\ \A u \in DOMAIN r : r[u] = pages[u]
  BY <1>a, <1>2
<1>5. TypeOK'
  BY <1>a, <1>3 DEF IInv, TypeOK
<1>6. Saving'
  BY <1>a, <1>3, <1>4 DEF Saving
<1>7. Whole'
  <2>1. Loadable(file)' => DOMAIN r = DOMAIN pages
    BY <1>a, <1>3 DEF Loadable
  <2>2. r \in [DOMAIN r -> Seq(Byte)] /\ pages \in [DOMAIN pages -> Page]
    BY <1>a, <1>2 DEF Partial
  <2>3. QED
    BY <1>a, <1>3, <1>4, <2>1, <2>2 DEF Whole
<1>8. Known'
  BY <1>a DEF IInv, Known
<1>9. QED
  BY <1>5, <1>6, <1>7, <1>8 DEF IInv

(* The file is complete, and the next start will find these pages in it.   *)
LEMMA CloseInv ==
  ASSUME IInv, Close
  PROVE  IInv'
<1>a. /\ run = "pages" /\ run' = "off" /\ ending' = "saved" /\ left = {}
      /\ UNCHANGED <<pages, modified, left, file, saved, faults>>
      /\ file.header /\ file.exists /\ saved = pages
      /\ file.announced = DOMAIN pages
      /\ DOMAIN file.records = DOMAIN pages
      /\ \A u \in DOMAIN file.records : file.records[u] = pages[u]
      /\ IsFile(file) /\ Partial(pages, Page) /\ DOMAIN pages # {}
  BY DEF Close, IInv, Saving, TypeOK, Known
<1>1. ASSUME NEW u \in DOMAIN pages
      PROVE  Len(file.records[u]) = PageSize
  <2>1. pages[u] \in Page /\ file.records[u] = pages[u]
    BY <1>a DEF Partial
  <2>2. QED
    BY <2>1, PageIsSeq
<1>2. Loadable(file)
  BY <1>a, <1>1 DEF Loadable
<1>3. Initial(file) = pages
  BY <1>a, <1>2 DEF Initial, IInv, Whole
<1>4. TypeOK'
  BY <1>a DEF IInv, TypeOK
<1>5. Saving'
  BY <1>a DEF Saving
<1>6. Whole'
  BY <1>a DEF IInv, Whole
<1>7. Known'
  BY <1>a, <1>3 DEF Known
<1>8. QED
  BY <1>4, <1>5, <1>6, <1>7 DEF IInv

(* The end of a run that saved nothing, or not everything.                 *)
LEMMA BrokenInv ==
  ASSUME IInv, OpenFails \/ SaveFails \/ Kill
  PROVE  IInv'
<1>a. /\ run' = "off" /\ ending' \in {"failed", "killed"} /\ Fault
      /\ UNCHANGED <<pages, modified, left, saved>>
      /\ \/ file' = file
         \/ run \in {"header", "pages"} /\ file' \in Cuts(file)
  BY DEF OpenFails, SaveFails, Kill
<1>1. IsFile(file') /\ (Loadable(file') => file'.records = saved)
  BY <1>a, CutsAreWhole DEF IInv, TypeOK, Whole
<1>2. TypeOK'
  BY <1>a, <1>1, SizeAssumption DEF IInv, TypeOK, Fault
<1>3. Saving'
  BY <1>a DEF Saving
<1>4. Whole'
  BY <1>a, <1>1 DEF Whole
<1>5. Known'
  BY <1>a DEF IInv, Known
<1>6. QED
  BY <1>2, <1>3, <1>4, <1>5 DEF IInv

LEMMA StartInv ==
  ASSUME IInv, Start
  PROVE  IInv'
<1>a. /\ run' = "up" /\ modified' = FALSE /\ left' = {}
      /\ pages' = Initial(file)
      /\ UNCHANGED <<file, saved, ending, faults>>
  BY DEF Start
<1>1. Partial(pages', Page) /\ DOMAIN pages' # {}
  BY <1>a, InitialType
<1>2. TypeOK'
  BY <1>a, <1>1, Zenon DEF IInv, TypeOK
<1>3. Saving'
  BY <1>a DEF Saving
<1>4. Whole'
  BY <1>a DEF IInv, Whole
<1>5. Known'
  BY <1>a, <1>1 DEF Known
<1>6. QED
  BY <1>2, <1>3, <1>4, <1>5 DEF IInv

LEMMA NextInv ==
  ASSUME IInv, [Next]_vars
  PROVE  IInv'
<1>1. ASSUME NEW t \in Tables, NEW offset \in 0 .. PageSize, NEW data \in Data,
             Write(t, offset, data)
      PROVE  IInv'
  BY <1>1, WriteInv
<1>2. CASE Stop
  BY <1>2, StopInv
<1>3. CASE Open
  BY <1>3, OpenInv
<1>4. CASE SaveHeader
  BY <1>4, HeaderInv
<1>5. CASE SavePage
  BY <1>5, PageInv
<1>6. CASE Close
  BY <1>6, CloseInv
<1>7. CASE OpenFails \/ SaveFails \/ Kill
  BY <1>7, BrokenInv
<1>8. CASE Start
  BY <1>8, StartInv
<1>9. CASE UNCHANGED vars
  BY <1>9 DEF vars, IInv, TypeOK, Saving, Whole, Known
<1>10. QED
  BY <1>1, <1>2, <1>3, <1>4, <1>5, <1>6, <1>7, <1>8, <1>9 DEF Next

(* The invariant holds in every state the simulator can reach.             *)
THEOREM Invariance == Spec => []IInv
BY InitInv, NextInv, PTL DEF Spec

(* The pages and the file keep their types, for every set of tables and    *)
(* every size of a page (protocol.py:259-297, page_builder.py:303-390).    *)
THEOREM TypeCorrect == Spec => []TypeOK
<1>1. IInv => TypeOK
  BY DEF IInv
<1>2. QED
  BY <1>1, Invariance, PTL

(* A run starts with all the pages of one save or with none of them,       *)
(* however the save was interrupted (page_builder.py:303-390).             *)
THEOREM WholeSaves == Spec => []StartsWhole
<1>1. IInv => StartsWhole
  BY InitialType DEF IInv, Known, StartsWhole
<1>2. QED
  BY <1>1, Invariance, PTL

(* A run goes on with the pages of the one before it, unless that one was  *)
(* killed or could not write (simulator.py:107-134, 253-262).              *)
THEOREM PagesKept == Spec => KeptAcrossRuns
<1>1. IInv => (Start /\ ending \notin {"killed", "failed"} => pages' = pages)
  BY DEF IInv, Known, Start
<1>2. QED
  BY <1>1, Invariance, PTL DEF KeptAcrossRuns
==============================================================================
