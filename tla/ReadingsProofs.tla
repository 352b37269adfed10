---------------------------- MODULE ReadingsProofs ----------------------------
(***************************************************************************)
(* Three subjects of MCReadings.  The engine that ecuSim simulates, for    *)
(* any lengths of the rounds and any noise within the intervals of the     *)
(* code: types and limits.  The readers of the INI file,  *)
(* for any file whose lines are as IniAssumption says, and any bounds:     *)
(* they agree with the reference.  The blocks of OUTPC, for any channels:  *)
(* the readers show what was encoded.                                      *)
(*                                                                         *)
(* The second part goes reader by reader.  Each stack of truth values      *)
(* follows the blocks of the reference (Follows), with one lemma for each  *)
(* directive; from it, one lemma for each reader and kind of line; and     *)
(* then the invariant IniInv, which says of one file what each reader has  *)
(* made of it so far.                                                      *)
(*                                                                         *)
(* The third part goes from a number and its bytes (ClampShows, BytesFit), *)
(* by way of a field in a block (Packed, Encoded, Kept), to the block with *)
(* one more channel (ChannelAdded) and the invariant BlocksInv.            *)
(***************************************************************************)
EXTENDS MCReadings, SequenceTheorems, TLAPS

(* The limits of the engine as inequalities: the provers would write the   *)
(* intervals out, number by number.                                        *)
Speed(x)    == x \in Int /\ 0 <= x /\ x <= 6500
Aim(x)      == x \in Int /\ 830 <= x /\ x <= 6500
Throttle(x) == x \in Int /\ 0 <= x /\ x <= 95
Load(x)     == x \in Int /\ 20 <= x /\ x <= 100

Limits == Speed(rpm) /\ Aim(target) /\ Throttle(tps) /\ Load(map)

(* The limits of the engine and the types they need.                       *)
Inv == TypeOK /\ Limits

LEMMA LimitsGiveInRange == Limits => InRange
<1>1. Speed(rpm) => rpm \in 0 .. 6500
  BY SMTT(60) DEF Speed
<1>2. Aim(target) => target \in 830 .. 6500
  BY SMTT(60) DEF Aim
<1>3. Throttle(tps) => tps \in 0 .. 95
  BY DEF Throttle
<1>4. Load(map) => map \in 20 .. 100
  BY DEF Load
<1> QED
  BY <1>1, <1>2, <1>3, <1>4, SMTT(60) DEF Limits, InRange

LEMMA Initial == Init => Inv
<1> SUFFICES ASSUME Init PROVE Inv
  OBVIOUS
<1>1. TypeOK
  BY DEF Init, TypeOK, Modes
<1>2. Limits
  BY DEF Init, Limits, Speed, Aim, Throttle, Load
<1> QED
  BY <1>1, <1>2 DEF Inv

(* What the modes draw, the intervals of the code taken one by one.        *)
LEMMA Drawn ==
  ASSUME NEW x
  PROVE  /\ x \in IdleRpm   => Aim(x)
         /\ x \in IdleMap   => Load(x)
         /\ x \in CruiseRpm => Aim(x)
         /\ x \in CruiseTps => Throttle(x)
         /\ x \in CruiseMap => Load(x)
<1>1. IdleRpm \subseteq 830 .. 870 => (x \in IdleRpm => Aim(x))
  BY DEF Aim
<1>2. IdleMap \subseteq 28 .. 32 => (x \in IdleMap => Load(x))
  BY DEF Load
<1>3. CruiseRpm \subseteq 2700 .. 2900 => (x \in CruiseRpm => Aim(x))
  BY SMTT(60) DEF Aim
<1>4. CruiseTps \subseteq 22 .. 28 => (x \in CruiseTps => Throttle(x))
  BY DEF Throttle
<1>5. CruiseMap \subseteq 50 .. 60 => (x \in CruiseMap => Load(x))
  BY DEF Load
<1> QED
  BY <1>1, <1>2, <1>3, <1>4, <1>5, NoiseAssumption, SMTT(60)

(* The arithmetic of the modes, one limit each.                            *)
LEMMA Falls5 == ASSUME NEW x, NEW d \in Nat, Throttle(x) PROVE Throttle(Most(0, x - 5 * d))
  BY DEF Most, Throttle

LEMMA Falls8 == ASSUME NEW x, NEW d \in Nat, Throttle(x) PROVE Throttle(Most(0, x - 8 * d))
  BY DEF Most, Throttle

LEMMA LoadFalls == ASSUME NEW x, NEW d \in Nat, Load(x) PROVE Load(Most(20, x - 3 * d))
  BY DEF Most, Load

LEMMA Rises == ASSUME NEW x, NEW d \in Nat, Throttle(x) PROVE Throttle(Least(95, x + 10 * d))
  BY DEF Least, Throttle

LEMMA AimRises == ASSUME NEW x, NEW d \in Nat, Aim(x) PROVE Aim(Least(6500, x + 200 * d))
  BY DEF Least, Aim

LEMMA AimFalls == ASSUME NEW x, NEW d \in Nat, Aim(x) PROVE Aim(Most(1200, x - 150 * d))
  BY DEF Most, Aim

LEMMA Pressure == ASSUME NEW x, Throttle(x) PROVE Load(Least(100, 40 + (6 * x) \div 10))
  BY DEF Least, Throttle, Load

(* A round of no time leaves the speed, one of a tenth of a second goes    *)
(* half of the way, and a longer one all of it.                            *)
LEMMA Smoothed ==
  ASSUME NEW x, NEW t, NEW d \in Nat, Speed(x), Aim(t) PROVE Speed(Smooth(x, t, d))
<1>1. CASE d = 0
  BY <1>1, SMTT(30) DEF Smooth, Least, Speed, Aim
<1>2. CASE d = 1
  <2>1. Least(2, d) = 1
    BY <1>2 DEF Least
  <2>2. Speed(x + ((t - x) * 1) \div 2)
    BY SMTT(30) DEF Speed, Aim
  <2> QED
    BY <2>1, <2>2 DEF Smooth
<1>3. CASE d >= 2
  <2>1. Least(2, d) = 2
    BY <1>3 DEF Least
  <2>2. Speed(x + ((t - x) * 2) \div 2)
    BY SMTT(30) DEF Speed, Aim
  <2> QED
    BY <2>1, <2>2 DEF Smooth
<1> QED
  BY <1>1, <1>2, <1>3

LEMMA NotBelowZero == ASSUME NEW x, Speed(x) PROVE Most(0, x) = x
  BY DEF Most, Speed

(* What the modes of EngineState aim at lies within the limits.            *)
LEMMA DriveInRange ==
  ASSUME Inv, NEW dt \in Nat, Drive(dt), mode' \in Modes
  PROVE  Aim(target') /\ Throttle(tps') /\ Load(map')
<1>0. Throttle(tps) /\ Load(map) /\ Aim(target)
  BY Zenon DEF Inv, Limits
<1>1. CASE mode' = "idle"
  <2>1. Idle(dt)
    BY <1>1 DEF Drive
  <2>2. Throttle(Most(0, tps - 5 * dt))
    BY <1>0, Falls5
  <2> QED
    BY <2>1, <2>2, Drawn DEF Idle
<1>2. CASE mode' = "cruise"
  <2>1. Cruise
    BY <1>2 DEF Drive
  <2> QED
    BY <2>1, Drawn, Zenon DEF Cruise
<1>3. CASE mode' = "accel"
  <2>1. Accel(dt)
    BY <1>3 DEF Drive
  <2>2. Aim(Least(6500, target + 200 * dt)) /\ Throttle(Least(95, tps + 10 * dt))
    BY <1>0, AimRises, Rises
  <2>3. Aim(target') /\ Throttle(tps')
    BY <2>1, <2>2 DEF Accel
  <2>4. Load(Least(100, 40 + (6 * tps') \div 10))
    BY <2>3, Pressure
  <2> QED
    BY <2>1, <2>3, <2>4 DEF Accel
<1>4. CASE mode' = "decel"
  <2>1. Decel(dt)
    BY <1>4 DEF Drive
  <2>2. Aim(Most(1200, target - 150 * dt))
    BY <1>0, AimFalls
  <2>3. Throttle(Most(0, tps - 8 * dt)) /\ Load(Most(20, map - 3 * dt))
    BY <1>0, Falls8, LoadFalls
  <2> QED
    BY <2>1, <2>2, <2>3 DEF Decel
<1> QED
  BY <1>1, <1>2, <1>3, <1>4 DEF Modes

LEMMA UpdateKeeps == ASSUME Inv, Update PROVE Inv'
<1>1. PICK dt \in Ticks : /\ ChangeMode(timer - dt)
                          /\ Drive(dt)
                          /\ rpm' = Most(0, Smooth(rpm, target', dt))
  BY Zenon DEF Update
<1>2. dt \in Nat
  BY TimeAssumption
<1>3. mode' \in Modes /\ timer' \in Int
  <2>1. mode \in Modes /\ timer - dt \in Int
    BY <1>2 DEF Inv, TypeOK
  <2>2. CASE timer - dt <= 0
    <3>1. mode' \in Modes /\ timer' \in Timers
      BY <1>1, <2>2, Zenon DEF ChangeMode
    <3> QED
      BY <3>1, TimeAssumption
  <2>3. CASE ~ (timer - dt <= 0)
    BY <1>1, <2>1, <2>3, Zenon DEF ChangeMode
  <2> QED
    BY <2>2, <2>3, Zenon
<1>4. Aim(target') /\ Throttle(tps') /\ Load(map')
  BY <1>1, <1>2, <1>3, DriveInRange, Zenon
<1>5. Speed(rpm')
  <2>1. Speed(rpm)
    BY Zenon DEF Inv, Limits
  <2>2. Speed(Smooth(rpm, target', dt))
    BY <1>2, <1>4, <2>1, Smoothed, Zenon
  <2> QED
    BY <1>1, <2>2, NotBelowZero
<1>6. Limits'
  BY <1>4, <1>5, Zenon DEF Limits
<1>7. rpm' \in Int /\ target' \in Int /\ tps' \in Int /\ map' \in Int
  BY <1>4, <1>5 DEF Speed, Aim, Throttle, Load
<1> QED
  BY <1>3, <1>6, <1>7 DEF Inv, TypeOK

LEMMA Invariance == Spec => []Inv
<1>1. Inv /\ [Next]_vars => Inv'
  <2> SUFFICES ASSUME Inv, [Next]_vars PROVE Inv'
    OBVIOUS
  <2>1. CASE UNCHANGED vars
    BY <2>1 DEF vars, Inv, TypeOK, Limits
  <2> QED
    BY <2>1, UpdateKeeps DEF Next
<1> QED
  BY <1>1, Initial, PTL DEF Spec

(* The engine is in one of its modes, and its values are numbers.          *)
THEOREM TypeCorrect == Spec => []TypeOK
<1>1. Inv => TypeOK
  BY DEF Inv
<1> QED
  BY <1>1, Invariance, PTL

(* Whatever modes follow one another and however long a round takes,       *)
(* speed, throttle and pressure stay within the limits of the code         *)
(* (EngineState.update).                                                   *)
THEOREM LimitsKept == Spec => []InRange
<1>1. Inv => InRange
  BY LimitsGiveInRange DEF Inv
<1> QED
  BY <1>1, Invariance, PTL

------------------------------------------------------------------------------
(* A block of conditions, as the reference keeps it.                       *)
Block == [holds : BOOLEAN, past : BOOLEAN]

(* Every open block is on the side that counts.                            *)
Active(b) == \A i \in 1 .. Len(b) : b[i].holds # b[i].past

(* A stack of a reader says of each open block whether its side counts.    *)
Follows(s, b) ==
  /\ s \in Seq(BOOLEAN) /\ b \in Seq(Block) /\ Len(s) = Len(b)
  /\ \A i \in 1 .. Len(b) : s[i] <=> (b[i].holds # b[i].past)

(* A line counts for a reader just when it does for the reference.         *)
LEMMA AllOrNone ==
  ASSUME NEW s, NEW b, Follows(s, b)
  PROVE  Ini!AllTrue(s) <=> Active(b)
<1>1. DOMAIN s = 1 .. Len(b)
  BY DEF Follows
<1> QED
  BY <1>1 DEF Follows, Ini!AllTrue, Active

(* #if pushes the condition on both.                                       *)
LEMMA IfFollows ==
  ASSUME NEW s, NEW b, Follows(s, b), NEW c \in BOOLEAN
  PROVE  Follows(Append(s, c), Append(b, [holds |-> c, past |-> FALSE]))
<1> DEFINE e == [holds |-> c, past |-> FALSE]
<1>1. e \in Block /\ e.holds = c /\ e.past = FALSE
  BY Zenon DEF Block
<1> HIDE DEF e
<1>2. /\ Append(s, c) \in Seq(BOOLEAN) /\ Append(b, e) \in Seq(Block)
      /\ Len(Append(s, c)) = Len(b) + 1 /\ Len(Append(b, e)) = Len(b) + 1
  BY <1>1 DEF Follows
<1>3. ASSUME NEW i \in 1 .. Len(b) + 1
      PROVE  Append(s, c)[i] <=> (Append(b, e)[i].holds # Append(b, e)[i].past)
  <2>1. CASE i = Len(b) + 1
    <3>1. Append(s, c)[i] = c /\ Append(b, e)[i] = e
      BY <2>1 DEF Follows
    <3> QED
      BY <3>1, <1>1, Zenon
  <2>2. CASE i \in 1 .. Len(b)
    <3>1. Append(s, c)[i] = s[i] /\ Append(b, e)[i] = b[i]
      BY <2>2 DEF Follows
    <3> QED
      BY <3>1, <2>2 DEF Follows
  <2> QED
    BY <2>1, <2>2 DEF Follows
<1>4. Follows(Append(s, c), Append(b, e))
  BY <1>2, <1>3 DEF Follows
<1> QED
  BY <1>4 DEF e

(* The first #else of a block turns the top of the stack over, and only    *)
(* it.                                                                     *)
LEMMA ElseFollows ==
  ASSUME NEW s, NEW b, Follows(s, b), b # << >>, ~ b[Len(b)].past
  PROVE  Follows(Ini!Flip(s), [b EXCEPT ![Len(b)].past = TRUE])
<1> DEFINE n == Len(b)
           c == [b EXCEPT ![n].past = TRUE]
<1>1. n \in 1 .. n /\ s # << >> /\ Len(s) = n /\ n \in Nat
  BY DEF Follows
<1>2. Ini!Flip(s) = [s EXCEPT ![n] = ~ s[n]]
  BY <1>1 DEF Ini!Flip
<1>3. b[n] \in Block /\ s[n] \in BOOLEAN
  BY <1>1 DEF Follows
<1>4. c = [b EXCEPT ![n] = [b[n] EXCEPT !.past = TRUE]]
  BY Zenon
<1>5. [b[n] EXCEPT !.past = TRUE] \in Block
      /\ [b[n] EXCEPT !.past = TRUE].holds = b[n].holds /\ [b[n] EXCEPT !.past = TRUE].past = TRUE
  BY <1>3, Zenon DEF Block
<1>e. PICK e \in Block : e = [b[n] EXCEPT !.past = TRUE]
  BY <1>5
<1>f. c = [b EXCEPT ![n] = e]
  BY <1>4, <1>e
<1> HIDE DEF c
<1>6. c \in Seq(Block) /\ Len(c) = n /\ c[n] = [b[n] EXCEPT !.past = TRUE]
      /\ \A i \in 1 .. n : i # n => c[i] = b[i]
  <2>1. b \in Seq(Block)
    BY DEF Follows
  <2>2. c \in Seq(Block) /\ Len(c) = n /\ c[n] = e /\ \A i \in 1 .. n : i # n => c[i] = b[i]
    BY <1>1, <1>f, <2>1
  <2> QED
    BY <2>2, <1>e
<1>7. Ini!Flip(s) \in Seq(BOOLEAN) /\ Len(Ini!Flip(s)) = n /\ Ini!Flip(s)[n] = ~ s[n]
      /\ \A i \in 1 .. n : i # n => Ini!Flip(s)[i] = s[i]
  BY <1>1, <1>2, <1>3 DEF Follows
<1>8. s[n] <=> (b[n].holds # b[n].past)
  BY <1>1 DEF Follows
<1>9. Ini!Flip(s)[n] <=> (c[n].holds # c[n].past)
  BY <1>3, <1>5, <1>6, <1>7, <1>8, Zenon DEF Block
<1>10. Follows(Ini!Flip(s), c)
  BY <1>6, <1>7, <1>9, ZenonT(60) DEF Follows
<1> QED
  BY <1>10 DEF c

(* #endif takes one block off both, and is nothing where none is open.     *)
LEMMA EndifFollows ==
  ASSUME NEW s, NEW b, Follows(s, b)
  PROVE  Follows(Ini!Pop(s), IF b = << >> THEN b ELSE Ini!Front(b))
<1>1. CASE b = << >>
  BY <1>1 DEF Follows, Ini!Pop
<1>2. CASE b # << >>
  <2>1. s # << >> /\ Len(b) \in Nat \ {0} /\ Len(s) = Len(b)
    BY <1>2 DEF Follows
  <2>2. /\ Ini!Front(b) \in Seq(Block) /\ Len(Ini!Front(b)) = Len(b) - 1
        /\ \A i \in 1 .. Len(b) - 1 : Ini!Front(b)[i] = b[i]
    BY <2>1 DEF Follows, Ini!Front
  <2>3. /\ Ini!Front(s) \in Seq(BOOLEAN) /\ Len(Ini!Front(s)) = Len(b) - 1
        /\ \A i \in 1 .. Len(b) - 1 : Ini!Front(s)[i] = s[i]
    BY <2>1 DEF Follows, Ini!Front
  <2> QED
    BY <1>2, <2>1, <2>2, <2>3 DEF Follows, Ini!Pop
<1> QED
  BY <1>1, <1>2

(* The records of the readers and of the reference.                        *)
EcuShape(r) ==
  r = [stack |-> r.stack, can |-> r.can, section |-> r.section, page |-> r.page,
       fields |-> r.fields, constants |-> r.constants, signature |-> r.signature]

ProperShape(p) ==
  p = [blocks |-> p.blocks, fahrenheit |-> p.fahrenheit, can |-> p.can, obeys |-> p.obeys,
       section |-> p.section, page |-> p.page, fields |-> p.fields, constants |-> p.constants,
       signature |-> p.signature]

DaemonShape(r) ==
  r = [stack |-> r.stack, fahrenheit |-> r.fahrenheit, can |-> r.can, in |-> r.in,
       fields |-> r.fields]

PlainShape(r) ==
  r = [stack |-> r.stack, in |-> r.in, fields |-> r.fields, signature |-> r.signature]

(* ecuSim has read what the reference has.                                 *)
EcuAgrees(r, p) ==
  /\ EcuShape(r) /\ ProperShape(p) /\ Follows(r.stack, p.blocks)
  /\ p.obeys = TRUE /\ p.fahrenheit = TRUE /\ r.can \in BOOLEAN /\ r.can = p.can
  /\ r.section = p.section /\ r.page = p.page
  /\ r.fields = p.fields /\ r.constants = p.constants /\ r.signature = p.signature

(* What the three directives of a block do to the reference.               *)
LEMMA ProperIf ==
  ASSUME NEW p, NEW line, ProperShape(p), line.kind = "if"
  PROVE  LET q == Ini!ProperLine(p, line)
         IN /\ ProperShape(q)
            /\ q.blocks = Append(p.blocks, [holds |-> Ini!ProperTrue(p, line.on), past |-> FALSE])
            /\ q.fahrenheit = p.fahrenheit /\ q.can = p.can /\ q.obeys = p.obeys
            /\ q.section = p.section /\ q.page = p.page
            /\ q.fields = p.fields /\ q.constants = p.constants /\ q.signature = p.signature
<1> DEFINE b == Append(p.blocks, [holds |-> Ini!ProperTrue(p, line.on), past |-> FALSE])
<1>1. Ini!ProperLine(p, line) = [p EXCEPT !.blocks = b]
  BY Zenon DEF Ini!ProperLine
<1> HIDE DEF b
<1> QED
  BY <1>1, Zenon DEF ProperShape, b

LEMMA ProperElse ==
  ASSUME NEW p, NEW line, ProperShape(p), line.kind = "else"
  PROVE  LET q == Ini!ProperLine(p, line)
         IN /\ ProperShape(q)
            /\ q.blocks = IF p.blocks = << >> THEN p.blocks
                          ELSE [p.blocks EXCEPT ![Len(p.blocks)].past = TRUE]
            /\ q.fahrenheit = p.fahrenheit /\ q.can = p.can /\ q.obeys = p.obeys
            /\ q.section = p.section /\ q.page = p.page
            /\ q.fields = p.fields /\ q.constants = p.constants /\ q.signature = p.signature
<1> DEFINE b == [p.blocks EXCEPT ![Len(p.blocks)].past = TRUE]
<1>1. Ini!ProperLine(p, line) = IF p.blocks = << >> THEN p ELSE [p EXCEPT !.blocks = b]
  BY Zenon DEF Ini!ProperLine
<1> HIDE DEF b
<1> QED
  BY <1>1, Zenon DEF ProperShape, b

LEMMA ProperEndif ==
  ASSUME NEW p, NEW line, ProperShape(p), line.kind = "endif"
  PROVE  LET q == Ini!ProperLine(p, line)
         IN /\ ProperShape(q)
            /\ q.blocks = IF p.blocks = << >> THEN p.blocks ELSE Ini!Front(p.blocks)
            /\ q.fahrenheit = p.fahrenheit /\ q.can = p.can /\ q.obeys = p.obeys
            /\ q.section = p.section /\ q.page = p.page
            /\ q.fields = p.fields /\ q.constants = p.constants /\ q.signature = p.signature
<1> DEFINE b == Ini!Front(p.blocks)
<1>1. Ini!ProperLine(p, line) = IF p.blocks = << >> THEN p ELSE [p EXCEPT !.blocks = b]
  BY Zenon DEF Ini!ProperLine
<1> HIDE DEF b
<1> QED
  BY <1>1 DEF ProperShape, b

(* The lines that count or do not, as the open blocks say.                 *)
Plainly == Kinds \ {"if", "else", "endif"}

(* The reference takes such a line or leaves it.                           *)
LEMMA ProperOther ==
  ASSUME NEW p, NEW line, line.kind \in Plainly
  PROVE  Ini!ProperLine(p, line) = IF Active(p.blocks) THEN Ini!ProperlyTaken(p, line) ELSE p
<1>1. Ini!Here(p) <=> Active(p.blocks)
  BY SMTT(60) DEF Ini!Here, Active
<1> QED
  BY <1>1 DEF Ini!ProperLine, Plainly, Kinds

(* ecuSim (_process_line) goes on agreeing on each kind of line.           *)
LEMMA EcuIf ==
  ASSUME NEW r, NEW p, EcuAgrees(r, p), NEW line, line.kind = "if"
  PROVE  EcuAgrees(Ini!ProcessLine(r, line), Ini!ProperLine(p, line))
<1> DEFINE q == Ini!ProperLine(p, line)
           e == Ini!ProcessLine(r, line)
           s == Append(r.stack, Ini!EcuTrue(r, line.on))
<1>1. e = [r EXCEPT !.stack = s]
  BY Zenon DEF Ini!ProcessLine
<1>2. /\ Ini!EcuTrue(r, line.on) = Ini!ProperTrue(p, line.on)
      /\ Ini!EcuTrue(r, line.on) \in BOOLEAN
  BY Zenon DEF Ini!EcuTrue, Ini!ProperTrue, EcuAgrees
<1>3. Follows(s, Append(p.blocks, [holds |-> Ini!ProperTrue(p, line.on), past |-> FALSE]))
  BY <1>2, IfFollows DEF EcuAgrees
<1> HIDE DEF s
<1>4. /\ EcuShape(e) /\ e.stack = s
      /\ e.can = r.can /\ e.section = r.section /\ e.page = r.page
      /\ e.fields = r.fields /\ e.constants = r.constants /\ e.signature = r.signature
  BY <1>1 DEF EcuAgrees, EcuShape
<1> QED
  BY <1>3, <1>4, ProperIf, ZenonT(60) DEF EcuAgrees

LEMMA EcuElse ==
  ASSUME NEW r, NEW p, EcuAgrees(r, p), NEW line, line.kind = "else",
         p.blocks # << >> => ~ p.blocks[Len(p.blocks)].past
  PROVE  EcuAgrees(Ini!ProcessLine(r, line), Ini!ProperLine(p, line))
<1> DEFINE q == Ini!ProperLine(p, line)
           e == Ini!ProcessLine(r, line)
           s == Ini!Flip(r.stack)
<1>1. e = [r EXCEPT !.stack = s]
  BY Zenon DEF Ini!ProcessLine
<1>3. Follows(s, IF p.blocks = << >> THEN p.blocks ELSE [p.blocks EXCEPT ![Len(p.blocks)].past = TRUE])
  <2>1. CASE p.blocks = << >>
    <3>1. r.stack = << >>
      BY <2>1 DEF EcuAgrees, Follows
    <3> QED
      BY <2>1, <3>1 DEF EcuAgrees, Ini!Flip
  <2>2. CASE p.blocks # << >>
    BY <2>2, ElseFollows DEF EcuAgrees
  <2> QED
    BY <2>1, <2>2
<1> HIDE DEF s
<1>4. /\ EcuShape(e) /\ e.stack = s
      /\ e.can = r.can /\ e.section = r.section /\ e.page = r.page
      /\ e.fields = r.fields /\ e.constants = r.constants /\ e.signature = r.signature
  BY <1>1 DEF EcuAgrees, EcuShape
<1> QED
  BY <1>3, <1>4, ProperElse DEF EcuAgrees

LEMMA EcuEndif ==
  ASSUME NEW r, NEW p, EcuAgrees(r, p), NEW line, line.kind = "endif"
  PROVE  EcuAgrees(Ini!ProcessLine(r, line), Ini!ProperLine(p, line))
<1> DEFINE q == Ini!ProperLine(p, line)
           e == Ini!ProcessLine(r, line)
           s == Ini!Pop(r.stack)
<1>1. e = [r EXCEPT !.stack = s]
  BY Zenon DEF Ini!ProcessLine
<1>3. Follows(s, IF p.blocks = << >> THEN p.blocks ELSE Ini!Front(p.blocks))
  BY EndifFollows DEF EcuAgrees
<1> HIDE DEF s
<1>4. /\ EcuShape(e) /\ e.stack = s
      /\ e.can = r.can /\ e.section = r.section /\ e.page = r.page
      /\ e.fields = r.fields /\ e.constants = r.constants /\ e.signature = r.signature
  BY <1>1 DEF EcuAgrees, EcuShape
<1> QED
  BY <1>3, <1>4, ProperEndif DEF EcuAgrees

(* #set and #unset are obeyed in a block that is skipped, too: there the   *)
(* reference and ecuSim part.                                              *)
LEMMA EcuOther ==
  ASSUME NEW r, NEW p, EcuAgrees(r, p), NEW line, line.kind \in Plainly,
         line.kind \in {"set", "unset"} => Active(p.blocks)
  PROVE  EcuAgrees(Ini!ProcessLine(r, line), Ini!ProperLine(p, line))
<1> DEFINE q == Ini!ProperLine(p, line)
           e == Ini!ProcessLine(r, line)
<1>0. Ini!AllTrue(r.stack) <=> Active(p.blocks)
  BY AllOrNone DEF EcuAgrees
<1>1. CASE line.kind = "set"
  <2>1. e = [r EXCEPT !.can = TRUE] /\ q = [p EXCEPT !.can = TRUE]
    BY <1>1, ProperOther, Zenon DEF Ini!ProcessLine, Ini!ProperlyTaken, EcuAgrees
  <2> QED
    BY <2>1, ZenonT(60) DEF EcuAgrees, EcuShape, ProperShape
<1>2. CASE line.kind = "unset"
  <2>1. e = [r EXCEPT !.can = FALSE] /\ q = [p EXCEPT !.can = FALSE]
    BY <1>2, ProperOther, Zenon DEF Ini!ProcessLine, Ini!ProperlyTaken, EcuAgrees
  <2> QED
    BY <2>1, ZenonT(60) DEF EcuAgrees, EcuShape, ProperShape
<1>3. CASE line.kind \notin {"set", "unset"} /\ ~ Active(p.blocks)
  <2>1. e = r /\ q = p
    BY <1>0, <1>3, ProperOther DEF Ini!ProcessLine, Plainly, Kinds
  <2> QED
    BY <2>1
<1>4. CASE line.kind \notin {"set", "unset"} /\ Active(p.blocks)
  <2>1. e = Ini!TakeLine(r, line) /\ q = Ini!ProperlyTaken(p, line)
    BY <1>0, <1>4, ProperOther DEF Ini!ProcessLine, Plainly, Kinds
  <2>2. CASE line.kind = "section"
    <3>1. e = [r EXCEPT !.section = line.on] /\ q = [p EXCEPT !.section = line.on]
      BY <2>1, <2>2 DEF Ini!TakeLine, Ini!ProperlyTaken
    <3> QED
      BY <3>1 DEF EcuAgrees, EcuShape, ProperShape
  <2>3. CASE line.kind = "signature"
    <3>1. e = [r EXCEPT !.signature = line.def] /\ q = [p EXCEPT !.signature = line.def]
      BY <2>1, <2>3 DEF Ini!TakeLine, Ini!ProperlyTaken
    <3> QED
      BY <3>1 DEF EcuAgrees, EcuShape, ProperShape
  <2>4. CASE line.kind = "page" /\ r.section = "Constants"
    <3>1. e = [r EXCEPT !.page = line.def] /\ q = [p EXCEPT !.page = line.def]
      BY <2>1, <2>4 DEF Ini!TakeLine, Ini!ProperlyTaken, Ini!InSectionOfEcu, Ini!ParseConstant, EcuAgrees
    <3> QED
      BY <3>1 DEF EcuAgrees, EcuShape, ProperShape
  <2>5. CASE line.kind = "field" /\ r.section = "Constants"
    <3>1. PICK f : f = Ini!Put(r.constants, line.on, <<r.page, line.def>>)
      OBVIOUS
    <3>2. e = [r EXCEPT !.constants = f] /\ q = [p EXCEPT !.constants = f]
      BY <2>1, <2>5, <3>1 DEF Ini!TakeLine, Ini!ProperlyTaken, Ini!InSectionOfEcu, Ini!ParseConstant, EcuAgrees
    <3> QED
      BY <3>2 DEF EcuAgrees, EcuShape, ProperShape
  <2>6. CASE line.kind = "field" /\ r.section = "OutputChannels"
    <3>1. PICK f : f = Ini!Put(r.fields, line.on, line.def)
      OBVIOUS
    <3>2. e = [r EXCEPT !.fields = f] /\ q = [p EXCEPT !.fields = f]
      BY <2>1, <2>6, <3>1 DEF Ini!TakeLine, Ini!ProperlyTaken, Ini!InSectionOfEcu, Ini!ParseOutputChannel, EcuAgrees
    <3> QED
      BY <3>2 DEF EcuAgrees, EcuShape, ProperShape
  <2>7. CASE line.kind \in {"page", "field"} /\ r.section \notin {"Constants", "OutputChannels"}
    <3>1. e = r /\ q = p
      BY <2>1, <2>7 DEF Ini!TakeLine, Ini!ProperlyTaken, Ini!InSectionOfEcu, EcuAgrees
    <3> QED
      BY <3>1
  <2>8. CASE line.kind = "page" /\ r.section = "OutputChannels"
    <3>1. e = r /\ q = p
      BY <2>1, <2>8 DEF Ini!TakeLine, Ini!ProperlyTaken, Ini!InSectionOfEcu, Ini!ParseOutputChannel, EcuAgrees
    <3> QED
      BY <3>1
  <2>9. CASE line.kind = "commented"
    <3>1. e = r
      BY <2>1, <2>9 DEF Ini!TakeLine, Ini!InSectionOfEcu, Ini!ParseOutputChannel, Ini!ParseConstant
    <3>2. q = p
      BY <2>1, <2>9 DEF Ini!ProperlyTaken
    <3> QED
      BY <3>1, <3>2
  <2> QED
    BY <1>4, <2>2, <2>3, <2>4, <2>5, <2>6, <2>7, <2>8, <2>9 DEF Plainly, Kinds
<1> QED
  BY <1>1, <1>2, <1>3, <1>4

(* The dash and the older simulator: they have no symbols.                 *)
PlainAgrees(r, p) ==
  /\ PlainShape(r) /\ ProperShape(p) /\ Follows(r.stack, p.blocks)
  /\ p.obeys = FALSE /\ p.can = FALSE /\ p.fahrenheit = TRUE
  /\ r.in \in BOOLEAN /\ (r.in <=> p.section = "OutputChannels")
  /\ r.fields = p.fields

(* They go on agreeing on each kind of line, whatever they do with         *)
(* signatures.                                                             *)
LEMMA PlainIf ==
  ASSUME NEW r, NEW p, PlainAgrees(r, p), NEW line, line.kind = "if",
         NEW e, e = [r EXCEPT !.stack = Append(@, line.on \notin {"CELSIUS", "CAN_COMMANDS"})]
  PROVE  /\ PlainAgrees(e, Ini!ProperLine(p, line))
         /\ e.signature = r.signature /\ Ini!ProperLine(p, line).signature = p.signature
<1> DEFINE c == line.on \notin {"CELSIUS", "CAN_COMMANDS"}
           s == Append(r.stack, c)
<1>1. e = [r EXCEPT !.stack = s]
  BY Zenon
<1>2. c = Ini!ProperTrue(p, line.on) /\ c \in BOOLEAN
  BY Zenon DEF Ini!ProperTrue, PlainAgrees
<1> HIDE DEF c
<1>3. Follows(s, Append(p.blocks, [holds |-> Ini!ProperTrue(p, line.on), past |-> FALSE]))
  BY <1>2, IfFollows DEF PlainAgrees
<1> HIDE DEF s
<1>4. /\ PlainShape(e) /\ e.stack = s
      /\ e.in = r.in /\ e.fields = r.fields /\ e.signature = r.signature
  BY <1>1, Zenon DEF PlainAgrees, PlainShape
<1> DEFINE b == Append(p.blocks, [holds |-> Ini!ProperTrue(p, line.on), past |-> FALSE])
<1>5. PICK q : q = Ini!ProperLine(p, line)
  OBVIOUS
<1>6. /\ ProperShape(q) /\ q.blocks = b /\ q.fahrenheit = p.fahrenheit /\ q.can = p.can /\ q.obeys = p.obeys
      /\ q.section = p.section /\ q.fields = p.fields /\ q.signature = p.signature
  BY <1>5, ProperIf DEF PlainAgrees
<1>7. Follows(s, b)
  BY <1>3
<1> HIDE DEF b
<1> QED
  BY <1>4, <1>5, <1>6, <1>7, Zenon DEF PlainAgrees

LEMMA PlainElse ==
  ASSUME NEW r, NEW p, PlainAgrees(r, p), NEW line, line.kind = "else",
         p.blocks # << >> => ~ p.blocks[Len(p.blocks)].past,
         NEW e, e = [r EXCEPT !.stack = Ini!Flip(@)]
  PROVE  /\ PlainAgrees(e, Ini!ProperLine(p, line))
         /\ e.signature = r.signature /\ Ini!ProperLine(p, line).signature = p.signature
<1> DEFINE s == Ini!Flip(r.stack)
<1>1. e = [r EXCEPT !.stack = s]
  BY Zenon
<1>3. Follows(s, IF p.blocks = << >> THEN p.blocks ELSE [p.blocks EXCEPT ![Len(p.blocks)].past = TRUE])
  <2>1. CASE p.blocks = << >>
    <3>1. r.stack = << >>
      BY <2>1 DEF PlainAgrees, Follows
    <3> QED
      BY <2>1, <3>1 DEF PlainAgrees, Ini!Flip
  <2>2. CASE p.blocks # << >>
    BY <2>2, ElseFollows DEF PlainAgrees
  <2> QED
    BY <2>1, <2>2
<1> HIDE DEF s
<1>4. /\ PlainShape(e) /\ e.stack = s
      /\ e.in = r.in /\ e.fields = r.fields /\ e.signature = r.signature
  BY <1>1 DEF PlainAgrees, PlainShape
<1> QED
  BY <1>3, <1>4, ProperElse DEF PlainAgrees

LEMMA PlainEndif ==
  ASSUME NEW r, NEW p, PlainAgrees(r, p), NEW line, line.kind = "endif",
         NEW e, e = [r EXCEPT !.stack = Ini!Pop(@)]
  PROVE  /\ PlainAgrees(e, Ini!ProperLine(p, line))
         /\ e.signature = r.signature /\ Ini!ProperLine(p, line).signature = p.signature
<1> DEFINE s == Ini!Pop(r.stack)
<1>1. e = [r EXCEPT !.stack = s]
  BY Zenon
<1>3. Follows(s, IF p.blocks = << >> THEN p.blocks ELSE Ini!Front(p.blocks))
  BY EndifFollows DEF PlainAgrees
<1> HIDE DEF s
<1>4. /\ PlainShape(e) /\ e.stack = s
      /\ e.in = r.in /\ e.fields = r.fields /\ e.signature = r.signature
  BY <1>1 DEF PlainAgrees, PlainShape
<1> QED
  BY <1>3, <1>4, ProperEndif DEF PlainAgrees

LEMMA PlainOther ==
  ASSUME NEW r, NEW p, PlainAgrees(r, p), NEW line, line.kind \in Plainly,
         NEW e, e = IF Active(p.blocks) THEN Ini!InSection(r, line) ELSE r
  PROVE  /\ PlainAgrees(e, Ini!ProperLine(p, line))
         /\ e.signature = r.signature
         /\ Ini!ProperLine(p, line).signature =
              IF Active(p.blocks) /\ line.kind = "signature" THEN line.def ELSE p.signature
<1> DEFINE q == Ini!ProperLine(p, line)
<1> USE DEF Plainly, Kinds
<1>1. CASE ~ Active(p.blocks)
  BY <1>1, ProperOther
<1>2. CASE Active(p.blocks)
  <2>1. e = Ini!InSection(r, line) /\ q = Ini!ProperlyTaken(p, line)
    BY <1>2, ProperOther
  <2>2. CASE line.kind \in {"set", "unset", "commented"}
    <3>1. e = r /\ q = p
      BY <2>1, <2>2 DEF Ini!InSection, Ini!ProperlyTaken, PlainAgrees
    <3> QED
      BY <2>2, <3>1
  <2>3. CASE line.kind = "section"
    <3>0. PICK i \in BOOLEAN : i = (line.on = "OutputChannels")
      BY Zenon
    <3>1. e = [r EXCEPT !.in = i] /\ q = [p EXCEPT !.section = line.on]
      BY <2>1, <2>3, <3>0, Zenon DEF Ini!InSection, Ini!ProperlyTaken
    <3>2. /\ PlainShape(e) /\ e.in = i /\ e.stack = r.stack /\ e.fields = r.fields
          /\ e.signature = r.signature
      BY <3>1 DEF PlainAgrees, PlainShape
    <3>3. /\ ProperShape(q) /\ q.section = line.on /\ q.blocks = p.blocks /\ q.can = p.can
          /\ q.fahrenheit = p.fahrenheit /\ q.obeys = p.obeys /\ q.fields = p.fields /\ q.signature = p.signature
      BY <3>1 DEF PlainAgrees, ProperShape
    <3> QED
      BY <2>3, <3>0, <3>2, <3>3, Zenon DEF PlainAgrees
  <2>4. CASE line.kind = "signature"
    <3>1. e = r /\ q = [p EXCEPT !.signature = line.def]
      BY <2>1, <2>4 DEF Ini!InSection, Ini!ProperlyTaken
    <3> QED
      BY <1>2, <2>4, <3>1 DEF PlainAgrees, PlainShape, ProperShape
  <2>5. CASE line.kind = "page"
    <3>1. e = r /\ (q = [p EXCEPT !.page = line.def] \/ q = p)
      BY <2>1, <2>5 DEF Ini!InSection, Ini!ProperlyTaken
    <3> QED
      BY <2>5, <3>1 DEF PlainAgrees, PlainShape, ProperShape
  <2>6. CASE line.kind = "field" /\ r.in
    <3>1. PICK f : f = Ini!Put(r.fields, line.on, line.def)
      OBVIOUS
    <3>2. e = [r EXCEPT !.fields = f]
      BY <2>1, <2>6, <3>1, Zenon DEF Ini!InSection
    <3>3. q = [p EXCEPT !.fields = f]
      BY <2>1, <2>6, <3>1 DEF Ini!ProperlyTaken, PlainAgrees
    <3> QED
      BY <2>6, <3>2, <3>3, ZenonT(60) DEF PlainAgrees, PlainShape, ProperShape
  <2>7. CASE line.kind = "field" /\ ~ r.in
    <3>1. e = r
      BY <2>1, <2>7, Zenon DEF Ini!InSection
    <3>2. q = p \/ \E f : q = [p EXCEPT !.constants = f]
      BY <2>1, <2>7, Zenon DEF Ini!ProperlyTaken, PlainAgrees
    <3> QED
      BY <2>7, <3>1, <3>2 DEF PlainAgrees, PlainShape, ProperShape
  <2> QED
    BY <2>2, <2>3, <2>4, <2>5, <2>6, <2>7
<1> QED
  BY <1>1, <1>2

(* The fields the daemon keeps in a row are those of a dictionary: each    *)
(* name of the row is in it, and each entry is in the row.                 *)
FieldsFollow(q, f) ==
  /\ q \in Seq(STRING \X Nat)
  /\ \A i \in 1 .. Len(q) : q[i][1] \in DOMAIN f
  /\ \A n \in DOMAIN f : \E i \in 1 .. Len(q) : q[i][1] = n /\ q[i][2] = f[n]

(* Appending a field to the row follows putting it into the dictionary,    *)
(* which forgets what the name stood for before; the row does not.         *)
LEMMA FieldAdded ==
  ASSUME NEW q, NEW f, FieldsFollow(q, f), NEW on \in STRING, NEW def \in Nat
  PROVE  FieldsFollow(Append(q, <<on, def>>), Ini!Put(f, on, def))
<1>0. PICK x \in STRING \X Nat : x = <<on, def>>
  BY Zenon
<1>x. x[1] = on /\ x[2] = def
  BY <1>0
<1>1. PICK a : a = Append(q, x)
  BY Zenon
<1>2. PICK g : g = Ini!Put(f, on, def)
  BY Zenon
<1>3. Len(q) \in Nat /\ q \in Seq(STRING \X Nat)
  BY DEF FieldsFollow
<1>4. /\ a \in Seq(STRING \X Nat) /\ Len(a) = Len(q) + 1 /\ a[Len(q) + 1] = x
      /\ \A i \in 1 .. Len(q) : a[i] = q[i]
  BY <1>1, <1>3
<1>5. DOMAIN g = DOMAIN f \cup {on} /\ g[on] = def
      /\ \A n \in DOMAIN f : n # on => g[n] = f[n]
  BY <1>2 DEF Ini!Put
<1>6. ASSUME NEW i \in 1 .. Len(a) PROVE a[i][1] \in DOMAIN g
  <2>1. CASE i = Len(q) + 1
    BY <1>x, <1>4, <1>5, <2>1, Zenon
  <2>2. CASE i \in 1 .. Len(q)
    <3>1. a[i] = q[i] /\ q[i][1] \in DOMAIN f
      BY <1>4, <2>2, Zenon DEF FieldsFollow
    <3> QED
      BY <1>5, <3>1, Zenon
  <2> QED
    BY <1>3, <1>4, <2>1, <2>2
<1>7. ASSUME NEW n \in DOMAIN g PROVE \E i \in 1 .. Len(a) : a[i][1] = n /\ a[i][2] = g[n]
  <2>1. CASE n = on
    <3>1. Len(q) + 1 \in 1 .. Len(a)
      BY <1>3, <1>4
    <3>2. a[Len(q) + 1][1] = n /\ a[Len(q) + 1][2] = g[n]
      BY <1>x, <1>4, <1>5, <2>1, Zenon
    <3> QED
      BY <3>1, <3>2
  <2>2. CASE n # on
    <3>1. PICK i \in 1 .. Len(q) : q[i][1] = n /\ q[i][2] = f[n]
      BY <1>5, <2>2, Zenon DEF FieldsFollow
    <3>2. i \in 1 .. Len(a)
      BY <1>3, <1>4
    <3>3. a[i] = q[i] /\ g[n] = f[n]
      BY <1>4, <1>5, <2>2, Zenon
    <3> QED
      BY <3>1, <3>2, <3>3
  <2> QED
    BY <2>1, <2>2
<1>8. FieldsFollow(a, g)
  BY <1>4, <1>6, <1>7 DEF FieldsFollow
<1> QED
  BY <1>0, <1>1, <1>2, <1>8

(* A name that is in the row once is found with the definition of the      *)
(* dictionary (ms2d_find_field).                                           *)
LEMMA FindsThem ==
  ASSUME NEW r, NEW f, FieldsFollow(r.fields, f), NEW n,
         \A i, j \in DOMAIN r.fields : r.fields[i][1] = n /\ r.fields[j][1] = n => i = j
  PROVE  Ini!Find(r, n) = {f[m] : m \in {n} \cap DOMAIN f}
<1>1. PICK q : q = r.fields
  OBVIOUS
<1>2. FieldsFollow(q, f)
  BY <1>1
<1>3. q \in Seq(STRING \X Nat) /\ DOMAIN q = 1 .. Len(q) /\ Len(q) \in Nat
  BY <1>2 DEF FieldsFollow
<1> DEFINE I == {i \in 1 .. Len(q) : q[i][1] = n}
<1>4. \A i, j \in I : i = j
  BY <1>1, <1>3
<1>5. Ini!SelectInSeq(q, LAMBDA x : x[1] = n) = IF I # {} THEN Ini!Min(I) ELSE 0
  BY DEF Ini!SelectInSeq
<1>6. Ini!Find(r, n) = LET k == IF I # {} THEN Ini!Min(I) ELSE 0 IN IF k = 0 THEN {} ELSE {q[k][2]}
  BY <1>1, <1>5, Zenon DEF Ini!Find
<1>7. CASE I = {}
  <2>1. n \notin DOMAIN f
    BY <1>2, <1>7, Zenon DEF FieldsFollow
  <2> QED
    BY <1>6, <1>7, <2>1
<1>8. CASE I # {}
  <2>1. PICK i \in I : TRUE
    BY <1>8
  <2>2. I = {i}
    BY <1>4, <2>1
  <2>3. Ini!Min(I) = i
    BY <1>3, <2>2 DEF Ini!Min
  <2>4. n \in DOMAIN f /\ q[i][2] = f[n]
    <3>1. n \in DOMAIN f
      BY <1>2, <2>1, SMTT(60) DEF FieldsFollow
    <3>2. PICK j \in 1 .. Len(q) : q[j][1] = n /\ q[j][2] = f[n]
      BY <1>2, <3>1 DEF FieldsFollow
    <3>3. j = i
      BY <2>2, <3>2
    <3> QED
      BY <3>1, <3>2, <3>3
  <2>5. i # 0
    BY <1>3, <2>1
  <2> QED
    BY <1>6, <1>8, <2>3, <2>4, <2>5, Zenon
<1> QED
  BY <1>7, <1>8

(* The daemon, whatever the settings of the project.                       *)
DaemonAgrees(r, p) ==
  /\ DaemonShape(r) /\ ProperShape(p) /\ Follows(r.stack, p.blocks)
  /\ p.obeys = FALSE /\ r.can = p.can /\ r.fahrenheit = p.fahrenheit
  /\ p.can \in BOOLEAN /\ p.fahrenheit \in BOOLEAN
  /\ r.in \in BOOLEAN /\ (r.in <=> p.section = "OutputChannels")
  /\ FieldsFollow(r.fields, p.fields)

(* It goes on agreeing on each kind of line, unless a block is deeper than *)
(* its stack.                                                              *)
LEMMA DaemonIf ==
  ASSUME NEW r, NEW p, DaemonAgrees(r, p), NEW line, line.kind = "if", Len(r.stack) < MaxDepth
  PROVE  DaemonAgrees(Ini!DaemonLine(r, line), Ini!ProperLine(p, line))
<1> DEFINE c == Ini!DaemonTrue(r, line.on)
           s == Append(r.stack, c)
<1>0. PICK e : e = Ini!DaemonLine(r, line)
  OBVIOUS
<1>1. e = [r EXCEPT !.stack = s]
  BY <1>0, Zenon DEF Ini!DaemonLine
<1>2. c = Ini!ProperTrue(p, line.on) /\ c \in BOOLEAN
  BY Zenon DEF Ini!ProperTrue, Ini!DaemonTrue, DaemonAgrees
<1> HIDE DEF c
<1> DEFINE b == Append(p.blocks, [holds |-> Ini!ProperTrue(p, line.on), past |-> FALSE])
<1>3. Follows(s, b)
  BY <1>2, IfFollows DEF DaemonAgrees
<1> HIDE DEF s
<1>4. /\ DaemonShape(e) /\ e.stack = s
      /\ e.in = r.in /\ e.fields = r.fields /\ e.can = r.can /\ e.fahrenheit = r.fahrenheit
  BY <1>1 DEF DaemonAgrees, DaemonShape
<1>5. PICK q : q = Ini!ProperLine(p, line)
  OBVIOUS
<1>6. /\ ProperShape(q) /\ q.blocks = b /\ q.fahrenheit = p.fahrenheit /\ q.can = p.can /\ q.obeys = p.obeys
      /\ q.section = p.section /\ q.fields = p.fields /\ q.signature = p.signature
  BY <1>5, ProperIf DEF DaemonAgrees
<1> HIDE DEF b
<1> QED
  BY <1>0, <1>3, <1>4, <1>5, <1>6 DEF DaemonAgrees

LEMMA DaemonElse ==
  ASSUME NEW r, NEW p, DaemonAgrees(r, p), NEW line, line.kind = "else",
         p.blocks # << >> => ~ p.blocks[Len(p.blocks)].past
  PROVE  DaemonAgrees(Ini!DaemonLine(r, line), Ini!ProperLine(p, line))
<1> DEFINE s == Ini!Flip(r.stack)
<1>0. PICK e : e = Ini!DaemonLine(r, line)
  OBVIOUS
<1>1. e = [r EXCEPT !.stack = s]
  BY <1>0, Zenon DEF Ini!DaemonLine
<1>3. Follows(s, IF p.blocks = << >> THEN p.blocks ELSE [p.blocks EXCEPT ![Len(p.blocks)].past = TRUE])
  <2>1. CASE p.blocks = << >>
    <3>1. r.stack = << >>
      BY <2>1 DEF DaemonAgrees, Follows
    <3> QED
      BY <2>1, <3>1 DEF DaemonAgrees, Ini!Flip
  <2>2. CASE p.blocks # << >>
    BY <2>2, ElseFollows DEF DaemonAgrees
  <2> QED
    BY <2>1, <2>2
<1> HIDE DEF s
<1>4. /\ DaemonShape(e) /\ e.stack = s
      /\ e.in = r.in /\ e.fields = r.fields /\ e.can = r.can /\ e.fahrenheit = r.fahrenheit
  BY <1>1 DEF DaemonAgrees, DaemonShape
<1> QED
  BY <1>0, <1>3, <1>4, ProperElse DEF DaemonAgrees

LEMMA DaemonEndif ==
  ASSUME NEW r, NEW p, DaemonAgrees(r, p), NEW line, line.kind = "endif"
  PROVE  DaemonAgrees(Ini!DaemonLine(r, line), Ini!ProperLine(p, line))
<1> DEFINE s == Ini!Pop(r.stack)
<1>0. PICK e : e = Ini!DaemonLine(r, line)
  OBVIOUS
<1>1. e = [r EXCEPT !.stack = s]
  BY <1>0, Zenon DEF Ini!DaemonLine
<1>3. Follows(s, IF p.blocks = << >> THEN p.blocks ELSE Ini!Front(p.blocks))
  BY EndifFollows DEF DaemonAgrees
<1> HIDE DEF s
<1>4. /\ DaemonShape(e) /\ e.stack = s
      /\ e.in = r.in /\ e.fields = r.fields /\ e.can = r.can /\ e.fahrenheit = r.fahrenheit
  BY <1>1 DEF DaemonAgrees, DaemonShape
<1> QED
  BY <1>0, <1>3, <1>4, ProperEndif DEF DaemonAgrees

LEMMA DaemonOther ==
  ASSUME NEW r, NEW p, DaemonAgrees(r, p), NEW line, line.kind \in Plainly,
         line \in IniLines
  PROVE  DaemonAgrees(Ini!DaemonLine(r, line), Ini!ProperLine(p, line))
<1>0. PICK e : e = Ini!DaemonLine(r, line)
  OBVIOUS
<1> DEFINE q == Ini!ProperLine(p, line)
<1> USE <1>0 DEF Plainly, Kinds
<1>a. Ini!AllTrue(r.stack) <=> Active(p.blocks)
  BY AllOrNone DEF DaemonAgrees
<1>1. CASE ~ Active(p.blocks)
  <2>1. e = r /\ q = p
    BY <1>1, <1>a, ProperOther DEF Ini!DaemonLine
  <2> QED
    BY <2>1
<1>2. CASE Active(p.blocks)
  <2>1. e = Ini!InSectionOfDaemon(r, line) /\ q = Ini!ProperlyTaken(p, line)
    BY <1>2, <1>a, ProperOther DEF Ini!DaemonLine
  <2>2. CASE line.kind \in {"set", "unset", "commented"}
    <3>1. e = r /\ q = p
      BY <2>1, <2>2 DEF Ini!InSectionOfDaemon, Ini!ProperlyTaken, DaemonAgrees
    <3> QED
      BY <2>2, <3>1
  <2>3. CASE line.kind = "section"
    <3>0. PICK i \in BOOLEAN : i = (line.on = "OutputChannels")
      BY Zenon
    <3>1. e = [r EXCEPT !.in = i] /\ q = [p EXCEPT !.section = line.on]
      BY <2>1, <2>3, <3>0, Zenon DEF Ini!InSectionOfDaemon, Ini!ProperlyTaken
    <3>2. /\ DaemonShape(e) /\ e.in = i /\ e.stack = r.stack /\ e.fields = r.fields
          /\ e.can = r.can /\ e.fahrenheit = r.fahrenheit
      BY <3>1 DEF DaemonAgrees, DaemonShape
    <3>3. /\ ProperShape(q) /\ q.section = line.on /\ q.blocks = p.blocks /\ q.can = p.can
          /\ q.fahrenheit = p.fahrenheit /\ q.obeys = p.obeys /\ q.fields = p.fields /\ q.signature = p.signature
      BY <3>1 DEF DaemonAgrees, ProperShape
    <3> QED
      BY <2>3, <3>0, <3>2, <3>3, Zenon DEF DaemonAgrees
  <2>4. CASE line.kind = "signature"
    <3>1. e = r /\ q = [p EXCEPT !.signature = line.def]
      BY <2>1, <2>4 DEF Ini!InSectionOfDaemon, Ini!ProperlyTaken
    <3> QED
      BY <1>2, <2>4, <3>1 DEF DaemonAgrees, DaemonShape, ProperShape
  <2>5. CASE line.kind = "page"
    <3>1. e = r /\ (q = [p EXCEPT !.page = line.def] \/ q = p)
      BY <2>1, <2>5 DEF Ini!InSectionOfDaemon, Ini!ProperlyTaken
    <3> QED
      BY <2>5, <3>1 DEF DaemonAgrees, DaemonShape, ProperShape
  <2>6. CASE line.kind = "field" /\ r.in
    <3>1. PICK f : f = Ini!Put(p.fields, line.on, line.def)
      OBVIOUS
    <3>2. PICK a : a = Append(r.fields, <<line.on, line.def>>)
      BY Zenon
    <3>3. line.on \in STRING /\ line.def \in Nat
      BY IniAssumption
    <3>4. FieldsFollow(a, f)
      BY <3>1, <3>2, <3>3, FieldAdded, Zenon DEF DaemonAgrees
    <3>5. e = [r EXCEPT !.fields = a]
      BY <2>1, <2>6, <3>2, Zenon DEF Ini!InSectionOfDaemon
    <3>6. q = [p EXCEPT !.fields = f]
      BY <2>1, <2>6, <3>1 DEF Ini!ProperlyTaken, DaemonAgrees
    <3> QED
      BY <2>6, <3>4, <3>5, <3>6, ZenonT(60) DEF DaemonAgrees, DaemonShape, ProperShape
  <2>7. CASE line.kind = "field" /\ ~ r.in
    <3>1. e = r
      BY <2>1, <2>7, Zenon DEF Ini!InSectionOfDaemon
    <3>2. q = p \/ \E f : q = [p EXCEPT !.constants = f]
      BY <2>1, <2>7, Zenon DEF Ini!ProperlyTaken, DaemonAgrees
    <3> QED
      BY <2>7, <3>1, <3>2 DEF DaemonAgrees, DaemonShape, ProperShape
  <2> QED
    BY <2>2, <2>3, <2>4, <2>5, <2>6, <2>7
<1> QED
  BY <1>1, <1>2

(* The references for three sets of symbols have the same blocks open, on  *)
(* the same sides; only the conditions may differ.                         *)
SameSides(b, c) ==
  /\ b \in Seq(Block) /\ c \in Seq(Block) /\ Len(b) = Len(c)
  /\ \A i \in 1 .. Len(b) : b[i].past = c[i].past

(* What every reference is, even once the file is odd.                     *)
ProperOK(p) == /\ ProperShape(p)
               /\ p.can \in BOOLEAN /\ p.fahrenheit \in BOOLEAN /\ p.obeys \in BOOLEAN

(* Only the directives open, turn and close blocks.                        *)
LEMMA TakenKeepsBlocks ==
  ASSUME NEW p, ProperOK(p), NEW line, line.kind \in Plainly
  PROVE  /\ ProperOK(Ini!ProperLine(p, line))
         /\ Ini!ProperLine(p, line).blocks = p.blocks
<1>1. PICK q : q = Ini!ProperlyTaken(p, line)
  OBVIOUS
<1>2. ProperOK(q) /\ q.blocks = p.blocks
  <2>1. CASE line.kind \in {"set", "unset"}
    <3>0. PICK c \in BOOLEAN : c = (line.kind = "set")
      BY Zenon
    <3>1. q = [p EXCEPT !.can = c] \/ q = p
      BY <1>1, <2>1, <3>0, Zenon DEF Ini!ProperlyTaken
    <3> QED
      BY <3>1 DEF ProperOK, ProperShape
  <2>2. CASE line.kind \notin {"set", "unset"}
    <3>1. \/ q = p
          \/ \E x : \/ q = [p EXCEPT !.section = x] \/ q = [p EXCEPT !.signature = x]
                    \/ q = [p EXCEPT !.page = x] \/ q = [p EXCEPT !.constants = x]
                    \/ q = [p EXCEPT !.fields = x]
      BY <1>1, <2>2, Zenon DEF Ini!ProperlyTaken
    <3> QED
      BY <3>1 DEF ProperOK, ProperShape
  <2> QED
    BY <2>1, <2>2
<1> QED
  BY <1>1, <1>2, ProperOther

(* Whatever the line, the blocks of two references stay the same.          *)
LEMMA SidesKept ==
  ASSUME NEW p, NEW q, ProperOK(p), ProperOK(q), SameSides(p.blocks, q.blocks),
         NEW line \in IniLines
  PROVE  /\ ProperOK(Ini!ProperLine(p, line)) /\ ProperOK(Ini!ProperLine(q, line))
         /\ SameSides(Ini!ProperLine(p, line).blocks, Ini!ProperLine(q, line).blocks)
<1>1. PICK b, c : b = p.blocks /\ c = q.blocks
  OBVIOUS
<1>2. SameSides(b, c)
  BY <1>1
<1>3. b \in Seq(Block) /\ c \in Seq(Block) /\ Len(b) = Len(c) /\ Len(b) \in Nat
  BY <1>2 DEF SameSides
<1>4. CASE line.kind = "if"
  <2>1. ASSUME NEW r, ProperOK(r)
        PROVE  [holds |-> Ini!ProperTrue(r, line.on), past |-> FALSE] \in Block
    <3>1. Ini!ProperTrue(r, line.on) \in BOOLEAN
      BY <2>1, Zenon DEF ProperOK, Ini!ProperTrue
    <3> QED
      BY <3>1 DEF Block
  <2>2. PICK x \in Block, y \in Block :
             /\ x = [holds |-> Ini!ProperTrue(p, line.on), past |-> FALSE]
             /\ y = [holds |-> Ini!ProperTrue(q, line.on), past |-> FALSE]
    BY <2>1, Zenon
  <2>3. x.past = y.past
    BY <2>2
  <2>4. SameSides(Append(b, x), Append(c, y))
    <3>1. PICK b1, c1 : b1 = Append(b, x) /\ c1 = Append(c, y)
      BY Zenon
    <3>2. /\ b1 \in Seq(Block) /\ Len(b1) = Len(b) + 1 /\ b1[Len(b) + 1] = x
          /\ \A i \in 1 .. Len(b) : b1[i] = b[i]
      BY <1>3, <3>1
    <3>3. /\ c1 \in Seq(Block) /\ Len(c1) = Len(b) + 1 /\ c1[Len(b) + 1] = y
          /\ \A i \in 1 .. Len(b) : c1[i] = c[i]
      BY <1>3, <3>1
    <3>4. ASSUME NEW i \in 1 .. Len(b) + 1 PROVE b1[i].past = c1[i].past
      <4>1. CASE i = Len(b) + 1
        BY <2>3, <3>2, <3>3, <4>1
      <4>2. CASE i \in 1 .. Len(b)
        BY <1>2, <3>2, <3>3, <4>2, Zenon DEF SameSides
      <4> QED
        BY <1>3, <4>1, <4>2
    <3>5. SameSides(b1, c1)
      BY <1>3, <3>2, <3>3, <3>4 DEF SameSides
    <3> QED
      BY <3>1, <3>5
  <2>5. /\ ProperOK(Ini!ProperLine(p, line)) /\ Ini!ProperLine(p, line).blocks = Append(b, x)
        /\ ProperOK(Ini!ProperLine(q, line)) /\ Ini!ProperLine(q, line).blocks = Append(c, y)
    BY <1>1, <1>4, <2>2, ProperIf DEF ProperOK
  <2> QED
    BY <2>4, <2>5
<1>5. CASE line.kind = "else"
  <2>1. /\ ProperOK(Ini!ProperLine(p, line)) /\ ProperOK(Ini!ProperLine(q, line))
        /\ Ini!ProperLine(p, line).blocks = IF b = << >> THEN b ELSE [b EXCEPT ![Len(b)].past = TRUE]
        /\ Ini!ProperLine(q, line).blocks = IF c = << >> THEN c ELSE [c EXCEPT ![Len(c)].past = TRUE]
    BY <1>1, <1>5, ProperElse, SMTT(60) DEF ProperOK
  <2>2. CASE b = << >>
    <3>1. c = << >>
      BY <1>3, <2>2
    <3> QED
      BY <1>2, <2>1, <2>2, <3>1
  <2>3. CASE b # << >>
    <3>1. c # << >> /\ Len(b) \in 1 .. Len(b)
      BY <1>3, <2>3
    <3>2. ASSUME NEW d \in Seq(Block), Len(d) = Len(b)
          PROVE  /\ [d EXCEPT ![Len(d)].past = TRUE] \in Seq(Block)
                 /\ Len([d EXCEPT ![Len(d)].past = TRUE]) = Len(b)
                 /\ [d EXCEPT ![Len(d)].past = TRUE][Len(b)].past = TRUE
                 /\ \A i \in 1 .. Len(b) : i # Len(b) => [d EXCEPT ![Len(d)].past = TRUE][i] = d[i]
      <4>1. d[Len(b)] \in Block
        BY <3>1, <3>2
      <4>1a. /\ [d[Len(b)] EXCEPT !.past = TRUE] \in Block
             /\ [d[Len(b)] EXCEPT !.past = TRUE].past = TRUE
        BY <4>1, Zenon DEF Block
      <4>2. PICK e \in Block : e = [d[Len(b)] EXCEPT !.past = TRUE] /\ e.past = TRUE
        BY <4>1a, Zenon
      <4>3. [d EXCEPT ![Len(d)].past = TRUE] = [d EXCEPT ![Len(b)] = e]
        BY <3>2, <4>2, Zenon
      <4>4. /\ [d EXCEPT ![Len(b)] = e] \in Seq(Block) /\ Len([d EXCEPT ![Len(b)] = e]) = Len(b)
            /\ [d EXCEPT ![Len(b)] = e][Len(b)] = e
            /\ \A i \in 1 .. Len(b) : i # Len(b) => [d EXCEPT ![Len(b)] = e][i] = d[i]
        BY <3>1, <3>2
      <4> QED
        BY <4>2, <4>3, <4>4, Zenon
    <3>3. SameSides([b EXCEPT ![Len(b)].past = TRUE], [c EXCEPT ![Len(c)].past = TRUE])
      <4>1. PICK b1 : b1 = [b EXCEPT ![Len(b)].past = TRUE]
        BY Zenon
      <4>2. PICK c1 : c1 = [c EXCEPT ![Len(c)].past = TRUE]
        BY Zenon
      <4>3. /\ b1 \in Seq(Block) /\ Len(b1) = Len(b) /\ b1[Len(b)].past = TRUE
            /\ \A i \in 1 .. Len(b) : i # Len(b) => b1[i] = b[i]
        BY <1>3, <3>2, <4>1, Zenon
      <4>4. /\ c1 \in Seq(Block) /\ Len(c1) = Len(b) /\ c1[Len(b)].past = TRUE
            /\ \A i \in 1 .. Len(b) : i # Len(b) => c1[i] = c[i]
        BY <1>3, <3>2, <4>2, Zenon
      <4>5. SameSides(b1, c1)
        BY <1>2, <1>3, <4>3, <4>4, Zenon DEF SameSides
      <4> QED
        BY <4>1, <4>2, <4>5
    <3> QED
      BY <2>1, <2>3, <3>1, <3>3
  <2> QED
    BY <2>2, <2>3
<1>6. CASE line.kind = "endif"
  <2>1. /\ ProperOK(Ini!ProperLine(p, line)) /\ ProperOK(Ini!ProperLine(q, line))
        /\ Ini!ProperLine(p, line).blocks = IF b = << >> THEN b ELSE Ini!Front(b)
        /\ Ini!ProperLine(q, line).blocks = IF c = << >> THEN c ELSE Ini!Front(c)
    BY <1>1, <1>6, ProperEndif DEF ProperOK
  <2>2. CASE b = << >>
    <3>1. c = << >>
      BY <1>3, <2>2
    <3> QED
      BY <1>2, <2>1, <2>2, <3>1
  <2>3. CASE b # << >>
    <3>1. c # << >> /\ Len(b) > 0
      BY <1>3, <2>3
    <3>2. ASSUME NEW d \in Seq(Block), Len(d) = Len(b)
          PROVE  /\ Ini!Front(d) \in Seq(Block) /\ Len(Ini!Front(d)) = Len(b) - 1
                 /\ \A i \in 1 .. Len(b) - 1 : Ini!Front(d)[i] = d[i]
      BY <3>1, <3>2, <1>3 DEF Ini!Front
    <3>3. SameSides(Ini!Front(b), Ini!Front(c))
      <4>1. PICK b1, c1 : b1 = Ini!Front(b) /\ c1 = Ini!Front(c)
        OBVIOUS
      <4>2. /\ b1 \in Seq(Block) /\ Len(b1) = Len(b) - 1
            /\ \A i \in 1 .. Len(b) - 1 : b1[i] = b[i]
        BY <1>3, <3>2, <4>1
      <4>3. /\ c1 \in Seq(Block) /\ Len(c1) = Len(b) - 1
            /\ \A i \in 1 .. Len(b) - 1 : c1[i] = c[i]
        BY <1>3, <3>2, <4>1
      <4>a. ASSUME NEW i \in 1 .. Len(b) - 1 PROVE b1[i].past = c1[i].past
        <5>1. i \in 1 .. Len(b)
          BY <1>3
        <5> QED
          BY <1>2, <4>2, <4>3, <5>1, Zenon DEF SameSides
      <4>4. SameSides(b1, c1)
        BY <4>2, <4>3, <4>a DEF SameSides
      <4> QED
        BY <4>1, <4>4
    <3> QED
      BY <2>1, <2>3, <3>1, <3>3
  <2> QED
    BY <2>2, <2>3
<1>7. CASE line.kind \in Plainly
  BY <1>7, TakenKeepsBlocks
<1> QED
  BY <1>4, <1>5, <1>6, <1>7, IniAssumption DEF Plainly

(* Without blocks in the file: ecuSim, the dash and inspect_capture have   *)
(* the same section and the same fields.                                   *)
Bare ==
  /\ EcuShape(ecu) /\ PlainShape(dash) /\ PlainShape(inspect)
  /\ ecu.stack = << >> /\ dash.stack = << >>
  /\ dash.in \in BOOLEAN /\ inspect.in = dash.in
  /\ (dash.in <=> ecu.section = "OutputChannels")
  /\ inspect.fields = dash.fields /\ ecu.fields = dash.fields

(* Any line but #if keeps them the same.                                   *)
LEMMA BareKept ==
  ASSUME Bare, NEW line \in IniLines, line.kind # "if",
         ecu' = Ini!ProcessLine(ecu, line), dash' = Ini!DashLine(dash, line),
         inspect' = Ini!InspectLine(inspect, line)
  PROVE  Bare'
<1>0. line.kind \in Kinds /\ Ini!AllTrue(<< >>)
  BY IniAssumption DEF Ini!AllTrue
<1>1. PICK e, d, i : e = ecu' /\ d = dash' /\ i = inspect'
  OBVIOUS
<1>2. /\ EcuShape(e) /\ PlainShape(d) /\ PlainShape(i)
      /\ e.stack = << >> /\ d.stack = << >>
      /\ d.in \in BOOLEAN /\ i.in = d.in
      /\ (d.in <=> e.section = "OutputChannels")
      /\ i.fields = d.fields /\ e.fields = d.fields
  <2>1. CASE line.kind \in {"else", "endif"}
    <3>1. /\ e = [ecu EXCEPT !.stack = << >>] /\ d = [dash EXCEPT !.stack = << >>]
          /\ i = inspect
      BY <1>1, <2>1 DEF Ini!ProcessLine, Ini!DashLine, Ini!InspectLine, Ini!InSection,
         Ini!Flip, Ini!Pop, Bare
    <3> QED
      BY <3>1 DEF Bare, EcuShape, PlainShape
  <2>2. CASE line.kind \in {"set", "unset"}
    <3>1. /\ \E c : e = [ecu EXCEPT !.can = c]
          /\ d = dash /\ i = inspect
      BY <1>0, <1>1, <2>2, Zenon DEF Ini!ProcessLine, Ini!DashLine, Ini!InspectLine, Ini!InSection, Bare
    <3> QED
      BY <3>1 DEF Bare, EcuShape, PlainShape
  <2>3. CASE line.kind \notin {"if", "else", "endif", "set", "unset"}
    <3>1. /\ e = Ini!TakeLine(ecu, line) /\ d = Ini!InSection(dash, line)
          /\ i = Ini!InSection(inspect, line)
      BY <1>0, <1>1, <2>3 DEF Ini!ProcessLine, Ini!DashLine, Ini!InspectLine, Bare
    <3>2. CASE line.kind = "section"
      <4>1. PICK b \in BOOLEAN : b = (line.on = "OutputChannels")
        BY Zenon
      <4>2. e = [ecu EXCEPT !.section = line.on]
        BY <3>1, <3>2 DEF Ini!TakeLine
      <4>3. d = [dash EXCEPT !.in = b] /\ i = [inspect EXCEPT !.in = b]
        BY <3>1, <3>2, <4>1, Zenon DEF Ini!InSection
      <4> QED
        BY <4>1, <4>2, <4>3, Zenon DEF Bare, EcuShape, PlainShape
    <3>3. CASE line.kind = "signature"
      <4>1. e = [ecu EXCEPT !.signature = line.def] /\ d = dash /\ i = inspect
        BY <3>1, <3>3 DEF Ini!TakeLine, Ini!InSection
      <4> QED
        BY <4>1 DEF Bare, EcuShape, PlainShape
    <3>4. CASE line.kind = "page"
      <4>1. d = dash /\ i = inspect
        BY <3>1, <3>4 DEF Ini!InSection
      <4>2. e = ecu \/ e = [ecu EXCEPT !.page = line.def]
        BY <3>1, <3>4 DEF Ini!TakeLine, Ini!InSectionOfEcu, Ini!ParseOutputChannel, Ini!ParseConstant
      <4> QED
        BY <4>1, <4>2 DEF Bare, EcuShape, PlainShape
    <3>5. CASE line.kind = "field" /\ dash.in
      <4>1. PICK f : f = Ini!Put(dash.fields, line.on, line.def)
        OBVIOUS
      <4>2. d = [dash EXCEPT !.fields = f] /\ i = [inspect EXCEPT !.fields = f]
        BY <3>1, <3>5, <4>1 DEF Ini!InSection, Bare
      <4>3. e = [ecu EXCEPT !.fields = f]
        BY <3>1, <3>5, <4>1 DEF Ini!TakeLine, Ini!InSectionOfEcu, Ini!ParseOutputChannel, Bare
      <4> QED
        BY <4>2, <4>3 DEF Bare, EcuShape, PlainShape
    <3>6. CASE line.kind = "field" /\ ~ dash.in
      <4>1. d = dash /\ i = inspect
        BY <3>1, <3>6 DEF Ini!InSection, Bare
      <4>2. e = ecu \/ \E f : e = [ecu EXCEPT !.constants = f]
        BY <3>1, <3>6, Zenon DEF Ini!TakeLine, Ini!InSectionOfEcu, Ini!ParseConstant, Bare
      <4> QED
        BY <4>1, <4>2 DEF Bare, EcuShape, PlainShape
    <3>7. CASE line.kind = "commented"
      <4>1. d = dash /\ i = inspect
        BY <3>1, <3>7 DEF Ini!InSection
      <4>2. e = ecu
        BY <3>1, <3>7 DEF Ini!TakeLine, Ini!InSectionOfEcu, Ini!ParseOutputChannel, Ini!ParseConstant
      <4> QED
        BY <4>1, <4>2 DEF Bare
    <3> QED
      BY <1>0, <2>3, <3>2, <3>3, <3>4, <3>5, <3>6, <3>7 DEF Kinds
  <2> QED
    BY <1>0, <2>1, <2>2, <2>3
<1> QED
  BY <1>1, <1>2 DEF Bare, EcuShape, PlainShape
(* Every reader has read what the reference with its symbols has.          *)
Agree ==
  /\ EcuAgrees(ecu, proper.ecu)
  /\ PlainAgrees(dash, proper.plain) /\ PlainAgrees(old, proper.plain)
  /\ old.signature = proper.plain.signature
  /\ ~ deep => DaemonAgrees(daemon, proper.daemon)

(* What holds even of odd files.                                           *)
Readers ==
  /\ odd \in BOOLEAN /\ deep \in BOOLEAN /\ conditional \in BOOLEAN
  /\ proper = [ecu |-> proper.ecu, plain |-> proper.plain, daemon |-> proper.daemon]
  /\ ProperOK(proper.ecu) /\ ProperOK(proper.plain) /\ ProperOK(proper.daemon)
  /\ SameSides(proper.ecu.blocks, proper.plain.blocks)
  /\ SameSides(proper.daemon.blocks, proper.plain.blocks)

(* The inductive invariant of the readers: they agree until the file is    *)
(* odd (the daemon until it is deep), and without blocks inspect_capture   *)
(* does, too.                                                              *)
IniInv ==
  /\ Readers
  /\ ~ odd => Agree
  /\ ~ conditional => Bare

(* Before the first line.                                                  *)
LEMMA NothingRead == Ini!Init => IniInv
<1> SUFFICES ASSUME Ini!Init PROVE IniInv
  OBVIOUS
<1>1. Follows(<< >>, << >>)
  BY DEF Follows
<1>2. SameSides(<< >>, << >>)
  BY DEF SameSides
<1>3. PICK u \in BOOLEAN, c \in BOOLEAN :
             /\ proper = [ecu |-> Ini!ProperReader(TRUE, TRUE, TRUE),
                          plain |-> Ini!ProperReader(TRUE, FALSE, FALSE),
                          daemon |-> Ini!ProperReader(u, c, FALSE)]
             /\ daemon = Ini!DaemonReader(u, c)
  <2>1. PICK s \in Projects :
               /\ proper = [ecu |-> Ini!ProperReader(TRUE, TRUE, TRUE),
                            plain |-> Ini!ProperReader(TRUE, FALSE, FALSE),
                            daemon |-> Ini!ProperReader(s.fahrenheit, s.can, FALSE)]
               /\ daemon = Ini!DaemonReader(s.fahrenheit, s.can)
    BY Zenon DEF Ini!Init
  <2>2. s.fahrenheit \in BOOLEAN /\ s.can \in BOOLEAN
    BY IniAssumption
  <2> QED
    BY <2>1, <2>2, Zenon
<1> DEFINE Fresh(p, f, a, o) ==
             /\ ProperShape(p) /\ p.blocks = << >>
             /\ p.fahrenheit = f /\ p.can = a /\ p.obeys = o
             /\ p.section = "" /\ p.page = 0 /\ p.signature = 0
             /\ p.fields = Ini!NoFields /\ p.constants = Ini!NoFields
<1>p. ASSUME NEW f, NEW a, NEW o PROVE Fresh(Ini!ProperReader(f, a, o), f, a, o)
  <2>1. PICK n : n = Ini!NoFields
    OBVIOUS
  <2> QED
    BY <2>1 DEF Ini!ProperReader, ProperShape
<1> HIDE DEF Fresh
<1>q. /\ Fresh(proper.ecu, TRUE, TRUE, TRUE) /\ Fresh(proper.plain, TRUE, FALSE, FALSE)
      /\ Fresh(proper.daemon, u, c, FALSE)
      /\ proper = [ecu |-> proper.ecu, plain |-> proper.plain, daemon |-> proper.daemon]
  <2>1. PICK e, p, d : /\ e = Ini!ProperReader(TRUE, TRUE, TRUE)
                       /\ p = Ini!ProperReader(TRUE, FALSE, FALSE)
                       /\ d = Ini!ProperReader(u, c, FALSE)
    BY Zenon
  <2>2. Fresh(e, TRUE, TRUE, TRUE) /\ Fresh(p, TRUE, FALSE, FALSE) /\ Fresh(d, u, c, FALSE)
    BY <1>p, <2>1, Zenon
  <2>3. proper = [ecu |-> e, plain |-> p, daemon |-> d]
    BY <1>3, <2>1
  <2>4. proper.ecu = e /\ proper.plain = p /\ proper.daemon = d
    BY <2>3
  <2> QED
    BY <2>2, <2>3, <2>4, Zenon
<1> USE DEF Fresh
<1>4. Readers
  <2>1. odd \in BOOLEAN /\ deep \in BOOLEAN /\ conditional \in BOOLEAN
    <3>1. odd = FALSE /\ deep = FALSE /\ conditional = FALSE
      BY DEF Ini!Init
    <3> QED
      BY <3>1, Zenon
  <2>2. /\ ProperOK(proper.ecu) /\ ProperOK(proper.plain) /\ ProperOK(proper.daemon)
    BY <1>q, Zenon DEF ProperOK
  <2> QED
    BY <1>2, <1>q, <2>1, <2>2, Zenon DEF Readers
<1>5. EcuAgrees(ecu, proper.ecu)
  <2>1. ecu = Ini!EcuReader
    BY DEF Ini!Init
  <2>2. PICK n : n = Ini!NoFields
    OBVIOUS
  <2>3. /\ EcuShape(ecu) /\ ecu.stack = << >> /\ ecu.can = TRUE /\ ecu.section = "" /\ ecu.page = 0
        /\ ecu.fields = n /\ ecu.constants = n /\ ecu.signature = 0
    BY <2>1, <2>2, Zenon DEF EcuShape, Ini!EcuReader
  <2>4. PICK p : p = proper.ecu
    OBVIOUS
  <2>5. /\ ProperShape(p) /\ p.blocks = << >> /\ p.can = TRUE /\ p.obeys = TRUE /\ p.fahrenheit = TRUE
        /\ p.section = "" /\ p.page = 0 /\ p.fields = n /\ p.constants = n /\ p.signature = 0
    BY <1>q, <2>2, <2>4, Zenon
  <2> QED
    BY <1>1, <2>3, <2>4, <2>5, Zenon DEF EcuAgrees
<1>6. /\ PlainAgrees(dash, proper.plain) /\ PlainAgrees(old, proper.plain)
      /\ old.signature = proper.plain.signature
  <2>1. dash = Ini!Reader /\ old = Ini!Reader
    BY DEF Ini!Init
  <2>2. PICK n : n = Ini!NoFields
    OBVIOUS
  <2>3. PICK r : r = Ini!Reader
    OBVIOUS
  <2>4. /\ PlainShape(r) /\ r.stack = << >> /\ r.in = FALSE /\ r.fields = n /\ r.signature = 0
    BY <2>2, <2>3 DEF PlainShape, Ini!Reader
  <2>5. PICK p : p = proper.plain
    OBVIOUS
  <2>6. /\ ProperShape(p) /\ p.blocks = << >> /\ p.can = FALSE /\ p.obeys = FALSE /\ p.fahrenheit = TRUE
        /\ p.section = "" /\ p.fields = n /\ p.signature = 0
    BY <1>q, <2>2, <2>5, Zenon
  <2> QED
    BY <1>1, <2>1, <2>3, <2>4, <2>5, <2>6, Zenon DEF PlainAgrees
<1>7. DaemonAgrees(daemon, proper.daemon)
  <2>1. daemon = Ini!DaemonReader(u, c)
    BY <1>3
  <2>2. FieldsFollow(<< >>, Ini!NoFields)
    BY DEF FieldsFollow, Ini!NoFields
  <2>3. PICK d : d = daemon
    OBVIOUS
  <2>4. /\ DaemonShape(d) /\ d.stack = << >> /\ d.in = FALSE /\ d.fields = << >>
        /\ d.can = c /\ d.fahrenheit = u
    BY <2>1, <2>3, Zenon DEF DaemonShape, Ini!DaemonReader
  <2>5. PICK p : p = proper.daemon
    OBVIOUS
  <2>6. /\ ProperShape(p) /\ p.blocks = << >> /\ p.obeys = FALSE /\ p.can = c /\ p.fahrenheit = u
        /\ p.section = "" /\ p.fields = Ini!NoFields
    BY <1>q, <2>5, Zenon
  <2> QED
    BY <1>1, <1>3, <2>2, <2>3, <2>4, <2>5, <2>6, Zenon DEF DaemonAgrees
<1>8. Bare
  <2>1. ecu = Ini!EcuReader /\ dash = Ini!Reader /\ inspect = Ini!Reader
    BY DEF Ini!Init
  <2> QED
    BY <2>1, Zenon DEF Bare, EcuShape, PlainShape, Ini!EcuReader, Ini!Reader
<1> QED
  BY <1>4, <1>5, <1>6, <1>7, <1>8 DEF IniInv, Agree

(* A line is taken by the three references alike.                          *)
LEMMA LineKeepsReaders ==
  ASSUME Readers, NEW line \in IniLines, Ini!Read(line)
  PROVE  /\ Readers'
         /\ proper'.ecu = Ini!ProperLine(proper.ecu, line)
         /\ proper'.plain = Ini!ProperLine(proper.plain, line)
         /\ proper'.daemon = Ini!ProperLine(proper.daemon, line)
<1>1. proper' = [p \in DOMAIN proper |-> Ini!ProperLine(proper[p], line)]
  BY DEF Ini!Read
<1>2. PICK e, p, d : e = proper.ecu /\ p = proper.plain /\ d = proper.daemon
  OBVIOUS
<1>3. proper = [ecu |-> e, plain |-> p, daemon |-> d]
  BY <1>2 DEF Readers
<1>4. proper' = [ecu |-> Ini!ProperLine(e, line), plain |-> Ini!ProperLine(p, line),
                 daemon |-> Ini!ProperLine(d, line)]
  BY <1>1, <1>3
<1>5. /\ proper'.ecu = Ini!ProperLine(e, line) /\ proper'.plain = Ini!ProperLine(p, line)
      /\ proper'.daemon = Ini!ProperLine(d, line)
      /\ proper' = [ecu |-> proper'.ecu, plain |-> proper'.plain, daemon |-> proper'.daemon]
  BY <1>4
<1>6. /\ ProperOK(proper'.ecu) /\ ProperOK(proper'.plain) /\ ProperOK(proper'.daemon)
      /\ SameSides(proper'.ecu.blocks, proper'.plain.blocks)
      /\ SameSides(proper'.daemon.blocks, proper'.plain.blocks)
  BY <1>2, <1>5, SidesKept DEF Readers
<1>7. odd' \in BOOLEAN /\ deep' \in BOOLEAN /\ conditional' \in BOOLEAN
  <2>1. /\ odd' = (odd \/ Ini!Odd(line))
        /\ deep' = (deep \/ (line.kind = "if" /\ Len(Ini!Open) >= MaxDepth))
        /\ conditional' = (conditional \/ line.kind = "if")
    BY Zenon DEF Ini!Read
  <2> QED
    BY <2>1, Zenon
<1> QED
  BY <1>2, <1>5, <1>6, <1>7 DEF Readers
(* The dash (parse_ini_output_channels) on every line.                     *)
LEMMA DashAgrees ==
  ASSUME NEW r, NEW p, PlainAgrees(r, p), NEW line \in IniLines,
         line.kind = "else" => (p.blocks # << >> => ~ p.blocks[Len(p.blocks)].past)
  PROVE  PlainAgrees(Ini!DashLine(r, line), Ini!ProperLine(p, line))
<1>0. PICK e : e = Ini!DashLine(r, line)
  OBVIOUS
<1>1. CASE line.kind = "if"
  BY <1>0, <1>1, PlainIf, Zenon DEF Ini!DashLine
<1>2. CASE line.kind = "else"
  BY <1>0, <1>2, PlainElse, Zenon DEF Ini!DashLine
<1>3. CASE line.kind = "endif"
  BY <1>0, <1>3, PlainEndif, Zenon DEF Ini!DashLine
<1>4. CASE line.kind \in Plainly
  <2>1. Ini!AllTrue(r.stack) <=> Active(p.blocks)
    BY AllOrNone DEF PlainAgrees
  <2>2. e = IF Active(p.blocks) THEN Ini!InSection(r, line) ELSE r
    BY <1>0, <1>4, <2>1 DEF Ini!DashLine, Plainly, Kinds
  <2> QED
    BY <1>0, <1>4, <2>2, PlainOther
<1> QED
  BY <1>1, <1>2, <1>3, <1>4, IniAssumption DEF Plainly

(* The older simulator on every line: it takes a signature in any section. *)
LEMMA OldAgrees ==
  ASSUME NEW r, NEW p, PlainAgrees(r, p), r.signature = p.signature, NEW line \in IniLines,
         line.kind = "else" => (p.blocks # << >> => ~ p.blocks[Len(p.blocks)].past)
  PROVE  /\ PlainAgrees(Ini!OldLine(r, line), Ini!ProperLine(p, line))
         /\ Ini!OldLine(r, line).signature = Ini!ProperLine(p, line).signature
<1>0. PICK e : e = Ini!OldLine(r, line)
  OBVIOUS
<1>1. CASE line.kind = "if"
  <2>1. e = [r EXCEPT !.stack = Append(@, line.on \notin {"CELSIUS", "CAN_COMMANDS"})]
    BY <1>0, <1>1, Zenon DEF Ini!OldLine
  <2> QED
    BY <1>0, <1>1, <2>1, PlainIf
<1>2. CASE line.kind = "else"
  <2>1. e = [r EXCEPT !.stack = Ini!Flip(@)]
    BY <1>0, <1>2, Zenon DEF Ini!OldLine
  <2> QED
    BY <1>0, <1>2, <2>1, PlainElse
<1>3. CASE line.kind = "endif"
  <2>1. e = [r EXCEPT !.stack = Ini!Pop(@)]
    BY <1>0, <1>3, Zenon DEF Ini!OldLine
  <2> QED
    BY <1>0, <1>3, <2>1, PlainEndif
<1>4. CASE line.kind \in Plainly
  <2>1. Ini!AllTrue(r.stack) <=> Active(p.blocks)
    BY AllOrNone DEF PlainAgrees
  <2>2. CASE line.kind = "signature" /\ Active(p.blocks)
    <3>1. e = [r EXCEPT !.signature = line.def]
      BY <1>0, <2>1, <2>2 DEF Ini!OldLine
    <3>2. PICK q : q = Ini!ProperLine(p, line)
      OBVIOUS
    <3>3. q = [p EXCEPT !.signature = line.def]
      BY <1>4, <2>2, <3>2, ProperOther, Zenon DEF Ini!ProperlyTaken
    <3> QED
      BY <1>0, <3>1, <3>2, <3>3 DEF PlainAgrees, PlainShape, ProperShape
  <2>3. CASE ~ (line.kind = "signature" /\ Active(p.blocks))
    <3>1. e = IF Active(p.blocks) THEN Ini!InSection(r, line) ELSE r
      BY <1>0, <1>4, <2>1, <2>3 DEF Ini!OldLine, Plainly, Kinds
    <3> QED
      BY <1>0, <1>4, <2>3, <3>1, PlainOther
  <2> QED
    BY <2>2, <2>3
<1> QED
  BY <1>1, <1>2, <1>3, <1>4, IniAssumption DEF Plainly

(* A line that does not make the file odd keeps every reader with its      *)
(* reference. odd is decided by the blocks of one reference; SameSides     *)
(* carries it over to the other two.                                       *)
LEMMA LineKeepsAgreement ==
  ASSUME Readers, Agree, NEW line \in IniLines, Ini!Read(line), ~ odd'
  PROVE  Agree'
<1>1. /\ proper'.ecu = Ini!ProperLine(proper.ecu, line)
      /\ proper'.plain = Ini!ProperLine(proper.plain, line)
      /\ proper'.daemon = Ini!ProperLine(proper.daemon, line)
  BY LineKeepsReaders
<1>2. PICK e, p, d : e = proper.ecu /\ p = proper.plain /\ d = proper.daemon
  OBVIOUS
<1>3. /\ ecu' = Ini!ProcessLine(ecu, line) /\ dash' = Ini!DashLine(dash, line)
      /\ old' = Ini!OldLine(old, line) /\ daemon' = Ini!DaemonLine(daemon, line)
  BY DEF Ini!Read
<1>4. line.kind \in Kinds
  BY IniAssumption
<1>5. ~ Ini!Odd(line)
  BY Zenon DEF Ini!Read
<1>s. SameSides(e.blocks, p.blocks) /\ SameSides(d.blocks, p.blocks)
  BY <1>2 DEF Readers
<1>6. ASSUME line.kind = "else", NEW b, SameSides(b, p.blocks), b # << >>
      PROVE  ~ b[Len(b)].past
  <2>1. PICK c : c = p.blocks
    OBVIOUS
  <2>2. b \in Seq(Block) /\ c \in Seq(Block) /\ Len(b) = Len(c)
        /\ \A i \in 1 .. Len(b) : b[i].past = c[i].past
    BY <1>6, <2>1 DEF SameSides
  <2>3. c # << >> /\ Len(c) \in 1 .. Len(b)
    BY <1>6, <2>2
  <2>4. ~ c[Len(c)].past
    BY <1>2, <1>5, <1>6, <2>1, <2>3 DEF Ini!Odd, Ini!Open, Ini!Last
  <2> QED
    BY <2>2, <2>3, <2>4
<1>p. SameSides(p.blocks, p.blocks)
  BY <1>s DEF SameSides
<1>7. EcuAgrees(ecu', proper'.ecu)
  <2>1. EcuAgrees(ecu, e)
    BY <1>2 DEF Agree
  <2>2. line.kind \in {"set", "unset"} => Active(e.blocks)
    BY <1>2, <1>5 DEF Ini!Odd, Ini!Here, Active
  <2>3. EcuAgrees(Ini!ProcessLine(ecu, line), Ini!ProperLine(e, line))
    BY <1>4, <1>6, <1>s, <2>1, <2>2, EcuIf, EcuElse, EcuEndif, EcuOther DEF Plainly
  <2> QED
    BY <1>1, <1>2, <1>3, <2>3
<1>8. PlainAgrees(dash', proper'.plain)
  <2>1. PlainAgrees(Ini!DashLine(dash, line), Ini!ProperLine(p, line))
    BY <1>2, <1>6, <1>p, DashAgrees DEF Agree
  <2> QED
    BY <1>1, <1>2, <1>3, <2>1
<1>9. PlainAgrees(old', proper'.plain) /\ old'.signature = proper'.plain.signature
  <2>1. /\ PlainAgrees(Ini!OldLine(old, line), Ini!ProperLine(p, line))
        /\ Ini!OldLine(old, line).signature = Ini!ProperLine(p, line).signature
    BY <1>2, <1>6, <1>p, OldAgrees DEF Agree
  <2> QED
    BY <1>1, <1>2, <1>3, <2>1
<1>10. ~ deep' => DaemonAgrees(daemon', proper'.daemon)
  <2> SUFFICES ASSUME ~ deep' PROVE DaemonAgrees(daemon', proper'.daemon)
    OBVIOUS
  <2>1. ~ deep /\ ~ (line.kind = "if" /\ Len(Ini!Open) >= MaxDepth)
    BY Zenon DEF Ini!Read
  <2>2. DaemonAgrees(daemon, d)
    BY <1>2, <2>1 DEF Agree
  <2>3. line.kind = "if" => Len(daemon.stack) < MaxDepth
    <3>1. Len(daemon.stack) = Len(Ini!Open) /\ Len(Ini!Open) \in Nat
      BY <1>2, <1>s, <2>2 DEF DaemonAgrees, Follows, SameSides, Ini!Open
    <3> QED
      BY <2>1, <3>1, IniAssumption
  <2>4. DaemonAgrees(Ini!DaemonLine(daemon, line), Ini!ProperLine(d, line))
    BY <1>4, <1>6, <1>s, <2>2, <2>3, DaemonIf, DaemonElse, DaemonEndif, DaemonOther DEF Plainly
  <2> QED
    BY <1>1, <1>2, <1>3, <2>4
<1> QED
  BY <1>7, <1>8, <1>9, <1>10 DEF Agree

(* Every line keeps the invariant.                                         *)
LEMMA LineKeepsIni == ASSUME IniInv, NEW line \in IniLines, Ini!Read(line) PROVE IniInv'
<1>1. Readers'
  BY LineKeepsReaders DEF IniInv
<1>2. ~ odd' => Agree'
  <2>1. ~ odd' => ~ odd
    BY Zenon DEF Ini!Read
  <2> QED
    BY <2>1, LineKeepsAgreement DEF IniInv
<1>3. ~ conditional' => Bare'
  <2>1. ~ conditional' => ~ conditional /\ line.kind # "if"
    BY Zenon DEF Ini!Read
  <2>2. /\ ecu' = Ini!ProcessLine(ecu, line) /\ dash' = Ini!DashLine(dash, line)
        /\ inspect' = Ini!InspectLine(inspect, line)
    BY DEF Ini!Read
  <2> QED
    BY <2>1, <2>2, BareKept DEF IniInv
<1> QED
  BY <1>1, <1>2, <1>3 DEF IniInv

(* What the other subjects do does not touch the readers.                  *)
LEMMA IniKept == AnyInit /\ [][AnyNext]_all => []IniInv
<1>1. AnyInit => IniInv
  BY NothingRead DEF AnyInit
<1>2. IniInv /\ UNCHANGED ini => IniInv'
  BY DEF ini, IniInv, Readers, Agree, Bare
<1>3. IniInv /\ [AnyNext]_all => IniInv'
  <2> SUFFICES ASSUME IniInv, [AnyNext]_all PROVE IniInv'
    OBVIOUS
  <2>1. CASE Ini!Next
    BY <2>1, LineKeepsIni DEF Ini!Next
  <2>2. Ini!Next \/ UNCHANGED ini
    BY Zenon DEF AnyNext, EngineOnly, OutpcOnly, FilesOnly, all, files
  <2> QED
    BY <1>2, <2>1, <2>2
<1> QED
  BY <1>1, <1>3, PTL

(* What the run checks is in the invariant, but for the row of the daemon. *)
LEMMA IniInvIsEnough == IniInv => IniIsRead
<1> SUFFICES ASSUME IniInv PROVE IniIsRead
  OBVIOUS
<1>1. Ini!ReadersFollowConditions /\ Ini!ConstantsPaged
  BY DEF IniInv, Agree, EcuAgrees, PlainAgrees, Ini!ReadersFollowConditions, Ini!ConstantsPaged
<1>2. Ini!DaemonFindsTheSame
  BY FindsThem DEF IniInv, Agree, DaemonAgrees, Ini!DaemonFindsTheSame
<1>3. Ini!AllAgreeWithoutConditions
  BY DEF IniInv, Bare, Ini!AllAgreeWithoutConditions
<1> QED
  BY <1>1, <1>2, <1>3 DEF IniIsRead

(* For any file of any length and any nesting, and for any settings of the *)
(* project, until a block has a second #else or a symbol changes in a      *)
(* block that is skipped: each of the readers keeps just the fields of the *)
(* branches its own symbols select, and on the right page, where an #else  *)
(* with a comment behind it is no #else; the daemon finds what its symbols *)
(* select unless a name is repeated; where there are no conditions all but *)
(* the daemon keep the same fields (_process_line,                         *)
(* parse_ini_output_channels, ms2d_ini_parse, ms2d_find_field).            *)
THEOREM IniReadAlike == AnySpec => []IniIsRead
  BY IniKept, IniInvIsEnough, PTL DEF AnySpec

------------------------------------------------------------------------------
(* Third part: the blocks of OUTPC.                                        *)

Byte == 0 .. 255
Buffer(n) == [1 .. n -> Byte]

(* Arithmetic of the codec, for one field.                                 *)
LEMMA Sizes ==
  ASSUME NEW f \in Channel
  PROVE  /\ f.type \in {"U08", "S08", "U16", "S16"} /\ f.offset \in Nat
         /\ f.num \in Nat /\ f.num > 0 /\ f.den \in Nat /\ f.den > 0 /\ f.translate \in Int
         /\ Codec!Size(f) \in Nat /\ (Codec!Size(f) = 1 \/ Codec!Size(f) = 2)
         /\ Codec!Lo(f) \in Int /\ Codec!Hi(f) \in Int /\ Codec!Lo(f) <= Codec!Hi(f)
<1>1. f.type \in {"U08", "S08", "U16", "S16"}
  BY DEF Channel
<1>2. /\ f.offset \in Nat /\ f.num \in Nat /\ f.num > 0 /\ f.den \in Nat /\ f.den > 0
      /\ f.translate \in Int
  BY DEF Channel
<1>3. /\ Codec!Size(f) \in Nat /\ (Codec!Size(f) = 1 \/ Codec!Size(f) = 2)
      /\ Codec!Lo(f) \in Int /\ Codec!Hi(f) \in Int /\ Codec!Lo(f) <= Codec!Hi(f)
  BY <1>1 DEF Codec!Size, Codec!Lo, Codec!Hi
<1> QED
  BY <1>1, <1>2, <1>3

LEMMA OneByte ==
  ASSUME NEW a \in Int, -128 <= a, a <= 255
  PROVE  /\ (a % 256) \in Byte
         /\ 0 <= a => (a % 256) = a
         /\ a < 0 => (a % 256) = a + 256
  BY DEF Byte

LEMMA TwoBytes ==
  ASSUME NEW a \in Int, -32768 <= a, a <= 65535
  PROVE  /\ ((a \div 256) % 256) \in Byte /\ (a % 256) \in Byte
         /\ 0 <= a => (256 * ((a \div 256) % 256)) + (a % 256) = a
         /\ a < 0  => (256 * ((a \div 256) % 256)) + (a % 256) = a + 65536
<1>1. PICK h \in Int, l \in 0 .. 255 : a = 256 * h + l /\ h = a \div 256 /\ l = a % 256
  <2>1. (a \div 256) \in Int /\ (a % 256) \in 0 .. 255 /\ a = 256 * (a \div 256) + (a % 256)
    OBVIOUS
  <2> QED
    BY <2>1
<1>2. -128 <= h /\ h <= 255
  BY <1>1
<1>3. (h % 256) \in 0 .. 255 /\ (0 <= h => (h % 256) = h) /\ (h < 0 => (h % 256) = h + 256)
  BY <1>2
<1>4. (0 <= a <=> 0 <= h)
  BY <1>1
<1> QED
  BY <1>1, <1>3, <1>4 DEF Byte

(* A number within the limits of its field is found again in its bytes.    *)
LEMMA BytesFit ==
  ASSUME NEW f \in Channel, NEW raw \in Int, Codec!Lo(f) <= raw, raw <= Codec!Hi(f)
  PROVE  /\ Codec!Bytes(f, raw) \in Seq(Byte)
         /\ Len(Codec!Bytes(f, raw)) = Codec!Size(f)
         /\ Codec!Number(f, Codec!Bytes(f, raw)) = raw
<1>0. f.type \in {"U08", "S08", "U16", "S16"}
  BY Sizes
<1>1. CASE f.type \in {"U08", "S08"}
  <2>1. Codec!Size(f) = 1 /\ -128 <= raw /\ raw <= 255
    BY <1>1 DEF Codec!Size, Codec!Lo, Codec!Hi
  <2>2. PICK b \in Byte : b = raw % 256
    BY <2>1, OneByte
  <2>3. Codec!Bytes(f, raw) = <<b>>
    BY <2>1, <2>2 DEF Codec!Bytes
  <2>4. Codec!Number(f, <<b>>) = IF b > Codec!Hi(f) THEN b - 256 ELSE b
    BY <2>1 DEF Codec!Number
  <2>5. (0 <= raw => b = raw) /\ (raw < 0 => b = raw + 256)
    BY <2>1, <2>2, OneByte
  <2>6. Codec!Number(f, <<b>>) = raw
    BY <1>1, <2>1, <2>4, <2>5 DEF Codec!Lo, Codec!Hi
  <2> QED
    BY <2>1, <2>3, <2>6
<1>2. CASE f.type \in {"U16", "S16"}
  <2>1. Codec!Size(f) = 2 /\ -32768 <= raw /\ raw <= 65535
    BY <1>2 DEF Codec!Size, Codec!Lo, Codec!Hi
  <2>2. PICK h \in Byte, l \in Byte : h = (raw \div 256) % 256 /\ l = raw % 256
    BY <2>1, TwoBytes
  <2>3. Codec!Bytes(f, raw) = <<h, l>>
    BY <2>1, <2>2 DEF Codec!Bytes
  <2>9. PICK n \in Int : n = 256 * h + l
    BY DEF Byte
  <2>10. <<h, l>>[1] = h /\ <<h, l>>[2] = l
    OBVIOUS
  <2>11. ~(Codec!Size(f) = 1)
    BY <2>1
  <2>4. Codec!Number(f, <<h, l>>) = IF n > Codec!Hi(f) THEN n - 65536 ELSE n
    BY <2>9, <2>10, <2>11 DEF Codec!Number
  <2>5. (0 <= raw => 256 * h + l = raw) /\ (raw < 0 => 256 * h + l = raw + 65536)
    BY <2>1, <2>2, TwoBytes
  <2>6. Codec!Number(f, <<h, l>>) = raw
    BY <1>2, <2>1, <2>4, <2>5, <2>9 DEF Codec!Lo, Codec!Hi, Byte
  <2> QED
    BY <2>1, <2>3, <2>6
<1> QED
  BY <1>0, <1>1, <1>2

LEMMA SwappedTwice ==
  ASSUME NEW f \in Channel, NEW b \in Seq(Byte), Len(b) = Codec!Size(f)
  PROVE  /\ Codec!Swapped(b) \in Seq(Byte) /\ Len(Codec!Swapped(b)) = Len(b)
         /\ Codec!Swapped(Codec!Swapped(b)) = b
<1>1. CASE Len(b) = 2
  <2>1. PICK x \in Byte, y \in Byte : x = b[1] /\ y = b[2]
    BY <1>1
  <2>2. b = <<x, y>>
    BY <1>1, <2>1
  <2> QED
    BY <1>1, <2>1, <2>2 DEF Codec!Swapped
<1>2. CASE Len(b) # 2
  BY <1>2 DEF Codec!Swapped
<1> QED
  BY <1>1, <1>2

LEMMA Clamped ==
  ASSUME NEW f \in Channel, NEW raw \in Int
  PROVE  LET c == Codec!Clamp(f, raw)
         IN /\ c \in Int /\ Codec!Lo(f) <= c /\ c <= Codec!Hi(f)
            /\ c = raw \/ (c = Codec!Lo(f) /\ raw < c) \/ (c = Codec!Hi(f) /\ raw > c)
  BY Sizes DEF Codec!Clamp

(* Divisions are off by less than one step, clamping is towards the value. *)
LEMMA Floor ==
  ASSUME NEW a \in Int, NEW b \in Int, b > 0
  PROVE  (a \div b) \in Int /\ b * (a \div b) <= a /\ a < b * (a \div b) + b
  OBVIOUS

LEMMA TowardsZero ==
  ASSUME NEW a \in Int, NEW b \in Int, b > 0
  PROVE  LET q == Codec!Quotient(a, b)
         IN q \in Int /\ b * q - a < b /\ a - b * q < b
<1>1. CASE a >= 0
  <2>1. PICK q \in Int : q = a \div b
    BY Floor
  <2>2. Codec!Quotient(a, b) = q
    BY <1>1, <2>1 DEF Codec!Quotient
  <2>3. b * q <= a /\ a < b * q + b /\ b * q \in Int
    BY <2>1, Floor
  <2> QED
    BY <2>2, <2>3
<1>2. CASE ~ (a >= 0)
  <2>1. PICK q \in Int : q = (-a) \div b
    BY Floor
  <2>2. Codec!Quotient(a, b) = - q
    BY <1>2, <2>1 DEF Codec!Quotient
  <2>3. -a \in Int /\ b * q <= -a /\ -a < b * q + b /\ b * q \in Int
    BY <2>1, Floor
  <2>4. b * (- q) = - (b * q)
    OBVIOUS
  <2> QED
    BY <2>2, <2>3, <2>4
<1> QED
  BY <1>1, <1>2

LEMMA Times ==
  ASSUME NEW m \in Nat, NEW x \in Int, NEW y \in Int, x <= y
  PROVE  m * x \in Int /\ m * y \in Int /\ m * x <= m * y
  OBVIOUS

LEMMA BlockIsSequence ==
  ASSUME NEW n \in Nat, NEW p \in Buffer(n)
  PROVE  p \in Seq(Byte) /\ Len(p) = n /\ DOMAIN p = 1 .. n
<1>1. p \in Seq(Byte)
  BY DEF Buffer
<1> QED
  BY <1>1 DEF Buffer

(* Bytes put into a block are at their field, and the fields that lie      *)
(* apart from it are as they were.                                         *)
LEMMA Packed ==
  ASSUME NEW n \in Nat, NEW p \in Buffer(n), NEW f \in Channel, Codec!InBlock(f, p),
         NEW b \in Seq(Byte), Len(b) = Codec!Size(f)
  PROVE  LET q == Codec!Pack(p, f, b)
         IN /\ q \in Buffer(n)
            /\ Codec!At(q, f) = b
            /\ \A g \in Channel : Codec!Apart(f, g) /\ Codec!InBlock(g, p) => Codec!At(q, g) = Codec!At(p, g)
<1> DEFINE q == Codec!Pack(p, f, b)
<1>1. p \in Seq(Byte) /\ Len(p) = n /\ DOMAIN p = 1 .. n
  BY BlockIsSequence
<1>2. PICK m \in Nat : m = Codec!Size(f) /\ (m = 1 \/ m = 2)
  BY Sizes
<1>3. PICK o \in Nat : o = f.offset
  BY Sizes
<1>4. o + m <= n
  BY <1>1, <1>2, <1>3 DEF Codec!InBlock
<1>5. DOMAIN b = 1 .. m /\ \A i \in 1 .. m : b[i] \in Byte
  BY <1>2
<1>6. q = [i \in 1 .. n |-> IF i - o \in 1 .. m THEN b[i - o] ELSE p[i]]
  BY <1>1, <1>3, <1>5 DEF Codec!Pack
<1> HIDE DEF q
<1>7. q \in Buffer(n)
  <2>1. ASSUME NEW i \in 1 .. n PROVE (IF i - o \in 1 .. m THEN b[i - o] ELSE p[i]) \in Byte
    <3>1. p[i] \in Byte
      BY DEF Buffer
    <3> QED
      BY <1>5, <3>1
  <2> QED
    BY <1>6, <2>1, Zenon DEF Buffer
<1>8. q \in Seq(Byte) /\ Len(q) = n /\ DOMAIN q = 1 .. n
  BY <1>7, BlockIsSequence
<1>9. Codec!At(q, f) = b
  <2>1. Codec!At(q, f) = SubSeq(q, o + 1, o + m)
    BY <1>2, <1>3 DEF Codec!At
  <2>2. SubSeq(q, o + 1, o + m) = [i \in 1 .. m |-> q[o + i]]
    BY <1>4, <1>8
  <2>3. ASSUME NEW i \in 1 .. m PROVE q[o + i] = b[i]
    <3>1. o + i \in 1 .. n /\ (o + i) - o = i
      BY <1>4
    <3> QED
      BY <1>6, <3>1
  <2>4. b = [i \in 1 .. m |-> b[i]]
    BY <1>5
  <2> QED
    BY <2>1, <2>2, <2>3, <2>4, Zenon
<1>10. ASSUME NEW g \in Channel, Codec!Apart(f, g), Codec!InBlock(g, p)
       PROVE  Codec!At(q, g) = Codec!At(p, g)
  <2>1. PICK k \in Nat : k = Codec!Size(g) /\ (k = 1 \/ k = 2)
    BY Sizes
  <2>2. PICK r \in Nat : r = g.offset
    BY Sizes
  <2>3. r + k <= n
    BY <1>1, <1>10, <2>1, <2>2 DEF Codec!InBlock
  <2>4. o + m <= r \/ r + k <= o
    BY <1>2, <1>3, <1>10, <2>1, <2>2 DEF Codec!Apart
  <2>5. Codec!At(q, g) = [i \in 1 .. k |-> q[r + i]] /\ Codec!At(p, g) = [i \in 1 .. k |-> p[r + i]]
    <3>1. Codec!At(q, g) = SubSeq(q, r + 1, r + k) /\ Codec!At(p, g) = SubSeq(p, r + 1, r + k)
      BY <2>1, <2>2 DEF Codec!At
    <3>2. SubSeq(q, r + 1, r + k) = [i \in 1 .. k |-> q[r + i]]
      BY <2>3, <1>8
    <3>3. SubSeq(p, r + 1, r + k) = [i \in 1 .. k |-> p[r + i]]
      BY <2>3, <1>1
    <3> QED
      BY <3>1, <3>2, <3>3
  <2>6. ASSUME NEW i \in 1 .. k PROVE q[r + i] = p[r + i]
    <3>1. r + i \in 1 .. n /\ ~((r + i) - o \in 1 .. m)
      BY <2>3, <2>4
    <3> QED
      BY <1>6, <3>1
  <2> QED
    BY <2>5, <2>6, Zenon
<1> QED
  BY <1>7, <1>9, <1>10 DEF q

(* A quotient, clamped, is as near as the field gets.                      *)
LEMMA ClampNear ==
  ASSUME NEW f \in Channel, NEW a \in Int
  PROVE  LET c == Codec!Clamp(f, Codec!Quotient(a, 10 * f.num))
         IN /\ c \in Int /\ Codec!Lo(f) <= c /\ c <= Codec!Hi(f)
            /\ Codec!Near(f, c, 10 * f.num * c - a)
<1>1. PICK m \in Nat : m = f.num /\ m > 0
  BY Sizes
<1>5. PICK b \in Int : b = 10 * m /\ b > 0
  BY <1>1
<1>6. PICK q \in Int : q = Codec!Quotient(a, b) /\ b * q - a < b /\ a - b * q < b
  BY <1>5, TowardsZero, Zenon
<1>7. PICK c \in Int : /\ c = Codec!Clamp(f, q) /\ Codec!Lo(f) <= c /\ c <= Codec!Hi(f)
                       /\ c = q \/ (c = Codec!Lo(f) /\ q < c) \/ (c = Codec!Hi(f) /\ q > c)
  BY Clamped
<1>9. b * c \in Int /\ b * q \in Int
  OBVIOUS
<1>10. PICK e \in Int : e = b * c - a
  BY <1>9
<1>11. Codec!Near(f, c, e) = (\/ (-10 * m < e /\ e < 10 * m)
                              \/ (c = Codec!Hi(f) /\ e <= 0) \/ (c = Codec!Lo(f) /\ e >= 0))
  BY <1>1 DEF Codec!Near
<1>12. Codec!Near(f, c, e)
  <2>1. CASE c = q
    <3>1. e < b /\ -b < e
      BY <1>6, <1>9, <1>10, <2>1
    <3> QED
      BY <1>5, <1>11, <3>1
  <2>2. CASE c = Codec!Lo(f) /\ q < c
    <3>1. b * (q + 1) <= b * c /\ b * (q + 1) = b * q + b
      BY <1>5, <2>2, Times
    <3>2. e >= 0
      BY <1>6, <1>9, <1>10, <3>1
    <3> QED
      BY <1>11, <2>2, <3>2
  <2>3. CASE c = Codec!Hi(f) /\ q > c
    <3>1. b * c <= b * (q - 1) /\ b * (q - 1) = b * q - b
      BY <1>5, <2>3, Times
    <3>2. e <= 0
      BY <1>6, <1>9, <1>10, <3>1
    <3> QED
      BY <1>11, <2>3, <3>2
  <2> QED
    BY <1>7, <2>1, <2>2, <2>3
<1>13. c = Codec!Clamp(f, Codec!Quotient(a, 10 * f.num)) /\ e = 10 * f.num * c - a
  BY <1>1, <1>5, <1>6, <1>7, <1>10
<1> QED
  BY <1>7, <1>12, <1>13, Zenon

(* The number that the older simulator computes for v shows v, and that of *)
(* ecuSim shows it shifted.                                                *)
LEMMA ClampShows ==
  ASSUME NEW f \in Channel, NEW v \in Int
  PROVE  /\ LET c == Codec!Clamp(f, Codec!Quotient(v * f.den - f.translate * f.num, 10 * f.num))
            IN /\ c \in Int /\ Codec!Lo(f) <= c /\ c <= Codec!Hi(f)
               /\ Codec!Shows(f, c, v)
         /\ LET c == Codec!Clamp(f, Codec!Quotient((v - f.translate) * f.den, 10 * f.num))
            IN /\ c \in Int /\ Codec!Lo(f) <= c /\ c <= Codec!Hi(f)
               /\ Codec!ShowsShifted(f, c, v)
<1>1. PICK m \in Int, d \in Int, t \in Int : m = f.num /\ d = f.den /\ t = f.translate
  BY Sizes
<1>2. PICK a \in Int : a = v * d - t * m
  OBVIOUS
<1>3. PICK s \in Int : s = (v - t) * d
  OBVIOUS
<1>4. ASSUME NEW c \in Int
      PROVE  Codec!Distance(f, c, v) = 10 * m * c - a
  <2>1. (10 * c + t) * m = 10 * m * c + t * m
    OBVIOUS
  <2> QED
    BY <1>1, <1>2, <2>1 DEF Codec!Distance
<1>5. ASSUME NEW c \in Int
      PROVE  Codec!Distance(f, c, v) - f.translate * (f.num - f.den) = 10 * m * c - s
  <2>1. t * (m - d) = t * m - t * d /\ s = v * d - t * d
    BY <1>3
  <2>2. t * m \in Int /\ t * d \in Int /\ v * d \in Int /\ 10 * m * c \in Int
    OBVIOUS
  <2> QED
    BY <1>1, <1>2, <1>4, <2>1, <2>2
<1>6. /\ v * f.den - f.translate * f.num = a
      /\ (v - f.translate) * f.den = s
  BY <1>1, <1>2, <1>3
<1>7. PICK c \in Int : /\ c = Codec!Clamp(f, Codec!Quotient(a, 10 * f.num))
                       /\ Codec!Lo(f) <= c /\ c <= Codec!Hi(f)
                       /\ Codec!Near(f, c, 10 * f.num * c - a)
  BY ClampNear, Zenon
<1>8. PICK z \in Int : /\ z = Codec!Clamp(f, Codec!Quotient(s, 10 * f.num))
                       /\ Codec!Lo(f) <= z /\ z <= Codec!Hi(f)
                       /\ Codec!Near(f, z, 10 * f.num * z - s)
  BY ClampNear, Zenon
<1>9. Codec!Shows(f, c, v)
  BY <1>1, <1>4, <1>7, Zenon DEF Codec!Shows
<1>10. Codec!ShowsShifted(f, z, v)
  BY <1>1, <1>5, <1>8, Zenon DEF Codec!ShowsShifted
<1> QED
  BY <1>6, <1>7, <1>8, <1>9, <1>10, Zenon

(* What is encoded is shown.                                               *)
LEMMA Encoded ==
  ASSUME NEW n \in Nat, NEW p \in Buffer(n), NEW f \in Channel, IsScalar(f), NEW v \in Int,
         Codec!InBlock(f, p)
  PROVE  /\ Codec!ShowsShifted(f, Codec!DaemonRaw(Codec!EcuEncode(p, f, v), f), v)
         /\ Codec!Shows(f, Codec!DashRaw(Codec!OldEncode(p, f, v), f), v)
         /\ Codec!InspectRaw(Codec!OldEncode(p, f, v), f) = Codec!DashRaw(Codec!OldEncode(p, f, v), f)
<1>1. PICK c : c = Codec!Clamp(f, Codec!Quotient(v * f.den - f.translate * f.num, 10 * f.num))
  OBVIOUS
<1>2. /\ c \in Int /\ Codec!Lo(f) <= c /\ c <= Codec!Hi(f)
      /\ Codec!Shows(f, c, v)
  BY <1>1, ClampShows
<1>3. PICK b \in Seq(Byte) : b = Codec!Bytes(f, c) /\ Len(b) = Codec!Size(f) /\ Codec!Number(f, b) = c
  BY <1>2, BytesFit
<1>4. PICK w \in Seq(Byte) : w = Codec!Swapped(b) /\ Len(w) = Codec!Size(f) /\ Codec!Swapped(w) = b
  BY <1>3, SwappedTwice
<1>5. f.num # 0 /\ f.kind = "scalar"
  BY Sizes DEF IsScalar
<1>6. Codec!ShowsShifted(f, Codec!DaemonRaw(Codec!EcuEncode(p, f, v), f), v)
  <2>1. PICK z : z = Codec!Clamp(f, Codec!Quotient((v - f.translate) * f.den, 10 * f.num))
    OBVIOUS
  <2>2. /\ z \in Int /\ Codec!Lo(f) <= z /\ z <= Codec!Hi(f)
        /\ Codec!ShowsShifted(f, z, v)
    BY <2>1, ClampShows
  <2>3. PICK y \in Seq(Byte) : y = Codec!Bytes(f, z) /\ Len(y) = Codec!Size(f) /\ Codec!Number(f, y) = z
    BY <2>2, BytesFit
  <2>4. PICK q : q = Codec!Pack(p, f, y)
    OBVIOUS
  <2>5. Codec!EcuEncode(p, f, v) = q
    BY <1>5, <2>1, <2>3, <2>4, Zenon DEF Codec!EcuEncode
  <2>6. q \in Buffer(n) /\ Codec!At(q, f) = y
    BY <2>3, <2>4, Packed
  <2>7. Codec!InBlock(f, q)
    BY <2>6, BlockIsSequence DEF Codec!InBlock
  <2>8. Codec!DaemonRaw(q, f) = z
    BY <1>5, <2>3, <2>6, <2>7 DEF Codec!DaemonRaw
  <2> QED
    BY <2>2, <2>5, <2>8
<1>7. /\ Codec!Shows(f, Codec!DashRaw(Codec!OldEncode(p, f, v), f), v)
      /\ Codec!InspectRaw(Codec!OldEncode(p, f, v), f) = Codec!DashRaw(Codec!OldEncode(p, f, v), f)
  <2>2. PICK q : q = Codec!Pack(p, f, w)
    OBVIOUS
  <2>3. Codec!OldEncode(p, f, v) = q
    BY <1>1, <1>3, <1>4, <1>5, <2>2, Zenon DEF Codec!OldEncode
  <2>4. q \in Buffer(n) /\ Codec!At(q, f) = w
    BY <1>4, <2>2, Packed
  <2>5. Codec!InBlock(f, q)
    BY <2>4, BlockIsSequence DEF Codec!InBlock
  <2>6. Codec!DashRaw(q, f) = c /\ Codec!InspectRaw(q, f) = c
    BY <1>3, <1>4, <1>5, <2>4, <2>5, Zenon DEF Codec!DashRaw, Codec!InspectRaw
  <2> QED
    BY <1>2, <2>3, <2>6
<1> QED
  BY <1>6, <1>7

(* A field that lies apart from f has the same number in the block p, in   *)
(* q for the daemon and in r for the dash and inspect_capture.             *)
NumbersKept(f, p, q, r) ==
  \A g \in Channel : Codec!Apart(f, g) /\ IsScalar(g) =>
    /\ Codec!DaemonRaw(q, g) = Codec!DaemonRaw(p, g)
    /\ Codec!DashRaw(r, g) = Codec!DashRaw(p, g)
    /\ Codec!InspectRaw(r, g) = Codec!InspectRaw(p, g)

(* A field that lies apart keeps its number, and all do when f is not in   *)
(* the block.                                                              *)
LEMMA Kept ==
  ASSUME NEW n \in Nat, NEW p \in Buffer(n), NEW f \in Channel, NEW v \in Int
  PROVE  /\ Codec!EcuEncode(p, f, v) \in Buffer(n)
         /\ Codec!OldEncode(p, f, v) \in Buffer(n)
         /\ NumbersKept(f, p, Codec!EcuEncode(p, f, v), Codec!OldEncode(p, f, v))
         /\ ~Codec!InBlock(f, p) => Codec!EcuEncode(p, f, v) = p /\ Codec!OldEncode(p, f, v) = p
<1>0. Len(p) = n
  BY BlockIsSequence
<1>1. CASE ~Codec!InBlock(f, p)
  <2>1. Codec!EcuEncode(p, f, v) = p /\ Codec!OldEncode(p, f, v) = p
    BY <1>1 DEF Codec!EcuEncode, Codec!OldEncode
  <2> QED
    BY <2>1 DEF NumbersKept
<1>2. CASE Codec!InBlock(f, p)
  <2>0. f.num # 0
    BY Sizes
  <2>1. \A raw \in Int : /\ Codec!Bytes(f, Codec!Clamp(f, raw)) \in Seq(Byte)
                         /\ Len(Codec!Bytes(f, Codec!Clamp(f, raw))) = Codec!Size(f)
    BY Clamped, BytesFit, Zenon
  <2>4. PICK q : q = Codec!EcuEncode(p, f, v)
    OBVIOUS
  <2>5. PICK r : r = Codec!OldEncode(p, f, v)
    OBVIOUS
  <2>2. q = p \/ \E b \in Seq(Byte) : q = Codec!Pack(p, f, b) /\ Len(b) = Codec!Size(f)
    <3>1. PICK raw : raw = Codec!Quotient((v - f.translate) * f.den, 10 * f.num)
      OBVIOUS
    <3>2. raw \in Int
      <4>1. PICK a \in Int, m \in Int : a = (v - f.translate) * f.den /\ m = 10 * f.num /\ m > 0
        BY Sizes
      <4> QED
        BY <3>1, <4>1, TowardsZero
    <3>3. q = p \/ q = Codec!Pack(p, f, Codec!Bytes(f, Codec!Clamp(f, raw)))
      BY <1>2, <2>0, <2>4, <3>1, Zenon DEF Codec!EcuEncode
    <3> QED
      BY <2>1, <3>2, <3>3
  <2>3. PICK w \in Seq(Byte) : r = Codec!Pack(p, f, w) /\ Len(w) = Codec!Size(f)
    <3>1. PICK raw : raw = Codec!Quotient(v * f.den - f.translate * f.num, 10 * f.num)
      OBVIOUS
    <3>2. raw \in Int
      <4>1. PICK a \in Int, m \in Int : a = v * f.den - f.translate * f.num /\ m = 10 * f.num /\ m > 0
        BY Sizes, SMTT(60)
      <4> QED
        BY <3>1, <4>1, TowardsZero, Zenon
    <3>3. r = Codec!Pack(p, f, Codec!Swapped(Codec!Bytes(f, Codec!Clamp(f, raw))))
      BY <1>2, <2>0, <2>5, <3>1, Zenon DEF Codec!OldEncode
    <3> QED
      BY <2>1, <3>2, <3>3, SwappedTwice
  <2>6. q \in Buffer(n) /\ \A g \in Channel : Codec!Apart(f, g) /\ Codec!InBlock(g, p) => Codec!At(q, g) = Codec!At(p, g)
    <3>1. CASE q = p
      BY <3>1
    <3>2. CASE q # p
      <4>1. PICK b \in Seq(Byte) : q = Codec!Pack(p, f, b) /\ Len(b) = Codec!Size(f)
        BY <2>2, <3>2
      <4> QED
        BY <1>2, <4>1, Packed
    <3> QED
      BY <3>1, <3>2
  <2>7. r \in Buffer(n) /\ \A g \in Channel : Codec!Apart(f, g) /\ Codec!InBlock(g, p) => Codec!At(r, g) = Codec!At(p, g)
    BY <1>2, <2>3, Packed
  <2>8. Len(q) = n /\ Len(r) = n
    BY <2>6, <2>7, BlockIsSequence
  <2>9. ASSUME NEW g \in Channel, Codec!Apart(f, g), IsScalar(g)
        PROVE  /\ Codec!DaemonRaw(q, g) = Codec!DaemonRaw(p, g)
               /\ Codec!DashRaw(r, g) = Codec!DashRaw(p, g)
               /\ Codec!InspectRaw(r, g) = Codec!InspectRaw(p, g)
    <3>1. g.kind = "scalar"
      BY <2>9 DEF IsScalar
    <3>2. Codec!InBlock(g, q) = Codec!InBlock(g, p) /\ Codec!InBlock(g, r) = Codec!InBlock(g, p)
      BY <1>0, <2>8 DEF Codec!InBlock
    <3>3. CASE Codec!InBlock(g, p)
      <4>1. Codec!At(q, g) = Codec!At(p, g) /\ Codec!At(r, g) = Codec!At(p, g)
        BY <2>6, <2>7, <2>9, <3>3
      <4> QED
        BY <3>1, <3>2, <3>3, <4>1 DEF Codec!DaemonRaw, Codec!DashRaw, Codec!InspectRaw
    <3>4. CASE ~Codec!InBlock(g, p)
      BY <3>1, <3>2, <3>4 DEF Codec!DaemonRaw, Codec!DashRaw, Codec!InspectRaw
    <3> QED
      BY <3>3, <3>4
  <2>10. NumbersKept(f, p, q, r)
    BY <2>9, Zenon DEF NumbersKept
  <2> QED
    BY <1>2, <2>4, <2>5, <2>6, <2>7, <2>10, Zenon
<1> QED
  BY <1>1, <1>2

(* Among the first d channels, one of those encoded after the k-th has     *)
(* bytes of it.                                                            *)
Hidden(channels, fields, k, d, p) ==
  \E j \in fields : /\ k < j /\ j <= d
                   /\ Codec!InBlock(channels[j], p) /\ ~Codec!Apart(channels[j], channels[k])

(* In the block p, with the first d channels encoded, a reader finds what  *)
(* was sent for each number that is not hidden: the daemon in the block of *)
(* ecuSim, the dash and inspect_capture in that of the older simulator.    *)
EcuShown(channels, fields, sent, d, p) ==
  \A k \in fields : LET f == channels[k] IN
    IsScalar(f) /\ k <= d
    => IF Codec!InBlock(f, p)
         THEN Hidden(channels, fields, k, d, p) \/ Codec!ShowsShifted(f, Codec!DaemonRaw(p, f), sent[k])
         ELSE Codec!DaemonRaw(p, f) = 0

OldShown(channels, fields, sent, d, p) ==
  \A k \in fields : LET f == channels[k] IN
    IsScalar(f) /\ k <= d
    => IF Codec!InBlock(f, p)
         THEN \/ Hidden(channels, fields, k, d, p)
              \/ /\ Codec!Shows(f, Codec!DashRaw(p, f), sent[k])
                 /\ Codec!InspectRaw(p, f) = Codec!DashRaw(p, f)
         ELSE Codec!DashRaw(p, f) = 0

(* Encoding one more channel keeps what is shown of those before it, or    *)
(* hides it.                                                               *)
LEMMA ChannelAdded ==
  ASSUME NEW channels \in Seq(Channel), NEW fields \in SUBSET DOMAIN channels,
         NEW d \in Nat, d < Len(channels), NEW p \in Buffer(OutpcSize),
         NEW sent, \A k \in DOMAIN channels : sent[k] \in Int
  PROVE  LET f == channels[d + 1]
             q == IF d + 1 \in fields THEN Codec!EcuEncode(p, f, sent[d + 1]) ELSE p
             r == IF d + 1 \in fields THEN Codec!OldEncode(p, f, sent[d + 1]) ELSE p
         IN /\ q \in Buffer(OutpcSize) /\ r \in Buffer(OutpcSize)
            /\ EcuShown(channels, fields, sent, d, p) => EcuShown(channels, fields, sent, d + 1, q)
            /\ OldShown(channels, fields, sent, d, p) => OldShown(channels, fields, sent, d + 1, r)
<1> DEFINE f == channels[d + 1]
           q == IF d + 1 \in fields THEN Codec!EcuEncode(p, f, sent[d + 1]) ELSE p
           r == IF d + 1 \in fields THEN Codec!OldEncode(p, f, sent[d + 1]) ELSE p
<1>1. OutpcSize \in Nat
  BY ChannelsAssumption
<1>2. DOMAIN channels = 1 .. Len(channels) /\ \A k \in fields : k \in Nat /\ channels[k] \in Channel
  OBVIOUS
<1>3. d + 1 \in DOMAIN channels /\ f \in Channel /\ sent[d + 1] \in Int
  BY <1>2
<1>a. d + 1 \in fields => /\ q = Codec!EcuEncode(p, f, sent[d + 1])
                          /\ r = Codec!OldEncode(p, f, sent[d + 1])
  BY Zenon DEF q, r
<1>b. d + 1 \notin fields => q = p /\ r = p
  BY Zenon DEF q, r
<1> HIDE DEF q, r, f
<1>v. PICK v \in Int : v = sent[d + 1]
  BY <1>3
<1>4. Codec!InBlock(f, p) /\ IsScalar(f) /\ d + 1 \in fields
      => /\ Codec!ShowsShifted(f, Codec!DaemonRaw(q, f), sent[d + 1])
         /\ Codec!Shows(f, Codec!DashRaw(r, f), sent[d + 1])
         /\ Codec!InspectRaw(r, f) = Codec!DashRaw(r, f)
  <2>1. Codec!InBlock(f, p) /\ IsScalar(f)
        => /\ Codec!ShowsShifted(f, Codec!DaemonRaw(Codec!EcuEncode(p, f, v), f), v)
           /\ Codec!Shows(f, Codec!DashRaw(Codec!OldEncode(p, f, v), f), v)
           /\ Codec!InspectRaw(Codec!OldEncode(p, f, v), f) = Codec!DashRaw(Codec!OldEncode(p, f, v), f)
    BY <1>1, <1>3, Encoded, Zenon
  <2> QED
    BY <1>a, <1>v, <2>1
<1>5. /\ q \in Buffer(OutpcSize) /\ r \in Buffer(OutpcSize)
      /\ d + 1 \in fields => NumbersKept(f, p, q, r)
      /\ d + 1 \notin fields \/ ~Codec!InBlock(f, p) => q = p /\ r = p
  <2>1. CASE d + 1 \in fields
    <3>1. q = Codec!EcuEncode(p, f, v) /\ r = Codec!OldEncode(p, f, v)
      BY <1>a, <1>v, <2>1
    <3>2. /\ Codec!EcuEncode(p, f, v) \in Buffer(OutpcSize) /\ Codec!OldEncode(p, f, v) \in Buffer(OutpcSize)
          /\ ~Codec!InBlock(f, p) => Codec!EcuEncode(p, f, v) = p /\ Codec!OldEncode(p, f, v) = p
      BY <1>1, <1>3, Kept, Zenon
    <3>3. NumbersKept(f, p, Codec!EcuEncode(p, f, v), Codec!OldEncode(p, f, v))
      BY <1>1, <1>3, Kept, Zenon
    <3> QED
      BY <2>1, <3>1, <3>2, <3>3
  <2>2. CASE d + 1 \notin fields
    BY <1>b, <2>2
  <2> QED
    BY <2>1, <2>2, Zenon
<1>6. \A g : /\ Codec!InBlock(g, q) = Codec!InBlock(g, p)
             /\ Codec!InBlock(g, r) = Codec!InBlock(g, p)
  <2>1. Len(p) = OutpcSize /\ Len(q) = OutpcSize /\ Len(r) = OutpcSize
    BY <1>1, <1>5, BlockIsSequence
  <2> QED
    BY <2>1 DEF Codec!InBlock
<1>7. \A k \in fields : k <= d + 1 => k <= d \/ k = d + 1
  BY <1>2
<1>8. ASSUME NEW k \in fields, Hidden(channels, fields, k, d, p)
      PROVE  Hidden(channels, fields, k, d + 1, q) /\ Hidden(channels, fields, k, d + 1, r)
  <2>1. PICK j \in fields : /\ k < j /\ j <= d
                            /\ Codec!InBlock(channels[j], p) /\ ~Codec!Apart(channels[j], channels[k])
    BY <1>8 DEF Hidden
  <2>2. j <= d + 1
    BY <1>2, <2>1
  <2>3. Codec!InBlock(channels[j], q) /\ Codec!InBlock(channels[j], r)
    BY <1>6, <2>1
  <2> QED
    BY <2>1, <2>2, <2>3, Zenon DEF Hidden
<1>9. ASSUME NEW k \in fields, k <= d, d + 1 \in fields, Codec!InBlock(f, p), ~Codec!Apart(f, channels[k])
      PROVE  Hidden(channels, fields, k, d + 1, q) /\ Hidden(channels, fields, k, d + 1, r)
  <2>1. k < d + 1 /\ d + 1 <= d + 1
    BY <1>2, <1>9
  <2>2. Codec!InBlock(channels[d + 1], q) /\ Codec!InBlock(channels[d + 1], r)
    BY <1>6, <1>9 DEF f
  <2>3. ~Codec!Apart(channels[d + 1], channels[k])
    BY <1>9 DEF f
  <2> QED
    BY <1>9, <2>1, <2>2, <2>3, Zenon DEF Hidden
<1>10. ASSUME NEW k \in fields, k <= d, IsScalar(channels[k]),
              d + 1 \in fields /\ Codec!InBlock(f, p) => Codec!Apart(f, channels[k])
       PROVE  /\ Codec!DaemonRaw(q, channels[k]) = Codec!DaemonRaw(p, channels[k])
              /\ Codec!DashRaw(r, channels[k]) = Codec!DashRaw(p, channels[k])
              /\ Codec!InspectRaw(r, channels[k]) = Codec!InspectRaw(p, channels[k])
  BY <1>2, <1>5, <1>10, Zenon DEF NumbersKept
<1>11. ASSUME NEW g \in Channel, ~Codec!InBlock(g, p), IsScalar(g)
       PROVE  Codec!DaemonRaw(q, g) = 0 /\ Codec!DashRaw(r, g) = 0
  <2>1. g.kind = "scalar" /\ ~Codec!InBlock(g, q) /\ ~Codec!InBlock(g, r)
    BY <1>6, <1>11 DEF IsScalar
  <2> QED
    BY <2>1 DEF Codec!DaemonRaw, Codec!DashRaw
<1>12. ASSUME EcuShown(channels, fields, sent, d, p) PROVE EcuShown(channels, fields, sent, d + 1, q)
  <2>1. SUFFICES ASSUME NEW k \in fields, IsScalar(channels[k]), k <= d + 1
                 PROVE  IF Codec!InBlock(channels[k], q)
                          THEN \/ Hidden(channels, fields, k, d + 1, q)
                               \/ Codec!ShowsShifted(channels[k], Codec!DaemonRaw(q, channels[k]), sent[k])
                          ELSE Codec!DaemonRaw(q, channels[k]) = 0
    BY DEF EcuShown
  <2>2. CASE k <= d
    <3>1. Codec!InBlock(channels[k], p) =>
            \/ Hidden(channels, fields, k, d, p)
            \/ Codec!ShowsShifted(channels[k], Codec!DaemonRaw(p, channels[k]), sent[k])
      BY <1>12, <2>1, <2>2, Zenon DEF EcuShown
    <3> QED
      BY <1>2, <1>6, <1>8, <1>9, <1>10, <1>11, <2>1, <2>2, <3>1, Zenon
  <2>3. CASE k = d + 1
    BY <1>3, <1>4, <1>6, <1>11, <2>1, <2>3, Zenon DEF f
  <2> QED
    BY <1>7, <2>1, <2>2, <2>3
<1>13. ASSUME OldShown(channels, fields, sent, d, p) PROVE OldShown(channels, fields, sent, d + 1, r)
  <2>1. SUFFICES ASSUME NEW k \in fields, IsScalar(channels[k]), k <= d + 1
                 PROVE  IF Codec!InBlock(channels[k], r)
                          THEN \/ Hidden(channels, fields, k, d + 1, r)
                               \/ /\ Codec!Shows(channels[k], Codec!DashRaw(r, channels[k]), sent[k])
                                  /\ Codec!InspectRaw(r, channels[k]) = Codec!DashRaw(r, channels[k])
                          ELSE Codec!DashRaw(r, channels[k]) = 0
    BY DEF OldShown
  <2>2. CASE k <= d
    <3>1. Codec!InBlock(channels[k], p) =>
            \/ Hidden(channels, fields, k, d, p)
            \/ /\ Codec!Shows(channels[k], Codec!DashRaw(p, channels[k]), sent[k])
               /\ Codec!InspectRaw(p, channels[k]) = Codec!DashRaw(p, channels[k])
      BY <1>13, <2>1, <2>2, Zenon DEF OldShown
    <3> QED
      BY <1>2, <1>6, <1>8, <1>9, <1>10, <1>11, <2>1, <2>2, <3>1, Zenon
  <2>3. CASE k = d + 1
    BY <1>3, <1>4, <1>6, <1>11, <2>1, <2>3, Zenon DEF f
  <2> QED
    BY <1>7, <2>1, <2>2, <2>3
<1> QED
  BY <1>5, <1>12, <1>13 DEF q, r, f

EcuSent(s) == [k \in DOMAIN OutpcChannels |-> Contents!FieldValue(s, OutpcChannels[k].name)]
OldSent(s) == [k \in DOMAIN OutpcChannels |-> Contents!OldFieldValue(s, OutpcChannels[k].name)]
DebugSent(c) == [k \in DOMAIN DebugChannels |-> 10 * ((c + k - 1) % 256)]

LEMMA EngineBitsOf ==
  ASSUME NEW s \in EngineStates
  PROVE  \E a, b, c \in {0, 1} :
           /\ (a = 1) = s.running /\ (b = 1) = s.cranking /\ (c = 1) = s.warmup
           /\ Contents!EngineBits(s) = a + 2 * b + 12 * c
<1>1. PICK a \in {0, 1} : (a = 1) = s.running /\ Contents!Bit(s.running, 1) = a
  BY ChannelsAssumption DEF Contents!Bit
<1>2. PICK b \in {0, 1} : (b = 1) = s.cranking /\ Contents!Bit(s.cranking, 2) = 2 * b
  BY ChannelsAssumption DEF Contents!Bit
<1>3. PICK c \in {0, 1} : (c = 1) = s.warmup /\ Contents!Bit(s.warmup, 12) = 12 * c
  BY ChannelsAssumption DEF Contents!Bit
<1>4. Contents!EngineBits(s) = a + 2 * b + 12 * c
  BY <1>1, <1>2, <1>3 DEF Contents!EngineBits
<1> QED
  BY <1>1, <1>2, <1>3, <1>4, Zenon

LEMMA SentIsNumber ==
  ASSUME NEW s \in EngineStates
  PROVE  \A k \in DOMAIN OutpcChannels : EcuSent(s)[k] \in Int /\ OldSent(s)[k] \in Int
<1>1. /\ s.rpm \in Int /\ s.map \in Int /\ s.tps \in Int /\ s.coolant \in Int /\ s.mat \in Int
      /\ s.iac \in Int
  BY ChannelsAssumption
<1>2. PICK b \in Int : b = Contents!EngineBits(s)
  BY EngineBitsOf
<1>3. PICK q \in Int : q = Contents!SquirtBits(s)
  BY DEF Contents!SquirtBits, Contents!Bit
<1>4. /\ Contents!Bit(s.warmup, 20) \in Int
      /\ Contents!Bit(s.rpm < 10000, 300) \in Int /\ Contents!Bit(s.rpm < 10000, 350) \in Int
      /\ (s.iac * 392) \div 1000 \in Int
  BY <1>1 DEF Contents!Bit
<1>5. ASSUME NEW name PROVE Contents!FieldValue(s, name) \in Int
  BY <1>1, <1>2, <1>3, <1>4 DEF Contents!FieldValue
<1>6. ASSUME NEW name PROVE Contents!OldFieldValue(s, name) \in Int
  BY <1>1, <1>2, <1>3, <1>4 DEF Contents!OldFieldValue
<1> QED
  BY <1>5, <1>6 DEF EcuSent, OldSent

(* Each flag is the bit that the INI file says, whatever the others are.   *)
LEMMA FlagsInByte ==
  ASSUME NEW a \in {0, 1}, NEW b \in {0, 1}, NEW c \in {0, 1}
  PROVE  LET n == a + 2 * b + 12 * c
         IN /\ (n \div 2 ^ 0) % 2 ^ 1 = a
            /\ (n \div 2 ^ 1) % 2 ^ 1 = b
            /\ (n \div 2 ^ 3) % 2 ^ 1 = c
<1>1. 2 ^ 0 = 1 /\ 2 ^ 1 = 2 /\ 2 ^ 3 = 8
  OBVIOUS
<1>2. CASE c = 0
  <2>1. CASE b = 0
    BY <1>1, <1>2, <2>1
  <2>2. CASE b = 1
    BY <1>1, <1>2, <2>2
  <2> QED
    BY <2>1, <2>2
<1>3. CASE c = 1
  <2>1. CASE b = 0
    BY <1>1, <1>3, <2>1
  <2>2. CASE b = 1
    BY <1>1, <1>3, <2>2
  <2> QED
    BY <2>1, <2>2
<1> QED
  BY <1>2, <1>3

LEMMA OneByteField ==
  ASSUME NEW f \in Channel, f.type = "U08", NEW p \in Buffer(OutpcSize), f.offset < OutpcSize
  PROVE  /\ Codec!InBlock(f, p) /\ Codec!Lo(f) = 0 /\ Codec!Hi(f) = 255
         /\ p[f.offset + 1] \in Byte
         /\ Codec!Number(f, Codec!At(p, f)) = p[f.offset + 1]
         /\ Codec!Number(f, Codec!Swapped(Codec!At(p, f))) = p[f.offset + 1]
<1>0. OutpcSize \in Nat
  BY ChannelsAssumption
<1>1. p \in Seq(Byte) /\ Len(p) = OutpcSize /\ DOMAIN p = 1 .. OutpcSize
  BY <1>0, BlockIsSequence
<1>2. PICK o \in Nat : o = f.offset
  BY Sizes
<1>3. Codec!Size(f) = 1 /\ Codec!Lo(f) = 0 /\ Codec!Hi(f) = 255
  BY DEF Codec!Size, Codec!Lo, Codec!Hi
<1>4. PICK b \in Byte : b = p[o + 1]
  BY <1>0, <1>1, <1>2
<1>5. Codec!At(p, f) = <<b>>
  <2>1. Codec!At(p, f) = SubSeq(p, o + 1, o + 1)
    BY <1>2, <1>3 DEF Codec!At
  <2>2. o + 1 <= Len(p)
    BY <1>0, <1>1, <1>2
  <2>3. SubSeq(p, o + 1, o + 1) = [i \in 1 .. 1 |-> p[o + i]]
    BY <1>1, <2>2
  <2>4. [i \in 1 .. 1 |-> p[o + i]] = <<b>>
    BY <1>4
  <2> QED
    BY <2>1, <2>3, <2>4, Zenon
<1>6. Codec!Swapped(<<b>>) = <<b>>
  BY DEF Codec!Swapped
<1>7. Codec!Number(f, <<b>>) = b
  BY <1>3 DEF Codec!Number, Byte
<1>8. Codec!InBlock(f, p)
  BY <1>0, <1>1, <1>2, <1>3 DEF Codec!InBlock
<1> QED
  BY <1>2, <1>3, <1>4, <1>5, <1>6, <1>7, <1>8

(* When all channels are encoded, the byte of the field engine holds the   *)
(* flags of the engine.                                                    *)
LEMMA EngineByte ==
  ASSUME NEW s \in EngineStates, NEW p \in Buffer(OutpcSize),
         \/ EcuShown(OutpcChannels, Contents!EcuFields, EcuSent(s), Len(OutpcChannels), p)
         \/ OldShown(OutpcChannels, Contents!OldFields, OldSent(s), Len(OutpcChannels), p),
         NEW e \in DOMAIN OutpcChannels, IsEngine(OutpcChannels[e])
  PROVE  p[OutpcChannels[e].offset + 1] = Contents!EngineBits(s)
<1>1. PICK f \in Channel : f = OutpcChannels[e]
  BY ChannelsAssumption
<1>2. /\ f.name = "engine" /\ IsScalar(f) /\ f.kind = "scalar" /\ f.type = "U08"
      /\ f.num = 1 /\ f.den = 1 /\ f.translate = 0 /\ f.offset < OutpcSize
  BY <1>1 DEF IsEngine, IsScalar
<1>3. PICK n \in Byte : n = p[f.offset + 1]
  BY <1>2, OneByteField
<1>4. e \in Nat /\ e <= Len(OutpcChannels)
  <2>1. OutpcChannels \in Seq(Channel)
    BY ChannelsAssumption
  <2> QED
    BY <2>1
<1>5. PICK b \in Int : b = Contents!EngineBits(s) /\ 0 <= b /\ b <= 15
  <2>1. PICK x \in {0, 1}, y \in {0, 1}, z \in {0, 1} : Contents!EngineBits(s) = x + 2 * y + 12 * z
    BY EngineBitsOf, ZenonT(60)
  <2> QED
    BY <2>1
<1>6. EcuSent(s)[e] = 10 * b /\ OldSent(s)[e] = 10 * b
  <2>1. Contents!FieldValue(s, "engine") = 10 * b
    BY <1>5 DEF Contents!FieldValue, Contents!LoadFields, Contents!HundredFields
  <2>2. Contents!OldFieldValue(s, "engine") = 10 * b
    BY <1>5 DEF Contents!OldFieldValue
  <2> QED
    BY <1>1, <1>2, <2>1, <2>2 DEF EcuSent, OldSent
<1>7. /\ Codec!InBlock(f, p)
      /\ Codec!DaemonRaw(p, f) = n /\ Codec!DashRaw(p, f) = n
  BY <1>2, <1>3, OneByteField DEF Codec!DaemonRaw, Codec!DashRaw
<1>10. e \in Contents!EcuFields /\ e \in Contents!OldFields
  BY <1>1, <1>2 DEF Contents!EcuFields, Contents!OldFields, Contents!EcuNames, Contents!OldNames
<1>11. /\ ~Hidden(OutpcChannels, Contents!EcuFields, e, Len(OutpcChannels), p)
       /\ ~Hidden(OutpcChannels, Contents!OldFields, e, Len(OutpcChannels), p)
  <2>1. ASSUME NEW j \in Contents!EcuFields \cup Contents!OldFields, e < j
        PROVE  Codec!Apart(OutpcChannels[j], OutpcChannels[e])
    <3>1. e # j
      BY <1>4, <2>1
    <3> QED
      BY <3>1, ChannelsAssumption, Zenon
  <2> QED
    BY <2>1, Zenon DEF Hidden
<1>8. Codec!Shows(f, n, 10 * b)
  <2>1. CASE EcuShown(OutpcChannels, Contents!EcuFields, EcuSent(s), Len(OutpcChannels), p)
    <3>1. Codec!ShowsShifted(f, n, 10 * b)
      BY <1>1, <1>2, <1>4, <1>6, <1>7, <1>10, <1>11, <2>1, Zenon DEF EcuShown
    <3>2. Codec!Distance(f, n, 10 * b) - f.translate * (f.num - f.den) = Codec!Distance(f, n, 10 * b)
      BY <1>2, <1>3, <1>5 DEF Codec!Distance, Byte
    <3> QED
      BY <3>1, <3>2 DEF Codec!ShowsShifted, Codec!Shows
  <2>2. CASE OldShown(OutpcChannels, Contents!OldFields, OldSent(s), Len(OutpcChannels), p)
    BY <1>1, <1>2, <1>4, <1>6, <1>7, <1>10, <1>11, <2>2, Zenon DEF OldShown
  <2> QED
    BY <2>1, <2>2
<1>9. n = b
  <2>1. Codec!Lo(f) = 0 /\ Codec!Hi(f) = 255
    BY <1>2, OneByteField
  <2>2. \/ -10 < 10 * n - 10 * b /\ 10 * n - 10 * b < 10
        \/ n = 255 /\ 10 * n - 10 * b <= 0
        \/ n = 0 /\ 10 * n - 10 * b >= 0
    BY <1>2, <1>3, <1>5, <1>8, <2>1 DEF Codec!Shows, Codec!Near, Codec!Distance, Byte
  <2> QED
    BY <1>3, <1>5, <2>2, SMTT(60) DEF Byte
<1> QED
  BY <1>1, <1>3, <1>5, <1>9

(* What the dash finds in the field f of the block p is the flag of the    *)
(* engine that f is named for.                                             *)
FlagFound(s, p, f) ==
  /\ f.name = "ready"  => (Codec!DashRaw(p, f) = 1) = s.running
  /\ f.name = "crank"  => (Codec!DashRaw(p, f) = 1) = s.cranking
  /\ f.name = "warmup" => (Codec!DashRaw(p, f) = 1) = s.warmup

(* Hence the dash finds the flags of the engine in either block.           *)
LEMMA FlagsShown ==
  ASSUME NEW s \in EngineStates, NEW p \in Buffer(OutpcSize),
         \/ EcuShown(OutpcChannels, Contents!EcuFields, EcuSent(s), Len(OutpcChannels), p)
         \/ OldShown(OutpcChannels, Contents!OldFields, OldSent(s), Len(OutpcChannels), p),
         NEW k \in DOMAIN OutpcChannels
  PROVE  FlagFound(s, p, OutpcChannels[k])
<1>1. PICK f \in Channel : f = OutpcChannels[k]
  BY ChannelsAssumption
<1>2. PICK a \in {0, 1}, b \in {0, 1}, c \in {0, 1} :
           /\ (a = 1) = s.running /\ (b = 1) = s.cranking /\ (c = 1) = s.warmup
           /\ Contents!EngineBits(s) = a + 2 * b + 12 * c
  BY EngineBitsOf, Zenon
<1>3. ASSUME NEW bit \in {0, 1, 3}, IsFlag(f, bit)
      PROVE  Codec!DashRaw(p, f) = (Contents!EngineBits(s) \div 2 ^ bit) % 2 ^ 1
  <2>1. PICK e \in DOMAIN OutpcChannels : IsEngine(OutpcChannels[e]) /\ OutpcChannels[e].offset = f.offset
    BY <1>3 DEF IsFlag
  <2>2. p[f.offset + 1] = Contents!EngineBits(s) /\ f.offset < OutpcSize
    BY <2>1, EngineByte DEF IsEngine
  <2>3. f.type = "U08" /\ f.kind = "bits" /\ f.low = bit /\ f.width = 1
    BY <1>3 DEF IsFlag
  <2>4. Codec!InBlock(f, p) /\ Codec!Number(f, Codec!Swapped(Codec!At(p, f))) = Contents!EngineBits(s)
    BY <2>2, <2>3, OneByteField
  <2>5. f.width > 0
    BY <2>3
  <2> QED
    BY <2>3, <2>4, <2>5, Zenon DEF Codec!DashRaw
<1>4. (f.name = "ready" => IsFlag(f, 0)) /\ (f.name = "crank" => IsFlag(f, 1)) /\ (f.name = "warmup" => IsFlag(f, 3))
  BY <1>1, ChannelsAssumption, Zenon
<1> DEFINE n == Contents!EngineBits(s)
<1>8. (n \div 2 ^ 0) % 2 ^ 1 = a /\ (n \div 2 ^ 1) % 2 ^ 1 = b /\ (n \div 2 ^ 3) % 2 ^ 1 = c
  BY <1>2, FlagsInByte
<1>9. 0 \in {0, 1, 3} /\ 1 \in {0, 1, 3} /\ 3 \in {0, 1, 3}
  OBVIOUS
<1> HIDE DEF n
<1>5. f.name = "ready" => Codec!DashRaw(p, f) = a
  BY <1>3, <1>4, <1>8, <1>9, Zenon DEF n
<1>6. f.name = "crank" => Codec!DashRaw(p, f) = b
  BY <1>3, <1>4, <1>8, <1>9, Zenon DEF n
<1>7. f.name = "warmup" => Codec!DashRaw(p, f) = c
  BY <1>3, <1>4, <1>8, <1>9, Zenon DEF n
<1>10. FlagFound(s, p, f)
  BY <1>2, <1>5, <1>6, <1>7, Zenon DEF FlagFound
<1> QED
  BY <1>1, <1>10, Zenon

(* The operators of the two instances are those of FieldCodec.             *)
LEMMA CodecOfContents ==
  /\ \A f, p : Contents!InBlock(f, p) = Codec!InBlock(f, p)
  /\ \A f, p, v : /\ Contents!EcuEncode(p, f, v) = Codec!EcuEncode(p, f, v)
                  /\ Contents!OldEncode(p, f, v) = Codec!OldEncode(p, f, v)
  /\ \A f, p : /\ Contents!DaemonRaw(p, f) = Codec!DaemonRaw(p, f)
               /\ Contents!DashRaw(p, f) = Codec!DashRaw(p, f)
               /\ Contents!InspectRaw(p, f) = Codec!InspectRaw(p, f)
  /\ \A f, n, v : /\ Contents!Shows(f, n, v) = Codec!Shows(f, n, v)
                  /\ Contents!ShowsShifted(f, n, v) = Codec!ShowsShifted(f, n, v)
  /\ \A f, g : Contents!Apart(f, g) = Codec!Apart(f, g)
<1>1. ASSUME NEW f
      PROVE  Contents!Size(f) = Codec!Size(f) /\ Contents!Lo(f) = Codec!Lo(f) /\ Contents!Hi(f) = Codec!Hi(f)
  BY DEF Contents!Size, Codec!Size, Contents!Lo, Codec!Lo, Contents!Hi, Codec!Hi
<1>2. ASSUME NEW f, NEW p PROVE Contents!InBlock(f, p) = Codec!InBlock(f, p)
  BY <1>1 DEF Contents!InBlock, Codec!InBlock
<1>3. ASSUME NEW f, NEW n
      PROVE  Contents!Clamp(f, n) = Codec!Clamp(f, n) /\ Contents!Bytes(f, n) = Codec!Bytes(f, n)
  BY <1>1 DEF Contents!Clamp, Codec!Clamp, Contents!Bytes, Codec!Bytes
<1>4. ASSUME NEW a, NEW b
      PROVE  Contents!Quotient(a, b) = Codec!Quotient(a, b) /\ Contents!Swapped(a) = Codec!Swapped(a)
  BY DEF Contents!Quotient, Codec!Quotient, Contents!Swapped, Codec!Swapped
<1>5. ASSUME NEW p, NEW f, NEW b
      PROVE  Contents!Pack(p, f, b) = Codec!Pack(p, f, b)
  BY DEF Contents!Pack, Codec!Pack
<1>6. ASSUME NEW p, NEW f
      PROVE  Contents!At(p, f) = Codec!At(p, f)
  BY <1>1, Zenon DEF Contents!At, Codec!At
<1>7. ASSUME NEW f, NEW b
      PROVE  Contents!Number(f, b) = Codec!Number(f, b)
  BY <1>1 DEF Contents!Number, Codec!Number
<1>8. ASSUME NEW f, NEW p, NEW v PROVE Contents!EcuEncode(p, f, v) = Codec!EcuEncode(p, f, v)
  BY <1>2, <1>3, <1>4, <1>5 DEF Contents!EcuEncode, Codec!EcuEncode
<1>9. ASSUME NEW f, NEW p, NEW v PROVE Contents!OldEncode(p, f, v) = Codec!OldEncode(p, f, v)
  BY <1>2, <1>3, <1>4, <1>5 DEF Contents!OldEncode, Codec!OldEncode
<1>10. ASSUME NEW f, NEW p PROVE Contents!DaemonRaw(p, f) = Codec!DaemonRaw(p, f)
  BY <1>2, <1>6, <1>7 DEF Contents!DaemonRaw, Codec!DaemonRaw
<1>11. ASSUME NEW f, NEW p PROVE Contents!DashRaw(p, f) = Codec!DashRaw(p, f)
  BY <1>2, <1>4, <1>6, <1>7 DEF Contents!DashRaw, Codec!DashRaw
<1>12. ASSUME NEW f, NEW p PROVE Contents!InspectRaw(p, f) = Codec!InspectRaw(p, f)
  BY <1>2, <1>4, <1>6, <1>7 DEF Contents!InspectRaw, Codec!InspectRaw
<1>13. ASSUME NEW f, NEW n, NEW v
       PROVE  /\ Contents!Shows(f, n, v) = Codec!Shows(f, n, v)
              /\ Contents!ShowsShifted(f, n, v) = Codec!ShowsShifted(f, n, v)
  <2>1. ASSUME NEW e PROVE Contents!Near(f, n, e) = Codec!Near(f, n, e)
    BY <1>1 DEF Contents!Near, Codec!Near
  <2>2. Contents!Distance(f, n, v) = Codec!Distance(f, n, v)
    BY DEF Contents!Distance, Codec!Distance
  <2> QED
    BY <2>1, <2>2 DEF Contents!Shows, Codec!Shows, Contents!ShowsShifted, Codec!ShowsShifted
<1>14. ASSUME NEW f, NEW g PROVE Contents!Apart(f, g) = Codec!Apart(f, g)
  BY <1>1 DEF Contents!Apart, Codec!Apart
<1> QED
  BY <1>2, <1>8, <1>9, <1>10, <1>11, <1>12, <1>13, <1>14

LEMMA CodecOfDebugging ==
  /\ \A f, p : Debugging!InBlock(f, p) = Codec!InBlock(f, p)
  /\ \A f, p, v : /\ Debugging!EcuEncode(p, f, v) = Codec!EcuEncode(p, f, v)
                  /\ Debugging!OldEncode(p, f, v) = Codec!OldEncode(p, f, v)
  /\ \A f, p : /\ Debugging!DaemonRaw(p, f) = Codec!DaemonRaw(p, f)
               /\ Debugging!DashRaw(p, f) = Codec!DashRaw(p, f)
               /\ Debugging!InspectRaw(p, f) = Codec!InspectRaw(p, f)
  /\ \A f, n, v : /\ Debugging!Shows(f, n, v) = Codec!Shows(f, n, v)
                  /\ Debugging!ShowsShifted(f, n, v) = Codec!ShowsShifted(f, n, v)
  /\ \A f, g : Debugging!Apart(f, g) = Codec!Apart(f, g)
<1>1. ASSUME NEW f
      PROVE  Debugging!Size(f) = Codec!Size(f) /\ Debugging!Lo(f) = Codec!Lo(f) /\ Debugging!Hi(f) = Codec!Hi(f)
  BY DEF Debugging!Size, Codec!Size, Debugging!Lo, Codec!Lo, Debugging!Hi, Codec!Hi
<1>2. ASSUME NEW f, NEW p PROVE Debugging!InBlock(f, p) = Codec!InBlock(f, p)
  BY <1>1 DEF Debugging!InBlock, Codec!InBlock
<1>3. ASSUME NEW f, NEW n
      PROVE  Debugging!Clamp(f, n) = Codec!Clamp(f, n) /\ Debugging!Bytes(f, n) = Codec!Bytes(f, n)
  BY <1>1 DEF Debugging!Clamp, Codec!Clamp, Debugging!Bytes, Codec!Bytes
<1>4. ASSUME NEW a, NEW b
      PROVE  Debugging!Quotient(a, b) = Codec!Quotient(a, b) /\ Debugging!Swapped(a) = Codec!Swapped(a)
  BY DEF Debugging!Quotient, Codec!Quotient, Debugging!Swapped, Codec!Swapped
<1>5. ASSUME NEW p, NEW f, NEW b
      PROVE  Debugging!Pack(p, f, b) = Codec!Pack(p, f, b)
  BY DEF Debugging!Pack, Codec!Pack
<1>6. ASSUME NEW p, NEW f
      PROVE  Debugging!At(p, f) = Codec!At(p, f)
  BY <1>1, Zenon DEF Debugging!At, Codec!At
<1>7. ASSUME NEW f, NEW b
      PROVE  Debugging!Number(f, b) = Codec!Number(f, b)
  BY <1>1 DEF Debugging!Number, Codec!Number
<1>8. ASSUME NEW f, NEW p, NEW v PROVE Debugging!EcuEncode(p, f, v) = Codec!EcuEncode(p, f, v)
  BY <1>2, <1>3, <1>4, <1>5 DEF Debugging!EcuEncode, Codec!EcuEncode
<1>9. ASSUME NEW f, NEW p, NEW v PROVE Debugging!OldEncode(p, f, v) = Codec!OldEncode(p, f, v)
  BY <1>2, <1>3, <1>4, <1>5 DEF Debugging!OldEncode, Codec!OldEncode
<1>10. ASSUME NEW f, NEW p PROVE Debugging!DaemonRaw(p, f) = Codec!DaemonRaw(p, f)
  BY <1>2, <1>6, <1>7 DEF Debugging!DaemonRaw, Codec!DaemonRaw
<1>11. ASSUME NEW f, NEW p PROVE Debugging!DashRaw(p, f) = Codec!DashRaw(p, f)
  BY <1>2, <1>4, <1>6, <1>7 DEF Debugging!DashRaw, Codec!DashRaw
<1>12. ASSUME NEW f, NEW p PROVE Debugging!InspectRaw(p, f) = Codec!InspectRaw(p, f)
  BY <1>2, <1>4, <1>6, <1>7 DEF Debugging!InspectRaw, Codec!InspectRaw
<1>13. ASSUME NEW f, NEW n, NEW v
       PROVE  /\ Debugging!Shows(f, n, v) = Codec!Shows(f, n, v)
              /\ Debugging!ShowsShifted(f, n, v) = Codec!ShowsShifted(f, n, v)
  <2>1. ASSUME NEW e PROVE Debugging!Near(f, n, e) = Codec!Near(f, n, e)
    BY <1>1 DEF Debugging!Near, Codec!Near
  <2>2. Debugging!Distance(f, n, v) = Codec!Distance(f, n, v)
    BY DEF Debugging!Distance, Codec!Distance
  <2> QED
    BY <2>1, <2>2 DEF Debugging!Shows, Codec!Shows, Debugging!ShowsShifted, Codec!ShowsShifted
<1>14. ASSUME NEW f, NEW g PROVE Debugging!Apart(f, g) = Codec!Apart(f, g)
  BY <1>1 DEF Debugging!Apart, Codec!Apart
<1> QED
  BY <1>2, <1>8, <1>9, <1>10, <1>11, <1>12, <1>13, <1>14

(* What is always true of the blocks under construction, in the behaviours *)
(* that are about them.                                                    *)
ContentsInv ==
  /\ asked \in EngineStates
  /\ ecuBlock \in Buffer(OutpcSize) /\ oldBlock \in Buffer(OutpcSize)
  /\ done \in Nat /\ done <= Len(OutpcChannels)
  /\ EcuShown(OutpcChannels, Contents!EcuFields, EcuSent(asked), done, ecuBlock)
  /\ OldShown(OutpcChannels, Contents!OldFields, OldSent(asked), done, oldBlock)

DebugInv ==
  /\ counter \in Nat
  /\ ecuBlock \in Buffer(OutpcSize)
  /\ done \in Nat /\ done <= Len(DebugChannels)
  /\ EcuShown(DebugChannels, DOMAIN DebugChannels, DebugSent(counter), done, ecuBlock)

BlocksInv == /\ subject = "OUTPC" => ContentsInv
             /\ subject = "OUTPC, debug" => DebugInv

LEMMA NothingEncoded ==
  ASSUME NEW channels \in Seq(Channel), NEW fields \in SUBSET DOMAIN channels, NEW sent
  PROVE  LET p == [i \in 1 .. OutpcSize |-> 0]
         IN /\ p \in Buffer(OutpcSize)
            /\ EcuShown(channels, fields, sent, 0, p) /\ OldShown(channels, fields, sent, 0, p)
            /\ 0 \in Nat /\ 0 <= Len(channels)
<1>2. \A k \in fields : ~(k <= 0)
  OBVIOUS
<1>3. Len(channels) \in Nat
  OBVIOUS
<1>4. [i \in 1 .. OutpcSize |-> 0] \in Buffer(OutpcSize)
  BY DEF Buffer, Byte
<1> QED
  BY <1>2, <1>3, <1>4 DEF EcuShown, OldShown

(* The channels that are encoded are channels.                             *)
LEMMA FieldsAreChannels ==
  /\ OutpcChannels \in Seq(Channel) /\ DebugChannels \in Seq(Channel)
  /\ Contents!EcuFields \in SUBSET DOMAIN OutpcChannels
  /\ Contents!OldFields \in SUBSET DOMAIN OutpcChannels
  /\ DOMAIN DebugChannels \in SUBSET DOMAIN DebugChannels
  /\ Debugging!EcuFields = DOMAIN DebugChannels
  BY ChannelsAssumption DEF Contents!EcuFields, Contents!OldFields, Debugging!EcuFields

LEMMA BlocksEmpty == AnyInit => BlocksInv
<1> SUFFICES ASSUME AnyInit PROVE BlocksInv
  OBVIOUS
<1>1. ASSUME subject = "OUTPC" PROVE ContentsInv
  <2>1. Contents!Init
    BY <1>1 DEF AnyInit
  <2>2. /\ asked \in EngineStates /\ done = 0
        /\ ecuBlock = [i \in 1 .. OutpcSize |-> 0] /\ oldBlock = [i \in 1 .. OutpcSize |-> 0]
    BY <2>1 DEF Contents!Init, Contents!Empty
  <2> QED
    BY <2>2, NothingEncoded, FieldsAreChannels, Zenon DEF ContentsInv
<1>2. ASSUME subject = "OUTPC, debug" PROVE DebugInv
  <2>1. Debugging!Init
    BY <1>2, Zenon DEF AnyInit
  <2>2. /\ counter = 0 /\ done = 0
        /\ ecuBlock = [i \in 1 .. OutpcSize |-> 0]
    BY <2>1 DEF Debugging!Init, Debugging!Empty
  <2> QED
    BY <2>2, NothingEncoded, FieldsAreChannels, Zenon DEF DebugInv
<1> QED
  BY <1>1, <1>2, Zenon DEF BlocksInv

LEMMA ContentsEncode == ASSUME ContentsInv, Contents!Encode PROVE ContentsInv'
<1>1. PICK d \in Nat : d = done /\ d < Len(OutpcChannels)
  BY DEF ContentsInv, Contents!Encode
<1>2. PICK s \in EngineStates : s = asked
  BY DEF ContentsInv
<1>3. PICK p \in Buffer(OutpcSize) : p = ecuBlock
  BY DEF ContentsInv
<1>4. PICK r \in Buffer(OutpcSize) : r = oldBlock
  BY DEF ContentsInv
<1>5. PICK f : f = OutpcChannels[d + 1]
  OBVIOUS
<1>6. d + 1 \in DOMAIN OutpcChannels
  <2>1. OutpcChannels \in Seq(Channel)
    BY ChannelsAssumption
  <2> QED
    BY <1>1, <2>1
<1>7. PICK v : v = EcuSent(s)[d + 1]
  OBVIOUS
<1>8. PICK w : w = OldSent(s)[d + 1]
  OBVIOUS
<1>9. v = Contents!FieldValue(s, f.name) /\ w = Contents!OldFieldValue(s, f.name)
  BY <1>5, <1>6, <1>7, <1>8 DEF EcuSent, OldSent
<1>10. /\ ecuBlock' = IF d + 1 \in Contents!EcuFields THEN Codec!EcuEncode(p, f, v) ELSE p
       /\ oldBlock' = IF d + 1 \in Contents!OldFields THEN Codec!OldEncode(r, f, w) ELSE r
       /\ done' = d + 1 /\ asked' = s
  <2>2. Contents!Sent(d + 1) = v
    BY <1>2, <1>5, <1>9 DEF Contents!Sent
  <2>3. /\ Contents!EcuEncode(p, f, v) = Codec!EcuEncode(p, f, v)
        /\ Contents!OldEncode(r, f, w) = Codec!OldEncode(r, f, w)
    BY CodecOfContents
  <2>4. /\ ecuBlock' = IF d + 1 \in Contents!EcuFields THEN Contents!EcuEncode(p, f, v) ELSE p
        /\ oldBlock' = IF d + 1 \in Contents!OldFields THEN Contents!OldEncode(r, f, w) ELSE r
        /\ done' = d + 1 /\ asked' = s
    BY <1>1, <1>2, <1>3, <1>4, <1>5, <1>9, <2>2, Zenon DEF Contents!Encode
  <2> QED
    BY <2>3, <2>4
<1>11. \A k \in DOMAIN OutpcChannels : EcuSent(s)[k] \in Int /\ OldSent(s)[k] \in Int
  BY SentIsNumber
<1>12. PICK p2 : p2 = IF d + 1 \in Contents!EcuFields THEN Codec!EcuEncode(p, f, v) ELSE p
  OBVIOUS
<1>13. PICK r2 : r2 = IF d + 1 \in Contents!OldFields THEN Codec!OldEncode(r, f, w) ELSE r
  OBVIOUS
<1>14. p2 \in Buffer(OutpcSize) /\ EcuShown(OutpcChannels, Contents!EcuFields, EcuSent(s), d + 1, p2)
  <2>1. EcuShown(OutpcChannels, Contents!EcuFields, EcuSent(s), d, p)
    BY <1>1, <1>2, <1>3 DEF ContentsInv
  <2> QED
    BY <1>1, <1>5, <1>7, <1>11, <1>12, <2>1, ChannelAdded, FieldsAreChannels
<1>15. r2 \in Buffer(OutpcSize) /\ OldShown(OutpcChannels, Contents!OldFields, OldSent(s), d + 1, r2)
  <2>1. OldShown(OutpcChannels, Contents!OldFields, OldSent(s), d, r)
    BY <1>1, <1>2, <1>4 DEF ContentsInv
  <2> QED
    BY <1>1, <1>5, <1>8, <1>11, <1>13, <2>1, ChannelAdded, FieldsAreChannels
<1>16. d + 1 \in Nat /\ d + 1 <= Len(OutpcChannels)
  BY <1>1, ChannelsAssumption, SMTT(60)
<1>17. ecuBlock' = p2 /\ oldBlock' = r2 /\ done' = d + 1 /\ asked' = s
  BY <1>10, <1>12, <1>13
<1> QED
  BY <1>14, <1>15, <1>16, <1>17 DEF ContentsInv

LEMMA ContentsBuild == ASSUME ContentsInv, Contents!Build PROVE ContentsInv'
<1>1. /\ asked' \in EngineStates /\ done' = 0
      /\ ecuBlock' = [i \in 1 .. OutpcSize |-> 0] /\ oldBlock' = [i \in 1 .. OutpcSize |-> 0]
  BY DEF Contents!Build, Contents!Empty
<1> QED
  BY <1>1, NothingEncoded, FieldsAreChannels, Zenon DEF ContentsInv

LEMMA DebugEncode == ASSUME DebugInv, Debugging!Encode PROVE DebugInv'
<1>1. PICK d \in Nat : d = done /\ d < Len(DebugChannels)
  BY DEF DebugInv, Debugging!Encode
<1>2. PICK c \in Nat : c = counter
  BY DEF DebugInv
<1>3. PICK p \in Buffer(OutpcSize) : p = ecuBlock
  BY DEF DebugInv
<1>5. PICK f : f = DebugChannels[d + 1]
  OBVIOUS
<1>6. d + 1 \in DOMAIN DebugChannels /\ \A k \in DOMAIN DebugChannels : k \in Nat
  <2>1. DebugChannels \in Seq(Channel)
    BY ChannelsAssumption
  <2> QED
    BY <1>1, <2>1
<1>7. PICK v : v = DebugSent(c)[d + 1]
  OBVIOUS
<1>8. d + 1 \in Debugging!EcuFields
  BY <1>6, FieldsAreChannels
<1>10. ecuBlock' = Codec!EcuEncode(p, f, v) /\ done' = d + 1 /\ counter' = c
  <2>2. Debugging!Sent(d + 1) = v
    BY <1>2, <1>6, <1>7 DEF Debugging!Sent, Debugging!DebugValue, DebugSent
  <2>3. Debugging!EcuEncode(p, f, v) = Codec!EcuEncode(p, f, v)
    BY CodecOfDebugging
  <2>4. ecuBlock' = Debugging!EcuEncode(p, f, v) /\ done' = d + 1 /\ counter' = c
    BY <1>1, <1>2, <1>3, <1>5, <1>8, <2>2, Zenon DEF Debugging!Encode
  <2> QED
    BY <2>3, <2>4
<1>11. \A k \in DOMAIN DebugChannels : DebugSent(c)[k] \in Int
  <2>1. ASSUME NEW k \in DOMAIN DebugChannels PROVE 10 * ((c + k - 1) % 256) \in Int
    <3>1. k \in Int
      BY <1>6
    <3> QED
      BY <3>1
  <2> QED
    BY <2>1 DEF DebugSent
<1>12. PICK p2 : p2 = Codec!EcuEncode(p, f, v)
  OBVIOUS
<1>14. p2 \in Buffer(OutpcSize) /\ EcuShown(DebugChannels, DOMAIN DebugChannels, DebugSent(c), d + 1, p2)
  <2>1. EcuShown(DebugChannels, DOMAIN DebugChannels, DebugSent(c), d, p)
    BY <1>1, <1>2, <1>3 DEF DebugInv
  <2> QED
    BY <1>1, <1>5, <1>6, <1>7, <1>11, <1>12, <2>1, ChannelAdded, FieldsAreChannels
<1>16. d + 1 \in Nat /\ d + 1 <= Len(DebugChannels)
  BY <1>1, ChannelsAssumption
<1>17. ecuBlock' = p2 /\ done' = d + 1 /\ counter' = c
  BY <1>10, <1>12
<1> QED
  BY <1>14, <1>16, <1>17 DEF DebugInv

LEMMA DebugBuild == ASSUME DebugInv, Debugging!Build PROVE DebugInv'
<1>1. /\ counter' = (counter + 1) % 256 /\ done' = 0
      /\ ecuBlock' = [i \in 1 .. OutpcSize |-> 0]
  BY DEF Debugging!Build, Debugging!Empty
<1>2. counter' \in Nat
  <2>1. PICK c \in Nat : c = counter
    BY DEF DebugInv
  <2>2. (c + 1) % 256 \in Nat
    OBVIOUS
  <2> QED
    BY <1>1, <2>1, <2>2
<1> QED
  BY <1>1, <1>2, NothingEncoded, FieldsAreChannels, Zenon DEF DebugInv

(* What the other subjects do does not touch the blocks.                   *)
LEMMA BlocksKept == AnyInit /\ [][AnyNext]_all => []BlocksInv
<1>1. AnyInit => BlocksInv
  BY BlocksEmpty
<1>2. BlocksInv /\ [AnyNext]_all => BlocksInv'
  <2> SUFFICES ASSUME BlocksInv, [AnyNext]_all PROVE BlocksInv'
    OBVIOUS
  <2>1. subject' = subject
    BY Zenon DEF AnyNext, EngineOnly, OutpcOnly, FilesOnly, all
  <2>2. ASSUME subject = "OUTPC" PROVE ContentsInv'
    <3>1. Contents!Next \/ UNCHANGED outpc
      BY <2>2 DEF AnyNext, all
    <3>2. ContentsInv
      BY <2>2 DEF BlocksInv
    <3>3. ASSUME UNCHANGED outpc PROVE ContentsInv'
      BY <3>2, <3>3 DEF outpc, ContentsInv
    <3> QED
      BY <3>1, <3>2, <3>3, ContentsEncode, ContentsBuild DEF Contents!Next
  <2>3. ASSUME subject = "OUTPC, debug" PROVE DebugInv'
    <3>1. Debugging!Next \/ UNCHANGED outpc
      BY <2>3, Zenon DEF AnyNext, all
    <3>2. DebugInv
      BY <2>3, Zenon DEF BlocksInv
    <3>3. ASSUME UNCHANGED outpc PROVE DebugInv'
      BY <3>2, <3>3 DEF outpc, DebugInv
    <3> QED
      BY <3>1, <3>2, <3>3, DebugEncode, DebugBuild DEF Debugging!Next
  <2> QED
    BY <2>1, <2>2, <2>3, Zenon DEF BlocksInv
<1> QED
  BY <1>1, <1>2, PTL

LEMMA BlocksInvIsEnough == BlocksInv => BlocksAreShown
<1> SUFFICES ASSUME BlocksInv PROVE BlocksAreShown
  OBVIOUS
<1>1. ASSUME ContentsInv PROVE Contents!EcuIsShown
  <2>1. SUFFICES ASSUME NEW k \in Contents!EcuFields, IsScalar(OutpcChannels[k]),
                        k <= done
                 PROVE  LET f == OutpcChannels[k] IN
                        IF Contents!InBlock(f, ecuBlock)
                          THEN \/ Contents!Covered(k, Contents!EcuFields, ecuBlock)
                               \/ Contents!ShowsShifted(f, Contents!DaemonRaw(ecuBlock, f), Contents!Sent(k))
                          ELSE Contents!DaemonRaw(ecuBlock, f) = 0
    BY Zenon DEF Contents!EcuIsShown, Contents!Scalars, IsScalar
  <2>2. PICK f : f = OutpcChannels[k]
    OBVIOUS
  <2>3. Contents!Sent(k) = EcuSent(asked)[k]
    BY <2>1, FieldsAreChannels DEF Contents!Sent, EcuSent
  <2>4. Contents!InBlock(f, ecuBlock) = Codec!InBlock(f, ecuBlock)
    BY CodecOfContents
  <2>5. Contents!DaemonRaw(ecuBlock, f) = Codec!DaemonRaw(ecuBlock, f)
    BY CodecOfContents
  <2>6. ASSUME NEW n, NEW v PROVE Contents!ShowsShifted(f, n, v) = Codec!ShowsShifted(f, n, v)
    BY CodecOfContents
  <2>7. IF Codec!InBlock(f, ecuBlock)
          THEN \/ Hidden(OutpcChannels, Contents!EcuFields, k, done, ecuBlock)
               \/ Codec!ShowsShifted(f, Codec!DaemonRaw(ecuBlock, f), EcuSent(asked)[k])
          ELSE Codec!DaemonRaw(ecuBlock, f) = 0
    BY <1>1, <2>1, <2>2, Zenon DEF ContentsInv, EcuShown
  <2>8. Hidden(OutpcChannels, Contents!EcuFields, k, done, ecuBlock)
        => Contents!Covered(k, Contents!EcuFields, ecuBlock)
    BY CodecOfContents, Zenon DEF Hidden, Contents!Covered
  <2> QED
    BY <2>2, <2>3, <2>4, <2>5, <2>6, <2>7, <2>8, Zenon
<1>2. ASSUME ContentsInv PROVE Contents!OldIsShown
  <2>1. SUFFICES ASSUME NEW k \in Contents!OldFields, IsScalar(OutpcChannels[k]), k <= done
                 PROVE  LET f == OutpcChannels[k]
                            v == Contents!OldFieldValue(asked, f.name)
                        IN
                        IF Contents!InBlock(f, oldBlock)
                          THEN \/ Contents!Covered(k, Contents!OldFields, oldBlock)
                               \/ /\ Contents!Shows(f, Contents!DashRaw(oldBlock, f), v)
                                  /\ Contents!InspectRaw(oldBlock, f) = Contents!DashRaw(oldBlock, f)
                          ELSE Contents!DashRaw(oldBlock, f) = 0
    BY Zenon DEF Contents!OldIsShown, Contents!Scalars, IsScalar
  <2>2. PICK f : f = OutpcChannels[k]
    OBVIOUS
  <2>3. Contents!OldFieldValue(asked, f.name) = OldSent(asked)[k]
    BY <2>1, <2>2, FieldsAreChannels DEF OldSent
  <2>4. Contents!InBlock(f, oldBlock) = Codec!InBlock(f, oldBlock)
    BY CodecOfContents
  <2>5. /\ Contents!DashRaw(oldBlock, f) = Codec!DashRaw(oldBlock, f)
        /\ Contents!InspectRaw(oldBlock, f) = Codec!InspectRaw(oldBlock, f)
    BY CodecOfContents
  <2>6. ASSUME NEW n, NEW v PROVE Contents!Shows(f, n, v) = Codec!Shows(f, n, v)
    BY CodecOfContents
  <2>7. IF Codec!InBlock(f, oldBlock)
          THEN \/ Hidden(OutpcChannels, Contents!OldFields, k, done, oldBlock)
               \/ /\ Codec!Shows(f, Codec!DashRaw(oldBlock, f), OldSent(asked)[k])
                  /\ Codec!InspectRaw(oldBlock, f) = Codec!DashRaw(oldBlock, f)
          ELSE Codec!DashRaw(oldBlock, f) = 0
    BY <1>2, <2>1, <2>2, Zenon DEF ContentsInv, OldShown
  <2>8. Hidden(OutpcChannels, Contents!OldFields, k, done, oldBlock)
        => Contents!Covered(k, Contents!OldFields, oldBlock)
    BY CodecOfContents, Zenon DEF Hidden, Contents!Covered
  <2> QED
    BY <2>2, <2>3, <2>4, <2>5, <2>6, <2>7, <2>8, ZenonT(60)
<1>3. ASSUME ContentsInv PROVE Contents!FlagsAreShown
  <2>1. SUFFICES ASSUME done = Len(OutpcChannels), NEW p \in {ecuBlock, oldBlock}
                 PROVE  /\ (Contents!DashRaw(p, OutpcChannels[Contents!Flag("ready")]) = 1) = asked.running
                        /\ (Contents!DashRaw(p, OutpcChannels[Contents!Flag("crank")]) = 1) = asked.cranking
                        /\ (Contents!DashRaw(p, OutpcChannels[Contents!Flag("warmup")]) = 1) = asked.warmup
    BY DEF Contents!FlagsAreShown
  <2>2. ASSUME NEW name \in {"ready", "crank", "warmup"}
        PROVE  /\ Contents!Flag(name) \in DOMAIN OutpcChannels
               /\ OutpcChannels[Contents!Flag(name)].name = name
    <3>1. \E k \in DOMAIN OutpcChannels : OutpcChannels[k].name = name
      BY ChannelsAssumption
    <3> QED
      BY <3>1 DEF Contents!Flag
  <2>3. ASSUME NEW f PROVE Contents!DashRaw(p, f) = Codec!DashRaw(p, f)
    BY CodecOfContents
  <2>4. /\ p \in Buffer(OutpcSize) /\ asked \in EngineStates
        /\ \/ EcuShown(OutpcChannels, Contents!EcuFields, EcuSent(asked), Len(OutpcChannels), p)
           \/ OldShown(OutpcChannels, Contents!OldFields, OldSent(asked), Len(OutpcChannels), p)
    BY <1>3, <2>1 DEF ContentsInv
  <2>5. \A k \in DOMAIN OutpcChannels : FlagFound(asked, p, OutpcChannels[k])
    BY <2>4, FlagsShown, Zenon
  <2>6. ASSUME NEW name \in {"ready", "crank", "warmup"}
        PROVE  FlagFound(asked, p, OutpcChannels[Contents!Flag(name)])
    BY <2>2, <2>5, Zenon
  <2>7. (Codec!DashRaw(p, OutpcChannels[Contents!Flag("ready")]) = 1) = asked.running
    BY <2>2, <2>6, Zenon DEF FlagFound
  <2>8. (Codec!DashRaw(p, OutpcChannels[Contents!Flag("crank")]) = 1) = asked.cranking
    BY <2>2, <2>6, Zenon DEF FlagFound
  <2>9. (Codec!DashRaw(p, OutpcChannels[Contents!Flag("warmup")]) = 1) = asked.warmup
    BY <2>2, <2>6, ZenonT(60) DEF FlagFound
  <2> QED
    BY <2>3, <2>7, <2>8, <2>9, Zenon
<1>4. ASSUME DebugInv PROVE Debugging!EcuIsShown
  <2>1. SUFFICES ASSUME NEW k \in Debugging!EcuFields, IsScalar(DebugChannels[k]),
                        k <= done
                 PROVE  LET f == DebugChannels[k] IN
                        IF Debugging!InBlock(f, ecuBlock)
                          THEN \/ Debugging!Covered(k, Debugging!EcuFields, ecuBlock)
                               \/ Debugging!ShowsShifted(f, Debugging!DaemonRaw(ecuBlock, f), Debugging!Sent(k))
                          ELSE Debugging!DaemonRaw(ecuBlock, f) = 0
    BY Zenon DEF Debugging!EcuIsShown, Debugging!Scalars, IsScalar
  <2>2. PICK f : f = DebugChannels[k]
    OBVIOUS
  <2>3. Debugging!Sent(k) = DebugSent(counter)[k]
    BY <2>1, FieldsAreChannels DEF Debugging!Sent, Debugging!DebugValue, DebugSent
  <2>4. Debugging!InBlock(f, ecuBlock) = Codec!InBlock(f, ecuBlock)
    BY CodecOfDebugging
  <2>5. Debugging!DaemonRaw(ecuBlock, f) = Codec!DaemonRaw(ecuBlock, f)
    BY CodecOfDebugging
  <2>6. ASSUME NEW n, NEW v PROVE Debugging!ShowsShifted(f, n, v) = Codec!ShowsShifted(f, n, v)
    BY CodecOfDebugging
  <2>7. IF Codec!InBlock(f, ecuBlock)
          THEN \/ Hidden(DebugChannels, Debugging!EcuFields, k, done, ecuBlock)
               \/ Codec!ShowsShifted(f, Codec!DaemonRaw(ecuBlock, f), DebugSent(counter)[k])
          ELSE Codec!DaemonRaw(ecuBlock, f) = 0
    <3>1. EcuShown(DebugChannels, Debugging!EcuFields, DebugSent(counter), done, ecuBlock)
      BY <1>4, FieldsAreChannels DEF DebugInv
    <3> QED
      BY <2>1, <2>2, <3>1, Zenon DEF EcuShown
  <2>8. Hidden(DebugChannels, Debugging!EcuFields, k, done, ecuBlock)
        => Debugging!Covered(k, Debugging!EcuFields, ecuBlock)
    BY CodecOfDebugging, Zenon DEF Hidden, Debugging!Covered
  <2> QED
    BY <2>2, <2>3, <2>4, <2>5, <2>6, <2>7, <2>8, Zenon
<1> QED
  BY <1>1, <1>2, <1>3, <1>4, Zenon DEF BlocksInv, BlocksAreShown

(* For any channels, any size of the block and any state of the engine, in *)
(* range or not: the dash and inspect_capture show each value that the     *)
(* older simulator encoded, up to one step of the field, and the daemon    *)
(* each that ecuSim encoded, shifted by the translation times the scale    *)
(* less one, also in its debug mode, where flags are encoded as whole      *)
(* bytes; but for fields whose bytes a later one has.  If nothing else has *)
(* the byte that is called engine, its flags are those of the engine       *)
(* (encode_field, decode_field, _encode_field, ms2d_decode_field).         *)
THEOREM BlocksShown == AnySpec => []BlocksAreShown
  BY BlocksKept, BlocksInvIsEnough, PTL DEF AnySpec
===============================================================================
