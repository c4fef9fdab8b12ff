---------------------------- MODULE InputsProofs ----------------------------
(***************************************************************************)
(* Proofs about the inputs and outputs: what DM is told of the inputs and  *)
(* of the doors held open, what the outputs make of the alarm, and which   *)
(* cards are judged, for any outputs, databases, queue and bounds.         *)
(***************************************************************************)
EXTENDS Inputs, FiniteSetTheorems, SequenceTheorems, WellFoundedInduction, TLAPS

-----------------------------------------------------------------------------
(* The invariant.                                                          *)

Lines == Events \cup [what : {"card"}, tag : Nat]

Typed ==
  /\ fifo \in Seq(Lines) /\ log \in Seq(Events) /\ cmds \in Seq(BOOLEAN)
  /\ hal.alarm \in BOOLEAN /\ hal.fire \in BOOLEAN
  /\ rt \in [alarm : BOOLEAN, fire : BOOLEAN]
  /\ dm \in [alarm : BOOLEAN, fire : BOOLEAN, force : BOOLEAN]
  /\ net \in BOOLEAN /\ held \in BOOLEAN
  /\ untold \subseteq {"alarm", "fire", "force"}
  /\ spent \in [cards : Nat, switches : Nat, writes : Nat, reloads : Nat]

(* The outputs follow the settings they were last computed from, if these  *)
(* could be read: nothing writes to a database that is not in use.         *)
AppliedFollow ==
  \A o \in Outputs \ unread : settings[applied][o] # "Other" =>
    (relay[o] <=> rt.alarm \/ (rt.fire /\ settings[applied][o] = "AlarmByFire"))

Places ==
  /\ db \in Paths /\ applied \in Paths
  /\ settings \in [Paths -> [Outputs -> Kinds]] /\ relay \in [Outputs -> BOOLEAN]
  /\ unread \subseteq Outputs

(* The cards among the first n lines.                                      *)
CardLines(s, n) == {i \in 1 .. n : s[i].what = "card"}
CardsIn(s, n)   == Cardinality(CardLines(s, n))

(* Of c cards, as many as the queue keeps.                                 *)
Kept(c) == IF c < QueueCap THEN c ELSE QueueCap

(* The queue after c cards, the first of them the one after the t-th.      *)
Latest(t, c) == [i \in 1 .. Kept(c) |-> t + c - Kept(c) + i]

(* What j has of the first t cards.                                        *)
Seen(j) == {j[i] : i \in DOMAIN j}
InOrder(j, t) ==
  /\ j \in Seq(Nat) /\ \A i \in DOMAIN j : j[i] \in 1 .. t
  /\ \A i, k \in DOMAIN j : i < k => j[i] < j[k]
  /\ \A x \in (1 .. t) \ Seen(j) :
       \E u \in x + 1 .. t : u .. u + QueueCap - 1 \subseteq Seen(j)

(* The cards read so far are the first ones tagged, and have been judged;  *)
(* those in the FIFO are the ones after them.  Nobody writes of doors.     *)
CardsFollow ==
  LET waiting == CardsIn(fifo, Len(fifo))
      read    == spent.cards - waiting
  IN  /\ hal \in [alarm : BOOLEAN, fire : BOOLEAN, cards : {<< >>}]
      /\ \A i \in 1 .. Len(fifo) : fifo[i].what # "force"
      /\ waiting <= spent.cards
      /\ \A i \in CardLines(fifo, Len(fifo)) : fifo[i].tag = read + CardsIn(fifo, i)
      /\ InOrder(judged, read)

(* What the bounds bound.                                                  *)
Bounded ==
  /\ spent.cards <= MaxCards /\ spent.switches <= MaxSwitches
  /\ spent.writes <= MaxWrites /\ spent.reloads <= MaxReloads

Levels == Typed /\ Places /\ AppliedFollow /\ InputsReported /\ ForceOpenAgrees

IInv == Levels /\ CardsFollow /\ Bounded

-----------------------------------------------------------------------------
(* What was said last.                                                     *)

(* A set of places has a last one.                                         *)
LEMMA Largest ==
  ASSUME NEW n \in Nat, NEW S, S \subseteq 1 .. n, S # {}
  PROVE  Max(S) \in S /\ \A m \in S : m <= Max(S)
<1> DEFINE T == {n - m : m \in S}
<1>1. T \subseteq Nat /\ T # {}
  <2>1. \A m \in S : n - m \in Nat
    OBVIOUS
  <2> QED BY <2>1
<1>2. PICK k \in T : \A j \in T : ~(j < k)
  <2>1. IsWellFoundedOn(OpToRel(<, Nat), Nat)
    BY NatLessThanWellFounded
  <2>2. PICK k \in T : \A j \in T : <<j, k>> \notin OpToRel(<, Nat)
    BY <1>1, <2>1, WFMin
  <2> QED BY <1>1, <2>2 DEF OpToRel
<1>3. PICK m \in S : k = n - m
  BY <1>2
<1>4. \A j \in S : j <= m
  BY <1>2, <1>3
<1>5. \E x \in S : \A y \in S : x >= y
  BY <1>4
<1>6. Max(S) \in S /\ \A y \in S : Max(S) >= y
  BY <1>5 DEF Max
<1> QED BY <1>6

(* The lines about w.                                                      *)
About(s, w) == {i \in DOMAIN s : s[i].what = w}

(* Nothing about w, or a last line about it.                               *)
LEMMA LatelyIs ==
  ASSUME NEW s \in Seq(Lines), NEW w, NEW before
  PROVE  /\ About(s, w) = {} => Lately(s, w, before) = before
         /\ \A i \in About(s, w) :
              (\A j \in About(s, w) : j <= i) => Lately(s, w, before) = s[i].on
<1>1. About(s, w) = {} => Lately(s, w, before) = before
  BY DEF Lately, About
<1>2. ASSUME NEW i \in About(s, w), \A j \in About(s, w) : j <= i
      PROVE  Lately(s, w, before) = s[i].on
  <2>1. Len(s) \in Nat /\ DOMAIN s = 1 .. Len(s)
    BY LenProperties
  <2>2. About(s, w) \subseteq 1 .. Len(s)
    BY <2>1 DEF About
  <2>3. Max(About(s, w)) \in About(s, w) /\ \A j \in About(s, w) : j <= Max(About(s, w))
    BY <1>2, <2>1, <2>2, Largest
  <2>4. Max(About(s, w)) = i
    BY <1>2, <2>1, <2>2, <2>3
  <2>5. Lately(s, w, before) = s[Max(About(s, w))].on
    BY <1>2 DEF Lately, About
  <2> QED BY <2>4, <2>5
<1> QED BY <1>1, <1>2

(* There is always one or the other.                                       *)
LEMMA LastAbout ==
  ASSUME NEW s \in Seq(Lines), NEW w, About(s, w) # {}
  PROVE  \E i \in About(s, w) : \A j \in About(s, w) : j <= i
<1>1. Len(s) \in Nat /\ DOMAIN s = 1 .. Len(s)
  BY LenProperties
<1>2. About(s, w) \subseteq 1 .. Len(s)
  BY <1>1 DEF About
<1> QED BY <1>1, <1>2, Largest

(* What is said is on or off.                                              *)
LEMMA LatelyTyped ==
  ASSUME NEW s \in Seq(Lines), NEW w \in {"alarm", "fire", "force"}, NEW before \in BOOLEAN
  PROVE  Lately(s, w, before) \in BOOLEAN
<1>1. CASE About(s, w) = {}
  BY <1>1, LatelyIs
<1>2. CASE About(s, w) # {}
  <2>1. PICK i \in About(s, w) : \A j \in About(s, w) : j <= i
    BY <1>2, LastAbout
  <2>2. Lately(s, w, before) = s[i].on
    BY <2>1, LatelyIs
  <2>3. s[i] \in Lines /\ s[i].what = w
    BY <2>1, ElementOfSeq, LenProperties DEF About
  <2>4. s[i] \in Events
    BY <2>3 DEF Lines
  <2>5. s[i].on \in BOOLEAN
    BY <2>4 DEF Events
  <2> QED BY <2>2, <2>5
<1> QED BY <1>1, <1>2

(* One line more.                                                          *)
LEMMA LatelyAppend ==
  ASSUME NEW s \in Seq(Lines), NEW e \in Lines, NEW w, NEW before
  PROVE  Lately(Append(s, e), w, before) = IF e.what = w THEN e.on ELSE Lately(s, w, before)
<1>1. PICK r : r = Append(s, e)
  OBVIOUS
<1>2. /\ r \in Seq(Lines) /\ Len(r) = Len(s) + 1 /\ r[Len(s) + 1] = e
      /\ \A i \in 1 .. Len(s) : r[i] = s[i]
  BY <1>1, AppendProperties
<1>3. /\ Len(s) \in Nat /\ DOMAIN s = 1 .. Len(s)
      /\ DOMAIN r = 1 .. Len(s) + 1
  BY <1>2, LenProperties
<1>4. CASE e.what = w
  <2>1. Len(s) + 1 \in About(r, w) /\ \A j \in About(r, w) : j <= Len(s) + 1
    BY <1>2, <1>3, <1>4 DEF About
  <2>2. Lately(r, w, before) = r[Len(s) + 1].on
    BY <1>2, <2>1, LatelyIs
  <2> QED BY <1>1, <1>2, <1>4, <2>2
<1>5. CASE e.what # w
  <2>1. About(r, w) = About(s, w) /\ \A i \in About(s, w) : r[i] = s[i]
    BY <1>2, <1>3, <1>5 DEF About
  <2>2. CASE About(s, w) = {}
    <3>1. Lately(s, w, before) = before
      BY <2>2, LatelyIs
    <3>2. Lately(r, w, before) = before
      BY <1>2, <2>1, <2>2, LatelyIs
    <3> QED BY <1>1, <1>5, <3>1, <3>2
  <2>3. CASE About(s, w) # {}
    <3>1. PICK i \in About(s, w) : \A j \in About(s, w) : j <= i
      BY <2>3, LastAbout
    <3>2. Lately(s, w, before) = s[i].on
      BY <3>1, LatelyIs
    <3>3. Lately(r, w, before) = r[i].on
      BY <1>2, <2>1, <3>1, LatelyIs
    <3> QED BY <1>1, <1>5, <2>1, <3>1, <3>2, <3>3
  <2> QED BY <2>2, <2>3
<1> QED BY <1>4, <1>5

(* The first line read, and taken for what was so before.                  *)
LEMMA LatelyTail ==
  ASSUME NEW s \in Seq(Lines), s # << >>, NEW w, NEW before, NEW then,
         then = IF Head(s).what = w THEN Head(s).on ELSE before
  PROVE  Lately(Tail(s), w, then) = Lately(s, w, before)
<1>1. PICK r : r = Tail(s)
  OBVIOUS
<1>2. /\ r \in Seq(Lines) /\ Len(r) = Len(s) - 1 /\ Len(s) >= 1
      /\ \A i \in 1 .. Len(r) : r[i] = s[i + 1]
      /\ Head(s) = s[1]
  BY <1>1, HeadTailProperties, EmptySeq, LenProperties
<1>3. /\ Len(s) \in Nat /\ DOMAIN s = 1 .. Len(s)
      /\ Len(r) \in Nat /\ DOMAIN r = 1 .. Len(r)
  BY <1>2, LenProperties
<1>4. CASE About(r, w) # {}
  <2>1. PICK i \in About(r, w) : \A j \in About(r, w) : j <= i
    BY <1>2, <1>4, LastAbout
  <2>2. i + 1 \in About(s, w) /\ s[i + 1] = r[i]
    BY <1>2, <1>3, <2>1 DEF About
  <2>3. \A j \in About(s, w) : j # 1 => j - 1 \in About(r, w)
    BY <1>2, <1>3 DEF About
  <2>4. \A j \in About(s, w) : j <= i + 1
    BY <1>2, <1>3, <2>1, <2>3 DEF About
  <2>5. Lately(s, w, before) = s[i + 1].on
    BY <2>2, <2>4, LatelyIs
  <2>6. Lately(r, w, then) = r[i].on
    BY <1>2, <2>1, LatelyIs
  <2> QED BY <1>1, <2>2, <2>5, <2>6
<1>5. CASE About(r, w) = {} /\ s[1].what = w
  <2>1. 1 \in About(s, w) /\ \A j \in About(s, w) : j <= 1
    <3>1. \A j \in About(s, w) : j # 1 => j - 1 \in About(r, w)
      BY <1>2, <1>3 DEF About
    <3> QED BY <1>2, <1>3, <1>5, <3>1 DEF About
  <2>2. Lately(s, w, before) = s[1].on
    BY <2>1, LatelyIs
  <2>3. Lately(r, w, then) = then
    BY <1>2, <1>5, LatelyIs
  <2> QED BY <1>1, <1>2, <1>5, <2>2, <2>3
<1>6. CASE About(r, w) = {} /\ s[1].what # w
  <2>1. About(s, w) = {}
    <3>1. \A j \in About(s, w) : j # 1 => j - 1 \in About(r, w)
      BY <1>2, <1>3 DEF About
    <3> QED BY <1>2, <1>3, <1>6, <3>1 DEF About
  <2>2. Lately(s, w, before) = before
    BY <2>1, LatelyIs
  <2>3. Lately(r, w, then) = then
    BY <1>2, <1>6, LatelyIs
  <2> QED BY <1>1, <1>2, <1>6, <2>2, <2>3
<1> QED BY <1>4, <1>5, <1>6

-----------------------------------------------------------------------------
(* The queue of cards.                                                     *)

(* A set that has 0, and with each number below n the next, has all up to  *)
(* n: the induction below is over such a set.                              *)
LEMMA UpTo ==
  ASSUME NEW n \in Nat, NEW S, 0 \in S,
         \A k \in 0 .. n - 1 : k \in S => k + 1 \in S
  PROVE  0 .. n \subseteq S
<1> DEFINE T == {k \in 0 .. n : k \notin S}
<1>1. SUFFICES ASSUME T # {} PROVE FALSE
  OBVIOUS
<1>2. T \subseteq Nat
  OBVIOUS
<1>3. PICK x \in T : \A y \in T : ~(y < x)
  <2> HIDE DEF T
  <2>1. IsWellFoundedOn(OpToRel(<, Nat), Nat)
    BY NatLessThanWellFounded
  <2>2. PICK x \in T : \A y \in T : <<y, x>> \notin OpToRel(<, Nat)
    BY <1>1, <1>2, <2>1, WFMin
  <2> QED BY <1>2, <2>2 DEF OpToRel
<1>4. x # 0 /\ x \in 0 .. n /\ x \notin S
  OBVIOUS
<1>5. x - 1 \in 0 .. n - 1 /\ x - 1 < x
  BY <1>4
<1>6. x - 1 \in S
  BY <1>3, <1>5
<1>7. (x - 1) + 1 \in S
  BY <1>5, <1>6
<1> QED BY <1>4, <1>7

LEMMA CardCount ==
  ASSUME NEW s, NEW n \in Nat
  PROVE  /\ CardLines(s, n) \in SUBSET (1 .. n) /\ IsFiniteSet(CardLines(s, n))
         /\ CardsIn(s, n) \in 0 .. n
<1>1. IsFiniteSet(1 .. n) /\ Cardinality(1 .. n) = n
  <2>1. 0 \in Int /\ 1 \in Int /\ n \in Int
    OBVIOUS
  <2> QED BY <2>1, FS_Interval
<1>2. CardLines(s, n) \in SUBSET (1 .. n)
  BY DEF CardLines
<1>3. /\ IsFiniteSet(CardLines(s, n)) /\ Cardinality(CardLines(s, n)) \in Nat
      /\ Cardinality(CardLines(s, n)) <= Cardinality(1 .. n)
  BY <1>1, <1>2, FS_Subset, FS_CardinalityType
<1> QED BY <1>1, <1>2, <1>3 DEF CardsIn

(* One line more.                                                          *)
LEMMA CardNext ==
  ASSUME NEW s, NEW n \in Nat
  PROVE  /\ s[n + 1].what = "card" => CardsIn(s, n + 1) = CardsIn(s, n) + 1
         /\ s[n + 1].what # "card" => CardsIn(s, n + 1) = CardsIn(s, n)
<1>1. CASE s[n + 1].what = "card"
  <2>1. CardLines(s, n + 1) = CardLines(s, n) \cup {n + 1} /\ n + 1 \notin CardLines(s, n)
    BY <1>1 DEF CardLines
  <2>2. IsFiniteSet(CardLines(s, n))
    BY CardCount
  <2>3. Cardinality(CardLines(s, n) \cup {n + 1}) = Cardinality(CardLines(s, n)) + 1
    BY <2>1, <2>2, FS_AddElement
  <2> QED BY <1>1, <2>1, <2>3 DEF CardsIn
<1>2. CASE s[n + 1].what # "card"
  <2>1. CardLines(s, n + 1) = CardLines(s, n)
    BY <1>2 DEF CardLines
  <2> QED BY <1>2, <2>1 DEF CardsIn
<1> QED BY <1>1, <1>2

(* The first lines have no more cards than all, and a card is one.         *)
LEMMA CardPlace ==
  ASSUME NEW s, NEW n \in Nat, NEW i \in CardLines(s, n)
  PROVE  CardsIn(s, i) \in 1 .. CardsIn(s, n)
<1>1. i \in Nat /\ i - 1 \in Nat /\ (i - 1) + 1 = i /\ i <= n /\ s[(i - 1) + 1].what = "card"
  BY DEF CardLines
<1>2. CardsIn(s, i - 1) \in Nat /\ CardsIn(s, i) = CardsIn(s, i - 1) + 1
  <2>1. CardsIn(s, i - 1) \in Nat
    BY <1>1, CardCount
  <2>2. CardsIn(s, (i - 1) + 1) = CardsIn(s, i - 1) + 1
    BY <1>1, CardNext
  <2> QED BY <1>1, <2>1, <2>2
<1>3. CardsIn(s, i) <= CardsIn(s, n) /\ CardsIn(s, n) \in Nat
  <2>1. CardLines(s, i) \subseteq CardLines(s, n)
    BY <1>1 DEF CardLines
  <2>2. IsFiniteSet(CardLines(s, n)) /\ CardsIn(s, n) \in Nat
    BY CardCount
  <2> QED BY <2>1, <2>2, FS_Subset DEF CardsIn
<1> QED BY <1>2, <1>3

LEMMA NoCards ==
  ASSUME NEW s
  PROVE  CardsIn(s, 0) = 0
<1>1. CardsIn(s, 0) \in 0 .. 0
  BY CardCount
<1> QED BY <1>1

(* The same lines have the same cards.                                     *)
LEMMA CardsSame ==
  ASSUME NEW s, NEW r, NEW n \in Nat, \A i \in 1 .. n : r[i] = s[i]
  PROVE  CardsIn(r, n) = CardsIn(s, n)
<1>1. CardLines(r, n) = CardLines(s, n)
  BY DEF CardLines
<1> QED BY <1>1 DEF CardsIn

LEMMA LatestTyped ==
  ASSUME NEW t \in Nat, NEW c \in Nat
  PROVE  /\ Kept(c) \in Nat /\ Kept(c) <= c /\ Kept(c) <= QueueCap
         /\ Latest(t, c) \in Seq(Nat) /\ Len(Latest(t, c)) = Kept(c)
         /\ DOMAIN Latest(t, c) = 1 .. Kept(c)
         /\ \A i \in 1 .. Kept(c) : Latest(t, c)[i] = t + c - Kept(c) + i
<1>1. Kept(c) \in Nat /\ Kept(c) <= c /\ Kept(c) <= QueueCap
  BY QueueAssumption DEF Kept
<1>2. PICK m \in Nat : m = Kept(c)
  BY <1>1
<1>3. Latest(t, c) = [i \in 1 .. m |-> t + c - m + i]
  BY <1>2 DEF Latest
<1>4. \A i \in 1 .. m : t + c - m + i \in Nat
  BY <1>1, <1>2
<1>5. Latest(t, c) \in [1 .. m -> Nat]
  BY <1>3, <1>4
<1>6. Latest(t, c) \in Seq(Nat) /\ DOMAIN Latest(t, c) = 1 .. m
  BY <1>5, SeqDef
<1>7. Len(Latest(t, c)) = m
  BY <1>2, <1>6, LenProperties
<1> QED BY <1>1, <1>2, <1>3, <1>6, <1>7

(* A card more: the oldest gives way when the queue is full.               *)
LEMMA Pushed ==
  ASSUME NEW t \in Nat, NEW c \in Nat
  PROVE  push_card(Latest(t, c), t + (c + 1)) = Latest(t, c + 1)
<1>1. PICK q \in Seq(Nat) : q = Latest(t, c)
  BY LatestTyped
<1>2. PICK m \in Nat : m = Kept(c)
  BY LatestTyped
<1>3. /\ m <= c /\ m <= QueueCap /\ Len(q) = m
      /\ \A i \in 1 .. m : q[i] = t + c - m + i
  BY <1>1, <1>2, LatestTyped
<1>4. QueueCap \in Nat \ {0}
  BY QueueAssumption
<1>5. CASE m = QueueCap
  <2>1. q # << >>
    BY <1>3, <1>4, <1>5, EmptySeq
  <2>2. PICK p \in Seq(Nat) : p = Tail(q)
    BY <2>1, HeadTailProperties
  <2>3. Len(p) = m - 1 /\ \A i \in 1 .. m - 1 : p[i] = q[i + 1]
    BY <1>3, <2>1, <2>2, HeadTailProperties
  <2>4. push_card(q, t + (c + 1)) = Append(p, t + (c + 1))
    BY <1>3, <1>5, <2>2 DEF push_card
  <2>5. Kept(c + 1) = m
    BY <1>2, <1>3, <1>4, <1>5 DEF Kept
  <2>6. PICK r \in Seq(Nat) : r = Append(p, t + (c + 1))
    <3>1. t + (c + 1) \in Nat
      OBVIOUS
    <3> QED BY <3>1, AppendProperties
  <2>7. Len(r) = m /\ \A i \in 1 .. m - 1 : r[i] = p[i]
    BY <1>4, <1>5, <2>3, <2>6, AppendProperties
  <2>8. r[m] = t + (c + 1)
    BY <2>3, <2>6, <2>7, AppendProperties
  <2>9. ASSUME NEW i \in 1 .. m
        PROVE  r[i] = t + (c + 1) - m + i
    <3>1. CASE i = m
      BY <2>8, <3>1
    <3>2. CASE i \in 1 .. m - 1
      <4>1. r[i] = q[i + 1] /\ i + 1 \in 1 .. m
        BY <2>3, <2>7, <3>2
      <4>2. r[i] = t + c - m + (i + 1)
        BY <1>3, <4>1
      <4> QED BY <4>2
    <3> QED BY <3>1, <3>2
  <2>10. r = [i \in 1 .. m |-> t + (c + 1) - m + i]
    BY <2>7, <2>9, LenProperties
  <2> QED BY <1>1, <2>4, <2>5, <2>6, <2>10 DEF Latest
<1>6. CASE m # QueueCap
  <2>1. m = c /\ Kept(c + 1) = c + 1
    BY <1>2, <1>3, <1>4, <1>6 DEF Kept
  <2>2. push_card(q, t + (c + 1)) = Append(q, t + (c + 1))
    BY <1>3, <1>6 DEF push_card
  <2>3. PICK r \in Seq(Nat) : r = Append(q, t + (c + 1))
    <3>1. t + (c + 1) \in Nat
      OBVIOUS
    <3> QED BY <3>1, AppendProperties
  <2>4. Len(r) = c + 1 /\ r[c + 1] = t + (c + 1) /\ \A i \in 1 .. c : r[i] = q[i]
    BY <1>3, <2>1, <2>3, AppendProperties
  <2>5. \A i \in 1 .. c + 1 : r[i] = t + (c + 1) - (c + 1) + i
    BY <1>3, <2>1, <2>4
  <2>6. r = [i \in 1 .. c + 1 |-> t + (c + 1) - (c + 1) + i]
    BY <2>4, <2>5, LenProperties
  <2> QED BY <1>1, <2>1, <2>2, <2>3, <2>6 DEF Latest
<1> QED BY <1>5, <1>6

(* The queue is filled line by line.                                       *)
LEMMA QueueFilled ==
  ASSUME NEW s, Len(s) \in Nat, NEW q, NEW d, d = Queued(s, q)
  PROVE  /\ d[0] = q
         /\ \A n \in 1 .. Len(s) :
              d[n] = IF s[n].what = "card" THEN push_card(d[n - 1], s[n].tag) ELSE d[n - 1]
<1> DEFINE N == Len(s)
           G(n, p) == IF s[n].what = "card" THEN push_card(p, s[n].tag) ELSE p
           Is(f, m) == f = [n \in 0 .. m |-> IF n = 0 THEN q ELSE G(n, f[n - 1])]
           S == {m \in 0 .. N : \E f : Is(f, m)}
<1>1. d = CHOOSE f : Is(f, N)
  BY DEF Queued
<1> HIDE DEF G
<1>2. 0 \in S
  <2>1. PICK f : f = [n \in 0 .. 0 |-> q]
    OBVIOUS
  <2>2. Is(f, 0)
    BY <2>1
  <2> QED BY <2>2
<1>3. ASSUME NEW k \in 0 .. N - 1, k \in S PROVE k + 1 \in S
  <2>1. PICK f : Is(f, k)
    BY <1>3
  <2>2. /\ DOMAIN f = 0 .. k /\ f[0] = q
        /\ \A n \in 1 .. k : f[n] = G(n, f[n - 1])
    BY <2>1
  <2>3. PICK g : g = [n \in 0 .. k + 1 |-> IF n <= k THEN f[n] ELSE G(k + 1, f[k])]
    OBVIOUS
  <2>4. ASSUME NEW n \in 0 .. k + 1
        PROVE  g[n] = IF n = 0 THEN q ELSE G(n, g[n - 1])
    <3>1. CASE n = 0
      BY <2>2, <2>3, <3>1
    <3>2. CASE n \in 1 .. k
      <4>1. g[n] = f[n] /\ g[n - 1] = f[n - 1]
        BY <2>3, <3>2
      <4> QED BY <2>2, <3>2, <4>1
    <3>3. CASE n = k + 1
      <4>1. g[n] = G(k + 1, f[k]) /\ g[k] = f[k] /\ n - 1 = k /\ n # 0
        BY <2>3, <3>3
      <4> QED BY <3>3, <4>1
    <3> QED BY <3>1, <3>2, <3>3
  <2>5. Is(g, k + 1)
    BY <2>3, <2>4
  <2> QED BY <2>5
<1>4. N \in S
  <2> HIDE DEF S
  <2>1. 0 .. N \subseteq S
    BY <1>2, <1>3, UpTo
  <2> QED BY <2>1
<1>5. Is(d, N)
  BY <1>1, <1>4
<1> QED BY <1>5 DEF G

(* The last cards are in it, as many as fit.                               *)
LEMMA QueueRead ==
  ASSUME NEW s \in Seq(Lines), NEW t \in Nat,
         \A i \in CardLines(s, Len(s)) : s[i].tag = t + CardsIn(s, i)
  PROVE  Queued(s, << >>)[Len(s)] = Latest(t, CardsIn(s, Len(s)))
<1>1. PICK d : d = Queued(s, << >>)
  OBVIOUS
<1>2. Len(s) \in Nat
  BY LenProperties
<1>3. /\ d[0] = << >>
      /\ \A n \in 1 .. Len(s) :
           d[n] = IF s[n].what = "card" THEN push_card(d[n - 1], s[n].tag) ELSE d[n - 1]
  BY <1>1, <1>2, QueueFilled
<1> DEFINE S == {n \in 0 .. Len(s) : d[n] = Latest(t, CardsIn(s, n))}
<1>4. 0 \in S
  <2>1. Latest(t, 0) = << >>
    <3>1. 0 \in Nat
      OBVIOUS
    <3>2. Latest(t, 0) \in Seq(Nat) /\ Len(Latest(t, 0)) = 0
      BY <3>1, LatestTyped
    <3> QED BY <3>2, EmptySeq
  <2>2. CardsIn(s, 0) = 0
    BY NoCards
  <2> QED BY <1>2, <1>3, <2>1, <2>2
<1>5. ASSUME NEW k \in 0 .. Len(s) - 1, k \in S PROVE k + 1 \in S
  <2>1. k \in Nat /\ k + 1 \in 1 .. Len(s) /\ (k + 1) - 1 = k
    BY <1>2
  <2>2. d[k] = Latest(t, CardsIn(s, k))
    BY <1>5
  <2>3. d[k + 1] = IF s[k + 1].what = "card" THEN push_card(d[k], s[k + 1].tag) ELSE d[k]
    BY <1>3, <2>1
  <2>4. PICK c \in Nat : c = CardsIn(s, k)
    BY <2>1, CardCount
  <2>5. CASE s[k + 1].what = "card"
    <3>1. CardsIn(s, k + 1) = c + 1
      BY <2>1, <2>4, <2>5, CardNext
    <3>2. k + 1 \in CardLines(s, Len(s))
      BY <2>1, <2>5 DEF CardLines
    <3>3. s[k + 1].tag = t + (c + 1)
      BY <3>1, <3>2
    <3>4. push_card(Latest(t, c), t + (c + 1)) = Latest(t, c + 1)
      BY Pushed
    <3>5. d[k + 1] = Latest(t, CardsIn(s, k + 1))
      BY <2>2, <2>3, <2>4, <2>5, <3>1, <3>3, <3>4
    <3> QED BY <2>1, <3>5
  <2>6. CASE s[k + 1].what # "card"
    <3>1. CardsIn(s, k + 1) = CardsIn(s, k)
      BY <2>1, <2>6, CardNext
    <3>2. d[k + 1] = Latest(t, CardsIn(s, k + 1))
      BY <2>2, <2>3, <2>6, <3>1
    <3> QED BY <2>1, <3>2
  <2> QED BY <2>5, <2>6
<1>6. Len(s) \in S
  <2> HIDE DEF S
  <2>1. 0 .. Len(s) \subseteq S
    BY <1>2, <1>4, <1>5, UpTo
  <2> QED BY <1>2, <2>1
<1> QED BY <1>1, <1>6

(* What the queue holds is judged: later than all before, and of what was  *)
(* read since, only what gave way is missing.                              *)
LEMMA MoreJudged ==
  ASSUME NEW t \in Nat, NEW c \in Nat, NEW j, InOrder(j, t)
  PROVE  InOrder(j \o Latest(t, c), t + c)
<1>1. PICK q \in Seq(Nat) : q = Latest(t, c)
  BY LatestTyped
<1>2. PICK m \in Nat : m = Kept(c)
  BY LatestTyped
<1>3. /\ m <= c /\ m <= QueueCap /\ Len(q) = m /\ DOMAIN q = 1 .. m
      /\ \A i \in 1 .. m : q[i] = t + c - m + i
  BY <1>1, <1>2, LatestTyped
<1>4. j \in Seq(Nat) /\ \A i \in DOMAIN j : j[i] \in 1 .. t
  BY DEF InOrder
<1>5. PICK n \in Nat : n = Len(j)
  BY <1>4, LenProperties
<1>6. DOMAIN j = 1 .. n
  BY <1>4, <1>5, LenProperties
<1>7. PICK r \in Seq(Nat) : r = j \o q
  BY <1>1, <1>4, ConcatProperties
<1>8. /\ Len(r) = n + m /\ \A i \in 1 .. n : r[i] = j[i]
      /\ \A i \in 1 .. m : r[n + i] = q[i]
  <2>1. Len(r) = n + m
    BY <1>3, <1>4, <1>5, <1>7, ConcatProperties
  <2>2. \A i \in 1 .. n + m : r[i] = IF i <= n THEN j[i] ELSE q[i - n]
    BY <1>3, <1>4, <1>5, <1>7, ConcatProperties
  <2> QED BY <2>1, <2>2
<1>9. DOMAIN r = 1 .. n + m
  BY <1>7, <1>8, LenProperties
<1>10. ASSUME NEW i \in 1 .. n + m
       PROVE  \/ i \in 1 .. n /\ r[i] = j[i] /\ r[i] \in 1 .. t
              \/ i - n \in 1 .. m /\ r[i] = t + c - m + (i - n) /\ r[i] \in t + 1 .. t + c
  <2>1. CASE i \in 1 .. n
    BY <1>4, <1>6, <1>8, <2>1
  <2>2. CASE i - n \in 1 .. m
    <3>1. r[n + (i - n)] = q[i - n] /\ n + (i - n) = i
      BY <1>8, <2>2
    <3>2. q[i - n] = t + c - m + (i - n)
      BY <1>3, <2>2
    <3> QED BY <1>3, <2>2, <3>1, <3>2
  <2> QED BY <2>1, <2>2
<1>11. \A i \in DOMAIN r : r[i] \in 1 .. t + c
  BY <1>9, <1>10
<1>12. ASSUME NEW i \in DOMAIN r, NEW k \in DOMAIN r, i < k
       PROVE  r[i] < r[k]
  <2>1. i \in 1 .. n + m /\ k \in 1 .. n + m
    BY <1>9
  <2>2. CASE i \in 1 .. n /\ k \in 1 .. n
    <3>1. j[i] < j[k]
      BY <1>6, <1>12, <2>2 DEF InOrder
    <3> QED BY <1>8, <2>2, <3>1
  <2>3. CASE i \in 1 .. n /\ k \notin 1 .. n
    <3>1. r[i] \in 1 .. t /\ r[k] \in t + 1 .. t + c
      BY <1>10, <2>1, <2>3
    <3> QED BY <3>1
  <2>4. CASE i \notin 1 .. n
    <3>1. k \notin 1 .. n
      BY <1>12, <2>1, <2>4
    <3>2. r[i] = t + c - m + (i - n) /\ r[k] = t + c - m + (k - n)
      BY <1>10, <2>1, <2>4, <3>1
    <3> QED BY <1>12, <2>1, <3>2
  <2> QED BY <2>2, <2>3, <2>4
<1>13. Seen(j) \subseteq Seen(r)
  <2>1. \A i \in DOMAIN j : i \in DOMAIN r /\ r[i] = j[i]
    BY <1>6, <1>8, <1>9
  <2> QED BY <2>1 DEF Seen
<1>14. t + c - m + 1 .. t + c \subseteq Seen(r)
  <2>1. ASSUME NEW x \in t + c - m + 1 .. t + c
        PROVE  x \in Seen(r)
    <3>1. PICK i \in 1 .. m : x = t + c - m + i
      <4>1. x - (t + c - m) \in 1 .. m /\ x = t + c - m + (x - (t + c - m))
        BY <1>3
      <4> QED BY <4>1
    <3>2. r[n + i] = x
      BY <1>3, <1>8, <3>1
    <3>3. n + i \in DOMAIN r
      BY <1>9
    <3> QED BY <3>2, <3>3 DEF Seen
  <2> QED BY <2>1
<1>15. ASSUME NEW x \in (1 .. t + c) \ Seen(r)
       PROVE  \E u \in x + 1 .. t + c : u .. u + QueueCap - 1 \subseteq Seen(r)
  <2>1. CASE x <= t
    <3>1. x \in (1 .. t) \ Seen(j)
      BY <1>13, <1>15, <2>1
    <3>2. PICK u \in x + 1 .. t : u .. u + QueueCap - 1 \subseteq Seen(j)
      BY <3>1 DEF InOrder
    <3>3. u \in x + 1 .. t + c
      BY <3>2
    <3> QED BY <1>13, <3>2, <3>3
  <2>2. CASE x > t
    <3>1. x \notin t + c - m + 1 .. t + c
      BY <1>14, <1>15
    <3>2. x < t + c - m + 1
      BY <1>3, <1>15, <3>1
    <3>3. m < c
      BY <1>3, <1>15, <2>2, <3>2
    <3>4. m = QueueCap /\ QueueCap \in Nat \ {0}
      BY <1>2, <3>3, QueueAssumption DEF Kept
    <3>5. PICK u \in Nat : u = t + c - m + 1
      BY <1>3
    <3>6. u \in x + 1 .. t + c /\ u + QueueCap - 1 = t + c
      BY <1>3, <1>15, <3>2, <3>4, <3>5
    <3> QED BY <1>14, <3>5, <3>6
  <2> QED BY <1>15, <2>1, <2>2
<1>16. InOrder(r, t + c)
  BY <1>7, <1>11, <1>12, <1>15 DEF InOrder
<1> QED BY <1>1, <1>7, <1>16

-----------------------------------------------------------------------------
(* Steps.                                                                  *)

(* What the FIFO said last becomes the levels of the inputs.               *)
LEMMA DrainTyped ==
  ASSUME Typed
  PROVE  drain_fifo.alarm \in BOOLEAN /\ drain_fifo.fire \in BOOLEAN
<1>1. fifo \in Seq(Lines) /\ hal.alarm \in BOOLEAN /\ hal.fire \in BOOLEAN
  BY DEF Typed
<1>2. Lately(fifo, "alarm", hal.alarm) \in BOOLEAN
  BY <1>1, LatelyTyped
<1>3. Lately(fifo, "fire", hal.fire) \in BOOLEAN
  BY <1>1, LatelyTyped
<1> QED BY <1>2, <1>3 DEF drain_fifo

(* One report: the log is longer by an event when the input has changed    *)
(* and the store takes it.                                                 *)
LEMMA TellTyped ==
  ASSUME NEW s \in Seq(Events), NEW w \in {"alarm", "fire"}, NEW h, h[w] \in BOOLEAN,
         NEW refused, NEW v, NEW before
  PROVE  /\ Tell(s, w, h, refused) \in Seq(Events)
         /\ Lately(Tell(s, w, h, refused), v, before)
              = IF v = w /\ w \in Changed(h) \ refused THEN h[w] ELSE Lately(s, v, before)
<1>1. /\ Event(w, h[w]) \in Events
      /\ Event(w, h[w]).what = w /\ Event(w, h[w]).on = h[w]
  BY DEF Event, Events
<1>2. CASE w \in Changed(h) \ refused
  <2>1. Tell(s, w, h, refused) = Append(s, Event(w, h[w]))
    BY <1>2 DEF Tell
  <2>2. s \in Seq(Lines) /\ Event(w, h[w]) \in Lines
    BY <1>1, ElementOfSeq, LenProperties, SeqDef DEF Lines
  <2>3. Lately(Append(s, Event(w, h[w])), v, before)
          = IF Event(w, h[w]).what = v THEN Event(w, h[w]).on ELSE Lately(s, v, before)
    BY <2>2, LatelyAppend
  <2>4. Append(s, Event(w, h[w])) \in Seq(Events)
    BY <1>1, AppendProperties
  <2> QED BY <1>1, <1>2, <2>1, <2>3, <2>4
<1>3. CASE w \notin Changed(h) \ refused
  BY <1>3 DEF Tell
<1> QED BY <1>2, <1>3

(* The callback of the card input leaves what it has read reported, or     *)
(* refused.                                                                *)
LEMMA Reported ==
  ASSUME Levels, on_card_readable
  PROVE  /\ Typed' /\ InputsReported'
         /\ Lately(log', "force", dm.force) = Lately(log, "force", dm.force)
         /\ "force" \in untold' <=> "force" \in untold
<1>1. PICK h : h = drain_fifo
  OBVIOUS
<1>2. Typed /\ InputsReported /\ h.alarm \in BOOLEAN /\ h.fire \in BOOLEAN
  BY <1>1, DrainTyped DEF Levels
<1>3. check_alarm_fire(h) /\ Judged(h) /\ fifo' = << >>
      /\ UNCHANGED <<net, held, dm, cmds, spent>>
  BY <1>1 DEF on_card_readable
<1>4. h["alarm"] = h.alarm /\ h["fire"] = h.fire
  OBVIOUS
<1>5. rt' = [w \in {"alarm", "fire"} |-> IF w \in Changed(h) THEN h[w] ELSE rt[w]]
  BY <1>3 DEF check_alarm_fire
<1>6. hal' = [h EXCEPT !.cards = << >>]
  BY <1>3 DEF Judged
<1>7. rt'.alarm = h.alarm /\ rt'.fire = h.fire
      /\ rt' \in [alarm : BOOLEAN, fire : BOOLEAN]
  BY <1>2, <1>4, <1>5 DEF Changed, Typed
<1>8. hal'.alarm = h.alarm /\ hal'.fire = h.fire
  BY <1>1, <1>6 DEF drain_fifo
<1>9. log \in Seq(Events) /\ dm' = dm
  BY <1>2, <1>3 DEF Typed
<1>10. PICK refused \in SUBSET Changed(h) :
         /\ log' = Tell(Tell(log, "alarm", h, refused), "fire", h, refused)
         /\ untold' = (untold \ Changed(h)) \cup refused
  BY <1>3 DEF check_alarm_fire
<1>11. PICK s : s = Tell(log, "alarm", h, refused)
  OBVIOUS
<1>12. /\ s \in Seq(Events)
       /\ \A v, b : Lately(s, v, b)
            = IF v = "alarm" /\ "alarm" \in Changed(h) \ refused THEN h["alarm"]
              ELSE Lately(log, v, b)
  BY <1>2, <1>4, <1>9, <1>11, TellTyped
<1>13. /\ log' \in Seq(Events)
       /\ \A v, b : Lately(log', v, b)
            = IF v = "fire" /\ "fire" \in Changed(h) \ refused THEN h["fire"]
              ELSE Lately(s, v, b)
  BY <1>2, <1>4, <1>10, <1>11, <1>12, TellTyped
<1>14. "alarm" \notin untold' => Told("alarm")' = h.alarm
  <2>1. Told("alarm")' = IF "alarm" \in Changed(h) \ refused THEN h["alarm"] ELSE Told("alarm")
    BY <1>9, <1>12, <1>13 DEF Told
  <2>2. "alarm" \notin Changed(h) => rt.alarm = h.alarm
    BY <1>4 DEF Changed
  <2>3. "alarm" \notin untold' => "alarm" \notin refused
          /\ ("alarm" \notin Changed(h) => "alarm" \notin untold)
    BY <1>10
  <2> QED BY <1>2, <1>4, <2>1, <2>2, <2>3 DEF InputsReported
<1>15. "fire" \notin untold' => Told("fire")' = h.fire
  <2>1. Told("fire")' = IF "fire" \in Changed(h) \ refused THEN h["fire"] ELSE Told("fire")
    BY <1>9, <1>12, <1>13 DEF Told
  <2>2. "fire" \notin Changed(h) => rt.fire = h.fire
    BY <1>4 DEF Changed
  <2>3. "fire" \notin untold' => "fire" \notin refused
          /\ ("fire" \notin Changed(h) => "fire" \notin untold)
    BY <1>10
  <2> QED BY <1>2, <1>4, <2>1, <2>2, <2>3 DEF InputsReported
<1>16. /\ untold' \subseteq {"alarm", "fire", "force"}
       /\ "force" \in untold' <=> "force" \in untold
  <2>1. Changed(h) \subseteq {"alarm", "fire"}
    BY DEF Changed
  <2> QED BY <1>2, <1>10, <2>1 DEF Typed
<1>17. Typed'
  <2>1. fifo' \in Seq(Lines)
    BY <1>3, EmptySeq
  <2> QED BY <1>2, <1>3, <1>7, <1>8, <1>13, <1>16, <2>1 DEF Typed
<1>18. InputsReported'
  BY <1>7, <1>8, <1>14, <1>15 DEF InputsReported
<1>19. Lately(log', "force", dm.force) = Lately(log, "force", dm.force)
  BY <1>12, <1>13
<1> QED BY <1>17, <1>18, <1>19, <1>16

(* Outputs that are computed, twice or once, are on or off.                *)
LEMMA OutputsOnOrOff ==
  ASSUME NEW outs \in [Outputs -> BOOLEAN], NEW kinds,
         NEW alarm \in BOOLEAN, NEW fire \in BOOLEAN, NEW blind
  PROVE  apply_alarm_outputs(outs, kinds, alarm, fire, blind) \in [Outputs -> BOOLEAN]
<1>1. \A o \in Outputs : (IF kinds[o] = "Other" \/ o \in blind THEN outs[o]
                          ELSE alarm \/ (fire /\ kinds[o] = "AlarmByFire")) \in BOOLEAN
  OBVIOUS
<1> QED BY <1>1 DEF apply_alarm_outputs

(* What the outputs are computed from, they follow.                        *)
LEMMA Computed ==
  ASSUME NEW kinds \in [Outputs -> Kinds], NEW levels \in [alarm : BOOLEAN, fire : BOOLEAN],
         NEW outs \in [Outputs -> BOOLEAN], Applied(outs, kinds, levels)
  PROVE  /\ applied' = db /\ relay' \in [Outputs -> BOOLEAN] /\ unread' \subseteq Outputs
         /\ \A o \in Outputs \ unread' : kinds[o] # "Other" =>
              (relay'[o] <=> levels.alarm \/ (levels.fire /\ kinds[o] = "AlarmByFire"))
<1>1. PICK blind \in SUBSET Alarms(kinds) :
        /\ relay' = apply_alarm_outputs(outs, kinds, levels.alarm, levels.fire, blind)
        /\ applied' = db /\ unread' = blind
  BY DEF Applied
<1>2. unread' \subseteq Outputs
  BY <1>1 DEF Alarms
<1>3. \A o \in Outputs \ unread' : kinds[o] # "Other" =>
        relay'[o] = (levels.alarm \/ (levels.fire /\ kinds[o] = "AlarmByFire"))
  BY <1>1 DEF apply_alarm_outputs
<1>4. levels.alarm \in BOOLEAN /\ levels.fire \in BOOLEAN
  OBVIOUS
<1>5. relay' \in [Outputs -> BOOLEAN]
  BY <1>1, <1>4, OutputsOnOrOff
<1> QED BY <1>1, <1>2, <1>3, <1>5

(* The alarm and its outputs, when the inputs are read.                    *)
LEMMA InputsRing ==
  ASSUME Levels, on_card_readable
  PROVE  Places' /\ AppliedFollow'
<1>1. PICK h : h = drain_fifo
  OBVIOUS
<1>2. check_alarm_fire(h) /\ UNCHANGED <<db, settings>>
  BY <1>1 DEF on_card_readable
<1>3. rt' = [w \in {"alarm", "fire"} |-> IF w \in Changed(h) THEN h[w] ELSE rt[w]]
  BY <1>2 DEF check_alarm_fire
<1>4. rt' \in [alarm : BOOLEAN, fire : BOOLEAN]
  BY Reported DEF Typed
<1>5. CASE Changed(h) = {}
  <2>1. relay' = relay /\ applied' = applied /\ unread' = unread
    BY <1>2, <1>5 DEF check_alarm_fire
  <2>2. rt'.alarm = rt.alarm /\ rt'.fire = rt.fire
    BY <1>3, <1>5
  <2> QED BY <1>2, <2>1, <2>2 DEF Levels, Places, AppliedFollow
<1>6. CASE Changed(h) # {}
  <2>1. PICK outs \in Ringing(h) : Applied(outs, settings[db], rt')
    BY <1>2, <1>6 DEF check_alarm_fire
  <2>2. /\ Places /\ settings[db] \in [Outputs -> Kinds] /\ relay \in [Outputs -> BOOLEAN]
        /\ rt.fire \in BOOLEAN
    BY DEF Levels, Places, Typed
  <2>3. h.alarm \in BOOLEAN
    BY <1>1, DrainTyped DEF Levels
  <2>4. outs \in [Outputs -> BOOLEAN]
    <3>1. CASE outs = relay
      BY <2>2, <3>1
    <3>2. CASE \E blind \in SUBSET Alarms(settings[db]) :
                 outs = apply_alarm_outputs(relay, settings[db], h.alarm, rt.fire, blind)
      BY <2>2, <2>3, <3>2, OutputsOnOrOff
    <3> QED BY <2>1, <3>1, <3>2 DEF Ringing
  <2>5. /\ applied' = db /\ relay' \in [Outputs -> BOOLEAN] /\ unread' \subseteq Outputs
        /\ \A o \in Outputs \ unread' : settings[db][o] # "Other" =>
             (relay'[o] <=> rt'.alarm \/ (rt'.fire /\ settings[db][o] = "AlarmByFire"))
    BY <1>4, <2>1, <2>2, <2>4, Computed
  <2> QED BY <1>2, <2>2, <2>5 DEF Places, AppliedFollow
<1> QED BY <1>5, <1>6

(* ... when DM writes a setting.                                           *)
LEMMA SettingRings ==
  ASSUME Levels, handle_setting_write
  PROVE  Places' /\ AppliedFollow'
<1>1. PICK o \in Outputs, k \in Kinds : settings' = [settings EXCEPT ![db][o] = k]
  BY DEF handle_setting_write
<1>2. Applied(relay, settings'[db], rt) /\ UNCHANGED <<rt, db>>
  BY DEF handle_setting_write, on_setting_changed
<1>3. Places /\ db \in Paths /\ settings \in [Paths -> [Outputs -> Kinds]]
      /\ rt \in [alarm : BOOLEAN, fire : BOOLEAN] /\ relay \in [Outputs -> BOOLEAN]
  BY DEF Levels, Places, Typed
<1>4. settings' \in [Paths -> [Outputs -> Kinds]]
  BY <1>1, <1>3
<1>5. settings'[db] \in [Outputs -> Kinds]
  BY <1>3, <1>4
<1>6. /\ applied' = db /\ relay' \in [Outputs -> BOOLEAN] /\ unread' \subseteq Outputs
      /\ \A p \in Outputs \ unread' : settings'[db][p] # "Other" =>
           (relay'[p] <=> rt.alarm \/ (rt.fire /\ settings'[db][p] = "AlarmByFire"))
  BY <1>2, <1>3, <1>5, Computed
<1> QED BY <1>2, <1>3, <1>4, <1>6 DEF Places, AppliedFollow

(* DM's command: the relay, the mode acud answers with and the event.      *)
LEMMA CommandAgrees ==
  ASSUME Levels, handle_force_open_request
  PROVE  Typed' /\ InputsReported' /\ ForceOpenAgrees'
<1>1. /\ Typed /\ InputsReported /\ ForceOpenAgrees
      /\ UNCHANGED <<fifo, hal, rt, dm, spent>>
  BY DEF Levels, handle_force_open_request
<1>2. cmds # << >> /\ cmds \in Seq(BOOLEAN) /\ log \in Seq(Events)
  BY DEF Levels, Typed, handle_force_open_request
<1>3. Head(cmds) \in BOOLEAN /\ cmds' \in Seq(BOOLEAN)
  BY <1>2, HeadTailProperties DEF handle_force_open_request
<1>4. PICK on \in BOOLEAN : on = Head(cmds)
  BY <1>3
<1>5. net_apply_force_open(on)
  BY <1>4 DEF handle_force_open_request
<1>6. CASE on = net
  <2>1. UNCHANGED <<net, held, log, untold>>
    BY <1>5, <1>6 DEF net_apply_force_open
  <2>2. Typed'
    BY <1>1, <1>3, <2>1 DEF Typed
  <2> QED BY <1>1, <2>1, <2>2 DEF InputsReported, ForceOpenAgrees, Told
<1>7. CASE on # net /\ log' = log
  <2>1. net' = on /\ held' = on /\ untold' = untold \cup {"force"}
    <3>1. log # Append(log, Event("force", on))
      <4>1. Event("force", on) \in Events
        BY DEF Event, Events
      <4> QED BY <1>2, <4>1, AppendProperties, LenProperties
    <3> QED BY <1>5, <1>7, <3>1 DEF net_apply_force_open, ForceTold
  <2>2. Typed'
    BY <1>1, <1>3, <1>7, <2>1 DEF Typed
  <2>3. InputsReported'
    BY <1>1, <1>7, <2>1 DEF InputsReported, Told
  <2> QED BY <2>1, <2>2, <2>3 DEF ForceOpenAgrees
<1>8. CASE on # net /\ log' # log
  <2>1. /\ net' = on /\ held' = on /\ log' = Append(log, Event("force", on))
        /\ untold' = untold \ {"force"}
    BY <1>5, <1>8 DEF net_apply_force_open, ForceTold
  <2>2. Event("force", on) \in Events /\ Event("force", on).what = "force"
        /\ Event("force", on).on = on
    BY DEF Event, Events
  <2>3. log' \in Seq(Events)
    BY <1>2, <2>1, <2>2, AppendProperties
  <2>4. Typed'
    BY <1>1, <1>3, <2>1, <2>3 DEF Typed
  <2>5. log \in Seq(Lines) /\ Event("force", on) \in Lines
    BY <1>2, <2>2, ElementOfSeq, LenProperties, SeqDef DEF Lines
  <2>6. \A v, b : Lately(log', v, b) = IF "force" = v THEN on ELSE Lately(log, v, b)
    BY <2>1, <2>2, <2>5, LatelyAppend
  <2>7. Told("alarm")' = Told("alarm") /\ Told("fire")' = Told("fire") /\ Told("force")' = on
    BY <1>1, <2>6 DEF Told
  <2>8. InputsReported'
    BY <1>1, <2>1, <2>7 DEF InputsReported
  <2> QED BY <2>1, <2>4, <2>7, <2>8 DEF ForceOpenAgrees
<1> QED BY <1>6, <1>8, <1>7

(* DM reads an event: what it will know stays the same.                    *)
LEMMA ReadKnowsTheSame ==
  ASSUME Levels, dm_read
  PROVE  Typed' /\ InputsReported' /\ ForceOpenAgrees'
<1>1. /\ Typed /\ InputsReported /\ ForceOpenAgrees
      /\ UNCHANGED <<fifo, hal, rt, net, held, untold, spent>>
  BY DEF Levels, dm_read
<1>2. log # << >> /\ log \in Seq(Events) /\ cmds \in Seq(BOOLEAN)
      /\ dm \in [alarm : BOOLEAN, fire : BOOLEAN, force : BOOLEAN]
  BY DEF Levels, Typed, dm_read
<1>3. Head(log) \in Events /\ Tail(log) \in Seq(Events)
  BY <1>2, HeadTailProperties
<1>4. PICK e \in Events : e = Head(log)
  BY <1>3
<1>5. e.what \in {"alarm", "fire", "force"} /\ e.on \in BOOLEAN
  BY DEF Events
<1>6. /\ dm' = [dm EXCEPT ![e.what] = e.on] /\ log' = Tail(log)
      /\ cmds' = IF e.what = "fire" THEN Append(cmds, e.on) ELSE cmds
  BY <1>4 DEF dm_read
<1>7. cmds' \in Seq(BOOLEAN)
  BY <1>2, <1>5, <1>6, AppendProperties
<1>8. /\ dm' \in [alarm : BOOLEAN, fire : BOOLEAN, force : BOOLEAN]
      /\ \A v \in {"alarm", "fire", "force"} : dm'[v] = IF e.what = v THEN e.on ELSE dm[v]
  BY <1>2, <1>5, <1>6
<1>9. log \in Seq(Lines)
  BY <1>2, ElementOfSeq, LenProperties, SeqDef DEF Lines
<1>10. ASSUME NEW v \in {"alarm", "fire", "force"}
       PROVE  Told(v)' = Told(v)
  BY <1>2, <1>4, <1>6, <1>8, <1>9, LatelyTail DEF Told
<1>11. Typed'
  BY <1>1, <1>3, <1>6, <1>7, <1>8 DEF Typed
<1> QED BY <1>1, <1>10, <1>11 DEF InputsReported, ForceOpenAgrees

(* What the bounds count.                                                  *)
LEMMA Spent ==
  ASSUME NEW s \in [cards : Nat, switches : Nat, writes : Nat, reloads : Nat],
         NEW w \in {"cards", "switches", "writes", "reloads"},
         NEW r, r = [s EXCEPT ![w] = @ + 1]
  PROVE  /\ r \in [cards : Nat, switches : Nat, writes : Nat, reloads : Nat]
         /\ s.reloads \in Nat
         /\ r.reloads = IF w = "reloads" THEN s.reloads + 1 ELSE s.reloads
<1>1. s[w] \in Nat
  OBVIOUS
<1>2. PICK n \in Nat : n = s[w] + 1
  BY <1>1
<1>3. r = [s EXCEPT ![w] = n]
  BY <1>2
<1>4. r \in [cards : Nat, switches : Nat, writes : Nat, reloads : Nat]
  BY <1>3
<1>5. /\ s.reloads \in Nat
      /\ r.reloads = IF w = "reloads" THEN n ELSE s.reloads
  BY <1>3
<1> QED BY <1>2, <1>4, <1>5

(* The cards are judged as the queue has them.                             *)
LEMMA QueueJudged ==
  ASSUME IInv, on_card_readable
  PROVE  CardsFollow'
<1>1. Typed /\ CardsFollow
  BY DEF IInv, Levels
<1>2. fifo \in Seq(Lines) /\ spent.cards \in Nat
  BY <1>1 DEF Typed
<1>3. PICK w \in Nat : w = CardsIn(fifo, Len(fifo))
  BY <1>2, LenProperties, CardCount
<1>4. PICK t \in Nat : t = spent.cards - w /\ spent.cards = t + w
  BY <1>1, <1>2, <1>3 DEF CardsFollow
<1>5. /\ \A i \in CardLines(fifo, Len(fifo)) : fifo[i].tag = t + CardsIn(fifo, i)
      /\ InOrder(judged, t) /\ hal.cards = << >>
  BY <1>1, <1>3, <1>4 DEF CardsFollow
<1>6. drain_fifo.cards = Latest(t, w)
  <2>1. Queued(fifo, << >>)[Len(fifo)] = Latest(t, CardsIn(fifo, Len(fifo)))
    BY <1>2, <1>5, QueueRead
  <2> QED BY <1>3, <1>5, <2>1 DEF drain_fifo
<1>7. PICK h : h = drain_fifo
  OBVIOUS
<1>8. judged' = judged \o h.cards /\ hal' = [h EXCEPT !.cards = << >>]
      /\ fifo' = << >> /\ spent' = spent
  BY <1>7 DEF on_card_readable, Judged
<1>9. InOrder(judged', spent'.cards)
  <2>1. InOrder(judged \o Latest(t, w), t + w)
    BY <1>5, MoreJudged
  <2> QED BY <1>4, <1>6, <1>7, <1>8, <2>1
<1>10. hal' \in [alarm : BOOLEAN, fire : BOOLEAN, cards : {<< >>}]
  <2>1. drain_fifo.alarm \in BOOLEAN /\ drain_fifo.fire \in BOOLEAN
    BY <1>1, DrainTyped
  <2>2. hal' = [alarm |-> h.alarm, fire |-> h.fire, cards |-> << >>]
    BY <1>7, <1>8 DEF drain_fifo
  <2> QED BY <1>7, <2>1, <2>2
<1>11. Len(fifo') = 0 /\ CardsIn(fifo', 0) = 0 /\ CardLines(fifo', 0) = {}
  <2>1. CardsIn(fifo', 0) = 0
    BY NoCards
  <2>2. CardLines(fifo', 0) = {}
    BY DEF CardLines
  <2> QED BY <1>8, <2>1, <2>2, EmptySeq
<1>12. spent'.cards - CardsIn(fifo', Len(fifo')) = spent'.cards
  BY <1>2, <1>8, <1>11
<1>13. CardsIn(fifo', Len(fifo')) <= spent'.cards
  BY <1>2, <1>8, <1>11
<1> QED BY <1>9, <1>10, <1>11, <1>12, <1>13 DEF CardsFollow

(* What does not concern the cards.                                        *)
LEMMA CardsKept ==
  ASSUME CardsFollow, UNCHANGED <<fifo, hal, judged>>, spent'.cards = spent.cards
  PROVE  CardsFollow'
BY DEF CardsFollow

(* A line more, and the cards in front of it.                              *)
LEMMA CardsAppend ==
  ASSUME NEW s \in Seq(Lines), NEW e \in Lines, NEW r, r = Append(s, e)
  PROVE  /\ Len(r) = Len(s) + 1 /\ Len(s) \in Nat /\ r[Len(s) + 1] = e
         /\ \A i \in 1 .. Len(s) : r[i] = s[i]
         /\ \A i \in 1 .. Len(s) : CardsIn(r, i) = CardsIn(s, i)
         /\ e.what = "card" => CardsIn(r, Len(r)) = CardsIn(s, Len(s)) + 1
         /\ e.what # "card" => CardsIn(r, Len(r)) = CardsIn(s, Len(s))
<1>1. PICK n \in Nat : n = Len(s)
  BY LenProperties
<1>2. Len(r) = n + 1 /\ r[n + 1] = e /\ \A i \in 1 .. n : r[i] = s[i]
  BY <1>1, AppendProperties
<1>3. ASSUME NEW i \in 1 .. n
      PROVE  CardsIn(r, i) = CardsIn(s, i)
  <2>1. i \in Nat /\ \A k \in 1 .. i : r[k] = s[k]
    BY <1>2
  <2> QED BY <2>1, CardsSame
<1>4. CardsIn(r, n) = CardsIn(s, n)
  BY <1>2, CardsSame
<1>5. /\ e.what = "card" => CardsIn(r, n + 1) = CardsIn(r, n) + 1
      /\ e.what # "card" => CardsIn(r, n + 1) = CardsIn(r, n)
  BY <1>2, CardNext
<1> QED BY <1>1, <1>2, <1>3, <1>4, <1>5

(* A card is tagged, or an input is switched.                              *)
LEMMA LineAdded ==
  ASSUME IInv, tag_card \/ switch_input
  PROVE  CardsFollow'
<1>1. CardsFollow /\ fifo \in Seq(Lines) /\ spent.cards \in Nat /\ UNCHANGED <<hal, judged>>
  BY DEF IInv, Levels, Typed, tag_card, switch_input
<1>2. PICK n \in Nat : n = Len(fifo)
  BY <1>1, LenProperties
<1>3. PICK w \in Nat : w = CardsIn(fifo, n)
  BY <1>2, CardCount
<1>4. PICK t \in Nat : t = spent.cards - w /\ spent.cards = t + w
  BY <1>1, <1>2, <1>3 DEF CardsFollow
<1>5. /\ \A i \in CardLines(fifo, n) : fifo[i].tag = t + CardsIn(fifo, i)
      /\ InOrder(judged, t)
      /\ hal \in [alarm : BOOLEAN, fire : BOOLEAN, cards : {<< >>}]
      /\ \A i \in 1 .. n : fifo[i].what # "force"
  BY <1>1, <1>2, <1>3, <1>4 DEF CardsFollow
<1>6. PICK e \in Lines :
        /\ fifo' = Append(fifo, e) /\ e.what # "force"
        /\ e.what = "card" => e.tag = t + (w + 1) /\ spent'.cards = t + (w + 1)
        /\ e.what # "card" => spent'.cards = t + w
  <2>1. CASE tag_card
    <3>1. spent' = [spent EXCEPT !["cards"] = @ + 1]
          /\ fifo' = Append(fifo, [what |-> "card", tag |-> spent'.cards])
      BY <2>1 DEF tag_card, Spend
    <3>2. spent'.cards = t + (w + 1)
      <4>1. spent \in [cards : Nat, switches : Nat, writes : Nat, reloads : Nat]
        BY DEF IInv, Levels, Typed
      <4>2. spent'.cards = spent.cards + 1
        BY <3>1, <4>1
      <4> QED BY <1>4, <4>2
    <3>3. [what |-> "card", tag |-> spent'.cards] \in Lines
      BY <3>2 DEF Lines
    <3> QED BY <3>1, <3>2, <3>3
  <2>2. CASE switch_input
    <3>1. PICK what \in {"alarm", "fire"}, on \in BOOLEAN : fifo' = Append(fifo, Event(what, on))
      BY <2>2 DEF switch_input
    <3>2. Event(what, on) \in Lines /\ Event(what, on).what \notin {"card", "force"}
      BY DEF Event, Lines, Events
    <3>3. spent'.cards = t + w
      BY <1>4, <2>2 DEF IInv, Levels, Typed, switch_input, Spend
    <3> QED BY <3>1, <3>2, <3>3
  <2> QED BY <2>1, <2>2
<1>7. PICK r : r = fifo'
  OBVIOUS
<1>8. /\ Len(r) = n + 1 /\ r[n + 1] = e
      /\ \A i \in 1 .. n : r[i] = fifo[i] /\ CardsIn(r, i) = CardsIn(fifo, i)
      /\ e.what = "card" => CardsIn(r, n + 1) = w + 1
      /\ e.what # "card" => CardsIn(r, n + 1) = w
  <2>1. fifo \in Seq(Lines) /\ e \in Lines /\ r = Append(fifo, e)
    BY <1>1, <1>6, <1>7
  <2>2. /\ Len(r) = Len(fifo) + 1 /\ r[Len(fifo) + 1] = e
        /\ \A i \in 1 .. Len(fifo) : r[i] = fifo[i]
    BY <2>1, CardsAppend
  <2>3. \A i \in 1 .. Len(fifo) : CardsIn(r, i) = CardsIn(fifo, i)
    BY <2>1, CardsAppend
  <2>4. /\ e.what = "card" => CardsIn(r, Len(r)) = CardsIn(fifo, Len(fifo)) + 1
        /\ e.what # "card" => CardsIn(r, Len(r)) = CardsIn(fifo, Len(fifo))
    BY <2>1, CardsAppend
  <2> QED BY <1>2, <1>3, <2>2, <2>3, <2>4
<1>9. CardsIn(r, n + 1) <= spent'.cards /\ spent'.cards - CardsIn(r, n + 1) = t
  BY <1>6, <1>8
<1>10. ASSUME NEW i \in CardLines(r, n + 1)
       PROVE  r[i].tag = t + CardsIn(r, i)
  <2>1. i \in 1 .. n + 1 /\ r[i].what = "card"
    BY DEF CardLines
  <2>2. CASE i = n + 1
    BY <1>6, <1>8, <2>1, <2>2
  <2>3. CASE i \in 1 .. n
    <3>1. i \in CardLines(fifo, n)
      BY <1>8, <2>1, <2>3 DEF CardLines
    <3> QED BY <1>5, <1>8, <2>3, <3>1
  <2> QED BY <2>1, <2>2, <2>3
<1>11. \A i \in 1 .. n + 1 : r[i].what # "force"
  BY <1>5, <1>6, <1>8
<1> QED BY <1>1, <1>5, <1>7, <1>8, <1>9, <1>10, <1>11 DEF CardsFollow

(* More lines in the FIFO: only they and the bounds change.                *)
LEMMA MoreLines ==
  ASSUME Levels, tag_card \/ switch_input
  PROVE  Typed'
<1>1. Typed /\ fifo \in Seq(Lines) /\ UNCHANGED <<hal, rt, log, untold, dm, cmds, net, held>>
  BY DEF Levels, Typed, tag_card, switch_input
<1>2. spent' \in [cards : Nat, switches : Nat, writes : Nat, reloads : Nat]
  <2>1. spent \in [cards : Nat, switches : Nat, writes : Nat, reloads : Nat]
    BY DEF Levels, Typed
  <2>2. CASE tag_card
    <3>1. spent' = [spent EXCEPT !["cards"] = @ + 1]
      BY <2>2 DEF tag_card, Spend
    <3> QED BY <2>1, <3>1, Spent
  <2>3. CASE switch_input
    <3>1. spent' = [spent EXCEPT !["switches"] = @ + 1]
      BY <2>3 DEF switch_input, Spend
    <3> QED BY <2>1, <3>1, Spent
  <2> QED BY <2>2, <2>3
<1>3. \E line \in Lines : fifo' = Append(fifo, line)
  <2>1. CASE tag_card
    BY <1>2, <2>1 DEF tag_card, Lines
  <2>2. CASE switch_input
    BY <2>2 DEF switch_input, Event, Lines, Events
  <2> QED BY <2>1, <2>2
<1>4. fifo' \in Seq(Lines)
  BY <1>1, <1>3, AppendProperties
<1> QED BY <1>1, <1>2, <1>4 DEF Typed

(* At first nothing is on, and nobody was told otherwise.                  *)
LEMMA InitLevels == Init => Levels
<1> SUFFICES ASSUME Init
             PROVE  Levels
  OBVIOUS
<1>1. log = << >> /\ log \in Seq(Lines) /\ fifo \in Seq(Lines) /\ log \in Seq(Events)
      /\ cmds \in Seq(BOOLEAN)
  BY EmptySeq DEF Init
<1>2. Typed
  BY <1>1 DEF Init, Typed, Quiet
<1>3. Places /\ AppliedFollow
  BY DEF Init, Quiet, Places, AppliedFollow
<1>4. \A w \in {"alarm", "fire", "force"} : Told(w) = FALSE
  <2>1. \A w : About(log, w) = {}
    BY <1>1 DEF About
  <2>2. ASSUME NEW w
        PROVE  Lately(log, w, dm[w]) = dm[w]
    <3>1. {i \in DOMAIN log : log[i].what = w} = {}
      BY <2>1 DEF About
    <3> QED BY <3>1 DEF Lately
  <2> QED BY <2>2 DEF Told, Init
<1>5. InputsReported /\ ForceOpenAgrees
  BY <1>4 DEF Init, Quiet, InputsReported, ForceOpenAgrees
<1> QED BY <1>2, <1>3, <1>5 DEF Levels

(* Every step keeps what is said of the inputs, the outputs and the doors. *)
LEMMA NextLevels == Levels /\ [Next]_vars => Levels'
<1> SUFFICES ASSUME Levels, [Next]_vars
             PROVE  Levels'
  OBVIOUS
<1>1. /\ Typed /\ Places /\ AppliedFollow /\ InputsReported /\ ForceOpenAgrees
  BY DEF Levels
<1>2. CASE on_card_readable
  <2>1. /\ Typed' /\ InputsReported' /\ Lately(log', "force", dm.force) = Lately(log, "force", dm.force)
        /\ "force" \in untold' <=> "force" \in untold
    BY <1>2, Reported
  <2>2. Places' /\ AppliedFollow'
    BY <1>2, InputsRing
  <2>3. UNCHANGED <<net, held, dm, spent>>
    BY <1>2 DEF on_card_readable
  <2>4. ForceOpenAgrees'
    BY <1>1, <2>1, <2>3 DEF ForceOpenAgrees, Told
  <2> QED BY <2>1, <2>2, <2>4 DEF Levels
<1>3. CASE handle_setting_write
  <2>1. Places' /\ AppliedFollow'
    BY <1>3, SettingRings
  <2>2. UNCHANGED <<fifo, hal, rt, net, held, log, untold, dm, cmds>>
        /\ spent' = [spent EXCEPT !["writes"] = @ + 1]
    BY <1>3 DEF handle_setting_write, Spend
  <2>3. spent \in [cards : Nat, switches : Nat, writes : Nat, reloads : Nat]
    BY <1>1 DEF Typed
  <2>4. /\ spent' \in [cards : Nat, switches : Nat, writes : Nat, reloads : Nat]
        /\ spent'.reloads = spent.reloads
    BY <2>2, <2>3, Spent
  <2>6. Typed'
    BY <1>1, <2>2, <2>4 DEF Typed
  <2>5. InputsReported' /\ ForceOpenAgrees'
    BY <1>1, <2>2, <2>4 DEF InputsReported, ForceOpenAgrees, Told
  <2> QED BY <2>1, <2>5, <2>6 DEF Levels
<1>4. CASE handle_force_open_request
  <2>1. Typed' /\ InputsReported' /\ ForceOpenAgrees'
    BY <1>4, CommandAgrees
  <2>2. Places' /\ AppliedFollow'
    BY <1>1, <1>4 DEF handle_force_open_request, Places, AppliedFollow
  <2> QED BY <2>1, <2>2 DEF Levels
<1>5. CASE reload_db
  BY <1>1, <1>5
     DEF reload_db, Levels, Typed, Places, AppliedFollow, InputsReported, ForceOpenAgrees, Told
<1>6. CASE reload_port
  <2>1. UNCHANGED <<fifo, hal, rt, db, settings, relay, applied, unread, held, log, untold, dm, cmds>>
        /\ net' = FALSE /\ spent' = [spent EXCEPT !["reloads"] = @ + 1]
    BY <1>6 DEF reload_port, Spend
  <2>2. Typed' /\ spent'.reloads = spent.reloads + 1 /\ spent.reloads \in Nat
    <3>1. spent \in [cards : Nat, switches : Nat, writes : Nat, reloads : Nat]
      BY <1>1 DEF Typed
    <3>2. /\ spent' \in [cards : Nat, switches : Nat, writes : Nat, reloads : Nat]
          /\ spent'.reloads = spent.reloads + 1 /\ spent.reloads \in Nat
      BY <2>1, <3>1, Spent
    <3> QED BY <1>1, <2>1, <3>2 DEF Typed
  <2>3. Places' /\ AppliedFollow' /\ InputsReported'
    BY <1>1, <2>1 DEF Places, AppliedFollow, InputsReported, Told
  <2>4. ForceOpenAgrees'
    BY <1>1, <2>1, <2>2 DEF ForceOpenAgrees, Told
  <2> QED BY <2>2, <2>3, <2>4 DEF Levels
<1>7. CASE tag_card \/ switch_input
  <2>1. UNCHANGED <<hal, rt, db, settings, relay, applied, unread, net, held, log, untold, dm, cmds>>
    BY <1>7 DEF tag_card, switch_input
  <2>2. spent'.reloads = spent.reloads
    BY <1>1, <1>7 DEF Typed, tag_card, switch_input, Spend
  <2>3. Typed'
    BY <1>7, MoreLines
  <2> QED BY <1>1, <2>1, <2>2, <2>3
          DEF Levels, Places, AppliedFollow, InputsReported, ForceOpenAgrees, Told
<1>8. CASE dm_read
  <2>1. Typed' /\ InputsReported' /\ ForceOpenAgrees'
    BY <1>8, ReadKnowsTheSame
  <2>2. Places' /\ AppliedFollow'
    BY <1>1, <1>8 DEF dm_read, Places, AppliedFollow
  <2> QED BY <2>1, <2>2 DEF Levels
<1>9. CASE UNCHANGED vars
  BY <1>1, <1>9
     DEF vars, Levels, Typed, Places, AppliedFollow, InputsReported, ForceOpenAgrees, Told
<1> QED BY <1>2, <1>3, <1>4, <1>5, <1>6, <1>7, <1>8, <1>9 DEF Next

(* The bounds are kept.                                                    *)
LEMMA BoundsKept ==
  ASSUME IInv, [Next]_vars
  PROVE  Bounded'
<1>1. /\ spent \in [cards : Nat, switches : Nat, writes : Nat, reloads : Nat]
      /\ spent.cards <= MaxCards /\ spent.switches <= MaxSwitches
      /\ spent.writes <= MaxWrites /\ spent.reloads <= MaxReloads
  BY DEF IInv, Levels, Typed, Bounded
<1>2. MaxCards \in Nat /\ MaxSwitches \in Nat /\ MaxWrites \in Nat /\ MaxReloads \in Nat
  BY InputBoundsAssumption
<1>3. \/ spent' = spent
      \/ spent.cards < MaxCards /\ spent' = [spent EXCEPT !["cards"] = @ + 1]
      \/ spent.switches < MaxSwitches /\ spent' = [spent EXCEPT !["switches"] = @ + 1]
      \/ spent.writes < MaxWrites /\ spent' = [spent EXCEPT !["writes"] = @ + 1]
      \/ spent.reloads < MaxReloads /\ spent' = [spent EXCEPT !["reloads"] = @ + 1]
  BY DEF Next, vars, on_card_readable, handle_setting_write, handle_force_open_request,
         reload_db, reload_port, tag_card, switch_input, dm_read, Spend
<1> QED BY <1>1, <1>2, <1>3 DEF Bounded

(* Every step keeps what is said of the cards.                             *)
LEMMA NextCards ==
  ASSUME IInv, [Next]_vars
  PROVE  CardsFollow'
<1>1. CardsFollow /\ spent \in [cards : Nat, switches : Nat, writes : Nat, reloads : Nat]
  BY DEF IInv, Levels, Typed
<1>2. CASE on_card_readable
  BY <1>2, QueueJudged
<1>3. CASE tag_card \/ switch_input
  BY <1>3, LineAdded
<1>4. CASE handle_setting_write
  <2>1. UNCHANGED <<fifo, hal, judged>> /\ spent' = [spent EXCEPT !["writes"] = @ + 1]
    BY <1>4 DEF handle_setting_write, Spend
  <2>2. spent'.cards = spent.cards
    BY <1>1, <2>1
  <2> QED BY <1>1, <2>1, <2>2, CardsKept
<1>5. CASE reload_port
  <2>1. UNCHANGED <<fifo, hal, judged>> /\ spent' = [spent EXCEPT !["reloads"] = @ + 1]
    BY <1>5 DEF reload_port, Spend
  <2>2. spent'.cards = spent.cards
    BY <1>1, <2>1
  <2> QED BY <1>1, <2>1, <2>2, CardsKept
<1>6. CASE handle_force_open_request \/ reload_db \/ dm_read \/ UNCHANGED vars
  <2>1. UNCHANGED <<fifo, hal, judged, spent>>
    BY <1>6 DEF handle_force_open_request, reload_db, dm_read, vars
  <2> QED BY <1>1, <2>1, CardsKept
<1> QED BY <1>2, <1>3, <1>4, <1>5, <1>6 DEF Next

LEMMA InitCards == Init => CardsFollow /\ Bounded
<1> SUFFICES ASSUME Init
             PROVE  CardsFollow /\ Bounded
  OBVIOUS
<1>1. /\ fifo = << >> /\ judged = << >> /\ spent.cards = 0
      /\ hal \in [alarm : BOOLEAN, fire : BOOLEAN, cards : {<< >>}]
  BY DEF Init
<1>2. Len(fifo) = 0 /\ CardsIn(fifo, 0) = 0 /\ CardLines(fifo, 0) = {}
  <2>1. CardsIn(fifo, 0) = 0
    BY NoCards
  <2>2. CardLines(fifo, 0) = {}
    BY DEF CardLines
  <2> QED BY <1>1, <2>1, <2>2, EmptySeq
<1>3. InOrder(judged, 0)
  <2>1. judged \in Seq(Nat) /\ DOMAIN judged = {}
    BY <1>1, EmptySeq
  <2> QED BY <2>1 DEF InOrder
<1>4. CardsFollow
  BY <1>1, <1>2, <1>3 DEF CardsFollow
<1>5. Bounded
  <2>1. spent = [cards |-> 0, switches |-> 0, writes |-> 0, reloads |-> 0]
    BY DEF Init
  <2> QED BY <2>1, InputBoundsAssumption DEF Bounded
<1> QED BY <1>4, <1>5

-----------------------------------------------------------------------------
(* The invariant holds in every behaviour (main.c, hal_mock.c, net.c).     *)
THEOREM InputsInductive == Spec => []IInv
<1>1. Init => IInv
  BY InitLevels, InitCards DEF IInv
<1>2. IInv /\ [Next]_vars => IInv'
  BY NextLevels, NextCards, BoundsKept DEF IInv
<1> QED BY <1>1, <1>2, PTL DEF Spec

(* However many inputs change before the callback runs, and whichever of   *)
(* the events the store refuses, DM has the level of every input whose     *)
(* last event was taken: an event that was lost is made good by the next   *)
(* one about the same input (check_alarm_fire, net_store_event).           *)
THEOREM LevelsReported == Spec => []InputsReported
<1>1. IInv => InputsReported
  BY DEF IInv, Levels
<1> QED BY <1>1, InputsInductive, PTL

(* Whatever DM wrote while the alarm rang, whatever databases were used    *)
(* between, and whichever settings could not be read, the outputs of the   *)
(* database they were last computed from are on exactly when they have to  *)
(* be, but those whose own setting could not be read then                  *)
(* (apply_alarm_outputs).                                                  *)
THEOREM OutputsFollowAlarm == Spec => []AlarmOutputsFollow
<1>1. IInv => AlarmOutputsFollow
  BY DEF IInv, Levels, AppliedFollow, AlarmOutputsFollow, OutputsFollow
<1> QED BY <1>1, InputsInductive, PTL

(* What holds the doors and what DM is told of them agree unless the store *)
(* refused the last event, also over reloads of the port; the mode acud    *)
(* answers with never says that doors are held which are not, whatever was *)
(* refused (net_apply_force_open).                                         *)
THEOREM DoorsAgree == Spec => []ForceOpenAgrees
<1>1. IInv => ForceOpenAgrees
  BY DEF IInv, Levels
<1> QED BY <1>1, InputsInductive, PTL

(* Cards are judged in the order they were tagged and none twice, however  *)
(* many lines one callback reads; a card that is not judged gave way to as *)
(* many later ones as the queue holds (drain_fifo, push_card).             *)
THEOREM CardsInOrder == Spec => []CardsJudgedInOrder
<1>1. IInv => CardsJudgedInOrder
  <2> SUFFICES ASSUME IInv
               PROVE  CardsJudgedInOrder
    OBVIOUS
  <2>1. DOMAIN fifo = 1 .. Len(fifo)
    BY LenProperties DEF IInv, Levels, Typed
  <2>2. CardsIn(fifo, Len(fifo)) = Cardinality({i \in DOMAIN fifo : fifo[i].what = "card"})
    BY <2>1 DEF CardsIn, CardLines
  <2>3. InOrder(judged, spent.cards - CardsIn(fifo, Len(fifo)))
    BY DEF IInv, CardsFollow
  <2> QED BY <2>2, <2>3 DEF InOrder, Seen, CardsJudgedInOrder
<1> QED BY <1>1, InputsInductive, PTL

(* Types.  No card is left in the queue by the callback that read it, and  *)
(* no number is used that was not tagged.                                  *)
THEOREM Typing == Spec => []TypeOK
<1>1. IInv => TypeOK
  <2> SUFFICES ASSUME IInv
               PROVE  TypeOK
    OBVIOUS
  <2>1. Typed /\ Places /\ CardsFollow /\ Bounded
    BY DEF IInv, Levels
  <2>2. fifo \in Seq(Lines) /\ spent \in [cards : Nat, switches : Nat, writes : Nat, reloads : Nat]
    BY <2>1 DEF Typed
  <2>3. PICK n \in Nat : n = Len(fifo)
    BY <2>2, LenProperties
  <2>4. PICK w \in Nat : w = CardsIn(fifo, n)
    BY <2>3, CardCount
  <2>5. PICK t \in Nat : t = spent.cards - w /\ t + w <= MaxCards
    BY <2>1, <2>2, <2>3, <2>4, InputBoundsAssumption DEF CardsFollow, Bounded
  <2>6. /\ \A i \in CardLines(fifo, n) : fifo[i].tag = t + CardsIn(fifo, i)
        /\ InOrder(judged, t)
    BY <2>1, <2>3, <2>4, <2>5 DEF CardsFollow
  <2>7. judged \in Seq(1 .. MaxCards)
    <3>1. judged \in Seq(Nat) /\ \A i \in DOMAIN judged : judged[i] \in 1 .. t
      BY <2>6 DEF InOrder
    <3>2. PICK m \in Nat : m = Len(judged)
      BY <3>1, LenProperties
    <3>3. judged \in [1 .. m -> Nat]
      BY <3>1, <3>2, LenProperties
    <3>4. 1 .. t \subseteq 1 .. MaxCards
      BY <2>5, InputBoundsAssumption
    <3>5. judged \in [1 .. m -> 1 .. MaxCards]
      BY <3>1, <3>3, <3>4
    <3> QED BY <3>5, SeqDef
  <2>8. fifo \in Seq([what : {"alarm", "fire"}, on : BOOLEAN]
                     \cup [what : {"card"}, tag : 1 .. MaxCards])
    <3>1. fifo \in [1 .. n -> Lines]
      BY <2>2, <2>3, LenProperties
    <3>2. ASSUME NEW i \in 1 .. n
          PROVE  fifo[i] \in [what : {"alarm", "fire"}, on : BOOLEAN]
                             \cup [what : {"card"}, tag : 1 .. MaxCards]
      <4>1. fifo[i] \in Lines /\ fifo[i].what # "force"
        BY <2>1, <2>3, <3>1 DEF CardsFollow
      <4>2. CASE fifo[i] \in Events
        BY <4>1, <4>2 DEF Events
      <4>3. CASE fifo[i] \in [what : {"card"}, tag : Nat]
        <5>1. fifo[i].tag = t + CardsIn(fifo, i)
          BY <2>6, <4>3 DEF CardLines
        <5>2. CardsIn(fifo, i) \in 1 .. w
          <6>1. i \in CardLines(fifo, n)
            BY <4>3 DEF CardLines
          <6> QED BY <2>4, <6>1, CardPlace
        <5>3. fifo[i].tag \in 1 .. MaxCards
          BY <2>5, <5>1, <5>2, InputBoundsAssumption
        <5> QED BY <4>3, <5>3
      <4> QED BY <4>1, <4>2, <4>3 DEF Lines
    <3> QED BY <3>1, <3>2, SeqDef
  <2> QED BY <2>1, <2>7, <2>8 DEF TypeOK, Typed, Places, CardsFollow, Bounded
<1> QED BY <1>1, InputsInductive, PTL

=============================================================================
