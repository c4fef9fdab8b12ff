----------------------------- MODULE UserProofs -----------------------------
(***************************************************************************)
(* Proofs about the users.  A card is judged by the row of its user: the   *)
(* door opens only to whom the groups allow, and who is turned away is     *)
(* turned away for the reason the event gives, whatever the rows, the      *)
(* groups, the clock and the length of a day.  And DM fetches the rows of  *)
(* all users: nobody is left out, in order, under the right number, for    *)
(* every list, size of a chunk and number of the first chunk.              *)
(***************************************************************************)
EXTENDS Access, UserUpload, FiniteSetTheorems, SequenceTheorems, WellFoundedInduction, TLAPS

-----------------------------------------------------------------------------
(* The week.                                                               *)

(* A sum of the bits of DM's mask.                                         *)
LEMMA MaskIs ==
  ASSUME NEW days \in SUBSET (0 .. 6)
  PROVE  \E a, b, c, d, e, f, g \in {0, 1} :
           /\ week_select(days)
                = 32768 * a + 16384 * b + 8192 * c + 4096 * d + 2048 * e + 1024 * f + 512 * g
           /\ (a = 1 <=> 0 \in days) /\ (b = 1 <=> 1 \in days) /\ (c = 1 <=> 2 \in days)
           /\ (d = 1 <=> 3 \in days) /\ (e = 1 <=> 4 \in days) /\ (f = 1 <=> 5 \in days)
           /\ (g = 1 <=> 6 \in days)
<1> DEFINE one(n) == IF n \in days THEN 1 ELSE 0
<1>1. \A n : one(n) \in {0, 1} /\ (one(n) = 1 <=> n \in days)
  OBVIOUS
<1>2. /\ 2 ^ (15 - 0) = 32768 /\ 2 ^ (15 - 1) = 16384 /\ 2 ^ (15 - 2) = 8192
      /\ 2 ^ (15 - 3) = 4096 /\ 2 ^ (15 - 4) = 2048 /\ 2 ^ (15 - 5) = 1024
      /\ 2 ^ (15 - 6) = 512
  OBVIOUS
<1>3. week_select(days)
        = 32768 * one(0) + 16384 * one(1) + 8192 * one(2) + 4096 * one(3)
            + 2048 * one(4) + 1024 * one(5) + 512 * one(6)
  BY <1>2 DEF week_select
<1> HIDE DEF one
<1> QED BY <1>1, <1>3

(* The bit that the code looks at is the day's.                            *)
LEMMA WeekAgrees ==
  ASSUME NEW days \in SUBSET (0 .. 6), NEW w \in 0 .. 6
  PROVE  week_ok(week_select(days), w) <=> w \in days
<1>1. PICK a, b, c, d, e, f, g \in {0, 1} :
        /\ week_select(days)
             = 32768 * a + 16384 * b + 8192 * c + 4096 * d + 2048 * e + 1024 * f + 512 * g
        /\ (a = 1 <=> 0 \in days) /\ (b = 1 <=> 1 \in days) /\ (c = 1 <=> 2 \in days)
        /\ (d = 1 <=> 3 \in days) /\ (e = 1 <=> 4 \in days) /\ (f = 1 <=> 5 \in days)
        /\ (g = 1 <=> 6 \in days)
  BY MaskIs
<1>2. PICK m : m = week_select(days)
  OBVIOUS
<1>3. m = 32768 * a + 16384 * b + 8192 * c + 4096 * d + 2048 * e + 1024 * f + 512 * g
  BY <1>1, <1>2
<1>4. CASE w = 0
  <2>1. (m \div 32768) % 2 = a
    BY <1>3
  <2> QED BY <1>1, <1>2, <1>4, <2>1 DEF week_ok
<1>5. CASE w = 1
  <2>1. (m \div 16384) % 2 = b
    BY <1>3
  <2> QED BY <1>1, <1>2, <1>5, <2>1 DEF week_ok
<1>6. CASE w = 2
  <2>1. (m \div 8192) % 2 = c
    BY <1>3
  <2> QED BY <1>1, <1>2, <1>6, <2>1 DEF week_ok
<1>7. CASE w = 3
  <2>1. (m \div 4096) % 2 = d
    BY <1>3
  <2> QED BY <1>1, <1>2, <1>7, <2>1 DEF week_ok
<1>8. CASE w = 4
  <2>1. (m \div 2048) % 2 = e
    BY <1>3
  <2> QED BY <1>1, <1>2, <1>8, <2>1 DEF week_ok
<1>9. CASE w = 5
  <2>1. (m \div 1024) % 2 = f
    BY <1>3
  <2> QED BY <1>1, <1>2, <1>9, <2>1 DEF week_ok
<1>10. CASE w = 6
  <2>1. (m \div 512) % 2 = g
    BY <1>3
  <2> QED BY <1>1, <1>2, <1>10, <2>1 DEF week_ok
<1> QED BY <1>4, <1>5, <1>6, <1>7, <1>8, <1>9, <1>10

-----------------------------------------------------------------------------
(* The clock.                                                              *)

(* Days go on as minutes do.                                               *)
LEMMA DatesInOrder ==
  ASSUME NEW t \in Nat, NEW s \in Nat, t <= s
  PROVE  Date(t) <= Date(s)
<1>1. PICK d \in Nat : d = DayMinutes /\ d > 0
  BY DayAssumption
<1>2. PICK p \in Int, q \in Int : p = t \div d /\ q = s \div d
  BY <1>1
<1>3. d * p <= t /\ s < d * q + d
  BY <1>1, <1>2
<1>4. d * p < d * (q + 1)
  BY <1>1, <1>2, <1>3
<1>5. p < q + 1
  BY <1>1, <1>2, <1>4
<1> QED BY <1>1, <1>2, <1>5 DEF Date

(* A reading has a day and a minute.                                       *)
LEMMA Readings ==
  ASSUME NEW t \in Instants
  PROVE  t \in Nat /\ Date(t) \in Int /\ Minute(t) \in Int /\ Weekday(t) \in 0 .. 6
<1>1. t \in Nat /\ DayMinutes \in Nat /\ DayMinutes > 0
  BY DayAssumption
<1>2. t \div DayMinutes \in Int /\ t % DayMinutes \in Int
  BY <1>1
<1>3. Date(t) \in Int /\ Minute(t) \in Int
  BY <1>2 DEF Date, Minute
<1>4. Date(t) % 7 \in 0 .. 6
  BY <1>3
<1> QED BY <1>1, <1>3, <1>4 DEF Weekday

-----------------------------------------------------------------------------
(* The invariant: what each query so far has found, at an instant of the   *)
(* judgement.                                                              *)

Found(step) ==
  /\ step \in {"validation", "timezone"} => user # Unknown /\ user.enabled
  /\ step = "timezone" => \E t \in During : Valid(user, t)

(* The door is open: the two queries spoke of t and of a later s.          *)
LetIn ==
  result = "granted" =>
    /\ user # Unknown /\ user.enabled
    /\ \E t, s \in During : t <= s /\ Valid(user, t) /\ InTime(user, s)

AInv == TypeOK /\ began <= now /\ Found(at) /\ LetIn /\ DenialHasReason

-----------------------------------------------------------------------------
(* The queries answer for the instant at which they are asked.             *)

(* The row of a card that belongs to someone.                              *)
LEMMA UserTyped ==
  ASSUME TypeOK, user # Unknown
  PROVE  user.enabled \in BOOLEAN /\ user.validation \in 0 .. 2 /\ user.timezone \in 0 .. 2
<1>1. user \in Rows
  BY DEF TypeOK
<1> QED BY <1>1, RowsAssumption DEF Codes

(* The period of validity.                                                 *)
LEMMA ValidationAnswers ==
  ASSUME TypeOK, user # Unknown
  PROVE  db_check_validation(user.validation) <=> Valid(user, now)
<1>1. period.from \in Nat /\ period.to \in Nat /\ Date(now) \in Int
  BY PeriodsAssumption, Readings DEF TypeOK
<1>2. Date(now) \in period.from .. period.to <=> period.from <= Date(now) /\ Date(now) <= period.to
  BY <1>1
<1> QED BY <1>2 DEF db_check_validation, Valid

(* The slots of the week.                                                  *)
LEMMA TimezoneAnswers ==
  ASSUME TypeOK, user # Unknown
  PROVE  db_check_timezone(user.timezone) <=> InTime(user, now)
<1>1. Minute(now) \in Int /\ Weekday(now) \in 0 .. 6
  BY Readings DEF TypeOK
<1>2. \A s \in slots : s.days \in SUBSET (0 .. 6) /\ s.from \in Nat /\ s.to \in Nat
  BY SlotsAssumption DEF TypeOK
<1>3. \A s \in slots : week_ok(week_select(s.days), Weekday(now)) <=> Weekday(now) \in s.days
  BY <1>1, <1>2, WeekAgrees
<1>4. \A s \in slots :
        Minute(now) \in s.from .. s.to <=> s.from <= Minute(now) /\ Minute(now) <= s.to
  BY <1>1, <1>2
<1> QED BY <1>3, <1>4 DEF db_check_timezone, InTime

(* Now is an instant of the judgement.                                     *)
LEMMA NowIsDuring ==
  ASSUME TypeOK, began <= now
  PROVE  now \in During /\ \A t \in During : t \in Nat /\ t <= now
<1>1. began \in Nat /\ now \in Nat
  BY DayAssumption DEF TypeOK
<1> QED BY <1>1 DEF During

-----------------------------------------------------------------------------
(* Steps.                                                                  *)

(* A step of access_judge leaves all but itself alone.                     *)
Aside == UNCHANGED <<now, period, slots, user, began>>

(* What was so of an instant is so still.                                  *)
LEMMA SameAnswers ==
  ASSUME UNCHANGED <<period, slots, user>>
  PROVE  \A t : (Valid(user, t) <=> Valid(user, t)') /\ (InTime(user, t) <=> InTime(user, t)')
BY DEF Valid, InTime

(* Going on to a query for which there are grounds.                        *)
LEMMA GoesOn ==
  ASSUME AInv, at \in {"lookup", "validation"}, NEW step \in {"validation", "timezone"},
         Goes(step), Found(step)
  PROVE  AInv'
<1>1. Aside /\ at' = step /\ result' = result /\ result = "none"
  BY DEF Goes, groups, Aside, AInv, TypeOK
<1>2. TypeOK' /\ (began <= now)'
  BY <1>1 DEF AInv, TypeOK, Aside
<1>3. Found(at)'
  <2>1. During' = During
    BY <1>1 DEF During, Aside
  <2>2. at' = "timezone" => \E t \in During' : Valid(user, t)'
    BY <1>1, <2>1, SameAnswers DEF Found, Aside
  <2> QED BY <1>1, <2>2 DEF Found, Aside
<1>4. LetIn' /\ DenialHasReason'
  BY <1>1 DEF LetIn, DenialHasReason
<1> QED BY <1>2, <1>3, <1>4 DEF AInv

(* A verdict, with its grounds.                                            *)
Grounds(verdict) ==
  /\ verdict \in {"granted", "validation", "timezone"} => user # Unknown /\ user.enabled
  /\ verdict = "granted" =>
       \E t, s \in During : t <= s /\ Valid(user, t) /\ InTime(user, s)
  /\ verdict = "not_found" => user = Unknown
  /\ verdict = "disabled" => ~user.enabled
  /\ verdict = "validation" => \E t \in During : ~Valid(user, t)
  /\ verdict = "timezone" =>
       \E t, s \in During : t <= s /\ Valid(user, t) /\ ~InTime(user, s)

(* ... is one the properties allow.                                        *)
LEMMA JudgedRight ==
  ASSUME AInv, at # "judged", NEW verdict \in Results \ {"none"}, Judged(verdict), Grounds(verdict)
  PROVE  AInv'
<1>1. Aside /\ at' = "judged" /\ result' = verdict
  BY DEF Judged, groups, Aside
<1>2. TypeOK' /\ (began <= now)'
  BY <1>1 DEF AInv, TypeOK, Aside
<1>3. Found(at)'
  BY <1>1 DEF Found
<1>4. During' = During /\ user' = user
  BY <1>1 DEF During, Aside
<1>5. \A t : (Valid(user, t) <=> Valid(user, t)') /\ (InTime(user, t) <=> InTime(user, t)')
  BY <1>1, SameAnswers DEF Aside
<1>6. LetIn'
  BY <1>1, <1>4, <1>5 DEF LetIn, Grounds
<1>7. DenialHasReason'
  BY <1>1, <1>4, <1>5 DEF DenialHasReason, Grounds
<1> QED BY <1>2, <1>3, <1>6, <1>7 DEF AInv

(* The user is looked up.                                                  *)
LEMMA LookupKeeps ==
  ASSUME AInv, users_lookup_by_card
  PROVE  AInv'
<1>1. at = "lookup"
  BY DEF users_lookup_by_card
<1>2. CASE Judged("db_error")
  BY <1>1, <1>2, JudgedRight DEF Grounds, Results
<1>3. CASE user = Unknown /\ Judged("not_found")
  BY <1>1, <1>3, JudgedRight DEF Grounds, Results
<1>4. CASE user # Unknown /\ ~user.enabled /\ Judged("disabled")
  BY <1>1, <1>4, JudgedRight DEF Grounds, Results
<1>5. CASE user # Unknown /\ user.enabled /\ Goes("validation")
  BY <1>1, <1>5, GoesOn DEF Found
<1> QED BY <1>2, <1>3, <1>4, <1>5 DEF users_lookup_by_card

(* His period of validity.                                                 *)
LEMMA ValidationKeeps ==
  ASSUME AInv, check_validation
  PROVE  AInv'
<1>1. at = "validation" /\ user # Unknown /\ user.enabled /\ TypeOK
  BY DEF check_validation, AInv, Found
<1>2. now \in During /\ (db_check_validation(user.validation) <=> Valid(user, now))
  BY <1>1, NowIsDuring, ValidationAnswers DEF AInv
<1>3. CASE Judged("db_error")
  BY <1>1, <1>3, JudgedRight DEF Grounds, Results
<1>4. CASE db_check_validation(user.validation) /\ Goes("timezone")
  BY <1>1, <1>2, <1>4, GoesOn DEF Found
<1>5. CASE ~db_check_validation(user.validation) /\ Judged("validation")
  BY <1>1, <1>2, <1>5, JudgedRight DEF Grounds, Results
<1> QED BY <1>3, <1>4, <1>5 DEF check_validation

(* The slots of his week.                                                  *)
LEMMA TimezoneKeeps ==
  ASSUME AInv, check_timezone
  PROVE  AInv'
<1>1. at = "timezone" /\ user # Unknown /\ user.enabled /\ TypeOK
  BY DEF check_timezone, AInv, Found
<1>2. now \in During /\ (db_check_timezone(user.timezone) <=> InTime(user, now))
  BY <1>1, NowIsDuring, TimezoneAnswers DEF AInv
<1>3. PICK t \in During : Valid(user, t) /\ t <= now
  BY <1>1, NowIsDuring DEF AInv, Found
<1>4. CASE Judged("db_error")
  BY <1>1, <1>4, JudgedRight DEF Grounds, Results
<1>5. CASE db_check_timezone(user.timezone) /\ Judged("granted")
  BY <1>1, <1>2, <1>3, <1>5, JudgedRight DEF Grounds, Results
<1>6. CASE ~db_check_timezone(user.timezone) /\ Judged("timezone")
  BY <1>1, <1>2, <1>3, <1>6, JudgedRight DEF Grounds, Results
<1> QED BY <1>4, <1>5, <1>6 DEF check_timezone

(* The clock goes on: there are more instants, and the old ones stay.      *)
LEMMA TickKeeps ==
  ASSUME AInv, Tick
  PROVE  AInv'
<1>1. /\ at # "judged" /\ result = "none" /\ now' = now + 1 /\ now' \in Instants
      /\ UNCHANGED <<period, slots, at, user, began, result>>
  BY DEF Tick, groups, AInv, TypeOK
<1>2. TypeOK' /\ (began <= now)'
  <2>1. began \in Nat /\ now \in Nat /\ began <= now
    BY DayAssumption DEF AInv, TypeOK
  <2> QED BY <1>1, <2>1 DEF AInv, TypeOK
<1>3. \A t \in During : t \in During'
  <2>1. began \in Nat /\ now \in Nat
    BY DayAssumption DEF AInv, TypeOK
  <2> QED BY <1>1, <2>1 DEF During
<1>4. Found(at)'
  <2>1. at' = "timezone" => \E t \in During' : Valid(user, t)'
    BY <1>1, <1>3, SameAnswers DEF AInv, Found
  <2> QED BY <1>1, <2>1 DEF AInv, Found
<1>5. LetIn' /\ DenialHasReason'
  BY <1>1 DEF LetIn, DenialHasReason
<1> QED BY <1>2, <1>4, <1>5 DEF AInv

(* A card is taken from the queue.                                         *)
LEMMA ReadKeeps ==
  ASSUME AInv, on_card_readable
  PROVE  AInv'
<1>1. /\ at' = "lookup" /\ result = "none" /\ began' = now
      /\ UNCHANGED <<now, period, slots, user, result>>
  BY DEF on_card_readable, groups, AInv, TypeOK
<1>2. now \in Nat
  BY DayAssumption DEF AInv, TypeOK
<1> QED BY <1>1, <1>2 DEF AInv, TypeOK, Found, LetIn, DenialHasReason

(* At first nothing is judged.                                             *)
LEMMA InitInv == Init => AInv
<1> SUFFICES ASSUME Init
             PROVE  AInv
  OBVIOUS
<1>1. now \in Nat
  BY DayAssumption DEF Init
<1> QED BY <1>1 DEF Init, AInv, TypeOK, Results, Found, LetIn, DenialHasReason

(* Every step keeps the invariant.                                         *)
LEMMA NextInv == AInv /\ [Next]_vars => AInv'
<1> SUFFICES ASSUME AInv, [Next]_vars
             PROVE  AInv'
  OBVIOUS
<1>1. CASE UNCHANGED vars
  <2>1. UNCHANGED <<now, period, slots, at, user, began, result>>
    BY <1>1 DEF vars, groups
  <2>2. During' = During
    BY <2>1 DEF During
  <2>3. \A t : (Valid(user, t) <=> Valid(user, t)') /\ (InTime(user, t) <=> InTime(user, t)')
    BY <2>1, SameAnswers
  <2>4. TypeOK' /\ (began <= now)'
    BY <2>1 DEF AInv, TypeOK
  <2>5. Found(at)' /\ LetIn'
    BY <2>1, <2>2, <2>3 DEF AInv, Found, LetIn
  <2>6. DenialHasReason'
    BY <2>1, <2>2, <2>3 DEF AInv, DenialHasReason
  <2> QED BY <2>4, <2>5, <2>6 DEF AInv
<1> QED BY <1>1, LookupKeeps, ValidationKeeps, TimezoneKeeps, TickKeeps, ReadKeeps DEF Next

-----------------------------------------------------------------------------
(* The invariant holds in every behaviour.                                 *)
THEOREM AccessInductive == Spec => []AInv
BY InitInv, NextInv, PTL DEF Spec

(* The door opens only to a user the groups allow, at an instant of the    *)
(* judgement, and no failing query opens it (access_judge).                *)
THEOREM DoorOpensToAllowed == Spec => []GrantIsAllowed
<1>1. AInv => GrantIsAllowed
  <2> SUFFICES ASSUME AInv, result = "granted"
               PROVE  /\ user # Unknown
                      /\ IF Date(began) = Date(now) THEN \E t \in During : Allowed(user, t)
                         ELSE user.enabled /\ \E t, s \in During :
                                t <= s /\ Valid(user, t) /\ InTime(user, s)
    BY DEF GrantIsAllowed
  <2>1. user # Unknown /\ user.enabled
    BY DEF AInv, LetIn
  <2>2. PICK t \in During, s \in During : t <= s /\ Valid(user, t) /\ InTime(user, s)
    BY DEF AInv, LetIn
  <2>3. CASE Date(began) = Date(now)
    <3>1. /\ began \in Nat /\ t \in Nat /\ s \in Nat /\ now \in Nat
          /\ began <= t /\ t <= s /\ s <= now
      BY <2>2, DayAssumption DEF AInv, TypeOK, During
    <3>2. Date(began) <= Date(t) /\ Date(t) <= Date(s) /\ Date(s) <= Date(now)
      BY <3>1, DatesInOrder
    <3>3. \A n \in Nat : Date(n) \in Int
      BY DayAssumption DEF Date
    <3>4. Date(t) = Date(s)
      BY <2>3, <3>1, <3>2, <3>3
    <3>5. Valid(user, s)
      BY <2>2, <3>4 DEF Valid
    <3> QED BY <2>1, <2>2, <2>3, <3>5 DEF Allowed
  <2>4. CASE Date(began) # Date(now)
    BY <2>1, <2>2, <2>4
  <2> QED BY <2>3, <2>4
<1> QED BY <1>1, AccessInductive, PTL

(* Who is turned away is so for the reason given, the first that holds in  *)
(* the order of the queries (access_judge).                                *)
THEOREM TurnedAwayForAReason == Spec => []DenialHasReason
<1>1. AInv => DenialHasReason
  BY DEF AInv
<1> QED BY <1>1, AccessInductive, PTL

-----------------------------------------------------------------------------
(* The rows of the list.                                                   *)

(* A set that has 0, and with each number below n the next, has all up to  *)
(* n: the induction below is over such a set.                              *)
LEMMA UpTo ==
  ASSUME NEW n \in Nat, NEW S, 0 \in S,
         \A k \in 0 .. n - 1 : k \in S => k + 1 \in S
  PROVE  0 .. n \subseteq S
<1> DEFINE T == {k \in 0 .. n : k \notin S}
<1>1. SUFFICES ASSUME T # {} PROVE FALSE
  OBVIOUS
<1>2. T \subseteq Nat
  OBVIOUS
<1>3. PICK x \in T : \A y \in T : ~(y < x)
  <2> HIDE DEF T
  <2>1. IsWellFoundedOn(OpToRel(<, Nat), Nat)
    BY NatLessThanWellFounded
  <2>2. PICK x \in T : \A y \in T : <<y, x>> \notin OpToRel(<, Nat)
    BY <1>1, <1>2, <2>1, WFMin
  <2> QED BY <1>2, <2>2 DEF OpToRel
<1>4. x # 0 /\ x \in 0 .. n /\ x \notin S
  OBVIOUS
<1>5. x - 1 \in 0 .. n - 1 /\ x - 1 < x
  BY <1>4
<1>6. x - 1 \in S
  BY <1>3, <1>5
<1>7. (x - 1) + 1 \in S
  BY <1>5, <1>6
<1> QED BY <1>4, <1>7

(* Quotient and remainder of a sum.                                        *)
LEMMA DivMod ==
  ASSUME NEW d \in Nat \ {0}, NEW q \in Nat, NEW r \in 0 .. d - 1
  PROVE  (q * d + r) \div d = q /\ (q * d + r) % d = r
<1> DEFINE a == q * d + r
<1>1. a \in Nat
  OBVIOUS
<1>2. PICK p \in Nat, t \in 0 .. d - 1 : p = a \div d /\ t = a % d /\ a = d * p + t
  BY <1>1
<1>3. ~(p > q)
  <2> SUFFICES ASSUME p > q PROVE FALSE
    OBVIOUS
  <2>1. d * p >= d * (q + 1)
    OBVIOUS
  <2> QED BY <1>2, <2>1
<1>4. ~(p < q)
  <2> SUFFICES ASSUME p < q PROVE FALSE
    OBVIOUS
  <2>1. d * q >= d * (p + 1)
    OBVIOUS
  <2> QED BY <1>2, <2>1
<1>5. p = q
  BY <1>3, <1>4
<1> QED BY <1>2, <1>5

Copies(n, u) == [i \in 1 .. n |-> u]
Behind(p, n, u) == p \o Copies(n, u)

(* r has the rows of p and then n times u.                                 *)
Extends(r, p, n, u) ==
  /\ r \in Seq(Nat) /\ Len(r) = Len(p) + n
  /\ \A i \in 1 .. Len(p) : r[i] = p[i]
  /\ \A i \in Len(p) + 1 .. Len(p) + n : r[i] = u

(* s has the rows of the users up to u: in their order, nobody twice who   *)
(* has no two, and nobody in the list left out.                            *)
Ordered(s, u) ==
  /\ s \in Seq(Nat)
  /\ \A i \in 1 .. Len(s) : s[i] \in 1 .. u /\ rows[s[i]] > 0
  /\ \A i, j \in 1 .. Len(s) : i < j => s[i] <= s[j] /\ (OneCardEach => s[i] < s[j])
  /\ \A v \in 1 .. u : rows[v] > 0 => \E i \in 1 .. Len(s) : s[i] = v

(* One user more.                                                          *)
LEMMA RowsFilled ==
  ASSUME NEW id, NEW d, d = RowsUpTo(id)
  PROVE  /\ d[0] = << >>
         /\ \A u \in 1 .. LastId :
              /\ u > id => d[u] = Behind(d[u - 1], rows[u], u)
              /\ ~(u > id) => d[u] = d[u - 1]
<1> DEFINE N == LastId
           G(n, p) == IF n > id THEN p \o [i \in 1 .. rows[n] |-> n] ELSE p
           Is(f, m) == f = [n \in 0 .. m |-> IF n = 0 THEN << >> ELSE G(n, f[n - 1])]
           S == {m \in 0 .. N : \E f : Is(f, m)}
<1>0. N \in Nat /\ 0 \in 0 .. N
  BY LastIdAssumption
<1>1. d = CHOOSE f : Is(f, N)
  BY DEF RowsUpTo
<1> HIDE DEF G
<1>2. 0 \in S
  <2>1. PICK f : f = [n \in 0 .. 0 |-> << >>]
    OBVIOUS
  <2>2. Is(f, 0)
    BY <2>1
  <2> QED BY <1>0, <2>2
<1>3. ASSUME NEW k \in 0 .. N - 1, k \in S PROVE k + 1 \in S
  <2>1. PICK f : Is(f, k)
    BY <1>3
  <2>2. /\ DOMAIN f = 0 .. k /\ f[0] = << >>
        /\ \A n \in 1 .. k : f[n] = G(n, f[n - 1])
    BY <2>1
  <2>3. PICK g : g = [n \in 0 .. k + 1 |-> IF n <= k THEN f[n] ELSE G(k + 1, f[k])]
    OBVIOUS
  <2>4. ASSUME NEW n \in 0 .. k + 1
        PROVE  g[n] = IF n = 0 THEN << >> ELSE G(n, g[n - 1])
    <3>1. CASE n = 0
      BY <2>2, <2>3, <3>1
    <3>2. CASE n \in 1 .. k
      <4>1. g[n] = f[n] /\ g[n - 1] = f[n - 1]
        BY <2>3, <3>2
      <4> QED BY <2>2, <3>2, <4>1
    <3>3. CASE n = k + 1
      <4>1. g[n] = G(k + 1, f[k]) /\ g[k] = f[k] /\ n - 1 = k /\ n # 0
        BY <2>3, <3>3
      <4> QED BY <3>3, <4>1
    <3> QED BY <3>1, <3>2, <3>3
  <2>5. Is(g, k + 1)
    BY <2>3, <2>4
  <2> QED BY <1>0, <2>5
<1>4. N \in S
  <2> HIDE DEF S
  <2>1. 0 .. N \subseteq S
    BY <1>0, <1>2, <1>3, UpTo
  <2> QED BY <1>0, <2>1
<1>5. Is(d, N)
  BY <1>1, <1>4
<1>6. d[0] = << >>
  BY <1>0, <1>5
<1>7. ASSUME NEW n \in 1 .. N PROVE d[n] = G(n, d[n - 1])
  <2>1. n \in 0 .. N /\ n # 0
    OBVIOUS
  <2> QED BY <1>5, <2>1
<1> QED BY <1>6, <1>7 DEF G, Copies, Behind

(* The rows of one user behind those of others.                            *)
LEMMA CopiesBehind ==
  ASSUME NEW p \in Seq(Nat), NEW n \in Nat, NEW u \in Nat
  PROVE  Extends(Behind(p, n, u), p, n, u)
<1>0. PICK r : r = Behind(p, n, u)
  OBVIOUS
<1>1. PICK q : q = Copies(n, u)
  OBVIOUS
<1>2. q \in Seq(Nat) /\ Len(q) = n /\ \A i \in 1 .. n : q[i] = u
  <2>1. q \in [1 .. n -> Nat] /\ \A i \in 1 .. n : q[i] = u
    BY <1>1 DEF Copies
  <2>2. q \in Seq(Nat)
    BY <2>1, SeqDef
  <2> QED BY <2>1, <2>2, LenProperties
<1>3. r = p \o q
  BY <1>0, <1>1 DEF Behind
<1>4. r \in Seq(Nat) /\ Len(r) = Len(p) + n
  BY <1>2, <1>3, ConcatProperties
<1>5. \A i \in 1 .. Len(p) + n : r[i] = IF i <= Len(p) THEN p[i] ELSE q[i - Len(p)]
  BY <1>2, <1>3, ConcatProperties
<1>6. PICK m \in Nat : m = Len(p)
  BY LenProperties
<1>7. \A i \in 1 .. m : r[i] = p[i]
  BY <1>5, <1>6
<1>8. ASSUME NEW i \in m + 1 .. m + n PROVE r[i] = u
  <2>1. i \in 1 .. m + n /\ ~(i <= m) /\ i - m \in 1 .. n
    OBVIOUS
  <2> QED BY <1>2, <1>5, <1>6, <2>1
<1> QED BY <1>0, <1>4, <1>6, <1>7, <1>8 DEF Extends

(* Rows of the users up to u, in order, one at least for each in the list. *)
LEMMA RowsOrdered ==
  ASSUME rows \in [Ids -> 0 .. MaxRows]
  PROVE  /\ \A u \in 0 .. LastId : Ordered(RowsUpTo(NoId)[u], u)
         /\ Ordered(RowsAfter(NoId), LastId)
<1>1. LastId \in Nat /\ MaxRows \in Nat
  BY LastIdAssumption, ListsAssumption
<1>0. PICK d : d = RowsUpTo(NoId)
  OBVIOUS
<1>2. /\ d[LastId] = RowsAfter(NoId) /\ d[0] = << >>
      /\ \A u \in 1 .. LastId : u > NoId => d[u] = Behind(d[u - 1], rows[u], u)
  BY <1>0, RowsFilled DEF RowsAfter
<1>3. ASSUME NEW u \in 1 .. LastId
      PROVE  d[u] = Behind(d[u - 1], rows[u], u) /\ rows[u] \in Nat
  <2>1. u > NoId /\ rows[u] \in Nat
    BY <1>1 DEF NoId, Ids
  <2> QED BY <1>2, <2>1
<1> DEFINE S == {u \in 0 .. LastId : Ordered(d[u], u)}
<1>4. 0 \in S
  <2>1. d[0] \in Seq(Nat) /\ Len(d[0]) = 0 /\ 0 \in 0 .. LastId
    BY <1>1, <1>2, EmptySeq
  <2> QED BY <2>1 DEF Ordered, Ids
<1>5. ASSUME NEW k \in 0 .. LastId - 1, k \in S PROVE k + 1 \in S
  <2>1. k \in Nat /\ k + 1 \in 1 .. LastId /\ (k + 1) - 1 = k
    BY <1>1
  <2>2. PICK p : p = d[k]
    OBVIOUS
  <2>3. PICK r : r = d[k + 1]
    OBVIOUS
  <2>4. Ordered(p, k)
    BY <1>5, <2>2
  <2>5. PICK n \in Nat : n = rows[k + 1]
    BY <1>3, <2>1
  <2>6. p \in Seq(Nat) /\ r = Behind(p, n, k + 1)
    BY <1>3, <2>1, <2>2, <2>3, <2>4, <2>5 DEF Ordered
  <2>7. /\ r \in Seq(Nat) /\ Len(r) = Len(p) + n
        /\ \A i \in 1 .. Len(p) : r[i] = p[i]
        /\ \A i \in Len(p) + 1 .. Len(p) + n : r[i] = k + 1
    <3>1. PICK u \in Nat : u = k + 1
      BY <2>1
    <3>2. p \in Seq(Nat) /\ r = Behind(p, n, u)
      BY <2>6, <3>1
    <3>3. Extends(r, p, n, u)
      BY <2>5, <3>1, <3>2, CopiesBehind
    <3> QED BY <3>1, <3>3 DEF Extends
  <2>8. PICK m \in Nat : m = Len(p)
    BY <2>6, LenProperties
  <2>9. \A i \in 1 .. m + n : \/ i \in 1 .. m /\ r[i] = p[i]
                              \/ i \in m + 1 .. m + n /\ r[i] = k + 1 /\ n > 0
    BY <2>7, <2>8
  <2>10. \A i \in 1 .. m : p[i] \in 1 .. k /\ rows[p[i]] > 0
    BY <2>4, <2>8 DEF Ordered
  <2>11. ASSUME NEW i \in 1 .. Len(r)
         PROVE  r[i] \in 1 .. k + 1 /\ rows[r[i]] > 0
    <3>1. \/ i \in 1 .. m /\ r[i] = p[i]
          \/ r[i] = k + 1 /\ n > 0
      BY <2>7, <2>8, <2>9
    <3>2. CASE i \in 1 .. m /\ r[i] = p[i]
      BY <2>1, <2>10, <3>2
    <3>3. CASE r[i] = k + 1 /\ n > 0
      BY <2>1, <2>5, <3>3
    <3> QED BY <3>1, <3>2, <3>3
  <2>12. ASSUME NEW i \in 1 .. Len(r), NEW j \in 1 .. Len(r), i < j
         PROVE  r[i] <= r[j] /\ (OneCardEach => r[i] < r[j])
    <3>1. i \in 1 .. m + n /\ j \in 1 .. m + n
      BY <2>7, <2>8
    <3>2. CASE j \in 1 .. m
      <4>1. i \in 1 .. m /\ r[i] = p[i] /\ r[j] = p[j]
        BY <2>7, <2>8, <2>12, <3>1, <3>2
      <4> QED BY <2>4, <2>8, <2>12, <3>2, <4>1 DEF Ordered
    <3>3. CASE j \notin 1 .. m
      <4>1. r[j] = k + 1 /\ j \in m + 1 .. m + n
        BY <2>9, <3>1, <3>3
      <4>2. CASE i \in 1 .. m
        BY <2>7, <2>8, <2>10, <4>1, <4>2
      <4>3. CASE i \notin 1 .. m
        <5>1. r[i] = k + 1 /\ n > 1
          BY <2>9, <2>12, <3>1, <4>1, <4>3
        <5>2. ~OneCardEach
          <6>1. k + 1 \in Ids /\ ~(rows[k + 1] <= 1)
            BY <2>1, <2>5, <5>1 DEF Ids
          <6> QED BY <6>1 DEF OneCardEach
        <5> QED BY <4>1, <5>1, <5>2
      <4> QED BY <4>2, <4>3
    <3> QED BY <3>2, <3>3
  <2>13. ASSUME NEW v \in 1 .. k + 1, rows[v] > 0
         PROVE  \E i \in 1 .. Len(r) : r[i] = v
    <3>1. CASE v \in 1 .. k
      <4>1. PICK i \in 1 .. m : p[i] = v
        BY <2>4, <2>8, <2>13, <3>1 DEF Ordered
      <4> QED BY <2>7, <2>8, <4>1
    <3>2. CASE v = k + 1
      <4>1. m + 1 \in m + 1 .. m + n /\ m + 1 \in 1 .. Len(r)
        BY <2>5, <2>7, <2>8, <2>13, <3>2
      <4> QED BY <2>7, <2>8, <3>2, <4>1
    <3> QED BY <2>1, <3>1, <3>2
  <2>14. Ordered(r, k + 1)
    BY <2>7, <2>11, <2>12, <2>13 DEF Ordered
  <2> QED BY <2>1, <2>3, <2>14
<1>6. 0 .. LastId \subseteq S
  <2> HIDE DEF S
  <2> QED BY <1>1, <1>4, <1>5, UpTo
<1>7. LastId \in S
  BY <1>1, <1>6
<1> QED BY <1>0, <1>2, <1>6, <1>7

(* s has the rows rs without the first c, which are those up to id.        *)
IsRest(s, rs, id, c) ==
  /\ s \in Seq(Nat) /\ c \in 0 .. Len(rs) /\ Len(s) = Len(rs) - c
  /\ \A i \in 1 .. Len(s) : s[i] = rs[c + i]
  /\ \A i \in 1 .. Len(rs) : rs[i] <= id <=> i <= c

(* The rows behind a user are the last ones of all rows.                   *)
LEMMA RowsRest ==
  ASSUME rows \in [Ids -> 0 .. MaxRows], NEW id \in Nat
  PROVE  \E c \in Nat : IsRest(RowsAfter(id), RowsAfter(NoId), id, c)
<1>1. LastId \in Nat /\ MaxRows \in Nat
  BY LastIdAssumption, ListsAssumption
<1>2. PICK d : d = RowsUpTo(NoId)
  OBVIOUS
<1>3. PICK e : e = RowsUpTo(id)
  OBVIOUS
<1>4. d[LastId] = RowsAfter(NoId) /\ e[LastId] = RowsAfter(id)
  BY <1>2, <1>3 DEF RowsAfter
<1>5. /\ d[0] = << >>
      /\ \A u \in 1 .. LastId : u > NoId => d[u] = Behind(d[u - 1], rows[u], u)
  BY <1>2, RowsFilled
<1>6. /\ e[0] = << >>
      /\ \A u \in 1 .. LastId : /\ u > id => e[u] = Behind(e[u - 1], rows[u], u)
                                /\ ~(u > id) => e[u] = e[u - 1]
  BY <1>3, RowsFilled
<1>7. \A u \in 0 .. LastId : Ordered(d[u], u)
  BY <1>2, RowsOrdered
<1> DEFINE S == {u \in 0 .. LastId : /\ \E c \in Nat : IsRest(e[u], d[u], id, c)
                                     /\ u <= id => e[u] = << >>}
<1>8. 0 \in S
  <2>1. /\ d[0] \in Seq(Nat) /\ Len(d[0]) = 0 /\ 0 \in 0 .. LastId
        /\ e[0] \in Seq(Nat) /\ Len(e[0]) = 0
    BY <1>1, <1>5, <1>6, EmptySeq
  <2>2. IsRest(e[0], d[0], id, 0)
    BY <2>1 DEF IsRest
  <2> QED BY <1>6, <2>1, <2>2
<1>9. ASSUME NEW k \in 0 .. LastId - 1, k \in S PROVE k + 1 \in S
  <2>1. PICK u \in 1 .. LastId : u = k + 1 /\ u - 1 = k
    BY <1>1
  <2>2. PICK c \in Nat : IsRest(e[k], d[k], id, c)
    BY <1>9
  <2>3. Ordered(d[k], k) /\ Ordered(d[u], u)
    BY <1>1, <1>7, <2>1
  <2>4. PICK n \in Nat : n = rows[u]
    BY <1>1, <2>1 DEF Ids
  <2>5. d[u] = Behind(d[k], n, u)
    BY <1>5, <2>1, <2>4 DEF NoId
  <2>6. CASE u <= id
    <3>1. e[u] = << >>
      BY <1>1, <1>6, <1>9, <2>1, <2>6
    <3>2. PICK m \in Nat : m = Len(d[u])
      BY <2>3, LenProperties DEF Ordered
    <3>3. \A i \in 1 .. m : d[u][i] <= id
      BY <2>1, <2>3, <2>6, <3>2 DEF Ordered
    <3>4. IsRest(e[u], d[u], id, m)
      <4>1. e[u] \in Seq(Nat) /\ Len(e[u]) = 0
        BY <3>1, EmptySeq
      <4> QED BY <3>2, <3>3, <4>1 DEF IsRest
    <3> QED BY <2>1, <3>1, <3>4
  <2>7. CASE ~(u <= id)
    <3>1. e[u] = Behind(e[k], n, u)
      BY <1>6, <2>1, <2>4, <2>7
    <3>2. PICK p \in Seq(Nat) : p = d[k]
      BY <2>3 DEF Ordered
    <3>3. PICK q \in Seq(Nat) : q = e[k]
      BY <2>2 DEF IsRest
    <3>4. Extends(d[u], p, n, u) /\ Extends(e[u], q, n, u)
      BY <2>1, <2>4, <2>5, <3>1, <3>2, <3>3, CopiesBehind
    <3>5. PICK m \in Nat : m = Len(p)
      BY <3>2, LenProperties
    <3>6. c \in 0 .. m /\ Len(q) = m - c
      BY <2>2, <3>2, <3>3, <3>5 DEF IsRest
    <3>7. Len(d[u]) = m + n /\ Len(e[u]) = m + n - c /\ e[u] \in Seq(Nat)
      BY <2>1, <2>4, <3>4, <3>5, <3>6 DEF Extends
    <3>8. ASSUME NEW i \in 1 .. Len(e[u]) PROVE e[u][i] = d[u][c + i]
      <4>1. PICK l \in Nat : l = m + n - c
        BY <2>4, <3>6
      <4>2. i \in 1 .. l
        BY <3>7, <4>1
      <4>3. i \in 1 .. m + n - c /\ c + i \in 1 .. m + n
        <5>1. c \in 0 .. m
          BY <3>6
        <5>2. i \in Nat /\ i >= 1 /\ i <= l
          BY <4>1, <4>2
        <5>3. c + i <= m + n
          BY <4>1, <5>1, <5>2
        <5>4. i <= m + n - c
          BY <4>1, <5>2
        <5> QED BY <5>1, <5>2, <5>3, <5>4
      <4>4. CASE i <= m - c
        <5>1. i \in 1 .. m - c /\ c + i \in 1 .. m
          BY <3>6, <4>3, <4>4
        <5>2. e[u][i] = q[i] /\ d[u][c + i] = p[c + i]
          BY <3>4, <3>5, <3>6, <5>1 DEF Extends
        <5>3. q[i] = p[c + i]
          BY <2>2, <3>2, <3>3, <3>6, <5>1 DEF IsRest
        <5> QED BY <5>2, <5>3
      <4>5. CASE ~(i <= m - c)
        <5>1. i \in m - c + 1 .. m - c + n /\ c + i \in m + 1 .. m + n
          BY <2>4, <3>6, <4>3, <4>5
        <5>2. e[u][i] = u /\ d[u][c + i] = u
          BY <3>4, <3>5, <3>6, <5>1 DEF Extends
        <5> QED BY <5>2
      <4> QED BY <4>4, <4>5
    <3>9. ASSUME NEW i \in 1 .. Len(d[u]) PROVE d[u][i] <= id <=> i <= c
      <4>1. CASE i \in 1 .. m
        <5>1. d[u][i] = p[i]
          BY <3>4, <3>5, <4>1 DEF Extends
        <5> QED BY <2>2, <3>2, <3>5, <4>1, <5>1 DEF IsRest
      <4>2. CASE i \notin 1 .. m
        <5>1. i \in m + 1 .. m + n
          BY <2>4, <3>7, <4>2
        <5>2. d[u][i] = u
          BY <3>4, <3>5, <5>1 DEF Extends
        <5> QED BY <2>7, <3>6, <5>1, <5>2
      <4> QED BY <4>1, <4>2
    <3>10. IsRest(e[u], d[u], id, c)
      <4>1. c \in 0 .. m + n /\ m + n - c = (m + n) - c
        BY <2>2, <2>4, <3>6
      <4> QED BY <3>7, <3>8, <3>9, <4>1 DEF IsRest
    <3> QED BY <1>1, <2>1, <2>7, <3>10
  <2> QED BY <2>6, <2>7
<1>10. LastId \in S
  <2> HIDE DEF S
  <2>1. 0 .. LastId \subseteq S
    BY <1>1, <1>8, <1>9, UpTo
  <2> QED BY <1>1, <2>1
<1> QED BY <1>4, <1>10

-----------------------------------------------------------------------------
(* Chunks.                                                                 *)

(* part has the rows behind the first c, as many as go into a chunk.       *)
IsSlice(part, rs, c) ==
  /\ part \in Seq(Nat) /\ Len(part) <= Records
  /\ \A i \in 1 .. Len(part) : c + i <= Len(rs) /\ part[i] = rs[c + i]
  /\ Len(part) < Records => c + Len(part) >= Len(rs)

(* What is read are the rows behind an offset.                             *)
LEMMA ReadRows ==
  ASSUME NEW rs \in Seq(Nat), NEW c \in Nat
  PROVE  IsSlice(read_rows(rs, c), rs, c)
<1>1. PICK k \in Nat \ {0} : k = Records
  BY RecordsAssumption
<1>2. PICK n \in Nat : n = Len(rs)
  BY LenProperties
<1>3. PICK part : part = read_rows(rs, c)
  OBVIOUS
<1>4. PICK m \in Nat : /\ m <= k /\ (m < k => c + m >= n)
                       /\ \A j \in 1 .. k : c + j <= n <=> j <= m
  <2>1. CASE c + k <= n
    <3>1. k \in Nat /\ k <= k /\ ~(k < k) /\ \A j \in 1 .. k : c + j <= n <=> j <= k
      BY <1>1, <2>1
    <3> QED BY <3>1
  <2>2. CASE ~(c + k <= n) /\ c <= n
    <3>1. n - c \in Nat /\ n - c <= k /\ c + (n - c) >= n
      BY <1>1, <2>2
    <3>2. \A j \in 1 .. k : c + j <= n <=> j <= n - c
      BY <1>1, <2>2
    <3> QED BY <3>1, <3>2
  <2>3. CASE ~(c <= n)
    <3>1. \A j \in 1 .. k : c + j <= n <=> j <= 0
      BY <1>1, <2>3
    <3> QED BY <1>1, <2>3, <3>1
  <2> QED BY <2>1, <2>2, <2>3
<1>5. {j \in 1 .. Records : c + j \in DOMAIN rs} = 1 .. m
  <2>1. DOMAIN rs = 1 .. n
    BY <1>2, LenProperties
  <2>2. \A j \in 1 .. k : c + j \in 1 .. n <=> j \in 1 .. m
    BY <1>1, <1>4
  <2>3. 1 .. m \subseteq 1 .. k
    BY <1>1, <1>4
  <2> QED BY <1>1, <2>1, <2>2, <2>3
<1>6. part = [i \in 1 .. m |-> rs[c + i]]
  BY <1>3, <1>5 DEF read_rows
<1>7. \A i \in 1 .. m : c + i \in 1 .. n /\ rs[c + i] \in Nat
  <2>1. ASSUME NEW i \in 1 .. m PROVE c + i \in 1 .. n
    <3>1. i \in 1 .. k /\ i <= m
      BY <1>1, <1>4
    <3>2. c + i <= n
      BY <1>4, <3>1
    <3> QED BY <3>2
  <2> QED BY <1>2, <2>1, ElementOfSeq
<1>8. part \in [1 .. m -> Nat]
  BY <1>6, <1>7
<1>9. part \in Seq(Nat) /\ Len(part) = m
  <2>1. part \in Seq(Nat)
    BY <1>4, <1>8, SeqDef
  <2> QED BY <1>4, <1>8, <2>1, LenProperties
<1>10. ASSUME NEW i \in 1 .. m PROVE c + i <= n /\ part[i] = rs[c + i]
  <2>1. c + i <= n
    BY <1>4, <1>7
  <2>2. part[i] = rs[c + i]
    BY <1>6
  <2> QED BY <2>1, <2>2
<1> QED BY <1>1, <1>2, <1>3, <1>4, <1>9, <1>10 DEF IsSlice

(* What is read behind a user are the rows behind his.                     *)
LEMMA ReadRest ==
  ASSUME NEW s, NEW rs \in Seq(Nat), NEW id \in Nat, NEW c \in Nat, IsRest(s, rs, id, c)
  PROVE  IsSlice(read_rows(s, 0), rs, c)
<1>1. PICK part : part = read_rows(s, 0)
  OBVIOUS
<1>2. s \in Seq(Nat) /\ Len(s) = Len(rs) - c /\ c <= Len(rs)
      /\ \A i \in 1 .. Len(s) : s[i] = rs[c + i]
  BY LenProperties DEF IsRest
<1>3. IsSlice(part, s, 0)
  BY <1>1, <1>2, ReadRows
<1>4. PICK m \in Nat : m = Len(part)
  BY <1>3, LenProperties DEF IsSlice
<1>5. PICK n \in Nat : n = Len(rs)
  BY LenProperties
<1>6. Len(s) = n - c /\ c <= n
  BY <1>2, <1>5
<1>7. \A i \in 1 .. m : i \in 1 .. Len(s) /\ part[i] = s[i]
  BY <1>3, <1>4, <1>6 DEF IsSlice
<1>8. \A i \in 1 .. m : c + i <= n /\ part[i] = rs[c + i]
  BY <1>2, <1>6, <1>7
<1>9. m < Records => c + m >= n
  BY <1>3, <1>4, <1>6 DEF IsSlice
<1> QED BY <1>1, <1>3, <1>4, <1>5, <1>8, <1>9 DEF IsSlice

(* How far the number of a chunk is from the first one.                    *)
Place(index) == (index + IndexMod - FirstIndex) % IndexMod

Following(index) == (index + 1) % IndexMod

LEMMA Places ==
  ASSUME NEW a \in 0 .. IndexMod - 1
  PROVE  /\ Place(a) \in Nat
         /\ a = FirstIndex => Place(a) = 0
         /\ Following(a) \in 0 .. IndexMod - 1 /\ Following(a) # a
         /\ Place(Following(a)) = IF Following(a) = FirstIndex THEN 0 ELSE Place(a) + 1
<1>1. IndexMod \in Nat \ {0, 1} /\ FirstIndex \in 0 .. IndexMod - 1
  BY RecordsAssumption, FirstIndexAssumption
<1>2. ASSUME NEW b \in 0 .. IndexMod - 1
      PROVE  Place(b) = IF b >= FirstIndex THEN b - FirstIndex ELSE b + IndexMod - FirstIndex
  <2>1. CASE b >= FirstIndex
    <3>1. PICK r \in 0 .. IndexMod - 1 : r = b - FirstIndex
      BY <1>1, <2>1
    <3>2. (1 * IndexMod + r) % IndexMod = r
      BY <1>1, DivMod
    <3>3. b + IndexMod - FirstIndex = 1 * IndexMod + r
      BY <1>1, <3>1
    <3> QED BY <2>1, <3>1, <3>2, <3>3 DEF Place
  <2>2. CASE ~(b >= FirstIndex)
    <3>1. PICK r \in 0 .. IndexMod - 1 : r = b + IndexMod - FirstIndex
      BY <1>1, <2>2
    <3>2. (0 * IndexMod + r) % IndexMod = r
      BY <1>1, DivMod
    <3>3. b + IndexMod - FirstIndex = 0 * IndexMod + r
      BY <1>1, <3>1
    <3> QED BY <2>2, <3>1, <3>2, <3>3 DEF Place
  <2> QED BY <2>1, <2>2
<1>3. Following(a) = IF a + 1 = IndexMod THEN 0 ELSE a + 1
  <2>1. CASE a + 1 = IndexMod
    <3>1. (1 * IndexMod + 0) % IndexMod = 0
      BY <1>1, DivMod
    <3>2. a + 1 = 1 * IndexMod + 0
      BY <1>1, <2>1
    <3> QED BY <2>1, <3>1, <3>2 DEF Following
  <2>2. CASE a + 1 # IndexMod
    <3>1. PICK r \in 0 .. IndexMod - 1 : r = a + 1
      BY <1>1, <2>2
    <3>2. (0 * IndexMod + r) % IndexMod = r
      BY <1>1, DivMod
    <3>3. a + 1 = 0 * IndexMod + r
      BY <1>1, <3>1
    <3> QED BY <2>2, <3>1, <3>2, <3>3 DEF Following
  <2> QED BY <2>1, <2>2
<1>4. Following(a) \in 0 .. IndexMod - 1 /\ Following(a) # a
  BY <1>1, <1>3
<1>5. PICK b \in 0 .. IndexMod - 1 : b = Following(a)
  BY <1>4
<1>6. Place(b) = IF b = FirstIndex THEN 0 ELSE Place(a) + 1
  BY <1>1, <1>2, <1>3, <1>5
<1>7. Place(a) \in Nat /\ (a = FirstIndex => Place(a) = 0)
  BY <1>1, <1>2
<1> QED BY <1>4, <1>5, <1>6, <1>7

AllRows == RowsAfter(NoId)

(* Rows behind which a chunk is: those up to the last user sent, or those  *)
(* its number counts.                                                      *)
IsChunk(part, s, index, c) ==
  /\ IsSlice(part, AllRows, c)
  /\ InOrder(s, index) =>
       /\ c <= Len(AllRows)
       /\ \A i \in 1 .. Len(AllRows) : AllRows[i] <= s.last <=> i <= c
  /\ ~InOrder(s, index) => c = First(s, index)

LEMMA Chunks ==
  ASSUME rows \in [Ids -> 0 .. MaxRows], NEW s, s.last \in Nat,
         NEW index \in 0 .. IndexMod - 1, s.base \in 0 .. IndexMod - 1
  PROVE  \E c \in Nat : IsChunk(Chunk(s, index), s, index, c)
<1>1. PICK rs : rs = AllRows
  OBVIOUS
<1>2. rs \in Seq(Nat) /\ Len(rs) \in Nat
  <2>1. rs \in Seq(Nat)
    BY <1>1, RowsOrdered DEF Ordered, AllRows
  <2> QED BY <2>1, LenProperties
<1>3. CASE InOrder(s, index)
  <2>1. PICK id \in Nat : id = s.last
    OBVIOUS
  <2>2. PICK c \in Nat : IsRest(RowsAfter(id), rs, id, c)
    BY <1>1, <2>1, RowsRest DEF AllRows
  <2>3. IsSlice(Chunk(s, index), rs, c)
    <3>1. IsSlice(read_rows(RowsAfter(id), 0), rs, c)
      BY <1>2, <2>1, <2>2, ReadRest
    <3> QED BY <1>3, <2>1, <3>1 DEF Chunk, users_read_after
  <2>4. c <= Len(rs) /\ \A i \in 1 .. Len(rs) : rs[i] <= s.last <=> i <= c
    BY <1>2, <2>1, <2>2 DEF IsRest
  <2> QED BY <1>1, <1>3, <2>2, <2>3, <2>4 DEF IsChunk
<1>4. CASE ~InOrder(s, index)
  <2>1. PICK c \in Nat : c = First(s, index)
    <3>1. PICK e \in Nat : e = index + IndexMod - s.base
      BY RecordsAssumption
    <3>2. e % IndexMod \in Nat
      BY <3>1, RecordsAssumption
    <3>3. (e % IndexMod) * Records \in Nat
      BY <3>2, RecordsAssumption
    <3> QED BY <3>1, <3>3 DEF First
  <2>2. Chunk(s, index) = read_rows(rs, c)
    <3>1. CASE index = s.base
      <4>1. (1 * IndexMod + 0) % IndexMod = 0
        BY RecordsAssumption, DivMod
      <4>2. index + IndexMod - s.base = 1 * IndexMod + 0
        BY <3>1, RecordsAssumption
      <4>3. c = 0
        BY <2>1, <4>1, <4>2, RecordsAssumption DEF First
      <4> QED BY <1>1, <1>4, <3>1, <4>3 DEF Chunk, users_read_after, AllRows
    <3>2. CASE index # s.base
      BY <1>1, <1>4, <2>1, <3>2 DEF Chunk, users_read_at, AllRows
    <3> QED BY <3>1, <3>2
  <2>3. IsSlice(Chunk(s, index), rs, c)
    BY <1>2, <2>1, <2>2, ReadRows
  <2> QED BY <1>1, <1>4, <2>1, <2>3 DEF IsChunk
<1> QED BY <1>3, <1>4

-----------------------------------------------------------------------------
(* The invariant.                                                          *)

(* The last user DM has.                                                   *)
Reached == IF dm.has = << >> THEN NoId ELSE dm.has[Len(dm.has)].user

(* acud is where DM is, or one chunk ahead.                                *)
Together ==
  dm.does = "asks" /\ send.active =>
    /\ send.base = NoIndex => dm.index = FirstIndex /\ dm.has = << >> /\ send.last = NoId
    /\ send.base # NoIndex =>
         /\ send.base = FirstIndex
         /\ send.next \in {dm.index, Following(dm.index)}
         /\ send.next = dm.index => send.last = Reached
         /\ send.last = NoId => dm.index = FirstIndex /\ dm.has = << >>

(* The first number is the one of the first chunk.                         *)
Begun ==
  /\ dm.has = << >> => dm.index = FirstIndex
  /\ plain /\ dm.has # << >> => dm.index # FirstIndex

(* Nobody was passed over.                                                 *)
NobodyMissed ==
  ~doubt => /\ \A u \in always : u <= Reached => u \in Users
            /\ dm.does = "finished" => always \subseteq Users

(* Counting rows does not pass over anyone.                                *)
CountsEnough ==
  same /\ spent.errors = 0 /\ dm.does = "asks" =>
    \A i \in 1 .. Len(AllRows) : i <= Place(dm.index) * Records => AllRows[i] <= Reached

(* Nor does it give anyone again who has one card and came.                *)
CountsExactly ==
  same /\ spent.errors = 0 /\ plain /\ OneCardEach /\ dm.does = "asks" =>
    \A i \in 1 .. Len(AllRows) : AllRows[i] <= Reached => i <= Place(dm.index) * Records

(* Types and what ties acud to DM hold in every state by themselves.       *)
Base == UploadTypeOK /\ Together /\ Begun

-----------------------------------------------------------------------------
(* What a chunk does.                                                      *)

Current == [send EXCEPT !.base = IF @ = NoIndex THEN dm.index ELSE @,
                        !.next = IF send.base = NoIndex THEN dm.index ELSE @]
Asked == Chunk(Current, dm.index)
InTurn == InOrder(Current, dm.index)
Counted == ~InTurn /\ dm.index # Current.base
Before == First(Current, dm.index)

(* DM gets n rows of the chunk, or would have.                             *)
Takes(n, lost, got) ==
  /\ dm.does = "asks" /\ send.active
  /\ n \in 0 .. Len(Asked) /\ lost \in BOOLEAN /\ got = SubSeq(Asked, 1, n)
  /\ spent' = [spent EXCEPT !.errors = IF n < Len(Asked) THEN @ + 1 ELSE @,
                            !.lost = IF lost THEN @ + 1 ELSE @]
  /\ send' = Sent(Current, dm.index, got)
  /\ IF lost THEN UNCHANGED dm ELSE Answered(got, Before)
  /\ doubt' = (doubt \/ (Counted /\ (~same \/ spent.errors > 0)) \/ (n = 0 /\ Asked # << >>))
  /\ plain' = (plain /\ (Counted => OneCardEach)
                     /\ (dm'.has = << >> \/ dm'.index # FirstIndex))
  /\ UNCHANGED <<rows, always, same>>

LEMMA ChunkTakes ==
  ASSUME userbin_receive_chunk
  PROVE  \E n, lost, got : Takes(n, lost, got)
<1>1. PICK n \in 0 .. Len(Asked), lost \in BOOLEAN : Takes(n, lost, SubSeq(Asked, 1, n))
  BY DEF userbin_receive_chunk, Takes, Asked, InTurn, Counted, Before, Current
<1> QED BY <1>1

(* Where acud reads: behind the last user DM has, or behind as many rows   *)
(* as the number counts.                                                   *)
Reads(c, n, got) ==
  /\ c \in Nat /\ n \in Nat /\ got \in Seq(Nat) /\ Len(got) = n /\ n <= Len(Asked)
  /\ Len(Asked) \in Nat /\ Len(Asked) <= Records
  /\ Len(Asked) > 0 => c + Len(Asked) <= Len(AllRows)
  /\ Len(Asked) < Records => c + Len(Asked) >= Len(AllRows)
  /\ \A i \in 1 .. n : got[i] = AllRows[c + i]
  /\ InTurn => \A i \in 1 .. Len(AllRows) : AllRows[i] <= Reached <=> i <= c
  /\ InTurn => c <= Len(AllRows)
  /\ ~InTurn => c = Before
  /\ ~InTurn /\ ~Counted => dm.index = FirstIndex
  /\ Before = Place(dm.index) * Records

(* Where acud stands while DM asks.                                        *)
LEMMA CurrentIs ==
  ASSUME UploadTypeOK, Together, dm.does = "asks", send.active
  PROVE  /\ Current.active = TRUE /\ Current.base = FirstIndex /\ Current.last = send.last
         /\ Current.next \in {dm.index, Following(dm.index)}
         /\ Current.next = dm.index => Current.last = Reached
         /\ Current.last = NoId => dm.index = FirstIndex /\ dm.has = << >>
         /\ Current \in [active : BOOLEAN, base : 0 .. NoIndex, next : 0 .. IndexMod - 1,
                         last : Ids \cup {NoId}]
         /\ DOMAIN Current = {"active", "base", "next", "last"}
<1>1. /\ send \in [active : BOOLEAN, base : 0 .. NoIndex, next : 0 .. IndexMod - 1,
                   last : Ids \cup {NoId}]
      /\ dm.index \in 0 .. IndexMod - 1
  BY DEF UploadTypeOK
<1>2. IndexMod \in Nat \ {0} /\ FirstIndex \in 0 .. IndexMod - 1 /\ FirstIndex # NoIndex
  BY RecordsAssumption, FirstIndexAssumption DEF NoIndex
<1>3. /\ Current.active = send.active /\ Current.last = send.last
      /\ Current.base = IF send.base = NoIndex THEN dm.index ELSE send.base
      /\ Current.next = IF send.base = NoIndex THEN dm.index ELSE send.next
      /\ DOMAIN Current = {"active", "base", "next", "last"}
  BY <1>1 DEF Current
<1>4. Current \in [active : BOOLEAN, base : 0 .. NoIndex, next : 0 .. IndexMod - 1,
                   last : Ids \cup {NoId}]
  <2>1. dm.index \in 0 .. NoIndex
    BY <1>1, <1>2 DEF NoIndex
  <2> QED BY <1>1, <2>1 DEF Current
<1>5. CASE send.base = NoIndex
  <2>1. dm.index = FirstIndex /\ dm.has = << >> /\ send.last = NoId
    BY <1>5 DEF Together
  <2>2. Reached = NoId
    BY <2>1 DEF Reached
  <2> QED BY <1>1, <1>3, <1>4, <1>5, <2>1, <2>2
<1>6. CASE send.base # NoIndex
  <2>1. /\ send.base = FirstIndex
        /\ send.next \in {dm.index, Following(dm.index)}
        /\ send.next = dm.index => send.last = Reached
        /\ send.last = NoId => dm.index = FirstIndex /\ dm.has = << >>
    BY <1>6 DEF Together
  <2> QED BY <1>3, <1>4, <1>6, <2>1
<1> QED BY <1>5, <1>6

LEMMA TakesReads ==
  ASSUME UploadTypeOK, Together, NEW n, NEW lost, NEW got, Takes(n, lost, got)
  PROVE  \E c \in Nat : Reads(c, n, got)
<1>1. /\ rows \in [Ids -> 0 .. MaxRows] /\ dm.index \in 0 .. IndexMod - 1
      /\ dm.does = "asks" /\ send.active
  BY DEF UploadTypeOK, Takes
<1>2. PICK s : s = Current
  OBVIOUS
<1>3. /\ s.base = FirstIndex /\ s.last \in Nat
      /\ s.next = dm.index => s.last = Reached
      /\ s.last = NoId => dm.index = FirstIndex
  <2>1. Current.last \in Nat
    BY <1>1, CurrentIs, LastIdAssumption DEF Ids, NoId
  <2> QED BY <1>1, <1>2, <2>1, CurrentIs
<1>4. PICK c \in Nat : IsChunk(Asked, s, dm.index, c)
  <2>1. s.base \in 0 .. IndexMod - 1
    BY <1>3, FirstIndexAssumption
  <2> QED BY <1>1, <1>2, <1>3, <2>1, Chunks DEF Asked
<1>5. PICK part : part = Asked
  OBVIOUS
<1>6. part \in Seq(Nat) /\ Len(part) \in Nat /\ IsSlice(part, AllRows, c)
  BY <1>4, <1>5, LenProperties DEF IsChunk, IsSlice
<1>7. n \in 0 .. Len(part) /\ got = SubSeq(part, 1, n)
  BY <1>5 DEF Takes
<1>8. got \in Seq(Nat) /\ Len(got) = n /\ \A i \in 1 .. n : got[i] = part[i]
  <2>1. n \in Nat /\ n <= Len(part)
    BY <1>6, <1>7
  <2>2. \A i \in 1 .. n : part[i] \in Nat
    BY <1>6, <2>1, ElementOfSeq
  <2>3. 1 \in Nat /\ n \in 0 .. Len(part)
    BY <1>7
  <2>4. got = [i \in 1 .. n |-> part[i]]
    <3>1. got = [i \in 1 .. n - 1 + 1 |-> part[1 + i - 1]]
      BY <1>7, <2>1 DEF SubSeq
    <3>2. n - 1 + 1 = n /\ \A i \in 1 .. n : 1 + i - 1 = i
      BY <2>1
    <3> QED BY <3>1, <3>2
  <2>5. got \in [1 .. n -> Nat]
    BY <2>2, <2>4
  <2>6. got \in Seq(Nat)
    BY <2>1, <2>5, SeqDef
  <2> QED BY <2>1, <2>4, <2>5, <2>6, LenProperties
<1>9. PICK N \in Nat : N = Len(AllRows)
  <2>1. AllRows \in Seq(Nat)
    BY <1>1, RowsOrdered DEF AllRows, Ordered
  <2> QED BY <2>1, LenProperties
<1>10. PICK m \in Nat : m = Len(part)
  BY <1>6
<1>11. m <= Records /\ (m > 0 => c + m <= N) /\ (m < Records => c + m >= N)
  <2>1. m > 0 => m \in 1 .. m
    OBVIOUS
  <2> QED BY <1>6, <1>9, <1>10, <2>1 DEF IsSlice
<1>12. \A i \in 1 .. n : got[i] = AllRows[c + i]
  <2>1. \A i \in 1 .. n : i \in 1 .. m
    BY <1>7, <1>10
  <2>2. \A i \in 1 .. m : part[i] = AllRows[c + i]
    BY <1>6, <1>10 DEF IsSlice
  <2> QED BY <1>8, <2>1, <2>2
<1>13. InTurn => /\ \A i \in 1 .. N : AllRows[i] <= Reached <=> i <= c
                 /\ c <= N
  BY <1>2, <1>3, <1>4, <1>9 DEF InTurn, InOrder, IsChunk
<1>14. ~InTurn => c = Before
  BY <1>2, <1>4 DEF InTurn, Before, IsChunk
<1>15. ~InTurn /\ ~Counted => dm.index = FirstIndex
  BY <1>2, <1>3 DEF Counted
<1>16. Before = Place(dm.index) * Records
  BY <1>2, <1>3 DEF Before, First, Place
<1>17. n \in Nat /\ n <= m
  BY <1>7, <1>10
<1>18. Reads(c, n, got)
  BY <1>5, <1>8, <1>9, <1>10, <1>11, <1>12, <1>13, <1>14, <1>15, <1>16, <1>17 DEF Reads
<1> QED BY <1>18

(* The rows do not change while a chunk is read.                           *)
LEMMA SameRows ==
  ASSUME rows' = rows
  PROVE  AllRows' = AllRows /\ OneCardEach' = OneCardEach /\ Listed' = Listed
BY DEF AllRows, RowsAfter, RowsUpTo, OneCardEach, Listed, Ids

(* All rows are in order, one at least for each in the list.               *)
LEMMA AllOrdered ==
  ASSUME rows \in [Ids -> 0 .. MaxRows]
  PROVE  /\ AllRows \in Seq(Nat) /\ Len(AllRows) \in Nat
         /\ \A i \in 1 .. Len(AllRows) : AllRows[i] \in Ids /\ AllRows[i] \in Listed
         /\ \A i, j \in 1 .. Len(AllRows) :
              i < j => AllRows[i] <= AllRows[j] /\ (OneCardEach => AllRows[i] < AllRows[j])
         /\ \A u \in Listed : \E i \in 1 .. Len(AllRows) : AllRows[i] = u
<1>1. Ordered(AllRows, LastId)
  BY RowsOrdered DEF AllRows
<1>2. AllRows \in Seq(Nat) /\ Len(AllRows) \in Nat
  BY <1>1, LenProperties DEF Ordered
<1>3. \A i \in 1 .. Len(AllRows) : AllRows[i] \in Ids /\ AllRows[i] \in Listed
  BY <1>1 DEF Ordered, Ids, Listed
<1>4. \A u \in Listed : \E i \in 1 .. Len(AllRows) : AllRows[i] = u
  BY <1>1 DEF Ordered, Ids, Listed
<1> QED BY <1>1, <1>2, <1>3, <1>4 DEF Ordered

(* DM has as much as before: the chunk was lost, or empty.                 *)
Stays(n, lost) ==
  /\ dm'.has = dm.has /\ dm'.index = dm.index
  /\ dm'.does = IF lost THEN "asks" ELSE "finished"

(* DM has n rows more, the ones behind the first c.                        *)
Grows(c, n) ==
  /\ n > 0 /\ dm'.does = "asks" /\ dm'.index = Following(dm.index)
  /\ Len(dm.has) \in Nat /\ Len(dm'.has) = Len(dm.has) + n
  /\ \A i \in 1 .. Len(dm.has) : dm'.has[i] = dm.has[i]
  /\ \A i \in 1 .. n : /\ dm'.has[Len(dm.has) + i].user = AllRows[c + i]
                       /\ dm'.has[Len(dm.has) + i].serial = Before + i - 1
  /\ dm'.has # << >> /\ Reached' = AllRows[c + n]

DmTyped == dm \in [does : {"nothing", "asks", "finished"}, index : 0 .. IndexMod - 1,
                   has : Seq([user : Ids, serial : Nat])]

LEMMA TakesStays ==
  ASSUME UploadTypeOK, NEW n, NEW lost, NEW got, NEW c, Takes(n, lost, got), Reads(c, n, got),
         lost \/ n = 0
  PROVE  Stays(n, lost)
<1>1. lost \in BOOLEAN /\ dm.does = "asks"
  BY DEF Takes
<1>2. CASE lost
  <2>1. dm' = dm
    BY <1>2 DEF Takes
  <2> QED BY <1>1, <1>2, <2>1 DEF Stays
<1>3. CASE ~lost
  <2>1. got = << >>
    BY <1>3, EmptySeq DEF Reads
  <2>2. dm' = [dm EXCEPT !.does = "finished"]
    BY <1>3, <2>1 DEF Takes, Answered
  <2> QED BY <1>3, <2>2 DEF Stays, UploadTypeOK
<1> QED BY <1>2, <1>3

LEMMA TakesGrows ==
  ASSUME UploadTypeOK, Together, NEW n, NEW lost, NEW got, NEW c, Takes(n, lost, got),
         Reads(c, n, got), ~lost, n > 0
  PROVE  Grows(c, n) /\ DmTyped'
<1>1. /\ n \in Nat /\ c \in Nat /\ got \in Seq(Nat) /\ Len(got) = n
      /\ \A i \in 1 .. n : got[i] = AllRows[c + i]
  BY DEF Reads
<1>2. /\ rows \in [Ids -> 0 .. MaxRows] /\ dm.index \in 0 .. IndexMod - 1 /\ dm.does = "asks"
      /\ dm.has \in Seq([user : Ids, serial : Nat])
      /\ dm \in [does : {"nothing", "asks", "finished"}, index : 0 .. IndexMod - 1,
                 has : Seq([user : Ids, serial : Nat])]
  BY DEF UploadTypeOK, Takes
<1>3. PICK b \in Nat : b = Before
  <2>1. PICK p \in Nat : p = Place(dm.index)
    BY <1>2, Places
  <2>2. p * Records \in Nat
    BY <2>1, RecordsAssumption
  <2> QED BY <2>1, <2>2 DEF Reads
<1>4. got # << >>
  BY <1>1, EmptySeq
<1>5. PICK h : h = Numbered(got, b)
  OBVIOUS
<1>6. dm' = [dm EXCEPT !.index = (@ + 1) % IndexMod, !.has = @ \o h]
  BY <1>3, <1>4, <1>5 DEF Takes, Answered
<1>7. /\ h \in Seq([user : Ids, serial : Nat]) /\ Len(h) = n
      /\ \A i \in 1 .. n : h[i].user = AllRows[c + i] /\ h[i].serial = b + i - 1
  <2>1. DOMAIN got = 1 .. n
    BY <1>1, LenProperties
  <2>2. h = [i \in 1 .. n |-> [user |-> got[i], serial |-> b + i - 1]]
    BY <1>5, <2>1 DEF Numbered
  <2>3. \A i \in 1 .. n : c + i \in 1 .. Len(AllRows)
    <3>1. PICK m \in Nat : m = Len(Asked)
      BY DEF Reads
    <3>2. PICK N \in Nat : N = Len(AllRows)
      BY <1>2, AllOrdered
    <3>3. n <= m /\ c + m <= N
      BY <1>1, <3>1, <3>2 DEF Reads
    <3> QED BY <1>1, <3>2, <3>3
  <2>4. \A i \in 1 .. n : got[i] \in Ids
    BY <1>1, <1>2, <2>3, AllOrdered
  <2>5. \A i \in 1 .. n : b + i - 1 \in Nat
    BY <1>1
  <2>6. h \in [1 .. n -> [user : Ids, serial : Nat]]
    BY <2>2, <2>4, <2>5
  <2>7. h \in Seq([user : Ids, serial : Nat]) /\ Len(h) = n
    <3>1. PICK T : T = [user : Ids, serial : Nat]
      OBVIOUS
    <3>2. PICK k \in Nat : k = n
      BY <1>1
    <3>3. h \in [1 .. k -> T]
      BY <2>6, <3>1, <3>2
    <3>4. h \in Seq(T)
      BY <3>2, <3>3, SeqDef
    <3>5. Len(h) = k
      BY <3>2, <3>3, <3>4, LenProperties
    <3> QED BY <3>1, <3>2, <3>4, <3>5
  <2>8. \A i \in 1 .. n : h[i].user = AllRows[c + i] /\ h[i].serial = b + i - 1
    BY <1>1, <2>2
  <2> QED BY <2>7, <2>8
<1>8. PICK L \in Nat : L = Len(dm.has)
  BY <1>2, LenProperties
<1>9. PICK g : g = dm.has \o h
  OBVIOUS
<1>10. /\ g \in Seq([user : Ids, serial : Nat]) /\ Len(g) = L + n
       /\ \A i \in 1 .. L + n : g[i] = IF i <= L THEN dm.has[i] ELSE h[i - L]
  <2>1. PICK T : T = [user : Ids, serial : Nat]
    OBVIOUS
  <2>2. PICK f \in Seq(T) : f = dm.has
    BY <1>2, <2>1
  <2>3. h \in Seq(T) /\ Len(h) = n /\ Len(f) = L /\ g = f \o h
    BY <1>7, <1>8, <1>9, <2>1, <2>2
  <2>4. g \in Seq(T) /\ Len(g) = L + n
    BY <2>2, <2>3, ConcatProperties
  <2>5. \A i \in 1 .. L + n : g[i] = IF i <= L THEN f[i] ELSE h[i - L]
    BY <2>2, <2>3, ConcatProperties
  <2> QED BY <2>1, <2>2, <2>4, <2>5
<1>11. \A i \in 1 .. L : g[i] = dm.has[i]
  BY <1>1, <1>10
<1>12. ASSUME NEW i \in 1 .. n
       PROVE  g[L + i].user = AllRows[c + i] /\ g[L + i].serial = b + i - 1
  <2>1. L + i \in 1 .. L + n /\ ~(L + i <= L) /\ (L + i) - L = i
    BY <1>1
  <2>2. g[L + i] = h[i]
    BY <1>10, <2>1
  <2> QED BY <1>7, <2>2
<1>13. dm'.does = "asks" /\ dm'.index = Following(dm.index) /\ dm'.has = g
  BY <1>2, <1>6, <1>9 DEF Following
<1>14. g # << >> /\ g[L + n].user = AllRows[c + n]
  <2>1. n \in 1 .. n
    BY <1>1
  <2>2. Len(g) # 0
    BY <1>1, <1>10
  <2> QED BY <1>12, <2>1, <2>2, EmptySeq
<1>15. Reached' = AllRows[c + n]
  BY <1>10, <1>13, <1>14 DEF Reached
<1>16. Grows(c, n)
  BY <1>3, <1>8, <1>10, <1>11, <1>12, <1>13, <1>14, <1>15 DEF Grows
<1>17. Following(dm.index) \in 0 .. IndexMod - 1
  BY <1>2, Places
<1>18. DmTyped'
  BY <1>2, <1>6, <1>9, <1>10, <1>17 DEF Following, DmTyped
<1> QED BY <1>16, <1>18

(* acud remembers the last user of the chunk.                              *)
Moves(c, n) ==
  /\ n = 0 => send' = Current
  /\ n > 0 => /\ send'.active = TRUE /\ send'.base = FirstIndex
              /\ send'.next = Following(dm.index)
              /\ send'.last = AllRows[c + n] /\ AllRows[c + n] \in Ids
  /\ send' \in [active : BOOLEAN, base : 0 .. NoIndex, next : 0 .. IndexMod - 1,
                last : Ids \cup {NoId}]

LEMMA TakesSends ==
  ASSUME UploadTypeOK, Together, NEW n, NEW lost, NEW got, NEW c, Takes(n, lost, got),
         Reads(c, n, got)
  PROVE  Moves(c, n)
<1>1. /\ n \in Nat /\ c \in Nat /\ got \in Seq(Nat) /\ Len(got) = n
      /\ \A i \in 1 .. n : got[i] = AllRows[c + i]
  BY DEF Reads
<1>2. /\ Current.active = TRUE /\ Current.base = FirstIndex
      /\ Current \in [active : BOOLEAN, base : 0 .. NoIndex, next : 0 .. IndexMod - 1,
                      last : Ids \cup {NoId}]
  BY CurrentIs DEF Takes
<1>3. send' = Sent(Current, dm.index, got)
  BY DEF Takes
<1>4. CASE n = 0
  <2>1. got = << >>
    BY <1>1, <1>4, EmptySeq
  <2>2. send' = Current
    BY <1>3, <2>1 DEF Sent
  <2> QED BY <1>2, <1>4, <2>2 DEF Moves
<1>5. CASE n > 0
  <2>1. got # << >>
    BY <1>1, <1>5, EmptySeq
  <2>2. Last(got) = AllRows[c + n]
    <3>1. n \in 1 .. n
      BY <1>1, <1>5
    <3> QED BY <1>1, <3>1 DEF Last
  <2>3. AllRows[c + n] \in Ids
    <3>1. PICK m \in Nat : m = Len(Asked)
      BY DEF Reads
    <3>2. PICK N \in Nat : N = Len(AllRows)
      BY AllOrdered DEF UploadTypeOK
    <3>3. n <= m /\ c + m <= N
      BY <1>1, <1>5, <3>1, <3>2 DEF Reads
    <3>4. c + n \in 1 .. N
      BY <1>1, <1>5, <3>2, <3>3
    <3> QED BY <3>2, <3>4, AllOrdered DEF UploadTypeOK
  <2>4. send' = [Current EXCEPT !.last = AllRows[c + n], !.next = Following(dm.index)]
    BY <1>3, <2>1, <2>2 DEF Sent, Following
  <2>5. Following(dm.index) \in 0 .. IndexMod - 1
    BY Places DEF UploadTypeOK
  <2>6. PICK u \in Ids : u = AllRows[c + n]
    BY <2>3
  <2>7. PICK f \in 0 .. IndexMod - 1 : f = Following(dm.index)
    BY <2>5
  <2>8. send' = [Current EXCEPT !.last = u, !.next = f]
    BY <2>4, <2>6, <2>7
  <2>9. /\ send'.active = TRUE /\ send'.base = FirstIndex /\ send'.next = f /\ send'.last = u
        /\ send' \in [active : BOOLEAN, base : 0 .. NoIndex, next : 0 .. IndexMod - 1,
                      last : Ids \cup {NoId}]
    BY <1>2, <2>8
  <2> QED BY <1>5, <2>6, <2>7, <2>9 DEF Moves
<1> QED BY <1>1, <1>4, <1>5

-----------------------------------------------------------------------------
(* A chunk keeps every part of the invariant.                              *)

(* The numbers of a chunk and of all rows, and what they say.              *)
Figures(c, n, lost, N, m, b, p, R) ==
  /\ N = Len(AllRows) /\ m = Len(Asked) /\ b = Before /\ p = Place(dm.index)
  /\ R = Reached /\ b = p * Records /\ n \in Nat /\ c \in Nat /\ n <= m /\ m <= Records
  /\ m > 0 => c + m <= N
  /\ m < Records => c + m >= N
  /\ ((lost \/ n = 0) /\ Stays(n, lost)) \/ (~lost /\ Grows(c, n))
  /\ dm.does = "asks" /\ dm.index \in 0 .. IndexMod - 1
  /\ rows \in [Ids -> 0 .. MaxRows] /\ rows' = rows

LEMMA Numbers ==
  ASSUME UploadTypeOK, Together, NEW n, NEW lost, NEW got, NEW c,
         Takes(n, lost, got), Reads(c, n, got)
  PROVE  \E N, m, b, p, R \in Nat : Figures(c, n, lost, N, m, b, p, R)
<1>1. /\ rows \in [Ids -> 0 .. MaxRows] /\ dm.index \in 0 .. IndexMod - 1
      /\ dm.has \in Seq([user : Ids, serial : Nat])
      /\ dm.does = "asks" /\ rows' = rows
  BY DEF UploadTypeOK, Takes
<1>2. PICK N \in Nat : N = Len(AllRows)
  BY <1>1, AllOrdered
<1>3. PICK m \in Nat : m = Len(Asked)
  BY DEF Reads
<1>4. PICK p \in Nat : p = Place(dm.index)
  BY <1>1, Places
<1>5. PICK b \in Nat : b = Before /\ b = p * Records
  <2>1. p * Records \in Nat
    BY <1>4, RecordsAssumption
  <2> QED BY <1>4, <2>1 DEF Reads
<1>6. PICK R \in Nat : R = Reached
  <2>1. CASE dm.has = << >>
    BY <2>1 DEF Reached, NoId
  <2>2. CASE dm.has # << >>
    <3>1. PICK f : f = dm.has
      OBVIOUS
    <3>2. f \in Seq([user : Ids, serial : Nat]) /\ f # << >>
      BY <1>1, <2>2, <3>1
    <3>3. Len(f) \in 1 .. Len(f)
      BY <3>2, LenProperties, EmptySeq
    <3>4. f[Len(f)] \in [user : Ids, serial : Nat]
      BY <3>2, <3>3, ElementOfSeq
    <3>5. f[Len(f)].user \in Nat
      BY <3>4 DEF Ids
    <3> QED BY <2>2, <3>1, <3>5 DEF Reached
  <2> QED BY <2>1, <2>2
<1>7. /\ n \in Nat /\ c \in Nat /\ n <= m /\ m <= Records
      /\ m > 0 => c + m <= N
      /\ m < Records => c + m >= N
  BY <1>2, <1>3 DEF Reads
<1>8. ((lost \/ n = 0) /\ Stays(n, lost)) \/ (~lost /\ Grows(c, n))
  <2>1. CASE lost \/ n = 0
    BY <2>1, TakesStays
  <2>2. CASE ~(lost \/ n = 0)
    <3>1. ~lost /\ n > 0
      BY <1>7, <2>2
    <3> QED BY <3>1, TakesGrows
  <2> QED BY <2>1, <2>2
<1>9. Figures(c, n, lost, N, m, b, p, R)
  BY <1>1, <1>2, <1>3, <1>4, <1>5, <1>6, <1>7, <1>8 DEF Figures
<1> QED BY <1>9

(* Behind the rows that acud passes over nobody has been missed.           *)
LEMMA Covers ==
  ASSUME UploadTypeOK, Together, CountsEnough, NEW n, NEW lost, NEW got, NEW c,
         Takes(n, lost, got), Reads(c, n, got), Counted => same /\ spent.errors = 0,
         NEW i \in 1 .. Len(AllRows), i <= c
  PROVE  AllRows[i] <= Reached
<1>0. PICK N, m, b, p, R \in Nat : Figures(c, n, lost, N, m, b, p, R)
  BY Numbers
<1>1. /\ N = Len(AllRows) /\ m = Len(Asked) /\ b = Before /\ p = Place(dm.index)
      /\ R = Reached /\ b = p * Records /\ c \in Nat
      /\ dm.does = "asks" /\ dm.index \in 0 .. IndexMod - 1
  BY <1>0 DEF Figures
<1>2. CASE InTurn
  BY <1>1, <1>2 DEF Reads
<1>3. CASE Counted
  <2>1. c = b /\ same /\ spent.errors = 0
    BY <1>1, <1>3 DEF Reads, Counted
  <2> QED BY <1>1, <2>1 DEF CountsEnough
<1>4. CASE ~InTurn /\ ~Counted
  <2>1. p = 0 /\ c = b
    BY <1>1, <1>4, Places DEF Reads
  <2>2. c = 0
    <3>1. PICK r \in Nat : r = Records
      BY RecordsAssumption
    <3>2. c = 0 * r
      BY <1>1, <2>1, <3>1
    <3> QED BY <3>1, <3>2
  <2> QED BY <1>1, <2>2
<1> QED BY <1>2, <1>3, <1>4

(* Nor is anyone who came among those behind.                              *)
LEMMA Follows ==
  ASSUME Base, CountsExactly, NEW n, NEW lost, NEW got, NEW c,
         Takes(n, lost, got), Reads(c, n, got), plain, Counted => OneCardEach,
         Counted => same /\ spent.errors = 0, dm.has # << >>,
         NEW i \in 1 .. Len(AllRows), i > c
  PROVE  AllRows[i] > Reached
<1>0. PICK N, m, b, p, R \in Nat : Figures(c, n, lost, N, m, b, p, R)
  BY Numbers DEF Base
<1>1. /\ N = Len(AllRows) /\ m = Len(Asked) /\ b = Before /\ p = Place(dm.index)
      /\ R = Reached /\ b = p * Records /\ c \in Nat
      /\ dm.does = "asks" /\ dm.index \in 0 .. IndexMod - 1
      /\ rows \in [Ids -> 0 .. MaxRows]
  BY <1>0 DEF Figures
<1>2. PICK u \in Nat : u = AllRows[i]
  BY <1>1, AllOrdered DEF Ids
<1>3. CASE InTurn
  <2>1. u <= R <=> i <= c
    BY <1>1, <1>2, <1>3 DEF Reads
  <2> QED BY <1>1, <1>2, <2>1
<1>4. CASE Counted
  <2>1. c = b /\ same /\ spent.errors = 0 /\ OneCardEach
    BY <1>1, <1>4 DEF Reads, Counted
  <2>2. u <= R => i <= b
    BY <1>1, <1>2, <2>1 DEF CountsExactly
  <2> QED BY <1>1, <1>2, <2>1, <2>2
<1>5. CASE ~InTurn /\ ~Counted
  <2>1. dm.index = FirstIndex
    BY <1>5 DEF Reads
  <2> QED BY <2>1 DEF Base, Begun
<1> QED BY <1>3, <1>4, <1>5

(* Where nobody has two cards and nothing changes, the number of a chunk   *)
(* is its place.                                                           *)
LEMMA Counts ==
  ASSUME Base, CountsEnough, CountsExactly, NEW n, NEW lost, NEW got, NEW c,
         Takes(n, lost, got), Reads(c, n, got), plain, OneCardEach, same, spent.errors = 0
  PROVE  c <= Before /\ (n > 0 => c = Before)
<1>0. PICK N, m, b, p, R \in Nat : Figures(c, n, lost, N, m, b, p, R)
  BY Numbers DEF Base
<1>1. /\ N = Len(AllRows) /\ m = Len(Asked) /\ b = Before /\ p = Place(dm.index)
      /\ R = Reached /\ b = p * Records /\ n \in Nat /\ c \in Nat /\ n <= m
      /\ m > 0 => c + m <= N
      /\ dm.does = "asks" /\ dm.index \in 0 .. IndexMod - 1
      /\ rows \in [Ids -> 0 .. MaxRows]
  BY <1>0 DEF Figures
<1>2. CASE ~InTurn
  BY <1>1, <1>2 DEF Reads
<1>3. CASE InTurn
  <2>1. c <= N /\ \A i \in 1 .. N : AllRows[i] <= R <=> i <= c
    BY <1>1, <1>3 DEF Reads
  <2>2. \A i \in 1 .. N : AllRows[i] <= R => i <= b
    BY <1>1 DEF CountsExactly
  <2>3. \A i \in 1 .. N : i <= b => AllRows[i] <= R
    BY <1>1 DEF CountsEnough
  <2>4. c <= b
    <3>1. c > 0 => c \in 1 .. N
      BY <1>1, <2>1
    <3> QED BY <1>1, <2>1, <2>2, <3>1
  <2>5. n > 0 => c >= b
    <3> SUFFICES ASSUME n > 0, ~(c >= b) PROVE FALSE
      BY <1>1
    <3>1. c + 1 \in 1 .. N /\ c + 1 <= b /\ ~(c + 1 <= c)
      BY <1>1
    <3> QED BY <2>1, <2>3, <3>1
  <2> QED BY <1>1, <2>4, <2>5
<1> QED BY <1>2, <1>3

LEMMA ChunkTogether ==
  ASSUME Base, NEW n, NEW lost, NEW got, NEW c, Takes(n, lost, got), Reads(c, n, got)
  PROVE  Together'
<1>1. n \in Nat /\ dm.index \in 0 .. IndexMod - 1 /\ dm.does = "asks" /\ send.active
  BY DEF Reads, Base, UploadTypeOK, Takes
<1>2. Moves(c, n)
  BY TakesSends DEF Base
<1>3. Following(dm.index) # dm.index
  BY <1>1, Places
<1>4. FirstIndex # NoIndex
  BY RecordsAssumption, FirstIndexAssumption DEF NoIndex
<1>5. /\ Current.base = FirstIndex /\ Current.next \in {dm.index, Following(dm.index)}
      /\ Current.next = dm.index => Current.last = Reached
      /\ Current.last = NoId => dm.index = FirstIndex /\ dm.has = << >>
  BY <1>1, CurrentIs DEF Base
<1>6. NoId \notin Ids
  BY DEF NoId, Ids
<1>7. CASE lost \/ n = 0
  <2>1. Stays(n, lost)
    BY <1>7, TakesStays DEF Base
  <2>2. CASE n = 0
    <3>1. send' = Current
      BY <1>2, <2>2 DEF Moves
    <3>2. Reached' = Reached
      BY <2>1 DEF Stays, Reached
    <3> QED BY <1>4, <1>5, <2>1, <3>1, <3>2 DEF Together, Stays
  <2>3. CASE n > 0
    <3>1. send'.base = FirstIndex /\ send'.next = Following(dm.index) /\ send'.last # NoId
      BY <1>2, <1>6, <2>3 DEF Moves
    <3> QED BY <1>3, <1>4, <2>1, <3>1 DEF Together, Stays
  <2> QED BY <1>1, <2>2, <2>3
<1>8. CASE ~lost /\ n > 0
  <2>1. Grows(c, n)
    BY <1>8, TakesGrows DEF Base
  <2>2. /\ send'.base = FirstIndex /\ send'.next = Following(dm.index)
        /\ send'.last = AllRows[c + n] /\ send'.last # NoId
    BY <1>2, <1>6, <1>8 DEF Moves
  <2> QED BY <1>4, <2>1, <2>2 DEF Together, Grows
<1> QED BY <1>1, <1>7, <1>8

LEMMA ChunkTyped ==
  ASSUME Base, NEW n, NEW lost, NEW got, NEW c, Takes(n, lost, got), Reads(c, n, got)
  PROVE  UploadTypeOK' /\ Begun'
<1>1. /\ UploadTypeOK /\ Together /\ n \in Nat
      /\ dm \in [does : {"nothing", "asks", "finished"}, index : 0 .. IndexMod - 1,
                 has : Seq([user : Ids, serial : Nat])]
  BY DEF Reads, Base, UploadTypeOK
<1>2. send' \in [active : BOOLEAN, base : 0 .. NoIndex, next : 0 .. IndexMod - 1,
                 last : Ids \cup {NoId}]
  BY <1>1, TakesSends DEF Moves
<1>3. /\ rows' \in [Ids -> 0 .. MaxRows] /\ always' \subseteq Listed' /\ same' \in BOOLEAN
  BY SameRows DEF Takes, Base, UploadTypeOK
<1>4. spent' \in [{"starts", "changes", "lost", "errors"} -> Nat]
  <2>1. spent \in [{"starts", "changes", "lost", "errors"} -> Nat]
    BY <1>1 DEF UploadTypeOK
  <2>2. PICK e \in Nat : e = IF n < Len(Asked) THEN spent.errors + 1 ELSE spent.errors
    BY <2>1
  <2>3. PICK l \in Nat : l = IF lost THEN spent.lost + 1 ELSE spent.lost
    BY <2>1
  <2>4. spent' = [spent EXCEPT !.errors = e, !.lost = l]
    BY <2>2, <2>3 DEF Takes
  <2> QED BY <2>1, <2>4
<1>5. doubt' \in BOOLEAN /\ plain' \in BOOLEAN
  BY DEF Takes
<1>6. DmTyped'
  <2>1. CASE lost
    <3>1. dm' = dm
      BY <2>1 DEF Takes
    <3> QED BY <1>1, <3>1 DEF DmTyped
  <2>2. CASE ~lost /\ n = 0
    <3>1. got = << >>
      BY <2>2, EmptySeq DEF Reads
    <3>2. dm' = [dm EXCEPT !.does = "finished"]
      BY <2>2, <3>1 DEF Takes, Answered
    <3> QED BY <1>1, <3>2 DEF DmTyped
  <2>3. CASE ~lost /\ n > 0
    BY <1>1, <2>3, TakesGrows
  <2> QED BY <1>1, <2>1, <2>2, <2>3
<1>7. Begun'
  <2>1. plain' /\ dm'.has # << >> => dm'.index # FirstIndex
    BY DEF Takes
  <2>2. dm'.has = << >> => dm'.index = FirstIndex
    <3>1. CASE lost \/ n = 0
      BY <1>1, <3>1, TakesStays DEF Stays, Base, Begun
    <3>2. CASE ~(lost \/ n = 0)
      BY <1>1, <3>2, TakesGrows DEF Grows
    <3> QED BY <3>1, <3>2
  <2> QED BY <2>1, <2>2 DEF Begun
<1> QED BY <1>2, <1>3, <1>4, <1>5, <1>6, <1>7 DEF UploadTypeOK, DmTyped

(* Whom DM has.                                                            *)
LEMMA UsersGrow ==
  ASSUME UploadTypeOK, UploadTypeOK', NEW n \in Nat, NEW c \in Nat, Grows(c, n)
  PROVE  Users \subseteq Users' /\ \A j \in 1 .. n : AllRows[c + j] \in Users'
<1>1. PICK L \in Nat : /\ L = Len(dm.has) /\ DOMAIN dm.has = 1 .. L
                       /\ DOMAIN dm'.has = 1 .. L + n
  <2>1. PICK L \in Nat : L = Len(dm.has)
    BY DEF Grows
  <2>2. DOMAIN dm.has = 1 .. L
    BY <2>1, LenProperties DEF UploadTypeOK
  <2>3. DOMAIN dm'.has = 1 .. Len(dm'.has)
    BY LenProperties DEF UploadTypeOK
  <2>4. Len(dm'.has) = L + n
    BY <2>1 DEF Grows
  <2> QED BY <2>1, <2>2, <2>3, <2>4
<1>2. Users \subseteq Users'
  <2>1. \A i \in 1 .. L : i \in 1 .. L + n /\ dm'.has[i] = dm.has[i]
    BY <1>1 DEF Grows
  <2> QED BY <1>1, <2>1 DEF Users
<1>3. ASSUME NEW j \in 1 .. n PROVE AllRows[c + j] \in Users'
  <2>1. L + j \in 1 .. L + n
    BY <1>1
  <2>2. dm'.has[L + j].user = AllRows[c + j]
    BY <1>1 DEF Grows
  <2> QED BY <1>1, <2>1, <2>2 DEF Users
<1> QED BY <1>2, <1>3

LEMMA ChunkMissesNobody ==
  ASSUME Base, NobodyMissed, CountsEnough, NEW n, NEW lost, NEW got, NEW c,
         Takes(n, lost, got), Reads(c, n, got)
  PROVE  NobodyMissed'
<1>0. PICK N, m, b, p, R \in Nat : Figures(c, n, lost, N, m, b, p, R)
  BY Numbers DEF Base
<1>1. /\ N = Len(AllRows) /\ m = Len(Asked) /\ b = Before /\ p = Place(dm.index)
      /\ R = Reached /\ n \in Nat /\ c \in Nat /\ n <= m
      /\ m > 0 => c + m <= N
      /\ m < Records => c + m >= N
      /\ ((lost \/ n = 0) /\ Stays(n, lost)) \/ (~lost /\ Grows(c, n))
      /\ dm.does = "asks"
      /\ rows \in [Ids -> 0 .. MaxRows]
  BY <1>0 DEF Figures
<1>2. SUFFICES ASSUME ~doubt'
               PROVE  /\ \A u \in always : u <= Reached' => u \in Users'
                      /\ dm'.does = "finished" => always \subseteq Users'
  BY DEF NobodyMissed, Takes
<1>3. /\ ~doubt /\ (Counted => same /\ spent.errors = 0)
      /\ n = 0 => Asked = << >>
  <2>1. spent.errors \in Nat
    BY DEF Base, UploadTypeOK
  <2>2. doubt' = \/ doubt \/ (Counted /\ (~same \/ spent.errors > 0))
                 \/ (n = 0 /\ Asked # << >>)
    BY DEF Takes
  <2> QED BY <1>2, <2>1, <2>2
<1>4. \A u \in always : u <= R => u \in Users
  BY <1>1, <1>3 DEF NobodyMissed
<1>5. \A i \in 1 .. N : i <= c => AllRows[i] <= R
  BY <1>1, <1>3, Covers DEF Base
<1>6. \A u \in always : u \in Nat /\ \E i \in 1 .. N : AllRows[i] = u
  <2>1. always \subseteq Listed
    BY DEF Base, UploadTypeOK
  <2> QED BY <1>1, <2>1, AllOrdered DEF Listed, Ids
<1>7. CASE (lost \/ n = 0) /\ Stays(n, lost)
  <2>1. Reached' = Reached /\ Users' = Users
    BY <1>7 DEF Stays, Reached, Users
  <2>2. CASE lost
    BY <1>1, <1>4, <1>7, <2>1, <2>2 DEF Stays
  <2>3. CASE ~lost
    <3>1. m = 0 /\ N <= c
      <4>1. m = 0
        BY <1>1, <1>3, <1>7, <2>3, EmptySeq
      <4> QED BY <1>1, <4>1, RecordsAssumption
    <3>2. ASSUME NEW u \in always PROVE u \in Users
      <4>1. PICK i \in 1 .. N : AllRows[i] = u
        BY <1>6
      <4>2. i <= c
        BY <1>1, <3>1
      <4> QED BY <1>4, <1>5, <4>1, <4>2
    <3> QED BY <2>1, <3>2
  <2> QED BY <2>2, <2>3
<1>8. CASE ~lost /\ Grows(c, n)
  <2>1. Users \subseteq Users' /\ \A j \in 1 .. n : AllRows[c + j] \in Users'
    <3>1. UploadTypeOK'
      BY ChunkTyped
    <3> QED BY <1>1, <1>8, <3>1, UsersGrow DEF Base
  <2>2. n > 0 /\ c + n \in 1 .. N /\ Reached' = AllRows[c + n] /\ dm'.does = "asks"
    BY <1>1, <1>8 DEF Grows
  <2>3. ASSUME NEW u \in always, u <= Reached' PROVE u \in Users'
    <3>1. PICK i \in 1 .. N : AllRows[i] = u
      BY <1>6
    <3>2. CASE i <= c
      BY <1>4, <1>5, <2>1, <3>1, <3>2
    <3>3. CASE i > c /\ i <= c + n
      <4>1. PICK j \in 1 .. n : c + j = i
        <5>1. i - c \in 1 .. n /\ c + (i - c) = i
          BY <1>1, <3>3
        <5> QED BY <5>1
      <4> QED BY <2>1, <3>1, <4>1
    <3>4. CASE i > c + n
      <4>1. PICK k \in 1 .. N : k = c + n
        BY <2>2
      <4>2. AllRows[k] <= AllRows[i] /\ AllRows[k] \in Nat
        BY <1>1, <3>4, <4>1, AllOrdered DEF Ids
      <4>3. u = AllRows[k] /\ n \in 1 .. n
        BY <1>1, <1>6, <2>2, <2>3, <3>1, <4>1, <4>2
      <4> QED BY <2>1, <4>1, <4>3
    <3> QED BY <1>1, <3>2, <3>3, <3>4
  <2> QED BY <2>2, <2>3
<1> QED BY <1>1, <1>7, <1>8

(* Errors are not forgotten.                                               *)
LEMMA NoErrors ==
  ASSUME UploadTypeOK, NEW n, NEW lost, NEW got, Takes(n, lost, got), spent'.errors = 0,
         n \in Nat, Len(Asked) \in Nat
  PROVE  spent.errors = 0 /\ n = Len(Asked)
<1>1. spent \in [{"starts", "changes", "lost", "errors"} -> Nat]
  BY DEF UploadTypeOK
<1>2. spent'.errors = IF n < Len(Asked) THEN spent.errors + 1 ELSE spent.errors
  BY <1>1 DEF Takes
<1>3. n <= Len(Asked)
  BY DEF Takes
<1>4. spent.errors \in Nat
  BY <1>1
<1> QED BY <1>2, <1>3, <1>4

LEMMA ChunkCountsEnough ==
  ASSUME Base, CountsEnough, NEW n, NEW lost, NEW got, NEW c,
         Takes(n, lost, got), Reads(c, n, got)
  PROVE  CountsEnough'
<1>0. PICK N, m, b, p, R \in Nat : Figures(c, n, lost, N, m, b, p, R)
  BY Numbers DEF Base
<1>1. /\ N = Len(AllRows) /\ m = Len(Asked) /\ b = Before /\ p = Place(dm.index)
      /\ R = Reached /\ b = p * Records /\ n \in Nat /\ c \in Nat
      /\ m > 0 => c + m <= N
      /\ m < Records => c + m >= N
      /\ ((lost \/ n = 0) /\ Stays(n, lost)) \/ (~lost /\ Grows(c, n))
      /\ dm.does = "asks" /\ dm.index \in 0 .. IndexMod - 1
      /\ rows \in [Ids -> 0 .. MaxRows] /\ rows' = rows
  BY <1>0 DEF Figures
<1>2. SUFFICES ASSUME same', spent'.errors = 0, dm'.does = "asks",
                      NEW i \in 1 .. N, i <= Place(dm'.index) * Records
               PROVE  AllRows[i] <= Reached'
  <2>1. AllRows' = AllRows
    BY <1>1, SameRows
  <2>2. Place(dm.index)' = Place(dm'.index)
    BY DEF Place
  <2> QED BY <1>1, <2>1, <2>2 DEF CountsEnough
<1>3. same /\ spent.errors = 0 /\ n = m
  BY <1>1, <1>2, NoErrors DEF Takes, Base
<1>4. \A j \in 1 .. N : j <= b => AllRows[j] <= R
  BY <1>1, <1>3 DEF CountsEnough
<1>5. CASE (lost \/ n = 0) /\ Stays(n, lost)
  BY <1>1, <1>2, <1>4, <1>5 DEF Stays, Reached
<1>6. CASE ~lost /\ Grows(c, n)
  <2>1. n > 0 /\ Reached' = AllRows[c + n] /\ dm'.index = Following(dm.index)
    BY <1>6 DEF Grows
  <2>2. PICK r \in Nat \ {0} : r = Records
    BY RecordsAssumption
  <2>3. i <= b + r
    <3>1. PICK q \in Nat : q = Place(dm'.index) /\ (q = 0 \/ q = p + 1)
      <4>1. Place(Following(dm.index)) = IF Following(dm.index) = FirstIndex THEN 0 ELSE p + 1
        BY <1>1, Places
      <4> QED BY <1>1, <2>1, <4>1
    <3>2. i <= q * r
      BY <1>2, <2>2, <3>1
    <3>3. CASE q = 0
      <4>1. i <= 0
        BY <2>2, <3>2, <3>3
      <4> QED BY <4>1
    <3>4. CASE q = p + 1
      <4>1. (p + 1) * r = b + r
        BY <1>1, <2>2
      <4> QED BY <3>2, <3>4, <4>1
    <3> QED BY <3>1, <3>3, <3>4
  <2>4. i <= c + n
    <3>1. CASE n < r
      BY <1>1, <1>3, <2>2, <3>1
    <3>2. CASE ~(n < r)
      <4>1. n >= r /\ c + 1 \in 1 .. N
        BY <1>1, <1>3, <2>1, <2>2, <3>2
      <4>2. CASE b <= c
        BY <1>1, <2>2, <2>3, <4>1, <4>2
      <4>3. CASE ~(b <= c)
        <5>1. c + 1 <= b
          BY <1>1, <4>3
        <5>2. InTurn
          BY <1>1, <4>3 DEF Reads
        <5>3. AllRows[c + 1] <= R
          BY <1>4, <4>1, <5>1
        <5>4. c + 1 <= c
          BY <1>1, <4>1, <5>2, <5>3 DEF Reads
        <5> QED BY <1>1, <5>4
      <4> QED BY <4>2, <4>3
    <3> QED BY <3>1, <3>2
  <2>5. PICK k \in 1 .. N : k = c + n
    BY <1>1, <1>3, <2>1
  <2>6. i < k => AllRows[i] <= AllRows[k]
    BY <1>1, AllOrdered
  <2>7. i = k => AllRows[i] <= AllRows[k]
    BY <1>1, AllOrdered DEF Ids
  <2> QED BY <2>1, <2>4, <2>5, <2>6, <2>7
<1> QED BY <1>1, <1>5, <1>6

LEMMA ChunkCountsExactly ==
  ASSUME Base, CountsEnough, CountsExactly, NEW n, NEW lost, NEW got, NEW c,
         Takes(n, lost, got), Reads(c, n, got)
  PROVE  CountsExactly'
<1>0. PICK N, m, b, p, R \in Nat : Figures(c, n, lost, N, m, b, p, R)
  BY Numbers DEF Base
<1>1. /\ N = Len(AllRows) /\ m = Len(Asked) /\ b = Before /\ p = Place(dm.index)
      /\ R = Reached /\ b = p * Records /\ n \in Nat /\ c \in Nat /\ n <= m /\ m <= Records
      /\ m > 0 => c + m <= N
      /\ ((lost \/ n = 0) /\ Stays(n, lost)) \/ (~lost /\ Grows(c, n))
      /\ dm.does = "asks" /\ dm.index \in 0 .. IndexMod - 1
      /\ rows \in [Ids -> 0 .. MaxRows] /\ rows' = rows
  BY <1>0 DEF Figures
<1>2. SUFFICES ASSUME same', spent'.errors = 0, plain', OneCardEach, dm'.does = "asks",
                      NEW i \in 1 .. N, AllRows[i] <= Reached'
               PROVE  i <= Place(dm'.index) * Records
  <2>1. AllRows' = AllRows /\ OneCardEach' = OneCardEach
    BY <1>1, SameRows
  <2>2. Place(dm.index)' = Place(dm'.index)
    BY DEF Place
  <2> QED BY <1>1, <2>1, <2>2 DEF CountsExactly
<1>3. same /\ spent.errors = 0 /\ n = m /\ plain
  BY <1>1, <1>2, NoErrors DEF Takes, Base
<1>4. \A j \in 1 .. N : AllRows[j] <= R => j <= b
  BY <1>1, <1>2, <1>3 DEF CountsExactly
<1>5. CASE (lost \/ n = 0) /\ Stays(n, lost)
  BY <1>1, <1>2, <1>4, <1>5 DEF Stays, Reached
<1>6. CASE ~lost /\ Grows(c, n)
  <2>1. /\ n > 0 /\ Reached' = AllRows[c + n] /\ dm'.index = Following(dm.index)
        /\ dm'.has # << >>
    BY <1>6 DEF Grows
  <2>2. dm'.index # FirstIndex
    BY <1>2, <2>1 DEF Takes
  <2>3. Place(dm'.index) = p + 1
    BY <1>1, <2>1, <2>2, Places
  <2>4. PICK r \in Nat \ {0} : r = Records
    BY RecordsAssumption
  <2>5. c <= b
    BY <1>1, <1>2, <1>3, Counts
  <2>6. i <= c + n
    <3> SUFFICES ASSUME ~(i <= c + n) PROVE FALSE
      OBVIOUS
    <3>1. PICK k \in 1 .. N : k = c + n
      BY <1>1, <1>3, <2>1
    <3>2. \A j \in 1 .. N : AllRows[j] \in Nat
      BY <1>1, AllOrdered DEF Ids
    <3>3. \A j, l \in 1 .. N : j < l => AllRows[j] < AllRows[l]
      BY <1>1, <1>2, AllOrdered
    <3>4. k < i
      BY <1>1, <3>1
    <3>5. AllRows[k] < AllRows[i] /\ AllRows[k] \in Nat /\ AllRows[i] \in Nat
      BY <3>2, <3>3, <3>4
    <3> QED BY <1>2, <2>1, <3>1, <3>5
  <2>7. i <= b + r
    BY <1>1, <2>4, <2>5, <2>6
  <2>8. (p + 1) * r = b + r
    BY <1>1, <2>4
  <2> QED BY <2>3, <2>4, <2>7, <2>8
<1> QED BY <1>1, <1>5, <1>6

LEMMA ChunkOrder ==
  ASSUME Base, CountsExactly, OnceInOrder, NEW n, NEW lost, NEW got, NEW c,
         Takes(n, lost, got), Reads(c, n, got)
  PROVE  OnceInOrder'
<1>0. PICK N, m, b, p, R \in Nat : Figures(c, n, lost, N, m, b, p, R)
  BY Numbers DEF Base
<1>1. /\ N = Len(AllRows) /\ m = Len(Asked) /\ b = Before /\ p = Place(dm.index)
      /\ R = Reached /\ n \in Nat /\ c \in Nat /\ n <= m
      /\ m > 0 => c + m <= N
      /\ ((lost \/ n = 0) /\ Stays(n, lost)) \/ (~lost /\ Grows(c, n))
      /\ rows \in [Ids -> 0 .. MaxRows] /\ rows' = rows
  BY <1>0 DEF Figures
<1>2. SUFFICES ASSUME ~doubt', plain', NEW i \in 1 .. Len(dm'.has) - 1
               PROVE  /\ dm'.has[i].user <= dm'.has[i + 1].user
                      /\ same /\ OneCardEach => dm'.has[i].user # dm'.has[i + 1].user
  <2>1. OneCardEach' = OneCardEach /\ same' = same
    BY <1>1, SameRows DEF Takes
  <2> QED BY <2>1 DEF OnceInOrder
<1>3. /\ ~doubt /\ (Counted => same /\ spent.errors = 0)
      /\ plain /\ (Counted => OneCardEach)
  <2>1. spent.errors \in Nat
    BY DEF Base, UploadTypeOK
  <2>2. doubt' = \/ doubt \/ (Counted /\ (~same \/ spent.errors > 0))
                 \/ (n = 0 /\ Asked # << >>)
    BY DEF Takes
  <2>3. plain' = (plain /\ (Counted => OneCardEach)
                        /\ (dm'.has = << >> \/ dm'.index # FirstIndex))
    BY DEF Takes
  <2>4. ~doubt /\ (Counted => same /\ spent.errors = 0)
    BY <1>2, <2>1, <2>2
  <2>5. plain /\ (Counted => OneCardEach)
    BY <1>2, <2>3
  <2> QED BY <2>4, <2>5
<1>4. \A j \in 1 .. Len(dm.has) - 1 :
        /\ dm.has[j].user <= dm.has[j + 1].user
        /\ same /\ OneCardEach => dm.has[j].user # dm.has[j + 1].user
  BY <1>3 DEF OnceInOrder
<1>5. CASE (lost \/ n = 0) /\ Stays(n, lost)
  BY <1>2, <1>4, <1>5 DEF Stays
<1>6. CASE ~lost /\ Grows(c, n)
  <2>1. PICK L \in Nat : L = Len(dm.has)
    BY <1>6 DEF Grows
  <2>2. /\ n > 0 /\ Len(dm'.has) = L + n
        /\ \A j \in 1 .. L : dm'.has[j] = dm.has[j]
        /\ \A j \in 1 .. n : dm'.has[L + j].user = AllRows[c + j]
    BY <1>6, <2>1 DEF Grows
  <2>3. i \in 1 .. L + n - 1
    BY <1>1, <1>2, <2>2
  <2>4. CASE i < L
    <3>1. i \in 1 .. L /\ i + 1 \in 1 .. L /\ i \in 1 .. L - 1
      BY <2>3, <2>4
    <3> QED BY <1>4, <2>1, <2>2, <3>1
  <2>5. CASE i = L
    <3>1. dm'.has[i] = dm.has[L] /\ dm'.has[i + 1].user = AllRows[c + 1] /\ c + 1 \in 1 .. N
      BY <1>1, <2>2, <2>3, <2>5
    <3>2. dm.has # << >> /\ dm.has[L].user = Reached
      <4>1. Len(dm.has) # 0
        BY <2>1, <2>3, <2>5
      <4>2. dm.has # << >>
        BY <4>1, EmptySeq
      <4> QED BY <2>1, <4>2 DEF Reached
    <3>3. PICK k \in 1 .. N : k = c + 1 /\ k > c
      BY <1>1, <3>1
    <3>4. AllRows[k] > Reached
      BY <1>1, <1>3, <3>2, <3>3, Follows
    <3>5. PICK u \in Nat : u = AllRows[k]
      BY <1>1, <3>3, AllOrdered DEF Ids
    <3> QED BY <1>1, <3>1, <3>2, <3>3, <3>4, <3>5
  <2>6. CASE i > L
    <3>1. PICK j \in 1 .. n : L + j = i /\ j + 1 \in 1 .. n /\ L + (j + 1) = i + 1
      <4>1. i - L \in 1 .. n /\ (i - L) + 1 \in 1 .. n /\ L + (i - L) = i
            /\ L + ((i - L) + 1) = i + 1
        BY <1>1, <2>3, <2>6
      <4> QED BY <4>1
    <3>2. dm'.has[i].user = AllRows[c + j] /\ dm'.has[i + 1].user = AllRows[c + (j + 1)]
      BY <2>2, <3>1
    <3>3. PICK x, y \in 1 .. N : x = c + j /\ y = c + (j + 1) /\ x < y
      BY <1>1, <2>2, <3>1
    <3>4. AllRows[x] <= AllRows[y] /\ (OneCardEach => AllRows[x] < AllRows[y])
      BY <1>1, <3>3, AllOrdered
    <3>5. AllRows[x] \in Nat /\ AllRows[y] \in Nat
      BY <1>1, <3>3, AllOrdered DEF Ids
    <3> QED BY <3>2, <3>3, <3>4, <3>5
  <2> QED BY <2>1, <2>3, <2>4, <2>5, <2>6
<1> QED BY <1>1, <1>5, <1>6

(* The place of a user, where nobody has two cards.                        *)
LEMMA PlaceOfRow ==
  ASSUME rows \in [Ids -> 0 .. MaxRows], OneCardEach, NEW k \in 1 .. Len(AllRows)
  PROVE  Cardinality({u \in Listed : u < AllRows[k]}) = k - 1
<1>1. PICK N \in Nat : N = Len(AllRows)
  BY AllOrdered
<1>2. \A i \in 1 .. N : AllRows[i] \in Nat /\ AllRows[i] \in Listed
  BY <1>1, AllOrdered DEF Ids
<1>3. \A i, j \in 1 .. N : i < j => AllRows[i] < AllRows[j]
  BY <1>1, AllOrdered
<1>4. k \in 1 .. N /\ k - 1 \in Nat
  BY <1>1
<1>5. PICK S : S = {u \in Listed : u < AllRows[k]}
  OBVIOUS
<1>6. PICK f : f = [i \in 1 .. k - 1 |-> AllRows[i]]
  OBVIOUS
<1>7. \A i \in 1 .. k - 1 : i \in 1 .. N /\ i < k /\ f[i] = AllRows[i]
  BY <1>1, <1>4, <1>6
<1>8. f \in [1 .. k - 1 -> S]
  <2>1. \A i \in 1 .. k - 1 : AllRows[i] \in S
    BY <1>2, <1>3, <1>4, <1>5, <1>7
  <2> QED BY <1>6, <2>1
<1>9. \A i, j \in 1 .. k - 1 : f[i] = f[j] => i = j
  <2> SUFFICES ASSUME NEW i \in 1 .. k - 1, NEW j \in 1 .. k - 1, f[i] = f[j], i # j
               PROVE  FALSE
    OBVIOUS
  <2>1. AllRows[i] = AllRows[j] /\ AllRows[i] \in Nat /\ i \in 1 .. N /\ j \in 1 .. N
    BY <1>2, <1>7
  <2>2. i < j \/ j < i
    OBVIOUS
  <2> QED BY <1>3, <2>1, <2>2
<1>10. ASSUME NEW u \in S PROVE \E i \in 1 .. k - 1 : f[i] = u
  <2>1. PICK i \in 1 .. N : AllRows[i] = u
    BY <1>1, <1>5, AllOrdered
  <2>2. AllRows[i] < AllRows[k]
    BY <1>5, <2>1
  <2>3. ~(k < i) /\ i # k
    BY <1>2, <1>3, <1>4, <2>2
  <2>4. i \in 1 .. k - 1
    BY <1>4, <2>3
  <2> QED BY <1>7, <2>1, <2>4
<1>11. f \in Bijection(1 .. k - 1, S)
  BY <1>8, <1>9, <1>10 DEF Bijection, Injection, IsInjective, Surjection
<1>12. IsFiniteSet(1 .. k - 1) /\ Cardinality(1 .. k - 1) = k - 1
  <2>1. 1 \in Int /\ k - 1 \in Int
    OBVIOUS
  <2>2. Cardinality(1 .. k - 1) = IF 1 > k - 1 THEN 0 ELSE (k - 1) - 1 + 1
    BY <2>1, FS_Interval
  <2>3. IsFiniteSet(1 .. k - 1)
    BY <2>1, FS_Interval
  <2> QED BY <1>4, <2>2, <2>3
<1>13. Cardinality(S) = Cardinality(1 .. k - 1)
  BY <1>11, <1>12, FS_Bijection DEF ExistsBijection
<1> QED BY <1>5, <1>12, <1>13

LEMMA ChunkSerial ==
  ASSUME Base, CountsEnough, CountsExactly, SerialIsPlace, NEW n, NEW lost, NEW got, NEW c,
         Takes(n, lost, got), Reads(c, n, got)
  PROVE  SerialIsPlace'
<1>0. PICK N, m, b, p, R \in Nat : Figures(c, n, lost, N, m, b, p, R)
  BY Numbers DEF Base
<1>1. /\ N = Len(AllRows) /\ m = Len(Asked) /\ b = Before /\ p = Place(dm.index)
      /\ R = Reached /\ n \in Nat /\ c \in Nat /\ n <= m
      /\ m > 0 => c + m <= N
      /\ ((lost \/ n = 0) /\ Stays(n, lost)) \/ (~lost /\ Grows(c, n))
      /\ rows \in [Ids -> 0 .. MaxRows] /\ rows' = rows
  BY <1>0 DEF Figures
<1> DEFINE Right(r) == r.serial = Cardinality({u \in Listed : u < r.user})
<1>2. SUFFICES ASSUME same, plain', spent'.errors = 0, OneCardEach,
                      NEW i \in DOMAIN dm'.has
               PROVE  Right(dm'.has[i])
  <2>1. OneCardEach' = OneCardEach /\ Listed' = Listed /\ same' = same
    BY <1>1, SameRows DEF Takes
  <2> QED BY <2>1 DEF SerialIsPlace
<1>3. spent.errors = 0 /\ plain
  BY <1>1, <1>2, NoErrors DEF Takes, Base
<1>4. \A j \in DOMAIN dm.has : Right(dm.has[j])
  BY <1>2, <1>3 DEF SerialIsPlace
<1> HIDE DEF Right
<1>5. CASE (lost \/ n = 0) /\ Stays(n, lost)
  BY <1>2, <1>4, <1>5 DEF Stays
<1>6. CASE ~lost /\ Grows(c, n)
  <2>1. PICK L \in Nat : L = Len(dm.has) /\ DOMAIN dm.has = 1 .. L
    BY <1>6, LenProperties DEF Grows, Base, UploadTypeOK
  <2>2. /\ n > 0 /\ Len(dm'.has) = L + n
        /\ \A j \in 1 .. L : dm'.has[j] = dm.has[j]
        /\ \A j \in 1 .. n : /\ dm'.has[L + j].user = AllRows[c + j]
                             /\ dm'.has[L + j].serial = b + j - 1
    BY <1>1, <1>6, <2>1 DEF Grows
  <2>3. i \in 1 .. L + n
    <3>1. dm'.has \in Seq([user : Ids, serial : Nat])
      BY ChunkTyped DEF UploadTypeOK
    <3>2. DOMAIN dm'.has = 1 .. Len(dm'.has)
      BY <3>1, LenProperties
    <3> QED BY <1>2, <2>2, <3>2
  <2>4. CASE i <= L
    BY <1>4, <2>1, <2>2, <2>3, <2>4
  <2>5. CASE ~(i <= L)
    <3>1. PICK j \in 1 .. n : L + j = i
      <4>1. n \in Nat
        BY <1>1
      <4>2. i - L \in 1 .. n /\ L + (i - L) = i
        BY <2>3, <2>5, <4>1
      <4> QED BY <4>2
    <3>2. c = b
      BY <1>1, <1>2, <1>3, <2>2, Counts
    <3>3. PICK k \in 1 .. N : k = c + j
      BY <1>1, <3>1
    <3>4. dm'.has[i].user = AllRows[k] /\ dm'.has[i].serial = k - 1
      <4>1. dm'.has[L + j].user = AllRows[c + j] /\ dm'.has[L + j].serial = b + j - 1
        BY <2>2
      <4>2. k - 1 = b + j - 1
        BY <1>1, <3>2, <3>3
      <4> QED BY <3>1, <3>3, <4>1, <4>2
    <3>5. Cardinality({u \in Listed : u < AllRows[k]}) = k - 1
      BY <1>1, <1>2, <3>3, PlaceOfRow
    <3> QED BY <3>4, <3>5 DEF Right
  <2> QED BY <2>3, <2>4, <2>5
<1> QED BY <1>1, <1>5, <1>6

-----------------------------------------------------------------------------
(* Every step keeps the invariant.                                         *)

UploadInv == /\ Base /\ NobodyMissed /\ CountsEnough /\ CountsExactly
             /\ OnceInOrder /\ SerialIsPlace

LEMMA ChunkKeeps ==
  ASSUME UploadInv, userbin_receive_chunk
  PROVE  UploadInv'
<1>1. PICK n, lost, got : Takes(n, lost, got)
  BY ChunkTakes
<1>2. PICK c \in Nat : Reads(c, n, got)
  BY <1>1, TakesReads DEF UploadInv, Base
<1>3. Base'
  BY <1>1, <1>2, ChunkTyped, ChunkTogether DEF UploadInv, Base
<1>4. NobodyMissed'
  BY <1>1, <1>2, ChunkMissesNobody DEF UploadInv
<1>5. CountsEnough'
  BY <1>1, <1>2, ChunkCountsEnough DEF UploadInv
<1>6. CountsExactly'
  BY <1>1, <1>2, ChunkCountsExactly DEF UploadInv
<1>7. OnceInOrder'
  BY <1>1, <1>2, ChunkOrder DEF UploadInv
<1>8. SerialIsPlace'
  BY <1>1, <1>2, ChunkSerial DEF UploadInv
<1> QED BY <1>3, <1>4, <1>5, <1>6, <1>7, <1>8 DEF UploadInv

(* DM has what it had, and asks for nothing it did not ask for.            *)
LEMMA Untouched ==
  ASSUME UploadInv, dm'.has = dm.has, dm'.index = dm.index, dm'.does \in {dm.does, "nothing"},
         UNCHANGED <<rows, always, same, doubt, plain>>, spent'.errors = spent.errors
  PROVE  /\ NobodyMissed' /\ CountsEnough' /\ CountsExactly' /\ OnceInOrder' /\ SerialIsPlace'
         /\ Begun'
<1>1. AllRows' = AllRows /\ OneCardEach' = OneCardEach /\ Listed' = Listed
  BY SameRows
<1>2. /\ Reached' = Reached /\ Users' = Users /\ Place(dm.index)' = Place(dm.index)
  BY DEF Reached, Users, Place
<1>3. /\ dm'.does = "asks" => dm.does = "asks"
      /\ dm'.does = "finished" => dm.does = "finished"
  OBVIOUS
<1>4. NobodyMissed'
  BY <1>2, <1>3 DEF NobodyMissed, UploadInv
<1>5. CountsEnough'
  BY <1>1, <1>2, <1>3 DEF CountsEnough, UploadInv
<1>6. CountsExactly'
  BY <1>1, <1>2, <1>3 DEF CountsExactly, UploadInv
<1>7. OnceInOrder'
  BY <1>1 DEF OnceInOrder, UploadInv
<1>8. SerialIsPlace'
  BY <1>1 DEF SerialIsPlace, UploadInv
<1>9. Begun'
  BY DEF Begun, UploadInv, Base
<1> QED BY <1>4, <1>5, <1>6, <1>7, <1>8, <1>9

LEMMA StartKeeps ==
  ASSUME UploadInv, userbin_receive_start
  PROVE  UploadInv'
<1>1. /\ rows \in [Ids -> 0 .. MaxRows]
      /\ spent \in [{"starts", "changes", "lost", "errors"} -> Nat]
  BY DEF UploadInv, Base, UploadTypeOK
<1>2. /\ rows' = rows /\ always' = Listed /\ same' = TRUE /\ doubt' = FALSE /\ plain' = TRUE
      /\ send' = [Unsent EXCEPT !.active = TRUE]
      /\ spent' = [spent EXCEPT !.starts = @ + 1]
  BY DEF userbin_receive_start, Spend
<1>3. AllRows' = AllRows /\ OneCardEach' = OneCardEach /\ Listed' = Listed
  BY <1>2, SameRows
<1>4. PICK a \in {"nothing", "asks"} : dm' = [does |-> a, index |-> FirstIndex, has |-> << >>]
  BY DEF userbin_receive_start
<1>5. /\ dm'.does \in {"nothing", "asks"} /\ dm'.index = FirstIndex /\ dm'.has = << >>
      /\ Reached' = NoId
  BY <1>4 DEF Reached
<1>6. FirstIndex \in 0 .. IndexMod - 1 /\ IndexMod \in Nat \ {0, 1}
  BY FirstIndexAssumption, RecordsAssumption
<1>7. /\ send'.active = TRUE /\ send'.base = NoIndex /\ send'.next = 0 /\ send'.last = NoId
      /\ send' \in [active : BOOLEAN, base : 0 .. NoIndex, next : 0 .. IndexMod - 1,
                    last : Ids \cup {NoId}]
  <2>1. send' = [active |-> TRUE, base |-> NoIndex, next |-> 0, last |-> NoId]
    BY <1>2 DEF Unsent
  <2>2. NoIndex \in 0 .. NoIndex /\ 0 \in 0 .. IndexMod - 1 /\ NoId \in Ids \cup {NoId}
    BY <1>6 DEF NoIndex
  <2> QED BY <2>1, <2>2
<1>8. UploadTypeOK'
  <2>1. << >> \in Seq([user : Ids, serial : Nat])
    BY EmptySeq
  <2>2. dm' \in [does : {"nothing", "asks", "finished"}, index : 0 .. IndexMod - 1,
                 has : Seq([user : Ids, serial : Nat])]
    BY <1>4, <1>6, <2>1
  <2>3. spent' \in [{"starts", "changes", "lost", "errors"} -> Nat]
    BY <1>1, <1>2
  <2>4. always' \subseteq Listed' /\ same' \in BOOLEAN /\ doubt' \in BOOLEAN /\ plain' \in BOOLEAN
        /\ rows' \in [Ids -> 0 .. MaxRows]
    BY <1>1, <1>2, <1>3
  <2> QED BY <1>7, <2>2, <2>3, <2>4 DEF UploadTypeOK
<1>9. Together' /\ Begun'
  BY <1>5, <1>7 DEF Together, Begun
<1>10. NobodyMissed'
  <2>1. \A u \in Ids : ~(u <= NoId)
    BY DEF Ids, NoId
  <2>2. always' \subseteq Ids
    BY <1>2 DEF Listed
  <2> QED BY <1>5, <2>1, <2>2 DEF NobodyMissed
<1>11. CountsEnough'
  <2>1. Place(dm.index)' = 0
    <3>1. Place(FirstIndex) = 0
      BY <1>6, Places
    <3> QED BY <1>5, <3>1 DEF Place
  <2>2. PICK r \in Nat : r = Records
    BY RecordsAssumption
  <2>3. \A i \in 1 .. Len(AllRows') : ~(i <= 0 * r)
    OBVIOUS
  <2> QED BY <2>1, <2>2, <2>3 DEF CountsEnough
<1>12. CountsExactly'
  <2>1. \A i \in 1 .. Len(AllRows) : ~(AllRows[i] <= NoId)
    BY <1>1, AllOrdered DEF Ids, NoId
  <2> QED BY <1>3, <1>5, <2>1 DEF CountsExactly
<1>13. OnceInOrder' /\ SerialIsPlace'
  <2>1. 1 .. Len(dm'.has) - 1 = {} /\ DOMAIN dm'.has = {}
    BY <1>5, EmptySeq, LenProperties
  <2> QED BY <2>1 DEF OnceInOrder, SerialIsPlace
<1> QED BY <1>8, <1>9, <1>10, <1>11, <1>12, <1>13 DEF UploadInv, Base

LEMMA RefusedKeeps ==
  ASSUME UploadInv, Refused
  PROVE  UploadInv'
<1>1. UploadTypeOK /\ dm' = [dm EXCEPT !.does = "nothing"]
      /\ UNCHANGED <<rows, send, always, same, doubt, plain, spent>>
  BY DEF Refused, UploadInv, Base
<1>2. dm'.has = dm.has /\ dm'.index = dm.index /\ dm'.does = "nothing"
  BY <1>1 DEF UploadTypeOK
<1>3. UploadTypeOK'
  <2>1. Listed' = Listed
    BY <1>1, SameRows
  <2>2. DmTyped'
    BY <1>1 DEF UploadTypeOK, DmTyped
  <2> QED BY <1>1, <2>1, <2>2 DEF UploadTypeOK, DmTyped
<1>4. Together'
  BY <1>2 DEF Together
<1> QED BY <1>1, <1>2, <1>3, <1>4, Untouched DEF UploadInv, Base

LEMMA RestartKeeps ==
  ASSUME UploadInv, Restart
  PROVE  UploadInv'
<1>1. UploadTypeOK /\ send' = Unsent /\ spent' = [spent EXCEPT !.lost = @ + 1]
      /\ UNCHANGED <<rows, dm, always, same, doubt, plain>>
  BY DEF Restart, Spend, UploadInv, Base
<1>2. spent' \in [{"starts", "changes", "lost", "errors"} -> Nat] /\ spent'.errors = spent.errors
  <2>1. spent \in [{"starts", "changes", "lost", "errors"} -> Nat]
    BY <1>1 DEF UploadTypeOK
  <2>2. PICK l \in Nat : l = spent.lost + 1
    BY <2>1
  <2>3. spent' = [spent EXCEPT !.lost = l]
    BY <1>1, <2>2
  <2> QED BY <2>1, <2>3
<1>3. send' \in [active : BOOLEAN, base : 0 .. NoIndex, next : 0 .. IndexMod - 1,
                 last : Ids \cup {NoId}]
  <2>1. IndexMod \in Nat \ {0, 1}
    BY RecordsAssumption
  <2> QED BY <1>1, <2>1 DEF Unsent, NoIndex
<1>4. UploadTypeOK'
  <2>1. Listed' = Listed
    BY <1>1, SameRows
  <2> QED BY <1>1, <1>2, <1>3, <2>1 DEF UploadTypeOK
<1>5. Together'
  <2>1. send'.active = FALSE
    BY <1>1 DEF Unsent
  <2> QED BY <2>1 DEF Together
<1> QED BY <1>1, <1>2, <1>4, <1>5, Untouched DEF UploadInv, Base

LEMMA ChangesKeeps ==
  ASSUME UploadInv, NEW list \in [Ids -> 0 .. MaxRows], Changes(list)
  PROVE  UploadInv'
<1>1. /\ UploadTypeOK /\ rows' = list /\ spent' = [spent EXCEPT !.changes = @ + 1]
      /\ always' = always \cap {u \in Ids : list[u] > 0} /\ same' = FALSE
      /\ UNCHANGED <<send, dm, doubt, plain>>
  BY DEF Changes, Spend, UploadInv, Base
<1>2. Reached' = Reached /\ Users' = Users /\ always' \subseteq always
  BY <1>1 DEF Reached, Users
<1>3. UploadTypeOK'
  <2>1. spent' \in [{"starts", "changes", "lost", "errors"} -> Nat]
    <3>1. spent \in [{"starts", "changes", "lost", "errors"} -> Nat]
      BY <1>1 DEF UploadTypeOK
    <3>2. PICK l \in Nat : l = spent.changes + 1
      BY <3>1
    <3>3. spent' = [spent EXCEPT !.changes = l]
      BY <1>1, <3>2
    <3> QED BY <3>1, <3>3
  <2>2. always' \subseteq Listed' /\ rows' \in [Ids -> 0 .. MaxRows] /\ same' \in BOOLEAN
    BY <1>1 DEF Listed, Ids
  <2> QED BY <1>1, <2>1, <2>2 DEF UploadTypeOK
<1>4. Together' /\ Begun'
  BY <1>1, <1>2 DEF Together, Begun, UploadInv, Base, Following
<1>5. NobodyMissed'
  BY <1>1, <1>2 DEF NobodyMissed, UploadInv
<1>6. CountsEnough' /\ CountsExactly' /\ SerialIsPlace'
  BY <1>1 DEF CountsEnough, CountsExactly, SerialIsPlace
<1>7. OnceInOrder'
  BY <1>1 DEF OnceInOrder, UploadInv
<1> QED BY <1>3, <1>4, <1>5, <1>6, <1>7 DEF UploadInv, Base

LEMMA UploadStep ==
  ASSUME UploadInv, [UploadNext]_uploadVars
  PROVE  UploadInv'
<1>1. rows \in [Ids -> 0 .. MaxRows]
  BY DEF UploadInv, Base, UploadTypeOK
<1>2. CASE userbin_receive_start
  BY <1>2, StartKeeps
<1>3. CASE userbin_receive_chunk
  BY <1>3, ChunkKeeps
<1>4. CASE Refused
  BY <1>4, RefusedKeeps
<1>5. CASE usercmd_set
  <2>1. PICK u \in Ids : rows[u] < MaxRows /\ Changes([rows EXCEPT ![u] = @ + 1])
    BY <1>5 DEF usercmd_set
  <2>2. rows[u] + 1 \in 0 .. MaxRows
    BY <1>1, <2>1, ListsAssumption
  <2>3. [rows EXCEPT ![u] = @ + 1] \in [Ids -> 0 .. MaxRows]
    BY <1>1, <2>2
  <2> QED BY <2>1, <2>3, ChangesKeeps
<1>6. CASE usercmd_delete
  <2>1. PICK u \in Listed : Changes([rows EXCEPT ![u] = 0])
    BY <1>6 DEF usercmd_delete
  <2>2. 0 \in 0 .. MaxRows
    BY ListsAssumption
  <2>3. [rows EXCEPT ![u] = 0] \in [Ids -> 0 .. MaxRows]
    BY <1>1, <2>2
  <2> QED BY <2>1, <2>3, ChangesKeeps
<1>7. CASE users_load_commit
  <2>1. PICK list \in Lists : Changes(list)
    BY <1>7 DEF users_load_commit
  <2>2. list \in [Ids -> 0 .. MaxRows]
    BY ListsAssumption
  <2> QED BY <2>1, <2>2, ChangesKeeps
<1>8. CASE Restart
  BY <1>8, RestartKeeps
<1>9. CASE UNCHANGED uploadVars
  <2>1. UNCHANGED <<rows, send, dm, always, same, doubt, plain, spent>>
    BY <1>9 DEF uploadVars
  <2>2. Listed' = Listed /\ Reached' = Reached
    BY <2>1, SameRows DEF Reached
  <2>3. UploadTypeOK' /\ Together'
    BY <2>1, <2>2 DEF UploadTypeOK, Together, UploadInv, Base, Following
  <2> QED BY <2>1, <2>3, Untouched DEF UploadInv, Base
<1> QED BY <1>2, <1>3, <1>4, <1>5, <1>6, <1>7, <1>8, <1>9 DEF UploadNext

LEMMA UploadBegins ==
  ASSUME UploadInit
  PROVE  UploadInv
<1>1. /\ rows \in [Ids -> 0 .. MaxRows] /\ send = Unsent
      /\ dm = [does |-> "nothing", index |-> FirstIndex, has |-> << >>]
      /\ always = {} /\ same = FALSE /\ doubt = FALSE /\ plain = TRUE
      /\ spent = [starts |-> 0, changes |-> 0, lost |-> 0, errors |-> 0]
  BY ListsAssumption DEF UploadInit
<1>2. FirstIndex \in 0 .. IndexMod - 1 /\ IndexMod \in Nat \ {0, 1}
  BY FirstIndexAssumption, RecordsAssumption
<1>3. UploadTypeOK
  <2>1. << >> \in Seq([user : Ids, serial : Nat])
    BY EmptySeq
  <2>2. DmTyped
    BY <1>1, <1>2, <2>1 DEF DmTyped
  <2>3. send \in [active : BOOLEAN, base : 0 .. NoIndex, next : 0 .. IndexMod - 1,
                  last : Ids \cup {NoId}]
    BY <1>1, <1>2 DEF Unsent, NoIndex
  <2>4. spent \in [{"starts", "changes", "lost", "errors"} -> Nat]
    BY <1>1
  <2> QED BY <1>1, <2>2, <2>3, <2>4 DEF UploadTypeOK, DmTyped
<1>4. Together /\ Begun /\ NobodyMissed
  BY <1>1 DEF Together, Begun, NobodyMissed, Unsent
<1>5. CountsEnough /\ CountsExactly /\ SerialIsPlace
  BY <1>1 DEF CountsEnough, CountsExactly, SerialIsPlace
<1>6. OnceInOrder
  <2>1. 1 .. Len(dm.has) - 1 = {}
    BY <1>1, EmptySeq
  <2> QED BY <2>1 DEF OnceInOrder
<1> QED BY <1>3, <1>4, <1>5, <1>6 DEF UploadInv, Base

LEMMA UploadHolds == UploadSpec => []UploadInv
<1> QED BY UploadBegins, UploadStep, PTL DEF UploadSpec

(* While DM fetches the list (userbin.c:549) acud and DM are in a state of *)
(* their types.                                                            *)
THEOREM UploadTypes == UploadSpec => []UploadTypeOK
<1>1. UploadInv => UploadTypeOK
  BY DEF UploadInv, Base
<1> QED BY <1>1, UploadHolds, PTL

(* Whoever was in the list from Start to the empty chunk has been fetched, *)
(* whatever was added, deleted, replaced, lost and asked for again beside, *)
(* unless a chunk was looked up by its number after a change               *)
(* (userbin.c:549).                                                        *)
THEOREM UploadMissesNobody == UploadSpec => []EveryoneFetched
<1>1. UploadInv => EveryoneFetched
  BY DEF UploadInv, NobodyMissed, EveryoneFetched
<1> QED BY <1>1, UploadHolds, PTL

(* Users come in their order, and nobody twice who has one card, however   *)
(* chunks are asked for again (userbin.c:552, userbin.c:561), as long as a *)
(* number tells a place.                                                   *)
THEOREM UploadKeepsOrder == UploadSpec => []OnceInOrder
<1>1. UploadInv => OnceInOrder
  BY DEF UploadInv
<1> QED BY <1>1, UploadHolds, PTL

(* A record carries the place of its user in the order of user_id          *)
(* (userbin.c:485) while the list stays the same and nobody has two cards. *)
THEOREM UploadNumbersPlaces == UploadSpec => []SerialIsPlace
<1>1. UploadInv => SerialIsPlace
  BY DEF UploadInv
<1> QED BY <1>1, UploadHolds, PTL
=============================================================================
