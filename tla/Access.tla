------------------------------- MODULE Access -------------------------------
(***************************************************************************)
(* Whether a card opens the door (acud/access.c, acud/db.c), from the      *)
(* callback that read it to the event and the relay (acud/main.c).  The    *)
(* user's row names two groups of the settings database: a period of       *)
(* validity, looked up with the date SQLite reads from the clock, and      *)
(* slots of the week, compared with a clock that is read again.  The clock *)
(* goes on between the two, and each query may fail.                       *)
(*                                                                         *)
(* An instant is a number of minutes; a day has DayMinutes of them, and    *)
(* day 0 is a Sunday.  A slot says which days it is for as DM sends it, in *)
(* 16 bits, Sunday first.                                                  *)
(***************************************************************************)
EXTENDS Integers

CONSTANTS
  Instants,   \* readings of the clock
  DayMinutes, \* minutes of a day
  Rows,       \* rows of users a card may belong to
  Unknown,    \* a card that belongs to nobody
  Periods,    \* contents of a group of validity: [from, to] in days
  Slots       \* contents of a time zone group: sets of [days, from, to]

Codes == 0 .. 2 \* no group, a group, one that is not in the database

ASSUME DayAssumption == DayMinutes \in Nat \ {0} /\ Instants \subseteq Nat
ASSUME RowsAssumption ==
  Unknown \notin Rows /\ Rows \subseteq [enabled : BOOLEAN, validation : Codes, timezone : Codes]
ASSUME PeriodsAssumption == Periods \subseteq [from : Nat, to : Nat]
ASSUME SlotsAssumption ==
  \A group \in Slots : group \subseteq [days : SUBSET (0 .. 6), from : Nat, to : Nat]

VARIABLES
  now,     \* the clock
  period,  \* group 1 of table validations
  slots,   \* group 1 of table timezones
  at,      \* the next query, "idle" or "judged"
  user,    \* the row of the card's user
  began,   \* when the card was read
  result   \* AccessResult; "granted" drives the relay

groups == <<period, slots>>
vars   == <<now, groups, at, user, began, result>>

Results == {"none", "granted", "not_found", "disabled", "validation", "timezone", "db_error"}

Date(t)    == t \div DayMinutes
Minute(t)  == t % DayMinutes
Weekday(t) == Date(t) % 7

-----------------------------------------------------------------------------
(* db.c                                                                    *)

(* Week Select as DM sends it, external: bit 15 is Sunday, bit 9 Saturday. *)
week_select(days) ==
  LET bit(d) == IF d \in days THEN 2 ^ (15 - d) ELSE 0
  IN  bit(0) + bit(1) + bit(2) + bit(3) + bit(4) + bit(5) + bit(6)

(* Mutant: Saturday is the first bit, counting from the other end.         *)
week_ok_reversed(mask, wday) == (mask \div 2 ^ (9 + wday)) % 2 = 1

week_ok(mask, wday) == (mask \div 2 ^ (15 - wday)) % 2 = 1

(* Mutant: the last day does not count.                                    *)
db_check_validation_short(code) ==
  \/ code = 0
  \/ code = 1 /\ Date(now) >= period.from /\ Date(now) < period.to

(* No group: valid.  A group that is not there is like one that is over.   *)
db_check_validation(code) ==
  \/ code = 0
  \/ code = 1 /\ Date(now) \in period.from .. period.to

db_check_timezone(code) ==
  \/ code = 0
  \/ code = 1 /\ \E s \in slots :
       week_ok(week_select(s.days), Weekday(now)) /\ Minute(now) \in s.from .. s.to

-----------------------------------------------------------------------------
(* access_judge, in the steps at which it reads the database.              *)

Goes(step) == at' = step /\ UNCHANGED <<now, groups, user, began, result>>
Judged(verdict) ==
  at' = "judged" /\ result' = verdict /\ UNCHANGED <<now, groups, user, began>>

(* The callback takes a card from the queue.                               *)
on_card_readable ==
  /\ at = "idle" /\ at' = "lookup" /\ began' = now
  /\ UNCHANGED <<now, groups, user, result>>

users_lookup_by_card ==
  /\ at = "lookup"
  /\ \/ Judged("db_error")
     \/ user = Unknown /\ Judged("not_found")
     \/ user # Unknown /\ ~user.enabled /\ Judged("disabled")
     \/ user # Unknown /\ user.enabled /\ Goes("validation")

check_validation ==
  /\ at = "validation"
  /\ \/ user.validation # 0 /\ Judged("db_error")
     \/ db_check_validation(user.validation) /\ Goes("timezone")
     \/ ~db_check_validation(user.validation) /\ Judged("validation")

(* Mutant: what cannot be read does not stand in the way.                  *)
check_timezone_open ==
  /\ at = "timezone"
  /\ \/ user.timezone # 0 /\ Judged("granted")
     \/ db_check_timezone(user.timezone) /\ Judged("granted")
     \/ ~db_check_timezone(user.timezone) /\ Judged("timezone")

check_timezone ==
  /\ at = "timezone"
  /\ \/ user.timezone # 0 /\ Judged("db_error")
     \/ db_check_timezone(user.timezone) /\ Judged("granted")
     \/ ~db_check_timezone(user.timezone) /\ Judged("timezone")

Tick ==
  /\ at # "judged" /\ now + 1 \in Instants /\ now' = now + 1
  /\ UNCHANGED <<groups, at, user, began, result>>

-----------------------------------------------------------------------------
Init ==
  /\ now \in Instants /\ began = now
  /\ period \in Periods /\ slots \in Slots /\ user \in Rows \cup {Unknown}
  /\ at = "idle" /\ result = "none"

Next ==
  \/ on_card_readable \/ users_lookup_by_card \/ check_validation \/ check_timezone \/ Tick

Spec == Init /\ [][Next]_vars
-----------------------------------------------------------------------------
TypeOK ==
  /\ now \in Instants /\ began \in Instants
  /\ period \in Periods /\ slots \in Slots /\ user \in Rows \cup {Unknown}
  /\ at \in {"idle", "lookup", "validation", "timezone", "judged"}
  /\ result \in Results
  /\ at = "judged" <=> result # "none"

(* The reference: whom the groups let in at an instant, by sets of days.   *)
Valid(u, t) == u.validation = 0 \/ (u.validation = 1 /\ period.from <= Date(t) /\ Date(t) <= period.to)
InTime(u, t) ==
  \/ u.timezone = 0
  \/ u.timezone = 1 /\ \E s \in slots :
       Weekday(t) \in s.days /\ s.from <= Minute(t) /\ Minute(t) <= s.to
Allowed(u, t) == u.enabled /\ Valid(u, t) /\ InTime(u, t)

(* The instants of the judgement.                                          *)
During == began .. now

(* The door opens only to a user the groups allow at an instant of the     *)
(* judgement, the weekday and the minute taken from one clock; where       *)
(* midnight passes between the queries, each may speak of another instant  *)
(* (db.c:101, db.c:149).  No failing query opens it.                       *)
GrantIsAllowed ==
  result = "granted" =>
    /\ user # Unknown
    /\ IF Date(began) = Date(now) THEN \E t \in During : Allowed(user, t)
       ELSE user.enabled /\ \E t, s \in During : t <= s /\ Valid(user, t) /\ InTime(user, s)

(* Whom the groups allow all the while is let in or meets a failing query, *)
(* and the event gives the first reason that holds, in the order of        *)
(* README 130.                                                             *)
DenialHasReason ==
  CASE result = "not_found"  -> user = Unknown
    [] result = "disabled"   -> ~user.enabled
    [] result = "validation" -> user.enabled /\ \E t \in During : ~Valid(user, t)
    [] result = "timezone"   -> /\ user.enabled
                                /\ \E t, s \in During : t <= s /\ Valid(user, t) /\ ~InTime(user, s)
    [] OTHER -> TRUE

-----------------------------------------------------------------------------
(* Violated: a slot that ends before it begins is one that passes          *)
(* midnight.  It is never in force (db.c:169).                             *)
NightSlotOpens ==
  result = "timezone" => \A s \in slots, t \in During :
    ~(s.from > s.to /\ Weekday(t) \in s.days /\ Minute(t) >= s.from)
=============================================================================
