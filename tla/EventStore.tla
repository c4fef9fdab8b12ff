----------------------------- MODULE EventStore -----------------------------
(***************************************************************************)
(* The event store of acud (acud/events.c): a table of events numbered by  *)
(* an AUTOINCREMENT key, and, in the same file, the position up to which   *)
(* the upper system (DM) has taken them.  The table is a ring: once it is  *)
(* TrimSlack over Capacity the oldest rows are deleted in one statement.   *)
(* When the file cannot be opened the same interface runs on a ring in     *)
(* memory.  Every SQL statement commits by itself (WAL, synchronous=FULL), *)
(* so a power cut keeps exactly the statements that had finished.          *)
(***************************************************************************)
EXTENDS Integers, FiniteSets, FiniteSetsExt, Functions

CONSTANTS
  Capacity,   \* rows kept by the ring (config event_capacity)
  TrimSlack,  \* EVENTS_TRIM_SLACK
  MemCap,     \* EVENTS_MEMORY_CAP
  Times,      \* clock readings an event can carry; the clock may go back
  MaxSeq,     \* bound on the numbers handed out in a behaviour
  MaxTrimFails, \* bound on ring checks in a row that leave too many rows
  Misses     \* sets of queries that may fail together in one operation

ASSUME CapacityAssumption == Capacity \in Nat \ {0}
ASSUME SlackAssumption    == TrimSlack \in Nat \ {0}
ASSUME MemCapAssumption   == MemCap \in Nat \ {0}
ASSUME TimesAssumption    == Times \subseteq Nat
ASSUME MaxSeqAssumption   == MaxSeq \in Nat
ASSUME MaxTrimFailsAssumption == MaxTrimFails \in Nat

(* The queries, by where they are made: MAX and the position where the     *)
(* position is looked at or set, MAX and MIN where the rows are counted    *)
(* for the ring, MIN again where its deletion begins, the first row from a *)
(* time on, and the rows of a batch.                                       *)
Reads == {"max", "sent", "total_max", "total_min", "min", "later", "fetch"}

ASSUME MissesAssumption == {} \in Misses /\ Misses \subseteq SUBSET Reads

VARIABLES
  rows,      \* table events: seq -> ts
  autoSeq,   \* the number AUTOINCREMENT gave last
  sent,      \* event_state.sent_seq
  mode,      \* "closed", "disk" (ev->db open) or "memory" (ev->db NULL)
  nextTrim,  \* ev->next_trim_check
  mem,       \* the memory ring: slot -> seq
  memHead, memCount, memNext,
  failed,    \* history: the SQL statements that failed in the last operation
  trimFails  \* history: ring checks in a row that failed and left more than
             \* Capacity rows

disk == <<rows, autoSeq, sent>>
ring == <<mem, memHead, memCount, memNext>>
vars == <<rows, autoSeq, sent, mode, nextTrim, mem, memHead, memCount, memNext,
          failed, trimFails>>

Slots == 0 .. MemCap - 1

-----------------------------------------------------------------------------
(* The queries.  For NULL, the answer of an empty table, scalar_with hands *)
(* back the default the caller passed.                                     *)

(* A query that fails looks like that answer too.                          *)
scalar_with(value, def, ok) == IF ok THEN value ELSE def

(* What may fail where these queries are made.                             *)
MayFail(queries) == {miss \in Misses : miss \subseteq queries}

max_seq(r) == IF DOMAIN r = {} THEN 0 ELSE Max(DOMAIN r)
min_seq(r) == IF DOMAIN r = {} THEN 1 ELSE Min(DOMAIN r)

(* The number of rows.                                                     *)
events_total(r, miss) ==
  LET newest == scalar_with(max_seq(r), 0, "total_max" \notin miss)
      oldest == scalar_with(min_seq(r), 1, "total_min" \notin miss)
  IN  IF newest = 0 THEN 0 ELSE newest - oldest + 1

(* Mutant: forgets that unsent rows may have been deleted.                 *)
events_pending_noclip(r, s) ==
  IF max_seq(r) = 0 \/ max_seq(r) - s <= 0 THEN 0 ELSE max_seq(r) - s

(* The position lags behind the table when unsent rows were deleted.       *)
events_pending(r, s) ==
  LET from == IF s < min_seq(r) - 1 THEN min_seq(r) - 1 ELSE s
  IN  IF max_seq(r) = 0 \/ max_seq(r) - from <= 0 THEN 0 ELSE max_seq(r) - from

(* The rows events_fetch selects: the n oldest beyond the position.        *)
Unsent(r, s)   == {q \in DOMAIN r : q > s}
Batch(r, s, n) == {q \in Unsent(r, s) : Cardinality({p \in Unsent(r, s) : p < q}) < n}

(* Mutant: the repair is never run.                                        *)
Repaired_never(r, s, miss, ok) == s

(* The position events_repair_index leaves; ok tells whether its UPDATE,   *)
(* run only when the position is found ahead of the table, took effect.    *)
Repaired(r, s, miss, ok) ==
  LET newest == scalar_with(max_seq(r), 0, "max" \notin miss)
  IN  IF scalar_with(s, 0, "sent" \notin miss) > newest /\ ok THEN newest ELSE s

(* Mutants: one row too few goes, one too many, or a single row goes.      *)
Trimmed_late(r, miss) ==
  LET cut == min_seq(r) + events_total(r, miss) - Capacity - 1
  IN  Restrict(r, {q \in DOMAIN r : q >= cut})
Trimmed_eager(r, miss) ==
  LET cut == min_seq(r) + events_total(r, miss) - Capacity
  IN  IF events_total(r, miss) <= Capacity THEN r ELSE Restrict(r, {q \in DOMAIN r : q > cut})
Trimmed_hole(r, miss) ==
  LET cut == min_seq(r) + events_total(r, miss) - Capacity
  IN  IF events_total(r, miss) <= Capacity THEN r ELSE Restrict(r, {q \in DOMAIN r : q # cut})

(* The table once trim_if_needed has deleted what exceeds the capacity.    *)
(* MIN is asked for twice, in the count and for the row to begin with.     *)
Trimmed(r, miss) ==
  LET excess == events_total(r, miss) - Capacity
      cut    == scalar_with(min_seq(r), 1, "min" \notin miss) + excess
  IN  IF excess <= 0 THEN r ELSE Restrict(r, {q \in DOMAIN r : q >= cut})

(* Whether a check of the ring may leave more rows than the capacity.      *)
CheckFails(miss, deleteOk) == ~deleteOk \/ miss \cap {"total_max", "total_min", "min"} # {}

(* Mutant: the last event of the batch stays unsent.                       *)
Acked_short(s, upto) == IF s < upto THEN upto - 1 ELSE s

(* The position events_ack leaves: it only moves forward.                  *)
Acked(s, upto) == IF s < upto THEN upto ELSE s

(* The position events_rewind_to_time asks for: just before the first row  *)
(* in key order that carries a time from t on, or the end.                 *)
TimeTarget(r, t, miss) ==
  LET later == {q \in DOMAIN r : r[q] >= t}
  IN  IF later = {} \/ "later" \in miss
      THEN scalar_with(max_seq(r), 0, "max" \notin miss) ELSE Min(later) - 1

(* The position events_rewind_to_seq leaves: it only moves backward.       *)
SeqTarget(s, first) == IF first - 1 >= s THEN s ELSE first - 1

(* Mutant: pops one entry more than was acknowledged.                      *)
Popped_extra(upto) ==
  1 + Cardinality({i \in 0 .. memCount - 1 :
                     \A j \in 0 .. i : mem[(memHead + j) % MemCap] <= upto})

(* How many entries at the front of the memory ring events_ack pops.       *)
Popped(upto) ==
  Cardinality({i \in 0 .. memCount - 1 :
                 \A j \in 0 .. i : mem[(memHead + j) % MemCap] <= upto})

(* Mutant: the head stays, and the newest is written over the oldest.      *)
PushHead_stays(full) == memHead

(* Where mem_push leaves the head: a full ring gives up its oldest entry.  *)
PushHead(full) == IF full THEN (memHead + 1) % MemCap ELSE memHead

(* The table after INSERT gave row q the time t.                           *)
Inserted(r, q, t) == [x \in DOMAIN r \cup {q} |-> IF x = q THEN t ELSE r[x]]

-----------------------------------------------------------------------------
(* Operations on the open database.                                        *)

Failures(kinds) == failed' = kinds

(* events_append repairs the position, inserts, and every TrimSlack rows   *)
(* looks at the ring.  The check is pushed back even when DELETE failed.   *)
AppendToDisk(t) ==
  \E repairOk, insertOk, deleteOk \in BOOLEAN :
    LET seq   == autoSeq + 1
        due   == insertOk /\ seq >= nextTrim
        grown == Inserted(rows, seq, t)
    IN \E miss \in MayFail({"max", "sent"} \cup
                           (IF due THEN {"total_max", "total_min", "min"} ELSE {})) :
         /\ mode = "disk"
         /\ autoSeq < MaxSeq
         /\ sent' = Repaired(rows, sent, miss, repairOk)
         /\ autoSeq' = IF insertOk THEN seq ELSE autoSeq
         /\ rows' = IF ~insertOk THEN rows
                    ELSE IF due /\ deleteOk THEN Trimmed(grown, miss)
                    ELSE grown
         /\ nextTrim' = IF due THEN seq + TrimSlack ELSE nextTrim
         /\ trimFails' = IF ~due THEN trimFails
                         ELSE IF CheckFails(miss, deleteOk) /\ Cardinality(DOMAIN rows') > Capacity
                         THEN trimFails + 1
                         ELSE 0
         /\ trimFails' <= trimFails \/ trimFails < MaxTrimFails
         /\ Failures(miss \cup {k \in {"repair", "insert", "delete"} :
                        \/ k = "repair" /\ sent > max_seq(rows) /\ ~repairOk
                        \/ k = "insert" /\ ~insertOk
                        \/ k = "delete" /\ due /\ ~deleteOk})
         /\ UNCHANGED <<mode, ring>>

(* events_append without a database: mem_push drops the oldest when full.  *)
AppendToMemory ==
  LET full == memCount = MemCap
      head == PushHead(full)
      n    == IF full THEN memCount - 1 ELSE memCount
  IN /\ mode = "memory"
     /\ memNext <= MaxSeq
     /\ mem' = [mem EXCEPT ![(head + n) % MemCap] = memNext]
     /\ memHead' = head
     /\ memCount' = n + 1
     /\ memNext' = memNext + 1
     /\ Failures({})
     /\ UNCHANGED <<disk, mode, nextTrim, trimFails>>

events_append(t) == AppendToDisk(t) \/ AppendToMemory

(* events_fetch reads a batch; only when it finds nothing, or is not told, *)
(* does it look whether the position has run ahead, and repairs it.        *)
events_fetch ==
  \E miss \in MayFail({"fetch", "max", "sent"}), ok \in BOOLEAN :
    /\ mode = "disk"
    /\ Unsent(rows, sent) = {} \/ "fetch" \in miss
    /\ Repaired(rows, sent, miss, TRUE) # sent
    /\ sent' = Repaired(rows, sent, miss, ok)
    /\ Failures(IF ok THEN miss ELSE miss \cup {"repair"})
    /\ UNCHANGED <<rows, autoSeq, mode, nextTrim, ring, trimFails>>

(* An UPDATE of the position to v, which the database may refuse, after    *)
(* the queries of miss have failed.                                        *)
SetSent(v, miss) ==
  /\ mode = "disk"
  /\ \/ sent' = v /\ Failures(miss)
     \/ sent' = sent /\ Failures(miss \cup {"update"})
  /\ UNCHANGED <<rows, autoSeq, mode, nextTrim, ring, trimFails>>

AckOnDisk(upto) == SetSent(Acked(sent, upto), {})

AckInMemory(upto) ==
  LET k == Popped(upto)
  IN /\ mode = "memory"
     /\ memHead' = (memHead + k) % MemCap
     /\ memCount' = memCount - k
     /\ Failures({})
     /\ UNCHANGED <<disk, mode, nextTrim, mem, memNext, trimFails>>

events_ack(upto) == AckOnDisk(upto) \/ AckInMemory(upto)

(* The two rewinds refuse to work without a database.                      *)
events_rewind_to_time(t) ==
  \E miss \in MayFail({"later", "max"}) : SetSent(TimeTarget(rows, t, miss), miss)

(* A position that cannot be read passes for 0: nothing is done.           *)
events_rewind_to_seq(first) ==
  /\ \E miss \in MayFail({"sent"}) : first - 1 < scalar_with(sent, 0, "sent" \notin miss)
  /\ SetSent(SeqTarget(sent, first), {})

MarkAllInMemory ==
  /\ mode = "memory"
  /\ memHead' = 0
  /\ memCount' = 0
  /\ Failures({})
  /\ UNCHANGED <<disk, mode, nextTrim, mem, memNext, trimFails>>

MarkAllOnDisk ==
  \E miss \in MayFail({"max"}) :
    SetSent(scalar_with(max_seq(rows), 0, "max" \notin miss), miss)

events_mark_all_sent == MarkAllOnDisk \/ MarkAllInMemory

-----------------------------------------------------------------------------
(* The life of the store.                                                  *)

(* A new AcuEvents: zeroed, the first ring check due past capacity + slack. *)
Fresh ==
  /\ nextTrim' = Capacity + TrimSlack
  /\ mem' = [i \in Slots |-> 0] /\ memHead' = 0 /\ memCount' = 0 /\ memNext' = 1

(* events_open allocates a new AcuEvents; the file may not open.           *)
events_open ==
  /\ mode = "closed"
  /\ Fresh
  /\ \/ /\ mode' = "memory"
        /\ sent' = sent
        /\ Failures({})
     \/ \E miss \in MayFail({"max", "sent"}), ok \in BOOLEAN :
          /\ mode' = "disk"
          /\ sent' = Repaired(rows, sent, miss, ok)
          /\ Failures(IF Repaired(rows, sent, miss, TRUE) # sent /\ ~ok
                      THEN miss \cup {"repair"} ELSE miss)
  /\ UNCHANGED <<rows, autoSeq, trimFails>>

(* events_close, a crash and a power cut keep the same thing: the file.    *)
(* A cut between INSERT and DELETE is an append whose DELETE failed.       *)
events_close ==
  /\ mode # "closed"
  /\ mode' = "closed"
  /\ Fresh
  /\ Failures({})
  /\ UNCHANGED <<disk, trimFails>>

(* What the field did to the file: the position pushed ahead of the table, *)
(* or an older copy of the table put back under a newer position.          *)
IndexAhead ==
  /\ \E v \in max_seq(rows) + 1 .. MaxSeq + 1 : v > sent /\ sent' = v
  /\ Failures({})
  /\ UNCHANGED <<rows, autoSeq, mode, nextTrim, ring, trimFails>>

OlderCopy ==
  /\ mode = "closed"
  /\ \E k \in 0 .. autoSeq :
       /\ rows' = Restrict(rows, {q \in DOMAIN rows : q <= k})
       /\ autoSeq' = k
  /\ Failures({})
  /\ UNCHANGED <<sent, mode, nextTrim, ring, trimFails>>

(* What a caller may acknowledge: numbers events_fetch can have handed it. *)
Fetchable ==
  IF mode = "memory" THEN {mem[(memHead + i) % MemCap] : i \in 0 .. memCount - 1}
  ELSE Unsent(rows, sent)

Empty ==
  /\ rows = [q \in {} |-> 0] /\ autoSeq = 0 /\ sent = 0
  /\ nextTrim = Capacity + TrimSlack
  /\ mem = [i \in Slots |-> 0] /\ memHead = 0 /\ memCount = 0 /\ memNext = 1
  /\ failed = {} /\ trimFails = 0

Init == Empty /\ mode = "closed"

Next ==
  \/ \E t \in Times : events_append(t)
  \/ events_fetch
  \/ \E q \in Fetchable : events_ack(q)
  \/ \E t \in Times : events_rewind_to_time(t)
  \/ \E q \in 1 .. autoSeq : events_rewind_to_seq(q)
  \/ events_mark_all_sent
  \/ events_open
  \/ events_close
  \/ IndexAhead
  \/ OlderCopy

Spec == Init /\ [][Next]_vars
-----------------------------------------------------------------------------
(* Properties.                                                             *)

(* Type invariant.                                                         *)
TypeOK ==
  /\ autoSeq \in 0 .. MaxSeq
  /\ DOMAIN rows \subseteq 1 .. autoSeq
  /\ rows \in [DOMAIN rows -> Times]
  /\ sent \in 0 .. MaxSeq + 1
  /\ mode \in {"closed", "disk", "memory"}
  /\ nextTrim \in Nat
  /\ mem \in [Slots -> Nat]
  /\ memHead \in Slots /\ memCount \in 0 .. MemCap /\ memNext \in 1 .. MaxSeq + 1
  /\ failed \subseteq {"repair", "insert", "delete", "update"} \cup Reads
  /\ trimFails \in Nat

(* events.c counts rows as MAX - MIN + 1 instead of COUNT( * ), on the      *)
(* ground that deletion only ever takes rows off the front.  The count is  *)
(* exact whatever was trimmed, failed, crashed or restored before, when    *)
(* the queries that make it are answered.                                  *)
TotalExact == events_total(rows, {}) = Cardinality(DOMAIN rows)

(* The number of unsent events reported to DM is the number of rows        *)
(* events_fetch would return, also when unsent rows were deleted and when  *)
(* the position is ahead of the table, when the queries are answered.      *)
PendingExact == events_pending(rows, sent) = Cardinality(Unsent(rows, sent))

(* The ring: the table never holds TrimSlack rows more than the capacity;  *)
(* each check in a row that failed, was cut off, or cut too little because *)
(* a query failed may cost another TrimSlack, never more.                  *)
RingBound == Cardinality(DOMAIN rows) < Capacity + (trimFails + 1) * TrimSlack

(* The memory ring holds the numbers just before memNext, in order from    *)
(* its head: no slot is lost, repeated or overtaken by wrapping around.    *)
MemoryFifo ==
  mode = "memory" =>
    \A i \in 0 .. memCount - 1 :
      mem[(memHead + i) % MemCap] = memNext - memCount + i

(* "Repair before writing": an event appended is unsent, even if the       *)
(* position was far ahead of the table, when the position could be read    *)
(* and the repair be written.                                              *)
AppendedIsUnsent ==
  [][\A q \in DOMAIN rows' \ DOMAIN rows :
       {"repair", "sent"} \cap failed' = {} => q > sent']_vars

(* Deleting for the ring happens only in the step that stored a new row    *)
(* and takes the oldest rows; the newest Capacity stay, and no others when *)
(* all queries were answered.  One failure is excepted: MIN unanswered in  *)
(* the count and answered for the deletion.                                *)
TrimKeepsNewest ==
  [][mode = "disk" /\ DOMAIN rows \ DOMAIN rows' # {} =>
       LET newest == (autoSeq' - Capacity + 1) .. autoSeq'
       IN /\ autoSeq' = autoSeq + 1
          /\ \A q \in DOMAIN rows \ DOMAIN rows' : \A p \in DOMAIN rows' : q < p
          /\ failed' \cap {"total_min", "min"} # {"total_min"} => newest \subseteq DOMAIN rows'
          /\ failed' \cap Reads = {} => DOMAIN rows' = newest]_vars

(* Violated: "as many of the oldest are deleted as exceed the limit"       *)
(* (events.c on trim_if_needed).  An unanswered MIN counts rows that are   *)
(* long gone, and as many of those there are go, up to the newest.         *)
TrimTakesExcess ==
  [][mode = "disk" /\ DOMAIN rows \ DOMAIN rows' # {} =>
       Cardinality(DOMAIN rows') >= Capacity]_vars

=============================================================================
