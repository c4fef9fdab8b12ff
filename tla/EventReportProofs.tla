-------------------------- MODULE EventReportProofs --------------------------
(***************************************************************************)
(* Proofs about the event store and about reporting.  The store: for every *)
(* capacity, slack, ring size and set of clock readings, its counts are    *)
(* exact, its ring is bounded and its memory queue keeps its order.        *)
(* Reporting: whatever is lost, delayed or refused between acud and DM, no *)
(* event that counts as sent is forgotten, for every ring, batch limit and *)
(* send buffer.                                                            *)
(***************************************************************************)
EXTENDS EventReport, FiniteSetTheorems, SequenceTheorems, WellFoundedInduction, TLAPS

-----------------------------------------------------------------------------
(* Numbers and sets of numbers.                                            *)

(* Every non-empty set of naturals has a least element.                    *)
LEMMA LeastExists ==
  ASSUME NEW S \in SUBSET Nat, S # {}
  PROVE  Min(S) \in S /\ \A y \in S : Min(S) <= y
<1> DEFINE R == {p \in Nat \X Nat : p[1] < p[2]}
<1>1. R = OpToRel(<, Nat)
  BY DEF OpToRel
<1>2. IsWellFoundedOn(R, Nat)
  BY <1>1, NatLessThanWellFounded
<1>3. PICK x \in S : \A y \in S : ~(<<y, x>> \in R)
  <2> HIDE DEF R
  <2> QED BY <1>2, WFMin
<1>4. ASSUME NEW y \in S PROVE x <= y
  <2>1. x \in Nat /\ y \in Nat /\ ~(<<y, x>> \in R)
    BY <1>3
  <2>2. ~(y < x)
    BY <2>1
  <2> QED BY <2>1, <2>2
<1> HIDE DEF R
<1>5. \E z \in S : \A y \in S : z <= y
  BY <1>4
<1> QED BY <1>5 DEF Min

(* The least and the greatest number of an interval.                       *)
LEMMA IntervalEnds ==
  ASSUME NEW a \in Int, NEW b \in Int, a <= b
  PROVE  Min(a .. b) = a /\ Max(a .. b) = b
<1>1. \E x \in a .. b : \A y \in a .. b : x <= y
  <2>1. a \in a .. b /\ \A y \in a .. b : a <= y
    OBVIOUS
  <2> QED BY <2>1
<1>2. \E x \in a .. b : \A y \in a .. b : x >= y
  <2>1. b \in a .. b /\ \A y \in a .. b : b >= y
    OBVIOUS
  <2> QED BY <2>1
<1>3. Min(a .. b) \in a .. b /\ \A y \in a .. b : Min(a .. b) <= y
  BY <1>1 DEF Min
<1>4. Max(a .. b) \in a .. b /\ \A y \in a .. b : Max(a .. b) >= y
  BY <1>2 DEF Max
<1> QED BY <1>3, <1>4

(* Reduction modulo n, on all numbers and on those below 2n.               *)
LEMMA ModRange ==
  ASSUME NEW a \in Nat, NEW n \in Nat \ {0}
  PROVE  a % n \in 0 .. n - 1
OBVIOUS

(* A number from n to 2n - 1 wraps around once.                             *)
LEMMA ModOnce ==
  ASSUME NEW n \in Nat \ {0}, NEW a \in 0 .. 2 * n - 1
  PROVE  a % n = IF a < n THEN a ELSE a - n
OBVIOUS

(* What the ring may hold after f deletions have failed.                   *)
Allowed(f) == Capacity + (f + 1) * TrimSlack

(* A failed deletion allows for exactly one TrimSlack more.                *)
LEMMA AllowedGrows ==
  ASSUME NEW f \in Nat
  PROVE  /\ Allowed(f) \in Nat
         /\ Allowed(f) >= Capacity + TrimSlack
         /\ Allowed(f + 1) = Allowed(f) + TrimSlack
BY CapacityAssumption, SlackAssumption DEF Allowed

-----------------------------------------------------------------------------
(* The queries on a table whose keys are an interval.                      *)

(* What the queries answer when the keys are lo .. hi.                     *)
LEMMA IntervalQueries ==
  ASSUME NEW r, NEW hi \in Nat, NEW lo \in 1 .. hi + 1, DOMAIN r = lo .. hi
  PROVE  /\ lo <= hi => max_seq(r) = hi /\ min_seq(r) = lo
         /\ lo > hi => max_seq(r) = 0 /\ min_seq(r) = 1
         /\ max_seq(r) \in 0 .. hi
         /\ events_total(r, {}) = hi - lo + 1
<1>1. CASE lo <= hi
  <2>1. DOMAIN r # {} /\ Min(DOMAIN r) = lo /\ Max(DOMAIN r) = hi
    BY <1>1, IntervalEnds
  <2> QED BY <1>1, <2>1 DEF max_seq, min_seq, events_total, scalar_with
<1>2. CASE lo > hi
  <2>1. DOMAIN r = {} /\ lo = hi + 1
    BY <1>2
  <2> QED BY <1>2, <2>1 DEF max_seq, min_seq, events_total, scalar_with
<1> QED BY <1>1, <1>2

(* Whatever queries fail, deleting for the ring leaves an interval up to   *)
(* the newest key: the newest Capacity when none does, and at least these  *)
(* unless MIN failed in the count and not where the deletion begins.       *)
LEMMA TrimmedInterval ==
  ASSUME NEW r, NEW miss, NEW hi \in Nat, NEW lo \in 1 .. hi, DOMAIN r = lo .. hi
  PROVE  \E low \in lo .. hi + 1 :
           /\ DOMAIN Trimmed(r, miss) = low .. hi
           /\ miss \cap {"total_min", "min"} # {"total_min"} =>
                low = lo \/ low <= hi - Capacity + 1
           /\ miss \cap {"total_max", "total_min", "min"} = {} =>
                low = IF hi - lo + 1 > Capacity THEN hi - Capacity + 1 ELSE lo
<1> USE CapacityAssumption
<1>1. max_seq(r) = hi /\ min_seq(r) = lo
  <2>1. lo \in 1 .. hi + 1 /\ lo <= hi
    OBVIOUS
  <2> QED BY <2>1, IntervalQueries
<1> DEFINE total == events_total(r, miss)
           first == scalar_with(min_seq(r), 1, "min" \notin miss)
<1>2. /\ total = IF "total_max" \in miss THEN 0
                 ELSE IF "total_min" \in miss THEN hi ELSE hi - lo + 1
      /\ first = IF "min" \in miss THEN 1 ELSE lo
  BY <1>1 DEF events_total, scalar_with
<1>3. Trimmed(r, miss) = IF total - Capacity <= 0 THEN r
                         ELSE Restrict(r, {q \in DOMAIN r : q >= first + (total - Capacity)})
  BY DEF Trimmed
<1> HIDE DEF total, first
<1>4. total \in Nat /\ first \in 1 .. lo /\ first \in Nat
  BY <1>2
<1>5. CASE total - Capacity <= 0
  <2>1. DOMAIN Trimmed(r, miss) = lo .. hi /\ lo \in lo .. hi + 1
    BY <1>3, <1>5
  <2>2. miss \cap {"total_max", "total_min", "min"} = {} =>
          lo = IF hi - lo + 1 > Capacity THEN hi - Capacity + 1 ELSE lo
    BY <1>2, <1>5
  <2> QED BY <2>1, <2>2
<1>6. CASE ~(total - Capacity <= 0)
  <2>1. PICK cut \in Int : cut = first + (total - Capacity) /\ cut > first
    BY <1>4, <1>6
  <2> DEFINE low == IF cut < lo THEN lo ELSE IF cut > hi THEN hi + 1 ELSE cut
  <2>2. DOMAIN Trimmed(r, miss) = {q \in lo .. hi : q >= cut}
    BY <1>3, <1>6, <2>1 DEF Restrict
  <2>3. low \in lo .. hi + 1 /\ {q \in lo .. hi : q >= cut} = low .. hi
    OBVIOUS
  <2>4. miss \cap {"total_min", "min"} # {"total_min"} =>
          low = lo \/ low <= hi - Capacity + 1
    <3> SUFFICES ASSUME miss \cap {"total_min", "min"} # {"total_min"}
                 PROVE  cut <= hi - Capacity + 1
      BY <2>3
    <3>1. "total_min" \in miss => "min" \in miss
      OBVIOUS
    <3> QED BY <1>2, <1>4, <1>6, <2>1, <3>1
  <2>5. miss \cap {"total_max", "total_min", "min"} = {} =>
          low = IF hi - lo + 1 > Capacity THEN hi - Capacity + 1 ELSE lo
    <3> SUFFICES ASSUME miss \cap {"total_max", "total_min", "min"} = {}
                 PROVE  low = IF hi - lo + 1 > Capacity THEN hi - Capacity + 1 ELSE lo
      OBVIOUS
    <3>1. total = hi - lo + 1 /\ first = lo
      BY <1>2
    <3>2. cut = hi - Capacity + 1 /\ hi - lo + 1 > Capacity
      BY <1>6, <2>1, <3>1
    <3> QED BY <2>1, <3>1, <3>2
  <2> HIDE DEF low
  <2> QED BY <2>2, <2>3, <2>4, <2>5
<1> QED BY <1>5, <1>6

(* A table of rows that carry clock readings stays one: when a row is      *)
(* inserted, when the ring is trimmed, when an older copy is put back.     *)
LEMMA RowsStayTyped ==
  ASSUME NEW r, r \in [DOMAIN r -> Times]
  PROVE  /\ \A q, t : t \in Times =>
              /\ DOMAIN Inserted(r, q, t) = DOMAIN r \cup {q}
              /\ Inserted(r, q, t) \in [DOMAIN r \cup {q} -> Times]
         /\ \A S : S \subseteq DOMAIN r =>
              /\ DOMAIN Restrict(r, S) = S
              /\ Restrict(r, S) \in [S -> Times]
         /\ \A miss : Trimmed(r, miss) \in [DOMAIN Trimmed(r, miss) -> Times]
<1>1. \A S : S \subseteq DOMAIN r =>
              /\ DOMAIN Restrict(r, S) = S
              /\ Restrict(r, S) \in [S -> Times]
  BY DEF Restrict
<1>2. \A miss : Trimmed(r, miss) \in [DOMAIN Trimmed(r, miss) -> Times]
  BY <1>1 DEF Trimmed
<1>3. \A q, t : t \in Times =>
              /\ DOMAIN Inserted(r, q, t) = DOMAIN r \cup {q}
              /\ Inserted(r, q, t) \in [DOMAIN r \cup {q} -> Times]
  BY DEF Inserted
<1> QED BY <1>1, <1>2, <1>3

-----------------------------------------------------------------------------
(* The inductive invariant.  TypeOK says nothing of gaps in the table, and *)
(* RingBound does not survive a step by itself: how far the table can grow *)
(* before the next deletion depends on nextTrim.                           *)

(* The keys are an interval that ends at the last number handed out; it    *)
(* is within what the failed deletions allow, and stays within it until    *)
(* the next look at the ring.                                              *)
Window ==
  \E lo \in 1 .. autoSeq + 1 :
    /\ DOMAIN rows = lo .. autoSeq
    /\ autoSeq - lo + 1 < Allowed(trimFails)
    /\ mode = "disk" => nextTrim - lo < Allowed(trimFails)

IInv == TypeOK /\ Window

(* A new store satisfies the invariant.                                     *)
LEMMA InitIInv == Init => IInv
<1> SUFFICES ASSUME Init PROVE IInv
  OBVIOUS
<1> USE CapacityAssumption, SlackAssumption, MemCapAssumption, MaxSeqAssumption
<1>1. DOMAIN rows = {} /\ rows \in [{} -> Times] /\ autoSeq = 0 /\ trimFails = 0
      /\ mode = "closed"
  BY DEF Init, Empty
<1>2. TypeOK
  BY <1>1 DEF Init, Empty, TypeOK, Slots
<1>3. Window
  <2>1. 1 \in 1 .. autoSeq + 1 /\ DOMAIN rows = 1 .. autoSeq
    BY <1>1
  <2>2. autoSeq - 1 + 1 < Allowed(trimFails)
    BY <1>1, AllowedGrows
  <2> QED BY <1>1, <2>1, <2>2 DEF Window
<1> QED BY <1>2, <1>3 DEF IInv

(* A step that leaves the table alone and neither opens the store nor      *)
(* moves nextTrim keeps the window.                                        *)
LEMMA WindowKept ==
  ASSUME IInv, UNCHANGED <<rows, autoSeq, trimFails>>,
         mode' = "disk" => mode = "disk" /\ nextTrim' = nextTrim
  PROVE  Window'
BY DEF IInv, Window

(* What the queries answer in every state of the store.                    *)
LEMMA QueriesInRange ==
  ASSUME IInv
  PROVE  /\ max_seq(rows) \in 0 .. autoSeq
         /\ \A ok : scalar_with(max_seq(rows), 0, ok) \in 0 .. autoSeq
         /\ \A t \in Times : \A miss : TimeTarget(rows, t, miss) \in 0 .. autoSeq
<1>1. PICK lo \in 1 .. autoSeq + 1 : DOMAIN rows = lo .. autoSeq
  BY DEF IInv, Window
<1>2. autoSeq \in Nat
  BY MaxSeqAssumption DEF IInv, TypeOK
<1>3. max_seq(rows) \in 0 .. autoSeq
  BY <1>1, <1>2, IntervalQueries
<1>5. \A ok : scalar_with(max_seq(rows), 0, ok) \in 0 .. autoSeq
  BY <1>2, <1>3 DEF scalar_with
<1>4. ASSUME NEW t \in Times, NEW miss PROVE TimeTarget(rows, t, miss) \in 0 .. autoSeq
  <2> DEFINE later == {q \in DOMAIN rows : rows[q] >= t}
  <2>1. CASE later = {} \/ "later" \in miss
    BY <1>5, <2>1 DEF TimeTarget
  <2>2. CASE later # {} /\ ~("later" \in miss)
    <3>1. later \in SUBSET Nat /\ later \subseteq 1 .. autoSeq
      BY <1>1, <1>2
    <3>2. Min(later) \in later
      BY <2>2, <3>1, LeastExists
    <3>3. Min(later) \in 1 .. autoSeq
      BY <3>1, <3>2
    <3>4. TimeTarget(rows, t, miss) = Min(later) - 1
      BY <2>2 DEF TimeTarget
    <3> QED BY <1>2, <3>3, <3>4
  <2> QED BY <2>1, <2>2
<1> QED BY <1>3, <1>4, <1>5

(* Wherever the position is looked at, it stays within what was handed out.*)
LEMMA RepairedInRange ==
  ASSUME IInv, NEW miss, NEW ok
  PROVE  /\ Repaired(rows, sent, miss, ok) \in 0 .. MaxSeq + 1
         /\ ok /\ "sent" \notin miss => Repaired(rows, sent, miss, ok) <= max_seq(rows)
         /\ sent <= max_seq(rows) => Repaired(rows, sent, miss, ok) <= max_seq(rows)
<1>1. /\ max_seq(rows) \in 0 .. autoSeq /\ autoSeq \in 0 .. MaxSeq
      /\ scalar_with(max_seq(rows), 0, "max" \notin miss) \in {0, max_seq(rows)}
      /\ sent \in 0 .. MaxSeq + 1
      /\ scalar_with(sent, 0, "sent" \notin miss) = IF "sent" \in miss THEN 0 ELSE sent
  BY QueriesInRange DEF IInv, TypeOK, scalar_with
<1>2. PICK top : top = scalar_with(max_seq(rows), 0, "max" \notin miss)
  OBVIOUS
<1>3. PICK at : at = scalar_with(sent, 0, "sent" \notin miss)
  OBVIOUS
<1>4. Repaired(rows, sent, miss, ok) = IF at > top /\ ok THEN top ELSE sent
  BY <1>2, <1>3 DEF Repaired
<1>5. top \in 0 .. max_seq(rows) /\ top \in 0 .. MaxSeq + 1 /\ top \in Int
  BY <1>1, <1>2, MaxSeqAssumption
<1> QED BY <1>1, <1>3, <1>4, <1>5

(* What an append may do to rows that were there: it takes the oldest, and *)
(* leaves the newest Capacity unless MIN failed in the count alone.        *)
KeepsNewest ==
  DOMAIN rows \ DOMAIN rows' # {} =>
    LET newest == (autoSeq' - Capacity + 1) .. autoSeq'
    IN /\ autoSeq' = autoSeq + 1
       /\ \A q \in DOMAIN rows \ DOMAIN rows' : \A p \in DOMAIN rows' : q < p
       /\ failed' \cap {"total_min", "min"} # {"total_min"} => newest \subseteq DOMAIN rows'
       /\ failed' \cap Reads = {} => DOMAIN rows' = newest

(* events_append on the open database, with its failing queries and its    *)
(* failures to repair, insert and delete: the window, the kinds of rows    *)
(* that can appear and the rows the ring keeps.                            *)
LEMMA AppendToDiskStep ==
  ASSUME IInv, NEW t \in Times, AppendToDisk(t)
  PROVE  /\ IInv'
         /\ \A q \in DOMAIN rows' \ DOMAIN rows :
              {"repair", "sent"} \cap failed' = {} => q > sent'
         /\ KeepsNewest
<1> USE CapacityAssumption, SlackAssumption, MaxSeqAssumption
<1> DEFINE seq == autoSeq + 1
           grown == Inserted(rows, seq, t)
<1>1. PICK repairOk \in BOOLEAN, insertOk \in BOOLEAN, deleteOk \in BOOLEAN :
        LET due == insertOk /\ seq >= nextTrim
        IN \E miss \in MayFail({"max", "sent"} \cup
                               (IF due THEN {"total_max", "total_min", "min"} ELSE {})) :
             /\ mode = "disk"
             /\ autoSeq < MaxSeq
             /\ sent' = Repaired(rows, sent, miss, repairOk)
             /\ autoSeq' = IF insertOk THEN seq ELSE autoSeq
             /\ rows' = IF ~insertOk THEN rows
                        ELSE IF due /\ deleteOk THEN Trimmed(grown, miss)
                        ELSE grown
             /\ nextTrim' = IF due THEN seq + TrimSlack ELSE nextTrim
             /\ trimFails' = IF ~due THEN trimFails
                             ELSE IF CheckFails(miss, deleteOk) /\ Cardinality(DOMAIN rows') > Capacity
                             THEN trimFails + 1
                             ELSE 0
             /\ trimFails' <= trimFails \/ trimFails < MaxTrimFails
             /\ Failures(miss \cup {k \in {"repair", "insert", "delete"} :
                            \/ k = "repair" /\ sent > max_seq(rows) /\ ~repairOk
                            \/ k = "insert" /\ ~insertOk
                            \/ k = "delete" /\ due /\ ~deleteOk})
             /\ UNCHANGED <<mode, ring>>
  BY DEF AppendToDisk
<1> DEFINE due == insertOk /\ seq >= nextTrim
           statements == {k \in {"repair", "insert", "delete"} :
                            \/ k = "repair" /\ sent > max_seq(rows) /\ ~repairOk
                            \/ k = "insert" /\ ~insertOk
                            \/ k = "delete" /\ due /\ ~deleteOk}
<1>2. PICK miss :
        /\ miss \subseteq Reads
        /\ mode = "disk" /\ autoSeq < MaxSeq
        /\ sent' = Repaired(rows, sent, miss, repairOk)
        /\ autoSeq' = IF insertOk THEN seq ELSE autoSeq
        /\ rows' = IF ~insertOk THEN rows
                   ELSE IF due /\ deleteOk THEN Trimmed(grown, miss)
                   ELSE grown
        /\ nextTrim' = IF due THEN seq + TrimSlack ELSE nextTrim
        /\ trimFails' = IF ~due THEN trimFails
                        ELSE IF CheckFails(miss, deleteOk) /\ Cardinality(DOMAIN rows') > Capacity
                        THEN trimFails + 1
                        ELSE 0
        /\ failed' = miss \cup statements
        /\ UNCHANGED <<mode, ring>>
  BY <1>1, MissesAssumption DEF MayFail, Failures
<1>3. PICK lo \in 1 .. autoSeq + 1 :
         /\ DOMAIN rows = lo .. autoSeq
         /\ autoSeq - lo + 1 < Allowed(trimFails)
         /\ mode = "disk" => nextTrim - lo < Allowed(trimFails)
  BY DEF IInv, Window
<1>4. /\ autoSeq \in Nat /\ seq \in Nat /\ lo \in 1 .. seq /\ nextTrim \in Nat
      /\ trimFails \in Nat /\ rows \in [DOMAIN rows -> Times]
      /\ sent \in 0 .. MaxSeq + 1 /\ max_seq(rows) \in 0 .. autoSeq
  BY <1>3, QueriesInRange DEF IInv, TypeOK
<1>5. /\ sent' \in 0 .. MaxSeq + 1
      /\ repairOk /\ "sent" \notin miss => sent' <= max_seq(rows)
      /\ sent <= max_seq(rows) => sent' <= max_seq(rows)
  BY <1>2, RepairedInRange
<1>6. failed' \subseteq {"repair", "insert", "delete", "update"} \cup Reads
  BY <1>2
<1>7. failed' \cap Reads = miss /\ statements \cap Reads = {}
  BY <1>2 DEF Reads
<1>8. ~("repair" \in failed') => sent <= max_seq(rows) \/ repairOk
  <2> SUFFICES ASSUME sent > max_seq(rows), ~repairOk PROVE "repair" \in failed'
    BY <1>4
  <2> QED BY <1>2
<1>9. /\ DOMAIN grown = lo .. seq
      /\ grown \in [DOMAIN grown -> Times]
      /\ Trimmed(grown, miss) \in [DOMAIN Trimmed(grown, miss) -> Times]
  <2>1. DOMAIN grown = DOMAIN rows \cup {seq} /\ grown \in [DOMAIN rows \cup {seq} -> Times]
    BY <1>4, RowsStayTyped
  <2>2. DOMAIN rows \cup {seq} = lo .. seq
    BY <1>3, <1>4
  <2>3. DOMAIN grown = lo .. seq /\ grown \in [DOMAIN grown -> Times]
    BY <2>1, <2>2
  <2> HIDE DEF grown
  <2>4. Trimmed(grown, miss) \in [DOMAIN Trimmed(grown, miss) -> Times]
    BY <2>3, RowsStayTyped
  <2> QED BY <2>3, <2>4
<1>10. PICK cut \in lo .. seq + 1 :
          /\ DOMAIN Trimmed(grown, miss) = cut .. seq
          /\ miss \cap {"total_min", "min"} # {"total_min"} =>
               cut = lo \/ cut <= seq - Capacity + 1
          /\ miss \cap {"total_max", "total_min", "min"} = {} =>
               cut = IF seq - lo + 1 > Capacity THEN seq - Capacity + 1 ELSE lo
  <2> HIDE DEF grown, seq
  <2> QED BY <1>4, <1>9, TrimmedInterval
<1> HIDE DEF seq, grown, statements
<1>11. CASE ~insertOk
  <2>1. rows' = rows /\ autoSeq' = autoSeq /\ nextTrim' = nextTrim /\ trimFails' = trimFails
        /\ mode' = mode
    BY <1>2, <1>11
  <2>2. Window'
    BY <2>1, WindowKept
  <2>3. TypeOK'
    BY <1>2, <1>5, <1>6, <2>1 DEF IInv, TypeOK, ring, Slots
  <2> QED BY <2>1, <2>2, <2>3 DEF IInv, KeepsNewest
<1>12. CASE insertOk
  <2> DEFINE low == IF due /\ deleteOk THEN cut ELSE lo
  <2>1. /\ autoSeq' = seq /\ seq = autoSeq + 1 /\ mode' = "disk" /\ mode = "disk"
        /\ nextTrim' = IF seq >= nextTrim THEN seq + TrimSlack ELSE nextTrim
        /\ UNCHANGED ring
    BY <1>2, <1>12 DEF seq
  <2>2. DOMAIN rows' = low .. seq /\ rows' \in [DOMAIN rows' -> Times]
    BY <1>2, <1>9, <1>10, <1>12
  <2>3. low \in lo .. seq + 1 /\ low \in 1 .. autoSeq' + 1 /\ low \in Int /\ lo \in Int
    BY <1>4, <1>10, <2>1
  <2>4. Cardinality(DOMAIN rows') = seq - low + 1
    <3> HIDE DEF low
    <3>1. low \in Int /\ seq \in Int /\ low <= seq + 1
      BY <1>4, <2>3
    <3>2. Cardinality(low .. seq) = IF low > seq THEN 0 ELSE seq - low + 1
      BY <3>1, FS_Interval
    <3> QED BY <2>2, <3>1, <3>2
  <2>5. trimFails' = IF ~due THEN trimFails
                     ELSE IF CheckFails(miss, deleteOk) /\ seq - low + 1 > Capacity
                     THEN trimFails + 1 ELSE 0
    <3> HIDE DEF low, due
    <3> QED BY <1>2, <2>4
  <2>6. trimFails' \in Nat /\ autoSeq' \in 0 .. MaxSeq /\ nextTrim' \in Nat
    <3>1. autoSeq < MaxSeq
      BY <1>2
    <3> QED BY <1>4, <2>1, <2>5, <3>1
  <2>7. /\ autoSeq' - low + 1 < Allowed(trimFails')
        /\ nextTrim' - low < Allowed(trimFails')
    <3>1. CASE ~due
      <4>1. low = lo /\ nextTrim' = nextTrim /\ trimFails' = trimFails /\ seq < nextTrim
        BY <1>4, <1>12, <2>1, <2>5, <3>1
      <4>2. nextTrim - lo < Allowed(trimFails) /\ Allowed(trimFails) \in Nat
        BY <1>3, <1>4, <2>1, AllowedGrows
      <4> QED BY <1>4, <2>1, <4>1, <4>2
    <3>2. CASE due /\ ~(seq - low + 1 > Capacity)
      <4>1. trimFails' = 0 /\ nextTrim' = seq + TrimSlack
        BY <2>1, <2>5, <3>2
      <4>2. Allowed(0) >= Capacity + TrimSlack /\ Allowed(0) \in Nat
        BY AllowedGrows
      <4> HIDE DEF low
      <4> QED BY <1>4, <2>1, <2>3, <3>2, <4>1, <4>2
    <3>3. CASE due /\ seq - low + 1 > Capacity
      <4>0. CheckFails(miss, deleteOk)
        <5> SUFFICES ASSUME ~CheckFails(miss, deleteOk) PROVE FALSE
          OBVIOUS
        <5>1. deleteOk /\ miss \cap {"total_max", "total_min", "min"} = {}
          BY DEF CheckFails
        <5>2. low = cut /\ cut = IF seq - lo + 1 > Capacity THEN seq - Capacity + 1 ELSE lo
          BY <1>10, <3>3, <5>1
        <5> HIDE DEF low
        <5> QED BY <1>4, <2>3, <3>3, <5>2
      <4>1. trimFails' = trimFails + 1 /\ nextTrim' = seq + TrimSlack
        BY <2>1, <2>5, <3>3, <4>0
      <4>2. /\ Allowed(trimFails) \in Nat
            /\ Allowed(trimFails') = Allowed(trimFails) + TrimSlack
        BY <1>4, <4>1, AllowedGrows
      <4>3. seq - lo < Allowed(trimFails) /\ low >= lo
        BY <1>3, <1>4, <2>1, <2>3
      <4> HIDE DEF low
      <4> QED BY <1>4, <2>1, <2>3, <4>1, <4>2, <4>3
    <3> QED BY <3>1, <3>2, <3>3
  <2>8. IInv'
    <3> HIDE DEF low
    <3>1. Window'
      BY <2>1, <2>2, <2>3, <2>7 DEF Window
    <3>2. DOMAIN rows' \subseteq 1 .. autoSeq'
      BY <2>1, <2>2, <2>3, <2>6
    <3>3. UNCHANGED <<mem, memHead, memCount, memNext>> /\ mode' = "disk"
      BY <2>1 DEF ring
    <3>4. TypeOK'
      BY <1>5, <1>6, <2>2, <2>6, <3>2, <3>3 DEF IInv, TypeOK, Slots
    <3> QED BY <3>1, <3>4 DEF IInv
  <2>9. ASSUME NEW q \in DOMAIN rows' \ DOMAIN rows, {"repair", "sent"} \cap failed' = {}
        PROVE  q > sent'
    <3>1. q = seq
      <4> HIDE DEF low
      <4>1. q \in low .. seq /\ q \notin lo .. autoSeq
        BY <1>3, <2>2
      <4> QED BY <1>4, <2>1, <2>3, <4>1
    <3>2. "repair" \notin failed' /\ "sent" \notin miss
      BY <1>2, <2>9
    <3>3. sent' <= max_seq(rows)
      BY <1>5, <1>8, <3>2
    <3> QED BY <1>4, <1>5, <2>1, <3>1, <3>3
  <2>10. ASSUME DOMAIN rows \ DOMAIN rows' # {}
         PROVE  LET newest == (autoSeq' - Capacity + 1) .. autoSeq'
                IN /\ autoSeq' = autoSeq + 1
                   /\ \A q \in DOMAIN rows \ DOMAIN rows' : \A p \in DOMAIN rows' : q < p
                   /\ failed' \cap {"total_min", "min"} # {"total_min"} =>
                        newest \subseteq DOMAIN rows'
                   /\ failed' \cap Reads = {} => DOMAIN rows' = newest
    <3>1. low = cut /\ low # lo
      <4>1. low # lo
        <5>1. lo .. autoSeq \subseteq lo .. seq
          BY <1>4, <2>1
        <5> HIDE DEF low
        <5> QED BY <1>3, <2>2, <2>10, <5>1
      <4> QED BY <4>1
    <3>2. \A q \in DOMAIN rows \ DOMAIN rows' : \A p \in DOMAIN rows' : q < p
      <4> SUFFICES ASSUME NEW q \in lo .. autoSeq, q \notin low .. seq, NEW p \in low .. seq
                   PROVE  q < p
        BY <1>3, <2>2
      <4> HIDE DEF low
      <4> QED BY <1>4, <2>1, <2>3
    <3>3. ASSUME failed' \cap {"total_min", "min"} # {"total_min"}
          PROVE  (seq - Capacity + 1) .. seq \subseteq low .. seq
      <4>1. miss \cap {"total_min", "min"} = failed' \cap {"total_min", "min"}
        BY <1>7 DEF Reads
      <4>2. cut <= seq - Capacity + 1
        BY <1>10, <3>1, <3>3, <4>1
      <4> HIDE DEF low
      <4> QED BY <1>4, <2>3, <3>1, <4>2
    <3>4. ASSUME failed' \cap Reads = {}
          PROVE  low = seq - Capacity + 1
      <4>1. miss \cap {"total_max", "total_min", "min"} = {}
        BY <1>7, <3>4
      <4> QED BY <1>10, <3>1, <4>1
    <3> HIDE DEF low
    <3> QED BY <2>1, <2>2, <3>2, <3>3, <3>4
  <2> HIDE DEF low
  <2>11. KeepsNewest
    BY <2>10 DEF KeepsNewest
  <2> QED BY <2>8, <2>9, <2>11
<1> QED BY <1>11, <1>12

(* The other steps of an open store: none of them touches the table.       *)

(* mem_push stays inside the ring.                                          *)
LEMMA AppendToMemoryStep == ASSUME IInv, AppendToMemory PROVE IInv'
<1> USE MemCapAssumption, MaxSeqAssumption
<1>1. /\ memHead \in Slots /\ memCount \in 0 .. MemCap /\ memNext \in Nat
      /\ mem \in [Slots -> Nat]
  BY DEF IInv, TypeOK
<1> DEFINE full == memCount = MemCap
           head == PushHead(full)
           n    == IF full THEN memCount - 1 ELSE memCount
<1>2. /\ mode = "memory" /\ memNext <= MaxSeq
      /\ mem' = [mem EXCEPT ![(head + n) % MemCap] = memNext]
      /\ memHead' = head /\ memCount' = n + 1 /\ memNext' = memNext + 1
      /\ failed' = {} /\ UNCHANGED <<disk, mode, nextTrim, trimFails>>
  BY DEF AppendToMemory, Failures
<1>3. head \in Slots /\ n \in 0 .. MemCap - 1
  BY <1>1, ModRange DEF PushHead, Slots
<1> HIDE DEF head, n
<1>4. memHead' \in Slots /\ memCount' \in 0 .. MemCap /\ memNext' \in 1 .. MaxSeq + 1
      /\ mem' \in [Slots -> Nat]
  BY <1>1, <1>2, <1>3 DEF Slots
<1>5. TypeOK'
  BY <1>2, <1>4 DEF IInv, TypeOK, disk, Slots
<1>6. Window'
  BY <1>2, WindowKept DEF disk
<1> QED BY <1>5, <1>6 DEF IInv

(* How much of the memory ring an acknowledgement can free.                *)
LEMMA PoppedBound ==
  ASSUME memCount \in Nat, NEW upto
  PROVE  Popped(upto) \in 0 .. memCount
<1> DEFINE front == {i \in 0 .. memCount - 1 :
                       \A j \in 0 .. i : mem[(memHead + j) % MemCap] <= upto}
<1>1. IsFiniteSet(0 .. memCount - 1) /\ Cardinality(0 .. memCount - 1) = memCount
  BY FS_Interval
<1>2. front \in SUBSET (0 .. memCount - 1)
  OBVIOUS
<1> HIDE DEF front
<1>3. IsFiniteSet(front) /\ Cardinality(front) <= memCount
  BY <1>1, <1>2, FS_Subset
<1>4. Cardinality(front) \in Nat
  BY <1>3, FS_CardinalityType
<1>5. Popped(upto) = Cardinality(front)
  BY DEF Popped, front
<1> QED BY <1>3, <1>4, <1>5

(* events_ack in memory frees no more than there is.                        *)
LEMMA AckInMemoryStep == ASSUME IInv, NEW upto, AckInMemory(upto) PROVE IInv'
<1> USE MemCapAssumption
<1>1. memHead \in Slots /\ memCount \in 0 .. MemCap
  BY DEF IInv, TypeOK
<1>2. /\ mode = "memory"
      /\ memHead' = (memHead + Popped(upto)) % MemCap
      /\ memCount' = memCount - Popped(upto)
      /\ failed' = {} /\ UNCHANGED <<disk, mode, nextTrim, mem, memNext, trimFails>>
  BY DEF AckInMemory, Failures
<1>3. Popped(upto) \in 0 .. memCount
  BY <1>1, PoppedBound
<1>4. memHead' \in Slots /\ memCount' \in 0 .. MemCap
  <2>1. memHead + Popped(upto) \in Nat
    BY <1>1, <1>3 DEF Slots
  <2>2. memHead' \in Slots
    BY <1>2, <2>1, ModRange DEF Slots
  <2> QED BY <1>1, <1>2, <1>3, <2>2
<1>5. TypeOK'
  BY <1>2, <1>4 DEF IInv, TypeOK, disk, Slots
<1>6. Window'
  BY <1>2, WindowKept DEF disk
<1> QED BY <1>5, <1>6 DEF IInv

(* An UPDATE of the position to a number that was handed out.               *)
LEMMA SetSentStep ==
  ASSUME IInv, NEW v \in 0 .. MaxSeq + 1, NEW miss \in SUBSET Reads, SetSent(v, miss)
  PROVE  IInv'
<1>1. TypeOK'
  <2>1. /\ sent' \in 0 .. MaxSeq + 1 /\ failed' \subseteq {"update"} \cup Reads
        /\ UNCHANGED <<rows, autoSeq, mode, nextTrim, mem, memHead, memCount, memNext, trimFails>>
    BY DEF IInv, TypeOK, SetSent, Failures, ring
  <2> QED BY <2>1 DEF IInv, TypeOK, Slots
<1>2. Window'
  BY WindowKept DEF SetSent
<1> QED BY <1>1, <1>2 DEF IInv

(* events_fetch only ever repairs the position.                             *)
LEMMA FetchStep == ASSUME IInv, events_fetch PROVE IInv'
<1> USE MaxSeqAssumption
<1>1. PICK miss \in MayFail({"fetch", "max", "sent"}), ok \in BOOLEAN :
        /\ sent' = Repaired(rows, sent, miss, ok)
        /\ failed' = IF ok THEN miss ELSE miss \cup {"repair"}
  BY DEF events_fetch, Failures
<1>2. sent' \in 0 .. MaxSeq + 1 /\ failed' \subseteq {"repair"} \cup Reads
  BY <1>1, RepairedInRange, MissesAssumption DEF MayFail
<1>3. UNCHANGED <<rows, autoSeq, mode, nextTrim, ring, trimFails>>
  BY DEF events_fetch
<1>4. TypeOK'
  BY <1>2, <1>3 DEF IInv, TypeOK, ring, Slots
<1>5. Window'
  BY <1>3, WindowKept
<1> QED BY <1>4, <1>5 DEF IInv

(* The life of the store: opening, closing, and what the field does.       *)
LEMMA LifeStep ==
  ASSUME IInv, events_open \/ events_close \/ IndexAhead
  PROVE  IInv'
<1> USE CapacityAssumption, SlackAssumption, MemCapAssumption, MaxSeqAssumption
<1>1. Fresh => /\ nextTrim' = Capacity + TrimSlack /\ nextTrim' \in Nat
               /\ mem' \in [Slots -> Nat] /\ memHead' \in Slots
               /\ memCount' \in 0 .. MemCap /\ memNext' \in 1 .. MaxSeq + 1
  BY DEF Fresh, Slots
<1>2. max_seq(rows) \in 0 .. MaxSeq /\ sent \in 0 .. MaxSeq + 1
  BY QueriesInRange DEF IInv, TypeOK
<1>3. CASE events_open
  <2>1. /\ Fresh /\ mode' \in {"disk", "memory"} /\ UNCHANGED <<rows, autoSeq, trimFails>>
        /\ failed' \subseteq {"repair"} \cup Reads
        /\ sent' = sent \/ \E ok, miss : sent' = Repaired(rows, sent, miss, ok)
    BY <1>3, MissesAssumption DEF events_open, Failures, MayFail
  <2>2. sent' \in 0 .. MaxSeq + 1
    BY <1>2, <2>1, RepairedInRange
  <2>3. TypeOK'
    <3>1. /\ nextTrim' \in Nat /\ mem' \in [Slots -> Nat] /\ memHead' \in Slots
          /\ memCount' \in 0 .. MemCap /\ memNext' \in 1 .. MaxSeq + 1
      BY <1>1, <2>1
    <3>2. rows' = rows /\ autoSeq' = autoSeq /\ trimFails' = trimFails
      BY <2>1
    <3> QED BY <2>1, <2>2, <3>1, <3>2 DEF IInv, TypeOK, Slots
  <2>4. PICK lo \in 1 .. autoSeq + 1 :
           DOMAIN rows = lo .. autoSeq /\ autoSeq - lo + 1 < Allowed(trimFails)
    BY DEF IInv, Window
  <2>5. nextTrim' - lo < Allowed(trimFails')
    <3>1. Allowed(trimFails) >= Capacity + TrimSlack /\ Allowed(trimFails) \in Nat
      BY AllowedGrows DEF IInv, TypeOK
    <3>2. lo \in Nat /\ lo >= 1
      BY DEF IInv, TypeOK
    <3> QED BY <1>1, <2>1, <3>1, <3>2
  <2>6. Window'
    BY <2>1, <2>4, <2>5 DEF Window
  <2> QED BY <2>3, <2>6 DEF IInv
<1>4. CASE events_close
  <2>1. Fresh /\ mode' = "closed" /\ failed' = {} /\ UNCHANGED <<disk, trimFails>>
    BY <1>4 DEF events_close, Failures
  <2>2. TypeOK'
    <3>1. /\ nextTrim' \in Nat /\ mem' \in [Slots -> Nat] /\ memHead' \in Slots
          /\ memCount' \in 0 .. MemCap /\ memNext' \in 1 .. MaxSeq + 1
      BY <1>1, <2>1
    <3>2. rows' = rows /\ autoSeq' = autoSeq /\ sent' = sent /\ trimFails' = trimFails
      BY <2>1 DEF disk
    <3> QED BY <2>1, <3>1, <3>2 DEF IInv, TypeOK, Slots
  <2>3. Window'
    BY <2>1, WindowKept DEF disk
  <2> QED BY <2>2, <2>3 DEF IInv
<1>5. CASE IndexAhead
  <2>1. /\ \E v \in max_seq(rows) + 1 .. MaxSeq + 1 : v > sent /\ sent' = v
        /\ failed' = {}
        /\ UNCHANGED <<rows, autoSeq, mode, nextTrim, ring, trimFails>>
    BY <1>5 DEF IndexAhead, Failures
  <2>2. sent' \in 0 .. MaxSeq + 1
    BY <1>2, <2>1
  <2>3. TypeOK'
    BY <2>1, <2>2 DEF IInv, TypeOK, Slots, ring
  <2>4. Window'
    BY <2>1, WindowKept
  <2> QED BY <2>3, <2>4 DEF IInv
<1> QED BY <1>3, <1>4, <1>5

(* An older copy of the table is an interval that ends earlier.             *)
LEMMA OlderCopyStep == ASSUME IInv, OlderCopy PROVE IInv'
<1> USE MaxSeqAssumption
<1>1. PICK k \in 0 .. autoSeq :
         /\ rows' = Restrict(rows, {q \in DOMAIN rows : q <= k})
         /\ autoSeq' = k
  BY DEF OlderCopy
<1>2. PICK lo \in 1 .. autoSeq + 1 :
         DOMAIN rows = lo .. autoSeq /\ autoSeq - lo + 1 < Allowed(trimFails)
  BY DEF IInv, Window
<1>3. /\ mode = "closed" /\ mode' = "closed" /\ failed' = {}
      /\ UNCHANGED <<sent, nextTrim, ring, trimFails>>
  BY DEF OlderCopy, Failures
<1>4. autoSeq \in Nat /\ trimFails \in Nat /\ Allowed(trimFails) \in Nat
  BY AllowedGrows DEF IInv, TypeOK
<1> DEFINE low == IF lo > k THEN k + 1 ELSE lo
<1>5. {q \in DOMAIN rows : q <= k} = low .. k /\ low \in 1 .. k + 1
  BY <1>2, <1>4
<1>6. DOMAIN rows' = low .. k /\ rows' \in [DOMAIN rows' -> Times]
  <2>1. rows \in [DOMAIN rows -> Times]
    BY DEF IInv, TypeOK
  <2>2. {q \in DOMAIN rows : q <= k} \subseteq DOMAIN rows
    OBVIOUS
  <2>3. DOMAIN rows' = {q \in DOMAIN rows : q <= k}
        /\ rows' \in [{q \in DOMAIN rows : q <= k} -> Times]
    BY <1>1, <2>1, <2>2, RowsStayTyped
  <2> QED BY <1>5, <2>3
<1>7. k - low + 1 < Allowed(trimFails)
  <2>1. CapacityAssumption /\ SlackAssumption
    BY CapacityAssumption, SlackAssumption
  <2>2. Allowed(trimFails) >= 1
    BY <1>4, AllowedGrows, CapacityAssumption, SlackAssumption
  <2> QED BY <1>2, <1>4, <2>2
<1> HIDE DEF low
<1>8. Window'
  BY <1>1, <1>3, <1>5, <1>6, <1>7 DEF Window
<1>9. TypeOK'
  <2>1. autoSeq' \in 0 .. MaxSeq /\ DOMAIN rows' \subseteq 1 .. autoSeq'
    <3>1. autoSeq \in 0 .. MaxSeq
      BY DEF IInv, TypeOK
    <3>2. low .. k \subseteq 1 .. k /\ k \in 0 .. MaxSeq
      BY <1>1, <1>5, <3>1
    <3> QED BY <1>1, <1>6, <3>2
  <2> QED BY <1>3, <1>6, <2>1 DEF IInv, TypeOK, Slots, ring
<1> QED BY <1>8, <1>9 DEF IInv

-----------------------------------------------------------------------------
(* One step of the store, whatever it is.                                  *)
LEMMA NextIInv == IInv /\ [Next]_vars => IInv'
<1> SUFFICES ASSUME IInv, [Next]_vars PROVE IInv'
  OBVIOUS
<1> USE MaxSeqAssumption
<1>1. /\ autoSeq \in 0 .. MaxSeq /\ sent \in 0 .. MaxSeq + 1
      /\ DOMAIN rows \subseteq 1 .. autoSeq
  BY DEF IInv, TypeOK
<1>2. ASSUME NEW t \in Times, events_append(t) PROVE IInv'
  BY <1>2, AppendToDiskStep, AppendToMemoryStep DEF events_append
<1>3. CASE events_fetch
  BY <1>3, FetchStep
<1>4. ASSUME NEW q \in Fetchable, events_ack(q) PROVE IInv'
  <2>1. CASE AckInMemory(q)
    BY <2>1, AckInMemoryStep
  <2>2. CASE AckOnDisk(q)
    <3>1. mode = "disk"
      BY <2>2 DEF AckOnDisk, SetSent
    <3>2. q \in DOMAIN rows
      BY <3>1 DEF Fetchable, Unsent
    <3>3. Acked(sent, q) \in 0 .. MaxSeq + 1
      BY <1>1, <3>2 DEF Acked
    <3>4. SetSent(Acked(sent, q), {})
      BY <2>2 DEF AckOnDisk
    <3> QED BY <3>3, <3>4, SetSentStep
  <2> QED BY <1>4, <2>1, <2>2 DEF events_ack
<1>5. ASSUME NEW t \in Times, events_rewind_to_time(t) PROVE IInv'
  <2>1. PICK miss \in MayFail({"later", "max"}) : SetSent(TimeTarget(rows, t, miss), miss)
    BY <1>5 DEF events_rewind_to_time
  <2>2. miss \in SUBSET Reads
    BY MissesAssumption DEF MayFail
  <2>3. TimeTarget(rows, t, miss) \in 0 .. MaxSeq + 1
    BY <1>1, QueriesInRange
  <2> QED BY <2>1, <2>2, <2>3, SetSentStep
<1>6. ASSUME NEW q \in 1 .. autoSeq, events_rewind_to_seq(q) PROVE IInv'
  <2>1. SeqTarget(sent, q) \in 0 .. MaxSeq + 1
    BY <1>1 DEF SeqTarget
  <2>2. SetSent(SeqTarget(sent, q), {})
    BY <1>6 DEF events_rewind_to_seq
  <2> QED BY <2>1, <2>2, SetSentStep
<1>7. CASE events_mark_all_sent
  <2>1. CASE MarkAllOnDisk
    <3>1. PICK miss \in MayFail({"max"}) :
             SetSent(scalar_with(max_seq(rows), 0, "max" \notin miss), miss)
      BY <2>1 DEF MarkAllOnDisk
    <3>2. miss \in SUBSET Reads
      BY MissesAssumption DEF MayFail
    <3>3. scalar_with(max_seq(rows), 0, "max" \notin miss) \in 0 .. MaxSeq + 1
      BY <1>1, QueriesInRange
    <3> QED BY <3>1, <3>2, <3>3, SetSentStep
  <2>2. CASE MarkAllInMemory
    <3>1. /\ mode = "memory" /\ memHead' = 0 /\ memCount' = 0 /\ failed' = {}
          /\ UNCHANGED <<disk, mode, nextTrim, mem, memNext, trimFails>>
      BY <2>2 DEF MarkAllInMemory, Failures
    <3>2. memHead' \in Slots /\ memCount' \in 0 .. MemCap
      BY <3>1, MemCapAssumption DEF Slots
    <3>3. TypeOK'
      BY <3>1, <3>2 DEF IInv, TypeOK, Slots, disk
    <3>4. Window'
      BY <3>1, WindowKept DEF disk
    <3> QED BY <3>3, <3>4 DEF IInv
  <2> QED BY <1>7, <2>1, <2>2 DEF events_mark_all_sent
<1>8. CASE events_open \/ events_close \/ IndexAhead
  BY <1>8, LifeStep
<1>9. CASE OlderCopy
  BY <1>9, OlderCopyStep
<1>10. CASE UNCHANGED vars
  BY <1>10 DEF IInv, TypeOK, Window, vars, Slots
<1> QED BY <1>2, <1>3, <1>4, <1>5, <1>6, <1>7, <1>8, <1>9, <1>10 DEF Next

(* The invariant holds in every state: it is what the rest follows from.    *)
THEOREM Inductive == Spec => []IInv
BY InitIInv, NextIInv, PTL DEF Spec

-----------------------------------------------------------------------------
(* The theorems.                                                           *)

(* The state stays well typed.                                             *)
THEOREM TypeCorrect == Spec => []TypeOK
<1>1. IInv => TypeOK
  BY DEF IInv
<1> QED BY <1>1, Inductive, PTL

(* Counting the rows as MAX - MIN + 1 is exact in every state.             *)
THEOREM CountIsExact == Spec => []TotalExact
<1>1. IInv => TotalExact
  <2> SUFFICES ASSUME IInv PROVE TotalExact
    OBVIOUS
  <2>1. PICK lo \in 1 .. autoSeq + 1 : DOMAIN rows = lo .. autoSeq
    BY DEF IInv, Window
  <2>2. autoSeq \in Nat /\ lo \in Int
    BY MaxSeqAssumption DEF IInv, TypeOK
  <2>3. Cardinality(lo .. autoSeq) = IF lo > autoSeq THEN 0 ELSE autoSeq - lo + 1
    BY <2>2, FS_Interval
  <2>4. events_total(rows, {}) = autoSeq - lo + 1
    BY <2>1, <2>2, IntervalQueries
  <2> QED BY <2>1, <2>2, <2>3, <2>4 DEF TotalExact
<1> QED BY <1>1, Inductive, PTL

(* So is the number of unsent events that is reported to the upper system, *)
(* wherever the position stands.                                           *)
THEOREM PendingIsExact == Spec => []PendingExact
<1>1. IInv => PendingExact
  <2> SUFFICES ASSUME IInv PROVE PendingExact
    OBVIOUS
  <2>1. PICK lo \in 1 .. autoSeq + 1 : DOMAIN rows = lo .. autoSeq
    BY DEF IInv, Window
  <2>2. autoSeq \in Nat /\ lo \in Int /\ sent \in Nat
    BY MaxSeqAssumption DEF IInv, TypeOK
  <2> DEFINE first == IF sent < lo THEN lo ELSE sent + 1
  <2>3. Unsent(rows, sent) = first .. autoSeq /\ first \in Int
    BY <2>1, <2>2 DEF Unsent
  <2>4. Cardinality(first .. autoSeq) = IF first > autoSeq THEN 0 ELSE autoSeq - first + 1
    <3> HIDE DEF first
    <3> QED BY <2>2, <2>3, FS_Interval
  <2>5. CASE lo <= autoSeq
    <3>1. max_seq(rows) = autoSeq /\ min_seq(rows) = lo
      BY <2>1, <2>2, <2>5, IntervalQueries
    <3> QED BY <2>2, <2>3, <2>4, <2>5, <3>1 DEF PendingExact, events_pending
  <2>6. CASE lo > autoSeq
    <3>1. max_seq(rows) = 0
      BY <2>1, <2>2, <2>6, IntervalQueries
    <3> QED BY <2>2, <2>3, <2>4, <2>6, <3>1 DEF PendingExact, events_pending
  <2> QED BY <2>2, <2>5, <2>6
<1> QED BY <1>1, Inductive, PTL

(* The table never outgrows what the failed deletions account for.         *)
THEOREM RingIsBounded == Spec => []RingBound
<1>1. IInv => RingBound
  <2> SUFFICES ASSUME IInv PROVE RingBound
    OBVIOUS
  <2>1. PICK lo \in 1 .. autoSeq + 1 :
           DOMAIN rows = lo .. autoSeq /\ autoSeq - lo + 1 < Allowed(trimFails)
    BY DEF IInv, Window
  <2>2. autoSeq \in Nat /\ lo \in Int
    BY MaxSeqAssumption DEF IInv, TypeOK
  <2>3. Cardinality(lo .. autoSeq) = IF lo > autoSeq THEN 0 ELSE autoSeq - lo + 1
    BY <2>2, FS_Interval
  <2>4. Cardinality(lo .. autoSeq) = autoSeq - lo + 1
    BY <2>1, <2>2, <2>3
  <2> QED BY <2>1, <2>4 DEF RingBound, Allowed
<1> QED BY <1>1, Inductive, PTL

(* Only an append to the table adds a row, and no other step of an open    *)
(* store removes one.                                                      *)
LEMMA OnlyAppendsTouchRows ==
  ASSUME [Next]_vars
  PROVE  \/ \E t \in Times : AppendToDisk(t)
         \/ rows' = rows
         \/ OlderCopy
BY DEF Next, vars, events_append, AppendToMemory, events_fetch, events_ack, AckOnDisk,
       AckInMemory, SetSent, events_rewind_to_time, events_rewind_to_seq,
       events_mark_all_sent, MarkAllOnDisk, MarkAllInMemory, events_open, events_close,
       IndexAhead, disk

(* An event is appended behind the position, whatever the position was,    *)
(* as long as the position could be read and the repair be written.        *)
THEOREM AppendsAreUnsent == Spec => AppendedIsUnsent
<1>1. IInv /\ [Next]_vars =>
        [\A q \in DOMAIN rows' \ DOMAIN rows :
           {"repair", "sent"} \cap failed' = {} => q > sent']_vars
  <2> SUFFICES ASSUME IInv, [Next]_vars, NEW q \in DOMAIN rows' \ DOMAIN rows,
                      {"repair", "sent"} \cap failed' = {}
               PROVE  q > sent'
    OBVIOUS
  <2>1. CASE \E t \in Times : AppendToDisk(t)
    BY <2>1, AppendToDiskStep
  <2>2. CASE rows' = rows
    BY <2>2
  <2>3. CASE OlderCopy
    <3>1. \E k : rows' = Restrict(rows, {p \in DOMAIN rows : p <= k})
      BY <2>3 DEF OlderCopy
    <3> QED BY <3>1 DEF Restrict
  <2> QED BY <2>1, <2>2, <2>3, OnlyAppendsTouchRows
<1> QED BY <1>1, Inductive, PTL DEF Spec, AppendedIsUnsent

(* Deleting for the ring takes the oldest rows, in the step that stored a  *)
(* new one, and keeps the newest Capacity, whatever else fails, unless MIN *)
(* failed in the count alone; no other row stays when no query failed.     *)
THEOREM TrimmingKeepsNewest == Spec => TrimKeepsNewest
<1>1. IInv /\ [Next]_vars => [mode = "disk" => KeepsNewest]_vars
  <2> SUFFICES ASSUME IInv, [Next]_vars, mode = "disk" PROVE KeepsNewest
    OBVIOUS
  <2>1. ~OlderCopy
    BY DEF OlderCopy
  <2>2. CASE \E t \in Times : AppendToDisk(t)
    BY <2>2, AppendToDiskStep
  <2>3. CASE rows' = rows
    BY <2>3 DEF KeepsNewest
  <2> QED BY <2>1, <2>2, <2>3, OnlyAppendsTouchRows
<1>2. [mode = "disk" => KeepsNewest]_vars =>
        [mode = "disk" /\ DOMAIN rows \ DOMAIN rows' # {} =>
           LET newest == (autoSeq' - Capacity + 1) .. autoSeq'
           IN /\ autoSeq' = autoSeq + 1
              /\ \A q \in DOMAIN rows \ DOMAIN rows' : \A p \in DOMAIN rows' : q < p
              /\ failed' \cap {"total_min", "min"} # {"total_min"} => newest \subseteq DOMAIN rows'
              /\ failed' \cap Reads = {} => DOMAIN rows' = newest]_vars
  BY DEF KeepsNewest
<1> QED BY <1>1, <1>2, Inductive, PTL DEF Spec, TrimKeepsNewest

-----------------------------------------------------------------------------
(* The memory ring.                                                        *)

(* Where a number below twice the size wraps to.                           *)
LEMMA RingOnce ==
  ASSUME NEW a \in Nat, a <= 2 * MemCap - 1
  PROVE  /\ a % MemCap \in Slots
         /\ a < MemCap => a % MemCap = a
         /\ a >= MemCap => a % MemCap = a - MemCap
<1>1. MemCap \in Nat \ {0} /\ a \in 0 .. 2 * MemCap - 1
  BY MemCapAssumption
<1>2. a % MemCap = IF a < MemCap THEN a ELSE a - MemCap
  BY <1>1, ModOnce
<1>3. a % MemCap \in Slots
  BY <1>1, ModRange DEF Slots
<1> QED BY <1>1, <1>2, <1>3

(* Moving the head on by d and then looking i slots further is looking     *)
(* d + i slots further from where it was.                                  *)
LEMMA RingIndex ==
  ASSUME NEW h \in Slots, NEW d \in 0 .. MemCap, NEW i \in 0 .. MemCap,
         d + i <= MemCap
  PROVE  (((h + d) % MemCap) + i) % MemCap = (h + d + i) % MemCap
<1> DEFINE a == h + d
           b == h + d + i
           c == (a % MemCap) + i
<1>1. /\ MemCap \in Nat \ {0} /\ i \in Nat
      /\ a \in Nat /\ a <= 2 * MemCap - 1
      /\ b \in Nat /\ b <= 2 * MemCap - 1 /\ b = a + i
  BY MemCapAssumption DEF Slots
<1>2. c = (a % MemCap) + i
  OBVIOUS
<1> HIDE DEF a, b, c
<1>3. CASE a < MemCap
  <2>1. a % MemCap = a
    BY <1>1, <1>3, RingOnce
  <2>2. c = b
    BY <1>1, <1>2, <2>1
  <2> QED BY <2>2 DEF a, b, c
<1>4. CASE a >= MemCap
  <2>1. a % MemCap = a - MemCap
    BY <1>1, <1>4, RingOnce
  <2>2. c = b - MemCap
    BY <1>1, <1>2, <2>1
  <2>3. b >= MemCap /\ c \in Nat /\ c < MemCap
    BY <1>1, <1>4, <2>2
  <2>4. b % MemCap = c
    BY <1>1, <2>2, <2>3, RingOnce
  <2>5. c <= 2 * MemCap - 1
    BY <1>1, <2>3
  <2>6. c % MemCap = c
    BY <2>3, <2>5, RingOnce
  <2>7. c % MemCap = b % MemCap
    BY <2>4, <2>6
  <2> QED BY <2>7 DEF a, b, c
<1> QED BY <1>1, <1>3, <1>4

(* Different offsets below the size are different slots.                   *)
LEMMA RingDistinct ==
  ASSUME NEW h \in Slots, NEW i \in 0 .. MemCap - 1, NEW j \in 0 .. MemCap - 1, i # j
  PROVE  (h + i) % MemCap # (h + j) % MemCap
<1> DEFINE a == h + i
           b == h + j
<1>1. /\ MemCap \in Nat \ {0} /\ a # b /\ a < b + MemCap /\ b < a + MemCap
      /\ a \in Nat /\ a <= 2 * MemCap - 1
      /\ b \in Nat /\ b <= 2 * MemCap - 1
  BY MemCapAssumption DEF Slots
<1> HIDE DEF a, b
<1>2. a % MemCap = a \/ (a >= MemCap /\ a % MemCap = a - MemCap)
  BY <1>1, RingOnce
<1>3. b % MemCap = b \/ (b >= MemCap /\ b % MemCap = b - MemCap)
  BY <1>1, RingOnce
<1>4. (a < MemCap => a % MemCap = a) /\ (b < MemCap => b % MemCap = b)
  BY <1>1, RingOnce
<1>5. a % MemCap # b % MemCap
  BY <1>1, <1>2, <1>3, <1>4
<1> QED BY <1>5 DEF a, b

(* A push writes behind the entries that stay, an acknowledgement moves    *)
(* the head past the entries it frees.                                     *)
LEMMA MemoryFifoStep == IInv /\ MemoryFifo /\ [Next]_vars => MemoryFifo'
<1> SUFFICES ASSUME IInv, MemoryFifo, [Next]_vars, mode' = "memory",
                    NEW k \in 0 .. memCount' - 1
             PROVE  mem'[(memHead' + k) % MemCap] = memNext' - memCount' + k
  BY DEF MemoryFifo
<1> USE MemCapAssumption, MaxSeqAssumption
<1>1. /\ memHead \in Slots /\ memCount \in 0 .. MemCap /\ memNext \in Nat
      /\ mem \in [Slots -> Nat]
  BY DEF IInv, TypeOK
<1>2. mode = "memory" => \A i \in 0 .. memCount - 1 :
         mem[(memHead + i) % MemCap] = memNext - memCount + i
  BY DEF MemoryFifo
<1>3. CASE AppendToMemory
  <2> DEFINE d == IF memCount = MemCap THEN 1 ELSE 0
             n == memCount - d
             head == (memHead + d) % MemCap
  <2>1. d \in 0 .. 1 /\ n \in 0 .. MemCap - 1 /\ n + d <= MemCap
    BY <1>1
  <2>2. PushHead(memCount = MemCap) = head /\ head \in Slots
    <3>1. memHead % MemCap = memHead
      <4>1. memHead \in Nat /\ memHead < MemCap /\ memHead <= 2 * MemCap - 1
        BY <1>1 DEF Slots
      <4> QED BY <4>1, RingOnce
    <3>2. head \in Slots
      BY <1>1, <2>1, ModRange DEF Slots
    <3> QED BY <1>1, <3>1, <3>2 DEF PushHead, Slots
  <2>3. /\ mode = "memory" /\ memHead' = head /\ memCount' = n + 1 /\ memNext' = memNext + 1
        /\ mem' = [mem EXCEPT ![(head + n) % MemCap] = memNext]
    <3>1. n = IF memCount = MemCap THEN memCount - 1 ELSE memCount
      BY <1>1
    <3> HIDE DEF head, n
    <3> QED BY <1>3, <2>2, <3>1 DEF AppendToMemory
  <2>4. k \in 0 .. n
    BY <2>1, <2>3
  <2>5. (head + n) % MemCap \in Slots /\ (head + k) % MemCap \in Slots
    <3>1. head + n \in Nat /\ head + k \in Nat
      <4> HIDE DEF head, n, d
      <4> QED BY <2>1, <2>2, <2>4 DEF Slots
    <3> HIDE DEF head, n, d
    <3> QED BY <3>1, ModRange DEF Slots
  <2>6. CASE k = n
    <3> HIDE DEF head, n, d
    <3> QED BY <1>1, <2>1, <2>3, <2>5, <2>6
  <2>7. CASE k < n
    <3>1. (head + k) % MemCap # (head + n) % MemCap
      <4> HIDE DEF head, n, d
      <4> QED BY <2>1, <2>2, <2>4, <2>7, RingDistinct
    <3>2. mem'[(head + k) % MemCap] = mem[(head + k) % MemCap]
      <4> HIDE DEF head, n, d
      <4> QED BY <1>1, <2>3, <2>5, <3>1
    <3>3. (head + k) % MemCap = (memHead + d + k) % MemCap
      <4> HIDE DEF n, d
      <4> QED BY <1>1, <2>1, <2>4, <2>7, RingIndex
    <3>4. d + k \in 0 .. memCount - 1 /\ memHead + (d + k) = memHead + d + k
      BY <1>1, <2>1, <2>4, <2>7 DEF Slots
    <3>5. mem[(memHead + d + k) % MemCap] = memNext - memCount + (d + k)
      <4> HIDE DEF d
      <4> QED BY <1>2, <2>3, <3>4
    <3>6. memNext - memCount + (d + k) = memNext' - memCount' + k
      BY <1>1, <2>1, <2>3, <2>4
    <3> HIDE DEF head, n, d
    <3>7. mem'[(memHead' + k) % MemCap] = mem[(memHead + d + k) % MemCap]
      BY <2>3, <3>2, <3>3
    <3> QED BY <3>5, <3>6, <3>7
  <2> QED BY <2>1, <2>4, <2>6, <2>7
<1>4. ASSUME NEW upto, AckInMemory(upto)
      PROVE  mem'[(memHead' + k) % MemCap] = memNext' - memCount' + k
  <2> DEFINE p == Popped(upto)
  <2>1. p \in 0 .. memCount
    BY <1>1, PoppedBound
  <2>2. /\ mode = "memory" /\ memHead' = (memHead + p) % MemCap
        /\ memCount' = memCount - p /\ mem' = mem /\ memNext' = memNext
    BY <1>4 DEF AckInMemory
  <2> HIDE DEF p
  <2>3. (memHead' + k) % MemCap = (memHead + p + k) % MemCap
    BY <1>1, <2>1, <2>2, RingIndex
  <2>4. p + k \in 0 .. memCount - 1 /\ memHead + (p + k) = memHead + p + k
    BY <1>1, <2>1, <2>2 DEF Slots
  <2>5. mem[(memHead + p + k) % MemCap] = memNext - memCount + (p + k)
    BY <1>2, <2>2, <2>4
  <2> QED BY <1>1, <2>1, <2>2, <2>3, <2>5
<1>5. CASE \/ events_open \/ events_close \/ MarkAllInMemory
  BY <1>5 DEF events_open, events_close, MarkAllInMemory, Fresh
<1>6. CASE /\ UNCHANGED ring
           /\ mode' = mode
  BY <1>2, <1>6 DEF ring
<1>7. ASSUME NEW t, AppendToDisk(t) PROVE UNCHANGED ring /\ mode' = mode
  BY <1>7 DEF AppendToDisk, ring
<1>8. \/ AppendToMemory \/ (\E upto : AckInMemory(upto))
      \/ events_open \/ events_close \/ MarkAllInMemory
      \/ UNCHANGED ring /\ mode' = mode
  BY <1>7 DEF Next, vars, events_append, events_fetch, events_ack, AckOnDisk,
         SetSent, events_rewind_to_time, events_rewind_to_seq,
         events_mark_all_sent, MarkAllOnDisk, IndexAhead, OlderCopy, ring
<1> QED BY <1>3, <1>4, <1>5, <1>6, <1>8

(* The memory ring never loses, repeats or reorders an event it holds.     *)
THEOREM MemoryStaysInOrder == Spec => []MemoryFifo
<1>1. Init => MemoryFifo
  BY DEF Init, MemoryFifo
<1> QED BY <1>1, MemoryFifoStep, Inductive, PTL DEF Spec


-----------------------------------------------------------------------------
(* Batches.                                                                *)

(* A bounded non-empty set of naturals has a greatest element.             *)
LEMMA GreatestExists ==
  ASSUME NEW S \in SUBSET Nat, S # {}, NEW b \in Nat, \A x \in S : x <= b
  PROVE  Max(S) \in S /\ \A y \in S : y <= Max(S)
<1> DEFINE T == {b - x : x \in S}
<1>1. T \in SUBSET Nat /\ T # {}
  <2>1. \A x \in S : b - x \in Nat
    OBVIOUS
  <2> QED BY <2>1
<1>2. Min(T) \in T /\ \A y \in T : Min(T) <= y
  <2> HIDE DEF T
  <2> QED BY <1>1, LeastExists
<1>3. PICK m \in S : Min(T) = b - m
  BY <1>2
<1>4. \A y \in S : m >= y
  <2> SUFFICES ASSUME NEW y \in S PROVE m >= y
    OBVIOUS
  <2>1. b - y \in T
    OBVIOUS
  <2>2. b - m <= b - y
    BY <1>2, <1>3, <2>1
  <2>3. m \in Nat /\ y \in Nat
    OBVIOUS
  <2> QED BY <2>2, <2>3
<1>5. \E x \in S : \A y \in S : x >= y
  BY <1>4
<1>6. Max(S) \in S /\ \A y \in S : Max(S) >= y
  BY <1>5 DEF Max
<1>7. \A y \in S : y \in Nat
  OBVIOUS
<1> QED BY <1>6, <1>7

(* The table in any state of the store: its numbers are at most the        *)
(* greatest, which is at most the last one handed out, and a rewind to a   *)
(* time stays at or before it.                                             *)
LEMMA TableFacts ==
  ASSUME IInv
  PROVE  /\ autoSeq \in Nat /\ autoSeq <= MaxSeq /\ sent \in Nat
         /\ max_seq(rows) \in 0 .. autoSeq
         /\ DOMAIN rows \subseteq 1 .. autoSeq
         /\ IsFiniteSet(DOMAIN rows)
         /\ \A q \in DOMAIN rows : q <= max_seq(rows)
         /\ DOMAIN rows # {} => max_seq(rows) = autoSeq
         /\ \A ok : scalar_with(max_seq(rows), 0, ok) \in 0 .. max_seq(rows)
         /\ \A t \in Times : \A miss : TimeTarget(rows, t, miss) \in 0 .. max_seq(rows)
<1>1. PICK lo \in 1 .. autoSeq + 1 : DOMAIN rows = lo .. autoSeq
  BY DEF IInv, Window
<1>2. autoSeq \in Nat /\ autoSeq <= MaxSeq /\ sent \in Nat
  BY MaxSeqAssumption DEF IInv, TypeOK
<1>3. max_seq(rows) \in 0 .. autoSeq /\ (lo <= autoSeq => max_seq(rows) = autoSeq)
  BY <1>1, <1>2, IntervalQueries
<1>4. DOMAIN rows \subseteq 1 .. autoSeq /\ IsFiniteSet(DOMAIN rows)
  BY <1>1, <1>2, FS_Interval
<1>5. (\A q \in DOMAIN rows : q <= max_seq(rows)) /\ (DOMAIN rows # {} => max_seq(rows) = autoSeq)
  BY <1>1, <1>2, <1>3
<1>6. \A ok : scalar_with(max_seq(rows), 0, ok) \in 0 .. max_seq(rows)
  BY <1>2, <1>3 DEF scalar_with
<1>7. ASSUME NEW t \in Times, NEW miss PROVE TimeTarget(rows, t, miss) \in 0 .. max_seq(rows)
  <2>1. TimeTarget(rows, t, miss) \in 0 .. autoSeq
    BY QueriesInRange
  <2>2. CASE DOMAIN rows = {}
    <3>1. {q \in DOMAIN rows : rows[q] >= t} = {}
      BY <2>2
    <3> QED BY <1>6, <3>1 DEF TimeTarget
  <2>3. CASE DOMAIN rows # {}
    BY <1>5, <2>1, <2>3
  <2> QED BY <2>2, <2>3
<1> QED BY <1>2, <1>3, <1>4, <1>5, <1>6, <1>7

(* An interval of c numbers that ends at n holds n.                        *)
LEMMA TopOfInterval ==
  ASSUME NEW n \in Nat, NEW c \in Nat \ {0}
  PROVE  n \in (n - c + 1) .. n
OBVIOUS

(* A batch taken from position s lies beyond s and leaves nothing out up   *)
(* to its greatest event.                                                  *)
LEMMA BatchFacts ==
  ASSUME IInv, NEW s \in Nat, NEW n \in Nat
  PROVE  LET b == Batch(rows, s, n)
         IN /\ b \subseteq 1 .. autoSeq
            /\ b \subseteq DOMAIN rows
            /\ \A q \in b : s < q
            /\ b # {} => /\ Min(b) \in b /\ \A q \in b : Min(b) <= q
                         /\ Max(b) \in 1 .. max_seq(rows) /\ s < Max(b)
                         /\ \A q \in DOMAIN rows : s < q /\ q <= Max(b) => q \in b
<1> DEFINE u == Unsent(rows, s)
           b == Batch(rows, s, n)
<1>1. b \subseteq u /\ u \subseteq DOMAIN rows /\ \A q \in u : s < q
  BY DEF Batch, Unsent
<1>2. /\ DOMAIN rows \subseteq 1 .. autoSeq /\ autoSeq \in Nat
      /\ max_seq(rows) \in 0 .. autoSeq /\ \A q \in DOMAIN rows : q <= max_seq(rows)
  BY TableFacts
<1>3. IsFiniteSet(u)
  BY <1>1, TableFacts, FS_Subset
<1>4. ASSUME b # {}
      PROVE  /\ Min(b) \in b /\ \A q \in b : Min(b) <= q
             /\ Max(b) \in 1 .. max_seq(rows) /\ s < Max(b)
             /\ \A q \in DOMAIN rows : s < q /\ q <= Max(b) => q \in b
  <2>1. b \in SUBSET Nat /\ \A q \in b : q <= autoSeq
    BY <1>1, <1>2
  <2>2. Min(b) \in b /\ \A q \in b : Min(b) <= q
    <3> HIDE DEF b
    <3> QED BY <1>4, <2>1, LeastExists
  <2>3. Max(b) \in b
    <3> HIDE DEF b
    <3> QED BY <1>2, <1>4, <2>1, GreatestExists
  <2>4. Max(b) \in u /\ Max(b) \in 1 .. max_seq(rows) /\ s < Max(b)
    <3> HIDE DEF b
    <3>1. Max(b) \in u
      BY <1>1, <2>3
    <3> HIDE DEF u
    <3> QED BY <1>1, <1>2, <3>1
  <2>5. ASSUME NEW q \in DOMAIN rows, s < q, q <= Max(b) PROVE q \in b
    <3> DEFINE m == Max(b)
               below(x) == {p \in u : p < x}
    <3>1. q \in u
      BY <2>5 DEF Unsent
    <3>2. Cardinality(below(m)) < n
      BY <2>3 DEF Batch
    <3>3. below(q) \subseteq below(m)
      <4> HIDE DEF b
      <4>1. m \in Nat /\ q \in Nat /\ u \subseteq Nat
        BY <1>1, <1>2, <2>4
      <4>2. \A p \in u : p < q => p < m
        <5> HIDE DEF u
        <5> QED BY <2>5, <4>1
      <4> QED BY <4>2
    <3>4. below(m) \subseteq u
      OBVIOUS
    <3> HIDE DEF below, u, b
    <3>5. IsFiniteSet(below(m)) /\ Cardinality(below(q)) <= Cardinality(below(m))
      <4>1. IsFiniteSet(below(m))
        BY <1>3, <3>4, FS_Subset
      <4> QED BY <3>3, <4>1, FS_Subset
    <3>6. Cardinality(below(q)) \in Nat /\ Cardinality(below(m)) \in Nat
      <4>1. IsFiniteSet(below(q))
        BY <3>3, <3>5, FS_Subset
      <4> QED BY <3>5, <4>1, FS_CardinalityType
    <3>7. Cardinality(below(q)) < n
      BY <3>2, <3>5, <3>6
    <3> QED BY <3>1, <3>7 DEF below, u, b, Batch
  <2> QED BY <2>2, <2>4, <2>5
<1> QED BY <1>1, <1>2, <1>4

-----------------------------------------------------------------------------
(* The inductive invariant.  NothingForgotten alone says nothing of the    *)
(* requests that wait in front of the one DM expects an answer to, and a   *)
(* late poll answered from the wrong position would break it.              *)

(* Answers and requests that may be under way.                             *)
Responses(top) == [batch : SUBSET (1 .. top), fresh : BOOLEAN]

Polls    == [kind : {"poll"}, re : BOOLEAN, n : Batches, fresh : BOOLEAN]
Resets   == [kind : {"reset"}, fresh : BOOLEAN]
Indexes  == [kind : {"index"}, t : Times, fresh : BOOLEAN]
Requests == Polls \cup Resets \cup Indexes

(* The types, with sequences as sequences.                                 *)
Shape ==
  /\ mode = "disk" /\ faults \in Nat
  /\ conn \in BOOLEAN /\ watch \in BOOLEAN /\ owes \in BOOLEAN
  /\ awaiting \in {"none", "poll", "command"}
  /\ last \in 0 .. autoSeq
  /\ reqs \in Seq(Requests)
  /\ sendBuf \in Seq(Responses(autoSeq)) /\ Len(sendBuf) <= SendCap
  /\ wire \in Seq(Responses(autoSeq))
  /\ ~conn => sendBuf = <<>> /\ reqs = <<>> /\ wire = <<>> /\ awaiting = "none"
  /\ got \subseteq 1 .. autoSeq /\ gone \subseteq 1 .. autoSeq
  /\ sent <= max_seq(rows)

(* What DM still waits for is the last thing under way, as a request or as *)
(* its answer; nothing overtakes it, and no request is left behind it.     *)
FreshIsLast ==
  /\ awaiting # "none" /\ reqs # <<>> => reqs[Len(reqs)].fresh
  /\ \A i \in 1 .. Len(reqs) : reqs[i].fresh =>
       /\ i = Len(reqs)
       /\ awaiting = (IF reqs[i].kind = "poll" THEN "poll" ELSE "command")
  /\ \A i \in 1 .. Len(sendBuf) : sendBuf[i].fresh =>
       i = Len(sendBuf) /\ reqs = <<>> /\ awaiting # "none"
  /\ \A i \in 1 .. Len(wire) : wire[i].fresh =>
       i = Len(wire) /\ sendBuf = <<>> /\ reqs = <<>> /\ awaiting # "none"

UnderWay == Batched(sendBuf) \cup Batched(wire)

(* acud can step back to every event of an answer DM waits for.            *)
AnswersReachBack ==
  \A q \in UnderWay : awaiting = "poll" /\ 0 < last /\ last <= q

(* DM has asked for the last batch again, or is going to.                  *)
ReRequested ==
  owes \/ \E i \in 1 .. Len(reqs) : reqs[i].kind = "poll" /\ reqs[i].re /\ reqs[i].fresh

(* DM waits for the answer to a poll and nothing is under way to end that. *)
Hanging == awaiting = "poll" /\ Unanswered

(* Events that count as sent and that DM has not read.                     *)
Missing == {q \in DOMAIN rows : q <= sent} \ (got \cup gone)

(* A poll DM gave up waiting for makes it ask again, and acud meets that   *)
(* request only after the late poll.                                       *)
LatePolls ==
  /\ awaiting = "poll" => ~owes
  /\ \A i \in 1 .. Len(reqs) : reqs[i].kind = "poll" /\ ~reqs[i].fresh => ReRequested

(* A poll that does not ask again was sent when nothing was missing, and   *)
(* is the first poll acud will meet.                                       *)
PlainPolls ==
  \A i \in 1 .. Len(reqs) : reqs[i].kind = "poll" /\ ~reqs[i].re =>
    Missing = {} /\ \A j \in 1 .. i - 1 : reqs[j].kind # "poll"

(* NothingForgotten, with the parts above.                                 *)
Forgets ==
  \A q \in Missing :
    q \in UnderWay \/ (0 < last /\ last <= q /\ (ReRequested \/ Hanging))

(* As long as nothing goes wrong there is one message under way at most,   *)
(* and what it carries has not been read.                                  *)
Calm ==
  faults = 0 =>
    /\ ~owes /\ sendBuf = <<>> /\ got \subseteq 1 .. sent
    /\ \A i \in 1 .. Len(reqs) : reqs[i].kind = "poll" /\ ~reqs[i].re /\ reqs[i].fresh
    /\ \A i \in 1 .. Len(wire) :
         wire[i].fresh /\ wire[i].batch \subseteq 1 .. sent /\ wire[i].batch \cap got = {}
    /\ awaiting # "none" => reqs # <<>> \/ wire # <<>>

RInv ==
  /\ IInv /\ Shape
  /\ FreshIsLast /\ AnswersReachBack /\ LatePolls /\ PlainPolls /\ Forgets
  /\ Calm

-----------------------------------------------------------------------------
(* Queues.                                                                 *)

(* What is in the two queues of answers.                                   *)
LEMMA BatchedIn ==
  ASSUME NEW top, NEW s \in Seq(Responses(top))
  PROVE  /\ \A q : q \in Batched(s) <=> \E i \in 1 .. Len(s) : s[i].fresh /\ q \in s[i].batch
         /\ Batched(s) \subseteq 1 .. top
<1>1. DOMAIN s = 1 .. Len(s) /\ \A i \in 1 .. Len(s) : s[i] \in Responses(top)
  BY LenProperties, ElementOfSeq
<1> QED BY <1>1 DEF Batched, Responses

(* The invariant says what the runs check.                                 *)
LEMMA RInvImplies == RInv => ReportTypeOK /\ NothingForgotten
<1> SUFFICES ASSUME RInv PROVE ReportTypeOK /\ NothingForgotten
  OBVIOUS
<1> USE DEF RInv
<1>1. /\ \A i \in DOMAIN sendBuf : sendBuf[i] \in Responses(autoSeq)
      /\ \A i \in DOMAIN wire : wire[i] \in Responses(autoSeq)
      /\ DOMAIN reqs = 1 .. Len(reqs)
  BY LenProperties, ElementOfSeq DEF Shape
<1>2. ReportTypeOK
  BY <1>1 DEF ReportTypeOK, Responses, Shape, IInv
<1>3. NothingForgotten
  BY <1>1 DEF NothingForgotten, Forgets, Missing, UnderWay, ReRequested, Hanging
<1> QED BY <1>2, <1>3

(* An answer given up keeps its batch; a request given up keeps its kind   *)
(* and its fields.                                                         *)
LEMMA StaleAnswers ==
  ASSUME NEW top, NEW s \in Seq(Responses(top))
  PROVE  /\ Stale(s) \in Seq(Responses(top)) /\ Len(Stale(s)) = Len(s)
         /\ \A i \in 1 .. Len(s) : ~Stale(s)[i].fresh
<1> DEFINE up(r) == [r EXCEPT !.fresh = FALSE]
<1>1. /\ Len(s) \in Nat /\ DOMAIN s = 1 .. Len(s)
      /\ \A i \in 1 .. Len(s) : s[i] \in Responses(top)
  BY LenProperties, ElementOfSeq
<1>2. \A r \in Responses(top) : /\ up(r) \in Responses(top)
                               /\ up(r).fresh = FALSE
  BY DEF Responses
<1>3. Stale(s) = [i \in 1 .. Len(s) |-> up(s[i])]
  BY <1>1 DEF Stale
<1> HIDE DEF up
<1>4. Stale(s) \in [1 .. Len(s) -> Responses(top)] /\ \A i \in 1 .. Len(s) : Stale(s)[i] = up(s[i])
  BY <1>1, <1>2, <1>3
<1>5. Stale(s) \in Seq(Responses(top)) /\ Len(Stale(s)) = Len(s)
  BY <1>1, <1>4
<1> QED BY <1>1, <1>2, <1>4, <1>5

(* The same of requests: what is given up is no longer waited for.         *)
LEMMA StaleRequests ==
  ASSUME NEW s \in Seq(Requests)
  PROVE  /\ Stale(s) \in Seq(Requests) /\ Len(Stale(s)) = Len(s)
         /\ \A i \in 1 .. Len(s) :
              /\ ~Stale(s)[i].fresh /\ Stale(s)[i].kind = s[i].kind
              /\ s[i].kind = "poll" => Stale(s)[i].re = s[i].re
<1> DEFINE up(r) == [r EXCEPT !.fresh = FALSE]
<1>1. /\ Len(s) \in Nat /\ DOMAIN s = 1 .. Len(s)
      /\ \A i \in 1 .. Len(s) : s[i] \in Requests
  BY LenProperties, ElementOfSeq
<1>2. ASSUME NEW r \in Requests
      PROVE  /\ up(r) \in Requests /\ ~up(r).fresh /\ up(r).kind = r.kind
             /\ r.kind = "poll" => up(r).re = r.re
  <2>1. \A q \in Polls : /\ up(q) \in Polls
                        /\ up(q).fresh = FALSE
                        /\ up(q).kind = q.kind
                        /\ up(q).re = q.re
    BY DEF Polls
  <2>2. \A q \in Resets : /\ up(q) \in Resets
                         /\ up(q).fresh = FALSE
                         /\ up(q).kind = q.kind
                         /\ q.kind # "poll"
    BY DEF Resets
  <2>3. \A q \in Indexes : /\ up(q) \in Indexes
                          /\ up(q).fresh = FALSE
                          /\ up(q).kind = q.kind
                          /\ q.kind # "poll"
    BY DEF Indexes
  <2> QED BY <2>1, <2>2, <2>3 DEF Requests
<1> HIDE DEF up
<1>3. Stale(s) = [i \in 1 .. Len(s) |-> up(s[i])]
  BY <1>1 DEF Stale, up
<1>4. Stale(s) \in [1 .. Len(s) -> Requests] /\ \A i \in 1 .. Len(s) : Stale(s)[i] = up(s[i])
  <2>1. \A i \in 1 .. Len(s) : up(s[i]) \in Requests
    BY <1>1, <1>2
  <2> QED BY <1>3, <2>1
<1>5. Stale(s) \in Seq(Requests) /\ Len(Stale(s)) = Len(s)
  BY <1>1, <1>4
<1>6. ASSUME NEW i \in 1 .. Len(s)
      PROVE  /\ ~Stale(s)[i].fresh /\ Stale(s)[i].kind = s[i].kind
             /\ s[i].kind = "poll" => Stale(s)[i].re = s[i].re
  <2>1. Stale(s)[i] = up(s[i]) /\ s[i] \in Requests
    BY <1>1, <1>4
  <2>2. \A r \in Requests : ~up(r).fresh /\ up(r).kind = r.kind
    BY <1>2
  <2>3. \A r \in Requests : r.kind = "poll" => up(r).re = r.re
    BY <1>2
  <2> QED BY <2>1, <2>2, <2>3
<1> QED BY <1>5, <1>6

(* The first k elements of b have gone to the end of w, and rest and out   *)
(* are what they have become.                                              *)
GoneOut(S, b, w, k, rest, out) ==
  /\ rest \in Seq(S) /\ Len(rest) = Len(b) - k
  /\ \A i \in 1 .. Len(rest) : rest[i] = b[k + i]
  /\ out \in Seq(S) /\ Len(out) = Len(w) + k
  /\ \A i \in 1 .. Len(out) : out[i] = IF i <= Len(w) THEN w[i] ELSE b[i - Len(w)]

(* Taking k answers from the front of one queue to the end of another.     *)
LEMMA Flushed ==
  ASSUME NEW S, NEW b \in Seq(S), NEW w \in Seq(S), NEW k \in 0 .. Len(b),
         NEW rest, rest = SubSeq(b, k + 1, Len(b)),
         NEW out, out = w \o SubSeq(b, 1, k)
  PROVE  GoneOut(S, b, w, k, rest, out)
<1> DEFINE front == SubSeq(b, 1, k)
<1>1. Len(b) \in Nat /\ Len(w) \in Nat /\ k \in Nat /\ \A i \in 1 .. Len(b) : b[i] \in S
  BY LenProperties, ElementOfSeq
<1>2. /\ rest \in Seq(S)
      /\ Len(rest) = IF k + 1 <= Len(b) THEN Len(b) - (k + 1) + 1 ELSE 0
      /\ \A i \in 1 .. Len(b) - (k + 1) + 1 : rest[i] = b[k + 1 + i - 1]
  <2>1. \A i \in k + 1 .. Len(b) : b[i] \in S
    BY <1>1
  <2> QED BY <1>1, <2>1, SubSeqProperties
<1>3. /\ front \in Seq(S)
      /\ Len(front) = IF 1 <= k THEN k - 1 + 1 ELSE 0
      /\ \A i \in 1 .. k - 1 + 1 : front[i] = b[1 + i - 1]
  <2>1. \A i \in 1 .. k : b[i] \in S
    BY <1>1
  <2> QED BY <1>1, <2>1, SubSeqProperties
<1>8. out = w \o front
  OBVIOUS
<1> HIDE DEF front
<1>4. Len(rest) = Len(b) - k /\ \A i \in 1 .. Len(rest) : rest[i] = b[k + i]
  BY <1>1, <1>2
<1>5. Len(front) = k /\ \A i \in 1 .. k : front[i] = b[i]
  BY <1>1, <1>3
<1>6. /\ out \in Seq(S) /\ Len(out) = Len(w) + Len(front)
      /\ \A i \in 1 .. Len(w) + Len(front) : out[i] = IF i <= Len(w) THEN w[i] ELSE front[i - Len(w)]
  BY <1>3, <1>8, ConcatProperties
<1>7. Len(out) = Len(w) + k
      /\ \A i \in 1 .. Len(out) : out[i] = IF i <= Len(w) THEN w[i] ELSE b[i - Len(w)]
  BY <1>1, <1>5, <1>6
<1> QED BY <1>2, <1>4, <1>6, <1>7 DEF GoneOut

(* The request acud handles, and the ones behind it.                       *)
LEMMA HeadRequest ==
  ASSUME Shape, reqs # <<>>
  PROVE  /\ Head(reqs) = reqs[1] /\ reqs[1] \in Requests
         /\ Len(reqs) \in Nat \ {0}
         /\ Tail(reqs) \in Seq(Requests) /\ Len(Tail(reqs)) = Len(reqs) - 1
         /\ \A i \in 1 .. Len(reqs) - 1 : Tail(reqs)[i] = reqs[i + 1]
         /\ reqs[1].kind = "poll" =>
              reqs[1].re \in BOOLEAN /\ reqs[1].n \in Nat /\ reqs[1].fresh \in BOOLEAN
         /\ reqs[1].kind # "poll" => reqs[1].fresh \in BOOLEAN
         /\ reqs[1].kind \notin {"poll", "reset"} => reqs[1].t \in Times
<1>1. reqs \in Seq(Requests)
  BY DEF Shape
<1>2. /\ Head(reqs) \in Requests /\ Tail(reqs) \in Seq(Requests)
      /\ Len(Tail(reqs)) = Len(reqs) - 1
      /\ \A i \in 1 .. Len(Tail(reqs)) : Tail(reqs)[i] = reqs[i + 1]
  BY <1>1, HeadTailProperties
<1>3. Len(reqs) \in Nat \ {0}
  BY <1>1, EmptySeq
<1>4. Head(reqs) = reqs[1]
  BY <1>1, <1>3
<1>5. reqs[1] \in Requests
  BY <1>2, <1>4
<1>6. /\ reqs[1].kind = "poll" =>
              reqs[1].re \in BOOLEAN /\ reqs[1].n \in Nat /\ reqs[1].fresh \in BOOLEAN
      /\ reqs[1].kind # "poll" => reqs[1].fresh \in BOOLEAN
      /\ reqs[1].kind \notin {"poll", "reset"} => reqs[1].t \in Times
  <2>1. CASE reqs[1] \in Polls
    BY <2>1, BatchesAssumption DEF Polls
  <2>2. CASE reqs[1] \in Resets
    BY <2>2 DEF Resets
  <2>3. CASE reqs[1] \in Indexes
    BY <2>3 DEF Indexes
  <2> QED BY <1>5, <2>1, <2>2, <2>3 DEF Requests
<1> QED BY <1>2, <1>3, <1>4, <1>5, <1>6

(* A step that leaves the table alone keeps the invariant of the store.    *)
LEMMA StoreKept ==
  ASSUME IInv, mode = "disk",
         UNCHANGED <<rows, autoSeq, mode, ring, failed, trimFails>>,
         nextTrim' \in {nextTrim, Capacity + TrimSlack},
         sent' \in 0 .. max_seq(rows)
  PROVE  IInv'
<1> USE CapacityAssumption, SlackAssumption, MaxSeqAssumption
<1>1. PICK lo \in 1 .. autoSeq + 1 :
        /\ DOMAIN rows = lo .. autoSeq
        /\ autoSeq - lo + 1 < Allowed(trimFails)
        /\ mode = "disk" => nextTrim - lo < Allowed(trimFails)
  BY DEF IInv, Window
<1>2. nextTrim' - lo < Allowed(trimFails)
  <2>1. CASE nextTrim' = nextTrim
    BY <1>1, <2>1
  <2>2. CASE nextTrim' = Capacity + TrimSlack
    <3>1. Allowed(trimFails) \in Nat /\ Allowed(trimFails) >= Capacity + TrimSlack
      BY AllowedGrows DEF IInv, TypeOK
    <3>2. lo >= 1 /\ lo \in Nat
      BY <1>1 DEF IInv, TypeOK
    <3> QED BY <2>2, <3>1, <3>2
  <2> QED BY <2>1, <2>2
<1>3. Window'
  BY <1>1, <1>2 DEF Window
<1>4. sent' \in 0 .. MaxSeq + 1
  BY TableFacts
<1>5. nextTrim' \in Nat
  BY DEF IInv, TypeOK
<1>6. TypeOK'
  BY <1>4, <1>5 DEF IInv, TypeOK, ring, Slots
<1> QED BY <1>3, <1>6 DEF IInv

-----------------------------------------------------------------------------
(* Losing what is under way.                                               *)

(* Nothing at all is missing when neither an answer nor a re-request is    *)
(* under way; what is missing can be stepped back to, and DM will ask.     *)
LEMMA MissingIsOwed ==
  ASSUME RInv, NEW q \in Missing
  PROVE  /\ 0 < last /\ last <= q
         /\ ReRequested \/ awaiting = "poll"
         /\ owes \/ awaiting = "poll"
<1> USE DEF RInv
<1>1. q \in UnderWay \/ (0 < last /\ last <= q /\ (ReRequested \/ Hanging))
  BY DEF Forgets
<1>2. 0 < last /\ last <= q /\ (ReRequested \/ awaiting = "poll")
  BY <1>1 DEF AnswersReachBack, Hanging
<1>3. ASSUME ReRequested, ~owes PROVE awaiting = "poll"
  <2>1. PICK i \in 1 .. Len(reqs) : reqs[i].kind = "poll" /\ reqs[i].re /\ reqs[i].fresh
    BY <1>3 DEF ReRequested
  <2> QED BY <2>1 DEF FreshIsLast
<1> QED BY <1>2, <1>3

(* The connection goes.  What the caller does with the positions and with  *)
(* what is given up must leave nothing missing but what DM will ask for.   *)
LEMMA LostStep ==
  ASSUME RInv, NEW up \in BOOLEAN, Lost(up),
         IInv', UNCHANGED <<rows, autoSeq, mode>>,
         last' \in 0 .. autoSeq, sent' <= max_seq(rows),
         got' \subseteq 1 .. autoSeq, gone' \subseteq 1 .. autoSeq,
         faults' \in Nat,
         faults' = 0 => faults = 0 /\ awaiting = "none" /\ got' = got /\ sent' = sent,
         \A q \in DOMAIN rows :
           q <= sent' /\ q \notin got' \cup gone' => 0 < last' /\ last' <= q /\ owes'
  PROVE  RInv'
<1> USE DEF RInv
<1>1. /\ conn' = up /\ sendBuf' = <<>> /\ watch' = FALSE /\ reqs' = <<>> /\ wire' = <<>>
      /\ awaiting' = "none" /\ owes' = (owes \/ awaiting = "poll")
  BY DEF Lost
<1>2. Len(<<>>) = 0 /\ \A S : <<>> \in Seq(S)
  BY EmptySeq
<1>3. Shape'
  <2>1. 0 <= SendCap
    BY SendCapAssumption
  <2>2. owes' \in BOOLEAN
    BY <1>1
  <2>3. mode' = "disk"
    BY DEF Shape
  <2>4. max_seq(rows') = max_seq(rows)
    OBVIOUS
  <2> QED BY <1>1, <1>2, <2>1, <2>2, <2>3, <2>4 DEF Shape
<1>4. UnderWay' = {}
  <2>1. DOMAIN <<>> = {}
    OBVIOUS
  <2> QED BY <1>1, <2>1 DEF UnderWay, Batched
<1>5. FreshIsLast' /\ LatePolls' /\ PlainPolls'
  BY <1>1, <1>2 DEF FreshIsLast, LatePolls, PlainPolls
<1>6. AnswersReachBack'
  BY <1>4 DEF AnswersReachBack
<1>7. Forgets'
  BY <1>1 DEF Forgets, Missing, ReRequested
<1>8. Calm'
  <2> SUFFICES ASSUME faults' = 0 PROVE Calm'
    BY DEF Calm
  <2>1. ~owes /\ got \subseteq 1 .. sent
    BY DEF Calm
  <2>2. ~owes'
    BY <1>1, <2>1
  <2>3. got' \subseteq 1 .. sent'
    BY <2>1
  <2>4. sendBuf' = <<>> /\ awaiting' = "none" /\ 1 .. Len(reqs') = {} /\ 1 .. Len(wire') = {}
    BY <1>1, <1>2
  <2> QED BY <2>2, <2>3, <2>4 DEF Calm
<1> QED BY <1>3, <1>5, <1>6, <1>7, <1>8

-----------------------------------------------------------------------------
(* Polls.                                                                  *)

(* While a request waits, no answer is awaited that is under way already.  *)
LEMMA NoAnswerYet ==
  ASSUME RInv, reqs # <<>>
  PROVE  /\ \A i \in 1 .. Len(sendBuf) : ~sendBuf[i].fresh
         /\ \A i \in 1 .. Len(wire) : ~wire[i].fresh
         /\ UnderWay = {}
<1>1. /\ \A i \in 1 .. Len(sendBuf) : ~sendBuf[i].fresh
      /\ \A i \in 1 .. Len(wire) : ~wire[i].fresh
  BY DEF RInv, FreshIsLast
<1> QED BY <1>1, BatchedIn DEF UnderWay, RInv, Shape

(* The queue behind a request that is taken off it.                        *)
LEMMA BehindHead ==
  ASSUME RInv, reqs # <<>>,
         reqs' = Tail(reqs), awaiting' = awaiting, owes' = owes
  PROVE  /\ reqs' \in Seq(Requests)
         /\ awaiting' # "none" /\ reqs' # <<>> => reqs'[Len(reqs')].fresh
         /\ \A i \in 1 .. Len(reqs') : reqs'[i].fresh =>
              /\ i = Len(reqs')
              /\ awaiting' = (IF reqs'[i].kind = "poll" THEN "poll" ELSE "command")
         /\ LatePolls'
         /\ \A i \in 1 .. Len(reqs') : reqs'[i].kind = "poll" /\ ~reqs'[i].re =>
              /\ Head(reqs).kind # "poll" /\ Missing = {}
              /\ \A j \in 1 .. i - 1 : reqs'[j].kind # "poll"
         /\ Head(reqs).fresh => reqs' = <<>>
         /\ ReRequested /\ ~(Head(reqs).kind = "poll" /\ Head(reqs).fresh) => ReRequested'
<1> USE DEF RInv
<1>1. /\ Head(reqs) = reqs[1] /\ Len(reqs) \in Nat \ {0}
      /\ reqs' \in Seq(Requests) /\ Len(reqs') = Len(reqs) - 1
      /\ \A i \in 1 .. Len(reqs') : reqs'[i] = reqs[i + 1] /\ i + 1 \in 1 .. Len(reqs)
      /\ 1 \in 1 .. Len(reqs) /\ Len(reqs') \in Nat
      /\ reqs[1].fresh \in BOOLEAN
  BY HeadRequest
<1>2. \A i \in 1 .. Len(reqs') : reqs'[i].fresh =>
              /\ i = Len(reqs')
              /\ awaiting' = (IF reqs'[i].kind = "poll" THEN "poll" ELSE "command")
  <2> SUFFICES ASSUME NEW i \in 1 .. Len(reqs'), reqs'[i].fresh
               PROVE  /\ i = Len(reqs')
                      /\ awaiting' = (IF reqs'[i].kind = "poll" THEN "poll" ELSE "command")
    OBVIOUS
  <2>1. reqs'[i] = reqs[i + 1] /\ i + 1 \in 1 .. Len(reqs)
    BY <1>1
  <2>2. i + 1 = Len(reqs) /\ awaiting = (IF reqs[i + 1].kind = "poll" THEN "poll" ELSE "command")
    BY <2>1 DEF FreshIsLast
  <2>3. i = Len(reqs')
    <3>1. i \in Nat /\ Len(reqs) \in Nat /\ i + 1 = Len(reqs) /\ Len(reqs') = Len(reqs) - 1
      <4>1. Len(reqs') \in Nat /\ Len(reqs) \in Nat /\ Len(reqs') = Len(reqs) - 1
        BY <1>1
      <4>2. i + 1 = Len(reqs)
        BY <2>2
      <4>3. i \in Nat
        BY <4>1
      <4> QED BY <4>1, <4>2, <4>3
    <3> QED BY <3>1
  <2> QED BY <2>1, <2>2, <2>3
<1>3. Head(reqs).fresh => reqs' = <<>>
  <2> SUFFICES ASSUME Head(reqs).fresh PROVE reqs' = <<>>
    OBVIOUS
  <2>1. 1 = Len(reqs)
    BY <1>1 DEF FreshIsLast
  <2>2. Len(reqs') = 0
    BY <1>1, <2>1
  <2> QED BY <1>1, <2>2, EmptySeq
<1>4. ReRequested /\ ~(Head(reqs).kind = "poll" /\ Head(reqs).fresh) => ReRequested'
  <2> SUFFICES ASSUME ReRequested, ~owes, ~(Head(reqs).kind = "poll" /\ Head(reqs).fresh)
               PROVE  ReRequested'
    BY DEF ReRequested
  <2>1. PICK i \in 1 .. Len(reqs) : reqs[i].kind = "poll" /\ reqs[i].re /\ reqs[i].fresh
    BY DEF ReRequested
  <2>2. i # 1
    BY <1>1, <2>1
  <2>3. i - 1 \in 1 .. Len(reqs') /\ i - 1 + 1 = i
    BY <1>1, <2>2
  <2>4. reqs'[i - 1] = reqs[i]
    BY <1>1, <2>3
  <2> QED BY <2>1, <2>3, <2>4 DEF ReRequested
<1>6. LatePolls'
  <2>1. ASSUME NEW i \in 1 .. Len(reqs'), reqs'[i].kind = "poll", ~reqs'[i].fresh
        PROVE  ReRequested'
    <3>1. ReRequested
      BY <1>1, <2>1 DEF LatePolls
    <3>2. ~Head(reqs).fresh
      <4>1. 1 # Len(reqs)
        BY <1>1, <2>1
      <4> QED BY <1>1, <4>1 DEF FreshIsLast
    <3> QED BY <1>4, <3>1, <3>2
  <2> QED BY <2>1 DEF LatePolls
<1>7. ASSUME NEW i \in 1 .. Len(reqs'), reqs'[i].kind = "poll", ~reqs'[i].re
      PROVE  /\ Head(reqs).kind # "poll" /\ Missing = {}
             /\ \A j \in 1 .. i - 1 : reqs'[j].kind # "poll"
  <2>1. reqs'[i] = reqs[i + 1] /\ i + 1 \in 1 .. Len(reqs) /\ 1 \in 1 .. i + 1 - 1
    BY <1>1
  <2>2. Missing = {} /\ \A j \in 1 .. i + 1 - 1 : reqs[j].kind # "poll"
    BY <1>7, <2>1 DEF PlainPolls
  <2>3. \A j \in 1 .. i - 1 : j + 1 \in 1 .. i + 1 - 1 /\ reqs'[j] = reqs[j + 1]
    BY <1>1
  <2> QED BY <1>1, <2>1, <2>2, <2>3
<1>8. ASSUME awaiting' # "none", reqs' # <<>> PROVE reqs'[Len(reqs')].fresh
  <2>1. Len(reqs') \in 1 .. Len(reqs') /\ Len(reqs') + 1 = Len(reqs)
    <3>1. Len(reqs') # 0
      BY <1>1, <1>8, EmptySeq
    <3> QED BY <1>1, <3>1
  <2>2. reqs[Len(reqs)].fresh
    BY <1>8 DEF FreshIsLast
  <2> QED BY <1>1, <2>1, <2>2
<1> QED BY <1>1, <1>2, <1>3, <1>4, <1>6, <1>7, <1>8

(* DM waits for the answer to a poll that acud is handling, or will ask    *)
(* for what it carried.                                                    *)
LEMMA PollIsOwed ==
  ASSUME RInv, reqs # <<>>, Head(reqs).kind = "poll"
  PROVE  /\ Head(reqs).fresh => awaiting = "poll"
         /\ ~Head(reqs).fresh => ReRequested
         /\ owes \/ awaiting = "poll"
<1>1. /\ Head(reqs) = reqs[1] /\ 1 \in 1 .. Len(reqs)
  BY HeadRequest DEF RInv
<1>2. Head(reqs).fresh => awaiting = "poll"
  BY <1>1 DEF RInv, FreshIsLast
<1>3. ~Head(reqs).fresh => ReRequested
  BY <1>1 DEF RInv, LatePolls
<1>4. ReRequested => owes \/ awaiting = "poll"
  BY DEF ReRequested, RInv, FreshIsLast
<1> QED BY <1>2, <1>3, <1>4

(* An answer is queued behind others nobody waits for, and k of them are   *)
(* written: if it is awaited it is the last thing under way, and its batch *)
(* is all that is.                                                         *)
LEMMA AnswerQueued ==
  ASSUME RInv, reqs # <<>>, Len(sendBuf) < SendCap, UNCHANGED autoSeq,
         NEW resp \in Responses(autoSeq), NEW k \in 0 .. Len(sendBuf) + 1,
         LET buf == Append(sendBuf, resp)
         IN /\ sendBuf' = SubSeq(buf, k + 1, Len(buf))
            /\ wire' = wire \o SubSeq(buf, 1, k)
  PROVE  /\ sendBuf' \in Seq(Responses(autoSeq')) /\ Len(sendBuf') <= SendCap
         /\ wire' \in Seq(Responses(autoSeq'))
         /\ \A i \in 1 .. Len(sendBuf') : sendBuf'[i].fresh => i = Len(sendBuf') /\ resp.fresh
         /\ \A i \in 1 .. Len(wire') :
              wire'[i].fresh => i = Len(wire') /\ sendBuf' = <<>> /\ resp.fresh /\ wire'[i] = resp
         /\ UnderWay' = (IF resp.fresh THEN resp.batch ELSE {})
         /\ k = Len(sendBuf) + 1 =>
              sendBuf' = <<>> /\ Len(wire') = Len(wire) + k /\ wire'[Len(wire')] = resp
<1> DEFINE S == Responses(autoSeq)
           buf == Append(sendBuf, resp)
           m == Len(sendBuf) + 1
<1>1. sendBuf \in Seq(S) /\ wire \in Seq(S) /\ resp \in S
  BY DEF RInv, Shape
<1>2. /\ buf \in Seq(S) /\ Len(buf) = m
      /\ \A i \in 1 .. Len(sendBuf) : buf[i] = sendBuf[i]
      /\ buf[m] = resp
  BY <1>1, AppendProperties
<1>3. Len(sendBuf) \in Nat /\ Len(wire) \in Nat /\ m \in Nat /\ SendCap \in Nat /\ k \in 0 .. m
  BY <1>1, LenProperties, SendCapAssumption
<1>4. /\ sendBuf' \in Seq(S) /\ Len(sendBuf') = m - k
      /\ \A i \in 1 .. Len(sendBuf') : sendBuf'[i] = buf[k + i]
      /\ wire' \in Seq(S) /\ Len(wire') = Len(wire) + k
      /\ \A i \in 1 .. Len(wire') : wire'[i] = IF i <= Len(wire) THEN wire[i] ELSE buf[i - Len(wire)]
  <2> HIDE DEF S, buf, m
  <2>1. /\ sendBuf' = SubSeq(buf, k + 1, Len(buf)) /\ wire' = wire \o SubSeq(buf, 1, k)
        /\ k \in 0 .. Len(buf) /\ buf \in Seq(S) /\ wire \in Seq(S)
    BY <1>1, <1>2, <1>3 DEF buf
  <2>2. GoneOut(S, buf, wire, k, sendBuf', wire')
    BY <2>1, Flushed
  <2> QED BY <1>2, <2>1, <2>2 DEF GoneOut
<1>5. /\ \A i \in 1 .. Len(sendBuf) : ~sendBuf[i].fresh
      /\ \A i \in 1 .. Len(wire) : ~wire[i].fresh
  BY NoAnswerYet
<1> HIDE DEF S, buf
<1>11. /\ k \in Nat /\ m \in Nat /\ k <= m /\ Len(sendBuf') = m - k
      /\ Len(wire) \in Nat /\ Len(wire') = Len(wire) + k
  BY <1>3, <1>4
<1>6. \A i \in 1 .. m : buf[i].fresh => i = m /\ resp.fresh
  <2> SUFFICES ASSUME NEW i \in 1 .. m, buf[i].fresh PROVE i = m /\ resp.fresh
    OBVIOUS
  <2>1. i \in 1 .. Len(sendBuf) \/ i = m
    BY <1>3
  <2> QED BY <1>2, <1>5, <2>1
<1>7. \A i \in 1 .. Len(sendBuf') : sendBuf'[i].fresh => i = Len(sendBuf') /\ resp.fresh
  <2> SUFFICES ASSUME NEW i \in 1 .. Len(sendBuf'), sendBuf'[i].fresh
               PROVE  i = Len(sendBuf') /\ resp.fresh
    OBVIOUS
  <2>1. k + i \in 1 .. m
    BY <1>11
  <2>2. sendBuf'[i] = buf[k + i]
    BY <1>4
  <2>3. k + i = m /\ resp.fresh
    BY <1>6, <2>1, <2>2
  <2> QED BY <1>11, <2>3
<1>8. \A i \in 1 .. Len(wire') : wire'[i].fresh =>
         i = Len(wire') /\ sendBuf' = <<>> /\ resp.fresh /\ wire'[i] = resp
  <2> SUFFICES ASSUME NEW i \in 1 .. Len(wire'), wire'[i].fresh
               PROVE  i = Len(wire') /\ sendBuf' = <<>> /\ resp.fresh /\ wire'[i] = resp
    OBVIOUS
  <2>1. ~(i <= Len(wire))
    <3>1. i <= Len(wire) => i \in 1 .. Len(wire) /\ wire'[i] = wire[i]
      BY <1>3, <1>4
    <3> QED BY <1>5, <3>1
  <2>2. i - Len(wire) \in 1 .. m /\ i - Len(wire) <= k
    BY <1>11, <2>1
  <2>6. wire'[i] = buf[i - Len(wire)]
    BY <1>4, <2>1
  <2>3. i - Len(wire) = m /\ resp.fresh
    BY <1>6, <2>2, <2>6
  <2>4. k = m /\ i = Len(wire') /\ Len(sendBuf') = 0
    <3>1. i \in Nat
      BY <1>11
    <3>2. k = m
      BY <1>11, <2>2, <2>3
    <3>3. i = Len(wire) + m
      <4> HIDE DEF m
      <4> QED BY <1>11, <2>3, <3>1
    <3> QED BY <1>11, <3>2, <3>3
  <2>5. sendBuf' = <<>>
    BY <1>4, <2>4, EmptySeq
  <2> QED BY <1>2, <2>3, <2>4, <2>5, <2>6
<1>9. UnderWay' = (IF resp.fresh THEN resp.batch ELSE {})
  <2>1. /\ \A q : q \in Batched(sendBuf)' <=> \E i \in 1 .. Len(sendBuf') : sendBuf'[i].fresh /\ q \in sendBuf'[i].batch
        /\ \A q : q \in Batched(wire)' <=> \E i \in 1 .. Len(wire') : wire'[i].fresh /\ q \in wire'[i].batch
    <3>1. sendBuf' \in Seq(Responses(autoSeq)) /\ wire' \in Seq(Responses(autoSeq))
      BY <1>4 DEF S
    <3>2. DOMAIN sendBuf' = 1 .. Len(sendBuf') /\ DOMAIN wire' = 1 .. Len(wire')
      BY <3>1, LenProperties
    <3> QED BY <3>2 DEF Batched
  <2>2. ASSUME NEW q \in UnderWay' PROVE resp.fresh /\ q \in resp.batch
    <3>1. CASE q \in Batched(sendBuf)'
      <4>1. PICK i \in 1 .. Len(sendBuf') : sendBuf'[i].fresh /\ q \in sendBuf'[i].batch
        BY <2>1, <3>1
      <4>2. i = Len(sendBuf') /\ resp.fresh
        BY <1>7, <4>1
      <4>3. sendBuf'[i] = buf[k + i]
        BY <1>4
      <4>4. k + i = m
        BY <1>11, <4>2
      <4> QED BY <1>2, <4>1, <4>2, <4>3, <4>4
    <3>2. CASE q \in Batched(wire)'
      BY <1>8, <2>1, <3>2
    <3> QED BY <3>1, <3>2 DEF UnderWay
  <2>3. ASSUME resp.fresh, NEW q \in resp.batch PROVE q \in UnderWay'
    <3>1. CASE k < m
      <4>1. m - k \in 1 .. Len(sendBuf') /\ k + (m - k) = m
        BY <1>3, <1>4, <3>1
      <4>2. sendBuf'[m - k] = resp
        BY <1>2, <1>4, <4>1
      <4> QED BY <2>1, <2>3, <4>1, <4>2 DEF UnderWay
    <3>2. CASE k = m
      <4>1. Len(wire') \in 1 .. Len(wire') /\ ~(Len(wire') <= Len(wire)) /\ Len(wire') - Len(wire) = m
        BY <1>3, <1>4, <3>2
      <4>2. wire'[Len(wire')] = resp
        BY <1>2, <1>4, <4>1
      <4> QED BY <2>1, <2>3, <4>1, <4>2 DEF UnderWay
    <3> QED BY <1>3, <3>1, <3>2
  <2> QED BY <2>2, <2>3
<1>10. k = m => sendBuf' = <<>> /\ wire'[Len(wire')] = resp
  <2> SUFFICES ASSUME k = m PROVE sendBuf' = <<>> /\ wire'[Len(wire')] = resp
    OBVIOUS
  <2>1. Len(sendBuf') = 0
    BY <1>11
  <2>2. Len(wire') \in 1 .. Len(wire') /\ ~(Len(wire') <= Len(wire)) /\ Len(wire') - Len(wire) = m
    BY <1>3, <1>4
  <2>3. wire'[Len(wire')] = resp
    BY <1>2, <1>4, <2>2
  <2> QED BY <1>4, <2>1, <2>3, EmptySeq
<1>12. Len(sendBuf') <= SendCap
  BY <1>3, <1>4
<1> QED BY <1>4, <1>7, <1>8, <1>9, <1>10, <1>12 DEF S

(* Where the poll at the head of the queue reads from, and its batch.      *)
PollFrom == StepBack(Head(reqs))
PollBatch == Batch(rows, PollFrom, Head(reqs).n)

(* Everything up to where a poll reads from is accounted for, and its      *)
(* batch leaves nothing out between there and its last event.              *)
LEMMA PollPositions ==
  ASSUME RInv, reqs # <<>>, Head(reqs).kind = "poll"
  PROVE  /\ PollFrom \in 0 .. sent
         /\ sent \in Nat /\ PollFrom <= max_seq(rows)
         /\ \A q \in DOMAIN rows : q <= PollFrom => q \in got \cup gone
         /\ PollBatch \subseteq 1 .. autoSeq
         /\ \A q \in PollBatch : PollFrom < q
         /\ PollBatch # {} =>
              /\ Acked(PollFrom, Max(PollBatch)) = Max(PollBatch)
              /\ Max(PollBatch) \in 1 .. max_seq(rows)
              /\ Min(PollBatch) \in 1 .. autoSeq
              /\ \A q \in PollBatch : Min(PollBatch) <= q
              /\ \A q \in DOMAIN rows : PollFrom < q /\ q <= Max(PollBatch) => q \in PollBatch
<1> USE DEF RInv
<1>1. /\ Head(reqs) = reqs[1] /\ 1 \in 1 .. Len(reqs) /\ reqs[1].n \in Nat
      /\ reqs[1].re \in BOOLEAN
  BY HeadRequest
<1>2. sent \in Nat /\ sent <= max_seq(rows) /\ last \in Nat
      /\ max_seq(rows) \in 0 .. autoSeq /\ autoSeq \in Nat /\ DOMAIN rows \subseteq 1 .. autoSeq
  BY TableFacts DEF Shape
<1>3. /\ PollFrom \in 0 .. sent
      /\ Head(reqs).re /\ last > 0 => PollFrom < last
      /\ ~(Head(reqs).re /\ last > 0) => PollFrom = sent
  BY <1>2 DEF PollFrom, StepBack, SeqTarget
<1>4. ASSUME NEW q \in DOMAIN rows, q <= PollFrom PROVE q \in got \cup gone
  <2>1. q <= sent /\ q \in Nat
    BY <1>2, <1>3, <1>4
  <2> SUFFICES ASSUME q \in Missing PROVE FALSE
    BY <2>1 DEF Missing
  <2>2. 0 < last /\ last <= q
    BY MissingIsOwed
  <2>3. ~Head(reqs).re
    BY <1>2, <1>3, <1>4, <2>1, <2>2
  <2> QED BY <1>1, <2>3 DEF PlainPolls
<1>5. /\ PollBatch \subseteq 1 .. autoSeq
      /\ \A q \in PollBatch : PollFrom < q
      /\ PollBatch # {} =>
           /\ Min(PollBatch) \in PollBatch /\ \A q \in PollBatch : Min(PollBatch) <= q
           /\ Max(PollBatch) \in 1 .. max_seq(rows) /\ PollFrom < Max(PollBatch)
           /\ \A q \in DOMAIN rows : PollFrom < q /\ q <= Max(PollBatch) => q \in PollBatch
  <2>1. PollFrom \in Nat /\ Head(reqs).n \in Nat
    BY <1>1, <1>2, <1>3
  <2> QED BY <2>1, BatchFacts DEF PollBatch
<1>6. PollFrom <= max_seq(rows)
  BY <1>2, <1>3
<1>7. PollBatch # {} => Acked(PollFrom, Max(PollBatch)) = Max(PollBatch)
  BY <1>5 DEF Acked
<1> QED BY <1>2, <1>3, <1>4, <1>5, <1>6, <1>7

(* After a poll whose answer goes out: what is missing is in its batch.    *)
(* The batch is under way if DM waits for it; otherwise DM has asked, or   *)
(* will ask, for the batch again.                                          *)
LEMMA PollAnswered ==
  ASSUME RInv, conn, reqs # <<>>, Head(reqs).kind = "poll", Len(sendBuf) < SendCap,
         NEW b \in SUBSET (1 .. autoSeq), NEW k \in 0 .. Len(sendBuf) + 1,
         LET buf == Append(sendBuf, [batch |-> b, fresh |-> Head(reqs).fresh])
         IN /\ sendBuf' = SubSeq(buf, k + 1, Len(buf))
            /\ wire' = wire \o SubSeq(buf, 1, k),
         reqs' = Tail(reqs), UNCHANGED <<conn, awaiting, owes>>, watch' \in BOOLEAN,
         IInv', UNCHANGED <<rows, autoSeq, mode, got>>,
         sent' <= max_seq(rows), sent' \in Nat, last' \in 0 .. autoSeq,
         gone \subseteq gone', gone' \subseteq 1 .. autoSeq,
         \A q \in DOMAIN rows : q <= sent' /\ q \notin got \cup gone' => q \in b,
         \A q \in b : 0 < last' /\ last' <= q,
         faults' \in Nat,
         faults' = 0 => /\ faults = 0 /\ k = Len(sendBuf) + 1
                        /\ sent <= sent' /\ \A q \in b : sent < q /\ q <= sent'
  PROVE  RInv'
<1> DEFINE resp == [batch |-> b, fresh |-> Head(reqs).fresh]
<1> USE DEF RInv
<1>1. Head(reqs).fresh \in BOOLEAN
  BY HeadRequest
<1>2. resp \in Responses(autoSeq) /\ resp.batch = b /\ resp.fresh = Head(reqs).fresh
  BY <1>1 DEF Responses
<1>3. /\ sendBuf' \in Seq(Responses(autoSeq')) /\ Len(sendBuf') <= SendCap
      /\ wire' \in Seq(Responses(autoSeq'))
      /\ \A i \in 1 .. Len(sendBuf') : sendBuf'[i].fresh => i = Len(sendBuf') /\ resp.fresh
      /\ \A i \in 1 .. Len(wire') :
           wire'[i].fresh => i = Len(wire') /\ sendBuf' = <<>> /\ resp.fresh /\ wire'[i] = resp
      /\ UnderWay' = (IF resp.fresh THEN resp.batch ELSE {})
      /\ k = Len(sendBuf) + 1 =>
           sendBuf' = <<>> /\ Len(wire') = Len(wire) + k /\ wire'[Len(wire')] = resp
  <2> HIDE DEF resp, RInv
  <2>1. /\ LET buf == Append(sendBuf, resp)
           IN /\ sendBuf' = SubSeq(buf, k + 1, Len(buf))
              /\ wire' = wire \o SubSeq(buf, 1, k)
        /\ UNCHANGED autoSeq
    BY DEF resp
  <2> QED BY <1>2, <2>1, AnswerQueued
<1>4. /\ reqs' \in Seq(Requests)
      /\ awaiting' # "none" /\ reqs' # <<>> => reqs'[Len(reqs')].fresh
      /\ \A i \in 1 .. Len(reqs') : reqs'[i].fresh =>
           /\ i = Len(reqs')
           /\ awaiting' = (IF reqs'[i].kind = "poll" THEN "poll" ELSE "command")
      /\ LatePolls' /\ PlainPolls'
      /\ resp.fresh => reqs' = <<>> /\ awaiting = "poll"
      /\ ~resp.fresh => ReRequested'
  <2>1. awaiting' = awaiting /\ owes' = owes
    OBVIOUS
  <2> HIDE DEF RInv, resp
  <2>2. /\ reqs' \in Seq(Requests)
        /\ awaiting' # "none" /\ reqs' # <<>> => reqs'[Len(reqs')].fresh
        /\ \A i \in 1 .. Len(reqs') : reqs'[i].fresh =>
             /\ i = Len(reqs')
             /\ awaiting' = (IF reqs'[i].kind = "poll" THEN "poll" ELSE "command")
        /\ LatePolls'
        /\ resp.fresh => reqs' = <<>>
        /\ ReRequested /\ ~resp.fresh => ReRequested'
    BY <1>2, <2>1, BehindHead
  <2>3. PlainPolls'
    <3>1. \A i \in 1 .. Len(reqs') : ~(reqs'[i].kind = "poll" /\ ~reqs'[i].re)
      BY <2>1, BehindHead
    <3> QED BY <3>1 DEF PlainPolls
  <2> QED BY <1>2, <2>2, <2>3, PollIsOwed
<1> HIDE DEF resp
<1>5. Shape'
  <2>1. max_seq(rows') = max_seq(rows) /\ mode' = "disk" /\ got' \subseteq 1 .. autoSeq'
        /\ conn' /\ conn' \in BOOLEAN /\ owes' \in BOOLEAN
        /\ awaiting' \in {"none", "poll", "command"}
    BY DEF Shape
  <2> QED BY <1>3, <1>4, <2>1 DEF Shape
<1>6. FreshIsLast'
  BY <1>3, <1>4 DEF FreshIsLast
<1>7. AnswersReachBack'
  BY <1>2, <1>3, <1>4 DEF AnswersReachBack
<1>8. Forgets'
  <2> SUFFICES ASSUME NEW q \in Missing'
               PROVE  q \in UnderWay' \/ (0 < last' /\ last' <= q /\ ReRequested')
    BY DEF Forgets
  <2>1. q \in b
    BY DEF Missing
  <2> QED BY <1>2, <1>3, <1>4, <2>1
<1>9. Calm'
  <2> SUFFICES ASSUME faults' = 0 PROVE Calm'
    BY DEF Calm
  <2>1. /\ ~owes /\ sendBuf = <<>> /\ got \subseteq 1 .. sent
        /\ \A i \in 1 .. Len(reqs) : reqs[i].kind = "poll" /\ ~reqs[i].re /\ reqs[i].fresh
        /\ k = Len(sendBuf) + 1 /\ sent <= sent' /\ sent \in Nat
        /\ \A i \in 1 .. Len(wire) : wire[i].fresh
    BY PollPositions DEF Calm
  <2>2. Head(reqs) = reqs[1] /\ 1 \in 1 .. Len(reqs) /\ wire \in Seq(Responses(autoSeq))
    BY HeadRequest DEF Shape
  <2>3. resp.fresh /\ ~Head(reqs).re /\ reqs' = <<>>
    BY <1>2, <1>4, <2>1, <2>2
  <2>5. \A q \in b : sent < q /\ q <= sent' /\ q \in Nat
    OBVIOUS
  <2>6. b \subseteq 1 .. sent' /\ b \cap got = {}
    BY <2>1, <2>5
  <2>7. Len(wire) = 0
    <3>1. \A i \in 1 .. Len(wire) : ~wire[i].fresh
      BY NoAnswerYet
    <3>2. Len(wire) \in Nat
      BY <2>2, LenProperties
    <3>3. 1 \notin 1 .. Len(wire)
      BY <2>1, <3>1
    <3> QED BY <3>2, <3>3
  <2>8. sendBuf' = <<>> /\ Len(wire') = 1 /\ wire'[1] = resp
    <3>1. Len(sendBuf) = 0
      BY <2>1, EmptySeq
    <3>2. k = 1
      BY <2>1, <3>1
    <3>3. sendBuf' = <<>> /\ Len(wire') = Len(wire) + k /\ wire'[Len(wire')] = resp
      BY <1>3, <2>1
    <3> QED BY <2>7, <3>2, <3>3
  <2>9. wire' # <<>> /\ \A i \in 1 .. Len(wire') : wire'[i] = resp
    <3>1. 1 .. Len(wire') = {1}
      BY <2>8
    <3> QED BY <2>8, <3>1, EmptySeq
  <2>10. got' \subseteq 1 .. sent'
    <3>1. got' = got /\ got \subseteq 1 .. sent
      BY <2>1
    <3> QED BY <2>1, <3>1
  <2>11. 1 .. Len(reqs') = {} /\ ~owes'
    <3>1. Len(reqs') = 0
      BY <2>3, EmptySeq
    <3> QED BY <2>1, <3>1
  <2>12. \A i \in 1 .. Len(wire') :
          wire'[i].fresh /\ wire'[i].batch \subseteq 1 .. sent' /\ wire'[i].batch \cap got' = {}
    BY <1>2, <2>3, <2>6, <2>9
  <2> QED BY <2>8, <2>9, <2>10, <2>11, <2>12 DEF Calm
<1> QED BY <1>3, <1>4, <1>5, <1>6, <1>7, <1>8, <1>9

-----------------------------------------------------------------------------
(* The steps of acud.                                                      *)

(* A poll that could not be answered is dropped; the position stays where  *)
(* the step back left it, before everything that is not accounted for, or  *)
(* where it was when the step back failed too, or at the beginning of the  *)
(* table.  DM will ask again.                                              *)
LEMMA RefusedPoll ==
  ASSUME RInv, conn, reqs # <<>>, Head(reqs).kind = "poll", NoRoom,
         sent' \in {PollFrom, sent, 0}, last' = last, faults' \in {faults, faults + 1},
         UNCHANGED <<storeVars, got, gone>>
  PROVE  RInv'
<1> USE DEF RInv
<1>1. /\ UNCHANGED <<rows, autoSeq, mode, nextTrim, ring, failed, trimFails>>
      /\ UNCHANGED <<conn, sendBuf, watch, wire, awaiting, owes, got, gone>>
      /\ reqs' = Tail(reqs) /\ Len(sendBuf) >= SendCap
  BY DEF storeVars, NoRoom
<1>2. sent' \in 0 .. max_seq(rows) /\ sent' <= max_seq(rows) /\ sent \in Nat
  BY PollPositions, TableFacts DEF Shape
<1>3. IInv'
  <2>1. IInv /\ nextTrim' \in {nextTrim, Capacity + TrimSlack} /\ mode = "disk"
    BY <1>1 DEF Shape
  <2> HIDE DEF RInv
  <2> QED BY <1>1, <1>2, <2>1, StoreKept
<1>4. /\ reqs' \in Seq(Requests)
      /\ awaiting' # "none" /\ reqs' # <<>> => reqs'[Len(reqs')].fresh
      /\ \A i \in 1 .. Len(reqs') : reqs'[i].fresh =>
           /\ i = Len(reqs')
           /\ awaiting' = (IF reqs'[i].kind = "poll" THEN "poll" ELSE "command")
      /\ LatePolls'
      /\ \A i \in 1 .. Len(reqs') : ~(reqs'[i].kind = "poll" /\ ~reqs'[i].re)
      /\ Head(reqs).fresh => reqs' = <<>>
      /\ ReRequested /\ ~Head(reqs).fresh => ReRequested'
  BY <1>1, BehindHead
<1>5. Shape'
  <2>1. max_seq(rows') = max_seq(rows) /\ faults' \in Nat
    BY <1>1 DEF Shape
  <2> QED BY <1>1, <1>2, <1>4, <2>1 DEF Shape
<1>6. /\ \A i \in 1 .. Len(sendBuf) : ~sendBuf[i].fresh
      /\ \A i \in 1 .. Len(wire) : ~wire[i].fresh
      /\ UnderWay = {}
  BY NoAnswerYet
<1>7. FreshIsLast' /\ PlainPolls'
  BY <1>1, <1>4, <1>6 DEF FreshIsLast, PlainPolls
<1>8. UnderWay' = {} /\ AnswersReachBack'
  BY <1>1, <1>6 DEF UnderWay, Batched, AnswersReachBack
<1>9. ReRequested' \/ Hanging'
  <2>1. CASE Head(reqs).fresh
    <3>1. awaiting' = "poll" /\ reqs' = <<>>
      BY <1>1, <1>4, <2>1, PollIsOwed
    <3>2. DOMAIN sendBuf = 1 .. Len(sendBuf) /\ DOMAIN wire = 1 .. Len(wire) /\ DOMAIN <<>> = {}
      BY LenProperties DEF Shape
    <3> QED BY <1>1, <1>6, <3>1, <3>2 DEF Hanging, Unanswered
  <2>2. CASE ~Head(reqs).fresh
    BY <1>4, <2>2, PollIsOwed
  <2> QED BY <2>1, <2>2
<1>10. Missing' \subseteq Missing
  <2> SUFFICES ASSUME NEW q \in Missing' PROVE q <= sent
    BY <1>1 DEF Missing
  <2>1. PollFrom \in 0 .. sent /\ \A p \in DOMAIN rows : p <= PollFrom => p \in got \cup gone
    BY PollPositions
  <2>2. q \in DOMAIN rows /\ q <= sent' /\ q \notin got \cup gone
    BY <1>1 DEF Missing
  <2>3. q \in Nat /\ 1 <= q /\ sent \in Nat
    BY <2>2, PollPositions, TableFacts
  <2> QED BY <2>1, <2>2, <2>3
<1>11. Forgets'
  <2> SUFFICES ASSUME NEW q \in Missing' PROVE 0 < last' /\ last' <= q
    BY <1>9 DEF Forgets
  <2> QED BY <1>10, MissingIsOwed
<1>12. Calm'
  <2>1. faults # 0 /\ faults \in Nat
    <3>1. sendBuf # <<>>
      BY <1>1, EmptySeq, SendCapAssumption
    <3> QED BY <3>1 DEF Calm, Shape
  <2>2. faults' # 0
    BY <2>1
  <2> QED BY <2>2 DEF Calm
<1> QED BY <1>3, <1>4, <1>5, <1>7, <1>8, <1>11, <1>12

(* handle_history_request: the answer queued, whole or in part written,    *)
(* refused for want of room, or lost with the connection.                  *)
LEMMA HistoryRequestStep == ASSUME RInv, handle_history_request PROVE RInv'
<1> DEFINE b == PollBatch
           resp == [batch |-> b, fresh |-> Head(reqs).fresh]
<1>1. /\ conn /\ reqs # <<>> /\ Head(reqs).kind = "poll"
      /\ UNCHANGED <<rows, autoSeq, mode, nextTrim, ring, failed, trimFails, got, gone>>
      /\ \/ Refused /\ sent' = PollFrom /\ last' = last
         \/ /\ Accepted(resp)
            /\ sent' = IF b = {} THEN PollFrom ELSE Acked(PollFrom, Max(b))
            /\ last' = IF b = {} THEN last ELSE Min(b)
  BY DEF handle_history_request, storeVars, PollFrom, PollBatch
<1>2. CASE Refused /\ sent' = PollFrom /\ last' = last
  <2>1. NoRoom /\ faults' = faults
    BY <1>2 DEF Refused, NoFault
  <2> QED BY <1>1, <1>2, <2>1, RefusedPoll DEF storeVars
<1>3. CASE /\ Accepted(resp)
           /\ sent' = IF b = {} THEN PollFrom ELSE Acked(PollFrom, Max(b))
           /\ last' = IF b = {} THEN last ELSE Min(b)
  <2>1. /\ PollFrom \in 0 .. sent /\ sent \in Nat /\ PollFrom <= max_seq(rows)
        /\ \A q \in DOMAIN rows : q <= PollFrom => q \in got \cup gone
        /\ b \subseteq 1 .. autoSeq
        /\ \A q \in b : PollFrom < q
        /\ b # {} =>
              /\ Acked(PollFrom, Max(b)) = Max(b)
              /\ Max(b) \in 1 .. max_seq(rows)
              /\ Min(b) \in 1 .. autoSeq
              /\ \A q \in b : Min(b) <= q
              /\ \A q \in DOMAIN rows : PollFrom < q /\ q <= Max(b) => q \in b
    BY <1>1, PollPositions
  <2>2. /\ max_seq(rows) \in 0 .. autoSeq /\ autoSeq \in Nat /\ DOMAIN rows \subseteq 1 .. autoSeq
        /\ last \in 0 .. autoSeq /\ mode = "disk" /\ faults \in Nat /\ gone \subseteq 1 .. autoSeq
        /\ got \subseteq 1 .. autoSeq
    BY TableFacts DEF RInv, Shape
  <2> HIDE DEF b
  <2>3. /\ sent' \in Nat /\ sent' \in 0 .. max_seq(rows) /\ sent' <= max_seq(rows)
        /\ last' \in 0 .. autoSeq
        /\ \A q \in b : 0 < last' /\ last' <= q
    <3>1. CASE b = {}
      BY <1>3, <2>1, <2>2, <3>1
    <3>2. CASE b # {}
      BY <1>3, <2>1, <2>2, <3>2
    <3> QED BY <3>1, <3>2
  <2>4. \A q \in DOMAIN rows : q <= sent' /\ q \notin got \cup gone => q \in b
    <3> SUFFICES ASSUME NEW q \in DOMAIN rows, q <= sent', q \notin got \cup gone PROVE q \in b
      OBVIOUS
    <3>1. q \in Nat /\ PollFrom \in Nat /\ ~(q <= PollFrom)
      BY <2>1, <2>2
    <3>2. b # {} /\ sent' = Max(b)
      BY <1>3, <2>1, <3>1
    <3> QED BY <2>1, <3>1, <3>2
  <2>5. IInv'
    <3>1. IInv /\ nextTrim' \in {nextTrim, Capacity + TrimSlack}
      BY <1>1 DEF RInv
    <3> QED BY <1>1, <2>2, <2>3, <3>1, StoreKept
  <2>6. CASE Flush(Append(sendBuf, resp)) /\ reqs' = Tail(reqs)
    <3>1. Len(sendBuf) < SendCap
      BY <1>3 DEF Accepted
    <3>2. Head(reqs).fresh \in BOOLEAN /\ sendBuf \in Seq(Responses(autoSeq)) /\ Len(sendBuf) \in Nat
      BY <1>1, HeadRequest, LenProperties DEF RInv, Shape
    <3>3. Len(Append(sendBuf, resp)) = Len(sendBuf) + 1
      <4>1. resp \in Responses(autoSeq)
        BY <2>1, <3>2 DEF Responses
      <4> HIDE DEF resp
      <4> QED BY <3>2, <4>1, AppendProperties
    <3>4. PICK k \in 0 .. Len(sendBuf) + 1 :
            /\ IF k < Len(sendBuf) + 1 THEN Fault ELSE NoFault
            /\ sendBuf' = SubSeq(Append(sendBuf, resp), k + 1, Len(Append(sendBuf, resp)))
            /\ wire' = wire \o SubSeq(Append(sendBuf, resp), 1, k)
            /\ watch' = (k < Len(Append(sendBuf, resp)) /\ watch)
            /\ UNCHANGED <<conn, awaiting, owes>>
      BY <2>6, <3>3 DEF Flush, Written
    <3>5. watch' \in BOOLEAN
      BY <3>4
    <3>6. faults' \in Nat /\ (faults' = 0 => faults = 0 /\ k = Len(sendBuf) + 1)
      BY <2>2, <3>2, <3>4 DEF Fault, NoFault
    <3>7. ASSUME faults' = 0 PROVE sent <= sent' /\ \A q \in b : sent < q /\ q <= sent'
      <4>1. ~Head(reqs).re
        BY <1>1, <3>6, <3>7, HeadRequest DEF RInv, Calm
      <4>2. PollFrom = sent
        BY <4>1 DEF PollFrom, StepBack
      <4>3. b # {} => sent' = Max(b) /\ Max(b) \in b /\ \A q \in b : q <= Max(b)
        <5>1. b \in SUBSET Nat /\ \A x \in b : x <= autoSeq
          BY <2>1, <2>2
        <5> QED BY <1>3, <2>1, <2>2, <5>1, GreatestExists
      <4>4. sent <= sent'
        <5>1. CASE b = {}
          BY <1>3, <2>1, <4>2, <5>1
        <5>2. CASE b # {}
          BY <2>1, <2>3, <4>2, <4>3, <5>2
        <5> QED BY <5>1, <5>2
      <4> QED BY <2>1, <4>2, <4>3, <4>4
    <3>8. b \in SUBSET (1 .. autoSeq) /\ gone \subseteq gone' /\ gone' \subseteq 1 .. autoSeq /\ gone' = gone
      BY <1>1, <2>1, <2>2
    <3> QED BY <1>1, <2>3, <2>4, <2>5, <2>6, <3>1, <3>4, <3>5, <3>6, <3>7, <3>8, PollAnswered
  <2>7. CASE Fault /\ Lost(FALSE)
    <3>1. owes' = (owes \/ awaiting = "poll") /\ faults' # 0 /\ faults' \in Nat
      BY <2>2, <2>7 DEF Lost, Fault
    <3>2. owes'
      BY <1>1, <3>1, PollIsOwed
    <3>3. \A q \in DOMAIN rows : q <= sent' /\ q \notin got' \cup gone' => 0 < last' /\ last' <= q /\ owes'
      BY <1>1, <2>3, <2>4, <3>2
    <3> QED BY <1>1, <2>2, <2>3, <2>5, <2>7, <3>1, <3>3, LostStep
  <2> QED BY <1>3, <2>6, <2>7 DEF Accepted
<1> QED BY <1>1, <1>2, <1>3

(* A poll in which SQLite fails the step back, the fetch, MAX or the       *)
(* acknowledgement.  When the step back failed and an answer goes out,     *)
(* what DM misses is given up.                                             *)
LEMMA HistorySqlErrorStep == ASSUME RInv, history_request_sql_error PROVE RInv'
<1>1. PICK which \in {"back", "fetch", "max", "ack"}, n \in 0 .. Head(reqs).n :
        LET from == IF which = "back" THEN sent ELSE IF which = "max" THEN 0 ELSE PollFrom
            b    == Batch(rows, from, n)
        IN \/ NoRoom /\ sent' = from /\ last' = last /\ gone' = gone
           \/ /\ Taken([batch |-> b, fresh |-> Head(reqs).fresh])
              /\ sent' = IF which = "ack" \/ b = {} THEN from ELSE Acked(from, Max(b))
              /\ last' = IF b = {} THEN last ELSE Min(b)
              /\ gone' = IF which = "back" THEN gone \cup Unread(sent) ELSE gone
  BY DEF history_request_sql_error, PollFrom
<1> DEFINE from == IF which = "back" THEN sent ELSE IF which = "max" THEN 0 ELSE PollFrom
           b    == Batch(rows, from, n)
           resp == [batch |-> b, fresh |-> Head(reqs).fresh]
<1>2. /\ conn /\ reqs # <<>> /\ Head(reqs).kind = "poll"
      /\ UNCHANGED <<rows, autoSeq, mode, nextTrim, ring, failed, trimFails, got>>
      /\ faults' = faults + 1
  BY DEF history_request_sql_error, storeVars, Fault
<1>3. /\ max_seq(rows) \in 0 .. autoSeq /\ autoSeq \in Nat /\ DOMAIN rows \subseteq 1 .. autoSeq
      /\ mode = "disk" /\ faults \in Nat /\ gone \subseteq 1 .. autoSeq
      /\ got \subseteq 1 .. autoSeq /\ watch \in BOOLEAN /\ sent <= max_seq(rows)
      /\ last \in 0 .. autoSeq /\ sendBuf \in Seq(Responses(autoSeq))
  BY TableFacts DEF RInv, Shape
<1>4. /\ PollFrom \in 0 .. sent /\ sent \in Nat
      /\ \A q \in DOMAIN rows : q <= PollFrom => q \in got \cup gone
  BY <1>2, PollPositions
<1>5. from \in 0 .. max_seq(rows) /\ n \in Nat /\ Head(reqs).fresh \in BOOLEAN
  <2>1. Head(reqs).n \in Nat /\ Head(reqs).fresh \in BOOLEAN
    BY <1>2, HeadRequest DEF RInv
  <2> QED BY <1>3, <1>4, <2>1
<1>6. CASE NoRoom /\ sent' = from /\ last' = last /\ gone' = gone
  <2>1. sent' \in {PollFrom, sent, 0} /\ faults' \in {faults, faults + 1} /\ UNCHANGED storeVars
    BY <1>2, <1>6 DEF storeVars
  <2> QED BY <1>2, <1>6, <2>1, RefusedPoll
<1>7. CASE /\ Taken(resp)
           /\ sent' = IF which = "ack" \/ b = {} THEN from ELSE Acked(from, Max(b))
           /\ last' = IF b = {} THEN last ELSE Min(b)
           /\ gone' = IF which = "back" THEN gone \cup Unread(sent) ELSE gone
  <2>1. \A q \in DOMAIN rows : q <= from => q \in got \cup gone'
    <3>1. CASE which = "max"
      <4>1. \A q \in DOMAIN rows : q \in Nat /\ 1 <= q
        BY <1>3
      <4> QED BY <3>1, <4>1
    <3>2. CASE which # "max"
      BY <1>4, <1>7, <3>2 DEF Unread
    <3> QED BY <3>1, <3>2
  <2>2. /\ b \subseteq 1 .. autoSeq
        /\ b # {} =>
             /\ Min(b) \in b /\ \A q \in b : Min(b) <= q
             /\ Max(b) \in 1 .. max_seq(rows) /\ from < Max(b)
             /\ \A q \in DOMAIN rows : from < q /\ q <= Max(b) => q \in b
    <3>1. from \in Nat /\ IInv
      BY <1>3, <1>5 DEF RInv
    <3> HIDE DEF from
    <3> QED BY <1>5, <3>1, BatchFacts
  <2> HIDE DEF from, b
  <2>3. sent' \in 0 .. max_seq(rows) /\ sent' \in Nat /\ sent' <= max_seq(rows)
        /\ (sent' = from \/ (b # {} /\ sent' = Max(b)))
    <3>1. b # {} => Acked(from, Max(b)) = Max(b)
      BY <1>3, <1>5, <2>2 DEF Acked
    <3>2. sent' = from \/ (b # {} /\ sent' = Max(b))
      BY <1>7, <3>1
    <3>3. b # {} => Max(b) \in 0 .. max_seq(rows)
      BY <1>3, <2>2
    <3> QED BY <1>3, <1>5, <3>2, <3>3
  <2>4. \A q \in DOMAIN rows : q <= sent' /\ q \notin got \cup gone' => q \in b
    <3> SUFFICES ASSUME NEW q \in DOMAIN rows, q <= sent', q \notin got \cup gone' PROVE q \in b
      OBVIOUS
    <3>1. q \in Nat /\ from \in Nat /\ ~(q <= from)
      BY <1>3, <1>5, <2>1
    <3> QED BY <2>2, <2>3, <3>1
  <2>5. last' \in 0 .. autoSeq /\ \A q \in b : 0 < last' /\ last' <= q
    <3>1. CASE b = {}
      BY <1>3, <1>7, <3>1
    <3>2. CASE b # {}
      <4>1. last' = Min(b) /\ Min(b) \in 1 .. autoSeq /\ \A q \in b : Min(b) <= q
        BY <1>7, <2>2, <3>2
      <4>2. Min(b) \in 0 .. autoSeq /\ 0 < Min(b)
        BY <1>3, <4>1
      <4> QED BY <4>1, <4>2
    <3> QED BY <3>1, <3>2
  <2>6. gone \subseteq gone' /\ gone' \subseteq 1 .. autoSeq
    BY <1>3, <1>7 DEF Unread
  <2>7. IInv'
    <3>1. IInv /\ nextTrim' \in {nextTrim, Capacity + TrimSlack}
      BY <1>2 DEF RInv
    <3> QED BY <1>2, <1>3, <2>3, <3>1, StoreKept
  <2>8. faults' \in Nat /\ faults' # 0
    BY <1>2, <1>3
  <2>9. CASE \E k \in 0 .. Len(sendBuf) + 1 :
               Written(Append(sendBuf, resp), k) /\ reqs' = Tail(reqs)
    <3>1. PICK k \in 0 .. Len(sendBuf) + 1 :
            Written(Append(sendBuf, resp), k) /\ reqs' = Tail(reqs)
      BY <2>9
    <3>2. /\ sendBuf' = SubSeq(Append(sendBuf, resp), k + 1, Len(Append(sendBuf, resp)))
          /\ wire' = wire \o SubSeq(Append(sendBuf, resp), 1, k)
          /\ watch' \in BOOLEAN
          /\ UNCHANGED <<conn, awaiting, owes>>
      BY <3>1 DEF Written
    <3>3. Len(sendBuf) < SendCap /\ b \in SUBSET (1 .. autoSeq) /\ RInv
      BY <1>7, <2>2 DEF Taken
    <3> HIDE DEF resp
    <3> QED BY <1>2, <2>3, <2>4, <2>5, <2>6, <2>7, <2>8, <3>1, <3>2, <3>3, PollAnswered DEF resp
  <2>10. CASE Lost(FALSE)
    <3>1. owes' = (owes \/ awaiting = "poll")
      BY <2>10 DEF Lost
    <3>2. owes'
      BY <1>2, <3>1, PollIsOwed
    <3>3. \A q \in DOMAIN rows :
            q <= sent' /\ q \notin got' \cup gone' => 0 < last' /\ last' <= q /\ owes'
      BY <1>2, <2>4, <2>5, <3>2
    <3> QED BY <1>2, <1>3, <2>3, <2>5, <2>6, <2>7, <2>8, <2>10, <3>3, LostStep
  <2> QED BY <1>7, <2>9, <2>10 DEF Taken
<1> QED BY <1>1, <1>6, <1>7

(* EventReset and EventIndexChange: what a forward move skips is given up, *)
(* and the queue behind the command is as it was.                          *)
LEMMA CommandStep ==
  ASSUME RInv, conn, reqs # <<>>, Head(reqs).kind # "poll",
         NEW target \in 0 .. max_seq(rows), sent' = target,
         gone' = gone \cup {q \in Unsent(rows, sent) : q <= target},
         NoRoom \/ Taken([batch |-> {}, fresh |-> Head(reqs).fresh]),
         faults' \in {faults, faults + 1},
         UNCHANGED <<storeVars, last, got>>
  PROVE  RInv'
<1> DEFINE req == Head(reqs)
           resp == [batch |-> {}, fresh |-> req.fresh]
<1>1. /\ conn /\ reqs # <<>> /\ req.kind # "poll" /\ sent' = target
      /\ NoRoom \/ Taken(resp)
      /\ UNCHANGED <<rows, autoSeq, mode, nextTrim, ring, failed, trimFails, last, got>>
  BY DEF storeVars
<1>2. /\ max_seq(rows) \in 0 .. autoSeq /\ autoSeq \in Nat /\ DOMAIN rows \subseteq 1 .. autoSeq
      /\ mode = "disk" /\ faults \in Nat /\ gone \subseteq 1 .. autoSeq
      /\ got \subseteq 1 .. autoSeq /\ watch \in BOOLEAN /\ last \in 0 .. autoSeq /\ sent \in Nat
      /\ sendBuf \in Seq(Responses(autoSeq)) /\ wire \in Seq(Responses(autoSeq))
  BY TableFacts DEF RInv, Shape
<1>3. /\ Head(reqs) = reqs[1] /\ 1 \in 1 .. Len(reqs) /\ req.fresh \in BOOLEAN
  BY <1>1, HeadRequest DEF RInv
<1>4. gone' \subseteq 1 .. autoSeq /\ gone \subseteq gone'
  BY <1>2 DEF Unsent
<1>5. \A q \in DOMAIN rows : q <= sent' /\ q \notin got \cup gone' => q \in Missing
  <2> SUFFICES ASSUME NEW q \in DOMAIN rows, q <= sent', q \notin got \cup gone' PROVE q <= sent
    BY <1>4 DEF Missing
  <2>1. q \in Nat /\ target \in Nat /\ q <= target
    BY <1>1, <1>2
  <2>2. ~(q > sent)
    BY <2>1 DEF Unsent
  <2> QED BY <1>2, <2>1, <2>2
<1>6. IInv'
  <2>1. IInv /\ nextTrim' \in {nextTrim, Capacity + TrimSlack} /\ sent' \in 0 .. max_seq(rows)
    BY <1>1 DEF RInv
  <2> QED BY <1>1, <1>2, <2>1, StoreKept
<1>7. faults' # 0 /\ faults' \in Nat
  <2>1. faults # 0
    BY <1>1, <1>3 DEF RInv, Calm
  <2> QED BY <1>2, <2>1
<1>8. sent' <= max_seq(rows) /\ sent' \in Nat
  BY <1>1, <1>2
<1>9. CASE Lost(FALSE)
  <2>1. owes' = (owes \/ awaiting = "poll")
    BY <1>9 DEF Lost
  <2>2. \A q \in DOMAIN rows : q <= sent' /\ q \notin got' \cup gone' => 0 < last' /\ last' <= q /\ owes'
    BY <1>1, <1>5, <2>1, MissingIsOwed
  <2> QED BY <1>1, <1>2, <1>4, <1>6, <1>7, <1>8, <1>9, <2>2, LostStep
<1>10. CASE \/ NoRoom
            \/ /\ Len(sendBuf) < SendCap
               /\ \E k \in 0 .. Len(sendBuf) + 1 :
                    Written(Append(sendBuf, resp), k) /\ reqs' = Tail(reqs)
  <2>1. awaiting' = awaiting /\ owes' = owes /\ reqs' = Tail(reqs) /\ conn' = conn
    BY <1>10 DEF NoRoom, Written
  <2>2. /\ reqs' \in Seq(Requests)
        /\ awaiting' # "none" /\ reqs' # <<>> => reqs'[Len(reqs')].fresh
        /\ \A i \in 1 .. Len(reqs') : reqs'[i].fresh =>
             /\ i = Len(reqs')
             /\ awaiting' = (IF reqs'[i].kind = "poll" THEN "poll" ELSE "command")
        /\ LatePolls'
        /\ \A i \in 1 .. Len(reqs') : reqs'[i].kind = "poll" /\ ~reqs'[i].re =>
             Missing = {} /\ \A j \in 1 .. i - 1 : reqs'[j].kind # "poll"
        /\ Head(reqs).fresh => reqs' = <<>>
        /\ ReRequested => ReRequested'
    BY <1>1, <2>1, BehindHead
  <2>3. /\ sendBuf' \in Seq(Responses(autoSeq')) /\ Len(sendBuf') <= SendCap
        /\ wire' \in Seq(Responses(autoSeq'))
        /\ \A i \in 1 .. Len(sendBuf') : sendBuf'[i].fresh => i = Len(sendBuf') /\ req.fresh
        /\ \A i \in 1 .. Len(wire') :
             wire'[i].fresh => i = Len(wire') /\ sendBuf' = <<>> /\ req.fresh
        /\ UnderWay' = {}
        /\ watch' \in BOOLEAN
    <3>1. CASE NoRoom
      <4>1. UNCHANGED <<sendBuf, wire, watch>>
        BY <3>1 DEF NoRoom
      <4>2. /\ \A i \in 1 .. Len(sendBuf) : ~sendBuf[i].fresh
            /\ \A i \in 1 .. Len(wire) : ~wire[i].fresh
            /\ UnderWay = {}
        BY <1>1, NoAnswerYet
      <4>3. UnderWay' = {} /\ Len(sendBuf) <= SendCap
        BY <4>1, <4>2 DEF UnderWay, Batched, RInv, Shape
      <4> QED BY <1>1, <1>2, <4>1, <4>2, <4>3
    <3>2. CASE /\ Len(sendBuf) < SendCap
               /\ \E k \in 0 .. Len(sendBuf) + 1 :
                    Written(Append(sendBuf, resp), k) /\ reqs' = Tail(reqs)
      <4> PICK k \in 0 .. Len(sendBuf) + 1 : Written(Append(sendBuf, resp), k)
        BY <3>2
      <4>1. resp \in Responses(autoSeq) /\ resp.fresh = req.fresh /\ resp.batch = {}
        BY <1>3 DEF Responses
      <4> HIDE DEF resp
      <4>2. /\ sendBuf' = SubSeq(Append(sendBuf, resp), k + 1, Len(Append(sendBuf, resp)))
            /\ wire' = wire \o SubSeq(Append(sendBuf, resp), 1, k)
            /\ watch' \in BOOLEAN
        BY DEF Written
      <4>3. /\ sendBuf' \in Seq(Responses(autoSeq')) /\ Len(sendBuf') <= SendCap
            /\ wire' \in Seq(Responses(autoSeq'))
            /\ \A i \in 1 .. Len(sendBuf') : sendBuf'[i].fresh => i = Len(sendBuf') /\ resp.fresh
            /\ \A i \in 1 .. Len(wire') :
                 wire'[i].fresh => i = Len(wire') /\ sendBuf' = <<>> /\ resp.fresh
            /\ UnderWay' = (IF resp.fresh THEN resp.batch ELSE {})
        BY <1>1, <3>2, <4>1, <4>2, AnswerQueued
      <4> QED BY <4>1, <4>2, <4>3
    <3> QED BY <1>10, <3>1, <3>2
  <2>4. Shape'
    <3>1. max_seq(rows') = max_seq(rows)
      BY <1>1
    <3> QED BY <1>1, <1>2, <1>4, <1>7, <1>8, <2>1, <2>2, <2>3, <3>1 DEF Shape, RInv
  <2>5. FreshIsLast'
    <3>1. req.fresh => awaiting # "none"
      BY <1>3 DEF RInv, FreshIsLast
    <3> QED BY <2>1, <2>2, <2>3, <3>1 DEF FreshIsLast
  <2>6. PlainPolls'
    <3>1. Missing = {} => Missing' = {}
      BY <1>1, <1>5 DEF Missing
    <3> QED BY <2>2, <3>1 DEF PlainPolls
  <2>7. AnswersReachBack'
    BY <2>3 DEF AnswersReachBack
  <2>8. ASSUME NEW q \in Missing' PROVE 0 < last' /\ last' <= q /\ (ReRequested' \/ Hanging')
    <3>1. q \in Missing
      BY <1>1, <1>5 DEF Missing
    <3>2. ReRequested
      <4>1. ~Hanging
        <5>1. DOMAIN reqs = 1 .. Len(reqs) /\ Len(reqs) \in 1 .. Len(reqs)
          BY <1>1, HeadRequest, LenProperties DEF RInv, Shape
        <5> QED BY <1>1, <5>1 DEF Hanging, Unanswered, RInv, FreshIsLast
      <4>2. UnderWay = {}
        BY <1>1, NoAnswerYet
      <4> QED BY <3>1, <4>1, <4>2 DEF RInv, Forgets
    <3> QED BY <1>1, <2>2, <3>1, <3>2, MissingIsOwed
  <2>9. Forgets' /\ Calm'
    BY <1>7, <2>8 DEF Forgets, Calm
  <2> QED BY <1>6, <2>2, <2>4, <2>5, <2>6, <2>7, <2>9 DEF RInv
<1> HIDE DEF resp
<1> QED BY <1>1, <1>9, <1>10 DEF Taken

(* The two ways a command is handled.                                      *)
LEMMA CommandsStep ==
  ASSUME RInv, handle_event_store_request \/ event_store_request_sql_error
  PROVE  RInv'
<1> DEFINE req == Head(reqs)
           resp == [batch |-> {}, fresh |-> req.fresh]
<1>1. /\ conn /\ reqs # <<>> /\ req.kind # "poll" /\ UNCHANGED <<storeVars, last, got>>
      /\ gone' = gone \cup {q \in Unsent(rows, sent) : q <= sent'}
      /\ sent' = sent \/ \E miss : sent' = EventStoreTarget(req, miss)
  BY DEF handle_event_store_request, event_store_request_sql_error
<1>2. IInv /\ faults \in Nat /\ sent <= max_seq(rows) /\ sent \in Nat
      /\ max_seq(rows) \in Nat /\ sendBuf \in Seq(Responses(autoSeq))
  BY TableFacts DEF RInv, Shape
<1>3. req.kind # "reset" => req.t \in Times
  BY <1>1, HeadRequest DEF RInv
<1>4. \A miss : EventStoreTarget(req, miss) \in 0 .. max_seq(rows)
  BY <1>2, <1>3, TableFacts DEF EventStoreTarget
<1>5. sent' \in 0 .. max_seq(rows)
  BY <1>1, <1>2, <1>4
<1>6. (NoRoom \/ Taken(resp)) /\ faults' \in {faults, faults + 1}
  <2>1. CASE event_store_request_sql_error
    BY <2>1 DEF event_store_request_sql_error, Fault
  <2>2. CASE handle_event_store_request /\ Refused
    BY <2>2 DEF Refused, NoFault
  <2>3. CASE handle_event_store_request /\ Accepted(resp)
    <3>1. Len(sendBuf) < SendCap
      BY <2>3 DEF Accepted
    <3>2. CASE Fault /\ Lost(FALSE)
      BY <3>1, <3>2 DEF Taken, Fault
    <3>3. CASE Flush(Append(sendBuf, resp)) /\ reqs' = Tail(reqs)
      <4>1. req.fresh \in BOOLEAN
        BY <1>1, HeadRequest DEF RInv
      <4>2. resp \in Responses(autoSeq)
        BY <4>1 DEF Responses
      <4> HIDE DEF resp
      <4>3. Len(Append(sendBuf, resp)) = Len(sendBuf) + 1
        BY <1>2, <4>2, AppendProperties
      <4>4. PICK k \in 0 .. Len(sendBuf) + 1 :
              /\ faults' \in {faults, faults + 1}
              /\ Written(Append(sendBuf, resp), k)
        BY <3>3, <4>3 DEF Flush, Fault, NoFault
      <4> QED BY <3>1, <3>3, <4>4 DEF Taken
    <3> QED BY <2>3, <3>2, <3>3 DEF Accepted
  <2> QED BY <2>1, <2>2, <2>3 DEF handle_event_store_request
<1> QED BY <1>1, <1>5, <1>6, CommandStep

(* A new connection, a broken one, another port, a restart: what is under  *)
(* way is lost.                                                            *)
LEMMA ConnectionStep ==
  ASSUME RInv, net_on_listen_ready \/ net_drop_client \/ reload_port
  PROVE  RInv'
<1>1. /\ UNCHANGED <<rows, autoSeq, mode, nextTrim, ring, failed, trimFails, sent, got>>
      /\ \/ gone' = gone /\ last' = last
         \/ gone' = gone \cup Unread(sent) /\ last' = 0
  BY DEF net_on_listen_ready, net_drop_client, reload_port, storeVars
<1>2. /\ max_seq(rows) \in 0 .. autoSeq /\ autoSeq \in Nat /\ DOMAIN rows \subseteq 1 .. autoSeq
      /\ mode = "disk" /\ faults \in Nat /\ gone \subseteq 1 .. autoSeq
      /\ got \subseteq 1 .. autoSeq /\ last \in 0 .. autoSeq /\ sent \in Nat /\ sent <= max_seq(rows)
  BY TableFacts DEF RInv, Shape
<1>3. IInv'
  <2>1. IInv /\ nextTrim' \in {nextTrim, Capacity + TrimSlack} /\ sent' \in 0 .. max_seq(rows)
    BY <1>1, <1>2 DEF RInv
  <2> QED BY <1>1, <1>2, <2>1, StoreKept
<1>4. PICK up \in BOOLEAN : Lost(up)
  BY DEF net_on_listen_ready, net_drop_client, reload_port
<1>5. faults' \in Nat /\ (faults' = 0 => faults = 0 /\ awaiting = "none")
  <2>1. CASE Fault
    BY <1>2, <2>1 DEF Fault
  <2>2. CASE NoFault /\ (~conn \/ Unanswered)
    <3>1. ASSUME faults = 0, awaiting # "none" PROVE FALSE
      <4>1. conn
        BY <3>1 DEF RInv, Shape
      <4>2. (reqs # <<>> \/ wire # <<>>) /\ Unanswered
        BY <2>2, <3>1, <4>1 DEF RInv, Calm
      <4>3. /\ DOMAIN reqs = 1 .. Len(reqs) /\ Len(reqs) \in Nat /\ (reqs # <<>> => Len(reqs) \in Nat \ {0})
            /\ DOMAIN wire = 1 .. Len(wire) /\ Len(wire) \in Nat /\ (wire # <<>> => Len(wire) \in Nat \ {0})
        BY LenProperties, EmptySeq DEF RInv, Shape
      <4>4. (reqs # <<>> => 1 \in DOMAIN reqs /\ reqs[1].fresh)
            /\ (wire # <<>> => 1 \in DOMAIN wire /\ wire[1].fresh)
        BY <3>1, <4>3 DEF RInv, Calm
      <4> QED BY <4>2, <4>4 DEF Unanswered
    <3> QED BY <1>2, <2>2, <3>1 DEF NoFault
  <2> QED BY <2>1, <2>2 DEF net_on_listen_ready, net_drop_client, reload_port
<1>6. \A q \in DOMAIN rows : q <= sent' /\ q \notin got' \cup gone' => 0 < last' /\ last' <= q /\ owes'
  <2> SUFFICES ASSUME NEW q \in DOMAIN rows, q <= sent, q \notin got \cup gone'
               PROVE  0 < last' /\ last' <= q /\ owes'
    BY <1>1
  <2>1. gone' = gone /\ last' = last
    BY <1>1 DEF Unread
  <2>2. q \in Missing
    BY <2>1 DEF Missing
  <2>3. owes' = (owes \/ awaiting = "poll")
    BY <1>4 DEF Lost
  <2> QED BY <2>1, <2>2, <2>3, MissingIsOwed
<1>7. gone' \subseteq 1 .. autoSeq /\ got' \subseteq 1 .. autoSeq /\ last' \in 0 .. autoSeq /\ sent' <= max_seq(rows)
  <2>1. Unread(sent) \subseteq DOMAIN rows
    BY DEF Unread
  <2>2. got' = got /\ sent' = sent /\ last' \in {0, last} /\ gone' \in {gone, gone \cup Unread(sent)}
    BY <1>1
  <2>3. 0 \in 0 .. autoSeq
    BY <1>2
  <2> QED BY <1>2, <2>1, <2>2, <2>3
<1> QED BY <1>1, <1>3, <1>4, <1>5, <1>6, <1>7, LostStep

(* A restart gives up what DM has not read of what counts as sent: acud no *)
(* longer knows where the last batch began.                                *)
LEMMA RestartStep == ASSUME RInv, Restart PROVE RInv'
<1>1. /\ UNCHANGED <<rows, autoSeq, mode, ring, failed, trimFails>>
      /\ Lost(FALSE) /\ last' = 0 /\ nextTrim' = Capacity + TrimSlack /\ faults' = faults + 1
      /\ gone' = gone \cup ({q \in DOMAIN rows : q <= sent'} \ got')
      /\ \/ sent' = sent /\ got' = got
         \/ /\ reqs # <<>> /\ Head(reqs).kind = "poll" /\ sent' = PollFrom
            /\ got' = IF Head(reqs).fresh THEN got \cup PollBatch ELSE got
  BY DEF Restart, Fault, PollFrom, PollBatch
<1>2. /\ max_seq(rows) \in 0 .. autoSeq /\ autoSeq \in Nat /\ DOMAIN rows \subseteq 1 .. autoSeq
      /\ mode = "disk" /\ faults \in Nat /\ gone \subseteq 1 .. autoSeq
      /\ got \subseteq 1 .. autoSeq /\ sent \in Nat /\ sent <= max_seq(rows)
  BY TableFacts DEF RInv, Shape
<1>3. sent' \in 0 .. max_seq(rows) /\ sent' <= max_seq(rows) /\ got' \subseteq 1 .. autoSeq
  <2>1. CASE sent' = sent /\ got' = got
    BY <1>2, <2>1
  <2>2. CASE /\ reqs # <<>> /\ Head(reqs).kind = "poll" /\ sent' = PollFrom
             /\ got' = IF Head(reqs).fresh THEN got \cup PollBatch ELSE got
    <3>1. PollFrom \in 0 .. sent /\ PollFrom <= max_seq(rows) /\ PollBatch \subseteq 1 .. autoSeq
      BY <2>2, PollPositions
    <3>2. got' \subseteq 1 .. autoSeq
      BY <1>2, <2>2, <3>1
    <3> QED BY <1>2, <2>2, <3>1, <3>2
  <2> QED BY <1>1, <2>1, <2>2
<1>4. gone' \subseteq 1 .. autoSeq
  BY <1>1, <1>2
<1>5. IInv'
  <2>1. IInv /\ nextTrim' \in {nextTrim, Capacity + TrimSlack}
    BY <1>1 DEF RInv
  <2> QED BY <1>1, <1>2, <1>3, <2>1, StoreKept
<1>6. last' \in 0 .. autoSeq /\ faults' \in Nat /\ faults' # 0
  BY <1>1, <1>2
<1>7. \A q \in DOMAIN rows : q <= sent' /\ q \notin got' \cup gone' => 0 < last' /\ last' <= q /\ owes'
  BY <1>1
<1> QED BY <1>1, <1>3, <1>4, <1>5, <1>6, <1>7, LostStep

(* net_store_event: the new row lies beyond the position, and what the     *)
(* ring gives up is no longer owed.                                        *)
LEMMA StoreEventStep == ASSUME RInv, net_store_event PROVE RInv'
<1>1. PICK t \in Times : AppendToDisk(t)
  BY DEF net_store_event
<1>2. /\ failed' = {}
      /\ UNCHANGED <<conn, sendBuf, watch, reqs, wire, awaiting, owes, last, got, gone, faults>>
  BY DEF net_store_event, session
<1>3. /\ IInv'
      /\ DOMAIN rows \ DOMAIN rows' # {} =>
           /\ autoSeq' = autoSeq + 1
           /\ DOMAIN rows' = (autoSeq' - Capacity + 1) .. autoSeq'
  <2>1. IInv' /\ KeepsNewest
    BY <1>1, AppendToDiskStep DEF RInv
  <2> QED BY <1>2, <2>1 DEF KeepsNewest
<1>4. /\ max_seq(rows) \in 0 .. autoSeq /\ autoSeq \in Nat /\ DOMAIN rows \subseteq 1 .. autoSeq
      /\ sent \in Nat /\ sent <= max_seq(rows) /\ mode = "disk"
      /\ \A q \in DOMAIN rows : q <= max_seq(rows)
      /\ DOMAIN rows # {} => max_seq(rows) = autoSeq
      /\ DOMAIN rows = {} => max_seq(rows) = 0
  BY TableFacts DEF RInv, Shape, max_seq
<1>5. /\ max_seq(rows') \in 0 .. autoSeq' /\ autoSeq' \in Nat
      /\ DOMAIN rows' # {} => max_seq(rows') = autoSeq'
  <2>1. /\ max_seq(rows)' \in 0 .. autoSeq' /\ autoSeq' \in Nat
        /\ DOMAIN rows' # {} => max_seq(rows)' = autoSeq'
    <3>1. PICK lo \in 1 .. autoSeq' + 1 : DOMAIN rows' = lo .. autoSeq'
      BY <1>3 DEF IInv, Window
    <3>2. autoSeq' \in Nat
      BY <1>3, MaxSeqAssumption DEF IInv, TypeOK
    <3>3. max_seq(rows') \in 0 .. autoSeq' /\ (lo <= autoSeq' => max_seq(rows') = autoSeq')
      BY <3>1, <3>2, IntervalQueries
    <3> QED BY <3>1, <3>2, <3>3
  <2> QED BY <2>1
<1>6. /\ mode' = mode /\ sent' = sent
      /\ autoSeq' \in {autoSeq, autoSeq + 1}
      /\ DOMAIN rows' \subseteq DOMAIN rows \cup {autoSeq + 1}
  <2> DEFINE grown == Inserted(rows, autoSeq + 1, t)
  <2>1. PICK insertOk \in BOOLEAN, repairOk \in BOOLEAN, miss \in Misses :
           /\ mode' = mode
           /\ sent' = Repaired(rows, sent, miss, repairOk)
           /\ autoSeq' = IF insertOk THEN autoSeq + 1 ELSE autoSeq
           /\ rows' \in {rows, Trimmed(grown, miss), grown}
           /\ miss \subseteq failed'
    BY <1>1 DEF AppendToDisk, MayFail, Failures
  <2>2. sent' = sent
    <3>1. miss = {}
      BY <1>2, <2>1
    <3> QED BY <1>4, <2>1, <3>1 DEF Repaired, scalar_with
  <2>3. DOMAIN grown = DOMAIN rows \cup {autoSeq + 1}
    BY DEF Inserted
  <2>4. DOMAIN Trimmed(grown, miss) \subseteq DOMAIN grown
    <3> HIDE DEF grown
    <3> QED BY DEF Trimmed, Restrict
  <2> HIDE DEF grown
  <2> QED BY <2>1, <2>2, <2>3, <2>4
<1>7. sent' <= max_seq(rows')
  <2>1. CASE DOMAIN rows = {}
    BY <1>4, <1>5, <1>6, <2>1
  <2>2. CASE DOMAIN rows # {}
    <3>1. DOMAIN rows' # {}
      <4>1. CASE DOMAIN rows \ DOMAIN rows' = {}
        BY <2>2, <4>1
      <4>2. CASE DOMAIN rows \ DOMAIN rows' # {}
        <5>1. autoSeq' \in (autoSeq' - Capacity + 1) .. autoSeq'
          BY <1>5, CapacityAssumption, TopOfInterval
        <5> QED BY <1>3, <4>2, <5>1
      <4> QED BY <4>1, <4>2
    <3> QED BY <1>4, <1>5, <1>6, <3>1
  <2> QED BY <2>1, <2>2
<1>8. autoSeq <= autoSeq'
  BY <1>4, <1>6
<1>9. Shape'
  <2>1. Responses(autoSeq) \subseteq Responses(autoSeq')
    <3>1. 1 .. autoSeq \subseteq 1 .. autoSeq'
      BY <1>4, <1>5, <1>8
    <3> QED BY <3>1 DEF Responses
  <2>2. sendBuf \in Seq(Responses(autoSeq')) /\ wire \in Seq(Responses(autoSeq'))
    BY <2>1, SeqMonotonic DEF RInv, Shape
  <2>3. 1 .. autoSeq \subseteq 1 .. autoSeq' /\ 0 .. autoSeq \subseteq 0 .. autoSeq'
    BY <1>4, <1>5, <1>8
  <2> QED BY <1>2, <1>6, <1>7, <2>2, <2>3 DEF RInv, Shape
<1>10. UnderWay' = UnderWay /\ ReRequested' = ReRequested /\ Hanging' = Hanging
  BY <1>2 DEF UnderWay, Batched, ReRequested, Hanging, Unanswered
<1>11. Missing' \subseteq Missing
  <2> SUFFICES ASSUME NEW q \in Missing' PROVE q \in DOMAIN rows
    BY <1>2, <1>6 DEF Missing
  <2>1. q \in DOMAIN rows' /\ q <= sent
    BY <1>6 DEF Missing
  <2>2. ~(autoSeq + 1 <= sent)
    BY <1>4
  <2> QED BY <1>6, <2>1, <2>2
<1>12. FreshIsLast' /\ AnswersReachBack' /\ LatePolls' /\ PlainPolls' /\ Forgets'
  BY <1>2, <1>10, <1>11 DEF RInv, FreshIsLast, AnswersReachBack, LatePolls, PlainPolls, Forgets
<1>13. Calm'
  BY <1>2, <1>6 DEF RInv, Calm
<1> QED BY <1>3, <1>9, <1>12, <1>13 DEF RInv

-----------------------------------------------------------------------------
(* The steps of DM.                                                        *)

(* When DM waits for nothing, nothing it waits for is under way.           *)
LEMMA Idle ==
  ASSUME RInv, awaiting = "none"
  PROVE  /\ \A i \in 1 .. Len(reqs) : ~reqs[i].fresh
         /\ \A i \in 1 .. Len(sendBuf) : ~sendBuf[i].fresh
         /\ \A i \in 1 .. Len(wire) : ~wire[i].fresh
         /\ UnderWay = {}
         /\ ReRequested => owes
<1>1. /\ \A i \in 1 .. Len(reqs) : ~reqs[i].fresh
      /\ \A i \in 1 .. Len(sendBuf) : ~sendBuf[i].fresh
      /\ \A i \in 1 .. Len(wire) : ~wire[i].fresh
  BY DEF RInv, FreshIsLast
<1> QED BY <1>1, BatchedIn DEF UnderWay, RInv, Shape, ReRequested

(* dm_poll and dm_command: one request, behind all others.                 *)
LEMMA SendStep == ASSUME RInv, dm_poll \/ dm_command PROVE RInv'
<1>1. PICK req \in Requests :
        /\ Send(req) /\ req.fresh
        /\ \/ /\ req.kind = "poll" /\ req.re = owes /\ awaiting' = "poll" /\ owes' = FALSE
              /\ faults' = faults
           \/ req.kind # "poll" /\ awaiting' = "command" /\ owes' = owes /\ faults' = faults + 1
  <2>1. CASE dm_poll
    <3>1. PICK n \in Batches : Send([kind |-> "poll", re |-> owes, n |-> n, fresh |-> TRUE])
      BY <2>1 DEF dm_poll
    <3>2. [kind |-> "poll", re |-> owes, n |-> n, fresh |-> TRUE] \in Requests
      BY DEF RInv, Shape, Requests, Polls
    <3>3. awaiting' = "poll" /\ owes' = FALSE /\ faults' = faults
      BY <2>1 DEF dm_poll, NoFault
    <3> QED BY <3>1, <3>2, <3>3
  <2>2. CASE dm_command
    <3>1. CASE Send([kind |-> "reset", fresh |-> TRUE])
      <4>1. [kind |-> "reset", fresh |-> TRUE] \in Requests
        BY DEF Requests, Resets
      <4> QED BY <2>2, <3>1, <4>1 DEF dm_command, Fault
    <3>2. CASE \E t \in Times : Send([kind |-> "index", t |-> t, fresh |-> TRUE])
      <4>1. PICK t \in Times : Send([kind |-> "index", t |-> t, fresh |-> TRUE])
        BY <3>2
      <4>2. [kind |-> "index", t |-> t, fresh |-> TRUE] \in Requests
        BY DEF Requests, Indexes
      <4> QED BY <2>2, <4>1, <4>2 DEF dm_command, Fault
    <3> QED BY <2>2, <3>1, <3>2 DEF dm_command
  <2> QED BY <2>1, <2>2
<1>2. /\ conn /\ awaiting = "none" /\ reqs' = Append(reqs, req)
      /\ UNCHANGED <<rows, autoSeq, sent, mode, nextTrim, ring, failed, trimFails>>
      /\ UNCHANGED <<conn, sendBuf, watch, wire, last, got, gone>>
  BY <1>1 DEF Send, vars, ring
<1>3. /\ max_seq(rows) \in 0 .. autoSeq /\ mode = "disk" /\ faults \in Nat
      /\ sent \in Nat /\ sent <= max_seq(rows) /\ IInv
      /\ reqs \in Seq(Requests) /\ owes \in BOOLEAN
  BY TableFacts DEF RInv, Shape
<1>4. /\ reqs' \in Seq(Requests) /\ reqs' # <<>>
      /\ Len(reqs') = Len(reqs) + 1 /\ Len(reqs) \in Nat
      /\ \A i \in 1 .. Len(reqs) : reqs'[i] = reqs[i]
      /\ reqs'[Len(reqs) + 1] = req
  BY <1>2, <1>3, AppendProperties, LenProperties
<1>5. \A i \in 1 .. Len(reqs') : i \in 1 .. Len(reqs) \/ i = Len(reqs) + 1
  BY <1>4
<1>6. IInv'
  <2>1. nextTrim' \in {nextTrim, Capacity + TrimSlack} /\ sent' \in 0 .. max_seq(rows)
    BY <1>2, <1>3
  <2> QED BY <1>2, <1>3, <2>1, StoreKept
<1>7. /\ \A i \in 1 .. Len(reqs) : ~reqs[i].fresh
      /\ \A i \in 1 .. Len(sendBuf) : ~sendBuf[i].fresh
      /\ \A i \in 1 .. Len(wire) : ~wire[i].fresh
      /\ UnderWay = {}
      /\ ReRequested => owes
  BY <1>2, Idle
<1>8. UnderWay' = {} /\ Missing' = Missing
  BY <1>2, <1>7 DEF UnderWay, Batched, Missing
<1>9. Shape'
  <2>1. awaiting' \in {"none", "poll", "command"} /\ owes' \in BOOLEAN /\ faults' \in Nat
    <3>1. owes' = FALSE \/ owes' = owes
      BY <1>1
    <3>2. faults' = faults \/ faults' = faults + 1
      BY <1>1
    <3>3. awaiting' \in {"poll", "command"}
      BY <1>1
    <3>4. faults' \in Nat
      BY <1>3, <3>2
    <3>5. owes' \in BOOLEAN
      BY <1>3, <3>1
    <3> QED BY <3>3, <3>4, <3>5
  <2>2. max_seq(rows') = max_seq(rows)
    BY <1>2
  <2> QED BY <1>2, <1>4, <2>1, <2>2 DEF RInv, Shape
<1>10. FreshIsLast'
  <2>1. ASSUME NEW i \in 1 .. Len(reqs'), reqs'[i].fresh
        PROVE  i = Len(reqs') /\ awaiting' = (IF reqs'[i].kind = "poll" THEN "poll" ELSE "command")
    <3>1. i = Len(reqs) + 1
      BY <1>4, <1>5, <1>7, <2>1
    <3> QED BY <1>1, <1>4, <3>1
  <2>2. reqs'[Len(reqs')].fresh
    BY <1>1, <1>4
  <2> QED BY <1>2, <1>7, <2>1, <2>2 DEF FreshIsLast
<1>11. ReRequested => ReRequested'
  <2>1. ASSUME owes, req.kind = "poll" PROVE ReRequested'
    <3>1. Len(reqs) + 1 \in 1 .. Len(reqs') /\ reqs'[Len(reqs) + 1] = req
      BY <1>4
    <3>2. req.re /\ req.fresh
      BY <1>1, <2>1
    <3> QED BY <2>1, <3>1, <3>2 DEF ReRequested
  <2>2. ASSUME owes, req.kind # "poll" PROVE ReRequested'
    BY <1>1, <2>2 DEF ReRequested
  <2> QED BY <1>7, <2>1, <2>2
<1>12. LatePolls'
  <2>1. awaiting' = "poll" => ~owes'
    BY <1>1
  <2>2. ASSUME NEW i \in 1 .. Len(reqs'), reqs'[i].kind = "poll", ~reqs'[i].fresh
        PROVE  ReRequested'
    <3>1. i \in 1 .. Len(reqs) /\ reqs[i].kind = "poll" /\ ~reqs[i].fresh
      BY <1>1, <1>4, <1>5, <2>2
    <3> QED BY <1>11, <3>1 DEF RInv, LatePolls
  <2> QED BY <2>1, <2>2 DEF LatePolls
<1>13. PlainPolls'
  <2> SUFFICES ASSUME NEW i \in 1 .. Len(reqs'), reqs'[i].kind = "poll", ~reqs'[i].re
               PROVE  Missing = {} /\ \A j \in 1 .. i - 1 : reqs'[j].kind # "poll"
    BY <1>8 DEF PlainPolls
  <2>1. CASE i \in 1 .. Len(reqs)
    <3>1. \A j \in 1 .. i - 1 : j \in 1 .. Len(reqs)
      BY <1>4, <2>1
    <3> QED BY <1>4, <2>1, <3>1 DEF RInv, PlainPolls
  <2>2. CASE i = Len(reqs) + 1
    <3>1. ~owes
      BY <1>1, <1>3, <1>4, <2>2
    <3>2. ~ReRequested
      BY <1>7, <3>1
    <3>3. Missing = {}
      BY <1>2, <3>2, MissingIsOwed
    <3>4. \A j \in 1 .. i - 1 : j \in 1 .. Len(reqs) /\ reqs'[j] = reqs[j]
      BY <1>4, <2>2
    <3> QED BY <1>7, <3>2, <3>3, <3>4 DEF RInv, LatePolls
  <2> QED BY <1>5, <2>1, <2>2
<1>14. AnswersReachBack'
  BY <1>8 DEF AnswersReachBack
<1>15. Forgets'
  BY <1>2, <1>7, <1>8, <1>11 DEF RInv, Forgets, Hanging
<1>16. Calm'
  <2> SUFFICES ASSUME faults' = 0 PROVE Calm'
    BY DEF Calm
  <2>1. /\ req.kind = "poll" /\ req.re = owes /\ req.fresh /\ ~owes' /\ faults = 0
    BY <1>1, <1>3
  <2>2. \A i \in 1 .. Len(reqs') : reqs'[i].kind = "poll" /\ ~reqs'[i].re /\ reqs'[i].fresh
    BY <1>4, <1>5, <2>1 DEF RInv, Calm
  <2> QED BY <1>2, <1>4, <2>1, <2>2 DEF RInv, Calm
<1> QED BY <1>6, <1>9, <1>10, <1>12, <1>13, <1>14, <1>15, <1>16 DEF RInv

(* DM reads an answer; only the one it waits for counts.                   *)
LEMMA ReadStep == ASSUME RInv, dm_read PROVE RInv'
<1> DEFINE resp == Head(wire)
<1>1. /\ wire # <<>> /\ wire' = Tail(wire)
      /\ awaiting' = (IF resp.fresh THEN "none" ELSE awaiting)
      /\ got' = (IF resp.fresh THEN got \cup resp.batch ELSE got)
      /\ UNCHANGED <<rows, autoSeq, sent, mode, nextTrim, ring, failed, trimFails>>
      /\ UNCHANGED <<conn, sendBuf, watch, reqs, owes, last, gone, faults>>
  BY DEF dm_read, vars, ring
<1>2. /\ max_seq(rows) \in 0 .. autoSeq /\ mode = "disk" /\ faults \in Nat
      /\ sent \in Nat /\ sent <= max_seq(rows) /\ IInv
      /\ wire \in Seq(Responses(autoSeq)) /\ got \subseteq 1 .. autoSeq
      /\ awaiting \in {"none", "poll", "command"}
  BY TableFacts DEF RInv, Shape
<1>3. /\ resp = wire[1] /\ resp \in Responses(autoSeq)
      /\ wire' \in Seq(Responses(autoSeq)) /\ Len(wire) \in Nat \ {0}
      /\ Len(wire') = Len(wire) - 1
      /\ \A i \in 1 .. Len(wire') : wire'[i] = wire[i + 1] /\ i + 1 \in 1 .. Len(wire)
      /\ 1 \in 1 .. Len(wire)
  <2>1. /\ resp \in Responses(autoSeq) /\ wire' \in Seq(Responses(autoSeq))
        /\ Len(wire') = Len(wire) - 1
        /\ \A i \in 1 .. Len(wire') : wire'[i] = wire[i + 1]
    BY <1>1, <1>2, HeadTailProperties
  <2>2. Len(wire) \in Nat \ {0}
    BY <1>1, <1>2, EmptySeq
  <2>3. resp = wire[1]
    BY <1>1, <1>2, <2>2
  <2>4. \A i \in 1 .. Len(wire') : i + 1 \in 1 .. Len(wire)
    BY <2>1, <2>2
  <2> QED BY <2>1, <2>2, <2>3, <2>4
<1> HIDE DEF resp
<1>4. resp.batch \subseteq 1 .. autoSeq /\ resp.fresh \in BOOLEAN
  BY <1>3 DEF Responses
<1>5. resp.fresh => wire' = <<>> /\ sendBuf = <<>> /\ reqs = <<>>
  <2> SUFFICES ASSUME resp.fresh PROVE wire' = <<>> /\ sendBuf = <<>> /\ reqs = <<>>
    OBVIOUS
  <2>1. 1 = Len(wire) /\ sendBuf = <<>> /\ reqs = <<>>
    BY <1>3 DEF RInv, FreshIsLast
  <2>2. Len(wire') = 0
    <3>1. Len(wire') = Len(wire) - 1
      BY <1>3
    <3> QED BY <2>1, <3>1
  <2> QED BY <1>3, <2>1, <2>2, EmptySeq
<1>6. IInv'
  <2>1. nextTrim' \in {nextTrim, Capacity + TrimSlack} /\ sent' \in 0 .. max_seq(rows)
    BY <1>1, <1>2
  <2> QED BY <1>1, <1>2, <2>1, StoreKept
<1>7. Shape'
  <2>1. got' \subseteq 1 .. autoSeq /\ awaiting' \in {"none", "poll", "command"}
    BY <1>1, <1>2, <1>4
  <2>2. max_seq(rows') = max_seq(rows)
    BY <1>1
  <2>3. conn
    BY <1>1 DEF RInv, Shape
  <2> QED BY <1>1, <1>3, <2>1, <2>2, <2>3 DEF RInv, Shape
<1>8. ReRequested' = ReRequested
  BY <1>1 DEF ReRequested
<1>9. FreshIsLast'
  <2>1. CASE resp.fresh
    <3>1. Len(reqs') = 0 /\ Len(sendBuf') = 0 /\ Len(wire') = 0
      BY <1>1, <1>5, <2>1, EmptySeq
    <3> QED BY <3>1 DEF FreshIsLast
  <2>2. CASE ~resp.fresh
    <3>1. awaiting' = awaiting
      BY <1>1, <2>2
    <3>2. ASSUME NEW i \in 1 .. Len(wire'), wire'[i].fresh
          PROVE  i = Len(wire') /\ sendBuf = <<>> /\ reqs = <<>> /\ awaiting # "none"
      <4>1. i + 1 = Len(wire) /\ sendBuf = <<>> /\ reqs = <<>> /\ awaiting # "none"
        BY <1>3, <3>2 DEF RInv, FreshIsLast
      <4>2. i \in Nat /\ Len(wire) \in Nat /\ Len(wire') = Len(wire) - 1
        BY <1>3
      <4> QED BY <4>1, <4>2
    <3> QED BY <1>1, <3>1, <3>2 DEF RInv, FreshIsLast
  <2> QED BY <2>1, <2>2
<1>10. UnderWay' \subseteq UnderWay /\ \A q \in UnderWay \ UnderWay' : q \in got'
  <2>1. /\ \A q : q \in Batched(wire) <=> \E i \in 1 .. Len(wire) : wire[i].fresh /\ q \in wire[i].batch
        /\ \A q : q \in Batched(wire)' <=> \E i \in 1 .. Len(wire') : wire'[i].fresh /\ q \in wire'[i].batch
        /\ Batched(sendBuf)' = Batched(sendBuf)
    <3>1. DOMAIN wire = 1 .. Len(wire) /\ DOMAIN wire' = 1 .. Len(wire')
      BY <1>2, <1>3, LenProperties
    <3> QED BY <1>1, <3>1 DEF Batched
  <2>2. ASSUME NEW q \in Batched(wire)' PROVE q \in Batched(wire)
    <3>1. PICK i \in 1 .. Len(wire') : wire'[i].fresh /\ q \in wire'[i].batch
      BY <2>1, <2>2
    <3> QED BY <1>3, <2>1, <3>1
  <2>3. ASSUME NEW q \in Batched(wire), q \notin Batched(wire)' PROVE q \in got'
    <3>1. PICK i \in 1 .. Len(wire) : wire[i].fresh /\ q \in wire[i].batch
      BY <2>1, <2>3
    <3>2. i = 1
      <4>1. ASSUME i # 1 PROVE FALSE
        <5>1. i - 1 \in 1 .. Len(wire') /\ i - 1 + 1 = i
          BY <1>3, <4>1
        <5>2. wire'[i - 1] = wire[i]
          BY <1>3, <5>1
        <5> QED BY <2>1, <2>3, <3>1, <5>1, <5>2
      <4> QED BY <4>1
    <3> QED BY <1>1, <1>3, <3>1, <3>2
  <2> QED BY <2>1, <2>2, <2>3 DEF UnderWay
<1>11. AnswersReachBack'
  <2>1. CASE resp.fresh
    <3>1. DOMAIN <<>> = {}
      OBVIOUS
    <3>2. UnderWay' = {}
      BY <1>1, <1>5, <2>1, <3>1 DEF UnderWay, Batched
    <3> QED BY <3>2 DEF AnswersReachBack
  <2>2. CASE ~resp.fresh
    BY <1>1, <1>10, <2>2 DEF RInv, AnswersReachBack
  <2> QED BY <2>1, <2>2
<1>12. Missing' = Missing \ got'
  BY <1>1 DEF Missing
<1>13. LatePolls' /\ PlainPolls'
  BY <1>1, <1>8, <1>12 DEF RInv, LatePolls, PlainPolls
<1>14. Forgets'
  <2>1. Hanging => Hanging'
    <3>1. DOMAIN wire = 1 .. Len(wire) /\ DOMAIN wire' = 1 .. Len(wire')
      BY <1>2, <1>3, LenProperties
    <3> SUFFICES ASSUME Hanging PROVE awaiting' = awaiting /\ \A i \in DOMAIN wire' : ~wire'[i].fresh
      BY <1>1 DEF Hanging, Unanswered
    <3>2. ~resp.fresh
      BY <1>3, <3>1 DEF Hanging, Unanswered
    <3> QED BY <1>1, <1>3, <3>1, <3>2 DEF Hanging, Unanswered
  <2> SUFFICES ASSUME NEW q \in Missing'
               PROVE  q \in UnderWay' \/ (0 < last /\ last <= q /\ (ReRequested \/ Hanging))
    BY <1>1, <1>8, <2>1 DEF Forgets
  <2>2. q \in Missing /\ q \notin got'
    BY <1>12
  <2> QED BY <1>10, <2>2 DEF RInv, Forgets
<1>15. Calm'
  <2> SUFFICES ASSUME faults = 0 PROVE Calm'
    BY <1>1 DEF Calm
  <2>1. resp.fresh /\ resp.batch \subseteq 1 .. sent
    BY <1>3 DEF RInv, Calm
  <2>2. Len(reqs') = 0 /\ Len(wire') = 0 /\ awaiting' = "none" /\ sendBuf' = <<>>
    BY <1>1, <1>5, <2>1, EmptySeq
  <2>3. got' \subseteq 1 .. sent' /\ ~owes'
    BY <1>1, <2>1 DEF RInv, Calm
  <2>4. 1 .. Len(reqs') = {} /\ 1 .. Len(wire') = {}
    BY <2>2
  <2> QED BY <2>2, <2>3, <2>4 DEF Calm
<1> QED BY <1>6, <1>7, <1>9, <1>11, <1>13, <1>14, <1>15 DEF RInv

(* DM tires of waiting: all that is under way is stale now, and DM asks    *)
(* again if it waited for a batch.                                         *)
LEMMA TimeoutStep == ASSUME RInv, dm_timeout PROVE RInv'
<1>1. /\ conn /\ awaiting # "none" /\ awaiting' = "none"
      /\ owes' = (owes \/ awaiting = "poll")
      /\ reqs' = Stale(reqs) /\ wire' = Stale(wire) /\ sendBuf' = Stale(sendBuf)
      /\ UNCHANGED <<rows, autoSeq, sent, mode, nextTrim, ring, failed, trimFails>>
      /\ UNCHANGED <<conn, watch, last, got, gone>>
  BY DEF dm_timeout, vars, ring
<1>2. /\ max_seq(rows) \in 0 .. autoSeq /\ mode = "disk" /\ faults \in Nat
      /\ sent \in Nat /\ sent <= max_seq(rows) /\ IInv
      /\ reqs \in Seq(Requests) /\ owes \in BOOLEAN
      /\ wire \in Seq(Responses(autoSeq)) /\ sendBuf \in Seq(Responses(autoSeq))
  BY TableFacts DEF RInv, Shape
<1>3. /\ sendBuf' \in Seq(Responses(autoSeq)) /\ Len(sendBuf') = Len(sendBuf)
      /\ \A i \in 1 .. Len(sendBuf') : ~sendBuf'[i].fresh
      /\ wire' \in Seq(Responses(autoSeq)) /\ Len(wire') = Len(wire)
      /\ \A i \in 1 .. Len(wire') : ~wire'[i].fresh
  BY <1>1, <1>2, StaleAnswers
<1>4. /\ reqs' \in Seq(Requests) /\ Len(reqs') = Len(reqs) /\ Len(reqs) \in Nat
      /\ \A i \in 1 .. Len(reqs') : ~reqs'[i].fresh /\ reqs'[i].kind = reqs[i].kind
      /\ \A i \in 1 .. Len(reqs') : reqs[i].kind = "poll" => reqs'[i].re = reqs[i].re
  BY <1>1, <1>2, StaleRequests, LenProperties
<1>5. faults' \in Nat /\ (faults' = 0 => faults = 0 /\ Unanswered)
  <2>1. faults' = faults + 1 \/ (faults' = faults /\ Unanswered)
    BY DEF dm_timeout, Fault, NoFault
  <2> QED BY <1>2, <2>1
<1>6. IInv'
  <2>1. nextTrim' \in {nextTrim, Capacity + TrimSlack} /\ sent' \in 0 .. max_seq(rows)
    BY <1>1, <1>2
  <2> QED BY <1>1, <1>2, <2>1, StoreKept
<1>7. Shape'
  <2>1. owes' \in BOOLEAN /\ max_seq(rows') = max_seq(rows)
    BY <1>1
  <2>2. Len(sendBuf') <= SendCap
    BY <1>3 DEF RInv, Shape
  <2> QED BY <1>1, <1>3, <1>4, <1>5, <2>1, <2>2 DEF RInv, Shape
<1>8. FreshIsLast'
  BY <1>1, <1>3, <1>4 DEF FreshIsLast
<1>9. UnderWay' = {}
  <2>1. DOMAIN sendBuf' = 1 .. Len(sendBuf') /\ DOMAIN wire' = 1 .. Len(wire')
    BY <1>3, LenProperties
  <2> QED BY <1>3, <2>1 DEF UnderWay, Batched
<1>10. Missing' = Missing /\ AnswersReachBack'
  BY <1>1, <1>9 DEF Missing, AnswersReachBack
<1>11. Forgets'
  <2> SUFFICES ASSUME NEW q \in Missing PROVE 0 < last' /\ last' <= q /\ ReRequested'
    BY <1>10 DEF Forgets
  <2>1. owes'
    BY <1>1, MissingIsOwed
  <2> QED BY <1>1, <2>1, MissingIsOwed DEF ReRequested
<1>12. LatePolls'
  <2> SUFFICES ASSUME NEW i \in 1 .. Len(reqs'), reqs'[i].kind = "poll" PROVE owes'
    BY <1>1 DEF LatePolls, ReRequested
  <2>1. i \in 1 .. Len(reqs) /\ reqs[i].kind = "poll"
    BY <1>4
  <2>2. reqs[i].fresh => awaiting = "poll"
    BY <2>1 DEF RInv, FreshIsLast
  <2>3. ~reqs[i].fresh => ReRequested
    BY <2>1 DEF RInv, LatePolls
  <2>4. ReRequested => owes \/ awaiting = "poll"
    BY DEF RInv, FreshIsLast, ReRequested
  <2>5. owes \/ awaiting = "poll"
    BY <2>2, <2>3, <2>4
  <2> QED BY <1>1, <2>5
<1>13. PlainPolls'
  <2> SUFFICES ASSUME NEW i \in 1 .. Len(reqs'), reqs'[i].kind = "poll", ~reqs'[i].re
               PROVE  Missing = {} /\ \A j \in 1 .. i - 1 : reqs'[j].kind # "poll"
    BY <1>10 DEF PlainPolls
  <2>1. i \in 1 .. Len(reqs) /\ reqs[i].kind = "poll" /\ ~reqs[i].re
    BY <1>4
  <2>2. Missing = {} /\ \A j \in 1 .. i - 1 : reqs[j].kind # "poll"
    BY <2>1 DEF RInv, PlainPolls
  <2>3. \A j \in 1 .. i - 1 : j \in 1 .. Len(reqs')
    BY <1>4
  <2> QED BY <1>4, <2>2, <2>3
<1>14. faults' # 0
  <2> SUFFICES ASSUME faults = 0, Unanswered PROVE FALSE
    BY <1>5
  <2>1. reqs # <<>> \/ wire # <<>>
    BY <1>1 DEF RInv, Calm
  <2>2. /\ DOMAIN reqs = 1 .. Len(reqs) /\ (reqs # <<>> => Len(reqs) \in Nat \ {0})
        /\ DOMAIN wire = 1 .. Len(wire) /\ (wire # <<>> => Len(wire) \in Nat \ {0})
    BY <1>2, LenProperties, EmptySeq
  <2>3. (reqs # <<>> => 1 \in DOMAIN reqs /\ reqs[1].fresh)
        /\ (wire # <<>> => 1 \in DOMAIN wire /\ wire[1].fresh)
    BY <2>2 DEF RInv, Calm
  <2> QED BY <2>1, <2>3 DEF Unanswered
<1>15. Calm'
  BY <1>14 DEF Calm
<1> QED BY <1>6, <1>7, <1>8, <1>10, <1>11, <1>12, <1>13, <1>15 DEF RInv

-----------------------------------------------------------------------------
(* The invariant holds, and what follows from it.                          *)

(* Nothing is stored, asked or sent at the start.                          *)
LEMMA InitRInv == ReportInit => RInv
<1> SUFFICES ASSUME ReportInit PROVE RInv
  OBVIOUS
<1> USE CapacityAssumption, SlackAssumption, MemCapAssumption, MaxSeqAssumption
<1>1. /\ rows = [q \in {} |-> 0] /\ autoSeq = 0 /\ sent = 0 /\ trimFails = 0 /\ mode = "disk"
      /\ nextTrim = Capacity + TrimSlack /\ failed = {}
      /\ mem = [i \in Slots |-> 0] /\ memHead = 0 /\ memCount = 0 /\ memNext = 1
      /\ conn = FALSE /\ last = 0 /\ sendBuf = <<>> /\ watch = FALSE
      /\ reqs = <<>> /\ wire = <<>> /\ awaiting = "none" /\ owes = FALSE
      /\ got = {} /\ gone = {} /\ faults = 0
  BY DEF ReportInit, Empty
<1>2. TypeOK
  <2>1. DOMAIN rows = {} /\ rows \in [{} -> Times]
    BY <1>1
  <2> QED BY <1>1, <2>1 DEF TypeOK, Slots
<1>3. Window
  <2>1. 1 \in 1 .. autoSeq + 1 /\ DOMAIN rows = 1 .. autoSeq
    BY <1>1
  <2>2. Allowed(trimFails) \in Nat /\ Allowed(trimFails) >= Capacity + TrimSlack
    BY <1>1, AllowedGrows
  <2>3. autoSeq - 1 + 1 < Allowed(trimFails) /\ nextTrim - 1 < Allowed(trimFails)
    BY <1>1, <2>2
  <2> QED BY <2>1, <2>3 DEF Window
<1>4. Len(<<>>) = 0 /\ \A S : <<>> \in Seq(S)
  BY EmptySeq
<1>5. max_seq(rows) = 0
  <2>1. DOMAIN rows = {}
    BY <1>1
  <2> QED BY <2>1 DEF max_seq
<1>6. Shape
  <2>1. Len(sendBuf) <= SendCap /\ sent <= max_seq(rows)
    BY <1>1, <1>4, <1>5, SendCapAssumption
  <2>2. /\ faults \in Nat /\ last \in 0 .. autoSeq
        /\ got \subseteq 1 .. autoSeq /\ gone \subseteq 1 .. autoSeq
    BY <1>1
  <2>3. reqs \in Seq(Requests) /\ sendBuf \in Seq(Responses(autoSeq)) /\ wire \in Seq(Responses(autoSeq))
    BY <1>1, <1>4
  <2> QED BY <1>1, <2>1, <2>2, <2>3 DEF Shape
<1>7. UnderWay = {} /\ Missing = {}
  <2>1. DOMAIN <<>> = {} /\ DOMAIN rows = {}
    BY <1>1
  <2> QED BY <1>1, <2>1 DEF UnderWay, Batched, Missing
<1>8. FreshIsLast /\ LatePolls /\ PlainPolls /\ Calm
  BY <1>1, <1>4 DEF FreshIsLast, LatePolls, PlainPolls, Calm
<1>9. AnswersReachBack /\ Forgets
  BY <1>7 DEF AnswersReachBack, Forgets
<1> QED BY <1>2, <1>3, <1>6, <1>8, <1>9 DEF RInv, IInv

(* Every step keeps the invariant.                                         *)
LEMMA NextRInv == RInv /\ [ReportNext]_allVars => RInv'
<1> SUFFICES ASSUME RInv, [ReportNext]_allVars PROVE RInv'
  OBVIOUS
<1>1. CASE ReportNext
  BY <1>1, HistoryRequestStep, HistorySqlErrorStep, CommandsStep, ConnectionStep, RestartStep,
     StoreEventStep, SendStep, ReadStep, TimeoutStep DEF ReportNext
<1>2. CASE UNCHANGED allVars
  <2>1. IInv'
    BY <1>2 DEF RInv, IInv, TypeOK, Window, allVars, vars
  <2>2. UNCHANGED <<UnderWay, Missing, ReRequested, Hanging>>
    BY <1>2 DEF UnderWay, Batched, Missing, ReRequested, Hanging, Unanswered, allVars, vars, session
  <2>3. Shape' /\ FreshIsLast' /\ LatePolls' /\ Calm'
    BY <1>2, <2>2 DEF RInv, Shape, FreshIsLast, LatePolls, Calm, allVars, vars, session
  <2>4. AnswersReachBack' /\ PlainPolls' /\ Forgets'
    BY <1>2, <2>2 DEF RInv, AnswersReachBack, PlainPolls, Forgets, allVars, vars, session
  <2> QED BY <2>1, <2>3, <2>4 DEF RInv
<1> QED BY <1>1, <1>2

(* The types of the session and the two queues, for every ring and buffer. *)
THEOREM ReportTypeCorrect == ReportSpec => []ReportTypeOK
BY InitRInv, NextRInv, RInvImplies, PTL DEF ReportSpec

(* The promise of ReRequestEvent, for answers that are refused for want of *)
(* room, lost with the connection or too late: an event that counts as     *)
(* sent has been read, is in the answer DM waits for, or lies in the batch *)
(* acud can step back to while DM asks for it again or is about to.  What  *)
(* is in gone is excepted: acud has given it up by a reset, an index       *)
(* change, a restart, a reload, or an answer after a refused step back.    *)
THEOREM NothingIsForgotten == ReportSpec => []NothingForgotten
BY InitRInv, NextRInv, RInvImplies, PTL DEF ReportSpec

(* As long as nothing goes wrong DM reads no event twice.                  *)
THEOREM OnceUndisturbed == ReportSpec => OnceWhenUndisturbed
<1>1. RInv /\ [ReportNext]_allVars =>
        [faults' = 0 /\ wire # <<>> /\ wire' = Tail(wire) => Head(wire).batch \cap got = {}]_allVars
  <2> SUFFICES ASSUME RInv, ReportNext, faults' = 0, wire # <<>>
               PROVE  Head(wire).batch \cap got = {}
    OBVIOUS
  <2>1. faults = 0
    <3>1. faults \in Nat
      BY DEF RInv, Shape
    <3>2. faults' = faults \/ faults' = faults + 1
      BY DEF ReportNext, handle_history_request, history_request_sql_error,
             handle_event_store_request, event_store_request_sql_error, net_on_listen_ready,
             net_drop_client, reload_port,
             net_store_event, Restart, dm_poll, dm_command, dm_read, dm_timeout,
             Refused, Accepted, Flush, Fault, NoFault
    <3> QED BY <3>1, <3>2
  <2>2. wire \in Seq(Responses(autoSeq)) /\ Len(wire) \in Nat \ {0}
    BY EmptySeq DEF RInv, Shape
  <2>3. Head(wire) = wire[1] /\ 1 \in 1 .. Len(wire)
    BY <2>2
  <2> QED BY <2>1, <2>3 DEF RInv, Calm
<1> QED BY <1>1, InitRInv, NextRInv, PTL DEF ReportSpec, OnceWhenUndisturbed

=============================================================================
