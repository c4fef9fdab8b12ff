------------------------- MODULE UserDownloadProofs -------------------------
(***************************************************************************)
(* Proofs about the user store and the download of the list of users: the  *)
(* receiver and the store agree, what has been loaded is what was sent,    *)
(* what was reported is in use, and the store implements Roster; for every *)
(* length of records, chunks and batches, every set of lists, and any      *)
(* number of refused statements, crashes and power cuts.                   *)
(***************************************************************************)
EXTENDS UserDownload, FiniteSetTheorems, SequenceTheorems, WellFoundedInduction, TLAPS

-----------------------------------------------------------------------------
(* Numbers.                                                                *)

(* A set that has 0, and with each number below n the next, has all up to  *)
(* n: every induction below is over such a set.                            *)
LEMMA UpTo ==
  ASSUME NEW n \in Nat, NEW S, 0 \in S,
         \A k \in 0 .. n - 1 : k \in S => k + 1 \in S
  PROVE  0 .. n \subseteq S
<1> DEFINE Less == {p \in Nat \X Nat : p[1] < p[2]}
           T == {k \in 0 .. n : k \notin S}
<1>1. SUFFICES ASSUME T # {} PROVE FALSE
  OBVIOUS
<1>2. IsWellFoundedOn(Less, Nat)
  <2>1. Less = OpToRel(<, Nat)
    BY DEF OpToRel
  <2> QED BY <2>1, NatLessThanWellFounded
<1>3. T \subseteq Nat
  OBVIOUS
<1>4. PICK x \in T : \A y \in T : ~(<<y, x>> \in Less)
  <2> HIDE DEF Less, T
  <2> QED BY <1>1, <1>2, <1>3, WFMin
<1>5. x # 0 /\ x \in 0 .. n /\ x \notin S
  OBVIOUS
<1>6. x - 1 \in 0 .. n - 1 /\ <<x - 1, x>> \in Less
  BY <1>5
<1>7. x - 1 \in S
  BY <1>4, <1>6
<1>8. (x - 1) + 1 \in S
  BY <1>6, <1>7
<1> QED BY <1>5, <1>8

(* Quotient and remainder of a sum.                                        *)
LEMMA DivMod ==
  ASSUME NEW d \in Nat \ {0}, NEW q \in Nat, NEW r \in 0 .. d - 1
  PROVE  (q * d + r) \div d = q /\ (q * d + r) % d = r
<1> DEFINE a == q * d + r
<1>1. a \in Nat
  OBVIOUS
<1>2. PICK p \in Nat, t \in 0 .. d - 1 : p = a \div d /\ t = a % d /\ a = d * p + t
  BY <1>1
<1>3. ~(p > q)
  <2> SUFFICES ASSUME p > q PROVE FALSE
    OBVIOUS
  <2>1. d * p >= d * (q + 1)
    OBVIOUS
  <2> QED BY <1>2, <2>1
<1>4. ~(p < q)
  <2> SUFFICES ASSUME p < q PROVE FALSE
    OBVIOUS
  <2>1. d * q >= d * (p + 1)
    OBVIOUS
  <2> QED BY <1>2, <2>1
<1>5. p = q
  BY <1>3, <1>4
<1> QED BY <1>2, <1>5

-----------------------------------------------------------------------------
(* The store.                                                              *)

Store ==
  [db : Tables, file : Tables, safe : Tables, txn : BOOLEAN, in_txn : BOOLEAN,
   loading : BOOLEAN, load_rows : Nat, prepared : BOOLEAN]

(* A transaction is open only where acud began one, for a list it loads;   *)
(* outside of one everything is committed.                                 *)
Sound(s) ==
  /\ s \in Store
  /\ s.txn => s.in_txn
  /\ s.in_txn => s.loading
  /\ ~s.txn => s.db = s.file

(* The lists seen and kept stay, or one of them is now both.               *)
Settles(s, t) ==
  /\ t.safe = s.safe
  /\ \/ View(t.db) = View(s.db) /\ View(t.file) = View(s.file)
     \/ View(t.db) = View(s.db) /\ View(t.file) = View(s.db)
     \/ View(t.db) = View(s.file) /\ View(t.file) = View(s.file)

LEMMA SettlesTransitive ==
  ASSUME NEW s, NEW t, NEW v, Settles(s, t), Settles(t, v)
  PROVE  Settles(s, v)
BY DEF Settles

(* An emptied load leaves the list in use as it is.                        *)
LEMMA EmptyLoadView ==
  ASSUME NEW t \in Tables
  PROVE  /\ EmptyLoad(t) \in Tables /\ View(EmptyLoad(t)) = View(t)
         /\ EmptyLoad(t).users_load = {} /\ EmptyLoad(t).cards_load = NoCards
BY DEF EmptyLoad, Tables, View, NoCards

(* What a statement leaves.                                                *)
LEMMA ExecutedSound ==
  ASSUME NEW s, Sound(s), NEW t \in Tables, NEW f \in Outcomes,
         NEW e, e = Executed(s, t, f)
  PROVE  /\ Sound(e) /\ e.safe = s.safe /\ (e.prepared <=> s.prepared)
         /\ (e.loading <=> s.loading) /\ (e.in_txn <=> s.in_txn)
         /\ f = "ok" => /\ e.db = t /\ (e.txn <=> s.txn)
                        /\ s.txn => e.file = s.file
                        /\ ~s.txn => e.file = t
         /\ f = "refused" => e = s
         /\ f = "rolledback" => e.db = s.file /\ e.file = s.file /\ ~e.txn
<1>1. CASE f = "ok"
  BY <1>1 DEF Executed, Sound, Store
<1>2. CASE f = "refused"
  BY <1>2 DEF Executed, Sound, Store
<1>3. CASE f = "rolledback"
  BY <1>3 DEF Executed, RolledBack, Sound, Store
<1> QED BY <1>1, <1>2, <1>3 DEF Outcomes

(* A batch that is begun or ended while a list is loaded.                  *)
LEMMA BeginSound ==
  ASSUME NEW s, Sound(s), s.loading, NEW f, NEW b, b = txn_begin(s, f)
  PROVE  /\ Sound(b.store)
         /\ b.store.db = s.db /\ b.store.file = s.file /\ b.store.safe = s.safe
         /\ b.store.loading /\ (b.store.prepared <=> s.prepared)
         /\ f # "begin" => b.ok
         /\ b.ok => b.store.in_txn /\ ((s.in_txn => s.txn) => b.store.txn)
         /\ ~b.ok => ~b.store.in_txn
BY DEF txn_begin, Done, Failed, Sound, Store

LEMMA CommitSound ==
  ASSUME NEW s, Sound(s), NEW f, NEW c, c = txn_commit(s, f)
  PROVE  /\ Sound(c.store) /\ ~c.store.in_txn /\ ~c.store.txn
         /\ c.store.safe = s.safe /\ (c.store.loading <=> s.loading)
         /\ c.store.prepared <=> s.prepared
         /\ c.ok => c.store.db = s.db /\ c.store.file = s.db /\ (s.in_txn => s.txn)
         /\ ~c.ok => c.store.db = s.file /\ c.store.file = s.file
         /\ f # "commit" /\ (s.in_txn => s.txn) => c.ok
<1>1. CASE ~s.in_txn
  BY <1>1 DEF txn_commit, Done, Sound, Store
<1>2. CASE s.in_txn /\ s.txn /\ f # "commit"
  BY <1>2 DEF txn_commit, Done, Sound, Store
<1>3. CASE s.in_txn /\ (~s.txn \/ f = "commit")
  BY <1>3 DEF txn_commit, Failed, RolledBack, Sound, Store
<1> QED BY <1>1, <1>2, <1>3

(* When a batch is full it is committed and the next one begun.            *)
LEMMA RotateSound ==
  ASSUME NEW s, Sound(s), s.loading, NEW f, NEW r, r = rotate_txn_if_needed(s, f)
  PROVE  /\ Sound(r.store) /\ r.store.safe = s.safe
         /\ r.store.loading /\ (r.store.prepared <=> s.prepared)
         /\ \/ r.store.db = s.db /\ r.store.file \in {s.file, s.db}
            \/ r.store.db = s.file /\ r.store.file = s.file
         /\ r.ok => r.store.db = s.db /\ ((r.store.in_txn => r.store.txn) => (s.in_txn => s.txn))
         /\ f = "ok" /\ s.txn => r.ok /\ r.store.txn
<1>1. PICK c : c = txn_commit(s, f)
  OBVIOUS
<1>3. PICK b : b = txn_begin(c.store, f)
  OBVIOUS
<1>5. r = IF s.load_rows < CommitEvery THEN Done(s) ELSE IF c.ok THEN b ELSE c
  BY <1>1, <1>3 DEF rotate_txn_if_needed
<1>6. /\ Sound(c.store) /\ ~c.store.in_txn /\ ~c.store.txn
      /\ c.store.safe = s.safe /\ (c.store.loading <=> s.loading)
      /\ c.store.prepared <=> s.prepared
      /\ c.ok => c.store.db = s.db /\ c.store.file = s.db /\ (s.in_txn => s.txn)
      /\ ~c.ok => c.store.db = s.file /\ c.store.file = s.file
      /\ f = "ok" /\ (s.in_txn => s.txn) => c.ok
  BY <1>1, CommitSound
<1>7. /\ Sound(b.store)
      /\ b.store.db = c.store.db /\ b.store.file = c.store.file /\ b.store.safe = c.store.safe
      /\ b.store.loading /\ (b.store.prepared <=> c.store.prepared)
      /\ f = "ok" => b.ok
      /\ b.ok => b.store.in_txn /\ b.store.txn
  BY <1>3, <1>6, BeginSound
<1>8. CASE s.load_rows < CommitEvery
  BY <1>5, <1>8 DEF Done, Sound
<1>9. CASE ~(s.load_rows < CommitEvery) /\ ~c.ok
  BY <1>5, <1>6, <1>9
<1>10. CASE ~(s.load_rows < CommitEvery) /\ c.ok
  BY <1>5, <1>6, <1>7, <1>10
<1> QED BY <1>8, <1>9, <1>10

(* A row of the list goes into the load.  The load is then as wanted, as   *)
(* it was, or as it was committed.                                         *)
LEMMA LoadRowSound ==
  ASSUME NEW s, Sound(s), NEW t \in Tables, View(t) = View(s.db), NEW f,
         NEW r, r = LoadRow(s, t, f)
  PROVE  /\ Sound(r.store)
         /\ (r.store.loading <=> s.loading) /\ (r.store.prepared <=> s.prepared)
         /\ Settles(s, r.store)
         /\ r.store.db \in {t, s.db, s.file} /\ r.store.file \in {t, s.file}
         /\ r.ok => /\ s.loading /\ r.store.db = t
                    /\ (r.store.in_txn => r.store.txn) => (s.in_txn => s.txn)
         /\ f = "ok" /\ s.loading /\ s.txn => r.ok /\ r.store.txn
<1>1. CASE ~s.loading
  <2>1. r = Failed(s)
    BY <1>1 DEF LoadRow
  <2> QED BY <1>1, <2>1 DEF Failed, Settles
<1>2. CASE s.loading /\ f \in Outcomes \ {"ok"}
  <2>1. PICK e : e = Executed(s, t, f)
    OBVIOUS
  <2>2. r.store = e /\ ~r.ok
    BY <1>2, <2>1 DEF LoadRow, Failed
  <2>3. f \in Outcomes /\ f \in {"refused", "rolledback"}
    BY <1>2 DEF Outcomes
  <2>4. /\ Sound(e) /\ e.safe = s.safe /\ (e.prepared <=> s.prepared)
        /\ e.loading <=> s.loading
        /\ f = "refused" => e = s
        /\ f = "rolledback" => e.db = s.file /\ e.file = s.file
    BY <2>1, <2>3, ExecutedSound
  <2>5. Settles(s, e) /\ e.db \in {t, s.db, s.file} /\ e.file \in {t, s.file}
    BY <2>3, <2>4 DEF Settles
  <2> QED BY <2>2, <2>3, <2>4, <2>5
<1>3. CASE s.loading /\ f \notin Outcomes \ {"ok"}
  <2>1. PICK e : e = Executed(s, t, "ok")
    OBVIOUS
  <2>2. PICK n : n = [e EXCEPT !.load_rows = @ + 1]
    OBVIOUS
  <2>3. r = rotate_txn_if_needed(n, f)
    BY <1>3, <2>1, <2>2 DEF LoadRow
  <2>4. "ok" \in Outcomes
    BY DEF Outcomes
  <2>5. /\ Sound(e) /\ e.safe = s.safe /\ (e.prepared <=> s.prepared)
        /\ (e.loading <=> s.loading) /\ (e.in_txn <=> s.in_txn)
        /\ e.db = t /\ (e.txn <=> s.txn)
        /\ s.txn => e.file = s.file
        /\ ~s.txn => e.file = t
    BY <2>1, <2>4, ExecutedSound
  <2>6. /\ Sound(n) /\ n.safe = s.safe /\ (n.prepared <=> s.prepared)
        /\ (n.loading <=> s.loading) /\ (n.in_txn <=> s.in_txn)
        /\ n.db = t /\ (n.txn <=> s.txn)
        /\ s.txn => n.file = s.file
        /\ ~s.txn => n.file = t
    BY <2>2, <2>5 DEF Sound, Store
  <2>7. /\ Sound(r.store) /\ r.store.safe = n.safe
        /\ r.store.loading /\ (r.store.prepared <=> n.prepared)
        /\ \/ r.store.db = n.db /\ r.store.file \in {n.file, n.db}
           \/ r.store.db = n.file /\ r.store.file = n.file
        /\ r.ok => r.store.db = n.db /\ ((r.store.in_txn => r.store.txn) => (n.in_txn => n.txn))
        /\ f = "ok" /\ n.txn => r.ok /\ r.store.txn
    BY <1>3, <2>3, <2>6, RotateSound
  <2>8. ~s.txn => s.db = s.file
    BY DEF Sound
  <2> QED BY <1>3, <2>6, <2>7, <2>8 DEF Settles
<1> QED BY <1>1, <1>2, <1>3

(* The lists users and cards that a load has so far.                       *)
Load(t) == [users |-> t.users_load, cards |-> t.cards_load]

(* A load that is given up leaves what had been kept.                      *)
LEMMA AbortSound ==
  ASSUME NEW s, Sound(s), NEW t, t = users_load_abort(s)
  PROVE  /\ Sound(t) /\ ~t.loading /\ ~t.in_txn /\ ~t.txn
         /\ (t.prepared <=> s.prepared) /\ t.safe = s.safe
         /\ t.db = EmptyLoad(s.file) /\ t.file = t.db
         /\ View(t.db) = View(s.file) /\ View(t.file) = View(s.file)
         /\ Settles(s, t)
<1>1. /\ EmptyLoad(s.file) \in Tables
      /\ View(EmptyLoad(s.file)) = View(s.file)
  BY EmptyLoadView DEF Sound, Store
<1>2. /\ Sound(t) /\ ~t.loading /\ ~t.in_txn /\ ~t.txn
      /\ (t.prepared <=> s.prepared) /\ t.safe = s.safe
      /\ t.db = EmptyLoad(s.file) /\ t.file = t.db
  <2>1. CASE s.in_txn
    BY <1>1, <2>1 DEF users_load_abort, RolledBack, Sound, Store
  <2>2. CASE ~s.in_txn
    BY <1>1, <2>2 DEF users_load_abort, Sound, Store
  <2> QED BY <2>1, <2>2
<1> QED BY <1>1, <1>2 DEF Settles

(* A load that is begun is empty, and its first batch is open.             *)
LEMMA LoadBeginSound ==
  ASSUME NEW s, Sound(s), NEW f, NEW r, r = users_load_begin(s, f)
  PROVE  /\ Sound(r.store) /\ (r.store.loading <=> r.ok)
         /\ (r.store.prepared <=> s.prepared) /\ Settles(s, r.store)
         /\ r.ok => /\ r.store.txn /\ r.store.in_txn
                    /\ Load(r.store.db) = [users |-> {}, cards |-> NoCards]
                    /\ Load(r.store.file) = [users |-> {}, cards |-> NoCards]
         /\ f = "ok" => r.ok
<1>1. PICK a : a = IF s.loading THEN users_load_abort(s) ELSE s
  OBVIOUS
<1>2. /\ Sound(a) /\ ~a.loading /\ ~a.in_txn /\ ~a.txn
      /\ (a.prepared <=> s.prepared) /\ Settles(s, a)
  <2>1. CASE s.loading
    BY <1>1, <2>1, AbortSound
  <2>2. CASE ~s.loading
    BY <1>1, <2>2 DEF Sound, Settles
  <2> QED BY <2>1, <2>2
<1>3. PICK t : t = [a EXCEPT !.db = EmptyLoad(@), !.file = EmptyLoad(@), !.loading = TRUE]
  OBVIOUS
<1>4. /\ EmptyLoad(a.db) \in Tables /\ View(EmptyLoad(a.db)) = View(a.db)
      /\ EmptyLoad(a.db).users_load = {} /\ EmptyLoad(a.db).cards_load = NoCards
      /\ a.file = a.db
  BY <1>2, EmptyLoadView DEF Sound, Store
<1>5. /\ Sound(t) /\ t.loading /\ ~t.in_txn /\ ~t.txn /\ (t.prepared <=> s.prepared)
      /\ t.db = EmptyLoad(a.db) /\ t.file = EmptyLoad(a.db) /\ t.safe = a.safe
  BY <1>2, <1>3, <1>4 DEF Sound, Store
<1>6. Settles(a, t)
  BY <1>4, <1>5 DEF Settles
<1>7. PICK b : b = txn_begin(t, f)
  OBVIOUS
<1>8. /\ Sound(b.store)
      /\ b.store.db = t.db /\ b.store.file = t.file /\ b.store.safe = t.safe
      /\ b.store.loading /\ (b.store.prepared <=> t.prepared)
      /\ f # "begin" => b.ok
      /\ b.ok => b.store.in_txn /\ b.store.txn
  BY <1>5, <1>7, BeginSound
<1>9. r = IF f = "create" THEN Failed(a)
          ELSE IF b.ok THEN b ELSE Failed([t EXCEPT !.loading = FALSE])
  BY <1>1, <1>3, <1>7 DEF users_load_begin
<1>10. CASE f = "create"
  <2>1. r = Failed(a)
    BY <1>9, <1>10
  <2> QED BY <1>2, <1>10, <2>1 DEF Failed
<1>11. CASE f # "create" /\ b.ok
  <2>1. r = b
    BY <1>9, <1>11
  <2>2. Settles(s, b.store)
    <3>1. Settles(t, b.store)
      BY <1>8 DEF Settles
    <3> QED BY <1>2, <1>6, <3>1, SettlesTransitive
  <2> QED BY <1>4, <1>5, <1>8, <1>11, <2>1, <2>2 DEF Load
<1>12. CASE f # "create" /\ ~b.ok
  <2>1. PICK n : n = [t EXCEPT !.loading = FALSE]
    OBVIOUS
  <2>2. r = Failed(n)
    BY <1>9, <1>12, <2>1
  <2>3. /\ Sound(n) /\ ~n.loading /\ (n.prepared <=> s.prepared)
        /\ n.db = t.db /\ n.file = t.file /\ n.safe = t.safe
    BY <1>5, <2>1 DEF Sound, Store
  <2>4. Settles(t, n)
    BY <2>3 DEF Settles
  <2>5. Settles(s, n)
    BY <1>2, <1>6, <2>4, SettlesTransitive
  <2>6. f # "ok"
    BY <1>8, <1>12
  <2> QED BY <2>2, <2>3, <2>5, <2>6 DEF Failed
<1> QED BY <1>10, <1>11, <1>12

(* The end of a load puts it in place, or leaves the list in use.          *)
LEMMA LoadCommitSound ==
  ASSUME NEW s, Sound(s), s.loading, NEW f, NEW r, r = users_load_commit(s, f)
  PROVE  /\ Sound(r.store) /\ ~r.store.loading /\ r.store.safe = s.safe
         /\ \/ Settles(s, r.store)
            \/ View(r.store.db) = Load(s.db) /\ View(r.store.file) = Load(s.db)
         /\ r.ok => /\ s.in_txn => s.txn
                    /\ View(r.store.db) = Load(s.db) /\ View(r.store.file) = Load(s.db)
         /\ f = "ok" /\ s.txn =>
              View(r.store.db) = Load(s.db) /\ View(r.store.file) = Load(s.db)
<1>1. PICK c : c = txn_commit(s, f)
  OBVIOUS
<1>2. /\ Sound(c.store) /\ ~c.store.in_txn /\ ~c.store.txn
      /\ c.store.safe = s.safe /\ c.store.loading
      /\ c.ok => c.store.db = s.db /\ c.store.file = s.db /\ (s.in_txn => s.txn)
      /\ ~c.ok => c.store.db = s.file /\ c.store.file = s.file
      /\ f = "ok" /\ s.txn => c.ok
  BY <1>1, CommitSound
<1>3. PICK n : n = [c.store EXCEPT !.loading = FALSE, !.prepared = f # "prepare"]
  OBVIOUS
<1>4. PICK t : t = [EmptyLoad(n.db) EXCEPT !.users = n.db.users_load, !.cards = n.db.cards_load]
  OBVIOUS
<1>5. r = IF ~c.ok THEN Failed(users_load_abort(c.store))
          ELSE IF f = "swap" THEN Failed(n)
          ELSE [store |-> [n EXCEPT !.db = t, !.file = t], ok |-> f # "prepare"]
  BY <1>1, <1>3, <1>4 DEF users_load_commit
<1>6. CASE ~c.ok
  <2>1. PICK a : a = users_load_abort(c.store)
    OBVIOUS
  <2>2. r = Failed(a)
    BY <1>5, <1>6, <2>1
  <2>3. Sound(a) /\ ~a.loading /\ Settles(c.store, a) /\ a.safe = c.store.safe
    BY <1>2, <2>1, AbortSound
  <2>4. Settles(s, c.store)
    BY <1>2, <1>6 DEF Settles
  <2>5. Settles(s, a)
    BY <2>3, <2>4, SettlesTransitive
  <2>6. ~(f = "ok" /\ s.txn)
    BY <1>2, <1>6
  <2>7. r.store = a /\ ~r.ok
    BY <2>2 DEF Failed
  <2> QED BY <1>2, <2>3, <2>5, <2>6, <2>7
<1>7. /\ Sound(n) /\ ~n.loading /\ n.safe = s.safe /\ ~n.txn
      /\ n.db = c.store.db /\ n.file = c.store.file
  BY <1>2, <1>3 DEF Sound, Store
<1>8. CASE c.ok /\ f = "swap"
  <2>1. Settles(s, n)
    BY <1>2, <1>7, <1>8 DEF Settles
  <2>2. r.store = n /\ ~r.ok
    BY <1>5, <1>8 DEF Failed
  <2> QED BY <1>7, <1>8, <2>1, <2>2
<1>9. CASE c.ok /\ f # "swap"
  <2>1. t \in Tables /\ View(t) = Load(s.db)
    BY <1>2, <1>4, <1>7, <1>9 DEF Sound, Store, Tables, View, Load, EmptyLoad, NoCards
  <2>2. r.store = [n EXCEPT !.db = t, !.file = t]
    BY <1>5, <1>9
  <2>3. /\ Sound(r.store) /\ ~r.store.loading /\ r.store.safe = s.safe
        /\ r.store.db = t /\ r.store.file = t
    BY <1>7, <2>1, <2>2 DEF Sound, Store
  <2> QED BY <1>2, <1>9, <2>1, <2>3
<1> QED BY <1>6, <1>8, <1>9

-----------------------------------------------------------------------------
(* Changes of one user.                                                    *)

(* What a change of user u may do, whatever of it is refused: a load that  *)
(* is under way keeps what it has, or loses its batch.                     *)
Touched(s, t, u) ==
  /\ Sound(t) /\ t.safe = s.safe /\ (t.loading <=> s.loading)
  /\ \E r \in {View(s.db), View(s.file)} : R!Same(View(t.db), r, u)
  /\ View(t.file) \in {View(s.file), View(t.db)}
  /\ Load(t.file) = Load(s.file)
  /\ t.in_txn <=> s.in_txn
  /\ \/ Load(t.db) = Load(s.db) /\ (t.txn <=> s.txn)
     \/ Load(t.db) = Load(s.file) /\ ~t.txn

(* The tables with one user or one card changed.                           *)
LEMMA OneChanged ==
  ASSUME NEW t \in Tables, NEW u \in Users, NEW c \in Cards, NEW x,
         \/ x = [t EXCEPT !.users = @ \cup {u}]
         \/ x = [t EXCEPT !.users = @ \ {u}]
         \/ x = [t EXCEPT !.cards[c] = u]
         \/ x = [t EXCEPT !.cards = [d \in Cards |-> IF @[d] = u THEN NoUser ELSE @[d]]]
  PROVE  x \in Tables /\ Load(x) = Load(t) /\ R!Same(View(x), View(t), u)
BY DEF Tables, Load, View, R!Same

LEMMA SameUser ==
  ASSUME NEW r, NEW u
  PROVE  R!Same(r, r, u)
BY DEF R!Same

(* One statement about user u.                                             *)
LEMMA StatementTouches ==
  ASSUME NEW s, Sound(s), NEW u, NEW t \in Tables, NEW f \in Outcomes,
         Load(t) = Load(s.db), R!Same(View(t), View(s.db), u),
         NEW e, e = Executed(s, t, f)
  PROVE  /\ Touched(s, e, u) /\ (e.prepared <=> s.prepared)
         /\ f = "ok" => e.db = t /\ (e.txn <=> s.txn)
<1>1. /\ Sound(e) /\ e.safe = s.safe /\ (e.prepared <=> s.prepared)
      /\ (e.loading <=> s.loading) /\ (e.in_txn <=> s.in_txn)
      /\ f = "ok" => /\ e.db = t /\ (e.txn <=> s.txn)
                     /\ s.txn => e.file = s.file
                     /\ ~s.txn => e.file = t
      /\ f = "refused" => e = s
      /\ f = "rolledback" => e.db = s.file /\ e.file = s.file /\ ~e.txn
  BY ExecutedSound
<1>2. ~s.txn => s.db = s.file
  BY DEF Sound
<1>3. CASE f = "ok"
  <2>1. View(e.file) \in {View(s.file), View(e.db)} /\ Load(e.file) = Load(s.file)
    BY <1>1, <1>2, <1>3
  <2> QED BY <1>1, <1>3, <2>1 DEF Touched
<1>4. CASE f = "refused"
  <2>1. R!Same(View(s.db), View(s.db), u)
    BY SameUser
  <2> QED BY <1>1, <1>4, <2>1 DEF Touched
<1>5. CASE f = "rolledback"
  <2>1. R!Same(View(s.file), View(s.file), u)
    BY SameUser
  <2> QED BY <1>1, <1>5, <2>1 DEF Touched
<1> QED BY <1>1, <1>3, <1>4, <1>5 DEF Outcomes

(* Two statements about user u.                                            *)
LEMMA StatementsTouch ==
  ASSUME NEW s, Sound(s), NEW u, NEW t \in Tables, NEW f \in Outcomes,
         Load(t) = Load(s.db), R!Same(View(t), View(s.db), u),
         NEW e, e = Executed(s, t, f),
         NEW v \in Tables, NEW g \in Outcomes,
         Load(v) = Load(e.db), R!Same(View(v), View(e.db), u),
         f = "ok" => R!Same(View(v), View(s.db), u),
         NEW x, x = Executed(e, v, g)
  PROVE  Touched(s, x, u)
<1>1. /\ Sound(e) /\ e.safe = s.safe
      /\ (e.loading <=> s.loading) /\ (e.in_txn <=> s.in_txn)
      /\ f = "ok" => /\ e.db = t /\ (e.txn <=> s.txn)
                     /\ s.txn => e.file = s.file
                     /\ ~s.txn => e.file = t
      /\ f = "refused" => e = s
      /\ f = "rolledback" => e.db = s.file /\ e.file = s.file /\ ~e.txn
  BY ExecutedSound
<1>2. /\ Sound(x) /\ x.safe = e.safe
      /\ (x.loading <=> e.loading) /\ (x.in_txn <=> e.in_txn)
      /\ g = "ok" => /\ x.db = v /\ (x.txn <=> e.txn)
                     /\ e.txn => x.file = e.file
                     /\ ~e.txn => x.file = v
      /\ g = "refused" => x = e
      /\ g = "rolledback" => x.db = e.file /\ x.file = e.file /\ ~x.txn
  BY <1>1, ExecutedSound
<1>3. ~s.txn => s.db = s.file
  BY DEF Sound
<1>4. CASE f = "ok"
  <2>1. CASE g = "ok"
    <3>1. R!Same(View(x.db), View(s.db), u)
      BY <1>2, <1>4, <2>1
    <3>2. View(x.file) \in {View(s.file), View(x.db)} /\ Load(x.file) = Load(s.file)
      BY <1>1, <1>2, <1>3, <1>4, <2>1
    <3>3. Load(x.db) = Load(s.db) /\ (x.txn <=> s.txn)
      BY <1>1, <1>2, <1>4, <2>1
    <3> QED BY <1>1, <1>2, <3>1, <3>2, <3>3 DEF Touched
  <2>2. CASE g = "refused"
    BY <1>2, <2>2, StatementTouches
  <2>3. CASE g = "rolledback"
    <3>1. CASE s.txn
      <4>1. R!Same(View(s.file), View(s.file), u)
        BY SameUser
      <4> QED BY <1>1, <1>2, <1>4, <2>3, <3>1, <4>1 DEF Touched
    <3>2. CASE ~s.txn
      BY <1>1, <1>2, <1>3, <1>4, <2>3, <3>2 DEF Touched
    <3> QED BY <3>1, <3>2
  <2> QED BY <2>1, <2>2, <2>3 DEF Outcomes
<1>5. CASE f = "refused"
  <2>1. e = s
    BY <1>1, <1>5
  <2> QED BY <2>1, StatementTouches
<1>6. CASE f = "rolledback"
  <2>1. Touched(e, x, u)
    BY <1>1, StatementTouches
  <2>2. /\ e.db = s.file /\ e.file = s.file /\ e.safe = s.safe /\ ~e.txn
        /\ (e.loading <=> s.loading) /\ (e.in_txn <=> s.in_txn)
    BY <1>1, <1>6
  <2>3. ~x.txn
    BY <1>2, <2>2 DEF Outcomes
  <2> QED BY <2>1, <2>2, <2>3 DEF Touched
<1> QED BY <1>4, <1>5, <1>6 DEF Outcomes

LEMMA UntouchedTouches ==
  ASSUME NEW s, Sound(s), NEW u
  PROVE  Touched(s, s, u)
BY SameUser DEF Touched

(* A user is added or given a card.                                        *)
LEMMA SetTouches ==
  ASSUME NEW s, Sound(s), NEW u \in Users, NEW c \in Cards \cup {NoCard},
         NEW f \in Outcomes, NEW g \in Outcomes,
         NEW r, r = usercmd_set(s, u, c, f, g)
  PROVE  /\ Touched(s, r.store, u)
         /\ f = "ok" /\ g = "ok" => (r.store.txn <=> s.txn) /\ Load(r.store.db) = Load(s.db)
<1> DEFINE t == [s.db EXCEPT !.users = @ \cup {u}]
<1>1. s.db \in Tables
  BY DEF Sound, Store
<1>2. PICK k \in Cards : c \in Cards => k = c
  BY SeedAssumption
<1>3. t \in Tables /\ Load(t) = Load(s.db) /\ R!Same(View(t), View(s.db), u)
  BY <1>1, <1>2, OneChanged
<1>4. CASE ~s.prepared
  <2>1. r.store = s
    BY <1>4 DEF usercmd_set, users_put, Failed
  <2> QED BY <2>1, UntouchedTouches
<1>5. CASE s.prepared
  <2>1. PICK e : e = Executed(s, t, f)
    OBVIOUS
  <2>2. PICK p : p = users_put(s, u, f)
    OBVIOUS
  <2>2a. p.store = e /\ (p.ok <=> f = "ok")
    BY <1>5, <2>1, <2>2 DEF users_put
  <2>2b. r = IF p.ok /\ c # NoCard THEN users_put_card(p.store, c, u, g) ELSE p
    BY <2>2 DEF usercmd_set
  <2> HIDE DEF t
  <2>3. /\ Touched(s, e, u) /\ (e.prepared <=> s.prepared)
        /\ f = "ok" => e.db = t /\ (e.txn <=> s.txn)
    BY <1>3, <2>1, StatementTouches
  <2>4. CASE f # "ok" \/ c = NoCard
    <3>1. r.store = e
      BY <2>2a, <2>2b, <2>4
    <3> QED BY <1>3, <2>3, <3>1
  <2>5. CASE f = "ok" /\ c # NoCard
    <3> DEFINE v == [e.db EXCEPT !.cards[c] = u]
    <3>1. PICK x : x = Executed(e, v, g)
      OBVIOUS
    <3>2. r.store = x
      <4>1. r = users_put_card(e, c, u, g)
        BY <2>2a, <2>2b, <2>5
      <4> QED BY <1>5, <2>3, <3>1, <4>1 DEF users_put_card
    <3>3. c \in Cards /\ e.db = t
      BY <2>3, <2>5
    <3>4. v \in Tables /\ Load(v) = Load(e.db) /\ R!Same(View(v), View(e.db), u)
      BY <1>3, <3>3, OneChanged
    <3>5. R!Same(View(v), View(s.db), u)
      BY <1>1, <3>3 DEF t, R!Same, View, Tables
    <3> HIDE DEF v
    <3>6. Touched(s, x, u)
      BY <1>3, <2>1, <3>1, <3>4, <3>5, StatementsTouch
    <3>7. Sound(e)
      BY <2>3 DEF Touched
    <3>8. g = "ok" => x.db = v /\ (x.txn <=> e.txn)
      BY <3>1, <3>4, <3>7, ExecutedSound
    <3> QED BY <1>3, <2>3, <2>5, <3>2, <3>3, <3>4, <3>6, <3>8
  <2> QED BY <2>4, <2>5
<1> QED BY <1>4, <1>5

(* A user is deleted with his cards.                                       *)
LEMMA DeleteTouches ==
  ASSUME NEW s, Sound(s), NEW u \in Users, NEW f \in Outcomes, NEW g \in Outcomes,
         NEW r, r = usercmd_delete(s, u, f, g)
  PROVE  /\ Touched(s, r.store, u)
         /\ f = "ok" /\ g = "ok" => (r.store.txn <=> s.txn) /\ Load(r.store.db) = Load(s.db)
<1> DEFINE t == [s.db EXCEPT !.cards = [c \in Cards |-> IF @[c] = u THEN NoUser ELSE @[c]]]
<1>1. s.db \in Tables /\ s.file \in Tables /\ SeedCard \in Cards
  BY SeedAssumption DEF Sound, Store
<1>2. t \in Tables /\ Load(t) = Load(s.db) /\ R!Same(View(t), View(s.db), u)
  BY <1>1, OneChanged
<1>3. PICK e : e = Executed(s, t, f)
  OBVIOUS
<1>4. e = CardsDeleted(s, u, f)
  BY <1>3 DEF CardsDeleted
<1> DEFINE v == [e.db EXCEPT !.users = @ \ {u}]
<1>5. PICK x : x = Executed(e, v, g)
  OBVIOUS
<1>6. r.store = IF s.prepared THEN x ELSE e
  BY <1>4, <1>5 DEF usercmd_delete, users_delete, Failed
<1>7. /\ Touched(s, e, u)
      /\ f = "ok" => e.db = t /\ (e.txn <=> s.txn)
  <2> HIDE DEF t
  <2> QED BY <1>2, <1>3, StatementTouches
<1>8. Sound(e) /\ e.db \in Tables
  BY <1>7 DEF Touched, Sound, Store
<1>9. v \in Tables /\ Load(v) = Load(e.db) /\ R!Same(View(v), View(e.db), u)
  BY <1>1, <1>8, OneChanged
<1>10. f = "ok" => R!Same(View(v), View(s.db), u)
  BY <1>1, <1>7 DEF R!Same, View, Tables
<1> HIDE DEF t, v
<1>11. Touched(s, x, u)
  BY <1>2, <1>3, <1>5, <1>9, <1>10, StatementsTouch
<1>12. g = "ok" => x.db = v /\ (x.txn <=> e.txn)
  BY <1>5, <1>8, <1>9, ExecutedSound
<1> QED BY <1>2, <1>6, <1>7, <1>9, <1>11, <1>12

(* A process that starts opens what is in the file, filled if it is empty. *)
LEMMA OpenSound ==
  ASSUME NEW file \in Tables, NEW safe \in Tables, NEW s, s = users_open(file, safe)
  PROVE  /\ Sound(s) /\ ~s.loading /\ ~s.txn /\ ~s.in_txn /\ s.prepared /\ s.safe = safe
         /\ View(s.db) = R!Seeded(View(file)) /\ View(s.file) = View(s.db)
<1>1. PICK e : e = EmptyLoad(file)
  OBVIOUS
<1>2. e \in Tables /\ View(e) = View(file)
  BY <1>1, EmptyLoadView
<1>3. PICK t : t = users_seed_dummy(e)
  OBVIOUS
<1>4. t \in Tables /\ View(t) = R!Seeded(View(e))
  <2>1. CASE e.users # {}
    BY <1>2, <1>3, <2>1 DEF users_seed_dummy, View, R!Seeded
  <2>2. CASE e.users = {}
    <3>1. t = [e EXCEPT !.users = {SeedUser}, !.cards[SeedCard] = SeedUser]
      BY <1>3, <2>2 DEF users_seed_dummy
    <3>2. t \in Tables
      BY <1>2, <3>1, SeedAssumption DEF Tables
    <3>3. t.users = {SeedUser} /\ t.cards = [e.cards EXCEPT ![SeedCard] = SeedUser]
      BY <1>2, <3>1 DEF Tables
    <3> QED BY <2>2, <3>2, <3>3 DEF View, R!Seeded
  <2> QED BY <2>1, <2>2
<1>5. s = [db |-> t, file |-> t, safe |-> safe, txn |-> FALSE, in_txn |-> FALSE,
           loading |-> FALSE, load_rows |-> 0, prepared |-> TRUE]
  BY <1>1, <1>3 DEF users_open
<1> QED BY <1>2, <1>4, <1>5 DEF Sound, Store

-----------------------------------------------------------------------------
(* Lists.                                                                  *)

Record == [user : Users, card : Cards \cup {NoCard}, good : BOOLEAN]

(* The lists a load of l can have when w records have come whole.          *)
Arrived(l, w) ==
  {R!Listed(l, p[1], p[2]) :
     p \in {q \in (SUBSET (1 .. w)) \X (SUBSET (1 .. w)) : q[2] \subseteq q[1]}}

Good(l, w) == {i \in 1 .. w : l[i].good}

LEMMA Arriving ==
  ASSUME NEW l, NEW w, NEW S \in SUBSET (1 .. w), NEW T \in SUBSET S
  PROVE  R!Listed(l, S, T) \in Arrived(l, w)
<1>1. <<S, T>> \in {q \in (SUBSET (1 .. w)) \X (SUBSET (1 .. w)) : q[2] \subseteq q[1]}
  OBVIOUS
<1> QED BY <1>1 DEF Arrived

LEMMA ArrivedParts ==
  ASSUME NEW l, NEW w, NEW v \in Arrived(l, w)
  PROVE  \E S \in SUBSET (1 .. w) : \E T \in SUBSET S : v = R!Listed(l, S, T)
BY DEF Arrived

(* What has arrived of a list has arrived when more has.                   *)
LEMMA ArrivedGrows ==
  ASSUME NEW l, NEW w \in Nat
  PROVE  Arrived(l, w) \subseteq Arrived(l, w + 1)
<1> SUFFICES ASSUME NEW v \in Arrived(l, w) PROVE v \in Arrived(l, w + 1)
  OBVIOUS
<1>1. PICK S \in SUBSET (1 .. w) : \E T \in SUBSET S : v = R!Listed(l, S, T)
  BY ArrivedParts
<1>2. PICK T \in SUBSET S : v = R!Listed(l, S, T)
  BY <1>1
<1>3. S \in SUBSET (1 .. w + 1)
  OBVIOUS
<1> QED BY <1>2, <1>3, Arriving

LEMMA ArrivedWhole ==
  ASSUME NEW l \in Seq(Record)
  PROVE  Arrived(l, Len(l)) = R!Downloads(l)
<1>1. DOMAIN l = 1 .. Len(l)
  OBVIOUS
<1> QED BY <1>1 DEF Arrived, R!Downloads

(* One more record, and what it adds to a list.                            *)
And(S, i)        == S \cup {i}
WithUser(x, u)   == [users |-> x.users \cup {u}, cards |-> x.cards]
WithCard(x, c, u) == [users |-> x.users, cards |-> [x.cards EXCEPT ![c] = u]]

LEMMA ListedUser ==
  ASSUME NEW l, NEW S, NEW T, NEW i
  PROVE  R!Listed(l, And(S, i), T) = WithUser(R!Listed(l, S, T), l[i].user)
BY DEF R!Listed, And, WithUser

Mine(l, T, c) == {i \in T : l[i].card = c}
Holder(l, m)  == IF m = {} THEN NoUser ELSE l[CHOOSE i \in m : \A j \in m : j <= i].user

LEMMA ListedHolders ==
  ASSUME NEW l, NEW S, NEW T
  PROVE  R!Listed(l, S, T) =
           [users |-> {l[i].user : i \in S}, cards |-> [c \in Cards |-> Holder(l, Mine(l, T, c))]]
BY DEF R!Listed, Holder, Mine

LEMMA LastHolds ==
  ASSUME NEW l, NEW m \in SUBSET Nat, NEW i \in m, \A j \in m : j <= i
  PROVE  Holder(l, m) = l[i].user
<1>1. PICK k : k = CHOOSE x \in m : \A y \in m : y <= x
  OBVIOUS
<1>2. k \in m /\ \A y \in m : y <= k
  BY <1>1
<1>3. k <= i /\ i <= k
  BY <1>2
<1>4. k = i
  BY <1>2, <1>3
<1>5. Holder(l, m) = IF m = {} THEN NoUser ELSE l[k].user
  BY <1>1 DEF Holder
<1> QED BY <1>4, <1>5

LEMMA ListedCard ==
  ASSUME NEW l, NEW S, NEW w \in Nat, NEW T \in SUBSET (1 .. w), l[w + 1].card \in Cards
  PROVE  R!Listed(l, S, And(T, w + 1)) =
           WithCard(R!Listed(l, S, T), l[w + 1].card, l[w + 1].user)
<1>1. PICK U : U = And(T, w + 1)
  OBVIOUS
<1> USE DEF And
<1>2. U \in SUBSET (1 .. w + 1) /\ w + 1 \in U
  BY <1>1
<1>3. ASSUME NEW c \in Cards, c # l[w + 1].card
      PROVE  Holder(l, Mine(l, U, c)) = Holder(l, Mine(l, T, c))
  <2>1. Mine(l, U, c) = Mine(l, T, c)
    BY <1>1, <1>3 DEF Mine
  <2> QED BY <2>1
<1>4. ASSUME NEW c \in Cards, c = l[w + 1].card
      PROVE  Holder(l, Mine(l, U, c)) = l[w + 1].user
  <2>1. PICK m : m = Mine(l, U, c)
    OBVIOUS
  <2>2. m \subseteq 1 .. w + 1 /\ w + 1 \in m
    BY <1>2, <1>4, <2>1 DEF Mine
  <2>3. m \in SUBSET Nat /\ \A j \in m : j <= w + 1
    BY <2>2
  <2> QED BY <2>1, <2>2, <2>3, LastHolds
<1>5. [c \in Cards |-> Holder(l, Mine(l, U, c))]
        = [[c \in Cards |-> Holder(l, Mine(l, T, c))] EXCEPT ![l[w + 1].card] = l[w + 1].user]
  BY <1>3, <1>4
<1>6. R!Listed(l, S, T) =
        [users |-> {l[i].user : i \in S}, cards |-> [c \in Cards |-> Holder(l, Mine(l, T, c))]]
  BY ListedHolders
<1>7. R!Listed(l, S, U) =
        [users |-> {l[i].user : i \in S}, cards |-> [c \in Cards |-> Holder(l, Mine(l, U, c))]]
  BY ListedHolders
<1>8. PICK X, f, g : /\ X = {l[i].user : i \in S}
                     /\ f = [c \in Cards |-> Holder(l, Mine(l, T, c))]
                     /\ g = [c \in Cards |-> Holder(l, Mine(l, U, c))]
  OBVIOUS
<1>9. g = [f EXCEPT ![l[w + 1].card] = l[w + 1].user]
  BY <1>5, <1>8
<1>10. R!Listed(l, S, T) = [users |-> X, cards |-> f] /\ R!Listed(l, S, U) = [users |-> X, cards |-> g]
  BY <1>6, <1>7, <1>8
<1> HIDE DEF And
<1> QED BY <1>1, <1>9, <1>10 DEF WithCard

LEMMA ListedNoCard ==
  ASSUME NEW l, NEW S, NEW T, NEW i, l[i].card = NoCard
  PROVE  R!Listed(l, S, And(T, i)) = R!Listed(l, S, T)
<1>1. ASSUME NEW c \in Cards PROVE Mine(l, And(T, i), c) = Mine(l, T, c)
  BY NobodyAssumption DEF Mine, And
<1>2. ASSUME NEW c \in Cards
      PROVE  Holder(l, Mine(l, And(T, i), c)) = Holder(l, Mine(l, T, c))
  BY <1>1
<1>3. [c \in Cards |-> Holder(l, Mine(l, And(T, i), c))] = [c \in Cards |-> Holder(l, Mine(l, T, c))]
  BY <1>2
<1> QED BY <1>3, ListedHolders

-----------------------------------------------------------------------------
(* Records.                                                                *)

(* The units of record i, in order.                                        *)
Whole(i) == [p \in 1 .. RecLen |-> [i |-> i, at |-> p]]

(* The tables with a user, and with a card, of the list in them.           *)
LEMMA UserLoaded ==
  ASSUME NEW t \in Tables, NEW u \in Users, NEW x, x = [t EXCEPT !.users_load = @ \cup {u}]
  PROVE  x \in Tables /\ View(x) = View(t) /\ Load(x) = WithUser(Load(t), u)
BY DEF Tables, View, Load, WithUser

LEMMA CardLoaded ==
  ASSUME NEW t \in Tables, NEW u \in Users, NEW c \in Cards, NEW x, x = [t EXCEPT !.cards_load[c] = u]
  PROVE  x \in Tables /\ View(x) = View(t) /\ Load(x) = WithCard(Load(t), c, u)
BY DEF Tables, View, Load, WithCard

(* One more record of the list, without its card and with it.              *)
LEMMA ArrivedUser ==
  ASSUME NEW l, NEW w \in Nat, NEW x \in Arrived(l, w)
  PROVE  WithUser(x, l[w + 1].user) \in Arrived(l, w + 1)
<1>1. PICK S \in SUBSET (1 .. w) : \E T \in SUBSET S : x = R!Listed(l, S, T)
  BY ArrivedParts
<1>2. PICK T \in SUBSET S : x = R!Listed(l, S, T)
  BY <1>1
<1>3. And(S, w + 1) \in SUBSET (1 .. w + 1) /\ T \in SUBSET And(S, w + 1)
  BY DEF And
<1>4. WithUser(x, l[w + 1].user) = R!Listed(l, And(S, w + 1), T)
  BY <1>2, ListedUser
<1> QED BY <1>3, <1>4, Arriving

LEMMA ArrivedBoth ==
  ASSUME NEW l, NEW w \in Nat, NEW x \in Arrived(l, w), l[w + 1].card \in Cards
  PROVE  WithCard(WithUser(x, l[w + 1].user), l[w + 1].card, l[w + 1].user) \in Arrived(l, w + 1)
<1>1. PICK S \in SUBSET (1 .. w) : \E T \in SUBSET S : x = R!Listed(l, S, T)
  BY ArrivedParts
<1>2. PICK T \in SUBSET S : x = R!Listed(l, S, T)
  BY <1>1
<1>3. And(S, w + 1) \in SUBSET (1 .. w + 1) /\ And(T, w + 1) \in SUBSET And(S, w + 1)
  BY DEF And
<1>4. T \in SUBSET (1 .. w)
  OBVIOUS
<1>5. WithUser(x, l[w + 1].user) = R!Listed(l, And(S, w + 1), T)
  BY <1>2, ListedUser
<1>6. WithCard(WithUser(x, l[w + 1].user), l[w + 1].card, l[w + 1].user)
        = R!Listed(l, And(S, w + 1), And(T, w + 1))
  BY <1>4, <1>5, ListedCard
<1> QED BY <1>3, <1>6, Arriving

(* A whole record goes into the load.                                      *)
LEMMA StoreRecord ==
  ASSUME NEW l \in Seq(Record), NEW w \in 0 .. Len(l) - 1, NEW fault,
         NEW s, Sound(s), s.loading,
         Load(s.db) \in Arrived(l, w), Load(s.file) \in Arrived(l, w),
         NEW r, r = store_record(l, s, Whole(w + 1), fault)
  PROVE  /\ Sound(r.store) /\ r.store.loading /\ Settles(s, r.store)
         /\ Load(r.store.db) \in Arrived(l, w + 1) /\ Load(r.store.file) \in Arrived(l, w + 1)
         /\ ~l[w + 1].good => ~r.ok /\ r.store = s
         /\ r.ok => /\ (r.store.in_txn => r.store.txn) => (s.in_txn => s.txn)
                    /\ \A S, T \in SUBSET (1 .. w) : Load(s.db) = R!Listed(l, S, T) =>
                         Load(r.store.db) = R!Listed(l, And(S, w + 1), And(T, w + 1))
         /\ fault = Undisturbed /\ s.txn /\ l[w + 1].good => r.ok /\ r.store.txn
<1> DEFINE rec == Whole(w + 1)
<1>0. w \in Nat /\ w + 1 \in 1 .. Len(l)
  OBVIOUS
<1>1. rec[1].i = w + 1 /\ (record_crc_ok(l, rec) <=> l[w + 1].good)
  BY StreamAssumption DEF record_crc_ok, Whole
<1>2. PICK u \in Users, c \in Cards \cup {NoCard} : u = l[w + 1].user /\ c = l[w + 1].card
  <2>1. l[w + 1] \in Record
    OBVIOUS
  <2> QED BY <2>1 DEF Record
<1>3. PICK fu, fc :
        /\ fu = IF fault.at = w + 1 /\ fault.op = "user" THEN fault.f ELSE "ok"
        /\ fc = IF fault.at = w + 1 /\ fault.op = "card" THEN fault.f ELSE "ok"
  OBVIOUS
<1>4. fault = Undisturbed => fu = "ok" /\ fc = "ok"
  BY <1>3 DEF Undisturbed
<1>5. PICK put : put = users_load_put(s, u, fu)
  OBVIOUS
<1>6. r = IF ~l[w + 1].good THEN Failed(s)
          ELSE IF ~put.ok \/ c = NoCard THEN put
          ELSE users_load_put_card(put.store, c, u, fc)
  BY <1>1, <1>2, <1>3, <1>5 DEF store_record
<1>7. Arrived(l, w) \subseteq Arrived(l, w + 1)
  BY <1>0, ArrivedGrows
<1>8. CASE ~l[w + 1].good
  <2>1. r.store = s /\ ~r.ok
    BY <1>6, <1>8 DEF Failed
  <2> QED BY <1>7, <1>8, <2>1 DEF Settles
<1>9. CASE l[w + 1].good
  <2>1. PICK t : t = [s.db EXCEPT !.users_load = @ \cup {u}]
    OBVIOUS
  <2>3. /\ t \in Tables /\ View(t) = View(s.db)
        /\ Load(t) = WithUser(Load(s.db), u)
    <3>1. s.db \in Tables
      BY DEF Sound, Store
    <3> QED BY <2>1, <3>1, UserLoaded
  <2>4. put = LoadRow(s, t, fu)
    BY <1>5, <2>1 DEF users_load_put
  <2>5. /\ Sound(put.store) /\ put.store.loading /\ Settles(s, put.store)
        /\ put.store.db \in {t, s.db, s.file} /\ put.store.file \in {t, s.file}
        /\ put.ok => /\ put.store.db = t
                     /\ (put.store.in_txn => put.store.txn) => (s.in_txn => s.txn)
        /\ fu = "ok" /\ s.txn => put.ok /\ put.store.txn
    BY <2>3, <2>4, LoadRowSound
  <2>6. ASSUME NEW S, NEW T, Load(s.db) = R!Listed(l, S, T)
        PROVE  Load(t) = R!Listed(l, And(S, w + 1), T)
    BY <1>2, <2>3, <2>6, ListedUser
  <2>7. Load(t) \in Arrived(l, w + 1)
    BY <1>0, <1>2, <2>3, ArrivedUser
  <2>8. Load(put.store.db) \in Arrived(l, w + 1) /\ Load(put.store.file) \in Arrived(l, w + 1)
    BY <1>7, <2>5, <2>7
  <2>9. CASE ~put.ok \/ c = NoCard
    <3>1. r = put
      BY <1>6, <1>9, <2>9
    <3>2. ASSUME put.ok, NEW S \in SUBSET (1 .. w), NEW T \in SUBSET (1 .. w),
                 Load(s.db) = R!Listed(l, S, T)
          PROVE  Load(put.store.db) = R!Listed(l, And(S, w + 1), And(T, w + 1))
      <4>1. Load(t) = R!Listed(l, And(S, w + 1), T)
        BY <2>6, <3>2
      <4>2. R!Listed(l, And(S, w + 1), And(T, w + 1)) = R!Listed(l, And(S, w + 1), T)
        BY <1>2, <2>9, <3>2, ListedNoCard
      <4> QED BY <2>5, <3>2, <4>1, <4>2
    <3> QED BY <1>4, <1>9, <2>5, <2>8, <3>1, <3>2
  <2>10. CASE put.ok /\ c # NoCard
    <3>1. PICK v : v = [t EXCEPT !.cards_load[c] = u]
      OBVIOUS
    <3>2. c \in Cards /\ put.store.db = t
      BY <2>5, <2>10
    <3>3. /\ v \in Tables /\ View(v) = View(put.store.db)
          /\ Load(v) = WithCard(Load(t), c, u)
      <4>1. t \in Tables /\ c \in Cards
        BY <2>3, <3>2
      <4>2. v \in Tables /\ View(v) = View(t) /\ Load(v) = WithCard(Load(t), c, u)
        BY <3>1, <4>1, CardLoaded
      <4> QED BY <3>2, <4>2
    <3>4. r = LoadRow(put.store, v, fc)
      BY <1>6, <1>9, <2>10, <3>1, <3>2 DEF users_load_put_card
    <3>5. /\ Sound(r.store) /\ r.store.loading /\ Settles(put.store, r.store)
          /\ r.store.db \in {v, put.store.db, put.store.file}
          /\ r.store.file \in {v, put.store.file}
          /\ r.ok => /\ r.store.db = v
                     /\ (r.store.in_txn => r.store.txn) => (put.store.in_txn => put.store.txn)
          /\ fc = "ok" /\ put.store.txn => r.ok /\ r.store.txn
      BY <2>5, <3>3, <3>4, LoadRowSound
    <3>6. ASSUME NEW S \in SUBSET (1 .. w), NEW T \in SUBSET (1 .. w),
                 Load(s.db) = R!Listed(l, S, T)
          PROVE  Load(v) = R!Listed(l, And(S, w + 1), And(T, w + 1))
      <4>1. Load(t) = R!Listed(l, And(S, w + 1), T)
        BY <2>6, <3>6
      <4>2. l[w + 1].card \in Cards
        BY <1>2, <3>2
      <4>3. R!Listed(l, And(S, w + 1), And(T, w + 1)) =
              WithCard(R!Listed(l, And(S, w + 1), T), l[w + 1].card, l[w + 1].user)
        BY <1>0, <3>6, <4>2, ListedCard
      <4> QED BY <1>2, <3>3, <4>1, <4>3
    <3>7. Load(v) \in Arrived(l, w + 1)
      <4>1. Load(v) = WithCard(WithUser(Load(s.db), l[w + 1].user), l[w + 1].card, l[w + 1].user)
        BY <1>2, <2>3, <3>3
      <4>2. l[w + 1].card \in Cards
        BY <1>2, <3>2
      <4> QED BY <1>0, <4>1, <4>2, ArrivedBoth
    <3>8. Settles(s, r.store)
      BY <2>5, <3>5, SettlesTransitive
    <3>9. Load(r.store.db) \in Arrived(l, w + 1) /\ Load(r.store.file) \in Arrived(l, w + 1)
      BY <2>8, <3>5, <3>7
    <3> QED BY <1>4, <1>9, <2>5, <2>10, <3>5, <3>6, <3>8, <3>9
  <2> QED BY <2>9, <2>10
<1> QED BY <1>8, <1>9

-----------------------------------------------------------------------------
(* The stream.                                                             *)

UserBin ==
  [active : BOOLEAN, total_size : Nat, received : Nat, rec : Seq([i : Nat, at : Nat]),
   have_index : BOOLEAN, last_index : 0 .. IndexMod - 1, parsed_ok : Nat, parsed_bad : Nat]

LEMMA GoodCount ==
  ASSUME NEW l, NEW w \in Nat
  PROVE  /\ Good(l, w) \in SUBSET (1 .. w) /\ IsFiniteSet(Good(l, w))
         /\ Cardinality(Good(l, w)) \in 0 .. w
<1>1. IsFiniteSet(1 .. w) /\ Cardinality(1 .. w) = w
  <2>1. 0 \in Int /\ 1 \in Int /\ w \in Int
    OBVIOUS
  <2> QED BY <2>1, FS_Interval
<1>2. Good(l, w) \in SUBSET (1 .. w)
  BY DEF Good
<1>3. /\ IsFiniteSet(Good(l, w)) /\ Cardinality(Good(l, w)) \in Nat
      /\ Cardinality(Good(l, w)) <= Cardinality(1 .. w)
  BY <1>1, <1>2, FS_Subset, FS_CardinalityType
<1> QED BY <1>1, <1>2, <1>3

LEMMA GoodNext ==
  ASSUME NEW l, NEW w \in Nat
  PROVE  /\ l[w + 1].good => /\ Good(l, w + 1) = And(Good(l, w), w + 1)
                             /\ Cardinality(Good(l, w + 1)) = Cardinality(Good(l, w)) + 1
         /\ ~l[w + 1].good => Good(l, w + 1) = Good(l, w)
<1>1. CASE l[w + 1].good
  <2>1. Good(l, w + 1) = Good(l, w) \cup {w + 1} /\ w + 1 \notin Good(l, w)
    BY <1>1 DEF Good
  <2>2. IsFiniteSet(Good(l, w))
    BY GoodCount
  <2>3. Cardinality(Good(l, w) \cup {w + 1}) = Cardinality(Good(l, w)) + 1
    BY <2>1, <2>2, FS_AddElement
  <2> QED BY <1>1, <2>1, <2>3 DEF And
<1>2. CASE ~l[w + 1].good
  BY <1>2 DEF Good
<1> QED BY <1>1, <1>2

(* The first r units of record w + 1.                                      *)
Start(w, r) == [p \in 1 .. r |-> [i |-> w + 1, at |-> p]]

(* Nothing SQLite was asked for was refused.                               *)
Clean(l, s, b, w) == s.txn /\ b.parsed_bad = w - Cardinality(Good(l, w))

(* The receiver and the load after w records and r units of the next.      *)
Digested(l, s, b, w, r) ==
  /\ Sound(s) /\ s.loading /\ b \in UserBin
  /\ b.rec = Start(w, r)
  /\ b.parsed_ok + b.parsed_bad = w
  /\ b.parsed_bad >= w - Cardinality(Good(l, w))
  /\ Load(s.db) \in Arrived(l, w) /\ Load(s.file) \in Arrived(l, w)
  /\ b.parsed_bad = w - Cardinality(Good(l, w)) /\ (s.in_txn => s.txn)
       => Load(s.db) = R!Listed(l, Good(l, w), Good(l, w))

(* What reading a unit leaves of the receiver as it was.                   *)
Reads(b, c) ==
  /\ (c.active <=> b.active) /\ c.total_size = b.total_size /\ c.received = b.received
  /\ (c.have_index <=> b.have_index) /\ c.last_index = b.last_index

(* A record that is complete goes into the store, and is counted.          *)
Tallied(b, r) ==
  [b EXCEPT !.rec = <<>>,
            !.parsed_ok  = IF r.ok THEN @ + 1 ELSE @,
            !.parsed_bad = IF r.ok THEN @ ELSE @ + 1]

LEMMA RecordDigested ==
  ASSUME NEW l \in Seq(Record), NEW w \in 0 .. Len(l) - 1, NEW fault, NEW s, NEW b,
         Digested(l, s, b, w, RecLen - 1),
         NEW r, r = store_record(l, s, Whole(w + 1), fault),
         NEW c, c = Tallied(b, r)
  PROVE  /\ Digested(l, r.store, c, w + 1, 0) /\ Settles(s, r.store) /\ Reads(b, c)
         /\ fault = Undisturbed /\ Clean(l, s, b, w) => Clean(l, r.store, c, w + 1)
         /\ fault = Undisturbed /\ s.txn => r.store.txn
<1>1. /\ Sound(s) /\ s.loading /\ b \in UserBin
      /\ b.parsed_ok \in Nat /\ b.parsed_bad \in Nat
      /\ b.parsed_ok + b.parsed_bad = w
      /\ b.parsed_bad >= w - Cardinality(Good(l, w))
      /\ Load(s.db) \in Arrived(l, w) /\ Load(s.file) \in Arrived(l, w)
      /\ b.parsed_bad = w - Cardinality(Good(l, w)) /\ (s.in_txn => s.txn)
           => Load(s.db) = R!Listed(l, Good(l, w), Good(l, w))
  BY DEF Digested, UserBin
<1>2. /\ Sound(r.store) /\ r.store.loading /\ Settles(s, r.store)
      /\ Load(r.store.db) \in Arrived(l, w + 1) /\ Load(r.store.file) \in Arrived(l, w + 1)
      /\ ~l[w + 1].good => ~r.ok /\ r.store = s
      /\ r.ok => /\ (r.store.in_txn => r.store.txn) => (s.in_txn => s.txn)
                 /\ \A S, T \in SUBSET (1 .. w) : Load(s.db) = R!Listed(l, S, T) =>
                      Load(r.store.db) = R!Listed(l, And(S, w + 1), And(T, w + 1))
      /\ fault = Undisturbed /\ s.txn /\ l[w + 1].good => r.ok /\ r.store.txn
  <2>1. Sound(s) /\ s.loading /\ Load(s.db) \in Arrived(l, w) /\ Load(s.file) \in Arrived(l, w)
    BY <1>1
  <2> QED BY ONLY <2>1, l \in Seq(Record), w \in 0 .. Len(l) - 1,
                  r = store_record(l, s, Whole(w + 1), fault), StoreRecord
<1>3. PICK n \in Nat : n = Cardinality(Good(l, w)) /\ n <= w
  BY GoodCount
<1>4. PICK k \in Nat : k = Cardinality(Good(l, w + 1)) /\ k <= w + 1
  BY GoodCount
<1>5. /\ l[w + 1].good => Good(l, w + 1) = And(Good(l, w), w + 1) /\ k = n + 1
      /\ ~l[w + 1].good => Good(l, w + 1) = Good(l, w) /\ k = n
  BY <1>3, <1>4, GoodNext
<1>6. PICK x, y : /\ x = IF r.ok THEN b.parsed_ok + 1 ELSE b.parsed_ok
                  /\ y = IF r.ok THEN b.parsed_bad ELSE b.parsed_bad + 1
  OBVIOUS
<1>7. c = [b EXCEPT !.rec = <<>>, !.parsed_ok = x, !.parsed_bad = y]
  BY <1>6 DEF Tallied
<1>8. x \in Nat /\ y \in Nat
  BY <1>1, <1>6
<1>9. <<>> \in Seq([i : Nat, at : Nat])
  OBVIOUS
<1>10. c \in UserBin /\ c.rec = <<>> /\ Reads(b, c) /\ c.parsed_ok = x /\ c.parsed_bad = y
  BY <1>1, <1>7, <1>8, <1>9 DEF UserBin, Reads
<1>11. /\ r.ok => c.parsed_ok = b.parsed_ok + 1 /\ c.parsed_bad = b.parsed_bad
       /\ ~r.ok => c.parsed_ok = b.parsed_ok /\ c.parsed_bad = b.parsed_bad + 1
       /\ b.parsed_ok + b.parsed_bad = w /\ b.parsed_bad >= w - n
       /\ b.parsed_ok \in Nat /\ b.parsed_bad \in Nat /\ w \in Nat
  BY <1>1, <1>3, <1>6, <1>10
<1>12. c.rec = Start(w + 1, 0)
  BY <1>10 DEF Start
<1>13. c.parsed_ok + c.parsed_bad = w + 1 /\ c.parsed_bad >= w + 1 - k
  <2>1. CASE r.ok
    <3>1. l[w + 1].good /\ k = n + 1
      BY <1>2, <1>5, <2>1
    <3> QED BY <1>11, <2>1, <3>1
  <2>2. CASE ~r.ok
    <3>1. k = n \/ k = n + 1
      BY <1>5
    <3> QED BY <1>11, <2>2, <3>1
  <2> QED BY <2>1, <2>2
<1>14. ASSUME c.parsed_bad = w + 1 - k, r.store.in_txn => r.store.txn
      PROVE  Load(r.store.db) = R!Listed(l, Good(l, w + 1), Good(l, w + 1))
  <2>1. CASE l[w + 1].good
    <3>1. r.ok /\ b.parsed_bad = w - n
      BY <1>1, <1>3, <1>5, <1>10, <1>11, <1>14, <2>1
    <3>2. Load(s.db) = R!Listed(l, Good(l, w), Good(l, w))
      BY <1>1, <1>2, <1>3, <1>14, <3>1
    <3>3. Good(l, w) \in SUBSET (1 .. w)
      BY GoodCount
    <3>4. Load(r.store.db) = R!Listed(l, And(Good(l, w), w + 1), And(Good(l, w), w + 1))
      BY <1>2, <3>1, <3>2, <3>3
    <3> QED BY <1>5, <2>1, <3>4
  <2>2. CASE ~l[w + 1].good
    <3>1. ~r.ok /\ r.store = s /\ b.parsed_bad = w - n
      BY <1>1, <1>2, <1>3, <1>5, <1>10, <1>11, <1>14, <2>2
    <3> QED BY <1>1, <1>3, <1>5, <1>14, <2>2, <3>1
  <2> QED BY <2>1, <2>2
<1>15. ASSUME fault = Undisturbed, Clean(l, s, b, w)
       PROVE  Clean(l, r.store, c, w + 1)
  <2>1. s.txn /\ b.parsed_bad = w - n
    BY <1>3, <1>15 DEF Clean
  <2>2. CASE l[w + 1].good
    <3>1. r.ok /\ r.store.txn
      BY <1>2, <1>15, <2>1, <2>2
    <3>2. c.parsed_bad = w + 1 - k
      BY <1>5, <1>11, <2>1, <2>2, <3>1
    <3> QED BY <1>4, <3>1, <3>2 DEF Clean
  <2>3. CASE ~l[w + 1].good
    <3>1. ~r.ok /\ r.store = s
      BY <1>2, <2>3
    <3>2. c.parsed_bad = w + 1 - k
      BY <1>5, <1>11, <2>1, <2>3, <3>1
    <3> QED BY <1>4, <2>1, <3>1, <3>2 DEF Clean
  <2> QED BY <2>2, <2>3
<1>16. fault = Undisturbed /\ s.txn => r.store.txn
  BY <1>2
<1>17. Digested(l, r.store, c, w + 1, 0)
  <2>1. /\ Sound(r.store) /\ r.store.loading /\ c \in UserBin /\ c.rec = Start(w + 1, 0)
        /\ Load(r.store.db) \in Arrived(l, w + 1) /\ Load(r.store.file) \in Arrived(l, w + 1)
    BY <1>2, <1>10, <1>12
  <2> QED BY <1>4, <1>13, <1>14, <2>1 DEF Digested
<1> QED BY <1>2, <1>10, <1>15, <1>16, <1>17

(* After m units of the stream.                                            *)
At(l, s, b, m)    == Digested(l, s, b, m \div RecLen, m % RecLen)
Clear(l, s, b, m) == Clean(l, s, b, m \div RecLen)

(* Where the unit after m others stands.                                   *)
LEMMA Position ==
  ASSUME NEW n \in Nat, NEW m \in 0 .. RecLen * n - 1
  PROVE  \E w \in 0 .. n - 1, r \in 0 .. RecLen - 1 :
           /\ m = w * RecLen + r /\ m \div RecLen = w /\ m % RecLen = r
           /\ r + 1 < RecLen => (m + 1) \div RecLen = w /\ (m + 1) % RecLen = r + 1
           /\ r + 1 = RecLen => (m + 1) \div RecLen = w + 1 /\ (m + 1) % RecLen = 0
<1>1. RecLen \in Nat \ {0}
  BY StreamAssumption
<1>2. PICK w \in Nat, r \in 0 .. RecLen - 1 :
        w = m \div RecLen /\ r = m % RecLen /\ m = RecLen * w + r
  BY <1>1
<1>3. m = w * RecLen + r
  BY <1>1, <1>2
<1>4. w \in 0 .. n - 1
  <2> SUFFICES ASSUME w >= n PROVE FALSE
    BY <1>2
  <2>1. RecLen * w >= RecLen * n
    BY <1>1, <1>2
  <2> QED BY <1>1, <1>2, <2>1
<1>5. CASE r + 1 < RecLen
  <2>1. m + 1 = w * RecLen + (r + 1) /\ r + 1 \in 0 .. RecLen - 1
    BY <1>1, <1>3, <1>5
  <2>2. (m + 1) \div RecLen = w /\ (m + 1) % RecLen = r + 1
    BY <1>1, <2>1, DivMod
  <2> QED BY <1>2, <1>3, <1>4, <1>5, <2>2
<1>6. CASE r + 1 = RecLen
  <2>1. m + 1 = (w + 1) * RecLen + 0 /\ 0 \in 0 .. RecLen - 1 /\ w + 1 \in Nat
    BY <1>1, <1>3, <1>6
  <2>2. (m + 1) \div RecLen = w + 1 /\ (m + 1) % RecLen = 0
    <3>1. PICK q \in Nat, z \in 0 .. RecLen - 1 : q = w + 1 /\ z = 0 /\ m + 1 = q * RecLen + z
      BY <1>1, <2>1
    <3>2. (q * RecLen + z) \div RecLen = q /\ (q * RecLen + z) % RecLen = z
      BY <1>1, DivMod
    <3> QED BY <3>1, <3>2
  <2> QED BY <1>2, <1>3, <1>4, <1>6, <2>2
<1> QED BY <1>1, <1>2, <1>5, <1>6

(* One unit after the other.                                               *)
Place(w, r) == [i |-> w + 1, at |-> r + 1]

LEMMA UnitAppended ==
  ASSUME NEW w \in Nat, NEW r \in Nat, NEW y, y = Append(Start(w, r), Place(w, r))
  PROVE  y = Start(w, r + 1) /\ y \in Seq([i : Nat, at : Nat]) /\ Len(y) = r + 1
<1> DEFINE U == [i : Nat, at : Nat]
<1>1. PICK x : x = Start(w, r)
  OBVIOUS
<1>2. x = [p \in 1 .. r |-> [i |-> w + 1, at |-> p]]
  BY <1>1 DEF Start
<1>3. \A p \in 1 .. r : [i |-> w + 1, at |-> p] \in U
  OBVIOUS
<1>4. x \in Seq(U) /\ Len(x) = r
  BY <1>2, <1>3, SMT
<1>5. PICK u \in U : u = Place(w, r) /\ u = [i |-> w + 1, at |-> r + 1]
  BY DEF Place
<1> HIDE DEF U
<1>6. y \in Seq(U) /\ Len(y) = r + 1 /\ \A p \in 1 .. r + 1 : y[p] = IF p <= r THEN x[p] ELSE u
  BY <1>1, <1>4, <1>5, AppendProperties
<1>7. DOMAIN y = 1 .. r + 1 /\ \A p \in 1 .. r + 1 : y[p] = [i |-> w + 1, at |-> p]
  BY <1>2, <1>5, <1>6
<1>8. y = [p \in 1 .. r + 1 |-> [i |-> w + 1, at |-> p]]
  <2>1. y \in [1 .. r + 1 -> U]
    BY <1>6, LenProperties
  <2> QED BY <1>7, <2>1
<1> QED BY <1>6, <1>8 DEF Start, U

LEMMA UnitReceived ==
  ASSUME NEW l \in Seq(Record), NEW m \in 0 .. Size(l) - 1, NEW fault, NEW s, NEW b,
         At(l, s, b, m), NEW e, e = Received(l, [store |-> s, ub |-> b], Unit(m + 1), fault)
  PROVE  /\ e = [store |-> e.store, ub |-> e.ub]
         /\ At(l, e.store, e.ub, m + 1) /\ Settles(s, e.store) /\ Reads(b, e.ub)
         /\ fault = Undisturbed /\ Clear(l, s, b, m) => Clear(l, e.store, e.ub, m + 1)
         /\ fault = Undisturbed /\ s.txn => e.store.txn
<1>1. Len(l) \in Nat /\ Size(l) = RecLen * Len(l)
  BY DEF Size
<1>2. PICK w \in 0 .. Len(l) - 1, r \in 0 .. RecLen - 1 :
           /\ m = w * RecLen + r /\ m \div RecLen = w /\ m % RecLen = r
           /\ r + 1 < RecLen => (m + 1) \div RecLen = w /\ (m + 1) % RecLen = r + 1
           /\ r + 1 = RecLen => (m + 1) \div RecLen = w + 1 /\ (m + 1) % RecLen = 0
  BY <1>1, Position
<1>3. Unit(m + 1) = [i |-> w + 1, at |-> r + 1]
  BY <1>1, <1>2 DEF Unit
<1>4. Digested(l, s, b, w, r)
  BY <1>2 DEF At
<1>5. b \in UserBin /\ b.rec = Start(w, r)
  BY <1>4 DEF Digested
<1>6. PICK rec : rec = Append(b.rec, Unit(m + 1))
  OBVIOUS
<1>7. rec = Start(w, r + 1) /\ rec \in Seq([i : Nat, at : Nat]) /\ Len(rec) = r + 1
  <2>1. w \in Nat /\ r \in Nat
    OBVIOUS
  <2>2. rec = Append(Start(w, r), Place(w, r))
    BY <1>3, <1>5, <1>6 DEF Place
  <2> QED BY <2>1, <2>2, UnitAppended
<1>8. CASE r + 1 < RecLen
  <2>1. PICK c : c = [b EXCEPT !.rec = rec]
    OBVIOUS
  <2>2. e = [store |-> s, ub |-> c]
    <3>1. PICK d : d = [store |-> s, ub |-> b]
      OBVIOUS
    <3>2. rec = Append(d.ub.rec, Unit(m + 1)) /\ Len(rec) < RecLen
      BY <1>6, <1>7, <1>8, <3>1
    <3>3. e = [d EXCEPT !.ub.rec = rec]
      BY <3>1, <3>2 DEF Received
    <3> QED BY <2>1, <3>1, <3>3
  <2>3. /\ c \in UserBin /\ c.rec = rec /\ Reads(b, c)
        /\ c.parsed_ok = b.parsed_ok /\ c.parsed_bad = b.parsed_bad
    BY <1>5, <1>7, <2>1 DEF UserBin, Reads
  <2>4. Digested(l, s, c, w, r + 1)
    BY <1>4, <1>7, <2>3 DEF Digested
  <2>5. Clean(l, s, b, w) => Clean(l, s, c, w)
    BY <2>3 DEF Clean
  <2>6. Settles(s, s)
    BY DEF Settles
  <2> QED BY <1>2, <1>8, <2>2, <2>3, <2>4, <2>5, <2>6 DEF At, Clear
<1>9. CASE r + 1 = RecLen
  <2>1. rec = Whole(w + 1)
    BY <1>7, <1>9 DEF Whole, Start
  <2>2. PICK q : q = store_record(l, s, Whole(w + 1), fault)
    OBVIOUS
  <2>3. PICK c : c = Tallied(b, q)
    OBVIOUS
  <2>4. e = [store |-> q.store, ub |-> c]
    <3>1. ~(Len(rec) < RecLen)
      BY <1>7, <1>9
    <3> QED BY <1>6, <2>1, <2>2, <2>3, <3>1 DEF Received, Tallied
  <2>5. Digested(l, s, b, w, RecLen - 1)
    BY <1>4, <1>9
  <2>6. /\ Digested(l, q.store, c, w + 1, 0) /\ Settles(s, q.store) /\ Reads(b, c)
        /\ fault = Undisturbed /\ Clean(l, s, b, w) => Clean(l, q.store, c, w + 1)
        /\ fault = Undisturbed /\ s.txn => q.store.txn
    BY <2>2, <2>3, <2>5, RecordDigested
  <2>7. /\ At(l, q.store, c, m + 1)
        /\ Clear(l, s, b, m) <=> Clean(l, s, b, w)
        /\ Clear(l, q.store, c, m + 1) <=> Clean(l, q.store, c, w + 1)
    BY <1>2, <1>9, <2>6 DEF At, Clear
  <2> QED BY <2>4, <2>6, <2>7
<1> QED BY <1>8, <1>9, StreamAssumption

(* A chunk is read unit by unit.                                           *)
LEMMA UnitsRead ==
  ASSUME NEW l, NEW s, NEW b, NEW data, Len(data) \in Nat, NEW fault,
         NEW d, d = Units(l, s, b, data, fault)
  PROVE  /\ d[0] = [store |-> s, ub |-> b]
         /\ \A n \in 1 .. Len(data) : d[n] = Received(l, d[n - 1], data[n], fault)
<1> DEFINE N == Len(data)
           G(n, p) == Received(l, p, data[n], fault)
           Is(f, m) == f = [n \in 0 .. m |-> IF n = 0 THEN [store |-> s, ub |-> b] ELSE G(n, f[n - 1])]
           S == {m \in 0 .. N : \E f : Is(f, m)}
<1>1. d = CHOOSE f : Is(f, N)
  BY DEF Units
<1> HIDE DEF G
<1>2. 0 \in S
  <2>1. PICK f : f = [n \in 0 .. 0 |-> [store |-> s, ub |-> b]]
    OBVIOUS
  <2>2. Is(f, 0)
    BY <2>1
  <2> QED BY <2>2
<1>3. ASSUME NEW k \in 0 .. N - 1, k \in S PROVE k + 1 \in S
  <2>1. PICK f : Is(f, k)
    BY <1>3
  <2>2. /\ DOMAIN f = 0 .. k /\ f[0] = [store |-> s, ub |-> b]
        /\ \A n \in 1 .. k : f[n] = G(n, f[n - 1])
    BY <2>1
  <2>3. PICK g : g = [n \in 0 .. k + 1 |-> IF n <= k THEN f[n] ELSE G(k + 1, f[k])]
    OBVIOUS
  <2>4. ASSUME NEW n \in 0 .. k + 1
        PROVE  g[n] = IF n = 0 THEN [store |-> s, ub |-> b] ELSE G(n, g[n - 1])
    <3>1. CASE n = 0
      BY <2>2, <2>3, <3>1
    <3>2. CASE n \in 1 .. k
      <4>1. g[n] = f[n] /\ g[n - 1] = f[n - 1]
        BY <2>3, <3>2
      <4> QED BY <2>2, <3>2, <4>1
    <3>3. CASE n = k + 1
      <4>1. g[n] = G(k + 1, f[k]) /\ g[k] = f[k] /\ n - 1 = k /\ n # 0
        BY <2>3, <3>3
      <4> QED BY <3>3, <4>1
    <3> QED BY <3>1, <3>2, <3>3
  <2>5. Is(g, k + 1)
    BY <2>3, <2>4
  <2> QED BY <2>5
<1>4. N \in S
  <2> HIDE DEF S
  <2>1. 0 .. N \subseteq S
    BY <1>2, <1>3, UpTo
  <2> QED BY <2>1
<1>5. Is(d, N)
  BY <1>1, <1>4
<1> QED BY <1>5 DEF G

(* A chunk that follows on what was received: no unit of it is read twice, *)
(* and none is left out.                                                   *)
LEMMA ChunkRead ==
  ASSUME NEW l \in Seq(Record), NEW s, NEW b, NEW m \in Nat, At(l, s, b, m),
         NEW data, Len(data) \in Nat, m + Len(data) <= Size(l),
         \A n \in 1 .. Len(data) : data[n] = Unit(m + n),
         NEW fault, NEW d, d = Units(l, s, b, data, fault)[Len(data)]
  PROVE  /\ d = [store |-> d.store, ub |-> d.ub]
         /\ At(l, d.store, d.ub, m + Len(data)) /\ Settles(s, d.store) /\ Reads(b, d.ub)
         /\ fault = Undisturbed /\ Clear(l, s, b, m) => Clear(l, d.store, d.ub, m + Len(data))
         /\ fault = Undisturbed /\ s.txn => d.store.txn
<1>1. PICK N \in Nat : N = Len(data)
  OBVIOUS
<1>2. PICK f : f = Units(l, s, b, data, fault)
  OBVIOUS
<1>3. /\ f[0] = [store |-> s, ub |-> b]
      /\ \A n \in 1 .. N : f[n] = Received(l, f[n - 1], data[n], fault)
  BY <1>1, <1>2, UnitsRead
<1> DEFINE P(e, k) ==
             /\ e = [store |-> e.store, ub |-> e.ub]
             /\ At(l, e.store, e.ub, m + k) /\ Settles(s, e.store) /\ Reads(b, e.ub)
             /\ fault = Undisturbed /\ Clear(l, s, b, m) => Clear(l, e.store, e.ub, m + k)
             /\ fault = Undisturbed /\ s.txn => e.store.txn
           S == {k \in 0 .. N : P(f[k], k)}
<1>4. 0 \in S
  <2>1. PICK e : e = f[0]
    OBVIOUS
  <2>2. e = [store |-> e.store, ub |-> e.ub] /\ e.store = s /\ e.ub = b /\ m + 0 = m
    BY <1>3, <2>1
  <2>3. Settles(s, s) /\ Reads(b, b)
    BY DEF Settles, Reads
  <2>4. P(e, 0)
    BY <2>2, <2>3
  <2> QED BY <2>1, <2>4
<1>5. ASSUME NEW k \in 0 .. N - 1, k \in S PROVE k + 1 \in S
  <2>1. PICK e, g : e = f[k] /\ g = f[k + 1]
    OBVIOUS
  <2>2. P(e, k)
    BY <1>5, <2>1
  <2>3. k + 1 \in 1 .. N /\ k + 1 - 1 = k /\ m + k \in 0 .. Size(l) - 1 /\ m + (k + 1) = m + k + 1
    <3>1. Size(l) \in Int
      BY StreamAssumption DEF Size
    <3>2. PICK z \in Int : z = Size(l)
      BY <3>1
    <3> QED BY <1>1, <3>2
  <2>4. g = Received(l, e, Unit(m + k + 1), fault)
    BY <1>1, <1>3, <2>1, <2>3
  <2>5. g = Received(l, [store |-> e.store, ub |-> e.ub], Unit(m + k + 1), fault)
    BY <2>2, <2>4
  <2>6. /\ g = [store |-> g.store, ub |-> g.ub]
        /\ At(l, g.store, g.ub, m + k + 1) /\ Settles(e.store, g.store) /\ Reads(e.ub, g.ub)
        /\ fault = Undisturbed /\ Clear(l, e.store, e.ub, m + k)
             => Clear(l, g.store, g.ub, m + k + 1)
        /\ fault = Undisturbed /\ e.store.txn => g.store.txn
    BY <2>2, <2>3, <2>5, UnitReceived
  <2>7. Settles(s, g.store)
    BY <2>2, <2>6, SettlesTransitive
  <2>8. Reads(b, g.ub)
    BY <2>2, <2>6 DEF Reads
  <2>9. P(g, k + 1)
    BY <2>2, <2>3, <2>6, <2>7, <2>8
  <2> QED BY <2>1, <2>3, <2>9
<1>6. N \in S
  <2> HIDE DEF S
  <2>1. 0 .. N \subseteq S
    BY <1>4, <1>5, UpTo
  <2> QED BY <2>1
<1> QED BY <1>1, <1>2, <1>6

-----------------------------------------------------------------------------
(* Chunks.                                                                 *)

LEMMA Remainders ==
  ASSUME NEW m \in Nat \ {0}, NEW a \in Nat
  PROVE  /\ ((a % m) + 1) % m = (a + 1) % m
         /\ \A d \in 1 .. m - 1 : (a + d) % m # a % m
<1>1. PICK q \in Nat, r \in 0 .. m - 1 : q = a \div m /\ r = a % m /\ a = m * q + r
  OBVIOUS
<1>2. \A s \in 0 .. m - 1 : (q * m + s) % m = s /\ ((q + 1) * m + s) % m = s /\ (0 * m + s) % m = s
  <2> TAKE s \in 0 .. m - 1
  <2>1. q + 1 \in Nat /\ 0 \in Nat
    OBVIOUS
  <2> QED BY <2>1, DivMod
<1>3. (r + 1) % m = (a + 1) % m
  <2>1. CASE r + 1 < m
    <3>1. r + 1 \in 0 .. m - 1 /\ a + 1 = q * m + (r + 1) /\ r + 1 = 0 * m + (r + 1)
      BY <1>1, <2>1
    <3> QED BY <1>2, <3>1
  <2>2. CASE r + 1 = m
    <3>1. a + 1 = (q + 1) * m + 0 /\ 0 \in 0 .. m - 1
      BY <1>1, <2>2
    <3>2. m = 1 * m + 0
      OBVIOUS
    <3>3. (1 * m + 0) % m = 0
      <4>1. PICK u \in Nat, z \in 0 .. m - 1 : u = 1 /\ z = 0
        OBVIOUS
      <4>2. (u * m + z) % m = z
        BY DivMod
      <4> QED BY <4>1, <4>2
    <3> QED BY <1>2, <2>2, <3>1, <3>2, <3>3
  <2> QED BY <2>1, <2>2
<1>4. ASSUME NEW d \in 1 .. m - 1 PROVE (a + d) % m # r
  <2>1. CASE r + d < m
    <3>1. r + d \in 0 .. m - 1 /\ a + d = q * m + (r + d)
      BY <1>1, <2>1
    <3>2. (a + d) % m = r + d
      BY <1>2, <3>1
    <3> QED BY <3>2
  <2>2. CASE ~(r + d < m)
    <3>1. r + d - m \in 0 .. m - 1 /\ a + d = (q + 1) * m + (r + d - m)
      BY <1>1, <2>2
    <3>2. (a + d) % m = r + d - m
      BY <1>2, <3>1
    <3> QED BY <3>2
  <2> QED BY <2>1, <2>2
<1> QED BY <1>1, <1>3, <1>4

(* The numbers of two chunks that are one or two apart differ, also where  *)
(* they wrap, and only the next chunk has the number that is expected.     *)
LEMMA Indices ==
  ASSUME NEW n \in Nat \ {0}
  PROVE  /\ IndexOf(n) \in 0 .. IndexMod - 1
         /\ IndexOf(n + 1) = (IndexOf(n) + 1) % IndexMod
         /\ IndexOf(n + 1) # IndexOf(n) /\ IndexOf(n + 2) # IndexOf(n)
         /\ IndexOf(n + 2) # IndexOf(n + 1)
<1>1. /\ IndexMod \in Nat \ {0} /\ 1 \in 1 .. IndexMod - 1 /\ 2 \in 1 .. IndexMod - 1
      /\ FirstIndex \in Nat
  BY StreamAssumption
<1>2. PICK a \in Nat : a = FirstIndex + n - 1
  BY <1>1
<1>3. a % IndexMod \in 0 .. IndexMod - 1
  BY <1>1
<1>4. /\ IndexOf(n) = a % IndexMod
      /\ IndexOf(n + 1) = (a + 1) % IndexMod
      /\ IndexOf(n + 2) = (a + 2) % IndexMod
  <2>1. FirstIndex + (n + 1) - 1 = a + 1 /\ FirstIndex + (n + 2) - 1 = a + 2
    BY <1>1, <1>2
  <2> QED BY <1>2, <2>1 DEF IndexOf
<1>5. /\ ((a % IndexMod) + 1) % IndexMod = (a + 1) % IndexMod
      /\ (a + 1) % IndexMod # a % IndexMod
      /\ (a + 2) % IndexMod # a % IndexMod
  BY <1>1, Remainders
<1>6. (a + 2) % IndexMod # (a + 1) % IndexMod
  <2>1. PICK b \in Nat : b = a + 1 /\ a + 2 = b + 1
    OBVIOUS
  <2>2. (b + 1) % IndexMod # b % IndexMod
    BY <1>1, Remainders
  <2> QED BY <2>1, <2>2
<1> QED BY <1>3, <1>4, <1>5, <1>6

LEMMA SizeNat ==
  ASSUME NEW l \in Seq(Record)
  PROVE  Size(l) \in Nat /\ Chunks(l) \in Nat
<1>1. Size(l) \in Nat
  BY StreamAssumption DEF Size
<1>2. PICK z \in Nat : z = Size(l) + ChunkLen - 1
  BY <1>1, StreamAssumption
<1>3. z \div ChunkLen \in Nat
  BY StreamAssumption
<1> QED BY <1>1, <1>2, <1>3 DEF Chunks

(* There is a chunk more as long as something is left.                     *)
LEMMA ChunksLeft ==
  ASSUME NEW l \in Seq(Record), NEW n \in Nat
  PROVE  n * ChunkLen < Size(l) <=> n < Chunks(l)
<1>1. PICK c \in Nat \ {0}, z \in Nat : c = ChunkLen /\ z = Size(l)
  BY SizeNat, StreamAssumption
<1>2. PICK q \in Nat, r \in 0 .. c - 1 : q = (z + c - 1) \div c /\ z + c - 1 = c * q + r
  <2>1. z + c - 1 \in Nat
    OBVIOUS
  <2> QED BY <2>1
<1>3. q = Chunks(l)
  BY <1>1, <1>2 DEF Chunks
<1>4. ASSUME n < q PROVE n * c < z
  <2>1. c * (n + 1) <= c * q
    BY <1>4
  <2> QED BY <1>2, <2>1
<1>5. ASSUME ~(n < q) PROVE ~(n * c < z)
  <2>1. c * q <= c * n
    BY <1>5
  <2> QED BY <1>2, <2>1
<1> QED BY <1>1, <1>3, <1>4, <1>5

(* The chunk after n others.                                               *)
LEMMA ChunkUnits ==
  ASSUME NEW l \in Seq(Record), NEW n \in Nat, n * ChunkLen < Size(l),
         NEW data, data = Chunk(l, n + 1)
  PROVE  /\ Len(data) \in Nat \ {0}
         /\ \A i \in 1 .. Len(data) : data[i] = Unit(n * ChunkLen + i)
         /\ n * ChunkLen + Len(data) <= Size(l)
         /\ n * ChunkLen + Len(data) < Size(l) => n * ChunkLen + Len(data) = (n + 1) * ChunkLen
         /\ n * ChunkLen + Len(data) < Size(l) <=> (n + 1) * ChunkLen < Size(l)
<1>1. PICK z \in Nat, c \in Nat \ {0}, m \in Nat :
        z = Size(l) /\ c = ChunkLen /\ m = n * ChunkLen /\ m < z /\ (n + 1) * ChunkLen = m + c
  BY SizeNat, StreamAssumption
<1>2. PICK to : to = IF m + c < z THEN m + c ELSE z
  OBVIOUS
<1>3. to \in Nat /\ m < to /\ to <= z /\ (to < z => to = m + c) /\ (to < z <=> m + c < z)
  BY <1>1, <1>2
<1>4. (n + 1 - 1) * ChunkLen = m
  BY <1>1
<1>5. data = [i \in 1 .. to - m |-> Unit(m + i)]
  BY <1>1, <1>2, <1>4 DEF Chunk
<1>6. PICK d \in Nat \ {0} : d = to - m /\ m + d = to
  <2>1. to - m \in Nat \ {0} /\ m + (to - m) = to
    BY <1>1, <1>3
  <2> QED BY <2>1
<1>7. Len(data) = d /\ \A i \in 1 .. d : data[i] = Unit(m + i)
  BY <1>5, <1>6
<1> QED BY <1>1, <1>3, <1>6, <1>7

-----------------------------------------------------------------------------
(* The receiver.                                                           *)

(* Counting chunks leaves what has been read as it is.                     *)
LEMMA AtKept ==
  ASSUME NEW l, NEW s, NEW b, NEW m, At(l, s, b, m), NEW c \in UserBin,
         c.rec = b.rec, c.parsed_ok = b.parsed_ok, c.parsed_bad = b.parsed_bad
  PROVE  At(l, s, c, m) /\ (Clear(l, s, b, m) => Clear(l, s, c, m))
BY DEF At, Digested, Clear, Clean

LEMMA AtFacts ==
  ASSUME NEW l, NEW s, NEW b, NEW m, At(l, s, b, m)
  PROVE  Sound(s) /\ s.loading /\ b \in UserBin
BY DEF At, Digested

Counted(b, k, x) == [b EXCEPT !.received = @ + k, !.last_index = x, !.have_index = TRUE]

LEMMA CountedFacts ==
  ASSUME NEW b \in UserBin, NEW k \in Nat, NEW x \in 0 .. IndexMod - 1,
         NEW c, c = Counted(b, k, x)
  PROVE  /\ c \in UserBin /\ c.rec = b.rec /\ c.received = b.received + k
         /\ c.parsed_ok = b.parsed_ok /\ c.parsed_bad = b.parsed_bad
         /\ (c.active <=> b.active) /\ c.total_size = b.total_size
         /\ c.have_index /\ c.last_index = x
<1>1. PICK r : r = b.received + k
  OBVIOUS
<1>2. r \in Nat
  BY <1>1 DEF UserBin
<1>3. c = [b EXCEPT !.received = r, !.last_index = x, !.have_index = TRUE]
  BY <1>1 DEF Counted
<1> QED BY <1>1, <1>2, <1>3 DEF UserBin

(* The chunk after n others is taken.                                      *)
LEMMA ChunkTaken ==
  ASSUME NEW l \in Seq(Record), NEW n \in Nat, n * ChunkLen < Size(l),
         NEW s, NEW b, At(l, s, b, n * ChunkLen), b.received = n * ChunkLen,
         NEW data, data = Chunk(l, n + 1), NEW fault,
         NEW e, e = Taken(l, s, b, IndexOf(n + 1), data, fault)
  PROVE  /\ e = [store |-> e.store, ub |-> e.ub]
         /\ e.ub.received = n * ChunkLen + Len(data)
         /\ At(l, e.store, e.ub, e.ub.received) /\ Settles(s, e.store)
         /\ (e.ub.active <=> b.active) /\ e.ub.total_size = b.total_size
         /\ e.ub.have_index /\ e.ub.last_index = IndexOf(n + 1)
         /\ fault = Undisturbed /\ Clear(l, s, b, b.received)
              => Clear(l, e.store, e.ub, e.ub.received)
         /\ fault = Undisturbed /\ s.txn => e.store.txn
<1>1. PICK m \in Nat : m = n * ChunkLen
  BY StreamAssumption
<1>2. /\ Len(data) \in Nat \ {0} /\ m + Len(data) <= Size(l)
      /\ \A i \in 1 .. Len(data) : data[i] = Unit(m + i)
  BY <1>1, ChunkUnits
<1>3. PICK d : d = Units(l, s, b, data, fault)[Len(data)]
  OBVIOUS
<1>4. /\ d = [store |-> d.store, ub |-> d.ub]
      /\ At(l, d.store, d.ub, m + Len(data)) /\ Settles(s, d.store) /\ Reads(b, d.ub)
      /\ fault = Undisturbed /\ Clear(l, s, b, m) => Clear(l, d.store, d.ub, m + Len(data))
      /\ fault = Undisturbed /\ s.txn => d.store.txn
  BY <1>1, <1>2, <1>3, ChunkRead
<1>5. IndexOf(n + 1) \in 0 .. IndexMod - 1
  <2>1. PICK k \in Nat \ {0} : k = n + 1
    OBVIOUS
  <2> QED BY <2>1, Indices
<1>6. PICK t, c : t = d.store /\ c = d.ub
  OBVIOUS
<1>7. PICK k \in Nat, x \in 0 .. IndexMod - 1 : k = Len(data) /\ x = IndexOf(n + 1)
  BY <1>2, <1>5
<1>8. PICK g : g = Counted(c, k, x)
  OBVIOUS
<1>9. e = [store |-> t, ub |-> g]
  <2>1. e = [d EXCEPT !.ub.received = @ + Len(data), !.ub.last_index = IndexOf(n + 1),
                      !.ub.have_index = TRUE]
    BY <1>3 DEF Taken
  <2>2. d = [store |-> t, ub |-> c]
    BY <1>4, <1>6
  <2>3. g = [c EXCEPT !.received = @ + k, !.last_index = x, !.have_index = TRUE]
    BY <1>8 DEF Counted
  <2> QED BY <1>7, <2>1, <2>2, <2>3
<1>10. c \in UserBin /\ c.received = m
  BY <1>1, <1>4, <1>6, AtFacts DEF Reads
<1>11. /\ g \in UserBin /\ g.rec = c.rec /\ g.received = m + Len(data)
       /\ g.parsed_ok = c.parsed_ok /\ g.parsed_bad = c.parsed_bad
       /\ (g.active <=> c.active) /\ g.total_size = c.total_size
       /\ g.have_index /\ g.last_index = IndexOf(n + 1)
  <2>1. c \in UserBin
    BY <1>10
  <2>2. /\ g \in UserBin /\ g.rec = c.rec /\ g.received = c.received + k
        /\ g.parsed_ok = c.parsed_ok /\ g.parsed_bad = c.parsed_bad
        /\ (g.active <=> c.active) /\ g.total_size = c.total_size
        /\ g.have_index /\ g.last_index = x
    BY <1>8, <2>1, CountedFacts
  <2> QED BY <1>7, <1>10, <2>2
<1>12. /\ At(l, t, g, m + Len(data))
       /\ Clear(l, t, c, m + Len(data)) => Clear(l, t, g, m + Len(data))
  BY <1>4, <1>6, <1>11, AtKept
<1>13. fault = Undisturbed /\ Clear(l, s, b, m) => Clear(l, t, g, m + Len(data))
  BY <1>4, <1>6, <1>12
<1>14. (g.active <=> b.active) /\ g.total_size = b.total_size
  BY <1>4, <1>6, <1>11 DEF Reads
<1> QED BY <1>1, <1>4, <1>6, <1>9, <1>11, <1>12, <1>13, <1>14

(* The end of a transfer.                                                  *)
LEMMA Finished ==
  ASSUME NEW s, Sound(s), s.loading, NEW b \in UserBin, NEW f,
         NEW e, e = finish([store |-> s, ub |-> b], f)
  PROVE  /\ Sound(e.store) /\ ~e.store.loading /\ e.store.safe = s.safe
         /\ \/ Settles(s, e.store)
            \/ View(e.store.db) = Load(s.db) /\ View(e.store.file) = Load(s.db)
         /\ e.ub \in UserBin /\ ~e.ub.active /\ e.ub.rec = <<>>
         /\ e.ub.received = b.received /\ e.ub.total_size = b.total_size
         /\ e.ub.parsed_bad = b.parsed_bad
         /\ e.ub.parsed_ok # 0 =>
              /\ e.ub.parsed_ok = b.parsed_ok /\ (s.in_txn => s.txn)
              /\ View(e.store.db) = Load(s.db) /\ View(e.store.file) = Load(s.db)
         /\ f = "ok" /\ s.txn =>
              View(e.store.db) = Load(s.db) /\ View(e.store.file) = Load(s.db)
<1>1. PICK c : c = users_load_commit(s, f)
  OBVIOUS
<1>2. /\ Sound(c.store) /\ ~c.store.loading /\ c.store.safe = s.safe
      /\ \/ Settles(s, c.store)
         \/ View(c.store.db) = Load(s.db) /\ View(c.store.file) = Load(s.db)
      /\ c.ok => /\ s.in_txn => s.txn
                 /\ View(c.store.db) = Load(s.db) /\ View(c.store.file) = Load(s.db)
      /\ f = "ok" /\ s.txn =>
           View(c.store.db) = Load(s.db) /\ View(c.store.file) = Load(s.db)
  BY <1>1, LoadCommitSound
<1>3. PICK x : x = IF c.ok THEN b.parsed_ok ELSE 0
  OBVIOUS
<1>4. PICK g : g = [b EXCEPT !.active = FALSE, !.rec = <<>>, !.parsed_ok = x]
  OBVIOUS
<1>5. e = [store |-> c.store, ub |-> g]
  BY <1>1, <1>3, <1>4 DEF finish
<1>6. x \in Nat /\ (x # 0 => c.ok /\ x = b.parsed_ok)
  BY <1>3 DEF UserBin
<1>7. <<>> \in Seq([i : Nat, at : Nat])
  OBVIOUS
<1>8. /\ g \in UserBin /\ ~g.active /\ g.rec = <<>> /\ g.parsed_ok = x
      /\ g.received = b.received /\ g.total_size = b.total_size /\ g.parsed_bad = b.parsed_bad
  BY <1>4, <1>6, <1>7 DEF UserBin
<1> QED BY <1>2, <1>5, <1>6, <1>8

(* A transfer that is dropped.                                             *)
LEMMA Aborted ==
  ASSUME NEW s, Sound(s), NEW b \in UserBin, b.active <=> s.loading, b.received <= b.total_size,
         NEW e, e = userbin_abort(s, b)
  PROVE  /\ e = [store |-> e.store, ub |-> e.ub]
         /\ Sound(e.store) /\ ~e.store.loading /\ Settles(s, e.store)
         /\ e.ub \in UserBin /\ ~e.ub.active /\ (~b.active => e.ub = b)
         /\ b.active => e.ub.rec = <<>>
         /\ e.ub.received <= e.ub.total_size
<1>1. CASE b.active
  <2>1. PICK t : t = users_load_abort(s)
    OBVIOUS
  <2>2. Sound(t) /\ ~t.loading /\ Settles(s, t)
    BY <2>1, AbortSound
  <2>3. PICK g : g = [b EXCEPT !.active = FALSE, !.rec = <<>>, !.received = 0, !.have_index = FALSE]
    OBVIOUS
  <2>4. e = [store |-> t, ub |-> g]
    BY <1>1, <2>1, <2>3 DEF userbin_abort
  <2>5. <<>> \in Seq([i : Nat, at : Nat])
    OBVIOUS
  <2>6. g \in UserBin /\ ~g.active /\ g.rec = <<>> /\ g.received = 0 /\ g.total_size \in Nat
    BY <2>3, <2>5 DEF UserBin
  <2> QED BY <1>1, <2>2, <2>4, <2>6
<1>2. CASE ~b.active
  <2>1. e = [store |-> s, ub |-> b]
    BY <1>2 DEF userbin_abort
  <2>2. Settles(s, s)
    BY DEF Settles
  <2> QED BY <1>2, <2>1, <2>2
<1> QED BY <1>1, <1>2

-----------------------------------------------------------------------------
(* The inductive invariant.                                                *)

TypesOK ==
  /\ Sound(store) /\ ub \in UserBin /\ ub.received <= ub.total_size
  /\ ub.active <=> store.loading
  /\ ~ub.active => ub.rec = <<>>
  /\ conn \in BOOLEAN
  /\ dm \in [phase : {"idle", "sending"}, list : Lists \cup {<<>>}, k : Nat]
  /\ dm.phase = "sending" => dm.list \in Lists /\ dm.k \in 1 .. Chunks(dm.list)
  /\ taken \in 0 .. Chunks(dm.list) /\ told \in Lists \cup {<<>>}
  /\ spent \in [faults : Nat, commands : Nat, cuts : Nat]

(* The receiver has n chunks of the list DM sent last, one more at most    *)
(* than DM knows of and one less, and just their units have been read.     *)
Sending(n) ==
  /\ dm.list \in Lists /\ ub.total_size = Size(dm.list)
  /\ ub.received = n * ChunkLen /\ ub.received < ub.total_size
  /\ ub.have_index <=> n # 0
  /\ n # 0 => ub.last_index = IndexOf(n)
  /\ taken <= n
  /\ dm.phase = "sending" => dm.k \in n - 1 .. n + 1
  /\ At(dm.list, store, ub, ub.received)
  /\ spent.faults = 0 => Clear(dm.list, store, ub, ub.received)

(* A list that was reported is the one in use, and kept.                   *)
Reported ==
  told # <<>> /\ spent.cuts = 0 =>
    /\ View(store.db) = R!Listed(told, DOMAIN told, DOMAIN told)
    /\ View(store.file) = R!Listed(told, DOMAIN told, DOMAIN told)

IInv ==
  /\ TypesOK
  /\ ub.active => \E n \in Nat : Sending(n)
  /\ Reported

-----------------------------------------------------------------------------
(* Steps of the receiver.                                                  *)

(* A transfer that begins: nothing is read, nothing loaded.                *)
LEMMA Started ==
  ASSUME NEW l, NEW s, Sound(s), NEW f, NEW r, r = users_load_begin(s, f), r.ok,
         NEW b, NEW z \in Nat, b = [Idle EXCEPT !.active = TRUE, !.total_size = z]
  PROVE  /\ b \in UserBin /\ b.active /\ b.total_size = z /\ b.received = 0 /\ ~b.have_index
         /\ At(l, r.store, b, 0) /\ Clear(l, r.store, b, 0)
<1>1. /\ b \in UserBin /\ b.active /\ b.total_size = z /\ b.received = 0 /\ ~b.have_index
      /\ b.rec = <<>> /\ b.parsed_ok = 0 /\ b.parsed_bad = 0
  <2>1. 0 \in 0 .. IndexMod - 1 /\ <<>> \in Seq([i : Nat, at : Nat])
    BY StreamAssumption
  <2> QED BY <2>1 DEF Idle, UserBin
<1>2. 0 \div RecLen = 0 /\ 0 % RecLen = 0
  <2>1. PICK q \in Nat, t \in 0 .. RecLen - 1 : q = 0 /\ t = 0 /\ q * RecLen + t = 0
    BY StreamAssumption
  <2>2. (q * RecLen + t) \div RecLen = q /\ (q * RecLen + t) % RecLen = t
    BY StreamAssumption, DivMod
  <2> QED BY <2>1, <2>2
<1>3. Good(l, 0) = {} /\ Cardinality(Good(l, 0)) = 0
  BY FS_EmptySet DEF Good
<1>4. /\ Sound(r.store) /\ r.store.loading /\ r.store.txn
      /\ Load(r.store.db) = [users |-> {}, cards |-> NoCards]
      /\ Load(r.store.file) = [users |-> {}, cards |-> NoCards]
  BY LoadBeginSound
<1>5. R!Listed(l, Good(l, 0), Good(l, 0)) = [users |-> {}, cards |-> NoCards]
  BY <1>3 DEF R!Listed, NoCards
<1>6. Good(l, 0) \in SUBSET (1 .. 0) /\ Good(l, 0) \in SUBSET Good(l, 0)
  BY <1>3
<1>7. Load(r.store.db) \in Arrived(l, 0) /\ Load(r.store.file) \in Arrived(l, 0)
  BY <1>4, <1>5, <1>6, Arriving
<1>8. b.rec = Start(0, 0)
  BY <1>1 DEF Start
<1>9. Digested(l, r.store, b, 0, 0)
  BY <1>1, <1>3, <1>4, <1>5, <1>7, <1>8 DEF Digested
<1>10. Clean(l, r.store, b, 0)
  BY <1>1, <1>3, <1>4 DEF Clean
<1> QED BY <1>1, <1>2, <1>9, <1>10 DEF At, Clear

(* When all records are good, all of them are.                             *)
LEMMA AllGood ==
  ASSUME NEW l, NEW w \in Nat, Cardinality(Good(l, w)) >= w
  PROVE  Good(l, w) = 1 .. w
<1>1. IsFiniteSet(1 .. w) /\ Cardinality(1 .. w) = w
  <2>1. 0 \in Int /\ 1 \in Int /\ w \in Int
    OBVIOUS
  <2> QED BY <2>1, FS_Interval
<1>2. Good(l, w) \in SUBSET (1 .. w) /\ Cardinality(Good(l, w)) \in 0 .. w
  BY GoodCount
<1> QED BY <1>1, <1>2, FS_Subset

(* The whole stream.                                                       *)
LEMMA AtEnd ==
  ASSUME NEW l \in Seq(Record), NEW s, NEW b, At(l, s, b, Size(l))
  PROVE  /\ Load(s.db) \in R!Downloads(l)
         /\ b.parsed_bad = 0 /\ (s.in_txn => s.txn)
              => Load(s.db) = R!Listed(l, DOMAIN l, DOMAIN l)
<1>1. PICK w \in Nat : w = Len(l)
  OBVIOUS
<1>2. Size(l) \div RecLen = w /\ Size(l) % RecLen = 0
  <2>1. PICK t \in 0 .. RecLen - 1 : t = 0 /\ Size(l) = w * RecLen + t
    BY <1>1, StreamAssumption DEF Size
  <2>2. (w * RecLen + t) \div RecLen = w /\ (w * RecLen + t) % RecLen = t
    BY StreamAssumption, DivMod
  <2> QED BY <2>1, <2>2
<1>3. Digested(l, s, b, w, 0)
  BY <1>2 DEF At
<1>4. Load(s.db) \in R!Downloads(l)
  BY <1>1, <1>3, ArrivedWhole DEF Digested
<1>5. ASSUME b.parsed_bad = 0, s.in_txn => s.txn
      PROVE  Load(s.db) = R!Listed(l, DOMAIN l, DOMAIN l)
  <2>1. PICK n \in 0 .. w : n = Cardinality(Good(l, w))
    BY GoodCount
  <2>2. n = w
    BY <1>3, <1>5, <2>1 DEF Digested
  <2>3. Good(l, w) = 1 .. w
    <3>1. Cardinality(Good(l, w)) >= w
      BY <2>1, <2>2
    <3> QED BY <3>1, AllGood
  <2>4. Good(l, w) = DOMAIN l
    BY <1>1, <2>3
  <2>5. Load(s.db) = R!Listed(l, Good(l, w), Good(l, w))
    BY <1>3, <1>5, <2>1, <2>2 DEF Digested
  <2> QED BY <2>4, <2>5
<1> QED BY <1>4, <1>5

(* What a chunk may do: one that is not next changes nothing; the next one *)
(* is taken, and ends the transfer when it is the last.                    *)
NotNext(n, k, s, b, r) ==
  /\ k # n + 1 /\ r.d = [store |-> s, ub |-> b]
  /\ r.st \in {"ok", "failed"} /\ (r.st = "ok" => k = n)

NextTaken(l, n, k, s, b, fault, r) ==
  /\ k = n + 1 /\ r.st = "ok" /\ (n + 1) * ChunkLen < Size(l)
  /\ r.d.ub.active /\ r.d.ub.total_size = Size(l)
  /\ r.d.ub.received = (n + 1) * ChunkLen
  /\ r.d.ub.have_index /\ r.d.ub.last_index = IndexOf(n + 1)
  /\ At(l, r.d.store, r.d.ub, r.d.ub.received) /\ Settles(s, r.d.store)
  /\ fault = Undisturbed /\ Clear(l, s, b, n * ChunkLen)
       => Clear(l, r.d.store, r.d.ub, r.d.ub.received)

LastTaken(l, n, k, s, fault, f, r) ==
  /\ k = n + 1 /\ r.st = "complete" /\ Sound(r.d.store) /\ ~r.d.store.loading
  /\ r.d.store.safe = s.safe
  /\ \/ Settles(s, r.d.store)
     \/ \E v \in R!Downloads(l) : View(r.d.store.db) = v /\ View(r.d.store.file) = v
  /\ fault = Undisturbed /\ f = "ok" /\ s.txn =>
       \E v \in R!Downloads(l) : View(r.d.store.db) = v /\ View(r.d.store.file) = v
  /\ r.d.ub \in UserBin /\ ~r.d.ub.active /\ r.d.ub.rec = <<>>
  /\ r.d.ub.received = Size(l) /\ r.d.ub.total_size = Size(l)
  /\ r.d.ub.parsed_ok # 0 /\ r.d.ub.parsed_bad = 0 =>
       /\ View(r.d.store.db) = R!Listed(l, DOMAIN l, DOMAIN l)
       /\ View(r.d.store.file) = R!Listed(l, DOMAIN l, DOMAIN l)

LEMMA Continued ==
  ASSUME NEW l \in Seq(Record), NEW n \in Nat, NEW s, NEW b, b.active,
         b.received = n * ChunkLen, n * ChunkLen < Size(l), b.total_size = Size(l),
         b.have_index <=> n # 0, n # 0 => b.last_index = IndexOf(n),
         At(l, s, b, n * ChunkLen),
         NEW k \in Nat \ {0}, k \in n - 1 .. n + 2, n = 0 => k = 1, NEW fault, NEW f,
         NEW r, r = userbin_continue(l, s, b, IndexOf(k), Chunk(l, k), fault, f)
  PROVE  \/ NotNext(n, k, s, b, r)
         \/ NextTaken(l, n, k, s, b, fault, r)
         \/ LastTaken(l, n, k, s, fault, f, r)
<1> DEFINE data == Chunk(l, k)
           index == IndexOf(k)
<1>1. CASE k # n + 1
  <2>1. n # 0 /\ b.have_index /\ b.last_index = IndexOf(n)
    BY <1>1
  <2>2. IndexOf(n + 1) = (b.last_index + 1) % IndexMod
    BY <2>1, Indices
  <2>3. IndexOf(k) # IndexOf(n + 1) /\ (IndexOf(k) = IndexOf(n) => k = n)
    <3>1. CASE k = n
      BY <2>1, <3>1, Indices
    <3>2. CASE k = n + 2
      <4>1. IndexOf(n + 2) # IndexOf(n + 1) /\ IndexOf(n + 2) # IndexOf(n)
        BY <2>1, Indices
      <4> QED BY <3>2, <4>1
    <3>3. CASE k = n - 1
      <4>1. IndexOf(k + 1) # IndexOf(k) /\ IndexOf(k + 2) # IndexOf(k)
        BY Indices
      <4>2. k + 1 = n /\ k + 2 = n + 1
        BY <3>3
      <4> QED BY <4>1, <4>2
    <3> QED BY <1>1, <3>1, <3>2, <3>3
  <2>4. ~Expected(b, index)
    BY <2>2, <2>3 DEF Expected
  <2>5. r = [d |-> [store |-> s, ub |-> b], st |-> IF index = b.last_index THEN "ok" ELSE "failed"]
    BY <2>1, <2>4 DEF userbin_continue
  <2> QED BY <1>1, <2>1, <2>3, <2>5 DEF NotNext
<1>2. CASE k = n + 1
  <2>1. b.have_index => Expected(b, index)
    <3>1. SUFFICES ASSUME n # 0 PROVE Expected(b, index)
      OBVIOUS
    <3>2. IndexOf(n + 1) = (IndexOf(n) + 1) % IndexMod
      BY <3>1, Indices
    <3> QED BY <1>2, <3>1, <3>2 DEF Expected
  <2>2. PICK e : e = Taken(l, s, b, index, data, fault)
    OBVIOUS
  <2>3. PICK m \in Nat, z \in Nat, c \in Nat :
          m = n * ChunkLen /\ z = Size(l) /\ c = (n + 1) * ChunkLen
    <3>1. Size(l) \in Nat /\ ChunkLen \in Nat
      BY SizeNat, StreamAssumption
    <3>2. n * ChunkLen \in Nat /\ (n + 1) * ChunkLen \in Nat
      BY <3>1
    <3> QED BY <3>1, <3>2
  <2>4. /\ Len(data) \in Nat \ {0} /\ m + Len(data) <= z
        /\ m + Len(data) < z => m + Len(data) = c
        /\ m + Len(data) < z <=> c < z
    BY <1>2, <2>3, ChunkUnits
  <2>5. /\ e = [store |-> e.store, ub |-> e.ub]
        /\ e.ub.received = m + Len(data)
        /\ At(l, e.store, e.ub, e.ub.received) /\ Settles(s, e.store)
        /\ e.ub.active /\ e.ub.total_size = z
        /\ e.ub.have_index /\ e.ub.last_index = IndexOf(n + 1)
        /\ fault = Undisturbed /\ Clear(l, s, b, m) => Clear(l, e.store, e.ub, e.ub.received)
        /\ fault = Undisturbed /\ s.txn => e.store.txn
    <3>1. /\ e = [store |-> e.store, ub |-> e.ub]
          /\ e.ub.received = n * ChunkLen + Len(data)
          /\ At(l, e.store, e.ub, e.ub.received) /\ Settles(s, e.store)
          /\ (e.ub.active <=> b.active) /\ e.ub.total_size = b.total_size
          /\ e.ub.have_index /\ e.ub.last_index = IndexOf(n + 1)
          /\ fault = Undisturbed /\ Clear(l, s, b, b.received)
               => Clear(l, e.store, e.ub, e.ub.received)
          /\ fault = Undisturbed /\ s.txn => e.store.txn
      BY <1>2, <2>2, ChunkTaken
    <3> QED BY <2>3, <3>1
  <2>6. ~(b.received + Len(data) > b.total_size)
    BY <2>3, <2>4
  <2>7. CASE e.ub.received < z
    <3>1. r = [d |-> e, st |-> "ok"]
      BY <2>1, <2>2, <2>3, <2>6, <2>7 DEF userbin_continue
    <3> QED BY <1>2, <2>3, <2>4, <2>5, <2>7, <3>1 DEF NextTaken
  <2>8. CASE ~(e.ub.received < z)
    <3>1. PICK g : g = finish(e, f)
      OBVIOUS
    <3>2. r = [d |-> g, st |-> "complete"]
      BY <2>1, <2>2, <2>3, <2>6, <2>8, <3>1 DEF userbin_continue
    <3>3. e.ub.received = z
      BY <2>4, <2>5, <2>8
    <3>4. g = finish([store |-> e.store, ub |-> e.ub], f)
      BY <2>5, <3>1
    <3>5. At(l, e.store, e.ub, Size(l)) /\ Sound(e.store) /\ e.store.loading /\ e.ub \in UserBin
      BY <2>3, <2>5, <3>3, AtFacts
    <3>6. /\ Sound(g.store) /\ ~g.store.loading /\ g.store.safe = e.store.safe
          /\ \/ Settles(e.store, g.store)
             \/ View(g.store.db) = Load(e.store.db) /\ View(g.store.file) = Load(e.store.db)
          /\ g.ub \in UserBin /\ ~g.ub.active /\ g.ub.rec = <<>>
          /\ g.ub.received = e.ub.received /\ g.ub.total_size = e.ub.total_size
          /\ g.ub.parsed_bad = e.ub.parsed_bad
          /\ g.ub.parsed_ok # 0 =>
               /\ g.ub.parsed_ok = e.ub.parsed_ok /\ (e.store.in_txn => e.store.txn)
               /\ View(g.store.db) = Load(e.store.db) /\ View(g.store.file) = Load(e.store.db)
          /\ f = "ok" /\ e.store.txn =>
               View(g.store.db) = Load(e.store.db) /\ View(g.store.file) = Load(e.store.db)
      BY <3>4, <3>5, Finished
    <3>7. /\ Load(e.store.db) \in R!Downloads(l)
          /\ e.ub.parsed_bad = 0 /\ (e.store.in_txn => e.store.txn)
               => Load(e.store.db) = R!Listed(l, DOMAIN l, DOMAIN l)
      BY <3>5, AtEnd
    <3>8. \/ Settles(s, g.store)
          \/ \E v \in R!Downloads(l) : View(g.store.db) = v /\ View(g.store.file) = v
      BY <2>5, <3>6, <3>7, SettlesTransitive
    <3>9. g.store.safe = s.safe
      BY <2>5, <3>6 DEF Settles
    <3>10. g.ub.parsed_ok # 0 /\ g.ub.parsed_bad = 0 =>
             /\ View(g.store.db) = R!Listed(l, DOMAIN l, DOMAIN l)
             /\ View(g.store.file) = R!Listed(l, DOMAIN l, DOMAIN l)
      BY <3>6, <3>7
    <3>11. fault = Undisturbed /\ f = "ok" /\ s.txn =>
             \E v \in R!Downloads(l) : View(g.store.db) = v /\ View(g.store.file) = v
      BY <2>5, <3>6, <3>7
    <3> QED BY <1>2, <2>3, <2>5, <3>2, <3>3, <3>6, <3>8, <3>9, <3>10, <3>11 DEF LastTaken
  <2> QED BY <2>7, <2>8
<1> QED BY <1>1, <1>2

-----------------------------------------------------------------------------
(* Steps.                                                                  *)

RosterStep == [R!RosterNext]_(R!rosterVars)

LEMMA SettlesRefines ==
  ASSUME Settles(store, store')
  PROVE  RosterStep
BY DEF Settles, RosterStep, R!rosterVars, R!RosterNext, R!Keep, R!Fallback

LEMMA SettlesReported ==
  ASSUME Reported, Settles(store, store'), told' = told, spent'.cuts = 0 => spent.cuts = 0
  PROVE  Reported'
BY DEF Reported, Settles

LEMMA SpendFacts ==
  ASSUME spent \in [faults : Nat, commands : Nat, cuts : Nat], NEW n \in Nat
  PROVE  /\ Spend("faults", n) => /\ spent' \in [faults : Nat, commands : Nat, cuts : Nat]
                                  /\ spent'.faults = spent.faults + n /\ spent'.cuts = spent.cuts
         /\ Spend("commands", n) => /\ spent' \in [faults : Nat, commands : Nat, cuts : Nat]
                                    /\ spent'.faults = spent.faults /\ spent'.cuts = spent.cuts
         /\ Spend("cuts", n) => /\ spent' \in [faults : Nat, commands : Nat, cuts : Nat]
                                /\ spent'.faults = spent.faults /\ spent'.cuts = spent.cuts + n
BY DEF Spend

LEMMA ListFacts ==
  ASSUME NEW l \in Lists
  PROVE  l \in Seq(Record) /\ l # <<>> /\ Size(l) \in Nat /\ Size(l) > 0 /\ Chunks(l) >= 1
<1>1. l \in Seq(Record) /\ l # <<>>
  BY ListsAssumption DEF Record
<1>2. Size(l) \in Nat /\ Chunks(l) \in Nat
  BY <1>1, SizeNat
<1>3. Len(l) \in Nat \ {0}
  BY <1>1
<1>4. Size(l) > 0
  BY <1>3, StreamAssumption DEF Size
<1>5. 0 * ChunkLen < Size(l) <=> 0 < Chunks(l)
  BY <1>1, ChunksLeft
<1>6. 0 * ChunkLen = 0
  BY StreamAssumption
<1> QED BY <1>1, <1>2, <1>4, <1>5, <1>6

(* No list is none in particular: it has no chunks.                        *)
LEMMA ChunksNat ==
  ASSUME NEW l \in Lists \cup {<<>>}
  PROVE  Chunks(l) \in Nat
<1>1. <<>> \in Seq(Record)
  OBVIOUS
<1> QED BY <1>1, ListFacts, SizeNat

(* An idle receiver.                                                       *)
LEMMA IdleFacts ==
  /\ Idle \in UserBin /\ ~Idle.active /\ Idle.rec = <<>>
  /\ Idle.received <= Idle.total_size
<1>1. 0 \in 0 .. IndexMod - 1 /\ <<>> \in Seq([i : Nat, at : Nat])
  BY StreamAssumption
<1> QED BY <1>1 DEF Idle, UserBin

(* DM asks for a transfer: one under way is dropped, and a new one begun.  *)
LEMMA StartStep ==
  ASSUME IInv, NEW l \in Lists, NEW valid \in BOOLEAN, NEW answered \in BOOLEAN, NEW f,
         handle_userbin_start(l, valid, f, answered)
  PROVE  IInv' /\ RosterStep
<1>1. PICK r : r = userbin_start(store, ub, Size(l), valid, f)
  OBVIOUS
<1>2. /\ store' = r.store /\ ub' = r.ub /\ taken' = 0
      /\ conn' = conn /\ told' = told
      /\ dm' = [phase |-> IF r.ok /\ answered THEN "sending" ELSE "idle", list |-> l, k |-> 1]
      /\ Spend("faults", IF f = "ok" THEN 0 ELSE 1)
  BY <1>1 DEF handle_userbin_start
<1>3. /\ Sound(store) /\ ub \in UserBin /\ (ub.active <=> store.loading)
      /\ ub.received <= ub.total_size /\ (~ub.active => ub.rec = <<>>)
      /\ conn \in BOOLEAN /\ told \in Lists \cup {<<>>}
      /\ spent \in [faults : Nat, commands : Nat, cuts : Nat]
  BY DEF IInv, TypesOK
<1>4. PICK a : a = userbin_abort(store, ub)
  OBVIOUS
<1>5. /\ a = [store |-> a.store, ub |-> a.ub]
      /\ Sound(a.store) /\ ~a.store.loading /\ Settles(store, a.store)
      /\ a.ub \in UserBin /\ ~a.ub.active /\ a.ub.rec = <<>>
      /\ a.ub.received <= a.ub.total_size
  BY <1>3, <1>4, Aborted
<1>6. PICK t : t = users_load_begin(a.store, f)
  OBVIOUS
<1>7. /\ Sound(t.store) /\ (t.store.loading <=> t.ok)
      /\ Settles(a.store, t.store)
  BY <1>5, <1>6, LoadBeginSound
<1>8. Settles(store, t.store)
  BY <1>5, <1>7, SettlesTransitive
<1>9. PICK b : b = [Idle EXCEPT !.active = TRUE, !.total_size = Size(l)]
  OBVIOUS
<1>10. /\ l \in Seq(Record) /\ Size(l) \in Nat /\ Size(l) > 0 /\ Chunks(l) >= 1 /\ Chunks(l) \in Nat
  BY ListFacts, ChunksNat
<1>11. spent' \in [faults : Nat, commands : Nat, cuts : Nat] /\ spent'.cuts = spent.cuts
  BY <1>2, <1>3, SpendFacts
<1>12. /\ dm' \in [phase : {"idle", "sending"}, list : Lists \cup {<<>>}, k : Nat]
       /\ dm'.list = l /\ dm'.k = 1
  BY <1>2
<1>13. /\ conn' \in BOOLEAN /\ told' \in Lists \cup {<<>>}
       /\ taken' \in 0 .. Chunks(dm'.list)
       /\ dm'.phase = "sending" => dm'.list \in Lists /\ dm'.k \in 1 .. Chunks(dm'.list)
  BY <1>2, <1>3, <1>10, <1>12
<1>14. CASE ~(valid /\ t.ok)
  <2>1. (store' = a.store \/ (store' = t.store /\ ~t.ok)) /\ ub' = a.ub
    BY <1>1, <1>2, <1>4, <1>6, <1>14 DEF userbin_start
  <2>2. Sound(store') /\ ~store'.loading /\ Settles(store, store')
    BY <1>5, <1>7, <1>8, <2>1
  <2>3. TypesOK'
    BY <1>5, <1>11, <1>12, <1>13, <2>1, <2>2 DEF TypesOK
  <2>4. Reported'
    BY <1>2, <1>11, <2>2, SettlesReported DEF IInv
  <2>5. RosterStep
    BY <2>2, SettlesRefines
  <2> QED BY <1>5, <2>1, <2>3, <2>4, <2>5 DEF IInv
<1>15. CASE valid /\ t.ok
  <2>1. store' = t.store /\ ub' = b
    BY <1>1, <1>2, <1>4, <1>6, <1>9, <1>15 DEF userbin_start
  <2>2. /\ b \in UserBin /\ b.active /\ b.total_size = Size(l) /\ b.received = 0 /\ ~b.have_index
        /\ At(l, t.store, b, 0) /\ Clear(l, t.store, b, 0)
    BY <1>5, <1>6, <1>9, <1>10, <1>15, Started
  <2>3. TypesOK'
    BY <1>7, <1>10, <1>11, <1>12, <1>13, <1>15, <2>1, <2>2 DEF TypesOK
  <2>4. Reported'
    BY <1>2, <1>8, <1>11, <2>1, SettlesReported DEF IInv
  <2>5. RosterStep
    BY <1>8, <2>1, SettlesRefines
  <2>6. Sending(0)'
    <3>1. 0 * ChunkLen = 0
      BY StreamAssumption
    <3> QED BY <1>2, <1>10, <1>12, <2>1, <2>2, <3>1 DEF Sending
  <2> QED BY <2>3, <2>4, <2>5, <2>6 DEF IInv
<1> QED BY <1>14, <1>15

LEMMA ReplaceRefines ==
  ASSUME NEW l \in Lists, NEW v \in R!Downloads(l), View(store'.db) = v, View(store'.file) = v,
         store'.safe = store.safe
  PROVE  RosterStep
<1>1. v \in R!Downloaded
  BY DEF R!Downloaded
<1> QED BY <1>1 DEF RosterStep, R!rosterVars, R!RosterNext, R!Replace

(* DM sends a chunk: the one it is at, or, past the first, one too far.    *)
LEMMA ContinueStep ==
  ASSUME IInv, NEW k \in {dm.k, dm.k + 1}, k <= Chunks(dm.list), k # dm.k => dm.k >= 2,
         NEW fault, NEW f, NEW answered \in BOOLEAN,
         handle_userbin_continue(k, fault, f, answered)
  PROVE  IInv' /\ RosterStep
<1>1. PICK l : l = dm.list
  OBVIOUS
<1>2. PICK r : r = userbin_continue(l, store, ub, IndexOf(k), Chunk(l, k), fault, f)
  OBVIOUS
<1>3. /\ dm.phase = "sending" /\ store' = r.d.store /\ ub' = r.d.ub /\ conn' = conn
      /\ taken' = IF r.d.ub = ub THEN taken ELSE taken + 1
      /\ told' = IF r.st # "complete" THEN told
                 ELSE IF userbin_result_event(r.d.ub) = "success" THEN l ELSE <<>>
      /\ dm' = IF ~answered \/ r.st = "failed" \/ k # dm.k THEN dm
               ELSE IF k = Chunks(l) THEN [dm EXCEPT !.phase = "idle"] ELSE [dm EXCEPT !.k = @ + 1]
      /\ Spend("faults", IF fault = Undisturbed /\ f = "ok" THEN 0 ELSE 1)
  BY <1>1, <1>2 DEF handle_userbin_continue
<1>4. /\ Sound(store) /\ ub \in UserBin /\ (ub.active <=> store.loading)
      /\ ub.received <= ub.total_size /\ (~ub.active => ub.rec = <<>>)
      /\ conn \in BOOLEAN /\ told \in Lists \cup {<<>>}
      /\ dm \in [phase : {"idle", "sending"}, list : Lists \cup {<<>>}, k : Nat]
      /\ l \in Lists /\ dm.k \in 1 .. Chunks(l) /\ taken \in 0 .. Chunks(l)
      /\ spent \in [faults : Nat, commands : Nat, cuts : Nat]
  BY <1>1, <1>3 DEF IInv, TypesOK
<1>5. l \in Seq(Record) /\ Size(l) \in Nat /\ Chunks(l) \in Nat
  BY <1>4, ListFacts, ChunksNat
<1>6. /\ spent' \in [faults : Nat, commands : Nat, cuts : Nat] /\ spent'.cuts = spent.cuts
      /\ spent'.faults = 0 => spent.faults = 0 /\ fault = Undisturbed
  <2>1. CASE fault = Undisturbed /\ f = "ok"
    <3>1. Spend("faults", 0)
      BY <1>3, <2>1
    <3>2. /\ spent' \in [faults : Nat, commands : Nat, cuts : Nat]
          /\ spent'.faults = spent.faults + 0 /\ spent'.cuts = spent.cuts
      BY <1>4, <3>1, SpendFacts
    <3>3. spent.faults + 0 = spent.faults
      BY <1>4
    <3> QED BY <2>1, <3>2, <3>3
  <2>2. CASE ~(fault = Undisturbed /\ f = "ok")
    <3>1. Spend("faults", 1)
      BY <1>3, <2>2
    <3>2. /\ spent' \in [faults : Nat, commands : Nat, cuts : Nat]
          /\ spent'.faults = spent.faults + 1 /\ spent'.cuts = spent.cuts
      BY <1>4, <3>1, SpendFacts
    <3>3. spent.faults + 1 # 0
      BY <1>4
    <3> QED BY <3>2, <3>3
  <2> QED BY <2>1, <2>2
<1>7. /\ dm' \in [phase : {"idle", "sending"}, list : Lists \cup {<<>>}, k : Nat]
      /\ dm'.list = l
      /\ dm'.phase = "sending" =>
           \/ dm'.k = dm.k
           \/ dm'.k = dm.k + 1 /\ r.st # "failed" /\ k = dm.k /\ k # Chunks(l)
  BY <1>1, <1>3, <1>4
<1>8. dm'.phase = "sending" => dm'.list \in Lists /\ dm'.k \in 1 .. Chunks(dm'.list)
  BY <1>1, <1>4, <1>5, <1>7
<1>9. conn' \in BOOLEAN
  BY <1>3, <1>4
<1>10. CASE ~ub.active
  <2>1. r.d = [store |-> store, ub |-> ub] /\ r.st = "failed"
    BY <1>2, <1>10 DEF userbin_continue
  <2>2. store' = store /\ ub' = ub /\ taken' = taken /\ told' = told
    BY <1>3, <2>1
  <2>3. Settles(store, store')
    BY <2>2 DEF Settles
  <2>4. TypesOK'
    BY <1>4, <1>6, <1>7, <1>8, <1>9, <2>2 DEF TypesOK
  <2>5. Reported'
    BY <1>6, <2>2, <2>3, SettlesReported DEF IInv
  <2> QED BY <1>10, <2>2, <2>3, <2>4, <2>5, SettlesRefines DEF IInv
<1>11. CASE ub.active
  <2>1. PICK n \in Nat : Sending(n)
    BY <1>11 DEF IInv
  <2>2. /\ ub.received = n * ChunkLen /\ n * ChunkLen < Size(l) /\ ub.total_size = Size(l)
        /\ ub.have_index <=> n # 0
        /\ n # 0 => ub.last_index = IndexOf(n)
        /\ taken <= n /\ dm.k \in n - 1 .. n + 1
        /\ At(l, store, ub, n * ChunkLen)
        /\ spent.faults = 0 => Clear(l, store, ub, n * ChunkLen)
    BY <1>1, <1>3, <2>1 DEF Sending
  <2>3. k \in Nat \ {0} /\ k \in n - 1 .. n + 2 /\ (n = 0 => k = 1)
    BY <1>4, <2>2
  <2>4. \/ NotNext(n, k, store, ub, r)
        \/ NextTaken(l, n, k, store, ub, fault, r)
        \/ LastTaken(l, n, k, store, fault, f, r)
    BY <1>2, <1>5, <1>11, <2>2, <2>3, Continued
  <2>5. n + 1 <= Chunks(l) /\ ((n + 1) * ChunkLen < Size(l) => n + 1 < Chunks(l))
    <3>1. n < Chunks(l)
      BY <1>5, <2>2, ChunksLeft
    <3>2. n + 1 \in Nat
      OBVIOUS
    <3>3. (n + 1) * ChunkLen < Size(l) <=> n + 1 < Chunks(l)
      BY <1>5, <3>2, ChunksLeft
    <3> QED BY <1>5, <3>1, <3>3
  <2>6. CASE NotNext(n, k, store, ub, r)
    <3>1. r.d = [store |-> store, ub |-> ub] /\ r.st # "complete" /\ (r.st # "failed" => k = n)
      BY <2>6 DEF NotNext
    <3>2. store' = store /\ ub' = ub /\ taken' = taken /\ told' = told
      BY <1>3, <3>1
    <3>3. Settles(store, store')
      BY <3>2 DEF Settles
    <3>4. TypesOK'
      BY <1>4, <1>6, <1>7, <1>8, <1>9, <3>2 DEF TypesOK
    <3>5. Reported'
      BY <1>6, <3>2, <3>3, SettlesReported DEF IInv
    <3>6. dm'.phase = "sending" => dm'.k \in n - 1 .. n + 1
      BY <1>4, <1>7, <2>2, <3>1
    <3>7. Sending(n)'
      BY <1>1, <1>6, <1>7, <2>1, <3>2, <3>6 DEF Sending
    <3> QED BY <3>3, <3>4, <3>5, <3>7, SettlesRefines DEF IInv
  <2>7. CASE NextTaken(l, n, k, store, ub, fault, r)
    <3>1. /\ (n + 1) * ChunkLen < Size(l)
          /\ ub'.active /\ ub'.total_size = Size(l)
          /\ ub'.received = (n + 1) * ChunkLen
          /\ ub'.have_index /\ ub'.last_index = IndexOf(n + 1)
          /\ At(l, store', ub', ub'.received) /\ Settles(store, store')
          /\ fault = Undisturbed /\ Clear(l, store, ub, n * ChunkLen)
               => Clear(l, store', ub', ub'.received)
          /\ told' = told /\ k = n + 1
      BY <1>3, <2>7 DEF NextTaken
    <3>2. Sound(store') /\ store'.loading /\ ub' \in UserBin
      BY <3>1, AtFacts
    <3>3. taken' \in 0 .. n + 1 /\ taken' \in 0 .. Chunks(l)
      BY <1>3, <1>4, <1>5, <2>2, <2>5
    <3>4. ub'.received <= ub'.total_size /\ ub'.received < ub'.total_size
      <4>1. PICK c \in Nat, y \in Nat : c = (n + 1) * ChunkLen /\ y = Size(l)
        <5>1. (n + 1) * ChunkLen \in Nat
          BY StreamAssumption
        <5> QED BY <1>5, <5>1
      <4> QED BY <3>1, <4>1
    <3>5. TypesOK'
      BY <1>3, <1>4, <1>6, <1>7, <1>8, <1>9, <3>1, <3>2, <3>3, <3>4 DEF TypesOK
    <3>6. Reported'
      BY <1>6, <3>1, SettlesReported DEF IInv
    <3>7. dm'.phase = "sending" => dm'.k \in (n + 1) - 1 .. (n + 1) + 1
      BY <1>4, <1>7, <2>2, <3>1
    <3>8. spent'.faults = 0 => Clear(l, store', ub', ub'.received)
      BY <1>6, <2>2, <3>1
    <3>9. n + 1 \in Nat /\ n + 1 # 0
      OBVIOUS
    <3>10. Sending(n + 1)'
      BY <1>4, <1>7, <3>1, <3>3, <3>4, <3>7, <3>8, <3>9 DEF Sending
    <3> QED BY <3>1, <3>5, <3>6, <3>9, <3>10, SettlesRefines DEF IInv
  <2>8. CASE LastTaken(l, n, k, store, fault, f, r)
    <3>1. /\ r.st = "complete" /\ Sound(store') /\ ~store'.loading /\ store'.safe = store.safe
          /\ \/ Settles(store, store')
             \/ \E v \in R!Downloads(l) : View(store'.db) = v /\ View(store'.file) = v
          /\ ub' \in UserBin /\ ~ub'.active /\ ub'.rec = <<>>
          /\ ub'.received = Size(l) /\ ub'.total_size = Size(l)
          /\ ub'.parsed_ok # 0 /\ ub'.parsed_bad = 0 =>
               /\ View(store'.db) = R!Listed(l, DOMAIN l, DOMAIN l)
               /\ View(store'.file) = R!Listed(l, DOMAIN l, DOMAIN l)
      BY <1>3, <2>8 DEF LastTaken
    <3>2. told' = IF userbin_result_event(ub') = "success" THEN l ELSE <<>>
      BY <1>3, <3>1
    <3>3. userbin_result_event(ub') = "success" => ub'.parsed_ok # 0 /\ ub'.parsed_bad = 0
      BY <3>1 DEF userbin_result_event, UserBin
    <3>4. told' \in Lists \cup {<<>>}
      BY <1>4, <3>2
    <3>5. taken' \in 0 .. Chunks(l)
      BY <1>3, <1>4, <1>5, <2>2, <2>5
    <3>6. ub'.received <= ub'.total_size
      BY <1>5, <3>1
    <3>7. TypesOK'
      BY <1>6, <1>7, <1>8, <1>9, <3>1, <3>4, <3>5, <3>6 DEF TypesOK
    <3>8. Reported'
      BY <3>1, <3>2, <3>3 DEF Reported
    <3>9. RosterStep
      BY <1>4, <3>1, SettlesRefines, ReplaceRefines
    <3> QED BY <3>1, <3>7, <3>8, <3>9 DEF IInv
  <2> QED BY <2>4, <2>6, <2>7, <2>8
<1> QED BY <1>10, <1>11

(* DM gives a transfer up; the port is another one.                        *)
LEMMA QuietStep ==
  ASSUME IInv, dm_give_up \/ reload_port
  PROVE  IInv' /\ RosterStep
<1>1. /\ Sound(store) /\ ub \in UserBin /\ conn \in BOOLEAN
      /\ dm \in [phase : {"idle", "sending"}, list : Lists \cup {<<>>}, k : Nat]
  BY DEF IInv, TypesOK
<1>2. Chunks(dm.list) \in Nat
  BY <1>1, ChunksNat
<1>3. store' = store /\ ub' = ub /\ told' = told /\ spent' = spent /\ conn' \in BOOLEAN
  BY <1>1 DEF dm_give_up, reload_port
<1>4. /\ dm' \in [phase : {"idle", "sending"}, list : Lists \cup {<<>>}, k : Nat]
      /\ dm'.list = dm.list /\ dm'.k = dm.k
      /\ dm'.phase = "sending" => dm.phase = "sending"
  BY <1>1 DEF dm_give_up, reload_port
<1>5. taken' = taken \/ taken' = 0
  BY DEF dm_give_up, reload_port
<1>6. TypesOK'
  BY <1>2, <1>3, <1>4, <1>5 DEF IInv, TypesOK
<1>7. Reported'
  BY <1>3 DEF IInv, Reported
<1>8. ASSUME NEW n \in Nat, Sending(n)
      PROVE  Sending(n)'
  BY <1>3, <1>4, <1>5, <1>8 DEF Sending
<1>9. RosterStep
  BY <1>3 DEF RosterStep, R!rosterVars
<1> QED BY <1>3, <1>6, <1>7, <1>8, <1>9 DEF IInv

(* The connection is lost, or replaced by another.                         *)
LEMMA DroppedStep ==
  ASSUME IInv, Dropped, conn' \in BOOLEAN, UNCHANGED <<dm, told, spent>>
  PROVE  IInv' /\ RosterStep
<1>1. /\ Sound(store) /\ ub \in UserBin /\ (ub.active <=> store.loading)
      /\ ub.received <= ub.total_size /\ (~ub.active => ub.rec = <<>>)
      /\ dm \in [phase : {"idle", "sending"}, list : Lists \cup {<<>>}, k : Nat]
  BY DEF IInv, TypesOK
<1>2. PICK a : a = userbin_abort(store, ub)
  OBVIOUS
<1>3. store' = a.store /\ ub' = a.ub /\ taken' = 0
  BY <1>2 DEF Dropped
<1>4. /\ Sound(store') /\ ~store'.loading /\ Settles(store, store')
      /\ ub' \in UserBin /\ ~ub'.active /\ ub'.rec = <<>> /\ ub'.received <= ub'.total_size
  BY <1>1, <1>2, <1>3, Aborted
<1>5. Chunks(dm.list) \in Nat
  BY <1>1, ChunksNat
<1>6. TypesOK'
  BY <1>3, <1>4, <1>5 DEF IInv, TypesOK
<1>7. Reported'
  BY <1>4, SettlesReported DEF IInv
<1> QED BY <1>4, <1>6, <1>7, SettlesRefines DEF IInv

(* A new connection where there was none.                                  *)
LEMMA ConnectedStep ==
  ASSUME IInv, ~conn, net_on_listen_ready
  PROVE  IInv' /\ RosterStep
<1>1. dm \in [phase : {"idle", "sending"}, list : Lists \cup {<<>>}, k : Nat]
  BY DEF IInv, TypesOK
<1>2. /\ store' = store /\ ub' = ub /\ dm' = dm /\ told' = told /\ spent' = spent
      /\ taken' = 0 /\ conn' = TRUE
  BY DEF net_on_listen_ready
<1>3. Chunks(dm.list) \in Nat
  BY <1>1, ChunksNat
<1>4. TypesOK'
  BY <1>2, <1>3 DEF IInv, TypesOK
<1>5. Reported'
  BY <1>2 DEF IInv, Reported
<1>6. ASSUME NEW n \in Nat, Sending(n)
      PROVE  Sending(n)'
  BY <1>2, <1>6 DEF Sending
<1>7. RosterStep
  BY <1>2 DEF RosterStep, R!rosterVars
<1> QED BY <1>2, <1>4, <1>5, <1>6, <1>7 DEF IInv

(* A change of one user leaves the load as it is, unless it takes back the *)
(* batch that is open.                                                     *)
LEMMA TouchedKeeps ==
  ASSUME NEW l, NEW s, NEW b, NEW m, At(l, s, b, m), NEW t, NEW u, Touched(s, t, u)
  PROVE  /\ At(l, t, b, m)
         /\ (t.txn <=> s.txn) /\ Clear(l, s, b, m) => Clear(l, t, b, m)
<1>1. PICK w, r : w = m \div RecLen /\ r = m % RecLen
  OBVIOUS
<1>2. Digested(l, s, b, w, r)
  BY <1>1 DEF At
<1>3. /\ Sound(t) /\ t.loading /\ Load(t.file) = Load(s.file) /\ (t.in_txn <=> s.in_txn)
      /\ \/ Load(t.db) = Load(s.db) /\ (t.txn <=> s.txn)
         \/ Load(t.db) = Load(s.file) /\ ~t.txn
  BY <1>2 DEF Touched, Digested
<1>4. (t.in_txn => t.txn) => Load(t.db) = Load(s.db) /\ (s.in_txn => s.txn)
  <2>1. CASE Load(t.db) = Load(s.db) /\ (t.txn <=> s.txn)
    BY <1>3, <2>1
  <2>2. CASE Load(t.db) = Load(s.file) /\ ~t.txn /\ ~t.in_txn
    <3>1. ~s.in_txn /\ s.db = s.file
      BY <1>2, <1>3, <2>2 DEF Digested, Sound
    <3> QED BY <2>2, <3>1
  <2> QED BY <1>3, <2>1, <2>2
<1>5. Load(t.db) \in Arrived(l, w) /\ Load(t.file) \in Arrived(l, w)
  BY <1>2, <1>3 DEF Digested
<1>6. Digested(l, t, b, w, r)
  BY <1>2, <1>3, <1>4, <1>5 DEF Digested
<1> QED BY <1>1, <1>6 DEF At, Clear, Clean

(* A statement that is refused is counted.                                 *)
LEMMA RefusedCount ==
  ASSUME NEW f, NEW g, NEW n, n = Cardinality({i \in {1, 2} : <<f, g>>[i] # "ok"})
  PROVE  n \in Nat /\ (n = 0 => f = "ok" /\ g = "ok")
<1>1. PICK S : S = {i \in {1, 2} : <<f, g>>[i] # "ok"}
  OBVIOUS
<1>2. IsFiniteSet(S)
  <2>1. IsFiniteSet(1 .. 2)
    <3>1. 1 \in Int /\ 2 \in Int
      OBVIOUS
    <3> QED BY <3>1, FS_Interval
  <2>2. S \in SUBSET (1 .. 2)
    BY <1>1
  <2> QED BY <2>1, <2>2, FS_Subset
<1>3. Cardinality(S) \in Nat /\ (Cardinality(S) = 0 => S = {})
  BY <1>2, FS_CardinalityType, FS_EmptySet
<1>4. S = {} => f = "ok" /\ g = "ok"
  BY <1>1
<1> QED BY <1>1, <1>3, <1>4

(* A command about one user.                                               *)
LEMMA CommandStep ==
  ASSUME IInv, NEW u \in Users, NEW f, NEW g, NEW done,
         Touched(store, done.store, u),
         f = "ok" /\ g = "ok" => (done.store.txn <=> store.txn),
         handle_usercmd_request(f, g, done)
  PROVE  IInv' /\ RosterStep
<1>1. PICK n : n = Cardinality({i \in {1, 2} : <<f, g>>[i] # "ok"})
  OBVIOUS
<1>2. n \in Nat /\ (n = 0 => f = "ok" /\ g = "ok")
  BY <1>1, RefusedCount
<1>3. /\ store' = done.store /\ told' = <<>>
      /\ spent' = [spent EXCEPT !.commands = @ + 1, !.faults = @ + n]
      /\ ub' = ub /\ conn' = conn /\ dm' = dm /\ taken' = taken
  BY <1>1 DEF handle_usercmd_request
<1>4. Sound(store) /\ spent \in [faults : Nat, commands : Nat, cuts : Nat]
  BY DEF IInv, TypesOK
<1>5. /\ spent' \in [faults : Nat, commands : Nat, cuts : Nat]
      /\ spent'.faults = spent.faults + n
  <2>1. PICK c \in Nat, x \in Nat : c = spent.commands + 1 /\ x = spent.faults + n
    <3>1. spent.commands \in Nat /\ spent.faults \in Nat
      BY <1>4
    <3>2. spent.commands + 1 \in Nat /\ spent.faults + n \in Nat
      BY <1>2, <3>1
    <3> QED BY <3>2
  <2>2. spent' = [spent EXCEPT !.commands = c, !.faults = x]
    BY <1>3, <1>4, <2>1
  <2>3. spent' \in [faults : Nat, commands : Nat, cuts : Nat] /\ spent'.faults = x
    BY <1>4, <2>1, <2>2
  <2> QED BY <2>1, <2>3
<1>6. Touched(store, store', u) /\ (f = "ok" /\ g = "ok" => (store'.txn <=> store.txn))
  BY <1>3
<1>7. Sound(store') /\ (store'.loading <=> store.loading) /\ store'.safe = store.safe
  BY <1>6 DEF Touched
<1>8. TypesOK'
  BY <1>3, <1>5, <1>7 DEF IInv, TypesOK
<1>9. Reported'
  BY <1>3 DEF Reported
<1>10. ASSUME NEW c \in Nat, Sending(c)
       PROVE  Sending(c)'
  <2>1. /\ At(dm.list, store', ub, ub.received)
        /\ (store'.txn <=> store.txn) /\ Clear(dm.list, store, ub, ub.received)
             => Clear(dm.list, store', ub, ub.received)
    BY <1>6, <1>10, TouchedKeeps DEF Sending
  <2>2. spent'.faults = 0 => spent.faults = 0 /\ f = "ok" /\ g = "ok"
    BY <1>2, <1>4, <1>5
  <2> QED BY <1>3, <1>6, <1>10, <2>1, <2>2 DEF Sending
<1>11. RosterStep
  <2>1. View(store'.db) \in R!Rosters
    BY <1>7 DEF Sound, Store, Tables, View, R!Rosters
  <2>2. /\ \E r \in {View(store.db), View(store.file)} : R!Same(View(store'.db), r, u)
        /\ View(store'.file) \in {View(store.file), View(store'.db)}
    BY <1>6 DEF Touched
  <2> QED BY <1>7, <2>1, <2>2 DEF RosterStep, R!rosterVars, R!RosterNext, R!ChangeOne
<1> QED BY <1>3, <1>8, <1>9, <1>10, <1>11 DEF IInv

(* The process ends, and the next one opens what it finds.                 *)
LEMMA RestartStep ==
  ASSUME IInv, NEW file \in Tables, NEW safe \in Tables, Restart(file, safe),
         told' \in Lists \cup {<<>>}, spent' \in [faults : Nat, commands : Nat, cuts : Nat]
  PROVE  /\ TypesOK' /\ ~ub'.active /\ store'.safe = safe
         /\ View(store'.db) = R!Seeded(View(file)) /\ View(store'.file) = View(store'.db)
<1>1. /\ store' = users_open(file, safe)
      /\ ub' = Idle /\ conn' = FALSE /\ taken' = 0 /\ dm' = dm
  BY DEF Restart
<1>2. /\ Sound(store') /\ ~store'.loading /\ store'.safe = safe
      /\ View(store'.db) = R!Seeded(View(file)) /\ View(store'.file) = View(store'.db)
  BY <1>1, OpenSound
<1>3. /\ dm \in [phase : {"idle", "sending"}, list : Lists \cup {<<>>}, k : Nat]
      /\ dm.phase = "sending" => dm.list \in Lists /\ dm.k \in 1 .. Chunks(dm.list)
  BY DEF IInv, TypesOK
<1>4. Chunks(dm.list) \in Nat
  BY <1>3, ChunksNat
<1>5. /\ ub' \in UserBin /\ ~ub'.active /\ ub'.rec = <<>> /\ ub'.received <= ub'.total_size
  BY <1>1, IdleFacts
<1>6. /\ dm' \in [phase : {"idle", "sending"}, list : Lists \cup {<<>>}, k : Nat]
      /\ dm'.phase = "sending" => dm'.list \in Lists /\ dm'.k \in 1 .. Chunks(dm'.list)
      /\ conn' \in BOOLEAN /\ taken' \in 0 .. Chunks(dm'.list)
  <2>1. conn' \in BOOLEAN
    BY <1>1
  <2>2. dm' = dm /\ taken' = 0
    BY <1>1
  <2> QED BY <1>3, <1>4, <2>1, <2>2
<1>7. TypesOK'
  BY <1>2, <1>5, <1>6 DEF TypesOK
<1> QED BY <1>2, <1>5, <1>7

(* A list that was downloaded has users.                                   *)
LEMMA ToldKept ==
  ASSUME NEW l \in Lists
  PROVE  R!Seeded(R!Listed(l, DOMAIN l, DOMAIN l)) = R!Listed(l, DOMAIN l, DOMAIN l)
<1>1. l \in Seq(Record) /\ l # <<>>
  BY ListFacts
<1>2. 1 \in DOMAIN l
  BY <1>1
<1>3. l[1].user \in {l[i].user : i \in DOMAIN l}
  BY <1>2
<1>4. {l[i].user : i \in DOMAIN l} # {}
  BY <1>3
<1>5. R!Listed(l, DOMAIN l, DOMAIN l).users = {l[i].user : i \in DOMAIN l}
  BY DEF R!Listed
<1> QED BY <1>4, <1>5 DEF R!Seeded

LEMMA CrashStep ==
  ASSUME IInv, Crash
  PROVE  IInv' /\ RosterStep
<1>1. /\ store.file \in Tables /\ store.safe \in Tables
      /\ told \in Lists \cup {<<>>} /\ spent \in [faults : Nat, commands : Nat, cuts : Nat]
  BY DEF IInv, TypesOK, Sound, Store
<1>2. Restart(store.file, store.safe) /\ told' = told /\ spent' = spent
  BY DEF Crash
<1>3. /\ TypesOK' /\ ~ub'.active /\ store'.safe = store.safe
      /\ View(store'.db) = R!Seeded(View(store.file)) /\ View(store'.file) = View(store'.db)
  BY <1>1, <1>2, RestartStep
<1>4. Reported'
  <2> SUFFICES ASSUME told # <<>>, spent.cuts = 0
               PROVE  View(store'.db) = R!Listed(told, DOMAIN told, DOMAIN told)
    BY <1>2, <1>3 DEF Reported
  <2>1. View(store.file) = R!Listed(told, DOMAIN told, DOMAIN told)
    BY DEF IInv, Reported
  <2>2. told \in Lists
    BY <1>1
  <2> QED BY <1>3, <2>1, <2>2, ToldKept
<1>5. RosterStep
  BY <1>3 DEF RosterStep, R!rosterVars, R!RosterNext, R!Reopen, R!Reopened
<1> QED BY <1>3, <1>4, <1>5 DEF IInv

(* What one statement of a command can leave in the file.                  *)
LEMMA CommandCut ==
  ASSUME Sound(store), NEW u \in Users,
         NEW file, file \in {users_put(store, u, "ok").store.file, CardsDeleted(store, u, "ok").file}
  PROVE  file \in Tables /\ R!Same(View(file), View(store.file), u)
<1>1. store.db \in Tables /\ store.file \in Tables /\ (~store.txn => store.db = store.file)
  BY DEF Sound, Store
<1>2. PICK x : x = [store.db EXCEPT !.users = @ \cup {u}]
  OBVIOUS
<1>3. PICK y : y = [store.db EXCEPT !.cards = [c \in Cards |-> IF @[c] = u THEN NoUser ELSE @[c]]]
  OBVIOUS
<1>4. /\ x \in Tables /\ R!Same(View(x), View(store.db), u)
      /\ y \in Tables /\ R!Same(View(y), View(store.db), u)
  BY <1>1, <1>2, <1>3, SeedAssumption, OneChanged
<1>5. PICK e, g : e = Executed(store, x, "ok") /\ g = Executed(store, y, "ok")
  OBVIOUS
<1>6. /\ (store.txn => e.file = store.file) /\ (~store.txn => e.file = x)
      /\ (store.txn => g.file = store.file) /\ (~store.txn => g.file = y)
  <2>1. "ok" \in Outcomes
    BY DEF Outcomes
  <2>2. (store.txn => e.file = store.file) /\ (~store.txn => e.file = x)
    BY <1>4, <1>5, <2>1, ExecutedSound
  <2>3. (store.txn => g.file = store.file) /\ (~store.txn => g.file = y)
    BY <1>4, <1>5, <2>1, ExecutedSound
  <2> QED BY <2>2, <2>3
<1>7. file \in {store.file, e.file, g.file}
  BY <1>2, <1>3, <1>5 DEF users_put, CardsDeleted, Failed
<1>8. R!Same(View(store.file), View(store.file), u)
  BY SameUser
<1> QED BY <1>1, <1>4, <1>6, <1>7, <1>8

LEMMA CrashInCommandStep ==
  ASSUME IInv, CrashInCommand
  PROVE  IInv' /\ RosterStep
<1>1. /\ Sound(store) /\ store.safe \in Tables
      /\ spent \in [faults : Nat, commands : Nat, cuts : Nat]
  BY DEF IInv, TypesOK, Sound, Store
<1>2. PICK u \in Users :
        \/ Restart(users_put(store, u, "ok").store.file, store.safe)
        \/ Restart(CardsDeleted(store, u, "ok").file, store.safe)
  BY DEF CrashInCommand
<1>3. PICK file : /\ Restart(file, store.safe)
                  /\ file \in {users_put(store, u, "ok").store.file, CardsDeleted(store, u, "ok").file}
  BY <1>2
<1>4. file \in Tables /\ R!Same(View(file), View(store.file), u)
  BY <1>1, <1>3, CommandCut
<1>5. told' = <<>> /\ spent' \in [faults : Nat, commands : Nat, cuts : Nat]
  BY <1>1, SpendFacts DEF CrashInCommand
<1>6. /\ TypesOK' /\ ~ub'.active /\ store'.safe = store.safe
      /\ View(store'.db) = R!Seeded(View(file)) /\ View(store'.file) = View(store'.db)
  BY <1>1, <1>3, <1>4, <1>5, RestartStep
<1>7. Reported'
  BY <1>5 DEF Reported
<1>8. RosterStep
  <2>1. View(file) \in R!Rosters
    BY <1>4 DEF Tables, View, R!Rosters
  <2>2. /\ View(store'.db) = R!Seeded(View(file)) /\ View(store'.file) = View(store'.db)
        /\ View(store'.safe) = View(store.safe)
    BY <1>6
  <2> QED BY <1>4, <2>1, <2>2 DEF RosterStep, R!rosterVars, R!RosterNext, R!Reopen, R!Reopened
<1> QED BY <1>6, <1>7, <1>8 DEF IInv

(* The tables are exchanged, and DM is told nothing: the list that is      *)
(* opened is the one downloaded, or the one there was.                     *)
LEMMA CrashInFinishStep ==
  ASSUME IInv, CrashInFinish
  PROVE  IInv' /\ RosterStep
<1>1. PICK l : l = dm.list
  OBVIOUS
<1>2. PICK k : k = dm.k
  OBVIOUS
<1>3. PICK r : r = userbin_continue(l, store, ub, IndexOf(k), Chunk(l, k), Undisturbed, "ok")
  OBVIOUS
<1>4. /\ dm.phase = "sending" /\ r.st = "complete"
      /\ Restart(r.d.store.file, store.safe) /\ told' = <<>> /\ spent' = spent
  BY <1>1, <1>2, <1>3 DEF CrashInFinish, Answered
<1>5. /\ Sound(store) /\ store.safe \in Tables
      /\ spent \in [faults : Nat, commands : Nat, cuts : Nat]
      /\ l \in Lists /\ dm.k \in 1 .. Chunks(l)
  BY <1>1, <1>4 DEF IInv, TypesOK, Sound, Store
<1>6. l \in Seq(Record) /\ Size(l) \in Nat /\ Chunks(l) \in Nat
  BY <1>5, ListFacts, ChunksNat
<1>7. ub.active
  BY <1>3, <1>4 DEF userbin_continue
<1>8. PICK n \in Nat : Sending(n)
  BY <1>7 DEF IInv
<1>9. /\ ub.received = n * ChunkLen /\ n * ChunkLen < Size(l) /\ ub.total_size = Size(l)
      /\ ub.have_index <=> n # 0
      /\ n # 0 => ub.last_index = IndexOf(n)
      /\ dm.k \in n - 1 .. n + 1
      /\ At(l, store, ub, n * ChunkLen)
  BY <1>1, <1>4, <1>8 DEF Sending
<1>10. k \in Nat \ {0} /\ k \in n - 1 .. n + 2 /\ (n = 0 => k = 1)
  BY <1>2, <1>5, <1>6, <1>9
<1>11. \/ NotNext(n, k, store, ub, r)
       \/ NextTaken(l, n, k, store, ub, Undisturbed, r)
       \/ LastTaken(l, n, k, store, Undisturbed, "ok", r)
  BY <1>3, <1>6, <1>7, <1>9, <1>10, Continued
<1>12. LastTaken(l, n, k, store, Undisturbed, "ok", r)
  BY <1>4, <1>11 DEF NotNext, NextTaken
<1>13. PICK file : file = r.d.store.file
  OBVIOUS
<1>14. /\ file \in Tables
       /\ View(file) \in R!Downloads(l) \/ View(file) = View(store.file)
  <2>1. file \in Tables
    BY <1>12, <1>13 DEF LastTaken, Sound, Store
  <2>2. CASE store.txn
    BY <1>12, <1>13, <2>1, <2>2 DEF LastTaken
  <2>3. CASE ~store.txn
    <3>1. store.db = store.file
      BY <1>5, <2>3 DEF Sound
    <3>2. CASE Settles(store, r.d.store)
      BY <1>13, <2>1, <3>1, <3>2 DEF Settles
    <3>3. CASE \E v \in R!Downloads(l) : View(r.d.store.db) = v /\ View(r.d.store.file) = v
      BY <1>13, <2>1, <3>3
    <3> QED BY <1>12, <3>2, <3>3 DEF LastTaken
  <2> QED BY <2>2, <2>3
<1>15. /\ TypesOK' /\ ~ub'.active /\ store'.safe = store.safe
       /\ View(store'.db) = R!Seeded(View(file)) /\ View(store'.file) = View(store'.db)
  BY <1>4, <1>5, <1>13, <1>14, RestartStep
<1>16. Reported'
  BY <1>4 DEF Reported
<1>17. RosterStep
  <2>1. View(file) \in R!Downloaded \/ View(file) = View(store.file)
    BY <1>5, <1>14 DEF R!Downloaded
  <2>2. View(store'.safe) = View(store.safe)
    BY <1>15
  <2> QED BY <1>15, <2>1, <2>2 DEF RosterStep, R!rosterVars, R!RosterNext, R!Reopen, R!Reopened
<1> QED BY <1>15, <1>16, <1>17 DEF IInv

LEMMA PowerCutStep ==
  ASSUME IInv, PowerCut
  PROVE  IInv' /\ RosterStep
<1>1. /\ store.file \in Tables /\ store.safe \in Tables
      /\ told \in Lists \cup {<<>>} /\ spent \in [faults : Nat, commands : Nat, cuts : Nat]
  BY DEF IInv, TypesOK, Sound, Store
<1>2. /\ Spend("cuts", 1) /\ told' = told
      /\ \/ Restart(store.file, store.file)
         \/ Restart(store.safe, store.safe)
  BY DEF PowerCut
<1>3. spent' \in [faults : Nat, commands : Nat, cuts : Nat] /\ spent'.cuts = spent.cuts + 1
  BY <1>1, <1>2, SpendFacts
<1>4. PICK file \in {store.file, store.safe} : Restart(file, file)
  BY <1>2
<1>5. /\ TypesOK' /\ ~ub'.active /\ store'.safe = file
      /\ View(store'.db) = R!Seeded(View(file)) /\ View(store'.file) = View(store'.db)
  BY <1>1, <1>2, <1>3, <1>4, RestartStep
<1>6. Reported'
  BY <1>1, <1>3 DEF Reported
<1>7. RosterStep
  <2>1. View(store'.safe) = View(file) /\ View(file) \in {View(store.file), View(store.safe)}
    BY <1>5
  <2> QED BY <1>5, <2>1 DEF RosterStep, R!rosterVars, R!RosterNext, R!Reopen, R!Reopened
<1> QED BY <1>5, <1>6, <1>7 DEF IInv

LEMMA CheckpointStep ==
  ASSUME IInv, Checkpoint
  PROVE  IInv' /\ RosterStep
<1>1. Sound(store)
  BY DEF IInv, TypesOK
<1>2. /\ store' = [store EXCEPT !.safe = store.file]
      /\ ub' = ub /\ conn' = conn /\ dm' = dm /\ taken' = taken /\ told' = told /\ spent' = spent
  BY DEF Checkpoint
<1>3. /\ Sound(store') /\ (store'.loading <=> store.loading)
      /\ (store'.txn <=> store.txn) /\ (store'.in_txn <=> store.in_txn)
      /\ store'.db = store.db /\ store'.file = store.file /\ store'.safe = store.file
  BY <1>1, <1>2 DEF Sound, Store
<1>4. TypesOK'
  BY <1>2, <1>3 DEF IInv, TypesOK
<1>5. Reported'
  BY <1>2, <1>3 DEF IInv, Reported
<1>6. ASSUME NEW n \in Nat, Sending(n)
      PROVE  Sending(n)'
  <2>1. /\ At(dm.list, store', ub, ub.received)
        /\ Clear(dm.list, store, ub, ub.received) => Clear(dm.list, store', ub, ub.received)
    BY <1>3, <1>6 DEF Sending, At, Digested, Clear, Clean
  <2> QED BY <1>2, <1>6, <2>1 DEF Sending
<1>7. RosterStep
  BY <1>3 DEF RosterStep, R!rosterVars, R!RosterNext, R!Sync
<1> QED BY <1>2, <1>4, <1>5, <1>6, <1>7 DEF IInv

-----------------------------------------------------------------------------
(* The theorems.                                                           *)

LEMMA SingleCommand ==
  ASSUME IInv, Command
  PROVE  IInv' /\ RosterStep
<1>1. Sound(store)
  BY DEF IInv, TypesOK
<1>2. PICK f \in Outcomes, g \in Outcomes, u \in Users :
        \/ \E c \in Cards \cup {NoCard} :
             handle_usercmd_request(f, g, usercmd_set(store, u, c, f, g))
        \/ handle_usercmd_request(f, g, usercmd_delete(store, u, f, g))
  BY DEF Command
<1>3. CASE \E c \in Cards \cup {NoCard} :
             handle_usercmd_request(f, g, usercmd_set(store, u, c, f, g))
  <2>1. PICK c \in Cards \cup {NoCard} :
          handle_usercmd_request(f, g, usercmd_set(store, u, c, f, g))
    BY <1>3
  <2>2. PICK done : done = usercmd_set(store, u, c, f, g)
    OBVIOUS
  <2>3. /\ Touched(store, done.store, u)
        /\ f = "ok" /\ g = "ok" => (done.store.txn <=> store.txn)
    BY <1>1, <2>2, SetTouches
  <2> QED BY <2>1, <2>2, <2>3, CommandStep
<1>4. CASE handle_usercmd_request(f, g, usercmd_delete(store, u, f, g))
  <2>1. PICK done : done = usercmd_delete(store, u, f, g)
    OBVIOUS
  <2>2. /\ Touched(store, done.store, u)
        /\ f = "ok" /\ g = "ok" => (done.store.txn <=> store.txn)
    BY <1>1, <2>1, DeleteTouches
  <2> QED BY <1>4, <2>1, <2>2, CommandStep
<1> QED BY <1>2, <1>3, <1>4

LEMMA Chunked ==
  ASSUME IInv, Continue
  PROVE  IInv' /\ RosterStep
<1>1. dm.phase = "sending"
  BY DEF Continue, handle_userbin_continue
<1>2. dm.list \in Lists /\ dm.k \in 1 .. Chunks(dm.list)
  BY <1>1 DEF IInv, TypesOK
<1>3. Chunks(dm.list) \in Nat
  BY <1>2, ChunksNat
<1>4. ASSUME NEW fault, NEW f, NEW answered \in BOOLEAN,
             handle_userbin_continue(dm.k, fault, f, answered)
      PROVE  IInv' /\ RosterStep
  <2>1. dm.k \in {dm.k, dm.k + 1} /\ dm.k <= Chunks(dm.list)
    BY <1>2, <1>3
  <2> QED BY <1>4, <2>1, ContinueStep
<1>5. CASE dm.k \in 2 .. Chunks(dm.list) - 1 /\ handle_userbin_continue(dm.k + 1, Undisturbed, "ok", TRUE)
  <2>1. dm.k + 1 \in {dm.k, dm.k + 1} /\ dm.k + 1 <= Chunks(dm.list) /\ dm.k >= 2
    BY <1>2, <1>3, <1>5
  <2>2. TRUE \in BOOLEAN
    OBVIOUS
  <2> QED BY <1>5, <2>1, <2>2, ContinueStep
<1>6. CASE \E fault, f : \E answered \in BOOLEAN : handle_userbin_continue(dm.k, fault, f, answered)
  BY <1>4, <1>6
<1>7. \/ dm.k \in 2 .. Chunks(dm.list) - 1 /\ handle_userbin_continue(dm.k + 1, Undisturbed, "ok", TRUE)
      \/ \E fault, f : \E answered \in BOOLEAN : handle_userbin_continue(dm.k, fault, f, answered)
  BY Zenon DEF Continue
<1> QED BY <1>5, <1>6, <1>7

(* Every step keeps the invariant and is one of the list's.                *)
LEMMA Stepwise ==
  ASSUME IInv, [Next]_vars
  PROVE  IInv' /\ RosterStep
<1>1. CASE \E l \in Lists, valid, answered \in BOOLEAN, f \in {"ok", "create", "begin"} :
             handle_userbin_start(l, valid, f, answered)
  BY <1>1, StartStep
<1>2. CASE net_drop_client
  <2>1. Dropped /\ conn' \in BOOLEAN /\ UNCHANGED <<dm, told, spent>>
    BY <1>2 DEF net_drop_client
  <2> QED BY <2>1, DroppedStep
<1>3. CASE net_on_listen_ready
  <2>1. CASE conn
    <3>1. Dropped /\ conn' \in BOOLEAN /\ UNCHANGED <<dm, told, spent>>
      BY <1>3, <2>1 DEF net_on_listen_ready
    <3> QED BY <3>1, DroppedStep
  <2> QED BY <1>3, <2>1, ConnectedStep
<1>4. CASE UNCHANGED vars
  <2>1. /\ store' = store /\ ub' = ub /\ conn' = conn /\ dm' = dm
        /\ taken' = taken /\ told' = told /\ spent' = spent
    BY <1>4 DEF vars
  <2>2. TypesOK' /\ Reported'
    BY <2>1 DEF IInv, TypesOK, Reported
  <2>3. ASSUME NEW n \in Nat, Sending(n)
        PROVE  Sending(n)'
    BY <2>1, <2>3 DEF Sending
  <2> QED BY <2>1, <2>2, <2>3 DEF IInv, RosterStep, R!rosterVars
<1>5. CASE \/ Continue \/ dm_give_up \/ Command \/ reload_port
           \/ Crash \/ CrashInCommand \/ CrashInFinish \/ PowerCut \/ Checkpoint
  BY <1>5, Chunked, QuietStep, SingleCommand, CrashStep, CrashInCommandStep,
     CrashInFinishStep, PowerCutStep, CheckpointStep
<1> QED BY <1>1, <1>2, <1>3, <1>4, <1>5 DEF Next

LEMMA Initially ==
  ASSUME Init
  PROVE  IInv /\ R!RosterInit
<1>1. PICK t : t = users_seed_dummy(NewTables)
  OBVIOUS
<1>2. store = users_open(t, t) /\ ub = Idle /\ conn = FALSE /\ dm = AtRest /\ taken = 0
      /\ told = <<>> /\ spent = [faults |-> 0, commands |-> 0, cuts |-> 0]
  BY <1>1 DEF Init, StoreInit
<1>3. NewTables \in Tables /\ NewTables.users = {} /\ View(NewTables) = R!Nobody
  BY DEF NewTables, Tables, NoCards, View, R!Nobody
<1>4. t = [NewTables EXCEPT !.users = {SeedUser}, !.cards[SeedCard] = SeedUser]
  BY <1>1, <1>3 DEF users_seed_dummy
<1>5. t \in Tables /\ t.users # {} /\ View(t) = R!Seeded(R!Nobody)
  BY <1>3, <1>4, SeedAssumption DEF Tables, View, R!Seeded
<1>6. R!Seeded(View(t)) = View(t)
  BY <1>5 DEF R!Seeded, View
<1>7. /\ Sound(store) /\ ~store.loading /\ store.safe = t
      /\ View(store.db) = R!Seeded(View(t)) /\ View(store.file) = View(store.db)
  BY <1>2, <1>5, OpenSound
<1>8. /\ dm \in [phase : {"idle", "sending"}, list : Lists \cup {<<>>}, k : Nat]
      /\ dm.phase = "idle" /\ dm.list = <<>>
  BY <1>2 DEF AtRest
<1>9. Chunks(dm.list) \in Nat
  BY <1>8, ChunksNat
<1>10. TypesOK
  <2>1. conn \in BOOLEAN
    BY <1>2
  <2>2. ub = Idle /\ taken = 0 /\ told = <<>> /\ spent \in [faults : Nat, commands : Nat, cuts : Nat]
    BY <1>2
  <2> QED BY <1>7, <1>8, <1>9, <2>1, <2>2, IdleFacts DEF TypesOK
<1>11. IInv
  BY <1>2, <1>10, IdleFacts DEF IInv, Reported
<1>12. R!RosterInit
  BY <1>5, <1>6, <1>7 DEF R!RosterInit
<1> QED BY <1>11, <1>12

LEMMA Invariant == Spec => []IInv
<1>1. Init => IInv
  BY Initially
<1>2. IInv /\ [Next]_vars => IInv'
  BY Stepwise
<1> QED BY <1>1, <1>2, PTL DEF Spec

(* The store implements the list of users: a download replaces the list at *)
(* once or not at all, whatever is refused on the way and wherever the     *)
(* process or the power fails (users_load_commit, txn_commit, users_open). *)
THEOREM ImplementsRosterHolds == Spec => ImplementsRoster
<1>1. Init => R!RosterInit
  BY Initially
<1>2. IInv /\ [Next]_vars => RosterStep
  BY Stepwise
<1>3. RosterStep => [R!RosterNext]_(R!rosterVars)
  BY DEF RosterStep
<1> QED BY <1>1, <1>2, <1>3, Invariant, PTL DEF Spec, ImplementsRoster, R!RosterSpec

(* The list whose registration DM was told of is the one in use, until a   *)
(* user is changed, another download ends or the power fails (finish,      *)
(* userbin_result_event).                                                  *)
THEOREM ReportedListInUseHolds == Spec => []ReportedListInUse
<1>1. IInv => ReportedListInUse
  BY DEF IInv, Reported, ReportedListInUse
<1> QED BY <1>1, Invariant, PTL

(* The receiver and the store agree on whether a list is under way, and    *)
(* no batch outlives its download (userbin_abort, users_load_abort).       *)
THEOREM TransferOwnsLoadHolds == Spec => []TransferOwnsLoad
<1>1. IInv => TransferOwnsLoad
  BY DEF IInv, TypesOK, Sound, TransferOwnsLoad
<1> QED BY <1>1, Invariant, PTL

(* Types, and the limits of the counters (userbin_continue).               *)
THEOREM TypeOKHolds == Spec => []TypeOK
<1>1. ASSUME IInv
      PROVE  TypeOK
  <2>1. /\ store \in Store /\ ub \in UserBin /\ ub.received <= ub.total_size
        /\ (~ub.active => ub.rec = <<>>)
        /\ conn \in BOOLEAN
        /\ dm \in [phase : {"idle", "sending"}, list : Lists \cup {<<>>}, k : Nat]
        /\ taken \in 0 .. Chunks(dm.list) /\ told \in Lists \cup {<<>>}
    BY <1>1 DEF IInv, TypesOK, Sound
  <2>2. Len(ub.rec) < RecLen
    <3>1. CASE ub.active
      <4>1. PICK n \in Nat : Sending(n)
        BY <1>1, <3>1 DEF IInv
      <4>2. PICK w, r : w = ub.received \div RecLen /\ r = ub.received % RecLen
        OBVIOUS
      <4>3. ub.rec = Start(w, r)
        BY <4>1, <4>2 DEF Sending, At, Digested
      <4>4. ub.received \in Nat
        BY <2>1 DEF UserBin
      <4>5. r \in 0 .. RecLen - 1
        BY <4>2, <4>4, StreamAssumption
      <4>6. Len(ub.rec) = r
        BY <4>3, <4>5 DEF Start
      <4> QED BY <4>5, <4>6, StreamAssumption
    <3>2. CASE ~ub.active
      BY <2>1, <3>2, StreamAssumption
    <3> QED BY <3>1, <3>2
  <2> QED BY <2>1, <2>2 DEF TypeOK, Store, UserBin
<1> QED BY <1>1, Invariant, PTL

(* A set of numbers up to w has a last one.                                *)
LEMMA HasLast ==
  ASSUME NEW w \in Nat, NEW m \in SUBSET (1 .. w), m # {}
  PROVE  \E i \in m : \A j \in m : j <= i
<1>1. PICK S : S = {k \in 0 .. w : \A x \in SUBSET (1 .. k) :
                      x = {} \/ \E i \in x : \A j \in x : j <= i}
  OBVIOUS
<1>2. 0 \in S
  BY <1>1
<1>3. ASSUME NEW k \in 0 .. w - 1, k \in S
      PROVE  k + 1 \in S
  <2>1. ASSUME NEW x \in SUBSET (1 .. k + 1), x # {}
        PROVE  \E i \in x : \A j \in x : j <= i
    <3>1. CASE k + 1 \in x
      BY <3>1
    <3>2. CASE k + 1 \notin x
      <4>1. x \in SUBSET (1 .. k)
        BY <3>2
      <4> QED BY <1>1, <1>3, <2>1, <4>1
    <3> QED BY <3>1, <3>2
  <2> QED BY <1>1, <2>1
<1>4. w \in S
  BY <1>2, <1>3, UpTo
<1> QED BY <1>1, <1>4

(* The units of a record that has begun.                                   *)
LEMMA StartUnits ==
  ASSUME NEW w \in Nat, NEW r \in 0 .. RecLen - 1
  PROVE  Start(w, r) = [p \in 1 .. r |-> Unit(w * RecLen + p)]
<1>1. ASSUME NEW p \in 1 .. r
      PROVE  Unit(w * RecLen + p) = [i |-> w + 1, at |-> p]
  <2>1. PICK q \in 0 .. RecLen - 1 : q + 1 = p
    <3>1. p - 1 \in 0 .. RecLen - 1 /\ (p - 1) + 1 = p
      BY StreamAssumption
    <3> QED BY <3>1
  <2>2. (w * RecLen + q) \div RecLen = w /\ (w * RecLen + q) % RecLen = q
    BY StreamAssumption, DivMod
  <2>3. PICK x \in Nat : x = w * RecLen
    <3>1. w * RecLen \in Nat
      BY StreamAssumption
    <3> QED BY <3>1
  <2>4. (x + p) - 1 = x + q
    BY <2>1, <2>3
  <2>5. Unit(x + p) = [i |-> (x + q) \div RecLen + 1, at |-> ((x + q) % RecLen) + 1]
    BY <2>4 DEF Unit
  <2> QED BY <2>1, <2>2, <2>3, <2>5
<1> QED BY <1>1 DEF Start

(* A card of the list belongs to the last of the records that have it.     *)
LastOf(l, T, c) == {i \in T : l[i].card = c /\ \A j \in T : l[j].card = c => j <= i}

LEMMA ListedLast ==
  ASSUME NEW l, NEW w \in Nat, NEW T \in SUBSET (1 .. w), NEW c \in Cards,
         NEW last, last = LastOf(l, T, c)
  PROVE  /\ last = {} => R!Listed(l, T, T).cards[c] = NoUser
         /\ \A i \in last : R!Listed(l, T, T).cards[c] = l[i].user
<1>1. PICK m : m = Mine(l, T, c)
  OBVIOUS
<1>2. m \in SUBSET (1 .. w) /\ last = {i \in m : \A j \in m : j <= i}
  BY <1>1 DEF Mine, LastOf
<1>3. R!Listed(l, T, T).cards[c] = Holder(l, m)
  BY <1>1, ListedHolders
<1>4. CASE last = {}
  <2>1. m = {}
    BY <1>2, <1>4, HasLast
  <2>2. Holder(l, m) = NoUser
    BY <2>1 DEF Holder
  <2> QED BY <1>3, <1>4, <2>2
<1>5. CASE last # {}
  <2>1. ASSUME NEW i \in last
        PROVE  Holder(l, m) = l[i].user
    <3>1. m \in SUBSET Nat /\ i \in m /\ \A j \in m : j <= i
      BY <1>2
    <3> QED BY <3>1, LastHolds
  <2> QED BY <1>3, <1>5, <2>1
<1> QED BY <1>4, <1>5

(* What has been loaded is what was sent, record by record, each taken     *)
(* once and in order (userbin_continue, store_record, rotate_txn_if_needed)*)
THEOREM LoadMatchesStreamHolds == Spec => []LoadMatchesStream
<1>1. ASSUME IInv
      PROVE  LoadMatchesStream
  <2>1. ASSUME ub.active
        PROVE  \E n \in Nat : Sending(n)
    BY <1>1, <2>1 DEF IInv
  <2>2. PICK l : l = dm.list
    OBVIOUS
  <2>3. PICK w : w = ub.received \div RecLen
    OBVIOUS
  <2>4. PICK r : r = ub.received % RecLen
    OBVIOUS
  <2>5. ASSUME ub.active
        PROVE  /\ Digested(l, store, ub, w, r) /\ w \in Nat /\ r \in 0 .. RecLen - 1
               /\ spent.faults = 0 => Clean(l, store, ub, w)
    <3>1. PICK n \in Nat : Sending(n)
      BY <2>1, <2>5
    <3>2. ub.received \in Nat
      BY <1>1 DEF IInv, TypesOK, UserBin
    <3>3. w \in Nat /\ r \in 0 .. RecLen - 1
      BY <2>3, <2>4, <3>2, StreamAssumption
    <3> QED BY <2>2, <2>3, <2>4, <3>1, <3>3 DEF Sending, At, Clear
  <2>6. PICK g : g = Good(l, w)
    OBVIOUS
  <2>7. ASSUME ub.active
        PROVE  /\ ub.parsed_ok + ub.parsed_bad = w
               /\ ub.rec = [p \in 1 .. r |-> Unit(w * RecLen + p)]
               /\ spent.faults = 0 => ub.parsed_bad = w - Cardinality(g)
    BY <2>5, <2>6, <2>7, StartUnits DEF Digested, Clean
  <2>8. ASSUME ub.active, ub.parsed_bad = w - Cardinality(g), store.in_txn => store.txn
        PROVE  /\ store.db.users_load = {l[i].user : i \in g}
               /\ \A c \in Cards :
                    IF LastOf(l, g, c) = {} THEN store.db.cards_load[c] = NoUser
                    ELSE \A i \in LastOf(l, g, c) : store.db.cards_load[c] = l[i].user
    <3>1. Load(store.db) = R!Listed(l, g, g)
      BY <2>5, <2>6, <2>8 DEF Digested
    <3>2. store.db.users_load = {l[i].user : i \in g}
      BY <3>1 DEF Load, R!Listed
    <3>3. store.db.cards_load = R!Listed(l, g, g).cards
      BY <3>1 DEF Load
    <3>4. g \in SUBSET (1 .. w) /\ w \in Nat
      BY <2>5, <2>6, <2>8 DEF Good
    <3>5. ASSUME NEW c \in Cards, NEW last, last = LastOf(l, g, c)
          PROVE  IF last = {} THEN store.db.cards_load[c] = NoUser
                 ELSE \A i \in last : store.db.cards_load[c] = l[i].user
      <4>1. /\ last = {} => R!Listed(l, g, g).cards[c] = NoUser
            /\ \A i \in last : R!Listed(l, g, g).cards[c] = l[i].user
        BY <3>4, <3>5, ListedLast
      <4>2. store.db.cards_load[c] = R!Listed(l, g, g).cards[c]
        BY <3>3
      <4>3. CASE last = {}
        BY <4>1, <4>2, <4>3
      <4>4. CASE last # {}
        BY <4>1, <4>2, <4>4
      <4> QED BY <4>3, <4>4
    <3> QED BY <3>2, <3>5
  <2>9. g = {i \in 1 .. w : l[i].good}
    BY <2>6 DEF Good
  <2> QED BY <2>2, <2>3, <2>4, <2>7, <2>8, <2>9 DEF LoadMatchesStream, LastOf
<1> QED BY <1>1, Invariant, PTL

=============================================================================
