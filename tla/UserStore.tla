------------------------------ MODULE UserStore ------------------------------
(***************************************************************************)
(* The user store of acud (acud/users.c): the tables users and user_cards  *)
(* that cards are judged by, and the tables users_load and                 *)
(* user_cards_load that a download of the whole list goes into until it is *)
(* put in their place in one transaction.  One SQLite connection serves    *)
(* both, so what it sees (db) differs from what is committed (file) while  *)
(* a batch is open; with synchronous=NORMAL a power cut can also lose      *)
(* commits made since the last checkpoint (safe).  Each operation is a     *)
(* function of the store and of which of its statements SQLite refuses.    *)
(***************************************************************************)
EXTENDS Integers, Sequences, SequencesExt

CONSTANTS
  Users, Cards, NoUser, NoCard,
  SeedUser, SeedCard,   \* stand for the test users of users_seed_dummy
  CommitEvery           \* USERS_LOAD_COMMIT_EVERY

ASSUME CommitEveryAssumption == CommitEvery \in Nat \ {0}
ASSUME SeedAssumption == SeedUser \in Users /\ SeedCard \in Cards
ASSUME NobodyAssumption == NoUser \notin Users /\ NoCard \notin Cards

VARIABLE store

NoCards == [c \in Cards |-> NoUser]
Tables  == [users : SUBSET Users, cards : [Cards -> Users \cup {NoUser}],
            users_load : SUBSET Users, cards_load : [Cards -> Users \cup {NoUser}]]

(* The list cards are judged by.                                           *)
View(t) == [users |-> t.users, cards |-> t.cards]

Done(s)   == [store |-> s, ok |-> TRUE]
Failed(s) == [store |-> s, ok |-> FALSE]

-----------------------------------------------------------------------------
(* SQLite, external.  A statement outside a transaction commits by itself. *)
(* One that fails leaves everything as it was, or, inside a transaction,   *)
(* rolls all of it back; a COMMIT that fails in WAL mode rolls back.       *)

Outcomes == {"ok", "refused", "rolledback"}

RolledBack(s) == [s EXCEPT !.db = s.file, !.txn = FALSE]

Executed(s, t, f) ==
  CASE f = "ok"         -> [s EXCEPT !.db = t, !.file = IF s.txn THEN @ ELSE t]
    [] f = "refused"    -> s
    [] f = "rolledback" -> RolledBack(s)

-----------------------------------------------------------------------------
(* Changes of one user.  Nothing works once the statements could not be    *)
(* prepared again.                                                         *)

users_put(s, u, f) ==
  IF s.prepared
  THEN [store |-> Executed(s, [s.db EXCEPT !.users = @ \cup {u}], f), ok |-> f = "ok"]
  ELSE Failed(s)

users_put_card(s, c, u, f) ==
  IF s.prepared
  THEN [store |-> Executed(s, [s.db EXCEPT !.cards[c] = u], f), ok |-> f = "ok"]
  ELSE Failed(s)

CardsDeleted(s, u, f) ==
  Executed(s, [s.db EXCEPT !.cards = [c \in Cards |-> IF @[c] = u THEN NoUser ELSE @[c]]], f)

(* Whether the cards could be deleted is not looked at.                    *)
users_delete(s, u, f, g) ==
  LET t == CardsDeleted(s, u, f)
  IN  IF s.prepared
      THEN [store |-> Executed(t, [t.db EXCEPT !.users = @ \ {u}], g), ok |-> g = "ok"]
      ELSE Failed(t)

-----------------------------------------------------------------------------
(* Downloading the whole list.  s.in_txn is what acud believes of the      *)
(* transaction, s.txn whether SQLite has one open.  f: "begin" or "commit" *)
(* when that statement fails.                                              *)

txn_begin(s, f) ==
  IF s.in_txn THEN Done(s)
  ELSE IF f # "begin" THEN Done([s EXCEPT !.txn = TRUE, !.in_txn = TRUE, !.load_rows = 0])
  ELSE Failed(s)

txn_commit(s, f) ==
  LET t == [s EXCEPT !.in_txn = FALSE]
  IN  IF ~s.in_txn THEN Done(s)
      ELSE IF s.txn /\ f # "commit" THEN Done([t EXCEPT !.file = s.db, !.txn = FALSE])
      ELSE Failed(RolledBack(t))

EmptyLoad(t) == [t EXCEPT !.users_load = {}, !.cards_load = NoCards]

users_load_abort(s) ==
  LET t == IF s.in_txn THEN [RolledBack(s) EXCEPT !.in_txn = FALSE] ELSE s
  IN  [t EXCEPT !.db = EmptyLoad(@), !.file = EmptyLoad(@), !.loading = FALSE]

(* f: "create" when the tables cannot be made, "begin" when BEGIN fails.   *)
users_load_begin(s, f) ==
  LET a == IF s.loading THEN users_load_abort(s) ELSE s
      t == [a EXCEPT !.db = EmptyLoad(@), !.file = EmptyLoad(@), !.loading = TRUE]
      b == txn_begin(t, f)
  IN  IF f = "create" THEN Failed(a)
      ELSE IF b.ok THEN b ELSE Failed([t EXCEPT !.loading = FALSE])

(* Every CommitEvery rows the batch is committed and the next one begun.   *)
rotate_txn_if_needed(s, f) ==
  LET c == txn_commit(s, f)
  IN  IF s.load_rows < CommitEvery THEN Done(s)
      ELSE IF c.ok THEN txn_begin(c.store, f) ELSE c

LoadRow(s, t, f) ==
  IF ~s.loading THEN Failed(s)
  ELSE IF f \in Outcomes \ {"ok"} THEN Failed(Executed(s, t, f))
  ELSE rotate_txn_if_needed([Executed(s, t, "ok") EXCEPT !.load_rows = @ + 1], f)

(* Mutant: the rows go straight into the table in use.                     *)
users_load_put_live(s, u, f) == LoadRow(s, [s.db EXCEPT !.users = @ \cup {u}], f)

users_load_put(s, u, f) == LoadRow(s, [s.db EXCEPT !.users_load = @ \cup {u}], f)

users_load_put_card(s, c, u, f) == LoadRow(s, [s.db EXCEPT !.cards_load[c] = u], f)

(* f: which of COMMIT, the exchange of the tables and the preparing of the *)
(* statements afterwards fails.                                            *)
users_load_commit(s, f) ==
  LET c == txn_commit(s, f)
      n == [c.store EXCEPT !.loading = FALSE, !.prepared = f # "prepare"]
      t == [EmptyLoad(n.db) EXCEPT !.users = n.db.users_load, !.cards = n.db.cards_load]
  IN  IF ~s.loading THEN Failed(s)
      ELSE IF ~c.ok THEN Failed(users_load_abort(c.store))
      ELSE IF f = "swap" THEN Failed(n)
      ELSE [store |-> [n EXCEPT !.db = t, !.file = t], ok |-> f # "prepare"]

-----------------------------------------------------------------------------
(* users_open on what is in the file: a download that was under way is     *)
(* dropped, and an empty list filled with the test users.                  *)

users_seed_dummy(t) ==
  IF t.users # {} THEN t
  ELSE [t EXCEPT !.users = {SeedUser}, !.cards[SeedCard] = SeedUser]

users_open(file, safe) ==
  LET t == users_seed_dummy(EmptyLoad(file))
  IN  [db |-> t, file |-> t, safe |-> safe, txn |-> FALSE, in_txn |-> FALSE,
       loading |-> FALSE, load_rows |-> 0, prepared |-> TRUE]

NewTables == [users |-> {}, cards |-> NoCards, users_load |-> {}, cards_load |-> NoCards]

StoreInit ==
  LET t == users_seed_dummy(NewTables) IN store = users_open(t, t)

=============================================================================
