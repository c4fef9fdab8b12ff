------------------------------- MODULE Roster -------------------------------
(***************************************************************************)
(* What the user store promises of the list that cards are judged by       *)
(* (acud/users.h): a download replaces the whole list at once or not at    *)
(* all; between two downloads only single users change; whatever is        *)
(* interrupted goes back to a list that had been kept.  seen is the list   *)
(* judged by now, kept what a dying process leaves, synced what a power    *)
(* cut is sure to leave.                                                   *)
(***************************************************************************)
EXTENDS Naturals

CONSTANTS
  Users, Cards,
  NoUser,       \* stands for "this card belongs to nobody"
  Lists,        \* the lists DM may download: sequences of records
  SeedUser, SeedCard

VARIABLES seen, kept, synced

rosterVars == <<seen, kept, synced>>

Rosters == [users : SUBSET Users, cards : [Cards -> Users \cup {NoUser}]]
Nobody  == [users |-> {}, cards |-> [c \in Cards |-> NoUser]]

(* The roster a download of l leaves when only the users of the records S  *)
(* and the cards of the records T arrived.                                 *)
Listed(l, S, T) ==
  [users |-> {l[i].user : i \in S},
   cards |-> [c \in Cards |->
                LET mine == {i \in T : l[i].card = c}
                IN  IF mine = {} THEN NoUser
                    ELSE l[CHOOSE i \in mine : \A j \in mine : j <= i].user]]

(* Records can be lost, and a record can lose its card only.               *)
Downloads(l) ==
  {Listed(l, S[1], S[2]) : S \in {p \in (SUBSET DOMAIN l) \X (SUBSET DOMAIN l) : p[2] \subseteq p[1]}}
Downloaded == UNION {Downloads(l) : l \in Lists}

(* An empty list is filled with the test users when the store is opened.   *)
Seeded(r) ==
  IF r.users # {} THEN r
  ELSE [users |-> {SeedUser}, cards |-> [r.cards EXCEPT ![SeedCard] = SeedUser]]

Same(r, s, u) ==
  /\ r.users \ {u} = s.users \ {u}
  /\ \A c \in Cards : r.cards[c] # s.cards[c] => u \in {r.cards[c], s.cards[c]}

RosterInit == seen = Seeded(Nobody) /\ kept = seen /\ synced = seen

(* One user is added, given a card or deleted; kept follows, or not yet.   *)
(* An interrupted batch can go back to what was kept in the same step.     *)
ChangeOne ==
  /\ \E u \in Users, r \in {seen, kept} : Same(seen', r, u)
  /\ seen' \in Rosters /\ kept' \in {kept, seen'}
  /\ synced' = synced

Replace  == seen' \in Downloaded /\ kept' = seen' /\ synced' = synced
Keep     == kept' = seen /\ UNCHANGED <<seen, synced>>
Fallback == seen' = kept /\ UNCHANGED <<kept, synced>>
Sync     == synced' = kept /\ UNCHANGED <<seen, kept>>

(* A new process opens what is left: the list kept, an older one that was  *)
(* synced, or one more change that was just being made.                    *)
Reopened(r) == seen' = Seeded(r) /\ kept' = seen'

Reopen ==
  \/ \E r \in {kept, synced} : Reopened(r) /\ synced' \in {synced, r}
  \/ \E r \in Rosters : (\E u \in Users : Same(r, kept, u)) /\ Reopened(r) /\ synced' = synced
  \/ \E r \in Downloaded : Reopened(r) /\ synced' = synced

RosterNext == ChangeOne \/ Replace \/ Keep \/ Fallback \/ Sync \/ Reopen

RosterSpec == RosterInit /\ [][RosterNext]_rosterVars

=============================================================================
