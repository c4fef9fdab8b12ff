----------------------------- MODULE UserUpload -----------------------------
(***************************************************************************)
(* DM fetches the list of users (acud/userbin.c, userbin_receive_start and *)
(* userbin_receive_chunk, over acud/net.c handle_userbin_send): it says    *)
(* Start, is told how many users there are, and asks for chunk after chunk *)
(* until one is empty.  acud keeps no copy of the list.  A chunk in order  *)
(* is read from the last user sent on; the first one from the beginning;   *)
(* any other is looked up by its number, by counting rows.  Meanwhile the  *)
(* list changes, answers are lost with the connection and asked for again, *)
(* statements fail (acud/users.c) and acud restarts.                       *)
(*                                                                         *)
(* The query gives a row for each card of a user and one for a user        *)
(* without; a list is how many rows it gives for whom.                     *)
(***************************************************************************)
EXTENDS Naturals, FiniteSets, SequencesExt

CONSTANTS
  LastId,     \* the highest user_id; 0 stands before all of them
  Lists,      \* lists a download may put in place, the first one included
  MaxRows,    \* bound on the cards of one user
  Records,    \* USERBIN_SEND_RECORDS: rows of a chunk
  IndexMod,   \* numbers of chunks wrap here (2^16 in the code)
  FirstIndex, \* the number DM gives to the first chunk
  MaxStarts,  \* bound on Starts
  MaxChanges, \* bound on changes of the list
  MaxLost,    \* bound on answers lost and restarts of acud
  MaxErrors   \* bound on statements that fail

NoIndex == IndexMod
NoId    == 0
Ids     == 1 .. LastId

ASSUME LastIdAssumption == LastId \in Nat \ {0}
ASSUME ListsAssumption == MaxRows \in Nat \ {0} /\ Lists \subseteq [Ids -> 0 .. MaxRows]
ASSUME RecordsAssumption == Records \in Nat \ {0} /\ IndexMod \in Nat \ {0, 1}
ASSUME FirstIndexAssumption == FirstIndex \in 0 .. IndexMod - 1
ASSUME UploadBoundsAssumption == {MaxStarts, MaxChanges, MaxLost, MaxErrors} \subseteq Nat

VARIABLES
  rows,   \* the list: how many rows there are of each user
  send,   \* send_active, send_base_index, send_next_index, send_last_id
  dm,     \* what DM does, the chunk it asks for, the records it has
  always, \* users who have been in the list since Start
  same,   \* whether the list has been the same since Start
  doubt,  \* a chunk was looked up by number in another list, or cut by a failure
  plain,  \* no number came twice, none was looked up among users with two cards
  spent   \* what the bounds count

uploadVars == <<rows, send, dm, always, same, doubt, plain, spent>>

Spend(what) == spent' = [spent EXCEPT ![what] = @ + 1]
Listed == {u \in Ids : rows[u] > 0}
OneCardEach == \A u \in Ids : rows[u] <= 1

Unsent == [active |-> FALSE, base |-> NoIndex, next |-> 0, last |-> NoId]

-----------------------------------------------------------------------------
(* users.c: the queries.                                                   *)

(* The rows of all users behind one, in the order of user_id: of those up  *)
(* to each, and of all.                                                    *)
RowsUpTo(id) ==
  LET upto[u \in 0 .. LastId] ==
        IF u = 0 THEN <<>>
        ELSE IF u > id THEN upto[u - 1] \o [i \in 1 .. rows[u] |-> u]
        ELSE upto[u - 1]
  IN  upto

RowsAfter(id) == RowsUpTo(id)[LastId]

read_rows(some, offset) ==
  [i \in {j \in 1 .. Records : offset + j \in DOMAIN some} |-> some[offset + i]]

(* Mutant: the last user is sent again.                                    *)
users_read_after_from(id) == read_rows(RowsAfter(IF id = NoId THEN NoId ELSE id - 1), 0)

users_read_after(id) == read_rows(RowsAfter(id), 0)

users_read_at(offset) == read_rows(RowsAfter(NoId), offset)

-----------------------------------------------------------------------------
(* userbin.c                                                               *)

(* Mutant: the number itself counts, wherever the first one was.           *)
First_absolute(s, index) == index * Records

(* Rows before the chunk, if all before it are full.                       *)
First(s, index) == ((index + IndexMod - s.base) % IndexMod) * Records

InOrder(s, index) == index = s.next /\ s.last # NoId

(* Mutant: only the number says what is sent.                              *)
Chunk_counted(s, index) == users_read_at(First(s, index))

Chunk(s, index) ==
  IF InOrder(s, index) THEN users_read_after(s.last)
  ELSE IF index = s.base THEN users_read_after(NoId)
  ELSE users_read_at(First(s, index))

(* An empty chunk moves nothing.                                           *)
Sent(s, index, part) ==
  IF part = <<>> THEN s
  ELSE [s EXCEPT !.last = Last(part), !.next = (index + 1) % IndexMod]

Numbered(part, first) == [i \in DOMAIN part |-> [user |-> part[i], serial |-> first + i - 1]]

-----------------------------------------------------------------------------
(* net.c handle_userbin_send, with DM at the other end.                    *)

(* The answer to Start is lost, or DM begins.                              *)
userbin_receive_start ==
  /\ spent.starts < MaxStarts /\ Spend("starts")
  /\ send' = [Unsent EXCEPT !.active = TRUE]
  /\ dm' \in {[does |-> "nothing", index |-> FirstIndex, has |-> <<>>],
              [does |-> "asks", index |-> FirstIndex, has |-> <<>>]}
  /\ always' = Listed /\ same' = TRUE /\ doubt' = FALSE /\ plain' = TRUE
  /\ UNCHANGED rows

Refused ==
  /\ dm.does = "asks" /\ ~send.active
  /\ dm' = [dm EXCEPT !.does = "nothing"]
  /\ UNCHANGED <<rows, send, always, same, doubt, plain, spent>>

(* DM has the answer, or will ask for the same chunk again.                *)
Answered(part, first) ==
  IF part = <<>> THEN dm' = [dm EXCEPT !.does = "finished"]
  ELSE dm' = [dm EXCEPT !.index = (@ + 1) % IndexMod, !.has = @ \o Numbered(part, first)]

(* A statement that fails while the rows are read ends the chunk like the  *)
(* end of the list does.                                                   *)
userbin_receive_chunk ==
  /\ dm.does = "asks" /\ send.active
  /\ LET s     == [send EXCEPT !.base = IF @ = NoIndex THEN dm.index ELSE @,
                               !.next = IF send.base = NoIndex THEN dm.index ELSE @]
         part  == Chunk(s, dm.index)
         first == First(s, dm.index)
         found == ~InOrder(s, dm.index) /\ dm.index # s.base
     IN \E n \in 0 .. Len(part), lost \in BOOLEAN :
          LET got == SubSeq(part, 1, n)
          IN /\ n < Len(part) => spent.errors < MaxErrors
             /\ lost => spent.lost < MaxLost
             /\ spent' = [spent EXCEPT !.errors = IF n < Len(part) THEN @ + 1 ELSE @,
                                       !.lost = IF lost THEN @ + 1 ELSE @]
             /\ send' = Sent(s, dm.index, got)
             /\ IF lost THEN UNCHANGED dm ELSE Answered(got, first)
             /\ doubt' = (doubt \/ (found /\ (~same \/ spent.errors > 0)) \/ (n = 0 /\ part # <<>>))
             /\ plain' = (plain /\ (found => OneCardEach)
                                /\ (dm'.has = <<>> \/ dm'.index # FirstIndex))
  /\ UNCHANGED <<rows, always, same>>

-----------------------------------------------------------------------------
(* What else happens.                                                      *)

Changes(list) ==
  /\ spent.changes < MaxChanges /\ Spend("changes")
  /\ list # rows /\ rows' = list
  /\ always' = always \cap {u \in Ids : list[u] > 0} /\ same' = FALSE
  /\ UNCHANGED <<send, dm, doubt, plain>>

(* A user is added, or given one more card.                                *)
usercmd_set == \E u \in Ids : rows[u] < MaxRows /\ Changes([rows EXCEPT ![u] = @ + 1])

usercmd_delete == \E u \in Listed : Changes([rows EXCEPT ![u] = 0])

users_load_commit == \E list \in Lists : Changes(list)

Restart ==
  /\ send.active /\ spent.lost < MaxLost /\ Spend("lost")
  /\ send' = Unsent
  /\ UNCHANGED <<rows, dm, always, same, doubt, plain>>

-----------------------------------------------------------------------------
UploadInit ==
  /\ rows \in Lists
  /\ send = Unsent
  /\ dm = [does |-> "nothing", index |-> FirstIndex, has |-> <<>>]
  /\ always = {} /\ same = FALSE /\ doubt = FALSE /\ plain = TRUE
  /\ spent = [starts |-> 0, changes |-> 0, lost |-> 0, errors |-> 0]

UploadNext ==
  \/ userbin_receive_start \/ userbin_receive_chunk \/ Refused
  \/ usercmd_set \/ usercmd_delete \/ users_load_commit \/ Restart

UploadSpec == UploadInit /\ [][UploadNext]_uploadVars

-----------------------------------------------------------------------------
Users == {dm.has[i].user : i \in DOMAIN dm.has}

UploadTypeOK ==
  /\ rows \in [Ids -> 0 .. MaxRows]
  /\ send \in [active : BOOLEAN, base : 0 .. NoIndex, next : 0 .. IndexMod - 1,
              last : Ids \cup {NoId}]
  /\ dm \in [does : {"nothing", "asks", "finished"}, index : 0 .. IndexMod - 1,
            has : Seq([user : Ids, serial : Nat])]
  /\ always \subseteq Listed /\ same \in BOOLEAN /\ doubt \in BOOLEAN /\ plain \in BOOLEAN
  /\ spent \in [{"starts", "changes", "lost", "errors"} -> Nat]

(* Whoever was in the list from Start to the empty chunk has been fetched, *)
(* whatever was added, deleted or replaced beside (userbin.c:549), unless  *)
(* a chunk had to be looked up by its number after a change.               *)
EveryoneFetched == dm.does = "finished" /\ ~doubt => always \subseteq Users

(* Users come in their order, and while the list stays the same and nobody *)
(* has two cards, nobody comes twice, however chunks are asked for again   *)
(* (userbin.c:552, userbin.c:561), as long as a number tells a place.      *)
OnceInOrder ==
  ~doubt /\ plain => \A i \in 1 .. Len(dm.has) - 1 :
    /\ dm.has[i].user <= dm.has[i + 1].user
    /\ same /\ OneCardEach => dm.has[i].user # dm.has[i + 1].user

(* A record carries the place of its user in the order of user_id          *)
(* (userbin.c:485), however chunks were asked for again and wherever DM    *)
(* begins to count, while the list stays the same and nobody has two cards *)
(* and there are numbers enough.                                           *)
SerialIsPlace ==
  same /\ plain /\ spent.errors = 0 /\ OneCardEach =>
    \A i \in DOMAIN dm.has :
      dm.has[i].serial = Cardinality({u \in Listed : u < dm.has[i].user})

-----------------------------------------------------------------------------
(* Violated: no chunk is left when an empty one comes (userbin.h:84: 0 is  *)
(* the end, an error is -1).  read_rows takes a statement that fails for   *)
(* the end of the list (users.c:388).                                      *)
EmptyIsEnd == dm.does = "finished" => Listed \ Users = {} \/ ~same

(* Violated: looking a chunk up by its number is slow and no more          *)
(* (userbin.c:560).  After a deletion it leaves users out.                 *)
AskingAgainIsHarmless == dm.does = "finished" /\ spent.errors = 0 => always \subseteq Users

(* Violated: users come in their order whenever a chunk is asked for again *)
(* (userbin.c:561).  A chunk read from the last user on passes over his    *)
(* second card, and one that is looked up counts it.                       *)
AskingAgainKeepsOrder ==
  ~doubt => \A i \in 1 .. Len(dm.has) - 1 : dm.has[i].user <= dm.has[i + 1].user

(* Violated: the size that Start announces is that of all records          *)
(* (userbin.c:470).  It counts users and sends a row for each card, so     *)
(* that a DM that stops at that size leaves users out.                     *)
SizeCoversAll == same /\ ~doubt /\ Len(dm.has) = Cardinality(Listed) => Listed \subseteq Users
=============================================================================
