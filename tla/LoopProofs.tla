----------------------------- MODULE LoopProofs -----------------------------
(***************************************************************************)
(* Proofs about the event loop: whatever comes in a round and in whatever  *)
(* order, the loop watches exactly the descriptors that are open, and one  *)
(* that was given away again is served without harm, for every size of the *)
(* loop, any number of inputs and however many connections come.           *)
(***************************************************************************)
EXTENDS Loop, FiniteSetTheorems, SequenceTheorems, WellFoundedInduction, TLAPS

-----------------------------------------------------------------------------
(* The invariant, with the entries as a set.                               *)

Tables == [open : [Fds -> Objects], ent : Seq(Entry), listen : Fds, client : Fds \cup {None},
           clients : Nat, ports : Nat]

Items(d) == {d.ent[i] : i \in DOMAIN d.ent}
Distinct(d) == \A i, j \in DOMAIN d.ent : d.ent[i].fd = d.ent[j].fd => i = j
Roomy(d) == Len(d.ent) <= MaxFds
Watched(d, f) == [fd |-> f, obj |-> d.open[f]]

(* The table is sound but for x, a descriptor that has just been opened.   *)
Sound(d, x) ==
  /\ d \in Tables /\ Distinct(d) /\ Roomy(d)
  /\ Items(d) = {Watched(d, f) : f \in {g \in Fds : d.open[g] # Free /\ g # x}}
  /\ \A f \in Fds : f # x => /\ d.open[f].kind = "client" <=> f = d.client
                             /\ d.open[f].kind = "listen" <=> f = d.listen
  /\ x # d.listen
  /\ d.client # None => x # d.client

(* Within a round only connections come and go.                            *)
Round ==
  pc = "serve" =>
    /\ DOMAIN ready \subseteq Nat
    /\ \A p \in DOMAIN ready, e \in Items(t) :
         e.fd = ready[p].fd /\ e.obj.kind # "client" => e.obj = ready[p].obj

LInv == Up => Sound(t, None) /\ Round

-----------------------------------------------------------------------------
(* Sequences of entries.                                                   *)

(* A smallest element.                                                     *)
LEMMA Smallest ==
  ASSUME NEW S, S \subseteq Nat, S # {}
  PROVE  Min(S) \in S /\ \A n \in S : Min(S) <= n
<1>1. PICK m \in S : \A n \in S : ~(n < m)
  <2>1. IsWellFoundedOn(OpToRel(<, Nat), Nat)
    BY NatLessThanWellFounded
  <2>2. PICK m \in S : \A n \in S : <<n, m>> \notin OpToRel(<, Nat)
    BY <2>1, WFMin
  <2> QED BY <2>2 DEF OpToRel
<1>2. \A n \in S : m <= n
  BY <1>1
<1> QED BY <1>2 DEF Min

(* The last entry fills the hole.                                          *)
LEMMA Filled ==
  ASSUME NEW s \in Seq(Entry), NEW i \in 1 .. Len(s),
         NEW r, r = Front(ReplaceAt(s, i, Last(s)))
  PROVE  /\ r \in Seq(Entry) /\ Len(r) = Len(s) - 1
         /\ \A j \in 1 .. Len(r) : r[j] = IF j = i THEN s[Len(s)] ELSE s[j]
<1> DEFINE n == Len(s)
           w == [s EXCEPT ![i] = s[n]]
<1>1. n \in Nat /\ n >= 1 /\ n \in 1 .. n /\ s \in [1 .. n -> Entry] /\ s[n] \in Entry
  BY LenProperties, ElementOfSeq
<1>2. w \in [1 .. n -> Entry] /\ \A j \in 1 .. n : w[j] = IF j = i THEN s[n] ELSE s[j]
  BY <1>1
<1>3. w \in Seq(Entry) /\ Len(w) = n
  BY <1>1, <1>2, LenProperties, SeqDef
<1> HIDE DEF w, n
<1>4. r = SubSeq(w, 1, n - 1)
  BY <1>3 DEF Front, ReplaceAt, Last, w, n
<1>5. /\ r \in Seq(Entry) /\ Len(r) = n - 1
      /\ \A j \in 1 .. n - 1 : r[j] = w[j]
  BY <1>1, <1>3, <1>4, SubSeqProperties
<1> QED BY <1>1, <1>2, <1>5 DEF n

-----------------------------------------------------------------------------
(* What the loop does, with its entries as a set.                          *)

(* The tables s and r agree on all but the entries and the counts.         *)
Beside(s, r) == r.open = s.open /\ r.listen = s.listen /\ r.client = s.client

(* A table has its fields, and what is left when one is changed.           *)
LEMMA Fields ==
  ASSUME NEW d \in Tables
  PROVE  /\ d.open \in [Fds -> Objects] /\ d.ent \in Seq(Entry) /\ d.listen \in Fds
         /\ d.client \in Fds \cup {None} /\ d.clients \in Nat /\ d.ports \in Nat
         /\ Len(d.ent) \in Nat /\ DOMAIN d.ent = 1 .. Len(d.ent)
BY LenProperties DEF Tables

(* ... other entries,                                                      *)
LEMMA OtherEntries ==
  ASSUME NEW d \in Tables, NEW s \in Seq(Entry), NEW r, r = [d EXCEPT !.ent = s]
  PROVE  r \in Tables /\ r.ent = s /\ Beside(d, r)
BY DEF Tables, Beside

(* ... a descriptor opened,                                                *)
LEMMA OtherOpen ==
  ASSUME NEW d \in Tables, NEW f \in Fds, NEW o \in Objects, NEW r, r = Opens(d, f, o)
  PROVE  /\ r \in Tables /\ r.ent = d.ent
         /\ r.open[f] = o /\ \A g \in Fds : g # f => r.open[g] = d.open[g]
         /\ r.listen = d.listen /\ r.client = d.client
<1> DEFINE g == [d.open EXCEPT ![f] = o]
<1>1. g \in [Fds -> Objects] /\ g[f] = o /\ \A h \in Fds : h # f => g[h] = d.open[h]
  BY Fields
<1> HIDE DEF g
<1>2. r = [d EXCEPT !.open = g]
  BY DEF Opens, g
<1>3. r \in Tables /\ r.ent = d.ent /\ r.open = g /\ r.listen = d.listen /\ r.client = d.client
  BY <1>1, <1>2 DEF Tables
<1> QED BY <1>1, <1>3

(* ... closed,                                                             *)
LEMMA Closed ==
  ASSUME NEW d \in Tables, NEW f \in Fds, NEW r, r = close(d, f)
  PROVE  /\ r \in Tables /\ r.ent = d.ent
         /\ r.open[f] = Free /\ \A g \in Fds : g # f => r.open[g] = d.open[g]
         /\ r.listen = d.listen /\ r.client = d.client
<1>1. PICK o \in Objects : o = Free
  BY DEF Free, Objects
<1>2. r = Opens(d, f, o)
  BY <1>1 DEF close
<1>3. /\ r \in Tables /\ r.ent = d.ent
      /\ r.open[f] = o /\ \A g \in Fds : g # f => r.open[g] = d.open[g]
      /\ r.listen = d.listen /\ r.client = d.client
  BY <1>2, OtherOpen
<1> QED BY <1>1, <1>3

(* ... another connection,                                                 *)
LEMMA OtherClient ==
  ASSUME NEW d \in Tables, NEW f \in Fds \cup {None}, NEW r, r = [d EXCEPT !.client = f]
  PROVE  r \in Tables /\ r.ent = d.ent /\ r.open = d.open /\ r.client = f /\ r.listen = d.listen
BY DEF Tables

(* ... another listening socket,                                           *)
LEMMA OtherListen ==
  ASSUME NEW d \in Tables, NEW f \in Fds, NEW r, r = [d EXCEPT !.listen = f]
  PROVE  r \in Tables /\ r.ent = d.ent /\ r.open = d.open /\ r.client = d.client /\ r.listen = f
BY DEF Tables

(* ... and the counts.                                                     *)
LEMMA OtherCounts ==
  ASSUME NEW d \in Tables, NEW n \in Nat,
         NEW r \in {[d EXCEPT !.clients = n], [d EXCEPT !.ports = n]}
  PROVE  /\ r \in Tables /\ r.ent = d.ent /\ r.open = d.open /\ r.client = d.client
         /\ r.listen = d.listen
BY DEF Tables

(* loop_remove takes the descriptor's entry and no other.                  *)
LEMMA Removed ==
  ASSUME NEW d \in Tables, Distinct(d), NEW fd \in Fds, NEW r, r = loop_remove(d, fd)
  PROVE  /\ r \in Tables /\ Distinct(r) /\ Beside(d, r)
         /\ Items(r) = {e \in Items(d) : e.fd # fd}
         /\ Len(r.ent) <= Len(d.ent)
         /\ (\E e \in Items(d) : e.fd = fd) => Len(r.ent) < Len(d.ent)
<1>1. PICK s \in Seq(Entry) : s = d.ent
  BY Fields
<1>2. PICK n \in Nat : n = Len(s) /\ DOMAIN s = 1 .. n
  BY LenProperties
<1>3. CASE Entries(d, fd) = {}
  <2>1. r = d
    BY <1>3 DEF loop_remove
  <2>2. \A i \in DOMAIN s : s[i].fd # fd
    BY <1>1, <1>3 DEF Entries
  <2> QED BY <1>1, <1>2, <2>1, <2>2 DEF Items, Beside
<1>4. CASE Entries(d, fd) # {}
  <2>1. PICK i \in 1 .. n : i = Min(Entries(d, fd)) /\ s[i].fd = fd
    <3>1. Entries(d, fd) \subseteq Nat
      BY <1>1, <1>2 DEF Entries
    <3>2. Min(Entries(d, fd)) \in Entries(d, fd)
      BY <1>4, <3>1, Smallest
    <3> QED BY <1>1, <1>2, <3>2 DEF Entries
  <2>2. PICK w : w = Front(ReplaceAt(s, i, Last(s)))
    OBVIOUS
  <2>3. /\ w \in Seq(Entry) /\ Len(w) = n - 1
        /\ \A j \in 1 .. Len(w) : w[j] = IF j = i THEN s[n] ELSE s[j]
    BY <1>2, <2>2, Filled
  <2>4. r \in Tables /\ r.ent = w /\ Beside(d, r)
    BY <1>1, <1>4, <2>1, <2>2, <2>3, OtherEntries DEF loop_remove
  <2>5. DOMAIN w = 1 .. n - 1
    BY <2>3, LenProperties
  <2>6. \A j, k \in 1 .. n : s[j].fd = s[k].fd => j = k
    BY <1>1, <1>2 DEF Distinct
  <2>7. ASSUME NEW j \in 1 .. n - 1, NEW k \in 1 .. n - 1, w[j].fd = w[k].fd
        PROVE  j = k
    <3> DEFINE from(p) == IF p = i THEN n ELSE p
    <3>1. /\ from(j) \in 1 .. n /\ w[j] = s[from(j)]
          /\ from(k) \in 1 .. n /\ w[k] = s[from(k)]
      BY <1>2, <2>1, <2>3
    <3>2. from(j) = from(k)
      BY <2>6, <2>7, <3>1
    <3> QED BY <3>2
  <2>8. ASSUME NEW j \in 1 .. n - 1
        PROVE  \E k \in 1 .. n : w[j] = s[k] /\ s[k].fd # fd
    <3>1. j \in 1 .. n /\ n \in 1 .. n /\ j # n
      BY <2>1
    <3>2. CASE j = i
      <4>1. w[j] = s[n] /\ s[n].fd # fd
        BY <2>1, <2>3, <2>6, <3>1, <3>2
      <4> QED BY <3>1, <4>1
    <3>3. CASE j # i
      <4>1. w[j] = s[j] /\ s[j].fd # fd
        BY <2>1, <2>3, <2>6, <3>1, <3>3
      <4> QED BY <3>1, <4>1
    <3> QED BY <3>2, <3>3
  <2>9. \A k \in 1 .. n : s[k].fd # fd => \E j \in 1 .. n - 1 : w[j] = s[k]
    <3> SUFFICES ASSUME NEW k \in 1 .. n, s[k].fd # fd
                 PROVE  \E j \in 1 .. n - 1 : w[j] = s[k]
      OBVIOUS
    <3>1. k # i
      BY <2>1
    <3>2. CASE k = n
      BY <1>2, <2>1, <2>3, <3>1, <3>2
    <3>3. CASE k # n
      BY <1>2, <2>1, <2>3, <3>1, <3>3
    <3> QED BY <3>2, <3>3
  <2>10. Items(d) = {s[k] : k \in 1 .. n} /\ Items(r) = {w[j] : j \in 1 .. n - 1}
    BY <1>1, <1>2, <2>4, <2>5 DEF Items
  <2>11. Items(r) = {e \in Items(d) : e.fd # fd}
    <3>1. ASSUME NEW e \in Items(r) PROVE e \in Items(d) /\ e.fd # fd
      BY <2>8, <2>10
    <3>2. ASSUME NEW e \in Items(d), e.fd # fd PROVE e \in Items(r)
      BY <2>9, <2>10, <3>2
    <3> QED BY <3>1, <3>2
  <2>12. Distinct(r)
    BY <2>4, <2>5, <2>7 DEF Distinct
  <2>13. Len(r.ent) = n - 1 /\ Len(d.ent) = n
    BY <1>1, <1>2, <2>3, <2>4
  <2> QED BY <1>1, <2>4, <2>11, <2>12, <2>13
<1> QED BY <1>3, <1>4

(* loop_add of a descriptor that is not there appends it, if it can.       *)
LEMMA Added ==
  ASSUME NEW d \in Tables, Distinct(d), Roomy(d), NEW fd \in Fds,
         \A e \in Items(d) : e.fd # fd, NEW r, r = loop_add(d, fd)
  PROVE  /\ r \in Tables /\ Distinct(r) /\ Roomy(r) /\ Beside(d, r)
         /\ Len(d.ent) < MaxFds => Items(r) = Items(d) \cup {Watched(d, fd)}
         /\ ~(Len(d.ent) < MaxFds) => r = d
<1>1. PICK s \in Seq(Entry) : s = d.ent
  BY Fields
<1>2. PICK n \in Nat : n = Len(s) /\ DOMAIN s = 1 .. n
  BY LenProperties
<1>3. Entries(d, fd) = {}
  BY DEF Entries, Items
<1>4. Watched(d, fd) \in Entry /\ Watched(d, fd).fd = fd
  BY Fields DEF Watched, Entry
<1>5. MaxFds \in Nat
  BY LoopAssumption
<1>6. CASE Len(d.ent) < MaxFds
  <2>1. PICK w : w = Append(s, Watched(d, fd))
    OBVIOUS
  <2>2. /\ w \in Seq(Entry) /\ Len(w) = n + 1 /\ w[n + 1] = Watched(d, fd)
        /\ \A j \in 1 .. n : w[j] = s[j]
    BY <1>2, <1>4, <2>1, AppendProperties
  <2>3. r = [d EXCEPT !.ent = w]
    BY <1>1, <1>3, <1>6, <2>1 DEF loop_add, Watched
  <2>4. r \in Tables /\ r.ent = w /\ Beside(d, r) /\ DOMAIN w = 1 .. n + 1
    BY <2>2, <2>3, OtherEntries, LenProperties
  <2>5. \A j \in 1 .. n : s[j].fd # fd /\ \A k \in 1 .. n : s[j].fd = s[k].fd => j = k
    BY <1>1, <1>2 DEF Distinct, Items
  <2>6. Distinct(r)
    <3>1. \A j \in 1 .. n + 1 : j \in 1 .. n \/ j = n + 1
      OBVIOUS
    <3>2. \A j, k \in 1 .. n + 1 : w[j].fd = w[k].fd => j = k
      BY <1>4, <2>2, <2>5, <3>1
    <3> QED BY <2>4, <3>2 DEF Distinct
  <2>7. Items(r) = Items(d) \cup {Watched(d, fd)}
    <3>1. \A j \in 1 .. n + 1 : j \in 1 .. n \/ j = n + 1
      OBVIOUS
    <3>2. n + 1 \in 1 .. n + 1 /\ \A j \in 1 .. n : j \in 1 .. n + 1
      OBVIOUS
    <3>3. Items(d) = {s[k] : k \in 1 .. n} /\ Items(r) = {w[j] : j \in 1 .. n + 1}
      BY <1>1, <1>2, <2>4 DEF Items
    <3>4. ASSUME NEW e \in Items(r) PROVE e \in Items(d) \cup {Watched(d, fd)}
      BY <2>2, <3>1, <3>3
    <3>5. ASSUME NEW e \in Items(d) \cup {Watched(d, fd)} PROVE e \in Items(r)
      BY <2>2, <3>2, <3>3
    <3> QED BY <3>4, <3>5
  <2>8. Roomy(r)
    BY <1>1, <1>2, <1>5, <1>6, <2>2, <2>4 DEF Roomy
  <2> QED BY <1>6, <2>4, <2>6, <2>7, <2>8
<1>7. CASE ~(Len(d.ent) < MaxFds)
  <2>1. r = d
    BY <1>3, <1>7 DEF loop_add
  <2> QED BY <1>7, <2>1 DEF Beside
<1> QED BY <1>6, <1>7

(* The kernel has a descriptor: there are more than the loop can hold.     *)
LEMMA LowestFree ==
  ASSUME NEW d, Sound(d, None)
  PROVE  Lowest(d.open) \in Fds /\ d.open[Lowest(d.open)] = Free
<1> DEFINE free == {f \in Fds : d.open[f] = Free}
<1>1. MaxFds \in Nat /\ 0 .. MaxFds \subseteq Fds /\ Fds \subseteq Nat
  BY LoopAssumption, FdsAssumption
<1>2. free # {}
  <2> SUFFICES ASSUME free = {} PROVE FALSE
    OBVIOUS
  <2>1. \A f \in Fds : \E i \in 1 .. Len(d.ent) : d.ent[i].fd = f
    <3> SUFFICES ASSUME NEW f \in Fds PROVE \E i \in 1 .. Len(d.ent) : d.ent[i].fd = f
      OBVIOUS
    <3>1. f # None /\ d.open[f] # Free
      BY <1>1 DEF None
    <3>2. Watched(d, f) \in Items(d) /\ Watched(d, f).fd = f
      BY <3>1 DEF Sound, Watched
    <3>3. DOMAIN d.ent = 1 .. Len(d.ent)
      BY Fields DEF Sound
    <3> QED BY <3>2, <3>3 DEF Items
  <2>2. PICK n \in Nat : n = Len(d.ent) /\ n <= MaxFds
    BY <1>1, Fields DEF Sound, Roomy
  <2> DEFINE at == [f \in 0 .. MaxFds |-> CHOOSE i \in 1 .. n : d.ent[i].fd = f]
  <2>3. at \in [0 .. MaxFds -> 1 .. n] /\ \A f \in 0 .. MaxFds : d.ent[at[f]].fd = f
    BY <1>1, <2>1, <2>2
  <2> HIDE DEF at
  <2>4. /\ IsFiniteSet(0 .. MaxFds) /\ Cardinality(0 .. MaxFds) = MaxFds + 1
        /\ IsFiniteSet(1 .. n) /\ Cardinality(1 .. n) = n
    <3>1. 0 \in Int /\ MaxFds \in Int /\ 1 \in Int /\ n \in Int /\ ~(0 > MaxFds)
      BY <1>1
    <3>2. IsFiniteSet(0 .. MaxFds) /\ Cardinality(0 .. MaxFds) = MaxFds - 0 + 1
      BY <3>1, FS_Interval
    <3>3. IsFiniteSet(1 .. n) /\ Cardinality(1 .. n) = IF 1 > n THEN 0 ELSE n - 1 + 1
      BY <3>1, FS_Interval
    <3> QED BY <1>1, <3>2, <3>3
  <2>5. Cardinality(1 .. n) < Cardinality(0 .. MaxFds)
    BY <1>1, <2>2, <2>4
  <2>6. \E f, g \in 0 .. MaxFds : f # g /\ at[f] = at[g]
    <3>1. PICK S, T : S = 0 .. MaxFds /\ T = 1 .. n
      OBVIOUS
    <3>2. /\ IsFiniteSet(S) /\ IsFiniteSet(T) /\ Cardinality(T) < Cardinality(S)
          /\ at \in [S -> T]
      BY <2>3, <2>4, <2>5, <3>1
    <3>3. \E f, g \in S : f # g /\ at[f] = at[g]
      BY <3>2, FS_PigeonHole
    <3> QED BY <3>1, <3>3
  <2> QED BY <2>3, <2>6
<1>3. Lowest(d.open) \in free
  BY <1>1, <1>2, Smallest DEF Lowest
<1> QED BY <1>3

-----------------------------------------------------------------------------
(* The callbacks.                                                          *)

(* net_drop_client takes the connection from the loop and closes it.       *)
LEMMA Dropped ==
  ASSUME NEW d, NEW x \in Fds \cup {None}, Sound(d, x), NEW r, r = net_drop_client(d)
  PROVE  /\ Sound(r, x) /\ r.client = None /\ r.listen = d.listen
         /\ Items(r) \subseteq Items(d) /\ Len(r.ent) <= Len(d.ent)
         /\ x # None => r.open[x] = d.open[x]
<1>1. None \notin Fds
  BY FdsAssumption DEF None
<1>2. CASE d.client = None
  BY <1>2, Fields DEF net_drop_client, Sound
<1>3. CASE d.client # None
  <2>1. d \in Tables /\ Distinct(d) /\ Roomy(d)
    BY DEF Sound
  <2>2. PICK c \in Fds : c = d.client /\ c # x /\ c # d.listen /\ d.open[c].kind = "client"
    <3>1. d.client \in Fds /\ d.client # x
      BY <1>3, <2>1, Fields DEF Sound
    <3>2. d.open[d.client].kind = "client"
      BY <3>1 DEF Sound
    <3>3. d.open[d.client].kind # "listen"
      BY <3>2
    <3>4. d.client # d.listen
      BY <3>1, <3>3 DEF Sound
    <3> QED BY <3>1, <3>2, <3>4
  <2>3. PICK r1 : r1 = loop_remove(d, c)
    OBVIOUS
  <2>4. PICK r2 : r2 = close(r1, c)
    OBVIOUS
  <2>5. /\ r1 \in Tables /\ Distinct(r1) /\ Beside(d, r1)
        /\ Items(r1) = {e \in Items(d) : e.fd # c} /\ Len(r1.ent) <= Len(d.ent)
    BY <2>1, <2>3, Removed
  <2>6. /\ r2 \in Tables /\ r2.ent = r1.ent /\ r2.open[c] = Free
        /\ \A g \in Fds : g # c => r2.open[g] = d.open[g]
        /\ r2.listen = d.listen
    <3>1. Free \in Objects
      BY DEF Free, Objects
    <3> QED BY <2>4, <2>5, <3>1, OtherOpen DEF close, Beside
  <2>7. r = [r2 EXCEPT !.client = None]
    BY <1>3, <2>2, <2>3, <2>4 DEF net_drop_client
  <2>8. /\ r \in Tables /\ r.ent = r1.ent /\ r.open = r2.open /\ r.client = None
        /\ r.listen = d.listen
    BY <2>6, <2>7, OtherClient
  <2>9. Items(r) = {e \in Items(d) : e.fd # c}
    BY <2>5, <2>8 DEF Items
  <2>10. Distinct(r) /\ Roomy(r) /\ Len(r.ent) <= Len(d.ent)
    <3>1. Len(r.ent) \in Nat /\ Len(d.ent) \in Nat /\ MaxFds \in Nat
      BY <2>1, <2>8, Fields, LoopAssumption
    <3> QED BY <2>1, <2>5, <2>8, <3>1 DEF Distinct, Roomy
  <2>11. Items(r) = {Watched(r, f) : f \in {g \in Fds : r.open[g] # Free /\ g # x}}
    <3>1. \A f \in Fds : f # c => Watched(r, f) = Watched(d, f)
      BY <2>6, <2>8 DEF Watched
    <3>2. Items(d) = {Watched(d, f) : f \in {g \in Fds : d.open[g] # Free /\ g # x}}
      BY DEF Sound
    <3>3. \A f \in Fds : Watched(d, f).fd = f
      BY DEF Watched
    <3>4. ASSUME NEW e \in Items(r)
          PROVE  \E f \in Fds : r.open[f] # Free /\ f # x /\ e = Watched(r, f)
      <4>1. PICK f \in Fds : d.open[f] # Free /\ f # x /\ e = Watched(d, f) /\ f # c
        BY <2>9, <3>2, <3>3
      <4> QED BY <2>6, <2>8, <3>1, <4>1
    <3>5. ASSUME NEW f \in Fds, r.open[f] # Free, f # x
          PROVE  Watched(r, f) \in Items(r)
      <4>1. f # c /\ d.open[f] # Free
        BY <2>6, <2>8, <3>5
      <4> QED BY <2>9, <3>1, <3>2, <3>3, <3>5, <4>1
    <3> QED BY <3>4, <3>5
  <2>12. \A f \in Fds : f # x => /\ r.open[f].kind = "client" <=> f = r.client
                                 /\ r.open[f].kind = "listen" <=> f = r.listen
    <3>1. Free.kind = "free"
      BY DEF Free
    <3>2. \A f \in Fds : f # x => /\ d.open[f].kind = "client" <=> f = c
                                  /\ d.open[f].kind = "listen" <=> f = d.listen
      BY <2>2 DEF Sound
    <3> QED BY <1>1, <2>2, <2>6, <2>8, <3>1, <3>2
  <2>13. x # r.listen /\ (r.client # None => x # r.client)
    BY <2>8 DEF Sound
  <2>14. (x # None => r.open[x] = d.open[x]) /\ Items(r) \subseteq Items(d)
    BY <2>2, <2>6, <2>8, <2>9
  <2> QED BY <2>8, <2>10, <2>11, <2>12, <2>13, <2>14 DEF Sound
<1> QED BY <1>2, <1>3

(* What is open is not free.                                               *)
LEMMA Sockets ==
  ASSUME NEW n \in Nat, NEW k \in {"input", "listen", "timer", "client"}
  PROVE  Sock(k, n) \in Objects /\ Sock(k, n).kind = k /\ Sock(k, n) # Free
<1>1. Sock(k, n) \in Objects /\ Sock(k, n).kind = k /\ Free.kind = "free"
  BY DEF Sock, Objects, Free
<1> QED BY <1>1

(* A descriptor is opened and not yet watched.                             *)
LEMMA Opened ==
  ASSUME NEW d, Sound(d, None), NEW fd \in Fds, d.open[fd] = Free,
         NEW b \in Tables, b.ent = d.ent, b.open = d.open, b.client = d.client, b.listen = d.listen,
         NEW o \in Objects, NEW r, r = Opens(b, fd, o)
  PROVE  /\ Sound(r, fd) /\ Items(r) = Items(d) /\ r.open[fd] = o
         /\ r.client = d.client /\ r.listen = d.listen
<1>1. None \notin Fds /\ d \in Tables
  BY FdsAssumption DEF None, Sound
<1>2. /\ r \in Tables /\ r.ent = d.ent
      /\ r.open[fd] = o /\ \A g \in Fds : g # fd => r.open[g] = d.open[g]
      /\ r.listen = d.listen /\ r.client = d.client
  BY OtherOpen
<1>3. Distinct(r) /\ Roomy(r) /\ Items(r) = Items(d)
  BY <1>2 DEF Sound, Distinct, Roomy, Items
<1>4. Items(r) = {Watched(r, f) : f \in {g \in Fds : r.open[g] # Free /\ g # fd}}
  <2>1. \A f \in Fds : f # fd => Watched(r, f) = Watched(d, f)
    BY <1>2 DEF Watched
  <2>2. Items(d) = {Watched(d, f) : f \in {g \in Fds : d.open[g] # Free /\ g # None}}
    BY DEF Sound
  <2>3. \A g \in Fds : (d.open[g] # Free /\ g # None) <=> (r.open[g] # Free /\ g # fd)
    BY <1>1, <1>2
  <2>4. ASSUME NEW e \in Items(r) PROVE \E f \in Fds : r.open[f] # Free /\ f # fd /\ e = Watched(r, f)
    BY <1>3, <2>1, <2>2, <2>3
  <2>5. ASSUME NEW f \in Fds, r.open[f] # Free, f # fd PROVE Watched(r, f) \in Items(r)
    BY <1>3, <2>1, <2>2, <2>3, <2>5
  <2> QED BY <2>4, <2>5
<1>5. \A f \in Fds : f # fd => /\ r.open[f].kind = "client" <=> f = r.client
                               /\ r.open[f].kind = "listen" <=> f = r.listen
  <2>1. \A f \in Fds : /\ d.open[f].kind = "client" <=> f = d.client
                       /\ d.open[f].kind = "listen" <=> f = d.listen
    BY <1>1 DEF Sound
  <2> QED BY <1>2, <2>1
<1>6. fd # d.listen /\ fd # d.client
  BY <1>1 DEF Sound, Free
<1> QED BY <1>2, <1>3, <1>4, <1>5, <1>6 DEF Sound

(* What has been opened is watched.                                        *)
LEMMA WatchedNow ==
  ASSUME NEW d, NEW x \in Fds, d \in Tables, d.open[x] # Free,
         \A e \in Items(d) : e.fd # x, Distinct(d), Len(d.ent) < MaxFds,
         Items(d) = {Watched(d, f) : f \in {g \in Fds : d.open[g] # Free /\ g # x}},
         \A f \in Fds : /\ d.open[f].kind = "client" <=> f = d.client
                        /\ d.open[f].kind = "listen" <=> f = d.listen,
         NEW r, r = loop_add(d, x)
  PROVE  Sound(r, None) /\ Items(r) = Items(d) \cup {Watched(d, x)}
<1>1. None \notin Fds
  BY FdsAssumption DEF None
<1>2. Roomy(d)
  BY Fields, LoopAssumption DEF Roomy
<1>3. /\ r \in Tables /\ Distinct(r) /\ Roomy(r) /\ Beside(d, r)
      /\ Items(r) = Items(d) \cup {Watched(d, x)}
  BY <1>2, Added
<1>4. Items(r) = {Watched(r, f) : f \in {g \in Fds : r.open[g] # Free /\ g # None}}
  <2>1. \A f \in Fds : Watched(r, f) = Watched(d, f) /\ r.open[f] = d.open[f]
    BY <1>3 DEF Watched, Beside
  <2>2. ASSUME NEW e \in Items(r) PROVE \E f \in Fds : r.open[f] # Free /\ f # None /\ e = Watched(r, f)
    BY <1>1, <1>3, <2>1
  <2>3. ASSUME NEW f \in Fds, r.open[f] # Free PROVE Watched(r, f) \in Items(r)
    BY <1>3, <2>1, <2>3
  <2> QED BY <1>1, <2>2, <2>3
<1>5. \A f \in Fds : f # None => /\ r.open[f].kind = "client" <=> f = r.client
                                 /\ r.open[f].kind = "listen" <=> f = r.listen
  BY <1>3 DEF Beside
<1>6. None # r.listen /\ (r.client # None => None # r.client)
  BY <1>1, <1>3, Fields
<1> QED BY <1>3, <1>4, <1>5, <1>6 DEF Sound

(* net_on_listen_ready: the connection before is dropped, the one after is *)
(* watched or refused.                                                     *)
LEMMA Accepted ==
  ASSUME NEW d, Sound(d, None), NEW r, r = Accept(d)
  PROVE  Sound(r, None) /\ \A e \in Items(r) : e \in Items(d) \/ e.obj.kind = "client"
<1>1. None \notin Fds /\ d \in Tables /\ d.clients \in Nat
  BY FdsAssumption, Fields DEF None, Sound
<1>2. PICK fd \in Fds : fd = Lowest(d.open) /\ d.open[fd] = Free
  BY LowestFree
<1>3. PICK b : b = [d EXCEPT !.clients = d.clients + 1]
  OBVIOUS
<1>4. PICK o \in Objects : o = Sock("client", d.clients + 1) /\ o.kind = "client" /\ o # Free
  <2>1. d.clients + 1 \in Nat
    BY <1>1
  <2> QED BY <2>1, Sockets
<1>5. PICK new : new = Opens(b, fd, o)
  OBVIOUS
<1>6. b \in Tables /\ b.ent = d.ent /\ b.open = d.open /\ b.client = d.client /\ b.listen = d.listen
  <2>1. d.clients + 1 \in Nat
    BY <1>1
  <2> QED BY <1>1, <1>3, <2>1, OtherCounts
<1>7. Sound(new, fd) /\ Items(new) = Items(d) /\ new.open[fd] = o
  BY <1>2, <1>5, <1>6, Opened
<1>8. PICK old : old = net_drop_client(new)
  OBVIOUS
<1>9. /\ Sound(old, fd) /\ old.client = None /\ Items(old) \subseteq Items(d) /\ old.open[fd] = o
  BY <1>1, <1>7, <1>8, Dropped
<1>10. PICK mid : mid = [old EXCEPT !.client = fd]
  OBVIOUS
<1>11. PICK reg : reg = loop_add(mid, fd)
  OBVIOUS
<1>12. r = IF Entries(reg, fd) = {} THEN net_drop_client(reg) ELSE reg
  BY <1>2, <1>3, <1>4, <1>5, <1>8, <1>10, <1>11 DEF Accept
<1>13. /\ mid \in Tables /\ mid.ent = old.ent /\ mid.open = old.open /\ mid.client = fd
       /\ mid.listen = old.listen
  BY <1>9, <1>10, OtherClient DEF Sound
<1>14. Items(mid) = Items(old) /\ Distinct(mid) /\ Roomy(mid) /\ \A e \in Items(mid) : e.fd # fd
  <2>1. Items(mid) = Items(old) /\ Distinct(mid) /\ Roomy(mid)
    BY <1>9, <1>13 DEF Items, Distinct, Roomy, Sound
  <2>2. \A e \in Items(old) : e.fd # fd
    BY <1>9 DEF Sound, Watched
  <2> QED BY <2>1, <2>2
<1>15. CASE Len(mid.ent) < MaxFds
  <2>1. Items(mid) = {Watched(mid, f) : f \in {g \in Fds : mid.open[g] # Free /\ g # fd}}
    BY <1>9, <1>13, <1>14 DEF Sound, Watched
  <2>2. \A f \in Fds : /\ mid.open[f].kind = "client" <=> f = mid.client
                       /\ mid.open[f].kind = "listen" <=> f = mid.listen
    BY <1>1, <1>4, <1>9, <1>13 DEF Sound
  <2>3. Sound(reg, None) /\ Items(reg) = Items(mid) \cup {Watched(mid, fd)}
    BY <1>4, <1>9, <1>11, <1>13, <1>14, <1>15, <2>1, <2>2, WatchedNow
  <2>4. Watched(mid, fd).fd = fd /\ Watched(mid, fd).obj = o
    BY <1>9, <1>13 DEF Watched
  <2>5. Entries(reg, fd) # {}
    BY <2>3, <2>4 DEF Entries, Items
  <2> QED BY <1>4, <1>9, <1>12, <1>14, <2>3, <2>4, <2>5
<1>16. CASE ~(Len(mid.ent) < MaxFds)
  <2>1. reg = mid
    BY <1>11, <1>13, <1>14, <1>16, Added
  <2>2. Entries(mid, fd) = {}
    BY <1>14 DEF Entries, Items
  <2>3. PICK shut : shut = close(mid, fd)
    OBVIOUS
  <2>4. r = [shut EXCEPT !.client = None]
    BY <1>1, <1>12, <1>13, <2>1, <2>2, <2>3 DEF net_drop_client, loop_remove
  <2>5. /\ shut \in Tables /\ shut.ent = old.ent /\ shut.open[fd] = Free
        /\ \A g \in Fds : g # fd => shut.open[g] = old.open[g]
        /\ shut.listen = old.listen
    <3>1. Free \in Objects
      BY DEF Free, Objects
    <3> QED BY <1>13, <2>3, <3>1, OtherOpen, SMTT(30) DEF close
  <2>6. /\ r \in Tables /\ r.ent = old.ent /\ r.open = shut.open /\ r.client = None
        /\ r.listen = old.listen
    BY <2>4, <2>5, OtherClient
  <2>7. Items(r) = Items(old) /\ Distinct(r) /\ Roomy(r)
    BY <1>9, <2>6 DEF Items, Distinct, Roomy, Sound
  <2>8. Items(r) = {Watched(r, f) : f \in {g \in Fds : r.open[g] # Free /\ g # None}}
    <3>1. \A f \in Fds : f # fd => Watched(r, f) = Watched(old, f) /\ r.open[f] = old.open[f]
      BY <2>5, <2>6 DEF Watched
    <3>2. Items(old) = {Watched(old, f) : f \in {g \in Fds : old.open[g] # Free /\ g # fd}}
      BY <1>9 DEF Sound
    <3>3. ASSUME NEW e \in Items(r)
          PROVE  \E f \in Fds : r.open[f] # Free /\ f # None /\ e = Watched(r, f)
      BY <1>1, <2>7, <3>1, <3>2
    <3>4. ASSUME NEW f \in Fds, r.open[f] # Free PROVE Watched(r, f) \in Items(r)
      BY <2>5, <2>6, <2>7, <3>1, <3>2, <3>4
    <3> QED BY <1>1, <3>3, <3>4
  <2>9. \A f \in Fds : f # None => /\ r.open[f].kind = "client" <=> f = r.client
                                   /\ r.open[f].kind = "listen" <=> f = r.listen
    <3>1. \A f \in Fds : f # fd => /\ old.open[f].kind = "client" <=> f = None
                                   /\ old.open[f].kind = "listen" <=> f = old.listen
      BY <1>9 DEF Sound
    <3>2. fd # old.listen /\ Free.kind = "free"
      BY <1>9 DEF Sound, Free
    <3> QED BY <1>1, <2>5, <2>6, <3>1, <3>2
  <2>10. None # r.listen /\ (r.client # None => None # r.client)
    BY <1>1, <2>6, Fields
  <2> QED BY <1>9, <2>6, <2>7, <2>8, <2>9, <2>10 DEF Sound
<1> QED BY <1>15, <1>16

(* net_init on another port: the new socket is watched in place of the old *)
(* one, for which there is room.                                           *)
LEMMA Moved ==
  ASSUME NEW d, Sound(d, None), NEW r, r = MovedPort(d)
  PROVE  Sound(r, None)
<1>1. None \notin Fds /\ d \in Tables /\ d.ports \in Nat
  BY FdsAssumption, Fields DEF None, Sound
<1>2. PICK fd \in Fds : fd = Lowest(d.open) /\ d.open[fd] = Free
  BY LowestFree
<1>3. PICK b : b = [d EXCEPT !.ports = d.ports + 1]
  OBVIOUS
<1>4. PICK o \in Objects : o = Sock("listen", d.ports + 1) /\ o.kind = "listen" /\ o # Free
  <2>1. d.ports + 1 \in Nat
    BY <1>1
  <2> QED BY <2>1, Sockets
<1>5. PICK new : new = Opens(b, fd, o)
  OBVIOUS
<1>6. b \in Tables /\ b.ent = d.ent /\ b.open = d.open /\ b.client = d.client /\ b.listen = d.listen
  <2>1. d.ports + 1 \in Nat
    BY <1>1
  <2> QED BY <1>1, <1>3, <2>1, OtherCounts
<1>7. Sound(new, fd) /\ new.open[fd] = o /\ new.listen = d.listen
  BY <1>2, <1>5, <1>6, Opened
<1>8. PICK dropped : dropped = net_drop_client(new)
  OBVIOUS
<1>9. /\ Sound(dropped, fd) /\ dropped.client = None /\ dropped.listen = d.listen
      /\ dropped.open[fd] = o
  BY <1>1, <1>7, <1>8, Dropped
<1>10. PICK q \in Fds : q = d.listen /\ q # fd /\ dropped.open[q].kind = "listen"
  BY <1>1, <1>9, Fields DEF Sound
<1>11. PICK old : old = loop_remove(dropped, q)
  OBVIOUS
<1>12. /\ old \in Tables /\ Distinct(old) /\ Beside(dropped, old)
       /\ Items(old) = {e \in Items(dropped) : e.fd # q} /\ Len(old.ent) < Len(dropped.ent)
  <2>1. Watched(dropped, q) \in Items(dropped) /\ Watched(dropped, q).fd = q
    <3>1. dropped.open[q] # Free
      BY <1>10 DEF Free
    <3> QED BY <1>9, <1>10, <3>1 DEF Sound, Watched
  <2> QED BY <1>9, <1>11, <2>1, Removed DEF Sound
<1>13. PICK shut : shut = close(old, q)
  OBVIOUS
<1>14. PICK mid : mid = [shut EXCEPT !.listen = fd]
  OBVIOUS
<1>15. r = loop_add(mid, fd)
  BY <1>2, <1>3, <1>4, <1>5, <1>8, <1>10, <1>11, <1>13, <1>14 DEF MovedPort
<1>16. /\ shut \in Tables /\ shut.ent = old.ent /\ shut.open[q] = Free
       /\ \A g \in Fds : g # q => shut.open[g] = dropped.open[g]
       /\ shut.client = None
  <2>1. old.open = dropped.open /\ old.client = dropped.client /\ old \in Tables
    BY <1>12 DEF Beside
  <2>2. /\ shut \in Tables /\ shut.ent = old.ent /\ shut.open[q] = Free
        /\ \A g \in Fds : g # q => shut.open[g] = old.open[g]
        /\ shut.client = old.client
    <3>1. old \in Tables /\ q \in Fds
      BY <2>1
    <3>2. shut \in Tables
      BY <1>13, <3>1, Closed
    <3>3. shut.ent = old.ent
      BY <1>13, <3>1, Closed
    <3>4. shut.open[q] = Free
      BY <1>13, <3>1, Closed
    <3>5. \A g \in Fds : g # q => shut.open[g] = old.open[g]
      BY <1>13, <3>1, Closed
    <3>6. shut.client = old.client
      BY <1>13, <3>1, Closed
    <3> QED BY <3>2, <3>3, <3>4, <3>5, <3>6
  <2> QED BY <1>9, <2>1, <2>2
<1>17. /\ mid \in Tables /\ mid.ent = old.ent /\ mid.open = shut.open /\ mid.client = None
       /\ mid.listen = fd
  BY <1>14, <1>16, OtherListen
<1>18. Items(mid) = {Watched(mid, f) : f \in {g \in Fds : mid.open[g] # Free /\ g # fd}}
  <2>1. \A f \in Fds : f # q => Watched(mid, f) = Watched(dropped, f) /\ mid.open[f] = dropped.open[f]
    BY <1>16, <1>17 DEF Watched
  <2>2. Items(dropped) = {Watched(dropped, f) : f \in {g \in Fds : dropped.open[g] # Free /\ g # fd}}
    BY <1>9 DEF Sound
  <2>3. Items(mid) = Items(old) /\ \A f \in Fds : Watched(dropped, f).fd = f
    BY <1>17 DEF Items, Watched
  <2>4. ASSUME NEW e \in Items(mid)
        PROVE  \E f \in Fds : mid.open[f] # Free /\ f # fd /\ e = Watched(mid, f)
    <3>1. PICK f \in Fds : dropped.open[f] # Free /\ f # fd /\ e = Watched(dropped, f) /\ f # q
      BY <1>12, <2>2, <2>3
    <3> QED BY <2>1, <3>1
  <2>5. ASSUME NEW f \in Fds, mid.open[f] # Free, f # fd PROVE Watched(mid, f) \in Items(mid)
    <3>1. f # q
      BY <1>16, <1>17, <2>5
    <3> QED BY <1>12, <2>1, <2>2, <2>3, <2>5, <3>1
  <2> QED BY <2>4, <2>5
<1>19. \A f \in Fds : /\ mid.open[f].kind = "client" <=> f = mid.client
                      /\ mid.open[f].kind = "listen" <=> f = mid.listen
  <2>1. \A f \in Fds : f # fd => /\ dropped.open[f].kind = "client" <=> f = None
                                 /\ dropped.open[f].kind = "listen" <=> f = q
    BY <1>9, <1>10 DEF Sound
  <2>2. Free.kind = "free"
    BY DEF Free
  <2> QED BY <1>1, <1>4, <1>9, <1>10, <1>16, <1>17, <2>1, <2>2
<1>20. \A e \in Items(mid) : e.fd # fd
  BY <1>18 DEF Watched
<1>21. Len(mid.ent) < MaxFds
  <2>1. Len(mid.ent) < Len(dropped.ent) /\ Len(dropped.ent) <= MaxFds
    BY <1>9, <1>12, <1>17 DEF Sound, Roomy
  <2>2. Len(mid.ent) \in Nat /\ Len(dropped.ent) \in Nat /\ MaxFds \in Nat
    BY <1>9, <1>17, Fields, LoopAssumption DEF Sound
  <2> QED BY <2>1, <2>2
<1>22. mid.open[fd] # Free /\ Distinct(mid)
  BY <1>4, <1>9, <1>10, <1>12, <1>16, <1>17 DEF Distinct
<1> QED BY <1>15, <1>17, <1>18, <1>19, <1>20, <1>21, <1>22, WatchedNow

-----------------------------------------------------------------------------
(* The start.                                                              *)

(* The inputs, the listening socket and the timer are watched.             *)
LEMMA StartSound ==
  ASSUME NEW inputs \in 1 .. MaxInputs
  PROVE  Sound(Start(inputs), None)
<1> DEFINE table == [f \in Fds |-> CASE f < inputs      -> Sock("input", f)
                                     [] f = inputs      -> Sock("listen", 1)
                                     [] f = inputs + 1  -> Sock("timer", 0)
                                     [] OTHER           -> Free]
           nth(i) == IF i = 1 THEN inputs ELSE IF i <= inputs + 1 THEN i - 2 ELSE inputs + 1
           s == [i \in 1 .. inputs + 2 |-> [fd |-> nth(i), obj |-> table[nth(i)]]]
           d == Start(inputs)
<1>1. /\ MaxFds \in Nat /\ inputs \in Nat /\ inputs + 2 <= MaxFds /\ inputs >= 1
      /\ 0 .. MaxFds \subseteq Fds /\ Fds \subseteq Nat
  BY LoopAssumption, FdsAssumption
<1>2. /\ \A f \in Fds : table[f] \in Objects
      /\ \A f \in Fds : table[f] # Free <=> f \in 0 .. inputs + 1
      /\ \A f \in Fds : table[f].kind # "client" /\ (table[f].kind = "listen" <=> f = inputs)
  <2> SUFFICES ASSUME NEW f \in Fds
               PROVE  /\ table[f] \in Objects
                      /\ table[f] # Free <=> f \in 0 .. inputs + 1
                      /\ table[f].kind # "client" /\ (table[f].kind = "listen" <=> f = inputs)
    OBVIOUS
  <2>1. /\ f \in Nat /\ Sock("input", f) \in Objects /\ Sock("listen", 1) \in Objects
        /\ Sock("timer", 0) \in Objects /\ Free \in Objects
        /\ Sock("input", f).kind = "input" /\ Sock("listen", 1).kind = "listen"
        /\ Sock("timer", 0).kind = "timer" /\ Free.kind = "free"
    BY <1>1 DEF Sock, Free, Objects
  <2>2. CASE f < inputs
    <3>1. table[f] = Sock("input", f) /\ f \in 0 .. inputs + 1 /\ f # inputs
      BY <1>1, <2>1, <2>2
    <3> QED BY <2>1, <3>1
  <2>3. CASE f = inputs
    <3>1. table[f] = Sock("listen", 1) /\ f \in 0 .. inputs + 1
      BY <1>1, <2>1, <2>3
    <3> QED BY <2>1, <2>3, <3>1
  <2>4. CASE f = inputs + 1
    <3>1. table[f] = Sock("timer", 0) /\ f \in 0 .. inputs + 1 /\ f # inputs
      BY <1>1, <2>1, <2>4
    <3> QED BY <2>1, <3>1
  <2>5. CASE ~(f < inputs) /\ f # inputs /\ f # inputs + 1
    <3>1. table[f] = Free /\ f \notin 0 .. inputs + 1
      BY <1>1, <2>1, <2>5
    <3> QED BY <2>1, <2>5, <3>1
  <2> QED BY <2>2, <2>3, <2>4, <2>5
<1>3. \A i \in 1 .. inputs + 2 : nth(i) \in 0 .. inputs + 1
  BY <1>1
<1>4. \A i, j \in 1 .. inputs + 2 : nth(i) = nth(j) => i = j
  BY <1>1
<1>5. ASSUME NEW f \in 0 .. inputs + 1 PROVE \E i \in 1 .. inputs + 2 : nth(i) = f
  <2>1. CASE f < inputs
    <3>1. f + 2 \in 1 .. inputs + 2 /\ nth(f + 2) = f
      BY <1>1, <2>1
    <3> QED BY <3>1
  <2>2. CASE f = inputs
    <3>1. 1 \in 1 .. inputs + 2 /\ nth(1) = f
      BY <1>1, <2>2
    <3> QED BY <3>1
  <2>3. CASE f = inputs + 1
    <3>1. inputs + 2 \in 1 .. inputs + 2 /\ nth(inputs + 2) = f
      BY <1>1, <2>3
    <3> QED BY <3>1
  <2> QED BY <1>1, <2>1, <2>2, <2>3
<1>6. 0 .. inputs + 1 \subseteq Fds
  BY <1>1
<1>7. d = [open |-> table, listen |-> inputs, client |-> None, clients |-> 0, ports |-> 1, ent |-> s]
  BY DEF Start
<1>8. table \in [Fds -> Objects]
  BY <1>2
<1> HIDE DEF table, nth, d
<1>9. /\ s \in Seq(Entry) /\ Len(s) = inputs + 2 /\ DOMAIN s = 1 .. inputs + 2
      /\ \A i \in 1 .. inputs + 2 : s[i] = [fd |-> nth(i), obj |-> table[nth(i)]]
  <2>1. \A i \in 1 .. inputs + 2 : [fd |-> nth(i), obj |-> table[nth(i)]] \in Entry
    BY <1>2, <1>3, <1>6 DEF Entry
  <2>2. inputs + 2 \in Nat /\ s \in [1 .. inputs + 2 -> Entry]
    BY <1>1, <2>1
  <2>3. s \in Seq(Entry)
    BY <2>2, SeqDef
  <2>4. Len(s) = inputs + 2
    BY <2>2, <2>3, LenProperties
  <2> QED BY <2>2, <2>3, <2>4
<1> HIDE DEF s
<1>10. /\ d \in Tables /\ d.ent = s /\ d.open = table /\ d.listen = inputs /\ d.client = None
  <2>1. inputs \in Fds
    BY <1>1, <1>6
  <2> QED BY <1>7, <1>8, <1>9, <2>1 DEF Tables
<1>11. Distinct(d) /\ Roomy(d)
  BY <1>1, <1>4, <1>9, <1>10 DEF Distinct, Roomy
<1>12. None \notin Fds
  BY <1>1 DEF None
<1>13. Items(d) = {Watched(d, f) : f \in {g \in Fds : d.open[g] # Free /\ g # None}}
  <2>1. Items(d) = {Watched(d, nth(i)) : i \in 1 .. inputs + 2}
    BY <1>9, <1>10 DEF Items, Watched
  <2>2. ASSUME NEW e \in Items(d) PROVE \E f \in Fds : d.open[f] # Free /\ f # None /\ e = Watched(d, f)
    BY <1>2, <1>3, <1>6, <1>10, <1>12, <2>1
  <2>3. ASSUME NEW f \in Fds, d.open[f] # Free PROVE Watched(d, f) \in Items(d)
    BY <1>2, <1>5, <1>10, <2>1, <2>3
  <2> QED BY <2>2, <2>3
<1>14. \A f \in Fds : f # None => /\ d.open[f].kind = "client" <=> f = d.client
                                  /\ d.open[f].kind = "listen" <=> f = d.listen
  BY <1>2, <1>10, <1>12
<1>15. None # d.listen /\ d.client = None
  BY <1>10, <1>12, Fields
<1>16. Sound(d, None)
  BY <1>10, <1>11, <1>13, <1>14, <1>15 DEF Sound
<1> QED BY <1>16 DEF d

-----------------------------------------------------------------------------
(* The steps.                                                              *)

(* What the callbacks and a reload do to the table.                        *)
TableStep == t' = t \/ t' = net_drop_client(t) \/ t' = Accept(t) \/ t' = MovedPort(t)

(* The table stays sound, and all but a change of the port leaves what is  *)
(* no connection where it was.                                             *)
LEMMA TableKeeps ==
  ASSUME Sound(t, None), TableStep
  PROVE  /\ Sound(t, None)'
         /\ t' # MovedPort(t) => \A e \in Items(t') : e \in Items(t) \/ e.obj.kind = "client"
<1>1. CASE t' = t
  BY <1>1
<1>2. CASE t' = net_drop_client(t)
  <2>1. Sound(t', None) /\ Items(t') \subseteq Items(t)
    BY <1>2, Dropped
  <2> QED BY <2>1
<1>3. CASE t' = Accept(t)
  BY <1>3, Accepted
<1>4. CASE t' = MovedPort(t)
  BY <1>4, Moved
<1> QED BY <1>1, <1>2, <1>3, <1>4 DEF TableStep

(* A callback that is called in a round.                                   *)
LEMMA Serving ==
  ASSUME serve
  PROVE  /\ t' = t \/ t' = net_drop_client(t) \/ t' = Accept(t)
         /\ ready' = Restrict(ready, DOMAIN ready \ {Turn})
<1>1. ready' = Restrict(ready, DOMAIN ready \ {Turn})
  BY DEF serve
<1>2. \/ UNCHANGED t
      \/ net_on_listen_ready \/ net_on_client_ready \/ on_housekeeping \/ on_card_readable
  BY DEF serve
<1>3. CASE net_on_client_ready
  <2>1. Recv
    BY <1>3 DEF net_on_client_ready
  <2> QED BY <1>1, <2>1 DEF Recv
<1>4. CASE net_on_listen_ready \/ on_housekeeping \/ on_card_readable
  BY <1>1, <1>4 DEF net_on_listen_ready, on_housekeeping, on_card_readable
<1> QED BY <1>1, <1>2, <1>3, <1>4

(* The table changes by what has been looked at, as long as the loop runs. *)
LEMMA Steps ==
  ASSUME Next, Up'
  PROVE  Up /\ TableStep
<1>1. CASE serve
  <2>1. pc = "serve"
    BY <1>1 DEF serve
  <2> QED BY <1>1, <2>1, Serving DEF Up, TableStep
<1>2. CASE apply_config
  BY <1>2 DEF apply_config, Applied, At, Up, TableStep
<1>3. CASE check \/ config_load \/ enter_select \/ loop_wait \/ served
  BY <1>3 DEF check, config_load, enter_select, loop_wait, served, At, Up, TableStep
<1>4. CASE loop_destroy \/ net_shutdown
  BY <1>4 DEF loop_destroy, net_shutdown, At, Up
<1>5. CASE connect \/ send_or_close \/ card \/ tick \/ sighup \/ sigterm
  BY <1>5 DEF connect, send_or_close, card, tick, sighup, sigterm, Interrupt, Up, TableStep
<1> QED BY <1>1, <1>2, <1>3, <1>4, <1>5 DEF Next

(* Entries with the same descriptor are the same.                          *)
LEMMA OneEach ==
  ASSUME NEW d, Distinct(d), NEW i \in DOMAIN d.ent, NEW e \in Items(d), e.fd = d.ent[i].fd
  PROVE  e = d.ent[i]
BY DEF Distinct, Items

(* A round begins with what is watched, and goes on with less.             *)
LEMMA RoundKeeps ==
  ASSUME Next, Up', Sound(t, None), Round
  PROVE  Round'
<1> SUFFICES ASSUME pc' = "serve"
             PROVE  /\ DOMAIN ready' \subseteq Nat
                    /\ \A p \in DOMAIN ready', e \in Items(t') :
                         e.fd = ready'[p].fd /\ e.obj.kind # "client" => e.obj = ready'[p].obj
  BY DEF Round, Items
<1>1. CASE loop_wait
  <2>1. ready' = Snapshot /\ t' = t
    BY <1>1 DEF loop_wait
  <2>2. DOMAIN ready' \subseteq DOMAIN t.ent /\ \A p \in DOMAIN ready' : ready'[p] = t.ent[p]
    BY <2>1 DEF Snapshot
  <2>3. DOMAIN t.ent \subseteq Nat
    BY Fields DEF Sound
  <2>4. \A p \in DOMAIN ready', e \in Items(t) : e.fd = ready'[p].fd => e.obj = ready'[p].obj
    BY <2>2, OneEach DEF Sound
  <2> QED BY <2>1, <2>2, <2>3, <2>4
<1>2. CASE pc = "serve" /\ (serve \/ UNCHANGED <<t, ready>>)
  <2>1. /\ DOMAIN ready' \subseteq DOMAIN ready /\ \A p \in DOMAIN ready' : ready'[p] = ready[p]
        /\ \A e \in Items(t') : e \in Items(t) \/ e.obj.kind = "client"
    <3>1. CASE serve
      <4>1. \A e \in Items(t') : e \in Items(t) \/ e.obj.kind = "client"
        <5>1. CASE t' = t \/ t' = net_drop_client(t)
          <6>1. Items(t') \subseteq Items(t)
            BY <5>1, Dropped
          <6> QED BY <6>1
        <5>2. CASE t' = Accept(t)
          BY <5>2, Accepted
        <5> QED BY <3>1, <5>1, <5>2, Serving
      <4>2. DOMAIN ready' \subseteq DOMAIN ready /\ \A p \in DOMAIN ready' : ready'[p] = ready[p]
        BY <3>1, Serving DEF Restrict
      <4> QED BY <4>1, <4>2
    <3>2. CASE UNCHANGED <<t, ready>>
      BY <3>2
    <3> QED BY <1>2, <3>1, <3>2
  <2> QED BY <1>2, <2>1 DEF Round
<1>3. CASE check \/ config_load \/ apply_config \/ enter_select \/ served \/ loop_destroy \/ net_shutdown
  BY <1>3 DEF check, config_load, apply_config, enter_select, served, loop_destroy, net_shutdown, At
<1>4. CASE connect \/ send_or_close \/ card \/ tick \/ sighup \/ sigterm
  <2>1. pc = "serve" /\ UNCHANGED <<t, ready>>
    BY <1>4 DEF connect, send_or_close, card, tick, sighup, sigterm, Interrupt
  <2> QED BY <1>2, <2>1
<1>5. CASE serve
  BY <1>2, <1>5 DEF serve
<1> QED BY <1>1, <1>3, <1>4, <1>5 DEF Next

(* The invariant holds.                                                    *)
THEOREM LoopInductive == Spec => []LInv
<1>1. Init => LInv
  <2> SUFFICES ASSUME Init PROVE LInv
    OBVIOUS
  <2>1. Sound(t, None)
    BY StartSound DEF Init
  <2> QED BY <2>1 DEF Init, LInv, Round
<1>2. LInv /\ [Next]_vars => LInv'
  <2> SUFFICES ASSUME LInv, [Next]_vars, Up' PROVE Sound(t, None)' /\ Round'
    BY DEF LInv
  <2>1. CASE Next
    <3>1. Up /\ TableStep
      BY <2>1, Steps
    <3>2. Sound(t, None) /\ Round
      BY <3>1 DEF LInv
    <3> QED BY <2>1, <3>1, <3>2, TableKeeps, RoundKeeps
  <2>2. CASE UNCHANGED vars
    BY <2>2 DEF vars, LInv, Up, Round
  <2> QED BY <2>1, <2>2
<1> QED BY <1>1, <1>2, PTL DEF Spec

(* While acud runs, what select is given is exactly what is open, each     *)
(* once and for what it is, whichever connections are accepted, replaced,  *)
(* refused or dropped and wherever the port moves (net_drop_client,        *)
(* net_on_listen_ready, loop_add with its table full).                     *)
THEOREM WatchesAreOpen == Spec => []WatchedIsOpen
<1>1. LInv => WatchedIsOpen
  <2> SUFFICES ASSUME Sound(t, None)
               PROVE  /\ {f \in Fds : t.open[f] # Free} = {t.ent[i].fd : i \in DOMAIN t.ent}
                      /\ \A i \in DOMAIN t.ent : t.ent[i].obj = t.open[t.ent[i].fd]
                      /\ \A i, j \in DOMAIN t.ent : t.ent[i].fd = t.ent[j].fd => i = j
                      /\ \A f \in Fds : t.open[f].kind = "client" <=> f = t.client
                      /\ \A f \in Fds : t.open[f].kind = "listen" <=> f = t.listen
    BY DEF LInv, WatchedIsOpen
  <2>1. None \notin Fds
    BY FdsAssumption DEF None
  <2>2. Items(t) = {Watched(t, f) : f \in {g \in Fds : t.open[g] # Free}}
    BY <2>1 DEF Sound
  <2>3. \A f \in Fds : Watched(t, f).fd = f /\ Watched(t, f).obj = t.open[f]
    BY DEF Watched
  <2>4. ASSUME NEW i \in DOMAIN t.ent
        PROVE  /\ t.ent[i].fd \in {f \in Fds : t.open[f] # Free}
               /\ t.ent[i].obj = t.open[t.ent[i].fd]
    <3>1. t.ent[i] \in Items(t)
      BY DEF Items
    <3> QED BY <2>2, <2>3, <3>1
  <2>5. ASSUME NEW f \in Fds, t.open[f] # Free PROVE \E i \in DOMAIN t.ent : t.ent[i].fd = f
    <3>1. Watched(t, f) \in Items(t)
      BY <2>2, <2>5
    <3> QED BY <2>3, <3>1 DEF Items
  <2>6. {f \in Fds : t.open[f] # Free} = {t.ent[i].fd : i \in DOMAIN t.ent}
    BY <2>4, <2>5
  <2>7. /\ \A f \in Fds : t.open[f].kind = "client" <=> f = t.client
        /\ \A f \in Fds : t.open[f].kind = "listen" <=> f = t.listen
    BY <2>1 DEF Sound
  <2> QED BY <2>4, <2>6, <2>7 DEF Sound, Distinct
<1> QED BY <1>1, LoopInductive, PTL

(* A callback for a readiness that was another descriptor's, the number    *)
(* having been given away again within the round, changes nothing (the     *)
(* second look in loop_wait, recv on a connection that has sent nothing).  *)
THEOREM StaleWakesAreHarmless == Spec => StaleWakeHarmless
<1> DEFINE Stale(i) == /\ pc = "serve" /\ DOMAIN ready # {} /\ ready' # ready /\ peer = "idle"
                       /\ t.ent[i].fd = ready[Turn].fd /\ t.ent[i].obj # ready[Turn].obj
<1>1. LInv /\ [Next]_vars => [\A i \in DOMAIN t.ent : Stale(i) => t' = t]_vars
  <2> SUFFICES ASSUME LInv, Next, NEW i \in DOMAIN t.ent, Stale(i)
               PROVE  t' = t
    BY DEF vars
  <2>1. Sound(t, None) /\ Round
    BY DEF LInv, Up
  <2>2. serve
    BY DEF Next, check, config_load, apply_config, enter_select, loop_wait, served, loop_destroy,
           net_shutdown, connect, send_or_close, card, tick, sighup, sigterm, At
  <2>3. Turn \in DOMAIN ready
    BY <2>1, Smallest DEF Turn, Round
  <2>4. t.ent[i].obj.kind = "client"
    <3>1. t.ent[i] \in Items(t)
      BY DEF Items
    <3> QED BY <2>1, <2>3, <3>1 DEF Round
  <2>5. Entries(t, ready[Turn].fd) = {i}
    BY <2>1 DEF Entries, Sound, Distinct
  <2>6. Min(Entries(t, ready[Turn].fd)) = i
    <3>1. {i} \subseteq Nat
      BY <2>1, Fields DEF Sound
    <3> QED BY <2>5, <3>1, Smallest
  <2>7. net_on_client_ready
    BY <2>2, <2>4, <2>5, <2>6 DEF serve
  <2> QED BY <2>7 DEF net_on_client_ready, Recv
<1> QED BY <1>1, LoopInductive, PTL DEF Spec, StaleWakeHarmless

=============================================================================
