--------------------------- MODULE ReceiveProofs ---------------------------
(***************************************************************************)
(* Proofs about the byte stream: frames are handled in order and none is   *)
(* left waiting, for every size of the buffer, every set of lengths that   *)
(* fits it, and however the stream is cut.                                 *)
(***************************************************************************)
EXTENDS Receive, SequenceTheorems, TLAPS

-----------------------------------------------------------------------------
(* The invariant.  What is still to be handled is the stream: the bytes of *)
(* the buffer from consumed on, and the bytes on their way.                *)

InBuffer == recv_len - consumed
Rest == InBuffer + Len(wire)
Stream == [i \in 1 .. Rest |-> IF i <= InBuffer THEN buf[consumed + i] ELSE wire[i - InBuffer]]

FrameBytes == {b \in [frame : 1 .. MaxFrames, at : Nat, len : Lengths] : b.at \in 1 .. b.len}

(* All of the frame that byte i of s belongs to is in s.                   *)
Complete(s, m, i) ==
  /\ s[i] \in FrameBytes /\ s[i].at <= i /\ i - s[i].at + s[i].len <= m
  /\ \A p \in 1 .. s[i].len :
       s[i - s[i].at + p] = [frame |-> s[i].frame, at |-> p, len |-> s[i].len]

EndOf(s, i) == i - s[i].at + s[i].len

(* That frame is the last one, or the next one follows it.                 *)
Followed(s, m, end, i) ==
  IF EndOf(s, i) = m THEN s[i].frame = end
  ELSE s[EndOf(s, i) + 1].at = 1 /\ s[EndOf(s, i) + 1].frame = s[i].frame + 1

(* The m bytes of s are the frames first .. end, one after the other.      *)
Framed(s, m, first, end) ==
  /\ IF m = 0 THEN first = end + 1 ELSE s[1].at = 1 /\ s[1].frame = first
  /\ \A i \in 1 .. m : Complete(s, m, i) /\ Followed(s, m, end, i)

(* Where the callback and the connection are.                              *)
Places ==
  /\ conn => ~cut /\ consumed <= recv_len
  /\ ~conn => recv_len = 0
  /\ pc # "idle" => conn \/ cut
  /\ pc = "idle" => consumed = 0
  /\ cut /\ pc = "move" => consumed = 0

StreamFramed == conn => Framed(Stream, Rest, base + Len(handled) + 1, sent)

(* Out of the parse loop, what is left is less than its first frame.       *)
NoneWhole ==
  conn /\ pc # "parse" /\ consumed < recv_len => InBuffer < buf[consumed + 1].len

RInv == TypeOK /\ Places /\ StreamFramed /\ NoneWhole /\ FramesInOrder

-----------------------------------------------------------------------------
(* Streams.                                                                *)

(* A length is a number between that of a header and that of the buffer.   *)
LEMMA LengthsFit ==
  /\ Cap \in Nat \ {0} /\ HeaderLen \in Nat \ {0} /\ MaxFrames \in Nat /\ MaxBreaks \in Nat
  /\ SizeMod \in Nat /\ 2 * Cap + HeaderLen < SizeMod
  /\ \A l \in Lengths : l \in Nat /\ HeaderLen < l /\ l < Cap
BY BufferAssumption, FrameBoundsAssumption

(* Byte i of s is byte a of frame f, which has k of them, all in s.        *)
ByteOf(s, m, i, f, a, k) ==
  /\ s[i] = [frame |-> f, at |-> a, len |-> k] /\ s[i] \in FrameBytes
  /\ a \in 1 .. k /\ a <= i /\ i - a + k <= m
  /\ \A p \in 1 .. k : s[i - a + p] = [frame |-> f, at |-> p, len |-> k]

(* A byte of a complete frame, and the bytes beside it.                    *)
LEMMA ByteOfFrame ==
  ASSUME NEW m \in Nat, NEW s, NEW i \in 1 .. m, Complete(s, m, i)
  PROVE  \E f \in 1 .. MaxFrames, a \in Nat, k \in Nat : ByteOf(s, m, i, f, a, k)
<1>1. PICK f \in 1 .. MaxFrames, a \in Nat, k \in Nat :
        s[i] = [frame |-> f, at |-> a, len |-> k] /\ a \in 1 .. k
  BY LengthsFit DEF Complete, FrameBytes
<1>2. s[i].at = a /\ s[i].len = k /\ s[i].frame = f
  BY <1>1
<1>3. /\ s[i] \in FrameBytes /\ a <= i /\ i - a + k <= m
      /\ \A p \in 1 .. k : s[i - a + p] = [frame |-> f, at |-> p, len |-> k]
  BY <1>2 DEF Complete
<1>4. ByteOf(s, m, i, f, a, k)
  BY <1>1, <1>3 DEF ByteOf
<1> QED BY <1>4

(* Framed depends on the first m bytes alone.                              *)
LEMMA SameBytes ==
  ASSUME NEW m \in Nat, NEW first, NEW end, NEW s, NEW t,
         Framed(s, m, first, end), \A i \in 1 .. m : t[i] = s[i]
  PROVE  Framed(t, m, first, end)
<1>1. m # 0 => t[1] = s[1]
  OBVIOUS
<1>2. ASSUME NEW i \in 1 .. m PROVE Complete(t, m, i) /\ Followed(t, m, end, i)
  <2>1. Complete(s, m, i) /\ Followed(s, m, end, i) /\ t[i] = s[i]
    BY DEF Framed
  <2>2. PICK f \in 1 .. MaxFrames, a \in Nat, l \in Nat :
          /\ s[i] = [frame |-> f, at |-> a, len |-> l] /\ a \in 1 .. l /\ a <= i /\ i - a + l <= m
          /\ s[i] \in FrameBytes
    BY <2>1, LengthsFit DEF Complete, FrameBytes
  <2>3. s[i].frame = f /\ s[i].at = a /\ s[i].len = l
    BY <2>2
  <2>4. \A p \in 1 .. l : i - a + p \in 1 .. m /\ t[i - a + p] = s[i - a + p]
    BY <2>2
  <2>5. Complete(t, m, i)
    BY <2>1, <2>2, <2>3, <2>4 DEF Complete
  <2>6. i - a + l # m => t[i - a + l + 1] = s[i - a + l + 1]
    BY <2>2
  <2>7. EndOf(s, i) = i - a + l /\ EndOf(t, i) = i - a + l
    BY <2>1, <2>3 DEF EndOf
  <2>8. Followed(t, m, end, i)
    BY <2>1, <2>6, <2>7 DEF Followed
  <2> QED BY <2>5, <2>8
<1> QED BY <1>1, <1>2 DEF Framed

(* The bytes of the first frame.                                           *)
LEMMA FirstFrame ==
  ASSUME NEW m \in Nat \ {0}, NEW first, NEW end, NEW s, Framed(s, m, first, end)
  PROVE  /\ s[1] \in FrameBytes /\ s[1].at = 1 /\ s[1].frame = first /\ first \in 1 .. MaxFrames
         /\ s[1].len \in Lengths /\ s[1].len \in Nat /\ s[1].len <= m
         /\ \A p \in 1 .. s[1].len : s[p] = [frame |-> first, at |-> p, len |-> s[1].len]
<1>1. 1 \in 1 .. m
  OBVIOUS
<1>2. s[1].at = 1 /\ s[1].frame = first /\ Complete(s, m, 1)
  BY <1>1 DEF Framed
<1>3. s[1] \in FrameBytes /\ 1 - s[1].at + s[1].len <= m
      /\ \A p \in 1 .. s[1].len : s[1 - s[1].at + p] = [frame |-> first, at |-> p, len |-> s[1].len]
  BY <1>2 DEF Complete
<1>4. s[1].len \in Lengths /\ s[1].frame \in 1 .. MaxFrames
  BY <1>3 DEF FrameBytes
<1>5. s[1].len \in Nat
  BY <1>4, LengthsFit
<1>6. s[1].len <= m /\ \A p \in 1 .. s[1].len : 1 - s[1].at + p = p
  BY <1>2, <1>3, <1>5
<1> QED BY <1>2, <1>3, <1>4, <1>5, <1>6

(* Without its first frame the stream begins with the next one.            *)
LEMMA FirstTaken ==
  ASSUME NEW m \in Nat \ {0}, NEW first \in Nat, NEW end \in Nat, NEW s, Framed(s, m, first, end),
         NEW l, l = s[1].len, NEW t, \A i \in 1 .. m - l : t[i] = s[i + l]
  PROVE  Framed(t, m - l, first + 1, end)
<1>1. /\ s[1].at = 1 /\ s[1].frame = first /\ l \in Nat \ {0} /\ l <= m /\ m - l \in Nat
      /\ \A p \in 1 .. l : s[p] = [frame |-> first, at |-> p, len |-> l]
  BY FirstFrame, LengthsFit
<1>2. IF m - l = 0 THEN first + 1 = end + 1 ELSE t[1].at = 1 /\ t[1].frame = first + 1
  <2>1. Followed(s, m, end, 1) /\ EndOf(s, 1) = l
    <3>1. Followed(s, m, end, 1)
      BY DEF Framed
    <3> QED BY <1>1, <3>1 DEF EndOf
  <2>2. m - l # 0 => l # m /\ t[1] = s[l + 1]
    BY <1>1
  <2>3. m - l = 0 => l = m
    BY <1>1
  <2> QED BY <1>1, <2>1, <2>2, <2>3 DEF Followed
<1>3. ASSUME NEW i \in 1 .. m - l PROVE Complete(t, m - l, i) /\ Followed(t, m - l, end, i)
  <2>1. PICK j \in 1 .. m : j = i + l /\ t[i] = s[j] /\ i \in Nat /\ l \in Nat
    BY <1>1
  <2>2. Complete(s, m, j) /\ Followed(s, m, end, j)
    BY <2>1 DEF Framed
  <2>21. PICK f \in 1 .. MaxFrames, a \in Nat, k \in Nat : ByteOf(s, m, j, f, a, k)
    BY <2>2, ByteOfFrame
  <2>3. /\ s[j] = [frame |-> f, at |-> a, len |-> k] /\ s[j] \in FrameBytes
        /\ a \in 1 .. k /\ a <= j /\ j - a + k <= m
        /\ \A p \in 1 .. k : s[j - a + p] = [frame |-> f, at |-> p, len |-> k]
    BY <2>21 DEF ByteOf
  <2>4. s[j].at = a /\ s[j].len = k
    BY <2>3
  <2>5. a <= i
    <3> SUFFICES ASSUME a > i PROVE FALSE
      BY <2>1, <2>3
    <3>1. /\ l - (j - a) \in 1 .. k /\ j - a + (l - (j - a)) = l /\ l \in 1 .. l
          /\ 1 \in 1 .. k /\ 1 \in 1 .. l
      <4>1. l \in Nat \ {0} /\ j = i + l /\ i \in Nat /\ a \in 1 .. k /\ a <= j
        BY <1>1, <2>1, <2>3
      <4> QED BY <4>1
    <3>2. s[l] = [frame |-> f, at |-> l - (j - a), len |-> k]
      BY <2>3, <3>1
    <3>3. s[l] = [frame |-> first, at |-> l, len |-> l]
      BY <1>1, <3>1
    <3>4. l - (j - a) = l /\ k = l
      BY <3>2, <3>3
    <3> QED BY <1>1, <2>1, <2>3, <3>4
  <2>6. i - a + k <= m - l /\ \A p \in 1 .. k : i - a + p \in 1 .. m - l /\ i - a + p + l = j - a + p
    BY <1>1, <2>1, <2>3, <2>5
  <2>7. \A p \in 1 .. k : t[i - a + p] = [frame |-> f, at |-> p, len |-> k]
    BY <2>3, <2>6
  <2>8. t[i].frame = f /\ t[i].at = a /\ t[i].len = k /\ t[i] \in FrameBytes
    BY <2>1, <2>3
  <2>9. Complete(t, m - l, i)
    BY <2>5, <2>6, <2>7, <2>8 DEF Complete
  <2>10. EndOf(t, i) = i - a + k /\ EndOf(s, j) = j - a + k
    BY <2>4, <2>8 DEF EndOf
  <2>11. IF i - a + k = m - l THEN j - a + k = m
         ELSE j - a + k # m /\ t[i - a + k + 1] = s[j - a + k + 1]
    <3>1. CASE i - a + k = m - l
      BY <1>1, <2>1, <2>3, <3>1
    <3>2. CASE i - a + k # m - l
      <4>1. i - a + k + 1 \in 1 .. m - l /\ i - a + k + 1 + l = j - a + k + 1 /\ j - a + k # m
        BY <1>1, <2>1, <2>3, <2>5, <2>6, <3>2
      <4> QED BY <3>2, <4>1
    <3> QED BY <3>1, <3>2
  <2>12. Followed(t, m - l, end, i)
    BY <2>1, <2>2, <2>10, <2>11 DEF Followed
  <2> QED BY <2>9, <2>12
<1> QED BY <1>2, <1>3 DEF Framed

(* A frame that DM sends comes after all others.                           *)
LEMMA FrameAdded ==
  ASSUME NEW m \in Nat, NEW first \in Nat, NEW end \in Nat, end + 1 \in 1 .. MaxFrames,
         NEW s, Framed(s, m, first, end), NEW l \in Lengths, NEW t,
         \A i \in 1 .. m : t[i] = s[i],
         \A p \in 1 .. l : t[m + p] = [frame |-> end + 1, at |-> p, len |-> l]
  PROVE  Framed(t, m + l, first, end + 1)
<1>1. l \in Nat \ {0} /\ m + l \in Nat \ {0} /\ 1 \in 1 .. l
  BY LengthsFit
<1>2. t[m + 1].at = 1 /\ t[m + 1].frame = end + 1
  <2>1. t[m + 1] = [frame |-> end + 1, at |-> 1, len |-> l]
    BY <1>1
  <2> QED BY <2>1
<1>3. IF m + l = 0 THEN first = end + 1 + 1 ELSE t[1].at = 1 /\ t[1].frame = first
  <2>1. m = 0 => m + 1 = 1 /\ first = end + 1
    BY DEF Framed
  <2>2. m # 0 => t[1] = s[1] /\ s[1].at = 1 /\ s[1].frame = first
    BY DEF Framed
  <2> QED BY <1>1, <1>2, <2>1, <2>2
<1>4. ASSUME NEW i \in 1 .. m PROVE Complete(t, m + l, i) /\ Followed(t, m + l, end + 1, i)
  <2>1. Complete(s, m, i) /\ Followed(s, m, end, i) /\ t[i] = s[i]
    BY DEF Framed
  <2>2. PICK f \in 1 .. MaxFrames, a \in Nat, k \in Nat :
          /\ s[i] = [frame |-> f, at |-> a, len |-> k] /\ a \in 1 .. k /\ a <= i /\ i - a + k <= m
          /\ s[i] \in FrameBytes
    BY <2>1, LengthsFit DEF Complete, FrameBytes
  <2>3. s[i].frame = f /\ s[i].at = a /\ s[i].len = k
    BY <2>2
  <2>4. \A p \in 1 .. k : i - a + p \in 1 .. m /\ t[i - a + p] = s[i - a + p]
    BY <2>2
  <2>5. i - a + k <= m + l /\ i - a + k # m + l
    BY <1>1, <2>2
  <2>6. Complete(t, m + l, i)
    BY <2>1, <2>2, <2>3, <2>4, <2>5 DEF Complete
  <2>7. EndOf(s, i) = i - a + k /\ EndOf(t, i) = i - a + k
    BY <2>1, <2>3 DEF EndOf
  <2>8. i - a + k # m => t[i - a + k + 1] = s[i - a + k + 1]
    BY <2>2
  <2>9. CASE i - a + k = m
    BY <1>2, <2>1, <2>5, <2>6, <2>7, <2>9 DEF Followed
  <2>10. CASE i - a + k # m
    BY <2>1, <2>5, <2>6, <2>7, <2>8, <2>10 DEF Followed
  <2> QED BY <2>9, <2>10
<1>5. ASSUME NEW i \in m + 1 .. m + l PROVE Complete(t, m + l, i) /\ Followed(t, m + l, end + 1, i)
  <2>1. i - m \in 1 .. l /\ m + (i - m) = i /\ i - (i - m) = m /\ i - m <= i
    BY <1>1
  <2>2. t[i] = [frame |-> end + 1, at |-> i - m, len |-> l]
    BY <2>1
  <2>3. t[i].frame = end + 1 /\ t[i].at = i - m /\ t[i].len = l
    BY <2>2
  <2>4. t[i] \in FrameBytes
    BY <2>1, <2>2, <1>1 DEF FrameBytes
  <2>5. Complete(t, m + l, i)
    BY <1>1, <2>1, <2>3, <2>4, SMTT(30) DEF Complete
  <2>6. EndOf(t, i) = m + l
    BY <2>1, <2>3 DEF EndOf
  <2> QED BY <2>3, <2>5, <2>6 DEF Followed
<1>6. \A i \in 1 .. m + l : i \in 1 .. m \/ i \in m + 1 .. m + l
  BY <1>1
<1> QED BY <1>3, <1>4, <1>5, <1>6 DEF Framed

-----------------------------------------------------------------------------
(* The state.                                                              *)

(* What the type invariant says of a step's numbers.                       *)
LEMMA Numbers ==
  ASSUME TypeOK
  PROVE  /\ recv_len \in 0 .. Cap /\ consumed \in 0 .. 2 * Cap
         /\ sent \in 0 .. MaxFrames /\ base \in 0 .. sent /\ breaks \in 0 .. MaxBreaks
         /\ wire \in Seq(Bytes) /\ Len(wire) \in Nat
         /\ handled \in Seq(1 .. MaxFrames) /\ Len(handled) \in Nat
         /\ conn \in BOOLEAN /\ gone \in BOOLEAN /\ cut \in BOOLEAN
         /\ pc \in {"idle", "parse", "move"}
         /\ \A i \in 1 .. Len(wire) : wire[i] \in Bytes
         /\ buf \in [1 .. Cap -> Bytes] /\ \A i \in 1 .. Cap : buf[i] \in Bytes
BY LengthsFit, LenProperties, ElementOfSeq DEF TypeOK

(* The stream of a connection.                                             *)
LEMMA StreamBytes ==
  ASSUME TypeOK, consumed <= recv_len
  PROVE  /\ InBuffer \in 0 .. Cap /\ Rest \in Nat /\ InBuffer <= Rest
         /\ \A i \in 1 .. Rest :
              Stream[i] = IF i <= InBuffer THEN buf[consumed + i] ELSE wire[i - InBuffer]
         /\ \A i \in 1 .. InBuffer : consumed + i \in 1 .. Cap /\ Stream[i] = buf[consumed + i]
<1>1. InBuffer \in 0 .. Cap /\ Rest \in Nat /\ InBuffer <= Rest
  BY Numbers, LengthsFit, SMTT(30) DEF InBuffer, Rest
<1>2. \A i \in 1 .. Rest :
        Stream[i] = IF i <= InBuffer THEN buf[consumed + i] ELSE wire[i - InBuffer]
  BY SMTT(30) DEF Stream
<1>3. \A i \in 1 .. InBuffer : consumed + i \in 1 .. Cap /\ i \in 1 .. Rest
  BY <1>1, Numbers, LengthsFit DEF InBuffer
<1> QED BY <1>1, <1>2, <1>3

(* While there is a connection, a frame is handled only when it is all in  *)
(* the buffer, and the header of the first one is read as DM sent it.      *)
LEMMA HeaderIsRead ==
  ASSUME RInv, conn, InBuffer >= HeaderLen
  PROVE  /\ idti_header_parse /\ Left = InBuffer /\ Rest \in Nat \ {0}
         /\ At = Stream[1]
<1>1. TypeOK /\ consumed <= recv_len /\ Framed(Stream, Rest, base + Len(handled) + 1, sent)
  BY DEF RInv, Places, StreamFramed
<1>2. Rest \in Nat \ {0} /\ InBuffer \in 1 .. Cap /\ InBuffer <= Rest
  BY <1>1, StreamBytes, LengthsFit
<1>3. \A i \in 1 .. InBuffer : consumed + i \in 1 .. Cap /\ Stream[i] = buf[consumed + i]
  BY <1>1, StreamBytes
<1>4. PICK f \in 1 .. MaxFrames, l \in Lengths :
        /\ Stream[1].len = l
        /\ \A p \in 1 .. l : Stream[p] = [frame |-> f, at |-> p, len |-> l]
  BY <1>1, <1>2, FirstFrame
<1>5. l \in Nat /\ HeaderLen < l /\ HeaderLen \in Nat \ {0}
  BY LengthsFit
<1>6. \A p \in 1 .. HeaderLen : buf[consumed + p] = [frame |-> f, at |-> p, len |-> l]
  BY <1>2, <1>3, <1>4, <1>5
<1>7. buf[consumed + 1] = [frame |-> f, at |-> 1, len |-> l]
  BY <1>5, <1>6
<1>8. \A p : [[frame |-> f, at |-> 1, len |-> l] EXCEPT !.at = p] = [frame |-> f, at |-> p, len |-> l]
  OBVIOUS
<1>9. \A p \in 1 .. HeaderLen : buf[consumed + p] = [buf[consumed + 1] EXCEPT !.at = p]
  BY <1>6, <1>7, <1>8
<1>10. buf[consumed + 1] # Junk
  BY <1>7 DEF Junk
<1>11. consumed + HeaderLen <= Cap
  <2>1. HeaderLen \in 1 .. InBuffer
    BY <1>2, <1>5
  <2> QED BY <1>3, <2>1
<1>12. Left = InBuffer
  <2>1. recv_len - consumed \in 0 .. SizeMod - 1 /\ SizeMod \in Nat
    BY <1>1, <1>2, LengthsFit DEF InBuffer
  <2>2. (recv_len - consumed) % SizeMod = recv_len - consumed
    BY <2>1
  <2> QED BY <2>2 DEF Left, InBuffer
<1>13. At = Stream[1]
  BY <1>2, <1>3 DEF At
<1> QED BY <1>2, <1>9, <1>10, <1>11, <1>12, <1>13 DEF idti_header_parse

(* After a handler dropped the connection, size_t makes what is left of    *)
(* the empty buffer more than any frame.                                   *)
LEMMA LeftWraps ==
  ASSUME TypeOK, recv_len = 0
  PROVE  \/ consumed = 0 /\ Left = 0
         \/ consumed > 0 /\ Left = SizeMod - consumed /\ Left > HeaderLen
<1>1. consumed \in 0 .. 2 * Cap /\ SizeMod \in Nat \ {0} /\ 2 * Cap + HeaderLen < SizeMod
      /\ Cap \in Nat /\ HeaderLen \in Nat
  BY Numbers, LengthsFit
<1>2. CASE consumed = 0
  BY <1>1, <1>2 DEF Left
<1>3. CASE consumed # 0
  <2>1. SizeMod - consumed \in 0 .. SizeMod - 1 /\ 0 - consumed = -1 * SizeMod + (SizeMod - consumed)
    BY <1>1, <1>3
  <2>2. (0 - consumed) % SizeMod = SizeMod - consumed
    BY <1>1, <2>1
  <2> QED BY <1>1, <1>3, <2>2 DEF Left
<1> QED BY <1>2, <1>3

-----------------------------------------------------------------------------
(* The steps.                                                              *)

(* Bytes that arrive move from the wire to the end of the buffer.          *)
LEMMA ReceiveStep == ASSUME RInv, receive PROVE RInv'
<1>1. PICK k \in 1 .. Room :
        /\ k <= Len(wire)
        /\ buf' = [p \in 1 .. Cap |-> IF p \in recv_len + 1 .. recv_len + k
                                      THEN wire[p - recv_len] ELSE buf[p]]
        /\ wire' = SubSeq(wire, k + 1, Len(wire))
        /\ recv_len' = recv_len + k
  BY DEF receive
<1>2. /\ TypeOK /\ Places /\ conn /\ consumed = 0 /\ consumed' = 0 /\ pc' = "parse" /\ ~cut
      /\ UNCHANGED <<conn, gone, sent, base, handled, cut, breaks>>
  BY DEF RInv, Places, receive
<1>3. /\ recv_len \in 0 .. Cap /\ k \in Nat \ {0} /\ recv_len + k <= Cap /\ Cap \in Nat
      /\ Len(wire) \in Nat
  BY <1>2, Numbers, LengthsFit DEF Room
<1>4. /\ wire' \in Seq(Bytes) /\ Len(wire') = Len(wire) - k
      /\ \A i \in 1 .. Len(wire') : wire'[i] = wire[k + i]
  <2>1. \A i \in k + 1 .. Len(wire) : wire[i] \in Bytes
    BY <1>2, <1>3, Numbers
  <2>2. /\ wire' \in Seq(Bytes)
        /\ Len(wire') = IF k + 1 <= Len(wire) THEN Len(wire) - (k + 1) + 1 ELSE 0
        /\ \A i \in 1 .. Len(wire) - (k + 1) + 1 : wire'[i] = wire[k + 1 + i - 1]
    BY <1>1, <1>2, <1>3, <2>1, Numbers, SubSeqProperties
  <2>3. Len(wire') = Len(wire) - k
    BY <1>1, <1>3, <2>2
  <2>4. \A i \in 1 .. Len(wire') : i \in 1 .. Len(wire) - (k + 1) + 1 /\ k + 1 + i - 1 = k + i
    BY <1>1, <1>3, <2>3
  <2> QED BY <2>2, <2>3, <2>4
<1>5. buf' \in [1 .. Cap -> Bytes]
  <2>1. \A p \in recv_len + 1 .. recv_len + k : p - recv_len \in 1 .. Len(wire)
    BY <1>1, <1>3
  <2>2. \A p \in 1 .. Cap : buf[p] \in Bytes /\ \A i \in 1 .. Len(wire) : wire[i] \in Bytes
    BY <1>2, Numbers
  <2> QED BY <1>1, <2>1, <2>2
<1>6. TypeOK'
  <2>1. recv_len' \in 0 .. Cap /\ consumed' \in 0 .. 2 * Cap
    BY <1>1, <1>2, <1>3
  <2> QED BY <1>2, <1>4, <1>5, <2>1 DEF TypeOK
<1>7. consumed' <= recv_len'
  BY <1>1, <1>2, <1>3
<1>8. Places'
  BY <1>2, <1>7 DEF Places
<1>9. /\ InBuffer = recv_len /\ InBuffer' = recv_len + k /\ Rest' = Rest
      /\ Rest = recv_len + Len(wire)
  <2>1. InBuffer = recv_len /\ InBuffer' = recv_len + k
    BY <1>1, <1>2, <1>3 DEF InBuffer
  <2>2. recv_len + k + (Len(wire) - k) = recv_len + Len(wire)
    BY <1>3
  <2> QED BY <1>4, <2>1, <2>2 DEF Rest
<1>10. \A i \in 1 .. Rest : Stream'[i] = Stream[i]
  <2> SUFFICES ASSUME NEW i \in 1 .. Rest PROVE Stream'[i] = Stream[i]
    OBVIOUS
  <2>1. /\ Stream[i] = IF i <= recv_len THEN buf[i] ELSE wire[i - recv_len]
        /\ Stream'[i] = IF i <= recv_len + k THEN buf'[i] ELSE wire'[i - (recv_len + k)]
    BY <1>1, <1>2, <1>3, <1>9 DEF Stream
  <2>2. i \in Nat /\ i >= 1
    BY <1>3, <1>9
  <2>3. CASE i <= recv_len
    <3>1. i \in 1 .. Cap /\ ~(i \in recv_len + 1 .. recv_len + k) /\ i <= recv_len + k
      BY <1>3, <2>2, <2>3
    <3>2. buf'[i] = buf[i]
      BY <1>1, <3>1
    <3> QED BY <2>1, <2>3, <3>1, <3>2
  <2>4. CASE ~(i <= recv_len) /\ i <= recv_len + k
    <3>1. i \in 1 .. Cap /\ i \in recv_len + 1 .. recv_len + k
      BY <1>3, <2>2, <2>4
    <3>2. buf'[i] = wire[i - recv_len]
      BY <1>1, <3>1
    <3> QED BY <2>1, <2>4, <3>2
  <2>5. CASE ~(i <= recv_len + k)
    <3>1. i - (recv_len + k) \in 1 .. Len(wire') /\ k + (i - (recv_len + k)) = i - recv_len
          /\ ~(i <= recv_len)
      BY <1>3, <1>4, <1>9, <2>2, <2>5
    <3>2. wire'[i - (recv_len + k)] = wire[i - recv_len]
      BY <1>4, <3>1
    <3> QED BY <2>1, <2>5, <3>1, <3>2
  <2> QED BY <2>3, <2>4, <2>5
<1>11. StreamFramed'
  <2>1. Framed(Stream, Rest, base + Len(handled) + 1, sent) /\ Rest \in Nat
    BY <1>2, <1>3, <1>9 DEF RInv, StreamFramed
  <2>2. Framed(Stream', Rest, base + Len(handled) + 1, sent)
    BY <1>10, <2>1, SameBytes
  <2> QED BY <1>2, <1>9, <2>2 DEF StreamFramed
<1>12. NoneWhole' /\ FramesInOrder'
  BY <1>2 DEF RInv, NoneWhole, FramesInOrder
<1> QED BY <1>6, <1>8, <1>11, <1>12 DEF RInv

(* A connection that is at its end has no stream.                          *)
LEMMA ReceiveNothingStep == ASSUME RInv, receive_nothing PROVE RInv'
<1>1. TypeOK'
  <2>1. /\ TypeOK /\ conn' = FALSE /\ recv_len' \in 0 .. Cap
        /\ UNCHANGED <<gone, wire, sent, base, breaks, buf, consumed, pc, handled, cut>>
    BY LengthsFit DEF RInv, receive_nothing, peer
  <2> QED BY <2>1 DEF TypeOK
<1>2. Places' /\ StreamFramed' /\ NoneWhole' /\ FramesInOrder'
  BY DEF RInv, Places, StreamFramed, NoneWhole, FramesInOrder, receive_nothing, peer
<1> QED BY <1>1, <1>2 DEF RInv

(* The parse loop ends; with a connection, never at what is no header.     *)
LEMMA StopStep == ASSUME RInv, stop_parsing PROVE RInv'
<1>1. /\ TypeOK /\ pc = "parse" /\ pc' = "move"
      /\ UNCHANGED <<gone, wire, sent, base, breaks, conn, buf, recv_len, handled, cut>>
  BY DEF RInv, stop_parsing, peer
<1>2. /\ conn \in BOOLEAN /\ conn => ~cut /\ consumed <= recv_len
      /\ ~conn => recv_len = 0 /\ cut
  BY <1>1, Numbers DEF RInv, Places
<1>3. consumed' \in {consumed, recv_len}
  BY DEF stop_parsing
<1>4. TypeOK'
  <2>1. consumed' \in 0 .. 2 * Cap
    BY <1>1, <1>3, Numbers, LengthsFit
  <2> QED BY <1>1, <2>1 DEF TypeOK
<1>5. CASE conn
  <2>1. InBuffer \in 0 .. Cap /\ Rest \in Nat /\ InBuffer <= Rest
        /\ \A i \in 1 .. InBuffer : Stream[i] = buf[consumed + i]
    BY <1>1, <1>2, <1>5, StreamBytes
  <2>2. Left = InBuffer
    <3>1. recv_len - consumed \in 0 .. SizeMod - 1 /\ SizeMod \in Nat
      BY <2>1, LengthsFit DEF InBuffer
    <3>2. (recv_len - consumed) % SizeMod = recv_len - consumed
      BY <3>1
    <3> QED BY <3>2 DEF Left, InBuffer
  <2>3. consumed' = consumed /\ (InBuffer >= HeaderLen => InBuffer < At.len)
    <3>1. CASE InBuffer >= HeaderLen
      <4>1. idti_header_parse /\ ~(InBuffer < HeaderLen)
        BY <1>5, <2>1, <3>1, HeaderIsRead, LengthsFit
      <4> QED BY <2>2, <4>1 DEF stop_parsing
    <3>2. CASE ~(InBuffer >= HeaderLen)
      BY <2>2, <3>2 DEF stop_parsing
    <3> QED BY <3>1, <3>2
  <2>4. InBuffer > 0 => InBuffer < buf[consumed + 1].len
    <3> SUFFICES ASSUME InBuffer > 0 PROVE InBuffer < buf[consumed + 1].len
      OBVIOUS
    <3>1. Rest \in Nat \ {0} /\ 1 \in 1 .. InBuffer /\ Framed(Stream, Rest, base + Len(handled) + 1, sent)
      BY <1>5, <2>1 DEF RInv, StreamFramed
    <3>2. Stream[1].len \in Lengths /\ Stream[1] = buf[consumed + 1]
      BY <2>1, <3>1, FirstFrame
    <3>3. CASE InBuffer >= HeaderLen
      BY <1>5, <2>3, <3>3 DEF At
    <3>4. CASE ~(InBuffer >= HeaderLen)
      <4>1. HeaderLen < buf[consumed + 1].len /\ buf[consumed + 1].len \in Nat /\ HeaderLen \in Nat
        BY <3>2, LengthsFit
      <4> QED BY <2>1, <3>4, <4>1
    <3> QED BY <3>3, <3>4
  <2>5. NoneWhole'
    <3>1. consumed < recv_len => InBuffer > 0
      BY <1>1, <2>1, Numbers DEF InBuffer
    <3> QED BY <1>1, <2>3, <2>4, <3>1 DEF NoneWhole, InBuffer
  <2>6. Stream' = Stream /\ Rest' = Rest
    BY <1>1, <2>3 DEF Stream, Rest, InBuffer
  <2>7. StreamFramed'
    BY <1>1, <2>6 DEF RInv, StreamFramed
  <2>8. Places' /\ FramesInOrder'
    BY <1>1, <1>2, <1>5, <2>3 DEF RInv, Places, FramesInOrder
  <2> QED BY <1>4, <2>5, <2>7, <2>8 DEF RInv
<1>6. CASE ~conn
  <2>1. consumed' = 0
    <3>1. CASE consumed = 0
      BY <1>2, <1>3, <1>6, <3>1
    <3>2. CASE consumed # 0 /\ ~idti_header_parse
      <4>1. Left = SizeMod - consumed /\ Left > HeaderLen /\ consumed \in 0 .. 2 * Cap
        BY <1>1, <1>2, <1>6, <3>2, LeftWraps, Numbers
      <4>2. ~(Left < HeaderLen)
        BY <4>1, LengthsFit
      <4> QED BY <1>2, <1>6, <3>2, <4>2 DEF stop_parsing
    <3>3. CASE consumed # 0 /\ idti_header_parse
      <4>1. /\ consumed > 0 /\ Left = SizeMod - consumed /\ Left > HeaderLen
            /\ consumed \in 0 .. 2 * Cap
        BY <1>1, <1>2, <1>6, <3>3, LeftWraps, Numbers
      <4>2. consumed + HeaderLen <= Cap /\ At # Junk /\ At \in Bytes
        <5>1. consumed + HeaderLen <= Cap /\ buf[consumed + 1] # Junk
          BY <3>3 DEF idti_header_parse
        <5>2. consumed + 1 \in 1 .. Cap
          BY <4>1, <5>1, LengthsFit
        <5> QED BY <1>1, <5>1, <5>2, Numbers DEF At
      <4>3. At.len \in Lengths
        BY <4>2 DEF Bytes
      <4>4. ~(Left < HeaderLen) /\ ~(Left < At.len)
        BY <4>1, <4>2, <4>3, LengthsFit
      <4> QED BY <3>3, <4>4 DEF stop_parsing
    <3> QED BY <3>1, <3>2, <3>3
  <2> QED BY <1>1, <1>2, <1>4, <1>6, <2>1 DEF RInv, Places, StreamFramed, NoneWhole, FramesInOrder
<1> QED BY <1>2, <1>5, <1>6

(* A frame is handled: it is the next one, and leaves the stream; unless   *)
(* its response drops the connection, and with it the stream.              *)
LEMMA HandleStep == ASSUME RInv, handle_request PROVE RInv'
<1>1. /\ TypeOK /\ pc = "parse" /\ pc' = pc /\ Left >= HeaderLen /\ idti_header_parse /\ Left >= At.len
      /\ handled' = Append(handled, At.frame) /\ consumed' = consumed + At.len
      /\ UNCHANGED <<gone, wire, sent, base, breaks, buf>>
      /\ \/ UNCHANGED <<conn, recv_len, cut>>
         \/ conn /\ conn' = FALSE /\ recv_len' = 0 /\ cut' = TRUE
  BY DEF RInv, handle_request, Whole, peer
<1>2. /\ conn \in BOOLEAN /\ conn => ~cut /\ consumed <= recv_len
      /\ ~conn => recv_len = 0 /\ cut
  BY <1>1, Numbers DEF RInv, Places
<1>3. /\ consumed + HeaderLen <= Cap /\ consumed \in Nat /\ consumed + 1 \in 1 .. Cap
      /\ At \in Bytes /\ At # Junk
  <2>1. consumed + HeaderLen <= Cap /\ buf[consumed + 1] # Junk
    BY <1>1 DEF idti_header_parse
  <2>2. consumed \in Nat /\ consumed + 1 \in 1 .. Cap
    BY <1>1, <2>1, Numbers, LengthsFit
  <2> QED BY <1>1, <2>1, <2>2, Numbers DEF At
<1>4. At.len \in Lengths /\ At.frame \in 1 .. MaxFrames
  BY <1>3 DEF Bytes
<1>5. At.len \in Nat /\ HeaderLen < At.len /\ At.len < Cap /\ consumed' \in 0 .. 2 * Cap
  BY <1>1, <1>3, <1>4, LengthsFit
<1>6. /\ handled' \in Seq(1 .. MaxFrames) /\ Len(handled') = Len(handled) + 1
      /\ \A i \in 1 .. Len(handled) : handled'[i] = handled[i]
      /\ handled'[Len(handled) + 1] = At.frame
  BY <1>1, <1>4, Numbers, AppendProperties
<1>7. TypeOK'
  <2>1. conn' \in BOOLEAN /\ cut' \in BOOLEAN /\ recv_len' \in 0 .. Cap
    <3>1. conn \in BOOLEAN /\ cut \in BOOLEAN /\ recv_len \in 0 .. Cap /\ 0 \in 0 .. Cap
      BY <1>1, Numbers, LengthsFit
    <3>2. CASE UNCHANGED <<conn, recv_len, cut>>
      BY <3>1, <3>2
    <3>3. CASE conn' = FALSE /\ recv_len' = 0 /\ cut' = TRUE
      BY <3>1, <3>3
    <3> QED BY <1>1, <3>2, <3>3
  <2> QED BY <1>1, <1>5, <1>6, <2>1 DEF TypeOK
<1>8. CASE ~conn
  <2>1. /\ UNCHANGED <<conn, recv_len, cut>> /\ cut
    BY <1>1, <1>2, <1>8
  <2> QED BY <1>1, <1>2, <1>7, <1>8, <2>1 DEF RInv, Places, StreamFramed, NoneWhole, FramesInOrder
<1>9. CASE conn /\ ~conn'
  <2>1. ~conn' /\ cut' = TRUE /\ recv_len' = 0 /\ pc' = "parse"
    BY <1>1, <1>9
  <2> QED BY <1>7, <2>1 DEF RInv, Places, StreamFramed, NoneWhole, FramesInOrder
<1>10. CASE conn /\ conn'
  <2>1. UNCHANGED <<conn, recv_len, cut>> /\ ~cut /\ consumed <= recv_len
    BY <1>1, <1>2, <1>10
  <2>2. /\ InBuffer \in 0 .. Cap /\ Rest \in Nat /\ InBuffer <= Rest
        /\ \A i \in 1 .. Rest :
             Stream[i] = IF i <= InBuffer THEN buf[consumed + i] ELSE wire[i - InBuffer]
    BY <1>1, <2>1, StreamBytes
  <2>3. InBuffer >= HeaderLen
    <3>1. recv_len - consumed \in 0 .. SizeMod - 1 /\ SizeMod \in Nat
      BY <2>2, LengthsFit DEF InBuffer
    <3>2. (recv_len - consumed) % SizeMod = recv_len - consumed
      BY <3>1
    <3> QED BY <1>1, <3>2 DEF Left, InBuffer
  <2>4. Left = InBuffer /\ Rest \in Nat \ {0} /\ At = Stream[1]
    BY <1>10, <2>3, HeaderIsRead
  <2>5. PICK l \in Nat : l = At.len
    BY <1>5
  <2>6. l = Stream[1].len /\ l <= InBuffer /\ consumed' = consumed + l
    BY <1>1, <2>4, <2>5
  <2>7. PICK first \in Nat : first = base + Len(handled) + 1
    BY <1>1, Numbers
  <2>8. Framed(Stream, Rest, first, sent) /\ sent \in Nat
    BY <1>1, <1>10, <2>7, Numbers DEF RInv, StreamFramed
  <2>9. At.frame = first
    BY <2>4, <2>8, FirstFrame
  <2>10. /\ consumed' <= recv_len' /\ InBuffer' = InBuffer - l /\ Rest' = Rest - l
         /\ recv_len \in Nat /\ consumed \in Nat /\ Len(wire) \in Nat
    <3>1. recv_len \in Nat /\ consumed \in Nat /\ Len(wire) \in Nat
      BY <1>1, Numbers
    <3>2. consumed' <= recv_len' /\ InBuffer' = InBuffer - l
      BY <2>1, <2>6, <3>1 DEF InBuffer
    <3>3. Rest' = Rest - l
      BY <1>1, <2>2, <3>1, <3>2 DEF Rest
    <3> QED BY <3>1, <3>2, <3>3
  <2>11. \A i \in 1 .. Rest - l : Stream'[i] = Stream[i + l]
    <3> SUFFICES ASSUME NEW i \in 1 .. Rest - l PROVE Stream'[i] = Stream[i + l]
      OBVIOUS
    <3>1. Stream'[i] = IF i <= InBuffer - l THEN buf[consumed + l + i] ELSE wire[i - (InBuffer - l)]
      BY <1>1, <2>6, <2>10 DEF Stream
    <3>2. /\ i + l \in 1 .. Rest /\ (i <= InBuffer - l <=> i + l <= InBuffer)
          /\ consumed + l + i = consumed + (i + l) /\ i - (InBuffer - l) = i + l - InBuffer
      <4>1. InBuffer \in Nat /\ Rest \in Nat /\ l \in Nat /\ l <= InBuffer /\ consumed \in Nat
            /\ i \in Nat /\ 1 <= i /\ i <= Rest - l
        BY <2>2, <2>6, <2>10
      <4> QED BY <4>1
    <3>3. Stream[i + l] = IF i + l <= InBuffer THEN buf[consumed + (i + l)] ELSE wire[i + l - InBuffer]
      BY <2>2, <3>2
    <3> QED BY <3>1, <3>2, <3>3
  <2>12. Framed(Stream', Rest - l, first + 1, sent)
    BY <2>4, <2>6, <2>8, <2>11, FirstTaken
  <2>13. StreamFramed'
    <3>1. base + (Len(handled) + 1) + 1 = first + 1
      BY <1>1, <2>7, Numbers
    <3> QED BY <1>1, <1>6, <2>10, <2>12, <3>1 DEF StreamFramed
  <2>14. FramesInOrder'
    <3> SUFFICES ASSUME NEW i \in DOMAIN handled' PROVE handled'[i] = base + i
      BY <1>1 DEF FramesInOrder
    <3>1. Len(handled) \in Nat /\ DOMAIN handled = 1 .. Len(handled) /\ base \in Nat
      BY <1>1, Numbers, LenProperties
    <3>2. i \in 1 .. Len(handled) + 1
      BY <1>6, LenProperties
    <3>3. CASE i \in 1 .. Len(handled)
      BY <1>6, <2>1, <3>1, <3>3 DEF RInv, FramesInOrder
    <3>4. CASE i = Len(handled) + 1
      BY <1>6, <2>7, <2>9, <3>1, <3>4
    <3> QED BY <3>1, <3>2, <3>3, <3>4
  <2>15. Places' /\ NoneWhole'
    BY <1>1, <1>10, <2>1, <2>10 DEF Places, NoneWhole
  <2> QED BY <1>7, <2>13, <2>14, <2>15 DEF RInv
<1>11. conn' \in BOOLEAN
  BY <1>7, Numbers DEF TypeOK
<1> QED BY <1>2, <1>8, <1>9, <1>10, <1>11

(* What is left moves to the front.                                        *)
LEMMA MoveStep == ASSUME RInv, move_rest PROVE RInv'
<1>1. /\ TypeOK /\ pc = "move" /\ pc' = "idle" /\ consumed' = 0
      /\ UNCHANGED <<gone, wire, sent, base, breaks, conn, handled, cut>>
      /\ IF consumed > 0 THEN Moved ELSE UNCHANGED <<recv_len, buf>>
  BY DEF RInv, move_rest, peer
<1>2. /\ conn \in BOOLEAN /\ conn => ~cut /\ consumed <= recv_len
      /\ ~conn => recv_len = 0 /\ consumed = 0
      /\ consumed \in Nat /\ recv_len \in 0 .. Cap /\ Len(wire) \in Nat
  BY <1>1, Numbers DEF RInv, Places
<1>3. consumed <= recv_len
  <2>1. CASE conn
    BY <1>2, <2>1
  <2>2. CASE ~conn
    <3>1. consumed = 0 /\ recv_len = 0
      BY <1>2, <2>2
    <3> QED BY <3>1
  <2> QED BY <1>2, <2>1, <2>2
<1>4. InBuffer \in 0 .. Cap /\ Rest \in Nat /\ InBuffer <= Rest
  BY <1>1, <1>3, StreamBytes
<1>5. /\ recv_len' = InBuffer
      /\ buf' \in [1 .. Cap -> Bytes] /\ \A i \in 1 .. InBuffer : buf'[i] = buf[consumed + i]
  <2>1. CASE consumed > 0
    <3>1. \A p \in 1 .. InBuffer : p + consumed \in 1 .. Cap /\ p + consumed = consumed + p /\ p \in 1 .. Cap
      <4>1. consumed \in Nat /\ recv_len \in Nat /\ recv_len <= Cap /\ Cap \in Nat
            /\ InBuffer = recv_len - consumed
        BY <1>2, LengthsFit DEF InBuffer
      <4> QED BY <4>1
    <3>2. \A p \in 1 .. Cap : buf[p] \in Bytes
      BY <1>1, Numbers
    <3>3. buf' = [p \in 1 .. Cap |-> IF p \in 1 .. InBuffer THEN buf[p + consumed] ELSE buf[p]]
      BY <1>1, <2>1 DEF Moved, InBuffer
    <3>4. recv_len' = InBuffer
      BY <1>1, <2>1 DEF Moved, InBuffer
    <3> QED BY <3>1, <3>2, <3>3, <3>4
  <2>2. CASE consumed = 0
    <3>1. recv_len' = recv_len /\ buf' = buf /\ InBuffer = recv_len
      BY <1>1, <1>2, <2>2 DEF InBuffer
    <3>2. \A i \in 1 .. InBuffer : consumed + i = i
      BY <1>4, <2>2
    <3> QED BY <1>1, <3>1, <3>2, Numbers
  <2> QED BY <1>2, <2>1, <2>2
<1>6. /\ InBuffer' = InBuffer /\ Rest' = Rest
      /\ \A i \in 1 .. Rest : Stream'[i] = Stream[i]
  <2>1. InBuffer' = InBuffer /\ Rest' = Rest
    BY <1>1, <1>4, <1>5 DEF InBuffer, Rest
  <2>2. ASSUME NEW i \in 1 .. Rest PROVE Stream'[i] = Stream[i]
    <3>1. /\ Stream[i] = IF i <= InBuffer THEN buf[consumed + i] ELSE wire[i - InBuffer]
          /\ Stream'[i] = IF i <= InBuffer THEN buf'[0 + i] ELSE wire[i - InBuffer]
      BY <1>1, <2>1 DEF Stream
    <3>2. i \in Nat /\ 1 <= i /\ 0 + i = i
      BY <1>4
    <3>3. CASE i <= InBuffer
      BY <1>4, <1>5, <3>1, <3>2, <3>3
    <3>4. CASE ~(i <= InBuffer)
      BY <3>1, <3>4
    <3> QED BY <3>3, <3>4
  <2> QED BY <2>1, <2>2
<1>7. TypeOK'
  <2>1. recv_len' \in 0 .. Cap /\ consumed' \in 0 .. 2 * Cap
    BY <1>1, <1>4, <1>5, LengthsFit
  <2> QED BY <1>1, <1>5, <2>1 DEF TypeOK
<1>8. StreamFramed'
  <2> SUFFICES ASSUME conn PROVE Framed(Stream', Rest, base + Len(handled) + 1, sent)
    BY <1>1, <1>6 DEF StreamFramed
  <2>1. Framed(Stream, Rest, base + Len(handled) + 1, sent)
    BY DEF RInv, StreamFramed
  <2> QED BY <1>4, <1>6, <2>1, SameBytes
<1>9. NoneWhole'
  <2> SUFFICES ASSUME conn, 0 < InBuffer PROVE InBuffer < buf'[0 + 1].len
    BY <1>1, <1>5, <1>6 DEF NoneWhole
  <2>1. consumed < recv_len /\ 1 \in 1 .. InBuffer /\ 0 + 1 = 1
    BY <1>2, <1>4 DEF InBuffer
  <2>2. InBuffer < buf[consumed + 1].len
    BY <1>1, <2>1 DEF RInv, NoneWhole
  <2> QED BY <1>5, <2>1, <2>2
<1>10. Places' /\ FramesInOrder'
  <2>1. consumed' <= recv_len' /\ (~conn => recv_len' = 0)
    BY <1>1, <1>2, <1>4, <1>5 DEF InBuffer
  <2> QED BY <1>1, <1>2, <2>1 DEF RInv, Places, FramesInOrder
<1> QED BY <1>7, <1>8, <1>9, <1>10 DEF RInv

(* A new connection: no byte of it has been sent.                          *)
LEMMA ListenStep == ASSUME RInv, net_on_listen_ready PROVE RInv'
<1>1. /\ TypeOK /\ pc = "idle" /\ consumed = 0
      /\ conn' = TRUE /\ gone' = FALSE /\ wire' = <<>> /\ recv_len' = 0
      /\ base' = sent /\ handled' = <<>> /\ cut' = FALSE
      /\ UNCHANGED <<buf, consumed, pc, sent, breaks>>
  BY DEF RInv, Places, net_on_listen_ready
<1>2. TypeOK'
  <2>1. base' \in 0 .. sent' /\ recv_len' \in 0 .. Cap
    BY <1>1, Numbers, LengthsFit
  <2>2. wire' \in Seq(Bytes) /\ handled' \in Seq(1 .. MaxFrames)
    BY <1>1
  <2>3. {conn', gone', cut'} \subseteq BOOLEAN
    BY <1>1
  <2> QED BY <1>1, <2>1, <2>2, <2>3 DEF TypeOK
<1>3. Len(<<>>) = 0 /\ DOMAIN <<>> = {} /\ sent \in Nat
  BY <1>1, Numbers
<1>4. Rest' = 0
  BY <1>1, <1>3 DEF Rest, InBuffer
<1>5. StreamFramed'
  <2>1. base' + Len(handled') + 1 = sent' + 1 /\ 1 .. 0 = {}
    BY <1>1, <1>3
  <2> QED BY <1>4, <2>1 DEF StreamFramed, Framed
<1>6. Places' /\ NoneWhole' /\ FramesInOrder'
  BY <1>1, <1>3 DEF Places, NoneWhole, FramesInOrder
<1> QED BY <1>2, <1>5, <1>6 DEF RInv

(* DM sends: one frame more at the end of the stream.                      *)
LEMMA SendStep == ASSUME RInv, dm_send PROVE RInv'
<1>1. PICK l \in Lengths :
        /\ wire' = wire \o Frame(sent + 1, l) /\ sent' = sent + 1 /\ sent < MaxFrames /\ conn
        /\ UNCHANGED <<conn, gone, buf, recv_len, consumed, pc, base, handled, cut, breaks>>
  BY DEF dm_send
<1>2. /\ TypeOK /\ consumed <= recv_len /\ l \in Nat /\ l < Cap /\ Cap \in Nat /\ MaxFrames \in Nat
      /\ sent \in Nat /\ sent + 1 \in 1 .. MaxFrames /\ Len(wire) \in Nat /\ wire \in Seq(Bytes)
  BY <1>1, Numbers, LengthsFit DEF RInv, Places
<1>3. /\ Frame(sent + 1, l) \in Seq(Bytes) /\ Len(Frame(sent + 1, l)) = l
      /\ \A p \in 1 .. l : Frame(sent + 1, l)[p] = [frame |-> sent + 1, at |-> p, len |-> l]
  <2>1. \A p \in 1 .. l : [frame |-> sent + 1, at |-> p, len |-> l] \in Bytes
    <3>1. \A p \in 1 .. l : p \in 1 .. Cap
      BY <1>2
    <3> QED BY <1>1, <1>2, <3>1 DEF Bytes
  <2>2. Frame(sent + 1, l) = [p \in 1 .. l |-> [frame |-> sent + 1, at |-> p, len |-> l]]
    BY DEF Frame
  <2>3. Frame(sent + 1, l) \in [1 .. l -> Bytes]
    BY <2>1, <2>2
  <2> QED BY <1>2, <2>2, <2>3
<1>4. /\ wire' \in Seq(Bytes) /\ Len(wire') = Len(wire) + l
      /\ \A i \in 1 .. Len(wire) + l :
           wire'[i] = IF i <= Len(wire) THEN wire[i] ELSE Frame(sent + 1, l)[i - Len(wire)]
  <2>1. PICK fr \in Seq(Bytes) : fr = Frame(sent + 1, l)
    BY <1>3
  <2>2. /\ wire \o fr \in Seq(Bytes) /\ Len(wire \o fr) = Len(wire) + Len(fr)
        /\ \A i \in 1 .. Len(wire) + Len(fr) :
             (wire \o fr)[i] = IF i <= Len(wire) THEN wire[i] ELSE fr[i - Len(wire)]
    BY <1>2, <2>1, ConcatProperties
  <2>3. wire' = wire \o fr /\ Len(fr) = l
    BY <1>1, <1>3, <2>1
  <2> QED BY <2>1, <2>2, <2>3
<1>5. TypeOK'
  <2>1. sent' \in 0 .. MaxFrames /\ base \in 0 .. sent'
    BY <1>1, <1>2, Numbers
  <2> QED BY <1>1, <1>2, <1>4, <2>1 DEF TypeOK
<1>6. InBuffer \in 0 .. Cap /\ Rest \in Nat /\ InBuffer <= Rest /\ Rest = InBuffer + Len(wire)
  BY <1>2, StreamBytes DEF Rest
<1>7. InBuffer' = InBuffer /\ Rest' = Rest + l
  <2>1. InBuffer' = InBuffer
    BY <1>1 DEF InBuffer
  <2> QED BY <1>2, <1>4, <1>6, <2>1 DEF Rest
<1>8. \A i \in 1 .. Rest + l :
        /\ i <= Rest => Stream'[i] = Stream[i]
        /\ i > Rest => Stream'[i] = Frame(sent + 1, l)[i - Rest]
  <2> SUFFICES ASSUME NEW i \in 1 .. Rest + l
               PROVE  /\ i <= Rest => Stream'[i] = Stream[i]
                      /\ i > Rest => Stream'[i] = Frame(sent + 1, l)[i - Rest]
    OBVIOUS
  <2>1. i \in Nat /\ 1 <= i /\ i <= Rest + l
    BY <1>2, <1>6
  <2>2. Stream'[i] = IF i <= InBuffer THEN buf[consumed + i] ELSE wire'[i - InBuffer]
    BY <1>1, <1>7 DEF Stream
  <2>3. i <= Rest => Stream[i] = IF i <= InBuffer THEN buf[consumed + i] ELSE wire[i - InBuffer]
    BY <2>1 DEF Stream
  <2>4. CASE i <= InBuffer
    BY <1>6, <2>1, <2>2, <2>3, <2>4
  <2>5. CASE ~(i <= InBuffer) /\ i <= Rest
    <3>1. i - InBuffer \in 1 .. Len(wire) + l /\ i - InBuffer <= Len(wire)
      BY <1>2, <1>6, <2>1, <2>5
    <3>2. wire'[i - InBuffer] = wire[i - InBuffer]
      BY <1>4, <3>1
    <3>3. ~(i > Rest)
      BY <1>6, <2>1, <2>5
    <3> QED BY <2>2, <2>3, <2>5, <3>2, <3>3
  <2>6. CASE i > Rest
    <3>1. i - InBuffer \in 1 .. Len(wire) + l /\ ~(i - InBuffer <= Len(wire)) /\ ~(i <= InBuffer)
          /\ i - InBuffer - Len(wire) = i - Rest /\ ~(i <= Rest)
      BY <1>2, <1>6, <2>1, <2>6
    <3>2. wire'[i - InBuffer] = Frame(sent + 1, l)[i - Rest]
      BY <1>4, <3>1
    <3> QED BY <2>2, <3>1, <3>2
  <2> QED BY <1>6, <2>1, <2>4, <2>5, <2>6
<1>9. \A i \in 1 .. Rest : Stream'[i] = Stream[i]
  BY <1>2, <1>6, <1>8
<1>10. \A p \in 1 .. l : Stream'[Rest + p] = [frame |-> sent + 1, at |-> p, len |-> l]
  <2> SUFFICES ASSUME NEW p \in 1 .. l PROVE Stream'[Rest + p] = Frame(sent + 1, l)[p]
    BY <1>3
  <2>1. PICK i \in 1 .. Rest + l : i = Rest + p /\ i > Rest /\ i - Rest = p
    BY <1>2, <1>6
  <2>2. Stream'[i] = Frame(sent + 1, l)[i - Rest]
    BY <1>8, <2>1
  <2> QED BY <2>1, <2>2
<1>11. PICK first \in Nat : first = base + Len(handled) + 1
  BY <1>2, Numbers
<1>12. Framed(Stream, Rest, first, sent)
  BY <1>1, <1>11 DEF RInv, StreamFramed
<1>13. Framed(Stream', Rest + l, first, sent + 1)
  BY <1>2, <1>6, <1>9, <1>10, <1>12, FrameAdded
<1>14. StreamFramed'
  BY <1>1, <1>7, <1>11, <1>13 DEF StreamFramed
<1>15. Places' /\ NoneWhole' /\ FramesInOrder'
  BY <1>1, <1>7 DEF RInv, Places, NoneWhole, FramesInOrder
<1> QED BY <1>5, <1>14, <1>15 DEF RInv

(* A peer that goes away leaves the stream as it is.                       *)
LEMMA BreakStep == ASSUME RInv, dm_break PROVE RInv'
<1>1. /\ TypeOK /\ gone' = TRUE /\ breaks' = breaks + 1 /\ breaks < MaxBreaks
      /\ UNCHANGED <<conn, wire, buf, recv_len, consumed, pc, sent, base, handled, cut>>
  BY DEF RInv, dm_break
<1>2. TypeOK'
  <2>1. breaks' \in 0 .. MaxBreaks
    BY <1>1, Numbers, LengthsFit
  <2> QED BY <1>1, <2>1 DEF TypeOK
<1>3. Stream' = Stream /\ Rest' = Rest /\ InBuffer' = InBuffer
  BY <1>1 DEF Stream, Rest, InBuffer
<1>4. Places' /\ StreamFramed' /\ NoneWhole' /\ FramesInOrder'
  BY <1>1, <1>3 DEF RInv, Places, StreamFramed, NoneWhole, FramesInOrder
<1> QED BY <1>2, <1>4 DEF RInv

-----------------------------------------------------------------------------
(* The invariant holds, and what follows from it.                          *)

(* At the start there is no connection.                                    *)
LEMMA InitRInv == Init => RInv
<1> SUFFICES ASSUME Init PROVE RInv
  OBVIOUS
<1>1. TypeOK
  <2>1. buf \in [1 .. Cap -> Bytes]
    BY DEF Init, Bytes
  <2>2. /\ {conn, gone, cut} \subseteq BOOLEAN /\ pc \in {"idle", "parse", "move"}
        /\ wire \in Seq(Bytes) /\ handled \in Seq(1 .. MaxFrames)
    <3>1. conn = FALSE /\ gone = FALSE /\ cut = FALSE /\ pc = "idle" /\ wire = <<>> /\ handled = <<>>
      BY DEF Init
    <3>2. \A S : <<>> \in Seq(S)
      OBVIOUS
    <3> QED BY <3>1, <3>2
  <2>3. /\ recv_len \in 0 .. Cap /\ consumed \in 0 .. 2 * Cap
        /\ sent \in 0 .. MaxFrames /\ base \in 0 .. sent /\ breaks \in 0 .. MaxBreaks
    BY LengthsFit DEF Init
  <2> QED BY <2>1, <2>2, <2>3 DEF TypeOK
<1>2. DOMAIN handled = {}
  BY DEF Init
<1> QED BY <1>1, <1>2 DEF Init, RInv, Places, StreamFramed, NoneWhole, FramesInOrder

(* Every step keeps the invariant.                                         *)
LEMMA NextRInv == RInv /\ [Next]_vars => RInv'
<1> SUFFICES ASSUME RInv, [Next]_vars PROVE RInv'
  OBVIOUS
<1>1. CASE Next
  BY <1>1, ReceiveStep, ReceiveNothingStep, StopStep, HandleStep, MoveStep, ListenStep, SendStep,
     BreakStep DEF Next
<1>2. CASE UNCHANGED vars
  <2>1. TypeOK'
    BY <1>2 DEF RInv, TypeOK, vars
  <2>2. Stream' = Stream /\ Rest' = Rest /\ InBuffer' = InBuffer
    BY <1>2 DEF Stream, Rest, InBuffer, vars
  <2>3. Places' /\ StreamFramed' /\ NoneWhole' /\ FramesInOrder'
    BY <1>2, <2>2 DEF RInv, Places, StreamFramed, NoneWhole, FramesInOrder, vars
  <2> QED BY <2>1, <2>3 DEF RInv
<1> QED BY <1>1, <1>2

(* What is left in an idle buffer begins a frame and is less than it.      *)
LEMMA IdleLeft == RInv => NoFrameLeft
<1> SUFFICES ASSUME RInv, conn, pc = "idle", recv_len > 0
             PROVE  recv_len < buf[1].len /\ buf[1].at = 1
  BY DEF NoFrameLeft
<1>1. TypeOK /\ consumed = 0 /\ recv_len \in Nat
  BY Numbers DEF RInv, Places
<1>2. InBuffer = recv_len /\ consumed <= recv_len /\ consumed + 1 = 1 /\ consumed < recv_len
  BY <1>1 DEF InBuffer
<1>3. Rest \in Nat \ {0} /\ Stream[1] = buf[1]
  <2>1. InBuffer \in Nat /\ Rest \in Nat /\ InBuffer <= Rest /\ 1 \in 1 .. InBuffer
        /\ \A i \in 1 .. InBuffer : Stream[i] = buf[consumed + i]
    BY <1>1, <1>2, StreamBytes
  <2> QED BY <1>2, <2>1
<1>4. Framed(Stream, Rest, base + Len(handled) + 1, sent)
  BY DEF RInv, StreamFramed
<1>5. buf[1].at = 1
  BY <1>3, <1>4, FirstFrame
<1>6. recv_len < buf[1].len
  BY <1>2 DEF RInv, NoneWhole
<1> QED BY <1>5, <1>6

(* The types of the buffer's state, what a dropped connection leaves of    *)
(* consumed included: it stays below twice the buffer.                     *)
THEOREM TypeCorrect == Spec => []TypeOK
<1>1. RInv => TypeOK
  BY DEF RInv
<1> QED BY <1>1, InitRInv, NextRInv, PTL DEF Spec

(* Frames are handled in the order DM sent them, each once, for every      *)
(* buffer, every set of frame lengths that fit it, and every way in which  *)
(* recv cuts and joins the stream (net_on_client_ready).                   *)
THEOREM FramesAreInOrder == Spec => []FramesInOrder
<1>1. RInv => FramesInOrder
  BY DEF RInv
<1> QED BY <1>1, InitRInv, NextRInv, PTL DEF Spec

(* When the callback is over less than one frame is left, at the front of  *)
(* the buffer: recv always has room, and no frame waits for other bytes    *)
(* than its own.                                                           *)
THEOREM NoFrameIsLeft == Spec => []NoFrameLeft
BY IdleLeft, InitRInv, NextRInv, PTL DEF Spec

=============================================================================
