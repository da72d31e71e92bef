--------------------------- MODULE CmdPathProofs ---------------------------
(***************************************************************************)
(* Proofs about the path of a command: the ring and the framing it arrives  *)
(* through (RxParser), and the session its sender holds (ClientSession).    *)
(*                                                                         *)
(* RxParser, for every size of the ring and of a chunk and every set of     *)
(* texts: a packet is dispatched exactly once.  The invariant looks at the  *)
(* ring and the wire as one stream of bytes, of which receiving moves the   *)
(* boundary, sending makes the end longer and dispatching takes the front   *)
(* off; it says that the stream is the packets of the texts not yet         *)
(* dispatched, one behind the other.                                        *)
(*                                                                         *)
(* ClientSession, for every set of descriptors and table size: types,       *)
(* the exclusion of TCP and browsers up to a stale release, who can cause   *)
(* one, the accounting of claims, the receive ring and the sockets.         *)
(*                                                                         *)
(* The invariants of ClientSession are inductive only together with three   *)
(* facts about the tasks' positions: where net_cmd_task's client_sock is    *)
(* set, which socket the server task is handling, and that the table is     *)
(* still empty when the server task releases for the last browser.          *)
(***************************************************************************)
EXTENDS RxParser, ClientSession, FiniteSetTheorems, TLAPS

-----------------------------------------------------------------------------
(* RxParser: the stream and its packets.                                   *)

\* A well-behaved host's bytes on the way: in the ring from pop on, then on the wire.
Size == Used + Len(wire)
Stream == [k \in 0 .. Size - 1 |->
             IF k < Used THEN ring[Step(pop, k)] ELSE wire[k - Used + 1]]

\* The n bytes b are the packets of texts, one behind the other: the i-th at at[i].
FramedAt(b, n, texts, at) ==
  /\ at[1] = 0 /\ at[Len(texts) + 1] = n
  /\ \A i, j \in 1 .. Len(texts) + 1 : i < j => at[i] + 2 <= at[j]
  /\ \A i \in 1 .. Len(texts) :
       /\ at[i + 1] = at[i] + Len(texts[i]) + 2
       /\ b[at[i]] = START /\ b[at[i + 1] - 1] = STOP
       /\ \A j \in 1 .. Len(texts[i]) : b[at[i] + j] = texts[i][j]

Framed(b, n, texts) ==
  \E at \in [1 .. Len(texts) + 1 -> 0 .. n] : FramedAt(b, n, texts, at)

\* The modulus is at most one turn of the ring.
LEMMA StepIs ==
  ASSUME NEW i \in Slots, NEW n \in 0 .. RingLen
  PROVE  Step(i, n) = IF i + n < RingLen THEN i + n ELSE i + n - RingLen
<1>1. CASE i + n < RingLen
  BY <1>1, RingAssumption DEF RingAssumption, Step, Slots
<1>2. CASE i + n >= RingLen
  BY <1>2, RingAssumption DEF RingAssumption, Step, Slots
<1> QED BY <1>1, <1>2, RingAssumption DEF RingAssumption, Slots

\* No bytes, no packets.
LEMMA FramedNone == ASSUME NEW b PROVE Framed(b, 0, <<>>)
<1> DEFINE at == [i \in 1 .. 1 |-> 0]
<1>1. at \in [1 .. Len(<<>>) + 1 -> 0 .. 0] /\ FramedAt(b, 0, <<>>, at)
  BY DEF FramedAt
<1> QED BY <1>1 DEF Framed

\* What the offsets and the texts of a framing are.
Laid(b, n, texts, at) ==
  /\ Len(texts) \in Nat
  /\ \A i \in 1 .. Len(texts) + 1 : at[i] \in Int /\ 0 <= at[i] /\ at[i] <= n
  /\ \A i \in 1 .. Len(texts) : texts[i] \in Texts /\ Len(texts[i]) \in Nat
  /\ at[1] = 0 /\ at[Len(texts) + 1] = n
  /\ \A i, j \in 1 .. Len(texts) + 1 : i < j => at[i] + 2 <= at[j]
  /\ \A i \in 1 .. Len(texts) :
       /\ at[i + 1] = at[i] + Len(texts[i]) + 2
       /\ b[at[i]] = START /\ b[at[i + 1] - 1] = STOP
       /\ \A j \in 1 .. Len(texts[i]) : b[at[i] + j] = texts[i][j]

\* FramedAt with the types of what it speaks of.
LEMMA Offsets ==
  ASSUME NEW b, NEW n \in Nat, NEW texts \in Seq(Texts),
         NEW at \in [1 .. Len(texts) + 1 -> 0 .. n], FramedAt(b, n, texts, at)
  PROVE  Laid(b, n, texts, at)
<1>1. Len(texts) \in Nat
  OBVIOUS
<1>2. \A i \in 1 .. Len(texts) : texts[i] \in Texts
  OBVIOUS
<1>3. \A i \in 1 .. Len(texts) : Len(texts[i]) \in Nat
  BY <1>2, RingAssumption DEF RingAssumption
<1>4. \A i \in 1 .. Len(texts) + 1 : at[i] \in Int /\ 0 <= at[i] /\ at[i] <= n
  <2>1. \A i \in 1 .. Len(texts) + 1 : at[i] \in 0 .. n
    OBVIOUS
  <2> QED BY ONLY <2>1, n \in Nat
<1> QED BY <1>1, <1>2, <1>3, <1>4 DEF FramedAt, Laid

\* There are bytes where there are packets.
LEMMA FramedEmpty ==
  ASSUME NEW b, NEW n \in Nat, NEW texts \in Seq(Texts), Framed(b, n, texts)
  PROVE  texts = <<>> <=> n = 0
<1>1. PICK at \in [1 .. Len(texts) + 1 -> 0 .. n] : FramedAt(b, n, texts, at)
  BY DEF Framed
<1>2. at[1] = 0 /\ at[Len(texts) + 1] = n
  BY ONLY <1>1 DEF FramedAt
<1>3. CASE texts = <<>>
  <2>1. Len(texts) + 1 = 1
    BY ONLY <1>3
  <2> QED BY ONLY <1>2, <1>3, <2>1
<1>4. CASE texts # <<>>
  <2>1. Len(texts) \in Nat /\ Len(texts) >= 1
    BY <1>4
  <2>2. /\ 1 \in 1 .. Len(texts) + 1 /\ Len(texts) + 1 \in 1 .. Len(texts) + 1
        /\ 1 < Len(texts) + 1
    BY ONLY <2>1
  <2>3. at[1] + 2 <= at[Len(texts) + 1]
    BY ONLY <1>1, <2>2 DEF FramedAt
  <2> QED BY ONLY <1>2, <1>4, <2>3
<1> QED BY <1>3, <1>4

\* One more packet at the end.
LEMMA FramedAppend ==
  ASSUME NEW b, NEW n \in Nat, NEW texts \in Seq(Texts), Framed(b, n, texts),
         NEW t \in Texts, NEW c, \A k \in 0 .. n - 1 : c[k] = b[k],
         c[n] = START, c[n + Len(t) + 1] = STOP, \A j \in 1 .. Len(t) : c[n + j] = t[j]
  PROVE  Framed(c, n + Len(t) + 2, Append(texts, t))
<1>1. PICK at \in [1 .. Len(texts) + 1 -> 0 .. n] : FramedAt(b, n, texts, at)
  BY DEF Framed
<1> DEFINE m == Len(texts)
           more == Append(texts, t)
           last == n + Len(t) + 2
           next == [i \in 1 .. m + 2 |-> IF i = m + 2 THEN last ELSE at[i]]
<1>2. /\ m \in Nat
      /\ \A i \in 1 .. m + 1 : at[i] \in Int /\ 0 <= at[i] /\ at[i] <= n
      /\ \A i \in 1 .. m : texts[i] \in Texts /\ Len(texts[i]) \in Nat
      /\ at[1] = 0 /\ at[m + 1] = n
      /\ \A i, j \in 1 .. m + 1 : i < j => at[i] + 2 <= at[j]
      /\ \A i \in 1 .. m :
           /\ at[i + 1] = at[i] + Len(texts[i]) + 2
           /\ b[at[i]] = START /\ b[at[i + 1] - 1] = STOP
           /\ \A j \in 1 .. Len(texts[i]) : b[at[i] + j] = texts[i][j]
  <2>1. Laid(b, n, texts, at)
    BY <1>1, Offsets
  <2> QED BY ONLY <2>1 DEF Laid, m
<1>3. Len(t) \in Nat
  BY RingAssumption DEF RingAssumption
<1>4. Len(more) = m + 1 /\ more[m + 1] = t /\ \A i \in 1 .. m : more[i] = texts[i]
  OBVIOUS
<1> HIDE DEF m, more
<1>5. \A i \in 1 .. m + 2 : next[i] = IF i = m + 2 THEN last ELSE at[i]
  OBVIOUS
<1> HIDE DEF next
<1>6. \A i \in 1 .. m + 1 : next[i] = at[i] /\ i \in 1 .. m + 2 /\ i # m + 2
  BY ONLY <1>2, <1>5
<1>7. m + 2 \in 1 .. m + 2 /\ m + 1 \in 1 .. m + 1 /\ 1 \in 1 .. m + 1
  BY ONLY <1>2
<1>8. next[m + 2] = last /\ next[1] = 0 /\ next[m + 1] = n
  BY ONLY <1>2, <1>5, <1>6, <1>7
<1>9. last \in Nat /\ n < last /\ n + 2 <= last
  BY ONLY <1>3, n \in Nat
<1> HIDE DEF last
<1>10. \A i \in 1 .. m + 2 : next[i] \in 0 .. last
  <2> SUFFICES ASSUME NEW i \in 1 .. m + 2 PROVE next[i] \in 0 .. last
    OBVIOUS
  <2>1. CASE i = m + 2
    BY ONLY <1>8, <1>9, <2>1
  <2>2. CASE i # m + 2
    <3>1. i \in 1 .. m + 1
      BY ONLY <1>2, <2>2, i \in 1 .. m + 2
    <3> QED BY ONLY <1>2, <1>6, <1>9, <3>1, n \in Nat
  <2> QED BY <2>1, <2>2
<1>11. next \in [1 .. m + 2 -> 0 .. last]
  BY <1>10 DEF next
<1>12. \A i, j \in 1 .. m + 2 : i < j => next[i] + 2 <= next[j]
  <2> SUFFICES ASSUME NEW i \in 1 .. m + 2, NEW j \in 1 .. m + 2, i < j
               PROVE  next[i] + 2 <= next[j]
    OBVIOUS
  <2>1. i \in 1 .. m + 1
    BY ONLY <1>2, i \in 1 .. m + 2, j \in 1 .. m + 2, i < j
  <2>2. CASE j = m + 2
    <3>1. next[i] = at[i] /\ at[i] \in Int /\ at[i] <= n
      BY ONLY <1>2, <1>6, <2>1
    <3> QED BY ONLY <1>8, <1>9, <2>2, <3>1, n \in Nat
  <2>3. CASE j # m + 2
    <3>1. j \in 1 .. m + 1
      BY ONLY <1>2, <2>3, j \in 1 .. m + 2
    <3> QED BY ONLY <1>2, <1>6, <2>1, <3>1, i < j
  <2> QED BY <2>2, <2>3
<1>13. ASSUME NEW i \in 1 .. m + 1
       PROVE  /\ next[i + 1] = next[i] + Len(more[i]) + 2
              /\ c[next[i]] = START /\ c[next[i + 1] - 1] = STOP
              /\ \A j \in 1 .. Len(more[i]) : c[next[i] + j] = more[i][j]
  <2>1. CASE i = m + 1
    <3>1. i + 1 = m + 2 /\ last - 1 = n + Len(t) + 1
      BY ONLY <1>2, <1>3, <2>1, n \in Nat DEF last
    <3>2. next[i + 1] = last /\ next[i] = n /\ more[i] = t /\ last = n + Len(t) + 2
      BY ONLY <1>4, <1>8, <2>1, <3>1 DEF last
    <3> QED BY <3>1, <3>2
  <2>2. CASE i # m + 1
    <3>1. i \in 1 .. m /\ i + 1 \in 1 .. m + 1 /\ i \in 1 .. m + 1
      BY ONLY <1>2, <2>2, i \in 1 .. m + 1
    <3>2. /\ at[i + 1] = at[i] + Len(texts[i]) + 2
          /\ b[at[i]] = START /\ b[at[i + 1] - 1] = STOP
          /\ \A j \in 1 .. Len(texts[i]) : b[at[i] + j] = texts[i][j]
          /\ Len(texts[i]) \in Nat
      BY ONLY <1>2, <3>1
    <3>3. next[i] = at[i] /\ next[i + 1] = at[i + 1] /\ more[i] = texts[i]
      BY ONLY <1>4, <1>6, <3>1
    <3>4. at[i] \in Int /\ 0 <= at[i] /\ at[i + 1] \in Int /\ at[i + 1] <= n
      BY ONLY <1>2, <3>1
    <3>5. \A j \in 1 .. Len(texts[i]) : at[i] + j \in 0 .. n - 1
      BY ONLY <3>2, <3>4, n \in Nat
    <3>6. at[i] \in 0 .. n - 1 /\ at[i + 1] - 1 \in 0 .. n - 1
      BY ONLY <3>2, <3>4, n \in Nat
    <3>7. /\ c[at[i]] = START /\ c[at[i + 1] - 1] = STOP
          /\ \A j \in 1 .. Len(texts[i]) : c[at[i] + j] = texts[i][j]
      BY ONLY <3>2, <3>5, <3>6, \A k \in 0 .. n - 1 : c[k] = b[k]
    <3> QED BY ONLY <3>2, <3>3, <3>7
  <2> QED BY <2>1, <2>2
<1>14. FramedAt(c, last, more, next) /\ Len(more) + 1 = m + 2
  <2>1. Len(more) + 1 = m + 2
    BY ONLY <1>2, <1>4
  <2> QED BY ONLY <1>4, <1>8, <1>12, <1>13, <2>1 DEF FramedAt
<1>15. Framed(c, last, more)
  BY ONLY <1>11, <1>14 DEF Framed
<1> QED BY <1>15 DEF last, more

\* The first packet, and the others behind it.
LEMMA FramedFirst ==
  ASSUME NEW b, NEW n \in Nat, NEW texts \in Seq(Texts), Framed(b, n, texts), texts # <<>>
  PROVE  /\ Head(texts) \in Texts /\ Len(Head(texts)) \in Nat /\ Len(Head(texts)) + 2 <= n
         /\ b[0] = START /\ b[Len(Head(texts)) + 1] = STOP
         /\ \A j \in 1 .. Len(Head(texts)) : b[j] = Head(texts)[j]
         /\ \A c : (\A k \in 0 .. n - Len(Head(texts)) - 3 :
                      c[k] = b[k + Len(Head(texts)) + 2])
                   => Framed(c, n - Len(Head(texts)) - 2, Tail(texts))
<1>1. PICK at \in [1 .. Len(texts) + 1 -> 0 .. n] : FramedAt(b, n, texts, at)
  BY DEF Framed
<1> DEFINE m == Len(texts)
           first == Head(texts)
           rest == Tail(texts)
           size == Len(first) + 2
<1>2. /\ m \in Nat
      /\ \A i \in 1 .. m + 1 : at[i] \in Int /\ 0 <= at[i] /\ at[i] <= n
      /\ \A i \in 1 .. m : texts[i] \in Texts /\ Len(texts[i]) \in Nat
      /\ at[1] = 0 /\ at[m + 1] = n
      /\ \A i, j \in 1 .. m + 1 : i < j => at[i] + 2 <= at[j]
      /\ \A i \in 1 .. m :
           /\ at[i + 1] = at[i] + Len(texts[i]) + 2
           /\ b[at[i]] = START /\ b[at[i + 1] - 1] = STOP
           /\ \A j \in 1 .. Len(texts[i]) : b[at[i] + j] = texts[i][j]
  <2>1. Laid(b, n, texts, at)
    BY <1>1, Offsets
  <2> QED BY ONLY <2>1 DEF Laid, m
<1>3. m >= 1 /\ first = texts[1]
  OBVIOUS
<1>4. Len(rest) = m - 1 /\ \A i \in 1 .. m - 1 : rest[i] = texts[i + 1]
  OBVIOUS
<1> HIDE DEF m, first, rest
<1>5. 1 \in 1 .. m /\ 1 \in 1 .. m + 1 /\ 2 \in 1 .. m + 1 /\ m + 1 \in 1 .. m + 1
  BY ONLY <1>2, <1>3
<1>6. first \in Texts /\ Len(first) \in Nat
  BY ONLY <1>2, <1>3, <1>5
<1>7. at[2] = size /\ size <= n /\ size \in Nat /\ size - 1 = Len(first) + 1
  <2>1. at[1 + 1] = at[1] + Len(texts[1]) + 2
    BY ONLY <1>2, <1>5
  <2>2. at[2] <= n
    BY ONLY <1>2, <1>5
  <2> QED BY ONLY <1>2, <1>3, <1>6, <2>1, <2>2
<1>8. /\ b[0] = START /\ b[size - 1] = STOP
      /\ \A j \in 1 .. Len(first) : b[j] = first[j]
  <2>1. /\ b[at[1]] = START /\ b[at[1 + 1] - 1] = STOP
        /\ \A j \in 1 .. Len(first) : b[at[1] + j] = first[j]
    BY ONLY <1>2, <1>3, <1>5
  <2>2. at[1] = 0 /\ 1 + 1 = 2 /\ \A j \in 1 .. Len(first) : 0 + j = j
    BY ONLY <1>2, <1>6
  <2> QED BY ONLY <1>7, <2>1, <2>2
<1> HIDE DEF size
<1>9. ASSUME NEW c, \A k \in 0 .. n - size - 1 : c[k] = b[k + size]
      PROVE  Framed(c, n - size, rest)
  <2> DEFINE next == [i \in 1 .. m |-> at[i + 1] - size]
  <2>1. \A i \in 1 .. m : next[i] = at[i + 1] - size
    OBVIOUS
  <2> HIDE DEF next
  <2>2. \A i \in 1 .. m : i + 1 \in 1 .. m + 1
    BY ONLY <1>2
  <2>3. \A i \in 1 .. m : at[i + 1] \in Int /\ size <= at[i + 1] /\ at[i + 1] <= n
    <3> SUFFICES ASSUME NEW i \in 1 .. m
                 PROVE  at[i + 1] \in Int /\ size <= at[i + 1] /\ at[i + 1] <= n
      OBVIOUS
    <3>1. at[i + 1] \in Int /\ at[i + 1] <= n
      BY ONLY <1>2, <2>2, i \in 1 .. m
    <3>2. CASE i = 1
      BY ONLY <1>7, <3>1, <3>2
    <3>3. CASE i # 1
      <4>1. 2 < i + 1
        BY ONLY <1>2, <3>3, i \in 1 .. m
      <4>2. at[2] + 2 <= at[i + 1]
        BY ONLY <1>2, <1>5, <2>2, <4>1, i \in 1 .. m
      <4> QED BY ONLY <1>7, <3>1, <4>2
    <3> QED BY <3>2, <3>3
  <2>4. \A i \in 1 .. m : next[i] \in Int /\ 0 <= next[i] /\ next[i] <= n - size
    BY ONLY <1>7, <2>1, <2>3, n \in Nat
  <2>5. \A i \in 1 .. m : next[i] \in 0 .. n - size
    BY ONLY <1>7, <2>4, n \in Nat
  <2>6. next \in [1 .. m -> 0 .. n - size]
    BY <2>5 DEF next
  <2>7. next[1] = 0 /\ next[m] = n - size
    <3>1. m \in 1 .. m /\ 1 + 1 = 2
      BY ONLY <1>2, <1>3
    <3>2. next[1] = at[2] - size /\ next[m] = at[m + 1] - size
      BY ONLY <1>5, <2>1, <3>1
    <3>3. at[m + 1] = n
      BY ONLY <1>2
    <3> QED BY ONLY <1>7, <3>2, <3>3, n \in Nat
  <2>8. \A i, j \in 1 .. m : i < j => next[i] + 2 <= next[j]
    <3> SUFFICES ASSUME NEW i \in 1 .. m, NEW j \in 1 .. m, i < j
                 PROVE  next[i] + 2 <= next[j]
      OBVIOUS
    <3>1. i + 1 \in 1 .. m + 1 /\ j + 1 \in 1 .. m + 1 /\ i + 1 < j + 1
      BY ONLY <1>2, i \in 1 .. m, j \in 1 .. m, i < j
    <3>2. at[i + 1] + 2 <= at[j + 1]
      BY ONLY <1>2, <3>1
    <3>3. at[i + 1] \in Int /\ at[j + 1] \in Int
      BY ONLY <1>2, <3>1
    <3>4. next[i] = at[i + 1] - size /\ next[j] = at[j + 1] - size
      BY ONLY <2>1, i \in 1 .. m, j \in 1 .. m
    <3> QED BY ONLY <1>7, <3>2, <3>3, <3>4
  <2>9. ASSUME NEW i \in 1 .. m - 1
        PROVE  /\ next[i + 1] = next[i] + Len(rest[i]) + 2
               /\ c[next[i]] = START /\ c[next[i + 1] - 1] = STOP
               /\ \A j \in 1 .. Len(rest[i]) : c[next[i] + j] = rest[i][j]
    <3>1. i \in 1 .. m /\ i + 1 \in 1 .. m
      BY ONLY <1>2, i \in 1 .. m - 1
    <3>2. rest[i] = texts[i + 1]
      BY ONLY <1>4, i \in 1 .. m - 1
    <3>3. /\ at[i + 1 + 1] = at[i + 1] + Len(rest[i]) + 2
          /\ b[at[i + 1]] = START /\ b[at[i + 1 + 1] - 1] = STOP
          /\ \A j \in 1 .. Len(rest[i]) : b[at[i + 1] + j] = rest[i][j]
          /\ Len(rest[i]) \in Nat
      BY ONLY <1>2, <3>1, <3>2
    <3> DEFINE p == at[i + 1]
               q == at[i + 1 + 1]
               l == Len(rest[i])
    <3>4. /\ next[i] = p - size /\ next[i + 1] = q - size
          /\ p \in Int /\ q \in Int /\ 0 <= next[i] /\ next[i + 1] <= n - size
      BY ONLY <1>2, <2>1, <2>3, <2>4, <3>1 DEF p, q
    <3>5. q = p + l + 2 /\ l \in Nat /\ size \in Nat
      BY ONLY <1>7, <3>3 DEF p, q, l
    <3>6. b[p] = START /\ b[q - 1] = STOP /\ \A j \in 1 .. l : b[p + j] = rest[i][j]
      BY ONLY <3>3 DEF p, q, l
    <3> HIDE DEF p, q, l
    <3>7. /\ next[i + 1] = next[i] + l + 2
          /\ next[i] \in 0 .. n - size - 1 /\ next[i + 1] - 1 \in 0 .. n - size - 1
          /\ next[i] + size = p /\ next[i + 1] - 1 + size = q - 1
      BY ONLY <3>4, <3>5, n \in Nat
    <3>8. \A j \in 1 .. l : next[i] + j \in 0 .. n - size - 1 /\ next[i] + j + size = p + j
      BY ONLY <3>4, <3>5, n \in Nat
    <3>9. /\ c[next[i]] = START /\ c[next[i + 1] - 1] = STOP
          /\ \A j \in 1 .. l : c[next[i] + j] = rest[i][j]
      BY ONLY <1>9, <3>6, <3>7, <3>8
    <3> QED BY ONLY <3>7, <3>9 DEF l
  <2>10. Len(rest) + 1 = m
    BY ONLY <1>2, <1>3, <1>4
  <2>11. FramedAt(c, n - size, rest, next)
    BY ONLY <1>4, <2>7, <2>8, <2>9, <2>10 DEF FramedAt
  <2> QED BY ONLY <2>6, <2>10, <2>11 DEF Framed
<1>10. n - Len(first) - 2 = n - size /\ n - Len(first) - 3 = n - size - 1
  BY ONLY <1>6, n \in Nat DEF size
<1>11. \A k \in 0 .. n - size - 1 : k + Len(first) + 2 = k + size
  BY ONLY <1>6 DEF size
<1>12. Len(first) + 2 = size /\ Len(first) + 1 = size - 1
  BY ONLY <1>6, <1>7 DEF size
<1>13. \A c : (\A k \in 0 .. n - Len(first) - 3 : c[k] = b[k + Len(first) + 2])
              => Framed(c, n - Len(first) - 2, rest)
  BY ONLY <1>9, <1>10, <1>11
<1> QED BY ONLY <1>6, <1>7, <1>8, <1>12, <1>13 DEF first, rest

-----------------------------------------------------------------------------
(* The ring while the host is well behaved.                                *)

\* The bytes in the ring run from pop to push.
LEMMA UsedIs ==
  ASSUME push \in Slots, pop \in Slots
  PROVE  Used \in Nat /\ Used < RingLen /\ push = Step(pop, Used)
<1>1. Used \in Nat /\ Used < RingLen /\ RingLen \in Nat
  BY RingAssumption DEF RingAssumption, Slots, Used
<1>2. Step(pop, Used) = IF pop + Used < RingLen THEN pop + Used ELSE pop + Used - RingLen
  BY <1>1, StepIs
<1> QED BY <1>1, <1>2 DEF Slots, Used

\* A number below the divisor is the remainder of itself, one turn back included.
LEMMA Remainder ==
  ASSUME NEW n \in Nat, NEW x \in Nat, x < n
  PROVE  x % n = x /\ (x - n) % n = x
<1>1. x % n = x
  OBVIOUS
<1>2. (x - n) % n = x
  OBVIOUS
<1> QED BY <1>1, <1>2

\* Two offsets that both fit in the ring are two slots.
LEMMA StepApart ==
  ASSUME NEW i \in Slots, NEW k \in Nat, NEW j \in Nat, k < RingLen, j < RingLen, k # j
  PROVE  Step(i, k) # Step(i, j) /\ Step(i, k) \in Slots
<1>1. RingLen \in Nat /\ i \in Int /\ 0 <= i /\ i < RingLen
  BY RingAssumption DEF RingAssumption, Slots
<1>2. k \in 0 .. RingLen /\ j \in 0 .. RingLen
  BY <1>1
<1>3. /\ Step(i, k) = IF i + k < RingLen THEN i + k ELSE i + k - RingLen
      /\ Step(i, j) = IF i + j < RingLen THEN i + j ELSE i + j - RingLen
  BY <1>2, StepIs
<1> QED BY <1>1, <1>3 DEF Slots

\* An offset that fits in the ring is a slot.
LEMMA StepIn ==
  ASSUME NEW i \in Slots, NEW k \in Nat, k < RingLen
  PROVE  Step(i, k) \in Slots
<1>1. k + 1 \in Nat /\ k # k + 1 /\ RingLen \in Nat /\ k \in 0 .. RingLen
  BY RingAssumption DEF RingAssumption
<1>2. Step(i, k) = IF i + k < RingLen THEN i + k ELSE i + k - RingLen
  BY <1>1, StepIs
<1> QED BY <1>1, <1>2 DEF Slots

\* Steps add up.
LEMMA StepStep ==
  ASSUME NEW i \in Slots, NEW k \in Nat, NEW j \in Nat, k + j <= RingLen
  PROVE  Step(Step(i, k), j) = Step(i, k + j) /\ Step(i, k) \in Slots
<1>1. RingLen \in Nat /\ i \in Int /\ 0 <= i /\ i < RingLen
  BY RingAssumption DEF RingAssumption, Slots
<1>2. k \in 0 .. RingLen /\ j \in 0 .. RingLen /\ k + j \in 0 .. RingLen
  BY <1>1
<1>3. Step(i, k) = IF i + k < RingLen THEN i + k ELSE i + k - RingLen
  BY <1>2, StepIs
<1>4. Step(i, k) \in Slots
  BY <1>1, <1>2, <1>3 DEF Slots
<1>5. Step(Step(i, k), j) = IF Step(i, k) + j < RingLen THEN Step(i, k) + j
                            ELSE Step(i, k) + j - RingLen
  BY <1>2, <1>4, StepIs
<1>6. Step(i, k + j) = IF i + (k + j) < RingLen THEN i + (k + j) ELSE i + (k + j) - RingLen
  BY <1>2, StepIs
<1> QED BY <1>1, <1>2, <1>3, <1>4, <1>5, <1>6 DEF Slots

\* What a well-behaved host's state is made of: the part of InOrder under noise = 0.
Orderly ==
  /\ push \in Slots /\ pop \in Slots /\ wire \in Seq(Bytes) /\ pending \in Seq(Texts)
  /\ Framed(Stream, Size, pending)

\* The stream's bytes, those in the ring first.
LEMMA StreamIs ==
  ASSUME Orderly
  PROVE  /\ Used \in Nat /\ Used < RingLen /\ Len(wire) \in Nat /\ Size = Used + Len(wire)
         /\ \A k \in 0 .. Size - 1 :
              Stream[k] = IF k < Used THEN ring[Step(pop, k)] ELSE wire[k - Used + 1]
         /\ \A c : OffsetsOf(c) = {k \in 0 .. Used - 1 : Stream[k] = c}
<1>1. Used \in Nat /\ Used < RingLen /\ Len(wire) \in Nat
  BY UsedIs DEF Orderly
<1>2. Size = Used + Len(wire)
  BY DEF Size
<1>3. \A k \in 0 .. Size - 1 :
        Stream[k] = IF k < Used THEN ring[Step(pop, k)] ELSE wire[k - Used + 1]
  BY DEF Stream
<1>4. \A k \in 0 .. Used - 1 : k \in 0 .. Size - 1 /\ k < Used
  BY <1>1, <1>2
<1>5. \A k \in 0 .. Used - 1 : Stream[k] = ring[Step(pop, k)]
  BY <1>3, <1>4
<1>6. \A c : OffsetsOf(c) = {k \in 0 .. Used - 1 : Stream[k] = c}
  BY <1>5 DEF OffsetsOf
<1> QED BY <1>1, <1>2, <1>3, <1>6

\* Where anything is on its way, the oldest text is at its front; its START and
\* its STOP are the first there are.
LEMMA FrontIs ==
  ASSUME Orderly, Size # 0
  PROVE  /\ pending # <<>>
         /\ Head(pending) \in Texts /\ Len(Head(pending)) \in Nat
         /\ Len(Head(pending)) + 2 <= Size /\ Len(Head(pending)) + 2 + MaxChunk <= RingLen
         /\ Stream[0] = START /\ Stream[Len(Head(pending)) + 1] = STOP
         /\ \A j \in 1 .. Len(Head(pending)) : Stream[j] = Head(pending)[j]
         /\ \A j \in 0 .. Len(Head(pending)) : Stream[j] # STOP
<1>1. Size \in Nat
  BY StreamIs
<1>2. pending # <<>>
  BY <1>1, FramedEmpty DEF Orderly
<1> DEFINE h == Head(pending)
<1>3. /\ h \in Texts /\ Len(h) \in Nat /\ Len(h) + 2 <= Size
      /\ Stream[0] = START /\ Stream[Len(h) + 1] = STOP
      /\ \A j \in 1 .. Len(h) : Stream[j] = h[j]
  BY <1>1, <1>2, FramedFirst DEF Orderly
<1> HIDE DEF h
<1>4. Len(h) + 2 + MaxChunk <= RingLen /\ \A j \in 1 .. Len(h) : h[j] \notin {START, STOP}
  BY <1>3, RingAssumption DEF RingAssumption
<1>5. \A j \in 0 .. Len(h) : Stream[j] # STOP
  <2> SUFFICES ASSUME NEW j \in 0 .. Len(h) PROVE Stream[j] # STOP
    OBVIOUS
  <2>1. CASE j = 0
    BY <1>3, <2>1 DEF START, STOP
  <2>2. CASE j # 0
    <3>1. j \in 1 .. Len(h)
      BY <1>3, <2>2
    <3> QED BY <1>3, <1>4, <3>1
  <2> QED BY <2>1, <2>2
<1> QED BY <1>2, <1>3, <1>4, <1>5 DEF h

\* A reader that found no STOP holds less than the oldest packet.
LEMMA NoStopMeans ==
  ASSUME Orderly, OffsetsOf(STOP) = {}, Size # 0
  PROVE  Used <= Len(Head(pending)) + 1
<1> DEFINE l == Len(Head(pending))
<1>1. l \in Nat /\ Stream[l + 1] = STOP
  BY FrontIs
<1> HIDE DEF l
<1>2. Used \in Nat /\ OffsetsOf(STOP) = {k \in 0 .. Used - 1 : Stream[k] = STOP}
  BY StreamIs
<1>3. l + 1 \notin 0 .. Used - 1
  BY <1>1, <1>2
<1> QED BY <1>1, <1>2, <1>3 DEF l

\* A reader that goes back to recv has room for the next chunk: the ring of a
\* well-behaved host is never flushed.
LEMMA RoomForAChunk ==
  ASSUME Orderly, OffsetsOf(STOP) = {}, NEW n \in 1 .. MaxChunk, n <= Len(wire)
  PROVE  Fits(n)
<1> DEFINE l == Len(Head(pending))
<1>1. Used \in Nat /\ Len(wire) \in Nat /\ Size = Used + Len(wire)
  BY StreamIs
<1>2. MaxChunk \in Nat /\ RingLen \in Nat
  BY RingAssumption DEF RingAssumption
<1>3. Size # 0
  BY <1>1, <1>2
<1>4. l \in Nat /\ l + 2 + MaxChunk <= RingLen /\ Used <= l + 1
  BY <1>3, FrontIs, NoStopMeans
<1> HIDE DEF l
<1> QED BY <1>1, <1>2, <1>4 DEF Fits

-----------------------------------------------------------------------------
(* The steps.                                                              *)

\* Where the bytes of a concatenation are.
Joined(p, q) ==
  /\ p \o q \in Seq(Bytes) /\ Len(p \o q) = Len(p) + Len(q)
  /\ Len(p) \in Nat /\ Len(q) \in Nat
  /\ \A k \in 1 .. Len(p) : (p \o q)[k] = p[k]
  /\ \A k \in 1 .. Len(q) : (p \o q)[Len(p) + k] = q[k]

\* The concatenation of two pieces of a stream.
LEMMA ConcatIs == ASSUME NEW p \in Seq(Bytes), NEW q \in Seq(Bytes) PROVE Joined(p, q)
BY DEF Joined

\* The bytes of a packet.
LEMMA PacketIs ==
  ASSUME NEW t \in Texts
  PROVE  /\ Len(t) \in Nat /\ Packet(t) \in Seq(Bytes) /\ Len(Packet(t)) = Len(t) + 2
         /\ Packet(t)[1] = START /\ Packet(t)[Len(t) + 2] = STOP
         /\ \A j \in 1 .. Len(t) : Packet(t)[j + 1] = t[j]
<1>1. t \in Seq(Bytes) /\ Len(t) \in Nat
  BY RingAssumption DEF RingAssumption
<1>2. START \in Bytes /\ STOP \in Bytes
  BY DEF Bytes
<1> DEFINE a == <<START>>
           b == a \o t
           c == <<STOP>>
<1>3. a \in Seq(Bytes) /\ Len(a) = 1 /\ a[1] = START
  BY <1>2
<1>4. c \in Seq(Bytes) /\ Len(c) = 1 /\ c[1] = STOP
  BY <1>2
<1>5. Packet(t) = b \o c
  BY DEF Packet
<1> HIDE DEF a, c
<1>6. /\ b \in Seq(Bytes) /\ Len(b) = 1 + Len(t)
      /\ b[1] = START /\ \A j \in 1 .. Len(t) : b[1 + j] = t[j]
  <2>1. 1 \in 1 .. Len(a)
    BY ONLY <1>3
  <2>2. /\ a \o t \in Seq(Bytes) /\ Len(a \o t) = Len(a) + Len(t)
        /\ \A k \in 1 .. Len(a) : (a \o t)[k] = a[k]
        /\ \A k \in 1 .. Len(t) : (a \o t)[Len(a) + k] = t[k]
    <3>1. Joined(a, t)
      BY <1>1, <1>3, ConcatIs
    <3> QED BY ONLY <3>1 DEF Joined
  <2> QED BY ONLY <1>3, <2>1, <2>2 DEF b
<1> HIDE DEF b
<1>7. /\ b \o c \in Seq(Bytes) /\ Len(b \o c) = Len(b) + Len(c)
      /\ \A k \in 1 .. Len(b) : (b \o c)[k] = b[k]
      /\ \A k \in 1 .. Len(c) : (b \o c)[Len(b) + k] = c[k]
  <2>1. Joined(b, c)
    BY <1>4, <1>6, ConcatIs
  <2> QED BY ONLY <2>1 DEF Joined
<1>8. Len(b \o c) = Len(t) + 2
  BY ONLY <1>1, <1>4, <1>6, <1>7
<1>9. (b \o c)[1] = START
  <2>1. 1 \in 1 .. Len(b)
    BY ONLY <1>1, <1>6
  <2> QED BY ONLY <1>6, <1>7, <2>1
<1>10. (b \o c)[Len(t) + 2] = STOP
  <2>1. 1 \in 1 .. Len(c) /\ Len(b) + 1 = Len(t) + 2
    BY ONLY <1>1, <1>4, <1>6
  <2>2. (b \o c)[Len(b) + 1] = c[1]
    BY ONLY <1>7, <2>1
  <2> QED BY ONLY <1>4, <2>1, <2>2
<1>11. \A j \in 1 .. Len(t) : (b \o c)[j + 1] = t[j]
  <2> SUFFICES ASSUME NEW j \in 1 .. Len(t) PROVE (b \o c)[j + 1] = t[j]
    OBVIOUS
  <2>1. j + 1 \in 1 .. Len(b) /\ j + 1 = 1 + j
    BY ONLY <1>1, <1>6, j \in 1 .. Len(t)
  <2>2. b[1 + j] = t[j]
    BY ONLY <1>6, j \in 1 .. Len(t)
  <2> QED BY ONLY <1>7, <2>1, <2>2
<1> QED BY <1>1, <1>5, <1>7, <1>8, <1>9, <1>10, <1>11

\* The host sends a packet: it goes to the end.
LEMMA HostPacketOrderly ==
  ASSUME Orderly, noise = 0, NEW t \in Texts, HostPacket(t)
  PROVE  Orderly' /\ Used' = Used /\ \A c : OffsetsOf(c)' = OffsetsOf(c)
<1>1. /\ wire' = wire \o Packet(t) /\ pending' = Append(pending, t)
      /\ ring' = ring /\ push' = push /\ pop' = pop
  BY DEF HostPacket, ringVars
<1>2. Used' = Used
  BY <1>1 DEF Used
<1>3. \A c : OffsetsOf(c)' = OffsetsOf(c)
  BY <1>1, <1>2 DEF OffsetsOf
<1>4. /\ Used \in Nat /\ Len(wire) \in Nat /\ Size = Used + Len(wire)
      /\ \A k \in 0 .. Size - 1 :
           Stream[k] = IF k < Used THEN ring[Step(pop, k)] ELSE wire[k - Used + 1]
  BY StreamIs
<1>5. /\ Len(t) \in Nat /\ Packet(t) \in Seq(Bytes) /\ Len(Packet(t)) = Len(t) + 2
      /\ Packet(t)[1] = START /\ Packet(t)[Len(t) + 2] = STOP
      /\ \A j \in 1 .. Len(t) : Packet(t)[j + 1] = t[j]
  BY PacketIs
<1>6. /\ wire' \in Seq(Bytes) /\ Len(wire') = Len(wire) + Len(t) + 2
      /\ \A k \in 1 .. Len(wire) : wire'[k] = wire[k]
      /\ \A k \in 1 .. Len(t) + 2 : wire'[Len(wire) + k] = Packet(t)[k]
  <2> DEFINE p == Packet(t)
  <2>1. p \in Seq(Bytes) /\ Len(p) = Len(t) + 2 /\ wire \in Seq(Bytes)
    BY <1>5 DEF Orderly
  <2> HIDE DEF p
  <2>2. /\ wire \o p \in Seq(Bytes) /\ Len(wire \o p) = Len(wire) + Len(p)
        /\ \A k \in 1 .. Len(wire) : (wire \o p)[k] = wire[k]
        /\ \A k \in 1 .. Len(p) : (wire \o p)[Len(wire) + k] = p[k]
    BY ONLY <2>1
  <2>3. Len(wire) + Len(p) = Len(wire) + Len(t) + 2
    BY <1>4, <1>5, <2>1
  <2> QED BY <1>1, <2>1, <2>2, <2>3 DEF p
<1>7. Size' = Size + Len(t) + 2 /\ Size' \in Nat /\ Size \in Nat
  BY <1>2, <1>4, <1>5, <1>6 DEF Size
<1>8. \A k \in 0 .. Size' - 1 :
        Stream'[k] = IF k < Used THEN ring[Step(pop, k)] ELSE wire'[k - Used + 1]
  BY <1>1, <1>2 DEF Stream
<1> DEFINE S == Stream
           S1 == Stream'
           n == Size
<1>9. \A k \in 0 .. n - 1 : S1[k] = S[k]
  <2> SUFFICES ASSUME NEW k \in 0 .. n - 1 PROVE S1[k] = S[k]
    OBVIOUS
  <2>1. k \in 0 .. Size' - 1
    BY <1>5, <1>7
  <2>2. CASE k < Used
    BY <1>4, <1>8, <2>1, <2>2
  <2>3. CASE ~(k < Used)
    <3>1. k - Used + 1 \in 1 .. Len(wire)
      BY <1>4, <2>3
    <3> QED BY <1>4, <1>6, <1>8, <2>1, <2>3, <3>1
  <2> QED BY <2>2, <2>3
<1>10. \A j \in 0 .. Len(t) + 1 : S1[n + j] = Packet(t)[j + 1]
  <2> SUFFICES ASSUME NEW j \in 0 .. Len(t) + 1 PROVE S1[n + j] = Packet(t)[j + 1]
    OBVIOUS
  <2> DEFINE k == n + j
  <2>1. k \in 0 .. Size' - 1 /\ ~(k < Used) /\ k - Used + 1 = Len(wire) + (j + 1)
    BY <1>4, <1>5, <1>7
  <2>2. j + 1 \in 1 .. Len(t) + 2
    BY <1>5
  <2> HIDE DEF k
  <2>3. S1[k] = wire'[k - Used + 1]
    BY <1>8, <2>1
  <2>4. wire'[Len(wire) + (j + 1)] = Packet(t)[j + 1]
    BY ONLY <1>6, <2>2
  <2> QED BY ONLY <2>1, <2>3, <2>4 DEF k
<1>11. S1[n] = START /\ S1[n + Len(t) + 1] = STOP /\ \A j \in 1 .. Len(t) : S1[n + j] = t[j]
  <2>1. S1[n] = START
    <3>1. 0 \in 0 .. Len(t) + 1 /\ n + 0 = n /\ 0 + 1 = 1
      BY <1>5, <1>7
    <3>2. S1[n + 0] = Packet(t)[0 + 1]
      BY <1>10, <3>1
    <3> QED BY <1>5, <3>1, <3>2
  <2>2. S1[n + Len(t) + 1] = STOP
    <3>1. /\ Len(t) + 1 \in 0 .. Len(t) + 1 /\ n + (Len(t) + 1) = n + Len(t) + 1
          /\ (Len(t) + 1) + 1 = Len(t) + 2
      BY <1>5, <1>7
    <3>2. S1[n + (Len(t) + 1)] = Packet(t)[(Len(t) + 1) + 1]
      BY <1>10, <3>1
    <3> QED BY <1>5, <3>1, <3>2
  <2>3. \A j \in 1 .. Len(t) : S1[n + j] = t[j]
    <3>1. \A j \in 1 .. Len(t) : j \in 0 .. Len(t) + 1
      BY <1>5
    <3> QED BY <1>5, <1>10, <3>1
  <2> QED BY <2>1, <2>2, <2>3
<1>12. Framed(S1, n + Len(t) + 2, Append(pending, t))
  <2>1. n \in Nat /\ pending \in Seq(Texts) /\ Framed(S, n, pending)
    BY <1>7 DEF Orderly
  <2> HIDE DEF S, S1, n
  <2> QED BY <1>9, <1>11, <2>1, FramedAppend
<1>13. pending' \in Seq(Texts) /\ Framed(Stream', Size', pending')
  BY <1>1, <1>7, <1>12 DEF Orderly
<1> QED BY <1>1, <1>2, <1>3, <1>6, <1>13 DEF Orderly

\* A chunk is received: bytes move from the front of the wire to the end of the
\* ring, and the stream is what it was.
LEMMA ReceiveOrderly ==
  ASSUME Orderly, OffsetsOf(STOP) = {}, NEW n \in 1 .. MaxChunk, Receive(n)
  PROVE  Orderly'
<1> DEFINE chunk == SubSeq(wire, 1, n)
           old == wire
           new == wire'
           u == Used
<1>1. /\ u \in Nat /\ Len(old) \in Nat /\ Size = u + Len(old)
      /\ \A k \in 0 .. Size - 1 :
           Stream[k] = IF k < u THEN ring[Step(pop, k)] ELSE old[k - u + 1]
  BY StreamIs
<1>2. n \in Nat /\ 1 <= n /\ n <= Len(old) /\ old \in Seq(Bytes) /\ RingLen \in Nat
  BY RingAssumption DEF RingAssumption, Receive, Orderly
<1>3. /\ new = SubSeq(old, n + 1, Len(old)) /\ pending' = pending
  BY DEF Receive
<1>4. /\ Len(chunk) = n /\ \A k \in 1 .. n : chunk[k] = old[k]
  BY <1>2
<1>5. /\ new \in Seq(Bytes) /\ Len(new) = Len(old) - n
      /\ \A k \in 1 .. Len(old) - n : new[k] = old[k + n]
  BY <1>1, <1>2, <1>3
<1>6. Fits(n)
  BY RoomForAChunk DEF Receive
<1>7. WriteBytes(chunk)
  BY <1>4, <1>6 DEF Receive, Push
<1> HIDE DEF chunk, old, new
<1>8. u + n < RingLen /\ push = Step(pop, u) /\ pop \in Slots
  BY <1>1, <1>2, <1>6, UsedIs DEF Fits, Orderly
<1>9. /\ pop' = pop /\ push' = Step(pop, u + n) /\ push' \in Slots
  <2>1. pop' = pop /\ push' = Step(Step(pop, u), n)
    BY <1>4, <1>7, <1>8 DEF WriteBytes
  <2>2. Step(Step(pop, u), n) = Step(pop, u + n)
    <3>1. u \in Nat /\ n \in Nat /\ u + n <= RingLen /\ pop \in Slots
      BY <1>1, <1>2, <1>8
    <3> HIDE DEF u
    <3> QED BY ONLY <3>1, StepStep
  <2>3. Step(pop, u + n) \in Slots
    BY <1>1, <1>2, <1>8, StepStep
  <2> QED BY <2>1, <2>2, <2>3
<1>10. Used' = u + n
  <2>1. Step(pop, u + n) = IF pop + (u + n) < RingLen THEN pop + (u + n)
                           ELSE pop + (u + n) - RingLen
    BY <1>1, <1>2, <1>8, StepIs
  <2>2. Used' = IF push' >= pop THEN push' - pop ELSE push' - pop + RingLen
    BY <1>9 DEF Used
  <2> HIDE DEF u
  <2> QED BY <1>1, <1>2, <1>8, <1>9, <2>1, <2>2 DEF Slots
<1>11. Size' = Size
  <2>1. Size' = Used' + Len(new)
    BY DEF Size, new
  <2> HIDE DEF u
  <2> QED BY <1>1, <1>2, <1>5, <1>10, <2>1
<1>12. \A k \in 0 .. u - 1 : ring'[Step(pop, k)] = ring[Step(pop, k)]
  <2> SUFFICES ASSUME NEW k \in 0 .. u - 1
               PROVE  ring'[Step(pop, k)] = ring[Step(pop, k)]
    OBVIOUS
  <2>1. k \in Nat /\ k < RingLen
    BY <1>1, <1>2, <1>8
  <2>2. Step(pop, k) \in Slots
    BY <1>8, <2>1, StepIn
  <2>3. \A j \in 1 .. n : Step(pop, k) # Step(push, j - 1)
    <3> SUFFICES ASSUME NEW j \in 1 .. n PROVE Step(pop, k) # Step(push, j - 1)
      OBVIOUS
    <3>1. j - 1 \in Nat /\ u + (j - 1) \in Nat /\ u + (j - 1) < RingLen /\ k # u + (j - 1)
      BY <1>1, <1>2, <1>8, <2>1
    <3>2. Step(push, j - 1) = Step(pop, u + (j - 1))
      BY <1>1, <1>2, <1>8, <3>1, StepStep
    <3> QED BY <1>8, <2>1, <3>1, <3>2, StepApart
  <2> QED BY <1>4, <1>7, <2>2, <2>3 DEF WriteBytes
<1>13. \A j \in 1 .. n : ring'[Step(pop, u + (j - 1))] = old[j]
  <2> SUFFICES ASSUME NEW j \in 1 .. n PROVE ring'[Step(pop, u + (j - 1))] = old[j]
    OBVIOUS
  <2> DEFINE s == Step(pop, u + (j - 1))
  <2>1. \A i \in 1 .. n : i - 1 \in Nat /\ u + (i - 1) \in Nat /\ u + (i - 1) < RingLen
    BY <1>1, <1>2, <1>8
  <2>2. \A i \in 1 .. n : Step(push, i - 1) = Step(pop, u + (i - 1))
    <3> SUFFICES ASSUME NEW i \in 1 .. n PROVE Step(push, i - 1) = Step(pop, u + (i - 1))
      OBVIOUS
    <3> QED BY <1>1, <1>2, <1>8, <2>1, StepStep
  <2>3. s \in Slots
    BY <1>8, <2>1, StepIn
  <2>4. \A i \in 1 .. n : s = Step(push, i - 1) <=> i = j
    <3> SUFFICES ASSUME NEW i \in 1 .. n PROVE s = Step(push, i - 1) <=> i = j
      OBVIOUS
    <3>1. i # j => u + (i - 1) # u + (j - 1)
      BY <1>1, <1>2
    <3>2. i # j => Step(pop, u + (i - 1)) # Step(pop, u + (j - 1))
      BY <1>8, <2>1, <3>1, StepApart
    <3> QED BY <2>2, <3>2
  <2> HIDE DEF s
  <2>5. (CHOOSE i \in 1 .. n : s = Step(push, i - 1)) = j
    BY <2>4
  <2>6. ring'[s] = chunk[CHOOSE i \in 1 .. n : s = Step(push, i - 1)]
    BY <1>4, <1>7, <2>3, <2>4 DEF WriteBytes
  <2> QED BY <1>4, <2>5, <2>6 DEF s
<1>14. Stream' = Stream
  <2>1. Stream' = [k \in 0 .. Size - 1 |-> IF k < Used' THEN ring'[Step(pop, k)]
                                           ELSE new[k - Used' + 1]]
    BY <1>9, <1>11 DEF Stream, new
  <2> DEFINE F == [k \in 0 .. Size - 1 |-> IF k < u + n THEN ring'[Step(pop, k)]
                                           ELSE new[k - (u + n) + 1]]
  <2>2. Stream' = F
    BY <1>10, <2>1
  <2>3. ASSUME NEW k \in 0 .. Size - 1 PROVE F[k] = Stream[k]
    <3>1. F[k] = IF k < u + n THEN ring'[Step(pop, k)] ELSE new[k - (u + n) + 1]
      OBVIOUS
    <3>2. Stream[k] = IF k < u THEN ring[Step(pop, k)] ELSE old[k - u + 1]
      BY <1>1
    <3> HIDE DEF F, u
    <3>3. CASE k < u
      <4>1. k \in 0 .. u - 1 /\ k < u + n
        BY <1>1, <1>2, <3>3
      <4> QED BY <1>12, <3>1, <3>2, <3>3, <4>1
    <3>4. CASE ~(k < u) /\ k < u + n
      <4> DEFINE j == k - u + 1
      <4>1. j \in 1 .. n /\ u + (j - 1) = k
        BY <1>1, <1>2, <3>4
      <4>2. ring'[Step(pop, k)] = old[j]
        BY <1>13, <4>1
      <4> QED BY <3>1, <3>2, <3>4, <4>2
    <3>5. CASE ~(k < u) /\ ~(k < u + n)
      <4> DEFINE j == k - (u + n) + 1
      <4>1. j \in 1 .. Len(old) - n /\ j + n = k - u + 1
        BY <1>1, <1>2, <3>5
      <4>2. new[j] = old[k - u + 1]
        BY <1>5, <4>1
      <4> QED BY <3>1, <3>2, <3>5, <4>2
    <3> QED BY <3>3, <3>4, <3>5
  <2>4. F = [k \in 0 .. Size - 1 |-> F[k]] /\ Stream = [k \in 0 .. Size - 1 |-> Stream[k]]
    BY DEF Stream
  <2> HIDE DEF F
  <2> QED BY <2>2, <2>3, <2>4
<1>15. Framed(Stream', Size', pending')
  BY <1>3, <1>11, <1>14 DEF Orderly
<1> QED BY <1>3, <1>5, <1>8, <1>9, <1>15 DEF Orderly, new

\* A STOP is in the ring: the first packet there is the oldest text's, from the
\* front of the ring on, and dispatching it leaves the stream behind it.
LEMMA DispatchOrderly ==
  ASSUME Orderly, noise = 0, ~wrong, Dispatch
  PROVE  Orderly' /\ ~wrong'
<1> DEFINE h == Head(pending)
           l == Len(h)
           u == Used
           begin == Step(pop, First(OffsetsOf(START)))
           end == Step(pop, First(OffsetsOf(STOP)))
           text == TextFrom(begin, end)
<1>1. /\ u \in Nat /\ u < RingLen /\ Len(wire) \in Nat /\ Size = u + Len(wire)
      /\ \A k \in 0 .. Size - 1 :
           Stream[k] = IF k < u THEN ring[Step(pop, k)] ELSE wire[k - u + 1]
      /\ \A c : OffsetsOf(c) = {k \in 0 .. u - 1 : Stream[k] = c}
      /\ RingLen \in Nat /\ pop \in Slots /\ push = Step(pop, u)
  BY StreamIs, UsedIs, RingAssumption DEF RingAssumption, Orderly
<1>2. PICK e \in 0 .. u - 1 : Stream[e] = STOP
  BY <1>1 DEF Dispatch
<1>3. Size # 0
  BY <1>1, <1>2
<1>4. /\ pending # <<>> /\ h \in Texts /\ l \in Nat
      /\ l + 2 <= Size /\ l + 2 + MaxChunk <= RingLen
      /\ Stream[0] = START /\ Stream[l + 1] = STOP
      /\ \A j \in 1 .. l : Stream[j] = h[j]
      /\ \A j \in 0 .. l : Stream[j] # STOP
  BY <1>3, FrontIs
<1> HIDE DEF l, h
<1>5. l + 1 <= e /\ l + 2 <= u
  <2>1. e \notin 0 .. l
    BY <1>2, <1>4
  <2> HIDE DEF u
  <2> QED BY <1>1, <1>2, <1>4, <2>1
<1>6. First(OffsetsOf(STOP)) = l + 1
  <2> DEFINE Q == OffsetsOf(STOP)
  <2>1. Q = {k \in 0 .. u - 1 : Stream[k] = STOP}
    BY <1>1
  <2>2. l + 1 \in Q
    BY <1>1, <1>4, <1>5, <2>1
  <2>3. \A k \in Q : k \in Int /\ l + 1 <= k
    <3> SUFFICES ASSUME NEW k \in Q PROVE k \in Int /\ l + 1 <= k
      OBVIOUS
    <3>1. k \in 0 .. u - 1 /\ k \notin 0 .. l
      BY <1>4, <2>1
    <3> QED BY <1>1, <1>4, <3>1
  <2> HIDE DEF Q
  <2> QED BY <2>2, <2>3, <1>4 DEF First, Q
<1>7. First(OffsetsOf(START)) = 0
  <2> DEFINE Q == OffsetsOf(START)
  <2>1. Q = {k \in 0 .. u - 1 : Stream[k] = START}
    BY <1>1
  <2>2. 0 \in Q /\ \A k \in Q : k \in Int /\ 0 <= k
    BY <1>1, <1>4, <1>5, <2>1
  <2> HIDE DEF Q
  <2> QED BY <2>2 DEF First, Q
<1>8. begin = pop /\ end = Step(pop, l + 1)
  <2>1. Step(pop, 0) = pop
    BY <1>1, StepIs DEF Slots
  <2> QED BY <1>6, <1>7, <2>1
<1>9. (end - begin) % RingLen = l + 1 /\ l + 1 < RingLen
  <2> DEFINE x == l + 1
  <2>1. x \in Nat /\ x < RingLen /\ x \in 0 .. RingLen /\ begin = pop /\ end = Step(pop, x)
    BY <1>1, <1>4, <1>5, <1>8
  <2> HIDE DEF x, begin, end
  <2>2. Step(pop, x) = IF pop + x < RingLen THEN pop + x ELSE pop + x - RingLen
    BY <1>1, <2>1, StepIs
  <2>3. pop \in Int /\ RingLen \in Nat
    BY <1>1 DEF Slots
  <2>4. end - begin = x \/ end - begin = x - RingLen
    BY ONLY <2>1, <2>2, <2>3
  <2>5. x % RingLen = x /\ (x - RingLen) % RingLen = x
    BY ONLY <2>1, <2>3, Remainder
  <2>6. (end - begin) % RingLen = x
    BY ONLY <2>4, <2>5
  <2> QED BY <2>1, <2>6 DEF x
<1>10. text = <<START>> \o h
  <2> DEFINE a == <<START>>
             b == a \o h
  <2>1. h \in Seq(Bytes) /\ a \in Seq(Bytes) /\ Len(a) = 1 /\ a[1] = START
    BY <1>4, RingAssumption DEF RingAssumption, Bytes
  <2>2. Joined(a, h)
    BY <2>1, ConcatIs
  <2>3. text = [k \in 1 .. l + 1 |-> ring[Step(pop, k - 1)]]
    BY <1>8, <1>9 DEF TextFrom
  <2>4. ASSUME NEW k \in 1 .. l + 1 PROVE ring[Step(pop, k - 1)] = b[k]
    <3> DEFINE i == k - 1
    <3>1. i \in 0 .. Size - 1 /\ i < u /\ i \in 0 .. l
      BY <1>1, <1>4, <1>5
    <3>2. Stream[i] = ring[Step(pop, i)]
      BY <1>1, <3>1
    <3>3. CASE k = 1
      <4>1. b[1] = START
        BY <2>1, <2>2 DEF Joined
      <4> QED BY <1>4, <3>2, <3>3, <4>1
    <3>4. CASE k # 1
      <4>1. i \in 1 .. l /\ 1 + i = k
        BY <1>4, <3>4
      <4>2. b[1 + i] = h[i]
        BY <2>1, <2>2, <4>1 DEF Joined, l
      <4> QED BY <1>4, <3>2, <4>1, <4>2
    <3> QED BY <3>3, <3>4
  <2>5. b \in Seq(Bytes) /\ Len(b) = l + 1
    BY <1>4, <2>1, <2>2 DEF Joined, l
  <2> HIDE DEF b, text
  <2>6. b = [k \in 1 .. l + 1 |-> b[k]]
    BY <2>5
  <2> QED BY <2>3, <2>4, <2>6 DEF b
<1>11. /\ pop' = AfterStop(end) /\ pending' = Tail(pending) /\ ~wrong'
       /\ ring' = ring /\ push' = push /\ wire' = wire
  BY <1>4, <1>10 DEF Dispatch, h
<1> HIDE DEF begin, end, text
<1>12. pop' = Step(pop, l + 2) /\ pop' \in Slots
  <2>1. pop' = Step(Step(pop, l + 1), 1)
    BY <1>8, <1>11 DEF AfterStop
  <2>2. /\ l + 1 \in Nat /\ 1 \in Nat /\ l + 1 + 1 <= RingLen /\ l + 1 + 1 = l + 2
        /\ l + 2 < RingLen /\ l + 2 \in Nat
    BY <1>1, <1>4, <1>5
  <2>3. Step(Step(pop, l + 1), 1) = Step(pop, l + 1 + 1)
    BY ONLY <1>1, <2>2, StepStep
  <2>4. Step(pop, l + 2) \in Slots
    BY <1>1, <2>2, StepIn
  <2> QED BY ONLY <2>1, <2>2, <2>3, <2>4
<1>13. Used' = u - (l + 2)
  <2>1. Step(pop, l + 2) = IF pop + (l + 2) < RingLen THEN pop + (l + 2)
                           ELSE pop + (l + 2) - RingLen
    <3>1. l + 2 \in 0 .. RingLen
      BY <1>1, <1>4, <1>5
    <3> QED BY <1>1, <3>1, StepIs
  <2>2. Step(pop, u) = IF pop + u < RingLen THEN pop + u ELSE pop + u - RingLen
    <3>1. u \in 0 .. RingLen
      BY <1>1
    <3> QED BY <1>1, <3>1, StepIs
  <2>3. Used' = IF push >= pop' THEN push - pop' ELSE push - pop' + RingLen
    BY <1>11 DEF Used
  <2> HIDE DEF u
  <2> QED BY <1>1, <1>4, <1>5, <1>12, <2>1, <2>2, <2>3 DEF Slots
<1>14. Size' = Size - l - 2 /\ Size' \in Nat /\ Size \in Nat
  <2>1. Size' = Used' + Len(wire)
    BY <1>11 DEF Size
  <2> HIDE DEF u
  <2> QED BY <1>1, <1>4, <1>5, <1>13, <2>1
<1>15. \A k \in 0 .. Size - l - 3 : Stream'[k] = Stream[k + l + 2]
  <2> SUFFICES ASSUME NEW k \in 0 .. Size - l - 3 PROVE Stream'[k] = Stream[k + l + 2]
    OBVIOUS
  <2> HIDE DEF u
  <2> DEFINE j == k + l + 2
  <2>1. k \in 0 .. Size' - 1 /\ j \in 0 .. Size - 1 /\ k \in Nat
    BY ONLY <1>4, <1>14, k \in 0 .. Size - l - 3 DEF j
  <2>2. Stream'[k] = IF k < u - (l + 2) THEN ring[Step(pop', k)]
                     ELSE wire[k - (u - (l + 2)) + 1]
    BY <1>11, <1>13, <2>1 DEF Stream
  <2>3. Stream[j] = IF j < u THEN ring[Step(pop, j)] ELSE wire[j - u + 1]
    BY <1>1, <2>1
  <2>4. CASE k < u - (l + 2)
    <3>1. j < u /\ l + 2 \in Nat /\ (l + 2) + k <= RingLen /\ (l + 2) + k = j
      BY <1>1, <1>4, <2>1, <2>4
    <3>2. Step(Step(pop, l + 2), k) = Step(pop, (l + 2) + k)
      BY ONLY <1>1, <2>1, <3>1, StepStep
    <3> QED BY <1>12, <2>2, <2>3, <2>4, <3>1, <3>2
  <2>5. CASE ~(k < u - (l + 2))
    <3>1. ~(j < u) /\ k - (u - (l + 2)) + 1 = j - u + 1
      BY <1>1, <1>4, <2>1, <2>5
    <3> QED BY <2>2, <2>3, <2>5, <3>1
  <2> QED BY <2>4, <2>5
<1>16. Framed(Stream', Size', pending')
  <2> DEFINE S == Stream
             S1 == Stream'
  <2>1. Framed(S, Size, pending) /\ pending \in Seq(Texts)
    BY DEF Orderly
  <2>2. \A k \in 0 .. Size - Len(Head(pending)) - 3 : S1[k] = S[k + Len(Head(pending)) + 2]
    BY <1>15 DEF l, h
  <2> HIDE DEF S, S1
  <2>3. Framed(S1, Size - Len(Head(pending)) - 2, Tail(pending))
    BY <1>4, <1>14, <2>1, <2>2, FramedFirst
  <2> QED BY <1>11, <1>14, <2>3 DEF S1, l, h
<1>17. pending' \in Seq(Texts)
  BY <1>4, <1>11 DEF Orderly
<1> QED BY <1>11, <1>12, <1>16, <1>17 DEF Orderly

\* A STOP without a START in front of it is never what a well-behaved host's
\* reader finds.
LEMMA NoStrayStop == ASSUME Orderly PROVE ~StrayStop
<1> SUFFICES ASSUME StrayStop PROVE FALSE
  OBVIOUS
<1>1. /\ Used \in Nat /\ Size = Used + Len(wire) /\ Len(wire) \in Nat
      /\ \A c : OffsetsOf(c) = {k \in 0 .. Used - 1 : Stream[k] = c}
  BY StreamIs
<1>2. PICK e \in 0 .. Used - 1 : Stream[e] = STOP
  BY <1>1 DEF StrayStop
<1>3. Size # 0 /\ 0 \in 0 .. Used - 1
  BY <1>1, <1>2
<1>4. Stream[0] = START
  BY <1>3, FrontIs
<1> QED BY <1>1, <1>3, <1>4 DEF StrayStop

-----------------------------------------------------------------------------
(* The invariant.                                                          *)

\* With nothing outside the framing, the ring and the wire hold the packets of
\* the texts not yet dispatched, and a reader back at recv holds no STOP.
InOrder ==
  /\ noise \in Nat
  /\ noise = 0 => /\ Orderly /\ ~wrong /\ parsing \in BOOLEAN
                  /\ ~parsing => OffsetsOf(STOP) = {}

\* Nothing is on the way at the beginning.
LEMMA InitInOrder == RxInit => InOrder
<1> SUFFICES ASSUME RxInit PROVE InOrder
  OBVIOUS
<1>1. push = 0 /\ pop = 0 /\ wire = <<>> /\ pending = <<>> /\ noise = 0
  BY DEF RxInit
<1>2. ~wrong /\ parsing \in BOOLEAN
  BY Zenon DEF RxInit
<1>3. Used = 0 /\ Size = 0 /\ 0 \in Slots
  BY <1>1, RingAssumption DEF RingAssumption, Used, Size, Slots
<1>4. OffsetsOf(STOP) = {}
  BY <1>3 DEF OffsetsOf
<1>5. Framed(Stream, 0, <<>>)
  <2> DEFINE S == Stream
  <2> HIDE DEF S
  <2>1. Framed(S, 0, <<>>)
    BY FramedNone
  <2> QED BY <2>1 DEF S
<1>6. wire \in Seq(Bytes) /\ pending \in Seq(Texts)
  BY <1>1
<1>7. Orderly
  BY <1>1, <1>3, <1>5, <1>6 DEF Orderly
<1> QED BY <1>1, <1>2, <1>4, <1>7 DEF InOrder

\* A step of the specification that leaves noise at 0 found it there.
LEMMA NextInOrder == InOrder /\ [RxNext]_rxVars => InOrder'
<1> SUFFICES ASSUME InOrder, [RxNext]_rxVars PROVE InOrder'
  OBVIOUS
<1>1. noise \in Nat
  BY DEF InOrder
<1>2. ASSUME NEW t \in Texts, HostPacket(t) PROVE InOrder'
  <2>1. noise' = noise /\ parsing' = parsing /\ wrong' = wrong
    BY <1>2 DEF HostPacket
  <2>2. CASE noise = 0
    <3>1. Orderly' /\ OffsetsOf(STOP)' = OffsetsOf(STOP)
      BY <1>2, <2>2, HostPacketOrderly DEF InOrder
    <3>2. ~wrong' /\ parsing' \in BOOLEAN /\ (~parsing' => OffsetsOf(STOP) = {})
      BY Zenon, <2>1, <2>2 DEF InOrder
    <3> QED BY <1>1, <2>1, <3>1, <3>2 DEF InOrder
  <2>3. CASE noise # 0
    BY <1>1, <2>1, <2>3 DEF InOrder
  <2> QED BY <2>2, <2>3
<1>3. ASSUME NEW b \in Bytes, HostNoise(b) PROVE InOrder'
  <2>1. noise' = noise + 1
    BY <1>3 DEF HostNoise
  <2>2. noise' \in Nat /\ noise' # 0
    BY <1>1, <2>1
  <2> QED BY <2>2 DEF InOrder
<1>4. ASSUME NEW n \in 1 .. MaxChunk, Receive(n) PROVE InOrder'
  <2>1. noise' = noise /\ wrong' = wrong
    BY <1>4 DEF Receive
  <2>2. parsing' = TRUE /\ ~parsing
    BY <1>4, Zenon DEF Receive
  <2>3. CASE noise = 0
    <3>1. Orderly /\ OffsetsOf(STOP) = {} /\ ~wrong
      BY <2>2, <2>3 DEF InOrder
    <3>2. Orderly'
      BY <1>4, <3>1, ReceiveOrderly
    <3>3. ~wrong' /\ parsing' \in BOOLEAN /\ parsing'
      BY Zenon, <2>1, <2>2, <3>1
    <3> QED BY <1>1, <2>1, <3>2, <3>3 DEF InOrder
  <2>4. CASE noise # 0
    BY <1>1, <2>1, <2>4 DEF InOrder
  <2> QED BY <2>3, <2>4
<1>5. CASE NoPacket
  <2>1. /\ noise' = noise /\ wrong' = wrong /\ OffsetsOf(STOP) = {}
        /\ wire' = wire /\ pending' = pending /\ ring' = ring /\ push' = push /\ pop' = pop
    BY <1>5 DEF NoPacket, hostVars, ringVars
  <2>2. parsing' \in BOOLEAN
    BY <1>5, Zenon DEF NoPacket
  <2>3. Used' = Used
    BY <2>1 DEF Used
  <2>4. OffsetsOf(STOP)' = OffsetsOf(STOP)
    BY <2>1, <2>3 DEF OffsetsOf
  <2>5. Size' = Size
    BY <2>1, <2>3 DEF Size
  <2>6. Stream' = Stream
    BY <2>1, <2>3, <2>5 DEF Stream
  <2>7. Orderly' <=> Orderly
    BY <2>1, <2>5, <2>6 DEF Orderly
  <2>8. wrong' <=> wrong
    BY <2>1
  <2> QED BY <1>1, <2>1, <2>2, <2>4, <2>7, <2>8 DEF InOrder
<1>6. CASE StrayStop
  <2>1. noise' = noise
    BY <1>6 DEF StrayStop, hostVars
  <2>2. noise # 0
    BY <1>6, NoStrayStop DEF InOrder
  <2> QED BY <1>1, <2>1, <2>2 DEF InOrder
<1>7. CASE Dispatch
  <2>1. noise' = noise
    BY <1>7 DEF Dispatch
  <2>2. parsing' = parsing /\ parsing
    BY <1>7, Zenon DEF Dispatch
  <2>3. CASE noise = 0
    <3>1. Orderly' /\ ~wrong'
      BY <1>7, <2>3, DispatchOrderly DEF InOrder
    <3>2. parsing' /\ parsing' \in BOOLEAN
      BY Zenon, <2>2, <2>3 DEF InOrder
    <3> QED BY <1>1, <2>1, <3>1, <3>2 DEF InOrder
  <2>4. CASE noise # 0
    BY <1>1, <2>1, <2>4 DEF InOrder
  <2> QED BY <2>3, <2>4
<1>8. CASE UNCHANGED rxVars
  <2>1. /\ noise' = noise /\ wrong' = wrong /\ parsing' = parsing
        /\ wire' = wire /\ pending' = pending /\ ring' = ring /\ push' = push /\ pop' = pop
    BY <1>8 DEF rxVars, hostVars, ringVars
  <2>2. Used' = Used
    BY <2>1 DEF Used
  <2>3. OffsetsOf(STOP)' = OffsetsOf(STOP)
    BY <2>1, <2>2 DEF OffsetsOf
  <2>4. Size' = Size
    BY <2>1, <2>2 DEF Size
  <2>5. Stream' = Stream
    BY <2>1, <2>2, <2>4 DEF Stream
  <2>6. Orderly' <=> Orderly
    BY <2>1, <2>4, <2>5 DEF Orderly
  <2>7. /\ wrong' <=> wrong
        /\ parsing' <=> parsing
        /\ parsing' \in BOOLEAN <=> parsing \in BOOLEAN
    BY <2>1
  <2> QED BY <1>1, <2>1, <2>3, <2>6, <2>7 DEF InOrder
<1> QED BY <1>2, <1>3, <1>4, <1>5, <1>6, <1>7, <1>8 DEF RxNext, Parse

\* In every state the invariant holds, for every ring, chunk and set of texts.
THEOREM Ordered == RxSpec => []InOrder
BY InitInOrder, NextInOrder, PTL DEF RxSpec

\* push_rx_data never flushes the ring under a well-behaved host: whatever recv
\* returns next fits beside what the reader has not consumed.
THEOREM NeverFlushed ==
  RxSpec => [](noise = 0 /\ ~parsing => \A n \in 1 .. MaxChunk : n <= Len(wire) => Fits(n))
<1>1. InOrder => (noise = 0 /\ ~parsing => \A n \in 1 .. MaxChunk : n <= Len(wire) => Fits(n))
  BY RoomForAChunk DEF InOrder
<1> QED BY <1>1, Ordered, PTL

\* Whatever the chunks, and wherever the ring wraps, a well-behaved host's packets
\* are dispatched unaltered, once each and in order, and none is left in the ring
\* when the reader goes back to recv with nothing more sent.
THEOREM DispatchedOnce == RxSpec => []ExactlyOnce
<1>1. InOrder => ExactlyOnce
  <2> SUFFICES ASSUME InOrder, noise = 0, wire = <<>>, ~parsing
               PROVE  pending = <<>>
    BY Zenon DEF InOrder, ExactlyOnce
  <2>1. Orderly /\ OffsetsOf(STOP) = {}
    BY DEF InOrder
  <2>2. Used \in Nat /\ Size = Used /\ Size \in Nat
    BY <2>1, StreamIs
  <2>3. Size = 0
    <3> SUFFICES ASSUME Size # 0 PROVE FALSE
      OBVIOUS
    <3> DEFINE l == Len(Head(pending))
    <3>1. l \in Nat /\ l + 2 <= Size /\ Used <= l + 1
      BY <2>1, FrontIs, NoStopMeans
    <3> HIDE DEF l
    <3> QED BY <2>2, <3>1
  <2>4. Framed(Stream, 0, pending) /\ pending \in Seq(Texts)
    BY <2>1, <2>3 DEF Orderly
  <2> DEFINE S == Stream
  <2> HIDE DEF S
  <2>5. Framed(S, 0, pending)
    BY <2>4 DEF S
  <2> QED BY <2>4, <2>5, FramedEmpty
<1> QED BY <1>1, Ordered, PTL

-----------------------------------------------------------------------------
(* ClientSession: what the tasks' positions tell.                          *)

\* The server task is inside a handler or a close of httpdFd.
HandlerLabels == HttpdLabels \ PollLabels

\* client_sock is set exactly between accept and the final assignment.
SockPlace ==
  clientSock = NoFd <=> pc["net"] \in {"top", "accept", "dead"}

\* The socket being handled is an open HTTP socket; once closing has removed
\* it from the table it does not come back.
HandlerSocket ==
  /\ pc["httpd"] \in HandlerLabels => httpdFd \in Fds /\ fdUse[httpdFd] = "http"
  /\ pc["httpd"] \in {"closeLast", "closeFd"} => httpdFd \notin clients

\* Only the server task admits browsers, so its own evidence cannot go stale.
OwnReleaseSound == pc["httpd"] \in {"lastGone", "closeLast"} => clients = {}

\* As long as no release was stale, whoever is in use holds the session.
UserHolds ==
  ~staleRelease => /\ InUse("TCP") => activeKind = "TCP"
                   /\ InUse("WS") => activeKind = "WS"

SocketInv  == SocketsOpen /\ SockPlace /\ HandlerSocket
SessionInv == ClaimAccounted /\ OwnReleaseSound /\ UserHolds

USE DEF Transports, Pollers, PollLabels, RspLabels, HttpdLabels, NetLabels,
        At, Goto, PollGoto, sessionVars, netVars, webVars, rspVars

\* The size of the table C after an admission or a removal.
LEMMA TableSize ==
  ASSUME NEW C, C \subseteq Fds, Cardinality(C) <= MaxClients,
         NEW S, \/ S \subseteq C
                \/ Cardinality(C) < MaxClients /\ \E f : S = C \union {f}
  PROVE  Cardinality(S) <= MaxClients
<1>1. IsFiniteSet(C) /\ Cardinality(C) \in Nat
  BY FdsAssumption, FS_Subset, FS_CardinalityType
<1>2. CASE S \subseteq C
  <2>1. Cardinality(S) <= Cardinality(C) /\ Cardinality(S) \in Nat
    BY <1>1, <1>2, FS_Subset, FS_CardinalityType
  <2>2. QED BY <1>1, <2>1, MaxClientsAssumption
<1>3. CASE Cardinality(C) < MaxClients /\ \E f : S = C \union {f}
  <2>1. PICK f : S = C \union {f}
    BY <1>3
  <2>2. \/ Cardinality(S) = Cardinality(C)
        \/ Cardinality(S) = Cardinality(C) + 1
    BY <1>1, <2>1, FS_AddElement
  <2>3. QED BY <1>1, <1>3, <2>2, MaxClientsAssumption
<1>4. QED BY <1>2, <1>3

-----------------------------------------------------------------------------
\* Every step takes each task to one of its own statements.
LEMMA PcStep == PcOK /\ [Next]_vars => PcOK'
<1> SUFFICES ASSUME PcOK, [Next]_vars PROVE PcOK'
  OBVIOUS
<1> USE DEF PcOK
<1>1. CASE Net
  <2>1. CASE NetTop \/ NetClaim \/ NetConnect \/ NetDrain \/ NetRelease
    BY <2>1 DEF NetTop, NetClaim, NetConnect, NetDrain, NetRelease
  <2>2. CASE NetClose \/ NetClear \/ NetBail \/ NetRecv \/ NetDisconnect
    BY <2>2 DEF NetClose, NetClear, NetBail, NetRecv, NetDisconnect
  <2>3. CASE \E f \in Fds : NetAccept(f)
    BY <2>3 DEF NetAccept
  <2>4. QED BY <1>1, <2>1, <2>2, <2>3 DEF Net, NetOwn
<1>2. ASSUME NEW t \in Pollers, Poll(t) PROVE PcOK'
  BY <1>2 DEF Poll, PollRead, PollCheck, PollDropHolder
<1>3. CASE Rsp
  <2>1. CASE RspNothing \/ RspGetSock \/ RspSendChunk \/ RspLastDropped
    BY <2>1 DEF RspNothing, RspGetSock, RspSendChunk, RspLastDropped
  <2>2. CASE \E failed \in SUBSET clients : RspBroadcast(failed)
    BY <2>2 DEF RspBroadcast
  <2>3. QED BY <1>2, <1>3, <2>1, <2>2 DEF Rsp
<1>4. CASE Httpd
  <2>1. CASE \E f \in Fds : HttpdAccept(f) \/ WsFrame(f) \/ HttpdDrop(f)
    BY <2>1 DEF HttpdAccept, WsFrame, HttpdDrop
  <2>2. CASE AddClient \/ ResetParser \/ WsRecv \/ WsPush \/ WsParse
    BY <2>2 DEF AddClient, ResetParser, WsRecv, WsPush, WsParse
  <2>3. CASE WsGoodbye \/ WsLastGone \/ CloseFn \/ CloseLast \/ CloseFd
    BY <2>3 DEF WsGoodbye, WsLastGone, CloseFn, CloseLast, CloseFd, RemoveClient
  <2>4. QED BY <1>2, <1>4, <2>1, <2>2, <2>3 DEF Httpd, HttpdOwn, Poll
<1>5. CASE UNCHANGED vars
  BY <1>5 DEF vars
<1>6. QED BY <1>1, <1>3, <1>4, <1>5 DEF Next

\* Every step keeps the types.  That an admitted descriptor is one comes from
\* the position of the server task.
LEMMA DataStep == DataOK /\ HandlerSocket /\ [Next]_vars => DataOK'
<1> SUFFICES ASSUME DataOK, HandlerSocket, [Next]_vars PROVE DataOK'
  OBVIOUS
<1> USE DEF DataOK, Claim, Release
<1>1. CASE Net
  <2>1. CASE NetTop \/ NetClaim \/ NetConnect \/ NetDrain \/ NetRelease
    BY <2>1 DEF NetTop, NetClaim, NetConnect, NetDrain, NetRelease
  <2>2. CASE NetClose \/ NetClear \/ NetBail \/ NetRecv \/ NetDisconnect
    BY <2>2 DEF NetClose, NetClear, NetBail, NetRecv, NetDisconnect
  <2>3. CASE \E f \in Fds : NetAccept(f)
    BY <2>3 DEF NetAccept
  <2>4. QED BY <1>1, <2>1, <2>2, <2>3 DEF Net, NetOwn
<1>2. ASSUME NEW t \in Pollers, Poll(t) PROVE DataOK'
  BY <1>2 DEF Poll, PollRead, PollCheck, PollDropHolder
<1>3. CASE Rsp
  <2>1. CASE RspNothing \/ RspGetSock \/ RspSendChunk \/ RspLastDropped
    BY <2>1 DEF RspNothing, RspGetSock, RspSendChunk, RspLastDropped
  <2>2. CASE \E failed \in SUBSET clients : RspBroadcast(failed)
    BY <2>2 DEF RspBroadcast
  <2>3. QED BY <1>2, <1>3, <2>1, <2>2 DEF Rsp
<1>4. CASE Httpd
  <2>1. CASE \E f \in Fds : HttpdAccept(f) \/ WsFrame(f) \/ HttpdDrop(f)
    BY <2>1 DEF HttpdAccept, WsFrame, HttpdDrop
  <2>2. CASE AddClient
    BY <2>2 DEF AddClient, HandlerSocket, HandlerLabels
  <2>3. CASE ResetParser \/ WsRecv \/ WsPush \/ WsParse
    BY <2>3 DEF ResetParser, WsRecv, WsPush, WsParse
  <2>4. CASE WsGoodbye \/ WsLastGone \/ CloseFn \/ CloseLast \/ CloseFd
    BY <2>4 DEF WsGoodbye, WsLastGone, CloseFn, CloseLast, CloseFd, RemoveClient
  <2>5. QED BY <1>2, <1>4, <2>1, <2>2, <2>3, <2>4 DEF Httpd, HttpdOwn, Poll
<1>5. CASE UNCHANGED vars
  BY <1>5 DEF vars
<1>6. QED BY <1>1, <1>3, <1>4, <1>5 DEF Next

\* A step removes browsers from the table, or adds one if there is room.
LEMMA TableStep ==
  [Next]_vars => \/ clients' \subseteq clients
                 \/ Cardinality(clients) < MaxClients /\ \E f : clients' = clients \union {f}
<1> SUFFICES ASSUME [Next]_vars, ~(clients' \subseteq clients)
             PROVE  Cardinality(clients) < MaxClients /\ \E f : clients' = clients \union {f}
  OBVIOUS
<1>1. CASE AddClient
  BY <1>1 DEF AddClient
<1>2. CASE ~AddClient
  <2>1. CASE Net
    BY <2>1 DEF Net, NetOwn, NetTop, NetClaim, NetConnect, NetDrain, NetRelease,
       NetClose, NetClear, NetBail, NetRecv, NetDisconnect, NetAccept
  <2>2. CASE Rsp
    BY <2>2 DEF Rsp, Poll, PollRead, PollCheck, PollDropHolder, RspNothing,
       RspGetSock, RspSendChunk, RspBroadcast, RspLastDropped
  <2>3. CASE Httpd
    BY <1>2, <2>3 DEF Httpd, HttpdOwn, HttpdAccept, WsFrame, HttpdDrop,
       ResetParser, WsRecv, WsPush, WsParse, WsGoodbye, WsLastGone, CloseFn,
       CloseLast, CloseFd, RemoveClient, PollRead, PollCheck, PollDropHolder
  <2>4. CASE UNCHANGED vars
    BY <2>4 DEF vars
  <2>5. QED BY <2>1, <2>2, <2>3, <2>4 DEF Next
<1>3. QED BY <1>1, <1>2

LEMMA TypeStep == TypeOK /\ HandlerSocket /\ [Next]_vars => TypeOK'
<1> SUFFICES ASSUME TypeOK, HandlerSocket, [Next]_vars PROVE TypeOK'
  OBVIOUS
<1>1. PcOK' /\ DataOK'
  BY PcStep, DataStep DEF TypeOK
<1>2. Cardinality(clients') <= MaxClients
  BY TableStep, TableSize DEF TypeOK, DataOK
<1>3. QED BY <1>1, <1>2 DEF TypeOK

-----------------------------------------------------------------------------
\* Every step keeps what the tasks know of the sockets.
LEMMA SocketStep == TypeOK /\ SocketInv /\ [Next]_vars => SocketInv'
<1> SUFFICES ASSUME TypeOK, SocketInv, [Next]_vars PROVE SocketInv'
  OBVIOUS
<1> USE FdsAssumption
    DEF TypeOK, PcOK, DataOK, SocketInv, SocketsOpen, SockPlace, HandlerSocket, HandlerLabels
<1>1. CASE Net
  <2>1. ASSUME NEW f \in Fds, NetAccept(f) PROVE SocketInv'
    BY <2>1 DEF NetAccept
  <2>2. CASE NetBail \/ NetRecv \/ NetDisconnect
    BY <2>2 DEF NetBail, NetRecv, NetDisconnect
  <2>3. CASE NetTop \/ NetConnect \/ NetDrain \/ NetClear
    BY <2>3 DEF NetTop, NetConnect, NetDrain, NetClear
  <2>4. CASE NetClose
    BY <2>4 DEF NetClose
  <2>5. CASE NetClaim \/ NetRelease
    BY <2>5 DEF NetClaim, NetRelease
  <2>6. QED BY <1>1, <2>1, <2>2, <2>3, <2>4, <2>5 DEF Net, NetOwn
<1>2. ASSUME NEW t \in Pollers, Poll(t) PROVE SocketInv'
  BY <1>2 DEF Poll, PollRead, PollCheck, PollDropHolder
<1>3. CASE Rsp
  <2>1. ASSUME NEW failed \in SUBSET clients, RspBroadcast(failed) PROVE SocketInv'
    BY <2>1 DEF RspBroadcast
  <2>2. CASE RspNothing \/ RspGetSock \/ RspSendChunk \/ RspLastDropped
    BY <2>2 DEF RspNothing, RspGetSock, RspSendChunk, RspLastDropped
  <2>3. QED BY <1>2, <1>3, <2>1, <2>2 DEF Rsp
<1>4. CASE Httpd
  <2>1. ASSUME NEW f \in Fds, HttpdAccept(f) \/ WsFrame(f) \/ HttpdDrop(f)
        PROVE  SocketInv'
    BY <2>1 DEF HttpdAccept, WsFrame, HttpdDrop
  <2>2. CASE AddClient
    BY <2>2 DEF AddClient
  <2>3. CASE WsGoodbye \/ CloseFn
    BY <2>3 DEF WsGoodbye, CloseFn, RemoveClient
  <2>4. CASE ResetParser \/ WsRecv \/ WsPush \/ WsParse
    BY <2>4 DEF ResetParser, WsRecv, WsPush, WsParse
  <2>5. CASE CloseFd
    BY <2>5 DEF CloseFd
  <2>6. CASE WsLastGone \/ CloseLast
    BY <2>6 DEF WsLastGone, CloseLast
  <2>7. QED
    BY <1>2, <1>4, <2>1, <2>2, <2>3, <2>4, <2>5, <2>6 DEF Httpd, HttpdOwn, Poll
<1>5. CASE UNCHANGED vars
  BY <1>5 DEF vars
<1>6. QED BY <1>1, <1>3, <1>4, <1>5 DEF Next

-----------------------------------------------------------------------------
\* Every step keeps what the tasks know of the session.
LEMMA SessionStep == TypeOK /\ SessionInv /\ [Next]_vars => SessionInv'
<1> SUFFICES ASSUME TypeOK, SessionInv, [Next]_vars PROVE SessionInv'
  OBVIOUS
<1> USE DEF TypeOK, PcOK, DataOK, SessionInv, ClaimAccounted, OwnReleaseSound,
   UserHolds, InUse
<1>1. CASE Net
  <2>1. ASSUME NEW f \in Fds, NetAccept(f) PROVE SessionInv'
    BY <2>1 DEF NetAccept
  <2>2. CASE NetBail \/ NetRecv \/ NetDisconnect
    BY <2>2 DEF NetBail, NetRecv, NetDisconnect
  <2>3. CASE NetTop \/ NetConnect \/ NetDrain \/ NetClose \/ NetClear
    BY <2>3 DEF NetTop, NetConnect, NetDrain, NetClose, NetClear
  <2>4. CASE NetClaim
    BY <2>4 DEF NetClaim, Claim, Claimable
  <2>5. CASE NetRelease
    BY <2>5 DEF NetRelease, Release
  <2>6. QED BY <1>1, <2>1, <2>2, <2>3, <2>4, <2>5 DEF Net, NetOwn
<1>2. ASSUME NEW t \in Pollers, Poll(t) PROVE SessionInv'
  <2>1. CASE PollRead(t) \/ PollCheck(t)
    BY <2>1 DEF PollRead, PollCheck
  <2>2. CASE PollDropHolder(t)
    BY <2>2 DEF PollDropHolder, Release
  <2>3. QED BY <1>2, <2>1, <2>2 DEF Poll
<1>3. CASE Rsp
  <2>1. ASSUME NEW failed \in SUBSET clients, RspBroadcast(failed) PROVE SessionInv'
    BY <2>1 DEF RspBroadcast
  <2>2. CASE RspNothing \/ RspGetSock \/ RspSendChunk
    BY <2>2 DEF RspNothing, RspGetSock, RspSendChunk
  <2>3. CASE RspLastDropped
    BY <2>3 DEF RspLastDropped, Release
  <2>4. QED BY <1>2, <1>3, <2>1, <2>2, <2>3 DEF Rsp
<1>4. CASE Httpd
  <2>1. ASSUME NEW f \in Fds, HttpdAccept(f) \/ WsFrame(f) \/ HttpdDrop(f)
        PROVE  SessionInv'
    BY <2>1 DEF HttpdAccept, WsFrame, HttpdDrop
  <2>2. CASE AddClient
    <3>1. clients = {} => Cardinality(clients) < MaxClients
      BY FS_EmptySet, MaxClientsAssumption
    <3>2. QED BY <2>2, <3>1 DEF AddClient, Claim, Claimable
  <2>3. CASE WsGoodbye \/ CloseFn
    BY <2>3 DEF WsGoodbye, CloseFn, RemoveClient
  <2>4. CASE ResetParser \/ WsRecv \/ WsPush \/ WsParse \/ CloseFd
    BY <2>4 DEF ResetParser, WsRecv, WsPush, WsParse, CloseFd
  <2>5. CASE WsLastGone \/ CloseLast
    BY <2>5 DEF WsLastGone, CloseLast, Release
  <2>6. QED
    BY <1>2, <1>4, <2>1, <2>2, <2>3, <2>4, <2>5 DEF Httpd, HttpdOwn, Poll
<1>5. CASE UNCHANGED vars
  BY <1>5 DEF vars
<1>6. QED BY <1>1, <1>3, <1>4, <1>5 DEF Next

-----------------------------------------------------------------------------
\* What holds of every reachable state.
IInv == TypeOK /\ SocketInv /\ SessionInv /\ NoInheritedBytes

LEMMA Initial == Init => IInv
<1> SUFFICES ASSUME Init PROVE IInv
  OBVIOUS
<1>1. TypeOK
  <2>1. PcOK
    BY DEF Init, PcOK
  <2>2. DataOK
    BY DEF Init, DataOK
  <2>3. Cardinality(clients) <= MaxClients
    BY FS_EmptySet, MaxClientsAssumption DEF Init
  <2>4. QED BY <2>1, <2>2, <2>3 DEF TypeOK
<1>2. SocketInv
  BY DEF Init, SocketInv, SocketsOpen, SockPlace, HandlerSocket, HandlerLabels
<1>3. SessionInv
  BY DEF Init, SessionInv, ClaimAccounted, OwnReleaseSound, UserHolds, InUse
<1>4. QED BY <1>1, <1>2, <1>3 DEF Init, IInv, NoInheritedBytes

\* The bytes of a TCP client are gone before the next one is accepted.
LEMMA RingStep == TypeOK /\ NoInheritedBytes /\ [Next]_vars => NoInheritedBytes'
<1> SUFFICES ASSUME TypeOK, NoInheritedBytes, [Next]_vars PROVE NoInheritedBytes'
  OBVIOUS
<1> USE DEF TypeOK, PcOK, DataOK, NoInheritedBytes
<1>1. CASE Net
  <2>1. ASSUME NEW f \in Fds, NetAccept(f) PROVE NoInheritedBytes'
    BY <2>1 DEF NetAccept
  <2>2. CASE NetTop \/ NetBail \/ NetClaim \/ NetConnect \/ NetDisconnect
    BY <2>2 DEF NetTop, NetBail, NetClaim, NetConnect, NetDisconnect
  <2>3. CASE NetRecv \/ NetDrain \/ NetRelease \/ NetClose \/ NetClear
    BY <2>3 DEF NetRecv, NetDrain, NetRelease, NetClose, NetClear
  <2>4. QED BY <1>1, <2>1, <2>2, <2>3 DEF Net, NetOwn
<1>2. CASE Rsp
  BY <1>2 DEF Rsp, Poll, PollRead, PollCheck, PollDropHolder, RspNothing,
              RspGetSock, RspSendChunk, RspBroadcast, RspLastDropped
<1>3. CASE Httpd
  <2>1. ASSUME NEW f \in Fds, HttpdAccept(f) \/ WsFrame(f) \/ HttpdDrop(f)
        PROVE  NoInheritedBytes'
    BY <2>1 DEF HttpdAccept, WsFrame, HttpdDrop
  <2>2. CASE AddClient \/ ResetParser \/ WsRecv \/ WsPush \/ WsParse
    BY <2>2 DEF AddClient, ResetParser, WsRecv, WsPush, WsParse
  <2>3. CASE WsGoodbye \/ WsLastGone \/ CloseFn \/ CloseLast \/ CloseFd
    BY <2>3 DEF WsGoodbye, WsLastGone, CloseFn, CloseLast, CloseFd, RemoveClient
  <2>4. CASE PollRead("httpd") \/ PollCheck("httpd") \/ PollDropHolder("httpd")
    BY <2>4 DEF PollRead, PollCheck, PollDropHolder
  <2>5. QED BY <1>3, <2>1, <2>2, <2>3, <2>4 DEF Httpd, HttpdOwn
<1>4. CASE UNCHANGED vars
  BY <1>4 DEF vars
<1>5. QED BY <1>1, <1>2, <1>3, <1>4 DEF Next

\* The inductive invariant holds of every behaviour.
THEOREM Invariance == Spec => []IInv
<1>1. IInv /\ [Next]_vars => IInv'
  BY TypeStep, SocketStep, SessionStep, RingStep DEF IInv, SocketInv
<1>2. QED BY Initial, <1>1, PTL DEF Spec

\* Types and the size of the browser table (web_cmd.c's clients[]).
THEOREM TypeCorrect == Spec => []TypeOK
BY Invariance, PTL DEF IInv

\* client_if.h's "one active client at a time", as far as the code gives it:
\* TCP and browsers exclude each other until a release has been stale.
THEOREM Exclusion == Spec => []ExclusiveUnlessStale
<1>1. IInv => ExclusiveUnlessStale
  BY DEF IInv, SessionInv, UserHolds, ExclusiveUnlessStale, OneClient
<1>2. QED BY Invariance, <1>1, PTL

\* No transport keeps a claim it has no client for.
THEOREM Accounting == Spec => []ClaimAccounted
BY Invariance, PTL DEF IInv, SessionInv

\* A TCP client never inherits its predecessor's bytes in the receive ring.
THEOREM FreshRing == Spec => []NoInheritedBytes
BY Invariance, PTL DEF IInv

\* client_sock and the browser table name open sockets.
THEOREM OpenSockets == Spec => []SocketsOpen
BY Invariance, PTL DEF IInv, SocketInv

\* Only the releases of client_if_active and of broadcast can be stale.
THEOREM StaleSource == Spec => StaleOnlyByDeferredRelease
<1>1. IInv /\ [Next]_vars =>
        (staleRelease' # staleRelease =>
           RspLastDropped \/ \E t \in Pollers : PollDropHolder(t))
  <2> SUFFICES ASSUME IInv, [Next]_vars, staleRelease' # staleRelease
               PROVE  RspLastDropped \/ \E t \in Pollers : PollDropHolder(t)
    OBVIOUS
  <2> USE DEF IInv, TypeOK, DataOK, SessionInv, OwnReleaseSound, InUse
  <2>1. CASE Net
    <3>1. CASE NetRelease
      BY <2>1, <3>1 DEF NetRelease, Release
    <3>2. CASE ~NetRelease
      BY <2>1, <3>2 DEF Net, NetOwn, NetTop, NetClaim, NetConnect, NetDrain,
         NetClose, NetClear, NetBail, NetRecv, NetDisconnect, NetAccept, Claim
    <3>3. QED BY <3>1, <3>2
  <2>2. CASE Rsp
    BY <2>2 DEF Rsp, Poll, PollRead, PollCheck, RspNothing, RspGetSock,
       RspSendChunk, RspBroadcast
  <2>3. CASE Httpd
    <3>1. CASE WsLastGone \/ CloseLast
      BY <3>1 DEF WsLastGone, CloseLast, Release
    <3>2. CASE AddClient
      BY <3>2 DEF AddClient, Claim
    <3>3. CASE ~(WsLastGone \/ CloseLast \/ AddClient)
      BY <2>3, <3>3 DEF Httpd, HttpdOwn, HttpdAccept, WsFrame, HttpdDrop,
         ResetParser, WsRecv, WsPush, WsParse, WsGoodbye, CloseFn, CloseFd,
         RemoveClient, PollRead, PollCheck
    <3>4. QED BY <3>1, <3>2, <3>3
  <2>4. CASE UNCHANGED vars
    BY <2>4 DEF vars
  <2>5. QED BY <2>1, <2>2, <2>3, <2>4 DEF Next
<1>2. QED BY Invariance, <1>1, PTL DEF Spec, StaleOnlyByDeferredRelease
=============================================================================
