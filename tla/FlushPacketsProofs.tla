------------------------ MODULE FlushPacketsProofs ------------------------
(***************************************************************************)
(* The packets of FlushStreams.  First what the operators of UDPSend       *)
(* compute, for batches of any length: sums, the grouping into messages    *)
(* and the cutting into datagrams are recursive functions, about which a   *)
(* set of indices that holds 0 and each successor is shown to hold every   *)
(* index.  Then the invariants of send_buffer and of the datagrams, for    *)
(* any packet sizes, batch size and socket buffer.                         *)
(***************************************************************************)
EXTENDS FlushStreams, WellFoundedInduction, TLAPS

\* Every nonempty set of naturals has a least element.
LEMMA LeastElement ==
  ASSUME NEW S \in SUBSET Nat, S # {}
  PROVE  \E m \in S : \A k \in S : m <= k
<1> DEFINE R == OpToRel(<, Nat)
<1>1. IsWellFoundedOn(R, Nat)
  BY NatLessThanWellFounded, Zenon
<1>2. PICK m \in S : \A k \in S : ~ (<<k, m>> \in R)
  BY <1>1, WFMin, Zenon
<1>3. \A k \in S : ~ (k < m)
  BY <1>2, Zenon DEF OpToRel
<1>4. QED
  BY <1>3

\* Induction up to n, for a set of indices in place of a predicate.
LEMMA UpTo ==
  ASSUME NEW n \in Nat, NEW D, 0 \in D, \A i \in 1..n : i - 1 \in D => i \in D
  PROVE  \A i \in 0..n : i \in D
<1> DEFINE Bad == {i \in 0..n : i \notin D}
<1>1. SUFFICES ASSUME Bad # {} PROVE FALSE
  OBVIOUS
<1>2. PICK m \in Bad : \A k \in Bad : m <= k
  <2>1. Bad \in SUBSET Nat
    OBVIOUS
  <2> HIDE DEF Bad
  <2>2. QED
    BY <1>1, <2>1, LeastElement
<1>3. m - 1 \in D
  BY <1>2
<1>4. QED
  BY <1>3

\* The function g on 0..n starts with v0 and goes on by the given steps.
Solves(g, n, V, v0, step) ==
  /\ g \in [0..n -> V] /\ g[0] = v0
  /\ \A i \in 1..n : g[i] = step[i][g[i - 1]]

\* A recursion over 0..n whose step stays in a set of values has a solution.
LEMMA Iterates ==
  ASSUME NEW n \in Nat, NEW V, NEW v0 \in V, NEW step \in [1..n -> [V -> V]]
  PROVE  \E g : Solves(g, n, V, v0, step)
<1> DEFINE Sol(g, m) == Solves(g, m, V, v0, step)
           D == {m \in 0..n : \E g : Sol(g, m)}
<1>1. 0 \in D
  <2>1. Sol([i \in 0..0 |-> v0], 0)
    BY DEF Solves
  <2> HIDE DEF Sol
  <2>2. QED
    BY <2>1
<1>2. ASSUME NEW m \in 1..n, m - 1 \in D PROVE m \in D
  <2>1. PICK g : Sol(g, m - 1)
    BY <1>2
  <2> DEFINE h == [i \in 0..m |-> IF i = m THEN step[m][g[m - 1]] ELSE g[i]]
  <2>2. h \in [0..m -> V]
    BY <2>1 DEF Solves
  <2>3. h[0] = v0
    BY <2>1 DEF Solves
  <2>4. ASSUME NEW i \in 1..m PROVE h[i] = step[i][h[i - 1]]
    <3>1. CASE i # m
      BY <2>1 DEF Solves
    <3>2. QED
      BY <3>1
  <2>5. Sol(h, m)
    BY <2>2, <2>3, <2>4, Zenon DEF Solves
  <2> HIDE DEF Sol
  <2>6. QED
    BY <2>5
<1>3. n \in D
  <2> HIDE DEF D
  <2>1. \A m \in 1..n : m - 1 \in D => m \in D
    BY <1>2
  <2>2. \A m \in 0..n : m \in D
    BY <1>1, <2>1, UpTo, Zenon
  <2>3. QED
    BY <2>2
<1>4. QED
  BY <1>3

\* A sequence over a set is one over any larger set, and its elements are in
\* the set.
LEMMA SeqOver ==
  ASSUME NEW S, NEW R, S \subseteq R, NEW s \in Seq(S)
  PROVE  s \in Seq(R) /\ Len(s) \in Nat /\ \A i \in 1..Len(s) : s[i] \in R
OBVIOUS

\* The empty sequence is one over any set.
LEMMA EmptyOver ==
  ASSUME NEW S
  PROVE  <<>> \in Seq(S)
OBVIOUS

\* The elements of a concatenation.
LEMMA Concatenated ==
  ASSUME NEW S, NEW s \in Seq(S), NEW t \in Seq(S)
  PROVE  /\ s \o t \in Seq(S) /\ Len(s \o t) = Len(s) + Len(t)
         /\ \A i \in 1..(Len(s) + Len(t)) :
              (s \o t)[i] = IF i <= Len(s) THEN s[i] ELSE t[i - Len(s)]
OBVIOUS
-----------------------------------------------------------------------------
\* The partial sums add one size after the other.
LEMMA SumSteps ==
  ASSUME NEW s \in Seq(Nat)
  PROVE  /\ SumTo(s)[0] = 0
         /\ \A i \in 1..Len(s) : SumTo(s)[i] = SumTo(s)[i - 1] + s[i]
         /\ \A i \in 0..Len(s) : SumTo(s)[i] \in Nat
<1> DEFINE n == Len(s)
           Next_(g) == [i \in 0..n |-> IF i = 0 THEN 0 ELSE g[i - 1] + s[i]]
           S == SumTo(s)
<1>1. n \in Nat /\ \A i \in 1..n : s[i] \in Nat
  OBVIOUS
<1>2. \E g : g = Next_(g)
  <2> DEFINE step == [i \in 1..n |-> [v \in Nat |-> v + s[i]]]
  <2>1. step \in [1..n -> [Nat -> Nat]]
    OBVIOUS
  <2>2. PICK g : Solves(g, n, Nat, 0, step)
    <3> HIDE DEF step, n
    <3>1. 0 \in Nat
      OBVIOUS
    <3>2. QED
      BY <1>1, <2>1, <3>1, Iterates, Zenon
  <2>3. ASSUME NEW i \in 1..n PROVE g[i] = g[i - 1] + s[i]
    <3>1. i \in 1..n /\ i - 1 \in 0..n
      OBVIOUS
    <3>2. g[i - 1] \in Nat
      BY <2>2, <3>1, Zenon DEF Solves
    <3>3. QED
      BY <2>2, <3>2, Zenon DEF Solves
  <2>4. g = Next_(g)
    <3> HIDE DEF step
    <3>1. QED
      BY <2>2, <2>3 DEF Solves
  <2>5. QED
    BY <2>4
<1>3. S = Next_(S)
  <2>1. S = CHOOSE g : g = Next_(g)
    BY DEF SumTo
  <2>2. QED
    BY <1>2, <2>1, Zenon
<1> HIDE DEF S
<1>4. S[0] = 0 /\ \A i \in 1..n : S[i] = S[i - 1] + s[i]
  BY <1>1, <1>3
<1>5. \A i \in 0..n : S[i] \in Nat
  <2> DEFINE D == {i \in 0..n : S[i] \in Nat}
  <2>1. 0 \in D
    BY <1>4
  <2>2. ASSUME NEW i \in 1..n, i - 1 \in D PROVE i \in D
    <3>1. i \in 0..n /\ s[i] \in Nat /\ S[i - 1] \in Nat /\ S[i] = S[i - 1] + s[i]
      BY <1>1, <1>4, <2>2
    <3> HIDE DEF n
    <3>2. QED
      BY <3>1
  <2> HIDE DEF D
  <2>3. \A i \in 0..n : i \in D
    BY <1>1, <2>1, <2>2, UpTo, Zenon
  <2>4. QED
    BY <2>3 DEF D
<1>6. QED
  BY <1>4, <1>5 DEF S

\* A partial sum depends on the summands it adds only.
LEMMA SumPrefix ==
  ASSUME NEW s \in Seq(Nat), NEW t \in Seq(Nat), NEW n \in Nat,
         n <= Len(s), n <= Len(t), \A i \in 1..n : s[i] = t[i]
  PROVE  \A i \in 0..n : SumTo(s)[i] = SumTo(t)[i]
<1> DEFINE D == {i \in 0..n : SumTo(s)[i] = SumTo(t)[i]}
<1>1. 0 \in D
  BY SumSteps
<1>2. ASSUME NEW i \in 1..n, i - 1 \in D PROVE i \in D
  <2>1. SumTo(s)[i] = SumTo(s)[i - 1] + s[i] /\ SumTo(t)[i] = SumTo(t)[i - 1] + t[i]
    BY SumSteps
  <2>2. QED
    BY <1>2, <2>1
<1> HIDE DEF D
<1>3. \A i \in 0..n : i \in D
  BY <1>1, <1>2, UpTo, Zenon
<1>4. QED
  BY <1>3 DEF D

\* Partial sums do not decrease.
LEMMA SumMonotonic ==
  ASSUME NEW s \in Seq(Nat), NEW i \in 0..Len(s), NEW j \in i..Len(s)
  PROVE  SumTo(s)[i] <= SumTo(s)[j]
<1> DEFINE n == Len(s)
           D == {k \in 0..n : i <= k => SumTo(s)[i] <= SumTo(s)[k]}
<1>1. n \in Nat /\ \A k \in 1..n : s[k] \in Nat
  OBVIOUS
<1>2. 0 \in D
  BY <1>1, SumSteps
<1>3. ASSUME NEW k \in 1..n, k - 1 \in D PROVE k \in D
  <2>1. SumTo(s)[k] = SumTo(s)[k - 1] + s[k]
    BY SumSteps
  <2>2. s[k] \in Nat /\ SumTo(s)[k - 1] \in Nat /\ SumTo(s)[i] \in Nat /\ SumTo(s)[k] \in Nat
    BY <1>1, SumSteps
  <2>3. CASE i = k
    BY <2>2, <2>3
  <2>4. CASE i <= k - 1
    BY <1>3, <2>1, <2>2, <2>4
  <2>5. QED
    BY <2>3, <2>4
<1> HIDE DEF D
<1>4. \A k \in 0..n : k \in D
  BY <1>1, <1>2, <1>3, UpTo, Zenon
<1>5. j \in D
  BY <1>4
<1>6. QED
  BY <1>5 DEF D

\* The sums over what follows the first k sizes.
LEMMA SumShift ==
  ASSUME NEW s \in Seq(Nat), NEW k \in 0..Len(s), NEW t \in Seq(Nat), NEW n \in Nat,
         Len(s) = k + n, Len(t) = n, \A i \in 1..n : t[i] = s[k + i]
  PROVE  \A i \in 0..n : SumTo(s)[k] + SumTo(t)[i] = SumTo(s)[k + i]
<1> DEFINE D == {i \in 0..n : SumTo(s)[k] + SumTo(t)[i] = SumTo(s)[k + i]}
<1>1. Len(s) \in Nat /\ k \in Nat /\ \A i \in 1..Len(s) : s[i] \in Nat
  OBVIOUS
<1>2. SumTo(s)[k] \in Nat /\ SumTo(t)[0] = 0
  BY SumSteps, Zenon
<1>3. 0 \in D
  BY <1>2
<1>4. ASSUME NEW i \in 1..n, i - 1 \in D PROVE i \in D
  <2>1. k + i \in 1..Len(s) /\ (k + i) - 1 = k + (i - 1) /\ i - 1 \in 0..n
    OBVIOUS
  <2>2. SumTo(s)[k + i] = SumTo(s)[k + (i - 1)] + s[k + i]
    BY <2>1, SumSteps, Zenon
  <2>3. SumTo(t)[i] = SumTo(t)[i - 1] + s[k + i]
    BY SumSteps, Zenon
  <2>4. SumTo(t)[i - 1] \in Nat /\ s[k + i] \in Nat
    BY <1>1, <2>1, SumSteps
  <2>5. SumTo(s)[k] + SumTo(t)[i - 1] = SumTo(s)[k + (i - 1)]
    BY <1>4
  <2>6. SumTo(s)[k] + SumTo(t)[i] = SumTo(s)[k + i]
    <3> DEFINE x == SumTo(s)[k]
               y == SumTo(t)[i - 1]
               z == s[k + i]
               w == SumTo(s)[k + (i - 1)]
    <3>1. x \in Nat /\ y \in Nat /\ z \in Nat /\ x + y = w
      BY <1>2, <2>4, <2>5
    <3>2. SumTo(s)[k + i] = w + z /\ SumTo(t)[i] = y + z
      BY <2>2, <2>3
    <3>3. x + (y + z) = w + z
      <4> HIDE DEF x, y, z, w
      <4>1. QED
        BY <3>1
    <3>4. QED
      BY <3>2, <3>3
  <2>7. QED
    BY <2>6
<1>5. \A i \in 0..n : i \in D
  <2> HIDE DEF D
  <2>1. QED
    BY <1>3, <1>4, UpTo, Zenon
<1>6. QED
  BY <1>5

\* The sums over a run of equal sizes.
LEMMA SumRun ==
  ASSUME NEW s \in Seq(Nat), NEW a \in Nat, NEW c \in Nat, a + c <= Len(s),
         NEW v \in Nat, \A p \in (a + 1)..(a + c) : s[p] = v
  PROVE  \A j \in 0..c : SumTo(s)[a + j] = SumTo(s)[a] + j * v
<1> DEFINE D == {j \in 0..c : SumTo(s)[a + j] = SumTo(s)[a] + j * v}
<1>1. SumTo(s)[a] \in Nat
  BY SumSteps
<1>2. 0 \in D
  <2>1. a + 0 = a /\ 0 * v = 0 /\ SumTo(s)[a] + 0 = SumTo(s)[a]
    BY <1>1
  <2>2. QED
    BY <2>1
<1>3. ASSUME NEW j \in 1..c, j - 1 \in D PROVE j \in D
  <2>1. a + j \in 1..Len(s) /\ a + j \in (a + 1)..(a + c) /\ (a + j) - 1 = a + (j - 1)
    OBVIOUS
  <2>2. SumTo(s)[a + j] = SumTo(s)[a + (j - 1)] + v
    BY <2>1, SumSteps
  <2>3. SumTo(s)[a + (j - 1)] = SumTo(s)[a] + (j - 1) * v
    BY <1>3
  <2>4. QED
    BY <1>1, <2>2, <2>3
<1>4. \A j \in 0..c : j \in D
  <2> HIDE DEF D
  <2>1. QED
    BY <1>2, <1>3, UpTo, Zenon
<1>5. QED
  BY <1>4

\* Sizes between low and high bound the sums.
LEMMA SumBounds ==
  ASSUME NEW s \in Seq(Nat), NEW high \in Nat, \A i \in 1..Len(s) : s[i] <= high
  PROVE  \A i \in 0..Len(s) : SumTo(s)[i] <= i * high
<1> DEFINE n == Len(s)
           D == {i \in 0..n : SumTo(s)[i] <= i * high}
<1>1. n \in Nat /\ \A i \in 1..n : s[i] \in Nat
  OBVIOUS
<1>2. 0 \in D
  BY SumSteps
<1>3. ASSUME NEW i \in 1..n, i - 1 \in D PROVE i \in D
  <2>1. SumTo(s)[i] = SumTo(s)[i - 1] + s[i]
    BY SumSteps
  <2>2. SumTo(s)[i - 1] \in Nat /\ s[i] \in Nat /\ s[i] <= high
    BY <1>1, SumSteps
  <2>3. SumTo(s)[i - 1] <= (i - 1) * high
    BY <1>3
  <2>4. QED
    BY <2>1, <2>2, <2>3
<1>4. \A i \in 0..n : i \in D
  <2> HIDE DEF D
  <2>1. QED
    BY <1>1, <1>2, <1>3, UpTo, Zenon
<1>5. QED
  BY <1>4
-----------------------------------------------------------------------------
\* A message of n_packets packets of one size.
Msg == [gso_size : Nat \ {0}, gso_count : Nat \ {0}]

Counts(msgs) == [i \in 1..Len(msgs) |-> msgs[i].gso_count]

\* The number of packets in the first i messages.
Through(msgs, i) == SumTo(Counts(msgs))[i]

\* The messages hold the first k packets in order, each packets of one size.
Groups(msgs, sizes, k) ==
  /\ msgs \in Seq(Msg)
  /\ Through(msgs, Len(msgs)) = k
  /\ \A i \in 1..Len(msgs) :
       \A p \in (Through(msgs, i - 1) + 1)..Through(msgs, i) : sizes[p] = msgs[i].gso_size

\* The fields of messages.
LEMMA MsgFields ==
  ASSUME NEW msgs \in Seq(Msg)
  PROVE  /\ Len(msgs) \in Nat
         /\ \A i \in 1..Len(msgs) :
              /\ msgs[i] \in Msg
              /\ msgs[i].gso_size \in Nat /\ msgs[i].gso_size > 0
              /\ msgs[i].gso_count \in Nat /\ msgs[i].gso_count > 0
<1>1. Len(msgs) \in Nat /\ \A i \in 1..Len(msgs) : msgs[i] \in Msg
  OBVIOUS
<1>2. QED
  BY <1>1 DEF Msg

\* A message with one packet more.
LEMMA OneMore ==
  ASSUME NEW m \in Msg, NEW m2, m2 = [m EXCEPT !.gso_count = @ + 1]
  PROVE  m2 \in Msg /\ m2.gso_size = m.gso_size /\ m2.gso_count = m.gso_count + 1
BY DEF Msg

\* A function on 1..n with values in S is a sequence.
LEMMA MakeSeq ==
  ASSUME NEW S, NEW n \in Nat, NEW f, f = [i \in 1..n |-> f[i]], \A i \in 1..n : f[i] \in S
  PROVE  f \in Seq(S) /\ Len(f) = n
OBVIOUS

\* The counts add up, message by message; each is at least 1.
LEMMA ThroughSteps ==
  ASSUME NEW msgs \in Seq(Msg)
  PROVE  /\ Counts(msgs) \in Seq(Nat) /\ Len(Counts(msgs)) = Len(msgs)
         /\ Through(msgs, 0) = 0
         /\ \A i \in 1..Len(msgs) :
              Through(msgs, i) = Through(msgs, i - 1) + msgs[i].gso_count
         /\ \A i \in 0..Len(msgs) : Through(msgs, i) \in Nat /\ Through(msgs, i) >= i
         /\ \A i \in 0..Len(msgs) : \A j \in i..Len(msgs) : Through(msgs, i) <= Through(msgs, j)
<1> DEFINE n == Len(msgs)
           c == Counts(msgs)
           D == {i \in 0..n : Through(msgs, i) >= i}
<1>1. n \in Nat
  OBVIOUS
<1>2. c \in Seq(Nat) /\ Len(c) = n /\ \A i \in 1..n : c[i] = msgs[i].gso_count
  <2>1. c = [i \in 1..n |-> c[i]] /\ \A i \in 1..n : c[i] = msgs[i].gso_count /\ c[i] \in Nat
    BY MsgFields DEF Counts
  <2>2. QED
    <3> HIDE DEF c, n
    <3>1. QED
      BY <1>1, <2>1, MakeSeq
<1>3. Through(msgs, 0) = 0
  BY <1>2, SumSteps DEF Through
<1>4. \A i \in 1..n : Through(msgs, i) = Through(msgs, i - 1) + msgs[i].gso_count
  BY <1>2, SumSteps DEF Through
<1>5. \A i \in 0..n : Through(msgs, i) \in Nat
  BY <1>2, SumSteps DEF Through
<1>6. \A i \in 0..n : \A j \in i..n : Through(msgs, i) <= Through(msgs, j)
  BY <1>2, SumMonotonic DEF Through
<1>7. 0 \in D
  BY <1>3
<1>8. ASSUME NEW i \in 1..n, i - 1 \in D PROVE i \in D
  <2>1. msgs[i].gso_count \in Nat /\ msgs[i].gso_count > 0
    BY MsgFields
  <2>2. Through(msgs, i - 1) \in Nat /\ Through(msgs, i - 1) >= i - 1
    BY <1>5, <1>8
  <2>3. QED
    BY <1>4, <2>1, <2>2
<1>9. \A i \in 0..n : i \in D
  <2> HIDE DEF D, n
  <2>1. QED
    BY <1>1, <1>7, <1>8, UpTo
<1>10. QED
  BY <1>2, <1>3, <1>4, <1>5, <1>6, <1>9

\* The packets in the first messages depend on these messages only.
LEMMA ThroughPrefix ==
  ASSUME NEW msgs \in Seq(Msg), NEW m2 \in Seq(Msg), NEW n \in Nat,
         n <= Len(msgs), n <= Len(m2), \A i \in 1..n : msgs[i].gso_count = m2[i].gso_count
  PROVE  \A i \in 0..n : Through(msgs, i) = Through(m2, i)
<1>1. /\ Counts(msgs) \in Seq(Nat) /\ Len(Counts(msgs)) = Len(msgs) /\ Len(msgs) \in Nat
      /\ Counts(m2) \in Seq(Nat) /\ Len(Counts(m2)) = Len(m2) /\ Len(m2) \in Nat
  BY ThroughSteps
<1>2. \A i \in 1..n : Counts(msgs)[i] = Counts(m2)[i]
  BY DEF Counts
<1>3. QED
  BY <1>1, <1>2, SumPrefix, Zenon DEF Through

\* The next packet joins the last message only if it has its size; otherwise it
\* starts a message.  Either way the messages hold one packet more.
LEMMA AddPacketGroups ==
  ASSUME NEW sizes \in Seq(Nat \ {0}), NEW k \in Nat, k + 1 <= Len(sizes),
         NEW msgs, Groups(msgs, sizes, k)
  PROVE  Groups(AddPacket(msgs, sizes[k + 1]), sizes, k + 1)
<1> DEFINE n == Len(msgs)
           size == sizes[k + 1]
           new == AddPacket(msgs, size)
<1>1. msgs \in Seq(Msg) /\ n \in Nat /\ Through(msgs, n) = k
  BY DEF Groups
<1>2. CASE Joins(msgs, size)
  <2>1. n \in 1..n /\ msgs[n].gso_size = size
    <3>1. msgs # <<>> /\ msgs[n].gso_size = size
      BY <1>2 DEF Joins
    <3>2. QED
      BY <3>1
  <2> DEFINE last == [msgs[n] EXCEPT !.gso_count = @ + 1]
  <2>2. last \in Msg /\ last.gso_size = size /\ last.gso_count = msgs[n].gso_count + 1
    <3>1. msgs[n] \in Msg
      BY <1>1, <2>1
    <3> HIDE DEF n
    <3>2. QED
      BY <2>1, <3>1, OneMore
  <2>3. new = [msgs EXCEPT ![n] = last]
    BY <1>2 DEF AddPacket
  <2>4. /\ new \in Seq(Msg) /\ Len(new) = n /\ new[n] = last
        /\ \A i \in 1..n : i # n => new[i] = msgs[i]
    <3> HIDE DEF last, new
    <3>1. QED
      BY <1>1, <2>1, <2>2, <2>3
  <2>5. n - 1 \in Nat /\ \A i \in 0..(n - 1) : Through(new, i) = Through(msgs, i)
    <3>1. n - 1 \in Nat /\ n - 1 <= n /\ \A i \in 1..(n - 1) : new[i].gso_count = msgs[i].gso_count
      BY <2>1, <2>4
    <3> HIDE DEF new
    <3>2. QED
      BY <1>1, <2>4, <3>1, ThroughPrefix, Zenon
  <2>6. Through(new, n) = k + 1
    <3>1. /\ Through(new, n) = Through(new, n - 1) + (msgs[n].gso_count + 1)
          /\ Through(msgs, n) = Through(msgs, n - 1) + msgs[n].gso_count
      <4>1. new[n].gso_count = msgs[n].gso_count + 1
        BY <2>4
      <4> HIDE DEF new, last
      <4>2. Through(new, n) = Through(new, n - 1) + new[n].gso_count
        BY <2>1, <2>4, ThroughSteps, Zenon
      <4>3. Through(msgs, n) = Through(msgs, n - 1) + msgs[n].gso_count
        BY <1>1, <2>1, ThroughSteps, Zenon
      <4>4. QED
        BY <4>1, <4>2, <4>3, Zenon
    <3>2. Through(new, n - 1) = Through(msgs, n - 1) /\ Through(msgs, n - 1) \in Nat
      BY <1>1, <2>5, ThroughSteps
    <3>3. msgs[n].gso_count \in Nat
      BY <1>1, <2>1, MsgFields
    <3> DEFINE x == Through(msgs, n - 1)
               y == msgs[n].gso_count
    <3>4. x \in Nat /\ y \in Nat /\ x + y = k /\ Through(new, n) = x + (y + 1)
      BY <1>1, <3>1, <3>2, <3>3
    <3> HIDE DEF x, y, new
    <3>5. QED
      BY <3>4
  <2>7. ASSUME NEW i \in 1..n, NEW p \in (Through(new, i - 1) + 1)..Through(new, i)
        PROVE  sizes[p] = new[i].gso_size
    <3>1. Through(new, i - 1) = Through(msgs, i - 1)
      BY <2>5
    <3>2. CASE i # n
      <4>1. Through(new, i) = Through(msgs, i) /\ new[i] = msgs[i]
        BY <2>4, <2>5, <3>2
      <4>2. p \in (Through(msgs, i - 1) + 1)..Through(msgs, i)
        BY <3>1, <4>1
      <4>3. QED
        BY <4>1, <4>2 DEF Groups
    <3>3. CASE i = n
      <4>1. p \in (Through(msgs, n - 1) + 1)..(k + 1)
        BY <2>6, <3>1, <3>3
      <4>2. p = k + 1 \/ p \in (Through(msgs, n - 1) + 1)..Through(msgs, n)
        BY <1>1, <4>1
      <4>3. p \in (Through(msgs, n - 1) + 1)..Through(msgs, n) => sizes[p] = msgs[n].gso_size
        BY <2>1, Zenon DEF Groups
      <4>4. QED
        BY <2>1, <2>2, <2>4, <3>3, <4>2, <4>3, Zenon
    <3>4. QED
      BY <3>2, <3>3
  <2>8. Groups(new, sizes, k + 1)
    <3> HIDE DEF new, n
    <3>1. QED
      BY <2>4, <2>6, <2>7 DEF Groups
  <2>9. QED
    BY <2>8
<1>3. CASE ~Joins(msgs, size)
  <2> DEFINE one == [gso_size |-> size, gso_count |-> 1]
  <2>1. new = Append(msgs, one)
    BY <1>3 DEF AddPacket
  <2>2. one \in Msg /\ one.gso_size = size /\ one.gso_count = 1
    BY DEF Msg
  <2>3. /\ new \in Seq(Msg) /\ Len(new) = n + 1 /\ new[n + 1] = one
        /\ \A i \in 1..n : new[i] = msgs[i]
    <3> HIDE DEF new, one
    <3>1. QED
      BY <1>1, <2>1, <2>2
  <2>4. \A i \in 0..n : Through(new, i) = Through(msgs, i)
    <3>1. n <= n + 1 /\ n <= n /\ \A i \in 1..n : new[i].gso_count = msgs[i].gso_count
      BY <2>3
    <3> HIDE DEF new
    <3>2. QED
      BY <1>1, <2>3, <3>1, ThroughPrefix, Zenon
  <2>5. Through(new, n) = k
    BY <1>1, <2>4
  <2>6. Through(new, n + 1) = k + 1
    <3>1. n + 1 \in 1..Len(new) /\ (n + 1) - 1 = n
      BY <2>3
    <3>2. Through(new, n + 1) = Through(new, n) + new[n + 1].gso_count
      <4> HIDE DEF new
      <4>1. QED
        BY <2>3, <3>1, ThroughSteps, Zenon
    <3>3. QED
      BY <2>3, <2>5, <3>2
  <2>7. ASSUME NEW i \in 1..(n + 1), NEW p \in (Through(new, i - 1) + 1)..Through(new, i)
        PROVE  sizes[p] = new[i].gso_size
    <3>1. CASE i = n + 1
      <4>1. p = k + 1
        BY <2>5, <2>6, <3>1
      <4>2. QED
        BY <2>3, <3>1, <4>1
    <3>2. CASE i # n + 1
      <4>1. i \in 1..n /\ i \in 0..n /\ i - 1 \in 0..n
        BY <3>2
      <4>2. p \in (Through(msgs, i - 1) + 1)..Through(msgs, i)
        BY <2>4, <4>1
      <4>3. QED
        BY <2>3, <4>1, <4>2, Zenon DEF Groups
    <3>3. QED
      BY <3>1, <3>2
  <2>8. Groups(new, sizes, k + 1)
    <3> HIDE DEF new, n
    <3>1. QED
      BY <2>3, <2>6, <2>7 DEF Groups
  <2>9. QED
    BY <2>8
<1>4. QED
  BY <1>2, <1>3

\* AddPacket makes messages of messages.
LEMMA AddPacketType ==
  ASSUME NEW msgs \in Seq(Msg), NEW size \in Nat \ {0}
  PROVE  AddPacket(msgs, size) \in Seq(Msg)
<1>1. CASE Joins(msgs, size)
  <2> DEFINE n == Len(msgs)
             last == [msgs[n] EXCEPT !.gso_count = @ + 1]
  <2>1. n \in 1..n
    BY <1>1 DEF Joins
  <2>2. last \in Msg
    <3>1. msgs[n] \in Msg
      BY <2>1
    <3> HIDE DEF n
    <3>2. QED
      BY <3>1, OneMore
  <2>3. AddPacket(msgs, size) = [msgs EXCEPT ![n] = last]
    BY <1>1 DEF AddPacket
  <2> HIDE DEF n, last
  <2>4. QED
    BY <2>1, <2>2, <2>3 DEF n
<1>2. CASE ~Joins(msgs, size)
  <2> DEFINE one == [gso_size |-> size, gso_count |-> 1]
  <2>1. one \in Msg
    BY DEF Msg
  <2>2. AddPacket(msgs, size) = Append(msgs, one)
    BY <1>2 DEF AddPacket
  <2> HIDE DEF one
  <2>3. QED
    BY <2>1, <2>2
<1>3. QED
  BY <1>1, <1>2

\* The grouping for GSO, packet by packet.
LEMMA GroupedSteps ==
  ASSUME NEW sizes \in Seq(Nat \ {0})
  PROVE  /\ Grouped(sizes)[0] = <<>>
         /\ \A i \in 1..Len(sizes) :
              Grouped(sizes)[i] = AddPacket(Grouped(sizes)[i - 1], sizes[i])
<1> DEFINE n == Len(sizes)
           Next_(g) == [i \in 0..n |-> IF i = 0 THEN <<>> ELSE AddPacket(g[i - 1], sizes[i])]
           G == Grouped(sizes)
<1>1. n \in Nat /\ \A i \in 1..n : sizes[i] \in Nat \ {0}
  OBVIOUS
<1>2. \E g : g = Next_(g)
  <2> DEFINE step == [i \in 1..n |-> [m \in Seq(Msg) |-> AddPacket(m, sizes[i])]]
  <2>1. step \in [1..n -> [Seq(Msg) -> Seq(Msg)]]
    BY <1>1, AddPacketType, Zenon
  <2>2. PICK g : Solves(g, n, Seq(Msg), <<>>, step)
    <3> HIDE DEF step, n
    <3>1. <<>> \in Seq(Msg)
      OBVIOUS
    <3>2. QED
      BY <1>1, <2>1, <3>1, Iterates, Zenon
  <2>3. ASSUME NEW i \in 1..n PROVE g[i] = AddPacket(g[i - 1], sizes[i])
    <3>1. i - 1 \in 0..n
      OBVIOUS
    <3>2. g[i - 1] \in Seq(Msg) /\ g[i] = step[i][g[i - 1]]
      BY <2>2, <3>1, Zenon DEF Solves
    <3>3. QED
      BY <3>2
  <2>4. g = Next_(g)
    <3> HIDE DEF step
    <3>1. QED
      BY <2>2, <2>3 DEF Solves
  <2>5. QED
    BY <2>4
<1>3. G = Next_(G)
  <2>1. G = CHOOSE g : g = Next_(g)
    BY DEF Grouped
  <2>2. QED
    BY <1>2, <2>1, Zenon
<1> HIDE DEF G
<1>4. G[0] = <<>> /\ \A i \in 1..n : G[i] = AddPacket(G[i - 1], sizes[i])
  BY <1>1, <1>3
<1>5. QED
  BY <1>4 DEF G

\* In every mode the messages of a batch hold its packets in order, each
\* message packets of one size.
LEMMA MessagesGroup ==
  ASSUME NEW m, NEW sizes \in Seq(Nat \ {0})
  PROVE  Groups(Messages(m, sizes), sizes, Len(sizes))
<1> DEFINE n == Len(sizes)
<1>1. n \in Nat /\ \A i \in 1..n : sizes[i] \in Nat \ {0}
  OBVIOUS
<1>2. CASE m = "gso"
  <2> DEFINE D == {i \in 0..n : Groups(Grouped(sizes)[i], sizes, i)}
  <2>1. 0 \in D
    <3>1. <<>> \in Seq(Msg) /\ Len(<<>>) = 0
      OBVIOUS
    <3>2. Through(<<>>, 0) = 0
      BY <3>1, ThroughSteps, Zenon
    <3>3. Groups(<<>>, sizes, 0)
      BY <3>2 DEF Groups
    <3>4. QED
      BY <3>3, GroupedSteps
  <2>2. ASSUME NEW i \in 1..n, i - 1 \in D PROVE i \in D
    <3>1. Groups(AddPacket(Grouped(sizes)[i - 1], sizes[i]), sizes, i)
      BY <2>2, AddPacketGroups
    <3>2. QED
      BY <3>1, GroupedSteps
  <2>3. \A i \in 0..n : i \in D
    <3> HIDE DEF D, n
    <3>1. QED
      BY <1>1, <2>1, <2>2, UpTo, Zenon
  <2>4. n \in D
    BY <2>3
  <2>5. QED
    BY <1>2, <2>4 DEF Messages
<1>3. CASE m # "gso"
  <2> DEFINE msgs == [i \in 1..n |-> [gso_size |-> sizes[i], gso_count |-> 1]]
             D == {i \in 0..n : Through(msgs, i) = i}
  <2>1. Messages(m, sizes) = msgs
    BY <1>3 DEF Messages
  <2>2. msgs \in Seq(Msg) /\ Len(msgs) = n
    <3>1. msgs = [i \in 1..n |-> msgs[i]] /\ \A i \in 1..n : msgs[i] \in Msg
      BY DEF Msg
    <3> HIDE DEF msgs, n
    <3>2. QED
      BY <1>1, <3>1
  <2>3. \A i \in 1..n : msgs[i].gso_size = sizes[i] /\ msgs[i].gso_count = 1
    OBVIOUS
  <2> HIDE DEF msgs
  <2>4. 0 \in D
    BY <2>2, ThroughSteps
  <2>5. ASSUME NEW i \in 1..n, i - 1 \in D PROVE i \in D
    <3>1. Through(msgs, i) = Through(msgs, i - 1) + 1
      <4>1. Through(msgs, i) = Through(msgs, i - 1) + msgs[i].gso_count
        BY <2>2, ThroughSteps, Zenon
      <4>2. QED
        BY <2>3, <4>1
    <3>2. QED
      BY <2>5, <3>1
  <2>6. \A i \in 0..n : i \in D
    <3> HIDE DEF D, n
    <3>1. QED
      BY <1>1, <2>4, <2>5, UpTo, Zenon
  <2>7. ASSUME NEW i \in 1..n, NEW p \in (Through(msgs, i - 1) + 1)..Through(msgs, i)
        PROVE  sizes[p] = msgs[i].gso_size
    <3>1. Through(msgs, i - 1) = i - 1 /\ Through(msgs, i) = i
      BY <2>6
    <3>2. p = i
      BY <3>1
    <3>3. QED
      BY <2>3, <3>2
  <2>8. Through(msgs, n) = n
    BY <2>6
  <2>9. Groups(msgs, sizes, n)
    <3> HIDE DEF D, n
    <3>1. QED
      BY <2>2, <2>7, <2>8 DEF Groups
  <2>10. QED
    BY <2>1, <2>9
<1>4. QED
  BY <1>2, <1>3

\* The bytes in front of the packets of a message.
LEMMA RunSums ==
  ASSUME NEW sizes \in Seq(Nat \ {0}), NEW msgs, Groups(msgs, sizes, Len(sizes)),
         NEW i \in 1..Len(msgs)
  PROVE  LET a == Through(msgs, i - 1)
             c == msgs[i].gso_count
             v == msgs[i].gso_size
         IN  /\ a \in Nat /\ c \in Nat /\ c > 0 /\ v \in Nat /\ v > 0
             /\ a + c = Through(msgs, i) /\ a + c <= Len(sizes)
             /\ SumTo(sizes)[a] \in Nat
             /\ \A j \in 0..c : SumTo(sizes)[a + j] = SumTo(sizes)[a] + j * v
<1> DEFINE a == Through(msgs, i - 1)
           c == msgs[i].gso_count
           v == msgs[i].gso_size
<1>1. msgs \in Seq(Msg) /\ Len(msgs) \in Nat /\ Through(msgs, Len(msgs)) = Len(sizes)
  BY DEF Groups
<1>2. i - 1 \in 0..Len(msgs) /\ i \in 0..Len(msgs) /\ Len(msgs) \in i..Len(msgs)
  OBVIOUS
<1>3. c \in Nat /\ c > 0 /\ v \in Nat /\ v > 0
  BY <1>1, MsgFields, Zenon
<1>4. a \in Nat /\ Through(msgs, i) = a + c /\ Through(msgs, i) <= Through(msgs, Len(msgs))
  BY <1>1, <1>2, ThroughSteps, Zenon
<1>5. sizes \in Seq(Nat) /\ Len(sizes) \in Nat
  OBVIOUS
<1>6. \A p \in (a + 1)..(a + c) : sizes[p] = v
  BY <1>4 DEF Groups
<1>7. a + c <= Len(sizes)
  BY <1>1, <1>4
<1>8. SumTo(sizes)[a] \in Nat
  <2>1. a \in 0..Len(sizes)
    BY <1>3, <1>4, <1>7
  <2>2. QED
    BY <1>5, <2>1, SumSteps, Zenon
<1>9. \A j \in 0..c : SumTo(sizes)[a + j] = SumTo(sizes)[a] + j * v
  <2> HIDE DEF a, c, v
  <2>1. QED
    BY <1>3, <1>4, <1>5, <1>6, <1>7, SumRun, Zenon
<1>10. QED
  BY <1>3, <1>4, <1>7, <1>8, <1>9

\* A message lies where its first packet does.
LEMMA BaseIs ==
  ASSUME NEW sizes \in Seq(Nat \ {0}), NEW msgs, Groups(msgs, sizes, Len(sizes))
  PROVE  \A i \in 1..Len(msgs) : iov_base(msgs, i) = SumTo(sizes)[Through(msgs, i - 1)]
<1> DEFINE n == Len(msgs)
           L == [j \in 1..n |-> iov_len(msgs[j])]
           D == {i \in 0..n : SumTo(L)[i] = SumTo(sizes)[Through(msgs, i)]}
<1>1. msgs \in Seq(Msg) /\ n \in Nat
  BY DEF Groups
<1>2. sizes \in Seq(Nat)
  OBVIOUS
<1>3. \A j \in 1..n : L[j] = msgs[j].gso_count * msgs[j].gso_size /\ L[j] \in Nat
  <2>1. \A j \in 1..n : msgs[j].gso_count \in Nat /\ msgs[j].gso_size \in Nat
    BY <1>1, MsgFields
  <2>2. QED
    BY <2>1 DEF iov_len
<1>4. L \in Seq(Nat) /\ Len(L) = n
  <2>1. L = [j \in 1..n |-> L[j]]
    OBVIOUS
  <2> HIDE DEF L, n
  <2>2. QED
    BY <1>1, <1>3, <2>1, MakeSeq, Zenon
<1>5. 0 \in D
  <2>1. SumTo(L)[0] = 0 /\ SumTo(sizes)[0] = 0 /\ Through(msgs, 0) = 0
    <3> HIDE DEF L
    <3>1. QED
      BY <1>1, <1>2, <1>4, SumSteps, ThroughSteps, Zenon
  <2>2. QED
    BY <2>1
<1>6. ASSUME NEW i \in 1..n, i - 1 \in D PROVE i \in D
  <2> DEFINE a == Through(msgs, i - 1)
             c == msgs[i].gso_count
             v == msgs[i].gso_size
  <2>1. /\ c \in Nat /\ a + c = Through(msgs, i)
        /\ \A j \in 0..c : SumTo(sizes)[a + j] = SumTo(sizes)[a] + j * v
    BY RunSums
  <2>2. SumTo(sizes)[Through(msgs, i)] = SumTo(sizes)[a] + c * v
    BY <2>1
  <2>3. SumTo(L)[i] = SumTo(L)[i - 1] + c * v
    <3>1. i \in 1..Len(L) /\ L[i] = c * v
      BY <1>3
    <3> HIDE DEF L, c, v
    <3>2. QED
      BY <1>4, <3>1, SumSteps
  <2>4. SumTo(L)[i - 1] = SumTo(sizes)[a]
    BY <1>6
  <2>5. QED
    BY <2>2, <2>3, <2>4
<1>7. \A i \in 0..n : i \in D
  <2> HIDE DEF D, n
  <2>1. QED
    BY <1>1, <1>5, <1>6, UpTo, Zenon
<1>8. ASSUME NEW i \in 1..n
      PROVE  iov_base(msgs, i) = SumTo(sizes)[Through(msgs, i - 1)]
  <2> DEFINE P == [j \in 1..(i - 1) |-> iov_len(msgs[j])]
  <2>1. i - 1 \in Nat /\ i - 1 \in 0..n /\ i - 1 <= n /\ i - 1 \in 0..(i - 1)
    OBVIOUS
  <2>2. P = [j \in 1..(i - 1) |-> P[j]] /\ \A j \in 1..(i - 1) : P[j] = L[j] /\ P[j] \in Nat
    BY <1>3
  <2>3. iov_base(msgs, i) = Total(P)
    BY DEF iov_base
  <2> HIDE DEF P, L
  <2>4. P \in Seq(Nat) /\ Len(P) = i - 1
    BY <2>1, <2>2
  <2>5. SumTo(P)[i - 1] = SumTo(L)[i - 1]
    <3>1. i - 1 <= Len(P) /\ i - 1 <= Len(L) /\ \A j \in 1..(i - 1) : P[j] = L[j]
      BY <1>4, <2>2
    <3>2. QED
      BY <1>4, <2>1, <2>4, <3>1, SumPrefix, Zenon
  <2>6. SumTo(L)[i - 1] = SumTo(sizes)[Through(msgs, i - 1)]
    BY <1>7
  <2>7. QED
    BY <2>3, <2>4, <2>5, <2>6 DEF Total
<1>9. QED
  BY <1>8

\* The number of packets send reports is that in the messages the kernel took.
LEMMA SentIs ==
  ASSUME NEW msgs \in Seq(Msg), NEW taken \in 0..Len(msgs)
  PROVE  Sent(msgs, taken) = Through(msgs, taken)
<1> DEFINE n == Len(msgs)
           F == [i \in 1..n |->
                  LET msg_len == IF i <= taken THEN iov_len(msgs[i]) ELSE 0
                  IN  IF msg_len < iov_len(msgs[i]) THEN msg_len \div msgs[i].gso_size
                      ELSE msgs[i].gso_count]
<1>1. n \in Nat /\ taken \in Nat /\ taken <= n /\ taken \in 0..n
  OBVIOUS
<1>2. Sent(msgs, taken) = Total(F)
  BY DEF Sent
<1>3. ASSUME NEW i \in 1..n
      PROVE  F[i] = (IF i <= taken THEN Counts(msgs)[i] ELSE 0) /\ F[i] \in Nat
  <2>1. /\ msgs[i].gso_count \in Nat /\ msgs[i].gso_count > 0
        /\ msgs[i].gso_size \in Nat /\ msgs[i].gso_size > 0
    BY MsgFields
  <2>2. iov_len(msgs[i]) \in Nat /\ iov_len(msgs[i]) > 0
    BY <2>1 DEF iov_len
  <2>3. 0 \div msgs[i].gso_size = 0
    BY <2>1
  <2>4. Counts(msgs)[i] = msgs[i].gso_count
    BY DEF Counts
  <2>5. CASE i <= taken
    <3>1. ~(iov_len(msgs[i]) < iov_len(msgs[i]))
      BY <2>2
    <3>2. F[i] = msgs[i].gso_count
      BY <2>5, <3>1
    <3>3. QED
      BY <2>1, <2>4, <2>5, <3>2
  <2>6. CASE ~(i <= taken)
    <3>1. F[i] = 0
      BY <2>2, <2>3, <2>6
    <3>2. QED
      BY <2>6, <3>1
  <2>7. QED
    BY <2>5, <2>6
<1>4. F \in Seq(Nat) /\ Len(F) = n
  <2>1. F = [i \in 1..n |-> F[i]]
    OBVIOUS
  <2> HIDE DEF F, n
  <2>2. QED
    BY <1>1, <1>3, <2>1
<1> HIDE DEF F
<1>5. SumTo(F)[taken] = Through(msgs, taken)
  <2>1. Counts(msgs) \in Seq(Nat) /\ Len(Counts(msgs)) = n
    BY ThroughSteps, Zenon
  <2>2. /\ taken <= Len(F) /\ taken <= Len(Counts(msgs)) /\ taken \in 0..taken
        /\ \A i \in 1..taken : F[i] = Counts(msgs)[i]
    BY <1>1, <1>3, <1>4, <2>1
  <2>3. QED
    BY <1>1, <1>4, <2>1, <2>2, SumPrefix, Zenon DEF Through
<1>6. SumTo(F)[n] = SumTo(F)[taken]
  <2> DEFINE c == n - taken
  <2>1. c \in Nat /\ taken + c = n /\ c \in 0..c /\ c * 0 = 0
    OBVIOUS
  <2>2. taken + c <= Len(F) /\ 0 \in Nat /\ \A p \in (taken + 1)..(taken + c) : F[p] = 0
    BY <1>3, <1>4
  <2>3. SumTo(F)[taken] \in Nat
    BY <1>4, SumSteps
  <2> HIDE DEF c
  <2>4. SumTo(F)[taken + c] = SumTo(F)[taken] + c * 0
    <3>1. \A j \in 0..c : SumTo(F)[taken + j] = SumTo(F)[taken] + j * 0
      BY <1>1, <1>4, <2>1, <2>2, SumRun, Zenon
    <3>2. QED
      BY <2>1, <3>1, Zenon
  <2>5. QED
    BY <2>1, <2>3, <2>4
<1>7. QED
  BY <1>2, <1>4, <1>5, <1>6 DEF Total
-----------------------------------------------------------------------------
\* The datagrams, message by message.
LEMMA CutSteps ==
  ASSUME NEW bytes, NEW msgs, Len(msgs) \in Nat, NEW S,
         \A i \in 1..Len(msgs) : Segments(bytes, msgs, i) \in Seq(S)
  PROVE  /\ Cut(bytes, msgs)[0] = <<>>
         /\ \A i \in 1..Len(msgs) : Cut(bytes, msgs)[i] = Cut(bytes, msgs)[i - 1] \o Segments(bytes, msgs, i)
<1> DEFINE n == Len(msgs)
           Seg(i) == Segments(bytes, msgs, i)
           Next_(g) == [i \in 0..n |-> IF i = 0 THEN <<>> ELSE g[i - 1] \o Seg(i)]
           G == Cut(bytes, msgs)
<1>1. n \in Nat /\ \A i \in 1..n : Seg(i) \in Seq(S)
  OBVIOUS
<1>2. \E g : g = Next_(g)
  <2> HIDE DEF Seg
  <2> DEFINE step == [i \in 1..n |-> [v \in Seq(S) |-> v \o Seg(i)]]
  <2>1. step \in [1..n -> [Seq(S) -> Seq(S)]]
    BY <1>1
  <2>2. PICK g : Solves(g, n, Seq(S), <<>>, step)
    <3> HIDE DEF step, n
    <3>1. <<>> \in Seq(S)
      OBVIOUS
    <3>2. QED
      BY <1>1, <2>1, <3>1, Iterates, Zenon
  <2>3. ASSUME NEW i \in 1..n PROVE g[i] = g[i - 1] \o Seg(i)
    <3>1. i - 1 \in 0..n
      OBVIOUS
    <3>2. g[i - 1] \in Seq(S) /\ g[i] = step[i][g[i - 1]]
      BY <2>2, <3>1, Zenon DEF Solves
    <3>3. QED
      BY <3>2
  <2>4. g = Next_(g)
    <3> HIDE DEF step
    <3>1. \A i \in 0..n : i = 0 \/ i \in 1..n
      OBVIOUS
    <3>2. QED
      BY <2>2, <2>3, <3>1, Zenon DEF Solves
  <2>5. QED
    BY <2>4, Zenon
<1>3. G = Next_(G)
  <2>1. G = CHOOSE g : g = Next_(g)
    BY DEF Cut
  <2>2. QED
    BY <1>2, <2>1, Zenon
<1> HIDE DEF G, Seg
<1>4. \A i \in 0..n : G[i] = IF i = 0 THEN <<>> ELSE G[i - 1] \o Seg(i)
  <2>1. DOMAIN G = 0..n /\ \A i \in 0..n : Next_(G)[i] = IF i = 0 THEN <<>> ELSE G[i - 1] \o Seg(i)
    BY <1>3
  <2> HIDE DEF n, Next_
  <2>2. QED
    BY <1>3, <2>1, Zenon
<1> HIDE DEF n
<1>5. 0 \in 0..n /\ \A i \in 1..n : i \in 0..n /\ i # 0
  BY <1>1
<1>6. G[0] = <<>> /\ \A i \in 1..n : G[i] = G[i - 1] \o Seg(i)
  BY <1>4, <1>5, Zenon
<1>7. QED
  BY <1>6 DEF G, Seg, n

FirstOf(f, a) == [p \in 1..a |-> f[p]]

After(f, a, c) == [j \in 1..c |-> f[a + j]]

\* The first a elements followed by the c elements behind them.
LEMMA Joined ==
  ASSUME NEW f, NEW a \in Nat, NEW c \in Nat
  PROVE  FirstOf(f, a) \o After(f, a, c) = FirstOf(f, a + c)
BY DEF FirstOf, After

\* The bytes of the p-th packet of a batch.
PacketBytes(bytes, sizes, p) == SubSeq(bytes, SumTo(sizes)[p - 1] + 1, SumTo(sizes)[p])

\* The kernel cuts a message exactly where its packets begin.
LEMMA SegmentsAre ==
  ASSUME NEW bytes, NEW sizes \in Seq(Nat \ {0}), NEW msgs, Groups(msgs, sizes, Len(sizes)),
         NEW i \in 1..Len(msgs)
  PROVE  Segments(bytes, msgs, i) =
           [j \in 1..msgs[i].gso_count |-> PacketBytes(bytes, sizes, Through(msgs, i - 1) + j)]
<1> DEFINE a == Through(msgs, i - 1)
           c == msgs[i].gso_count
           v == msgs[i].gso_size
           b == SumTo(sizes)[a]
<1>1. /\ a \in Nat /\ c \in Nat /\ v \in Nat /\ b \in Nat
      /\ \A j \in 0..c : SumTo(sizes)[a + j] = b + j * v
  BY RunSums
<1>2. iov_base(msgs, i) = b
  BY BaseIs
<1>3. ASSUME NEW j \in 1..c
      PROVE  SubSeq(bytes, b + (j - 1) * v + 1, b + j * v) = PacketBytes(bytes, sizes, a + j)
  <2>1. j \in 0..c /\ j - 1 \in 0..c /\ (a + j) - 1 = a + (j - 1)
    BY <1>1
  <2>2. SumTo(sizes)[(a + j) - 1] = b + (j - 1) * v /\ SumTo(sizes)[a + j] = b + j * v
    BY <1>1, <2>1
  <2>3. QED
    BY <2>2 DEF PacketBytes
<1>4. Segments(bytes, msgs, i) = [j \in 1..c |-> SubSeq(bytes, b + (j - 1) * v + 1, b + j * v)]
  BY <1>2 DEF Segments
<1>5. QED
  BY <1>3, <1>4

\* The datagrams of the first messages are the packets these hold.
LEMMA DatagramsAre ==
  ASSUME NEW bytes, NEW sizes \in Seq(Nat \ {0}), NEW msgs, Groups(msgs, sizes, Len(sizes)),
         NEW t \in 0..Len(msgs)
  PROVE  Datagrams(bytes, SubSeq(msgs, 1, t)) =
           [p \in 1..Through(msgs, t) |-> PacketBytes(bytes, sizes, p)]
<1> DEFINE n == Len(sizes)
           m == SubSeq(msgs, 1, t)
           f == [p \in 1..n |-> PacketBytes(bytes, sizes, p)]
           U == {f[p] : p \in 1..n}
           C(i) == msgs[i].gso_count
           A(i) == Through(msgs, i)
           Seg(i) == Segments(bytes, m, i)
           G == Cut(bytes, m)
           D == {i \in 0..t : G[i] = FirstOf(f, A(i))}
<1>1. msgs \in Seq(Msg) /\ Len(msgs) \in Nat /\ t \in Nat /\ n \in Nat
  BY DEF Groups
<1>2. m \in Seq(Msg) /\ Len(m) = t /\ DOMAIN m = 1..t /\ \A i \in 1..t : m[i] = msgs[i]
  <2>1. \A i \in 1..t : msgs[i] \in Msg
    BY <1>1
  <2>2. m \in Seq(Msg) /\ Len(m) = t /\ \A i \in 1..t : m[i] = msgs[i]
    <3>1. /\ m \in Seq(Msg) /\ Len(m) = (IF 1 <= t THEN t - 1 + 1 ELSE 0)
          /\ \A i \in 1..(t - 1 + 1) : m[i] = msgs[1 + i - 1]
      BY <2>1
    <3> HIDE DEF m
    <3>2. QED
      BY <3>1
  <2> HIDE DEF m
  <2>3. QED
    BY <2>2
<1>3. f \in [1..n -> U]
  OBVIOUS
<1>4. /\ A(0) = 0
      /\ \A i \in 0..t : A(i) \in Nat /\ A(i) <= n
      /\ \A i \in 1..t : A(i - 1) \in Nat /\ C(i) \in Nat /\ A(i) = A(i - 1) + C(i)
  <2>1. Through(msgs, Len(msgs)) = n
    BY DEF Groups
  <2>2. A(0) = 0 /\ \A i \in 0..t : A(i) \in Nat /\ A(i) <= n
    BY <1>1, <2>1, ThroughSteps
  <2>3. \A i \in 1..t : C(i) \in Nat /\ A(i) = A(i - 1) + C(i)
    BY <1>1, ThroughSteps, MsgFields
  <2>4. QED
    BY <2>2, <2>3
<1>5. ASSUME NEW i \in 1..t
      PROVE  Seg(i) = After(f, A(i - 1), C(i)) /\ Seg(i) \in Seq(U)
  <2>1. Segments(bytes, m, i) = Segments(bytes, msgs, i)
    <3>1. \A j \in 1..(i - 1) : m[j] = msgs[j]
      OBVIOUS
    <3>2. m[i] = msgs[i] /\ iov_base(m, i) = iov_base(msgs, i)
      BY <3>1 DEF iov_base
    <3>3. QED
      BY <3>2, Zenon DEF Segments
  <2>2. i \in 1..Len(msgs)
    OBVIOUS
  <2>3. Seg(i) = [j \in 1..C(i) |-> PacketBytes(bytes, sizes, A(i - 1) + j)]
    <3>1. Segments(bytes, msgs, i) = [j \in 1..C(i) |-> PacketBytes(bytes, sizes, A(i - 1) + j)]
      BY <2>2, SegmentsAre
    <3>2. QED
      BY <2>1, <3>1
  <2>4. \A j \in 1..C(i) : A(i - 1) + j \in 1..n
    <3>1. A(i - 1) \in Nat /\ C(i) \in Nat /\ A(i) = A(i - 1) + C(i)
      BY <1>4, Zenon
    <3>2. A(i) <= n
      BY <1>4
    <3> HIDE DEF A, C, n
    <3>3. QED
      BY <1>1, <3>1, <3>2
  <2> HIDE DEF Seg
  <2>5. Seg(i) = [j \in 1..C(i) |-> f[A(i - 1) + j]]
    BY <2>3, <2>4
  <2>6. Seg(i) = [j \in 1..C(i) |-> Seg(i)[j]] /\ \A j \in 1..C(i) : Seg(i)[j] \in U
    <3> HIDE DEF f
    <3>1. QED
      BY <1>3, <2>4, <2>5
  <2>7. C(i) \in Nat
    BY <1>4
  <2> HIDE DEF f, U, C
  <2>8. Seg(i) \in Seq(U)
    BY <2>6, <2>7
  <2>9. QED
    BY <2>5, <2>8 DEF After
<1>6. G[0] = <<>> /\ \A i \in 1..t : G[i] = G[i - 1] \o Seg(i)
  <2>1. Len(m) \in Nat /\ \A i \in 1..Len(m) : Seg(i) \in Seq(U)
    BY <1>1, <1>2, <1>5, Zenon
  <2> HIDE DEF U, m
  <2>2. QED
    BY <1>2, <2>1, CutSteps
<1> HIDE DEF Seg, G
<1>7. 0 \in D
  <2>1. FirstOf(f, A(0)) = <<>>
    BY <1>4 DEF FirstOf
  <2>2. QED
    BY <1>6, <2>1
<1>8. ASSUME NEW i \in 1..t, i - 1 \in D PROVE i \in D
  <2>1. A(i - 1) \in Nat /\ C(i) \in Nat /\ A(i) = A(i - 1) + C(i)
    BY <1>4, Zenon
  <2>2. G[i] = G[i - 1] \o Seg(i) /\ G[i - 1] = FirstOf(f, A(i - 1))
    BY <1>6, <1>8
  <2>3. FirstOf(f, A(i - 1)) \o After(f, A(i - 1), C(i)) = FirstOf(f, A(i - 1) + C(i))
    <3> HIDE DEF A, C, f, U, n
    <3>1. QED
      BY <2>1, Joined, Zenon
  <2>4. G[i] = FirstOf(f, A(i))
    <3>1. Seg(i) = After(f, A(i - 1), C(i))
      BY <1>5, Zenon
    <3> HIDE DEF A, C, f
    <3>2. QED
      BY <2>1, <2>2, <2>3, <3>1
  <2>5. QED
    BY <2>4
<1>9. G[t] = FirstOf(f, A(t))
  <2> HIDE DEF D
  <2>1. \A i \in 0..t : i \in D
    BY <1>1, <1>7, <1>8, UpTo, Zenon
  <2>2. t \in D
    BY <2>1
  <2>3. QED
    BY <2>2 DEF D
<1>10. FirstOf(f, A(t)) = [p \in 1..A(t) |-> PacketBytes(bytes, sizes, p)]
  <2>1. A(t) \in Nat /\ A(t) <= n
    BY <1>4
  <2>2. \A p \in 1..A(t) : p \in 1..n
    <3> HIDE DEF A, n
    <3>1. QED
      BY <1>1, <2>1
  <2>3. QED
    BY <2>2 DEF FirstOf
<1>11. Datagrams(bytes, m) = G[t]
  BY DEF Datagrams, G
<1>12. QED
  BY <1>9, <1>10, <1>11

\* A packet's bytes lie behind those of the packets before it.
LEMMA PacketBytesIs ==
  ASSUME NEW bytes, NEW sizes \in Seq(Nat \ {0}), NEW p \in 1..Len(sizes)
  PROVE  /\ PacketBytes(bytes, sizes, p) =
              SubSeq(bytes, Offset(sizes, p) + 1, Offset(sizes, p) + sizes[p])
         /\ Offset(sizes, p) \in Nat /\ sizes[p] \in Nat /\ sizes[p] > 0
         /\ Offset(sizes, p) + sizes[p] = SumTo(sizes)[p]
         /\ Offset(sizes, p) + sizes[p] <= Total(sizes)
<1>1. sizes \in Seq(Nat) /\ Len(sizes) \in Nat
  OBVIOUS
<1>2. p - 1 \in 0..Len(sizes) /\ p \in 0..Len(sizes) /\ Len(sizes) \in p..Len(sizes)
  OBVIOUS
<1>3. SumTo(sizes)[p] = SumTo(sizes)[p - 1] + sizes[p] /\ SumTo(sizes)[p - 1] \in Nat
  BY <1>1, <1>2, SumSteps, Zenon
<1>4. SumTo(sizes)[p] <= SumTo(sizes)[Len(sizes)]
  BY <1>1, <1>2, SumMonotonic, Zenon
<1>5. QED
  BY <1>3, <1>4 DEF PacketBytes, Offset, Total

\* UDPSocket::send, in each of its three builds and however many messages the
\* kernel takes: the datagrams that leave are the packets the call reports as
\* sent, whole and in order, and it reports all of them only if the kernel took
\* every message, and none only if it took none.
THEOREM DatagramsArePackets ==
  ASSUME NEW m, NEW sizes \in Seq(Nat \ {0}), NEW bytes,
         NEW taken \in 0..Len(Messages(m, sizes))
  PROVE  LET msgs == Messages(m, sizes)
             sent == Sent(msgs, taken)
         IN  /\ sent \in 0..Len(sizes)
             /\ Datagrams(bytes, SubSeq(msgs, 1, taken)) =
                  [p \in 1..sent |->
                     SubSeq(bytes, Offset(sizes, p) + 1, Offset(sizes, p) + sizes[p])]
             /\ sent = 0 <=> taken = 0
             /\ sent = Len(sizes) <=> taken = Len(msgs)
<1> DEFINE msgs == Messages(m, sizes)
           sent == Sent(msgs, taken)
           n == Len(msgs)
<1>1. Groups(msgs, sizes, Len(sizes))
  BY MessagesGroup
<1> HIDE DEF msgs
<1>2. msgs \in Seq(Msg) /\ n \in Nat /\ taken \in 0..n /\ Through(msgs, n) = Len(sizes)
  BY <1>1 DEF Groups, msgs
<1>3. sent = Through(msgs, taken)
  BY <1>2, SentIs
<1>4. sent \in Nat /\ sent >= taken /\ sent <= Len(sizes) /\ Len(sizes) \in Nat
  BY <1>2, <1>3, ThroughSteps
<1>5. sent = 0 <=> taken = 0
  BY <1>2, <1>3, ThroughSteps
<1>6. sent = Len(sizes) <=> taken = n
  <2>1. taken = n => sent = Len(sizes)
    BY <1>2, <1>3
  <2>2. ASSUME taken # n PROVE sent < Len(sizes)
    <3>1. taken + 1 \in 1..n /\ (taken + 1) - 1 = taken /\ taken + 1 \in 0..n /\ n \in (taken + 1)..n
      BY <1>2, <2>2
    <3>2. Through(msgs, taken + 1) = Through(msgs, taken) + msgs[taken + 1].gso_count
      BY <1>2, <3>1, ThroughSteps
    <3>3. msgs[taken + 1].gso_count \in Nat /\ msgs[taken + 1].gso_count > 0
      BY <1>2, <3>1, MsgFields, Zenon
    <3>4. Through(msgs, taken + 1) <= Through(msgs, n)
      BY <1>2, <3>1, ThroughSteps, Zenon
    <3>5. QED
      BY <1>2, <1>3, <1>4, <3>2, <3>3, <3>4
  <2>3. QED
    BY <2>1, <2>2
<1>7. Datagrams(bytes, SubSeq(msgs, 1, taken)) =
        [p \in 1..sent |-> SubSeq(bytes, Offset(sizes, p) + 1, Offset(sizes, p) + sizes[p])]
  <2>1. Datagrams(bytes, SubSeq(msgs, 1, taken)) = [p \in 1..sent |-> PacketBytes(bytes, sizes, p)]
    BY <1>1, <1>2, <1>3, DatagramsAre
  <2>2. \A p \in 1..sent : p \in 1..Len(sizes)
    BY <1>4
  <2>3. \A p \in 1..sent : PacketBytes(bytes, sizes, p) =
          SubSeq(bytes, Offset(sizes, p) + 1, Offset(sizes, p) + sizes[p])
    BY <2>2, PacketBytesIs, Zenon
  <2>4. QED
    BY <2>1, <2>3, Zenon
<1>8. QED
  BY <1>4, <1>5, <1>6, <1>7 DEF msgs

\* A message of several packets uses a control buffer: its index, taken after
\* the counter was increased, stays below the number of packets of the batch.
THEOREM ControlIndexInBatch ==
  ASSUME NEW m, NEW sizes \in Seq(Nat \ {0}),
         NEW i \in DOMAIN Messages(m, sizes), Messages(m, sizes)[i].gso_count > 1
  PROVE  ControlIndex(i) < Len(sizes)
<1> DEFINE msgs == Messages(m, sizes)
<1>1. Groups(msgs, sizes, Len(sizes))
  BY MessagesGroup
<1> HIDE DEF msgs
<1>2. msgs \in Seq(Msg) /\ Len(msgs) \in Nat /\ i \in 1..Len(msgs) /\ msgs[i].gso_count > 1
  <2>1. msgs \in Seq(Msg)
    BY <1>1 DEF Groups
  <2>2. QED
    BY <2>1 DEF msgs
<1>3. i - 1 \in 0..Len(msgs) /\ i \in Nat
  BY <1>2
<1>4. Through(msgs, i - 1) \in Nat /\ Through(msgs, i - 1) >= i - 1
  BY <1>2, <1>3, ThroughSteps, Zenon
<1>5. /\ msgs[i].gso_count \in Nat
      /\ Through(msgs, i - 1) + msgs[i].gso_count <= Len(sizes)
  BY <1>1, <1>2, RunSums
<1> DEFINE x == Through(msgs, i - 1)
           y == msgs[i].gso_count
           z == Len(sizes)
<1>6. x \in Nat /\ x >= i - 1 /\ y \in Nat /\ y > 1 /\ x + y <= z /\ z \in Nat
  BY <1>2, <1>4, <1>5
<1>7. i < z
  <2> HIDE DEF x, y, z
  <2>1. QED
    BY <1>3, <1>6
<1>8. QED
  BY <1>7 DEF ControlIndex

\* The packets of these sizes lie within the buffer.
Within(sizes, bytes) == \E size \in Nat : DOMAIN bytes = 1..size /\ Total(sizes) <= size

\* The i-th unsent packet has been moved to its place among the unsent ones.
MovedAt(bytes, sizes, sent, i) ==
  LET rest == UnsentSizes(sizes, sent)
  IN  /\ sent + i \in 1..Len(sizes)
      /\ rest[i] = sizes[sent + i]
      /\ Offset(rest, i) \in Nat
      /\ \A k \in 1..rest[i] :
           memmove(bytes, sizes, sent)[Offset(rest, i) + k] = bytes[Offset(sizes, sent + i) + k]

\* send_packets moves the bytes of each unsent packet to its place among the
\* unsent packets, for any number of packets sent.
THEOREM MovedToFront ==
  ASSUME NEW sizes \in Seq(Nat \ {0}), NEW sent \in 0..Len(sizes),
         NEW bytes, Within(sizes, bytes), NEW i \in 1..Len(UnsentSizes(sizes, sent))
  PROVE  MovedAt(bytes, sizes, sent, i)
<1>1. PICK size \in Nat : DOMAIN bytes = 1..size /\ Total(sizes) <= size
  BY DEF Within
<1> DEFINE rest == UnsentSizes(sizes, sent)
           n == Len(sizes) - sent
           o == SumTo(sizes)[sent]
<1>2. sizes \in Seq(Nat) /\ Len(sizes) \in Nat /\ \A j \in 1..Len(sizes) : sizes[j] \in Nat
  OBVIOUS
<1>3. sent \in Nat /\ n \in Nat /\ Len(sizes) = sent + n
  OBVIOUS
<1>4. rest \in Seq(Nat) /\ Len(rest) = n /\ \A j \in 1..n : rest[j] = sizes[sent + j]
  <2>1. /\ SubSeq(sizes, sent + 1, Len(sizes)) \in Seq(Nat)
        /\ Len(SubSeq(sizes, sent + 1, Len(sizes))) =
             IF sent + 1 <= Len(sizes) THEN Len(sizes) - (sent + 1) + 1 ELSE 0
        /\ \A j \in 1..(Len(sizes) - (sent + 1) + 1) :
             SubSeq(sizes, sent + 1, Len(sizes))[j] = sizes[(sent + 1) + j - 1]
    OBVIOUS
  <2>2. /\ Len(sizes) - (sent + 1) + 1 = n /\ (~(sent + 1 <= Len(sizes)) => n = 0)
        /\ \A j \in 1..n : (sent + 1) + j - 1 = sent + j
    <3> DEFINE z == Len(sizes)
    <3>1. z \in Nat /\ sent \in Nat /\ n \in Nat /\ z = sent + n
      OBVIOUS
    <3> HIDE DEF z, n
    <3>2. z - (sent + 1) + 1 = n
      BY <3>1
    <3>3. QED
      BY <3>2 DEF z
  <2>3. QED
    BY <2>1, <2>2, Zenon DEF UnsentSizes
<1> HIDE DEF rest, n
<1>5. i \in 1..n /\ i - 1 \in 0..n /\ i \in 0..n /\ n \in 0..n /\ sent + i \in 1..Len(sizes)
      /\ (sent + i) - 1 = sent + (i - 1)
  <2>1. i \in 1..n
    BY <1>4 DEF rest
  <2>2. QED
    BY <1>3, <2>1
<1>6. \A j \in 0..n : o + SumTo(rest)[j] = SumTo(sizes)[sent + j]
  BY <1>2, <1>3, <1>4, SumShift, Zenon
<1>7. o \in Nat /\ \A j \in 0..n : SumTo(rest)[j] \in Nat
  BY <1>2, <1>4, SumSteps, Zenon
<1>8. /\ Offset(rest, i) = SumTo(rest)[i - 1] /\ Offset(rest, i) \in Nat
      /\ o + Offset(rest, i) = Offset(sizes, sent + i)
      /\ rest[i] = sizes[sent + i] /\ rest[i] \in Nat
  BY <1>2, <1>4, <1>5, <1>6, <1>7, Zenon DEF Offset
<1>9. o + Total(rest) = Total(sizes) /\ Total(rest) \in Nat
  BY <1>3, <1>4, <1>6, <1>7 DEF Total
<1>10. Offset(rest, i) + rest[i] <= Total(rest)
  <2>1. i \in 1..Len(rest) /\ i \in 0..Len(rest) /\ Len(rest) \in i..Len(rest)
    BY <1>4, <1>5
  <2>2. SumTo(rest)[i] = SumTo(rest)[i - 1] + rest[i]
    BY <1>4, <2>1, SumSteps, Zenon
  <2>3. SumTo(rest)[i] <= SumTo(rest)[Len(rest)]
    BY <1>4, <2>1, SumMonotonic, Zenon
  <2>4. QED
    BY <1>8, <2>2, <2>3 DEF Total
<1>11. ASSUME NEW k \in 1..rest[i]
       PROVE  memmove(bytes, sizes, sent)[Offset(rest, i) + k] = bytes[Offset(sizes, sent + i) + k]
  <2> DEFINE at == Offset(rest, i) + k
  <2>1. Total(sizes) - o = Total(rest)
    BY <1>7, <1>9
  <2>2. at <= Total(rest) /\ at \in 1..size /\ at + o = Offset(sizes, sent + i) + k
    <3> DEFINE x == Offset(rest, i)
               y == Total(rest)
               z == Total(sizes)
               w == Offset(sizes, sent + i)
               r == rest[i]
    <3>1. /\ x \in Nat /\ y \in Nat /\ o \in Nat /\ r \in Nat /\ k \in 1..r
          /\ o + x = w /\ o + y = z /\ z <= size /\ x + r <= y
      BY <1>1, <1>7, <1>8, <1>9, <1>10
    <3> HIDE DEF x, y, z, w, r, o
    <3>2. x + k <= y /\ x + k \in 1..size /\ (x + k) + o = w + k
      BY <3>1
    <3>3. QED
      BY <3>2 DEF x, y, z, w, r, o
  <2> HIDE DEF at
  <2>3. memmove(bytes, sizes, sent)[at] = bytes[at + o]
    BY <1>1, <2>1, <2>2 DEF memmove
  <2>4. QED
    BY <2>2, <2>3 DEF at
<1>12. QED
  BY <1>5, <1>8, <1>11 DEF rest, MovedAt

\* A packet more: the others stay where they are, and it goes behind them.
LEMMA AppendSizes ==
  ASSUME NEW sizes \in Seq(Nat), NEW size \in Nat
  PROVE  LET more == Append(sizes, size)
         IN  /\ more \in Seq(Nat) /\ Len(more) = Len(sizes) + 1 /\ Len(sizes) \in Nat
             /\ more[Len(sizes) + 1] = size /\ \A i \in 1..Len(sizes) : more[i] = sizes[i]
             /\ Total(more) = Total(sizes) + size
             /\ \A i \in 1..Len(sizes) : Offset(more, i) = Offset(sizes, i)
             /\ Offset(more, Len(sizes) + 1) = Total(sizes)
<1> DEFINE more == Append(sizes, size)
           n == Len(sizes)
<1>1. /\ more \in Seq(Nat) /\ Len(more) = n + 1 /\ n \in Nat
      /\ more[n + 1] = size /\ \A i \in 1..n : more[i] = sizes[i]
  OBVIOUS
<1> HIDE DEF more
<1>2. \A i \in 0..n : SumTo(more)[i] = SumTo(sizes)[i]
  <2>1. n \in Nat /\ n <= Len(more) /\ n <= Len(sizes)
    BY <1>1
  <2>2. QED
    BY <1>1, <2>1, SumPrefix, Zenon
<1>3. n + 1 \in 1..Len(more) /\ (n + 1) - 1 = n /\ n \in 0..n /\ \A i \in 1..n : i - 1 \in 0..n
  BY <1>1
<1>4. SumTo(more)[n + 1] = SumTo(more)[n] + size
  BY <1>1, SumSteps
<1>5. Total(more) = Total(sizes) + size
  BY <1>1, <1>2, <1>3, <1>4 DEF Total
<1>6. \A i \in 1..n : Offset(more, i) = Offset(sizes, i)
  BY <1>2 DEF Offset
<1>7. Offset(more, n + 1) = Total(sizes)
  BY <1>2 DEF Offset, Total
<1>8. QED
  BY <1>5, <1>6, <1>7 DEF more

\* What is left of the sizes when the first packets were sent.
LEMMA UnsentIs ==
  ASSUME NEW S, NEW sizes \in Seq(S), NEW sent \in 0..Len(sizes)
  PROVE  UnsentSizes(sizes, sent) \in Seq(S) /\ Len(UnsentSizes(sizes, sent)) = Len(sizes) - sent
<1> DEFINE n == Len(sizes)
           rest == SubSeq(sizes, sent + 1, n)
<1>1. QED
  BY DEF UnsentSizes

\* Moving the rest to the front reads and writes only inside the buffer.
LEMMA MoveType ==
  ASSUME NEW sizes \in Seq(Nat), NEW sent \in 0..Len(sizes), NEW N \in Nat, NEW V,
         NEW b \in [1..N -> V], Total(sizes) <= N
  PROVE  memmove(b, sizes, sent) \in [1..N -> V]
<1> DEFINE o == SumTo(sizes)[sent]
           t == Total(sizes)
<1>1. o \in Nat /\ t \in Nat
  <2>1. Len(sizes) \in 0..Len(sizes)
    OBVIOUS
  <2>2. QED
    BY <2>1, SumSteps, Zenon DEF Total
<1>2. t <= N
  OBVIOUS
<1> HIDE DEF o, t
<1>3. \A i \in 1..N : i <= t - o => i + o \in 1..N
  BY <1>1, <1>2
<1>4. memmove(b, sizes, sent) = [i \in 1..N |-> IF i <= t - o THEN b[i + o] ELSE b[i]]
  BY DEF memmove, o, t
<1>5. QED
  BY <1>3, <1>4

-----------------------------------------------------------------------------
\* The datagrams of the first k packets.
Bytes(b, sizes, k) ==
  [p \in 1..k |-> SubSeq(b, Offset(sizes, p) + 1, Offset(sizes, p) + sizes[p])]

\* There are k of them.
LEMMA BytesLen ==
  ASSUME NEW b, NEW sizes, NEW k \in Nat
  PROVE  Len(Bytes(b, sizes, k)) = k
<1> DEFINE f == Bytes(b, sizes, k)
           S == {f[p] : p \in 1..k}
<1>1. f = [i \in 1..k |-> f[i]] /\ \A i \in 1..k : f[i] \in S
  BY Zenon DEF Bytes
<1> HIDE DEF f
<1>2. QED
  BY <1>1, MakeSeq, Zenon DEF f

\* The packets of the given sizes lie in the buffer b, whole and one after the
\* other, each with the size ngtcp2 gave it.
Holds(b, sizes, psizes) ==
  \A i \in 1..Len(sizes) :
    LET at == Offset(sizes, i)
        id == b[at + 1][1]
    IN  /\ id \in 1..Len(psizes) /\ psizes[id] = sizes[i]
        /\ \A k \in 1..sizes[i] : b[at + k] = <<id, k>>

\* The packets ngtcp2 wrote, of the given sizes.
PacketOf(psizes, id) == [k \in 1..psizes[id] |-> <<id, k>>]
PacketsOf(psizes) == {PacketOf(psizes, id) : id \in 1..Len(psizes)}

\* The bytes of a packet in the buffer are the packet.
LEMMA WaitingPacket ==
  ASSUME NEW sizes \in Seq(Nat \ {0}), NEW ps, NEW b, Holds(b, sizes, ps),
         NEW p \in 1..Len(sizes)
  PROVE  LET at == Offset(sizes, p)
         IN  /\ b[at + 1][1] \in 1..Len(ps)
             /\ SubSeq(b, at + 1, at + sizes[p]) = PacketOf(ps, b[at + 1][1])
             /\ b[at + 1] = <<b[at + 1][1], 1>>
<1> DEFINE at == Offset(sizes, p)
           id == b[at + 1][1]
           c == sizes[p]
           q == SubSeq(b, at + 1, at + c)
           S == {b[at + k] : k \in 1..c}
<1>1. at \in Nat /\ c \in Nat /\ c > 0
  BY PacketBytesIs
<1>2. id \in 1..Len(ps) /\ ps[id] = c /\ \A k \in 1..c : b[at + k] = <<id, k>>
  BY DEF Holds
<1> HIDE DEF at, id, c
<1>3. \A i \in (at + 1)..(at + c) : b[i] \in S
  <2> SUFFICES ASSUME NEW i \in (at + 1)..(at + c) PROVE b[i] \in S
    OBVIOUS
  <2>1. i - at \in 1..c /\ at + (i - at) = i
    BY <1>1
  <2>2. QED
    BY <2>1
<1> HIDE DEF S
<1>4. at + 1 \in Int /\ at + c \in Int
  BY <1>1
<1>5. /\ q \in Seq(S)
      /\ Len(q) = IF at + 1 <= at + c THEN (at + c) - (at + 1) + 1 ELSE 0
      /\ \A i \in 1..((at + c) - (at + 1) + 1) : q[i] = b[(at + 1) + i - 1]
  BY <1>1, <1>3
<1> HIDE DEF q
<1>6. at + 1 <= at + c /\ ((at + c) - (at + 1)) + 1 = c /\ \A i \in 1..c : (at + 1) + i - 1 = at + i
  BY <1>1
<1>7. Len(q) = c /\ \A i \in 1..c : q[i] = <<id, i>>
  BY <1>2, <1>5, <1>6, Zenon
<1>8. q = [k \in 1..c |-> <<id, k>>]
  <2>1. q = [k \in 1..c |-> q[k]]
    BY <1>5, <1>7
  <2>2. QED
    BY <1>7, <2>1
<1>9. QED
  BY <1>2, <1>8 DEF PacketOf, at, id, c, q

\* What a send puts on the wire are packets.
LEMMA SentPackets ==
  ASSUME NEW sizes \in Seq(Nat \ {0}), NEW ps, NEW b, Holds(b, sizes, ps),
         NEW n \in 0..Len(sizes)
  PROVE  Bytes(b, sizes, n) \in Seq(PacketsOf(ps))
<1> DEFINE f == Bytes(b, sizes, n)
           P == PacketsOf(ps)
<1>1. n \in Nat /\ \A i \in 1..n : i \in 1..Len(sizes)
  OBVIOUS
<1>2. ASSUME NEW i \in 1..n PROVE f[i] \in P
  <2> DEFINE at == Offset(sizes, i)
             id == b[at + 1][1]
  <2>1. id \in 1..Len(ps) /\ SubSeq(b, at + 1, at + sizes[i]) = PacketOf(ps, id)
    BY WaitingPacket
  <2>2. f[i] = SubSeq(b, at + 1, at + sizes[i])
    BY Zenon DEF Bytes
  <2> HIDE DEF f, at, id
  <2>3. QED
    BY <2>1, <2>2, Zenon DEF PacketsOf
<1>3. f = [i \in 1..n |-> f[i]]
  BY Zenon DEF Bytes
<1> HIDE DEF f, P
<1>4. f \in Seq(P)
  BY <1>1, <1>2, <1>3, MakeSeq, Zenon
<1>5. QED
  BY <1>4 DEF f, P

\* The packets that are moved to the front stay whole.
LEMMA MovedHolds ==
  ASSUME NEW sizes \in Seq(Nat \ {0}), NEW sent \in 0..Len(sizes), NEW ps,
         NEW b, Within(sizes, b), Holds(b, sizes, ps)
  PROVE  Holds(memmove(b, sizes, sent), UnsentSizes(sizes, sent), ps)
<1> DEFINE b2 == memmove(b, sizes, sent)
           rest == UnsentSizes(sizes, sent)
<1> SUFFICES ASSUME NEW i \in 1..Len(rest)
             PROVE  LET at == Offset(rest, i)
                        id == b2[at + 1][1]
                    IN  /\ id \in 1..Len(ps) /\ ps[id] = rest[i]
                        /\ \A k \in 1..rest[i] : b2[at + k] = <<id, k>>
  BY Zenon DEF Holds
<1> DEFINE at == Offset(rest, i)
           from == Offset(sizes, sent + i)
           c == rest[i]
           id == b[from + 1][1]
<1>1. /\ sent + i \in 1..Len(sizes) /\ c = sizes[sent + i]
      /\ \A k \in 1..c : b2[at + k] = b[from + k]
  <2>1. MovedAt(b, sizes, sent, i)
    BY MovedToFront
  <2>2. QED
    BY <2>1, Zenon DEF MovedAt
<1>2. id \in 1..Len(ps) /\ ps[id] = c /\ \A k \in 1..c : b[from + k] = <<id, k>>
  BY <1>1, Zenon DEF Holds
<1>3. 1 \in 1..c
  <2>1. c \in Nat \ {0}
    BY <1>1
  <2> HIDE DEF c
  <2>2. QED
    BY <2>1
<1> HIDE DEF b2, rest, at, from, c
<1>4. b2[at + 1][1] = id
  BY <1>1, <1>3
<1>5. b2[at + 1][1] \in 1..Len(ps) /\ ps[b2[at + 1][1]] = c /\ \A k \in 1..c : b2[at + k] = <<b2[at + 1][1], k>>
  BY <1>1, <1>2, <1>4, Zenon
<1>6. QED
  BY <1>5 DEF at, c

\* The buffer after a packet of the given number was written behind pos bytes.
Filled(b, pos, size, id) ==
  [i \in DOMAIN b |-> IF i \in (pos + 1)..(pos + size) THEN <<id, i - pos>> ELSE b[i]]

\* A packet that is written behind the others leaves them whole.
LEMMA WrittenHolds ==
  ASSUME NEW sizes \in Seq(Nat \ {0}), NEW ps \in Seq(Nat), NEW size \in Nat \ {0},
         NEW b, NEW N \in Nat, DOMAIN b = 1..N, Total(sizes) + size <= N, Holds(b, sizes, ps)
  PROVE  Holds(Filled(b, Total(sizes), size, Len(ps) + 1), Append(sizes, size), Append(ps, size))
<1> DEFINE n == Len(sizes)
           tot == Total(sizes)
           L == Len(ps)
           b2 == Filled(b, tot, size, L + 1)
           more == Append(sizes, size)
           ps2 == Append(ps, size)
<1>1. /\ n \in Nat /\ Len(more) = n + 1 /\ more[n + 1] = size
      /\ \A i \in 1..n : more[i] = sizes[i] /\ Offset(more, i) = Offset(sizes, i)
      /\ Offset(more, n + 1) = tot
  <2>1. sizes \in Seq(Nat) /\ size \in Nat
    OBVIOUS
  <2>2. QED
    BY <2>1, AppendSizes
<1>2. L \in Nat /\ Len(ps2) = L + 1 /\ ps2[L + 1] = size /\ \A i \in 1..L : ps2[i] = ps[i]
  OBVIOUS
<1>3. tot \in Nat
  <2>1. sizes \in Seq(Nat) /\ n \in 0..n
    OBVIOUS
  <2>2. QED
    BY <2>1, SumSteps DEF Total
<1>4. DOMAIN b = 1..N /\ tot + size <= N
  OBVIOUS
<1>5. \A j \in 1..N : j <= tot => b2[j] = b[j]
  BY <1>3 DEF Filled
<1>6. \A k \in 1..size : b2[tot + k] = <<L + 1, k>>
  <2> SUFFICES ASSUME NEW k \in 1..size PROVE b2[tot + k] = <<L + 1, k>>
    OBVIOUS
  <2> HIDE DEF tot
  <2>1. tot + k \in 1..N /\ tot + k \in (tot + 1)..(tot + size) /\ (tot + k) - tot = k
    BY <1>3, <1>4
  <2>2. b2[tot + k] = <<L + 1, (tot + k) - tot>>
    BY <2>1 DEF Filled
  <2>3. QED
    BY <2>1, <2>2
<1> HIDE DEF b2, more, ps2, tot, L, n
<1>7. ASSUME NEW i \in 1..n
      PROVE  LET at == Offset(more, i)
                 id == b2[at + 1][1]
             IN  /\ id \in 1..Len(ps2) /\ ps2[id] = more[i]
                 /\ \A k \in 1..more[i] : b2[at + k] = <<id, k>>
  <2> DEFINE at == Offset(sizes, i)
             c == sizes[i]
             id == b[at + 1][1]
  <2>1. at = Offset(more, i) /\ c = more[i]
    BY <1>1
  <2>2. at \in Nat /\ c \in Nat /\ c > 0 /\ at + c <= tot
    BY PacketBytesIs DEF n, tot
  <2>3. id \in 1..L /\ ps[id] = c /\ \A k \in 1..c : b[at + k] = <<id, k>>
    BY DEF Holds, n, L
  <2> HIDE DEF at, c, id
  <2>4. \A k \in 1..c : b2[at + k] = <<id, k>>
    <3> SUFFICES ASSUME NEW k \in 1..c PROVE b2[at + k] = <<id, k>>
      OBVIOUS
    <3>1. at + k \in 1..N /\ at + k <= tot
      BY <1>3, <1>4, <2>2
    <3>2. QED
      BY <1>5, <2>3, <3>1
  <2>5. b2[at + 1][1] = id
    <3>1. 1 \in 1..c
      BY <2>2
    <3>2. QED
      BY <2>4, <3>1
  <2>6. id \in 1..Len(ps2) /\ ps2[id] = c
    BY <1>2, <2>3
  <2>7. QED
    BY <2>1, <2>4, <2>5, <2>6
<1>8. LET at == Offset(more, n + 1)
          id == b2[at + 1][1]
      IN  /\ id \in 1..Len(ps2) /\ ps2[id] = more[n + 1]
          /\ \A k \in 1..more[n + 1] : b2[at + k] = <<id, k>>
  BY <1>1, <1>2, <1>6
<1>9. \A i \in 1..Len(more) : i \in 1..n \/ i = n + 1
  BY <1>1
<1>10. Holds(b2, more, ps2)
  BY <1>7, <1>8, <1>9, Zenon DEF Holds
<1>11. QED
  BY <1>10 DEF b2, more, ps2, tot, L

\* The packets written so far are still packets.
LEMMA PacketsGrow ==
  ASSUME NEW ps \in Seq(Nat), NEW size \in Nat
  PROVE  PacketsOf(ps) \subseteq PacketsOf(Append(ps, size))
<1> DEFINE L == Len(ps)
           ps2 == Append(ps, size)
<1>1. L \in Nat /\ Len(ps2) = L + 1 /\ \A i \in 1..L : ps2[i] = ps[i]
  OBVIOUS
<1> HIDE DEF L, ps2
<1>2. ASSUME NEW id \in 1..L PROVE id \in 1..Len(ps2) /\ PacketOf(ps, id) = PacketOf(ps2, id)
  BY <1>1 DEF PacketOf
<1> HIDE DEF PacketOf
<1>3. QED
  BY <1>2 DEF PacketsOf, L, ps2
-----------------------------------------------------------------------------
Steps == {"idle", "write", "batch", "final", "schedule"}

\* The buffer: its size, the number of packets in it, where the next one goes.
BufferInv ==
  /\ mode \in Modes /\ pc \in Steps
  /\ send_buffer_size \in Seq(Sizes) /\ packet_sizes \in Seq(Sizes)
  /\ buf \in [1..(MaxSize * MaxBatch(mode)) -> Nat \X Nat]
  /\ n_packets <= MaxBatch(mode)
  /\ pc = "write" => n_packets < MaxBatch(mode) /\ buf_pos = Total(send_buffer_size)

\* The packets that wait in the buffer and those on the wire.
PacketInv ==
  /\ Holds(buf, send_buffer_size, packet_sizes)
  /\ datagrams \in Seq(PacketsOf(packet_sizes))

\* What the steps shared with Transmit rely on.
SharedInv ==
  /\ queue \in Nat
  /\ pc # "idle" => cur = Conn
  /\ callbacks \in Seq({Conn}) /\ running \in Seq({Conn})
  /\ io_trigger \in [{Conn} -> BOOLEAN] /\ timer \in [{Conn} -> BOOLEAN]
-----------------------------------------------------------------------------
\* The numbers of the packets in the buffer, and of the packets that datagrams
\* are.
IdsIn(b, sizes) == [i \in 1..Len(sizes) |-> b[Offset(sizes, i) + 1][1]]
IdsOf(dgrams) == [i \in DOMAIN dgrams |-> dgrams[i][1][1]]

\* There are as many numbers as packets in the buffer.
LEMMA IdsInLen ==
  ASSUME NEW b, NEW sizes, Len(sizes) \in Nat
  PROVE  /\ IdsIn(b, sizes) \in Seq({IdsIn(b, sizes)[i] : i \in 1..Len(sizes)})
         /\ Len(IdsIn(b, sizes)) = Len(sizes)
<1> DEFINE n == Len(sizes)
           f == IdsIn(b, sizes)
           S == {f[i] : i \in 1..n}
<1>1. f = [i \in 1..n |-> f[i]] /\ \A i \in 1..n : f[i] \in S
  BY Zenon DEF IdsIn
<1>2. n \in Nat
  OBVIOUS
<1> HIDE DEF f, n
<1>3. f \in Seq(S) /\ Len(f) = n
  BY <1>1, <1>2, MakeSeq, Zenon
<1>4. QED
  BY <1>3 DEF f, n

\* The largest packet size is one, and no size is zero.
LEMMA SizeFacts ==
  /\ MaxSize \in Sizes /\ MaxSize \in Nat /\ MaxSize > 0
  /\ Sizes \subseteq Nat \ {0} /\ \A m \in Sizes : m <= MaxSize
<1>1. PICK n \in Sizes : \A m \in Sizes : m <= n
  BY SizesAssumption
<1>2. MaxSize \in Sizes /\ \A m \in Sizes : m <= MaxSize
  BY <1>1 DEF MaxSize
<1> HIDE DEF MaxSize
<1>3. QED
  BY <1>2, SizesAssumption

\* A batch holds at least one packet and at most DATAGRAM_BATCH_SIZE.
LEMMA BatchIs ==
  ASSUME NEW m
  PROVE  MaxBatch(m) \in Nat /\ MaxBatch(m) > 0 /\ MaxBatch(m) <= DATAGRAM_BATCH_SIZE
BY BatchSizeAssumption DEF MaxBatch

\* Packets that are no more than b fit in b times the largest size, and fewer
\* than b leave room for one more.
LEMMA Fits ==
  ASSUME NEW sizes \in Seq(Sizes), NEW b \in Nat
  PROVE  /\ sizes \in Seq(Nat) /\ sizes \in Seq(Nat \ {0}) /\ Len(sizes) \in Nat
         /\ Total(sizes) \in Nat /\ MaxSize * b \in Nat
         /\ Len(sizes) <= b => Total(sizes) <= MaxSize * b
         /\ Len(sizes) < b => Total(sizes) + MaxSize <= MaxSize * b
<1> DEFINE n == Len(sizes)
           M == MaxSize
           t == Total(sizes)
<1>1. sizes \in Seq(Nat) /\ sizes \in Seq(Nat \ {0}) /\ n \in Nat
  <2>1. Sizes \subseteq Nat /\ Sizes \subseteq Nat \ {0}
    BY SizeFacts
  <2>2. QED
    BY <2>1, SeqOver, Zenon
<1>2. M \in Nat /\ \A i \in 1..n : sizes[i] <= M
  <2>1. \A i \in 1..n : sizes[i] \in Sizes
    BY SeqOver, Zenon
  <2>2. QED
    BY <2>1, SizeFacts, Zenon
<1> HIDE DEF n, M
<1>3. n \in 0..n
  BY <1>1
<1>4. t \in Nat
  BY <1>1, <1>3, SumSteps, Zenon DEF Total, n
<1>5. t <= n * M
  BY <1>1, <1>2, <1>3, SumBounds, Zenon DEF Total, n
<1> HIDE DEF t
<1>6. n * M \in Nat /\ (n + 1) * M = n * M + M /\ b * M \in Nat
  BY <1>1, <1>2
<1>7. n <= b => n * M <= b * M
  BY <1>1, <1>2
<1>8. n < b => (n + 1) * M <= b * M
  <2>1. n < b => n + 1 \in Nat /\ n + 1 <= b
    BY <1>1
  <2>2. QED
    BY <1>2, <2>1
<1>9. b * M = M * b
  BY <1>2
<1> DEFINE x == n * M
           y == b * M
<1>10. /\ x \in Nat /\ y \in Nat /\ t <= x /\ (n <= b => x <= y) /\ (n < b => x + M <= y)
  BY <1>5, <1>6, <1>7, <1>8
<1>11. (n <= b => t <= y) /\ (n < b => t + M <= y)
  <2> HIDE DEF x, y
  <2>1. QED
    BY <1>2, <1>4, <1>10
<1>12. QED
  BY <1>1, <1>4, <1>6, <1>9, <1>11 DEF n, M, t

-----------------------------------------------------------------------------
\* However many messages the kernel takes of a batch, the packets in them are
\* the first ones and become datagrams; it takes one only if its buffer has
\* room.
LEMMA TakeIs ==
  ASSUME send_buffer_size \in Seq(Nat \ {0}), queue \in Nat, NEW taken, Take(taken)
  PROVE  /\ SentOf(taken) \in 0..n_packets /\ taken \in Nat
         /\ SentOf(taken) = 0 <=> taken = 0
         /\ taken # 0 => queue < SocketBuffer
         /\ datagrams' = datagrams \o Bytes(buf, send_buffer_size, SentOf(taken))
         /\ queue' = queue + SentOf(taken)
<1> DEFINE msgs == Messages(mode, send_buffer_size)
           sent == SentOf(taken)
           new == Datagrams(buf, SubSeq(msgs, 1, taken))
<1>1. taken \in 0..Len(msgs) /\ Len(msgs) \in Nat
  <2>1. taken \in 0..Len(msgs)
    BY DEF Take
  <2>2. QED
    BY <2>1
<1>2. /\ sent \in 0..n_packets /\ (sent = 0 <=> taken = 0)
      /\ new = Bytes(buf, send_buffer_size, sent)
  BY <1>1, DatagramsArePackets DEF SentOf, n_packets, Bytes
<1>3. Len(new) = sent
  BY <1>2, BytesLen
<1>4. datagrams' = datagrams \o new /\ queue' = queue + Len(new)
  BY DEF Take
<1>5. ASSUME taken # 0 PROVE queue < SocketBuffer
  <2> DEFINE none == Datagrams(buf, SubSeq(msgs, 1, 0))
             sent0 == Sent(msgs, 0)
  <2>1. sent0 = 0 /\ none = Bytes(buf, send_buffer_size, sent0)
    BY DatagramsArePackets DEF Bytes
  <2>2. Len(none) = 0
    BY <2>1, BytesLen
  <2>3. 1 \in 1..taken /\ 1 - 1 = 0
    BY <1>1, <1>5
  <2>4. queue + Len(none) < SocketBuffer
    BY <2>3, Zenon DEF Take
  <2>5. QED
    BY <2>2, <2>4
<1>6. taken \in Nat
  BY <1>1
<1>7. datagrams' = datagrams \o Bytes(buf, send_buffer_size, sent) /\ queue' = queue + sent
  <2> HIDE DEF new, sent
  <2>1. QED
    BY <1>2, <1>3, <1>4, Zenon
<1>8. QED
  BY <1>2, <1>5, <1>6, <1>7, Zenon

\* A send that leaves nothing.
LEMMA SendDoneIs ==
  ASSUME send_buffer_size \in Seq(Nat \ {0}), queue \in Nat, SendDone
  PROVE  /\ n_packets \in Nat /\ n_packets > 0 /\ queue < SocketBuffer
         /\ datagrams' = datagrams \o Bytes(buf, send_buffer_size, n_packets)
         /\ queue' = queue + n_packets
         /\ send_buffer_size' = <<>>
         /\ UNCHANGED <<buf, dropped, callbacks, wev>>
<1>1. n_packets \in Nat
  BY DEF n_packets
<1>2. PICK taken \in 1..n_packets : Take(taken) /\ SentOf(taken) = n_packets
  BY DEF SendDone
<1>3. /\ taken # 0 => queue < SocketBuffer
      /\ datagrams' = datagrams \o Bytes(buf, send_buffer_size, SentOf(taken))
      /\ queue' = queue + SentOf(taken)
  BY <1>2, TakeIs, Zenon
<1>4. send_buffer_size' = <<>> /\ UNCHANGED <<buf, dropped, callbacks, wev>>
  BY DEF SendDone
<1>5. QED
  BY <1>1, <1>2, <1>3, <1>4

\* A send that is blocked after some packets.
SendsFirst(sent) ==
  /\ sent \in 0..(n_packets - 1) /\ sent \in 0..n_packets
  /\ sent = 0 <=> queue >= SocketBuffer
  /\ datagrams' = datagrams \o Bytes(buf, send_buffer_size, sent)
  /\ queue' = queue + sent
  /\ buf' = memmove(buf, send_buffer_size, sent)
  /\ send_buffer_size' = UnsentSizes(send_buffer_size, sent)

\* It sends none of them only if the kernel's buffer was full.
LEMMA SendBlockedIs ==
  ASSUME send_buffer_size \in Seq(Nat \ {0}), queue \in Nat, SendBlocked
  PROVE  /\ \E sent \in Nat : SendsFirst(sent)
         /\ T(1)!when_writeable(Conn) /\ UNCHANGED dropped
<1>1. n_packets \in Nat
  BY DEF n_packets
<1>2. PICK taken \in 0..n_packets :
        /\ Take(taken) /\ SentOf(taken) < n_packets
        /\ taken = 0 => queue >= SocketBuffer
        /\ buf' = memmove(buf, send_buffer_size, SentOf(taken))
        /\ send_buffer_size' = UnsentSizes(send_buffer_size, SentOf(taken))
  BY DEF SendBlocked
<1> DEFINE sent == SentOf(taken)
<1>3. /\ sent \in 0..n_packets
      /\ sent = 0 <=> taken = 0
      /\ taken # 0 => queue < SocketBuffer
      /\ datagrams' = datagrams \o Bytes(buf, send_buffer_size, sent)
      /\ queue' = queue + sent
  BY <1>2, TakeIs
<1>4. sent < n_packets
  BY <1>2
<1> HIDE DEF sent
<1>5. sent \in Nat /\ sent \in 0..(n_packets - 1)
  BY <1>1, <1>3, <1>4
<1>6. sent = 0 <=> queue >= SocketBuffer
  <2>1. queue < SocketBuffer => ~(queue >= SocketBuffer)
    BY LimitsAssumption
  <2>2. taken = 0 => queue >= SocketBuffer
    BY <1>2
  <2>3. QED
    BY <1>3, <2>1, <2>2, Zenon
<1>7. SendsFirst(sent)
  BY <1>2, <1>3, <1>5, <1>6 DEF SendsFirst, sent
<1>8. T(1)!when_writeable(Conn) /\ UNCHANGED dropped
  BY Zenon DEF SendBlocked
<1>9. QED
  BY <1>5, <1>7, <1>8
-----------------------------------------------------------------------------
\* send_buffer as Transmit sees it: the numbers of the packets.
Numbers == IdsIn(buf, send_buffer_size)

\* Transmit's fields are those of one connection.
LEMMA FieldsAre ==
  /\ Waiting = [c \in {Conn} |-> Numbers] /\ Waiting' = [c \in {Conn} |-> Numbers']
  /\ Wire = [c \in {Conn} |-> IdsOf(datagrams)] /\ Wire' = [c \in {Conn} |-> IdsOf(datagrams')]
BY Zenon DEF Waiting, Wire, Numbers, IdsIn, IdsOf, n_packets, PacketAt

\* Transmit counts the same packets.
LEMMA CountIs ==
  ASSUME NEW b, n_packets \in Nat
  PROVE  T(b)!n_packets(Conn) = n_packets
<1>1. Len(Numbers) = n_packets
  BY IdsInLen, Zenon DEF Numbers, n_packets
<1>2. Waiting[Conn] = Numbers
  BY FieldsAre
<1>3. QED
  BY <1>1, <1>2 DEF T!n_packets

\* on_io_ready starts flush_streams, or returns from it if packets are left.
LEMMA OnIoReadyIs ==
  ASSUME n_packets \in Nat, OnIoReady
  PROVE  /\ pc = "idle" /\ running = <<>>
         /\ cur' = Conn /\ stream_packets' = 0
         /\ pc' = IF n_packets > 0 THEN "schedule" ELSE "write"
         /\ UNCHANGED <<callbacks, running, wev, queue>>
         /\ \/ UNCHANGED timer /\ io_trigger' = [io_trigger EXCEPT ![Conn] = FALSE]
            \/ UNCHANGED io_trigger /\ timer' = [timer EXCEPT ![Conn] = FALSE]
<1>1. T(1)!n_packets(Conn) = n_packets
  BY CountIs
<1>2. pc = "idle" /\ running = <<>>
  BY DEF OnIoReady, T!Idle
<1>3. CASE T(1)!IoTrigger(Conn)
  BY <1>1, <1>2, <1>3 DEF T!IoTrigger, T!on_io_ready, T!sockVars
<1>4. CASE T(1)!RetransmitTimer(Conn)
  BY <1>1, <1>2, <1>4 DEF T!RetransmitTimer, T!on_io_ready, T!sockVars
<1>5. QED
  BY <1>3, <1>4 DEF OnIoReady

\* The steps of libevent and the kernel.
LEMMA EnvironmentIs ==
  ASSUME Environment
  PROVE  /\ UNCHANGED <<mode, streamVars, loopVars, bufVars, timer, pc, cur, stream_packets>>
         /\ \/ io_trigger' = [io_trigger EXCEPT ![Conn] = TRUE] /\ UNCHANGED <<callbacks, running, queue>>
            \/ UNCHANGED <<io_trigger, callbacks, running, queue>>
            \/ UNCHANGED <<io_trigger, queue>> /\ running' = callbacks /\ callbacks' = <<>>
            \/ UNCHANGED <<io_trigger, callbacks, running>> /\ queue > 0 /\ queue' = queue - 1
<1>1. UNCHANGED <<mode, streamVars, loopVars, bufVars>>
  BY DEF Environment
<1>2. CASE T(1)!io_ready(Conn)
  BY <1>1, <1>2 DEF T!io_ready, T!flushVars, T!sockVars
<1>3. CASE T(1)!Poll
  BY <1>1, <1>3 DEF T!Poll, T!flushVars
<1>4. CASE T(1)!Writeable
  BY <1>1, <1>4 DEF T!Writeable, T!flushVars
<1>5. CASE T(1)!Drain
  BY <1>1, <1>5 DEF T!Drain, T!flushVars
<1>6. QED
  BY <1>2, <1>3, <1>4, <1>5, Zenon DEF Environment

\* schedule_retransmit ends on_io_ready.
LEMMA ScheduleIs ==
  ASSUME schedule_retransmit
  PROVE  /\ pc = "schedule" /\ cur = Conn
         /\ pc' = "idle" /\ cur' = NoConn /\ stream_packets' = 0
         /\ UNCHANGED <<io_trigger, callbacks, running, wev, queue>>
         /\ \E armed \in {FALSE, TRUE, timer[Conn]} : timer' = [timer EXCEPT ![Conn] = armed]
BY Zenon DEF schedule_retransmit, T!schedule_retransmit, T!sockVars
-----------------------------------------------------------------------------
\* What a step does to the buffer.  It leaves the packets alone, and the loop
\* starts only with an empty buffer;
Keeps ==
  /\ UNCHANGED <<mode, buf, send_buffer_size, packet_sizes, datagrams>>
  /\ pc' = "write" => (pc = "write" /\ UNCHANGED buf_pos) \/ (n_packets = 0 /\ buf_pos' = 0)

\* or it empties the buffer, all packets having been sent or dropped;
Empties ==
  /\ UNCHANGED <<mode, buf, packet_sizes>>
  /\ send_buffer_size' = <<>>
  /\ \/ datagrams' = datagrams \o Bytes(buf, send_buffer_size, n_packets)
     \/ UNCHANGED datagrams
  /\ pc' = "write" => buf_pos' = 0

\* or it sends the first packets and moves the others;
Moves ==
  /\ UNCHANGED <<mode, packet_sizes>>
  /\ \E sent \in Nat : SendsFirst(sent)
  /\ pc' # "write"

\* or it writes one more packet.
Writes(size) ==
  /\ pc = "write"
  /\ UNCHANGED <<mode, datagrams>>
  /\ buf' = Filled(buf, buf_pos, size, Len(packet_sizes) + 1)
  /\ buf_pos' = buf_pos + size
  /\ send_buffer_size' = Append(send_buffer_size, size)
  /\ packet_sizes' = Append(packet_sizes, size)
  /\ pc' = "write" => n_packets + 1 # MaxBatch(mode)

BufferStep == pc' \in Steps /\ (Keeps \/ Empties \/ Moves \/ \E size \in Sizes : Writes(size))

\* Every step does one of these.
LEMMA BufferSteps ==
  ASSUME BufferInv, SharedInv, [Next]_vars
  PROVE  BufferStep
<1> USE DEF BufferStep
<1>1. /\ send_buffer_size \in Seq(Nat \ {0}) /\ queue \in Nat /\ n_packets \in Nat /\ pc \in Steps
  <2>1. send_buffer_size \in Seq(Sizes) /\ queue \in Nat /\ pc \in Steps
    BY DEF BufferInv, SharedInv
  <2>2. send_buffer_size \in Seq(Nat \ {0}) /\ Len(send_buffer_size) \in Nat
    BY <2>1, Fits
  <2>3. QED
    BY <2>1, <2>2 DEF n_packets
<1>2. ASSUME NEW s \in Streams, append_buffer(s) \/ close(s) PROVE BufferStep
  <2>1. UNCHANGED <<mode, buf, buf_pos, send_buffer_size, packet_sizes, datagrams, pc>>
    BY <1>2 DEF append_buffer, close, bufVars
  <2>2. QED
    BY <1>1, <2>1 DEF Keeps
<1>3. CASE OnIoReady
  <2>1. pc' = IF n_packets > 0 THEN "schedule" ELSE "write"
    BY <1>1, <1>3, OnIoReadyIs
  <2>2. /\ UNCHANGED <<mode, buf, send_buffer_size, packet_sizes, datagrams>>
        /\ ~(n_packets > 0) => buf_pos' = 0
    BY <1>3 DEF OnIoReady, BeginFlush
  <2>3. ~(n_packets > 0) => n_packets = 0
    BY <1>1
  <2>4. QED
    BY <2>1, <2>2, <2>3 DEF Keeps, Steps
<1>4. ASSUME NEW x, WriteError(x) \/ WriteNothing(x) \/ PassOver(x) \/ WriteMore(x) PROVE BufferStep
  <2>1. UNCHANGED <<mode, buf, buf_pos, send_buffer_size, packet_sizes, datagrams, pc>> /\ pc = "write"
    BY <1>4, Zenon DEF WriteError, WriteNothing, PassOver, WriteMore, Unwritten, Ask
  <2>2. QED
    BY <1>1, <2>1 DEF Keeps
<1>5. ASSUME NEW x, NEW size \in Sizes, WritePacket(x, size) PROVE BufferStep
  <2>1. Writes(size)
    BY <1>5, Zenon DEF WritePacket, Ask, Writes, Filled
  <2>2. pc' \in Steps
    BY <1>5, Zenon DEF WritePacket, Steps
  <2>3. QED
    BY <2>1, <2>2
<1>6. CASE EndLoop
  BY <1>6 DEF EndLoop, bufVars, Keeps, Steps
<1>7. ASSUME SendDone, UNCHANGED <<mode, packet_sizes>>, pc' = "write" => buf_pos' = 0 PROVE Empties
  BY <1>1, <1>7, SendDoneIs DEF Empties
<1>8. ASSUME SendBlocked, UNCHANGED <<mode, packet_sizes>>, pc' # "write" PROVE Moves
  BY <1>1, <1>8, SendBlockedIs DEF Moves
<1>9. ASSUME SendFailed, UNCHANGED <<mode, packet_sizes>>, pc' # "write" PROVE Empties
  BY <1>9 DEF SendFailed, Empties
<1>10. CASE SendBatch
  <2>1. UNCHANGED <<mode, packet_sizes>>
    BY <1>10 DEF SendBatch
  <2>2. CASE SendDone /\ buf_pos' = AfterBatch /\ pc' = IF stream_packets = MaxStreamPackets THEN "final" ELSE "write"
    BY <1>7, <2>1, <2>2 DEF AfterBatch, Steps
  <2>3. CASE (SendBlocked \/ SendFailed) /\ pc' = "schedule"
    BY <1>8, <1>9, <2>1, <2>3 DEF Steps
  <2>4. QED
    BY <1>10, <2>2, <2>3 DEF SendBatch
<1>11. CASE SendFinal
  <2>1. UNCHANGED <<mode, packet_sizes>> /\ pc' = "schedule"
    BY <1>11 DEF SendFinal
  <2>2. CASE SendDone \/ SendBlocked \/ SendFailed
    BY <1>7, <1>8, <1>9, <2>1, <2>2 DEF Steps
  <2>3. CASE UNCHANGED <<buf, send_buffer_size, datagrams>>
    BY <2>1, <2>3 DEF Keeps, Steps
  <2>4. QED
    BY <1>11, <2>2, <2>3 DEF SendFinal
<1>12. CASE schedule_retransmit
  BY <1>12, ScheduleIs, Zenon DEF schedule_retransmit, Keeps, Steps
<1>13. CASE Resend
  <2>1. UNCHANGED <<mode, packet_sizes>> /\ pc = "idle"
    BY <1>13 DEF Resend
  <2>2. CASE SendDone /\ BeginFlush /\ pc' = "write"
    BY <1>7, <2>1, <2>2 DEF BeginFlush, Steps
  <2>3. CASE (SendBlocked \/ SendFailed) /\ pc' = pc
    BY <1>8, <1>9, <2>1, <2>3 DEF Steps
  <2>4. QED
    BY <1>13, <2>2, <2>3 DEF Resend
<1>14. CASE Environment
  BY <1>1, <1>14, EnvironmentIs DEF bufVars, Keeps
<1>15. CASE UNCHANGED vars
  BY <1>1, <1>15 DEF vars, bufVars, sharedVars, Keeps
<1>16. CASE Loop
  BY <1>4, <1>5, <1>6, <1>10, <1>11, <1>12, <1>16 DEF Loop
<1>17. QED
  BY <1>2, <1>3, <1>13, <1>14, <1>15, <1>16 DEF Next

\* A blocked send queues the connection, as Transmit's does.
LEMMA SharedStep ==
  ASSUME BufferInv, SharedInv, [Next]_vars
  PROVE  SharedInv'
<1>1. /\ send_buffer_size \in Seq(Nat \ {0}) /\ queue \in Nat /\ n_packets \in Nat
  <2>1. send_buffer_size \in Seq(Sizes) /\ queue \in Nat
    BY DEF BufferInv, SharedInv
  <2>2. send_buffer_size \in Seq(Nat \ {0}) /\ Len(send_buffer_size) \in Nat
    BY <2>1, Fits
  <2>3. QED
    BY <2>1, <2>2 DEF n_packets
<1> USE DEF SharedInv
<1>2. ASSUME NEW s \in Streams, append_buffer(s) \/ close(s) PROVE SharedInv'
  <2>1. /\ UNCHANGED <<queue, pc, cur, callbacks, running, timer>>
        /\ io_trigger' = [io_trigger EXCEPT ![Conn] = TRUE]
    BY <1>2 DEF append_buffer, close
  <2>2. QED
    BY <2>1
<1>3. CASE OnIoReady
  <2>1. /\ UNCHANGED <<callbacks, running, queue>> /\ cur' = Conn
        /\ \/ UNCHANGED timer /\ io_trigger' = [io_trigger EXCEPT ![Conn] = FALSE]
           \/ UNCHANGED io_trigger /\ timer' = [timer EXCEPT ![Conn] = FALSE]
    BY <1>1, <1>3, OnIoReadyIs
  <2>2. QED
    BY <2>1, Zenon
<1>4. ASSUME NEW x, Ask(x) PROVE SharedInv'
  BY <1>4, Zenon DEF Ask
<1>5. CASE EndLoop
  BY <1>5 DEF EndLoop
<1>6. ASSUME SendDone \/ SendBlocked \/ SendFailed
      PROVE  queue' \in Nat /\ callbacks' \in Seq({Conn})
  <2>1. CASE SendDone
    BY <1>1, <2>1, SendDoneIs
  <2>2. CASE SendBlocked
    <3>1. PICK sent \in Nat : queue' = queue + sent
      BY <1>1, <2>2, SendBlockedIs, Zenon DEF SendsFirst
    <3>2. callbacks' = Append(callbacks, Conn)
      BY <1>1, <2>2, SendBlockedIs DEF T!when_writeable
    <3>3. QED
      BY <3>1, <3>2
  <2>3. CASE SendFailed
    BY <2>3 DEF SendFailed
  <2>4. QED
    BY <1>6, <2>1, <2>2, <2>3
<1>7. CASE SendBatch \/ SendFinal
  <2>1. UNCHANGED <<io_trigger, timer, cur, running>> /\ pc # "idle"
    BY <1>7 DEF SendBatch, SendFinal
  <2>2. queue' \in Nat /\ callbacks' \in Seq({Conn})
    BY <1>6, <1>7 DEF SendBatch, SendFinal
  <2>3. QED
    BY <2>1, <2>2
<1>8. CASE schedule_retransmit
  BY <1>8, ScheduleIs, Zenon
<1>9. CASE Resend
  <2>1. /\ UNCHANGED <<io_trigger, timer>> /\ running # <<>> /\ running' = Tail(running)
        /\ pc' # "idle" => cur' = Conn
    BY <1>9 DEF Resend
  <2>2. queue' \in Nat /\ callbacks' \in Seq({Conn})
    BY <1>6, <1>9 DEF Resend
  <2>3. QED
    BY <2>1, <2>2
<1>10. CASE Environment
  <2>1. /\ UNCHANGED <<timer, pc, cur>>
        /\ \/ io_trigger' = [io_trigger EXCEPT ![Conn] = TRUE] /\ UNCHANGED <<callbacks, running, queue>>
           \/ UNCHANGED <<io_trigger, callbacks, running, queue>>
           \/ UNCHANGED <<io_trigger, queue>> /\ running' = callbacks /\ callbacks' = <<>>
           \/ UNCHANGED <<io_trigger, callbacks, running>> /\ queue > 0 /\ queue' = queue - 1
    BY <1>10, EnvironmentIs
  <2>2. callbacks' \in Seq({Conn}) /\ running' \in Seq({Conn})
    BY <2>1, EmptyOver, Zenon
  <2>3. io_trigger' \in [{Conn} -> BOOLEAN]
    BY <2>1, Zenon
  <2>4. QED
    BY <2>1, <2>2, <2>3
<1>11. CASE UNCHANGED vars
  BY <1>11 DEF vars, sharedVars
<1>12. CASE Loop
  BY <1>4, <1>5, <1>7, <1>8, <1>12, Zenon
     DEF Loop, WriteError, WriteNothing, WritePacket, PassOver, WriteMore
<1>13. QED
  BY <1>2, <1>3, <1>9, <1>10, <1>11, <1>12 DEF Next

\* The buffer never overflows: the loop goes on only while a batch has room.
LEMMA BufferStepInv ==
  ASSUME BufferInv, BufferStep
  PROVE  BufferInv'
<1> DEFINE N == MaxSize * MaxBatch(mode)
           B == MaxBatch(mode)
           n == n_packets
<1>1. /\ mode \in Modes /\ send_buffer_size \in Seq(Sizes) /\ packet_sizes \in Seq(Sizes)
      /\ buf \in [1..N -> Nat \X Nat] /\ n <= B
      /\ pc = "write" => n < B /\ buf_pos = Total(send_buffer_size)
  BY DEF BufferInv
<1>2. /\ B \in Nat /\ B > 0 /\ N \in Nat /\ n \in Nat
      /\ send_buffer_size \in Seq(Nat) /\ Total(send_buffer_size) \in Nat
      /\ Total(send_buffer_size) <= N
      /\ n < B => Total(send_buffer_size) + MaxSize <= N
  <2>1. B \in Nat /\ B > 0
    BY BatchIs
  <2>2. QED
    BY <1>1, <2>1, Fits DEF n_packets
<1>3. pc' \in Steps
  BY DEF BufferStep
<1> DEFINE Fine ==
             /\ UNCHANGED mode
             /\ send_buffer_size' \in Seq(Sizes) /\ packet_sizes' \in Seq(Sizes)
             /\ buf' \in [1..N -> Nat \X Nat]
             /\ Len(send_buffer_size') <= B
             /\ pc' = "write" => Len(send_buffer_size') < B /\ buf_pos' = Total(send_buffer_size')
<1>4. ASSUME Fine PROVE BufferInv'
  BY <1>3, <1>4 DEF BufferInv, n_packets
<1>5. Total(<<>>) = 0 /\ Len(<<>>) = 0 /\ <<>> \in Seq(Sizes)
  <2>1. <<>> \in Seq(Nat) /\ Len(<<>>) = 0 /\ <<>> \in Seq(Sizes)
    OBVIOUS
  <2>2. QED
    BY <2>1, SumSteps, Zenon DEF Total
<1>6. n = 0 => send_buffer_size = <<>>
  BY DEF n_packets
<1>7. CASE Keeps
  <2>1. Fine
    <3> HIDE DEF N, B
    <3>1. UNCHANGED <<mode, buf, send_buffer_size, packet_sizes>>
      BY <1>7 DEF Keeps
    <3>2. ASSUME pc' = "write" PROVE n < B /\ buf_pos' = Total(send_buffer_size)
      <4>1. CASE pc = "write" /\ UNCHANGED buf_pos
        BY <1>1, <4>1
      <4>2. CASE n = 0 /\ buf_pos' = 0
        BY <1>2, <1>5, <1>6, <4>2
      <4>3. QED
        BY <1>7, <3>2, <4>1, <4>2 DEF Keeps
    <3>3. QED
      BY <1>1, <3>1, <3>2 DEF n_packets
  <2>2. QED
    BY <1>4, <2>1
<1>8. CASE Empties
  <2>1. Fine
    <3> HIDE DEF N, B
    <3>1. QED
      BY <1>1, <1>2, <1>5, <1>8 DEF Empties
  <2>2. QED
    BY <1>4, <2>1
<1>9. CASE Moves
  <2>1. PICK sent \in Nat : SendsFirst(sent)
    BY <1>9 DEF Moves
  <2>2. /\ sent \in 0..Len(send_buffer_size)
        /\ buf' = memmove(buf, send_buffer_size, sent)
        /\ send_buffer_size' = UnsentSizes(send_buffer_size, sent)
    BY <2>1 DEF SendsFirst, n_packets
  <2>3. UNCHANGED <<mode, packet_sizes>> /\ pc' # "write"
    BY <1>9 DEF Moves
  <2>4. send_buffer_size' \in Seq(Sizes) /\ Len(send_buffer_size') = n - sent
    BY <1>1, <2>2, UnsentIs DEF n_packets
  <2>5. buf' \in [1..N -> Nat \X Nat]
    <3> HIDE DEF N
    <3>1. QED
      BY <1>1, <1>2, <2>2, MoveType, Zenon
  <2>6. Len(send_buffer_size') <= B
    <3> HIDE DEF n, B
    <3>1. QED
      BY <1>1, <1>2, <2>4
  <2>7. Fine
    <3> HIDE DEF N, B
    <3>1. QED
      BY <1>1, <2>3, <2>4, <2>5, <2>6
  <2>8. QED
    BY <1>4, <2>7
<1>10. ASSUME NEW size \in Sizes, Writes(size) PROVE BufferInv'
  <2>1. /\ pc = "write" /\ UNCHANGED mode /\ buf_pos' = buf_pos + size
        /\ send_buffer_size' = Append(send_buffer_size, size)
        /\ packet_sizes' = Append(packet_sizes, size)
        /\ pc' = "write" => n + 1 # B
    BY <1>10 DEF Writes
  <2>2. send_buffer_size' \in Seq(Sizes) /\ packet_sizes' \in Seq(Sizes)
    BY <1>1, <2>1
  <2>3. size \in Nat /\ n < B /\ buf_pos = Total(send_buffer_size)
    BY <1>1, <2>1, SizeFacts
  <2>4. Len(send_buffer_size') = n + 1 /\ Total(send_buffer_size') = Total(send_buffer_size) + size
    BY <1>2, <2>1, <2>3, AppendSizes DEF n_packets
  <2>5. Len(packet_sizes) \in Nat /\ buf_pos \in Nat
    BY <1>2, <2>3
  <2>6. buf' \in [1..N -> Nat \X Nat]
    <3> HIDE DEF N
    <3>1. DOMAIN buf = 1..N
      BY <1>1
    <3>2. \A i \in 1..N : i \in (buf_pos + 1)..(buf_pos + size) => i - buf_pos \in Nat
      BY <2>5
    <3>3. buf' = [i \in 1..N |-> IF i \in (buf_pos + 1)..(buf_pos + size)
                                  THEN <<Len(packet_sizes) + 1, i - buf_pos>> ELSE buf[i]]
      BY <1>10, <3>1 DEF Writes, Filled
    <3>4. \A i \in 1..N : buf[i] \in Nat \X Nat
      BY <1>1
    <3>5. \A i \in 1..N : (IF i \in (buf_pos + 1)..(buf_pos + size)
                            THEN <<Len(packet_sizes) + 1, i - buf_pos>> ELSE buf[i]) \in Nat \X Nat
      BY <3>2, <3>4
    <3>6. QED
      BY <3>3, <3>5
  <2>7. Fine
    <3> HIDE DEF N, B, n
    <3>1. n + 1 <= B /\ (pc' = "write" => n + 1 < B)
      BY <1>2, <2>1, <2>3
    <3>2. QED
      BY <2>1, <2>2, <2>3, <2>4, <2>6, <3>1
  <2>8. QED
    BY <1>4, <2>7
<1>11. QED
  BY <1>7, <1>8, <1>9, <1>10 DEF BufferStep

\* What waits in the buffer and what is on the wire stay whole packets.
LEMMA PacketStepInv ==
  ASSUME BufferInv, PacketInv, BufferStep
  PROVE  PacketInv'
<1> DEFINE P == PacketsOf(packet_sizes)
           N == MaxSize * MaxBatch(mode)
           n == n_packets
<1>1. /\ send_buffer_size \in Seq(Nat \ {0}) /\ packet_sizes \in Seq(Nat) /\ N \in Nat
      /\ DOMAIN buf = 1..N /\ Total(send_buffer_size) \in Nat /\ Total(send_buffer_size) <= N
      /\ pc = "write" => /\ buf_pos = Total(send_buffer_size)
                         /\ Total(send_buffer_size) + MaxSize <= N
  <2>1. /\ send_buffer_size \in Seq(Sizes) /\ packet_sizes \in Seq(Sizes)
        /\ buf \in [1..N -> Nat \X Nat] /\ Len(send_buffer_size) <= MaxBatch(mode)
        /\ pc = "write" => Len(send_buffer_size) < MaxBatch(mode) /\ buf_pos = Total(send_buffer_size)
    BY DEF BufferInv, n_packets
  <2>2. MaxBatch(mode) \in Nat
    BY BatchIs
  <2>3. QED
    BY <2>1, <2>2, Fits
<1>2. Holds(buf, send_buffer_size, packet_sizes) /\ datagrams \in Seq(P)
  BY DEF PacketInv
<1>3. n \in 0..Len(send_buffer_size)
  <2>1. Len(send_buffer_size) \in Nat
    OBVIOUS
  <2>2. QED
    BY <2>1 DEF n_packets
<1>4. ASSUME NEW k \in 0..Len(send_buffer_size)
      PROVE  datagrams \o Bytes(buf, send_buffer_size, k) \in Seq(P)
  <2>1. Bytes(buf, send_buffer_size, k) \in Seq(P)
    BY <1>1, <1>2, SentPackets
  <2> HIDE DEF P
  <2>2. QED
    BY <1>2, <2>1
<1>5. CASE Keeps
  BY <1>5 DEF Keeps, PacketInv
<1>6. CASE Empties
  <2>1. send_buffer_size' = <<>> /\ UNCHANGED packet_sizes
    BY <1>6 DEF Empties
  <2>2. datagrams' \in Seq(P)
    <3> HIDE DEF P
    <3>1. QED
      BY <1>2, <1>3, <1>4, <1>6, Zenon DEF Empties
  <2>3. Holds(buf', <<>>, packet_sizes)
    BY DEF Holds
  <2>4. QED
    BY <2>1, <2>2, <2>3 DEF PacketInv
<1>7. CASE Moves
  <2>1. PICK sent \in Nat : SendsFirst(sent)
    BY <1>7 DEF Moves
  <2>2. /\ sent \in 0..Len(send_buffer_size)
        /\ datagrams' = datagrams \o Bytes(buf, send_buffer_size, sent)
        /\ buf' = memmove(buf, send_buffer_size, sent)
        /\ send_buffer_size' = UnsentSizes(send_buffer_size, sent)
        /\ UNCHANGED packet_sizes
    BY <1>7, <2>1 DEF Moves, SendsFirst, n_packets
  <2>3. Within(send_buffer_size, buf)
    BY <1>1 DEF Within
  <2>4. Holds(memmove(buf, send_buffer_size, sent), UnsentSizes(send_buffer_size, sent), packet_sizes)
    BY <1>1, <1>2, <2>2, <2>3, MovedHolds, Zenon
  <2>5. datagrams' \in Seq(P)
    BY <1>4, <2>2, Zenon
  <2>6. QED
    BY <2>2, <2>4, <2>5 DEF PacketInv
<1>8. ASSUME NEW size \in Sizes, Writes(size) PROVE PacketInv'
  <2>1. size \in Nat \ {0} /\ size <= MaxSize /\ MaxSize \in Nat
    BY SizeFacts
  <2>2. /\ buf_pos = Total(send_buffer_size)
        /\ UNCHANGED datagrams
        /\ buf' = Filled(buf, buf_pos, size, Len(packet_sizes) + 1)
        /\ send_buffer_size' = Append(send_buffer_size, size)
        /\ packet_sizes' = Append(packet_sizes, size)
    BY <1>1, <1>8 DEF Writes
  <2>3. Total(send_buffer_size) + size <= N
    <3>1. Total(send_buffer_size) + MaxSize <= N
      BY <1>1, <1>8 DEF Writes
    <3> HIDE DEF N
    <3>2. QED
      BY <1>1, <2>1, <3>1
  <2>4. Holds(Filled(buf, Total(send_buffer_size), size, Len(packet_sizes) + 1),
              Append(send_buffer_size, size), Append(packet_sizes, size))
    <3> HIDE DEF N
    <3>1. QED
      BY <1>1, <1>2, <2>1, <2>3, WrittenHolds, Zenon
  <2>5. datagrams \in Seq(PacketsOf(Append(packet_sizes, size)))
    <3>1. P \subseteq PacketsOf(Append(packet_sizes, size))
      BY <1>1, <2>1, PacketsGrow
    <3> HIDE DEF P
    <3>2. QED
      BY <1>2, <3>1
  <2>6. QED
    BY <2>2, <2>4, <2>5 DEF PacketInv
<1>9. QED
  BY <1>5, <1>6, <1>7, <1>8 DEF BufferStep
-----------------------------------------------------------------------------
\* The inductive invariant of the buffer.
BatchInv == BufferInv /\ PacketInv /\ SharedInv

\* It holds initially.
LEMMA InitBatchInv == Init => BatchInv
<1> SUFFICES ASSUME Init PROVE BatchInv
  OBVIOUS
<1>1. BufferInv
  <2>1. mode \in Modes /\ pc = "idle" /\ send_buffer_size = <<>> /\ packet_sizes = <<>>
    BY DEF Init
  <2>2. buf \in [1..(MaxSize * MaxBatch(mode)) -> Nat \X Nat]
    <3> DEFINE D == 1..(MaxSize * MaxBatch(mode))
    <3>1. buf = [i \in D |-> <<0, 0>>]
      BY DEF Init
    <3> HIDE DEF D
    <3>2. buf \in [D -> Nat \X Nat]
      BY <3>1
    <3>3. QED
      BY <3>2 DEF D
  <2>3. n_packets = 0 /\ MaxBatch(mode) \in Nat /\ <<>> \in Seq(Sizes)
    BY <2>1, BatchIs DEF n_packets
  <2>4. n_packets <= MaxBatch(mode)
    BY <2>3
  <2>5. QED
    BY <2>1, <2>2, <2>4 DEF BufferInv, Steps
<1>2. PacketInv
  <2>1. send_buffer_size = <<>> /\ datagrams = <<>>
    BY DEF Init
  <2>2. Holds(buf, <<>>, packet_sizes)
    BY DEF Holds
  <2>3. QED
    BY <2>1, <2>2 DEF PacketInv
<1>3. SharedInv
  BY DEF Init, SharedInv
<1>4. QED
  BY <1>1, <1>2, <1>3 DEF BatchInv

\* Every step keeps it.
LEMMA NextBatchInv == BatchInv /\ [Next]_vars => BatchInv'
<1> SUFFICES ASSUME BatchInv, [Next]_vars PROVE BatchInv'
  OBVIOUS
<1>1. BufferInv /\ PacketInv /\ SharedInv
  BY DEF BatchInv
<1>2. BufferStep
  BY <1>1, BufferSteps
<1>3. BufferInv' /\ PacketInv' /\ SharedInv'
  BY <1>1, <1>2, BufferStepInv, PacketStepInv, SharedStep
<1>4. QED
  BY <1>3 DEF BatchInv

\* In every state the buffer holds the packets not sent yet, whole and in
\* order, and flush_streams goes on only while a batch has room.
THEOREM AlwaysBatchInv == Spec => []BatchInv
BY InitBatchInv, NextBatchInv, PTL DEF Spec

\* send_buffer never overflows, whatever the sizes of the packets: ngtcp2 is
\* asked only where the largest packet fits behind the others, and no message
\* uses a control buffer beyond the last.
THEOREM BufferNeverOverflows == Spec => []BufferBounds
<1>1. BatchInv => BufferBounds
  <2> SUFFICES ASSUME BatchInv PROVE BufferBounds
    OBVIOUS
  <2> DEFINE N == MaxSize * MaxBatch(mode)
             msgs == Messages(mode, send_buffer_size)
  <2>1. /\ mode \in Modes /\ send_buffer_size \in Seq(Sizes)
        /\ buf \in [1..N -> Nat \X Nat] /\ Len(send_buffer_size) <= MaxBatch(mode)
        /\ pc = "write" => Len(send_buffer_size) < MaxBatch(mode) /\ buf_pos = Total(send_buffer_size)
    BY DEF BatchInv, BufferInv, n_packets
  <2>2. MaxBatch(mode) \in Nat /\ MaxBatch(mode) <= DATAGRAM_BATCH_SIZE
    BY BatchIs
  <2>3. /\ send_buffer_size \in Seq(Nat \ {0}) /\ Len(send_buffer_size) \in Nat /\ N \in Nat
        /\ Len(send_buffer_size) < MaxBatch(mode) => Total(send_buffer_size) + MaxSize <= N
    BY <2>1, <2>2, Fits
  <2>4. pc = "write" => buf_pos = Total(send_buffer_size) /\ buf_pos + MaxSize <= Len(buf)
    <3> HIDE DEF N
    <3>1. QED
      BY <2>1, <2>3
  <2>5. ASSUME NEW i \in DOMAIN msgs, msgs[i].gso_count > 1
        PROVE  ControlIndex(i) < DATAGRAM_BATCH_SIZE
    <3>1. i \in 1..Len(msgs) /\ Len(msgs) \in Nat
      OBVIOUS
    <3>2. ControlIndex(i) < Len(send_buffer_size)
      BY <2>3, <2>5, ControlIndexInBatch
    <3>3. ControlIndex(i) \in Nat /\ DATAGRAM_BATCH_SIZE \in Nat
      BY <3>1, BatchSizeAssumption DEF ControlIndex
    <3> HIDE DEF msgs
    <3>4. QED
      BY <2>1, <2>2, <3>2, <3>3
  <2>6. QED
    BY <2>4, <2>5, Zenon DEF BufferBounds
<1>2. QED
  BY <1>1, AlwaysBatchInv, PTL

\* Every datagram is one whole packet of ngtcp2's, and so is all that waits in
\* send_buffer, for any packet sizes, however the kernel cuts the sends short
\* and however often the rest is moved and sent again.
THEOREM PacketsStayIntact == Spec => []PacketsIntact
<1>1. BatchInv => PacketsIntact
  <2> SUFFICES ASSUME BatchInv PROVE PacketsIntact
    OBVIOUS
  <2> DEFINE P == PacketsOf(packet_sizes)
  <2>1. /\ Holds(buf, send_buffer_size, packet_sizes) /\ datagrams \in Seq(P)
        /\ send_buffer_size \in Seq(Sizes) /\ packet_sizes \in Seq(Sizes)
    BY DEF BatchInv, PacketInv, BufferInv
  <2>2. send_buffer_size \in Seq(Nat \ {0})
    BY <2>1, Fits
  <2>3. DOMAIN packet_sizes = 1..Len(packet_sizes)
    OBVIOUS
  <2>4. \A id : Packet(id) = PacketOf(packet_sizes, id)
    BY DEF Packet, PacketOf
  <2>5. ASSUME NEW i \in DOMAIN datagrams
        PROVE  \E id \in DOMAIN packet_sizes : datagrams[i] = Packet(id)
    <3>1. datagrams[i] \in P
      <4> HIDE DEF P
      <4>1. QED
        BY <2>1
    <3>2. PICK id \in 1..Len(packet_sizes) : datagrams[i] = PacketOf(packet_sizes, id)
      BY <3>1, Zenon DEF PacketsOf
    <3>3. QED
      BY <2>3, <2>4, <3>2, Zenon
  <2>6. ASSUME NEW i \in 1..n_packets
        PROVE  LET at == Offset(send_buffer_size, i)
               IN  SubSeq(buf, at + 1, at + send_buffer_size[i]) = Packet(PacketAt(at + 1))
    <3>1. i \in 1..Len(send_buffer_size)
      BY DEF n_packets
    <3>2. QED
      BY <2>1, <2>2, <2>4, <3>1, WaitingPacket, Zenon DEF PacketAt
  <2>7. QED
    BY <2>5, <2>6 DEF PacketsIntact
<1>2. QED
  BY <1>1, AlwaysBatchInv, PTL
=============================================================================
