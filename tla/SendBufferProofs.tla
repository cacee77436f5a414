-------------------------- MODULE SendBufferProofs --------------------------
EXTENDS SendBuffer, WellFoundedInduction, SequenceTheorems, TLAPS

\* Every nonempty set of naturals has a least element.
LEMMA LeastElement ==
  ASSUME NEW S \in SUBSET Nat, S # {}
  PROVE  \E m \in S : \A k \in S : m <= k
<1> DEFINE R == OpToRel(<, Nat)
<1>1. IsWellFoundedOn(R, Nat)
  BY NatLessThanWellFounded
<1>2. PICK m \in S : \A k \in S : ~ (<<k, m>> \in R)
  BY <1>1, WFMin
<1>3. \A k \in S : ~ (k < m)
  BY <1>2 DEF OpToRel
<1>4. QED
  BY <1>3

\* size() and the skipping loops add up view sizes: over adjacent views the
\* sums telescope to differences of positions.
LEMMA SumTelescopes ==
  ASSUME NEW bufs \in Seq(View), NEW end, Contiguous(bufs, end)
  PROVE  /\ SumTo(bufs)[0] = 0
         /\ \A i \in 1..Len(bufs) : SumTo(bufs)[i] = bufs[i].hi - bufs[1].lo
<1> DEFINE n == Len(bufs)
           Next_(g) == [i \in 0..n |-> IF i = 0 THEN 0 ELSE g[i - 1] + SizeOf(bufs[i])]
           T == [i \in 0..n |-> IF i = 0 THEN 0 ELSE bufs[i].hi - bufs[1].lo]
           S == SumTo(bufs)
<1>1. n \in Nat /\ \A i \in 1..n : bufs[i].lo \in Nat /\ bufs[i].hi \in Nat
  <2>1. n \in Nat /\ \A i \in 1..n : bufs[i] \in View
    BY ElementOfSeq, LenProperties
  <2>2. QED
    BY <2>1 DEF View
<1>2. T = Next_(T)
  <2>1. ASSUME NEW i \in 0..n PROVE T[i] = Next_(T)[i]
    <3>1. CASE i = 0
      BY <3>1
    <3>2. CASE i = 1
      BY <1>1, <3>2 DEF SizeOf
    <3>3. CASE i > 1
      <4>1. i \in 1..n /\ i - 1 \in 1..(n - 1) /\ (i - 1) + 1 = i /\ i - 1 # 0 /\ i # 0
        BY <1>1, <3>3
      <4>2. bufs[i - 1].hi = bufs[i].lo
        BY <4>1 DEF Contiguous
      <4>3. T[i] = bufs[i].hi - bufs[1].lo /\ T[i - 1] = bufs[i - 1].hi - bufs[1].lo
        BY <1>1, <4>1
      <4>4. bufs[i].hi \in Nat /\ bufs[i].lo \in Nat /\ bufs[1].lo \in Nat
        BY <1>1, <4>1
      <4>5. T[i - 1] + SizeOf(bufs[i]) = T[i]
        BY <4>2, <4>3, <4>4 DEF SizeOf
      <4>6. QED
        BY <4>1, <4>5
    <3>4. QED
      BY <1>1, <3>1, <3>2, <3>3
  <2>2. QED
    BY <2>1
<1>3. S = Next_(S)
  <2>1. S = CHOOSE g : g = Next_(g)
    BY DEF SumTo
  <2>2. \E g : g = Next_(g)
    BY <1>2
  <2>3. QED
    BY <2>1, <2>2
<1>4. \A i \in 0..n : S[i] = T[i]
  <2> DEFINE D == {i \in 0..n : S[i] # T[i]}
  <2>1. SUFFICES ASSUME D # {} PROVE FALSE
    OBVIOUS
  <2>2. PICK m \in D : \A k \in D : m <= k
    <3>1. D \in SUBSET Nat
      BY <1>1
    <3> HIDE DEF D
    <3>2. QED
      BY <2>1, <3>1, LeastElement
  <2>3. m # 0
    BY <1>2, <1>3, <2>2
  <2>4. m - 1 \in 0..n /\ m - 1 < m
    BY <1>1, <2>2, <2>3
  <2>5. S[m - 1] = T[m - 1]
    BY <2>2, <2>4
  <2>6. S[m] = S[m - 1] + SizeOf(bufs[m])
    BY <1>3, <2>2, <2>3
  <2>7. T[m] = T[m - 1] + SizeOf(bufs[m])
    BY <1>2, <2>2, <2>3
  <2>8. QED
    BY <2>2, <2>5, <2>6, <2>7
<1>5. QED
  BY <1>1, <1>4

\* The elements of a sequence of views are pairs of positions.
LEMMA ViewElements ==
  ASSUME NEW bufs \in Seq(View)
  PROVE  /\ Len(bufs) \in Nat
         /\ bufs # <<>> => Len(bufs) >= 1
         /\ \A i \in 1..Len(bufs) :
              bufs[i] \in View /\ bufs[i].lo \in Nat /\ bufs[i].hi \in Nat
<1>1. Len(bufs) \in Nat /\ \A i \in 1..Len(bufs) : bufs[i] \in View
  BY ElementOfSeq, LenProperties
<1>2. bufs # <<>> => Len(bufs) >= 1
  BY <1>1, EmptySeq
<1>3. QED
  BY <1>1, <1>2 DEF View

\* What is left after skipping the views before the i-th, as a position.
LEMMA RestIs ==
  ASSUME NEW bufs \in Seq(View), NEW end, Contiguous(bufs, end), NEW n \in Nat
  PROVE  /\ \A i \in 1..Len(bufs) : Rest(bufs, n, i) = bufs[1].lo + n - bufs[i].lo
         /\ bufs # <<>> =>
              Rest(bufs, n, Len(bufs) + 1) = bufs[1].lo + n - bufs[Len(bufs)].hi
         /\ bufs = <<>> => Rest(bufs, n, 1) = n
<1>1. ASSUME NEW i \in 1..Len(bufs)
      PROVE  Rest(bufs, n, i) = bufs[1].lo + n - bufs[i].lo
  <2>1. CASE i = 1
    BY <2>1, SumTelescopes, ViewElements DEF Rest
  <2>2. CASE i # 1
    <3>1. i - 1 \in 1..(Len(bufs) - 1) /\ i - 1 \in 1..Len(bufs) /\ (i - 1) + 1 = i
      BY <2>2, ViewElements
    <3>2. SumTo(bufs)[i - 1] = bufs[i - 1].hi - bufs[1].lo
      BY <3>1, SumTelescopes
    <3>3. bufs[i - 1].hi = bufs[i].lo
      BY <3>1 DEF Contiguous
    <3>4. bufs[i].lo \in Nat /\ bufs[1].lo \in Nat
      BY ViewElements
    <3>5. QED
      BY <3>2, <3>3, <3>4 DEF Rest
  <2>3. QED
    BY <2>1, <2>2
<1>2. ASSUME bufs # <<>>
      PROVE  Rest(bufs, n, Len(bufs) + 1) = bufs[1].lo + n - bufs[Len(bufs)].hi
  <2>1. Len(bufs) \in 1..Len(bufs) /\ 1 \in 1..Len(bufs) /\ (Len(bufs) + 1) - 1 = Len(bufs)
    BY <1>2, ViewElements
  <2>2. SumTo(bufs)[Len(bufs)] = bufs[Len(bufs)].hi - bufs[1].lo
    BY <2>1, SumTelescopes
  <2>3. bufs[Len(bufs)].hi \in Nat /\ bufs[1].lo \in Nat
    BY <2>1, ViewElements
  <2>4. QED
    BY <2>1, <2>2, <2>3 DEF Rest
<1>3. Rest(bufs, n, 1) = n
  <2>1. SumTo(bufs)[0] = 0
    BY SumTelescopes
  <2>2. QED
    BY <2>1 DEF Rest
<1>4. QED
  BY <1>1, <1>2, <1>3

\* Both loops stop: with no more bytes than are queued, at a view that holds
\* the position looked for, or one past the last view with nothing left over.
LEMMA StopsAtView ==
  ASSUME NEW bufs \in Seq(View), NEW end, Contiguous(bufs, end), NEW n \in Nat,
         bufs # <<>>, bufs[1].lo + n <= bufs[Len(bufs)].hi,
         NEW i, i = StopsAt(bufs, n)
  PROVE  /\ i \in 1..(Len(bufs) + 1)
         /\ Rest(bufs, n, i) \in Nat
         /\ i <= Len(bufs) => /\ Rest(bufs, n, i) = bufs[1].lo + n - bufs[i].lo
                              /\ Rest(bufs, n, i) <= SizeOf(bufs[i])
         /\ i = Len(bufs) + 1 => bufs[1].lo + n = bufs[Len(bufs)].hi
<1> DEFINE m == Len(bufs)
           D == {j \in 1..(m + 1) : ~Skips(bufs, n, j)}
           Stop(j) == ~Skips(bufs, n, j) /\ \A h \in 1..(j - 1) : Skips(bufs, n, h)
<1>1. m \in Nat /\ m >= 1
  BY ViewElements
<1>2. \E j \in 1..(m + 1) : Stop(j)
  <2>1. ~Skips(bufs, n, m + 1)
    BY <1>1 DEF Skips
  <2>2. D # {} /\ D \in SUBSET Nat
    BY <1>1, <2>1
  <2>3. PICK j \in D : \A h \in D : j <= h
    <3> HIDE DEF D
    <3>1. QED
      BY <2>2, LeastElement
  <2>4. \A h \in 1..(j - 1) : Skips(bufs, n, h)
    <3>1. SUFFICES ASSUME NEW h \in 1..(j - 1), ~Skips(bufs, n, h) PROVE FALSE
      OBVIOUS
    <3>2. h \in 1..(m + 1) /\ h < j
      BY <1>1, <2>3, <3>1
    <3>3. QED
      BY <1>1, <2>3, <3>1, <3>2
  <2>5. QED
    BY <2>3, <2>4
<1>3. i \in 1..(m + 1) /\ Stop(i)
  BY <1>2 DEF StopsAt
<1>4. \A j \in 1..m : bufs[j].lo \in Nat /\ bufs[j].hi \in Nat
  BY ViewElements
<1>5. Rest(bufs, n, i) \in Nat
  <2>1. CASE i = 1
    BY <1>1, <1>4, <2>1, RestIs
  <2>2. CASE i # 1
    <3>1. i - 1 \in 1..m /\ i - 1 \in 1..(i - 1) /\ (i - 1) + 1 = i
      BY <1>1, <1>3, <2>2
    <3>2. Rest(bufs, n, i - 1) >= SizeOf(bufs[i - 1])
      BY <1>3, <3>1 DEF Skips
    <3>3. Rest(bufs, n, i - 1) = bufs[1].lo + n - bufs[i - 1].lo
      BY <3>1, RestIs
    <3>4. bufs[1].lo + n >= bufs[i - 1].hi
      BY <1>1, <1>4, <3>1, <3>2, <3>3, SMTT(30) DEF SizeOf
    <3>5. CASE i <= m
      <4>1. i \in 1..m /\ i - 1 \in 1..(m - 1)
        BY <1>1, <1>3, <2>2, <3>5
      <4>2. bufs[i - 1].hi = bufs[i].lo
        BY <3>1, <4>1 DEF Contiguous
      <4>3. Rest(bufs, n, i) = bufs[1].lo + n - bufs[i].lo
        BY <4>1, RestIs
      <4>4. QED
        BY <1>1, <1>4, <3>4, <4>1, <4>2, <4>3, SMTT(30)
    <3>6. CASE i = m + 1
      <4>1. i - 1 = m /\ m \in 1..m
        BY <1>1, <3>6
      <4>2. Rest(bufs, n, i) = bufs[1].lo + n - bufs[m].hi
        BY <3>6, RestIs
      <4>3. QED
        BY <1>1, <1>4, <3>4, <4>1, <4>2
    <3>7. QED
      BY <1>1, <1>3, <3>5, <3>6
  <2>3. QED
    BY <2>1, <2>2
<1>6. ASSUME i <= m
      PROVE  /\ Rest(bufs, n, i) = bufs[1].lo + n - bufs[i].lo
             /\ Rest(bufs, n, i) <= SizeOf(bufs[i])
  <2>1. i \in 1..m
    BY <1>1, <1>3, <1>6
  <2>2. Rest(bufs, n, i) = bufs[1].lo + n - bufs[i].lo
    BY <2>1, RestIs
  <2>3. ~(Rest(bufs, n, i) >= SizeOf(bufs[i])) \/ ~(Rest(bufs, n, i) > 0)
    BY <1>3, <1>6 DEF Skips
  <2>4. bufs[i].lo <= bufs[i].hi /\ bufs[i].lo \in Nat /\ bufs[i].hi \in Nat
    BY <1>4, <2>1 DEF Contiguous
  <2>5. SizeOf(bufs[i]) \in Nat
    BY <2>4 DEF SizeOf
  <2>6. QED
    BY <1>5, <2>2, <2>3, <2>5
<1>7. ASSUME i = m + 1 PROVE bufs[1].lo + n = bufs[m].hi
  <2>1. Rest(bufs, n, i) = bufs[1].lo + n - bufs[m].hi
    BY <1>7, RestIs
  <2>2. 1 \in 1..m /\ m \in 1..m
    BY <1>1
  <2>3. QED
    BY <1>4, <1>5, <2>1, <2>2, SMTT(30)
<1>8. QED
  BY <1>3, <1>5, <1>6, <1>7

\* What pending() and acknowledge() keep of the views from the i-th on.
LEMMA FromViews ==
  ASSUME NEW bufs \in Seq(View), NEW end, Contiguous(bufs, end),
         NEW i \in 1..Len(bufs), NEW k \in Nat, k <= SizeOf(bufs[i])
  PROVE  /\ From(bufs, i, k) \in Seq(View)
         /\ From(bufs, i, k) # <<>>
         /\ From(bufs, i, k)[1].lo = bufs[i].lo + k
         /\ Contiguous(From(bufs, i, k), end)
<1> DEFINE m == Len(bufs)
           h == RemovePrefix(bufs[i], k)
           t == SubSeq(bufs, i + 1, m)
           f == <<h>> \o t
<1>1. m \in Nat /\ \A j \in 1..m : /\ bufs[j] \in View
                                    /\ bufs[j].lo \in Nat /\ bufs[j].hi \in Nat
                                    /\ bufs[j].lo <= bufs[j].hi
  BY ViewElements DEF Contiguous
<1>2. h \in View /\ h.lo = bufs[i].lo + k /\ h.hi = bufs[i].hi /\ h.lo <= h.hi
  BY <1>1 DEF RemovePrefix, View, SizeOf
<1>3. /\ t \in Seq(View)
      /\ Len(t) = m - i
      /\ \A j \in 1..(m - i) : t[j] = bufs[i + j]
  <2>1. \A j \in (i + 1)..m : bufs[j] \in View
    BY <1>1
  <2>2. /\ t \in Seq(View)
        /\ Len(t) = IF i + 1 <= m THEN m - (i + 1) + 1 ELSE 0
        /\ \A j \in 1..(m - (i + 1) + 1) : t[j] = bufs[(i + 1) + j - 1]
    <3>1. i + 1 \in Int /\ m \in Int
      BY <1>1
    <3>2. QED
      BY <2>1, <3>1, SubSeqProperties, SMTT(30)
  <2>3. m - (i + 1) + 1 = m - i
    BY <1>1
  <2>4. \A j \in 1..(m - i) : (i + 1) + j - 1 = i + j
    BY <1>1
  <2> HIDE DEF t
  <2>5. Len(t) = m - i
    BY <1>1, <2>2
  <2>6. QED
    BY <2>2, <2>3, <2>4, <2>5
<1>4. /\ f \in Seq(View)
      /\ Len(f) = m - i + 1
      /\ f[1] = h
      /\ \A j \in 2..(m - i + 1) : f[j] = bufs[i + j - 1]
  <2>1. <<h>> \in Seq(View) /\ Len(<<h>>) = 1 /\ <<h>>[1] = h
    BY <1>2
  <2> HIDE DEF h, t
  <2>2. /\ f \in Seq(View)
        /\ Len(f) = 1 + Len(t)
        /\ \A j \in 1..(1 + Len(t)) : f[j] = IF j <= 1 THEN <<h>>[j] ELSE t[j - 1]
    <3> DEFINE s == <<h>>
    <3>1. s \in Seq(View) /\ Len(s) = 1 /\ t \in Seq(View)
      BY <1>3, <2>1
    <3> HIDE DEF s
    <3>2. /\ s \o t \in Seq(View)
          /\ Len(s \o t) = Len(s) + Len(t)
          /\ \A j \in 1..(Len(s) + Len(t)) :
               (s \o t)[j] = IF j <= Len(s) THEN s[j] ELSE t[j - Len(s)]
      BY <3>1, ConcatProperties, Zenon
    <3>3. QED
      BY <3>1, <3>2, Zenon DEF s, f
  <2>3. ASSUME NEW j \in 2..(m - i + 1) PROVE f[j] = bufs[i + j - 1]
    <3>1. j - 1 \in 1..(m - i) /\ j \in 1..(1 + Len(t)) /\ ~(j <= 1)
      BY <1>1, <1>3
    <3>2. t[j - 1] = bufs[i + (j - 1)]
      BY <1>3, <3>1
    <3>3. i + (j - 1) = i + j - 1
      BY <1>1
    <3>4. QED
      BY <2>2, <3>1, <3>2, <3>3
  <2>4. f[1] = h
    BY <1>1, <1>3, <2>1, <2>2
  <2>5. QED
    BY <1>1, <1>3, <2>2, <2>3, <2>4
<1>5. From(bufs, i, k) = f
  BY <1>1, SMTT(30) DEF From
<1> HIDE DEF f, t, h
<1>6. f # <<>>
  BY <1>1, <1>4
<1>7. Contiguous(f, end)
  <2>1. ASSUME NEW j \in 1..Len(f) PROVE f[j].lo <= f[j].hi
    <3>1. CASE j = 1
      BY <1>2, <1>4, <3>1
    <3>2. CASE j # 1
      <4>1. j \in 2..(m - i + 1) /\ i + j - 1 \in 1..m
        BY <1>1, <1>4, <3>2
      <4>2. QED
        BY <1>1, <1>4, <4>1
    <3>3. QED
      BY <3>1, <3>2
  <2>2. ASSUME NEW j \in 1..(Len(f) - 1) PROVE f[j].hi = f[j + 1].lo
    <3>1. j + 1 \in 2..(m - i + 1) /\ i + (j + 1) - 1 = i + j /\ i + j \in 1..m
      BY <1>1, <1>4
    <3>2. f[j + 1] = bufs[i + j]
      BY <1>4, <3>1
    <3>3. i + j - 1 \in 1..(m - 1) /\ (i + j - 1) + 1 = i + j
      BY <1>1, <3>1
    <3>4. bufs[i + j - 1].hi = bufs[i + j].lo
      BY <3>3 DEF Contiguous
    <3>5. f[j].hi = bufs[i + j - 1].hi
      <4>1. CASE j = 1
        <5>1. i + j - 1 = i
          BY <1>1, <4>1
        <5>2. QED
          BY <1>2, <1>4, <4>1, <5>1
      <4>2. CASE j # 1
        <5>1. j \in 2..(m - i + 1)
          BY <1>1, <1>4, <4>2
        <5>2. QED
          BY <1>4, <5>1
      <4>3. QED
        BY <4>1, <4>2
    <3>6. QED
      BY <3>2, <3>4, <3>5
  <2>3. f[Len(f)].hi = end
    <3>1. bufs[m].hi = end
      BY <1>1, EmptySeq DEF Contiguous
    <3>2. CASE i = m
      BY <1>1, <1>2, <1>4, <3>1, <3>2
    <3>3. CASE i # m
      <4>1. Len(f) \in 2..(m - i + 1) /\ i + Len(f) - 1 = m
        BY <1>1, <1>4, <3>3
      <4>2. QED
        BY <1>4, <3>1, <4>1
    <3>4. QED
      BY <3>2, <3>3
  <2>4. QED
    BY <2>1, <2>2, <2>3 DEF Contiguous
<1>8. QED
  BY <1>2, <1>4, <1>5, <1>6, <1>7

\* size() of adjacent views is the distance from the first byte to the end.
LEMMA SizeIs ==
  ASSUME NEW bufs \in Seq(View), NEW end, Contiguous(bufs, end)
  PROVE  /\ bufs = <<>> => size(bufs) = 0
         /\ bufs # <<>> => size(bufs) = end - bufs[1].lo
<1>1. bufs = <<>> => size(bufs) = 0
  <2>1. SumTo(bufs)[0] = 0
    BY SumTelescopes
  <2>2. QED
    BY <2>1, EmptySeq DEF size
<1>2. ASSUME bufs # <<>> PROVE size(bufs) = end - bufs[1].lo
  <2>1. Len(bufs) \in 1..Len(bufs)
    BY <1>2, ViewElements
  <2>2. bufs[Len(bufs)].hi = end
    BY <1>2 DEF Contiguous
  <2>3. QED
    BY <2>1, <2>2, SumTelescopes DEF size
<1>3. QED
  BY <1>1, <1>2

\* The inductive invariant.
IInv == TypeOK /\ Accounting

\* unsent() counts the bytes ngtcp2 was not given; it never wraps.
LEMMA UnsentIs == IInv => UnsentExact
<1> SUFFICES ASSUME IInv PROVE UnsentExact
  OBVIOUS
<1> USE DEF IInv, TypeOK, Accounting
<1>1. size(user_buffers) = appended - acked_offset
  BY SizeIs DEF Base, First
<1>2. size(user_buffers) - unacked_size = appended - tx_offset
  BY <1>1
<1>3. appended - tx_offset >= 0
  BY BoundAssumption
<1>4. QED
  BY <1>2, <1>3 DEF UnsentExact, unsent

\* What pending() returns in a state of the invariant.
LEMMA PendingIs ==
  ASSUME IInv
  PROVE  /\ PendingIsUnsent
         /\ pending(user_buffers, unacked_size) # <<>> =>
              size(pending(user_buffers, unacked_size)) = appended - tx_offset
<1> DEFINE p == pending(user_buffers, unacked_size)
           i == StopsAt(user_buffers, unacked_size)
           k == Rest(user_buffers, unacked_size, i)
<1>1. /\ user_buffers \in Seq(View) /\ Contiguous(user_buffers, appended)
      /\ unacked_size \in Nat /\ appended \in Nat /\ tx_offset \in Nat
      /\ acked_offset \in Nat /\ Base = acked_offset
      /\ acked_offset + unacked_size = tx_offset /\ tx_offset <= appended
  BY BoundAssumption DEF IInv, TypeOK, Accounting
<1>2. unsent(user_buffers, unacked_size) = appended - tx_offset
  BY UnsentIs DEF UnsentExact
<1>3. CASE user_buffers = <<>> \/ unsent(user_buffers, unacked_size) = 0
  <2>1. p = <<>>
    BY <1>3 DEF pending
  <2>2. tx_offset = appended
    BY <1>1, <1>2, <1>3 DEF Base, First
  <2>3. QED
    BY <2>1, <2>2 DEF PendingIsUnsent
<1>4. CASE user_buffers # <<>> /\ unsent(user_buffers, unacked_size) # 0
  <2>1. tx_offset < appended
    BY <1>1, <1>2, <1>4
  <2>2. /\ user_buffers[1].lo = acked_offset
        /\ user_buffers[Len(user_buffers)].hi = appended
    BY <1>1, <1>4 DEF Base, First, Contiguous
  <2>3. user_buffers[1].lo + unacked_size <= user_buffers[Len(user_buffers)].hi
    BY <1>1, <2>2
  <2>4. /\ i \in 1..(Len(user_buffers) + 1)
        /\ k \in Nat
        /\ i <= Len(user_buffers) =>
             /\ k = user_buffers[1].lo + unacked_size - user_buffers[i].lo
             /\ k <= SizeOf(user_buffers[i])
        /\ i = Len(user_buffers) + 1 =>
             user_buffers[1].lo + unacked_size = user_buffers[Len(user_buffers)].hi
    <3> HIDE DEF i
    <3>1. i = StopsAt(user_buffers, unacked_size)
      BY DEF i
    <3>2. QED
      BY <1>1, <1>4, <2>3, <3>1, StopsAtView
  <2>5. Len(user_buffers) \in Nat
    BY <1>1, ViewElements
  <2> HIDE DEF i, k
  <2>6. i \in 1..Len(user_buffers)
    BY <1>1, <2>1, <2>2, <2>4, <2>5
  <2>7. p = From(user_buffers, i, k)
    BY <1>4 DEF pending, get_buffer_it, i, k
  <2>8. user_buffers[i].lo \in Nat
    BY <1>1, <2>6, ViewElements
  <2>9. user_buffers[i].lo + k = tx_offset
    <3>1. i <= Len(user_buffers)
      BY <2>5, <2>6
    <3>2. k = user_buffers[1].lo + unacked_size - user_buffers[i].lo
      BY <2>4, <3>1
    <3>3. user_buffers[1].lo + unacked_size = tx_offset
      BY <1>1, <2>2
    <3>4. user_buffers[1].lo \in Nat /\ unacked_size \in Nat
      BY <1>1, <1>4, ViewElements
    <3>5. \A a, b, c \in Nat : c + (a + (b - c)) = a + b
      OBVIOUS
    <3>6. QED
      BY <2>8, <3>2, <3>3, <3>4, <3>5, Zenon
  <2> HIDE DEF p
  <2>10. /\ p \in Seq(View) /\ p # <<>>
         /\ p[1].lo = tx_offset /\ Contiguous(p, appended)
    <3>1. k \in Nat /\ k <= SizeOf(user_buffers[i])
      BY <2>4, <2>6
    <3>2. QED
      BY <1>1, <2>6, <2>7, <2>9, <3>1, FromViews
  <2>11. size(p) = appended - tx_offset
    BY <2>10, SizeIs
  <2>12. QED
    BY <2>10, <2>11 DEF PendingIsUnsent, p
<1>5. QED
  BY <1>3, <1>4

\* Appending the next view keeps the tiling and its first byte.
LEMMA AppendView ==
  ASSUME NEW bufs \in Seq(View), NEW end \in Nat, Contiguous(bufs, end), NEW n \in Nat,
         NEW v, v = [lo |-> end, hi |-> end + n]
  PROVE  /\ Append(bufs, v) \in Seq(View)
         /\ Append(bufs, v) # <<>>
         /\ Contiguous(Append(bufs, v), end + n)
         /\ Append(bufs, v)[1].lo = IF bufs = <<>> THEN end ELSE bufs[1].lo
<1> DEFINE m == Len(bufs)
           a == Append(bufs, v)
<1>1. v \in View /\ v.lo = end /\ v.hi = end + n /\ v.lo <= v.hi
  BY DEF View
<1>2. /\ a \in Seq(View) /\ a # <<>> /\ Len(a) = m + 1
      /\ \A i \in 1..m : a[i] = bufs[i]
      /\ a[m + 1] = v
  BY <1>1, AppendProperties
<1>3. m \in Nat /\ (bufs # <<>> => m >= 1) /\ (bufs = <<>> => m = 0)
  BY ViewElements, EmptySeq
<1> HIDE DEF a
<1>4. Contiguous(a, end + n)
  <2>1. ASSUME NEW i \in 1..Len(a) PROVE a[i].lo <= a[i].hi
    <3>1. CASE i = m + 1
      BY <1>1, <1>2, <3>1
    <3>2. CASE i # m + 1
      <4>1. i \in 1..m
        BY <1>2, <1>3, <3>2
      <4>2. QED
        BY <1>2, <4>1 DEF Contiguous
    <3>3. QED
      BY <3>1, <3>2
  <2>2. ASSUME NEW i \in 1..(Len(a) - 1) PROVE a[i].hi = a[i + 1].lo
    <3>1. i \in 1..m
      BY <1>2, <1>3
    <3>2. CASE i = m
      <4>1. bufs # <<>> /\ bufs[m].hi = end
        BY <1>3, <3>1 DEF Contiguous
      <4>2. QED
        BY <1>1, <1>2, <3>1, <3>2, <4>1
    <3>3. CASE i # m
      <4>1. i \in 1..(m - 1) /\ i + 1 \in 1..m
        BY <1>3, <3>1, <3>3
      <4>2. QED
        BY <1>2, <3>1, <4>1 DEF Contiguous
    <3>4. QED
      BY <3>2, <3>3
  <2>3. a[Len(a)].hi = end + n
    BY <1>1, <1>2
  <2>4. QED
    BY <2>1, <2>2, <2>3 DEF Contiguous
<1>5. a[1].lo = IF bufs = <<>> THEN end ELSE bufs[1].lo
  <2>1. CASE bufs = <<>>
    BY <1>1, <1>2, <1>3, <2>1
  <2>2. CASE bufs # <<>>
    <3>1. 1 \in 1..m
      BY <1>3, <2>2
    <3>2. QED
      BY <1>2, <2>2, <3>1
  <2>3. QED
    BY <2>1, <2>2
<1>6. QED
  BY <1>2, <1>4, <1>5 DEF a

\* Dropping n acknowledged bytes keeps the tiling and moves its first byte by n.
LEMMA DropView ==
  ASSUME NEW bufs \in Seq(View), NEW end \in Nat, Contiguous(bufs, end), NEW n \in Nat,
         NEW lo \in Nat, lo = First(bufs, end), lo + n <= end
  PROVE  /\ DropAcked(bufs, n) \in Seq(View)
         /\ Contiguous(DropAcked(bufs, n), end)
         /\ First(DropAcked(bufs, n), end) = lo + n
<1> DEFINE i == StopsAt(bufs, n)
           k == Rest(bufs, n, i)
           d == DropAcked(bufs, n)
<1>1. d = From(bufs, i, k)
  BY DEF DropAcked
<1>2. Contiguous(<<>>, end) /\ <<>> \in Seq(View)
  BY DEF Contiguous
<1>3. CASE bufs = <<>>
  <2>1. i \in 1..1
    <3>1. Len(bufs) = 0
      BY <1>3
    <3>2. ~Skips(bufs, n, 1) /\ \A j \in 1..(1 - 1) : Skips(bufs, n, j)
      BY <3>1 DEF Skips
    <3>3. QED
      BY <3>1, <3>2 DEF StopsAt
  <2>2. d = <<>>
    BY <1>1, <1>3, <2>1 DEF From
  <2>3. lo + n = end
    BY <1>3 DEF First
  <2> HIDE DEF d
  <2>4. QED
    BY <1>2, <2>2, <2>3 DEF d, First
<1>4. CASE bufs # <<>>
  <2>1. lo = bufs[1].lo /\ bufs[Len(bufs)].hi = end
    BY <1>4 DEF Contiguous, First
  <2>2. /\ i \in 1..(Len(bufs) + 1)
        /\ k \in Nat
        /\ i <= Len(bufs) => k = bufs[1].lo + n - bufs[i].lo /\ k <= SizeOf(bufs[i])
        /\ i = Len(bufs) + 1 => bufs[1].lo + n = bufs[Len(bufs)].hi
    <3> HIDE DEF i
    <3>1. i = StopsAt(bufs, n) /\ bufs[1].lo + n <= bufs[Len(bufs)].hi
      BY <2>1 DEF i
    <3>2. QED
      BY <1>4, <3>1, StopsAtView
  <2>3. Len(bufs) \in Nat
    BY ViewElements
  <2> HIDE DEF i, k, d
  <2>4. CASE i <= Len(bufs)
    <3>1. i \in 1..Len(bufs) /\ k <= SizeOf(bufs[i]) /\ bufs[i].lo \in Nat
      <4>1. i \in 1..Len(bufs)
        BY <2>2, <2>3, <2>4
      <4>2. k <= SizeOf(bufs[i])
        BY <2>2, <2>4
      <4>3. QED
        BY <4>1, <4>2, ViewElements
    <3>2. d \in Seq(View) /\ d # <<>> /\ d[1].lo = bufs[i].lo + k /\ Contiguous(d, end)
      BY <1>1, <2>2, <3>1, FromViews
    <3>3. bufs[i].lo + k = lo + n
      BY <2>1, <2>2, <2>4, <3>1, SMTT(30)
    <3>4. QED
      BY <3>2, <3>3 DEF d, First
  <2>5. CASE i = Len(bufs) + 1
    <3>1. d = <<>>
      BY <1>1, <2>3, <2>5 DEF From
    <3>2. QED
      BY <1>2, <2>1, <2>2, <2>5, <3>1 DEF d, First
  <2>6. QED
    BY <2>2, <2>3, <2>4, <2>5
<1>5. QED
  BY <1>3, <1>4

\* Each operation of the stream preserves the accounting.
LEMMA NextPreservesIInv == IInv /\ [Next]_vars => IInv'
<1> SUFFICES ASSUME IInv, [Next]_vars PROVE IInv'
  OBVIOUS
<1>1. /\ user_buffers \in Seq(View) /\ Contiguous(user_buffers, appended)
      /\ unacked_size \in Nat /\ appended \in Nat /\ tx_offset \in Nat
      /\ acked_offset \in Nat /\ Base = acked_offset /\ appended <= MaxAppended
      /\ acked_offset + unacked_size = tx_offset /\ tx_offset <= appended
  BY BoundAssumption DEF IInv, TypeOK, Accounting
<1>2. ASSUME NEW n \in Sizes, append_buffer(n) PROVE IInv'
  <2> DEFINE v == [lo |-> appended, hi |-> appended + n]
  <2>1. n \in Nat /\ appended + n <= MaxAppended /\ appended' = appended + n
    BY <1>2, SizesAssumption DEF append_buffer
  <2>2. /\ user_buffers' = Append(user_buffers, v)
        /\ UNCHANGED <<unacked_size, tx_offset, acked_offset>>
    BY <1>2 DEF append_buffer
  <2> HIDE DEF v
  <2>3. /\ user_buffers' \in Seq(View)
        /\ user_buffers' # <<>>
        /\ Contiguous(user_buffers', appended')
        /\ user_buffers'[1].lo = IF user_buffers = <<>> THEN appended ELSE user_buffers[1].lo
    <3>1. v = [lo |-> appended, hi |-> appended + n]
      BY DEF v
    <3>2. /\ Append(user_buffers, v) \in Seq(View)
          /\ Append(user_buffers, v) # <<>>
          /\ Contiguous(Append(user_buffers, v), appended + n)
          /\ Append(user_buffers, v)[1].lo =
               IF user_buffers = <<>> THEN appended ELSE user_buffers[1].lo
      <4>1. user_buffers \in Seq(View) /\ appended \in Nat /\ Contiguous(user_buffers, appended)
        BY <1>1
      <4>2. QED
        BY <2>1, <3>1, <4>1, AppendView, SMTT(30)
    <3>3. QED
      BY <2>1, <2>2, <3>2
  <2>4. Base' = acked_offset'
    BY <1>1, <2>2, <2>3 DEF Base, First
  <2>5. TypeOK'
    BY <1>1, <2>1, <2>2, <2>3, BoundAssumption DEF TypeOK
  <2>6. Accounting'
    BY <1>1, <2>1, <2>2, <2>3, <2>4 DEF Accounting
  <2>7. QED
    BY <2>5, <2>6 DEF IInv
<1>3. ASSUME NEW n \in 1..MaxAppended, wrote(n) PROVE IInv'
  <2>1. n \in 1..(appended - tx_offset)
    BY <1>3, PendingIs DEF wrote
  <2>2. /\ unacked_size' = unacked_size + n /\ tx_offset' = tx_offset + n
        /\ UNCHANGED <<user_buffers, appended, acked_offset>>
    BY <1>3 DEF wrote
  <2>3. Base' = acked_offset'
    BY <1>1, <2>2 DEF Base, First
  <2>4. TypeOK'
    BY <1>1, <2>1, <2>2, BoundAssumption DEF TypeOK
  <2>5. Accounting'
    BY <1>1, <2>1, <2>2, <2>3 DEF Accounting
  <2>6. QED
    BY <2>4, <2>5 DEF IInv
<1>4. ASSUME NEW n \in 0..MaxAppended, acknowledge(n) PROVE IInv'
  <2>1. /\ n \in Nat /\ acked_offset + n <= tx_offset
        /\ acked_offset' = acked_offset + n /\ unacked_size' = unacked_size - n
        /\ user_buffers' = DropAcked(user_buffers, n)
        /\ UNCHANGED <<appended, tx_offset>>
    BY <1>4, BoundAssumption DEF acknowledge
  <2>2. /\ user_buffers' \in Seq(View)
        /\ Contiguous(user_buffers', appended)
        /\ First(user_buffers', appended) = acked_offset + n
    <3>1. acked_offset = First(user_buffers, appended)
      BY <1>1 DEF Base
    <3>2. acked_offset + n <= appended
      BY <1>1, <2>1
    <3>3. /\ DropAcked(user_buffers, n) \in Seq(View)
          /\ Contiguous(DropAcked(user_buffers, n), appended)
          /\ First(DropAcked(user_buffers, n), appended) = acked_offset + n
      BY <1>1, <2>1, <3>1, <3>2, DropView
    <3>4. QED
      BY <2>1, <3>3
  <2>3. Base' = acked_offset'
    BY <2>1, <2>2 DEF Base
  <2>4. TypeOK'
    BY <1>1, <2>1, <2>2, BoundAssumption DEF TypeOK
  <2>5. Accounting'
    BY <1>1, <2>1, <2>2, <2>3 DEF Accounting
  <2>6. QED
    BY <2>4, <2>5 DEF IInv
<1>5. CASE UNCHANGED vars
  BY <1>5 DEF IInv, TypeOK, Accounting, Base, First, vars
<1>6. QED
  BY <1>2, <1>3, <1>4, <1>5 DEF Next

\* The accounting of user_buffers and unacked_size is right in every state of
\* every run of the stream, for all view sizes and bounds.
THEOREM AccountingHolds == Spec => [](TypeOK /\ Accounting)
<1>1. Init => IInv
  <2> SUFFICES ASSUME Init PROVE IInv
    OBVIOUS
  <2>1. user_buffers = <<>> /\ Contiguous(<<>>, 0) /\ <<>> \in Seq(View)
    BY DEF Init, Contiguous
  <2>2. QED
    BY <2>1, BoundAssumption DEF Init, IInv, TypeOK, Accounting, Base, First
<1>2. QED
  BY <1>1, NextPreservesIInv, PTL DEF Spec, IInv

\* pending() offers exactly the bytes ngtcp2 was not given, in order, from the
\* offset at which ngtcp2 will send them.
THEOREM PendingHolds == Spec => []PendingIsUnsent
<1>1. IInv => PendingIsUnsent
  BY PendingIs
<1>2. QED
  BY <1>1, AccountingHolds, PTL DEF IInv

\* unsent() never wraps around.
THEOREM UnsentHolds == Spec => []UnsentExact
<1>1. QED
  BY UnsentIs, AccountingHolds, PTL DEF IInv

\* Adjacent views hold every byte from the first one's start to the end.
LEMMA ViewsCover ==
  ASSUME NEW bufs \in Seq(View), NEW end \in Nat, Contiguous(bufs, end),
         NEW p \in Nat, First(bufs, end) <= p, p < end
  PROVE  \E i \in 1..Len(bufs) : bufs[i].lo <= p /\ p < bufs[i].hi
<1> DEFINE m == Len(bufs)
           S == {i \in 1..m : p < bufs[i].hi}
<1>1. m \in Nat /\ \A j \in 1..m : bufs[j].lo \in Nat /\ bufs[j].hi \in Nat
  BY ViewElements
<1>2. bufs # <<>>
  BY DEF First
<1>3. m \in 1..m /\ bufs[m].hi = end /\ bufs[1].lo <= p
  BY <1>1, <1>2 DEF Contiguous, First
<1>4. S \in SUBSET Nat /\ S # {}
  BY <1>1, <1>3
<1>5. PICK i \in S : \A j \in S : i <= j
  <2> HIDE DEF S
  <2>1. QED
    BY <1>4, LeastElement
<1>6. i \in 1..m /\ p < bufs[i].hi
  BY <1>5
<1>7. bufs[i].lo <= p
  <2>1. CASE i = 1
    BY <1>3, <2>1
  <2>2. CASE i # 1
    <3>1. i - 1 \in 1..(m - 1) /\ i - 1 \in 1..m /\ (i - 1) + 1 = i
      BY <1>1, <1>6, <2>2
    <3>2. ~(i <= i - 1)
      BY <1>6
    <3>3. i - 1 \notin S
      BY <1>5, <3>2
    <3>4. ~(p < bufs[i - 1].hi)
      BY <3>1, <3>3
    <3>5. bufs[i - 1].hi = bufs[i].lo
      BY <3>1 DEF Contiguous
    <3>6. QED
      BY <1>1, <1>6, <3>4, <3>5
  <2>3. QED
    BY <2>1, <2>2
<1>8. QED
  BY <1>6, <1>7

\* acknowledge() never releases a view with a byte ngtcp2 may still resend,
\* and no view with a byte it was not given yet.
THEOREM UnackedHolds == Spec => []UnackedBytesKept
<1>1. IInv => UnackedBytesKept
  <2> SUFFICES ASSUME IInv, NEW p \in acked_offset..(appended - 1)
               PROVE  \E i \in 1..Len(user_buffers) :
                        user_buffers[i].lo <= p /\ p < user_buffers[i].hi
    BY DEF UnackedBytesKept
  <2>1. /\ user_buffers \in Seq(View) /\ Contiguous(user_buffers, appended)
        /\ appended \in Nat /\ acked_offset \in Nat
        /\ First(user_buffers, appended) = acked_offset
    BY BoundAssumption DEF IInv, TypeOK, Accounting, Base
  <2>2. p \in Nat /\ acked_offset <= p /\ p < appended
    BY <2>1
  <2>3. QED
    BY <2>1, <2>2, ViewsCover
<1>2. QED
  BY <1>1, AccountingHolds, PTL DEF IInv

\* Every step of the stream is a step of the promise or leaves it unchanged.
LEMMA StepImplements == IInv /\ IInv' /\ [Next]_vars => [Promise!Next]_(Promise!vars)
<1> SUFFICES ASSUME IInv, IInv', [Next]_vars PROVE [Promise!Next]_(Promise!vars)
  OBVIOUS
<1>1. /\ appended \in Nat /\ unacked_size \in Nat /\ acked_offset \in Nat
      /\ tx_offset \in Nat /\ Base = acked_offset /\ Base + unacked_size = tx_offset
      /\ tx_offset <= appended
  BY BoundAssumption DEF IInv, TypeOK, Accounting
<1>2. /\ Base' = acked_offset' /\ Base' + unacked_size' = tx_offset'
      /\ tx_offset' <= appended'
  BY DEF IInv, Accounting
<1>3. ASSUME NEW n \in Sizes, append_buffer(n) PROVE Promise!Queue
  <2>1. n \in Nat /\ appended' = appended + n /\ UNCHANGED <<acked_offset, tx_offset>>
    BY <1>3, SizesAssumption DEF append_buffer
  <2>2. QED
    BY <1>1, <1>2, <2>1 DEF Promise!Queue
<1>4. ASSUME NEW n \in 1..MaxAppended, wrote(n) PROVE Promise!Send
  <2>1. n \in Nat /\ n > 0 /\ tx_offset' = tx_offset + n /\ UNCHANGED <<appended, acked_offset>>
    BY <1>4, BoundAssumption DEF wrote
  <2>2. QED
    BY <1>1, <1>2, <2>1 DEF Promise!Send
<1>5. ASSUME NEW n \in 0..MaxAppended, acknowledge(n) PROVE Promise!Ack
  <2>1. /\ n \in Nat /\ acked_offset + n <= tx_offset /\ acked_offset' = acked_offset + n
        /\ UNCHANGED <<appended, tx_offset>>
    BY <1>5, BoundAssumption DEF acknowledge
  <2>2. QED
    BY <1>1, <1>2, <2>1 DEF Promise!Ack
<1>6. CASE UNCHANGED vars
  BY <1>6 DEF Promise!vars, vars, Base, First
<1>7. QED
  BY <1>3, <1>4, <1>5, <1>6 DEF Next, Promise!Next

\* The stream implements the ordered byte stream of ByteStream: the fields of
\* Stream, under the mapping of Promise, make only the steps it allows.
THEOREM ByteStreamHolds == Spec => ImplementsByteStream
<1>1. Init => Promise!Init
  BY DEF Init, Promise!Init, Base, First
<1>2. Spec => []IInv
  BY AccountingHolds, PTL DEF IInv
<1>3. QED
  BY <1>1, <1>2, StepImplements, PTL DEF Spec, ImplementsByteStream, Promise!Spec
=============================================================================
