------------------------- MODULE ChunkSenderProofs -------------------------
(***************************************************************************)
(* send_chunks keeps its promises for any number of chunks and any number  *)
(* of simultaneous ones.                                                   *)
(***************************************************************************)
EXTENDS ChunkSender, FiniteSetTheorems, SequenceTheorems, TLAPS

Chunks == 0..NumChunks
Stored == Range(jobs) \cup Range(user_buffers)

\* The fields of the record pc agree with each other and with the chunks held.
Control ==
  /\ pc.loop # "sent"
  /\ pc.make # "idle" <=> initial > 0
  /\ chunk.make # 0 <=> pc.make \in {"has", "sent"}
  /\ chunk.loop # 0 <=> pc.loop = "has"
  /\ destroyed => pc.make = "idle"
  /\ on_loop => jobs = <<>> /\ pc.make # "sent" /\ (pc.make # "idle" => pc.loop = "idle")

\* No chunk is twice in a sequence.
Once(q) == \A i, j \in DOMAIN q : q[i] = q[j] /\ q[i] # 0 => i = j

\* A chunk is in one place; make() may also have one that it has sent.
Unique ==
  /\ Once(jobs) /\ Once(user_buffers)
  /\ \A c \in Range(jobs) : c \in Range(user_buffers) => c = 0
  /\ \A c \in Stored : c <= given
  /\ chunk.make <= given /\ chunk.loop <= given
  /\ chunk.make = chunk.loop => chunk.make = 0
  /\ chunk.loop # 0 => chunk.loop \notin Stored
  /\ pc.make = "has" => chunk.make \notin Stored

\* The calls of next_chunk that are still to come from make() and the loop.
MakeCalls == IF pc.make \in {"has", "sent"} THEN initial - 1 ELSE initial
LoopCalls == IF pc.loop \in {"queue", "checked"} THEN 1 ELSE 0
Rights == MakeCalls + LoopCalls

Bounded == Cardinality(Active) + Rights <= simultaneous

\* make()'s chunk was acknowledged while send had not returned.
AckedEarly == pc.make = "sent" /\ LastReference

Asked ==
  ~destroyed => given + Rights + (IF AckedEarly THEN 1 ELSE 0) <= simultaneous + acked

Has == pc.make = "has" \/ pc.loop = "has"

\* What send_chunks on the loop's thread has appended.
Ordered ==
  on_loop =>
    /\ \A i \in 1..Len(appended) : appended[i] = (IF i > NumChunks THEN 0 ELSE i)
    /\ Len(appended) <= NumChunks + 1
    /\ ~destroyed =>
         /\ next_chunk => Len(appended) = IF Has THEN given - 1 ELSE given
         /\ ~next_chunk => pc.make \notin {"checked", "empty", "has"}
                             /\ pc.loop \notin {"checked", "empty", "has"}
         /\ pc.make = "has" => chunk.make = given
         /\ pc.loop = "has" => chunk.loop = given
         /\ pc.make = "empty" \/ pc.loop = "empty" => given = NumChunks

IInv == TypeOK /\ Control /\ Unique /\ Bounded /\ Asked /\ Ordered
-----------------------------------------------------------------------------
Places == {"idle", "queue", "checked", "empty", "has", "sent"}

\* The types, one field at a time.
LEMMA Types ==
  TypeOK <=>
    /\ on_loop \in BOOLEAN /\ next_chunk \in BOOLEAN /\ destroyed \in BOOLEAN
    /\ crashed \in BOOLEAN
    /\ initial \in 0..simultaneous
    /\ pc \in [{"make", "loop"} -> Places]
    /\ chunk \in [{"make", "loop"} -> Chunks]
    /\ given \in Chunks
    /\ jobs \in Seq(Chunks) /\ user_buffers \in Seq(Chunks) /\ appended \in Seq(Chunks)
    /\ dones \in Nat /\ acked \in Nat
BY DEF TypeOK, Places, Chunks

\* The same of the next state.
LEMMA TypesNext ==
  /\ on_loop' \in BOOLEAN /\ next_chunk' \in BOOLEAN /\ destroyed' \in BOOLEAN
  /\ crashed' \in BOOLEAN
  /\ initial' \in 0..simultaneous
  /\ pc' \in [{"make", "loop"} -> Places]
  /\ chunk' \in [{"make", "loop"} -> Chunks]
  /\ given' \in Chunks
  /\ jobs' \in Seq(Chunks) /\ user_buffers' \in Seq(Chunks) /\ appended' \in Seq(Chunks)
  /\ dones' \in Nat /\ acked' \in Nat
  => TypeOK'
BY DEF TypeOK, Places, Chunks

\* A chunk appended to a sequence.
LEMMA Appended ==
  \A q \in Seq(Chunks) : \A c \in Chunks :
    /\ Append(q, c) \in Seq(Chunks)
    /\ Range(Append(q, c)) = Range(q) \cup {c}
    /\ Once(q) /\ (c = 0 \/ c \notin Range(q)) => Once(Append(q, c))
<1> TAKE q \in Seq(Chunks)
<1> TAKE c \in Chunks
<1>1. /\ Append(q, c) \in Seq(Chunks) /\ Len(Append(q, c)) = Len(q) + 1
      /\ \A i \in 1..Len(q) : Append(q, c)[i] = q[i]
      /\ Append(q, c)[Len(q) + 1] = c
  BY AppendProperties
<1>2. DOMAIN q = 1..Len(q) /\ DOMAIN Append(q, c) = 1..(Len(q) + 1) /\ Len(q) \in Nat
  BY <1>1, LenProperties
<1>3. Range(Append(q, c)) = Range(q) \cup {c}
  BY <1>1, <1>2 DEF Range
<1>4. ASSUME Once(q), c = 0 \/ c \notin Range(q)
      PROVE  Once(Append(q, c))
  <2>1. \A i \in 1..Len(q) : q[i] # c \/ c = 0
    BY <1>2, <1>4 DEF Range
  <2>2. \A i, j \in 1..Len(q) : q[i] = q[j] /\ q[i] # 0 => i = j
    BY <1>2, <1>4 DEF Once
  <2>3. QED
    BY <1>1, <1>2, <2>1, <2>2 DEF Once
<1>5. QED
  BY <1>1, <1>3, <1>4

\* The first chunk taken from a sequence.
LEMMA Taken ==
  \A q \in Seq(Chunks) : q # <<>> =>
    /\ Tail(q) \in Seq(Chunks) /\ Head(q) \in Chunks
    /\ Range(q) = Range(Tail(q)) \cup {Head(q)}
    /\ Once(q) => Once(Tail(q)) /\ (Head(q) # 0 => Head(q) \notin Range(Tail(q)))
<1> SUFFICES ASSUME NEW q \in Seq(Chunks), q # <<>>
             PROVE  /\ Tail(q) \in Seq(Chunks) /\ Head(q) \in Chunks
                    /\ Range(q) = Range(Tail(q)) \cup {Head(q)}
                    /\ Once(q) => /\ Once(Tail(q))
                                  /\ Head(q) # 0 => Head(q) \notin Range(Tail(q))
  OBVIOUS
<1>1. /\ Tail(q) \in Seq(Chunks) /\ Head(q) \in Chunks /\ Head(q) = q[1]
      /\ Len(q) \in Nat \ {0} /\ Len(Tail(q)) = Len(q) - 1
      /\ \A i \in 1..(Len(q) - 1) : Tail(q)[i] = q[i + 1]
  BY HeadTailProperties, LenProperties, EmptySeq
<1>2. DOMAIN q = 1..Len(q) /\ DOMAIN Tail(q) = 1..(Len(q) - 1)
  BY <1>1, LenProperties
<1>3. Range(q) = Range(Tail(q)) \cup {Head(q)}
  <2>1. ASSUME NEW v \in Range(q) PROVE v \in Range(Tail(q)) \cup {Head(q)}
    <3>1. PICK i \in 1..Len(q) : v = q[i]
      BY <1>2 DEF Range
    <3>2. CASE i = 1
      BY <1>1, <3>1, <3>2
    <3>3. CASE i # 1
      <4>1. i - 1 \in 1..(Len(q) - 1) /\ (i - 1) + 1 = i
        BY <1>1, <3>3
      <4>2. Tail(q)[i - 1] = v
        BY <1>1, <3>1, <4>1
      <4>3. QED
        BY <1>2, <4>1, <4>2 DEF Range
    <3>4. QED
      BY <3>2, <3>3
  <2>2. ASSUME NEW v \in Range(Tail(q)) PROVE v \in Range(q)
    <3>1. PICK i \in 1..(Len(q) - 1) : v = q[i + 1]
      BY <1>1, <1>2 DEF Range
    <3>2. i + 1 \in 1..Len(q)
      BY <1>1
    <3>3. QED
      BY <1>2, <3>1, <3>2 DEF Range
  <2>3. Head(q) \in Range(q)
    BY <1>1, <1>2 DEF Range
  <2>4. QED
    BY <2>1, <2>2, <2>3
<1>4. ASSUME Once(q)
      PROVE  Once(Tail(q)) /\ (Head(q) # 0 => Head(q) \notin Range(Tail(q)))
  <2>1. \A i, j \in 1..Len(q) : q[i] = q[j] /\ q[i] # 0 => i = j
    BY <1>2, <1>4 DEF Once
  <2>2. \A i \in 1..(Len(q) - 1) : i + 1 \in 1..Len(q) /\ i + 1 # 1
    BY <1>1
  <2>3. Once(Tail(q))
    <3>1. ASSUME NEW i \in 1..(Len(q) - 1), NEW j \in 1..(Len(q) - 1),
                 Tail(q)[i] = Tail(q)[j], Tail(q)[i] # 0
          PROVE  i = j
      <4>1. q[i + 1] = q[j + 1] /\ q[i + 1] # 0
        BY <1>1, <3>1
      <4>2. i + 1 = j + 1
        BY <2>1, <2>2, <4>1
      <4>3. QED
        BY <1>1, <4>2
    <3>2. QED
      BY <1>2, <3>1 DEF Once
  <2>4. ASSUME Head(q) # 0, Head(q) \in Range(Tail(q)) PROVE FALSE
    <3>1. PICK i \in 1..(Len(q) - 1) : Head(q) = q[i + 1]
      BY <1>1, <1>2, <2>4 DEF Range
    <3>2. QED
      BY <1>1, <2>1, <2>2, <2>4, <3>1
  <2>5. QED
    BY <2>3, <2>4
<1>5. QED
  BY <1>1, <1>3, <1>4
-----------------------------------------------------------------------------
\* The active chunks are those stored and those the two threads hold.
LEMMA ActiveIs ==
  /\ TypeOK => /\ Active = (Stored \cup {chunk.make, chunk.loop}) \ {0}
               /\ IsFiniteSet(Active)
  /\ TypeOK' => Active' = (Stored' \cup {chunk'.make, chunk'.loop}) \ {0}
<1>1. TypeOK => Active = (Stored \cup {chunk.make, chunk.loop}) \ {0}
  <2>1. TypeOK => Range(chunk) = {chunk.make, chunk.loop}
    BY Types DEF Range
  <2>2. QED
    BY <2>1 DEF Active, Stored
<1>2. TypeOK' => Active' = (Stored' \cup {chunk'.make, chunk'.loop}) \ {0}
  <2>1. TypeOK' => Range(chunk') = {chunk'.make, chunk'.loop}
    BY DEF Range, TypeOK
  <2>2. QED
    BY <2>1 DEF Active, Stored
<1>3. TypeOK => IsFiniteSet(Active)
  <2>1. TypeOK => Active \subseteq Chunks
    <3>1. \A q \in Seq(Chunks) : Range(q) \subseteq Chunks
      BY DEF Range
    <3>2. QED
      BY <1>1, <3>1, Types DEF Stored
  <2>2. IsFiniteSet(Chunks)
    BY ChunksAssumption, FS_Interval DEF Chunks
  <2>3. QED
    BY <2>1, <2>2, FS_Subset
<1>4. QED
  BY <1>1, <1>2, <1>3

\* The calls still to come are a natural number.
LEMMA RightsNat == TypeOK /\ Control => Rights \in Nat
<1> SUFFICES ASSUME TypeOK, Control PROVE Rights \in Nat
  OBVIOUS
<1>1. initial \in Nat /\ (pc.make \in {"has", "sent"} => initial > 0)
  BY Types, ChunksAssumption DEF Control
<1>2. MakeCalls \in Nat /\ LoopCalls \in Nat
  BY <1>1 DEF MakeCalls, LoopCalls
<1>3. QED
  BY <1>2 DEF Rights

\* The bound is kept when no chunk becomes active and no call is added,
LEMMA BoundKept ==
  ASSUME TypeOK, Control, Bounded, Rights' \in {Rights, Rights - 1},
         Active' \subseteq Active
  PROVE  Bounded'
<1>1. IsFiniteSet(Active)
  BY ActiveIs
<1>2. /\ Cardinality(Active') <= Cardinality(Active)
      /\ Cardinality(Active) \in Nat /\ Cardinality(Active') \in Nat
  BY <1>1, FS_Subset, FS_CardinalityType
<1>3. Rights \in Nat
  BY RightsNat
<1>4. \A a, b, r \in Nat :
        b <= a /\ a + r <= simultaneous => b + r <= simultaneous /\ b + (r - 1) <= simultaneous
  BY ChunksAssumption
<1>5. Cardinality(Active) + Rights <= simultaneous
  BY DEF Bounded
<1>6. /\ Cardinality(Active') + Rights <= simultaneous
      /\ Cardinality(Active') + (Rights - 1) <= simultaneous
  BY <1>2, <1>3, <1>4, <1>5, Zenon
<1>7. QED
  BY <1>6, Zenon DEF Bounded

\* when a call has become a chunk,
LEMMA BoundAdded ==
  ASSUME TypeOK, Control, Bounded, Rights' = Rights - 1,
         NEW c, Active' \subseteq Active \cup {c}
  PROVE  Bounded'
<1>1. IsFiniteSet(Active)
  BY ActiveIs
<1>2. /\ IsFiniteSet(Active \cup {c}) /\ Cardinality(Active) \in Nat
      /\ Cardinality(Active \cup {c}) <= Cardinality(Active) + 1
  <2>1. IsFiniteSet(Active \cup {c}) /\ Cardinality(Active) \in Nat
    BY <1>1, FS_AddElement, FS_CardinalityType
  <2>2. CASE c \in Active
    <3>1. Active \cup {c} = Active
      BY <2>2
    <3>2. QED
      BY <2>1, <3>1
  <2>3. CASE c \notin Active
    <3>1. Cardinality(Active \cup {c}) = Cardinality(Active) + 1
      BY <1>1, <2>3, FS_AddElement
    <3>2. QED
      BY <2>1, <3>1
  <2>4. QED
    BY <2>2, <2>3
<1>3. /\ Cardinality(Active') <= Cardinality(Active \cup {c})
      /\ Cardinality(Active') \in Nat /\ Cardinality(Active \cup {c}) \in Nat
  BY <1>2, FS_Subset, FS_CardinalityType
<1>4. Rights \in Nat
  BY RightsNat
<1>5. \A a, b, d, r \in Nat :
        b <= d /\ d <= a + 1 /\ a + r <= simultaneous => b + (r - 1) <= simultaneous
  BY ChunksAssumption
<1>6. Cardinality(Active) + Rights <= simultaneous
  BY DEF Bounded
<1>7. Cardinality(Active') + (Rights - 1) <= simultaneous
  BY <1>2, <1>3, <1>4, <1>5, <1>6, Zenon
<1>8. QED
  BY <1>7, Zenon DEF Bounded

\* and when a chunk has become a call.
LEMMA BoundRemoved ==
  ASSUME TypeOK, Control, Bounded, Rights' = Rights + 1,
         NEW c \in Active, Active' \subseteq Active \ {c}
  PROVE  Bounded'
<1>1. IsFiniteSet(Active)
  BY ActiveIs
<1>2. /\ IsFiniteSet(Active \ {c}) /\ Cardinality(Active) \in Nat
      /\ Cardinality(Active \ {c}) = Cardinality(Active) - 1
  BY <1>1, FS_RemoveElement, FS_CardinalityType
<1>3. /\ Cardinality(Active') <= Cardinality(Active \ {c})
      /\ Cardinality(Active') \in Nat /\ Cardinality(Active \ {c}) \in Nat
  BY <1>2, FS_Subset, FS_CardinalityType
<1>4. Rights \in Nat
  BY RightsNat
<1>5. \A a, b, d, r \in Nat :
        b <= d /\ d = a - 1 /\ a + r <= simultaneous => b + (r + 1) <= simultaneous
  BY ChunksAssumption
<1>6. Cardinality(Active) + Rights <= simultaneous
  BY DEF Bounded
<1>7. Cardinality(Active') + (Rights + 1) <= simultaneous
  BY <1>2, <1>3, <1>4, <1>5, <1>6, Zenon
<1>8. QED
  BY <1>7, Zenon DEF Bounded

\* What the end of queue_next_chunk leaves on make()'s thread
LEMMA MakeReturns ==
  ASSUME TypeOK, Control, pc.make # "idle", Return("make")
  PROVE  /\ pc' \in [{"make", "loop"} -> Places] /\ chunk' \in [{"make", "loop"} -> Chunks]
         /\ initial' \in 0..simultaneous /\ initial' = initial - 1 /\ initial > 0
         /\ pc'.make = (IF initial > 1 THEN "queue" ELSE "idle") /\ pc'.loop = pc.loop
         /\ chunk'.make = 0 /\ chunk'.loop = chunk.loop
<1>1. initial > 0 /\ initial \in 0..simultaneous /\ initial' = initial - 1
  BY Types DEF Control, Return
<1>2. /\ pc' = [pc EXCEPT !["make"] = IF initial > 1 THEN "queue" ELSE "idle"]
      /\ chunk' = [chunk EXCEPT !["make"] = 0]
  BY DEF Return
<1>3. pc \in [{"make", "loop"} -> Places] /\ chunk \in [{"make", "loop"} -> Chunks]
  BY Types
<1>4. initial' \in 0..simultaneous
  BY <1>1, ChunksAssumption
<1>5. 0 \in Chunks
  BY ChunksAssumption DEF Chunks
<1>6. /\ pc' \in [{"make", "loop"} -> Places] /\ pc'.loop = pc.loop
      /\ pc'.make = (IF initial > 1 THEN "queue" ELSE "idle")
  BY <1>2, <1>3 DEF Places
<1>7. /\ chunk' \in [{"make", "loop"} -> Chunks]
      /\ chunk'.make = 0 /\ chunk'.loop = chunk.loop
  BY <1>2, <1>3, <1>5
<1>8. QED
  BY <1>1, <1>4, <1>6, <1>7

\* and on the loop's.
LEMMA LoopReturns ==
  ASSUME TypeOK, Return("loop")
  PROVE  /\ pc' \in [{"make", "loop"} -> Places] /\ chunk' \in [{"make", "loop"} -> Chunks]
         /\ initial' = initial
         /\ pc'.make = pc.make /\ pc'.loop = "idle"
         /\ chunk'.make = chunk.make /\ chunk'.loop = 0
<1>1. pc' = [pc EXCEPT !["loop"] = "idle"] /\ chunk' = [chunk EXCEPT !["loop"] = 0]
      /\ initial' = initial
  BY DEF Return
<1>2. pc \in [{"make", "loop"} -> Places] /\ chunk \in [{"make", "loop"} -> Chunks]
  BY Types
<1>3. 0 \in Chunks
  BY ChunksAssumption DEF Chunks
<1>4. QED
  BY <1>1, <1>2, <1>3 DEF Places
-----------------------------------------------------------------------------
\* The chunks stay in one place when none is stored and none is taken up.
LEMMA UniqueKept ==
  ASSUME Unique, TypeOK, UNCHANGED <<jobs, user_buffers, given>>,
         chunk'.make \in {chunk.make, 0}, chunk'.loop \in {chunk.loop, 0},
         pc'.make = "has" => pc.make = "has" /\ chunk'.make = chunk.make
  PROVE  Unique'
<1>1. given \in Nat
  BY Types, ChunksAssumption DEF Chunks
<1>2. Stored' = Stored
  BY DEF Stored
<1>3. Once(jobs)' /\ Once(user_buffers)'
  BY DEF Unique, Once
<1>4. chunk'.make <= given' /\ chunk'.loop <= given'
  BY <1>1 DEF Unique
<1>5. QED
  BY <1>2, <1>3, <1>4 DEF Unique

\* The number of chunks asked for stays bounded when no call is added.
LEMMA AskedKept ==
  ASSUME Asked, TypeOK, Control, UNCHANGED <<given, acked, destroyed>>,
         Rights' \in {Rights, Rights - 1}, AckedEarly' => AckedEarly
  PROVE  Asked'
<1>1. given \in Nat /\ acked \in Nat /\ simultaneous \in Nat
  BY Types, ChunksAssumption DEF Chunks
<1>2. Rights \in Nat
  BY RightsNat
<1> DEFINE e == IF AckedEarly THEN 1 ELSE 0
           f == IF AckedEarly' THEN 1 ELSE 0
<1>3. e \in Nat /\ (f = e \/ f = 0)
  OBVIOUS
<1>4. ~destroyed => (given + Rights) + e <= simultaneous + acked
  BY DEF Asked
<1> HIDE DEF e
<1>5. ~destroyed => (given + Rights') + f <= simultaneous + acked
  <2>1. ~destroyed => (given + Rights) + f <= simultaneous + acked
    BY <1>1, <1>2, <1>3, <1>4
  <2>2. ~destroyed => (given + (Rights - 1)) + f <= simultaneous + acked
    BY <1>1, <1>2, <1>3, <1>4
  <2>3. QED
    BY <2>1, <2>2, Zenon
<1>6. QED
  BY <1>5 DEF Asked

\* A crash changes nothing else.
LEMMA CrashInv ==
  ASSUME IInv, crashed' \in BOOLEAN,
         UNCHANGED <<on_loop, initial, pc, chunk, given, next_chunk, dones, jobs,
                     user_buffers, appended, acked, destroyed>>
  PROVE  IInv'
<1>1. TypeOK'
  BY DEF IInv, TypeOK
<1>2. Control' /\ Stored' = Stored
  BY DEF IInv, Control, Stored
<1>3. Unique'
  BY UniqueKept DEF IInv
<1>4. Rights' = Rights /\ Active' = Active /\ (AckedEarly' <=> AckedEarly)
  BY DEF Rights, MakeCalls, LoopCalls, Active, AckedEarly, LastReference
<1>5. Bounded' /\ Asked'
  BY <1>4 DEF IInv, Bounded, Asked
<1>6. Ordered'
  BY DEF IInv, Ordered, Has
<1>7. QED
  BY <1>1, <1>2, <1>3, <1>5, <1>6 DEF IInv

\* queue_next_chunk looks at next_chunk, on make()'s thread
LEMMA CheckMakeInv ==
  ASSUME IInv, CheckNext("make")
  PROVE  IInv'
<1>1. /\ pc.make = "queue"
      /\ UNCHANGED <<on_loop, given, next_chunk, dones, jobs, user_buffers, appended,
                     acked, destroyed, crashed>>
  BY DEF CheckNext
<1>2. TypeOK /\ Control /\ Unique /\ Bounded /\ Asked /\ Ordered
  BY DEF IInv
<1>3. /\ pc' \in [{"make", "loop"} -> Places] /\ chunk' \in [{"make", "loop"} -> Chunks]
      /\ initial' \in 0..simultaneous /\ pc'.loop = pc.loop
      /\ chunk'.make = chunk.make /\ chunk'.loop = chunk.loop /\ chunk.make = 0
      /\ \/ next_chunk /\ pc'.make = "checked" /\ initial' = initial
         \/ /\ pc'.make = (IF initial > 1 THEN "queue" ELSE "idle")
            /\ initial' = initial - 1
  <2>1. chunk.make = 0
    BY <1>1, <1>2 DEF Control
  <2>2. CASE next_chunk
    <3>1. pc' = [pc EXCEPT !["make"] = "checked"] /\ initial' = initial /\ chunk' = chunk
      BY <2>2 DEF CheckNext
    <3>2. QED
      BY <1>2, <2>1, <2>2, <3>1, Types DEF Places
  <2>3. CASE ~next_chunk
    <3>1. Return("make") /\ pc.make # "idle"
      BY <1>1, <2>3 DEF CheckNext
    <3>2. QED
      BY <1>2, <2>1, <3>1, MakeReturns
  <2>4. QED
    BY <2>2, <2>3
<1>4. initial \in Nat /\ initial > 0
  BY <1>1, <1>2, Types, ChunksAssumption DEF Control
<1>5. TypeOK'
  BY <1>1, <1>2, <1>3 DEF TypeOK, Places, Chunks
<1>6. Control'
  BY <1>1, <1>2, <1>3, <1>4 DEF Control
<1>7. Unique'
  BY <1>1, <1>2, <1>3, UniqueKept
<1>8. Rights' \in {Rights, Rights - 1}
  <2>1. MakeCalls = initial /\ (MakeCalls' = initial \/ MakeCalls' = initial - 1)
    BY <1>1, <1>3, <1>4 DEF MakeCalls
  <2>2. LoopCalls' = LoopCalls /\ LoopCalls \in {0, 1}
    BY <1>3 DEF LoopCalls
  <2>3. QED
    BY <1>4, <2>1, <2>2 DEF Rights
<1>9. Active' = Active
  BY <1>1, <1>2, <1>3, <1>5, ActiveIs DEF Stored
<1>10. Bounded' /\ Asked'
  BY <1>1, <1>2, <1>3, <1>8, <1>9, BoundKept, AskedKept DEF AckedEarly
<1>11. Ordered'
  BY <1>1, <1>2, <1>3 DEF Ordered, Has
<1>12. QED
  BY <1>5, <1>6, <1>7, <1>10, <1>11 DEF IInv

\* and on the loop's.
LEMMA CheckLoopInv ==
  ASSUME IInv, CheckNext("loop")
  PROVE  IInv'
<1>1. /\ pc.loop = "queue"
      /\ UNCHANGED <<on_loop, given, next_chunk, dones, jobs, user_buffers, appended,
                     acked, destroyed, crashed>>
  BY DEF CheckNext
<1>2. TypeOK /\ Control /\ Unique /\ Bounded /\ Asked /\ Ordered
  BY DEF IInv
<1>3. /\ pc' \in [{"make", "loop"} -> Places] /\ chunk' \in [{"make", "loop"} -> Chunks]
      /\ initial' = initial /\ pc'.make = pc.make
      /\ chunk'.make = chunk.make /\ chunk'.loop = chunk.loop /\ chunk.loop = 0
      /\ (next_chunk /\ pc'.loop = "checked") \/ pc'.loop = "idle"
  <2>1. chunk.loop = 0
    BY <1>1, <1>2 DEF Control
  <2>2. CASE next_chunk
    <3>1. pc' = [pc EXCEPT !["loop"] = "checked"] /\ initial' = initial /\ chunk' = chunk
      BY <2>2 DEF CheckNext
    <3>2. QED
      BY <1>2, <2>1, <2>2, <3>1, Types DEF Places
  <2>3. CASE ~next_chunk
    <3>1. Return("loop")
      BY <2>3 DEF CheckNext
    <3>2. QED
      BY <1>2, <2>1, <3>1, LoopReturns
  <2>4. QED
    BY <2>2, <2>3
<1>5. TypeOK'
  BY <1>1, <1>2, <1>3 DEF TypeOK, Places, Chunks
<1>6. Control'
  BY <1>1, <1>2, <1>3 DEF Control
<1>7. Unique'
  BY <1>1, <1>2, <1>3, UniqueKept
<1>8. Rights' \in {Rights, Rights - 1}
  <2>1. MakeCalls' = MakeCalls /\ MakeCalls \in Nat
    BY <1>2, <1>3, Types, ChunksAssumption DEF MakeCalls, Control
  <2>2. (LoopCalls' = 0 \/ LoopCalls' = 1) /\ LoopCalls = 1
    BY <1>1 DEF LoopCalls
  <2>3. Rights = MakeCalls + 1 /\ (Rights' = MakeCalls + 0 \/ Rights' = MakeCalls + 1)
    BY <2>1, <2>2 DEF Rights
  <2>4. QED
    BY <2>1, <2>3
<1>9. Active' = Active
  BY <1>1, <1>2, <1>3, <1>5, ActiveIs DEF Stored
<1>10. AckedEarly' <=> AckedEarly
  BY <1>1, <1>3 DEF AckedEarly, LastReference
<1>11. Bounded' /\ Asked'
  BY <1>1, <1>2, <1>8, <1>9, <1>10, BoundKept, AskedKept
<1>12. Ordered'
  BY <1>1, <1>2, <1>3 DEF Ordered, Has
<1>13. QED
  BY <1>5, <1>6, <1>7, <1>11, <1>12 DEF IInv

\* next_chunk is called: it crashes, gives a chunk or has no more.
LEMMA CallMakeInv ==
  ASSUME IInv, CallNext("make")
  PROVE  IInv'
<1>1. /\ pc.make = "checked"
      /\ UNCHANGED <<on_loop, initial, next_chunk, dones, jobs, user_buffers, appended,
                     acked, destroyed>>
  BY DEF CallNext
<1>2. TypeOK /\ Control /\ Unique /\ Bounded /\ Asked /\ Ordered
  BY DEF IInv
<1>3. /\ pc \in [{"make", "loop"} -> Places] /\ chunk \in [{"make", "loop"} -> Chunks]
      /\ given \in 0..NumChunks /\ initial \in Nat /\ initial > 0 /\ chunk.make = 0
  BY <1>1, <1>2, Types, ChunksAssumption DEF Control, Chunks
<1>4. CASE ~next_chunk
  <2>1. crashed' = TRUE /\ UNCHANGED <<pc, chunk, given>>
    BY <1>4 DEF CallNext
  <2>2. QED
    BY <1>1, <2>1, CrashInv
<1>5. ASSUME next_chunk, given < NumChunks
      PROVE  IInv'
  <2>1. /\ given' = given + 1 /\ chunk' = [chunk EXCEPT !["make"] = given + 1]
        /\ pc' = [pc EXCEPT !["make"] = "has"] /\ crashed' = crashed
    BY <1>5 DEF CallNext
  <2>2. given + 1 \in Chunks /\ given \in Nat
    BY <1>3, <1>5, ChunksAssumption DEF Chunks
  <2>3. /\ pc' \in [{"make", "loop"} -> Places] /\ pc'.make = "has" /\ pc'.loop = pc.loop
        /\ chunk' \in [{"make", "loop"} -> Chunks]
        /\ chunk'.make = given + 1 /\ chunk'.loop = chunk.loop
    BY <1>3, <2>1, <2>2 DEF Places
  <2>4. TypeOK'
    BY <1>1, <1>2, <2>1, <2>2, <2>3 DEF TypeOK, Places, Chunks
  <2>5. Control'
    BY <1>1, <1>2, <1>3, <2>2, <2>3 DEF Control
  <2>6. Stored' = Stored /\ given + 1 \notin Stored /\ chunk.loop # given + 1
    <3>1. \A c \in Stored : c <= given
      BY <1>2 DEF Unique
    <3>2. chunk.loop <= given /\ ~(given + 1 <= given)
      BY <1>2, <2>2 DEF Unique
    <3>3. Stored' = Stored
      BY <1>1 DEF Stored
    <3>4. QED
      BY <3>1, <3>2, <3>3
  <2>7. Unique'
    <3>1. Once(jobs)' /\ Once(user_buffers)'
      BY <1>1, <1>2 DEF Unique, Once
    <3>2. \A c \in Chunks : c <= given => c <= given + 1
      BY <2>2 DEF Chunks
    <3>3. chunk.loop \in Chunks /\ \A c \in Stored : c \in Chunks
      BY <1>2, <1>3, Types DEF Stored, Range
    <3>4. \A c \in Stored' : c <= given'
      BY <1>2, <2>1, <2>6, <3>2, <3>3 DEF Unique
    <3>5. chunk'.make <= given' /\ chunk'.loop <= given'
      <4>1. given + 1 <= given + 1 /\ chunk.loop <= given + 1
        BY <1>2, <2>2, <3>2, <3>3 DEF Unique
      <4>2. QED
        BY <2>1, <2>3, <4>1
    <3>6. chunk'.loop # 0 => chunk'.loop \notin Stored'
      BY <1>2, <2>3, <2>6 DEF Unique
    <3>7. QED
      BY <1>1, <1>2, <2>3, <2>6, <3>1, <3>4, <3>5, <3>6 DEF Unique
  <2>8. Rights' = Rights - 1
    <3>1. MakeCalls = initial /\ MakeCalls' = initial - 1 /\ LoopCalls' = LoopCalls
          /\ LoopCalls \in {0, 1}
      BY <1>1, <2>3 DEF MakeCalls, LoopCalls
    <3>2. QED
      BY <1>3, <3>1 DEF Rights
  <2>9. Active' \subseteq Active \cup {given + 1}
    BY <1>2, <2>3, <2>4, <2>6, ActiveIs
  <2>10. Bounded'
    BY <1>2, <2>8, <2>9, BoundAdded
  <2>11. Asked'
    <3>1. Rights \in Nat /\ acked \in Nat
      BY <1>2, RightsNat, Types
    <3>2. ~AckedEarly /\ ~AckedEarly'
      BY <1>1, <2>3 DEF AckedEarly
    <3>3. ~destroyed => (given + Rights) + 0 <= simultaneous + acked
      BY <1>2, <3>2 DEF Asked
    <3>4. ~destroyed => ((given + 1) + (Rights - 1)) + 0 <= simultaneous + acked
      BY <2>2, <3>1, <3>3, ChunksAssumption
    <3>5. QED
      BY <1>1, <2>1, <2>8, <3>2, <3>4, Zenon DEF Asked
  <2>12. Ordered'
    <3>1. on_loop => pc.loop = "idle" /\ ~Has
      BY <1>1, <1>2 DEF Control, Has
    <3>2. Has' /\ (given + 1) - 1 = given
      BY <2>2, <2>3 DEF Has
    <3>3. QED
      BY <1>1, <1>2, <1>5, <2>1, <2>3, <3>1, <3>2 DEF Ordered
  <2>13. QED
    BY <2>4, <2>5, <2>7, <2>10, <2>11, <2>12 DEF IInv
<1>6. ASSUME next_chunk, ~(given < NumChunks)
      PROVE  IInv'
  <2>1. pc' = [pc EXCEPT !["make"] = "empty"] /\ UNCHANGED <<given, chunk, crashed>>
    BY <1>6 DEF CallNext
  <2>2. pc' \in [{"make", "loop"} -> Places] /\ pc'.make = "empty" /\ pc'.loop = pc.loop
    BY <1>3, <2>1 DEF Places
  <2>3. given = NumChunks
    BY <1>3, <1>6, ChunksAssumption
  <2>4. TypeOK'
    BY <1>1, <1>2, <2>1, <2>2 DEF TypeOK, Places
  <2>5. Control'
    BY <1>1, <1>2, <1>3, <2>1, <2>2 DEF Control
  <2>6. Unique'
    BY <1>1, <1>2, <2>1, <2>2, UniqueKept
  <2>7. Rights' = Rights /\ Active' = Active
    BY <1>1, <2>1, <2>2 DEF Rights, MakeCalls, LoopCalls, Active
  <2>8. Bounded' /\ Asked'
    BY <1>1, <1>2, <2>1, <2>2, <2>7, BoundKept, AskedKept DEF AckedEarly
  <2>9. Ordered'
    BY <1>1, <1>2, <1>6, <2>1, <2>2, <2>3 DEF Ordered, Has
  <2>10. QED
    BY <2>4, <2>5, <2>6, <2>8, <2>9 DEF IInv
<1>7. QED
  BY <1>4, <1>5, <1>6

\* The same on the loop's thread.
LEMMA CallLoopInv ==
  ASSUME IInv, CallNext("loop")
  PROVE  IInv'
<1>1. /\ pc.loop = "checked"
      /\ UNCHANGED <<on_loop, initial, next_chunk, dones, jobs, user_buffers, appended,
                     acked, destroyed>>
  BY DEF CallNext
<1>2. TypeOK /\ Control /\ Unique /\ Bounded /\ Asked /\ Ordered
  BY DEF IInv
<1>3. /\ pc \in [{"make", "loop"} -> Places] /\ chunk \in [{"make", "loop"} -> Chunks]
      /\ given \in 0..NumChunks /\ chunk.loop = 0
  BY <1>1, <1>2, Types, ChunksAssumption DEF Control, Chunks
<1>4. CASE ~next_chunk
  <2>1. crashed' = TRUE /\ UNCHANGED <<pc, chunk, given>>
    BY <1>4 DEF CallNext
  <2>2. QED
    BY <1>1, <2>1, CrashInv
<1>5. ASSUME next_chunk, given < NumChunks
      PROVE  IInv'
  <2>1. /\ given' = given + 1 /\ chunk' = [chunk EXCEPT !["loop"] = given + 1]
        /\ pc' = [pc EXCEPT !["loop"] = "has"] /\ crashed' = crashed
    BY <1>5 DEF CallNext
  <2>2. given + 1 \in Chunks /\ given \in Nat
    BY <1>3, <1>5, ChunksAssumption DEF Chunks
  <2>3. /\ pc' \in [{"make", "loop"} -> Places] /\ pc'.loop = "has" /\ pc'.make = pc.make
        /\ chunk' \in [{"make", "loop"} -> Chunks]
        /\ chunk'.loop = given + 1 /\ chunk'.make = chunk.make
    BY <1>3, <2>1, <2>2 DEF Places
  <2>4. TypeOK'
    BY <1>1, <1>2, <2>1, <2>2, <2>3 DEF TypeOK, Places, Chunks
  <2>5. Control'
    BY <1>1, <1>2, <1>3, <2>2, <2>3 DEF Control
  <2>6. Stored' = Stored /\ given + 1 \notin Stored /\ chunk.make # given + 1
    <3>1. \A c \in Stored : c <= given
      BY <1>2 DEF Unique
    <3>2. chunk.make <= given /\ ~(given + 1 <= given)
      BY <1>2, <2>2 DEF Unique
    <3>3. Stored' = Stored
      BY <1>1 DEF Stored
    <3>4. QED
      BY <3>1, <3>2, <3>3
  <2>7. Unique'
    <3>1. Once(jobs)' /\ Once(user_buffers)'
      BY <1>1, <1>2 DEF Unique, Once
    <3>2. \A c \in Chunks : c <= given => c <= given + 1
      BY <2>2 DEF Chunks
    <3>3. chunk.make \in Chunks /\ \A c \in Stored : c \in Chunks
      BY <1>2, <1>3, Types DEF Stored, Range
    <3>4. \A c \in Stored' : c <= given'
      BY <1>2, <2>1, <2>6, <3>2, <3>3 DEF Unique
    <3>5. chunk'.make <= given' /\ chunk'.loop <= given'
      <4>1. given + 1 <= given + 1 /\ chunk.make <= given + 1
        BY <1>2, <2>2, <3>2, <3>3 DEF Unique
      <4>2. QED
        BY <2>1, <2>3, <4>1
    <3>6. /\ chunk'.loop \notin Stored'
          /\ pc'.make = "has" => chunk'.make \notin Stored'
      BY <1>2, <2>3, <2>6 DEF Unique
    <3>7. QED
      BY <1>1, <1>2, <2>3, <2>6, <3>1, <3>4, <3>5, <3>6 DEF Unique
  <2>8. Rights' = Rights - 1
    <3>1. LoopCalls = 1 /\ LoopCalls' = 0 /\ MakeCalls' = MakeCalls
      BY <1>1, <2>3 DEF MakeCalls, LoopCalls
    <3>2. MakeCalls \in Nat
      BY <1>2, Types, ChunksAssumption DEF MakeCalls, Control
    <3>3. Rights = MakeCalls + 1 /\ Rights' = MakeCalls + 0
      BY <3>1 DEF Rights
    <3>4. QED
      BY <3>2, <3>3
  <2>9. Active' \subseteq Active \cup {given + 1}
    BY <1>2, <2>3, <2>4, <2>6, ActiveIs
  <2>10. Bounded'
    BY <1>2, <2>8, <2>9, BoundAdded
  <2>11. Asked'
    <3>1. Rights \in Nat /\ acked \in Nat
      BY <1>2, RightsNat, Types
    <3>2. AckedEarly' <=> AckedEarly
      BY <1>1, <2>3 DEF AckedEarly, LastReference
    <3> DEFINE e == IF AckedEarly THEN 1 ELSE 0
    <3>3. (~destroyed => (given + Rights) + e <= simultaneous + acked) /\ e \in Nat
      BY <1>2 DEF Asked
    <3>4. (IF AckedEarly' THEN 1 ELSE 0) = e
      BY <3>2
    <3> HIDE DEF e
    <3>5. ~destroyed => ((given + 1) + (Rights - 1)) + e <= simultaneous + acked
      BY <2>2, <3>1, <3>3, ChunksAssumption
    <3>6. QED
      BY <1>1, <2>1, <2>8, <3>4, <3>5, Zenon DEF Asked
  <2>12. Ordered'
    <3>1. on_loop => pc.make = "idle" /\ ~Has
      BY <1>1, <1>2 DEF Control, Has
    <3>2. Has' /\ (given + 1) - 1 = given
      BY <2>2, <2>3 DEF Has
    <3>3. QED
      BY <1>1, <1>2, <1>5, <2>1, <2>3, <3>1, <3>2 DEF Ordered
  <2>13. QED
    BY <2>4, <2>5, <2>7, <2>10, <2>11, <2>12 DEF IInv
<1>6. ASSUME next_chunk, ~(given < NumChunks)
      PROVE  IInv'
  <2>1. pc' = [pc EXCEPT !["loop"] = "empty"] /\ UNCHANGED <<given, chunk, crashed>>
    BY <1>6 DEF CallNext
  <2>2. pc' \in [{"make", "loop"} -> Places] /\ pc'.loop = "empty" /\ pc'.make = pc.make
    BY <1>3, <2>1 DEF Places
  <2>3. given = NumChunks
    BY <1>3, <1>6, ChunksAssumption
  <2>4. TypeOK'
    BY <1>1, <1>2, <2>1, <2>2 DEF TypeOK, Places
  <2>5. Control'
    BY <1>1, <1>2, <1>3, <2>1, <2>2 DEF Control
  <2>6. Unique'
    BY <1>1, <1>2, <2>1, <2>2, UniqueKept
  <2>7. Rights' = Rights - 1 /\ Active' = Active
    <3>1. LoopCalls = 1 /\ LoopCalls' = 0 /\ MakeCalls' = MakeCalls
      BY <1>1, <2>2 DEF MakeCalls, LoopCalls
    <3>2. MakeCalls \in Nat
      BY <1>2, Types, ChunksAssumption DEF MakeCalls, Control
    <3>3. Rights = MakeCalls + 1 /\ Rights' = MakeCalls + 0
      BY <3>1 DEF Rights
    <3>4. Rights' = Rights - 1
      BY <3>2, <3>3
    <3>5. QED
      BY <1>1, <2>1, <3>4 DEF Active
  <2>8. Bounded' /\ Asked'
    <3>1. AckedEarly' <=> AckedEarly
      BY <1>1, <2>1, <2>2 DEF AckedEarly, LastReference
    <3>2. QED
      BY <1>1, <1>2, <2>1, <2>7, <3>1, BoundKept, AskedKept
  <2>9. Ordered'
    BY <1>1, <1>2, <1>6, <2>1, <2>2, <2>3 DEF Ordered, Has
  <2>10. QED
    BY <2>4, <2>5, <2>6, <2>8, <2>9 DEF IInv
<1>7. QED
  BY <1>4, <1>5, <1>6
-----------------------------------------------------------------------------
\* What send does with a chunk that is nowhere yet, or with what done() sends.
LEMMA Sends ==
  ASSUME TypeOK, Unique, NEW w \in {"make", "loop"}, NEW c \in Chunks, send(w, c),
         c = 0 \/ c \notin Stored
  PROVE  /\ jobs' \in Seq(Chunks) /\ user_buffers' \in Seq(Chunks)
         /\ appended' \in Seq(Chunks) /\ crashed' \in BOOLEAN
         /\ Once(jobs') /\ Once(user_buffers')
         /\ \A d \in Range(jobs') : d \in Range(user_buffers') => d = 0
         /\ Stored' \subseteq Stored \cup {c} /\ Stored \subseteq Stored'
         /\ ~Inline(w) => c \in Stored'
         /\ on_loop => jobs' = jobs
         /\ on_loop => appended' = IF destroyed THEN appended ELSE Append(appended, c)
<1>1. /\ jobs \in Seq(Chunks) /\ user_buffers \in Seq(Chunks)
      /\ appended \in Seq(Chunks) /\ crashed \in BOOLEAN
  BY Types
<1>2. /\ Once(jobs) /\ Once(user_buffers)
      /\ \A d \in Range(jobs) : d \in Range(user_buffers) => d = 0
  BY DEF Unique
<1>3. c = 0 \/ (c \notin Range(jobs) /\ c \notin Range(user_buffers))
  BY DEF Stored
<1>4. CASE Inline(w) /\ ~destroyed
  <2>1. /\ jobs' = jobs /\ user_buffers' = Append(user_buffers, c)
        /\ appended' = Append(appended, c) /\ crashed' \in BOOLEAN
    BY <1>4 DEF send
  <2>2. /\ Append(user_buffers, c) \in Seq(Chunks) /\ Append(appended, c) \in Seq(Chunks)
        /\ Range(Append(user_buffers, c)) = Range(user_buffers) \cup {c}
        /\ Once(Append(user_buffers, c))
    BY <1>1, <1>2, <1>3, Appended, Zenon
  <2>3. Range(user_buffers') = Range(user_buffers) \cup {c} /\ Range(jobs') = Range(jobs)
    BY <2>1, <2>2
  <2>4. Stored' = Stored \cup {c}
    BY <2>3 DEF Stored
  <2>5. \A d \in Range(jobs') : d \in Range(user_buffers') => d = 0
    BY <1>2, <1>3, <2>3
  <2>6. QED
    BY <1>1, <1>2, <1>4, <2>1, <2>2, <2>4, <2>5
<1>5. CASE Inline(w) /\ destroyed
  <2>1. /\ jobs' = jobs /\ user_buffers' = user_buffers
        /\ appended' = appended /\ crashed' \in BOOLEAN
    BY <1>5 DEF send
  <2>2. Stored' = Stored
    BY <2>1 DEF Stored
  <2>3. QED
    BY <1>1, <1>2, <1>5, <2>1, <2>2
<1>6. CASE ~Inline(w)
  <2>1. /\ jobs' = Append(jobs, c) /\ user_buffers' = user_buffers
        /\ appended' = appended /\ crashed' \in BOOLEAN /\ ~on_loop
    BY <1>6 DEF send, Inline
  <2>2. /\ Append(jobs, c) \in Seq(Chunks)
        /\ Range(Append(jobs, c)) = Range(jobs) \cup {c}
        /\ Once(Append(jobs, c))
    BY <1>1, <1>2, <1>3, Appended, Zenon
  <2>3. Range(jobs') = Range(jobs) \cup {c} /\ Range(user_buffers') = Range(user_buffers)
    BY <2>1, <2>2
  <2>4. Stored' = Stored \cup {c}
    BY <2>3 DEF Stored
  <2>5. \A d \in Range(jobs') : d \in Range(user_buffers') => d = 0
    BY <1>2, <1>3, <2>3
  <2>6. QED
    BY <1>1, <1>2, <2>1, <2>2, <2>4, <2>5
<1>7. QED
  BY <1>4, <1>5, <1>6

\* The chunks stay in one place when one is sent.
LEMMA UniqueSent ==
  ASSUME TypeOK, Control, Unique, NEW c, c <= given, given' = given,
         Once(jobs'), Once(user_buffers'),
         \A d \in Range(jobs') : d \in Range(user_buffers') => d = 0,
         Stored' \subseteq Stored \cup {c},
         chunk'.make = chunk.make \/ chunk'.make = 0,
         chunk'.loop = chunk.loop \/ chunk'.loop = 0,
         chunk'.loop # 0 => chunk'.loop # c,
         pc'.make = "has" => pc.make = "has" /\ chunk'.make = chunk.make /\ chunk.make # c
  PROVE  Unique'
<1>1. 0 <= given
  BY Types, ChunksAssumption DEF Chunks
<1>2. \A d \in Stored' : d <= given'
  BY DEF Unique
<1>3. chunk'.make <= given' /\ chunk'.loop <= given'
  BY <1>1 DEF Unique
<1>4. chunk'.make = chunk'.loop => chunk'.make = 0
  BY DEF Unique
<1>5. chunk'.loop # 0 => chunk'.loop \notin Stored'
  BY DEF Unique
<1>6. pc'.make = "has" => chunk'.make \notin Stored'
  BY DEF Unique
<1>7. Once(jobs)' /\ Once(user_buffers)'
  BY DEF Once
<1>8. QED
  BY <1>2, <1>3, <1>4, <1>5, <1>6, <1>7 DEF Unique

\* The next number appended to numbers in order.
LEMMA OrderAppended ==
  ASSUME TypeOK, NEW c \in Chunks, appended' = Append(appended, c),
         \A i \in 1..Len(appended) : appended[i] = (IF i > NumChunks THEN 0 ELSE i),
         Len(appended) <= NumChunks,
         c = IF Len(appended) + 1 > NumChunks THEN 0 ELSE Len(appended) + 1
  PROVE  /\ \A i \in 1..Len(appended') : appended'[i] = (IF i > NumChunks THEN 0 ELSE i)
         /\ Len(appended') = Len(appended) + 1 /\ Len(appended') <= NumChunks + 1
<1>1. appended \in Seq(Chunks) /\ Len(appended) \in Nat
  BY Types, LenProperties
<1>2. /\ Len(appended') = Len(appended) + 1
      /\ \A i \in 1..Len(appended) : appended'[i] = appended[i]
      /\ appended'[Len(appended) + 1] = c
  BY <1>1, AppendProperties
<1>3. \A i \in 1..(Len(appended) + 1) : i \in 1..Len(appended) \/ i = Len(appended) + 1
  BY <1>1
<1>4. Len(appended) + 1 <= NumChunks + 1
  BY <1>1, ChunksAssumption
<1>5. QED
  BY <1>2, <1>3, <1>4

\* done() is called and sends, on make()'s thread
LEMMA FinishMakeInv ==
  ASSUME IInv, Finish("make")
  PROVE  IInv'
<1>1. /\ pc.make = "empty" /\ next_chunk' = FALSE /\ dones' = dones + 1
      /\ send("make", 0) /\ Return("make")
      /\ UNCHANGED <<on_loop, given, acked, destroyed>>
  BY DEF Finish, NextAtEnd
<1>2. TypeOK /\ Control /\ Unique /\ Bounded /\ Asked /\ Ordered
  BY DEF IInv
<1>3. /\ 0 \in Chunks /\ 0 <= given /\ ~destroyed /\ chunk.make = 0
      /\ initial \in Nat /\ initial > 0
  BY <1>1, <1>2, Types, ChunksAssumption DEF Control, Chunks
<1>4. /\ pc' \in [{"make", "loop"} -> Places] /\ chunk' \in [{"make", "loop"} -> Chunks]
      /\ initial' \in 0..simultaneous /\ initial' = initial - 1
      /\ pc'.make = (IF initial > 1 THEN "queue" ELSE "idle") /\ pc'.loop = pc.loop
      /\ chunk'.make = 0 /\ chunk'.loop = chunk.loop
  BY <1>1, <1>2, MakeReturns
<1>5. /\ jobs' \in Seq(Chunks) /\ user_buffers' \in Seq(Chunks)
      /\ appended' \in Seq(Chunks) /\ crashed' \in BOOLEAN
      /\ Once(jobs') /\ Once(user_buffers')
      /\ \A d \in Range(jobs') : d \in Range(user_buffers') => d = 0
      /\ Stored' \subseteq Stored \cup {0}
      /\ on_loop => jobs' = jobs /\ appended' = Append(appended, 0)
  BY <1>1, <1>2, <1>3, Sends
<1>6. TypeOK'
  <2>1. on_loop' \in BOOLEAN /\ next_chunk' \in BOOLEAN /\ destroyed' \in BOOLEAN
    BY <1>1, <1>2, Types, Zenon
  <2>2. initial' \in 0..simultaneous /\ given' \in Chunks /\ acked' \in Nat
    BY <1>1, <1>2, <1>4, Types, Zenon
  <2>3. dones' \in Nat
    BY <1>1, <1>2, Types
  <2>4. QED
    BY <1>4, <1>5, <2>1, <2>2, <2>3, TypesNext, Zenon
<1>7. Control'
  BY <1>1, <1>2, <1>3, <1>4, <1>5 DEF Control
<1>8. Unique'
  BY <1>1, <1>2, <1>3, <1>4, <1>5, UniqueSent
<1>9. Rights' = Rights - 1
  <2>1. MakeCalls = initial /\ MakeCalls' = initial - 1 /\ LoopCalls' = LoopCalls
        /\ LoopCalls \in {0, 1}
    BY <1>1, <1>4 DEF MakeCalls, LoopCalls
  <2>2. QED
    BY <1>3, <2>1 DEF Rights
<1>10. Active' \subseteq Active
  BY <1>2, <1>3, <1>4, <1>5, <1>6, ActiveIs
<1>11. Bounded' /\ Asked'
  BY <1>1, <1>2, <1>4, <1>9, <1>10, BoundKept, AskedKept DEF AckedEarly
<1>12. Ordered'
  <2>1. SUFFICES ASSUME on_loop PROVE Ordered'
    BY <1>1 DEF Ordered
  <2>2. pc.loop = "idle" /\ ~Has
    BY <1>1, <1>2, <2>1 DEF Control, Has
  <2>3. next_chunk /\ given = NumChunks /\ Len(appended) = NumChunks
    BY <1>1, <1>2, <1>3, <2>1, <2>2, Types DEF Ordered
  <2>4. NumChunks <= NumChunks /\ NumChunks + 1 > NumChunks
    BY ChunksAssumption
  <2>5. /\ \A i \in 1..Len(appended') : appended'[i] = (IF i > NumChunks THEN 0 ELSE i)
        /\ Len(appended') <= NumChunks + 1
    BY <1>2, <1>3, <1>5, <2>1, <2>3, <2>4, OrderAppended DEF Ordered
  <2>6. QED
    BY <1>1, <1>4, <2>2, <2>5 DEF Ordered
<1>13. QED
  BY <1>6, <1>7, <1>8, <1>11, <1>12 DEF IInv

\* and on the loop's.
LEMMA FinishLoopInv ==
  ASSUME IInv, Finish("loop")
  PROVE  IInv'
<1>1. /\ pc.loop = "empty" /\ next_chunk' = FALSE /\ dones' = dones + 1
      /\ send("loop", 0) /\ Return("loop")
      /\ UNCHANGED <<on_loop, given, acked, destroyed>>
  BY DEF Finish, NextAtEnd
<1>2. TypeOK /\ Control /\ Unique /\ Bounded /\ Asked /\ Ordered
  BY DEF IInv
<1>3. 0 \in Chunks /\ 0 <= given /\ chunk.loop = 0
  BY <1>1, <1>2, Types, ChunksAssumption DEF Control, Chunks
<1>4. /\ pc' \in [{"make", "loop"} -> Places] /\ chunk' \in [{"make", "loop"} -> Chunks]
      /\ initial' = initial
      /\ pc'.make = pc.make /\ pc'.loop = "idle"
      /\ chunk'.make = chunk.make /\ chunk'.loop = 0
  BY <1>1, <1>2, LoopReturns
<1>5. /\ jobs' \in Seq(Chunks) /\ user_buffers' \in Seq(Chunks)
      /\ appended' \in Seq(Chunks) /\ crashed' \in BOOLEAN
      /\ Once(jobs') /\ Once(user_buffers')
      /\ \A d \in Range(jobs') : d \in Range(user_buffers') => d = 0
      /\ Stored' \subseteq Stored \cup {0} /\ Stored \subseteq Stored'
      /\ on_loop => jobs' = jobs
      /\ on_loop => appended' = IF destroyed THEN appended ELSE Append(appended, 0)
  BY <1>1, <1>2, <1>3, Sends
<1>6. TypeOK'
  <2>1. on_loop' \in BOOLEAN /\ next_chunk' \in BOOLEAN /\ destroyed' \in BOOLEAN
    BY <1>1, <1>2, Types, Zenon
  <2>2. initial' \in 0..simultaneous /\ given' \in Chunks /\ acked' \in Nat
    BY <1>1, <1>2, <1>4, Types, Zenon
  <2>3. dones' \in Nat
    BY <1>1, <1>2, Types
  <2>4. QED
    BY <1>4, <1>5, <2>1, <2>2, <2>3, TypesNext, Zenon
<1>7. Control'
  BY <1>1, <1>2, <1>3, <1>4, <1>5 DEF Control
<1>8. Unique'
  <2>1. pc.make = "has" => chunk.make # 0
    BY <1>2 DEF Control
  <2>2. QED
    BY <1>1, <1>2, <1>3, <1>4, <1>5, <2>1, UniqueSent
<1>9. Rights' = Rights
  <2>1. MakeCalls' = MakeCalls /\ LoopCalls' = 0 /\ LoopCalls = 0
    BY <1>1, <1>4 DEF MakeCalls, LoopCalls
  <2>2. QED
    BY <2>1 DEF Rights
<1>10. Active' \subseteq Active
  BY <1>2, <1>3, <1>4, <1>5, <1>6, ActiveIs
<1>11. AckedEarly' => AckedEarly
  BY <1>4, <1>5 DEF AckedEarly, LastReference, Stored
<1>12. Bounded' /\ Asked'
  BY <1>1, <1>2, <1>9, <1>10, <1>11, BoundKept, AskedKept
<1>13. Ordered'
  <2>1. SUFFICES ASSUME on_loop PROVE Ordered'
    BY <1>1 DEF Ordered
  <2>2. pc.make = "idle" /\ ~Has
    BY <1>1, <1>2, <2>1 DEF Control, Has
  <2>3. CASE destroyed
    BY <1>1, <1>2, <1>5, <2>1, <2>3 DEF Ordered
  <2>4. CASE ~destroyed
    <3>1. next_chunk /\ given = NumChunks /\ Len(appended) = NumChunks
      BY <1>1, <1>2, <2>1, <2>2, <2>4, Types DEF Ordered
    <3>2. NumChunks <= NumChunks /\ NumChunks + 1 > NumChunks
      BY ChunksAssumption
    <3>3. /\ \A i \in 1..Len(appended') : appended'[i] = (IF i > NumChunks THEN 0 ELSE i)
          /\ Len(appended') <= NumChunks + 1
      BY <1>2, <1>3, <1>5, <2>1, <2>4, <3>1, <3>2, OrderAppended DEF Ordered
    <3>4. QED
      BY <1>1, <1>4, <2>2, <3>3 DEF Ordered
  <2>5. QED
    BY <2>3, <2>4
<1>14. QED
  BY <1>6, <1>7, <1>8, <1>12, <1>13 DEF IInv

\* A chunk is sent, on make()'s thread
LEMMA SendMakeInv ==
  ASSUME IInv, SendChunk("make")
  PROVE  IInv'
<1>1. /\ pc.make = "has" /\ send("make", chunk.make)
      /\ UNCHANGED <<on_loop, given, next_chunk, dones, acked, destroyed>>
  BY DEF SendChunk
<1>2. TypeOK /\ Control /\ Unique /\ Bounded /\ Asked /\ Ordered
  BY DEF IInv
<1>3. /\ chunk.make \in Chunks /\ chunk.make # 0 /\ chunk.make <= given /\ ~destroyed
      /\ chunk.make \notin Stored /\ chunk.loop # chunk.make
      /\ initial \in Nat /\ initial > 0
  BY <1>1, <1>2, Types, ChunksAssumption DEF Control, Unique
<1>4. /\ pc' \in [{"make", "loop"} -> Places] /\ chunk' \in [{"make", "loop"} -> Chunks]
      /\ initial' \in 0..simultaneous
      /\ pc'.loop = pc.loop /\ chunk'.loop = chunk.loop
      /\ \/ /\ pc'.make = (IF initial > 1 THEN "queue" ELSE "idle")
            /\ initial' = initial - 1 /\ chunk'.make = 0
         \/ /\ ~on_loop /\ ~Inline("make")
            /\ pc'.make = "sent" /\ initial' = initial /\ chunk'.make = chunk.make
  <2>1. CASE Inline("make")
    <3>1. Return("make") /\ pc.make # "idle"
      BY <1>1, <2>1 DEF SendChunk
    <3>2. QED
      BY <1>2, <3>1, MakeReturns
  <2>2. CASE ~Inline("make")
    <3>1. pc' = [pc EXCEPT !["make"] = "sent"] /\ initial' = initial /\ chunk' = chunk
      BY <2>2 DEF SendChunk
    <3>2. QED
      BY <1>2, <2>2, <3>1, Types DEF Places, Inline
  <2>3. QED
    BY <2>1, <2>2
<1>5. /\ jobs' \in Seq(Chunks) /\ user_buffers' \in Seq(Chunks)
      /\ appended' \in Seq(Chunks) /\ crashed' \in BOOLEAN
      /\ Once(jobs') /\ Once(user_buffers')
      /\ \A d \in Range(jobs') : d \in Range(user_buffers') => d = 0
      /\ Stored' \subseteq Stored \cup {chunk.make}
      /\ ~Inline("make") => chunk.make \in Stored'
      /\ on_loop => jobs' = jobs /\ appended' = Append(appended, chunk.make)
  BY <1>1, <1>2, <1>3, Sends
<1>6. TypeOK'
  <2>1. on_loop' \in BOOLEAN /\ next_chunk' \in BOOLEAN /\ destroyed' \in BOOLEAN
    BY <1>1, <1>2, Types, Zenon
  <2>2. given' \in Chunks /\ acked' \in Nat /\ dones' \in Nat
    BY <1>1, <1>2, Types, Zenon
  <2>3. QED
    BY <1>4, <1>5, <2>1, <2>2, TypesNext, Zenon
<1>7. Control'
  BY <1>1, <1>2, <1>3, <1>4, <1>5, SMTT(30) DEF Control
<1>8. Unique'
  <2>1. pc'.make # "has"
    BY <1>4
  <2>2. QED
    BY <1>1, <1>2, <1>3, <1>4, <1>5, <2>1, UniqueSent
<1>9. Rights' = Rights
  <2>1. MakeCalls = initial - 1 /\ MakeCalls' = initial - 1 /\ LoopCalls' = LoopCalls
    BY <1>1, <1>3, <1>4, SMTT(30) DEF MakeCalls, LoopCalls
  <2>2. QED
    BY <2>1 DEF Rights
<1>10. Active' \subseteq Active
  BY <1>2, <1>3, <1>4, <1>5, <1>6, ActiveIs, SMTT(30)
<1>11. ~AckedEarly'
  BY <1>4, <1>5 DEF AckedEarly, LastReference, Stored
<1>12. Bounded' /\ Asked'
  BY <1>1, <1>2, <1>9, <1>10, <1>11, BoundKept, AskedKept
<1>13. Ordered'
  <2>1. SUFFICES ASSUME on_loop PROVE Ordered'
    BY <1>1 DEF Ordered
  <2>2. pc.loop = "idle" /\ Has /\ ~Has'
    BY <1>1, <1>2, <1>4, <2>1 DEF Control, Has
  <2>3. next_chunk /\ chunk.make = given /\ Len(appended) = given - 1
    BY <1>1, <1>2, <1>3, <2>1, <2>2, Types DEF Ordered
  <2>4. /\ Len(appended) <= NumChunks /\ Len(appended) + 1 = given
        /\ ~(Len(appended) + 1 > NumChunks)
    BY <1>2, <2>3, Types, ChunksAssumption DEF Chunks
  <2>5. chunk.make = IF Len(appended) + 1 > NumChunks THEN 0 ELSE Len(appended) + 1
    BY <2>3, <2>4
  <2>6. /\ \A i \in 1..Len(appended') : appended'[i] = (IF i > NumChunks THEN 0 ELSE i)
        /\ Len(appended') = Len(appended) + 1 /\ Len(appended') <= NumChunks + 1
    BY <1>2, <1>3, <1>5, <2>1, <2>4, <2>5, OrderAppended DEF Ordered
  <2>7. Len(appended') = given'
    BY <1>1, <2>4, <2>6
  <2>8. QED
    BY <1>1, <1>4, <2>2, <2>3, <2>6, <2>7 DEF Ordered
<1>14. QED
  BY <1>6, <1>7, <1>8, <1>12, <1>13 DEF IInv

\* and on the loop's.
LEMMA SendLoopInv ==
  ASSUME IInv, SendChunk("loop")
  PROVE  IInv'
<1>1. /\ pc.loop = "has" /\ send("loop", chunk.loop) /\ Return("loop")
      /\ UNCHANGED <<on_loop, given, next_chunk, dones, acked, destroyed>>
  BY DEF SendChunk, Inline
<1>2. TypeOK /\ Control /\ Unique /\ Bounded /\ Asked /\ Ordered
  BY DEF IInv
<1>3. /\ chunk.loop \in Chunks /\ chunk.loop # 0 /\ chunk.loop <= given
      /\ chunk.loop \notin Stored /\ chunk.loop # chunk.make
  BY <1>1, <1>2, Types DEF Control, Unique
<1>4. /\ pc' \in [{"make", "loop"} -> Places] /\ chunk' \in [{"make", "loop"} -> Chunks]
      /\ initial' = initial
      /\ pc'.make = pc.make /\ pc'.loop = "idle"
      /\ chunk'.make = chunk.make /\ chunk'.loop = 0
  BY <1>1, <1>2, LoopReturns
<1>5. /\ jobs' \in Seq(Chunks) /\ user_buffers' \in Seq(Chunks)
      /\ appended' \in Seq(Chunks) /\ crashed' \in BOOLEAN
      /\ Once(jobs') /\ Once(user_buffers')
      /\ \A d \in Range(jobs') : d \in Range(user_buffers') => d = 0
      /\ Stored' \subseteq Stored \cup {chunk.loop} /\ Stored \subseteq Stored'
      /\ on_loop => jobs' = jobs
      /\ on_loop => appended' = IF destroyed THEN appended
                                ELSE Append(appended, chunk.loop)
  BY <1>1, <1>2, <1>3, Sends
<1>6. TypeOK'
  <2>1. on_loop' \in BOOLEAN /\ next_chunk' \in BOOLEAN /\ destroyed' \in BOOLEAN
    BY <1>1, <1>2, Types, Zenon
  <2>2. /\ given' \in Chunks /\ acked' \in Nat /\ dones' \in Nat
        /\ initial' \in 0..simultaneous
    BY <1>1, <1>2, <1>4, Types, Zenon
  <2>3. QED
    BY <1>4, <1>5, <2>1, <2>2, TypesNext, Zenon
<1>7. Control'
  BY <1>1, <1>2, <1>3, <1>4, <1>5, SMTT(30) DEF Control
<1>8. Unique'
  BY <1>1, <1>2, <1>3, <1>4, <1>5, UniqueSent
<1>9. Rights' = Rights
  <2>1. MakeCalls' = MakeCalls /\ LoopCalls' = 0 /\ LoopCalls = 0
    BY <1>1, <1>4 DEF MakeCalls, LoopCalls
  <2>2. QED
    BY <2>1 DEF Rights
<1>10. Active' \subseteq Active
  BY <1>2, <1>3, <1>4, <1>5, <1>6, ActiveIs
<1>11. AckedEarly' => AckedEarly
  BY <1>4, <1>5 DEF AckedEarly, LastReference, Stored
<1>12. Bounded' /\ Asked'
  BY <1>1, <1>2, <1>9, <1>10, <1>11, BoundKept, AskedKept
<1>13. Ordered'
  <2>1. SUFFICES ASSUME on_loop PROVE Ordered'
    BY <1>1, SMTT(30) DEF Ordered
  <2>2. pc.make = "idle" /\ Has /\ ~Has'
    BY <1>1, <1>2, <1>4, <2>1 DEF Control, Has
  <2>3. CASE destroyed
    BY <1>1, <1>2, <1>5, <2>1, <2>3, SMTT(30) DEF Ordered
  <2>4. CASE ~destroyed
    <3>1. next_chunk /\ chunk.loop = given /\ Len(appended) = given - 1
      BY <1>1, <1>2, <2>1, <2>2, <2>4, Types DEF Ordered
    <3>2. /\ Len(appended) <= NumChunks /\ Len(appended) + 1 = given
          /\ ~(Len(appended) + 1 > NumChunks)
      BY <1>2, <3>1, Types, ChunksAssumption DEF Chunks
    <3>3. chunk.loop = IF Len(appended) + 1 > NumChunks THEN 0 ELSE Len(appended) + 1
      BY <3>1, <3>2
    <3>4. /\ \A i \in 1..Len(appended') : appended'[i] = (IF i > NumChunks THEN 0 ELSE i)
          /\ Len(appended') = Len(appended) + 1 /\ Len(appended') <= NumChunks + 1
      BY <1>2, <1>3, <1>5, <2>1, <2>4, <3>2, <3>3, OrderAppended DEF Ordered
    <3>5. Len(appended') = given'
      BY <1>1, <3>2, <3>4
    <3>6. QED
      BY <1>1, <1>4, <2>2, <3>1, <3>4, <3>5 DEF Ordered
  <2>5. QED
    BY <2>3, <2>4
<1>14. QED
  BY <1>6, <1>7, <1>8, <1>12, <1>13 DEF IInv

\* send returns on make()'s thread; the chunk may have been acknowledged.
LEMMA SendReturnsInv ==
  ASSUME IInv, SendReturns
  PROVE  IInv'
<1>1. /\ pc.make = "sent"
      /\ UNCHANGED <<on_loop, given, next_chunk, dones, jobs, user_buffers, appended,
                     acked, destroyed, crashed>>
  BY DEF SendReturns
<1>2. TypeOK /\ Control /\ Unique /\ Bounded /\ Asked /\ Ordered
  BY DEF IInv
<1>3. /\ chunk.make # 0 /\ chunk.make # chunk.loop /\ ~destroyed /\ ~on_loop
      /\ initial \in Nat /\ initial > 0 /\ 0 \in Chunks
      /\ initial \in 0..simultaneous /\ Stored' = Stored
  BY <1>1, <1>2, Types, ChunksAssumption DEF Control, Unique, Chunks, Stored
<1>4. /\ pc' \in [{"make", "loop"} -> Places] /\ chunk' \in [{"make", "loop"} -> Chunks]
      /\ initial' \in 0..simultaneous
      /\ pc'.loop = pc.loop /\ chunk'.loop = chunk.loop /\ chunk'.make = 0
      /\ \/ LastReference /\ pc'.make = "queue" /\ initial' = initial
         \/ /\ ~LastReference /\ initial' = initial - 1
            /\ pc'.make = (IF initial > 1 THEN "queue" ELSE "idle")
  <2>1. CASE LastReference
    <3>1. /\ pc' = [pc EXCEPT !["make"] = "queue"] /\ initial' = initial
          /\ chunk' = [chunk EXCEPT !["make"] = 0]
      BY <2>1 DEF SendReturns
    <3>2. QED
      BY <1>2, <1>3, <2>1, <3>1, Types DEF Places
  <2>2. CASE ~LastReference
    <3>1. Return("make") /\ pc.make # "idle"
      BY <1>1, <2>2 DEF SendReturns
    <3>2. QED
      BY <1>2, <2>2, <3>1, MakeReturns
  <2>3. QED
    BY <2>1, <2>2
<1>5. TypeOK'
  BY <1>1, <1>2, <1>4, Types, TypesNext, Zenon
<1>6. Control'
  BY <1>1, <1>2, <1>3, <1>4 DEF Control
<1>7. Unique'
  BY <1>1, <1>2, <1>4, UniqueKept
<1>8. MakeCalls = initial - 1 /\ LoopCalls' = LoopCalls /\ LoopCalls \in {0, 1}
  BY <1>1, <1>4 DEF MakeCalls, LoopCalls
<1>9. Bounded' /\ Asked'
  <2>1. CASE LastReference
    <3>1. MakeCalls' = initial /\ Rights' = Rights + 1
      <4>1. MakeCalls' = initial
        BY <1>3, <1>4, <2>1 DEF MakeCalls
      <4>2. QED
        BY <1>3, <1>8, <4>1 DEF Rights
    <3>2. chunk.make \in Active /\ Active' \subseteq Active \ {chunk.make}
      BY <1>2, <1>3, <1>4, <1>5, <2>1, ActiveIs DEF LastReference, Stored
    <3>3. Bounded'
      BY <1>2, <3>1, <3>2, BoundRemoved
    <3>4. (given + Rights) + 1 <= simultaneous + acked
      BY <1>1, <1>2, <1>3, <2>1 DEF Asked, AckedEarly
    <3>5. Rights \in Nat /\ acked \in Nat /\ given \in Nat
      BY <1>2, RightsNat, Types, ChunksAssumption DEF Chunks
    <3>6. (given + (Rights + 1)) + 0 <= simultaneous + acked
      BY <3>4, <3>5, ChunksAssumption
    <3>7. ~AckedEarly'
      BY <1>4 DEF AckedEarly
    <3>8. Asked'
      BY <1>1, <3>1, <3>6, <3>7, Zenon DEF Asked
    <3>9. QED
      BY <3>3, <3>8
  <2>2. CASE ~LastReference
    <3>1. Rights' = Rights
      <4>1. MakeCalls' = initial - 1
        BY <1>3, <1>4, <2>2 DEF MakeCalls
      <4>2. QED
        BY <1>8, <4>1 DEF Rights
    <3>2. Active' \subseteq Active /\ ~AckedEarly'
      BY <1>2, <1>3, <1>4, <1>5, ActiveIs DEF AckedEarly
    <3>3. QED
      BY <1>1, <1>2, <3>1, <3>2, BoundKept, AskedKept
  <2>3. QED
    BY <2>1, <2>2
<1>10. Ordered'
  BY <1>1, <1>3 DEF Ordered
<1>11. QED
  BY <1>5, <1>6, <1>7, <1>9, <1>10 DEF IInv

\* The loop runs the job of a send.
LEMMA RunJobInv ==
  ASSUME IInv, RunJob
  PROVE  IInv'
<1>1. /\ pc.loop = "idle" /\ jobs # <<>> /\ jobs' = Tail(jobs)
      /\ UNCHANGED <<on_loop, initial, pc, chunk, given, next_chunk, dones, acked,
                     destroyed>>
  BY DEF RunJob, LoopFree
<1>2. TypeOK /\ Control /\ Unique /\ Bounded /\ Asked /\ Ordered
  BY DEF IInv
<1>3. /\ ~on_loop /\ 0 <= given /\ chunk.loop = 0
      /\ pc.make = "has" => chunk.make # 0
      /\ destroyed => pc.make = "idle"
  BY <1>1, <1>2, Types, ChunksAssumption DEF Control, Chunks
<1>4. /\ Tail(jobs) \in Seq(Chunks) /\ Head(jobs) \in Chunks /\ Once(Tail(jobs))
      /\ Range(jobs) = Range(Tail(jobs)) \cup {Head(jobs)}
      /\ Head(jobs) # 0 => Head(jobs) \notin Range(Tail(jobs))
  BY <1>1, <1>2, Types, Taken, Zenon DEF Unique
<1>5. /\ \A d \in Range(jobs) : d \in Range(user_buffers) => d = 0
      /\ Once(user_buffers)
      /\ user_buffers \in Seq(Chunks) /\ appended \in Seq(Chunks) /\ crashed \in BOOLEAN
  BY <1>2, Types DEF Unique
<1>6. /\ user_buffers' \in Seq(Chunks) /\ appended' \in Seq(Chunks) /\ crashed' \in BOOLEAN
      /\ Once(user_buffers')
      /\ \A d \in Range(jobs') : d \in Range(user_buffers') => d = 0
      /\ Stored' \subseteq Stored /\ (~destroyed => Stored' = Stored)
  <2>1. CASE destroyed
    <3>1. user_buffers' = user_buffers /\ appended' = appended /\ crashed' = TRUE
      BY <2>1 DEF RunJob
    <3>2. Range(jobs') \subseteq Range(jobs) /\ Range(user_buffers') = Range(user_buffers)
      BY <1>1, <1>4, <3>1
    <3>3. QED
      BY <1>5, <2>1, <3>1, <3>2 DEF Stored
  <2>2. CASE ~destroyed
    <3>1. /\ user_buffers' = Append(user_buffers, Head(jobs))
          /\ appended' = Append(appended, Head(jobs)) /\ crashed' = crashed
      BY <2>2 DEF RunJob
    <3>2. Head(jobs) = 0 \/ Head(jobs) \notin Range(user_buffers)
      BY <1>4, <1>5
    <3>3. /\ Append(user_buffers, Head(jobs)) \in Seq(Chunks)
          /\ Append(appended, Head(jobs)) \in Seq(Chunks)
          /\ Once(Append(user_buffers, Head(jobs)))
          /\ Range(Append(user_buffers, Head(jobs)))
               = Range(user_buffers) \cup {Head(jobs)}
      BY <1>4, <1>5, <3>2, Appended, Zenon
    <3>4. /\ Range(jobs') = Range(Tail(jobs))
          /\ Range(user_buffers') = Range(user_buffers) \cup {Head(jobs)}
      BY <1>1, <3>1, <3>3
    <3>5. Stored' = Stored
      BY <1>4, <3>4 DEF Stored
    <3>6. \A d \in Range(jobs') : d \in Range(user_buffers') => d = 0
      BY <1>4, <1>5, <3>4
    <3>7. QED
      BY <1>5, <3>1, <3>3, <3>5, <3>6
  <2>3. QED
    BY <2>1, <2>2
<1>7. TypeOK'
  <2>1. jobs' \in Seq(Chunks)
    BY <1>1, <1>4
  <2>2. QED
    BY <1>1, <1>2, <1>6, <2>1, Types, TypesNext, Zenon
<1>8. Control'
  BY <1>1, <1>2, <1>3 DEF Control
<1>9. Unique'
  <2>1. Once(jobs') /\ Stored' \subseteq Stored \cup {0}
    BY <1>1, <1>4, <1>6
  <2>2. QED
    BY <1>1, <1>2, <1>3, <1>6, <2>1, UniqueSent
<1>10. Rights' = Rights /\ Active' \subseteq Active
  <2>1. Rights' = Rights
    BY <1>1 DEF Rights, MakeCalls, LoopCalls
  <2>2. Active' \subseteq Active
    BY <1>1, <1>2, <1>6, <1>7, ActiveIs
  <2>3. QED
    BY <2>1, <2>2
<1>11. AckedEarly' => AckedEarly
  BY <1>1, <1>3, <1>6 DEF AckedEarly, LastReference, Stored
<1>12. Bounded' /\ Asked'
  BY <1>1, <1>2, <1>10, <1>11, BoundKept, AskedKept
<1>13. Ordered'
  BY <1>1, <1>3 DEF Ordered
<1>14. QED
  BY <1>7, <1>8, <1>9, <1>12, <1>13 DEF IInv

\* A buffer leaves the deque, by an acknowledgement or with its stream.
LEMMA PopFrontInv ==
  ASSUME IInv, PopFront,
         \/ ~destroyed /\ acked' = acked + 1
         \/ destroyed /\ acked' = acked
  PROVE  IInv'
<1> DEFINE h == Head(user_buffers)
<1>1. /\ pc.loop = "idle" /\ (on_loop => pc.make = "idle")
      /\ user_buffers # <<>> /\ user_buffers' = Tail(user_buffers)
      /\ pc' = [pc EXCEPT !["loop"] = IF h \in {0, chunk.make} THEN "idle" ELSE "queue"]
      /\ UNCHANGED <<on_loop, initial, chunk, given, next_chunk, dones, jobs, appended,
                     destroyed, crashed>>
  BY DEF PopFront, LoopFree
<1>2. TypeOK /\ Control /\ Unique /\ Bounded /\ Asked /\ Ordered
  BY DEF IInv
<1>3. /\ 0 <= given /\ chunk.loop = 0
      /\ pc.make = "has" => chunk.make # 0
      /\ pc \in [{"make", "loop"} -> Places]
  BY <1>1, <1>2, Types, ChunksAssumption DEF Control, Chunks
<1>4. /\ Tail(user_buffers) \in Seq(Chunks) /\ h \in Chunks /\ Once(Tail(user_buffers))
      /\ Range(user_buffers) = Range(Tail(user_buffers)) \cup {h}
      /\ h # 0 => h \notin Range(Tail(user_buffers))
  BY <1>1, <1>2, Types, Taken, Zenon DEF Unique
<1>5. /\ \A d \in Range(jobs) : d \in Range(user_buffers) => d = 0
      /\ Once(jobs)
  BY <1>2 DEF Unique
<1> HIDE DEF h
<1>6. /\ Range(user_buffers') = Range(Tail(user_buffers)) /\ Range(jobs') = Range(jobs)
      /\ Stored' \subseteq Stored \cup {0} /\ Stored = Stored' \cup {h} /\ h \in Stored
      /\ h # 0 => h \notin Stored'
  <2>1. Range(user_buffers') = Range(Tail(user_buffers)) /\ Range(jobs') = Range(jobs)
    BY <1>1
  <2>2. QED
    BY <1>4, <1>5, <2>1 DEF Stored
<1>7. /\ pc' \in [{"make", "loop"} -> Places] /\ pc'.make = pc.make
      /\ pc'.loop = (IF h \in {0, chunk.make} THEN "idle" ELSE "queue")
  BY <1>1, <1>3 DEF Places
<1>8. TypeOK'
  <2>1. user_buffers' \in Seq(Chunks)
    BY <1>1, <1>4
  <2>2. acked' \in Nat
    BY <1>2, Types
  <2>3. QED
    BY <1>1, <1>2, <1>7, <2>1, <2>2, Types, TypesNext, Zenon
<1>9. Control'
  BY <1>1, <1>2, <1>3, <1>7 DEF Control
<1>10. Unique'
  <2>1. /\ Once(jobs') /\ Once(user_buffers')
        /\ \A d \in Range(jobs') : d \in Range(user_buffers') => d = 0
    BY <1>1, <1>4, <1>5, <1>6
  <2>2. QED
    BY <1>1, <1>2, <1>3, <1>6, <1>7, <2>1, UniqueSent
<1>11. MakeCalls' = MakeCalls /\ MakeCalls \in Nat /\ LoopCalls = 0
  BY <1>1, <1>2, <1>7, Types, ChunksAssumption DEF MakeCalls, LoopCalls, Control
<1>12. Rights \in Nat /\ acked \in Nat /\ given \in Nat
  BY <1>2, RightsNat, Types, ChunksAssumption DEF Chunks
<1> DEFINE e == IF AckedEarly THEN 1 ELSE 0
           f == IF AckedEarly' THEN 1 ELSE 0
<1>13. ~destroyed => (given + Rights) + e <= simultaneous + acked
  BY <1>2 DEF Asked
<1>14. (e = 0 \/ e = 1) /\ (f = 0 \/ f = 1) /\ (f = e \/ AckedEarly' # AckedEarly)
  OBVIOUS
<1>15. AckedEarly' <=> pc'.make = "sent" /\ chunk'.make \notin Stored'
  BY DEF AckedEarly, LastReference, Stored
<1>16. AckedEarly <=> pc.make = "sent" /\ chunk.make \notin Stored
  BY DEF AckedEarly, LastReference, Stored
<1>17. Bounded' /\ Asked'
  <2>1. CASE h \in {0, chunk.make}
    <3>1. Rights' = Rights
      BY <1>7, <1>11, <2>1 DEF Rights, LoopCalls
    <3>2. Active' \subseteq Active
      BY <1>1, <1>2, <1>6, <1>8, ActiveIs
    <3>3. Bounded'
      BY <1>2, <3>1, <3>2, BoundKept
    <3> HIDE DEF e, f
    <3>4. ~destroyed => (given + Rights) + f <= simultaneous + (acked + 1)
      BY <1>12, <1>13, <1>14, ChunksAssumption
    <3>5. Asked'
      BY <1>1, <3>1, <3>4, Zenon DEF Asked, f
    <3>6. QED
      BY <3>3, <3>5
  <2>2. CASE h \notin {0, chunk.make}
    <3>1. Rights' = Rights + 1
      <4>1. LoopCalls' = 1
        BY <1>7, <2>2 DEF LoopCalls
      <4>2. Rights' = MakeCalls + 1 /\ Rights = MakeCalls + 0
        BY <1>11, <4>1 DEF Rights
      <4>3. QED
        BY <1>11, <4>2
    <3>2. h \in Active /\ Active' \subseteq Active \ {h}
      BY <1>1, <1>2, <1>3, <1>6, <1>8, <2>2, ActiveIs
    <3>3. Bounded'
      BY <1>2, <3>1, <3>2, BoundRemoved
    <3>4. AckedEarly' => AckedEarly
      BY <1>1, <1>6, <1>7, <1>15, <1>16, <2>2
    <3>5. f = e \/ f = 0
      BY <1>14, <3>4
    <3> HIDE DEF e, f
    <3>6. ~destroyed => (given + (Rights + 1)) + f <= simultaneous + (acked + 1)
      BY <1>12, <1>13, <1>14, <3>5, ChunksAssumption
    <3>7. Asked'
      BY <1>1, <3>1, <3>6, Zenon DEF Asked, f
    <3>8. QED
      BY <3>3, <3>7
  <2>3. QED
    BY <2>1, <2>2
<1>18. Ordered'
  BY <1>1, <1>2, <1>7 DEF Ordered, Has
<1>19. QED
  BY <1>8, <1>9, <1>10, <1>17, <1>18 DEF IInv

\* ~Stream begins.
LEMMA DestroyInv ==
  ASSUME IInv, DestroyStream
  PROVE  IInv'
<1>1. /\ pc.make = "idle" /\ destroyed' = TRUE
      /\ UNCHANGED <<on_loop, initial, pc, chunk, given, next_chunk, dones, jobs,
                     user_buffers, appended, acked, crashed>>
  BY DEF DestroyStream
<1>2. TypeOK /\ Control /\ Unique /\ Bounded /\ Asked /\ Ordered
  BY DEF IInv
<1>3. TypeOK'
  BY <1>1, <1>2, Types, TypesNext, Zenon
<1>4. Control'
  BY <1>1, <1>2 DEF Control
<1>5. Unique'
  BY <1>1, <1>2, UniqueKept
<1>6. Rights' = Rights /\ Active' = Active
  BY <1>1 DEF Rights, MakeCalls, LoopCalls, Active
<1>7. Bounded'
  BY <1>2, <1>6, BoundKept
<1>8. Asked' /\ Ordered'
  BY <1>1, <1>2 DEF Asked, Ordered
<1>9. QED
  BY <1>3, <1>4, <1>5, <1>7, <1>8 DEF IInv
-----------------------------------------------------------------------------
\* make() begins with all its calls to come and no chunk.
LEMMA InitInv == Init => IInv
<1> SUFFICES ASSUME Init PROVE IInv
  OBVIOUS
<1>1. /\ on_loop \in BOOLEAN /\ initial = simultaneous
      /\ pc = [make |-> "queue", loop |-> "idle"] /\ chunk = [make |-> 0, loop |-> 0]
      /\ given = 0 /\ next_chunk = TRUE /\ dones = 0
      /\ jobs = <<>> /\ user_buffers = <<>> /\ appended = <<>>
      /\ acked = 0 /\ destroyed = FALSE /\ crashed = FALSE
  BY DEF Init, InitialQueue
<1>2. /\ simultaneous \in 0..simultaneous /\ simultaneous \in Nat /\ simultaneous > 0
      /\ 0 \in Chunks
  BY ChunksAssumption DEF Chunks
<1>3. /\ pc.make = "queue" /\ pc.loop = "idle" /\ chunk.make = 0 /\ chunk.loop = 0
      /\ pc \in [{"make", "loop"} -> Places] /\ chunk \in [{"make", "loop"} -> Chunks]
  <2>1. pc.make = "queue" /\ pc.loop = "idle" /\ pc \in [{"make", "loop"} -> Places]
    BY <1>1 DEF Places
  <2>2. chunk.make = 0 /\ chunk.loop = 0 /\ chunk \in [{"make", "loop"} -> Chunks]
    BY <1>1, <1>2
  <2>3. QED
    BY <2>1, <2>2
<1>4. /\ jobs \in Seq(Chunks) /\ user_buffers \in Seq(Chunks) /\ appended \in Seq(Chunks)
      /\ Len(appended) = 0 /\ DOMAIN jobs = {} /\ DOMAIN user_buffers = {}
  BY <1>1
<1>5. TypeOK
  <2>1. /\ on_loop \in BOOLEAN /\ next_chunk \in BOOLEAN /\ destroyed \in BOOLEAN
        /\ crashed \in BOOLEAN
    BY <1>1, Zenon
  <2>2. /\ given \in Chunks /\ dones \in Nat /\ acked \in Nat
        /\ initial \in 0..simultaneous
    BY <1>1, <1>2
  <2>3. QED
    BY <1>3, <1>4, <2>1, <2>2, Types, Zenon
<1>6. Control
  BY <1>1, <1>2, <1>3, SMTT(30) DEF Control
<1>7. Stored = {}
  BY <1>4 DEF Stored, Range
<1>8. Unique
  <2>1. Once(jobs) /\ Once(user_buffers)
    BY <1>4 DEF Once
  <2>2. \A c \in Range(jobs) : c \in Range(user_buffers) => c = 0
    BY <1>7 DEF Stored
  <2>3. QED
    BY <1>1, <1>3, <1>7, <2>1, <2>2 DEF Unique
<1>9. Rights = simultaneous
  BY <1>1, <1>2, <1>3 DEF Rights, MakeCalls, LoopCalls
<1>10. Bounded
  <2>1. Active = {}
    BY <1>3, <1>5, <1>7, ActiveIs
  <2>2. Cardinality(Active) = 0
    BY <2>1, FS_EmptySet
  <2>3. QED
    BY <1>2, <1>9, <2>2 DEF Bounded
<1>11. Asked
  BY <1>1, <1>2, <1>3, <1>9 DEF Asked, AckedEarly
<1>12. Ordered
  BY <1>1, <1>3, <1>4, ChunksAssumption DEF Ordered, Has
<1>13. QED
  BY <1>5, <1>6, <1>8, <1>10, <1>11, <1>12 DEF IInv

\* Every step of either thread keeps the invariant.
LEMMA NextInv == IInv /\ [Next]_vars => IInv'
<1> SUFFICES ASSUME IInv, [Next]_vars PROVE IInv'
  OBVIOUS
<1>1. CASE Make
  BY <1>1, CheckMakeInv, CallMakeInv, FinishMakeInv, SendMakeInv, SendReturnsInv DEF Make
<1>2. CASE Loop
  <2>1. CASE RunJob
    BY <2>1, RunJobInv
  <2>2. CASE acknowledge \/ DestroyBuffer
    BY <2>2, PopFrontInv DEF acknowledge, DestroyBuffer
  <2>3. QED
    BY <1>2, <2>1, <2>2, CheckLoopInv, CallLoopInv, FinishLoopInv, SendLoopInv DEF Loop
<1>3. CASE DestroyStream
  BY <1>3, DestroyInv
<1>4. CASE UNCHANGED vars
  <2>1. /\ crashed' = crashed
        /\ UNCHANGED <<on_loop, initial, pc, chunk, given, next_chunk, dones, jobs,
                       user_buffers, appended, acked, destroyed>>
    BY <1>4 DEF vars
  <2>2. crashed \in BOOLEAN
    BY Types DEF IInv
  <2>3. QED
    BY <2>1, <2>2, CrashInv
<1>5. QED
  BY <1>1, <1>2, <1>3, <1>4 DEF Next

\* The invariant holds of every behaviour.
LEMMA InvAlways == Spec => []IInv
  BY InitInv, NextInv, PTL DEF Spec

\* The fields of a chunk_sender keep their types; in particular make() never
\* counts below zero.
THEOREM SenderTyped == Spec => []TypeOK
<1>1. IInv => TypeOK
  BY DEF IInv
<1>2. QED
  BY <1>1, InvAlways, PTL

\* However many chunks there are and on whichever thread they are created and
\* destroyed, no more than simultaneous of them are active.
THEOREM AtMostSimultaneous == Spec => []ActiveBound
<1>1. IInv => ActiveBound
  <2> SUFFICES ASSUME IInv PROVE ActiveBound
    OBVIOUS
  <2>1. TypeOK /\ Control /\ Cardinality(Active) + Rights <= simultaneous
    BY DEF IInv, Bounded
  <2>2. Rights \in Nat /\ Cardinality(Active) \in Nat
    BY <2>1, RightsNat, ActiveIs, FS_CardinalityType
  <2>3. QED
    BY <2>1, <2>2, ChunksAssumption DEF ActiveBound
<1>2. QED
  BY <1>1, InvAlways, PTL

\* While the stream lives, every chunk after the first simultaneous ones was
\* asked for after the acknowledgement of another.
THEOREM AskedAfterAck == Spec => []NextAfterAck
<1>1. IInv => NextAfterAck
  <2> SUFFICES ASSUME IInv, ~destroyed PROVE given <= simultaneous + acked
    BY DEF NextAfterAck
  <2>1. TypeOK /\ Control
    BY DEF IInv
  <2>2. Rights \in Nat /\ given \in Nat /\ acked \in Nat
    BY <2>1, RightsNat, Types, ChunksAssumption DEF Chunks
  <2> DEFINE e == IF AckedEarly THEN 1 ELSE 0
  <2>3. (given + Rights) + e <= simultaneous + acked /\ e \in Nat
    BY DEF IInv, Asked
  <2> HIDE DEF e
  <2>4. QED
    BY <2>2, <2>3, ChunksAssumption
<1>2. QED
  BY <1>1, InvAlways, PTL

\* send_chunks on the loop's thread hands the stream the chunks in order, and
\* what done() sends after them, once.
THEOREM SentInOrder == Spec => []InOrderOnLoop
<1>1. IInv => InOrderOnLoop
  BY DEF IInv, Ordered, InOrderOnLoop
<1>2. QED
  BY <1>1, InvAlways, PTL
=============================================================================
