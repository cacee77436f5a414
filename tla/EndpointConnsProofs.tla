------------------------ MODULE EndpointConnsProofs ------------------------
(***************************************************************************)
(* The bookkeeping of an endpoint's connections is right for any number of *)
(* connections and clients and any drain times.                            *)
(***************************************************************************)
EXTENDS EndpointConns, WellFoundedInduction, TLAPS

\* A connection has written its close packet only when it is closing or gone.
ClosePackets ==
  \A c \in CIDs :
    close_pkts[c] = 0 \/ (close_pkts[c] = 1 /\ state[c] \in {"closing", "deleted"})

\* Each entry is at the removal time of its connection, which a connection gets
\* when it starts to drain.
Removals ==
  /\ \A e \in draining : removal[e[2]] = e[1]
  /\ \A c \in CIDs : /\ state[c] = "draining" => removal[c] # NoTime
                     /\ state[c] \notin {"draining", "deleted"} => removal[c] = NoTime

IInv == TypeOK /\ EntriesValid /\ ClosePackets /\ Removals /\ EntryUnlessTaken

\* begin() of a map that is not empty has the smallest removal time.
LEMMA FirstIsEntry ==
  ASSUME NEW map, map \subseteq Nat \X CIDs, map # {}
  PROVE  First(map) \in map
<1> DEFINE R == OpToRel(<, Nat)
           Times == {e[1] : e \in map}
<1>1. Times \subseteq Nat /\ Times # {}
  OBVIOUS
<1>2. \E t \in Times : \A u \in Times : ~(<<u, t>> \in R)
  BY <1>1, NatLessThanWellFounded, WFMin
<1>2a. \A u, t \in Nat : u < t => <<u, t>> \in R
  BY Zenon DEF OpToRel
<1> HIDE DEF R, Times
<1>3. PICK t \in Times : \A u \in Times : <<u, t>> \notin R
  BY <1>2
<1>3a. \A u \in Times : ~(u < t)
  BY <1>1, <1>3, <1>2a
<1>3b. \A u \in Times : t <= u
  BY <1>1, <1>3a
<1> USE DEF Times
<1>4. PICK e \in map : e[1] = t
  BY <1>3
<1>5. \A f \in map : e[1] <= f[1]
  BY <1>3b, <1>4
<1>6. QED
  BY <1>4, <1>5 DEF First

\* An entry added to draining for a connection that has none.
LEMMA EmplaceSafe ==
  ASSUME TypeOK, NEW c \in CIDs, NEW t \in 0..MaxTime
  PROVE  /\ emplace(draining, t, c) \subseteq draining \cup {<<t, c>>}
         /\ emplace(draining, t, c) \subseteq (0..MaxTime) \X CIDs
         /\ \A e, f \in emplace(draining, t, c) : e[1] = f[1] => e = f
  BY DEF emplace, TypeOK

\* A step that adds no entry and starts no draining keeps the removal times,
\* and a draining connection its entry.
LEMMA RemovalsKept ==
  ASSUME IInv, removal' = removal,
         \A c \in CIDs : /\ state'[c] = "draining" => state[c] = "draining"
                         /\ state'[c] \notin {"draining", "deleted"} =>
                              state[c] \notin {"draining", "deleted"},
         draining' \subseteq draining,
         \A e \in draining : e \notin draining' => state'[e[2]] # "draining"
  PROVE  Removals' /\ EntryUnlessTaken'
<1>1. Removals'
  BY DEF IInv, Removals, TypeOK
<1>2. ASSUME NEW c \in CIDs, state'[c] = "draining"
      PROVE  \/ <<removal'[c], c>> \in draining'
             \/ \E d \in CIDs \ {c} : removal'[d] = removal'[c]
  BY <1>2 DEF IInv, EntryUnlessTaken
<1>3. QED
  BY <1>1, <1>2 DEF EntryUnlessTaken

\* A connection that starts to drain gets an entry, or finds the time taken.
LEMMA DrainedEntry ==
  ASSUME IInv, NEW c \in CIDs, NEW t \in 0..MaxTime,
         state[c] \notin {"draining", "deleted"},
         state' = [state EXCEPT ![c] = "draining"],
         removal' = [removal EXCEPT ![c] = t],
         draining' = emplace(draining, t, c)
  PROVE  Removals' /\ EntryUnlessTaken'
<1> USE TimeAssumption
<1>1. /\ state \in [CIDs -> InConns \cup {"unused", "deleted"}]
      /\ removal \in [CIDs -> Nat \cup {NoTime}] /\ removal[c] = NoTime
      /\ draining \subseteq (0..MaxTime) \X CIDs
  BY DEF IInv, TypeOK, Removals
<1>2. t \in Nat /\ t # NoTime
  BY DEF NoTime
<1>3. \A e \in draining : e[2] # c /\ e[2] \in CIDs /\ removal[e[2]] = e[1]
  BY <1>1 DEF IInv, EntriesValid, Removals
<1>4. \A d \in CIDs : d # c => removal'[d] = removal[d] /\ state'[d] = state[d]
  BY <1>1
<1>5. removal'[c] = t /\ state'[c] = "draining"
  BY <1>1
<1>6. draining \subseteq draining' /\ draining' \subseteq draining \cup {<<t, c>>}
  BY DEF emplace
<1>7. Removals'
  <2>1. \A e \in draining' : removal'[e[2]] = e[1]
    BY <1>3, <1>4, <1>5, <1>6
  <2>2. \A d \in CIDs : /\ state'[d] = "draining" => removal'[d] # NoTime
                        /\ state'[d] \notin {"draining", "deleted"} => removal'[d] = NoTime
    BY <1>2, <1>4, <1>5 DEF IInv, Removals
  <2>3. QED
    BY <2>1, <2>2 DEF Removals
<1>8. <<t, c>> \in draining' \/ \E e \in draining : e[1] = t
  BY DEF emplace
<1>9. <<removal'[c], c>> \in draining' \/ \E d \in CIDs \ {c} : removal'[d] = removal'[c]
  BY <1>3, <1>4, <1>5, <1>8
<1>10. ASSUME NEW b \in CIDs, b # c, state'[b] = "draining"
       PROVE  \/ <<removal'[b], b>> \in draining'
              \/ \E d \in CIDs \ {b} : removal'[d] = removal'[b]
  <2>1. state[b] = "draining" /\ removal'[b] = removal[b] /\ removal[b] # NoTime
    BY <1>4, <1>10 DEF IInv, Removals
  <2>2. \/ <<removal[b], b>> \in draining
        \/ \E d \in CIDs \ {b} : removal[d] = removal[b]
    BY <2>1 DEF IInv, EntryUnlessTaken
  <2>3. \A d \in CIDs : removal[d] = removal[b] => d # c
    BY <1>1, <2>1
  <2>4. QED
    BY <1>4, <1>6, <2>1, <2>2, <2>3
<1>11. QED
  BY <1>7, <1>9, <1>10 DEF EntryUnlessTaken

\* What a handler that changes one connection leaves.
LEMMA BecomeSafe ==
  ASSUME IInv, NEW c \in CIDs, NEW st \in InConns \cup {"deleted"}, Become(c, st),
         state[c] = "draining" => st = "draining",
         st = "closing" => close_pkts[c] = 0,
         st \notin {"closing", "deleted"} => close_pkts[c] = 0,
         state[c] = "deleted" => st = "deleted"
  PROVE  /\ state' \in [CIDs -> InConns \cup {"unused", "deleted"}]
         /\ draining' \subseteq (0..MaxTime) \X CIDs
         /\ \A e, f \in draining' : e[1] = f[1] => e = f
         /\ close_pkts' \in [CIDs -> Nat]
         /\ removal' \in [CIDs -> Nat \cup {NoTime}]
         /\ EntriesValid' /\ ClosePackets' /\ Removals' /\ EntryUnlessTaken'
<1> USE TimeAssumption
<1>1. state' \in [CIDs -> InConns \cup {"unused", "deleted"}] /\ close_pkts' \in [CIDs -> Nat]
  BY DEF IInv, TypeOK, Become
<1>2. ClosePackets'
  BY DEF IInv, TypeOK, Become, ClosePackets
<1>3. ASSUME Drains(state[c], st)
      PROVE  /\ draining' \subseteq (0..MaxTime) \X CIDs
             /\ \A e, f \in draining' : e[1] = f[1] => e = f
             /\ removal' \in [CIDs -> Nat \cup {NoTime}]
             /\ EntriesValid' /\ Removals' /\ EntryUnlessTaken'
  <2>1. PICK d \in DrainTimes : /\ now + d < MaxTime
                                /\ draining' = emplace(draining, now + d, c)
                                /\ removal' = [removal EXCEPT ![c] = now + d]
    BY <1>3 DEF Become, drain_connection, RemovalTime
  <2>2. now + d \in 0..MaxTime
    BY <2>1 DEF IInv, TypeOK
  <2>3. /\ draining' \subseteq draining \cup {<<now + d, c>>}
        /\ draining' \subseteq (0..MaxTime) \X CIDs
        /\ \A e, f \in draining' : e[1] = f[1] => e = f
    BY <2>1, <2>2, EmplaceSafe DEF IInv
  <2>4. \A e \in draining : e[2] # c /\ state[e[2]] = "draining" /\ e[2] \in CIDs
    BY <1>3 DEF IInv, TypeOK, EntriesValid, Drains
  <2>5. \A e \in draining' : state'[e[2]] = "draining"
    BY <1>3, <2>3, <2>4 DEF IInv, TypeOK, Become, Drains
  <2>6. \A e, f \in draining' : e[2] = f[2] => e = f
    BY <2>3, <2>4 DEF IInv, EntriesValid
  <2>7. Removals' /\ EntryUnlessTaken'
    <3>1. state[c] \notin {"draining", "deleted"} /\ state' = [state EXCEPT ![c] = "draining"]
      BY <1>3 DEF Drains, Become
    <3>2. QED
      BY <2>1, <2>2, <3>1, DrainedEntry
  <2>8. removal' \in [CIDs -> Nat \cup {NoTime}]
    BY <2>1, <2>2 DEF IInv, TypeOK
  <2>9. QED
    BY <2>3, <2>5, <2>6, <2>7, <2>8 DEF EntriesValid
<1>4. ASSUME ~Drains(state[c], st)
      PROVE  /\ draining' \subseteq (0..MaxTime) \X CIDs
             /\ \A e, f \in draining' : e[1] = f[1] => e = f
             /\ removal' \in [CIDs -> Nat \cup {NoTime}]
             /\ EntriesValid' /\ Removals' /\ EntryUnlessTaken'
  <2>1. draining' = draining /\ removal' = removal /\ state' = [state EXCEPT ![c] = st]
    BY <1>4 DEF Become
  <2>2. st = "draining" => state[c] = "draining"
    BY <1>4 DEF Drains
  <2>3. \A b \in CIDs : /\ state'[b] = "draining" => state[b] = "draining"
                        /\ state'[b] \notin {"draining", "deleted"} =>
                             state[b] \notin {"draining", "deleted"}
    BY <2>1, <2>2 DEF IInv, TypeOK
  <2>4. Removals' /\ EntryUnlessTaken'
    BY <2>1, <2>3, RemovalsKept
  <2>5. QED
    BY <2>1, <2>4 DEF IInv, TypeOK, EntriesValid
<1>5. QED
  BY <1>1, <1>2, <1>3, <1>4

\* Each step that changes one connection by way of Become.
LEMMA BecomeNext ==
  ASSUME IInv, NEW c \in CIDs, NEW st, Become(c, st),
         \/ state[c] \in {"open", "closing", "draining"} /\ st \in handle_conn_packet(state[c])
         \/ state[c] \in {"open", "closing", "draining"} /\ st \in close_connection(state[c], TRUE)
         \/ state[c] \in {"open", "closing", "draining"} /\ st \in close_connection(state[c], FALSE)
         \/ state[c] = "unused" /\ st \in handle_conn_packet("open") \cup {"null"}
  PROVE  /\ state' \in [CIDs -> InConns \cup {"unused", "deleted"}]
         /\ draining' \subseteq (0..MaxTime) \X CIDs
         /\ \A e, f \in draining' : e[1] = f[1] => e = f
         /\ close_pkts' \in [CIDs -> Nat]
         /\ removal' \in [CIDs -> Nat \cup {NoTime}]
         /\ EntriesValid' /\ ClosePackets' /\ Removals' /\ EntryUnlessTaken'
<1>1. /\ st \in InConns \cup {"deleted"}
      /\ state[c] = "draining" => st = "draining"
      /\ st \notin {"closing", "deleted"} => state[c] \in {"open", "draining", "unused"}
      /\ st = "closing" => state[c] \in {"open", "unused"}
  BY DEF handle_conn_packet, read_packet, close_connection, InConns
<1>2. close_pkts[c] = 0 \/ state[c] \in {"closing", "deleted"}
  BY DEF IInv, ClosePackets
<1>3. state[c] # "deleted"
  OBVIOUS
<1>4. QED
  BY <1>1, <1>2, <1>3, BecomeSafe

\* The inductive step.
LEMMA StepKeepsIInv ==
  ASSUME IInv, [Next]_vars
  PROVE  IInv'
<1> USE TimeAssumption
<1>1. CASE listen
  BY <1>1, RemovalsKept DEF listen, IInv, TypeOK, EntriesValid, ClosePackets
<1>2. CASE check_timeouts
  <2> DEFINE f == First(draining)
  <2>1. f \in draining
    BY <1>2, FirstIsEntry DEF check_timeouts, IInv, TypeOK
  <2>2. /\ state' = [state EXCEPT ![f[2]] = IF @ \in InConns THEN "deleted" ELSE @]
        /\ draining' = draining \ {f} /\ crashed' \in BOOLEAN
        /\ UNCHANGED <<dcid, close_pkts, accepting_inbound, now, removal>>
    BY <1>2 DEF check_timeouts
  <2> HIDE DEF f
  <2>3. f[2] \in CIDs
    BY <2>1 DEF IInv, TypeOK
  <2>4. TypeOK'
    BY <2>2, <2>3 DEF IInv, TypeOK, InConns
  <2>5. EntriesValid'
    BY <2>1, <2>2, <2>3 DEF IInv, TypeOK, EntriesValid
  <2>6. ClosePackets'
    BY <2>2, <2>3 DEF IInv, TypeOK, ClosePackets, InConns
  <2>7. Removals' /\ EntryUnlessTaken'
    <3>1. state'[f[2]] = "deleted" /\ \A c \in CIDs : c # f[2] => state'[c] = state[c]
      BY <2>1, <2>2, <2>3 DEF IInv, TypeOK, EntriesValid, InConns
    <3>2. QED
      BY <2>2, <2>3, <3>1, RemovalsKept
  <2>8. QED
    BY <2>4, <2>5, <2>6, <2>7 DEF IInv
<1>3. CASE close_conns
  <2>1. PICK done \in SUBSET (conns \ Null), unwritten \in SUBSET CIDs :
          /\ unwritten \subseteq {c \in done : state[c] = "open"}
          /\ state' = [c \in CIDs |->
               IF c \in unwritten \cup {d \in done : state[d] = "closing"} THEN "deleted"
               ELSE IF c \in {d \in done \ (unwritten \cup {e \in done : state[e] = "closing"}) :
                               state[d] = "open"}
               THEN "closing" ELSE state[c]]
          /\ close_pkts' = [c \in CIDs |->
               IF c \in {d \in done \ (unwritten \cup {e \in done : state[e] = "closing"}) :
                           state[d] = "open"}
               THEN close_pkts[c] + 1 ELSE close_pkts[c]]
          /\ crashed' \in BOOLEAN
          /\ UNCHANGED <<dcid, draining, accepting_inbound, now, removal>>
    BY <1>3 DEF close_conns
  <2>2. \A c \in CIDs :
          \/ state'[c] = state[c] /\ close_pkts'[c] = close_pkts[c]
          \/ state[c] \in {"open", "closing"} /\ state'[c] = "deleted" /\ close_pkts'[c] = close_pkts[c]
          \/ state[c] = "open" /\ state'[c] = "closing" /\ close_pkts'[c] = close_pkts[c] + 1
    BY <2>1
  <2>3. state' \in [CIDs -> InConns \cup {"unused", "deleted"}] /\ close_pkts' \in [CIDs -> Nat]
    BY <2>1 DEF IInv, TypeOK, InConns
  <2>4. TypeOK'
    BY <2>1, <2>3 DEF IInv, TypeOK
  <2>5. EntriesValid'
    BY <2>1, <2>2 DEF IInv, TypeOK, EntriesValid
  <2>6. ClosePackets'
    BY <2>2 DEF IInv, TypeOK, ClosePackets
  <2>7. Removals' /\ EntryUnlessTaken'
    BY <2>1, <2>2, RemovalsKept
  <2>8. QED
    BY <2>4, <2>5, <2>6, <2>7 DEF IInv
<1>4. CASE Tick
  BY <1>4, RemovalsKept DEF Tick, IInv, TypeOK, EntriesValid, ClosePackets
<1>5. ASSUME NEW c \in CIDs, connect(c)
      PROVE  IInv'
  <2>1. PICK st \in {"open", "null"} : state' = [state EXCEPT ![c] = st]
    BY <1>5 DEF connect
  <2>2. state[c] = "unused" /\ UNCHANGED <<dcid, draining, close_pkts, accepting_inbound, now, crashed, removal>>
    BY <1>5 DEF connect
  <2>3. TypeOK'
    BY <2>1, <2>2 DEF IInv, TypeOK, InConns
  <2>4. EntriesValid' /\ ClosePackets'
    BY <2>1, <2>2 DEF IInv, TypeOK, EntriesValid, ClosePackets
  <2>5. Removals' /\ EntryUnlessTaken'
    <3>1. state'[c] \in {"open", "null"} /\ \A b \in CIDs : b # c => state'[b] = state[b]
      BY <2>1 DEF IInv, TypeOK
    <3>2. QED
      BY <2>2, <3>1, RemovalsKept
  <2>6. QED
    BY <2>3, <2>4, <2>5 DEF IInv
<1>6. ASSUME NEW c \in CIDs, handle_packet(c)
      PROVE  IInv'
  <2>1. PICK st \in handle_conn_packet(state[c]) : Become(c, st)
    BY <1>6 DEF handle_packet
  <2>2. state[c] \in {"open", "closing", "draining"} /\ UNCHANGED <<dcid, accepting_inbound, now, crashed>>
    BY <1>6 DEF handle_packet
  <2>3. QED
    BY <2>1, <2>2, BecomeNext DEF IInv, TypeOK
<1>7. ASSUME NEW c \in CIDs, NEW client \in Clients, accept_initial_connection(c, client)
      PROVE  IInv'
  <2>1. PICK st \in handle_conn_packet("open") \cup {"null"} : Become(c, st) /\ crashed' \in BOOLEAN
    BY <1>7 DEF accept_initial_connection, IInv, TypeOK
  <2>2. /\ state[c] = "unused" /\ dcid' = [dcid EXCEPT ![c] = client]
        /\ UNCHANGED <<accepting_inbound, now>>
    BY <1>7 DEF accept_initial_connection
  <2>3. QED
    BY <2>1, <2>2, BecomeNext DEF IInv, TypeOK
<1>8. ASSUME NEW c \in CIDs, NEW idle \in BOOLEAN, Expiry(c, idle)
      PROVE  IInv'
  <2>1. PICK st \in close_connection(state[c], idle) : Become(c, st)
    BY <1>8 DEF Expiry
  <2>2. state[c] \in {"open", "closing", "draining"} /\ UNCHANGED <<dcid, accepting_inbound, now, crashed>>
    BY <1>8 DEF Expiry
  <2>3. idle = TRUE \/ idle = FALSE
    OBVIOUS
  <2>4. QED
    BY <2>1, <2>2, <2>3, BecomeNext DEF IInv, TypeOK
<1>9. CASE UNCHANGED vars
  BY <1>9, RemovalsKept DEF vars, IInv, TypeOK, EntriesValid, ClosePackets
<1>10. QED
  BY <1>1, <1>2, <1>3, <1>4, <1>5, <1>6, <1>7, <1>8, <1>9 DEF Next

LEMMA InvariantHolds == Spec => []IInv
<1>1. ASSUME Init
      PROVE  IInv
  <2>1. /\ state \in [CIDs -> InConns \cup {"unused", "deleted"}]
        /\ dcid \in [CIDs -> Clients \cup {NoClient}]
        /\ close_pkts \in [CIDs -> Nat] /\ removal \in [CIDs -> Nat \cup {NoTime}]
    BY <1>1 DEF Init
  <2>2. draining = {} /\ now \in 0..MaxTime
    BY <1>1, TimeAssumption DEF Init
  <2>3. accepting_inbound \in BOOLEAN /\ crashed \in BOOLEAN
    BY <1>1 DEF Init
  <2>4. TypeOK
    BY <2>1, <2>2, <2>3, Zenon DEF TypeOK
  <2>5. EntriesValid /\ ClosePackets /\ Removals /\ EntryUnlessTaken
    BY <1>1 DEF Init, EntriesValid, ClosePackets, Removals, EntryUnlessTaken
  <2>6. QED
    BY <2>4, <2>5 DEF IInv
<1>2. QED
  BY <1>1, StepKeepsIInv, PTL DEF Spec

\* The fields of the endpoint keep their types, and each removal time is the
\* key of one entry of draining.
THEOREM TypesKept == Spec => []TypeOK
<1>1. IInv => TypeOK
  BY DEF IInv
<1>2. QED
  BY <1>1, InvariantHolds, PTL

\* Each entry of draining is the only one of a connection that is in conns and
\* draining: check_timeouts never removes a connection twice, nor one that
\* came to another end.
THEOREM EntriesAlwaysValid == Spec => []EntriesValid
<1>1. IInv => EntriesValid
  BY DEF IInv
<1>2. QED
  BY <1>1, InvariantHolds, PTL

\* For any connections and drain times, a draining connection has its entry
\* unless another connection was given the same removal time.
THEOREM EntryLostOnlyToSameTime == Spec => []EntryUnlessTaken
<1>1. IInv => EntryUnlessTaken
  BY DEF IInv
<1>2. QED
  BY <1>1, InvariantHolds, PTL

\* No sequence of packets, timeouts and shutdowns makes a connection write a
\* second close packet.
THEOREM ClosesOnce == Spec => []CloseOnce
<1>1. IInv => CloseOnce
  BY DEF IInv, TypeOK, ClosePackets, CloseOnce
<1>2. QED
  BY <1>1, InvariantHolds, PTL

\* Only check_timeouts ends the draining of a connection, and only after the
\* removal time that was set when it began.
THEOREM DrainingKept == Spec => KeptWhileDraining
<1> DEFINE Kept == \A c \in CIDs : state[c] = "draining" /\ state'[c] # "draining" =>
                     \E e \in draining : e[2] = c /\ e[1] < now
<1>1. ASSUME IInv, [Next]_vars
      PROVE  [Kept]_vars
  <2> SUFFICES ASSUME NEW c \in CIDs, state[c] = "draining", state'[c] # "draining"
               PROVE  \E e \in draining : e[2] = c /\ e[1] < now
    OBVIOUS
  <2>1. \A b \in CIDs : \A st : Become(b, st) =>
          state' = [state EXCEPT ![b] = st]
    BY DEF Become
  <2>2. ASSUME NEW b \in CIDs, handle_packet(b)
        PROVE  FALSE
    <3>1. PICK st \in handle_conn_packet(state[b]) : state' = [state EXCEPT ![b] = st]
      BY <2>1, <2>2 DEF handle_packet
    <3>2. b = c => st = "draining"
      BY DEF handle_conn_packet, read_packet
    <3>3. QED
      BY <1>1, <3>1, <3>2 DEF IInv, TypeOK
  <2>3. ASSUME NEW b \in CIDs, NEW idle \in BOOLEAN, Expiry(b, idle)
        PROVE  FALSE
    <3>1. PICK st \in close_connection(state[b], idle) : state' = [state EXCEPT ![b] = st]
      BY <2>1, <2>3 DEF Expiry
    <3>2. b = c => st = "draining"
      BY DEF close_connection
    <3>3. QED
      BY <1>1, <3>1, <3>2 DEF IInv, TypeOK
  <2>4. ASSUME NEW b \in CIDs, connect(b) \/ \E client \in Clients : accept_initial_connection(b, client)
        PROVE  FALSE
    <3>1. state[b] = "unused" /\ \E st : state' = [state EXCEPT ![b] = st]
      BY <2>1, <2>4 DEF connect, accept_initial_connection
    <3>2. QED
      BY <1>1, <3>1 DEF IInv, TypeOK
  <2>5. ASSUME close_conns
        PROVE  FALSE
    BY <1>1, <2>5 DEF close_conns, IInv, TypeOK
  <2>6. CASE check_timeouts
    <3>1. First(draining) \in draining
      BY <1>1, <2>6, FirstIsEntry, TimeAssumption DEF check_timeouts, IInv, TypeOK
    <3>2. First(draining)[1] < now /\ (c # First(draining)[2] => state'[c] = state[c])
      BY <1>1, <2>6 DEF check_timeouts, IInv, TypeOK
    <3>3. QED
      BY <3>1, <3>2
  <2>7. state' # state
    OBVIOUS
  <2>8. QED
    BY <1>1, <2>2, <2>3, <2>4, <2>5, <2>6, <2>7 DEF Next, vars, listen, Tick
<1>2. QED
  BY <1>1, InvariantHolds, PTL DEF Spec, KeptWhileDraining
=============================================================================
