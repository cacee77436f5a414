--------------------------- MODULE EndpointConns ---------------------------
(***************************************************************************)
(* The connections of an Endpoint: the map conns by connection ID, the map *)
(* draining by removal time, and the handlers that create, close, drain    *)
(* and delete connections.  All run on the event loop's thread.            *)
(*                                                                         *)
(* Packets may be lost, duplicated, delayed and reordered: any packet a    *)
(* peer ever sent may be handled at any time.  A packet for an unknown ID  *)
(* that does not open a connection is dropped and changes nothing.         *)
(***************************************************************************)
EXTENDS Integers, FiniteSets

CONSTANTS
  CIDs,        \* the connection IDs ConnectionID::random() returns, each once
  Clients,     \* the connection IDs of remote clients
  NoClient,    \* the connection is outbound
  DrainTimes,  \* three times the PTO, per ngtcp2
  MaxTime      \* bound on the clock

ASSUME TimeAssumption == MaxTime \in Nat /\ DrainTimes \subseteq Nat
ASSUME ClientsAssumption == NoClient \notin Clients

VARIABLES
  state,      \* per ID: is it in conns, and ngtcp2's state of the connection
  dcid,       \* per ID: the client of an inbound connection
  draining,   \* pairs of removal time and ID, at most one per time
  close_pkts, \* per ID: connection close packets written
  accepting_inbound,
  now,        \* steady_clock
  crashed,    \* undefined behaviour or an exception ended the process
  removal     \* history, per ID: the removal time given when it was drained

vars == <<state, dcid, draining, close_pkts, accepting_inbound, now, crashed, removal>>

\* The removal time of a connection that was never drained.
NoTime == -1

\* "null": in conns without a Connection; "closing" and "draining" as ngtcp2
\* has it ("draining" is also Connection::draining; closing is never set).
InConns == {"null", "open", "closing", "draining"}

conns == {c \in CIDs : state[c] \in InConns}

Null == {c \in CIDs : state[c] = "null"}

Init ==
  /\ state = [c \in CIDs |-> "unused"]
  /\ dcid = [c \in CIDs |-> NoClient]
  /\ draining = {}
  /\ close_pkts = [c \in CIDs |-> 0]
  /\ accepting_inbound = FALSE
  /\ now = 0
  /\ crashed = FALSE
  /\ removal = [c \in CIDs |-> NoTime]
-----------------------------------------------------------------------------
listen ==
  /\ ~crashed
  /\ ~accepting_inbound
  /\ accepting_inbound' = TRUE
  /\ UNCHANGED <<state, dcid, draining, close_pkts, now, crashed, removal>>

\* The entry is made before the Connection, and stays when that throws.
connect(c) ==
  /\ ~crashed
  /\ state[c] = "unused"
  /\ \E st \in {"open", "null"} : state' = [state EXCEPT ![c] = st]
  /\ UNCHANGED <<dcid, draining, close_pkts, accepting_inbound, now, crashed, removal>>

\* Mutant: the entry that has the key is replaced.
emplace_Replace(map, t, c) == {e \in map : e[1] # t} \cup {<<t, c>>}

\* std::map::emplace keeps the entry that has the key already.
emplace(map, t, c) ==
  IF \E e \in map : e[1] = t THEN map ELSE map \cup {<<t, c>>}

RemovalTime(d) == now + d

drain_connection(c) ==
  \E d \in DrainTimes :
    /\ now + d < MaxTime
    /\ draining' = emplace(draining, RemovalTime(d), c)
    /\ removal' = [removal EXCEPT ![c] = RemovalTime(d)]

\* Mutant: a connection that is draining already is drained again.
Drains_Again(old, new) == new = "draining"

Drains(old, new) == new = "draining" /\ old # "draining"

\* Handlers are given as the states they may leave a connection in; Become
\* makes the change.
Become(c, st) ==
  /\ state' = [state EXCEPT ![c] = st]
  /\ close_pkts' = [close_pkts EXCEPT ![c] = IF st = "closing" THEN @ + 1 ELSE @]
  /\ IF Drains(state[c], st) THEN drain_connection(c) ELSE UNCHANGED <<draining, removal>>

\* Mutant: the idle timeout deletes a connection that is draining.
close_connection_Drained(st, idle) ==
  IF idle \/ st # "open" THEN {"deleted"} ELSE {"closing", "deleted"}

\* Mutant: the failed write of a second close packet is not noticed.
close_connection_Twice(st, idle) ==
  CASE st = "draining" -> {"draining"}
    [] st # "draining" /\ idle -> {"deleted"}
    [] st # "draining" /\ ~idle -> {"closing"}

\* A draining connection is left alone; an idle one is deleted; else a close
\* packet is sent.  ngtcp2 writes one for an open connection only, and may fail
\* to; then the connection is deleted.
close_connection(st, idle) ==
  CASE st = "draining" -> {"draining"}
    [] st # "draining" /\ idle -> {"deleted"}
    [] st = "open" /\ ~idle -> {"closing", "deleted"}
    [] st = "closing" /\ ~idle -> {"deleted"}

\* ngtcp2_conn_read_pkt returns 0, DRAINING, DROP_CONN or CRYPTO, or an error.
read_packet(st) ==
  IF st = "draining" THEN {"draining"}
  ELSE {"open", "draining", "deleted"} \cup close_connection(st, FALSE)

handle_conn_packet(st) ==
  IF st = "closing" THEN {"deleted"} ELSE read_packet(st)

\* A packet for a known connection.
handle_packet(c) ==
  /\ ~crashed
  /\ state[c] \in {"open", "closing", "draining"}
  /\ \E st \in handle_conn_packet(state[c]) : Become(c, st)
  /\ UNCHANGED <<dcid, accepting_inbound, now, crashed>>

\* The first packet of a client.  Its ID is the client's choice and never a
\* key of conns, so the same packet is accepted each time it arrives.  An
\* exception of the constructor leaves through libevent and ends the process.
accept_initial_connection(c, client) ==
  /\ ~crashed
  /\ accepting_inbound
  /\ state[c] = "unused"
  /\ dcid' = [dcid EXCEPT ![c] = client]
  /\ \/ \E st \in handle_conn_packet("open") : Become(c, st) /\ UNCHANGED crashed
     \/ Become(c, "null") /\ crashed' = TRUE
  /\ UNCHANGED <<accepting_inbound, now>>
-----------------------------------------------------------------------------
\* The retransmit timer, ngtcp2_conn_handle_expiry returning an error: the
\* idle timeout or another one.  The timer is an event that fires once and is
\* not added again after an error.
Expiry(c, idle) ==
  /\ ~crashed
  /\ state[c] \in {"open", "closing", "draining"}
  /\ \E st \in close_connection(state[c], idle) : Become(c, st)
  /\ UNCHANGED <<dcid, accepting_inbound, now, crashed>>

First(map) == CHOOSE e \in map : \A f \in map : e[1] <= f[1]

\* Mutant: every entry that has expired is erased, one connection is deleted.
check_timeouts_Range ==
  LET f == First(draining)
  IN  /\ ~crashed
      /\ draining # {} /\ f[1] < now
      /\ state' = [state EXCEPT ![f[2]] = IF @ \in InConns THEN "deleted" ELSE @]
      /\ draining' = {e \in draining : e[1] >= now}
      /\ UNCHANGED <<dcid, close_pkts, accepting_inbound, now, crashed, removal>>

\* The loop keeps the iterator f of the first entry and erases that entry: it
\* is done when no entry is left; otherwise the next condition reads what was
\* erased, and the loop either ends or goes on to erase it again.
check_timeouts ==
  LET f == First(draining)
  IN  /\ ~crashed
      /\ draining # {} /\ f[1] < now
      /\ state' = [state EXCEPT ![f[2]] = IF @ \in InConns THEN "deleted" ELSE @]
      /\ draining' = draining \ {f}
      /\ crashed' \in IF draining' = {} THEN {FALSE} ELSE BOOLEAN
      /\ UNCHANGED <<dcid, close_pkts, accepting_inbound, now, removal>>

\* The range-for over conns calls close_connection, which erases the entry it
\* stands on when no close packet is written: from there the loop may go on,
\* end early or crash.  It crashes at a null entry.  The only caller,
\* Network::close_all, names no direction.
close_conns ==
  /\ ~crashed
  /\ \E done \in SUBSET (conns \ Null), unwritten \in SUBSET CIDs :
       LET erased == unwritten \cup {c \in done : state[c] = "closing"}
           closed == {c \in done \ erased : state[c] = "open"}
       IN  /\ unwritten \subseteq {c \in done : state[c] = "open"}
           /\ state' = [c \in CIDs |-> IF c \in erased THEN "deleted"
                                      ELSE IF c \in closed THEN "closing" ELSE state[c]]
           /\ close_pkts' =
                [c \in CIDs |-> IF c \in closed THEN close_pkts[c] + 1 ELSE close_pkts[c]]
           /\ \/ done = conns /\ crashed' = FALSE
              \/ erased # {} /\ crashed' \in BOOLEAN
              \/ Null # {} /\ crashed' = TRUE
           /\ UNCHANGED <<dcid, draining, accepting_inbound, now, removal>>

Tick ==
  /\ ~crashed
  /\ now < MaxTime
  /\ now' = now + 1
  /\ UNCHANGED <<state, dcid, draining, close_pkts, accepting_inbound, crashed, removal>>

Next ==
  \/ listen \/ check_timeouts \/ close_conns \/ Tick
  \/ \E c \in CIDs :
       \/ connect(c) \/ handle_packet(c)
       \/ \E client \in Clients : accept_initial_connection(c, client)
       \/ \E idle \in BOOLEAN : Expiry(c, idle)

Spec == Init /\ [][Next]_vars

\* Time passes, and the endpoint's persistent timer fires every 250 ms.  Nothing
\* is assumed of the retransmit timers and of the peers.
Fairness == WF_vars(Tick) /\ WF_vars(check_timeouts)

FairSpec == Spec /\ Fairness
-----------------------------------------------------------------------------
\* Types of the fields; removal times are keys, so each occurs once.
TypeOK ==
  /\ state \in [CIDs -> InConns \cup {"unused", "deleted"}]
  /\ dcid \in [CIDs -> Clients \cup {NoClient}]
  /\ draining \subseteq (0..MaxTime) \X CIDs
  /\ \A e, f \in draining : e[1] = f[1] => e = f
  /\ close_pkts \in [CIDs -> Nat]
  /\ accepting_inbound \in BOOLEAN /\ now \in 0..MaxTime /\ crashed \in BOOLEAN
  /\ removal \in [CIDs -> Nat \cup {NoTime}]

\* Each entry of draining is for one connection that is in conns and draining,
\* so check_timeouts never meets a connection that came to another end or that
\* another entry has removed already.
EntriesValid ==
  \A e \in draining :
    /\ state[e[2]] = "draining"
    /\ \A f \in draining : e[2] = f[2] => e = f

\* A connection writes at most one close packet, whatever errors, timeouts and
\* shutdowns follow each other.
CloseOnce == \A c \in CIDs : close_pkts[c] <= 1

\* A draining connection stays until its removal time "allowing any lagging
\* packets to be caught", whatever packets, timers and close_conns do meanwhile.
KeptWhileDraining ==
  [][\A c \in CIDs : state[c] = "draining" /\ state'[c] # "draining" =>
       \E e \in draining : e[2] = c /\ e[1] < now]_vars

\* A draining connection has its entry in draining, at the time given when it
\* was drained, unless the same time was given to another connection (emplace
\* keeps one entry per time).  Nothing else leaves a draining connection in
\* conns without an entry that check_timeouts will come to.
EntryUnlessTaken ==
  \A c \in CIDs : state[c] = "draining" =>
    <<removal[c], c>> \in draining \/ \E d \in CIDs \ {c} : removal[d] = removal[c]

\* A draining connection whose removal time no other connection has got is
\* deleted in the end, also when another gets the same time later.
Reclaimed ==
  \A c \in CIDs :
    (state[c] = "draining" /\ \A d \in CIDs \ {c} : removal[d] # removal[c]) ~>
      (state[c] = "deleted" \/ crashed)

\* "client.dcid == server.scid": a client has one connection on the server.
OneConnPerClient ==
  \A c, d \in conns : dcid[c] = dcid[d] /\ dcid[c] # NoClient => c = d

\* Draining connections are "kept around for a short period of time": the
\* check leaves no connection whose time has passed.
ExpiredRemoved ==
  [][check_timeouts => ~crashed' /\ \A e \in draining' : e[1] >= now]_vars
=============================================================================
