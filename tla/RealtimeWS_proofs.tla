-------------------------- MODULE RealtimeWS_proofs --------------------------
(***************************************************************************)
(* The badge is honest and a stopped stream stays down, for any number of  *)
(* starts under way, streams, attempts and faults.                         *)
(***************************************************************************)
EXTENDS RealtimeWS, TLAPS

(* A start that connects has a stream of its own, which nobody else has    *)
(* seen: it was never stopped and does not linger.                         *)
StartsInv ==
    \A s \in Starters : start[s].pc = "connect" =>
        /\ start[s].ws \in Streams /\ start[s].ws \notin lingering
        /\ stream[start[s].ws] = [Gone EXCEPT !.st = "new"]
        /\ \A t \in Starters : start[t].pc = "connect" /\ start[t].ws = start[s].ws => t = s

(* Only a stream that is up has been stopped: the stop of any other one    *)
(* takes it down at once.                                                  *)
StopsInv == \A w \in Streams : stream[w].stop => stream[w].st = "up"

TriesInv == \A w \in Streams : stream[w].tries < MaxTries

Inv == TypeOK /\ StartsInv /\ StopsInv /\ TriesInv /\ BadgeHonest

LEMMA StreamTypes ==
    /\ MaxTries \in Nat \ {0} /\ MaxOwed \in Nat /\ MaxFaults \in Nat /\ MaxRevokes \in Nat
    /\ 0 \notin Streams /\ Gone \in Stream /\ [Gone EXCEPT !.st = "new"] \in Stream
<1>1. 0 \in 0 .. MaxTries
  BY StreamAssumption
<1>2. Gone \in Stream
  BY <1>1 DEF Stream, Gone
<1>3. [Gone EXCEPT !.st = "new"] \in Stream
  BY <1>2 DEF Stream
<1> QED BY <1>2, <1>3, StreamAssumption DEF Streams

LEMMA StreamSet ==
    ASSUME NEW r \in Stream, NEW st \in {"gone", "new", "up", "down", "asleep", "dialling"},
           NEW q, q = [r EXCEPT !.st = st]
    PROVE  q \in Stream /\ q.st = st /\ q.stop = r.stop /\ q.tries = r.tries
  BY DEF Stream

LEMMA NextStreamFree ==
    ASSUME \E w \in Streams : Free(w) PROVE NextStream \in Streams /\ Free(NextStream)
  BY DEF NextStream

(* The inductive invariant holds in the initial states.                    *)
THEOREM InvInit == Init => Inv
<1> SUFFICES ASSUME Init PROVE Inv
  OBVIOUS
<1>1. TypeOK
  <2>1. 0 \in 0 .. MaxOwed /\ 0 \in 0 .. MaxFaults /\ 0 \in 0 .. MaxRevokes
    BY StreamTypes
  <2>2. stream \in [Streams -> Stream]
    BY StreamTypes DEF Init
  <2>3. start \in [Starters -> [pc : {"idle", "plant", "connect"}, ws : Streams \union {0}]]
    BY DEF Init, NoStart
  <2> QED BY <2>1, <2>2, <2>3 DEF Init, TypeOK
<1>2. StartsInv /\ StopsInv /\ TriesInv /\ BadgeHonest
  BY StreamTypes DEF Init, StartsInv, StopsInv, TriesInv, BadgeHonest, NoStart, Gone
<1> QED BY <1>1, <1>2 DEF Inv

-----------------------------------------------------------------------------
(* What a step may do to a stream of its own, and keep the rest.           *)
LEMMA StreamsKept ==
    ASSUME Inv, UNCHANGED <<stream, start, lingering>>
    PROVE  StartsInv' /\ StopsInv' /\ TriesInv' /\ (badge' \in {badge, "api"} => BadgeHonest')
  BY DEF Inv, StartsInv, StopsInv, TriesInv, BadgeHonest, is_connected

(* A stream that is neither new nor up may go on within what a listen loop *)
(* does; a stream that is up may only go with the badge.                   *)
LEMMA LoopStep ==
    ASSUME Inv, NEW w \in Streams, NEW next \in Stream, UNCHANGED <<start, lingering>>,
           stream' = [stream EXCEPT ![w] = next],
           stream[w].st # "new", next.st # "new", next.stop => next.st = "up",
           next.tries < MaxTries,
           badge' \in {badge, "api"},
           is_connected(w) => next.st = "up" \/ badge' = "api"
    PROVE  StartsInv' /\ StopsInv' /\ TriesInv' /\ BadgeHonest'
<1> USE DEF Inv
<1>1. \A v \in Streams : stream'[v] = IF v = w THEN next ELSE stream[v]
  BY DEF TypeOK
<1>2. StartsInv'
  <2>1. \A s \in Starters : start[s].pc = "connect" => start[s].ws # w
    BY DEF StartsInv, Gone
  <2> QED BY <1>1, <2>1 DEF StartsInv
<1>3. StopsInv' /\ TriesInv'
  BY <1>1 DEF StopsInv, TriesInv
<1>4. BadgeHonest'
  BY <1>1 DEF BadgeHonest, is_connected
<1> QED BY <1>2, <1>3, <1>4

LEMMA InvStop ==
    ASSUME Inv, _stop_realtime_ws, UNCHANGED start
    PROVE  /\ StartsInv' /\ StopsInv' /\ TriesInv' /\ BadgeHonest'
           /\ ref' = 0 /\ stream' \in [Streams -> Stream] /\ lingering' \subseteq Streams
           /\ badge' \in {"api", "ws"}
<1> USE DEF Inv
<1>1. ref \in Streams \union {0} /\ stream \in [Streams -> Stream] /\ lingering \subseteq Streams
      /\ badge \in {"api", "ws"} /\ ref' = 0
  BY DEF TypeOK, _stop_realtime_ws
<1>2. CASE ref = 0
  BY <1>1, <1>2, StreamsKept DEF _stop_realtime_ws
<1>3. CASE ref # 0 /\ is_connected(ref)
  <2>1. /\ stream' = [stream EXCEPT ![ref].stop = TRUE] /\ lingering' = lingering \union {ref}
        /\ badge' = badge
    BY <1>3 DEF _stop_realtime_ws
  <2>2. /\ stream' \in [Streams -> Stream]
        /\ \A v \in Streams : /\ stream'[v].st = stream[v].st /\ stream'[v].tries = stream[v].tries
                              /\ v # ref => stream'[v] = stream[v]
    BY <1>1, <1>3, <2>1 DEF Stream
  <2>3. \A s \in Starters : start[s].pc = "connect" => start[s].ws # ref
    BY <1>3 DEF StartsInv, is_connected, Gone
  <2>4. StartsInv'
    BY <1>1, <2>1, <2>2, <2>3 DEF StartsInv
  <2>5. StopsInv' /\ TriesInv' /\ BadgeHonest'
    BY <1>1, <1>3, <2>1, <2>2 DEF StopsInv, TriesInv, BadgeHonest, is_connected
  <2> QED BY <1>1, <1>3, <2>1, <2>2, <2>4, <2>5
<1>4. CASE ref # 0 /\ ~is_connected(ref)
  <2>1. /\ stream' = [stream EXCEPT ![ref] = IF is_active(ref) THEN Gone ELSE @]
        /\ lingering' = lingering /\ badge' = "api"
    BY <1>4 DEF _stop_realtime_ws
  <2>2. CASE is_active(ref)
    <3>1. stream[ref].st # "new" /\ Gone.st # "new" /\ ~Gone.stop /\ Gone.tries = 0
      BY <2>2 DEF is_active, Gone
    <3>2. stream' = [stream EXCEPT ![ref] = Gone] /\ ref \in Streams
      BY <1>1, <1>4, <2>1, <2>2
    <3>3. StartsInv' /\ StopsInv' /\ TriesInv' /\ BadgeHonest'
      <4>1. 0 < MaxTries /\ UNCHANGED <<start, lingering>>
        BY <2>1, StreamTypes
      <4> QED BY <2>1, <3>1, <3>2, <4>1, StreamTypes, LoopStep
    <3> QED BY <1>1, <2>1, <3>2, <3>3, StreamTypes
  <2>3. CASE ~is_active(ref)
    <3>1. stream' = stream
      BY <1>1, <2>1, <2>3
    <3> QED BY <1>1, <2>1, <3>1, StreamsKept
  <2> QED BY <2>2, <2>3
<1> QED BY <1>2, <1>3, <1>4

LEMMA InvConnecting ==
    ASSUME Inv, NEW s \in Starters, start[s].pc # "connect", Connecting(s),
           UNCHANGED <<lingering, badge>>
    PROVE  /\ StartsInv' /\ StopsInv' /\ TriesInv' /\ BadgeHonest'
           /\ stream' \in [Streams -> Stream]
           /\ start' \in [Starters -> [pc : {"idle", "plant", "connect"}, ws : Streams \union {0}]]
<1> USE DEF Inv
<1> DEFINE n == NextStream
<1>1. n \in Streams /\ stream[n] = Gone /\ n \notin lingering
  BY NextStreamFree DEF Connecting, Free
<1>2. /\ start' = [start EXCEPT ![s] = [pc |-> "connect", ws |-> n]]
      /\ stream' = [stream EXCEPT ![n] = [Gone EXCEPT !.st = "new"]]
  BY DEF Connecting
<1> HIDE DEF n
<1>3. /\ \A v \in Streams : stream'[v] = IF v = n THEN [Gone EXCEPT !.st = "new"] ELSE stream[v]
      /\ \A t \in Starters : start'[t] = IF t = s THEN [pc |-> "connect", ws |-> n] ELSE start[t]
  BY <1>2 DEF TypeOK
<1>4. \A t \in Starters : start[t].pc = "connect" => start[t].ws # n
  BY <1>1 DEF StartsInv, Gone
<1>5. StartsInv'
  BY <1>1, <1>3, <1>4 DEF StartsInv
<1>6. StopsInv' /\ TriesInv'
  BY <1>3, StreamTypes DEF StopsInv, TriesInv, Gone
<1>7. BadgeHonest'
  BY <1>1, <1>3 DEF BadgeHonest, is_connected, Gone
<1> QED BY <1>1, <1>2, <1>5, <1>6, <1>7, StreamTypes DEF TypeOK

-----------------------------------------------------------------------------
(* The steps.                                                              *)
LEMMA InvSessions ==
    ASSUME Inv, SessionStarts \/ SessionParks \/ _on_session_cancel PROVE Inv'
<1>1. /\ UNCHANGED <<known, ref, stream, start, lingering, plant, token, badge, recent, faults, revokes>>
      /\ sess' \in {"none", "paced", "parked"}
  BY DEF SessionStarts, SessionParks, _on_session_cancel, Session
<1>2. owed' \in 0 .. MaxOwed
  BY StreamTypes DEF SessionStarts, SessionParks, _on_session_cancel, Inv, TypeOK
<1>3. TypeOK'
  BY <1>1, <1>2 DEF Inv, TypeOK, known
<1> QED BY <1>1, <1>3, StreamsKept DEF Inv

LEMMA InvOwedStop == ASSUME Inv, OwedStop PROVE Inv'
<1>1. /\ UNCHANGED <<known, sess, start, plant, token, recent, faults, revokes>>
      /\ _stop_realtime_ws /\ owed' = owed - 1 /\ owed > 0
  BY DEF OwedStop
<1>2. /\ StartsInv' /\ StopsInv' /\ TriesInv' /\ BadgeHonest'
      /\ ref' = 0 /\ stream' \in [Streams -> Stream] /\ lingering' \subseteq Streams
      /\ badge' \in {"api", "ws"}
  BY <1>1, InvStop
<1>3. owed' \in 0 .. MaxOwed
  BY <1>1, StreamTypes DEF Inv, TypeOK
<1>4. TypeOK'
  BY <1>1, <1>2, <1>3 DEF Inv, TypeOK, known
<1> QED BY <1>2, <1>4 DEF Inv

LEMMA InvMaybeStart == ASSUME Inv, NEW s \in Starters, _maybe_start_realtime_ws(s) PROVE Inv'
<1>1. UNCHANGED <<known, sess, owed, plant, token, recent, faults, revokes>> /\ start[s] = NoStart
  BY DEF _maybe_start_realtime_ws
<1>2. CASE _stop_realtime_ws /\ UNCHANGED start
  <2>1. /\ StartsInv' /\ StopsInv' /\ TriesInv' /\ BadgeHonest'
        /\ ref' = 0 /\ stream' \in [Streams -> Stream] /\ lingering' \subseteq Streams
        /\ badge' \in {"api", "ws"}
    BY <1>2, InvStop
  <2>2. TypeOK'
    BY <1>1, <1>2, <2>1 DEF Inv, TypeOK, known
  <2> QED BY <2>1, <2>2 DEF Inv
<1>3. CASE plant /\ Connecting(s) /\ UNCHANGED <<ref, lingering, badge>>
  <2>1. start[s].pc # "connect"
    BY <1>1 DEF NoStart
  <2>2. /\ StartsInv' /\ StopsInv' /\ TriesInv' /\ BadgeHonest'
        /\ stream' \in [Streams -> Stream]
        /\ start' \in [Starters -> [pc : {"idle", "plant", "connect"}, ws : Streams \union {0}]]
    BY <1>3, <2>1, InvConnecting
  <2>3. TypeOK'
    BY <1>1, <1>3, <2>2 DEF Inv, TypeOK, known
  <2> QED BY <2>2, <2>3 DEF Inv
<1>4. CASE /\ start' = [start EXCEPT ![s].pc = "plant"]
           /\ UNCHANGED <<stream, ref, lingering, badge>>
  <2>1. TypeOK'
    BY <1>1, <1>4 DEF Inv, TypeOK, known
  <2>2. \A t \in Starters : start'[t].pc = "connect" => start'[t] = start[t] /\ start[t].pc = "connect"
    BY <1>4 DEF Inv, TypeOK
  <2>3. StartsInv'
    BY <1>4, <2>2 DEF Inv, StartsInv
  <2>4. StopsInv' /\ TriesInv' /\ BadgeHonest'
    BY <1>4 DEF Inv, StopsInv, TriesInv, BadgeHonest, is_connected
  <2> QED BY <2>1, <2>3, <2>4 DEF Inv
<1> QED BY <1>2, <1>3, <1>4 DEF _maybe_start_realtime_ws

(* A start that is over takes no stream with it but its own.               *)
LEMMA StartOver ==
    ASSUME Inv, NEW s \in Starters, start' = [start EXCEPT ![s] = NoStart]
    PROVE  /\ start' \in [Starters -> [pc : {"idle", "plant", "connect"}, ws : Streams \union {0}]]
           /\ \A t \in Starters : start'[t].pc = "connect" =>
                 t # s /\ start'[t] = start[t] /\ start[t].pc = "connect"
<1>1. NoStart \in [pc : {"idle", "plant", "connect"}, ws : Streams \union {0}] /\ NoStart.pc = "idle"
  BY DEF NoStart
<1> QED BY <1>1 DEF Inv, TypeOK

LEMMA InvConnect == ASSUME Inv, NEW s \in Starters, Connect(s) PROVE Inv'
<1>1. CASE PlantFound(s)
  <2>1. /\ UNCHANGED <<known, sess, ref, lingering, owed, token, badge, recent, faults, revokes>>
        /\ plant' = TRUE /\ Connecting(s) /\ start[s].pc # "connect"
    BY <1>1 DEF PlantFound
  <2>2. /\ StartsInv' /\ StopsInv' /\ TriesInv' /\ BadgeHonest'
        /\ stream' \in [Streams -> Stream]
        /\ start' \in [Starters -> [pc : {"idle", "plant", "connect"}, ws : Streams \union {0}]]
    BY <2>1, InvConnecting
  <2>3. TypeOK'
    BY <2>1, <2>2 DEF Inv, TypeOK, known
  <2> QED BY <2>2, <2>3 DEF Inv
<1>2. CASE PlantFails(s)
  <2>1. /\ UNCHANGED <<known, sess, ref, stream, lingering, owed, plant, token, badge, recent, revokes>>
        /\ start' = [start EXCEPT ![s] = NoStart] /\ faults' \in 0 .. MaxFaults
    BY <1>2, StreamTypes DEF PlantFails, Fault, Inv, TypeOK
  <2>2. /\ start' \in [Starters -> [pc : {"idle", "plant", "connect"}, ws : Streams \union {0}]]
        /\ \A t \in Starters : start'[t].pc = "connect" =>
              t # s /\ start'[t] = start[t] /\ start[t].pc = "connect"
    <3>1. start' = [start EXCEPT ![s] = NoStart]
      BY <2>1
    <3> QED BY <3>1, StartOver
  <2>3. TypeOK'
    BY <2>1, <2>2 DEF Inv, TypeOK, known
  <2>4. StartsInv'
    BY <2>1, <2>2 DEF Inv, StartsInv
  <2>5. StopsInv' /\ TriesInv' /\ BadgeHonest'
    BY <2>1 DEF Inv, StopsInv, TriesInv, BadgeHonest, is_connected
  <2> QED BY <2>3, <2>4, <2>5 DEF Inv
<1>3. CASE ConnectDone(s)
  <2> DEFINE w == start[s].ws
  <2>1. /\ UNCHANGED <<known, sess, lingering, owed, plant, badge, recent, faults, revokes>>
        /\ start' = [start EXCEPT ![s] = NoStart] /\ start[s].pc = "connect"
        /\ token' = "good" /\ ref' = w /\ stream' = [stream EXCEPT ![w].st = "up"]
    BY <1>3 DEF ConnectDone
  <2>2. w \in Streams /\ stream[w] = [Gone EXCEPT !.st = "new"] /\ stream[w].tries < MaxTries
    BY <2>1 DEF Inv, StartsInv, TriesInv
  <2>3. \A t \in Starters : start[t].pc = "connect" /\ t # s => start[t].ws # w
    BY <2>1 DEF Inv, StartsInv
  <2> HIDE DEF w
  <2>4. /\ stream' \in [Streams -> Stream]
        /\ \A v \in Streams : v # w => stream'[v] = stream[v]
        /\ stream'[w].st = "up" /\ stream'[w].tries = stream[w].tries
    <3>1. stream \in [Streams -> Stream] /\ stream[w] \in Stream
      BY <2>2 DEF Inv, TypeOK
    <3>2. stream'[w] = [stream[w] EXCEPT !.st = "up"]
      BY <2>1, <2>2, <3>1
    <3>3. stream'[w] \in Stream /\ stream'[w].st = "up" /\ stream'[w].tries = stream[w].tries
      BY <3>1, <3>2, StreamSet
    <3>4. stream' = [stream EXCEPT ![w] = stream'[w]]
      BY <2>1, <2>2, <3>1
    <3> QED BY <2>2, <3>1, <3>3, <3>4
  <2>5. TypeOK'
    <3>1. start' \in [Starters -> [pc : {"idle", "plant", "connect"}, ws : Streams \union {0}]]
      BY <2>1, StartOver
    <3> QED BY <2>1, <2>2, <2>4, <3>1 DEF Inv, TypeOK, known
  <2>6. StartsInv'
    <3>1. \A t \in Starters : start'[t].pc = "connect" =>
              t # s /\ start'[t] = start[t] /\ start[t].pc = "connect"
      BY <2>1, StartOver
    <3> QED BY <2>1, <2>3, <2>4, <3>1 DEF Inv, StartsInv
  <2>7. StopsInv' /\ TriesInv' /\ BadgeHonest'
    BY <2>1, <2>2, <2>4 DEF Inv, StopsInv, TriesInv, BadgeHonest, is_connected
  <2> QED BY <2>5, <2>6, <2>7 DEF Inv
<1>4. CASE ConnectFails(s)
  <2> DEFINE w == start[s].ws
  <2>1. /\ UNCHANGED <<known, sess, ref, lingering, owed, plant, token, badge, recent, revokes>>
        /\ start' = [start EXCEPT ![s] = NoStart] /\ start[s].pc = "connect"
        /\ stream' = [stream EXCEPT ![w] = Gone] /\ faults' \in 0 .. MaxFaults
    BY <1>4, StreamTypes DEF ConnectFails, Fault, Inv, TypeOK
  <2>2. w \in Streams /\ stream[w].st = "new"
    BY <2>1 DEF Inv, StartsInv, Gone
  <2>3. \A t \in Starters : start[t].pc = "connect" /\ t # s => start[t].ws # w
    BY <2>1 DEF Inv, StartsInv
  <2> HIDE DEF w
  <2>4. stream' \in [Streams -> Stream] /\ \A v \in Streams : stream'[v] = IF v = w THEN Gone ELSE stream[v]
    BY <2>1, StreamTypes DEF Inv, TypeOK
  <2>5. TypeOK'
    <3>1. start' \in [Starters -> [pc : {"idle", "plant", "connect"}, ws : Streams \union {0}]]
      BY <2>1, StartOver
    <3> QED BY <2>1, <2>4, <3>1 DEF Inv, TypeOK, known
  <2>6. StartsInv'
    <3>1. \A t \in Starters : start'[t].pc = "connect" =>
              t # s /\ start'[t] = start[t] /\ start[t].pc = "connect"
      BY <2>1, StartOver
    <3> QED BY <2>1, <2>3, <2>4, <3>1 DEF Inv, StartsInv
  <2>7. StopsInv' /\ TriesInv' /\ BadgeHonest'
    BY <2>1, <2>2, <2>4, StreamTypes DEF Inv, StopsInv, TriesInv, BadgeHonest, is_connected, Gone
  <2> QED BY <2>5, <2>6, <2>7 DEF Inv
<1> QED BY <1>1, <1>2, <1>3, <1>4 DEF Connect

-----------------------------------------------------------------------------
LEMMA InvLinger == ASSUME Inv, NEW w \in Streams, LingerEnds(w) PROVE Inv'
<1>1. /\ UNCHANGED <<known, sess, ref, start, owed, plant, token, recent, faults, revokes>>
      /\ stream' = [stream EXCEPT ![w] = Gone] /\ badge' = "api"
      /\ w \in lingering /\ lingering' = lingering \ {w}
  BY DEF LingerEnds
<1>2. stream' \in [Streams -> Stream] /\ \A v \in Streams : stream'[v] = IF v = w THEN Gone ELSE stream[v]
  BY <1>1, StreamTypes DEF Inv, TypeOK
<1>3. TypeOK'
  BY <1>1, <1>2 DEF Inv, TypeOK, known
<1>4. StartsInv'
  BY <1>1, <1>2 DEF Inv, StartsInv
<1>5. StopsInv' /\ TriesInv' /\ BadgeHonest'
  BY <1>1, <1>2, StreamTypes DEF Inv, StopsInv, TriesInv, BadgeHonest, Gone
<1> QED BY <1>3, <1>4, <1>5 DEF Inv

LEMMA InvListen == ASSUME Inv, NEW w \in Streams, Listen(w) PROVE Inv'
<1>1. CASE inject_realtime_data(w)
  <2>1. TypeOK'
    BY <1>1 DEF inject_realtime_data, Inv, TypeOK, known
  <2>2. StartsInv' /\ StopsInv' /\ TriesInv' /\ BadgeHonest'
    BY <1>1 DEF inject_realtime_data, Inv, StartsInv, StopsInv, TriesInv, BadgeHonest, is_connected
  <2> QED BY <2>1, <2>2 DEF Inv
<1>2. CASE Dropped(w)
  <2> DEFINE next == IF _reconnect_allowed(w) THEN [stream[w] EXCEPT !.st = "down"] ELSE Gone
  <2>1. /\ UNCHANGED <<known, sess, ref, start, lingering, owed, plant, token, recent, revokes>>
        /\ badge' = "api" /\ stream' = [stream EXCEPT ![w] = next] /\ stream[w].st = "up"
        /\ faults' \in 0 .. MaxFaults
    BY <1>2, StreamTypes DEF Dropped, Loop, Fault, is_connected, Inv, TypeOK
  <2>2. next \in Stream /\ next.st # "new" /\ ~next.stop /\ next.tries < MaxTries
    BY StreamTypes DEF Inv, TypeOK, TriesInv, Stream, Gone, _reconnect_allowed
  <2> HIDE DEF next
  <2>3. StartsInv' /\ StopsInv' /\ TriesInv' /\ BadgeHonest'
    <3>1. UNCHANGED <<start, lingering>> /\ stream[w].st # "new" /\ badge' \in {badge, "api"}
      BY <2>1
    <3> QED BY <2>1, <2>2, <3>1, LoopStep
  <2>4. TypeOK'
    BY <2>1, <2>2 DEF Inv, TypeOK, known
  <2> QED BY <2>3, <2>4 DEF Inv
<1> QED BY <1>1, <1>2 DEF Listen

LEMMA InvReconnect == ASSUME Inv, NEW w \in Streams, Reconnect(w) PROVE Inv'
<1>1. stream[w] \in Stream /\ stream[w].st \in {"down", "asleep", "dialling"} /\ ~stream[w].stop
  BY DEF Reconnect, _try_reconnect, Reconnected, ReconnectFails, Inv, TypeOK, StopsInv
<1> DEFINE next == stream'[w]
<1>2. /\ stream' = [stream EXCEPT ![w] = next] /\ next \in Stream
      /\ next.st # "new" /\ ~next.stop /\ next.tries < MaxTries
  <2>1. stream \in [Streams -> Stream] /\ stream[w].tries \in Nat /\ stream[w].tries < MaxTries
    BY DEF Inv, TypeOK, TriesInv, Stream
  <2>2. \/ stream' = [stream EXCEPT ![w] = Gone]
        \/ \E st \in {"asleep", "dialling"} : stream' = [stream EXCEPT ![w] = [stream[w] EXCEPT !.st = st]]
        \/ stream' = [stream EXCEPT ![w] = [stream[w] EXCEPT !.st = "up", !.tries = 0]]
        \/ /\ stream[w].tries + 1 # MaxTries
           /\ stream' = [stream EXCEPT ![w] = [stream[w] EXCEPT !.st = "down", !.tries = stream[w].tries + 1]]
    BY DEF Reconnect, _try_reconnect, Reconnected, ReconnectFails, Loop
  <2>3. stream' = [stream EXCEPT ![w] = next]
    BY <2>1, <2>2
  <2>4. CASE stream' = [stream EXCEPT ![w] = Gone]
    <3>1. next = Gone
      BY <2>1, <2>4
    <3> QED BY <2>3, <3>1, StreamTypes DEF Gone
  <2>5. CASE \E st \in {"asleep", "dialling"} : stream' = [stream EXCEPT ![w] = [stream[w] EXCEPT !.st = st]]
    <3>1. PICK st \in {"asleep", "dialling"} : next = [stream[w] EXCEPT !.st = st]
      BY <2>1, <2>5
    <3> HIDE DEF next
    <3>2. next \in Stream /\ next.st = st /\ next.stop = stream[w].stop /\ next.tries = stream[w].tries
      BY <1>1, <3>1, StreamSet
    <3> QED BY <1>1, <2>1, <2>3, <3>2
  <2>6. CASE stream' = [stream EXCEPT ![w] = [stream[w] EXCEPT !.st = "up", !.tries = 0]]
    <3>1. next = [stream[w] EXCEPT !.st = "up", !.tries = 0]
      BY <2>1, <2>6
    <3> HIDE DEF next
    <3>2. 0 \in 0 .. MaxTries
      BY StreamTypes
    <3>3. next \in Stream
      BY <1>1, <3>1, <3>2 DEF Stream
    <3>4. next.st = "up" /\ next.stop = stream[w].stop
      BY <1>1, <3>1 DEF Stream
    <3>5. next.tries = 0
      BY <1>1, <3>1 DEF Stream
    <3> QED BY <1>1, <2>3, <3>3, <3>4, <3>5, StreamTypes
  <2>7. CASE /\ stream[w].tries + 1 # MaxTries
             /\ stream' = [stream EXCEPT ![w] = [stream[w] EXCEPT !.st = "down", !.tries = stream[w].tries + 1]]
    <3>1. next = [stream[w] EXCEPT !.st = "down", !.tries = stream[w].tries + 1]
      BY <2>1, <2>7
    <3> HIDE DEF next
    <3>2. stream[w].tries + 1 \in 0 .. MaxTries /\ stream[w].tries + 1 < MaxTries
      BY <2>1, <2>7, StreamTypes
    <3>3. next \in Stream
      BY <1>1, <3>1, <3>2 DEF Stream
    <3>4. next.st = "down" /\ next.stop = stream[w].stop
      BY <1>1, <3>1 DEF Stream
    <3>5. next.tries = stream[w].tries + 1
      BY <1>1, <3>1 DEF Stream
    <3> QED BY <1>1, <2>3, <3>2, <3>3, <3>4, <3>5
  <2> QED BY <2>2, <2>4, <2>5, <2>6, <2>7
<1> HIDE DEF next
<1>3. /\ UNCHANGED <<known, sess, ref, start, lingering, owed, plant, recent, revokes>>
      /\ badge' \in {badge, "api"}
  BY DEF Reconnect, _try_reconnect, Reconnected, ReconnectFails, Loop
<1>4. token' \in {"none", "good", "revoked"} /\ faults' \in 0 .. MaxFaults
  BY StreamTypes DEF Reconnect, _try_reconnect, Reconnected, ReconnectFails, Fault, Inv, TypeOK
<1>5. StartsInv' /\ StopsInv' /\ TriesInv' /\ BadgeHonest'
  <2>1. UNCHANGED <<start, lingering>> /\ stream[w].st # "new" /\ ~is_connected(w)
    BY <1>1, <1>3 DEF is_connected
  <2> QED BY <1>2, <1>3, <2>1, LoopStep
<1>6. TypeOK'
  BY <1>2, <1>3, <1>4 DEF Inv, TypeOK, known
<1> QED BY <1>5, <1>6 DEF Inv

(* The poll, the token and the discovery of the battery's id: the badge is *)
(* set only while the tracked stream is connected.                         *)
LEMMA InvOthers ==
    ASSUME Inv, _async_update_data \/ InjectAges \/ _fetch_bms_temperature
                \/ _rediscover_battery_compound_id \/ DiscoveryFails \/ TokenExpires \/ TokenRevoked
    PROVE  Inv'
<1>1. UNCHANGED <<always, sess, ref, stream, start, lingering, owed>>
  BY DEF _async_update_data, InjectAges, _fetch_bms_temperature, _rediscover_battery_compound_id,
         DiscoveryFails, TokenExpires, TokenRevoked, Token, known
<1>2. badge' = badge \/ badge' = "api" \/ (badge' = "ws" /\ _is_ws_alive)
  BY DEF _async_update_data, InjectAges, _fetch_bms_temperature, _rediscover_battery_compound_id,
         DiscoveryFails, TokenExpires, TokenRevoked, Token
<1>3. TypeOK'
  <2>1. bms' \in BOOLEAN /\ plant' \in BOOLEAN /\ recent' \in BOOLEAN
    BY DEF _async_update_data, InjectAges, _fetch_bms_temperature, _rediscover_battery_compound_id,
           DiscoveryFails, TokenExpires, TokenRevoked, Token, known, Inv, TypeOK
  <2>2. token' \in {"none", "good", "revoked"}
    BY DEF _async_update_data, InjectAges, _fetch_bms_temperature, _rediscover_battery_compound_id,
           DiscoveryFails, TokenExpires, TokenRevoked, Token, Inv, TypeOK
  <2>3. faults' \in {faults, faults + 1} /\ (faults' # faults => faults < MaxFaults)
        /\ revokes' \in {revokes, revokes + 1} /\ (revokes' # revokes => revokes < MaxRevokes)
    BY DEF _async_update_data, InjectAges, _fetch_bms_temperature,
           _rediscover_battery_compound_id, DiscoveryFails, TokenExpires, TokenRevoked, Token, Fault
  <2>4. faults' \in 0 .. MaxFaults /\ revokes' \in 0 .. MaxRevokes
    BY <2>3, StreamTypes DEF Inv, TypeOK
  <2> QED BY <1>1, <1>2, <2>1, <2>2, <2>4 DEF Inv, TypeOK
<1>4. StartsInv' /\ StopsInv' /\ TriesInv'
  BY <1>1 DEF Inv, StartsInv, StopsInv, TriesInv
<1>5. BadgeHonest'
  BY <1>1, <1>2 DEF Inv, TypeOK, BadgeHonest, is_connected, _is_ws_alive
<1> QED BY <1>3, <1>4, <1>5 DEF Inv

LEMMA InvStutter == ASSUME Inv, UNCHANGED vars PROVE Inv'
  BY DEF vars, Inv, TypeOK, StartsInv, StopsInv, TriesInv, BadgeHonest, is_connected

(* Every step keeps it.                                                    *)
THEOREM InvInductive == Inv /\ [Next]_vars => Inv'
  BY InvSessions, InvOwedStop, InvMaybeStart, InvConnect, InvLinger, InvListen, InvReconnect,
     InvOthers, InvStutter DEF Next

(* It holds in every reachable state.                                      *)
THEOREM Invariant == Spec => []Inv
  BY InvInit, InvInductive, PTL DEF Spec

-----------------------------------------------------------------------------
(* The data source says "ws" only while some stream is connected.          *)
THEOREM BadgeIsHonest == Spec => []BadgeHonest
<1>1. Inv => BadgeHonest
  BY DEF Inv
<1> QED BY <1>1, Invariant, PTL

(* A stream changes its state alone, and comes up from a start or a        *)
(* reconnect only, neither of which has been told to stop.                 *)
LEMMA OneStreamChanges ==
    ASSUME Inv, NEW w \in Streams, NEW r, stream' = [stream EXCEPT ![w] = r],
           r.st = "up" => \/ ~stream[w].stop /\ ~r.stop
                          \/ stream[w].st = "up" /\ r.stop
    PROVE  StaysDown
<1> SUFFICES ASSUME NEW v \in Streams, stream[v].stop \/ stream'[v].stop, stream'[v].st = "up"
             PROVE  stream[v].st = "up" /\ stream'[v].stop
  BY DEF StaysDown, is_connected
<1>1. CASE v = w
  BY <1>1 DEF Inv, TypeOK
<1>2. CASE v # w
  BY <1>2 DEF Inv, TypeOK, StopsInv
<1> QED BY <1>1, <1>2

LEMMA StoppedStaysDownStep == ASSUME Inv, [Next]_vars PROVE StaysDown
<1>1. CASE UNCHANGED stream
  BY <1>1 DEF Inv, StopsInv, StaysDown, is_connected
<1>2. CASE _stop_realtime_ws
  <2>1. CASE ref = 0
    BY <1>1, <1>2, <2>1 DEF _stop_realtime_ws
  <2>2. CASE ref # 0 /\ is_connected(ref)
    <3> DEFINE r == [stream[ref] EXCEPT !.stop = TRUE]
    <3>1. ref \in Streams /\ stream' = [stream EXCEPT ![ref] = r]
      BY <1>2, <2>2 DEF _stop_realtime_ws, Inv, TypeOK
    <3>2. stream[ref].st = "up" /\ r.stop
      BY <2>2, <3>1 DEF Inv, TypeOK, Stream, is_connected
    <3> HIDE DEF r
    <3> QED BY <3>1, <3>2, OneStreamChanges
  <2>3. CASE ref # 0 /\ ~is_connected(ref)
    <3> DEFINE r == IF is_active(ref) THEN Gone ELSE stream[ref]
    <3>1. ref \in Streams /\ stream' = [stream EXCEPT ![ref] = r]
      BY <1>2, <2>3 DEF _stop_realtime_ws, Inv, TypeOK
    <3>2. r.st # "up"
      BY <2>3 DEF Gone, is_connected
    <3> HIDE DEF r
    <3> QED BY <3>1, <3>2, OneStreamChanges
  <2> QED BY <2>1, <2>2, <2>3
<1>3. ASSUME NEW s \in Starters, Connecting(s) PROVE StaysDown
  <2>1. stream' = [stream EXCEPT ![NextStream] = [Gone EXCEPT !.st = "new"]] /\ NextStream \in Streams
    BY <1>3, NextStreamFree DEF Connecting
  <2> QED BY <2>1, OneStreamChanges DEF Gone
<1>4. ASSUME NEW s \in Starters, _maybe_start_realtime_ws(s) \/ Connect(s) PROVE StaysDown
  <2>1. CASE ConnectDone(s)
    <3> DEFINE r == [stream[start[s].ws] EXCEPT !.st = "up"]
    <3>1. start[s].ws \in Streams /\ stream[start[s].ws] = [Gone EXCEPT !.st = "new"]
      BY <2>1 DEF ConnectDone, Inv, StartsInv
    <3>2. stream' = [stream EXCEPT ![start[s].ws] = r]
      BY <2>1 DEF ConnectDone
    <3>3. ~stream[start[s].ws].stop /\ ~r.stop
      BY <3>1 DEF Gone
    <3> HIDE DEF r
    <3> QED BY <3>1, <3>2, <3>3, OneStreamChanges
  <2>2. CASE ConnectFails(s)
    <3>1. start[s].ws \in Streams /\ stream' = [stream EXCEPT ![start[s].ws] = Gone]
      BY <2>2 DEF ConnectFails, Inv, StartsInv
    <3> QED BY <3>1, OneStreamChanges DEF Gone
  <2> QED BY <1>1, <1>2, <1>3, <1>4, <2>1, <2>2 DEF _maybe_start_realtime_ws, Connect, PlantFound, PlantFails
<1>5. ASSUME NEW w \in Streams, LingerEnds(w) PROVE StaysDown
  <2>1. stream' = [stream EXCEPT ![w] = Gone]
    BY <1>5 DEF LingerEnds
  <2> QED BY <2>1, OneStreamChanges DEF Gone
<1>6. ASSUME NEW w \in Streams, NEW r, Loop(w, r), r.st # "up" PROVE StaysDown
  BY <1>6, OneStreamChanges DEF Loop
<1>7. ASSUME NEW w \in Streams, Listen(w) \/ Reconnect(w) PROVE StaysDown
  <2>1. CASE Dropped(w)
    <3> DEFINE r == IF _reconnect_allowed(w) THEN [stream[w] EXCEPT !.st = "down"] ELSE Gone
    <3>1. Loop(w, r)
      BY <2>1 DEF Dropped
    <3>2. r.st # "up"
      BY DEF Gone, Inv, TypeOK, Stream
    <3> HIDE DEF r
    <3> QED BY <3>1, <3>2, <1>6
  <2>2. CASE _try_reconnect(w)
    <3> DEFINE r(st) == IF _reconnect_allowed(w) THEN [stream[w] EXCEPT !.st = st] ELSE Gone
    <3>1. \E st \in {"asleep", "dialling"} : Loop(w, r(st))
      BY <2>2 DEF _try_reconnect
    <3>2. \A st \in {"asleep", "dialling"} : r(st).st # "up"
      BY DEF Gone, Inv, TypeOK, Stream
    <3> HIDE DEF r
    <3> QED BY <3>1, <3>2, <1>6
  <2>3. CASE Reconnected(w)
    <3> DEFINE r == [stream[w] EXCEPT !.st = "up", !.tries = 0]
    <3>1. stream' = [stream EXCEPT ![w] = r] /\ ~stream[w].stop
      BY <2>3 DEF Reconnected, Loop, Inv, StopsInv
    <3>2. ~r.stop
      BY <3>1 DEF Inv, TypeOK, Stream
    <3> HIDE DEF r
    <3> QED BY <3>1, <3>2, OneStreamChanges
  <2>4. CASE ReconnectFails(w)
    <3> DEFINE r == IF stream[w].tries + 1 = MaxTries THEN Gone
                    ELSE [stream[w] EXCEPT !.st = "down", !.tries = @ + 1]
    <3>1. Loop(w, r)
      BY <2>4 DEF ReconnectFails
    <3>2. r.st # "up"
      BY DEF Gone, Inv, TypeOK, Stream
    <3> HIDE DEF r
    <3> QED BY <3>1, <3>2, <1>6
  <2> QED BY <1>1, <1>7, <2>1, <2>2, <2>3, <2>4 DEF Listen, Reconnect, inject_realtime_data
<1> QED
  <2>1. CASE OwedStop
    BY <2>1, <1>2 DEF OwedStop
  <2>2. CASE SessionStarts \/ SessionParks \/ _on_session_cancel \/ UNCHANGED vars
    BY <1>1, <2>2 DEF SessionStarts, SessionParks, _on_session_cancel, Session, vars
  <2>3. CASE _async_update_data \/ InjectAges \/ _fetch_bms_temperature
             \/ _rediscover_battery_compound_id \/ DiscoveryFails \/ TokenExpires \/ TokenRevoked
    BY <1>1, <2>3 DEF _async_update_data, InjectAges, _fetch_bms_temperature,
       _rediscover_battery_compound_id, DiscoveryFails, TokenExpires, TokenRevoked, Token
  <2> QED BY <1>4, <1>5, <1>7, <2>1, <2>2, <2>3 DEF Next

(* A stream that was told to stop never comes up again.                    *)
THEOREM StoppedStays == Spec => StoppedStaysDown
<1>1. Inv /\ [Next]_vars => [StaysDown]_vars
  BY StoppedStaysDownStep
<1> QED BY <1>1, Invariant, PTL DEF Spec, StoppedStaysDown

(* The type invariant.                                                     *)
THEOREM TypeCorrect == Spec => []TypeOK
<1>1. Inv => TypeOK
  BY DEF Inv
<1> QED BY <1>1, Invariant, PTL
=============================================================================
