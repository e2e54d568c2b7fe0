----------------------------- MODULE RealtimeWS -----------------------------
(***************************************************************************)
(* The real-time stream of the FoxESS portal: the WebSocket object         *)
(* (foxess/realtime_ws.py), the start and stop the integration wires       *)
(* around it (__init__.py), the portal token it needs (web_session.py) and *)
(* the data source the coordinator reports (coordinator.py).               *)
(* Everything runs on one event loop; a start awaits the plant id and the  *)
(* connection, a stop lingers for one more frame, and each stream has a    *)
(* listen loop of its own that reconnects.                                 *)
(***************************************************************************)
EXTENDS Integers, FiniteSets

CONSTANTS Starters,     \* the calls of _maybe_start_realtime_ws under way together
          MaxStreams,   \* stream objects alive together
          MaxTries,     \* RECONNECT_MAX_ATTEMPTS
          MaxOwed,      \* stops waiting for an override removal together
          MaxFaults,    \* dropped streams and refused connections in a run
          MaxRevokes    \* logins of another client, which revoke the token

Streams == 1 .. MaxStreams

ASSUME StreamAssumption ==
    /\ MaxStreams \in Nat /\ MaxTries \in Nat \ {0} /\ MaxOwed \in Nat
    /\ MaxFaults \in Nat /\ MaxRevokes \in Nat

VARIABLES always,    \* ws_mode is "always"
          bms,       \* the battery's compound id is known
          sess,      \* the sessions: "none", "paced" or, alive but idle, "parked"
          ref,       \* dd.realtime_ws: a stream or 0
          stream,    \* the stream objects
          start,     \* the starts under way
          lingering, \* the streams whose stop awaits a last frame
          owed,      \* stops of ended sessions not yet run
          plant,     \* dd.plant_id is known
          token,     \* the portal token: "none", "good" or "revoked"
          badge,     \* _data_source
          recent,    \* _ws_recently_injected
          faults, revokes
vars == <<always, bms, sess, ref, stream, start, lingering, owed, plant, token,
          badge, recent, faults, revokes>>
known == <<always, bms>>

(* st: "new" while async_connect is awaited; "up" when connected; in       *)
(* _try_reconnect "down" before, "asleep" in and "dialling" after the      *)
(* delay.  stop: _no_reconnect.                                            *)
Stream == [st : {"gone", "new", "up", "down", "asleep", "dialling"},
           stop : BOOLEAN, tries : 0 .. MaxTries]
Gone == [st |-> "gone", stop |-> FALSE, tries |-> 0]
NoStart == [pc |-> "idle", ws |-> 0]

is_connected(w) == stream[w].st = "up"
(* As is_active, but any stream object counts as running.                  *)
IsReferred(w) == TRUE

is_active(w) == stream[w].st \in {"up", "down", "asleep", "dialling"}
_should_start_realtime_ws == always \/ sess = "paced"

(* A stream that is gone may still be referred to: it is not active.       *)
Free(w) == stream[w] = Gone /\ w \notin lingering
NextStream == CHOOSE w \in Streams : Free(w)

Init ==
    /\ always \in BOOLEAN /\ bms = FALSE
    /\ sess = "none" /\ ref = 0
    /\ stream = [w \in Streams |-> Gone]
    /\ start = [s \in Starters |-> NoStart]
    /\ lingering = {} /\ owed = 0
    /\ plant = FALSE /\ token = "none"
    /\ badge = "api" /\ recent = FALSE
    /\ faults = 0 /\ revokes = 0

Fault == faults < MaxFaults /\ faults' = faults + 1

---------------------------------------------------------------------------
(* Sessions.  Ending one leaves its stop to run after the override is      *)
(* removed, if the gate is closed by then (_on_session_cancel).            *)

Session(from, to) == sess \in from /\ sess' = to /\ UNCHANGED <<known, ref, stream, start,
    lingering, plant, token, badge, recent, faults, revokes>>

SessionStarts == UNCHANGED owed /\ (Session({"none"}, "paced") \/ Session({"none"}, "parked"))
SessionParks == UNCHANGED owed /\ (Session({"paced"}, "parked") \/ Session({"parked"}, "paced"))
_on_session_cancel ==
    /\ Session({"paced", "parked"}, "none")
    /\ IF always THEN UNCHANGED owed ELSE owed < MaxOwed /\ owed' = owed + 1

---------------------------------------------------------------------------
(* Start and stop.                                                         *)

(* As _stop_realtime_ws, but the stream is only forgotten, not asked to    *)
(* stop: it lives on in its own loop.                                      *)
StopForgetsStream == ref' = 0 /\ UNCHANGED <<stream, lingering, badge>>

(* The reference goes and reconnecting is off at once.  A connected stream *)
(* lingers; any other is disconnected at once, and its loop with it.       *)
_stop_realtime_ws ==
    /\ ref' = 0
    /\ IF ref = 0 THEN UNCHANGED <<stream, lingering, badge>>
       ELSE IF is_connected(ref)
       THEN /\ stream' = [stream EXCEPT ![ref].stop = TRUE]
            /\ lingering' = lingering \union {ref}
            /\ UNCHANGED badge
       ELSE /\ stream' = [stream EXCEPT ![ref] = IF is_active(ref) THEN Gone ELSE @]
            /\ badge' = "api"
            /\ UNCHANGED lingering

OwedStop ==
    /\ owed > 0 /\ owed' = owed - 1
    /\ _stop_realtime_ws
    /\ UNCHANGED <<known, sess, start, plant, token, recent, faults, revokes>>

(* The last frame came, or 30 seconds passed: async_disconnect.            *)
LingerEnds(w) ==
    /\ w \in lingering /\ lingering' = lingering \ {w}
    /\ stream' = [stream EXCEPT ![w] = Gone]
    /\ badge' = "api"
    /\ UNCHANGED <<known, sess, ref, start, owed, plant, token, recent, faults, revokes>>

(* Up to the first await.  Every tick of a session, its start and, in      *)
(* "always" mode, the watchdog call it, a tick that was cancelled meanwhile *)
(* too; nothing keeps two calls apart.                                     *)
Connecting(s) ==
    /\ \E w \in Streams : Free(w)
    /\ start' = [start EXCEPT ![s] = [pc |-> "connect", ws |-> NextStream]]
    /\ stream' = [stream EXCEPT ![NextStream] = [Gone EXCEPT !.st = "new"]]

_maybe_start_realtime_ws(s) ==
    /\ start[s] = NoStart
    /\ \/ /\ ~_should_start_realtime_ws
          /\ _stop_realtime_ws
          /\ UNCHANGED start
       \/ /\ _should_start_realtime_ws
          /\ ref # 0 => ~is_active(ref)
          /\ IF plant THEN Connecting(s)
             ELSE start' = [start EXCEPT ![s].pc = "plant"] /\ UNCHANGED stream
          /\ UNCHANGED <<ref, lingering, badge>>
    /\ UNCHANGED <<known, sess, owed, plant, token, recent, faults, revokes>>

PlantFound(s) ==
    /\ start[s].pc = "plant"
    /\ plant' = TRUE /\ Connecting(s)
    /\ UNCHANGED <<known, sess, ref, lingering, owed, token, badge, recent, faults, revokes>>

PlantFails(s) ==
    /\ start[s].pc = "plant" /\ Fault
    /\ start' = [start EXCEPT ![s] = NoStart]
    /\ UNCHANGED <<known, sess, ref, stream, lingering, owed, plant, token, badge,
                   recent, revokes>>

(* async_connect: a token is fetched if none is kept, and a kept one is    *)
(* used even when the portal has revoked it.  The stream becomes the       *)
(* tracked one when it is up, whatever is tracked by then.                 *)
ConnectDone(s) ==
    /\ start[s].pc = "connect" /\ token # "revoked" /\ token' = "good"
    /\ stream' = [stream EXCEPT ![start[s].ws].st = "up"]
    /\ ref' = start[s].ws
    /\ start' = [start EXCEPT ![s] = NoStart]
    /\ UNCHANGED <<known, sess, lingering, owed, plant, badge, recent, faults, revokes>>

ConnectFails(s) ==
    /\ start[s].pc = "connect"
    /\ IF token = "revoked" THEN UNCHANGED faults ELSE Fault
    /\ stream' = [stream EXCEPT ![start[s].ws] = Gone]
    /\ start' = [start EXCEPT ![s] = NoStart]
    /\ UNCHANGED <<known, sess, ref, lingering, owed, plant, token, badge, recent, revokes>>

---------------------------------------------------------------------------
(* The listen loop of a stream.                                            *)

(* As _reconnect_allowed, but only the gate is asked.                      *)
ReconnectWhileGateOpen(w) == _should_start_realtime_ws

_reconnect_allowed(w) == ~stream[w].stop /\ _should_start_realtime_ws

(* The loop ends, or goes on to st; either way on_disconnect was called.   *)
Loop(w, next) ==
    /\ stream' = [stream EXCEPT ![w] = next]
    /\ UNCHANGED <<known, sess, ref, start, lingering, owed, plant, recent, revokes>>

(* on_data: a frame is injected.                                           *)
inject_realtime_data(w) ==
    /\ is_connected(w)
    /\ badge' = "ws" /\ recent' = TRUE
    /\ UNCHANGED <<known, sess, ref, stream, start, lingering, owed, plant, token,
                   faults, revokes>>

(* No data for 30 seconds, an error, or a close by the server.             *)
Dropped(w) ==
    /\ is_connected(w) /\ Fault
    /\ badge' = "api"
    /\ Loop(w, IF _reconnect_allowed(w) THEN [stream[w] EXCEPT !.st = "down"] ELSE Gone)
    /\ UNCHANGED token

_try_reconnect(w) ==
    /\ \/ stream[w].st = "down"
          /\ Loop(w, IF _reconnect_allowed(w) THEN [stream[w] EXCEPT !.st = "asleep"] ELSE Gone)
       \/ stream[w].st = "asleep"
          /\ Loop(w, IF _reconnect_allowed(w) THEN [stream[w] EXCEPT !.st = "dialling"] ELSE Gone)
    /\ badge' = "api"
    /\ UNCHANGED <<token, faults>>

Reconnected(w) ==
    /\ stream[w].st = "dialling" /\ token # "revoked" /\ token' = "good"
    /\ Loop(w, [stream[w] EXCEPT !.st = "up", !.tries = 0])
    /\ UNCHANGED <<badge, faults>>

(* A failed attempt drops the token, so the next one logs in again.        *)
ReconnectFails(w) ==
    /\ stream[w].st = "dialling" /\ token' = "none"
    /\ IF token = "revoked" THEN UNCHANGED faults ELSE Fault
    /\ Loop(w, IF stream[w].tries + 1 = MaxTries THEN Gone
               ELSE [stream[w] EXCEPT !.st = "down", !.tries = @ + 1])
    /\ badge' = IF stream[w].tries + 1 = MaxTries THEN "api" ELSE badge

---------------------------------------------------------------------------
(* The coordinator's poll and the portal's token.                          *)

(* As _is_ws_alive, but a stream that is reconnecting counts too.          *)
WsActive == ref # 0 /\ is_active(ref)

_is_ws_alive == ref # 0 /\ is_connected(ref)
_async_update_data ==
    /\ badge' = IF recent /\ _is_ws_alive THEN "ws" ELSE "api"
    /\ UNCHANGED <<known, sess, ref, stream, start, lingering, owed, plant, token,
                   recent, faults, revokes>>
InjectAges ==
    /\ recent /\ recent' = FALSE
    /\ UNCHANGED <<known, sess, ref, stream, start, lingering, owed, plant, token,
                   badge, faults, revokes>>

Token(t) == token' = t /\ UNCHANGED <<known, sess, ref, stream, start, lingering, owed,
                                      plant, badge, recent, faults>>

(* The fetch of the battery temperature logs in again when the portal      *)
(* refuses its token; without the compound id it never gets that far.      *)
_fetch_bms_temperature == bms /\ token # "good" /\ Token("good") /\ UNCHANGED revokes

(* The id is looked for when the integration starts and, while it is not   *)
(* known, by each poll that is not too soon after another's attempt: it    *)
(* takes the plant's id and one message of a stream of its own, which a    *)
(* revoked token does not get.                                             *)
_rediscover_battery_compound_id ==
    /\ ~bms
    /\ plant' = TRUE
    /\ token' = IF token = "none" THEN "good" ELSE token
    /\ bms' = (token # "revoked")
    /\ UNCHANGED <<always, sess, ref, stream, start, lingering, owed, badge, recent, faults,
                   revokes>>

DiscoveryFails ==
    /\ ~bms /\ Fault
    /\ plant' \in {plant, TRUE}
    /\ token' \in {token, IF token = "none" /\ plant' THEN "good" ELSE token}
    /\ UNCHANGED <<always, bms, sess, ref, stream, start, lingering, owed, badge, recent,
                   revokes>>

TokenExpires == token # "none" /\ Token("none") /\ UNCHANGED revokes
TokenRevoked ==
    /\ token = "good" /\ revokes < MaxRevokes /\ revokes' = revokes + 1
    /\ Token("revoked")

---------------------------------------------------------------------------
Connect(s) == PlantFound(s) \/ PlantFails(s) \/ ConnectDone(s) \/ ConnectFails(s)
Listen(w) == inject_realtime_data(w) \/ Dropped(w)
Reconnect(w) == _try_reconnect(w) \/ Reconnected(w) \/ ReconnectFails(w)

Next ==
    \/ SessionStarts \/ SessionParks \/ _on_session_cancel \/ OwedStop
    \/ \E s \in Starters : _maybe_start_realtime_ws(s) \/ Connect(s)
    \/ \E w \in Streams : LingerEnds(w) \/ Listen(w) \/ Reconnect(w)
    \/ _async_update_data \/ InjectAges
    \/ _fetch_bms_temperature \/ _rediscover_battery_compound_id \/ DiscoveryFails
    \/ TokenExpires \/ TokenRevoked

(* A session's ticks and the watchdog come, awaits are answered, delays    *)
(* and lingers end, and the battery temperature is fetched on its cadence. *)
Ticking == always \/ sess # "none"
Fairness ==
    /\ \A s \in Starters : WF_vars(Ticking /\ _maybe_start_realtime_ws(s)) /\ WF_vars(Connect(s))
    /\ \A w \in Streams : WF_vars(LingerEnds(w)) /\ WF_vars(Reconnect(w))
    /\ WF_vars(OwedStop) /\ WF_vars(_fetch_bms_temperature)
    /\ WF_vars(_rediscover_battery_compound_id)

Spec == Init /\ [][Next]_vars
FairSpec == Spec /\ Fairness

---------------------------------------------------------------------------
TypeOK ==
    /\ always \in BOOLEAN /\ bms \in BOOLEAN
    /\ sess \in {"none", "paced", "parked"}
    /\ ref \in Streams \union {0}
    /\ stream \in [Streams -> Stream]
    /\ start \in [Starters -> [pc : {"idle", "plant", "connect"}, ws : Streams \union {0}]]
    /\ lingering \subseteq Streams /\ owed \in 0 .. MaxOwed
    /\ plant \in BOOLEAN /\ token \in {"none", "good", "revoked"}
    /\ badge \in {"api", "ws"} /\ recent \in BOOLEAN
    /\ faults \in 0 .. MaxFaults /\ revokes \in 0 .. MaxRevokes

(* The data source says "ws" only while some stream is connected: every    *)
(* way a stream goes down takes the badge with it (on_disconnect, the end  *)
(* of the stop, the next poll).                                            *)
BadgeHonest == badge = "ws" => \E w \in Streams : is_connected(w)

(* A stream whose stop was requested is up only as long as it stays up,    *)
(* and the request is never forgotten: neither a drop while it lingers,    *)
(* nor a reconnect under way, nor a new start in its place brings it back  *)
(* (request_stop, _reconnect_allowed).                                     *)
StaysDown ==
    \A w \in Streams :
        (stream[w].stop \/ stream'[w].stop) /\ stream'[w].st = "up"
        => is_connected(w) /\ stream'[w].stop
StoppedStaysDown == [][StaysDown]_vars

(* A stream that is tracked when its session parks is closed before long,  *)
(* however it goes up and down meanwhile: its loop ends and its object is  *)
(* gone.  Unless the session is paced again or over; or the tracked stream *)
(* is by then another, which a start that was under way brought up over    *)
(* this one: then nothing asks this one to stop (__init__.py:1152).        *)
ParkedStreamCloses ==
    \A w \in Streams :
        (sess = "parked" /\ ~always /\ ref = w /\ is_active(w))
            ~> (stream[w] = Gone \/ sess # "parked" \/ ref \notin {0, w})

(* A paced session gets its stream, after drops, refusals and a revoked    *)
(* token, if the compound id is known so that the token is renewed.        *)
PacedStreamOpens ==
    sess = "paced" /\ bms ~> _is_ws_alive \/ sess # "paced"

=============================================================================
