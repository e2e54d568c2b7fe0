----------------------------- MODULE EntityMode -----------------------------
(***************************************************************************)
(* Entity mode: the integration drives the inverter through Home Assistant *)
(* entities of another integration, a work mode, a Min SoC and, if it is   *)
(* configured, the Max Grid Export Limit a discharge is paced with         *)
(* (foxess_adapter.py, smart_battery/adapter.py, the listeners and         *)
(* services of both sessions).  A mode is several service calls that are   *)
(* not waited for; an export limit is one that is.  What is sent to one    *)
(* entity arrives in the order it was sent, if it arrives.                 *)
(*                                                                         *)
(* The power entity is left out: its call stands between the two of a mode *)
(* and fails like the second.                                              *)
(***************************************************************************)
EXTENDS Integers, Sequences

CONSTANTS HwMax,        \* grid_export_limit_w
          Limits,       \* the export limits pacing may ask for
          MaxSessions,  \* sessions started in a run
          MaxCalls,     \* service calls on their way
          MaxFaults     \* service calls refused or lost in a run

ASSUME EntityAssumption ==
    /\ HwMax \in Limits /\ Limits \subseteq Nat \ {0}
    /\ MaxSessions \in Nat /\ MaxCalls \in Nat /\ MaxFaults \in Nat

Kinds == {"ForceCharge", "ForceDischarge"}
Modes == Kinds \union {"SelfUse", "Feedin"}
NoLimit == 0

VARIABLES actuator,  \* CONF_EXPORT_LIMIT_ENTITY is set
          inKw,      \* and its unit is kW
          top,       \* and its maximum, in watts
          entity,    \* the inverter, as the entities have it
          calls,     \* service calls on their way, in the order sent
          session,   \* smart_charge_state and smart_discharge_state
          nextId, faults,
          excuse     \* what happened that may leave a mode without its session
vars == <<actuator, inKw, top, entity, calls, session, nextId, faults, excuse>>
config == <<actuator, inKw, top>>

(* off: a tick of the session took its mode off and none set it since.     *)
None == [id |-> 0, started |-> FALSE, off |-> FALSE, written |-> NoLimit]
Excuses == {"fault",       \* a call was refused or lost
            "unit",        \* the hook's watts were out of the entity's range
            "replaced",    \* a deferred session took the place of a started one
            "raced",       \* a session ended while it was being started
            "overridden",  \* another service changed the mode of a session
            "resumed"}     \* a discharge went on with the actuator's pacing alone

(* The adapter converts its watts to the entity's unit and keeps them in    *)
(* its range.                                                              *)
_convert_and_clamp_power_for_write(v) == IF v > top THEN top ELSE v
Configured == _convert_and_clamp_power_for_write(HwMax)

Init ==
    /\ actuator \in BOOLEAN /\ inKw \in BOOLEAN /\ (inKw => actuator)
    /\ top \in Limits /\ (~actuator => top = HwMax)
    /\ entity = [mode |-> "SelfUse", floor |-> "reserve", limit |-> Configured]
    /\ calls = <<>>
    /\ session = [k \in Kinds |-> None]
    /\ nextId = 1 /\ faults = 0 /\ excuse = {}

---------------------------------------------------------------------------
(* Service calls.                                                          *)

Call(e, v, by, id) == [entity |-> e, value |-> v, asked |-> v, by |-> by, id |-> id]
Send(s) == Len(calls) + Len(s) <= MaxCalls /\ calls' = calls \o s

(* As Writes, but a charge has a floor of its own too.                     *)
WritesFloorOfSession(mode) ==
    <<Call("mode", mode, "apply", 0),
      Call("floor", IF mode \in Kinds THEN "session" ELSE "reserve", "apply", 0)>>

(* The Min SoC doubles as the floor of a discharge: any other mode puts    *)
(* the reserve back.  The first n calls are made; a refused one raises.    *)
Writes(mode) ==
    <<Call("mode", mode, "apply", 0),
      Call("floor", IF mode = "ForceDischarge" THEN "session" ELSE "reserve", "apply", 0)>>
apply_mode(mode, n) == SubSeq(Writes(mode), 1, n)
Raises(n) == n < 2

set_export_limit_w(v, by, id) ==
    IF actuator
    THEN <<[Call("limit", _convert_and_clamp_power_for_write(v), by, id) EXCEPT !.asked = v]>>
    ELSE <<>>

(* The cancel hook's own write: watts, whatever the unit and the range.    *)
_write_export_limit == IF actuator THEN <<Call("limit", HwMax, "hook", 0)>> ELSE <<>>
OutOfRange(c) == c.by = "hook" /\ (inKw \/ c.value > top)

(* The hook runs for every cancel, of a session that is there or not; the  *)
(* two of a service that cancels both write the same and are one here.     *)
Hooks(kinds) == IF kinds = {} THEN <<>> ELSE _write_export_limit

Fault(n) == IF Raises(n) THEN faults < MaxFaults /\ faults' = faults + 1
            ELSE UNCHANGED faults
FaultIf(n) == IF Raises(n) THEN {"fault"} ELSE {}

(* A wait for a limit that is over goes on with the session it began with. *)
Lands(i) ==
    LET c == calls[i]
        mine == c.id # 0 /\ session["ForceDischarge"].id = c.id
    IN  /\ ~OutOfRange(c)
        /\ entity' = [entity EXCEPT ![c.entity] = c.value]
        /\ session' =
             IF mine THEN [session EXCEPT !["ForceDischarge"].written = c.asked,
                                          !["ForceDischarge"].started = @ \/ c.by = "begin"]
             ELSE session
        /\ UNCHANGED <<faults, excuse>>

(* Lost, or out of range.  Only a limit's failure is seen by the sender,   *)
(* who leaves things as they are.                                          *)
Lost(i) ==
    /\ IF OutOfRange(calls[i])
       THEN UNCHANGED faults /\ excuse' = excuse \union {"unit"}
       ELSE /\ faults < MaxFaults /\ faults' = faults + 1
            /\ excuse' = excuse \union {"fault"}
    /\ UNCHANGED <<entity, session>>

Arrives ==
    \E i \in 1 .. Len(calls) :
        /\ \A j \in 1 .. i - 1 : calls[j].entity # calls[i].entity
        /\ calls' = SubSeq(calls, 1, i - 1) \o SubSeq(calls, i + 1, Len(calls))
        /\ Lands(i) \/ Lost(i)
        /\ UNCHANGED <<config, nextId>>

---------------------------------------------------------------------------
(* The services.                                                           *)

Running(k) == session[k].started /\ ~session[k].off
Beginning(k) == \E i \in 1 .. Len(calls) : calls[i].by = "begin" /\ calls[i].id = session[k].id
Left(kinds) == (IF \E k \in kinds : Running(k) THEN {"replaced"} ELSE {})
               \union (IF \E k \in kinds : Beginning(k) THEN {"raced"} ELSE {})

(* As Replaced, but only the session of that kind is cancelled.            *)
ReplacedOwnKind(k, s) == [session EXCEPT ![k] = s]

Replaced(k, s) == [j \in Kinds |-> IF j = k THEN s ELSE None]

(* Both sessions are cancelled first.  A deferred start touches nothing;   *)
(* one that is refused leaves no session.                                  *)
Start(k, deferred, n) ==
    /\ nextId <= MaxSessions /\ nextId' = nextId + 1
    /\ deferred => n = 2
    /\ Fault(n)
    /\ session' = Replaced(k, IF Raises(n) THEN None
                              ELSE [None EXCEPT !.id = nextId, !.started = ~deferred])
    /\ Send(Hooks({k} \union {j \in Kinds : session[j] # None})
            \o (IF deferred THEN <<>> ELSE apply_mode(k, n))
            \o (IF k = "ForceDischarge" /\ ~deferred /\ ~Raises(n)
                THEN set_export_limit_w(HwMax, "seed", nextId) ELSE <<>>))
    /\ excuse' = excuse \union FaultIf(n) \union (IF deferred THEN Left(Kinds) ELSE {})
    /\ UNCHANGED <<config, entity>>

_do_smart_charge == \E deferred \in BOOLEAN, n \in 0 .. 2 : Start("ForceCharge", deferred, n)
_do_smart_discharge == \E deferred \in BOOLEAN, n \in 0 .. 2 : Start("ForceDischarge", deferred, n)

(* The filter chooses the sessions; the mode is self-use all the same.     *)
handle_clear_overrides ==
    \E kinds \in (SUBSET Kinds) \ {{}}, n \in 0 .. 2 :
        /\ Fault(n)
        /\ session' = [k \in Kinds |-> IF k \in kinds THEN None ELSE session[k]]
        /\ Send(Hooks(kinds) \o apply_mode("SelfUse", n))
        /\ excuse' = excuse \union FaultIf(n)
             \union (IF \E k \in Kinds \ kinds : Running(k) \/ Beginning(k)
                     THEN {"overridden"} ELSE {})
        /\ UNCHANGED <<config, entity, nextId>>

handle_feedin ==
    \E n \in 0 .. 2 :
        /\ Fault(n)
        /\ Send(apply_mode("Feedin", n))
        /\ excuse' = excuse \union FaultIf(n)
             \union (IF \E k \in Kinds : Running(k) \/ Beginning(k)
                     THEN {"overridden"} ELSE {})
        /\ UNCHANGED <<config, entity, session, nextId>>

---------------------------------------------------------------------------
(* The listeners.                                                          *)

(* With an actuator the discharge starts when its limit is written.        *)
_start_deferred(k, n) ==
    /\ session[k] # None /\ ~session[k].started
    /\ Fault(n) /\ excuse' = excuse \union FaultIf(n)
    /\ IF k = "ForceDischarge" /\ actuator /\ ~Raises(n)
       THEN /\ Send(apply_mode(k, n) \o set_export_limit_w(HwMax, "begin", session[k].id))
            /\ session' = [session EXCEPT ![k].off = FALSE]
       ELSE /\ Send(apply_mode(k, n))
            /\ session' = IF Raises(n) THEN session
                          ELSE [session EXCEPT ![k].started = TRUE, ![k].off = FALSE]
    /\ UNCHANGED <<config, entity, nextId>>

(* The pacing of a tick: the mode again with its power, or the limit.      *)
Pace(k, n, s) ==
    /\ Fault(n) /\ excuse' = excuse \union s \union FaultIf(n)
    /\ IF k = "ForceDischarge" /\ actuator
       THEN \E v \in Limits : /\ n = 2 /\ (v # session[k].written \/ s # {})
                              /\ Send(set_export_limit_w(v, "pace", session[k].id))
       ELSE Send(apply_mode(k, n))
    /\ UNCHANGED <<config, entity, nextId>>

_adjust_power(k, n) == Running(k) /\ Pace(k, n, {}) /\ UNCHANGED session

(* As Removed, but with an actuator only its limit is taken back.          *)
RemovedByActuator(k, n) ==
    IF actuator /\ k = "ForceDischarge" THEN set_export_limit_w(HwMax, "restore", 0)
    ELSE apply_mode("SelfUse", n)

(* As Removed, but the limit is left to the end of the session.            *)
RemovedModeOnly(k, n) == apply_mode("SelfUse", n)

(* The override goes and the limit is restored; the session keeps what it  *)
(* wrote last.                                                             *)
Removed(k, n) ==
    apply_mode("SelfUse", n)
    \o (IF k = "ForceDischarge" THEN set_export_limit_w(HwMax, "restore", 0) ELSE <<>>)

(* A discharge at its floor takes its mode off, begun or not.              *)
MayRemove(k) == session[k].started \/ (k = "ForceDischarge" /\ session[k] # None)

(* A session goes on without its mode: a charge at its target, a discharge *)
(* that is suspended or has its floor seen once; and, without an actuator, *)
(* one with its feed-in nearly used up, which hands over to self-use.      *)
Rest(k, n) ==
    /\ MayRemove(k)
    /\ Fault(n) /\ excuse' = excuse \union FaultIf(n)
    /\ session' = [session EXCEPT ![k].off = TRUE]
    /\ Send(Removed(k, n))
    /\ UNCHANGED <<config, entity, nextId>>

(* The tick that goes on from there paces at once; with an actuator it     *)
(* writes the limit only.                                                  *)
Resume(k, n) ==
    /\ session[k].started /\ session[k].off
    /\ session' = [session EXCEPT ![k].off = FALSE]
    /\ Pace(k, n, IF k = "ForceDischarge" /\ actuator THEN {"resumed"} ELSE {})

(* A charge that is ahead of its schedule is put off again.                *)
Redefer(n) ==
    /\ session["ForceCharge"].started
    /\ Fault(n) /\ excuse' = excuse \union FaultIf(n)
    /\ session' = [session EXCEPT !["ForceCharge"].started = FALSE, !["ForceCharge"].off = FALSE]
    /\ Send(Removed("ForceCharge", n))
    /\ UNCHANGED <<config, entity, nextId>>

(* The window, the target, the floor, the feed-in limit or the breaker.    *)
EndSession(k, n) ==
    /\ session[k] # None
    /\ Fault(n)
    /\ session' = [session EXCEPT ![k] = None]
    /\ \/ MayRemove(k) /\ Send(_write_export_limit \o Removed(k, n))
       \/ ~session[k].started /\ n = 2 /\ Send(_write_export_limit)
    /\ excuse' = excuse \union FaultIf(n)
         \union (IF ~session[k].started /\ Beginning(k) THEN {"raced"} ELSE {})
    /\ UNCHANGED <<config, entity, nextId>>

Next ==
    \/ Arrives
    \/ _do_smart_charge \/ _do_smart_discharge
    \/ handle_clear_overrides \/ handle_feedin
    \/ \E k \in Kinds, n \in 0 .. 2 :
         \/ _start_deferred(k, n) \/ _adjust_power(k, n) \/ EndSession(k, n)
         \/ Rest(k, n) \/ Resume(k, n)
    \/ \E n \in 0 .. 2 : Redefer(n)

Spec == Init /\ [][Next]_vars

---------------------------------------------------------------------------
(* Properties, of the moments when no call is on its way.                  *)

Settled == calls = <<>>

TypeOK ==
    /\ entity \in [mode : Modes, floor : {"reserve", "session"}, limit : Limits]
    /\ session \in [Kinds -> [id : 0 .. MaxSessions, started : BOOLEAN,
                              off : BOOLEAN, written : Limits \union {NoLimit}]]
    /\ nextId \in 1 .. MaxSessions + 1 /\ faults \in 0 .. MaxFaults
    /\ excuse \subseteq Excuses /\ Len(calls) <= MaxCalls

(* A forced mode has a started session behind it, unless a call went       *)
(* wrong, a deferred session replaced the one that forced it, or that one  *)
(* ended while it was being started: in no other way does an override      *)
(* outlive its session (C-025).                                            *)
ForcedMeansSession ==
    Settled => \A k \in Kinds : entity.mode = k =>
        Running(k) \/ excuse \intersect {"fault", "replaced", "raced", "overridden"} # {}

(* The persistent Min SoC is the session's only while the inverter is      *)
(* discharging: a self-use mode never inherits the session's low or high   *)
(* floor, in whatever order sessions of both kinds follow each other.      *)
FloorFollowsMode ==
    Settled /\ "fault" \notin excuse =>
        (entity.floor = "session" <=> entity.mode = "ForceDischarge")

(* With no discharge under way the export limit is the configured one, as  *)
(* far as the entity goes,                                                 *)
(* unless a call was lost or the entity refused the hook's watts, which are *)
(* neither converted nor clamped; a paced write in flight at the end does not outlast the restore. *)
LimitRestored ==
    Settled /\ ~Running("ForceDischarge") /\ excuse \intersect {"fault", "unit"} = {}
        => entity.limit = Configured

(* A session has its mode on the inverter whenever it has started and its  *)
(* last tick did not take the mode off itself, unless a call was lost,     *)
(* another service took it, or only the actuator's pacing went on after    *)
(* the mode was off: once a tick paces again the mode is back, however     *)
(* starts, rests, resumptions and replacements of both kinds follow each   *)
(* other.                                                                  *)
SessionInForce ==
    Settled /\ excuse \intersect {"fault", "overridden", "resumed"} = {}
        => \A k \in Kinds : Running(k) => entity.mode = k
=============================================================================
