----------------------------- MODULE Overrides -----------------------------
(***************************************************************************)
(* What the cloud schedule is for: a set of overrides, each a mode and the *)
(* marks of the day it runs between, on an inverter that is in self-use    *)
(* outside them.  An operation takes one step.  It changes the overrides   *)
(* of one mode, removes another mode's only when it was told to replace    *)
(* conflicting ones, and does nothing while a mode is there that the       *)
(* integration does not manage.  A session holds at most one plan, the     *)
(* overrides as it last merged them, and may put it back in force as it    *)
(* is: that is the one step that may bring back or drop what others did    *)
(* since.                                                                  *)
(***************************************************************************)
EXTENDS Naturals

CONSTANTS Day,        \* the last mark of the day
          AppOverrides \* the overrides the FoxESS app may set

VARIABLES inForce,    \* the overrides in the inverter's schedule
          plan        \* for each session mode, a set of at most one set of overrides

vars == <<inForce, plan>>

SessionModes == {"ForceCharge", "ForceDischarge"}
OwnModes == SessionModes \union {"Feedin"}
Override == [mode : OwnModes \union {"Backup"}, from : 0 .. Day, to : 0 .. Day]

Safe == \A o \in inForce : o.mode \in OwnModes
Clash(o, p) == o.from < p.to /\ p.from < o.to
Others(m) == {o \in inForce : o.mode # m}

(* Put o in force: nothing of another mode is in its way, or what is goes. *)
PutResult(o, replace) == {p \in Others(o.mode) : ~replace \/ ~Clash(o, p)} \union {o}
PutAllowed(o, replace) == Safe /\ (replace \/ \A p \in Others(o.mode) : ~Clash(o, p))

Init == inForce \in SUBSET AppOverrides /\ plan = [m \in SessionModes |-> {}]

Put(o, replace) ==
    /\ PutAllowed(o, replace)
    /\ inForce' = PutResult(o, replace)
    /\ plan' \in {plan} \union {[plan EXCEPT ![m] = {inForce'}] : m \in SessionModes \intersect {o.mode}}

Plan(o, replace) ==
    /\ o.mode \in SessionModes
    /\ PutAllowed(o, replace)
    /\ plan' = [plan EXCEPT ![o.mode] = {PutResult(o, replace)}]
    /\ UNCHANGED inForce

(* A session puts its plan in force again. *)
Renew(m) ==
    /\ inForce' \in plan[m]
    /\ UNCHANGED plan

(* A session that hands over to self-use plans for what is in force.       *)
HandOver(m) ==
    /\ Safe
    /\ plan' = [plan EXCEPT ![m] = {inForce}]
    /\ UNCHANGED inForce

(* A session moves the end of an override of its mode within its plan.     *)
Moved(S, o, to) == (S \ {o}) \union {[o EXCEPT !.to = to]}
Move(m, to) ==
    /\ \E S \in plan[m] : \E o \in {p \in S : p.mode = m} :
          plan' = [plan EXCEPT ![m] = {Moved(S, o, to)}]
    /\ UNCHANGED inForce

Remove(m) ==
    /\ Safe
    /\ inForce' = Others(m)
    /\ plan' \in {plan, [n \in SessionModes |-> IF n = m THEN {} ELSE plan[n]]}

Clear == Safe /\ inForce' = {} /\ UNCHANGED plan

Forget(ms) == /\ plan' = [m \in SessionModes |-> IF m \in ms THEN {} ELSE plan[m]]
              /\ UNCHANGED inForce

(* The FoxESS app sets an override, or deletes one. *)
App == /\ \/ \E o \in AppOverrides : inForce' = inForce \union {o}
          \/ \E o \in inForce : inForce' = inForce \ {o}
       /\ UNCHANGED plan

Next ==
    \/ \E o \in Override, replace \in BOOLEAN : Put(o, replace) \/ Plan(o, replace)
    \/ \E m \in SessionModes : Renew(m) \/ HandOver(m) \/ \E to \in 0 .. Day : Move(m, to)
    \/ \E m \in OwnModes : Remove(m)
    \/ Clear
    \/ \E ms \in SUBSET SessionModes : Forget(ms)
    \/ App

Spec == Init /\ [][Next]_vars
=============================================================================
