-------------------------- MODULE EntityMode_proofs --------------------------
(***************************************************************************)
(* The session, the mode, the floor and the export limit of the entities   *)
(* agree once no call is on its way, for every value of the constants.     *)
(* The invariants speak of the value an entity will have when the calls    *)
(* that are on their way have arrived.                                     *)
(***************************************************************************)
EXTENDS EntityMode, SequenceTheorems, TLAPS

Entities == {"mode", "floor", "limit"}
Floors == {"reserve", "session"}
Values == Modes \union Floors \union Limits
Senders == {"apply", "hook", "seed", "begin", "pace", "restore"}
CallType == [entity : Entities, value : Values, asked : Values, by : Senders, id : Nat]
SessionType == [id : 0 .. MaxSessions, started : BOOLEAN, off : BOOLEAN,
                written : Limits \union {NoLimit}]

(* The last call of q to an entity, and what comes of the calls on their   *)
(* way.                                                                    *)
NoCall(q, e) == \A i \in 1 .. Len(q) : q[i].entity # e
LastCall(q, e, v) ==
    \E i \in 1 .. Len(q) : /\ q[i].entity = e /\ q[i].value = v
                           /\ \A j \in i + 1 .. Len(q) : q[j].entity # e
Final(e, v) == LastCall(calls, e, v) \/ (NoCall(calls, e) /\ v = entity[e])

-----------------------------------------------------------------------------
(* Queues.                                                                 *)
LEMMA ConcatLast ==
    ASSUME NEW C, NEW q \in Seq(C), NEW s \in Seq(C), NEW e, NEW v, LastCall(q \o s, e, v)
    PROVE  LastCall(s, e, v) \/ (NoCall(s, e) /\ LastCall(q, e, v))
<1>1. PICK i \in 1 .. Len(q \o s) :
         /\ (q \o s)[i].entity = e /\ (q \o s)[i].value = v
         /\ \A j \in i + 1 .. Len(q \o s) : (q \o s)[j].entity # e
  BY DEF LastCall
<1>2. Len(q) \in Nat /\ Len(s) \in Nat /\ Len(q \o s) = Len(q) + Len(s)
  OBVIOUS
<1>3. \A j \in 1 .. Len(s) : (q \o s)[Len(q) + j] = s[j]
  OBVIOUS
<1>4. \A j \in 1 .. Len(q) : (q \o s)[j] = q[j]
  OBVIOUS
<1>5. CASE i <= Len(q)
  <2>1. NoCall(s, e)
    <3> SUFFICES ASSUME NEW j \in 1 .. Len(s) PROVE s[j].entity # e
      BY DEF NoCall
    <3>1. Len(q) + j \in i + 1 .. Len(q \o s)
      BY <1>2, <1>5
    <3> QED BY <1>1, <1>3, <3>1
  <2>2. i \in 1 .. Len(q) /\ q[i].entity = e /\ q[i].value = v
    BY <1>1, <1>2, <1>4, <1>5
  <2>3. \A j \in i + 1 .. Len(q) : q[j].entity # e
    BY <1>1, <1>2, <1>4
  <2> QED BY <2>1, <2>2, <2>3 DEF LastCall
<1>6. CASE i > Len(q)
  <2> DEFINE k == i - Len(q)
  <2>1. k \in 1 .. Len(s) /\ i = Len(q) + k
    BY <1>2, <1>6
  <2>2. s[k].entity = e /\ s[k].value = v
    BY <1>1, <1>3, <2>1
  <2>3. ASSUME NEW j \in k + 1 .. Len(s) PROVE s[j].entity # e
    <3>1. Len(q) + j \in i + 1 .. Len(q \o s) /\ j \in 1 .. Len(s)
      BY <1>2, <2>1
    <3> QED BY <1>1, <1>3, <3>1
  <2> QED BY <2>1, <2>2, <2>3 DEF LastCall
<1> QED BY <1>2, <1>5, <1>6

LEMMA ConcatNone ==
    ASSUME NEW C, NEW q \in Seq(C), NEW s \in Seq(C), NEW e
    PROVE  NoCall(q \o s, e) <=> NoCall(q, e) /\ NoCall(s, e)
<1>1. Len(q) \in Nat /\ Len(s) \in Nat /\ Len(q \o s) = Len(q) + Len(s)
  OBVIOUS
<1>2. \A j \in 1 .. Len(s) : (q \o s)[Len(q) + j] = s[j] /\ Len(q) + j \in 1 .. Len(q \o s)
  BY <1>1
<1>3. \A j \in 1 .. Len(q) : (q \o s)[j] = q[j] /\ j \in 1 .. Len(q \o s)
  BY <1>1
<1>4. ASSUME NoCall(q \o s, e) PROVE NoCall(q, e) /\ NoCall(s, e)
  BY <1>2, <1>3, <1>4 DEF NoCall
<1>5. ASSUME NoCall(q, e), NoCall(s, e), NEW i \in 1 .. Len(q \o s) PROVE (q \o s)[i].entity # e
  <2>1. CASE i <= Len(q)
    BY <1>1, <1>3, <1>5, <2>1 DEF NoCall
  <2>2. CASE i > Len(q)
    <3>1. i - Len(q) \in 1 .. Len(s) /\ i = Len(q) + (i - Len(q))
      BY <1>1, <2>2
    <3> QED BY <1>2, <1>5, <3>1 DEF NoCall
  <2> QED BY <1>1, <2>1, <2>2
<1>6. ASSUME NoCall(q, e), NoCall(s, e) PROVE NoCall(q \o s, e)
  BY <1>5, <1>6 DEF NoCall
<1> QED BY <1>4, <1>6

(* The calls that are left when call i is gone.                            *)
Without(q, i) == SubSeq(q, 1, i - 1) \o SubSeq(q, i + 1, Len(q))

LEMMA WithoutType ==
    ASSUME NEW C, NEW q \in Seq(C), NEW i \in 1 .. Len(q)
    PROVE  /\ Without(q, i) \in Seq(C) /\ Len(Without(q, i)) = Len(q) - 1
           /\ \A j \in 1 .. i - 1 : Without(q, i)[j] = q[j]
           /\ \A j \in i .. Len(q) - 1 : Without(q, i)[j] = q[j + 1]
<1> DEFINE a == SubSeq(q, 1, i - 1)
           b == SubSeq(q, i + 1, Len(q))
<1>1. Len(q) \in Nat /\ i \in Nat
  OBVIOUS
<1>2. a \in Seq(C) /\ Len(a) = i - 1 /\ \A j \in 1 .. i - 1 : a[j] = q[j]
  BY <1>1
<1>3. b \in Seq(C) /\ Len(b) = Len(q) - i /\ \A j \in 1 .. Len(q) - i : b[j] = q[i + j]
  BY <1>1
<1> HIDE DEF a, b
<1>4. a \o b \in Seq(C) /\ Len(a \o b) = Len(q) - 1
  <2>1. a \o b \in Seq(C) /\ Len(a \o b) = Len(a) + Len(b)
    BY <1>2, <1>3, ConcatProperties
  <2> QED BY <1>1, <1>2, <1>3, <2>1
<1>5. \A j \in 1 .. i - 1 : (a \o b)[j] = q[j]
  BY <1>1, <1>2, <1>3
<1>6. ASSUME NEW j \in i .. Len(q) - 1 PROVE (a \o b)[j] = q[j + 1]
  <2>1. j - (i - 1) \in 1 .. Len(q) - i /\ i + (j - (i - 1)) = j + 1
    BY <1>1
  <2>2. (a \o b)[j] = b[j - (i - 1)]
    BY <1>1, <1>2, <1>3, <2>1
  <2> QED BY <1>3, <2>1, <2>2
<1> QED BY <1>4, <1>5, <1>6 DEF Without, a, b

(* The other calls are still there, and no others.                         *)
LEMMA WithoutCalls ==
    ASSUME NEW C, NEW q \in Seq(C), NEW i \in 1 .. Len(q)
    PROVE  /\ \A j \in 1 .. Len(Without(q, i)) :
                  \E k \in 1 .. Len(q) : k # i /\ Without(q, i)[j] = q[k]
           /\ \A k \in 1 .. Len(q) :
                  k = i \/ \E j \in 1 .. Len(Without(q, i)) : Without(q, i)[j] = q[k]
<1> DEFINE r == Without(q, i)
<1>1. /\ Len(q) \in Nat /\ i \in Nat /\ Len(r) = Len(q) - 1
      /\ \A j \in 1 .. i - 1 : r[j] = q[j]
      /\ \A j \in i .. Len(q) - 1 : r[j] = q[j + 1]
  BY WithoutType
<1> HIDE DEF r
<1>2. ASSUME NEW j \in 1 .. Len(r) PROVE \E k \in 1 .. Len(q) : k # i /\ r[j] = q[k]
  <2>1. CASE j < i
    <3>1. j \in 1 .. Len(q) /\ j # i /\ j \in 1 .. i - 1
      BY <1>1, <2>1
    <3> QED BY <1>1, <3>1
  <2>2. CASE j >= i
    <3>1. j + 1 \in 1 .. Len(q) /\ j + 1 # i /\ j \in i .. Len(q) - 1
      BY <1>1, <2>2
    <3> QED BY <1>1, <3>1
  <2> QED BY <1>1, <2>1, <2>2
<1>3. ASSUME NEW k \in 1 .. Len(q), k # i PROVE \E j \in 1 .. Len(r) : r[j] = q[k]
  <2>1. CASE k < i
    <3>1. k \in 1 .. i - 1 /\ k \in 1 .. Len(r)
      BY <1>1, <2>1
    <3> QED BY <1>1, <3>1
  <2>2. CASE k > i
    <3>1. k - 1 \in i .. Len(q) - 1 /\ k - 1 \in 1 .. Len(r) /\ (k - 1) + 1 = k
      BY <1>1, <2>2
    <3>2. r[k - 1] = q[k]
      BY <1>1, <3>1
    <3> QED BY <3>1, <3>2
  <2> QED BY <1>1, <1>3, <2>1, <2>2
<1> QED BY <1>2, <1>3 DEF r

(* Without the first call to its entity, the last to any is what it was,   *)
(* or the entity has no other.                                             *)
LEMMA WithoutLast ==
    ASSUME NEW C, NEW q \in Seq(C), NEW i \in 1 .. Len(q), NEW e, NEW v,
           \A j \in 1 .. i - 1 : q[j].entity # q[i].entity,
           LastCall(Without(q, i), e, v)
    PROVE  LastCall(q, e, v)
<1> DEFINE r == Without(q, i)
<1>1. /\ Len(q) \in Nat /\ i \in Nat /\ Len(r) = Len(q) - 1
      /\ \A j \in 1 .. i - 1 : r[j] = q[j]
      /\ \A j \in i .. Len(q) - 1 : r[j] = q[j + 1]
  BY WithoutType
<1>2. PICK k \in 1 .. Len(r) : /\ r[k].entity = e /\ r[k].value = v
                               /\ \A j \in k + 1 .. Len(r) : r[j].entity # e
  BY DEF LastCall
<1> HIDE DEF r
<1>3. CASE k < i
  <2>1. k \in 1 .. i - 1 /\ k \in 1 .. Len(q) /\ q[k].entity = e /\ q[k].value = v
    BY <1>1, <1>2, <1>3
  <2>2. ASSUME NEW j \in k + 1 .. Len(q) PROVE q[j].entity # e
    <3>1. CASE j < i
      <4>1. j \in 1 .. i - 1 /\ j \in k + 1 .. Len(r)
        BY <1>1, <3>1
      <4> QED BY <1>1, <1>2, <4>1
    <3>2. CASE j = i
      BY <2>1, <3>2
    <3>3. CASE j > i
      <4>1. j - 1 \in i .. Len(q) - 1 /\ j - 1 \in k + 1 .. Len(r) /\ (j - 1) + 1 = j
        BY <1>1, <1>3, <3>3
      <4>2. r[j - 1] = q[j]
        BY <1>1, <4>1
      <4> QED BY <1>2, <4>1, <4>2
    <3> QED BY <1>1, <3>1, <3>2, <3>3
  <2> QED BY <2>1, <2>2 DEF LastCall
<1>4. CASE k >= i
  <2>1. k \in i .. Len(q) - 1 /\ k + 1 \in 1 .. Len(q)
    BY <1>1, <1>2, <1>4
  <2>2. q[k + 1].entity = e /\ q[k + 1].value = v
    BY <1>1, <1>2, <2>1
  <2>3. ASSUME NEW j \in (k + 1) + 1 .. Len(q) PROVE q[j].entity # e
    <3>1. j - 1 \in i .. Len(q) - 1 /\ j - 1 \in k + 1 .. Len(r) /\ (j - 1) + 1 = j
      BY <1>1, <1>4
    <3>2. r[j - 1] = q[j]
      BY <1>1, <3>1
    <3> QED BY <1>2, <3>1, <3>2
  <2> QED BY <2>1, <2>2, <2>3 DEF LastCall
<1> QED BY <1>1, <1>3, <1>4

LEMMA WithoutNone ==
    ASSUME NEW C, NEW q \in Seq(C), NEW i \in 1 .. Len(q), NEW e, NoCall(Without(q, i), e)
    PROVE  IF e = q[i].entity THEN LastCall(q, e, q[i].value) ELSE NoCall(q, e)
<1>1. ASSUME NEW k \in 1 .. Len(q), k # i PROVE q[k].entity # e
  <2>1. PICK j \in 1 .. Len(Without(q, i)) : Without(q, i)[j] = q[k]
    BY <1>1, WithoutCalls
  <2> QED BY <2>1 DEF NoCall
<1>2. CASE e = q[i].entity
  <2>1. Len(q) \in Nat /\ i \in Nat
    OBVIOUS
  <2>2. \A j \in i + 1 .. Len(q) : q[j].entity # e
    BY <1>1, <2>1
  <2> QED BY <1>2, <2>2 DEF LastCall
<1>3. CASE e # q[i].entity
  BY <1>1, <1>3 DEF NoCall
<1> QED BY <1>2, <1>3

-----------------------------------------------------------------------------
(* What the handlers send.                                                 *)
FloorOf(m) == IF m = "ForceDischarge" THEN "session" ELSE "reserve"

LEMMA ClampedLimit ==
    ASSUME top \in Limits, NEW w \in Limits
    PROVE  _convert_and_clamp_power_for_write(w) \in Limits /\ HwMax \in Limits
  BY EntityAssumption DEF _convert_and_clamp_power_for_write

(* One call after another: a tuple is a sequence of its elements.          *)
LEMMA PairOfCalls ==
    ASSUME NEW C, NEW a \in C, NEW b \in C
    PROVE  /\ <<a, b>> \in Seq(C) /\ Len(<<a, b>>) = 2 /\ <<a, b>>[1] = a /\ <<a, b>>[2] = b
           /\ <<a>> \in Seq(C) /\ Len(<<a>>) = 1 /\ <<a>>[1] = a
           /\ <<>> \in Seq(C) /\ Len(<<>>) = 0
  OBVIOUS

LEMMA PrefixOfPair ==
    ASSUME NEW C, NEW a \in C, NEW b \in C, NEW n \in 0 .. 2
    PROVE  /\ SubSeq(<<a, b>>, 1, n) \in Seq(C) /\ Len(SubSeq(<<a, b>>, 1, n)) = n
           /\ \A i \in 1 .. n : SubSeq(<<a, b>>, 1, n)[i] = <<a, b>>[i]
<1>1. <<a, b>> \in Seq(C) /\ Len(<<a, b>>) = 2
  BY PairOfCalls
<1> DEFINE s == <<a, b>>
<1> HIDE DEF s
<1>2. s \in Seq(C) /\ Len(s) = 2
  BY <1>1 DEF s
<1>3. \A i \in 1 .. n : s[i] \in C
  BY <1>2, ElementOfSeq
<1>4. SubSeq(s, 1, n) \in Seq(C)
  BY <1>3, SubSeqProperties
<1>5. Len(SubSeq(s, 1, n)) = n /\ \A i \in 1 .. n : SubSeq(s, 1, n)[i] = s[i]
  BY <1>2
<1> QED BY <1>4, <1>5 DEF s

LEMMA CallTyped ==
    ASSUME NEW e \in Entities, NEW v \in Values, NEW by \in Senders, NEW id \in Nat
    PROVE  Call(e, v, by, id) \in CallType
  BY DEF Call, CallType

(* A mode: its first n calls, and both when none is refused.               *)
LEMMA Applied ==
    ASSUME NEW m \in Modes, NEW n \in 0 .. 2
    PROVE  /\ apply_mode(m, n) \in Seq(CallType)
           /\ \A i \in 1 .. Len(apply_mode(m, n)) :
                 \/ apply_mode(m, n)[i] = Call("mode", m, "apply", 0)
                 \/ apply_mode(m, n)[i] = Call("floor", FloorOf(m), "apply", 0)
           /\ n = 2 => /\ Len(apply_mode(m, n)) = 2
                       /\ apply_mode(m, n)[1] = Call("mode", m, "apply", 0)
                       /\ apply_mode(m, n)[2] = Call("floor", FloorOf(m), "apply", 0)
<1> DEFINE a == Call("mode", m, "apply", 0)
           b == Call("floor", FloorOf(m), "apply", 0)
<1>1. a \in CallType /\ b \in CallType
  BY CallTyped DEF Entities, Values, Senders, Floors, FloorOf
<1>2. apply_mode(m, n) = SubSeq(<<a, b>>, 1, n)
  BY DEF apply_mode, Writes, FloorOf
<1> HIDE DEF a, b
<1>3. <<a, b>>[1] = a /\ <<a, b>>[2] = b
  OBVIOUS
<1>4. /\ SubSeq(<<a, b>>, 1, n) \in Seq(CallType) /\ Len(SubSeq(<<a, b>>, 1, n)) = n
      /\ \A i \in 1 .. n : SubSeq(<<a, b>>, 1, n)[i] = <<a, b>>[i]
  BY <1>1, PrefixOfPair
<1>5. apply_mode(m, n) \in Seq(CallType) /\ Len(apply_mode(m, n)) = n
  BY <1>2, <1>4
<1>6. \A i \in 1 .. n : apply_mode(m, n)[i] = a \/ apply_mode(m, n)[i] = b
  <2> SUFFICES ASSUME NEW i \in 1 .. n PROVE apply_mode(m, n)[i] = a \/ apply_mode(m, n)[i] = b
    OBVIOUS
  <2>1. i = 1 \/ i = 2
    OBVIOUS
  <2> QED BY <1>2, <1>3, <1>4, <2>1
<1>7. n = 2 => apply_mode(m, n)[1] = a /\ apply_mode(m, n)[2] = b
  BY <1>2, <1>3, <1>4
<1> QED BY <1>5, <1>6, <1>7 DEF a, b

LEMMA AppliedLast ==
    ASSUME NEW m \in Modes, NEW n \in 0 .. 2
    PROVE  /\ NoCall(apply_mode(m, n), "limit") /\ \A v : ~LastCall(apply_mode(m, n), "limit", v)
           /\ n = 2 => ~NoCall(apply_mode(m, n), "mode") /\ ~NoCall(apply_mode(m, n), "floor")
           /\ \A v : LastCall(apply_mode(m, n), "mode", v) => v = m
           /\ \A v : LastCall(apply_mode(m, n), "floor", v) => v = FloorOf(m)
<1> DEFINE s == apply_mode(m, n)
<1>1. /\ \A i \in 1 .. Len(s) : \/ s[i].entity = "mode" /\ s[i].value = m
                                \/ s[i].entity = "floor" /\ s[i].value = FloorOf(m)
      /\ n = 2 => /\ Len(s) = 2
                  /\ s[1].entity = "mode" /\ s[2].entity = "floor"
  <2> DEFINE a == Call("mode", m, "apply", 0)
             b == Call("floor", FloorOf(m), "apply", 0)
  <2>1. a.entity = "mode" /\ a.value = m /\ b.entity = "floor" /\ b.value = FloorOf(m)
    BY DEF Call
  <2>2. /\ \A i \in 1 .. Len(s) : s[i] = a \/ s[i] = b
        /\ n = 2 => Len(s) = 2 /\ s[1] = a /\ s[2] = b
    BY Applied
  <2> HIDE DEF a, b, s
  <2> QED BY <2>1, <2>2
<1> HIDE DEF s
<1>2. \A i \in 1 .. Len(s) : s[i].entity # "limit"
  BY <1>1
<1>3. ASSUME n = 2 PROVE ~NoCall(s, "mode") /\ ~NoCall(s, "floor")
  <2>1. 1 \in 1 .. Len(s) /\ 2 \in 1 .. Len(s) /\ s[1].entity = "mode" /\ s[2].entity = "floor"
    BY <1>1, <1>3
  <2> QED BY <2>1 DEF NoCall
<1>4. \A v : LastCall(s, "mode", v) => v = m
  BY <1>1 DEF LastCall
<1>5. \A v : LastCall(s, "floor", v) => v = FloorOf(m)
  BY <1>1 DEF LastCall
<1>6. NoCall(s, "limit") /\ \A v : ~LastCall(s, "limit", v)
  BY <1>2 DEF NoCall, LastCall
<1> QED BY <1>3, <1>4, <1>5, <1>6 DEF s

(* A limit: one call, or none without the entity.                          *)
LEMMA LimitSet ==
    ASSUME NEW w \in Limits, NEW by \in Senders, NEW id \in Nat, top \in Limits,
           NEW s, s = set_export_limit_w(w, by, id)
    PROVE  /\ s \in Seq(CallType)
           /\ ~actuator => Len(s) = 0
           /\ actuator => Len(s) = 1
           /\ \A i \in 1 .. Len(s) :
                 /\ s[i].entity = "limit" /\ s[i].by = by /\ s[i].id = id /\ s[i].asked = w
                 /\ s[i].value = _convert_and_clamp_power_for_write(w)
<1> DEFINE v == _convert_and_clamp_power_for_write(w)
           c == [Call("limit", v, by, id) EXCEPT !.asked = w]
<1>1. v \in Limits
  BY DEF _convert_and_clamp_power_for_write
<1>2. s = IF actuator THEN <<c>> ELSE <<>>
  BY DEF set_export_limit_w
<1> HIDE DEF v
<1>3. c = [entity |-> "limit", value |-> v, asked |-> w, by |-> by, id |-> id]
  BY DEF Call
<1>4. c \in CallType
  BY <1>1, <1>3 DEF CallType, Entities, Values
<1>5. c.entity = "limit" /\ c.by = by /\ c.id = id /\ c.asked = w /\ c.value = v
  BY <1>3
<1> HIDE DEF c
<1>6. CASE actuator
  <2>1. s = <<c>>
    BY <1>2, <1>6
  <2>2. Len(s) = 1 /\ s[1] = c /\ s \in Seq(CallType)
    BY <1>4, <2>1, PairOfCalls
  <2> QED BY <1>5, <1>6, <2>2 DEF v
<1>7. CASE ~actuator
  <2>1. s = <<>>
    BY <1>2, <1>7
  <2>2. Len(s) = 0 /\ s \in Seq(CallType)
    BY <2>1
  <2> QED BY <1>7, <2>2
<1> QED BY <1>6, <1>7

(* The hook: the configured watts, as they are.                            *)
LEMMA HookSet ==
    ASSUME NEW s, s = _write_export_limit
    PROVE  /\ s \in Seq(CallType)
           /\ ~actuator => Len(s) = 0
           /\ actuator => Len(s) = 1
           /\ \A i \in 1 .. Len(s) :
                 /\ s[i].entity = "limit" /\ s[i].by = "hook" /\ s[i].id = 0 /\ s[i].asked = HwMax
                 /\ s[i].value = HwMax
<1> DEFINE c == Call("limit", HwMax, "hook", 0)
<1>1. s = IF actuator THEN <<c>> ELSE <<>>
  BY DEF _write_export_limit
<1>2. c \in CallType
  BY CallTyped, EntityAssumption DEF Entities, Values, Senders
<1>3. c.entity = "limit" /\ c.by = "hook" /\ c.id = 0 /\ c.asked = HwMax /\ c.value = HwMax
  BY DEF Call
<1> HIDE DEF c
<1>4. CASE actuator
  <2>1. s = <<c>>
    BY <1>1, <1>4
  <2>2. Len(s) = 1 /\ s[1] = c /\ s \in Seq(CallType)
    BY <1>2, <2>1, PairOfCalls
  <2> QED BY <1>3, <1>4, <2>2
<1>5. CASE ~actuator
  <2>1. s = <<>>
    BY <1>1, <1>5
  <2>2. Len(s) = 0 /\ s \in Seq(CallType)
    BY <2>1
  <2> QED BY <1>5, <2>2
<1> QED BY <1>4, <1>5

-----------------------------------------------------------------------------
(* What a sequence of calls does: it sets a mode and the floor that goes   *)
(* with it, or touches neither; it restores the export limit, unless the   *)
(* hook's watts will be refused, or does not touch it.                     *)
Sets(s, m) ==
    /\ ~NoCall(s, "mode") /\ ~NoCall(s, "floor")
    /\ \A v : LastCall(s, "mode", v) => v = m
    /\ \A v : LastCall(s, "floor", v) => v = FloorOf(m)
Quiet(s) == NoCall(s, "mode") /\ NoCall(s, "floor")
Refused(s) == \E i \in 1 .. Len(s) : OutOfRange(s[i])
Restores(s) ==
    /\ actuator => ~NoCall(s, "limit")
    /\ \A v : LastCall(s, "limit", v) => v = Configured \/ Refused(s)

LEMMA NoneNoLast ==
    ASSUME NEW C, NEW s \in Seq(C), NEW e, NEW v, NoCall(s, e) PROVE ~LastCall(s, e, v)
  BY DEF NoCall, LastCall

LEMMA ConcatSets ==
    ASSUME NEW C, NEW a \in Seq(C), NEW b \in Seq(C), NEW m,
           (Sets(a, m) /\ Quiet(b)) \/ (Quiet(a) /\ Sets(b, m))
    PROVE  Sets(a \o b, m)
<1>1. ~NoCall(a \o b, "mode") /\ ~NoCall(a \o b, "floor")
  BY ConcatNone DEF Sets
<1>2. ASSUME NEW v, LastCall(a \o b, "mode", v) PROVE v = m
  <2>1. LastCall(b, "mode", v) \/ (NoCall(b, "mode") /\ LastCall(a, "mode", v))
    BY <1>2, ConcatLast
  <2> QED BY <2>1, NoneNoLast DEF Sets, Quiet
<1>3. ASSUME NEW v, LastCall(a \o b, "floor", v) PROVE v = FloorOf(m)
  <2>1. LastCall(b, "floor", v) \/ (NoCall(b, "floor") /\ LastCall(a, "floor", v))
    BY <1>3, ConcatLast
  <2> QED BY <2>1, NoneNoLast DEF Sets, Quiet
<1> QED BY <1>1, <1>2, <1>3 DEF Sets

LEMMA ConcatQuiet ==
    ASSUME NEW C, NEW a \in Seq(C), NEW b \in Seq(C), Quiet(a), Quiet(b) PROVE Quiet(a \o b)
  BY ConcatNone DEF Quiet

LEMMA ConcatRefused ==
    ASSUME NEW C, NEW a \in Seq(C), NEW b \in Seq(C), Refused(a) \/ Refused(b)
    PROVE  Refused(a \o b)
<1>1. /\ Len(a) \in Nat /\ Len(b) \in Nat /\ Len(a \o b) = Len(a) + Len(b)
      /\ \A i \in 1 .. Len(a) : (a \o b)[i] = a[i]
      /\ \A i \in 1 .. Len(b) : (a \o b)[Len(a) + i] = b[i]
  OBVIOUS
<1>2. CASE Refused(a)
  <2>1. PICK i \in 1 .. Len(a) : OutOfRange(a[i])
    BY <1>2 DEF Refused
  <2>2. i \in 1 .. Len(a \o b) /\ (a \o b)[i] = a[i]
    BY <1>1
  <2>3. OutOfRange((a \o b)[i])
    BY <2>1, <2>2
  <2> QED BY <2>2, <2>3 DEF Refused
<1>3. CASE Refused(b)
  <2>1. PICK i \in 1 .. Len(b) : OutOfRange(b[i])
    BY <1>3 DEF Refused
  <2>2. Len(a) + i \in 1 .. Len(a \o b) /\ (a \o b)[Len(a) + i] = b[i]
    BY <1>1
  <2>3. OutOfRange((a \o b)[Len(a) + i])
    BY <2>1, <2>2
  <2> QED BY <2>2, <2>3 DEF Refused
<1> QED BY <1>2, <1>3

LEMMA ConcatRestores ==
    ASSUME NEW C, NEW a \in Seq(C), NEW b \in Seq(C),
           Restores(b) \/ (Restores(a) /\ NoCall(b, "limit")),
           Restores(a) \/ NoCall(a, "limit")
    PROVE  Restores(a \o b)
<1>1. actuator => ~NoCall(a \o b, "limit")
  BY ConcatNone DEF Restores
<1>2. ASSUME NEW v, LastCall(a \o b, "limit", v) PROVE v = Configured \/ Refused(a \o b)
  <2>1. LastCall(b, "limit", v) \/ (NoCall(b, "limit") /\ LastCall(a, "limit", v))
    BY <1>2, ConcatLast
  <2>2. v = Configured \/ Refused(a) \/ Refused(b)
    BY <2>1, NoneNoLast DEF Restores
  <2> QED BY <2>2, ConcatRefused
<1> QED BY <1>1, <1>2 DEF Restores

-----------------------------------------------------------------------------
(* What a call may be: n is the next id of a session, other the id of the  *)
(* charge, which sends no call that is its own.                            *)
CallFits(c, n, other) ==
    /\ c.entity = "mode" => c.value \in Modes
    /\ c.entity = "floor" => c.value \in Floors
    /\ c.entity = "limit" => c.value \in Limits /\ actuator
    /\ c.id < n
    /\ c.id # 0 => c.asked \in Limits /\ c.id # other
    /\ c.by = "hook" => c.entity = "limit" /\ c.value = HwMax
    /\ c.by = "begin" => c.id # 0
AllFit(s, n, other) == \A i \in 1 .. Len(s) : CallFits(s[i], n, other)

LEMMA ConcatFits ==
    ASSUME NEW C, NEW a \in Seq(C), NEW b \in Seq(C), NEW n, NEW other,
           AllFit(a, n, other), AllFit(b, n, other)
    PROVE  AllFit(a \o b, n, other)
<1> SUFFICES ASSUME NEW i \in 1 .. Len(a \o b) PROVE CallFits((a \o b)[i], n, other)
  BY DEF AllFit
<1>1. Len(a) \in Nat /\ Len(b) \in Nat /\ Len(a \o b) = Len(a) + Len(b)
  OBVIOUS
<1>2. CASE i <= Len(a)
  <2>1. i \in 1 .. Len(a) /\ (a \o b)[i] = a[i]
    BY <1>1, <1>2
  <2> QED BY <2>1 DEF AllFit
<1>3. CASE i > Len(a)
  <2>1. i - Len(a) \in 1 .. Len(b) /\ (a \o b)[i] = b[i - Len(a)]
    BY <1>1, <1>3
  <2> QED BY <2>1 DEF AllFit
<1> QED BY <1>1, <1>2, <1>3

(* The calls of before fit later too: an id once given out is not again.   *)
LEMMA FitsLater ==
    ASSUME NEW s \in Seq(CallType), NEW n \in Nat, NEW other, NEW m \in Nat, NEW another,
           AllFit(s, n, other), n <= m, another \in {0, other, n}
    PROVE  AllFit(s, m, another)
<1> SUFFICES ASSUME NEW i \in 1 .. Len(s) PROVE CallFits(s[i], m, another)
  BY DEF AllFit
<1>1. CallFits(s[i], n, other) /\ s[i].id \in Nat
  <2>1. s[i] \in CallType
    OBVIOUS
  <2> QED BY <2>1 DEF AllFit, CallType
<1> QED BY <1>1 DEF CallFits

SessionOK(s, n) ==
    /\ s \in SessionType /\ s.id < n
    /\ s.id = 0 => s = None

SessionsOK ==
    /\ session \in [Kinds -> SessionType]
    /\ \A k \in Kinds : SessionOK(session[k], nextId)
    /\ session["ForceCharge"] = None \/ session["ForceDischarge"] = None

ConfigOK == top \in Limits /\ (~actuator => top = HwMax /\ entity.limit = Configured)
EntityOK ==
    /\ entity \in [mode : Modes, floor : Floors, limit : Limits]
    /\ nextId \in 1 .. MaxSessions + 1 /\ faults \in 0 .. MaxFaults
    /\ excuse \subseteq Excuses
CallsOK ==
    /\ calls \in Seq(CallType) /\ Len(calls) <= MaxCalls
    /\ AllFit(calls, nextId, session["ForceCharge"].id)

(* The types, who may have sent what, and that one session at a time is    *)
(* there.                                                                  *)
StateInv == ConfigOK /\ EntityOK /\ CallsOK /\ SessionsOK

LEMMA AppliedEffect ==
    ASSUME NEW m \in Modes, NEW n \in 0 .. 2, NEW b \in Nat \ {0}, NEW other
    PROVE  /\ apply_mode(m, n) \in Seq(CallType) /\ AllFit(apply_mode(m, n), b, other)
           /\ NoCall(apply_mode(m, n), "limit")
           /\ n = 2 => Sets(apply_mode(m, n), m)
<1>1. n = 2 => Sets(apply_mode(m, n), m)
  BY AppliedLast DEF Sets
<1>2. apply_mode(m, n) \in Seq(CallType)
  BY Applied
<1>3. ASSUME NEW i \in 1 .. Len(apply_mode(m, n)) PROVE CallFits(apply_mode(m, n)[i], b, other)
  <2>1. CallFits(Call("mode", m, "apply", 0), b, other)
    BY DEF CallFits, Call
  <2>2. CallFits(Call("floor", FloorOf(m), "apply", 0), b, other)
    BY DEF CallFits, Call, Floors, FloorOf
  <2> QED BY <2>1, <2>2, Applied
<1>4. AllFit(apply_mode(m, n), b, other)
  BY <1>3 DEF AllFit
<1> QED BY <1>1, <1>2, <1>4, AppliedLast

LEMMA LimitEffect ==
    ASSUME NEW w \in Limits, NEW by \in Senders, NEW id \in Nat, ConfigOK, by # "hook",
           NEW b \in Nat, NEW other, id < b, id # 0 => id # other, by = "begin" => id # 0
    PROVE  LET s == set_export_limit_w(w, by, id)
           IN  /\ s \in Seq(CallType) /\ AllFit(s, b, other) /\ Quiet(s)
               /\ w = HwMax => Restores(s)
               /\ ~actuator => NoCall(s, "limit")
               /\ \A i \in 1 .. Len(s) : s[i].by = by
<1> DEFINE s == set_export_limit_w(w, by, id)
<1>1. PICK r : r = s
  OBVIOUS
<1>2. top \in Limits
  BY DEF ConfigOK
<1>3. /\ r \in Seq(CallType)
      /\ ~actuator => Len(r) = 0
      /\ actuator => Len(r) = 1
      /\ \A i \in 1 .. Len(r) :
            /\ r[i].entity = "limit" /\ r[i].by = by /\ r[i].id = id /\ r[i].asked = w
            /\ r[i].value = _convert_and_clamp_power_for_write(w)
  BY <1>1, <1>2, LimitSet
<1>4. _convert_and_clamp_power_for_write(w) \in Limits
  BY <1>2, ClampedLimit
<1>5. ASSUME NEW i \in 1 .. Len(r) PROVE CallFits(r[i], b, other)
  <2>1. actuator
    BY <1>3
  <2> QED BY <1>3, <1>4, <2>1 DEF CallFits
<1>6. AllFit(r, b, other)
  BY <1>5 DEF AllFit
<1>7. Quiet(r)
  BY <1>3 DEF Quiet, NoCall
<1>8. ASSUME w = HwMax PROVE Restores(r)
  <2>1. \A v : LastCall(r, "limit", v) => v = Configured
    BY <1>3, <1>8 DEF LastCall, Configured
  <2>2. ASSUME actuator PROVE ~NoCall(r, "limit")
    <3>1. Len(r) = 1
      BY <1>3, <2>2
    <3>2. 1 \in 1 .. Len(r)
      BY <3>1
    <3> QED BY <1>3, <3>2 DEF NoCall
  <2> QED BY <2>1, <2>2 DEF Restores
<1>9. ~actuator => NoCall(r, "limit")
  BY <1>3 DEF NoCall
<1> QED BY <1>1, <1>3, <1>6, <1>7, <1>8, <1>9

LEMMA HookEffect ==
    ASSUME ConfigOK, NEW b \in Nat \ {0}, NEW other
    PROVE  /\ _write_export_limit \in Seq(CallType) /\ AllFit(_write_export_limit, b, other)
           /\ Quiet(_write_export_limit) /\ Restores(_write_export_limit)
           /\ ~actuator => NoCall(_write_export_limit, "limit")
<1>1. PICK r : r = _write_export_limit
  OBVIOUS
<1>2. /\ r \in Seq(CallType)
      /\ ~actuator => Len(r) = 0
      /\ actuator => Len(r) = 1
      /\ \A i \in 1 .. Len(r) :
            /\ r[i].entity = "limit" /\ r[i].by = "hook" /\ r[i].id = 0 /\ r[i].asked = HwMax
            /\ r[i].value = HwMax
  BY <1>1, HookSet
<1>3. ASSUME NEW i \in 1 .. Len(r) PROVE CallFits(r[i], b, other)
  <2>1. actuator
    BY <1>2
  <2> QED BY <1>2, <2>1, EntityAssumption DEF CallFits
<1>4. AllFit(r, b, other)
  BY <1>3 DEF AllFit
<1>5. Quiet(r)
  BY <1>2 DEF Quiet, NoCall
<1>6. ASSUME actuator PROVE ~NoCall(r, "limit")
  <2>1. 1 \in 1 .. Len(r)
    BY <1>2, <1>6
  <2> QED BY <1>2, <2>1 DEF NoCall
<1>7. ASSUME NEW v, LastCall(r, "limit", v) PROVE v = Configured \/ Refused(r)
  <2>1. PICK i \in 1 .. Len(r) : r[i].value = v
    BY <1>7 DEF LastCall
  <2>2. v = HwMax /\ r[i].by = "hook" /\ r[i].value = HwMax
    BY <1>2, <2>1
  <2>3. CASE HwMax > top
    BY <2>2, <2>3 DEF OutOfRange, Refused
  <2>4. CASE ~(HwMax > top)
    BY <2>2, <2>4 DEF Configured, _convert_and_clamp_power_for_write
  <2> QED BY <2>3, <2>4
<1>8. ~actuator => NoCall(r, "limit")
  BY <1>2 DEF NoCall
<1> QED BY <1>1, <1>2, <1>4, <1>5, <1>6, <1>7, <1>8 DEF Restores

-----------------------------------------------------------------------------
(* What the handlers send, put together.                                   *)
LEMMA EmptyEffect ==
    ASSUME NEW b, NEW other
    PROVE  /\ <<>> \in Seq(CallType) /\ AllFit(<<>>, b, other) /\ Quiet(<<>>)
           /\ NoCall(<<>>, "limit")
  BY DEF AllFit, Quiet, NoCall

(* Both sessions' hooks, then the mode and, of a discharge, its limit.     *)
StartSends(k, deferred, n, kinds) ==
    Hooks(kinds)
    \o (IF deferred THEN <<>> ELSE apply_mode(k, n))
    \o (IF k = "ForceDischarge" /\ ~deferred /\ ~Raises(n)
        THEN set_export_limit_w(HwMax, "seed", nextId) ELSE <<>>)

LEMMA StartEffect ==
    ASSUME StateInv, NEW k \in Kinds, NEW deferred \in BOOLEAN, NEW n \in 0 .. 2,
           NEW kinds, kinds # {}, NEW other, k = "ForceDischarge" => other = 0,
           NEW s, s = StartSends(k, deferred, n, kinds)
    PROVE  /\ s \in Seq(CallType) /\ AllFit(s, nextId + 1, other) /\ Restores(s)
           /\ deferred => Quiet(s) /\ AllFit(s, 1, other)
           /\ ~deferred /\ n = 2 => Sets(s, k)
<1>1. /\ nextId \in Nat /\ nextId + 1 \in Nat \ {0} /\ nextId # 0 /\ ConfigOK
      /\ k \in Modes /\ HwMax \in Limits
  BY EntityAssumption DEF StateInv, EntityOK, Modes, Kinds
<1> DEFINE a == Hooks(kinds)
           b == IF deferred THEN <<>> ELSE apply_mode(k, n)
           c == IF k = "ForceDischarge" /\ ~deferred /\ ~Raises(n)
                THEN set_export_limit_w(HwMax, "seed", nextId) ELSE <<>>
<1>2. s = (a \o b) \o c
  BY DEF StartSends
<1>3. /\ a \in Seq(CallType) /\ AllFit(a, nextId + 1, other) /\ AllFit(a, 1, other)
      /\ Quiet(a) /\ Restores(a)
  <2>1. a = _write_export_limit
    BY DEF Hooks
  <2> HIDE DEF a
  <2>2. 1 \in Nat \ {0}
    OBVIOUS
  <2>3. AllFit(a, 1, other)
    BY <1>1, <2>1, <2>2, HookEffect
  <2>4. a \in Seq(CallType) /\ AllFit(a, nextId + 1, other) /\ Quiet(a) /\ Restores(a)
    BY <1>1, <2>1, HookEffect
  <2> QED BY <2>3, <2>4
<1>4. /\ b \in Seq(CallType) /\ AllFit(b, nextId + 1, other) /\ NoCall(b, "limit")
      /\ deferred => Quiet(b) /\ AllFit(b, 1, other)
      /\ ~deferred /\ n = 2 => Sets(b, k)
  <2>1. CASE deferred
    BY <2>1, EmptyEffect
  <2>2. CASE ~deferred
    BY <1>1, <2>2, AppliedEffect
  <2> QED BY <2>1, <2>2
<1>5. /\ c \in Seq(CallType) /\ AllFit(c, nextId + 1, other) /\ Quiet(c)
      /\ Restores(c) \/ NoCall(c, "limit")
      /\ deferred => AllFit(c, 1, other)
  <2>1. CASE k = "ForceDischarge" /\ ~deferred /\ ~Raises(n)
    <3>1. "seed" \in Senders /\ "seed" # "hook" /\ "seed" # "begin" /\ nextId < nextId + 1
          /\ (nextId # 0 => nextId # other)
      BY <1>1, <2>1 DEF Senders
    <3> HIDE DEF c
    <3>2. c = set_export_limit_w(HwMax, "seed", nextId)
      BY <2>1 DEF c
    <3> QED BY <1>1, <2>1, <3>1, <3>2, LimitEffect
  <2>2. CASE ~(k = "ForceDischarge" /\ ~deferred /\ ~Raises(n))
    BY <2>2, EmptyEffect
  <2> QED BY <2>1, <2>2
<1> HIDE DEF a, b, c
<1>6. /\ a \o b \in Seq(CallType) /\ AllFit(a \o b, nextId + 1, other) /\ Restores(a \o b)
      /\ deferred => Quiet(a \o b) /\ AllFit(a \o b, 1, other)
      /\ ~deferred /\ n = 2 => Sets(a \o b, k)
  <2>1. a \o b \in Seq(CallType)
    BY <1>3, <1>4, ConcatProperties
  <2>2. AllFit(a \o b, nextId + 1, other)
    BY <1>3, <1>4, ConcatFits
  <2>3. Restores(a \o b)
    BY <1>3, <1>4, ConcatRestores
  <2>4. deferred => AllFit(a \o b, 1, other)
    BY <1>3, <1>4, ConcatFits
  <2> QED BY <1>3, <1>4, <2>1, <2>2, <2>3, <2>4, ConcatQuiet, ConcatSets
<1>7. (a \o b) \o c \in Seq(CallType)
  BY <1>5, <1>6, ConcatProperties
<1>8. AllFit((a \o b) \o c, nextId + 1, other)
  BY <1>5, <1>6, ConcatFits
<1>9. Restores((a \o b) \o c)
  BY <1>5, <1>6, ConcatRestores
<1>10. deferred => Quiet((a \o b) \o c)
  BY <1>5, <1>6, ConcatQuiet
<1>12. deferred => AllFit((a \o b) \o c, 1, other)
  BY <1>5, <1>6, ConcatFits
<1>11. ~deferred /\ n = 2 => Sets((a \o b) \o c, k)
  BY <1>5, <1>6, ConcatSets
<1> QED BY <1>2, <1>7, <1>8, <1>9, <1>10, <1>11, <1>12

LEMMA ClearEffect ==
    ASSUME StateInv, NEW d \in Nat \ {0}, NEW n \in 0 .. 2, NEW kinds, kinds # {}, NEW other,
           NEW s, s = Hooks(kinds) \o apply_mode("SelfUse", n)
    PROVE  /\ s \in Seq(CallType) /\ AllFit(s, d, other) /\ Restores(s)
           /\ n = 2 => Sets(s, "SelfUse")
<1>1. ConfigOK /\ "SelfUse" \in Modes
  BY DEF StateInv, EntityOK, Modes
<1> DEFINE a == Hooks(kinds)
           b == apply_mode("SelfUse", n)
<1>2. a \in Seq(CallType) /\ AllFit(a, d, other) /\ Quiet(a) /\ Restores(a)
  <2>1. a = _write_export_limit
    BY DEF Hooks
  <2> QED BY <1>1, <2>1, HookEffect
<1>3. /\ b \in Seq(CallType) /\ AllFit(b, d, other) /\ NoCall(b, "limit")
      /\ n = 2 => Sets(b, "SelfUse")
  BY <1>1, AppliedEffect
<1>4. s = a \o b
  OBVIOUS
<1> HIDE DEF a, b
<1>5. a \o b \in Seq(CallType)
  BY <1>2, <1>3, ConcatProperties
<1>6. AllFit(a \o b, d, other)
  BY <1>2, <1>3, ConcatFits
<1>7. Restores(a \o b)
  BY <1>2, <1>3, ConcatRestores
<1>8. n = 2 => Sets(a \o b, "SelfUse")
  BY <1>2, <1>3, ConcatSets
<1> QED BY <1>4, <1>5, <1>6, <1>7, <1>8

(* A call that begins the session of that id.                             *)
BeginIn(q, id) == \E i \in 1 .. Len(q) : q[i].by = "begin" /\ q[i].id = id

(* The mode of a deferred start and, with an actuator, the limit it waits  *)
(* for.                                                                    *)
LEMMA BeginEffect ==
    ASSUME StateInv, NEW n \in 0 .. 2, NEW id \in Nat, id # 0, id < nextId, NEW other, id # other,
           NEW s, s = apply_mode("ForceDischarge", n) \o set_export_limit_w(HwMax, "begin", id)
    PROVE  /\ s \in Seq(CallType) /\ AllFit(s, nextId, other)
           /\ n = 2 => Sets(s, "ForceDischarge")
           /\ Restores(s) /\ (actuator => BeginIn(s, id))
<1>1. nextId \in Nat \ {0} /\ ConfigOK /\ "ForceDischarge" \in Modes /\ HwMax \in Limits
  BY EntityAssumption DEF StateInv, EntityOK, Modes, Kinds
<1> DEFINE a == apply_mode("ForceDischarge", n)
           b == set_export_limit_w(HwMax, "begin", id)
<1>2. /\ a \in Seq(CallType) /\ AllFit(a, nextId, other) /\ NoCall(a, "limit")
      /\ n = 2 => Sets(a, "ForceDischarge")
  BY <1>1, AppliedEffect
<1>3. b \in Seq(CallType) /\ AllFit(b, nextId, other) /\ Quiet(b) /\ Restores(b)
  <2>1. "begin" \in Senders /\ "begin" # "hook"
    BY DEF Senders
  <2> QED BY <1>1, <2>1, LimitEffect
<1>4. s = a \o b
  OBVIOUS
<1>5. actuator => Len(b) = 1 /\ b[1].by = "begin" /\ b[1].id = id
  <2>1. top \in Limits /\ "begin" \in Senders
    BY <1>1 DEF ConfigOK, Senders
  <2>2. PICK r : r = b
    OBVIOUS
  <2>3. /\ actuator => Len(r) = 1
        /\ \A i \in 1 .. Len(r) : r[i].by = "begin" /\ r[i].id = id
    BY <1>1, <2>1, <2>2, LimitSet
  <2> QED BY <2>2, <2>3
<1> HIDE DEF a, b
<1>6. a \o b \in Seq(CallType) /\ Len(a \o b) = Len(a) + Len(b) /\ Len(a) \in Nat
  BY <1>2, <1>3, ConcatProperties
<1>7. AllFit(a \o b, nextId, other)
  BY <1>2, <1>3, ConcatFits
<1>8. Restores(a \o b)
  BY <1>2, <1>3, ConcatRestores
<1>9. n = 2 => Sets(a \o b, "ForceDischarge")
  BY <1>2, <1>3, ConcatSets
<1>10. ASSUME actuator PROVE \E i \in 1 .. Len(a \o b) : (a \o b)[i].by = "begin" /\ (a \o b)[i].id = id
  <2>1. Len(b) = 1 /\ b[1].by = "begin" /\ b[1].id = id
    BY <1>5, <1>10
  <2>2. Len(a) + 1 \in 1 .. Len(a \o b) /\ (a \o b)[Len(a) + 1] = b[1]
    BY <1>2, <1>3, <1>6, <2>1
  <2> QED BY <2>1, <2>2
<1>11. actuator => BeginIn(a \o b, id)
  BY <1>10 DEF BeginIn
<1> QED BY <1>4, <1>6, <1>7, <1>8, <1>9, <1>11

(* The override of a session that ends, or rests.                          *)
LEMMA RemovedEffect ==
    ASSUME StateInv, NEW d \in Nat \ {0}, NEW k \in Kinds, NEW n \in 0 .. 2, NEW other, NEW s, s = Removed(k, n)
    PROVE  /\ s \in Seq(CallType) /\ AllFit(s, d, other)
           /\ Restores(s) \/ (k # "ForceDischarge" /\ NoCall(s, "limit"))
           /\ n = 2 => Sets(s, "SelfUse")
<1>1. ConfigOK /\ "SelfUse" \in Modes /\ HwMax \in Limits
  BY EntityAssumption DEF StateInv, EntityOK, Modes
<1> DEFINE a == apply_mode("SelfUse", n)
           b == IF k = "ForceDischarge" THEN set_export_limit_w(HwMax, "restore", 0) ELSE <<>>
<1>2. /\ a \in Seq(CallType) /\ AllFit(a, d, other) /\ NoCall(a, "limit")
      /\ n = 2 => Sets(a, "SelfUse")
  BY <1>1, AppliedEffect
<1>3. /\ b \in Seq(CallType) /\ AllFit(b, d, other) /\ Quiet(b)
      /\ Restores(b) \/ (k # "ForceDischarge" /\ NoCall(b, "limit"))
  <2>1. CASE k = "ForceDischarge"
    <3>1. "restore" \in Senders /\ "restore" # "hook" /\ "restore" # "begin"
      BY DEF Senders
    <3>2. b = set_export_limit_w(HwMax, "restore", 0)
      BY <2>1
    <3> HIDE DEF b
    <3> QED BY <1>1, <3>1, <3>2, LimitEffect
  <2>2. CASE k # "ForceDischarge"
    BY <2>2, EmptyEffect
  <2> QED BY <2>1, <2>2
<1>4. s = a \o b
  BY DEF Removed
<1> HIDE DEF a, b
<1>5. a \o b \in Seq(CallType)
  BY <1>2, <1>3, ConcatProperties
<1>6. AllFit(a \o b, d, other)
  BY <1>2, <1>3, ConcatFits
<1>7. Restores(a \o b) \/ (k # "ForceDischarge" /\ NoCall(a \o b, "limit"))
  BY <1>2, <1>3, ConcatRestores, ConcatNone
<1>8. n = 2 => Sets(a \o b, "SelfUse")
  BY <1>2, <1>3, ConcatSets
<1> QED BY <1>4, <1>5, <1>6, <1>7, <1>8

LEMMA EndEffect ==
    ASSUME StateInv, NEW d \in Nat \ {0}, NEW k \in Kinds, NEW n \in 0 .. 2, NEW other,
           NEW removes \in BOOLEAN,
           NEW s, s = _write_export_limit \o (IF removes THEN Removed(k, n) ELSE <<>>)
    PROVE  /\ s \in Seq(CallType) /\ AllFit(s, d, other) /\ Restores(s)
           /\ n = 2 /\ removes => Sets(s, "SelfUse")
           /\ ~removes => Quiet(s)
<1> DEFINE a == _write_export_limit
           b == IF removes THEN Removed(k, n) ELSE <<>>
<1>1. a \in Seq(CallType) /\ AllFit(a, d, other) /\ Quiet(a) /\ Restores(a)
  <2>1. ConfigOK
    BY DEF StateInv, EntityOK
  <2> QED BY <2>1, HookEffect
<1>2. /\ b \in Seq(CallType) /\ AllFit(b, d, other)
      /\ Restores(b) \/ NoCall(b, "limit")
      /\ n = 2 /\ removes => Sets(b, "SelfUse")
      /\ ~removes => Quiet(b)
  <2>1. CASE removes
    <3>1. b = Removed(k, n)
      BY <2>1
    <3> HIDE DEF b
    <3> QED BY <2>1, <3>1, RemovedEffect
  <2>2. CASE ~removes
    <3>1. b = <<>>
      BY <2>2
    <3> HIDE DEF b
    <3> QED BY <2>2, <3>1, EmptyEffect
  <2> QED BY <2>1, <2>2
<1>3. s = a \o b
  OBVIOUS
<1> HIDE DEF a, b
<1>4. a \o b \in Seq(CallType)
  BY <1>1, <1>2, ConcatProperties
<1>5. AllFit(a \o b, d, other)
  BY <1>1, <1>2, ConcatFits
<1>6. Restores(a \o b)
  BY <1>1, <1>2, ConcatRestores
<1>7. n = 2 /\ removes => Sets(a \o b, "SelfUse")
  BY <1>1, <1>2, ConcatSets
<1>8. ~removes => Quiet(a \o b)
  BY <1>1, <1>2, ConcatQuiet
<1> QED BY <1>3, <1>4, <1>5, <1>6, <1>7, <1>8

-----------------------------------------------------------------------------
(* What a step does to the values to come.                                 *)
NewMode(m) == \A v : /\ Final("mode", v)' => v = m
                     /\ Final("floor", v)' => v = FloorOf(m)
SameMode == \A v : /\ Final("mode", v)' => Final("mode", v)
                   /\ Final("floor", v)' => Final("floor", v)
NewLimit == \A v : Final("limit", v)' => v = Configured \/ Refused(calls)'
SameLimit == /\ \A v : Final("limit", v)' => Final("limit", v)
             /\ Refused(calls) => Refused(calls)'

LEMMA SentFinal ==
    ASSUME calls \in Seq(CallType), NEW s \in Seq(CallType), calls' = calls \o s,
           UNCHANGED entity, NEW e, NEW v, Final(e, v)'
    PROVE  LastCall(s, e, v) \/ (NoCall(s, e) /\ Final(e, v))
<1>1. LastCall(calls \o s, e, v) \/ (NoCall(calls \o s, e) /\ v = entity[e])
  BY DEF Final
<1>2. CASE LastCall(calls \o s, e, v)
  <2>1. LastCall(s, e, v) \/ (NoCall(s, e) /\ LastCall(calls, e, v))
    BY <1>2, ConcatLast
  <2> QED BY <2>1 DEF Final
<1>3. CASE NoCall(calls \o s, e) /\ v = entity[e]
  <2>1. NoCall(calls, e) /\ NoCall(s, e)
    BY <1>3, ConcatNone
  <2> QED BY <1>3, <2>1 DEF Final
<1> QED BY <1>1, <1>2, <1>3

(* Without the entity of the limit no call is made to it.                  *)
LEMMA NoLimitCalls ==
    ASSUME NEW s \in Seq(CallType), NEW n, NEW other, AllFit(s, n, other), ~actuator
    PROVE  NoCall(s, "limit")
  BY DEF AllFit, CallFits, NoCall

LEMMA SentEffect ==
    ASSUME StateInv, NEW s \in Seq(CallType), NEW n, NEW other, AllFit(s, n, other),
           calls' = calls \o s, UNCHANGED <<config, entity>>
    PROVE  /\ \A m : Sets(s, m) => NewMode(m)
           /\ Quiet(s) => SameMode
           /\ Restores(s) => NewLimit
           /\ NoCall(s, "limit") => SameLimit
<1>1. calls \in Seq(CallType) /\ AllFit(calls, nextId, session["ForceCharge"].id) /\ ConfigOK
      /\ UNCHANGED entity
  BY DEF StateInv, CallsOK
<1>2. ASSUME NEW m, Sets(s, m) PROVE NewMode(m)
  <2>1. ASSUME NEW v, Final("mode", v)' PROVE v = m
    BY <1>1, <1>2, <2>1, SentFinal DEF Sets
  <2>2. ASSUME NEW v, Final("floor", v)' PROVE v = FloorOf(m)
    BY <1>1, <1>2, <2>2, SentFinal DEF Sets
  <2> QED BY <2>1, <2>2 DEF NewMode
<1>3. ASSUME Quiet(s) PROVE SameMode
  <2>1. ASSUME NEW v, Final("mode", v)' PROVE Final("mode", v)
    BY <1>1, <1>3, <2>1, SentFinal, NoneNoLast DEF Quiet
  <2>2. ASSUME NEW v, Final("floor", v)' PROVE Final("floor", v)
    BY <1>1, <1>3, <2>2, SentFinal, NoneNoLast DEF Quiet
  <2> QED BY <2>1, <2>2 DEF SameMode
<1>4. ASSUME Refused(calls) \/ Refused(s) PROVE Refused(calls)'
  <2>1. Refused(calls \o s)
    BY <1>1, <1>4, ConcatRefused
  <2>2. PICK i \in 1 .. Len(calls') : OutOfRange(calls'[i])
    BY <2>1 DEF Refused
  <2>3. UNCHANGED <<inKw, top>>
    BY DEF config
  <2> QED BY <2>2, <2>3 DEF Refused, OutOfRange
<1>5. ASSUME Restores(s) PROVE NewLimit
  <2> SUFFICES ASSUME NEW v, Final("limit", v)' PROVE v = Configured \/ Refused(calls)'
    BY DEF NewLimit
  <2>1. LastCall(s, "limit", v) \/ (NoCall(s, "limit") /\ Final("limit", v))
    BY <1>1, SentFinal
  <2>2. CASE LastCall(s, "limit", v)
    BY <1>4, <1>5, <2>2 DEF Restores
  <2>3. CASE NoCall(s, "limit") /\ Final("limit", v)
    <3>1. ~actuator
      BY <1>5, <2>3 DEF Restores
    <3>2. NoCall(calls, "limit")
      BY <1>1, <3>1, NoLimitCalls
    <3>3. v = entity.limit
      BY <1>1, <2>3, <3>2, NoneNoLast DEF Final
    <3> QED BY <1>1, <3>1, <3>3 DEF ConfigOK
  <2> QED BY <2>1, <2>2, <2>3
<1>6. ASSUME NoCall(s, "limit") PROVE SameLimit
  <2>1. ASSUME NEW v, Final("limit", v)' PROVE Final("limit", v)
    BY <1>1, <1>6, <2>1, SentFinal, NoneNoLast
  <2> QED BY <1>4, <2>1 DEF SameLimit
<1> QED BY <1>2, <1>3, <1>5, <1>6

(* A call that lands, or is lost, leaves what is to come as it was: for a  *)
(* call that is lost, at the other entities.                               *)
LEMMA GoneFinal ==
    ASSUME calls \in Seq(CallType), NEW i \in 1 .. Len(calls),
           \A j \in 1 .. i - 1 : calls[j].entity # calls[i].entity,
           calls' = Without(calls, i), NEW e, NEW v, Final(e, v)',
           entity'[e] = IF e = calls[i].entity THEN calls[i].value ELSE entity[e]
    PROVE  Final(e, v)
<1>1. LastCall(Without(calls, i), e, v) \/ (NoCall(Without(calls, i), e) /\ v = entity'[e])
  BY DEF Final
<1>2. CASE LastCall(Without(calls, i), e, v)
  BY <1>2, WithoutLast DEF Final
<1>3. CASE NoCall(Without(calls, i), e) /\ v = entity'[e]
  BY <1>3, WithoutNone DEF Final
<1> QED BY <1>1, <1>2, <1>3

-----------------------------------------------------------------------------
(* The state invariant, step by step.                                      *)
LEMMA FaultCounted ==
    ASSUME EntityOK, NEW n, Fault(n) PROVE faults' \in 0 .. MaxFaults /\ FaultIf(n) \subseteq Excuses
  BY EntityAssumption DEF EntityOK, Fault, FaultIf, Excuses

LEMMA ConfigKept == ASSUME ConfigOK, UNCHANGED <<config, entity>> PROVE ConfigOK'
  BY DEF ConfigOK, config, Configured, _convert_and_clamp_power_for_write

LEMMA EntityKept ==
    ASSUME EntityOK, UNCHANGED entity, nextId' \in 1 .. MaxSessions + 1,
           faults' \in 0 .. MaxFaults, excuse' \subseteq Excuses
    PROVE  EntityOK'
  BY DEF EntityOK

LEMMA CallsLater ==
    ASSUME StateInv, UNCHANGED config, NEW s \in Seq(CallType), Send(s),
           nextId' \in Nat, nextId <= nextId',
           session'["ForceCharge"].id \in {0, session["ForceCharge"].id, nextId},
           AllFit(s, nextId', session'["ForceCharge"].id)
    PROVE  CallsOK'
<1>1. calls \in Seq(CallType) /\ AllFit(calls, nextId, session["ForceCharge"].id) /\ nextId \in Nat
  BY DEF StateInv, CallsOK, EntityOK
<1>2. calls' = calls \o s /\ Len(calls) + Len(s) <= MaxCalls
  BY DEF Send
<1>3. calls' \in Seq(CallType) /\ Len(calls') <= MaxCalls
  BY <1>1, <1>2, ConcatProperties
<1>4. AllFit(calls, nextId', session'["ForceCharge"].id)
  BY <1>1, FitsLater
<1>5. AllFit(calls \o s, nextId', session'["ForceCharge"].id)
  BY <1>1, <1>4, ConcatFits
<1>6. AllFit(calls, nextId, session["ForceCharge"].id)'
  BY <1>2, <1>5 DEF AllFit, CallFits, config
<1> QED BY <1>3, <1>6 DEF CallsOK

LEMMA NoneFits ==
    ASSUME NEW n \in Nat \ {0}
    PROVE  SessionOK(None, n) /\ None.id = 0 /\ ~None.off /\ ~None.started
<1>1. None.id = 0 /\ None.off = FALSE /\ None.started = FALSE
  BY DEF None
<1>2. None \in SessionType
  BY EntityAssumption DEF None, SessionType
<1> QED BY <1>1, <1>2 DEF SessionOK

LEMMA SessionsKept ==
    ASSUME SessionsOK, UNCHANGED <<session, nextId>> PROVE SessionsOK'
  BY DEF SessionsOK, SessionOK

(* A session that is started anew.                                         *)
NewSession(deferred) == [None EXCEPT !.id = nextId, !.started = ~deferred]

LEMMA NewFits ==
    ASSUME nextId \in 1 .. MaxSessions, NEW deferred \in BOOLEAN
    PROVE  /\ SessionOK(NewSession(deferred), nextId + 1)
           /\ NewSession(deferred).id = nextId
           /\ NewSession(deferred).started <=> ~deferred
           /\ ~NewSession(deferred).off
<1> DEFINE s == NewSession(deferred)
           b == ~deferred
<1>1. b \in BOOLEAN
  OBVIOUS
<1> HIDE DEF b
<1>2. s = [None EXCEPT !.id = nextId, !.started = b]
  BY Zenon DEF NewSession, b
<1> HIDE DEF s
<1>3. s.id = nextId /\ s.started = b /\ s.off = FALSE
  BY <1>2 DEF None
<1>4. s \in SessionType
  <2>1. nextId \in 0 .. MaxSessions
    BY EntityAssumption
  <2>2. None \in SessionType
    BY EntityAssumption DEF SessionType, None
  <2>3. \A x \in 0 .. MaxSessions, y \in BOOLEAN :
          [None EXCEPT !.id = x, !.started = y] \in SessionType
    BY <2>2 DEF SessionType
  <2> QED BY <1>1, <1>2, <2>1, <2>3
<1>5. SessionOK(s, nextId + 1)
  <2>1. s.id < nextId + 1 /\ s.id # 0
    BY <1>3
  <2>2. ~s.off
    BY <1>3
  <2> QED BY <1>4, <2>1, <2>2 DEF SessionOK
<1> QED BY <1>3, <1>5 DEF b, s

StartedOr(deferred, n) == IF Raises(n) THEN None ELSE NewSession(deferred)

LEMMA ReplacedSession ==
    ASSUME NEW k \in Kinds, NEW s, session' = Replaced(k, s)
    PROVE  /\ session'[k] = s /\ \A j \in Kinds \ {k} : session'[j] = None
           /\ session' = [j \in Kinds |-> session'[j]]
  BY DEF Replaced

LEMMA StartState ==
    ASSUME StateInv, NEW k \in Kinds, NEW deferred \in BOOLEAN, NEW n \in 0 .. 2,
           Start(k, deferred, n)
    PROVE  StateInv'
<1>1. nextId' = nextId + 1 /\ nextId \in 1 .. MaxSessions /\ UNCHANGED <<config, entity>>
  BY DEF Start, StateInv, EntityOK
<1>2. session' = Replaced(k, StartedOr(deferred, n))
  BY DEF Start, StartedOr, NewSession
<1>3. /\ SessionOK(StartedOr(deferred, n), nextId + 1)
      /\ StartedOr(deferred, n).id \in {0, nextId} /\ ~StartedOr(deferred, n).off
  <2>1. nextId + 1 \in Nat \ {0}
    BY <1>1
  <2> QED BY <1>1, <2>1, NoneFits, NewFits DEF StartedOr
<1>4. SessionOK(None, nextId + 1) /\ None.id = 0 /\ ~None.off
  <2>1. nextId + 1 \in Nat \ {0}
    BY <1>1
  <2> QED BY <2>1, NoneFits
<1>5. \A j \in Kinds : SessionOK(session'[j], nextId') /\ ~session'[j].off
                       /\ session'[j].id \in {0, nextId}
  BY <1>1, <1>2, <1>3, <1>4, ReplacedSession
<1>6. SessionsOK'
  <2>1. session' \in [Kinds -> SessionType]
    BY <1>2, <1>5, ReplacedSession DEF SessionOK
  <2>2. session'["ForceCharge"] = None \/ session'["ForceDischarge"] = None
    BY <1>2, ReplacedSession DEF Kinds
  <2> QED BY <1>5, <2>1, <2>2 DEF SessionsOK, SessionOK
<1>7. EntityOK'
  <2>1. faults' \in 0 .. MaxFaults /\ FaultIf(n) \subseteq Excuses
    BY FaultCounted DEF Start, StateInv
  <2>2. excuse' \subseteq Excuses
    BY <2>1 DEF Start, StateInv, EntityOK, Left, Excuses
  <2>3. nextId' \in 1 .. MaxSessions + 1
    BY <1>1, EntityAssumption
  <2> QED BY <1>1, <2>1, <2>2, <2>3, EntityKept DEF StateInv
<1>8. CallsOK'
  <2> DEFINE kinds == {k} \union {j \in Kinds : session[j] # None}
             other == session'["ForceCharge"].id
  <2>1. kinds # {} /\ other \in {0, nextId}
    BY <1>5 DEF Kinds
  <2>2. k = "ForceDischarge" => other = 0
    BY <1>2, <1>4, ReplacedSession DEF Kinds
  <2>3. PICK s : s = StartSends(k, deferred, n, kinds)
    OBVIOUS
  <2>4. Send(s)
    BY <2>3 DEF Start, StartSends
  <2> HIDE DEF kinds, other
  <2>5. s \in Seq(CallType) /\ AllFit(s, nextId + 1, other)
    BY <2>1, <2>2, <2>3, StartEffect
  <2>6. nextId' \in Nat /\ nextId <= nextId'
    BY <1>1
  <2> QED BY <1>1, <2>1, <2>4, <2>5, <2>6, CallsLater DEF other
<1>9. ConfigOK'
  BY <1>1, ConfigKept DEF StateInv
<1> QED BY <1>6, <1>7, <1>8, <1>9 DEF StateInv

(* One session of the two changes.                                         *)
LEMMA OneSession ==
    ASSUME SessionsOK, NEW k \in Kinds, NEW s, SessionOK(s, nextId),
           session' = [session EXCEPT ![k] = s], nextId' = nextId,
           s = None \/ session[k] # None
    PROVE  /\ SessionsOK' /\ session'[k] = s
           /\ \A j \in Kinds \ {k} : session'[j] = session[j]
<1>1. session'[k] = s /\ \A j \in Kinds \ {k} : session'[j] = session[j]
  BY DEF SessionsOK
<1>2. session' \in [Kinds -> SessionType]
  BY DEF SessionsOK, SessionOK
<1>3. \A j \in Kinds : SessionOK(session'[j], nextId)
  BY <1>1 DEF SessionsOK
<1>4. session'["ForceCharge"] = None \/ session'["ForceDischarge"] = None
  BY <1>1 DEF SessionsOK, Kinds
<1> QED BY <1>1, <1>2, <1>3, <1>4 DEF SessionsOK, SessionOK

LEMMA StartedField ==
    ASSUME NEW s \in SessionType, NEW x \in BOOLEAN, NEW t, t = [s EXCEPT !.started = x]
    PROVE  t \in SessionType /\ t.id = s.id /\ (t.started <=> x) /\ (t.off <=> s.off)
  BY DEF SessionType

LEMMA OffField ==
    ASSUME NEW s \in SessionType, NEW x \in BOOLEAN, NEW t, t = [s EXCEPT !.off = x]
    PROVE  t \in SessionType /\ t.id = s.id /\ (t.started <=> s.started) /\ (t.off <=> x)
  BY DEF SessionType

(* It starts, rests, goes on or is over.                                   *)
LEMMA SessionStarts ==
    ASSUME SessionsOK, NEW k \in Kinds, session[k] # None, nextId' = nextId,
           session' = [session EXCEPT ![k].started = TRUE, ![k].off = FALSE]
    PROVE  /\ SessionsOK' /\ session'[k].id = session[k].id
           /\ session'[k].started /\ ~session'[k].off
           /\ \A j \in Kinds \ {k} : session'[j] = session[j]
<1> DEFINE r == [session[k] EXCEPT !.started = TRUE]
           s == [r EXCEPT !.off = FALSE]
<1>1. SessionOK(session[k], nextId) /\ session[k] \in SessionType
  BY DEF SessionsOK, SessionOK
<1>2. r \in SessionType /\ r.id = session[k].id /\ r.started
  BY <1>1, StartedField
<1>3. session' = [session EXCEPT ![k] = s]
  BY <1>1 DEF SessionsOK
<1> HIDE DEF r
<1>4. s \in SessionType /\ s.id = r.id /\ (s.started <=> r.started) /\ ~s.off
  BY <1>2, OffField
<1> HIDE DEF s
<1>5. SessionOK(s, nextId)
  BY <1>1, <1>2, <1>4 DEF SessionOK
<1>6. SessionsOK' /\ session'[k] = s /\ \A j \in Kinds \ {k} : session'[j] = session[j]
  BY <1>1, <1>3, <1>5, OneSession
<1> QED BY <1>2, <1>4, <1>6

LEMMA SessionRests ==
    ASSUME SessionsOK, NEW k \in Kinds, NEW x \in BOOLEAN, session[k] # None, nextId' = nextId,
           session' = [session EXCEPT ![k].off = x]
    PROVE  /\ SessionsOK' /\ session'[k].id = session[k].id
           /\ (session'[k].started <=> session[k].started) /\ (session'[k].off <=> x)
           /\ \A j \in Kinds \ {k} : session'[j] = session[j]
<1> DEFINE s == [session[k] EXCEPT !.off = x]
<1>1. SessionOK(session[k], nextId) /\ session[k] \in SessionType
  BY DEF SessionsOK, SessionOK
<1>2. s \in SessionType /\ s.id = session[k].id /\ (s.started <=> session[k].started) /\ (s.off <=> x)
  BY <1>1, OffField
<1>3. session' = [session EXCEPT ![k] = s]
  BY DEF SessionsOK
<1> HIDE DEF s
<1>4. SessionOK(s, nextId)
  BY <1>1, <1>2 DEF SessionOK
<1>5. SessionsOK' /\ session'[k] = s /\ \A j \in Kinds \ {k} : session'[j] = session[j]
  BY <1>1, <1>3, <1>4, OneSession
<1> QED BY <1>2, <1>5

(* A charge that was started waits again.                                  *)
LEMMA SessionWaits ==
    ASSUME SessionsOK, NEW k \in Kinds, session[k].started, nextId' = nextId,
           session' = [session EXCEPT ![k].started = FALSE, ![k].off = FALSE]
    PROVE  /\ SessionsOK' /\ session'[k].id = session[k].id
           /\ ~session'[k].started
           /\ \A j \in Kinds \ {k} : session'[j] = session[j]
           /\ session[k] # None
<1> DEFINE r == [session[k] EXCEPT !.started = FALSE]
           s == [r EXCEPT !.off = FALSE]
<1>2. SessionOK(session[k], nextId) /\ session[k] \in SessionType /\ session[k] # None
  <2>1. ~None.started
    BY DEF None
  <2>2. session[k] # None
    BY <2>1
  <2> QED BY <2>2 DEF SessionsOK, SessionOK
<1>3. FALSE \in BOOLEAN
  OBVIOUS
<1>4. r \in SessionType /\ r.id = session[k].id /\ ~r.started
  BY <1>2, <1>3, StartedField
<1>5. session' = [session EXCEPT ![k] = s]
  BY <1>2 DEF SessionsOK
<1> HIDE DEF r
<1>6. s \in SessionType /\ s.id = r.id /\ (s.started <=> r.started) /\ ~s.off
  BY <1>3, <1>4, OffField
<1> HIDE DEF s
<1>7. SessionOK(s, nextId)
  BY <1>2, <1>4, <1>6 DEF SessionOK
<1>8. SessionsOK' /\ session'[k] = s /\ \A j \in Kinds \ {k} : session'[j] = session[j]
  BY <1>2, <1>5, <1>7, OneSession
<1> QED BY <1>2, <1>4, <1>6, <1>8

LEMMA SessionEnds ==
    ASSUME StateInv, NEW k \in Kinds, nextId' = nextId, session' = [session EXCEPT ![k] = None]
    PROVE  /\ SessionsOK' /\ session'[k] = None /\ \A j \in Kinds \ {k} : session'[j] = session[j]
<1>1. nextId \in Nat \ {0} /\ SessionsOK
  BY DEF StateInv, EntityOK
<1>2. SessionOK(None, nextId) /\ ~None.off
  BY <1>1, NoneFits
<1> QED BY <1>1, <1>2, OneSession

LEMMA SessionsCleared ==
    ASSUME StateInv, NEW kinds, nextId' = nextId,
           session' = [k \in Kinds |-> IF k \in kinds THEN None ELSE session[k]]
    PROVE  /\ SessionsOK'
           /\ \A k \in Kinds : session'[k] = IF k \in kinds THEN None ELSE session[k]
<1>1. nextId \in Nat \ {0} /\ SessionsOK
  BY DEF StateInv, EntityOK
<1>2. SessionOK(None, nextId) /\ ~None.off
  BY <1>1, NoneFits
<1>3. \A k \in Kinds : session'[k] = IF k \in kinds THEN None ELSE session[k]
  OBVIOUS
<1>4. \A k \in Kinds : SessionOK(session'[k], nextId)
  BY <1>1, <1>2, <1>3 DEF SessionsOK
<1>5. session' \in [Kinds -> SessionType]
  BY <1>3, <1>4 DEF SessionOK
<1>6. session'["ForceCharge"] = None \/ session'["ForceDischarge"] = None
  BY <1>1, <1>3 DEF SessionsOK, Kinds
<1> QED BY <1>3, <1>4, <1>5, <1>6 DEF SessionsOK, SessionOK

(* A step that sends s.                                                    *)
LEMMA SentState ==
    ASSUME StateInv, UNCHANGED <<config, entity, nextId>>, NEW s \in Seq(CallType), Send(s),
           SessionsOK', session'["ForceCharge"].id \in {0, session["ForceCharge"].id},
           AllFit(s, nextId, session'["ForceCharge"].id),
           faults' \in 0 .. MaxFaults, excuse' \subseteq Excuses
    PROVE  StateInv'
<1>1. nextId \in Nat /\ nextId \in 1 .. MaxSessions + 1 /\ EntityOK /\ ConfigOK
  BY DEF StateInv, EntityOK
<1>2. CallsOK'
  BY <1>1, CallsLater
<1>3. EntityOK'
  BY <1>1, EntityKept
<1> QED BY <1>1, <1>2, <1>3, ConfigKept DEF StateInv

-----------------------------------------------------------------------------
(* The invariants: of the values to come.                                  *)

(* A discharge that waits for its limit to be written.                     *)
OnItsWay == Beginning("ForceDischarge") /\ ~session["ForceDischarge"].off

(* The floor to come is that of the mode to come.                          *)
FloorInv ==
    "fault" \notin excuse =>
        \A m, f : Final("mode", m) /\ Final("floor", f)
                    => (f = "session" <=> m = "ForceDischarge")

(* A forced mode to come has a session that runs or is on its way.         *)
ForcedExcuses == {"fault", "replaced", "raced", "overridden"}
ForcedInv ==
    excuse \intersect ForcedExcuses = {} =>
        \A k \in Kinds : Final("mode", k)
            => Running(k) \/ (k = "ForceDischarge" /\ OnItsWay)

(* A session that runs, or is on its way, has its mode to come.            *)
InForceExcuses == {"fault", "overridden", "resumed"}
InForceInv ==
    excuse \intersect InForceExcuses = {} =>
        \A m : Final("mode", m)
            => /\ \A k \in Kinds : (Running(k) => m = k)
               /\ (OnItsWay => m = "ForceDischarge")

(* The limit to come is the configured one, but while a discharge runs and *)
(* before the hook's watts are refused.                                    *)
LimitExcuses == {"fault", "unit"}
LimitInv ==
    excuse \intersect LimitExcuses = {} =>
        \A l : Final("limit", l)
            => Running("ForceDischarge") \/ l = Configured \/ Refused(calls)

AgreeInv == FloorInv /\ ForcedInv /\ InForceInv /\ LimitInv
Inv == StateInv /\ AgreeInv

LEMMA FloorStep ==
    ASSUME FloorInv, excuse \subseteq excuse',
           "fault" \in excuse' \/ SameMode \/ \E m : NewMode(m)
    PROVE  FloorInv'
<1> SUFFICES ASSUME "fault" \notin excuse', NEW m, NEW f, Final("mode", m)', Final("floor", f)'
             PROVE  f = "session" <=> m = "ForceDischarge"
  BY DEF FloorInv
<1>1. CASE SameMode
  <2>1. Final("mode", m) /\ Final("floor", f) /\ "fault" \notin excuse
    BY <1>1 DEF SameMode
  <2> QED BY <2>1 DEF FloorInv
<1>2. CASE \E x : NewMode(x)
  <2>1. f = FloorOf(m)
    BY <1>2 DEF NewMode
  <2> QED BY <2>1 DEF FloorOf
<1> QED BY <1>1, <1>2

LEMMA ForcedStep ==
    ASSUME ForcedInv, excuse \subseteq excuse',
           \/ excuse' \intersect ForcedExcuses # {}
           \/ \E m : /\ NewMode(m)
                     /\ m \in Kinds => Running(m)' \/ (m = "ForceDischarge" /\ OnItsWay')
           \/ /\ SameMode
              /\ \A k \in Kinds : Running(k) => Running(k)'
              /\ OnItsWay => OnItsWay' \/ Running("ForceDischarge")'
    PROVE  ForcedInv'
<1> SUFFICES ASSUME excuse' \intersect ForcedExcuses = {}, NEW k \in Kinds, Final("mode", k)'
             PROVE  Running(k)' \/ (k = "ForceDischarge" /\ OnItsWay')
  BY DEF ForcedInv
<1>1. ASSUME NEW m, NewMode(m), m \in Kinds => Running(m)' \/ (m = "ForceDischarge" /\ OnItsWay')
      PROVE  Running(k)' \/ (k = "ForceDischarge" /\ OnItsWay')
  <2>1. k = m
    BY <1>1 DEF NewMode
  <2> QED BY <1>1, <2>1
<1>2. ASSUME SameMode, \A j \in Kinds : Running(j) => Running(j)',
             OnItsWay => OnItsWay' \/ Running("ForceDischarge")'
      PROVE  Running(k)' \/ (k = "ForceDischarge" /\ OnItsWay')
  <2>1. Final("mode", k) /\ excuse \intersect ForcedExcuses = {}
    BY <1>2 DEF SameMode
  <2>2. Running(k) \/ (k = "ForceDischarge" /\ OnItsWay)
    BY <2>1 DEF ForcedInv
  <2> QED BY <1>2, <2>2
<1> QED BY <1>1, <1>2

LEMMA InForceStep ==
    ASSUME InForceInv, excuse \subseteq excuse',
           \/ excuse' \intersect InForceExcuses # {}
           \/ (\A k \in Kinds : ~Running(k)') /\ ~OnItsWay'
           \/ \E m : /\ NewMode(m) /\ \A k \in Kinds : Running(k)' => m = k
                     /\ OnItsWay' => m = "ForceDischarge"
           \/ /\ SameMode
              /\ \A k \in Kinds :
                   Running(k)' => Running(k) \/ (k = "ForceDischarge" /\ OnItsWay)
              /\ OnItsWay' => OnItsWay \/ Running("ForceDischarge")
    PROVE  InForceInv'
<1> SUFFICES ASSUME excuse' \intersect InForceExcuses = {}, NEW m, Final("mode", m)'
             PROVE  /\ \A k \in Kinds : (Running(k)' => m = k)
                    /\ OnItsWay' => m = "ForceDischarge"
  BY DEF InForceInv
<1>1. CASE (\A k \in Kinds : ~Running(k)') /\ ~OnItsWay'
  BY <1>1
<1>2. ASSUME NEW x, NewMode(x), \A k \in Kinds : Running(k)' => x = k,
             OnItsWay' => x = "ForceDischarge"
      PROVE  /\ \A k \in Kinds : (Running(k)' => m = k)
             /\ OnItsWay' => m = "ForceDischarge"
  <2>1. m = x
    BY <1>2 DEF NewMode
  <2> QED BY <1>2, <2>1
<1>3. ASSUME SameMode,
             \A k \in Kinds : Running(k)' => Running(k) \/ (k = "ForceDischarge" /\ OnItsWay),
             OnItsWay' => OnItsWay \/ Running("ForceDischarge")
      PROVE  /\ \A k \in Kinds : (Running(k)' => m = k)
             /\ OnItsWay' => m = "ForceDischarge"
  <2>1. Final("mode", m) /\ excuse \intersect InForceExcuses = {}
    BY <1>3 DEF SameMode
  <2>2. /\ \A k \in Kinds : (Running(k) => m = k)
        /\ OnItsWay => m = "ForceDischarge"
    BY <2>1 DEF InForceInv
  <2> QED BY <1>3, <2>2 DEF Kinds
<1> QED BY <1>1, <1>2, <1>3

LEMMA LimitStep ==
    ASSUME LimitInv, excuse \subseteq excuse', UNCHANGED config,
           \/ excuse' \intersect LimitExcuses # {}
           \/ NewLimit
           \/ Running("ForceDischarge")'
           \/ SameLimit /\ ~Running("ForceDischarge")
    PROVE  LimitInv'
<1>1. UNCHANGED Configured
  BY DEF config, Configured, _convert_and_clamp_power_for_write
<1> SUFFICES ASSUME excuse' \intersect LimitExcuses = {}, NEW l, Final("limit", l)'
             PROVE  Running("ForceDischarge")' \/ l = Configured \/ Refused(calls)'
  BY <1>1 DEF LimitInv
<1>2. CASE NewLimit
  BY <1>2 DEF NewLimit
<1>3. CASE SameLimit /\ ~Running("ForceDischarge")
  <2>1. Final("limit", l) /\ excuse \intersect LimitExcuses = {}
    BY <1>3 DEF SameLimit
  <2> QED BY <1>3, <2>1 DEF LimitInv, SameLimit
<1> QED BY <1>2, <1>3

-----------------------------------------------------------------------------
LEMMA ConcatBegin ==
    ASSUME NEW C, NEW a \in Seq(C), NEW b \in Seq(C), NEW id, BeginIn(a \o b, id)
    PROVE  BeginIn(a, id) \/ BeginIn(b, id)
<1>1. PICK i \in 1 .. Len(a \o b) : (a \o b)[i].by = "begin" /\ (a \o b)[i].id = id
  BY DEF BeginIn
<1>2. Len(a) \in Nat /\ Len(b) \in Nat /\ Len(a \o b) = Len(a) + Len(b)
  OBVIOUS
<1>3. CASE i <= Len(a)
  <2>1. i \in 1 .. Len(a) /\ (a \o b)[i] = a[i]
    BY <1>2, <1>3
  <2> QED BY <1>1, <2>1 DEF BeginIn
<1>4. CASE i > Len(a)
  <2>1. i - Len(a) \in 1 .. Len(b) /\ (a \o b)[i] = b[i - Len(a)]
    BY <1>2, <1>4
  <2> QED BY <1>1, <2>1 DEF BeginIn
<1> QED BY <1>2, <1>3, <1>4

LEMMA BeginFits ==
    ASSUME NEW s \in Seq(CallType), NEW n \in Nat, NEW other, AllFit(s, n, other),
           NEW id, BeginIn(s, id)
    PROVE  id \in 1 .. n - 1 /\ id # other
<1>1. PICK i \in 1 .. Len(s) : s[i].by = "begin" /\ s[i].id = id
  BY DEF BeginIn
<1>2. s[i] \in CallType /\ CallFits(s[i], n, other)
  BY DEF AllFit
<1> QED BY <1>1, <1>2 DEF CallFits, CallType

(* A session that is not there neither runs nor begins; there is one.      *)
LEMMA NoneIdle ==
    ASSUME StateInv, NEW k \in Kinds, session[k] = None
    PROVE  ~Running(k) /\ ~Beginning(k) /\ (k = "ForceDischarge" => ~OnItsWay)
<1>1. ~Running(k)
  BY DEF Running, None
<1>2. ~Beginning(k)
  <2> SUFFICES ASSUME Beginning(k) PROVE FALSE
    OBVIOUS
  <2>1. BeginIn(calls, session[k].id) /\ session[k].id = 0
    BY DEF Beginning, BeginIn, None
  <2>2. calls \in Seq(CallType) /\ nextId \in Nat /\ AllFit(calls, nextId, session["ForceCharge"].id)
    BY DEF StateInv, CallsOK, EntityOK
  <2> QED BY <2>1, <2>2, BeginFits
<1> QED BY <1>1, <1>2 DEF OnItsWay

LEMMA NoneIdleLater ==
    ASSUME StateInv', NEW k \in Kinds, session'[k] = None
    PROVE  ~Running(k)' /\ (k = "ForceDischarge" => ~OnItsWay')
<1>1. ~Running(k)'
  BY DEF Running, None
<1>2. ASSUME k = "ForceDischarge", Beginning("ForceDischarge")' PROVE FALSE
  <2>1. \E i \in 1 .. Len(calls') : calls'[i].by = "begin" /\ calls'[i].id = 0
    BY <1>2 DEF Beginning, None
  <2>2. \A i \in 1 .. Len(calls') : calls'[i].by = "begin" => calls'[i].id # 0
    BY DEF StateInv, CallsOK, AllFit, CallFits
  <2> QED BY <2>1, <2>2
<1> QED BY <1>1, <1>2 DEF OnItsWay

LEMMA OtherIdle ==
    ASSUME StateInv, NEW k \in Kinds, session[k] # None, NEW j \in Kinds, j # k
    PROVE  session[j] = None
  BY DEF StateInv, SessionsOK, Kinds

LEMMA RunningThere ==
    ASSUME StateInv, NEW k \in Kinds, Running(k) \/ session[k].started
    PROVE  session[k] # None /\ session[k].started
<1>1. session[k].started
  BY DEF StateInv, SessionsOK, SessionOK, Running
<1>2. ~None.started
  BY DEF None
<1> QED BY <1>1, <1>2

(* What is sent begins no session that is there or is new.                 *)
LEMMA NoNewBegin ==
    ASSUME StateInv, NEW s \in Seq(CallType), calls' = calls \o s, \A id : ~BeginIn(s, id),
           session'["ForceDischarge"].id \in {session["ForceDischarge"].id, nextId},
           Beginning("ForceDischarge")'
    PROVE  Beginning("ForceDischarge")
<1> DEFINE id == session'["ForceDischarge"].id
<1>1. calls \in Seq(CallType) /\ nextId \in Nat /\ AllFit(calls, nextId, session["ForceCharge"].id)
  BY DEF StateInv, CallsOK, EntityOK
<1>2. BeginIn(calls \o s, id)
  BY DEF Beginning, BeginIn
<1> HIDE DEF id
<1>3. BeginIn(calls, id)
  BY <1>1, <1>2, ConcatBegin
<1>4. id # nextId
  BY <1>1, <1>3, BeginFits
<1> QED BY <1>3, <1>4 DEF id, Beginning, BeginIn

-----------------------------------------------------------------------------
(* The services.                                                           *)
LEMMA FitNoBegin ==
    ASSUME NEW s \in Seq(CallType), NEW other, AllFit(s, 1, other) PROVE \A id : ~BeginIn(s, id)
<1> SUFFICES ASSUME NEW id, BeginIn(s, id) PROVE FALSE
  OBVIOUS
<1>1. id \in 1 .. 1 - 1
  BY BeginFits
<1> QED BY <1>1

LEMMA Refusal == ASSUME NEW n \in 0 .. 2 PROVE n = 2 \/ FaultIf(n) = {"fault"}
  BY DEF FaultIf, Raises

LEMMA FaultExcuses ==
    ASSUME "fault" \in excuse', AgreeInv, excuse \subseteq excuse', UNCHANGED config
    PROVE  AgreeInv'
<1>1. /\ excuse' \intersect ForcedExcuses # {} /\ excuse' \intersect InForceExcuses # {}
      /\ excuse' \intersect LimitExcuses # {}
  BY DEF ForcedExcuses, InForceExcuses, LimitExcuses
<1> QED BY <1>1, FloorStep, ForcedStep, InForceStep, LimitStep DEF AgreeInv

(* A start forces its mode; a deferred one only restores the limit, and    *)
(* leaves behind what the session before it forced.                        *)
LEMMA StartStep ==
    ASSUME Inv, NEW k \in Kinds, NEW deferred \in BOOLEAN, NEW n \in 0 .. 2, Start(k, deferred, n)
    PROVE  Inv'
<1>1. StateInv /\ AgreeInv /\ StateInv' /\ UNCHANGED <<config, entity>>
  BY StartState DEF Inv, Start
<1>2. excuse' = excuse \union FaultIf(n) \union (IF deferred THEN Left(Kinds) ELSE {})
  BY DEF Start
<1>3. CASE n # 2
  <2>1. "fault" \in excuse' /\ excuse \subseteq excuse'
    BY <1>2, <1>3, Refusal
  <2> QED BY <1>1, <2>1, FaultExcuses DEF Inv
<1>4. CASE n = 2
  <2> DEFINE kinds == {k} \union {j \in Kinds : session[j] # None}
             other == session'["ForceCharge"].id
  <2>1. session' = Replaced(k, NewSession(deferred)) /\ nextId \in 1 .. MaxSessions
    BY <1>4 DEF Start, Raises, NewSession, Inv, StateInv, EntityOK
  <2>2. /\ session'[k] = NewSession(deferred) /\ \A j \in Kinds \ {k} : session'[j] = None
        /\ session'[k].id = nextId /\ (session'[k].started <=> ~deferred)
        /\ ~session'[k].off
    BY <2>1, NewFits, ReplacedSession
  <2>3. PICK s : s = StartSends(k, deferred, n, kinds)
    OBVIOUS
  <2>4. calls' = calls \o s
    BY <2>3 DEF Start, Send, StartSends
  <2>5. k = "ForceDischarge" => other = 0
    BY <2>2 DEF Kinds, None
  <2>6. kinds # {}
    OBVIOUS
  <2> HIDE DEF kinds, other
  <2>7. /\ s \in Seq(CallType) /\ AllFit(s, nextId + 1, other) /\ Restores(s)
        /\ deferred => Quiet(s) /\ AllFit(s, 1, other)
        /\ ~deferred => Sets(s, k)
    BY <1>1, <1>4, <2>3, <2>5, <2>6, StartEffect
  <2>8. (~deferred => NewMode(k)) /\ (deferred => SameMode) /\ NewLimit
    BY <1>1, <2>4, <2>7, SentEffect
  <2>9. excuse \subseteq excuse'
    BY <1>2
  <2>10. FloorInv' /\ LimitInv'
    BY <1>1, <2>8, <2>9, FloorStep, LimitStep DEF AgreeInv
  <2>11. ForcedInv'
    <3>1. CASE ~deferred
      <4>1. Running(k)'
        BY <2>2, <3>1 DEF Running
      <4> QED BY <1>1, <2>8, <2>9, <3>1, <4>1, ForcedStep DEF AgreeInv
    <3>2. CASE deferred /\ \E j \in Kinds : Running(j) \/ Beginning(j)
      <4>1. excuse' \intersect ForcedExcuses # {}
        BY <1>2, <3>2 DEF Left, ForcedExcuses
      <4> QED BY <1>1, <2>9, <4>1, ForcedStep DEF AgreeInv
    <3>3. CASE deferred /\ ~\E j \in Kinds : Running(j) \/ Beginning(j)
      <4>1. (\A j \in Kinds : ~Running(j)) /\ ~OnItsWay
        BY <3>3 DEF OnItsWay, Kinds
      <4> QED BY <1>1, <2>8, <2>9, <3>3, <4>1, ForcedStep DEF AgreeInv
    <3> QED BY <3>1, <3>2, <3>3
  <2>12. \A j \in Kinds \ {k} : ~Running(j)' /\ (j = "ForceDischarge" => ~OnItsWay')
    BY <1>1, <2>2, NoneIdleLater
  <2>13. InForceInv'
    <3>1. CASE ~deferred
      <4>1. \A j \in Kinds : Running(j)' => k = j
        BY <2>12
      <4>2. OnItsWay' => k = "ForceDischarge"
        BY <2>12 DEF Kinds
      <4> QED BY <1>1, <2>8, <2>9, <3>1, <4>1, <4>2, InForceStep DEF AgreeInv
    <3>2. CASE deferred
      <4>1. ~Running(k)'
        BY <2>2, <3>2 DEF Running
      <4>2. ASSUME k = "ForceDischarge" PROVE ~OnItsWay'
        <5> SUFFICES ASSUME Beginning("ForceDischarge")' PROVE FALSE
          BY DEF OnItsWay
        <5>1. \A id : ~BeginIn(s, id)
          BY <2>7, <3>2, FitNoBegin
        <5>2. calls \in Seq(CallType) /\ nextId \in Nat /\ AllFit(calls, nextId, session["ForceCharge"].id)
          BY <1>1 DEF StateInv, CallsOK, EntityOK
        <5>3. BeginIn(calls \o s, nextId)
          BY <2>2, <2>4, <4>2 DEF Beginning, BeginIn
        <5>4. BeginIn(calls, nextId)
          BY <2>7, <5>1, <5>2, <5>3, ConcatBegin
        <5> QED BY <5>2, <5>4, BeginFits
      <4>3. (\A j \in Kinds : ~Running(j)') /\ ~OnItsWay'
        BY <2>12, <4>1, <4>2 DEF Kinds
      <4> QED BY <1>1, <2>9, <4>3, InForceStep DEF AgreeInv
    <3> QED BY <3>1, <3>2
  <2> QED BY <1>1, <2>10, <2>11, <2>13 DEF Inv, AgreeInv
<1> QED BY <1>3, <1>4

(* The override is cleared, of both sessions or of one.                    *)
LEMMA ClearStep == ASSUME Inv, handle_clear_overrides PROVE Inv'
<1>1. StateInv /\ AgreeInv
  BY DEF Inv
<1>2. PICK kinds \in (SUBSET Kinds) \ {{}} : \E n \in 0 .. 2 :
        /\ Fault(n)
        /\ session' = [k \in Kinds |-> IF k \in kinds THEN None ELSE session[k]]
        /\ Send(Hooks(kinds) \o apply_mode("SelfUse", n))
        /\ excuse' = excuse \union FaultIf(n)
             \union (IF \E k \in Kinds \ kinds : Running(k) \/ Beginning(k)
                     THEN {"overridden"} ELSE {})
        /\ UNCHANGED <<config, entity, nextId>>
  BY DEF handle_clear_overrides
<1>3. PICK n \in 0 .. 2 :
        /\ Fault(n)
        /\ session' = [k \in Kinds |-> IF k \in kinds THEN None ELSE session[k]]
        /\ Send(Hooks(kinds) \o apply_mode("SelfUse", n))
        /\ excuse' = excuse \union FaultIf(n)
             \union (IF \E k \in Kinds \ kinds : Running(k) \/ Beginning(k)
                     THEN {"overridden"} ELSE {})
        /\ UNCHANGED <<config, entity, nextId>>
  BY <1>2
<1>4. PICK s : s = Hooks(kinds) \o apply_mode("SelfUse", n)
  OBVIOUS
<1> DEFINE other == session'["ForceCharge"].id
<1>5. /\ SessionsOK' /\ nextId \in Nat \ {0} /\ kinds # {}
      /\ \A k \in Kinds : session'[k] = IF k \in kinds THEN None ELSE session[k]
  <2>1. kinds # {}
    OBVIOUS
  <2>2. nextId' = nextId /\ nextId \in Nat \ {0}
    BY <1>1, <1>3 DEF StateInv, EntityOK
  <2>3. session' = [k \in Kinds |-> IF k \in kinds THEN None ELSE session[k]]
    BY <1>3
  <2>4. SessionsOK'
    BY <1>1, <2>2, <2>3, SessionsCleared
  <2>5. \A k \in Kinds : session'[k] = IF k \in kinds THEN None ELSE session[k]
    BY <2>3
  <2> QED BY <2>1, <2>2, <2>4, <2>5
<1>6. other \in {0, session["ForceCharge"].id}
  <2>1. session'["ForceCharge"] = None \/ session'["ForceCharge"] = session["ForceCharge"]
    BY <1>5 DEF Kinds
  <2> QED BY <2>1 DEF None
<1> HIDE DEF other
<1>7. /\ s \in Seq(CallType) /\ AllFit(s, nextId, other) /\ AllFit(s, 1, other) /\ Restores(s)
      /\ n = 2 => Sets(s, "SelfUse")
  <2>1. 1 \in Nat \ {0}
    OBVIOUS
  <2>2. AllFit(s, 1, other)
    BY <1>1, <1>4, <1>5, <2>1, ClearEffect
  <2>3. /\ s \in Seq(CallType) /\ AllFit(s, nextId, other) /\ Restores(s)
        /\ n = 2 => Sets(s, "SelfUse")
    BY <1>1, <1>4, <1>5, ClearEffect
  <2> QED BY <2>2, <2>3
<1>8. Send(s) /\ calls' = calls \o s
  BY <1>3, <1>4 DEF Send
<1>9. excuse \subseteq excuse' /\ excuse' \subseteq Excuses /\ faults' \in 0 .. MaxFaults
  <2>1. faults' \in 0 .. MaxFaults /\ FaultIf(n) \subseteq Excuses /\ excuse \subseteq Excuses
    BY <1>1, <1>3, FaultCounted DEF StateInv, EntityOK
  <2> QED BY <1>3, <2>1 DEF Excuses
<1>10. StateInv'
  BY <1>1, <1>3, <1>5, <1>6, <1>7, <1>8, <1>9, SentState DEF other
<1>11. (n = 2 => NewMode("SelfUse")) /\ NewLimit
  BY <1>1, <1>3, <1>7, <1>8, SentEffect
<1>12. CASE n # 2
  <2>1. "fault" \in excuse'
    BY <1>3, <1>12, Refusal
  <2> QED BY <1>1, <1>3, <1>9, <1>10, <2>1, FaultExcuses DEF Inv
<1>13. CASE n = 2
  <2>1. FloorInv' /\ LimitInv'
    BY <1>1, <1>3, <1>9, <1>11, <1>13, FloorStep, LimitStep DEF AgreeInv
  <2>2. ForcedInv'
    <3>1. "SelfUse" \notin Kinds
      BY DEF Kinds
    <3> QED BY <1>1, <1>9, <1>11, <1>13, <3>1, ForcedStep DEF AgreeInv
  <2>3. CASE \E k \in Kinds \ kinds : Running(k) \/ Beginning(k)
    <3>1. excuse' \intersect InForceExcuses # {}
      BY <1>3, <2>3 DEF InForceExcuses
    <3>2. InForceInv'
      BY <1>1, <1>9, <3>1, InForceStep DEF AgreeInv
    <3> QED BY <1>10, <2>1, <2>2, <3>2 DEF Inv, AgreeInv
  <2>4. CASE ~\E k \in Kinds \ kinds : Running(k) \/ Beginning(k)
    <3>1. ASSUME NEW k \in Kinds PROVE ~Running(k)' /\ (k = "ForceDischarge" => ~OnItsWay')
      <4>1. CASE k \in kinds
        BY <1>5, <1>10, <4>1, NoneIdleLater
      <4>2. CASE k \notin kinds
        <5>1. session'[k] = session[k] /\ ~Running(k) /\ ~Beginning(k)
          BY <1>5, <2>4, <4>2
        <5>2. ~Running(k)'
          BY <5>1 DEF Running
        <5>3. ASSUME k = "ForceDischarge" PROVE ~Beginning("ForceDischarge")'
          <6>1. \A id : ~BeginIn(s, id)
            BY <1>7, FitNoBegin
          <6> QED BY <1>1, <1>7, <1>8, <5>1, <5>3, <6>1, NoNewBegin
        <5> QED BY <5>2, <5>3 DEF OnItsWay
      <4> QED BY <4>1, <4>2
    <3>2. (\A k \in Kinds : ~Running(k)') /\ ~OnItsWay'
      BY <3>1 DEF Kinds
    <3>3. InForceInv'
      BY <1>1, <1>9, <3>2, InForceStep DEF AgreeInv
    <3> QED BY <1>10, <2>1, <2>2, <3>3 DEF Inv, AgreeInv
  <2> QED BY <2>3, <2>4
<1> QED BY <1>12, <1>13

(* Feed-in takes the mode of whatever session is there.                    *)
LEMMA FeedinStep == ASSUME Inv, handle_feedin PROVE Inv'
<1>1. StateInv /\ AgreeInv
  BY DEF Inv
<1>2. PICK n \in 0 .. 2 :
        /\ Fault(n)
        /\ Send(apply_mode("Feedin", n))
        /\ excuse' = excuse \union FaultIf(n)
             \union (IF \E k \in Kinds : Running(k) \/ Beginning(k)
                     THEN {"overridden"} ELSE {})
        /\ UNCHANGED <<config, entity, session, nextId>>
  BY DEF handle_feedin
<1>3. PICK s : s = apply_mode("Feedin", n)
  OBVIOUS
<1>4. Send(s) /\ calls' = calls \o s
  BY <1>2, <1>3 DEF Send
<1> DEFINE other == session["ForceCharge"].id
<1>5. /\ s \in Seq(CallType) /\ AllFit(s, nextId, other) /\ AllFit(s, 1, other)
      /\ NoCall(s, "limit")
      /\ n = 2 => Sets(s, "Feedin")
  <2>1. 1 \in Nat \ {0} /\ nextId \in Nat \ {0} /\ "Feedin" \in Modes
    BY <1>1 DEF StateInv, EntityOK, Modes
  <2>2. AllFit(s, 1, other)
    BY <1>3, <2>1, AppliedEffect
  <2>3. /\ s \in Seq(CallType) /\ AllFit(s, nextId, other) /\ NoCall(s, "limit")
        /\ n = 2 => Sets(s, "Feedin")
    BY <1>3, <2>1, AppliedEffect
  <2> QED BY <2>2, <2>3
<1>6. excuse \subseteq excuse' /\ excuse' \subseteq Excuses /\ faults' \in 0 .. MaxFaults
  <2>1. faults' \in 0 .. MaxFaults /\ FaultIf(n) \subseteq Excuses /\ excuse \subseteq Excuses
    BY <1>1, <1>2, FaultCounted DEF StateInv, EntityOK
  <2> QED BY <1>2, <2>1 DEF Excuses
<1>7. StateInv'
  <2>1. SessionsOK'
    BY <1>1, <1>2, SessionsKept DEF StateInv
  <2> QED BY <1>1, <1>2, <1>4, <1>5, <1>6, <2>1, SentState
<1>8. (n = 2 => NewMode("Feedin")) /\ SameLimit
  BY <1>1, <1>2, <1>4, <1>5, SentEffect
<1>9. CASE n # 2
  <2>1. "fault" \in excuse'
    BY <1>2, <1>9, Refusal
  <2> QED BY <1>1, <1>2, <1>6, <1>7, <2>1, FaultExcuses DEF Inv
<1>10. CASE n = 2
  <2>1. \A k \in Kinds : Running(k)' <=> Running(k)
    BY <1>2 DEF Running
  <2>2. FloorInv' /\ LimitInv'
    BY <1>1, <1>2, <1>6, <1>8, <1>10, <2>1, FloorStep, LimitStep DEF AgreeInv, Kinds
  <2>3. ForcedInv'
    <3>1. "Feedin" \notin Kinds
      BY DEF Kinds
    <3> QED BY <1>1, <1>6, <1>8, <1>10, <3>1, ForcedStep DEF AgreeInv
  <2>4. CASE \E k \in Kinds : Running(k) \/ Beginning(k)
    <3>1. excuse' \intersect InForceExcuses # {}
      BY <1>2, <2>4 DEF InForceExcuses
    <3>2. InForceInv'
      BY <1>1, <1>6, <3>1, InForceStep DEF AgreeInv
    <3> QED BY <1>7, <2>2, <2>3, <3>2 DEF Inv, AgreeInv
  <2>5. CASE ~\E k \in Kinds : Running(k) \/ Beginning(k)
    <3>1. \A id : ~BeginIn(s, id)
      BY <1>5, FitNoBegin
    <3>2. ~Beginning("ForceDischarge")'
      BY <1>1, <1>2, <1>4, <1>5, <2>5, <3>1, NoNewBegin DEF Kinds
    <3>3. (\A k \in Kinds : ~Running(k)') /\ ~OnItsWay'
      BY <2>1, <2>5, <3>2 DEF OnItsWay
    <3>4. InForceInv'
      BY <1>1, <1>6, <3>3, InForceStep DEF AgreeInv
    <3> QED BY <1>7, <2>2, <2>3, <3>4 DEF Inv, AgreeInv
  <2> QED BY <2>4, <2>5
<1> QED BY <1>9, <1>10

-----------------------------------------------------------------------------
(* The listeners.                                                          *)

(* What is so of a session that is there, and of the other.                *)
LEMMA ThereFacts ==
    ASSUME StateInv, NEW k \in Kinds, session[k] # None
    PROVE  /\ nextId \in Nat \ {0} /\ SessionsOK /\ SessionOK(session[k], nextId)
           /\ session[k].id \in Nat \ {0} /\ session[k].id < nextId
           /\ \A j \in Kinds \ {k} : session[j] = None /\ ~Running(j) /\ ~Beginning(j)
           /\ k = "ForceCharge" => ~OnItsWay
           /\ k = "ForceDischarge" => session["ForceCharge"].id = 0
<1>1. nextId \in Nat \ {0} /\ SessionsOK /\ SessionOK(session[k], nextId)
  BY DEF StateInv, EntityOK, SessionsOK
<1>2. session[k].id \in Nat \ {0} /\ session[k].id < nextId
  BY <1>1 DEF SessionOK, SessionType
<1>3. \A j \in Kinds \ {k} : session[j] = None
  BY OtherIdle
<1>4. \A j \in Kinds \ {k} : ~Running(j) /\ ~Beginning(j)
  BY <1>3, NoneIdle
<1>5. k = "ForceCharge" => ~OnItsWay
  BY <1>3, NoneIdle DEF Kinds
<1>6. k = "ForceDischarge" => session["ForceCharge"].id = 0
  <2>1. k = "ForceDischarge" => session["ForceCharge"] = None
    BY <1>3 DEF Kinds
  <2> QED BY <2>1 DEF None
<1> QED BY <1>1, <1>2, <1>3, <1>4, <1>5, <1>6

(* The mode of a session that runs is sent.                                *)
LEMMA ForcedByApply ==
    ASSUME Inv, StateInv', NEW k \in Kinds, NEW s \in Seq(CallType), NEW other,
           AllFit(s, nextId, other), Sets(s, k), NoCall(s, "limit"), calls' = calls \o s,
           UNCHANGED <<config, entity>>, excuse \subseteq excuse', Running(k)',
           \A j \in Kinds \ {k} : session[j] = None /\ session'[j] = None
    PROVE  AgreeInv'
<1>1. StateInv /\ AgreeInv /\ UNCHANGED config
  BY DEF Inv
<1>2. NewMode(k) /\ SameLimit
  BY <1>1, SentEffect
<1>3. FloorInv'
  BY <1>1, <1>2, FloorStep DEF AgreeInv
<1>4. ForcedInv'
  BY <1>1, <1>2, ForcedStep DEF AgreeInv
<1>5. \A j \in Kinds \ {k} : ~Running(j)' /\ (j = "ForceDischarge" => ~OnItsWay')
  BY NoneIdleLater
<1>6. InForceInv'
  <2>1. \A j \in Kinds : Running(j)' => k = j
    BY <1>5
  <2>2. OnItsWay' => k = "ForceDischarge"
    BY <1>5 DEF Kinds
  <2> QED BY <1>1, <1>2, <2>1, <2>2, InForceStep DEF AgreeInv
<1>7. LimitInv'
  <2>1. CASE k = "ForceDischarge"
    BY <1>1, <2>1, LimitStep DEF AgreeInv
  <2>2. CASE k # "ForceDischarge"
    <3>1. ~Running("ForceDischarge")
      BY <1>1, <2>2, NoneIdle DEF Kinds
    <3> QED BY <1>1, <1>2, <3>1, LimitStep DEF AgreeInv
  <2> QED BY <2>1, <2>2
<1> QED BY <1>3, <1>4, <1>6, <1>7 DEF AgreeInv

(* A deferred session starts: at once, or when its limit is written.       *)
LEMMA DeferredStep ==
    ASSUME Inv, NEW k \in Kinds, NEW n \in 0 .. 2, _start_deferred(k, n) PROVE Inv'
<1>1. /\ StateInv /\ AgreeInv /\ session[k] # None /\ ~session[k].started
      /\ UNCHANGED <<config, entity, nextId>> /\ excuse' = excuse \union FaultIf(n)
  BY DEF Inv, _start_deferred
<1>2. excuse \subseteq excuse' /\ excuse' \subseteq Excuses /\ faults' \in 0 .. MaxFaults
  <2>1. faults' \in 0 .. MaxFaults /\ FaultIf(n) \subseteq Excuses /\ excuse \subseteq Excuses
    BY <1>1, FaultCounted DEF StateInv, EntityOK, _start_deferred
  <2> QED BY <1>1, <2>1
<1>3. /\ nextId \in Nat \ {0} /\ SessionsOK /\ session[k].id \in Nat \ {0} /\ session[k].id < nextId
      /\ SessionOK(session[k], nextId)
      /\ \A j \in Kinds \ {k} : session[j] = None /\ ~Running(j)
      /\ k = "ForceDischarge" => session["ForceCharge"].id = 0
      /\ k \in Modes
  BY <1>1, ThereFacts DEF Modes
<1>5. CASE k = "ForceDischarge" /\ actuator /\ ~Raises(n)
  <2>1. n = 2
    BY <1>5 DEF Raises
  <2>2. PICK s : s = apply_mode("ForceDischarge", n)
                     \o set_export_limit_w(HwMax, "begin", session[k].id)
    OBVIOUS
  <2>3. Send(s) /\ calls' = calls \o s /\ session' = [session EXCEPT ![k].off = FALSE]
    BY <1>5, <2>2 DEF _start_deferred, Send
  <2> FALSE \in BOOLEAN
    OBVIOUS
  <2>11. /\ SessionsOK' /\ session'[k].id = session[k].id
         /\ ~session'[k].started /\ ~session'[k].off
         /\ \A j \in Kinds \ {k} : session'[j] = session[j]
    BY <1>1, <1>3, <2>3, SessionRests
  <2>12. session'["ForceCharge"].id = session["ForceCharge"].id
    BY <2>11 DEF Kinds
  <2>4. session[k].id # session["ForceCharge"].id
    BY <1>3, <1>5
  <2>5. /\ s \in Seq(CallType) /\ AllFit(s, nextId, session["ForceCharge"].id)
        /\ Sets(s, "ForceDischarge") /\ Restores(s)
        /\ \E i \in 1 .. Len(s) : s[i].by = "begin" /\ s[i].id = session[k].id
    <3>1. PICK id : id = session[k].id
      OBVIOUS
    <3>2. PICK other : other = session["ForceCharge"].id
      OBVIOUS
    <3>3. id \in Nat /\ id # 0 /\ id < nextId /\ id # other
      BY <1>3, <2>4, <3>1, <3>2
    <3>4. s = apply_mode("ForceDischarge", n) \o set_export_limit_w(HwMax, "begin", id)
      BY <2>2, <3>1
    <3>5. /\ s \in Seq(CallType) /\ AllFit(s, nextId, other)
          /\ n = 2 => Sets(s, "ForceDischarge")
          /\ Restores(s) /\ (actuator => BeginIn(s, id))
      BY <1>1, <3>3, <3>4, BeginEffect
    <3> QED BY <1>5, <2>1, <3>1, <3>2, <3>5 DEF BeginIn
  <2>6. StateInv'
    BY <1>1, <1>2, <2>3, <2>5, <2>11, <2>12, SentState
  <2>7. NewMode("ForceDischarge") /\ NewLimit
    BY <1>1, <2>3, <2>5, SentEffect
  <2>8. OnItsWay'
    <3>1. PICK i \in 1 .. Len(s) : s[i].by = "begin" /\ s[i].id = session[k].id
      BY <2>5
    <3>2. calls \in Seq(CallType)
      BY <1>1 DEF StateInv, CallsOK
    <3>3. Len(calls) + i \in 1 .. Len(calls \o s) /\ (calls \o s)[Len(calls) + i] = s[i]
      BY <2>5, <3>2
    <3>4. Beginning("ForceDischarge")'
      BY <1>5, <2>3, <2>11, <3>1, <3>3 DEF Beginning
    <3> QED BY <1>5, <2>11, <3>4 DEF OnItsWay
  <2>9. \A j \in Kinds : ~Running(j)'
    BY <1>3, <2>11 DEF Running
  <2>10. FloorInv' /\ LimitInv'
    BY <1>1, <1>2, <2>7, FloorStep, LimitStep DEF AgreeInv
  <2>13. ForcedInv'
    BY <1>1, <1>2, <2>7, <2>8, ForcedStep DEF AgreeInv
  <2>14. InForceInv'
    BY <1>1, <1>2, <2>7, <2>9, InForceStep DEF AgreeInv
  <2> QED BY <2>6, <2>10, <2>13, <2>14 DEF Inv, AgreeInv
<1>6. CASE ~(k = "ForceDischarge" /\ actuator /\ ~Raises(n))
  <2>1. PICK s : s = apply_mode(k, n)
    OBVIOUS
  <2>2. /\ Send(s) /\ calls' = calls \o s
        /\ session' = IF Raises(n) THEN session
                      ELSE [session EXCEPT ![k].started = TRUE, ![k].off = FALSE]
    BY <1>6, <2>1 DEF _start_deferred, Send
  <2> DEFINE other == session'["ForceCharge"].id
  <2>3. /\ s \in Seq(CallType) /\ AllFit(s, nextId, other) /\ NoCall(s, "limit")
        /\ n = 2 => Sets(s, k)
    BY <1>3, <2>1, AppliedEffect
  <2>4. CASE n = 2
    <3>1. session' = [session EXCEPT ![k].started = TRUE, ![k].off = FALSE]
      BY <2>2, <2>4 DEF Raises
    <3>2. /\ SessionsOK' /\ session'[k].id = session[k].id
          /\ session'[k].started /\ ~session'[k].off
          /\ \A j \in Kinds \ {k} : session'[j] = session[j]
      BY <1>1, <1>3, <3>1, SessionStarts
    <3>3. other = session["ForceCharge"].id
      BY <3>2 DEF Kinds
    <3> HIDE DEF other
    <3>4. StateInv'
      BY <1>1, <1>2, <2>2, <2>3, <3>2, <3>3, SentState DEF other
    <3>5. Running(k)'
      BY <3>2 DEF Running
    <3>6. \A j \in Kinds \ {k} : session[j] = None /\ session'[j] = None
      BY <1>3, <3>2
    <3>7. AgreeInv'
      BY <1>1, <1>2, <2>2, <2>3, <2>4, <3>4, <3>5, <3>6, ForcedByApply
    <3> QED BY <3>4, <3>7 DEF Inv
  <2>5. CASE n # 2
    <3>1. UNCHANGED session /\ "fault" \in excuse'
      BY <1>1, <2>2, <2>5, Refusal DEF Raises
    <3>2. SessionsOK'
      BY <1>1, <1>3, <3>1, SessionsKept
    <3>3. StateInv'
      BY <1>1, <1>2, <2>2, <2>3, <3>1, <3>2, SentState
    <3> QED BY <1>1, <1>2, <3>1, <3>3, FaultExcuses DEF Inv
  <2> QED BY <2>4, <2>5
<1> QED BY <1>5, <1>6

(* A session that runs, or runs again, is paced: its mode is sent, or with *)
(* an actuator its limit only.                                             *)
LEMMA PaceStep ==
    ASSUME Inv, NEW k \in Kinds, NEW n \in 0 .. 2, NEW x, x \subseteq {"resumed"}, Pace(k, n, x),
           session[k] # None, SessionsOK', session'[k].id = session[k].id, Running(k)',
           \A j \in Kinds \ {k} : session'[j] = session[j],
           Running(k) \/ "resumed" \in x \/ ~(k = "ForceDischarge" /\ actuator)
    PROVE  Inv'
<1>1. /\ StateInv /\ AgreeInv /\ UNCHANGED <<config, entity, nextId>>
      /\ excuse' = excuse \union x \union FaultIf(n)
  BY DEF Inv, Pace
<1>2. excuse \subseteq excuse' /\ excuse' \subseteq Excuses /\ faults' \in 0 .. MaxFaults
  <2>1. faults' \in 0 .. MaxFaults /\ FaultIf(n) \subseteq Excuses /\ excuse \subseteq Excuses
    BY <1>1, FaultCounted DEF StateInv, EntityOK, Pace
  <2>2. x \subseteq Excuses
    BY DEF Excuses
  <2> QED BY <1>1, <2>1, <2>2
<1>3. /\ nextId \in Nat \ {0} /\ session[k].id \in Nat \ {0} /\ session[k].id < nextId
      /\ \A j \in Kinds \ {k} : session[j] = None /\ ~Running(j)
      /\ k = "ForceCharge" => ~OnItsWay
      /\ k = "ForceDischarge" => session["ForceCharge"].id = 0
      /\ k \in Modes
  BY <1>1, ThereFacts DEF Modes
<1>4. \A j \in Kinds \ {k} : session[j] = None /\ session'[j] = None
  BY <1>3
<1>5. session'["ForceCharge"].id = session["ForceCharge"].id
  BY DEF Kinds
<1> DEFINE other == session'["ForceCharge"].id
<1>6. CASE k = "ForceDischarge" /\ actuator
  <2>1. PICK v \in Limits : n = 2 /\ Send(set_export_limit_w(v, "pace", session[k].id))
    BY <1>6 DEF Pace
  <2>2. PICK s : s = set_export_limit_w(v, "pace", session[k].id)
    OBVIOUS
  <2>3. Send(s) /\ calls' = calls \o s
    BY <2>1, <2>2 DEF Send
  <2>4. s \in Seq(CallType) /\ AllFit(s, nextId, other) /\ Quiet(s)
    <3>1. "pace" \in Senders /\ "pace" # "hook" /\ "pace" # "begin"
      BY DEF Senders
    <3>2. PICK id : id = session[k].id
      OBVIOUS
    <3>3. id \in Nat /\ id < nextId /\ id # 0 /\ id # other /\ nextId \in Nat /\ ConfigOK
      BY <1>1, <1>3, <1>5, <1>6, <3>2 DEF StateInv
    <3> HIDE DEF other
    <3>4. s = set_export_limit_w(v, "pace", id)
      BY <2>2, <3>2
    <3> QED BY <3>1, <3>3, <3>4, LimitEffect
  <2>5. StateInv'
    BY <1>1, <1>2, <1>5, <2>3, <2>4, SentState
  <2>6. SameMode
    BY <1>1, <2>3, <2>4, SentEffect
  <2>7. FloorInv' /\ LimitInv'
    BY <1>1, <1>2, <1>6, <2>6, FloorStep, LimitStep DEF AgreeInv
  <2>8. ForcedInv'
    <3>1. \A j \in Kinds : Running(j) => Running(j)'
      BY <1>3
    <3> QED BY <1>1, <1>2, <1>6, <2>6, <3>1, ForcedStep DEF AgreeInv
  <2>9. InForceInv'
    <3>1. CASE Running(k)
      <4>1. \A j \in Kinds : Running(j)' => Running(j)
        <5>1. \A j \in Kinds \ {k} : ~Running(j)'
          BY <1>4, <2>5, NoneIdleLater
        <5> QED BY <3>1, <5>1
      <4> QED BY <1>1, <1>2, <1>6, <2>6, <3>1, <4>1, InForceStep DEF AgreeInv
    <3>2. CASE "resumed" \in x
      <4>1. excuse' \intersect InForceExcuses # {}
        BY <1>1, <3>2 DEF InForceExcuses
      <4> QED BY <1>1, <1>2, <4>1, InForceStep DEF AgreeInv
    <3> QED BY <1>6, <3>1, <3>2
  <2> QED BY <2>5, <2>7, <2>8, <2>9 DEF Inv, AgreeInv
<1>7. CASE ~(k = "ForceDischarge" /\ actuator)
  <2>1. PICK s : s = apply_mode(k, n)
    OBVIOUS
  <2>2. Send(s) /\ calls' = calls \o s
    BY <1>7, <2>1 DEF Pace, Send
  <2>3. /\ s \in Seq(CallType) /\ AllFit(s, nextId, other) /\ NoCall(s, "limit")
        /\ n = 2 => Sets(s, k)
    BY <1>3, <2>1, AppliedEffect
  <2>4. StateInv'
    BY <1>1, <1>2, <1>5, <2>2, <2>3, SentState
  <2>5. CASE n = 2
    <3>1. AgreeInv'
      BY <1>1, <1>2, <1>4, <2>2, <2>3, <2>4, <2>5, ForcedByApply
    <3> QED BY <2>4, <3>1 DEF Inv
  <2>6. CASE n # 2
    <3>1. "fault" \in excuse'
      BY <1>1, <2>6, Refusal
    <3> QED BY <1>1, <1>2, <2>4, <3>1, FaultExcuses DEF Inv
  <2> QED BY <2>5, <2>6
<1> QED BY <1>6, <1>7

LEMMA AdjustStep ==
    ASSUME Inv, NEW k \in Kinds, NEW n \in 0 .. 2, _adjust_power(k, n) PROVE Inv'
<1>1. StateInv /\ Running(k) /\ Pace(k, n, {}) /\ UNCHANGED session /\ UNCHANGED nextId
  BY DEF Inv, _adjust_power, Pace
<1>2. session[k] # None
  BY <1>1, RunningThere
<1>3. SessionsOK'
  BY <1>1, SessionsKept DEF StateInv
<1>4. Running(k)'
  BY <1>1 DEF Running
<1>5. session'[k].id = session[k].id /\ \A j \in Kinds \ {k} : session'[j] = session[j]
  BY <1>1
<1>6. {} \subseteq {"resumed"}
  OBVIOUS
<1> QED BY <1>1, <1>2, <1>3, <1>4, <1>5, <1>6, PaceStep

LEMMA ResumeStep ==
    ASSUME Inv, NEW k \in Kinds, NEW n \in 0 .. 2, Resume(k, n) PROVE Inv'
<1> DEFINE x == IF k = "ForceDischarge" /\ actuator THEN {"resumed"} ELSE {}
<1>1. /\ StateInv /\ session[k].started
      /\ session' = [session EXCEPT ![k].off = FALSE]
      /\ Pace(k, n, x) /\ UNCHANGED nextId
  BY DEF Inv, Resume, Pace
<1>2. FALSE \in BOOLEAN
  OBVIOUS
<1>3. session[k] # None /\ session[k].started /\ SessionsOK
  BY <1>1, RunningThere DEF StateInv
<1>4. /\ SessionsOK' /\ session'[k].id = session[k].id
      /\ session'[k].started /\ (session'[k].off <=> FALSE)
      /\ \A j \in Kinds \ {k} : session'[j] = session[j]
  BY <1>1, <1>2, <1>3, SessionRests
<1>5. Running(k)'
  BY <1>4 DEF Running
<1>6. x \subseteq {"resumed"} /\ ("resumed" \in x \/ ~(k = "ForceDischarge" /\ actuator))
  OBVIOUS
<1> HIDE DEF x
<1> QED BY <1>1, <1>3, <1>4, <1>5, <1>6, PaceStep

(* The override of a session goes, and with it the limit; the session does *)
(* not run after that.                                                     *)
LEMMA RemovedStep ==
    ASSUME Inv, NEW k \in Kinds, NEW n \in 0 .. 2, Send(Removed(k, n)), Fault(n),
           excuse' = excuse \union FaultIf(n), UNCHANGED <<config, entity, nextId>>,
           SessionsOK', session[k] # None, session'[k].id = session[k].id,
           \A j \in Kinds \ {k} : session'[j] = session[j],
           ~Running(k)', k = "ForceDischarge" => ~OnItsWay'
    PROVE  Inv'
<1>1. StateInv /\ AgreeInv /\ nextId \in Nat \ {0} /\ UNCHANGED config
  BY DEF Inv, StateInv, EntityOK
<1>2. excuse \subseteq excuse' /\ excuse' \subseteq Excuses /\ faults' \in 0 .. MaxFaults
  <2>1. faults' \in 0 .. MaxFaults /\ FaultIf(n) \subseteq Excuses /\ excuse \subseteq Excuses
    BY <1>1, FaultCounted DEF StateInv, EntityOK
  <2> QED BY <2>1
<1>3. PICK s : s = Removed(k, n)
  OBVIOUS
<1>4. Send(s) /\ calls' = calls \o s
  BY <1>3 DEF Send
<1>5. session'["ForceCharge"].id = session["ForceCharge"].id
  BY DEF Kinds
<1> DEFINE other == session'["ForceCharge"].id
<1>6. /\ s \in Seq(CallType) /\ AllFit(s, nextId, other)
      /\ Restores(s) \/ (k # "ForceDischarge" /\ NoCall(s, "limit"))
      /\ n = 2 => Sets(s, "SelfUse")
  BY <1>1, <1>3, RemovedEffect
<1>7. StateInv'
  BY <1>1, <1>2, <1>4, <1>5, <1>6, SentState
<1>8. \A j \in Kinds \ {k} : session[j] = None /\ session'[j] = None
  BY <1>1, OtherIdle
<1>9. (\A j \in Kinds : ~Running(j)') /\ ~OnItsWay'
  <2>1. \A j \in Kinds \ {k} : ~Running(j)' /\ (j = "ForceDischarge" => ~OnItsWay')
    BY <1>7, <1>8, NoneIdleLater
  <2> QED BY <2>1 DEF Kinds
<1>10. LimitInv'
  <2>1. CASE Restores(s)
    <3>1. NewLimit
      BY <1>1, <1>4, <1>6, <2>1, SentEffect
    <3> QED BY <1>1, <1>2, <3>1, LimitStep DEF AgreeInv
  <2>2. CASE k # "ForceDischarge" /\ NoCall(s, "limit")
    <3>1. SameLimit
      BY <1>1, <1>4, <1>6, <2>2, SentEffect
    <3>2. ~Running("ForceDischarge")
      BY <1>1, <1>8, <2>2, NoneIdle DEF Kinds
    <3> QED BY <1>1, <1>2, <3>1, <3>2, LimitStep DEF AgreeInv
  <2> QED BY <1>6, <2>1, <2>2
<1>11. CASE n = 2
  <2>1. NewMode("SelfUse") /\ "SelfUse" \notin Kinds
    BY <1>1, <1>4, <1>6, <1>11, SentEffect DEF Kinds
  <2>2. FloorInv'
    BY <1>1, <1>2, <2>1, FloorStep DEF AgreeInv
  <2>3. ForcedInv'
    BY <1>1, <1>2, <2>1, ForcedStep DEF AgreeInv
  <2>4. InForceInv'
    BY <1>1, <1>2, <1>9, InForceStep DEF AgreeInv
  <2> QED BY <1>7, <1>10, <2>2, <2>3, <2>4 DEF Inv, AgreeInv
<1>12. CASE n # 2
  <2>1. "fault" \in excuse'
    BY <1>12, Refusal
  <2> QED BY <1>1, <1>2, <1>7, <2>1, FaultExcuses DEF Inv
<1> QED BY <1>11, <1>12

(* A session rests, whichever tick took its mode off.                      *)
LEMMA RestStep ==
    ASSUME Inv, NEW k \in Kinds, NEW n \in 0 .. 2, Rest(k, n) PROVE Inv'
<1>1. /\ Send(Removed(k, n)) /\ Fault(n) /\ excuse' = excuse \union FaultIf(n)
      /\ UNCHANGED <<config, entity, nextId>> /\ MayRemove(k)
      /\ session' = [session EXCEPT ![k].off = TRUE]
  BY DEF Rest
<1>2. SessionsOK /\ TRUE \in BOOLEAN /\ session[k] # None
  BY <1>1, RunningThere DEF Inv, StateInv, MayRemove
<1>3. /\ SessionsOK' /\ session'[k].id = session[k].id /\ (session'[k].off <=> TRUE)
      /\ \A j \in Kinds \ {k} : session'[j] = session[j]
  BY <1>1, <1>2, SessionRests
<1>4. ~Running(k)' /\ (k = "ForceDischarge" => ~OnItsWay')
  BY <1>3 DEF Running, OnItsWay
<1> QED BY <1>1, <1>2, <1>3, <1>4, RemovedStep

(* A charge is put off again.                                              *)
LEMMA RedeferStep == ASSUME Inv, NEW n \in 0 .. 2, Redefer(n) PROVE Inv'
<1> DEFINE k == "ForceCharge"
<1>1. /\ Send(Removed(k, n)) /\ Fault(n) /\ excuse' = excuse \union FaultIf(n)
      /\ UNCHANGED <<config, entity, nextId>> /\ session[k].started
      /\ session' = [session EXCEPT ![k].started = FALSE, ![k].off = FALSE]
  BY DEF Redefer
<1>2. SessionsOK /\ k \in Kinds /\ k # "ForceDischarge"
  BY DEF Inv, StateInv, Kinds
<1> HIDE DEF k
<1>3. /\ SessionsOK' /\ session'[k].id = session[k].id /\ ~session'[k].started
      /\ \A j \in Kinds \ {k} : session'[j] = session[j]
      /\ session[k] # None
  BY <1>1, <1>2, SessionWaits
<1>4. ~Running(k)'
  BY <1>3 DEF Running
<1> QED BY <1>1, <1>2, <1>3, <1>4, RemovedStep

(* The session is over: its override goes if it had one, and the hook      *)
(* restores the limit.                                                     *)
LEMMA EndStep == ASSUME Inv, NEW k \in Kinds, NEW n \in 0 .. 2, EndSession(k, n) PROVE Inv'
<1> DEFINE raced == IF ~session[k].started /\ Beginning(k) THEN {"raced"} ELSE {}
<1>1. /\ StateInv /\ AgreeInv /\ session[k] # None /\ UNCHANGED <<config, entity, nextId>>
      /\ excuse' = excuse \union FaultIf(n) \union raced
      /\ session' = [session EXCEPT ![k] = None]
  BY DEF Inv, EndSession
<1>2. excuse \subseteq excuse' /\ excuse' \subseteq Excuses /\ faults' \in 0 .. MaxFaults
  <2>1. faults' \in 0 .. MaxFaults /\ FaultIf(n) \subseteq Excuses /\ excuse \subseteq Excuses
    BY <1>1, FaultCounted DEF StateInv, EntityOK, EndSession
  <2>2. raced \subseteq Excuses
    BY DEF Excuses
  <2> QED BY <1>1, <2>1, <2>2
<1>3. PICK removes \in BOOLEAN :
          /\ ~removes => ~session[k].started /\ n = 2
          /\ Send(_write_export_limit \o (IF removes THEN Removed(k, n) ELSE <<>>))
  <2>1. CASE MayRemove(k) /\ Send(_write_export_limit \o Removed(k, n))
    BY <2>1
  <2>2. CASE ~session[k].started /\ n = 2 /\ Send(_write_export_limit)
    <3>1. _write_export_limit \o <<>> = _write_export_limit
      BY DEF _write_export_limit
    <3>2. Send(_write_export_limit \o (IF FALSE THEN Removed(k, n) ELSE <<>>))
      BY <2>2, <3>1
    <3> QED BY <2>2, <3>2
  <2> QED BY <2>1, <2>2 DEF EndSession
<1> DEFINE s == _write_export_limit \o (IF removes THEN Removed(k, n) ELSE <<>>)
<1>4. Send(s) /\ calls' = calls \o s
  BY <1>3 DEF Send
<1>5. nextId \in Nat \ {0}
  BY <1>1 DEF StateInv, EntityOK
<1>6. SessionsOK' /\ session'[k] = None /\ \A j \in Kinds \ {k} : session'[j] = session[j]
  BY <1>1, SessionEnds
<1>7. \A j \in Kinds \ {k} : session[j] = None /\ ~Running(j) /\ ~Beginning(j)
  BY <1>1, ThereFacts
<1>8. \A j \in Kinds : session'[j] = None
  BY <1>6, <1>7
<1>9. session'["ForceCharge"].id = 0
  BY <1>8 DEF Kinds, None
<1>10. /\ s \in Seq(CallType) /\ AllFit(s, nextId, 0) /\ Restores(s)
       /\ n = 2 /\ removes => Sets(s, "SelfUse")
       /\ ~removes => Quiet(s)
  BY <1>1, <1>5, EndEffect
<1> HIDE DEF s
<1>11. StateInv'
  BY <1>1, <1>2, <1>4, <1>6, <1>9, <1>10, SentState
<1>12. (\A j \in Kinds : ~Running(j)') /\ ~OnItsWay'
  BY <1>8, <1>11, NoneIdleLater DEF Kinds
<1>13. InForceInv'
  BY <1>1, <1>2, <1>12, InForceStep DEF AgreeInv
<1>14. LimitInv'
  <2>1. NewLimit
    BY <1>1, <1>4, <1>10, SentEffect
  <2> QED BY <1>1, <1>2, <2>1, LimitStep DEF AgreeInv
<1>15. CASE removes /\ n = 2
  <2>1. NewMode("SelfUse") /\ "SelfUse" \notin Kinds
    BY <1>1, <1>4, <1>10, <1>15, SentEffect DEF Kinds
  <2>2. FloorInv'
    BY <1>1, <1>2, <2>1, FloorStep DEF AgreeInv
  <2>3. ForcedInv'
    BY <1>1, <1>2, <2>1, ForcedStep DEF AgreeInv
  <2> QED BY <1>11, <1>13, <1>14, <2>2, <2>3 DEF Inv, AgreeInv
<1>16. CASE ~removes
  <2>1. SameMode
    BY <1>1, <1>4, <1>10, <1>16, SentEffect
  <2>2. FloorInv'
    BY <1>1, <1>2, <2>1, FloorStep DEF AgreeInv
  <2>3. ForcedInv'
    <3>1. CASE Beginning(k)
      <4>1. excuse' \intersect ForcedExcuses # {}
        BY <1>1, <1>3, <1>16, <3>1 DEF ForcedExcuses
      <4> QED BY <1>1, <1>2, <4>1, ForcedStep DEF AgreeInv
    <3>2. CASE ~Beginning(k)
      <4>1. \A j \in Kinds : ~Running(j)
        BY <1>3, <1>7, <1>16 DEF Running
      <4>2. ~OnItsWay
        BY <1>7, <3>2 DEF OnItsWay, Kinds
      <4> QED BY <1>1, <1>2, <2>1, <4>1, <4>2, ForcedStep DEF AgreeInv
    <3> QED BY <3>1, <3>2
  <2> QED BY <1>11, <1>13, <1>14, <2>2, <2>3 DEF Inv, AgreeInv
<1>17. CASE n # 2
  <2>1. "fault" \in excuse'
    BY <1>1, <1>17, Refusal
  <2> QED BY <1>1, <1>2, <1>11, <2>1, FaultExcuses DEF Inv
<1> QED BY <1>15, <1>16, <1>17

-----------------------------------------------------------------------------
(* A call arrives, or is lost.                                             *)
WrittenTo(s, c) == [s EXCEPT !.written = c.asked, !.started = @ \/ c.by = "begin"]

LEMMA WrittenField ==
    ASSUME NEW s \in SessionType, NEW c, c.asked \in Limits
    PROVE  /\ WrittenTo(s, c) \in SessionType /\ WrittenTo(s, c).id = s.id
           /\ WrittenTo(s, c).off <=> s.off
           /\ WrittenTo(s, c).started <=> s.started \/ c.by = "begin"
  BY DEF SessionType, WrittenTo

(* The limit of a session was written; the one it waited for starts it.    *)
LEMMA SessionWritten ==
    ASSUME SessionsOK, session["ForceDischarge"].id # 0, nextId' = nextId,
           NEW c, c.asked \in Limits,
           session' = [session EXCEPT !["ForceDischarge"].written = c.asked,
                                      !["ForceDischarge"].started = @ \/ c.by = "begin"]
    PROVE  /\ SessionsOK' /\ session'["ForceDischarge"].id = session["ForceDischarge"].id
           /\ session'["ForceDischarge"].started
                <=> session["ForceDischarge"].started \/ c.by = "begin"
           /\ session'["ForceDischarge"].off <=> session["ForceDischarge"].off
           /\ session'["ForceCharge"] = session["ForceCharge"]
<1> DEFINE k == "ForceDischarge"
           s == WrittenTo(session[k], c)
<1>1. k \in Kinds /\ k # "ForceCharge" /\ "ForceCharge" \in Kinds
  BY DEF Kinds
<1>2. SessionOK(session[k], nextId) /\ session[k] \in SessionType /\ session[k] # None
  BY <1>1 DEF SessionsOK, SessionOK, None
<1>3. /\ s \in SessionType /\ s.id = session[k].id /\ (s.off <=> session[k].off)
      /\ s.started <=> session[k].started \/ c.by = "begin"
  BY <1>2, WrittenField
<1>4. session' = [session EXCEPT ![k] = s]
  BY <1>1 DEF SessionsOK, WrittenTo
<1> HIDE DEF s, k
<1>5. SessionOK(s, nextId)
  <2>1. s.id # 0 /\ s.id < nextId
    BY <1>2, <1>3 DEF SessionOK, k
  <2> QED BY <1>3, <2>1 DEF SessionOK
<1>6. SessionsOK' /\ session'[k] = s /\ session'["ForceCharge"] = session["ForceCharge"]
  BY <1>1, <1>2, <1>4, <1>5, OneSession
<1> QED BY <1>3, <1>6 DEF k

(* What is left when a call is gone.                                       *)
LEMMA GoneCalls ==
    ASSUME StateInv, NEW i \in 1 .. Len(calls), calls' = Without(calls, i),
           UNCHANGED <<config, nextId>>, session'["ForceCharge"].id = session["ForceCharge"].id
    PROVE  /\ CallsOK'
           /\ ~OutOfRange(calls[i]) /\ Refused(calls) => Refused(calls)'
           /\ \A id : BeginIn(calls', id) => BeginIn(calls, id)
           /\ \A id : BeginIn(calls, id)
                        => BeginIn(calls', id) \/ (calls[i].by = "begin" /\ calls[i].id = id)
<1>1. /\ calls \in Seq(CallType) /\ Len(calls) <= MaxCalls /\ MaxCalls \in Nat
      /\ AllFit(calls, nextId, session["ForceCharge"].id)
  BY EntityAssumption DEF StateInv, CallsOK
<1>2. calls' \in Seq(CallType) /\ Len(calls') = Len(calls) - 1
  BY <1>1, WithoutType
<1>3. \A j \in 1 .. Len(calls') : \E k \in 1 .. Len(calls) : k # i /\ calls'[j] = calls[k]
  BY <1>1, WithoutCalls
<1>4. \A k \in 1 .. Len(calls) : k = i \/ \E j \in 1 .. Len(calls') : calls'[j] = calls[k]
  BY <1>1, WithoutCalls
<1>5. AllFit(calls', nextId, session["ForceCharge"].id)
  BY <1>1, <1>3 DEF AllFit
<1>6. CallsOK'
  <2>1. AllFit(calls, nextId, session["ForceCharge"].id)'
    BY <1>5 DEF AllFit, CallFits, config
  <2>2. Len(calls') <= MaxCalls
    BY <1>1, <1>2
  <2> QED BY <1>2, <2>1, <2>2 DEF CallsOK
<1>7. ASSUME ~OutOfRange(calls[i]), Refused(calls) PROVE Refused(calls)'
  <2>1. PICK k \in 1 .. Len(calls) : OutOfRange(calls[k])
    BY <1>7 DEF Refused
  <2>2. PICK j \in 1 .. Len(calls') : calls'[j] = calls[k]
    BY <1>4, <1>7, <2>1
  <2>3. inKw' = inKw /\ top' = top
    BY DEF config
  <2>4. calls'[j].by = "hook" /\ (inKw' \/ calls'[j].value > top')
    BY <2>1, <2>2, <2>3 DEF OutOfRange
  <2> QED BY <2>2, <2>4 DEF Refused, OutOfRange
<1>8. \A id : BeginIn(calls', id) => BeginIn(calls, id)
  BY <1>3 DEF BeginIn
<1>9. \A id : BeginIn(calls, id)
                => BeginIn(calls', id) \/ (calls[i].by = "begin" /\ calls[i].id = id)
  BY <1>4 DEF BeginIn
<1> QED BY <1>6, <1>7, <1>8, <1>9

(* What the calls and the sessions that are left make of the agreement:    *)
(* nothing new but the start of the session whose limit was written.       *)
LEMMA ArrivesStep == ASSUME Inv, Arrives PROVE Inv'
<1>1. StateInv /\ AgreeInv
  BY DEF Inv
<1>2. PICK i \in 1 .. Len(calls) :
         /\ \A j \in 1 .. i - 1 : calls[j].entity # calls[i].entity
         /\ calls' = Without(calls, i)
         /\ Lands(i) \/ Lost(i)
         /\ UNCHANGED <<config, nextId>>
  BY DEF Arrives, Without
<1> DEFINE fd == "ForceDischarge"
           c == calls[i]
<1>3. /\ calls \in Seq(CallType) /\ c \in CallType /\ CallFits(c, nextId, session["ForceCharge"].id)
      /\ nextId \in Nat /\ SessionsOK /\ SessionOK(session[fd], nextId)
  BY <1>1, <1>2 DEF StateInv, CallsOK, AllFit, EntityOK, SessionsOK, Kinds
<1>4. \A e, v : /\ Final(e, v)'
                /\ entity'[e] = IF e = c.entity THEN c.value ELSE entity[e]
                => Final(e, v)
  BY <1>2, <1>3, GoneFinal
<1>5. CASE Lost(i)
  <2>1. UNCHANGED <<entity, session>> /\ excuse \subseteq excuse'
    BY <1>5 DEF Lost
  <2>2. SessionsOK'
    BY <1>2, <1>3, <2>1, SessionsKept
  <2>3. CallsOK' /\ \A id : BeginIn(calls', id) => BeginIn(calls, id)
    BY <1>1, <1>2, <2>1, GoneCalls
  <2>4. faults' \in 0 .. MaxFaults /\ excuse' \subseteq Excuses
    <3>1. faults \in 0 .. MaxFaults /\ excuse \subseteq Excuses /\ MaxFaults \in Nat
      BY <1>1, EntityAssumption DEF StateInv, EntityOK
    <3>2. {"fault", "unit"} \subseteq Excuses
      BY DEF Excuses
    <3>3. \/ faults' = faults /\ excuse' = excuse \union {"unit"}
          \/ faults < MaxFaults /\ faults' = faults + 1 /\ excuse' = excuse \union {"fault"}
      BY <1>5 DEF Lost
    <3> QED BY <3>1, <3>2, <3>3
  <2>5. StateInv'
    <3>1. EntityOK'
      BY <1>1, <1>2, <2>1, <2>4 DEF StateInv, EntityOK
    <3>2. ConfigOK'
      BY <1>1, <1>2, <2>1, ConfigKept DEF StateInv
    <3> QED BY <2>2, <2>3, <3>1, <3>2 DEF StateInv
  <2>6. CASE OutOfRange(c)
    <3>1. "unit" \in excuse'
      BY <1>5, <2>6 DEF Lost
    <3>2. c.entity = "limit" /\ c.by = "hook"
      BY <1>3, <2>6 DEF OutOfRange, CallFits
    <3>3. SameMode
      <4>1. entity'["mode"] = IF "mode" = c.entity THEN c.value ELSE entity["mode"]
        BY <2>1, <3>2
      <4>2. entity'["floor"] = IF "floor" = c.entity THEN c.value ELSE entity["floor"]
        BY <2>1, <3>2
      <4>3. \A v : Final("mode", v)' => Final("mode", v)
        BY <1>4, <4>1
      <4>4. \A v : Final("floor", v)' => Final("floor", v)
        BY <1>4, <4>2
      <4> QED BY <4>3, <4>4 DEF SameMode
    <3>4. \A k \in Kinds : Running(k) <=> Running(k)'
      BY <2>1 DEF Running
    <3>5. OnItsWay <=> OnItsWay'
      <4>1. BeginIn(calls', session[fd].id) <=> BeginIn(calls, session[fd].id)
        <5>1. BeginIn(calls, session[fd].id) => BeginIn(calls', session[fd].id)
          BY <1>1, <1>2, <2>1, <3>2, GoneCalls
        <5> QED BY <2>3, <5>1
      <4> QED BY <2>1, <4>1 DEF OnItsWay, Beginning, BeginIn
    <3>6. excuse' \intersect LimitExcuses # {}
      BY <3>1 DEF LimitExcuses
    <3>7. FloorInv' /\ LimitInv'
      BY <1>1, <1>2, <2>1, <3>3, <3>6, FloorStep, LimitStep DEF AgreeInv
    <3>8. ForcedInv'
      BY <1>1, <2>1, <3>3, <3>4, <3>5, ForcedStep DEF AgreeInv
    <3>9. InForceInv'
      BY <1>1, <2>1, <3>3, <3>4, <3>5, InForceStep DEF AgreeInv
    <3> QED BY <2>5, <3>7, <3>8, <3>9 DEF Inv, AgreeInv
  <2>7. CASE ~OutOfRange(c)
    <3>1. "fault" \in excuse'
      BY <1>5, <2>7 DEF Lost
    <3> QED BY <1>1, <1>2, <2>1, <2>5, <3>1, FaultExcuses DEF Inv
  <2> QED BY <2>6, <2>7
<1>6. CASE Lands(i)
  <2> DEFINE mine == c.id # 0 /\ session[fd].id = c.id
  <2>1. /\ ~OutOfRange(c) /\ entity' = [entity EXCEPT ![c.entity] = c.value]
        /\ UNCHANGED <<faults, excuse>>
        /\ mine => session' = [session EXCEPT ![fd].written = c.asked,
                                              ![fd].started = @ \/ c.by = "begin"]
        /\ ~mine => session' = session
    BY <1>6 DEF Lands
  <2>2. /\ SessionsOK' /\ session'[fd].id = session[fd].id
        /\ session'["ForceCharge"] = session["ForceCharge"]
        /\ session'[fd].off <=> session[fd].off
        /\ session'[fd].started <=> session[fd].started \/ (mine /\ c.by = "begin")
    <3>1. CASE mine
      <4>1. c.asked \in Limits /\ session[fd].id # 0
        BY <1>3, <3>1 DEF CallFits
      <4>2. session' = [session EXCEPT ![fd].written = c.asked,
                                       ![fd].started = @ \/ c.by = "begin"]
        BY <2>1, <3>1
      <4>3. /\ SessionsOK' /\ session'[fd].id = session[fd].id
            /\ session'[fd].started <=> session[fd].started \/ c.by = "begin"
            /\ session'[fd].off <=> session[fd].off
            /\ session'["ForceCharge"] = session["ForceCharge"]
        BY <1>2, <1>3, <4>1, <4>2, SessionWritten
      <4> QED BY <3>1, <4>3
    <3>2. CASE ~mine
      <4>1. SessionsOK'
        BY <1>2, <1>3, <2>1, <3>2, SessionsKept
      <4> QED BY <2>1, <3>2, <4>1
    <3> QED BY <3>1, <3>2
  <2>3. /\ CallsOK' /\ (Refused(calls) => Refused(calls)')
        /\ \A id : BeginIn(calls', id) => BeginIn(calls, id)
        /\ BeginIn(calls, session[fd].id)
             => BeginIn(calls', session[fd].id) \/ (c.by = "begin" /\ c.id = session[fd].id)
    BY <1>1, <1>2, <2>1, <2>2, GoneCalls
  <2>4. entity \in [mode : Modes, floor : Floors, limit : Limits] /\ c.entity \in Entities
    BY <1>1, <1>3 DEF StateInv, EntityOK, CallType
  <2>5. \A e \in Entities : entity'[e] = IF e = c.entity THEN c.value ELSE entity[e]
    BY <2>1, <2>4 DEF Entities
  <2>6. StateInv'
    <3>1. entity' \in [mode : Modes, floor : Floors, limit : Limits]
      BY <1>3, <2>1, <2>4 DEF CallFits, Entities
    <3>2. EntityOK'
      BY <1>1, <1>2, <2>1, <3>1 DEF StateInv, EntityOK
    <3>3. ConfigOK'
      <4>1. ~actuator => entity'.limit = entity.limit
        BY <1>3, <2>1, <2>4 DEF CallFits, Entities
      <4> QED BY <1>1, <1>2, <4>1 DEF StateInv, ConfigOK, config, Configured,
                   _convert_and_clamp_power_for_write
    <3> QED BY <2>2, <2>3, <3>2, <3>3 DEF StateInv
  <2>7. SameMode /\ SameLimit
    <3>1. \A e \in Entities : \A v : Final(e, v)' => Final(e, v)
      BY <1>4, <2>5
    <3> QED BY <2>3, <3>1 DEF SameMode, SameLimit, Entities
  <2>8. OnItsWay <=> BeginIn(calls, session[fd].id) /\ ~session[fd].off
    BY DEF OnItsWay, Beginning, BeginIn
  <2>9. OnItsWay' <=> BeginIn(calls', session[fd].id) /\ ~session[fd].off
    BY <2>2 DEF OnItsWay, Beginning, BeginIn
  <2>10. c.by = "begin" => c.id # 0
    BY <1>3 DEF CallFits
  <2>11. \A k \in Kinds : Running(k) => Running(k)'
    BY <2>2 DEF Running, Kinds
  <2>12. \A k \in Kinds : Running(k)' => Running(k) \/ (k = fd /\ OnItsWay)
    <3>1. mine /\ c.by = "begin" => BeginIn(calls, session[fd].id)
      BY <1>2 DEF BeginIn
    <3>2. Running(fd)' => Running(fd) \/ OnItsWay
      BY <2>2, <2>8, <3>1 DEF Running
    <3>3. Running("ForceCharge")' => Running("ForceCharge")
      BY <2>2 DEF Running
    <3> QED BY <3>2, <3>3 DEF Kinds
  <2>13. OnItsWay => OnItsWay' \/ Running(fd)'
    <3>1. ASSUME OnItsWay, ~OnItsWay' PROVE Running(fd)'
      <4>1. mine /\ c.by = "begin"
        BY <2>3, <2>8, <2>9, <2>10, <3>1
      <4> QED BY <2>2, <2>8, <3>1, <4>1 DEF Running
    <3> QED BY <3>1
  <2>14. OnItsWay' => OnItsWay
    BY <2>3, <2>8, <2>9
  <2>15. FloorInv'
    BY <1>1, <2>1, <2>7, FloorStep DEF AgreeInv
  <2>16. ForcedInv'
    BY <1>1, <2>1, <2>7, <2>11, <2>13, ForcedStep DEF AgreeInv
  <2>17. InForceInv'
    BY <1>1, <2>1, <2>7, <2>12, <2>14, InForceStep DEF AgreeInv
  <2>18. LimitInv'
    <3>1. Running(fd) => Running(fd)'
      BY <2>11 DEF Kinds
    <3> QED BY <1>1, <1>2, <2>1, <2>7, <3>1, LimitStep DEF AgreeInv
  <2> QED BY <2>6, <2>15, <2>16, <2>17, <2>18 DEF Inv, AgreeInv
<1> QED BY <1>2, <1>5, <1>6

LEMMA StutterStep == ASSUME Inv, UNCHANGED vars PROVE Inv'
<1> USE DEF vars, config
<1>1. ConfigOK' /\ EntityOK' /\ CallsOK' /\ SessionsOK'
  BY DEF Inv, StateInv, ConfigOK, Configured, _convert_and_clamp_power_for_write, EntityOK,
         CallsOK, AllFit, CallFits, SessionsOK, SessionOK
<1>2. FloorInv' /\ ForcedInv' /\ InForceInv' /\ LimitInv'
  BY DEF Inv, AgreeInv, FloorInv, ForcedInv, InForceInv, LimitInv, Final, Running, OnItsWay,
         Beginning, Refused, OutOfRange, Configured, _convert_and_clamp_power_for_write
<1> QED BY <1>1, <1>2 DEF Inv, StateInv, AgreeInv

LEMMA InvInit == ASSUME Init PROVE Inv
<1>1. ConfigOK
  <2>1. HwMax \in Nat /\ HwMax \in Limits
    BY EntityAssumption
  <2> QED BY <2>1 DEF Init, ConfigOK, Configured, _convert_and_clamp_power_for_write
<1>2. EntityOK
  <2>1. Configured \in Limits
    BY EntityAssumption DEF Init, Configured, _convert_and_clamp_power_for_write
  <2>2. 1 \in 1 .. MaxSessions + 1 /\ 0 \in 0 .. MaxFaults
    BY EntityAssumption
  <2>3. "SelfUse" \in Modes /\ "reserve" \in Floors
    BY DEF Modes, Floors
  <2> QED BY <2>1, <2>2, <2>3 DEF Init, EntityOK
<1>3. CallsOK
  <2>1. calls \in Seq(CallType) /\ Len(calls) = 0 /\ MaxCalls \in Nat
    BY EntityAssumption DEF Init
  <2> QED BY <2>1 DEF CallsOK, AllFit
<1>4. SessionsOK
  <2>1. \A k \in Kinds : session[k] = None
    BY DEF Init
  <2>2. SessionOK(None, nextId)
    BY NoneFits DEF Init
  <2>3. session \in [Kinds -> SessionType]
    BY <2>1, <2>2 DEF Init, SessionOK
  <2> QED BY <2>1, <2>2, <2>3 DEF SessionsOK, Kinds
<1>5. \A e, v : Final(e, v) => v = entity[e]
  BY DEF Init, Final, LastCall
<1>6. \A k \in Kinds : ~Running(k)
  BY DEF Init, Running, None
<1>7. ~OnItsWay
  BY DEF Init, OnItsWay, Beginning
<1>8. AgreeInv
  <2>1. \A m : Final("mode", m) => m = "SelfUse"
    BY <1>5 DEF Init
  <2>2. \A f : Final("floor", f) => f = "reserve"
    BY <1>5 DEF Init
  <2>3. \A l : Final("limit", l) => l = Configured
    BY <1>5 DEF Init
  <2>4. FloorInv
    BY <2>1, <2>2 DEF FloorInv
  <2>5. ForcedInv
    BY <2>1 DEF ForcedInv, Kinds
  <2>6. InForceInv
    BY <1>6, <1>7 DEF InForceInv
  <2>7. LimitInv
    BY <2>3 DEF LimitInv
  <2> QED BY <2>4, <2>5, <2>6, <2>7 DEF AgreeInv
<1> QED BY <1>1, <1>2, <1>3, <1>4, <1>8 DEF Inv, StateInv

LEMMA InvInductive == ASSUME Inv, [Next]_vars PROVE Inv'
<1>1. CASE Arrives
  BY <1>1, ArrivesStep
<1>2. CASE _do_smart_charge
  BY <1>2, StartStep DEF _do_smart_charge, Kinds
<1>3. CASE _do_smart_discharge
  BY <1>3, StartStep DEF _do_smart_discharge, Kinds
<1>4. CASE handle_clear_overrides
  BY <1>4, ClearStep
<1>5. CASE handle_feedin
  BY <1>5, FeedinStep
<1>6. ASSUME NEW k \in Kinds, NEW n \in 0 .. 2, _start_deferred(k, n) PROVE Inv'
  BY <1>6, DeferredStep
<1>7. ASSUME NEW k \in Kinds, NEW n \in 0 .. 2, _adjust_power(k, n) PROVE Inv'
  BY <1>7, AdjustStep
<1>8. ASSUME NEW k \in Kinds, NEW n \in 0 .. 2, EndSession(k, n) PROVE Inv'
  BY <1>8, EndStep
<1>9. ASSUME NEW k \in Kinds, NEW n \in 0 .. 2, Rest(k, n) PROVE Inv'
  BY <1>9, RestStep
<1>10. ASSUME NEW k \in Kinds, NEW n \in 0 .. 2, Resume(k, n) PROVE Inv'
  BY <1>10, ResumeStep
<1>11. ASSUME NEW n \in 0 .. 2, Redefer(n) PROVE Inv'
  BY <1>11, RedeferStep
<1>12. CASE UNCHANGED vars
  BY <1>12, StutterStep
<1> QED BY <1>1, <1>2, <1>3, <1>4, <1>5, <1>6, <1>7, <1>8, <1>9, <1>10, <1>11, <1>12 DEF Next

THEOREM Invariant == Spec => []Inv
<1>1. Init => Inv
  BY InvInit
<1>2. Inv /\ [Next]_vars => Inv'
  BY InvInductive
<1> QED BY <1>1, <1>2, PTL DEF Spec

-----------------------------------------------------------------------------
(* With no call on its way, what is to come is what the entities have.     *)
LEMMA SettledFinal ==
    ASSUME Inv, Settled
    PROVE  /\ \A e : Final(e, entity[e])
           /\ ~OnItsWay /\ ~Refused(calls)
           /\ entity.mode = entity["mode"] /\ entity.floor = entity["floor"]
           /\ entity.limit = entity["limit"]
           /\ entity \in [mode : Modes, floor : Floors, limit : Limits]
<1>1. Len(calls) = 0
  BY DEF Settled
<1>2. \A e : Final(e, entity[e])
  BY <1>1 DEF Final, NoCall
<1>3. ~OnItsWay /\ ~Refused(calls)
  BY <1>1 DEF OnItsWay, Beginning, Refused
<1>4. entity \in [mode : Modes, floor : Floors, limit : Limits]
  BY DEF Inv, StateInv, EntityOK
<1> QED BY <1>2, <1>3, <1>4

(* Every variable keeps its type through every service, listener and       *)
(* arrival; in particular an entity only ever holds a value of its own     *)
(* kind, and a session of either kind is one that a service started.       *)
THEOREM TypeCorrect == Spec => []TypeOK
<1>1. Inv => TypeOK
  BY DEF Inv, StateInv, EntityOK, SessionsOK, SessionType, CallsOK, Floors, TypeOK
<1> QED BY <1>1, Invariant, PTL

(* A forced mode left on the inverter has a running session behind it: no  *)
(* order of starts, ends, rests and arrivals leaves an override            *)
(* without its session, but by a lost call, a replaced or raced start or   *)
(* another service.                                                        *)
THEOREM ForcedHasSession == Spec => []ForcedMeansSession
<1>1. ASSUME Inv, Settled, NEW k \in Kinds, entity.mode = k,
             excuse \intersect {"fault", "replaced", "raced", "overridden"} = {}
      PROVE  Running(k)
  <2>1. Final("mode", k) /\ ~OnItsWay
    BY <1>1, SettledFinal
  <2> QED BY <1>1, <2>1 DEF Inv, AgreeInv, ForcedInv, ForcedExcuses
<1>2. Inv => ForcedMeansSession
  BY <1>1 DEF ForcedMeansSession
<1> QED BY <1>2, Invariant, PTL

(* The persistent Min SoC is a session's exactly while the inverter is     *)
(* discharging, whatever sessions of both kinds followed each other: no    *)
(* self-use mode inherits the floor of a session.                          *)
THEOREM FloorOfMode == Spec => []FloorFollowsMode
<1>1. ASSUME Inv, Settled, "fault" \notin excuse
      PROVE  entity.floor = "session" <=> entity.mode = "ForceDischarge"
  <2>1. Final("mode", entity.mode) /\ Final("floor", entity.floor)
    BY <1>1, SettledFinal
  <2> QED BY <1>1, <2>1 DEF Inv, AgreeInv, FloorInv
<1>2. Inv => FloorFollowsMode
  BY <1>1 DEF FloorFollowsMode
<1> QED BY <1>2, Invariant, PTL

(* With no discharge under way the export limit is the configured one: a   *)
(* paced write in flight when the session ends does not outlast the        *)
(* restore, unless a call was lost or the hook's watts were refused.       *)
THEOREM LimitBack == Spec => []LimitRestored
<1>1. ASSUME Inv, Settled, ~Running("ForceDischarge"), excuse \intersect {"fault", "unit"} = {}
      PROVE  entity.limit = Configured
  <2>1. Final("limit", entity.limit) /\ ~Refused(calls)
    BY <1>1, SettledFinal
  <2> QED BY <1>1, <2>1 DEF Inv, AgreeInv, LimitInv, LimitExcuses
<1>2. Inv => LimitRestored
  BY <1>1 DEF LimitRestored
<1> QED BY <1>2, Invariant, PTL

(* A session that has started, and whose last tick did not itself take the *)
(* mode off (target reached, suspended, floor seen, hand-off, put off      *)
(* again), has its mode on the inverter, unless a call was lost, another   *)
(* service took it, or it went on with the actuator's pacing alone.        *)
THEOREM RunningInForce == Spec => []SessionInForce
<1>1. ASSUME Inv, Settled, excuse \intersect {"fault", "overridden", "resumed"} = {},
             NEW k \in Kinds, Running(k)
      PROVE  entity.mode = k
  <2>1. Final("mode", entity.mode)
    BY <1>1, SettledFinal
  <2> QED BY <1>1, <2>1 DEF Inv, AgreeInv, InForceInv, InForceExcuses
<1>2. Inv => SessionInForce
  BY <1>1 DEF SessionInForce
<1> QED BY <1>2, Invariant, PTL
=============================================================================
