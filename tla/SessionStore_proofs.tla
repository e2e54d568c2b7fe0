------------------------- MODULE SessionStore_proofs -------------------------
(***************************************************************************)
(* Proofs about SessionStore, for every calendar, set of windows and       *)
(* number of calls and restarts, if no service is called while setup       *)
(* recovers: the store agrees with the sessions, a session that ended      *)
(* never runs again, and what a stop left is resumed.                      *)
(*                                                                         *)
(* The inductive invariant says, beside the properties, that at most one   *)
(* of the two records is there (starting a session clears both), that the  *)
(* disk lags behind the view only in what a record says, never in whose it *)
(* is, and, while setup recovers, that the records loaded are still those  *)
(* of the store for the keys not yet judged and are all gone once one was  *)
(* dropped.  The last part is what keeps the final write of the loaded     *)
(* records from bringing an ended session back.                            *)
(***************************************************************************)
EXTENDS SessionStore, TLAPS

OneRecord(rs) == \E k \in Keys : rs[k] = NoRecord

(* Recovery has judged k.                                                  *)
Passed(k) == recovery.at = "end" \/ (recovery.at = "smart_discharge" /\ k = "smart_charge")

RecordsInv ==
    \A k \in Keys : /\ view[k].id = 0 => view[k] = NoRecord
                    /\ disk[k].id = 0 => disk[k] = NoRecord
DiskLags == \A k \in Keys : disk[k] = NoRecord \/ disk[k].id = view[k].id
Fresh ==
    /\ \A k \in Keys : view[k].id \notin ended /\ view[k].id <= used
    /\ \A i \in ended : 0 < i /\ i <= used
Agrees == \A k \in Keys : session[k].rec = NoRecord \/ (Live(k) /\ view[k] = session[k].rec)
StoreInv == RecordsInv /\ DiskLags /\ OneRecord(view) /\ Fresh /\ Agrees

ProcInv ==
    /\ proc = "up" /\ ~failed => \A k \in Keys : Live(k) \/ view[k] = NoRecord
    /\ proc = "down" => \A k \in Keys : ~Live(k)

ReplayInv ==
    /\ proc # "up" => replay = NoReplay /\ probe = NoReplay
    /\ replay.key = "none" => replay = NoReplay
    /\ probe.key = "none" => probe = NoReplay
    /\ leaked <= restarts

RecoveryInv ==
    proc = "setup" =>
        /\ OneRecord(recovery.stored)
        /\ \A k \in Keys : IF Passed(k) THEN Live(k) \/ view[k] = NoRecord \/ recovery.changed
                           ELSE ~Live(k) /\ recovery.stored[k] = view[k]
        /\ recovery.changed => \A k \in Keys : recovery.stored[k] = NoRecord /\ ~Live(k)

Inv == TypeOK /\ StoreInv /\ ProcInv /\ ReplayInv /\ RecoveryInv

---------------------------------------------------------------------------
(* Records and what the operations on the store do to StoreInv.            *)

LEMMA TwoKeys == \A k, l \in Keys : k # l => Keys = {k, l}
  BY DEF Keys

LEMMA NoRecordOK ==
    /\ NoRecord \in Record /\ NoRecord.id = 0 /\ ~NoRecord.started
    /\ NoSession \in Session /\ NoSession.rec = NoRecord
  BY StoreAssumption DEF NoRecord, Record, Ids, NoSession, Session

(* A session that is live has a record in view, so the other key has none. *)
LEMMA LiveRecord ==
    ASSUME StoreInv, NEW k \in Keys, Live(k)
    PROVE  view[k].id # 0 /\ view[k] # NoRecord /\ \A l \in Keys \ {k} : view[l] = NoRecord /\ ~Live(l)
<1>1. view[k].id # 0 /\ view[k] # NoRecord
  BY NoRecordOK DEF StoreInv, Agrees, Live
<1>2. \A l \in Keys \ {k} : view[l] = NoRecord
  BY <1>1 DEF StoreInv, OneRecord, Keys
<1>3. \A l \in Keys \ {k} : ~Live(l)
  BY <1>2, NoRecordOK DEF StoreInv, Agrees, Live
<1> QED BY <1>1, <1>2, <1>3

LEMMA SameStore ==
    ASSUME StoreInv, UNCHANGED <<view, disk, ended, used>>,
           \A k \in Keys : session'[k].rec = session[k].rec \/ session'[k].rec = NoRecord
    PROVE  StoreInv'
<1>1. Agrees'
  BY NoRecordOK DEF StoreInv, Agrees, Live
<1> QED BY <1>1 DEF StoreInv, RecordsInv, DiskLags, OneRecord, Fresh

LEMMA WrittenStore ==
    ASSUME StoreInv, UNCHANGED <<view, ended, used>>, disk' = view,
           \A k \in Keys : session'[k].rec = session[k].rec \/ session'[k].rec = NoRecord
    PROVE  StoreInv'
<1>1. Agrees'
  BY NoRecordOK DEF StoreInv, Agrees, Live
<1> QED BY <1>1 DEF StoreInv, RecordsInv, DiskLags, OneRecord, Fresh

LEMMA LostStore ==
    ASSUME StoreInv, UNCHANGED <<disk, ended, used>>, view' = disk,
           \A k \in Keys : session'[k].rec = NoRecord, used \in Nat
    PROVE  StoreInv'
<1>1. Agrees'
  BY NoRecordOK DEF Agrees, Live
<1>2. \A k \in Keys : view[k] = NoRecord => disk[k] = NoRecord
  BY NoRecordOK DEF StoreInv, DiskLags, RecordsInv
<1>3. OneRecord(view)'
  BY <1>2 DEF StoreInv, OneRecord
<1>4. Fresh'
  BY NoRecordOK DEF StoreInv, Fresh, DiskLags
<1> QED BY <1>1, <1>3, <1>4 DEF StoreInv, RecordsInv, DiskLags

LEMMA SavedStore ==
    ASSUME Inv, NEW k \in Keys, Live(k), NEW b \in BOOLEAN, SetStarted(k, b), UNCHANGED <<ended, used>>
    PROVE  /\ StoreInv' /\ session' \in [Keys -> Session] /\ view' \in [Keys -> Record]
           /\ override' \in [Keys -> BOOLEAN] /\ UNCHANGED disk
           /\ \A l \in Keys : Live(l)' <=> Live(l)
           /\ \A l \in Keys : view'[l] = NoRecord <=> view[l] = NoRecord
           /\ \A l \in Keys \ {k} : view'[l] = view[l]
<1> DEFINE r == [session[k].rec EXCEPT !.started = b]
           s == [session[k] EXCEPT !.rec.started = b, !.paused = FALSE]
<1>1. session[k] \in Session /\ session[k].rec \in Record
  BY DEF Inv, TypeOK, Session
<1>2. r \in Record /\ r.id = session[k].rec.id
  BY <1>1 DEF Record
<1>3. s.rec = r
  BY <1>1 DEF Session
<1> HIDE DEF r
<1>4. s \in Session
  BY <1>1, <1>2, <1>3 DEF Session
<1> HIDE DEF s
<1>5. /\ session' = [session EXCEPT ![k] = s] /\ view' = [view EXCEPT ![k] = r]
      /\ override' = [override EXCEPT ![k] = b] /\ UNCHANGED disk
  BY <1>3 DEF SetStarted, save_session, s
<1>6. session' \in [Keys -> Session] /\ view' \in [Keys -> Record] /\ override' \in [Keys -> BOOLEAN]
  BY <1>2, <1>4, <1>5 DEF Inv, TypeOK
<1>7. /\ session'[k] = s /\ view'[k] = r
      /\ \A l \in Keys \ {k} : session'[l] = session[l] /\ view'[l] = view[l]
  BY <1>5 DEF Inv, TypeOK
<1>8. view[k].id = r.id /\ r.id # 0 /\ view[k] # NoRecord /\ r # NoRecord
  BY <1>2, LiveRecord, NoRecordOK DEF Inv, StoreInv, Agrees, Live
<1>9. \A l \in Keys : view'[l].id = view[l].id /\ session'[l].rec.id = session[l].rec.id
  BY <1>2, <1>3, <1>7, <1>8
<1>10. RecordsInv' /\ DiskLags' /\ Fresh'
  BY <1>5, <1>7, <1>8, <1>9 DEF Inv, StoreInv, RecordsInv, DiskLags, Fresh
<1>11. OneRecord(view)' /\ Agrees'
  BY <1>3, <1>7, <1>8 DEF Inv, StoreInv, OneRecord, Agrees, Live
<1> QED BY <1>5, <1>6, <1>7, <1>8, <1>9, <1>10, <1>11 DEF StoreInv, Live

LEMMA EndedFrom ==
    ASSUME NEW ks, NEW i \in EndedBy(ks), i \notin ended
    PROVE  i # 0 /\ \E k \in ks : i = session[k].rec.id \/ i = view[k].id
<1> DEFINE ids(k) == {session[k].rec.id, view[k].id}
           all == UNION {ids(k) : k \in ks}
<1>1. EndedBy(ks) = ended \union (all \ {0})
  BY DEF EndedBy
<1>2. i \in all => \E k \in ks : i = session[k].rec.id \/ i = view[k].id
  OBVIOUS
<1> HIDE DEF all
<1> QED BY <1>1, <1>2

(* Cancelling sessions takes their records with them.                      *)
LEMMA CancelledStore ==
    ASSUME Inv, NEW ks \in SUBSET Keys, session' = Without(ks), clear_stored_session(ks),
           ended' = EndedBy(ks), UNCHANGED used
    PROVE  /\ StoreInv' /\ session' \in [Keys -> Session]
           /\ view' \in [Keys -> Record] /\ disk' \in [Keys -> Record] /\ ended' \subseteq Ids
           /\ \A k \in ks : ~Live(k)' /\ view'[k] = NoRecord
           /\ \A k \in Keys \ ks : session'[k] = session[k] /\ view'[k] = view[k]
<1>1. session' \in [Keys -> Session] /\ view' \in [Keys -> Record] /\ disk' \in [Keys -> Record]
  BY NoRecordOK DEF Inv, TypeOK, Without, clear_stored_session, Cleared
<1>2. /\ \A k \in ks : session'[k] = NoSession /\ view'[k] = NoRecord
      /\ \A k \in Keys \ ks : session'[k] = session[k] /\ view'[k] = view[k]
  BY DEF Without, clear_stored_session, Cleared
<1>3. \A k \in ks : ~Live(k)'
  BY <1>2, NoRecordOK DEF Live
<1>4. \A i \in ended' : i \in ended \/ \E k \in ks : i = view[k].id /\ i # 0
  <2> SUFFICES ASSUME NEW i \in ended', i \notin ended PROVE \E k \in ks : i = view[k].id /\ i # 0
    OBVIOUS
  <2>1. PICK k \in ks : i # 0 /\ (i = session[k].rec.id \/ i = view[k].id)
    BY EndedFrom
  <2>2. i = session[k].rec.id => i = view[k].id
    BY <2>1, NoRecordOK DEF Inv, StoreInv, Agrees
  <2> QED BY <2>1, <2>2
<1>5. \A k \in Keys : view[k] \in Record /\ view[k].id \in Ids
  BY DEF Inv, TypeOK, Record
<1>6. used \in Nat /\ MaxCalls \in Nat
  BY StoreAssumption DEF Inv, TypeOK, Ids
<1>7. \A i \in ended' : 0 < i /\ i <= used
  BY <1>4, <1>5, <1>6 DEF Inv, StoreInv, Fresh, Ids
<1>8. \A k \in Keys : view'[k].id \notin ended' /\ view'[k].id <= used
  <2> SUFFICES ASSUME NEW k \in Keys PROVE view'[k].id \notin ended' /\ view'[k].id <= used
    OBVIOUS
  <2>1. CASE k \in ks
    BY <1>2, <1>6, <1>7, <2>1, NoRecordOK
  <2>2. CASE k \notin ks
    <3>1. view'[k] = view[k] /\ view[k].id \notin ended /\ view[k].id <= used
      BY <1>2, <2>2 DEF Inv, StoreInv, Fresh
    <3>2. \A l \in ks : view[l].id # 0 => view[k].id # view[l].id
      BY <2>2, NoRecordOK, TwoKeys DEF Inv, StoreInv, OneRecord
    <3> QED BY <1>4, <3>1, <3>2
  <2> QED BY <2>1, <2>2
<1>9. disk' = view' \/ (disk' = disk /\ view' = view)
  BY DEF clear_stored_session
<1>10. RecordsInv' /\ DiskLags'
  BY <1>2, <1>9, NoRecordOK DEF Inv, StoreInv, RecordsInv, DiskLags
<1>11. OneRecord(view)' /\ Agrees'
  BY <1>2, <1>3, NoRecordOK DEF Inv, StoreInv, OneRecord, Agrees, Live
<1>12. ended' \subseteq Ids
  BY <1>4, <1>5 DEF Inv, TypeOK
<1> QED BY <1>1, <1>2, <1>3, <1>7, <1>8, <1>10, <1>11, <1>12 DEF StoreInv, Fresh

(* The view is empty only if the disk is.                                  *)
LEMMA EmptyView ==
    ASSUME Inv, view = NoRecords PROVE disk = NoRecords
<1>1. \A k \in Keys : view[k].id = 0
  BY NoRecordOK DEF NoRecords
<1>2. \A k \in Keys : disk[k] = NoRecord
  BY <1>1 DEF Inv, StoreInv, DiskLags, RecordsInv
<1> QED BY <1>2 DEF Inv, TypeOK, NoRecords

(* A start leaves the new session's record, on the disk later, or none.    *)
LEMMA StartedStore ==
    ASSUME Inv, NEW k \in Keys, NEW from \in Nat, NEW to \in Nat, StartSession(k, from, to)
    PROVE  /\ StoreInv' /\ session' \in [Keys -> Session]
           /\ view' \in [Keys -> Record] /\ disk' \in [Keys -> Record]
           /\ override' \in [Keys -> BOOLEAN] /\ used' \in Ids /\ ended' \subseteq Ids
           /\ \A l \in Keys : Live(l)' \/ view'[l] = NoRecord
<1>1. used \in Nat /\ used' = used + 1 /\ used' \in Ids /\ used' # 0
  BY StoreAssumption DEF Inv, TypeOK, Ids, StartSession
<1>2. ended' = EndedBy(Keys)
  BY DEF StartSession
<1>3. \A l \in Keys : view[l] \in Record /\ view[l].id \in Ids
  BY DEF Inv, TypeOK, Record
<1>4. \A i \in ended' : 0 < i /\ i <= used /\ i \in Ids
  <2> SUFFICES ASSUME NEW i \in ended' PROVE 0 < i /\ i <= used /\ i \in Ids
    OBVIOUS
  <2>1. CASE i \in ended
    BY <2>1 DEF Inv, StoreInv, Fresh, TypeOK
  <2>2. CASE i \notin ended
    <3>1. PICK l \in Keys : i # 0 /\ (i = session[l].rec.id \/ i = view[l].id)
      BY <1>2, <2>2, EndedFrom
    <3>2. i = view[l].id
      BY <3>1, NoRecordOK DEF Inv, StoreInv, Agrees
    <3> QED BY <1>3, <3>1, <3>2 DEF Inv, StoreInv, Fresh, Ids
  <2> QED BY <2>1, <2>2
<1>5. ASSUME NEW deferred \in BOOLEAN, Created(k, used + 1, from, to, deferred)
      PROVE  /\ StoreInv' /\ session' \in [Keys -> Session]
             /\ view' \in [Keys -> Record] /\ disk' \in [Keys -> Record]
             /\ override' \in [Keys -> BOOLEAN]
             /\ \A l \in Keys : Live(l)' \/ view'[l] = NoRecord
  <2> DEFINE r == [id |-> used + 1, from |-> from, to |-> to, started |-> ~deferred]
             s == [rec |-> r, paused |-> FALSE]
  <2>1. r \in Record /\ r.id = used'
    BY <1>1 DEF Record
  <2> HIDE DEF r
  <2>2. s \in Session /\ s.rec = r
    BY <2>1 DEF Session
  <2> HIDE DEF s
  <2>3. /\ session' = [Without(Keys) EXCEPT ![k] = s] /\ view' = [NoRecords EXCEPT ![k] = r]
        /\ disk' = NoRecords /\ override' \in [Keys -> BOOLEAN]
    <3>1. disk' = IF view = NoRecords THEN disk ELSE NoRecords
      BY <1>5 DEF Created
    <3> QED BY <1>5, <3>1, EmptyView DEF Created, r, s, Inv, TypeOK
  <2>4. /\ session'[k] = s /\ view'[k] = r
        /\ \A l \in Keys \ {k} : session'[l] = NoSession /\ view'[l] = NoRecord
        /\ \A l \in Keys : disk'[l] = NoRecord
    BY <2>3 DEF Without, NoRecords
  <2>5. session' \in [Keys -> Session] /\ view' \in [Keys -> Record] /\ disk' \in [Keys -> Record]
    BY <2>1, <2>2, <2>3, NoRecordOK DEF Without, NoRecords
  <2>6. RecordsInv' /\ DiskLags' /\ OneRecord(view)'
    BY <1>1, <2>1, <2>4, TwoKeys, NoRecordOK DEF RecordsInv, DiskLags, OneRecord, Keys
  <2>7. Fresh'
    <3>1. \A i \in ended' : i \in Int /\ 0 < i /\ i <= used' /\ i # used'
      BY <1>1, <1>4 DEF Ids
    <3>2. \A l \in Keys : view'[l].id \in {0, used'}
      BY <2>1, <2>4, NoRecordOK
    <3> QED BY <1>1, <3>1, <3>2 DEF Fresh
  <2>8. Agrees'
    BY <1>1, <2>1, <2>2, <2>4, NoRecordOK DEF Agrees, Live
  <2>9. \A l \in Keys : Live(l)' \/ view'[l] = NoRecord
    BY <1>1, <2>1, <2>2, <2>4 DEF Live
  <2> QED BY <2>3, <2>5, <2>6, <2>7, <2>8, <2>9 DEF StoreInv
<1>6. ASSUME NotCreated(k)
      PROVE  /\ StoreInv' /\ session' \in [Keys -> Session]
             /\ view' \in [Keys -> Record] /\ disk' \in [Keys -> Record]
             /\ override' \in [Keys -> BOOLEAN]
             /\ \A l \in Keys : Live(l)' \/ view'[l] = NoRecord
  <2>1. /\ \A l \in Keys : session'[l] = NoSession /\ view'[l] = NoRecord /\ disk'[l] = NoRecord
        /\ session' \in [Keys -> Session]
        /\ view' \in [Keys -> Record] /\ disk' \in [Keys -> Record]
    <3>1. session' = [l \in Keys |-> NoSession] /\ view' = NoRecords
      BY <1>6 DEF NotCreated, Without, clear_stored_session, Cleared, NoRecords
    <3>2. disk' = NoRecords
      <4>1. Cleared(Keys) = NoRecords
        BY DEF Cleared, NoRecords
      <4> QED BY <1>6, <4>1, EmptyView DEF NotCreated, clear_stored_session
    <3> QED BY <3>1, <3>2, NoRecordOK DEF NoRecords
  <2>2. override' \in [Keys -> BOOLEAN]
    BY <1>6 DEF NotCreated, Inv, TypeOK
  <2>3. Fresh'
    <3>1. \A i \in ended' : i \in Int /\ 0 < i /\ i <= used'
      BY <1>1, <1>4 DEF Ids
    <3>2. \A l \in Keys : view'[l].id = 0
      BY <2>1, NoRecordOK
    <3> QED BY <1>1, <3>1, <3>2 DEF Fresh
  <2>4. RecordsInv' /\ DiskLags' /\ OneRecord(view)' /\ Agrees'
    BY <2>1, NoRecordOK DEF RecordsInv, DiskLags, OneRecord, Agrees, Live, Keys
  <2> QED BY <2>1, <2>2, <2>3, <2>4 DEF StoreInv
<1> QED BY <1>1, <1>4, <1>5, <1>6 DEF StartSession

---------------------------------------------------------------------------
(* What the steps do to the process's and to recovery's invariant.         *)

LEMMA SameProc ==
    ASSUME ProcInv, RecoveryInv, UNCHANGED <<proc, failed, recovery>>,
           \A k \in Keys : /\ Live(k)' <=> Live(k)
                           /\ view'[k] = NoRecord <=> view[k] = NoRecord
                           /\ ~Live(k) => view'[k] = view[k]
    PROVE  ProcInv' /\ RecoveryInv'
  BY DEF ProcInv, RecoveryInv, Passed, OneRecord

(* No service is called and no probe is answered while setup recovers.     *)
LEMMA UpProc ==
    ASSUME proc' = "up", \A k \in Keys : Live(k)' \/ view'[k] = NoRecord
    PROVE  ProcInv' /\ RecoveryInv'
  BY DEF ProcInv, RecoveryInv

LEMMA CancelKeepsInv ==
    ASSUME Inv, NEW k \in Keys, Cancel(k)
    PROVE  /\ StoreInv' /\ ProcInv' /\ RecoveryInv' /\ session' \in [Keys -> Session]
           /\ view' \in [Keys -> Record] /\ disk' \in [Keys -> Record] /\ ended' \subseteq Ids
           /\ cleanup' \in [Keys -> BOOLEAN]
<1>1. /\ StoreInv' /\ session' \in [Keys -> Session]
      /\ view' \in [Keys -> Record] /\ disk' \in [Keys -> Record] /\ ended' \subseteq Ids
      /\ ~Live(k)' /\ view'[k] = NoRecord
      /\ \A l \in Keys \ {k} : session'[l] = session[l] /\ view'[l] = view[l]
  BY CancelledStore DEF Cancel
<1>2. cleanup' \in [Keys -> BOOLEAN]
  BY DEF Cancel, Inv, TypeOK
<1>3. Live(k) /\ proc # "down" /\ UNCHANGED <<proc, failed, recovery>>
  BY DEF Cancel, Runs
<1>4. \A l \in Keys \ {k} : Live(l)' <=> Live(l)
  BY <1>1 DEF Live
<1>5. ProcInv'
  BY <1>1, <1>3, <1>4 DEF Inv, ProcInv
<1>6. RecoveryInv'
  BY <1>1, <1>3, <1>4 DEF Inv, RecoveryInv, Passed, OneRecord
<1> QED BY <1>1, <1>2, <1>5, <1>6

LEMMA DayNat == ASSUME NEW t \in Nat, DayLen \in Nat \ {0} PROVE Date(t) \in Nat
  BY DEF Date

(* The services and the listeners.                                         *)
LEMMA SessionSteps ==
    ASSUME Inv, ~CallsInSetup, NEW k \in Keys,
           SmartService(k) \/ Begin(k) \/ SetPaused(k) \/ Finish(k) \/ CleanupDone(k)
             \/ _on_circuit_breaker_abort(k)
    PROVE  Inv'
<1>1. CASE SmartService(k)
  <2>1. PICK w \in Windows : StartSession(k, Date(clock) * DayLen + w[1], Date(clock) * DayLen + w[2])
    BY <1>1 DEF SmartService
  <2>2. Date(clock) * DayLen + w[1] \in Nat /\ Date(clock) * DayLen + w[2] \in Nat
    <3>1. clock \in Nat /\ DayLen \in Nat \ {0} /\ w[1] \in Nat /\ w[2] \in Nat
      BY StoreAssumption DEF Inv, TypeOK, Marks
    <3>2. Date(clock) \in Nat
      BY <3>1, DayNat
    <3>3. Date(clock) * DayLen \in Nat
      BY <3>1, <3>2
    <3> QED BY <3>1, <3>3
  <2>3. /\ StoreInv' /\ session' \in [Keys -> Session]
        /\ view' \in [Keys -> Record] /\ disk' \in [Keys -> Record]
        /\ override' \in [Keys -> BOOLEAN] /\ used' \in Ids /\ ended' \subseteq Ids
        /\ \A l \in Keys : Live(l)' \/ view'[l] = NoRecord
    BY <2>1, <2>2, StartedStore
  <2>4. proc' = "up"
    BY <1>1 DEF SmartService, Callable
  <2>5. TypeOK' /\ ReplayInv'
    BY <1>1, <2>3 DEF SmartService, Inv, TypeOK, ReplayInv, replaying
  <2> QED BY <2>3, <2>4, <2>5, UpProc DEF Inv
<1>2. CASE Begin(k)
  <2>1. SetStarted(k, TRUE) /\ Live(k) /\ UNCHANGED <<ended, used>>
    BY <1>2 DEF Begin, Runs
  <2>2. /\ StoreInv' /\ session' \in [Keys -> Session] /\ view' \in [Keys -> Record]
        /\ override' \in [Keys -> BOOLEAN] /\ UNCHANGED disk
        /\ \A l \in Keys : Live(l)' <=> Live(l)
        /\ \A l \in Keys : view'[l] = NoRecord <=> view[l] = NoRecord
        /\ \A l \in Keys \ {k} : view'[l] = view[l]
    BY <2>1, SavedStore
  <2>3. TypeOK' /\ ReplayInv' /\ UNCHANGED <<proc, failed, recovery>>
    BY <1>2, <2>2 DEF Begin, Inv, TypeOK, ReplayInv, replaying
  <2> QED BY <2>1, <2>2, <2>3, SameProc DEF Inv
<1>3. CASE SetPaused(k)
  <2>1. session' = [session EXCEPT ![k].paused = ~@] /\ session[k] \in Session
    BY <1>3 DEF SetPaused, Inv, TypeOK
  <2>2. \A l \in Keys : session'[l].rec = session[l].rec
    BY <2>1 DEF Inv, TypeOK, Session
  <2>3. session' \in [Keys -> Session]
    BY <2>1 DEF Inv, TypeOK, Session
  <2>4. UNCHANGED <<view, disk, ended, used, proc, failed, recovery>>
    BY <1>3 DEF SetPaused, store
  <2>5. StoreInv' /\ ProcInv' /\ RecoveryInv'
    BY <2>2, <2>4, SameStore, SameProc DEF Inv, Live
  <2>6. override' \in [Keys -> BOOLEAN]
    <3>1. session[k].paused \in BOOLEAN
      BY <2>1 DEF Session
    <3> QED BY <1>3, <3>1 DEF SetPaused, Inv, TypeOK
  <2>7. TypeOK' /\ ReplayInv'
    BY <1>3, <2>3, <2>6 DEF SetPaused, Inv, TypeOK, ReplayInv, store, replaying
  <2> QED BY <2>5, <2>7 DEF Inv
<1>4. CASE Finish(k)
  <2>1. Cancel(k)
    BY <1>4 DEF Finish
  <2>2. TypeOK' /\ ReplayInv'
    BY <1>4, <2>1, CancelKeepsInv DEF Finish, Cancel, Inv, TypeOK, ReplayInv
  <2> QED BY <2>1, <2>2, CancelKeepsInv DEF Inv
<1>5. CASE CleanupDone(k)
  <2>1. UNCHANGED <<view, disk, ended, used, session, proc, failed, recovery>>
    BY <1>5 DEF CleanupDone, store
  <2>2. StoreInv' /\ ProcInv' /\ RecoveryInv'
    BY <2>1, SameStore, SameProc DEF Inv, Live
  <2>3. TypeOK' /\ ReplayInv'
    BY <1>5 DEF CleanupDone, Inv, TypeOK, ReplayInv, store, replaying
  <2> QED BY <2>2, <2>3 DEF Inv
<1>6. CASE _on_circuit_breaker_abort(k)
  <2>1. Cancel(k) /\ proc' = "up"
    BY <1>6 DEF _on_circuit_breaker_abort, Cancel
  <2>2. session[k].rec.to \in Nat
    BY DEF Inv, TypeOK, Session, Record
  <2>3. /\ replay' = [key |-> k, to |-> session[k].rec.to]
        /\ replay' \in [key : Keys \union {"none"}, to : Nat] /\ replay'.key # "none"
    BY <1>6, <2>2 DEF _on_circuit_breaker_abort, Keys
  <2>4. 0 \in 0 .. MaxAttempts
    BY StoreAssumption
  <2>5. TypeOK'
    BY <1>6, <2>1, <2>3, <2>4, CancelKeepsInv DEF _on_circuit_breaker_abort, Cancel, Inv, TypeOK
  <2>6. ReplayInv'
    BY <2>1, <2>3 DEF Cancel, Inv, ReplayInv
  <2> QED BY <2>1, <2>5, <2>6, CancelKeepsInv DEF Inv
<1> QED BY <1>1, <1>2, <1>3, <1>4, <1>5, <1>6

(* The steps that concern no key, and the replay's.                        *)
LEMMA OtherSteps ==
    ASSUME Inv, ~CallsInSetup,
           Tick \/ DelayedWrite \/ ClearOverrides \/ Redefer \/ Replaying
    PROVE  Inv'
<1>1. CASE Tick
  <2>1. UNCHANGED <<view, disk, ended, used, session, proc, failed, recovery>>
    BY <1>1 DEF Tick, store
  <2>2. StoreInv' /\ ProcInv' /\ RecoveryInv'
    BY <2>1, SameStore, SameProc DEF Inv, Live
  <2>3. TypeOK' /\ ReplayInv'
    BY <1>1, StoreAssumption DEF Tick, Inv, TypeOK, Marks, ReplayInv, store, replaying
  <2> QED BY <2>2, <2>3 DEF Inv
<1>2. CASE DelayedWrite
  <2>1. disk' = view /\ UNCHANGED <<view, ended, used, session, proc, failed, recovery>>
    BY <1>2 DEF DelayedWrite
  <2>2. StoreInv' /\ ProcInv' /\ RecoveryInv'
    BY <2>1, WrittenStore, SameProc DEF Inv, Live
  <2>3. TypeOK' /\ ReplayInv'
    BY <1>2 DEF DelayedWrite, Inv, TypeOK, ReplayInv, replaying
  <2> QED BY <2>2, <2>3 DEF Inv
<1>3. CASE ClearOverrides
  <2>1. /\ StoreInv' /\ session' \in [Keys -> Session]
        /\ view' \in [Keys -> Record] /\ disk' \in [Keys -> Record] /\ ended' \subseteq Ids
        /\ \A k \in Keys : ~Live(k)' /\ view'[k] = NoRecord
    BY <1>3, CancelledStore DEF ClearOverrides
  <2>2. proc' = "up"
    BY <1>3 DEF ClearOverrides, Callable
  <2>3. override' \in [Keys -> BOOLEAN]
    <3>1. [k \in Keys |-> FALSE] \in [Keys -> BOOLEAN]
      OBVIOUS
    <3> QED BY <1>3, <3>1 DEF ClearOverrides, Inv, TypeOK
  <2>4. UNCHANGED <<clock, entity, proc, failed, cleanup, recovery, replay, attempts, timer,
                    leaked, probe, used, restarts, left>>
    BY <1>3 DEF ClearOverrides, replaying
  <2>5. TypeOK' /\ ReplayInv'
    BY <2>1, <2>3, <2>4 DEF Inv, TypeOK, ReplayInv
  <2> QED BY <2>1, <2>2, <2>5, UpProc DEF Inv
<1>4. CASE Redefer
  <2> DEFINE k == "smart_charge"
  <2>1. SetStarted(k, FALSE) /\ Live(k) /\ k \in Keys /\ UNCHANGED <<ended, used>>
    BY <1>4 DEF Redefer, Runs, Keys
  <2>2. /\ StoreInv' /\ session' \in [Keys -> Session] /\ view' \in [Keys -> Record]
        /\ override' \in [Keys -> BOOLEAN] /\ UNCHANGED disk
        /\ \A l \in Keys : Live(l)' <=> Live(l)
        /\ \A l \in Keys : view'[l] = NoRecord <=> view[l] = NoRecord
        /\ \A l \in Keys \ {k} : view'[l] = view[l]
    BY <2>1, SavedStore
  <2>3. TypeOK' /\ ReplayInv' /\ UNCHANGED <<proc, failed, recovery>>
    BY <1>4, <2>2 DEF Redefer, Inv, TypeOK, ReplayInv, replaying
  <2> QED BY <2>1, <2>2, <2>3, SameProc DEF Inv
<1>5. CASE _attempt_replay
  <2>1. UNCHANGED <<view, disk, ended, used, session, proc, failed, recovery>>
    BY <1>5 DEF _attempt_replay, Rest, store
  <2>2. StoreInv' /\ ProcInv' /\ RecoveryInv'
    BY <2>1, SameStore, SameProc DEF Inv, Live
  <2>3. MaxAttempts \in Nat /\ attempts \in 0 .. MaxAttempts
    BY StoreAssumption DEF Inv, TypeOK
  <2>4. NoReplay \in [key : Keys \union {"none"}, to : Nat]
    BY DEF NoReplay
  <2>5. /\ replay' \in [key : Keys \union {"none"}, to : Nat]
        /\ probe' \in [key : Keys \union {"none"}, to : Nat]
        /\ attempts' \in 0 .. MaxAttempts /\ timer' \in BOOLEAN
    <3>1. CASE ReplayOver /\ _cancel_replay /\ UNCHANGED probe
      <4>1. attempts' \in 0 .. MaxAttempts
        BY <2>3, <3>1 DEF _cancel_replay
      <4>2. timer' \in BOOLEAN
        BY <3>1, Zenon DEF _cancel_replay
      <4> QED BY <2>4, <3>1, <4>1, <4>2 DEF _cancel_replay, Inv, TypeOK
    <3>2. CASE /\ ~ReplayOver /\ attempts' = attempts + 1 /\ probe' = replay
               /\ UNCHANGED <<replay, timer>>
      <4>1. attempts' \in 0 .. MaxAttempts
        BY <2>3, <3>2 DEF ReplayOver
      <4> QED BY <3>2, <4>1 DEF Inv, TypeOK
    <3> QED BY <1>5, <3>1, <3>2 DEF _attempt_replay
  <2>6. TypeOK'
    BY <1>5, <2>5 DEF _attempt_replay, Rest, store, Inv, TypeOK
  <2>7. ReplayInv'
    BY <1>5 DEF _attempt_replay, _cancel_replay, ReplayOver, Rest, Inv, ReplayInv
  <2> QED BY <2>2, <2>6, <2>7 DEF Inv
<1>6. CASE ProbeFails
  <2>1. UNCHANGED <<view, disk, ended, used, session, proc, failed, recovery>>
    BY <1>6 DEF ProbeFails, Rest, store
  <2>2. StoreInv' /\ ProcInv' /\ RecoveryInv'
    BY <2>1, SameStore, SameProc DEF Inv, Live
  <2>3. NoReplay \in [key : Keys \union {"none"}, to : Nat]
    BY DEF NoReplay
  <2>4. TypeOK' /\ ReplayInv'
    BY <1>6, <2>3 DEF ProbeFails, Rest, store, Inv, TypeOK, ReplayInv
  <2> QED BY <2>2, <2>4 DEF Inv
<1>7. CASE ProbeDone
  <2>1. NoReplay \in [key : Keys \union {"none"}, to : Nat] /\ 0 \in 0 .. MaxAttempts
    BY StoreAssumption DEF NoReplay
  <2>2. /\ probe.key \in Keys /\ probe.to \in Nat /\ clock \in Nat
        /\ proc = "up" /\ UNCHANGED <<proc, failed, recovery>>
    BY <1>7 DEF ProbeDone, Rest, Inv, TypeOK, ReplayInv, Marks
  <2>3. CASE clock < probe.to /\ used < MaxCalls
    <3>1. StartSession(probe.key, clock, probe.to)
      BY <1>7, <2>3 DEF ProbeDone
    <3>2. /\ StoreInv' /\ session' \in [Keys -> Session]
          /\ view' \in [Keys -> Record] /\ disk' \in [Keys -> Record]
          /\ override' \in [Keys -> BOOLEAN] /\ used' \in Ids /\ ended' \subseteq Ids
          /\ \A l \in Keys : Live(l)' \/ view'[l] = NoRecord
      BY <2>2, <3>1, StartedStore
    <3>3. TypeOK' /\ ReplayInv'
      BY <1>7, <2>1, <3>2 DEF ProbeDone, _cancel_replay, Rest, Inv, TypeOK, ReplayInv
    <3> QED BY <2>2, <3>2, <3>3, UpProc DEF Inv
  <2>4. CASE ~(clock < probe.to /\ used < MaxCalls)
    <3>1. UNCHANGED <<session, view, disk, override, used, ended>>
      BY <1>7, <2>4 DEF ProbeDone, store
    <3>2. StoreInv' /\ ProcInv' /\ RecoveryInv'
      BY <2>2, <3>1, SameStore, SameProc DEF Inv, Live
    <3>3. TypeOK' /\ ReplayInv'
      BY <1>7, <2>1, <3>1 DEF ProbeDone, _cancel_replay, Rest, Inv, TypeOK, ReplayInv
    <3> QED BY <3>2, <3>3 DEF Inv
  <2> QED BY <2>3, <2>4
<1> QED BY <1>1, <1>2, <1>3, <1>4, <1>5, <1>6, <1>7 DEF Replaying

(* The process goes down and comes up again.                               *)
LEMMA DownTypes ==
    ASSUME Inv, Down, leaked' \in 0 .. restarts + 1
    PROVE  /\ session' = [k \in Keys |-> NoSession] /\ session' \in [Keys -> Session]
           /\ cleanup' \in [Keys -> BOOLEAN] /\ override' \in [Keys -> BOOLEAN]
           /\ recovery' = NoRecovery
           /\ recovery' \in [stored : [Keys -> Record], at : Keys \union {"end"},
                             has : {"unread", "yes", "no"}, changed : BOOLEAN]
           /\ replay' \in [key : Keys \union {"none"}, to : Nat]
           /\ probe' \in [key : Keys \union {"none"}, to : Nat]
           /\ attempts' \in 0 .. MaxAttempts /\ timer' \in BOOLEAN
           /\ restarts' \in 0 .. MaxRestarts /\ leaked' \in 0 .. MaxRestarts
           /\ proc' = "down" /\ failed' \in BOOLEAN
           /\ ProcInv' /\ ReplayInv' /\ RecoveryInv'
<1>1. session' = [k \in Keys |-> NoSession] /\ proc' = "down" /\ recovery' = NoRecovery
      /\ replay' = NoReplay /\ probe' = NoReplay /\ restarts' = restarts + 1
  BY DEF Down, _cancel_replay
<1>2. MaxAttempts \in Nat /\ MaxRestarts \in Nat /\ restarts \in 0 .. MaxRestarts
      /\ restarts < MaxRestarts
  BY StoreAssumption DEF Inv, TypeOK, Down
<1>3. NoReplay \in [key : Keys \union {"none"}, to : Nat]
  BY DEF NoReplay
<1>4. NoRecords \in [Keys -> Record]
  BY NoRecordOK DEF NoRecords
<1>5. NoRecovery \in [stored : [Keys -> Record], at : Keys \union {"end"},
                      has : {"unread", "yes", "no"}, changed : BOOLEAN]
  BY <1>4 DEF NoRecovery
<1>6. override' \in [Keys -> BOOLEAN]
  <2> DEFINE o == [k \in Keys |-> override[k] /\ ~cleanup[k]]
  <2>1. o \in [Keys -> BOOLEAN]
    OBVIOUS
  <2>2. override' = override \/ override' = o
    BY DEF Down
  <2> QED BY <2>1, <2>2 DEF Inv, TypeOK
<1>7. ProcInv'
  BY <1>1, NoRecordOK DEF ProcInv, Live
<1>8. ReplayInv'
  BY <1>1, <1>2 DEF ReplayInv
<1>9. RecoveryInv'
  BY <1>1 DEF RecoveryInv
<1>10. session' \in [Keys -> Session] /\ cleanup' \in [Keys -> BOOLEAN] /\ failed' \in BOOLEAN
  BY <1>1, NoRecordOK DEF Down
<1>11. attempts' \in 0 .. MaxAttempts /\ timer' \in BOOLEAN
  <2>1. attempts' = 0
    BY DEF Down, _cancel_replay
  <2>2. timer' \in BOOLEAN
    BY Zenon DEF Down, _cancel_replay
  <2> QED BY <1>2, <2>1, <2>2
<1>12. restarts' \in 0 .. MaxRestarts /\ leaked' \in 0 .. MaxRestarts
  BY <1>1, <1>2
<1> QED BY <1>1, <1>3, <1>5, <1>6, <1>7, <1>8, <1>9, <1>10, <1>11, <1>12

LEMMA ProcessSteps ==
    ASSUME Inv, Process PROVE Inv'
<1>1. restarts \in Nat /\ leaked \in Nat /\ leaked <= restarts
  BY DEF Inv, TypeOK, ReplayInv
<1>2. CASE Crash
  <2>1. Down /\ leaked' = 0 /\ view' = disk /\ left' = NoneLeft /\ UNCHANGED disk
    BY <1>2 DEF Crash
  <2>2. left' \in [Keys -> [rec : Record, held : BOOLEAN]]
    BY <2>1, NoRecordOK DEF NoneLeft
  <2>3. leaked' \in 0 .. restarts + 1
    BY <1>1, <2>1
  <2>4. UNCHANGED <<clock, entity, used, ended>> /\ \A k \in Keys : session'[k].rec = NoRecord
    BY <2>1, NoRecordOK DEF Down
  <2>5. StoreInv'
    BY <2>1, <2>4, LostStore DEF Inv, TypeOK, Ids
  <2>6. TypeOK'
    BY <2>1, <2>2, <2>3, <2>4, DownTypes DEF Inv, TypeOK
  <2> QED BY <2>1, <2>3, <2>5, <2>6, DownTypes DEF Inv
<1>3. ASSUME Leave, leaked' \in 0 .. restarts + 1 PROVE Inv'
  <2>1. Down /\ view' = _persist_active_sessions /\ disk' = view'
    BY <1>3 DEF Leave
  <2>2. view' = view
    <3>1. _persist_active_sessions = [k \in Keys |-> view[k]]
      BY NoRecordOK DEF _persist_active_sessions, Inv, StoreInv, Agrees, Live
    <3> QED BY <2>1, <3>1 DEF Inv, TypeOK
  <2>3. left' \in [Keys -> [rec : Record, held : BOOLEAN]]
    <3> DEFINE h(k) == session[k].rec.started => override'[k]
    <3>1. \A k \in Keys : h(k) \in BOOLEAN /\ session[k].rec \in Record
      BY DEF Inv, TypeOK, Session
    <3>2. left' = [k \in Keys |-> [rec |-> session[k].rec, held |-> h(k)]]
      BY <1>3 DEF Leave
    <3> HIDE DEF h
    <3> QED BY <3>1, <3>2
  <2>4. UNCHANGED <<clock, entity, used, ended>> /\ \A k \in Keys : session'[k].rec = NoRecord
    BY <2>1, NoRecordOK DEF Down
  <2>5. StoreInv'
    BY <2>1, <2>2, <2>4, WrittenStore DEF Inv
  <2>6. TypeOK'
    BY <1>3, <2>1, <2>2, <2>3, <2>4, DownTypes DEF Inv, TypeOK
  <2> QED BY <1>3, <2>1, <2>5, <2>6, DownTypes DEF Inv
<1>4. CASE _on_ha_stop
  BY <1>1, <1>3, <1>4 DEF _on_ha_stop
<1>5. CASE async_unload_entry
  <2>1. leaked' \in {leaked, leaked + 1}
    BY <1>1, <1>5 DEF async_unload_entry
  <2> QED BY <1>1, <1>3, <1>5, <2>1 DEF async_unload_entry
<1>6. CASE async_setup_entry
  <2>1. /\ proc = "down" /\ proc' = "setup" /\ UNCHANGED <<InSetup, failed, session, store, override>>
        /\ recovery' = [stored |-> view, at |-> "smart_charge", has |-> "unread", changed |-> FALSE]
    BY <1>6 DEF async_setup_entry
  <2>2. UNCHANGED <<view, disk, ended, used, session>> /\ \A k \in Keys : ~Live(k)
    BY <2>1 DEF InSetup, store, Inv, ProcInv
  <2>3. StoreInv'
    BY <2>2, SameStore DEF Inv
  <2>4. RecoveryInv'
    BY <2>1, <2>2 DEF RecoveryInv, Passed, Inv, StoreInv, OneRecord, Live
  <2>5. TypeOK'
    BY <2>1 DEF InSetup, store, replaying, Inv, TypeOK, Keys
  <2>6. ProcInv' /\ ReplayInv'
    BY <2>1 DEF InSetup, replaying, Inv, ProcInv, ReplayInv
  <2> QED BY <2>3, <2>4, <2>5, <2>6 DEF Inv
<1> QED BY <1>2, <1>4, <1>5, <1>6 DEF Process

---------------------------------------------------------------------------
(* Recovery.                                                               *)

RecoveryType == [stored : [Keys -> Record], at : Keys \union {"end"},
                 has : {"unread", "yes", "no"}, changed : BOOLEAN]

LEMMA JudgedFields ==
    ASSUME NEW k \in Keys, recovery \in RecoveryType
    PROVE  /\ Kept(k) \in RecoveryType /\ Dropped(k) \in RecoveryType
           /\ Kept(k).stored = recovery.stored /\ Kept(k).at = NextKey(k) /\ Kept(k).has = "unread"
           /\ Kept(k).changed <=> recovery.changed
           /\ Dropped(k).at = NextKey(k) /\ Dropped(k).has = "unread" /\ Dropped(k).changed
           /\ Dropped(k).stored = [recovery.stored EXCEPT ![k] = NoRecord]
<1>1. NextKey(k) \in Keys \union {"end"}
  BY DEF NextKey, Keys
<1>2. /\ Kept(k) \in RecoveryType
      /\ Kept(k).stored = recovery.stored /\ Kept(k).at = NextKey(k) /\ Kept(k).has = "unread"
      /\ Kept(k).changed = recovery.changed
  BY <1>1 DEF Kept, RecoveryType
<1>3. [recovery.stored EXCEPT ![k] = NoRecord] \in [Keys -> Record]
  BY NoRecordOK DEF RecoveryType
<1> DEFINE q == Kept(k)
<1>4. Dropped(k) = [q EXCEPT !.stored = [@ EXCEPT ![k] = NoRecord], !.changed = TRUE]
  BY DEF Dropped
<1> HIDE DEF q
<1>5. q \in RecoveryType /\ q.stored = recovery.stored /\ q.at = NextKey(k) /\ q.has = "unread"
  BY <1>2 DEF q
<1>6. /\ Dropped(k) \in RecoveryType
      /\ Dropped(k).at = NextKey(k) /\ Dropped(k).has = "unread" /\ Dropped(k).changed
      /\ Dropped(k).stored = [recovery.stored EXCEPT ![k] = NoRecord]
  BY <1>3, <1>4, <1>5 DEF RecoveryType
<1> QED BY <1>2, <1>6

(* Recovery judges k next and not again.                                   *)
LEMMA JudgedPassed ==
    ASSUME NEW k \in Keys, recovery.at = k, recovery'.at = NextKey(k)
    PROVE  \A l \in Keys : Passed(l)' <=> Passed(l) \/ l = k
  BY DEF Passed, NextKey, Keys

(* A record is dropped: it was the only one.                               *)
LEMMA DroppedInv ==
    ASSUME Inv, NEW k \in Keys, Recovering(k), recovery' = Dropped(k),
           UNCHANGED <<session, view, proc>>
    PROVE  RecoveryInv' /\ recovery' \in RecoveryType
<1>1. recovery \in RecoveryType
  BY DEF Inv, TypeOK, RecoveryType
<1>2. proc = "setup" /\ recovery.at = k /\ recovery.stored[k] # NoRecord /\ ~Passed(k)
  BY DEF Recovering, Passed, Keys
<1>3. view[k] # NoRecord /\ ~Live(k) /\ \A l \in Keys \ {k} : view[l] = NoRecord /\ recovery.stored[l] = NoRecord
  BY <1>2 DEF Inv, RecoveryInv, StoreInv, OneRecord, Keys
<1>4. \A l \in Keys : ~Live(l)
  BY <1>3, LiveRecord DEF Inv
<1>5. \A l \in Keys : recovery'.stored[l] = NoRecord /\ recovery'.changed /\ recovery'.at = NextKey(k)
  <2>1. /\ recovery'.stored = [recovery.stored EXCEPT ![k] = NoRecord]
        /\ recovery'.changed /\ recovery'.at = NextKey(k)
    BY <1>1, JudgedFields
  <2>2. recovery.stored \in [Keys -> Record]
    BY <1>1 DEF RecoveryType
  <2> QED BY <1>3, <2>1, <2>2
<1>6. \A l \in Keys : Passed(l)' <=> Passed(l) \/ l = k
  BY <1>2, <1>5, JudgedPassed
<1>7. \A l \in Keys : ~Live(l)'
  BY <1>4 DEF Live
<1>8. RecoveryInv'
  BY <1>3, <1>5, <1>6, <1>7 DEF RecoveryInv, OneRecord, Keys
<1> QED BY <1>1, <1>8, JudgedFields

LEMMA RecoverySteps ==
    ASSUME Inv, NEW k \in Keys,
           RecoverNothing(k) \/ RecoverExpired(k) \/ _has_matching_schedule_group(k)
             \/ SetupFails(k) \/ Resume(k) \/ Discard(k)
    PROVE  Inv'
<1>1. recovery \in RecoveryType /\ view \in [Keys -> Record]
  BY DEF Inv, TypeOK, RecoveryType
<1>2. /\ proc = "setup" /\ recovery.at = k /\ UNCHANGED <<InSetup, view, disk>>
      /\ UNCHANGED <<clock, entity, cleanup, replay, attempts, timer, leaked, probe, used,
                     restarts, ended, left>>
      /\ ~Passed(k) /\ ~Live(k) /\ recovery.stored[k] = view[k]
  <2>1. proc = "setup" /\ recovery.at = k /\ UNCHANGED <<InSetup, view, disk>>
    BY DEF RecoverNothing, RecoverExpired, _has_matching_schedule_group, SetupFails, Resume, Discard,
           Recovering, store
  <2>2. ~Passed(k)
    BY <2>1 DEF Passed, Keys
  <2> QED BY <2>1, <2>2 DEF InSetup, replaying, Inv, RecoveryInv
<1>3. CASE RecoverNothing(k)
  <2>1. /\ recovery' = Kept(k) /\ view[k] = NoRecord
        /\ UNCHANGED <<proc, failed, session, override>>
    BY <1>2, <1>3 DEF RecoverNothing
  <2>2. recovery' \in RecoveryType /\ recovery'.stored = recovery.stored
        /\ (recovery'.changed <=> recovery.changed) /\ recovery'.at = NextKey(k)
    BY <1>1, <2>1, JudgedFields
  <2>3. \A l \in Keys : Passed(l)' <=> Passed(l) \/ l = k
    BY <1>2, <2>2, JudgedPassed
  <2>4. RecoveryInv'
    BY <1>2, <2>1, <2>2, <2>3 DEF Inv, RecoveryInv, OneRecord, Live
  <2>5. StoreInv'
    BY <1>2, <2>1, SameStore DEF Inv
  <2>6. ProcInv' /\ ReplayInv'
    BY <1>2, <2>1 DEF Inv, ProcInv, ReplayInv, Live
  <2>7. TypeOK'
    BY <1>2, <2>1, <2>2 DEF Inv, TypeOK, RecoveryType
  <2> QED BY <2>4, <2>5, <2>6, <2>7 DEF Inv
<1>4. CASE RecoverExpired(k) \/ Discard(k)
  <2>1. /\ Recovering(k) /\ recovery' = Dropped(k) /\ UNCHANGED <<proc, failed, session>>
        /\ override' = override \/ override' = [override EXCEPT ![k] = FALSE]
    BY <1>4 DEF RecoverExpired, Discard
  <2>2. RecoveryInv' /\ recovery' \in RecoveryType
    BY <1>2, <2>1, DroppedInv
  <2>3. override' \in [Keys -> BOOLEAN]
    BY <2>1 DEF Inv, TypeOK
  <2>4. StoreInv'
    BY <1>2, <2>1, SameStore DEF Inv
  <2>5. ProcInv' /\ ReplayInv'
    BY <1>2, <2>1 DEF Inv, ProcInv, ReplayInv, Live
  <2>6. TypeOK'
    BY <1>2, <2>1, <2>2, <2>3 DEF Inv, TypeOK, RecoveryType
  <2> QED BY <2>2, <2>4, <2>5, <2>6 DEF Inv
<1>5. CASE _has_matching_schedule_group(k)
  <2>1. UNCHANGED <<proc, failed, session, override>>
    BY <1>5 DEF _has_matching_schedule_group
  <2>2. PICK h \in {"yes", "no"} : recovery' = [recovery EXCEPT !.has = h]
    BY <1>5 DEF _has_matching_schedule_group
  <2>3. recovery' \in RecoveryType /\ recovery'.stored = recovery.stored
        /\ recovery'.changed = recovery.changed /\ recovery'.at = recovery.at
    BY <1>1, <2>2 DEF RecoveryType
  <2>4. RecoveryInv'
    BY <1>2, <2>1, <2>3 DEF Inv, RecoveryInv, OneRecord, Live, Passed
  <2>5. StoreInv'
    BY <1>2, <2>1, SameStore DEF Inv
  <2>6. ProcInv' /\ ReplayInv'
    BY <1>2, <2>1 DEF Inv, ProcInv, ReplayInv, Live
  <2>7. TypeOK'
    BY <1>2, <2>1, <2>3 DEF Inv, TypeOK, RecoveryType
  <2> QED BY <2>4, <2>5, <2>6, <2>7 DEF Inv
<1>6. CASE SetupFails(k)
  <2>1. proc' = "up" /\ failed' = TRUE /\ recovery' = NoRecovery /\ UNCHANGED <<session, override>>
    BY <1>6 DEF SetupFails
  <2>2. NoRecords \in [Keys -> Record]
    BY NoRecordOK DEF NoRecords
  <2>3. recovery' \in RecoveryType
    BY <2>1, <2>2 DEF NoRecovery, RecoveryType
  <2>4. StoreInv'
    BY <1>2, <2>1, SameStore DEF Inv
  <2>5. ProcInv' /\ ReplayInv' /\ RecoveryInv'
    BY <1>2, <2>1 DEF Inv, ProcInv, ReplayInv, RecoveryInv
  <2>6. failed' \in BOOLEAN
    BY <2>1
  <2>7. TypeOK'
    BY <1>2, <2>1, <2>3, <2>6 DEF Inv, TypeOK, RecoveryType
  <2> QED BY <2>4, <2>5, <2>7 DEF Inv
<1>7. CASE Resume(k)
  <2> DEFINE s == [rec |-> view[k], paused |-> FALSE]
  <2>1. /\ session' = [session EXCEPT ![k] = s] /\ recovery' = Kept(k)
        /\ UNCHANGED <<proc, failed, override>> /\ view[k] # NoRecord
    BY <1>2, <1>7 DEF Resume, Recovering
  <2>2. s \in Session /\ s.rec = view[k]
    BY <1>1 DEF Session
  <2> HIDE DEF s
  <2>3. /\ session' \in [Keys -> Session] /\ session'[k] = s
        /\ \A l \in Keys \ {k} : session'[l] = session[l]
    BY <2>1, <2>2 DEF Inv, TypeOK
  <2>4. Live(k)' /\ \A l \in Keys \ {k} : ~Live(l)'
    <3>1. view[k].id # 0
      BY <2>1 DEF Inv, StoreInv, RecordsInv
    <3>2. \A l \in Keys \ {k} : ~Live(l)
      BY <2>1, LiveRecord DEF Inv
    <3> QED BY <2>2, <2>3, <3>1, <3>2 DEF Live
  <2>5. recovery' \in RecoveryType /\ recovery'.stored = recovery.stored
        /\ (recovery'.changed <=> recovery.changed) /\ recovery'.at = NextKey(k)
    BY <1>1, <2>1, JudgedFields
  <2>6. \A l \in Keys : Passed(l)' <=> Passed(l) \/ l = k
    BY <1>2, <2>5, JudgedPassed
  <2>7. \A l \in Keys \ {k} : view[l] = NoRecord
    BY <2>1 DEF Inv, StoreInv, OneRecord, Keys
  <2>8. ~recovery.changed
    BY <1>2, <2>1 DEF Inv, RecoveryInv
  <2>9. RecoveryInv'
    <3>1. \A l \in Keys \ {k} : Passed(l)' => view'[l] = NoRecord
      BY <1>2, <2>7
    <3>2. \A l \in Keys \ {k} : ~Passed(l)' => ~Live(l)' /\ recovery'.stored[l] = view'[l]
      BY <1>2, <2>4, <2>5, <2>6 DEF Inv, RecoveryInv
    <3> QED BY <1>2, <2>4, <2>5, <2>6, <2>8, <3>1, <3>2 DEF Inv, RecoveryInv, OneRecord
  <2>10. StoreInv'
    <3>1. \A l \in Keys \ {k} : session[l].rec = NoRecord
      BY <2>1, LiveRecord DEF Inv, StoreInv, Agrees
    <3>2. Agrees'
      BY <1>2, <2>2, <2>3, <2>4, <3>1 DEF Agrees
    <3> QED BY <1>2, <3>2 DEF Inv, StoreInv, RecordsInv, DiskLags, OneRecord, Fresh
  <2>11. ProcInv' /\ ReplayInv'
    BY <1>2, <2>1 DEF Inv, ProcInv, ReplayInv
  <2>12. TypeOK'
    BY <1>2, <2>1, <2>3, <2>5 DEF Inv, TypeOK, RecoveryType
  <2> QED BY <2>9, <2>10, <2>11, <2>12 DEF Inv
<1> QED BY <1>3, <1>4, <1>5, <1>6, <1>7

LEMMA RecoveryDoneStep ==
    ASSUME Inv, RecoveryDone PROVE Inv'
<1>1. /\ proc = "setup" /\ recovery.at = "end" /\ proc' = "up" /\ recovery' = NoRecovery
      /\ UNCHANGED <<clock, entity, cleanup, replay, attempts, timer, leaked, probe, used,
                     restarts, ended, left, failed, session, override>>
  BY DEF RecoveryDone, InSetup, replaying
<1>2. \A k \in Keys : Passed(k)
  BY <1>1 DEF Passed
<1>3. NoRecords \in [Keys -> Record]
  BY NoRecordOK DEF NoRecords
<1>4. recovery' \in RecoveryType
  BY <1>1, <1>3 DEF NoRecovery, RecoveryType
<1>5. ReplayInv' /\ RecoveryInv'
  BY <1>1 DEF Inv, ReplayInv, RecoveryInv
<1>6. CASE recovery.changed
  <2>1. /\ view' = recovery.stored /\ disk' = view' /\ recovery.stored \in [Keys -> Record]
        /\ \A k \in Keys : recovery.stored[k] = NoRecord /\ ~Live(k)
    BY <1>1, <1>6 DEF RecoveryDone, Inv, TypeOK, RecoveryInv
  <2>2. used \in Nat /\ \A i \in ended : 0 < i /\ i <= used
    BY DEF Inv, TypeOK, Ids, StoreInv, Fresh
  <2>3. Fresh'
    BY <1>1, <2>1, <2>2, NoRecordOK DEF Fresh
  <2>4. Agrees'
    BY <1>1, <2>1 DEF Inv, StoreInv, Agrees
  <2>5. StoreInv'
    BY <2>1, <2>3, <2>4 DEF StoreInv, RecordsInv, DiskLags, OneRecord, Keys
  <2>6. ProcInv'
    BY <1>1, <2>1 DEF ProcInv
  <2>7. TypeOK'
    BY <1>1, <1>4, <2>1 DEF Inv, TypeOK, RecoveryType
  <2> QED BY <1>5, <2>5, <2>6, <2>7 DEF Inv
<1>7. CASE ~recovery.changed
  <2>1. UNCHANGED <<view, disk>>
    BY <1>7 DEF RecoveryDone, store
  <2>2. \A k \in Keys : Live(k) \/ view[k] = NoRecord
    BY <1>1, <1>2, <1>7 DEF Inv, RecoveryInv
  <2>3. StoreInv'
    BY <1>1, <2>1, SameStore DEF Inv
  <2>4. ProcInv'
    BY <1>1, <2>1, <2>2 DEF ProcInv, Live
  <2>5. TypeOK'
    BY <1>1, <1>4, <2>1 DEF Inv, TypeOK, RecoveryType
  <2> QED BY <1>5, <2>3, <2>4, <2>5 DEF Inv
<1> QED BY <1>6, <1>7

---------------------------------------------------------------------------
(* The invariant holds in the beginning.                                   *)
THEOREM InvInit == Init => Inv
<1> SUFFICES ASSUME Init PROVE Inv
  OBVIOUS
<1>1. NoRecords \in [Keys -> Record] /\ \A k \in Keys : NoRecords[k] = NoRecord
  BY NoRecordOK DEF NoRecords
<1>2. 0 \in Ids /\ 0 \in Marks /\ 0 \in 0 .. MaxAttempts /\ 0 \in 0 .. MaxRestarts
  BY StoreAssumption DEF Ids, Marks
<1>3. recovery \in RecoveryType
  BY <1>1 DEF Init, NoRecovery, RecoveryType
<1>4. session \in [Keys -> Session] /\ left \in [Keys -> [rec : Record, held : BOOLEAN]]
  BY NoRecordOK DEF Init, NoneLeft
<1>5. replay \in [key : Keys \union {"none"}, to : Nat] /\ probe \in [key : Keys \union {"none"}, to : Nat]
  BY DEF Init, NoReplay
<1>6. failed \in BOOLEAN /\ timer \in BOOLEAN
  BY Zenon DEF Init
<1>7. TypeOK
  BY <1>1, <1>2, <1>3, <1>4, <1>5, <1>6 DEF Init, TypeOK, RecoveryType
<1>8. \A k \in Keys : ~Live(k) /\ view[k] = NoRecord /\ disk[k] = NoRecord
  BY <1>1, NoRecordOK DEF Init, Live
<1>9. StoreInv
  BY <1>8, NoRecordOK DEF Init, StoreInv, RecordsInv, DiskLags, OneRecord, Fresh, Agrees, Keys
<1>10. ProcInv /\ ReplayInv /\ RecoveryInv
  BY <1>8 DEF Init, ProcInv, ReplayInv, RecoveryInv
<1> QED BY <1>7, <1>9, <1>10 DEF Inv

(* Every step keeps the invariant, if no service is called in setup.       *)
THEOREM InvInductive == ASSUME ~CallsInSetup PROVE Inv /\ [Next]_vars => Inv'
<1> SUFFICES ASSUME Inv, [Next]_vars PROVE Inv'
  OBVIOUS
<1>1. CASE UNCHANGED vars
  BY <1>1 DEF vars, Inv, TypeOK, StoreInv, RecordsInv, DiskLags, OneRecord, Fresh, Agrees,
              ProcInv, ReplayInv, RecoveryInv, Passed, Live
<1>2. CASE \E k \in Keys : SmartService(k)
  BY <1>2, SessionSteps
<1>3. CASE Listeners
  BY <1>3, SessionSteps DEF Listeners
<1>4. CASE Tick \/ DelayedWrite \/ ClearOverrides \/ Redefer \/ Replaying
  BY <1>4, OtherSteps
<1>5. CASE Process
  BY <1>5, ProcessSteps
<1>6. CASE _recover_sessions
  BY <1>6, RecoverySteps, RecoveryDoneStep DEF _recover_sessions
<1> QED BY <1>1, <1>2, <1>3, <1>4, <1>5, <1>6 DEF Next

(* The invariant holds in every reachable state.                           *)
THEOREM Invariant == ASSUME ~CallsInSetup PROVE Spec => []Inv
<1>1. Init => Inv
  BY InvInit
<1>2. Inv /\ [Next]_vars => Inv'
  BY InvInductive
<1> QED BY <1>1, <1>2, PTL DEF Spec

(* The values the variables take.                                          *)
THEOREM TypeCorrect == ASSUME ~CallsInSetup PROVE Spec => []TypeOK
<1>1. Inv => TypeOK
  BY DEF Inv
<1> QED BY <1>1, Invariant, PTL

(* A running session has its record in the store, and once a setup went    *)
(* through the store holds no other.                                       *)
THEOREM StoreFollows == ASSUME ~CallsInSetup PROVE Spec => []StoreAgrees
<1>1. Inv => StoreAgrees
  BY NoRecordOK DEF Inv, StoreInv, Agrees, ProcInv, StoreAgrees, Live
<1> QED BY <1>1, Invariant, PTL

(* A session that ended never runs again, whatever crash or restart        *)
(* follows.                                                                *)
THEOREM EndedStaysEnded == ASSUME ~CallsInSetup PROVE Spec => []NoResurrection
<1>1. Inv => NoResurrection
  BY NoRecordOK DEF Inv, StoreInv, Agrees, Fresh, NoResurrection, Live
<1> QED BY <1>1, Invariant, PTL

---------------------------------------------------------------------------
(* What the last stop left, until recovery has judged it: its record is in *)
(* the store, and the override that it needs is still on, as no removal is *)
(* under way.                                                              *)

Awaits(k) == left[k].held /\ left[k].rec # NoRecord
LeftHeld(k) == left[k].rec.started => override[k]
DownInv ==
    proc = "down" =>
        \A k \in Keys : ~cleanup[k] /\ (Awaits(k) => view[k] = left[k].rec /\ LeftHeld(k))
SetupInv ==
    proc = "setup" =>
        \A k \in Keys : ~Passed(k) =>
            /\ ~cleanup[k]
            /\ Awaits(k) => /\ recovery.stored[k] = left[k].rec /\ LeftHeld(k)
                            /\ recovery.at = k /\ recovery.has = "no" => ~left[k].rec.started
LeftInv == DownInv /\ SetupInv /\ (proc # "setup" => recovery = NoRecovery)

(* Nothing touches the override of a session not yet recovered.            *)
LEMMA LeftUntouched ==
    ASSUME Inv, LeftInv, UNCHANGED <<left, proc, recovery>>, proc = "down" => UNCHANGED view,
           \A k \in Keys : proc # "up" /\ ~Live(k) /\ ~cleanup[k] => override'[k] = override[k] /\ ~cleanup'[k]
    PROVE  LeftInv'
<1>1. DownInv'
  <2> SUFFICES ASSUME proc = "down", NEW k \in Keys
               PROVE  ~cleanup'[k] /\ (Awaits(k)' => view'[k] = left'[k].rec /\ LeftHeld(k)')
    BY DEF DownInv
  <2>1. ~cleanup[k] /\ ~Live(k)
    BY DEF LeftInv, DownInv, Inv, ProcInv
  <2>2. override'[k] = override[k] /\ ~cleanup'[k] /\ UNCHANGED view
    BY <2>1
  <2>3. Awaits(k)' => Awaits(k)
    BY DEF Awaits
  <2> QED BY <2>2, <2>3 DEF LeftInv, DownInv, LeftHeld
<1>2. SetupInv'
  <2> SUFFICES ASSUME proc = "setup", NEW k \in Keys, ~Passed(k)
               PROVE  /\ ~cleanup'[k]
                      /\ Awaits(k)' => /\ recovery'.stored[k] = left'[k].rec /\ LeftHeld(k)'
                                       /\ recovery'.at = k /\ recovery'.has = "no" => ~left'[k].rec.started
    BY DEF SetupInv, Passed
  <2>1. ~cleanup[k] /\ ~Live(k)
    BY DEF LeftInv, SetupInv, Inv, RecoveryInv
  <2>2. override'[k] = override[k] /\ ~cleanup'[k]
    BY <2>1
  <2>3. Awaits(k)' => Awaits(k)
    BY DEF Awaits
  <2> QED BY <2>2, <2>3 DEF LeftInv, SetupInv, LeftHeld
<1> QED BY <1>1, <1>2 DEF LeftInv

LEMMA LeftUp == ASSUME proc' = "up", recovery' = NoRecovery PROVE LeftInv'
  BY DEF LeftInv, DownInv, SetupInv

LEMMA LeftSessionSteps ==
    ASSUME Inv, LeftInv, ~CallsInSetup, NEW k \in Keys,
           SmartService(k) \/ Begin(k) \/ SetPaused(k) \/ Finish(k) \/ CleanupDone(k)
             \/ _on_circuit_breaker_abort(k)
    PROVE  LeftInv'
<1>1. CASE SmartService(k)
  <2>1. proc' = "up" /\ recovery' = NoRecovery
    BY <1>1 DEF SmartService, Callable, LeftInv
  <2> QED BY <2>1, LeftUp
<1>2. CASE Begin(k)
  <2>1. /\ UNCHANGED <<left, proc, recovery, cleanup>> /\ proc # "down" /\ Live(k)
        /\ override' = [override EXCEPT ![k] = TRUE]
    BY <1>2 DEF Begin, SetStarted, Runs
  <2>2. \A l \in Keys : ~Live(l) => override'[l] = override[l]
    BY <2>1 DEF Inv, TypeOK
  <2> QED BY <2>1, <2>2, LeftUntouched
<1>3. CASE SetPaused(k)
  <2>1. /\ UNCHANGED <<left, proc, recovery, cleanup>> /\ proc # "down" /\ Live(k)
        /\ override' = [override EXCEPT ![k] = session[k].paused]
    BY <1>3 DEF SetPaused, Runs
  <2>2. \A l \in Keys : ~Live(l) => override'[l] = override[l]
    BY <2>1 DEF Inv, TypeOK
  <2> QED BY <2>1, <2>2, LeftUntouched
<1>4. CASE Finish(k)
  <2>1. /\ UNCHANGED <<left, proc, recovery, override>> /\ proc # "down" /\ Live(k)
        /\ cleanup' = [cleanup EXCEPT ![k] = TRUE]
    BY <1>4 DEF Finish, Cancel, Runs
  <2>2. \A l \in Keys : ~Live(l) => cleanup'[l] = cleanup[l]
    BY <2>1 DEF Inv, TypeOK
  <2> QED BY <2>1, <2>2, LeftUntouched
<1>5. CASE CleanupDone(k)
  <2>1. /\ UNCHANGED <<left, proc, recovery>> /\ proc # "down" /\ cleanup[k]
        /\ cleanup' = [cleanup EXCEPT ![k] = FALSE]
        /\ override' = [override EXCEPT ![k] = FALSE]
    BY <1>5 DEF CleanupDone
  <2>2. \A l \in Keys : ~cleanup[l] => cleanup'[l] = cleanup[l] /\ override'[l] = override[l]
    BY <2>1 DEF Inv, TypeOK
  <2> QED BY <2>1, <2>2, LeftUntouched
<1>6. CASE _on_circuit_breaker_abort(k)
  <2>1. proc' = "up" /\ recovery' = NoRecovery
    BY <1>6 DEF _on_circuit_breaker_abort, Cancel, LeftInv
  <2> QED BY <2>1, LeftUp
<1> QED BY <1>1, <1>2, <1>3, <1>4, <1>5, <1>6

LEMMA LeftOtherSteps ==
    ASSUME Inv, LeftInv, ~CallsInSetup,
           Tick \/ DelayedWrite \/ ClearOverrides \/ Redefer \/ Replaying
    PROVE  LeftInv'
<1>1. CASE Tick
  BY <1>1, LeftUntouched DEF Tick, store
<1>2. CASE DelayedWrite
  BY <1>2, LeftUntouched DEF DelayedWrite
<1>3. CASE ClearOverrides
  <2>1. proc' = "up" /\ recovery' = NoRecovery
    BY <1>3 DEF ClearOverrides, Callable, LeftInv
  <2> QED BY <2>1, LeftUp
<1>4. CASE Redefer
  <2> DEFINE k == "smart_charge"
  <2>1. /\ UNCHANGED <<left, proc, recovery, cleanup>> /\ proc # "down" /\ Live(k)
        /\ override' = [override EXCEPT ![k] = FALSE]
    BY <1>4 DEF Redefer, SetStarted, Runs
  <2>2. \A l \in Keys : ~Live(l) => override'[l] = override[l]
    BY <2>1 DEF Inv, TypeOK
  <2> QED BY <2>1, <2>2, LeftUntouched
<1>5. CASE _attempt_replay
  BY <1>5, LeftUntouched DEF _attempt_replay, Rest, store
<1>6. CASE ProbeFails
  BY <1>6, LeftUntouched DEF ProbeFails, Rest, store
<1>7. CASE ProbeDone
  <2>1. proc' = "up" /\ recovery' = NoRecovery
    BY <1>7 DEF ProbeDone, Rest, Inv, ReplayInv, TypeOK, LeftInv
  <2> QED BY <2>1, LeftUp
<1> QED BY <1>1, <1>2, <1>3, <1>4, <1>5, <1>6, <1>7 DEF Replaying

LEMMA LeftProcessSteps ==
    ASSUME Inv, LeftInv, Process PROVE LeftInv'
<1>1. ASSUME Down, \A k \in Keys : Awaits(k)' => view'[k] = left'[k].rec /\ LeftHeld(k)'
      PROVE  LeftInv'
  <2>1. proc' = "down" /\ recovery' = NoRecovery /\ \A k \in Keys : ~cleanup'[k]
    BY <1>1 DEF Down
  <2> QED BY <1>1, <2>1 DEF LeftInv, DownInv, SetupInv
<1>2. CASE Crash
  <2>1. \A k \in Keys : left'[k].rec = NoRecord
    BY <1>2 DEF Crash, NoneLeft
  <2> QED BY <1>1, <1>2, <2>1 DEF Crash, Awaits
<1>3. ASSUME Leave PROVE LeftInv'
  <2> SUFFICES ASSUME NEW k \in Keys, Awaits(k)' PROVE view'[k] = left'[k].rec /\ LeftHeld(k)'
    BY <1>1, <1>3 DEF Leave
  <2> DEFINE h(l) == session[l].rec.started => override'[l]
  <2>1. left'[k] = [rec |-> session[k].rec, held |-> h(k)]
    BY <1>3 DEF Leave
  <2> HIDE DEF h
  <2>2. left'[k].rec = session[k].rec /\ left'[k].held = h(k)
    BY <2>1
  <2>3. session[k].rec # NoRecord /\ h(k)
    BY <2>2 DEF Awaits
  <2>4. view'[k] = IF Live(k) THEN session[k].rec ELSE view[k]
    BY <1>3 DEF Leave, _persist_active_sessions
  <2>5. Live(k)
    BY <2>3 DEF Inv, StoreInv, Agrees
  <2> QED BY <2>2, <2>3, <2>4, <2>5 DEF LeftHeld, h
<1>4. CASE _on_ha_stop \/ async_unload_entry
  BY <1>3, <1>4 DEF _on_ha_stop, async_unload_entry
<1>5. CASE async_setup_entry
  <2>1. /\ proc = "down" /\ proc' = "setup" /\ UNCHANGED <<cleanup, left, view, override>>
        /\ recovery'.stored = view /\ recovery'.has = "unread"
    BY <1>5 DEF async_setup_entry, InSetup, store
  <2> QED BY <2>1 DEF LeftInv, DownInv, SetupInv, Awaits, LeftHeld
<1> QED BY <1>2, <1>4, <1>5 DEF Process

LEMMA LeftRecoverySteps ==
    ASSUME Inv, LeftInv, NEW k \in Keys,
           RecoverNothing(k) \/ RecoverExpired(k) \/ _has_matching_schedule_group(k)
             \/ SetupFails(k) \/ Resume(k) \/ Discard(k)
    PROVE  LeftInv' /\ \A l \in Keys : Awaits(l) => Resumed(l)
<1>1. recovery \in RecoveryType
  BY DEF Inv, TypeOK, RecoveryType
<1>2. /\ proc = "setup" /\ recovery.at = k /\ UNCHANGED <<clock, cleanup, left>>
      /\ ~Passed(k) /\ \A l \in Keys \ {k} : recovery.at # l
  BY DEF RecoverNothing, RecoverExpired, _has_matching_schedule_group, SetupFails, Resume, Discard,
         Recovering, InSetup, Passed, Keys
<1>3. Awaits(k) => /\ recovery.stored[k] = left[k].rec /\ left[k].rec # NoRecord
                   /\ recovery.has = "no" => ~left[k].rec.started
  BY <1>2 DEF LeftInv, SetupInv, Awaits
<1>4. ASSUME recovery' = Kept(k) \/ recovery' = Dropped(k), UNCHANGED proc,
             \A l \in Keys \ {k} : override'[l] = override[l],
             Awaits(k) => Resumed(k)
      PROVE  LeftInv' /\ \A l \in Keys : Awaits(l) => Resumed(l)
  <2>1. /\ recovery'.at = NextKey(k) /\ recovery'.has = "unread"
        /\ \A l \in Keys \ {k} : recovery'.stored[l] = recovery.stored[l]
    <3>1. recovery.stored \in [Keys -> Record]
      BY <1>1 DEF RecoveryType
    <3>2. /\ recovery'.at = NextKey(k) /\ recovery'.has = "unread"
          /\ \/ recovery'.stored = recovery.stored
             \/ recovery'.stored = [recovery.stored EXCEPT ![k] = NoRecord]
      BY <1>1, <1>4, JudgedFields
    <3> QED BY <3>1, <3>2
  <2>2. \A l \in Keys : Passed(l)' <=> Passed(l) \/ l = k
    BY <1>2, <2>1, JudgedPassed
  <2>3. \A l \in Keys : Awaits(l)' <=> Awaits(l)
    BY <1>2 DEF Awaits
  <2>4. SetupInv'
    BY <1>2, <1>4, <2>1, <2>2, <2>3 DEF LeftInv, SetupInv, LeftHeld
  <2>5. \A l \in Keys \ {k} : Resumed(l)
    BY <1>2 DEF Resumed
  <2> QED BY <1>2, <1>4, <2>4, <2>5 DEF LeftInv, DownInv
<1>5. CASE RecoverNothing(k)
  <2>1. recovery' = Kept(k) /\ UNCHANGED <<proc, override>> /\ ~Awaits(k)
    BY <1>3, <1>5 DEF RecoverNothing
  <2> QED BY <1>4, <2>1
<1>6. CASE RecoverExpired(k)
  <2>1. recovery' = Dropped(k) /\ UNCHANGED proc /\ ~InWindow(recovery.stored[k])
    BY <1>6 DEF RecoverExpired
  <2>2. \A l \in Keys \ {k} : override'[l] = override[l]
    BY <1>6 DEF RecoverExpired, Inv, TypeOK
  <2>3. Awaits(k) => Resumed(k)
    BY <1>3, <2>1 DEF Resumed
  <2> QED BY <1>4, <2>1, <2>2, <2>3
<1>7. CASE _has_matching_schedule_group(k)
  <2> DEFINE h == IF entity \/ override[k] THEN "yes" ELSE "no"
  <2>1. recovery' = [recovery EXCEPT !.has = h] /\ UNCHANGED <<proc, override>>
    BY <1>7 DEF _has_matching_schedule_group
  <2> HIDE DEF h
  <2>2. recovery'.has = h /\ recovery'.at = recovery.at /\ recovery'.stored = recovery.stored
    BY <1>1, <2>1 DEF RecoveryType
  <2>3. h = "no" => ~override[k]
    BY DEF h
  <2>4. Awaits(k) => (h = "no" => ~left[k].rec.started)
    BY <1>2, <2>3 DEF LeftInv, SetupInv, LeftHeld
  <2>5. \A l \in Keys : Awaits(l)' <=> Awaits(l)
    BY <1>2 DEF Awaits
  <2>6. SetupInv'
    BY <1>2, <2>1, <2>2, <2>4, <2>5 DEF LeftInv, SetupInv, LeftHeld, Passed
  <2>7. \A l \in Keys : Resumed(l)
    BY <2>2 DEF Resumed
  <2> QED BY <1>2, <2>1, <2>6, <2>7 DEF LeftInv, DownInv
<1>8. CASE SetupFails(k)
  <2>1. proc' = "up" /\ failed' /\ recovery' = NoRecovery
    BY <1>8 DEF SetupFails
  <2> QED BY <2>1, LeftUp DEF Resumed
<1>9. CASE Resume(k)
  <2>1. /\ recovery' = Kept(k) /\ UNCHANGED <<proc, override>>
        /\ session' = [session EXCEPT ![k] = [rec |-> recovery.stored[k], paused |-> FALSE]]
    BY <1>9 DEF Resume
  <2>2. session'[k].rec = recovery.stored[k]
    BY <2>1 DEF Inv, TypeOK
  <2> QED BY <1>3, <1>4, <2>1, <2>2 DEF Resumed
<1>10. CASE Discard(k)
  <2>1. /\ recovery' = Dropped(k) /\ UNCHANGED <<proc, override>>
        /\ recovery.has = "no" /\ recovery.stored[k].started
    BY <1>1, <1>10 DEF Discard, Resumable, RecoveryType
  <2> QED BY <1>3, <1>4, <2>1
<1> QED BY <1>5, <1>6, <1>7, <1>8, <1>9, <1>10

LEMMA LeftSteps ==
    ASSUME Inv, LeftInv, ~CallsInSetup, [Next]_vars
    PROVE  LeftInv' /\ \A l \in Keys : Awaits(l) => Resumed(l)
<1>1. ASSUME LeftInv', UNCHANGED recovery
      PROVE  LeftInv' /\ \A l \in Keys : Awaits(l) => Resumed(l)
  BY <1>1 DEF Resumed
<1>2. ASSUME LeftInv', proc # "setup"
      PROVE  LeftInv' /\ \A l \in Keys : Awaits(l) => Resumed(l)
  BY <1>2 DEF Resumed, LeftInv, NoRecovery, Keys
<1>3. CASE UNCHANGED vars
  <2>1. LeftInv'
    BY <1>3 DEF vars, store, replaying, LeftInv, DownInv, SetupInv, Awaits, LeftHeld, Passed
  <2> QED BY <1>1, <1>3, <2>1 DEF vars
<1>4. CASE (\E k \in Keys : SmartService(k)) \/ Listeners
  <2>1. LeftInv'
    BY <1>4, LeftSessionSteps DEF Listeners
  <2>2. UNCHANGED recovery
    BY <1>4 DEF SmartService, Listeners, Begin, SetPaused, Finish, CleanupDone,
                _on_circuit_breaker_abort, Cancel
  <2> QED BY <1>1, <2>1, <2>2
<1>5. CASE Tick \/ DelayedWrite \/ ClearOverrides \/ Redefer \/ Replaying
  <2>1. LeftInv'
    BY <1>5, LeftOtherSteps
  <2>2. UNCHANGED recovery
    BY <1>5 DEF Tick, DelayedWrite, ClearOverrides, Redefer, Replaying, _attempt_replay,
                ProbeFails, ProbeDone, Rest
  <2> QED BY <1>1, <2>1, <2>2
<1>6. CASE Process
  <2>1. LeftInv'
    BY <1>6, LeftProcessSteps
  <2>2. proc' = "down" \/ proc # "setup"
    BY <1>6 DEF Process, Crash, _on_ha_stop, async_unload_entry, Leave, Down, async_setup_entry
  <2>3. CASE proc' = "down"
    BY <2>1, <2>3 DEF Resumed
  <2> QED BY <1>2, <2>1, <2>2, <2>3
<1>7. CASE \E k \in Keys : RecoverNothing(k) \/ RecoverExpired(k) \/ _has_matching_schedule_group(k)
                           \/ SetupFails(k) \/ Resume(k) \/ Discard(k)
  BY <1>7, LeftRecoverySteps
<1>8. CASE RecoveryDone
  <2>1. recovery.at = "end" /\ proc' = "up" /\ recovery' = NoRecovery
    BY <1>8 DEF RecoveryDone
  <2> QED BY <2>1, LeftUp DEF Resumed, Keys
<1> QED BY <1>3, <1>4, <1>5, <1>6, <1>7, <1>8 DEF Next, _recover_sessions

(* A session that a stop found deferred, or with its override on, is       *)
(* resumed as it was.                                                      *)
THEOREM RestartsResume == ASSUME ~CallsInSetup PROVE Spec => RestartResumes
<1>1. Init => Inv /\ LeftInv
  <2>1. Init => LeftInv
    BY DEF Init, LeftInv, DownInv, SetupInv
  <2> QED BY <2>1, InvInit
<1>2. Inv /\ LeftInv /\ [Next]_vars => Inv' /\ LeftInv'
  BY InvInductive, LeftSteps
<1>3. Inv /\ LeftInv /\ [Next]_vars => [\A k \in Keys : left[k].held => Resumed(k)]_vars
  <2> SUFFICES ASSUME Inv, LeftInv, [Next]_vars, NEW k \in Keys, left[k].held PROVE Resumed(k)
    OBVIOUS
  <2>1. Awaits(k) => Resumed(k)
    BY LeftSteps
  <2> QED BY <2>1 DEF Awaits, Resumed
<1> QED BY <1>1, <1>2, <1>3, PTL DEF Spec, RestartResumes
=============================================================================
