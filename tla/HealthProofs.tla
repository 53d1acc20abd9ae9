---------------------------- MODULE HealthProofs ----------------------------
(***************************************************************************)
(* Type correctness of Health, and the soundness of the breaker, for any   *)
(* number of upstreams, threads and cards and any thresholds.              *)
(*                                                                         *)
(* BreakerSound with TypeOK is inductive: rows, in-flight copies and       *)
(* memory are kept together in it because a restart moves the first to the *)
(* last, and a handler the last to the second and then to the first.       *)
(***************************************************************************)
EXTENDS Health, TLAPS

(* What each handler does to one record keeps it a record, and a sound one. *)
GoodHealth == {h \in Health : Sound(h)}

(* The record of an upstream just registered is good.                      *)
LEMMA FreshGood == Fresh \in GoodHealth
  BY HealthAssumption, SMT DEF GoodHealth, Fresh, Health, Status, Sound

(* RecordSuccess closes the breaker whatever the record was.               *)
LEMMA SucceededGood ==
  ASSUME NEW h \in GoodHealth
  PROVE  Succeeded(h) \in GoodHealth
  <1>1. Succeeded(h) \in Health
    BY DEF GoodHealth, Succeeded, Health, Status
  <1>2. Sound(Succeeded(h))
    BY HealthAssumption, SMT DEF GoodHealth, Succeeded, Health, Sound
  <1>3. QED BY <1>1, <1>2 DEF GoodHealth

(* RecordFailure opens it on the failure that reaches the threshold.       *)
LEMMA FailedGood ==
  ASSUME NEW h \in GoodHealth
  PROVE  Failed(h) \in GoodHealth
  <1> DEFINE n == h.failures + 1
             s == IF n >= FailureThreshold THEN "unhealthy" ELSE h.status
  <1>1. n \in Nat /\ 0 \in Nat /\ s \in Status
    BY SMT DEF GoodHealth, Health, Status
  <1>2. Failed(h) \in Health
    BY <1>1 DEF GoodHealth, Failed, Health
  <1>3. Sound(Failed(h))
    BY HealthAssumption, SMT DEF GoodHealth, Failed, Health, Sound
  <1>4. QED BY <1>2, <1>3 DEF GoodHealth

(* A failed fetch drops the card but neither opens nor closes the breaker. *)
LEMMA EvictedGood ==
  ASSUME NEW h \in GoodHealth
  PROVE  Evicted(h) \in GoodHealth
  <1>1. Evicted(h) \in Health
    BY DEF GoodHealth, Evicted, Health, Status
  <1>2. Sound(Evicted(h))
    BY HealthAssumption, SMT DEF GoodHealth, Evicted, Health, Sound
  <1>3. QED BY <1>1, <1>2 DEF GoodHealth

(* A card closes an open breaker only together with its counter.           *)
LEMMA CardedGood ==
  ASSUME NEW h \in GoodHealth, NEW c \in Cards
  PROVE  Carded(h, c) \in GoodHealth
  <1> DEFINE rescued == h.status = "unhealthy" /\ BackoffOver(h)
  <1>1. Carded(h, c) \in Health
    BY DEF GoodHealth, Carded, Health, Status
  <1>2. Sound(Carded(h, c))
    <2>1. CASE rescued
      BY <2>1, HealthAssumption, SMT DEF GoodHealth, Carded, Health, Sound
    <2>2. CASE ~rescued
      BY <2>2, HealthAssumption, SMT DEF GoodHealth, Carded, Health, Sound
    <2>3. QED BY <2>1, <2>2
  <1>3. QED BY <1>1, <1>2 DEF GoodHealth

(* Time only moves the age of the last failure.                            *)
LEMMA OlderGood ==
  ASSUME NEW h \in GoodHealth
  PROVE  Older(h) \in GoodHealth
  BY HealthAssumption, SMT DEF GoodHealth, Older, Health, Status, Sound

-----------------------------------------------------------------------------

HealthInv == TypeOK /\ BreakerSound

GoodCall == {k \in Call : Sound(k.row)}

Good ==
  /\ mem \in [Ids -> GoodHealth \cup {Absent}]
  /\ rows \in [Ids -> GoodHealth \cup {Absent}]
  /\ call \in [Threads -> GoodCall \cup {Idle}]
  /\ channel \in BOOLEAN

(* The invariant says that every record there is, is a good one.           *)
LEMMA HealthInvIsGood == HealthInv <=> Good
  <1>1. HealthInv => Good
    BY DEF HealthInv, Good, TypeOK, BreakerSound, GoodHealth, GoodCall
  <1>2. Good => HealthInv
    BY DEF HealthInv, Good, TypeOK, BreakerSound, GoodHealth, GoodCall
  <1>3. QED BY <1>1, <1>2

(* The calls the actions put a thread into.                                *)
LEMMA BaseGood ==
  ASSUME NEW id \in Ids, NEW step \in {"upsert", "lookup", "fetch", "persist", "emit"}
  PROVE  Base(step, id) \in GoodCall
  BY FreshGood DEF Base, GoodCall, Call, GoodHealth

(* A call that is about to write a good record is good.                    *)
LEMMA WritingGood ==
  ASSUME NEW id \in Ids, NEW h \in GoodHealth,
         NEW due \in {"no", "yes", "if open"}, NEW strict \in BOOLEAN
  PROVE  Writing(id, h, due, strict) \in GoodCall
  <1>1. Writing(id, h, due, strict) \in Call
    BY DEF Writing, Call, GoodHealth
  <1>2. Writing(id, h, due, strict).row = h
    BY DEF Writing
  <1>3. QED BY <1>1, <1>2 DEF GoodCall, GoodHealth

(* A call that only moves on to another step stays good.                   *)
LEMMA SteppedGood ==
  ASSUME NEW k \in GoodCall, NEW due \in {"no", "yes", "if open"}
  PROVE  /\ [k EXCEPT !.step = "emit", !.row = Fresh, !.strict = FALSE] \in GoodCall
         /\ [k EXCEPT !.step = "emit", !.due = due] \in GoodCall
         /\ [k EXCEPT !.due = due] \in GoodCall
  <1>1. Fresh \in Health /\ Sound(Fresh)
    BY FreshGood DEF GoodHealth
  <1>2. k \in Call /\ Sound(k.row)
    BY DEF GoodCall
  <1>3. /\ [k EXCEPT !.step = "emit", !.row = Fresh, !.strict = FALSE] \in Call
        /\ [k EXCEPT !.step = "emit", !.due = due] \in Call
        /\ [k EXCEPT !.due = due] \in Call
    BY <1>1, <1>2 DEF Call
  <1>4. /\ [k EXCEPT !.step = "emit", !.row = Fresh, !.strict = FALSE].row = Fresh
        /\ [k EXCEPT !.step = "emit", !.due = due].row = k.row
        /\ [k EXCEPT !.due = due].row = k.row
    BY <1>2 DEF Call
  <1>5. QED BY <1>1, <1>2, <1>3, <1>4 DEF GoodCall

-----------------------------------------------------------------------------

(* Initially there is no record at all.                                    *)
LEMMA GoodInit == Init => Good
  BY DEF Init, Good

(* A thread begins an operation.                                           *)
LEMMA GoodBegin ==
  ASSUME Good, NEW t \in Threads, Begin(t)
  PROVE  Good'
  <1> PICK id \in Ids : \/ RecordSuccess(t, id) \/ RecordFailure(t, id)
                        \/ RefreshCard(t, id)
                        \/ Add(t, id) \/ Remove(t, id)
    BY DEF Begin
  <1> USE DEF Good, Go
  <1>1. CASE RecordSuccess(t, id)
    <2>1. Succeeded(mem[id]) \in GoodHealth
      BY <1>1, SucceededGood DEF RecordSuccess
    <2>2. QED BY <1>1, <2>1, WritingGood DEF RecordSuccess
  <1>2. CASE RecordFailure(t, id)
    <2>1. Failed(mem[id]) \in GoodHealth
      BY <1>2, FailedGood DEF RecordFailure
    <2>2. QED BY <1>2, <2>1, WritingGood DEF RecordFailure
  <1>3. CASE RefreshCard(t, id)
    BY <1>3, BaseGood DEF RefreshCard
  <1>4. CASE Add(t, id)
    <2>1. [Base("upsert", id) EXCEPT !.adding = TRUE] \in GoodCall
      BY FreshGood DEF Base, GoodCall, Call, GoodHealth
    <2>2. QED BY <1>4, <2>1, FreshGood DEF Add
  <1>5. CASE Remove(t, id)
    <2>1. [Base("emit", id) EXCEPT !.due = "yes"] \in GoodCall
      BY BaseGood, SteppedGood
    <2>2. \A u \in Threads : call[u] # Idle => Settled(call[u]) \in GoodCall
      <3> TAKE u \in Threads
      <3> HAVE call[u] # Idle
      <3>1. call[u] \in GoodCall
        OBVIOUS
      <3>2. call[u].due \in {"no", "yes", "if open"}
        BY <3>1 DEF GoodCall, Call
      <3>3. QED BY <3>1, <3>2, SteppedGood DEF Settled
    <2>3. call' \in [Threads -> GoodCall \cup {Idle}]
      BY <1>5, <2>1, <2>2 DEF Remove
    <2>4. QED BY <1>5, <2>3 DEF Remove
  <1>6. QED BY <1>1, <1>2, <1>3, <1>4, <1>5

(* A thread goes on with the one it is in.                                 *)
LEMMA GoodContinue ==
  ASSUME Good, NEW t \in Threads, Continue(t)
  PROVE  Good'
  <1> DEFINE k == call[t]
  <1> USE DEF Good, Go, At
  <1>1. k \in GoodCall
    BY DEF Continue, RefreshAdded, Fetched, FetchDropped, FetchFails, FetchOk,
           Persist, PersistFails, Upsert, UpsertFails, Emit
  <1>2. k.id \in Ids /\ k.row \in GoodHealth
    BY <1>1 DEF GoodCall, Call, GoodHealth
  <1>3. CASE RefreshAdded(t)
    BY <1>2, <1>3, BaseGood DEF RefreshAdded
  <1>4. CASE FetchDropped(t)
    BY <1>4 DEF FetchDropped
  <1>5. CASE FetchFails(t)
    <2>1. Evicted(mem[k.id]) \in GoodHealth
      BY <1>2, <1>5, EvictedGood DEF FetchFails
    <2>2. QED BY <1>2, <1>5, <2>1, WritingGood DEF FetchFails
  <1>6. ASSUME NEW c \in Cards, FetchOk(t, c) PROVE Good'
    <2>1. Carded(mem[k.id], c) \in GoodHealth
      BY <1>2, <1>6, CardedGood DEF FetchOk
    <2>2. QED BY <1>2, <1>6, <2>1, WritingGood DEF FetchOk
  <1>7. CASE Persist(t)
    BY <1>1, <1>2, <1>7, SteppedGood DEF Persist
  <1>8. CASE PersistFails(t)
    BY <1>1, <1>8, SteppedGood DEF PersistFails
  <1>9. CASE Upsert(t)
    BY <1>1, <1>2, <1>9, SteppedGood DEF Upsert
  <1>10. CASE UpsertFails(t)
    BY <1>2, <1>10 DEF UpsertFails
  <1>11. CASE Emit(t)
    <2>1. channel' \in BOOLEAN
      BY <1>11 DEF Emit, Owes, Open
    <2>2. QED BY <1>2, <1>11, <2>1, BaseGood DEF Emit
  <1>12. QED BY <1>3, <1>4, <1>5, <1>6, <1>7, <1>8, <1>9, <1>10, <1>11
         DEF Continue, Fetched

(* Time passes.                                                            *)
LEMMA GoodTick ==
  ASSUME Good, Tick
  PROVE  Good'
  <1>1. ASSUME NEW f \in [Ids -> GoodHealth \cup {Absent}]
        PROVE  OlderAll(f) \in [Ids -> GoodHealth \cup {Absent}]
    BY OlderGood DEF OlderAll
  <1>2. ASSUME NEW t \in Threads, call[t] # Idle
        PROVE  [call[t] EXCEPT !.row = Older(@)] \in GoodCall
    <2>1. call[t] \in Call /\ Older(call[t].row) \in GoodHealth
      BY <1>2, OlderGood DEF Good, GoodCall, Call, GoodHealth
    <2>2. QED BY <2>1 DEF GoodCall, Call, GoodHealth
  <1>3. QED BY <1>1, <1>2 DEF Good, Tick

(* The hub comes up again with what the rows hold.                         *)
LEMMA GoodRestart ==
  ASSUME Good, Restart
  PROVE  Good'
  <1>1. rows' \in [Ids -> GoodHealth \cup {Absent}]
    BY FreshGood DEF Good, Restart
  <1>2. mem' \in [Ids -> GoodHealth \cup {Absent}]
    BY <1>1 DEF Restart
  <1>3. QED BY <1>1, <1>2 DEF Good, Restart

(* Every step of the program keeps the records good.                       *)
LEMMA GoodNext ==
  ASSUME Good, [Next]_vars
  PROVE  Good'
  <1>1. CASE Operate
    BY <1>1, GoodBegin, GoodContinue, GoodTick DEF Operate
  <1>2. CASE Restart
    BY <1>2, GoodRestart
  <1>3. CASE UNCHANGED vars
    BY <1>3 DEF vars, Good
  <1>4. QED BY <1>1, <1>2, <1>3 DEF Next

-----------------------------------------------------------------------------

(* The inductive invariant holds of every behaviour.                       *)
THEOREM HealthInvariant == Spec => []HealthInv
  <1>1. Init => HealthInv
    BY GoodInit, HealthInvIsGood
  <1>2. HealthInv /\ [Next]_vars => HealthInv'
    <2> SUFFICES ASSUME HealthInv, [Next]_vars PROVE HealthInv'
      OBVIOUS
    <2>1. Good'
      BY GoodNext, HealthInvIsGood
    <2>2. QED
      BY <2>1, HealthInvIsGood, PTL
  <1>3. QED BY <1>1, <1>2, PTL DEF Spec

(* Every variable keeps the shape the code's types give it.                *)
THEOREM TypeCorrect == Spec => []TypeOK
  BY HealthInvariant, PTL DEF HealthInv

(* The breaker is sound, in memory, in the table and in every unwritten    *)
(* row, at every moment of every run, restarts included.                   *)
THEOREM BreakerIsSound == Spec => []BreakerSound
  BY HealthInvariant, PTL DEF HealthInv

=============================================================================
