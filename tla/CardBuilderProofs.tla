------------------------- MODULE CardBuilderProofs --------------------------
(***************************************************************************)
(* The composite card never goes stale unannounced, for any number of      *)
(* upstreams, threads and cards, whether or not row writes fail.           *)
(*                                                                         *)
(* A step of a handler either leaves what every upstream advertises as it  *)
(* was, or leaves that handler with an event to post (ChangeAnnounced);    *)
(* and an event that somebody owes is forgotten only where a failed row    *)
(* write makes RefreshCard return before it posts (AnnouncementKept).      *)
(* The second needs BreakerSound: RecordFailure's debt counts only while   *)
(* the breaker is still open, so whoever closes it must have seen an       *)
(* unhealthy upstream and owes an event of its own.                        *)
(***************************************************************************)
EXTENDS CardBuilder, HealthProofs

(* Calls that have yet to change anything owe nothing.                     *)
NothingOwedEarly ==
  \A t \in Threads :
    call[t] # Idle /\ call[t].step \in {"upsert", "lookup", "fetch"}
      => call[t].due = "no"

ServingInv == Good /\ NothingOwedEarly

(* A call that has not yet written or fetched anything owes no event.      *)
LEMMA NothingOwedEarlyKept ==
  ASSUME ServingInv, Operate
  PROVE  NothingOwedEarly'
  <1> USE DEF ServingInv, NothingOwedEarly, Good, Go, At
  <1>1. CASE Tick
    BY <1>1 DEF Tick, GoodCall, Call
  <1>2. ASSUME NEW t \in Threads, Begin(t) PROVE NothingOwedEarly'
    <2> PICK id \in Ids : \/ RecordSuccess(t, id) \/ RecordFailure(t, id)
                          \/ RefreshCard(t, id)
                          \/ Add(t, id) \/ Remove(t, id)
      BY <1>2 DEF Begin
    <2>1. CASE RecordSuccess(t, id) \/ RecordFailure(t, id)
      <3>1. \A h, due, strict :
              Writing(id, h, due, strict).step = "persist"
        BY DEF Writing
      <3>2. PICK h, due : call' = [call EXCEPT ![t] = Writing(id, h, due, FALSE)]
        BY <2>1 DEF RecordSuccess, RecordFailure
      <3>3. QED BY <3>1, <3>2
    <2>2. CASE RefreshCard(t, id)
      BY <2>2 DEF RefreshCard, Base
    <2>3. CASE Add(t, id)
      <3>1. [Base("upsert", id) EXCEPT !.adding = TRUE].due = "no"
        BY DEF Base
      <3>2. QED BY <2>3, <3>1 DEF Add
    <2>4. CASE Remove(t, id)
      <3>1. [Base("emit", id) EXCEPT !.due = "yes"].step = "emit"
        BY DEF Base
      <3>2. ASSUME NEW u \in Threads, call[u] # Idle
            PROVE  /\ Settled(call[u]).step = call[u].step
                   /\ call[u].due = "no" => Settled(call[u]).due = "no"
        BY <3>2 DEF Settled, GoodCall, Call
      <3>3. QED BY <2>4, <3>1, <3>2 DEF Remove
    <2>5. QED BY <2>1, <2>2, <2>3, <2>4
  <1>3. ASSUME NEW t \in Threads, Continue(t) PROVE NothingOwedEarly'
    <2>1. CASE RefreshAdded(t)
      BY <2>1 DEF RefreshAdded, Base
    <2>2. CASE Fetched(t)
      BY <2>2 DEF Fetched, FetchDropped, FetchFails, FetchOk, Writing
    <2>3. CASE Persist(t) \/ PersistFails(t)
      BY <2>3 DEF Persist, PersistFails, GoodCall, Call
    <2>4. CASE Upsert(t) \/ UpsertFails(t)
      BY <2>4 DEF Upsert, UpsertFails, GoodCall, Call
    <2>5. CASE Emit(t)
      BY <2>5 DEF Emit, Base
    <2>6. QED BY <1>3, <2>1, <2>2, <2>3, <2>4, <2>5 DEF Continue
  <1>4. QED BY <1>1, <1>2, <1>3 DEF Operate

-----------------------------------------------------------------------------
(* What the changes of a record do to the skills it shows and to the       *)
(* breaker.                                                                *)

(* What RecordSuccess does to what an upstream advertises.                 *)
LEMMA SucceededShown ==
  ASSUME NEW h \in GoodHealth, h.status = "healthy"
  PROVE  Shown(Succeeded(h)) = Shown(h)
  <1>1. h # Absent /\ Succeeded(h) # Absent
    BY SucceededGood, NullAssumption DEF GoodHealth
  <1>2. Succeeded(h).status = "healthy" /\ Succeeded(h).card = h.card
    BY DEF Succeeded, GoodHealth, Health
  <1>3. QED BY <1>1, <1>2 DEF Shown

(* What RecordFailure does to it.                                          *)
LEMMA FailedShown ==
  ASSUME NEW h \in GoodHealth
  PROVE  /\ Shown(Failed(h)) # Shown(h)
              => h.status # "unhealthy" /\ Failed(h).failures >= FailureThreshold
         /\ h.failures >= FailureThreshold
              => Failed(h).failures >= FailureThreshold
  <1>1. h # Absent /\ Failed(h) # Absent
    BY FailedGood, NullAssumption DEF GoodHealth
  <1>2. /\ Failed(h).failures = h.failures + 1
        /\ Failed(h).card = h.card
        /\ Failed(h).status = IF h.failures + 1 >= FailureThreshold
                              THEN "unhealthy" ELSE h.status
    BY DEF Failed, GoodHealth, Health
  <1>3. h.failures \in Nat /\ FailureThreshold \in Nat
    BY HealthAssumption DEF GoodHealth, Health
  <1>4. QED BY <1>1, <1>2, <1>3 DEF Shown

(* What a failed fetch does to it.                                         *)
LEMMA EvictedShown ==
  ASSUME NEW h \in GoodHealth
  PROVE  /\ h.card = NoCard => Shown(Evicted(h)) = Shown(h)
         /\ Evicted(h).failures = h.failures
  <1>1. h # Absent /\ Evicted(h) # Absent
    BY EvictedGood, NullAssumption DEF GoodHealth
  <1>2. Evicted(h).card = NoCard /\ Evicted(h).failures = h.failures
    BY DEF Evicted, GoodHealth, Health
  <1>3. QED BY <1>1, <1>2 DEF Shown

(* Time changes nothing about it.                                          *)
LEMMA OlderShown ==
  ASSUME NEW h \in GoodHealth
  PROVE  /\ Older(h) # Absent
         /\ Shown(Older(h)) = Shown(h)
         /\ Older(h).failures = h.failures
  <1>1. h # Absent /\ Older(h) # Absent
    BY OlderGood, NullAssumption DEF GoodHealth
  <1>2. /\ Older(h).status = h.status
        /\ Older(h).card = h.card
        /\ Older(h).failures = h.failures
    BY DEF Older, GoodHealth, Health
  <1>3. QED BY <1>1, <1>2 DEF Shown

(* A record just registered advertises nothing.                            *)
LEMMA FreshShown ==
  Shown(Fresh) = NoCard /\ Shown(Absent) = NoCard
  BY DEF Shown, Fresh

-----------------------------------------------------------------------------

(* What a handler's own step leaves it owing.                              *)
OwesNow(t) == call'[t] # Idle /\ Owes(call[t])'

(* Whoever may close a breaker or take an upstream away owes an event.     *)
LEMMA ClosersOwe ==
  ASSUME ServingInv, NEW t \in Threads
  PROVE  /\ \A id \in Ids : RecordSuccess(t, id) /\ mem[id].status # "healthy"
                              => OwesNow(t)
         /\ \A id \in Ids : Remove(t, id) => OwesNow(t)
         /\ \A c \in Cards : FetchOk(t, c) => OwesNow(t)
  <1> USE DEF ServingInv, Good, Go, At
  <1>1. ASSUME NEW id \in Ids, RecordSuccess(t, id), mem[id].status # "healthy"
        PROVE  OwesNow(t)
    <2> DEFINE k == Writing(id, Succeeded(mem[id]), "yes", FALSE)
    <2>1. call'[t] = k
      BY <1>1 DEF RecordSuccess
    <2>2. k.due = "yes"
      BY DEF Writing
    <2>3. k # Idle
      BY <1>1, WritingGood, SucceededGood, NullAssumption
      DEF RecordSuccess, GoodCall
    <2>4. QED BY <2>1, <2>2, <2>3 DEF OwesNow, Owes
  <1>2. ASSUME NEW id \in Ids, Remove(t, id)
        PROVE  OwesNow(t)
    <2> DEFINE k == [Base("emit", id) EXCEPT !.due = "yes"]
    <2>1. call'[t] = k
      BY <1>2 DEF Remove
    <2>2. k \in GoodCall
      BY BaseGood, SteppedGood
    <2>3. k # Idle
      BY <2>2, NullAssumption DEF GoodCall
    <2>4. k.due = "yes"
      BY DEF Base
    <2>5. QED BY <2>1, <2>3, <2>4 DEF OwesNow, Owes
  <1>3. ASSUME NEW c \in Cards, FetchOk(t, c)
        PROVE  OwesNow(t)
    <2> DEFINE id == call[t].id
               h  == mem[id]
               k  == Writing(id, Carded(h, c), "yes", TRUE)
    <2>1. id \in Ids /\ h \in GoodHealth
      BY <1>3 DEF FetchOk, GoodCall, Call
    <2>2. call'[t] = k
      BY <1>3, <2>1 DEF FetchOk
    <2>3. k # Idle /\ k.due = "yes"
      BY <2>1, WritingGood, CardedGood, NullAssumption DEF Writing, GoodCall
    <2>4. QED BY <2>2, <2>3 DEF OwesNow, Owes
  <1>4. QED BY <1>1, <1>2, <1>3

(* A handler that changes what an upstream advertises owes an event.       *)
LEMMA ChangeAnnounced ==
  ASSUME ServingInv, Operate
  PROVE  Composite' = Composite \/ Announced'
  <1> USE DEF ServingInv, Good, Go, At
  <1> DEFINE Same == \A id \in Ids : Shown(mem'[id]) = Shown(mem[id])
  <1> SUFFICES Same \/ \E t \in Threads : OwesNow(t)
    BY DEF Announced, OwesNow, Composite, Advertised
  <1>1. CASE Tick
    BY <1>1, OlderShown DEF Tick, OlderAll
  <1>2. ASSUME NEW t \in Threads, NEW id \in Ids, RecordSuccess(t, id)
        PROVE  Same \/ OwesNow(t)
    <2>1. CASE mem[id].status = "healthy"
      <3>1. mem[id] \in GoodHealth
        BY <1>2 DEF RecordSuccess
      <3>2. Shown(Succeeded(mem[id])) = Shown(mem[id])
        BY <2>1, <3>1, SucceededShown
      <3>3. QED BY <1>2, <3>2 DEF RecordSuccess
    <2>2. CASE mem[id].status # "healthy"
      BY <1>2, <2>2, ClosersOwe
    <2>3. QED BY <2>1, <2>2
  <1>3. ASSUME NEW t \in Threads, NEW id \in Ids, RecordFailure(t, id)
        PROVE  Same \/ OwesNow(t)
    <2>1. mem[id] \in GoodHealth /\ mem'[id] = Failed(mem[id])
      BY <1>3 DEF RecordFailure
    <2>2. CASE Shown(Failed(mem[id])) = Shown(mem[id])
      BY <1>3, <2>2 DEF RecordFailure
    <2>3. CASE Shown(Failed(mem[id])) # Shown(mem[id])
      <3> DEFINE k == Writing(id, Failed(mem[id]), "if open", FALSE)
      <3>1. /\ mem[id].status # "unhealthy"
            /\ Failed(mem[id]).failures >= FailureThreshold
        BY <2>1, <2>3, FailedShown
      <3>2. call'[t] = k
        BY <1>3, <3>1 DEF RecordFailure
      <3>3. k # Idle /\ k.due = "if open" /\ k.id = id
        BY <2>1, WritingGood, FailedGood, NullAssumption DEF Writing, GoodCall
      <3>4. mem'[id] # Absent
        BY <2>1, FailedGood, NullAssumption DEF GoodHealth
      <3>5. QED BY <2>1, <3>1, <3>2, <3>3, <3>4 DEF OwesNow, Owes, Open
    <2>4. QED BY <2>2, <2>3
  <1>4. ASSUME NEW t \in Threads, NEW id \in Ids, Add(t, id)
        PROVE  Same
    BY <1>4, FreshShown DEF Add
  <1>5. ASSUME NEW t \in Threads, NEW id \in Ids, Remove(t, id)
        PROVE  OwesNow(t)
    BY <1>5, ClosersOwe
  <1>6. ASSUME NEW t \in Threads, FetchFails(t)
        PROVE  Same \/ OwesNow(t)
    <2> DEFINE id == call[t].id
               h  == mem[id]
    <2>1. id \in Ids /\ h \in GoodHealth
      BY <1>6 DEF FetchFails, GoodCall, Call
    <2>2. CASE h.card = NoCard
      BY <1>6, <2>1, <2>2, EvictedShown DEF FetchFails
    <2>3. CASE h.card # NoCard
      <3> DEFINE k == Writing(id, Evicted(h), "yes", TRUE)
      <3>1. call'[t] = k
        BY <1>6, <2>1, <2>3 DEF FetchFails
      <3>2. k # Idle /\ k.due = "yes"
        BY <2>1, WritingGood, EvictedGood, NullAssumption DEF Writing, GoodCall
      <3>3. QED BY <3>1, <3>2 DEF OwesNow, Owes
    <2>4. QED BY <2>2, <2>3
  <1>7. ASSUME NEW t \in Threads, NEW c \in Cards, FetchOk(t, c)
        PROVE  OwesNow(t)
    BY <1>7, ClosersOwe
  <1>8. ASSUME NEW t \in Threads, UNCHANGED mem PROVE Same
    BY <1>8
  <1>9. QED
    BY <1>1, <1>2, <1>3, <1>4, <1>5, <1>6, <1>7, <1>8
    DEF Operate, Begin, Continue, Fetched, RefreshCard, RefreshAdded,
        FetchDropped, Persist, PersistFails, Upsert, UpsertFails, Emit

(* An event that is in the channel, or that somebody owes, stays or is     *)
(* dropped by a handler that returns early.                                *)
LEMMA AnnouncementKept ==
  ASSUME ServingInv, Operate, Announced
  PROVE  Announced' \/ EventDropped
  <1> USE DEF ServingInv, Good, Go, At
  <1>1. CASE channel
    <2>1. channel'
      BY <1>1 DEF Operate, Tick, Begin, Continue, Fetched, RecordSuccess,
           RecordFailure, RefreshCard, Add, Remove, RefreshAdded,
           FetchDropped, FetchFails, FetchOk, Persist, PersistFails,
           Upsert, UpsertFails, Emit
    <2>2. QED BY <2>1 DEF Announced
  <1>2. ASSUME NEW d \in Threads, call[d] # Idle, Owes(call[d])
        PROVE  Announced' \/ EventDropped
    <2> DEFINE k == call[d]
    <2>1. k \in GoodCall /\ k.id \in Ids
      BY <1>2 DEF GoodCall, Call
    <2>2. k.step \in {"persist", "emit"}
      BY <1>2, <2>1 DEF NothingOwedEarly, Owes, GoodCall, Call
    <2>3. ASSUME call'[d] # Idle, call'[d].due = k.due, call'[d].id = k.id,
                 Open(k.id) => Open(k.id)'
          PROVE  Announced'
      BY <1>2, <2>3 DEF Announced, Owes, Open
    <2>4. CASE Tick
      <3>1. [k EXCEPT !.row = Older(@)] \in Call
        BY <2>1, OlderGood DEF GoodCall, Call, GoodHealth
      <3>2. /\ call'[d] = [k EXCEPT !.row = Older(@)]
            /\ call'[d] # Idle
        BY <1>2, <2>4, <3>1, NullAssumption DEF Tick
      <3>3. call'[d].due = k.due /\ call'[d].id = k.id
        BY <2>1, <3>2 DEF GoodCall, Call
      <3>4. Open(k.id) => Open(k.id)'
        BY <2>1, <2>4, OlderShown DEF Tick, OlderAll, Open
      <3>5. QED BY <2>3, <3>2, <3>3, <3>4
    <2>5. ASSUME Continue(d)
          PROVE  Announced' \/ EventDropped
      <3>1. Persist(d) \/ PersistFails(d) \/ Emit(d)
        BY <2>2, <2>5 DEF Continue, RefreshAdded, Fetched, FetchDropped,
           FetchFails, FetchOk, Upsert, UpsertFails
      <3>2. ASSUME call'[d] = [k EXCEPT !.step = "emit", !.row = Fresh, !.strict = FALSE],
                   UNCHANGED mem
            PROVE  Announced'
        <4>1. [k EXCEPT !.step = "emit", !.row = Fresh, !.strict = FALSE] \in GoodCall
          BY <2>1, SteppedGood DEF GoodCall, Call
        <4>2. call'[d] # Idle
          BY <3>2, <4>1, NullAssumption DEF GoodCall
        <4>3. call'[d].due = k.due /\ call'[d].id = k.id
          BY <2>1, <3>2 DEF GoodCall, Call
        <4>4. QED BY <2>3, <3>2, <4>2, <4>3 DEF Open
      <3>3. CASE Persist(d)
        <4>1. /\ call'[d] = [k EXCEPT !.step = "emit", !.row = Fresh, !.strict = FALSE]
              /\ UNCHANGED mem
          BY <3>3 DEF Persist
        <4>2. QED BY <3>2, <4>1
      <3>4. CASE PersistFails(d) /\ ~k.strict
        <4>1. /\ call'[d] = [k EXCEPT !.step = "emit", !.row = Fresh, !.strict = FALSE]
              /\ UNCHANGED mem
          BY <3>4 DEF PersistFails
        <4>2. QED BY <3>2, <4>1
      <3>5. CASE PersistFails(d) /\ k.strict
        BY <1>2, <3>5 DEF PersistFails, EventDropped
      <3>6. CASE Emit(d)
        BY <1>2, <3>6 DEF Emit, Announced
      <3>7. QED BY <3>1, <3>3, <3>4, <3>5, <3>6
    <2>6. ASSUME NEW t \in Threads, t # d, NEW id \in Ids, RecordSuccess(t, id)
          PROVE  Announced'
      <3>1. CASE mem[id].status # "healthy"
        BY <2>6, <3>1, ClosersOwe DEF OwesNow, Announced
      <3>2. CASE mem[id].status = "healthy"
        <4>1. ~Open(id)
          BY <2>6, <3>2 DEF RecordSuccess, Open, GoodHealth, Sound
        <4>2. QED BY <1>2, <2>1, <2>3, <2>6, <4>1 DEF RecordSuccess, Open
      <3>3. QED BY <3>1, <3>2
    <2>7. ASSUME NEW t \in Threads, t # d, NEW id \in Ids, RecordFailure(t, id)
          PROVE  Announced'
      <3>1. Open(id) => Open(id)'
        BY <2>7, FailedShown, FailedGood, NullAssumption
        DEF RecordFailure, Open, GoodHealth
      <3>2. QED BY <1>2, <2>1, <2>3, <2>7, <3>1 DEF RecordFailure, Open
    <2>8. ASSUME NEW t \in Threads, t # d, NEW id \in Ids, Add(t, id)
          PROVE  Announced'
      BY <1>2, <2>1, <2>3, <2>8 DEF Add, Open
    <2>9. ASSUME NEW t \in Threads, FetchFails(t), t # d
          PROVE  Announced'
      <3>1. call[t].id \in Ids
        BY <2>9 DEF FetchFails, GoodCall, Call
      <3>2. Open(k.id) => Open(k.id)'
        BY <2>1, <2>9, <3>1, EvictedShown, EvictedGood, NullAssumption
        DEF FetchFails, Open, GoodHealth
      <3>3. QED BY <1>2, <2>3, <2>9, <3>2 DEF FetchFails
    <2>10. ASSUME NEW t \in Threads, t # d, UNCHANGED mem, call'[d] = k
           PROVE  Announced'
      BY <1>2, <2>3, <2>10 DEF Open
    <2>11. ASSUME NEW t \in Threads, t # d, Begin(t) \/ Continue(t)
           PROVE  Announced'
      BY <1>2, <2>6, <2>7, <2>8, <2>9, <2>10, <2>11, ClosersOwe
      DEF Begin, Continue, Fetched, RefreshCard, RefreshAdded, FetchDropped,
          Persist, PersistFails, Upsert, UpsertFails, Emit, OwesNow, Announced
    <2>12. ~Begin(d)
      BY <1>2 DEF Begin, RecordSuccess, RecordFailure, RefreshCard, Add, Remove
    <2>13. QED BY <2>4, <2>5, <2>11, <2>12 DEF Operate
  <1>3. QED BY <1>1, <1>2 DEF Announced

-----------------------------------------------------------------------------

BuilderInv == ServingInv /\ StaleIsAnnounced

(* Start has yet to build: nothing can be stale.                           *)
LEMMA BuilderInvInit == BuilderInit => BuilderInv
  <1> SUFFICES ASSUME BuilderInit PROVE BuilderInv
    OBVIOUS
  <1>1. ServingInv
    BY GoodInit DEF BuilderInit, Init, ServingInv, NothingOwedEarly
  <1>2. StaleIsAnnounced
    BY DEF BuilderInit, StaleIsAnnounced
  <1>3. QED BY <1>1, <1>2 DEF BuilderInv

(* Every step of the handlers and of the builder preserves it.             *)
LEMMA BuilderInvNext ==
  ASSUME BuilderInv, [BuilderNext]_allVars
  PROVE  BuilderInv'
  <1> USE DEF BuilderInv
  <1>1. CASE Operate /\ Rest
    <2>1. ServingInv'
      BY <1>1, GoodNext, NothingOwedEarlyKept DEF ServingInv, Next
    <2>2. Composite' = Composite \/ Announced'
      BY <1>1, ChangeAnnounced
    <2>3. Announced => Announced' \/ EventDropped
      BY <1>1, AnnouncementKept
    <2>4. ASSUME ~ListToCome, Announced \/ lost
          PROVE  Announced' \/ lost'
      <3>1. CASE channel'
        BY <3>1 DEF Announced
      <3>2. CASE ~channel'
        BY <1>1, <2>3, <2>4, <3>2 DEF Rest
      <3>3. QED BY <3>1, <3>2
    <2>5. ~ListToCome <=> timer = "off" \/ snapshot # Unbuilt
      BY DEF ListToCome
    <2>6. StaleIsAnnounced'
      BY <1>1, <2>2, <2>4, <2>5 DEF StaleIsAnnounced, Rest, builder
    <2>7. QED BY <2>1, <2>6
  <1>2. CASE Receive
    BY <1>2 DEF Receive, ServingInv, Good, NothingOwedEarly, StaleIsAnnounced
  <1>3. CASE Build
    <2>1. UNCHANGED vars
      BY <1>3 DEF Build, RebuildList, RebuildStore
    <2>2. ServingInv'
      BY <2>1 DEF vars, ServingInv, Good, NothingOwedEarly
    <2>3. Composite' = Composite /\ (Announced' <=> Announced)
      BY <2>1 DEF vars, Composite, Advertised, Announced, Owes, Open
    <2>4. CASE RebuildList
      <3>1. timer' # "off" /\ snapshot' = Composite'
        BY <2>3, <2>4 DEF RebuildList
      <3>2. StaleIsAnnounced'
        BY <3>1 DEF StaleIsAnnounced
      <3>3. QED BY <2>2, <3>2
    <2>5. CASE RebuildStore
      <3>1. /\ snapshot # Unbuilt /\ snapshot' = Unbuilt
            /\ published' = snapshot
            /\ lost' = lost
        BY <2>5 DEF RebuildStore
      <3>2. StaleIsAnnounced'
        BY <2>3, <3>1 DEF StaleIsAnnounced
      <3>3. QED BY <2>2, <3>2
    <2>6. QED BY <1>3, <2>2, <2>4, <2>5 DEF Build
  <1>4. CASE RestartHub
    <2>1. ServingInv'
      BY <1>4, GoodRestart DEF RestartHub, Restart, ServingInv, NothingOwedEarly
    <2>2. StaleIsAnnounced'
      BY <1>4 DEF RestartHub, StaleIsAnnounced
    <2>3. QED BY <2>1, <2>2
  <1>5. CASE UNCHANGED allVars
    BY <1>5 DEF allVars, ServingInv, Good, NothingOwedEarly, StaleIsAnnounced,
                Composite, Advertised, Announced, Owes, Open
  <1>6. QED BY <1>1, <1>2, <1>3, <1>4, <1>5 DEF BuilderNext

(* The published card is never stale without an event under way that will  *)
(* have it rebuilt, unless RefreshCard dropped one over a failed row write *)
(* and nothing has made up for it.                                         *)
THEOREM StalenessAnnounced == BuilderSpec => []StaleIsAnnounced
  <1>1. BuilderInit => BuilderInv
    BY BuilderInvInit
  <1>2. BuilderInv /\ [BuilderNext]_allVars => BuilderInv'
    BY BuilderInvNext
  <1>3. BuilderInv => StaleIsAnnounced
    BY DEF BuilderInv
  <1>4. QED BY <1>1, <1>2, <1>3, PTL DEF BuilderSpec

-----------------------------------------------------------------------------
(* Types.                                                                  *)

BuilderGood ==
  /\ Good
  /\ timer \in {"seed", "off", "on"}
  /\ snapshot \in [Ids -> Cards \cup {NoCard}] \cup {Unbuilt}
  /\ published \in [Ids -> Cards \cup {NoCard}]
  /\ lost \in BOOLEAN

(* What List() returns is a card of the upstream's or nothing.             *)
LEMMA CompositeType ==
  ASSUME Good
  PROVE  Composite \in [Ids -> Cards \cup {NoCard}]
  <1>1. ASSUME NEW id \in Ids PROVE Advertised(id) \in Cards \cup {NoCard}
    BY DEF Good, GoodHealth, Health, Advertised, Shown
  <1>2. QED BY <1>1 DEF Composite

(* Every step of the handlers, of the builder and of a restart preserves   *)
(* the types and the soundness of the breakers.                            *)
LEMMA BuilderGoodAlways == BuilderSpec => []BuilderGood
  <1>1. BuilderInit => BuilderGood
    BY GoodInit DEF BuilderInit, BuilderGood, Nothing
  <1>2. BuilderGood /\ [BuilderNext]_allVars => BuilderGood'
    <2> SUFFICES ASSUME BuilderGood, [BuilderNext]_allVars
                 PROVE  BuilderGood'
      OBVIOUS
    <2> USE DEF BuilderGood
    <2>1. CASE Operate /\ Rest
      BY <2>1, GoodNext DEF Next, Rest, builder
    <2>2. CASE Receive
      BY <2>2 DEF Receive, Good
    <2>3. CASE Build
      BY <2>3, CompositeType, GoodNext
      DEF Build, RebuildList, RebuildStore
    <2>4. CASE RestartHub
      BY <2>4, GoodRestart DEF RestartHub, Nothing
    <2>5. CASE UNCHANGED allVars
      BY <2>5 DEF allVars, Good
    <2>6. QED BY <2>1, <2>2, <2>3, <2>4, <2>5 DEF BuilderNext
  <1>3. QED BY <1>1, <1>2, PTL DEF BuilderSpec

(* The published card is always one the builder built, an empty one at     *)
(* first: a handler that serves it never sees a rebuild that is half done. *)
THEOREM BuilderTypes == BuilderSpec => []BuilderTypeOK
  <1>1. BuilderGood => BuilderTypeOK
    BY HealthInvIsGood DEF BuilderGood, BuilderTypeOK, HealthInv
  <1>2. QED BY <1>1, BuilderGoodAlways, PTL

(* The breakers stay sound next to the builder, which takes events off the *)
(* channel that Health only fills.                                         *)
THEOREM BreakersStaySound == BuilderSpec => []BreakerSound
  <1>1. BuilderGood => BreakerSound
    BY HealthInvIsGood DEF BuilderGood, HealthInv
  <1>2. QED BY <1>1, BuilderGoodAlways, PTL

=============================================================================
