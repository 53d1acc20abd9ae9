------------------------------- MODULE Health -------------------------------
(***************************************************************************)
(* Health and card cache of the registered upstreams                       *)
(* (internal/registry/registry.go, with the health columns of              *)
(* internal/store/upstreams.go).                                           *)
(*                                                                         *)
(* Every handler changes the in-memory record of an upstream under the     *)
(* registry lock, copies it to a row, RELEASES the lock, writes the row to *)
(* the database and only then posts a change event.  Here a handler is a   *)
(* thread that takes those steps one at a time, so that the steps of two   *)
(* handlers interleave as goroutines do.  How Add and Remove find ids and  *)
(* names is the business of module Registry; this one keeps the part of    *)
(* them that touches health, cards and events.                             *)
(***************************************************************************)
EXTENDS Naturals

CONSTANTS
  Ids,               \* upstream ids
  Threads,           \* handlers and refresh loops that may run at once
  Cards,             \* agent cards an upstream may serve, by their skills
  NoCard,            \* u.Card == nil
  Absent,            \* not in byID; no row in the table
  Idle,              \* a thread that runs no registry operation
  Never,             \* a zero time.Time
  FailureThreshold,  \* failures in a row that open the breaker (3)
  MaxExponent,       \* the backoff window grows to 2^MaxExponent (6)
  MaxFailures,       \* bound: no failure is recorded beyond this count
  StoreMayFail,      \* whether database calls may return errors
  Refreshed          \* upstreams that the refresh loop keeps fetching cards
                     \* of: enabled ones, if hub.refresh_interval is not 0

ASSUME HealthAssumption ==
  /\ FailureThreshold \in Nat \ {0}
  /\ MaxExponent \in Nat
  /\ MaxFailures \in Nat
  /\ Never \notin Nat
  /\ NoCard \notin Cards
  /\ StoreMayFail \in BOOLEAN
  /\ Refreshed \subseteq Ids

VARIABLES
  mem,      \* byID: the in-memory record of each id
  rows,     \* the health columns of each id's row in table upstreams
  call,     \* what each thread is in the middle of
  channel   \* whether the one-slot events channel holds an event

vars == <<mem, rows, call, channel>>

-----------------------------------------------------------------------------
(* Health records. elapsed is the time since LastFailureAt, in seconds.    *)

Status == {"unknown", "healthy", "unhealthy"}

Health == [status   : Status,
           failures : Nat,
           elapsed  : Nat \cup {Never},
           card     : Cards \cup {NoCard}]

Fresh == [status |-> "unknown", failures |-> 0,
          elapsed |-> Never, card |-> NoCard]

AtMost(n, limit) == IF n > limit THEN limit ELSE n


Backoff(n) ==
  2 ^ (IF n < FailureThreshold THEN 0
       ELSE AtMost(n - FailureThreshold, MaxExponent))

LongestBackoff == 2 ^ MaxExponent

BackoffOver(h) == h.elapsed = Never \/ h.elapsed >= Backoff(h.failures)

(* RecordSuccess, RecordFailure and the two outcomes of RefreshCard: what  *)
(* each does to the record while it holds the lock.                        *)
Succeeded(h) == [h EXCEPT !.status = "healthy", !.failures = 0]

Failed_OneLate(h) ==   \* mutant: counts after it compares
  [h EXCEPT !.failures = @ + 1, !.elapsed = 0,
            !.status = IF h.failures >= FailureThreshold
                       THEN "unhealthy" ELSE @]

Failed(h) ==
  [h EXCEPT !.failures = @ + 1, !.elapsed = 0,
            !.status = IF h.failures + 1 >= FailureThreshold
                       THEN "unhealthy" ELSE @]

Evicted_ZeroStatus(h) ==   \* mutant: status falls back to the zero string
  [h EXCEPT !.card = NoCard, !.status = IF @ = "healthy" THEN "" ELSE @]

Evicted(h) ==
  [h EXCEPT !.card = NoCard,
            !.status = IF @ = "healthy" THEN "unknown" ELSE @]

Carded_OnlyUnknown(h, c) ==   \* mutant: a fetch never closes the breaker
  [h EXCEPT !.card = c, !.status = IF @ = "unknown" THEN "healthy" ELSE @]

Carded(h, c) ==
  LET rescued == h.status = "unhealthy" /\ BackoffOver(h)
  IN  [h EXCEPT !.card = c,
                !.status = IF @ = "unknown" \/ rescued THEN "healthy" ELSE @,
                !.failures = IF rescued THEN 0 ELSE @]

(* CanAttempt: the gate dispatch asks before it contacts the upstream.     *)
CanAttempt(id) ==
  /\ mem[id] # Absent
  /\ mem[id].status = "unhealthy" => BackoffOver(mem[id])

(* What an upstream adds to the composite card (card.go, build).           *)
Shown(h) ==
  IF h # Absent /\ h.status = "healthy" THEN h.card ELSE NoCard

Advertised(id) == Shown(mem[id])

-----------------------------------------------------------------------------
(* A thread's call: the step it takes next and the locals it holds.        *)
(*   due     whether it will post an event; "if open" is RecordFailure,    *)
(*           which looks at u.ConsecutiveFailures AFTER it let the lock go *)
(*   strict  whether a failed row write makes it return before it posts    *)
(*   adding  whether it is Add, which goes on to RefreshCard               *)

Call == [step   : {"upsert", "lookup", "fetch", "persist", "emit"},
         id     : Ids,
         row    : Health,
         due    : {"no", "yes", "if open"},
         strict : BOOLEAN,
         adding : BOOLEAN]

ASSUME NullAssumption == Absent \notin Health /\ Idle \notin Call

Base(step, id) == [step |-> step, id |-> id, row |-> Fresh, due |-> "no",
                   strict |-> FALSE, adding |-> FALSE]

Writing(id, h, due, strict) ==
  [step |-> "persist", id |-> id, row |-> h, due |-> due,
   strict |-> strict, adding |-> FALSE]

At(t, step) == call[t] # Idle /\ call[t].step = step

Go(t, k) == call' = [call EXCEPT ![t] = k]

Open(id) == mem[id] # Absent /\ mem[id].failures >= FailureThreshold

(* The event a call still has to post, as the state stands.                *)
Owes(k) == k.due = "yes" \/ (k.due = "if open" /\ Open(k.id))

TypeOK ==
  /\ mem \in [Ids -> Health \cup {Absent}]
  /\ rows \in [Ids -> Health \cup {Absent}]
  /\ call \in [Threads -> Call \cup {Idle}]
  /\ channel \in BOOLEAN

Init ==
  /\ mem = [id \in Ids |-> Absent]
  /\ rows = [id \in Ids |-> Absent]
  /\ call = [t \in Threads |-> Idle]
  /\ channel = FALSE

-----------------------------------------------------------------------------
(* Outcomes of requests, reported by dispatch.                             *)

RecordSuccess(t, id) ==
  /\ call[t] = Idle
  /\ mem[id] # Absent
  /\ mem' = [mem EXCEPT ![id] = Succeeded(@)]
  /\ Go(t, Writing(id, Succeeded(mem[id]),
                   IF mem[id].status # "healthy" THEN "yes" ELSE "no", FALSE))
  /\ UNCHANGED <<rows, channel>>

RecordFailure(t, id) ==
  /\ call[t] = Idle
  /\ mem[id] # Absent
  /\ mem[id].failures < MaxFailures
  /\ mem' = [mem EXCEPT ![id] = Failed(@)]
  /\ Go(t, Writing(id, Failed(mem[id]),
                   IF mem[id].status # "unhealthy" THEN "if open" ELSE "no",
                   FALSE))
  /\ UNCHANGED <<rows, channel>>

-----------------------------------------------------------------------------
(* RefreshCard: read the address, fetch without the lock, look the id up   *)
(* again, store the outcome.  RefreshAll calls it for the enabled          *)
(* upstreams, an admin's refresh for whatever id is in the request.        *)

RefreshCard(t, id) ==
  /\ call[t] = Idle
  /\ mem[id] # Absent
  /\ Go(t, Base("fetch", id))
  /\ UNCHANGED <<mem, rows, channel>>

(* The RefreshCard that ends Add.                                          *)
RefreshAdded(t) ==
  /\ At(t, "lookup")
  /\ Go(t, IF mem[call[t].id] = Absent THEN Idle
           ELSE Base("fetch", call[t].id))
  /\ UNCHANGED <<mem, rows, channel>>

(* The id went away during the fetch, or the card was not a valid one.     *)
FetchDropped(t) ==
  /\ At(t, "fetch")
  /\ Go(t, Idle)
  /\ UNCHANGED <<mem, rows, channel>>

FetchFails_Quiet(t) ==   \* mutant: the eviction posts no event
  /\ At(t, "fetch")
  /\ mem[call[t].id] # Absent
  /\ mem' = [mem EXCEPT ![call[t].id] = Evicted(@)]
  /\ Go(t, Writing(call[t].id, Evicted(mem[call[t].id]), "no", TRUE))
  /\ UNCHANGED <<rows, channel>>

FetchFails(t) ==
  /\ At(t, "fetch")
  /\ mem[call[t].id] # Absent
  /\ LET id == call[t].id
         h  == mem[id]
     IN  /\ mem' = [mem EXCEPT ![id] = Evicted(h)]
         /\ Go(t, Writing(id, Evicted(h),
                          IF h.card # NoCard THEN "yes" ELSE "no", TRUE))
  /\ UNCHANGED <<rows, channel>>

FetchOk(t, c) ==
  /\ At(t, "fetch")
  /\ mem[call[t].id] # Absent
  /\ LET id == call[t].id
         h  == mem[id]
     IN  /\ mem' = [mem EXCEPT ![id] = Carded(h, c)]
         /\ Go(t, Writing(id, Carded(h, c), "yes", TRUE))
  /\ UNCHANGED <<rows, channel>>

-----------------------------------------------------------------------------
(* After the lock: the row write (UpdateUpstreamHealth, UPDATE .. WHERE    *)
(* id = ?), then the event.                                                *)

Persist(t) ==
  /\ At(t, "persist")
  /\ LET k == call[t]
     IN  /\ rows' = IF rows[k.id] = Absent THEN rows
                    ELSE [rows EXCEPT ![k.id] = k.row]
         /\ Go(t, [k EXCEPT !.step = "emit", !.row = Fresh, !.strict = FALSE])
  /\ UNCHANGED <<mem, channel>>

PersistFails(t) ==
  /\ StoreMayFail
  /\ At(t, "persist")
  /\ Go(t, IF call[t].strict THEN Idle
           ELSE [call[t] EXCEPT !.step = "emit", !.row = Fresh,
                                !.strict = FALSE])
  /\ UNCHANGED <<mem, rows, channel>>

(* emit: post unless the slot is taken; Add goes on to fetch the card.     *)
Emit(t) ==
  /\ At(t, "emit")
  /\ channel' = (channel \/ Owes(call[t]))
  /\ Go(t, IF call[t].adding THEN Base("lookup", call[t].id) ELSE Idle)
  /\ UNCHANGED <<mem, rows>>

-----------------------------------------------------------------------------
(* Add and Remove, as far as health, cards and events go.                  *)

Add(t, id) ==
  /\ call[t] = Idle
  /\ mem[id] = Absent
  /\ mem' = [mem EXCEPT ![id] = Fresh]
  /\ Go(t, [Base("upsert", id) EXCEPT !.adding = TRUE])
  /\ UNCHANGED <<rows, channel>>

(* UpsertUpstream: a row that exists keeps its health columns.             *)
Upsert(t) ==
  /\ At(t, "upsert")
  /\ LET k == call[t]
     IN  /\ rows' = IF rows[k.id] # Absent THEN rows
                    ELSE [rows EXCEPT ![k.id] = k.row]
         /\ Go(t, [k EXCEPT !.step = "emit", !.due = "yes"])
  /\ UNCHANGED <<mem, channel>>

(* The upsert or the read-back fails; the record stays registered.         *)
UpsertFails(t) ==
  /\ StoreMayFail
  /\ At(t, "upsert")
  /\ LET k == call[t]
     IN  \/ rows' = rows
         \/ rows[k.id] = Absent /\ rows' = [rows EXCEPT ![k.id] = k.row]
  /\ Go(t, Idle)
  /\ UNCHANGED <<mem, channel>>

(* A RecordFailure that has not posted yet keeps a pointer to the record.  *)
(* Nothing reaches a removed record by id, so what that call will read is  *)
(* settled here.                                                           *)
Settled(k) ==
  [k EXCEPT !.due = IF @ = "if open"
                    THEN IF Open(k.id) THEN "yes" ELSE "no"
                    ELSE @]

Remove(t, id) ==
  /\ call[t] = Idle
  /\ mem[id] # Absent
  /\ mem' = [mem EXCEPT ![id] = Absent]
  /\ call' = [u \in Threads |->
                IF u = t THEN [Base("emit", id) EXCEPT !.due = "yes"]
                ELSE IF call[u] # Idle /\ call[u].id = id
                     THEN Settled(call[u]) ELSE call[u]]
  /\ UNCHANGED <<rows, channel>>

-----------------------------------------------------------------------------
(* Time passes: every copy of a LastFailureAt grows older.  The age        *)
(* LongestBackoff stands for that age and all above it, which Backoff can  *)
(* not tell apart since no window is longer.                               *)

Older(h) == [h EXCEPT !.elapsed = IF @ = Never \/ @ >= LongestBackoff
                                  THEN @ ELSE @ + 1]

OlderAll(f) == [id \in Ids |-> IF f[id] = Absent THEN Absent ELSE Older(f[id])]

Tick ==
  /\ mem' = OlderAll(mem)
  /\ rows' = OlderAll(rows)
  /\ call' = [t \in Threads |-> IF call[t] = Idle THEN Idle
                                ELSE [call[t] EXCEPT !.row = Older(@)]]
  /\ UNCHANGED channel

(* The process stops at any point and comes up again: bootstrap takes the  *)
(* rows as they are.  Which upstreams it loads depends on the enabled      *)
(* column and on the configuration file, which may name any of them; one   *)
(* it names for the first time gets a fresh record and row.                *)
Restart ==
  \E loaded \in SUBSET Ids :
    /\ rows' = [id \in Ids |-> IF id \in loaded /\ rows[id] = Absent
                               THEN Fresh ELSE rows[id]]
    /\ mem' = [id \in Ids |-> IF id \in loaded THEN rows'[id] ELSE Absent]
    /\ call' = [t \in Threads |-> Idle]
    /\ channel' = FALSE

-----------------------------------------------------------------------------

Begin(t) == \E id \in Ids : \/ RecordSuccess(t, id) \/ RecordFailure(t, id)
                            \/ RefreshCard(t, id)
                            \/ Add(t, id) \/ Remove(t, id)

Fetched(t) == \/ FetchDropped(t) \/ FetchFails(t)
              \/ \E c \in Cards : FetchOk(t, c)

Continue(t) == \/ RefreshAdded(t) \/ Fetched(t)
               \/ Persist(t) \/ PersistFails(t)
               \/ Upsert(t) \/ UpsertFails(t) \/ Emit(t)

Operate == Tick \/ \E t \in Threads : Begin(t) \/ Continue(t)

Next == Operate \/ Restart

Spec == Init /\ [][Next]_vars

(* A goroutine that started goes on, and a fetch ends within its client's  *)
(* five seconds.  The refresh loop of serve.go is a goroutine of its own,  *)
(* which takes up every upstream of Refreshed in every round: traffic      *)
(* cannot keep it from that, which in a model with few threads is strong   *)
(* fairness.  The fetches of a round share sixty seconds; those that come  *)
(* too late fail, as any fetch may.  An upstream that is disabled, or any  *)
(* when hub.refresh_interval is 0, nothing need ever fetch a card of.      *)
Fairness ==
  /\ WF_vars(Tick)
  /\ \A t \in Threads : WF_vars(Continue(t))
  /\ \A id \in Refreshed : SF_vars(\E t \in Threads : RefreshCard(t, id))

FairSpec == Spec /\ Fairness

-----------------------------------------------------------------------------
(* Properties.                                                             *)

Sound(h) ==
  /\ h.status = "unhealthy" <=> h.failures >= FailureThreshold
  /\ h.failures > 0 => h.elapsed # Never

(* The breaker is open exactly when the threshold of failures in a row is  *)
(* reached, and then it knows since when: in memory, in the table, and in  *)
(* every row a handler has copied but not yet written.  With any of them   *)
(* torn, a restart or a late write would bring up an upstream that is shut *)
(* with no window to wait for, or open with a full counter.                *)
BreakerSound ==
  /\ \A id \in Ids : /\ mem[id] # Absent => Sound(mem[id])
                     /\ rows[id] # Absent => Sound(rows[id])
  /\ \A t \in Threads : call[t] # Idle => Sound(call[t].row)

FailureReported(id) == \E t \in Threads : RecordFailure(t, id)

FetchInVain(id) ==
  \E t \in Threads : /\ At(t, "fetch") /\ call[t].id = id
                     /\ FetchFails(t) \/ FetchDropped(t)


(* No discovery deadlock (registry.go, comment in RefreshCard): an open    *)
(* breaker takes the upstream's skills off the composite card, so clients  *)
(* stop sending the requests that could close it.  As long as an enabled   *)
(* upstream stays registered and the hub up and refreshing, either         *)
(* failures or useless fetches keep happening, or the upstream is          *)
(* advertised again for good, though not one request is sent to it.        *)
DiscoveryRecovers ==
  \A id \in Refreshed :
    \/ []<>(mem[id] = Absent)
    \/ []<><<FailureReported(id)>>_vars
    \/ []<><<FetchInVain(id)>>_vars
    \/ []<><<Restart>>_vars
    \/ <>[](Advertised(id) # NoCard)

=============================================================================
