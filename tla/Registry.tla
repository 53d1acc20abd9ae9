------------------------------ MODULE Registry ------------------------------
(***************************************************************************)
(* Which upstreams are registered, in memory and in the database           *)
(* (internal/registry/registry.go: bootstrap, Add, Remove; the upsert      *)
(* handler of internal/transport/admin.go; the identity columns of         *)
(* internal/store/upstreams.go).                                           *)
(*                                                                         *)
(* Admin requests run concurrently.  Each holds the registry lock only for *)
(* single map operations and reaches the database between them, so a call  *)
(* is a sequence of steps here: what it read at one step may be stale at   *)
(* the next.  Card refreshes, health and events are in module Health.      *)
(***************************************************************************)
EXTENDS Naturals, FiniteSets, Functions

CONSTANTS
  Names,         \* upstream names
  Ids,           \* uuids; bound: no more are ever made
  Threads,       \* admin requests that may run at once
  NoId, Absent, Idle,
  StoreMayFail   \* whether database calls may return errors

ASSUME RegistryAssumption == NoId \notin Ids /\ StoreMayFail \in BOOLEAN

VARIABLES
  up,      \* whether the hub process runs
  byID,    \* the registered upstream of each id
  byName,  \* the id registered under each name
  rows,    \* table upstreams, by its UNIQUE name
  call,    \* what each thread is in the middle of
  minted,  \* history: the name each uuid was made for
  intent   \* history: the admin request last acknowledged for each name;
           \* "broken": one failed half way since the process came up

vars == <<up, byID, byName, rows, call, minted, intent>>

-----------------------------------------------------------------------------

Entry == [name : Names, enabled : BOOLEAN]

Row == [id : Ids, enabled : BOOLEAN, source : {"admin", "config"}]

(* id is the uuid Add made or the id Remove was asked for; other is the id *)
(* Add read back; upserting tells the upsert handler from its parts.       *)
Call == [step      : {"lookup", "disable", "delete",
                      "lock", "upsert", "readback", "reconcile"},
         name      : Names,
         id        : Ids \cup {NoId},
         other     : Ids \cup {NoId},
         upserting : BOOLEAN]

ASSUME NullAssumption == Absent \notin Entry \cup Row \cup Names /\ Idle \notin Call

TypeOK ==
  /\ up \in BOOLEAN
  /\ byID \in [Ids -> Entry \cup {Absent}]
  /\ byName \in [Names -> Ids \cup {NoId}]
  /\ rows \in [Names -> Row \cup {Absent}]
  /\ call \in [Threads -> Call \cup {Idle}]
  /\ minted \in [Ids -> Names \cup {Absent}]
  /\ intent \in [Names -> {"open", "added", "removed", "broken"}]

At(t, step) == call[t] # Idle /\ call[t].step = step

Go(t, k) == call' = [call EXCEPT ![t] = k]

Intend(n, what) ==
  intent' = [intent EXCEPT ![n] = IF @ = "broken" THEN @ ELSE what]

Unused(id) == minted[id] = Absent

Init ==
  /\ up = FALSE
  /\ byID = [id \in Ids |-> Absent]
  /\ byName = [n \in Names |-> NoId]
  /\ rows = [n \in Names |-> Absent]
  /\ call = [t \in Threads |-> Idle]
  /\ minted = [id \in Ids |-> Absent]
  /\ intent = [n \in Names |-> "open"]

-----------------------------------------------------------------------------
(* Add.  The upsert handler enters it at step "lock".                      *)

MayLock(t, n) ==
  up /\ (call[t] = Idle \/ (At(t, "lock") /\ call[t].name = n))

(* The name is free: a new uuid is registered under it.                    *)
AddLock(t, n) ==
  /\ MayLock(t, n)
  /\ byName[n] = NoId
  /\ \E id \in Ids :
       /\ Unused(id)
       /\ minted' = [minted EXCEPT ![id] = n]
       /\ byID' = [byID EXCEPT ![id] = [name |-> n, enabled |-> TRUE]]
       /\ byName' = [byName EXCEPT ![n] = id]
       /\ Go(t, [step |-> "upsert", name |-> n, id |-> id, other |-> NoId,
                 upserting |-> FALSE])
  /\ Intend(n, "open")
  /\ UNCHANGED <<up, rows>>

(* ErrDuplicateName, in an upsert whose Remove came first.                 *)
AddDuplicate(t) ==
  /\ At(t, "lock")
  /\ byName[call[t].name] # NoId
  /\ Go(t, Idle)
  /\ UNCHANGED <<up, byID, byName, rows, minted, intent>>

(* UpsertUpstream: ON CONFLICT(name) the row keeps its id.                 *)
Upserted_NoElse(n, id, enabled, source) ==   \* mutant: source CASE lacks ELSE
  IF rows[n] = Absent
  THEN [id |-> id, enabled |-> enabled, source |-> source]
  ELSE [id |-> rows[n].id, enabled |-> enabled,
        source |-> IF rows[n].source = "admin" THEN "admin" ELSE Absent]

Upserted_NewId(n, id, enabled, source) ==   \* mutant: a conflict takes the new id
  [id |-> id, enabled |-> enabled, source |-> source]

Upserted(n, id, enabled, source) ==
  IF rows[n] = Absent
  THEN [id |-> id, enabled |-> enabled, source |-> source]
  ELSE [id |-> rows[n].id, enabled |-> enabled,
        source |-> IF rows[n].source = "admin" THEN "admin" ELSE source]

AddUpsert(t) ==
  /\ At(t, "upsert")
  /\ LET k == call[t]
     IN  /\ rows' = [rows EXCEPT ![k.name] =
                       Upserted(k.name, k.id, TRUE, "admin")]
         /\ Go(t, [k EXCEPT !.step = "readback"])
  /\ UNCHANGED <<up, byID, byName, minted, intent>>

(* The row read back carries the id this Add made: Add succeeds.           *)
AddReadBack(t) ==
  /\ At(t, "readback")
  /\ LET k == call[t]
     IN  /\ rows[k.name].id = k.id
         /\ Go(t, Idle)
         /\ Intend(k.name, "added")
  /\ UNCHANGED <<up, byID, byName, rows, minted>>

(* It carries the id of an upstream of that name in earlier times.         *)
AddReadBackOther(t) ==
  /\ At(t, "readback")
  /\ LET k == call[t]
     IN  /\ rows[k.name].id # k.id
         /\ Go(t, [k EXCEPT !.step = "reconcile", !.other = rows[k.name].id])
  /\ UNCHANGED <<up, byID, byName, rows, minted, intent>>

(* The record moves over to that id, whatever happened to it meanwhile.    *)
Rekeyed_KeepsOld(k) ==   \* mutant: the entry of the new uuid stays
  [byID EXCEPT ![k.other] = [name |-> k.name, enabled |-> TRUE]]

Rekeyed(k) ==
  [byID EXCEPT ![k.id] = Absent,
               ![k.other] = [name |-> k.name, enabled |-> TRUE]]

AddReconcile(t) ==
  /\ At(t, "reconcile")
  /\ LET k == call[t]
     IN  /\ byID' = Rekeyed(k)
         /\ byName' = [byName EXCEPT ![k.name] = k.other]
         /\ Intend(k.name, "added")
  /\ Go(t, Idle)
  /\ UNCHANGED <<up, rows, minted>>

-----------------------------------------------------------------------------
(* Remove.  The upsert handler enters it at step "lookup".                 *)

RemoveLookup(t, id) ==
  /\ up
  /\ call[t] = Idle
  /\ byID[id] # Absent
  /\ Go(t, [step |-> "disable", name |-> byID[id].name, id |-> id,
            other |-> NoId, upserting |-> FALSE])
  /\ Intend(byID[id].name, "open")
  /\ UNCHANGED <<up, byID, byName, rows, minted>>

(* SetUpstreamEnabled: UPDATE .. WHERE id = ?.                             *)
Disabled(k) ==
  [n \in Names |-> IF rows[n] # Absent /\ rows[n].id = k.id
                   THEN [rows[n] EXCEPT !.enabled = FALSE] ELSE rows[n]]

RemoveDisable_Skipped(t) ==   \* mutant: only the maps are changed
  /\ At(t, "disable")
  /\ Go(t, [call[t] EXCEPT !.step = "delete"])
  /\ UNCHANGED <<up, byID, byName, rows, minted, intent>>

RemoveDisable(t) ==
  /\ At(t, "disable")
  /\ rows' = Disabled(call[t])
  /\ Go(t, [call[t] EXCEPT !.step = "delete"])
  /\ UNCHANGED <<up, byID, byName, minted, intent>>

(* Both entries go, with the name as it was looked up.                     *)
RemoveDelete_IdOnly(t) ==   \* mutant: the name entry stays
  /\ At(t, "delete")
  /\ LET k == call[t]
     IN  /\ byID' = [byID EXCEPT ![k.id] = Absent]
         /\ Go(t, IF k.upserting THEN [k EXCEPT !.step = "lock"] ELSE Idle)
         /\ Intend(k.name, IF k.upserting THEN "open" ELSE "removed")
  /\ UNCHANGED <<up, byName, rows, minted>>

RemoveDelete(t) ==
  /\ At(t, "delete")
  /\ LET k == call[t]
     IN  /\ byID' = [byID EXCEPT ![k.id] = Absent]
         /\ byName' = [byName EXCEPT ![k.name] = NoId]
         /\ Go(t, IF k.upserting THEN [k EXCEPT !.step = "lock"] ELSE Idle)
         /\ Intend(k.name, IF k.upserting THEN "open" ELSE "removed")
  /\ UNCHANGED <<up, rows, minted>>

-----------------------------------------------------------------------------
(* The upsert handler: GetByName, then Remove if there is one, then Add.   *)

UpsertExisting(t, n) ==
  /\ up
  /\ call[t] = Idle
  /\ byName[n] # NoId
  /\ Go(t, [step |-> "lookup", name |-> n, id |-> byName[n], other |-> NoId,
            upserting |-> TRUE])
  /\ Intend(n, "open")
  /\ UNCHANGED <<up, byID, byName, rows, minted>>

UpsertNew(t, n) ==
  /\ up
  /\ call[t] = Idle
  /\ byName[n] = NoId
  /\ Go(t, [step |-> "lock", name |-> n, id |-> NoId, other |-> NoId,
            upserting |-> TRUE])
  /\ Intend(n, "open")
  /\ UNCHANGED <<up, byID, byName, rows, minted>>

(* Remove looks the id up; if it is gone, the handler answers 500.         *)
UpsertLookup(t) ==
  /\ At(t, "lookup")
  /\ LET k == call[t]
     IN  Go(t, IF byID[k.id] = Absent THEN Idle
               ELSE [k EXCEPT !.step = "disable", !.name = byID[k.id].name])
  /\ UNCHANGED <<up, byID, byName, rows, minted, intent>>

-----------------------------------------------------------------------------

(* A database call of Add or Remove returns an error, having done nothing: *)
(* the request ends there, with the maps as they are.                      *)
StoreFails(t) ==
  /\ StoreMayFail
  /\ call[t] # Idle
  /\ call[t].step \in {"upsert", "readback", "disable"}
  /\ Go(t, Idle)
  /\ Intend(call[t].name, "broken")
  /\ UNCHANGED <<up, byID, byName, rows, minted>>

(* The process stops, wherever its threads are.                            *)
Crash ==
  /\ up
  /\ up' = FALSE
  /\ byID' = [id \in Ids |-> Absent]
  /\ byName' = [n \in Names |-> NoId]
  /\ call' = [t \in Threads |-> Idle]
  /\ UNCHANGED <<rows, minted, intent>>

(* bootstrap.  The configuration file declares some names, some of them    *)
(* enabled; new names have a fresh uuid.  Rows that Remove disabled stay   *)
(* out unless the file declares them; rows that came from the file and are *)
(* no longer in it are loaded disabled.                                    *)
Loaded(n, declared) ==
  \/ n \in declared
  \/ rows[n] # Absent /\ (rows[n].source = "config" \/ rows[n].enabled)

BootRow(n, declared, enabled, fresh) ==
  IF n \in declared
  THEN Upserted(n, IF n \in DOMAIN fresh THEN fresh[n] ELSE rows[n].id,
                n \in enabled, "config")
  ELSE IF rows[n] # Absent /\ rows[n].source = "config"
       THEN [rows[n] EXCEPT !.enabled = FALSE]
       ELSE rows[n]

New(declared) == {n \in declared : rows[n] = Absent}

(* A uuid made while the process comes up belongs to its name.             *)
MintAll(fresh) ==
  minted' = [id \in Ids |->
               IF \E n \in DOMAIN fresh : fresh[n] = id
               THEN CHOOSE n \in DOMAIN fresh : fresh[n] = id
               ELSE minted[id]]

FreshIds_Shared(names) ==   \* mutant: one uuid for all new names
  [names -> {id \in Ids : Unused(id)}]

FreshIds(names) == Injection(names, {id \in Ids : Unused(id)})

BootWith(declared, enabled, fresh) ==
  /\ ~up
  /\ up' = TRUE
  /\ MintAll(fresh)
  /\ rows' = [n \in Names |-> BootRow(n, declared, enabled, fresh)]
  /\ byName' = [n \in Names |-> IF Loaded(n, declared)
                                THEN rows'[n].id ELSE NoId]
  /\ byID' = [id \in Ids |->
                IF \E n \in Names : byName'[n] = id
                THEN LET n == CHOOSE n \in Names : byName'[n] = id
                     IN  [name |-> n, enabled |-> rows'[n].enabled]
                ELSE Absent]
  /\ intent' = [n \in Names |-> IF n \in declared \/ intent[n] = "broken"
                                THEN "open" ELSE intent[n]]
  /\ UNCHANGED call

Bootstrap ==
  \E declared \in SUBSET Names :
  \E enabled \in SUBSET declared, fresh \in FreshIds(New(declared)) :
    BootWith(declared, enabled, fresh)

(* A write of bootstrap fails: the declared names are written before the   *)
(* vanished ones, and serve gives up after the rows it got to.             *)
BootUpTo(written, declared, enabled, fresh) ==
  /\ StoreMayFail
  /\ ~up
  /\ written \subseteq declared \/ declared \subseteq written
  /\ MintAll(fresh)
  /\ rows' = [n \in Names |-> IF n \in written
                              THEN BootRow(n, declared, enabled, fresh)
                              ELSE rows[n]]
  /\ intent' = [n \in Names |-> IF n \in declared /\ intent[n] # "broken"
                                THEN "open" ELSE intent[n]]
  /\ UNCHANGED <<up, byID, byName, call>>

BootstrapFails ==
  \E declared \in SUBSET Names, written \in SUBSET Names :
  \E enabled \in SUBSET declared, fresh \in FreshIds(New(declared)) :
    BootUpTo(written, declared, enabled, fresh)

-----------------------------------------------------------------------------

Begin(t) ==
  \/ \E n \in Names : AddLock(t, n) \/ UpsertExisting(t, n) \/ UpsertNew(t, n)
  \/ \E id \in Ids : RemoveLookup(t, id)

Continue(t) ==
  \/ AddDuplicate(t) \/ AddUpsert(t) \/ AddReadBack(t)
  \/ AddReadBackOther(t) \/ AddReconcile(t)
  \/ UpsertLookup(t) \/ RemoveDisable(t) \/ RemoveDelete(t)
  \/ StoreFails(t)

Next ==
  \/ \E t \in Threads : Begin(t) \/ Continue(t)
  \/ Crash
  \/ Bootstrap \/ BootstrapFails

Spec == Init /\ [][Next]_vars

-----------------------------------------------------------------------------
(* Properties.                                                             *)

(* GetByName returns *byID[byName[name]] with no second check: a name      *)
(* whose id is not registered would be a nil dereference, and one whose id *)
(* belongs to another name would route to the wrong upstream.  It holds    *)
(* through every race of Add, Remove and upsert.                           *)
IndexSound ==
  \A n \in Names :
    byName[n] # NoId => /\ byID[byName[n]] # Absent
                        /\ byID[byName[n]].name = n

(* A task row needs a row of its upstream (FOREIGN KEY): once Add is done  *)
(* with it, a registered id is the id its name has in the table, unless    *)
(* since the process came up a request for the name failed half way.       *)
Settling(id) ==
  \E t \in Threads : /\ call[t] # Idle
                     /\ call[t].step \in {"upsert", "readback", "reconcile"}
                     /\ call[t].id = id

IdsPersisted ==
  \A id \in Ids :
    byID[id] # Absent /\ ~Settling(id) /\ intent[byID[id].name] # "broken"
      => /\ rows[byID[id].name] # Absent
         /\ rows[byID[id].name].id = id

(* Ids name upstreams for good: tasks keep upstream_id, so an id never     *)
(* moves to another name, in memory or in the table, across removals,      *)
(* additions and restarts.                                                 *)
IdsKeepNames ==
  /\ \A id \in Ids : byID[id] # Absent => byID[id].name = minted[id]
  /\ \A n \in Names : rows[n] # Absent => minted[rows[n].id] = n

(* No two registered upstreams share a name (design document, section 6:   *)
(* Add rejects the second, "there is no silent overwrite").                *)
NamesUnique ==
  \A i, j \in Ids :
    byID[i] # Absent /\ byID[j] # Absent /\ byID[i].name = byID[j].name => i = j

(* What an admin was told stays true, through any number of restarts: a    *)
(* removed upstream is not in service again ("must not resurface") until   *)
(* somebody adds it or the configuration declares it, and one that was     *)
(* added is registered and enabled until somebody removes it.  Requests    *)
(* have to come one at a time.  After one that failed half way, memory and *)
(* table may differ for its name, and no promise about it is kept from     *)
(* then until the process comes up again.                                  *)
AdminIntentKept ==
  up => \A n \in Names :
          /\ intent[n] = "removed" =>
               \A id \in Ids : byID[id] # Absent /\ byID[id].name = n
                                 => ~byID[id].enabled
          /\ intent[n] = "added" =>
               byName[n] # NoId /\ byID[byName[n]].enabled

=============================================================================
