--------------------------- MODULE RegistryProofs ---------------------------
(***************************************************************************)
(* The name index of the registry is sound and ids never change names, for *)
(* any number of names, ids and concurrent admin requests, whether or not  *)
(* database calls fail.                                                    *)
(*                                                                         *)
(* No lock spans a whole Add or Remove, so what has to be shown is that    *)
(* the stale locals a request acts on cannot hurt the index: the id and    *)
(* the name it holds belong together for good (CallsKeepNames), because an *)
(* id is made for one name and rows keep their ids.  So a late delete or   *)
(* rekey of an id touches no other name's entry.                           *)
(*                                                                         *)
(* Two more parts build on that.  An id that its Add is done with has a    *)
(* row, unless a request for its name failed half way (IdsArePersisted).   *)
(* And when requests come one at a time, the index is complete as well as  *)
(* sound and every promise is backed by the table (NamesAreUnique,         *)
(* AdminIntentIsKept).                                                     *)
(***************************************************************************)
EXTENDS Registry, TLAPS

KeepsName(t) ==
  call[t] # Idle =>
    /\ call[t].step # "lock" => call[t].id # NoId
    /\ call[t].step = "reconcile" => call[t].other # NoId
    /\ call[t].step = "readback" => rows[call[t].name] # Absent
    /\ call[t].id # NoId => minted[call[t].id] = call[t].name
    /\ call[t].other # NoId => minted[call[t].other] = call[t].name

CallsKeepNames == \A t \in Threads : KeepsName(t)

RegistryInv == TypeOK /\ IndexSound /\ IdsKeepNames /\ CallsKeepNames

(* A record under a name is a record.                                      *)
LEMMA EntryThere ==
  ASSUME NEW n \in Names, NEW enabled \in BOOLEAN
  PROVE  /\ [name |-> n, enabled |-> enabled] \in Entry
         /\ [name |-> n, enabled |-> enabled] # Absent
  <1>1. [name |-> n, enabled |-> enabled] \in Entry
    BY DEF Entry
  <1>2. QED BY <1>1, NullAssumption

(* A row that is disabled keeps its id.                                    *)
LEMMA DisabledRow ==
  ASSUME NEW r \in Row
  PROVE  /\ [r EXCEPT !.enabled = FALSE] \in Row
         /\ [r EXCEPT !.enabled = FALSE].enabled = FALSE
         /\ [r EXCEPT !.enabled = FALSE].id = r.id
  BY DEF Row

(* The locals of a call, as the step it is at needs them.                  *)
LEMMA CallLocals ==
  ASSUME RegistryInv, NEW t \in Threads, call[t] # Idle
  PROVE  /\ call[t] \in Call
         /\ call[t].name \in Names
         /\ call[t].step # "lock" =>
              call[t].id \in Ids /\ minted[call[t].id] = call[t].name
         /\ call[t].step = "reconcile" =>
              call[t].other \in Ids /\ minted[call[t].other] = call[t].name
         /\ call[t].step = "readback" => rows[call[t].name] \in Row
  BY DEF RegistryInv, TypeOK, CallsKeepNames, KeepsName, Call

(* An id that has no name yet is nowhere.                                  *)
LEMMA UnusedNowhere ==
  ASSUME RegistryInv, NEW id \in Ids, Unused(id)
  PROVE  /\ byID[id] = Absent
         /\ \A n \in Names : byName[n] # id /\ (rows[n] # Absent => rows[n].id # id)
         /\ \A t \in Threads : call[t] # Idle => call[t].id # id /\ call[t].other # id
  <1> USE RegistryAssumption, NullAssumption
          DEF RegistryInv, TypeOK, Unused
  <1>1. byID[id] = Absent
    BY DEF IdsKeepNames, Entry
  <1>2. \A n \in Names : byName[n] # id
    BY <1>1 DEF IndexSound
  <1>3. \A n \in Names : rows[n] # Absent => rows[n].id # id
    BY DEF IdsKeepNames
  <1>4. ASSUME NEW t \in Threads, call[t] # Idle
        PROVE  call[t].id # id /\ call[t].other # id
    BY <1>4 DEF CallsKeepNames, KeepsName, Call
  <1>5. QED BY <1>1, <1>2, <1>3, <1>4

(* What a step leaves in the hands of a request that does not take it: it  *)
(* keeps its ids' names while uuids keep theirs and rows do not go away.   *)
LEMMA OtherKeeps ==
  ASSUME RegistryInv, NEW u \in Threads, call'[u] = call[u],
         \A i \in Ids : minted[i] # Absent => minted'[i] = minted[i],
         \A n \in Names : rows[n] # Absent => rows'[n] # Absent
  PROVE  KeepsName(u)'
  <1>1. call[u] \in Call \cup {Idle} /\ KeepsName(u)
    BY DEF RegistryInv, TypeOK, CallsKeepNames
  <1>2. CASE call[u] = Idle
    BY <1>1, <1>2 DEF KeepsName
  <1>3. CASE call[u] # Idle
    <2>1. /\ call[u].name \in Names
          /\ call[u].id \in Ids \cup {NoId}
          /\ call[u].other \in Ids \cup {NoId}
          /\ call[u].name # Absent
      BY <1>1, <1>3, NullAssumption DEF Call
    <2>2. QED BY <1>1, <1>3, <2>1 DEF KeepsName
  <1>4. QED BY <1>2, <1>3

(* The same for all requests but one.                                      *)
LEMMA OthersKeep ==
  ASSUME RegistryInv, NEW t \in Threads,
         \A u \in Threads \ {t} : call'[u] = call[u],
         \A i \in Ids : minted[i] # Absent => minted'[i] = minted[i],
         \A n \in Names : rows[n] # Absent => rows'[n] # Absent,
         KeepsName(t)'
  PROVE  CallsKeepNames'
  <1> SUFFICES ASSUME NEW u \in Threads PROVE KeepsName(u)'
    BY DEF CallsKeepNames
  <1>1. CASE u = t
    BY <1>1
  <1>2. CASE u # t
    BY <1>2, OtherKeeps
  <1>3. QED BY <1>1, <1>2

(* Nothing is registered and nobody is at work.                            *)
LEMMA RegistryInvInit == Init => RegistryInv
  BY RegistryAssumption
  DEF Init, RegistryInv, TypeOK, IndexSound, IdsKeepNames, CallsKeepNames, KeepsName

(* The history of what an admin was told keeps its type.                   *)
LEMMA IntentStays ==
  ASSUME RegistryInv, NEW n \in Names,
         NEW what \in {"open", "added", "removed", "broken"}, Intend(n, what)
  PROVE  intent' \in [Names -> {"open", "added", "removed", "broken"}]
  BY DEF Intend, RegistryInv, TypeOK

-----------------------------------------------------------------------------
(* One lemma per action: it preserves the invariant.                       *)

(* Add registers a uuid that is nowhere yet, under a name that is free.    *)
LEMMA AddLockKeeps ==
  ASSUME RegistryInv, NEW t \in Threads, NEW n \in Names, AddLock(t, n)
  PROVE  RegistryInv'
  <1> USE RegistryAssumption, NullAssumption
  <1>1. PICK id \in Ids :
          /\ Unused(id)
          /\ minted' = [minted EXCEPT ![id] = n]
          /\ byID' = [byID EXCEPT ![id] = [name |-> n, enabled |-> TRUE]]
          /\ byName' = [byName EXCEPT ![n] = id]
          /\ Go(t, [step |-> "upsert", name |-> n, id |-> id, other |-> NoId,
                    upserting |-> FALSE])
    BY DEF AddLock
  <1>2. /\ up' = up /\ rows' = rows
        /\ intent' \in [Names -> {"open", "added", "removed", "broken"}]
    BY IntentStays DEF AddLock
  <1>3. /\ byID[id] = Absent
        /\ \A m \in Names : byName[m] # id /\ (rows[m] # Absent => rows[m].id # id)
        /\ \A u \in Threads : call[u] # Idle => call[u].id # id /\ call[u].other # id
    BY <1>1, UnusedNowhere
  <1>4. TypeOK'
    BY <1>1, <1>2 DEF RegistryInv, TypeOK, Go, Entry, Call
  <1>5. IndexSound'
    <2> SUFFICES ASSUME NEW m \in Names, byName'[m] # NoId
                 PROVE  /\ byID'[byName'[m]] # Absent
                        /\ byID'[byName'[m]].name = m
      BY DEF IndexSound
    <2>1. CASE m = n
      <3>1. byName'[m] = id /\ byID'[id] = [name |-> n, enabled |-> TRUE]
        BY <1>1, <2>1 DEF RegistryInv, TypeOK
      <3>2. [name |-> n, enabled |-> TRUE] # Absent
        BY EntryThere
      <3>3. QED BY <2>1, <3>1, <3>2
    <2>2. CASE m # n
      <3>1. byName'[m] = byName[m] /\ byName[m] \in Ids /\ byName[m] # id
        BY <1>1, <1>3, <2>2 DEF RegistryInv, TypeOK
      <3>2. byID'[byName[m]] = byID[byName[m]]
        BY <1>1, <3>1 DEF RegistryInv, TypeOK
      <3>3. QED BY <3>1, <3>2 DEF RegistryInv, IndexSound
    <2>3. QED BY <2>1, <2>2
  <1>6. IdsKeepNames'
    BY <1>1, <1>2, <1>3 DEF RegistryInv, TypeOK, IdsKeepNames, Entry, Row
  <1>7. KeepsName(t)'
    BY <1>1, <1>2 DEF RegistryInv, TypeOK, Go, KeepsName
  <1>8. CallsKeepNames'
    <2>1. \A i \in Ids : minted[i] # Absent => minted'[i] = minted[i]
      BY <1>1 DEF Unused, RegistryInv, TypeOK
    <2>2. \A u \in Threads \ {t} : call'[u] = call[u]
      BY <1>1 DEF Go, RegistryInv, TypeOK
    <2>3. QED BY <1>2, <1>7, <2>1, <2>2, OthersKeep
  <1>9. QED BY <1>4, <1>5, <1>6, <1>8 DEF RegistryInv

(* A request that only moves on: nothing changes but its own locals and    *)
(* the history of what was asked for.                                      *)
LEMMA MovingOn ==
  ASSUME RegistryInv, NEW t \in Threads, NEW k \in Call \cup {Idle},
         Go(t, k), KeepsName(t)',
         UNCHANGED <<up, byID, byName, rows, minted>>,
         intent' \in [Names -> {"open", "added", "removed", "broken"}]
  PROVE  RegistryInv'
  <1>1. TypeOK'
    BY DEF RegistryInv, TypeOK, Go
  <1>2. IndexSound' /\ IdsKeepNames'
    BY DEF RegistryInv, IndexSound, IdsKeepNames
  <1>3. \A u \in Threads \ {t} : call'[u] = call[u]
    BY DEF Go, RegistryInv, TypeOK
  <1>4. CallsKeepNames'
    BY <1>3, OthersKeep
  <1>5. QED BY <1>1, <1>2, <1>4 DEF RegistryInv

(* ... to its end.                                                         *)
LEMMA Ending ==
  ASSUME RegistryInv, NEW t \in Threads, Go(t, Idle),
         UNCHANGED <<up, byID, byName, rows, minted>>,
         intent' \in [Names -> {"open", "added", "removed", "broken"}]
  PROVE  RegistryInv'
  <1>1. KeepsName(t)'
    BY DEF KeepsName, Go, RegistryInv, TypeOK
  <1>2. QED BY <1>1, MovingOn

(* ... to another step, with locals that keep their name.                  *)
LEMMA Stepping ==
  ASSUME RegistryInv, NEW t \in Threads, NEW k \in Call, Go(t, k),
         k.step # "lock" => k.id # NoId,
         k.step = "reconcile" => k.other # NoId,
         k.step = "readback" => rows[k.name] # Absent,
         k.id # NoId => minted[k.id] = k.name,
         k.other # NoId => minted[k.other] = k.name,
         UNCHANGED <<up, byID, byName, rows, minted>>,
         intent' \in [Names -> {"open", "added", "removed", "broken"}]
  PROVE  RegistryInv'
  <1>1. call'[t] = k
    BY DEF Go, RegistryInv, TypeOK
  <1>2. KeepsName(t)'
    BY <1>1 DEF KeepsName
  <1>3. QED BY <1>2, MovingOn

(* Add finds the name taken and ends.                                      *)
LEMMA AddDuplicateKeeps ==
  ASSUME RegistryInv, NEW t \in Threads, AddDuplicate(t)
  PROVE  RegistryInv'
  BY Ending DEF AddDuplicate, RegistryInv, TypeOK

(* A failed database call ends a request where it is.                      *)
LEMMA StoreFailsKeeps ==
  ASSUME RegistryInv, NEW t \in Threads, StoreFails(t)
  PROVE  RegistryInv'
  <1>1. call[t] \in Call
    BY DEF StoreFails, RegistryInv, TypeOK
  <1>2. intent' \in [Names -> {"open", "added", "removed", "broken"}]
    BY <1>1, IntentStays DEF StoreFails, Call
  <1>3. QED BY <1>2, Ending DEF StoreFails

(* Add reads back its own id and ends.                                     *)
LEMMA AddReadBackKeeps ==
  ASSUME RegistryInv, NEW t \in Threads, AddReadBack(t)
  PROVE  RegistryInv'
  <1>1. call[t] \in Call
    BY DEF AddReadBack, At, RegistryInv, TypeOK
  <1>2. intent' \in [Names -> {"open", "added", "removed", "broken"}]
    BY <1>1, IntentStays DEF AddReadBack, Call
  <1>3. QED BY <1>2, Ending DEF AddReadBack

(* Add reads back an older id of its name, which is what it keeps.         *)
LEMMA AddReadBackOtherKeeps ==
  ASSUME RegistryInv, NEW t \in Threads, AddReadBackOther(t)
  PROVE  RegistryInv'
  <1> DEFINE k == call[t]
             l == [k EXCEPT !.step = "reconcile", !.other = rows[k.name].id]
  <1>1. /\ k \in Call /\ k # Idle /\ k.step = "readback"
        /\ k.name \in Names /\ rows[k.name] \in Row
        /\ k.id \in Ids /\ minted[k.id] = k.name
    BY CallLocals DEF AddReadBackOther, At
  <1>2. rows[k.name].id \in Ids /\ minted[rows[k.name].id] = k.name
    BY <1>1, NullAssumption DEF RegistryInv, IdsKeepNames, Row
  <1>3. l \in Call
    BY <1>1, <1>2 DEF Call
  <1>4. /\ l.step = "reconcile" /\ l.id = k.id /\ l.name = k.name
        /\ l.other = rows[k.name].id
    BY <1>1 DEF Call
  <1>5. Go(t, l) /\ UNCHANGED <<up, byID, byName, rows, minted, intent>>
    BY DEF AddReadBackOther
  <1> HIDE DEF l
  <1>6. QED
    BY <1>1, <1>2, <1>3, <1>4, <1>5, Stepping, RegistryAssumption
    DEF RegistryInv, TypeOK

(* A registered record carries the name its id was made for.               *)
LEMMA RegisteredName ==
  ASSUME RegistryInv, NEW id \in Ids, byID[id] # Absent
  PROVE  byID[id].name \in Names /\ minted[id] = byID[id].name
  BY DEF RegistryInv, TypeOK, Entry, IdsKeepNames

(* Remove notes the name under which its id is registered.                 *)
LEMMA RemoveLookupKeeps ==
  ASSUME RegistryInv, NEW t \in Threads, NEW id \in Ids, RemoveLookup(t, id)
  PROVE  RegistryInv'
  <1> DEFINE k == [step |-> "disable", name |-> byID[id].name, id |-> id,
                   other |-> NoId, upserting |-> FALSE]
  <1>1. byID[id].name \in Names /\ minted[id] = byID[id].name
    BY RegisteredName DEF RemoveLookup
  <1>2. k \in Call
    BY <1>1 DEF Call
  <1>3. Go(t, k) /\ UNCHANGED <<up, byID, byName, rows, minted>>
    BY DEF RemoveLookup
  <1>4. intent' \in [Names -> {"open", "added", "removed", "broken"}]
    BY <1>1, IntentStays DEF RemoveLookup
  <1>5. id # NoId
    BY RegistryAssumption
  <1>6. QED BY <1>1, <1>2, <1>3, <1>4, <1>5, Stepping

(* The upsert handler notes the id registered under its name.              *)
LEMMA UpsertExistingKeeps ==
  ASSUME RegistryInv, NEW t \in Threads, NEW n \in Names, UpsertExisting(t, n)
  PROVE  RegistryInv'
  <1> DEFINE k == [step |-> "lookup", name |-> n, id |-> byName[n],
                   other |-> NoId, upserting |-> TRUE]
  <1>1. byName[n] \in Ids /\ byName[n] # NoId
    BY DEF UpsertExisting, RegistryInv, TypeOK
  <1>2. minted[byName[n]] = n
    BY <1>1, RegisteredName DEF RegistryInv, IndexSound
  <1>3. k \in Call
    BY <1>1 DEF Call
  <1>4. Go(t, k) /\ UNCHANGED <<up, byID, byName, rows, minted>>
    BY DEF UpsertExisting
  <1>5. intent' \in [Names -> {"open", "added", "removed", "broken"}]
    BY IntentStays DEF UpsertExisting
  <1>6. QED BY <1>1, <1>2, <1>3, <1>4, <1>5, Stepping

(* The upsert handler finds no such name and goes on to Add.               *)
LEMMA UpsertNewKeeps ==
  ASSUME RegistryInv, NEW t \in Threads, NEW n \in Names, UpsertNew(t, n)
  PROVE  RegistryInv'
  <1> DEFINE k == [step |-> "lock", name |-> n, id |-> NoId,
                   other |-> NoId, upserting |-> TRUE]
  <1>1. k \in Call
    BY DEF Call
  <1>2. Go(t, k) /\ UNCHANGED <<up, byID, byName, rows, minted>>
    BY DEF UpsertNew
  <1>3. intent' \in [Names -> {"open", "added", "removed", "broken"}]
    BY IntentStays DEF UpsertNew
  <1>4. QED BY <1>1, <1>2, <1>3, Stepping

(* The Remove inside an upsert looks its id up once more.                  *)
LEMMA UpsertLookupKeeps ==
  ASSUME RegistryInv, NEW t \in Threads, UpsertLookup(t)
  PROVE  RegistryInv'
  <1> DEFINE k == call[t]
             l == [k EXCEPT !.step = "disable", !.name = byID[k.id].name]
  <1>1. /\ k \in Call /\ k # Idle /\ k.step = "lookup"
        /\ k.id \in Ids /\ minted[k.id] = k.name
    BY CallLocals DEF UpsertLookup, At
  <1>2. /\ UNCHANGED <<up, byID, byName, rows, minted, intent>>
        /\ Go(t, IF byID[k.id] = Absent THEN Idle ELSE l)
    BY DEF UpsertLookup
  <1>3. intent' \in [Names -> {"open", "added", "removed", "broken"}]
    BY <1>2 DEF RegistryInv, TypeOK
  <1>4. CASE byID[k.id] = Absent
    BY <1>2, <1>3, <1>4, Ending
  <1>5. CASE byID[k.id] # Absent
    <2>1. byID[k.id].name \in Names /\ minted[k.id] = byID[k.id].name
      BY <1>1, <1>5, RegisteredName
    <2>2. l \in Call
      BY <1>1, <2>1 DEF Call
    <2>3. /\ l.step = "disable" /\ l.id = k.id /\ l.other = k.other
          /\ l.name = k.name
      BY <1>1, <2>1 DEF Call
    <2>4. k.other # NoId => minted[k.other] = k.name
      BY <1>1 DEF RegistryInv, CallsKeepNames, KeepsName
    <2>5. Go(t, l)
      BY <1>2, <1>5
    <2> HIDE DEF l
    <2>6. QED
      BY <1>1, <1>2, <1>3, <2>2, <2>3, <2>4, <2>5, Stepping, RegistryAssumption
  <1>6. QED BY <1>4, <1>5

(* A row is written with the id it has, or, if it is new, with the call's. *)
LEMMA AddUpsertKeeps ==
  ASSUME RegistryInv, NEW t \in Threads, AddUpsert(t)
  PROVE  RegistryInv'
  <1> DEFINE k == call[t]
             l == [k EXCEPT !.step = "readback"]
             r == Upserted(k.name, k.id, TRUE, "admin")
  <1>1. /\ k \in Call /\ k # Idle /\ k.step = "upsert"
        /\ k.name \in Names /\ k.id \in Ids /\ minted[k.id] = k.name
    BY CallLocals DEF AddUpsert, At
  <1>2. /\ rows' = [rows EXCEPT ![k.name] = r]
        /\ Go(t, l) /\ UNCHANGED <<up, byID, byName, minted, intent>>
    BY DEF AddUpsert
  <1>3. r \in Row /\ minted[r.id] = k.name
    BY <1>1 DEF Upserted, Row, RegistryInv, TypeOK, IdsKeepNames
  <1>4. r # Absent
    BY <1>3, NullAssumption
  <1>5. /\ l \in Call /\ l.step = "readback" /\ l.id = k.id
        /\ l.other = k.other /\ l.name = k.name
    BY <1>1 DEF Call
  <1> HIDE DEF r, l
  <1>6. \A n \in Names : rows'[n] = IF n = k.name THEN r ELSE rows[n]
    BY <1>1, <1>2 DEF RegistryInv, TypeOK
  <1>7. TypeOK'
    BY <1>2, <1>3, <1>5 DEF RegistryInv, TypeOK, Go
  <1>8. IndexSound'
    BY <1>2 DEF RegistryInv, IndexSound
  <1>9. IdsKeepNames'
    BY <1>2, <1>3, <1>6 DEF RegistryInv, IdsKeepNames
  <1>10. KeepsName(t)'
    <2>1. call'[t] = l
      BY <1>2 DEF Go, RegistryInv, TypeOK
    <2>2. k.other # NoId => minted[k.other] = k.name
      BY <1>1 DEF RegistryInv, CallsKeepNames, KeepsName
    <2>3. rows'[l.name] # Absent
      BY <1>1, <1>4, <1>5, <1>6
    <2>4. l.id # NoId /\ minted'[l.id] = l.name
      BY <1>1, <1>2, <1>5, RegistryAssumption
    <2>5. QED BY <1>2, <1>5, <2>1, <2>2, <2>3, <2>4 DEF KeepsName
  <1>11. CallsKeepNames'
    <2>1. \A u \in Threads \ {t} : call'[u] = call[u]
      BY <1>2 DEF Go, RegistryInv, TypeOK
    <2>2. QED BY <1>2, <1>4, <1>6, <1>10, <2>1, OthersKeep
  <1>12. QED BY <1>7, <1>8, <1>9, <1>11 DEF RegistryInv

(* Disabling an id changes no row's id and takes no row away.              *)
LEMMA RemoveDisableKeeps ==
  ASSUME RegistryInv, NEW t \in Threads, RemoveDisable(t)
  PROVE  RegistryInv'
  <1> DEFINE k == call[t]
             l == [k EXCEPT !.step = "delete"]
  <1>1. /\ k \in Call /\ k # Idle /\ k.step = "disable"
        /\ k.name \in Names /\ k.id \in Ids /\ minted[k.id] = k.name
    BY CallLocals DEF RemoveDisable, At
  <1>2. /\ rows' = Disabled(k)
        /\ Go(t, l) /\ UNCHANGED <<up, byID, byName, minted, intent>>
    BY DEF RemoveDisable
  <1>3. /\ l \in Call /\ l.step = "delete" /\ l.id = k.id
        /\ l.other = k.other /\ l.name = k.name
    BY <1>1 DEF Call
  <1> HIDE DEF l
  <1>4. ASSUME NEW n \in Names
        PROVE  /\ rows'[n] \in Row \cup {Absent}
               /\ rows'[n] = Absent <=> rows[n] = Absent
               /\ rows[n] # Absent => rows'[n].id = rows[n].id
    <2>1. CASE rows[n] # Absent /\ rows[n].id = k.id
      <3>1. rows[n] \in Row
        BY <2>1 DEF RegistryInv, TypeOK
      <3>2. rows'[n] = [rows[n] EXCEPT !.enabled = FALSE]
        BY <1>2, <2>1 DEF Disabled
      <3>3. rows'[n] \in Row /\ rows'[n].id = rows[n].id
        BY <3>1, <3>2 DEF Row
      <3>4. QED BY <2>1, <3>3, NullAssumption
    <2>2. CASE ~(rows[n] # Absent /\ rows[n].id = k.id)
      BY <1>2, <2>2 DEF Disabled, RegistryInv, TypeOK
    <2>3. QED BY <2>1, <2>2
  <1>5. TypeOK'
    <2>1. rows' \in [Names -> Row \cup {Absent}]
      BY <1>2, <1>4 DEF Disabled
    <2>2. QED BY <1>2, <1>3, <2>1 DEF RegistryInv, TypeOK, Go
  <1>6. IndexSound'
    BY <1>2 DEF RegistryInv, IndexSound
  <1>7. IdsKeepNames'
    BY <1>2, <1>4 DEF RegistryInv, IdsKeepNames
  <1>8. KeepsName(t)'
    <2>1. call'[t] = l
      BY <1>2 DEF Go, RegistryInv, TypeOK
    <2>2. k.other # NoId => minted[k.other] = k.name
      BY <1>1 DEF RegistryInv, CallsKeepNames, KeepsName
    <2>3. QED BY <1>1, <1>2, <1>3, <2>1, <2>2, RegistryAssumption DEF KeepsName
  <1>9. CallsKeepNames'
    <2>1. \A u \in Threads \ {t} : call'[u] = call[u]
      BY <1>2 DEF Go, RegistryInv, TypeOK
    <2>2. QED BY <1>2, <1>4, <1>8, <2>1, OthersKeep
  <1>10. QED BY <1>5, <1>6, <1>7, <1>9 DEF RegistryInv

(* The id and the name that go belong together, so no other name's entry   *)
(* is left pointing at the id, however long ago it was looked up.          *)
LEMMA RemoveDeleteKeeps ==
  ASSUME RegistryInv, NEW t \in Threads, RemoveDelete(t)
  PROVE  RegistryInv'
  <1> DEFINE k == call[t]
             l == IF k.upserting THEN [k EXCEPT !.step = "lock"] ELSE Idle
  <1>1. /\ k \in Call /\ k # Idle /\ k.step = "delete"
        /\ k.name \in Names /\ k.id \in Ids /\ minted[k.id] = k.name
    BY CallLocals DEF RemoveDelete, At
  <1>2. /\ byID' = [byID EXCEPT ![k.id] = Absent]
        /\ byName' = [byName EXCEPT ![k.name] = NoId]
        /\ Go(t, l) /\ UNCHANGED <<up, rows, minted>>
        /\ Intend(k.name, IF k.upserting THEN "open" ELSE "removed")
    BY DEF RemoveDelete
  <1>3. l \in Call \cup {Idle}
    BY <1>1 DEF Call
  <1>4. l # Idle => /\ l.step = "lock"
                    /\ l.id # NoId => minted[l.id] = l.name
                    /\ l.other # NoId => minted[l.other] = l.name
    <2>1. k.other # NoId => minted[k.other] = k.name
      BY <1>1 DEF RegistryInv, CallsKeepNames, KeepsName
    <2>2. QED BY <1>1, <2>1 DEF Call
  <1> HIDE DEF l
  <1>5. TypeOK'
    BY <1>1, <1>2, <1>3 DEF RegistryInv, TypeOK, Go, Intend
  <1>6. IndexSound'
    <2> SUFFICES ASSUME NEW n \in Names, byName'[n] # NoId
                 PROVE  /\ byID'[byName'[n]] # Absent
                        /\ byID'[byName'[n]].name = n
      BY DEF IndexSound
    <2>1. n # k.name /\ byName'[n] = byName[n]
      BY <1>1, <1>2 DEF RegistryInv, TypeOK
    <2>2. /\ byName[n] \in Ids /\ byID[byName[n]] # Absent
          /\ byID[byName[n]].name = n
      BY <2>1 DEF RegistryInv, TypeOK, IndexSound
    <2>3. byName[n] # k.id
      BY <1>1, <2>1, <2>2, RegisteredName
    <2>4. QED BY <1>1, <1>2, <2>1, <2>2, <2>3 DEF RegistryInv, TypeOK
  <1>7. IdsKeepNames'
    BY <1>1, <1>2 DEF RegistryInv, TypeOK, IdsKeepNames
  <1>8. KeepsName(t)'
    <2>1. call'[t] = l
      BY <1>2 DEF Go, RegistryInv, TypeOK
    <2>2. QED BY <1>2, <1>4, <2>1 DEF KeepsName
  <1>9. CallsKeepNames'
    <2>1. \A u \in Threads \ {t} : call'[u] = call[u]
      BY <1>2 DEF Go, RegistryInv, TypeOK
    <2>2. QED BY <1>2, <1>8, <2>1, OthersKeep
  <1>10. QED BY <1>5, <1>6, <1>7, <1>9 DEF RegistryInv

(* The record moves from one id of its name to another.                    *)
LEMMA AddReconcileKeeps ==
  ASSUME RegistryInv, NEW t \in Threads, AddReconcile(t)
  PROVE  RegistryInv'
  <1> DEFINE k == call[t]
             e == [name |-> k.name, enabled |-> TRUE]
  <1>1. /\ k.name \in Names /\ k.id \in Ids /\ minted[k.id] = k.name
        /\ k.other \in Ids /\ minted[k.other] = k.name
    BY CallLocals DEF AddReconcile, At
  <1>2. /\ byID' = [byID EXCEPT ![k.id] = Absent, ![k.other] = e]
        /\ byName' = [byName EXCEPT ![k.name] = k.other]
        /\ Go(t, Idle) /\ UNCHANGED <<up, rows, minted>>
        /\ Intend(k.name, "added")
    BY DEF AddReconcile, Rekeyed
  <1>3. e \in Entry /\ e # Absent /\ e.name = k.name
    BY <1>1, EntryThere
  <1> HIDE DEF e
  <1>4. \A id \in Ids : byID'[id] = IF id = k.other THEN e
                                    ELSE IF id = k.id THEN Absent ELSE byID[id]
    BY <1>1, <1>2 DEF RegistryInv, TypeOK
  <1>5. TypeOK'
    <2>1. byID' \in [Ids -> Entry \cup {Absent}]
      BY <1>1, <1>2, <1>3 DEF RegistryInv, TypeOK
    <2>2. QED BY <1>1, <1>2, <2>1 DEF RegistryInv, TypeOK, Go, Intend
  <1>6. IndexSound'
    <2> SUFFICES ASSUME NEW n \in Names, byName'[n] # NoId
                 PROVE  /\ byID'[byName'[n]] # Absent
                        /\ byID'[byName'[n]].name = n
      BY DEF IndexSound
    <2>1. CASE n = k.name
      <3>1. byName'[n] = k.other
        BY <1>1, <1>2, <2>1 DEF RegistryInv, TypeOK
      <3>2. QED BY <1>1, <1>3, <1>4, <2>1, <3>1
    <2>2. CASE n # k.name
      <3>1. byName'[n] = byName[n]
        BY <1>1, <1>2, <2>2 DEF RegistryInv, TypeOK
      <3>2. /\ byName[n] \in Ids /\ byID[byName[n]] # Absent
            /\ byID[byName[n]].name = n
        BY <3>1 DEF RegistryInv, TypeOK, IndexSound
      <3>3. byName[n] # k.id /\ byName[n] # k.other
        BY <1>1, <2>2, <3>2, RegisteredName
      <3>4. QED BY <1>4, <3>1, <3>2, <3>3
    <2>3. QED BY <2>1, <2>2
  <1>7. IdsKeepNames'
    BY <1>1, <1>2, <1>3, <1>4 DEF RegistryInv, TypeOK, IdsKeepNames
  <1>8. KeepsName(t)'
    BY <1>2 DEF Go, RegistryInv, TypeOK, KeepsName
  <1>9. CallsKeepNames'
    <2>1. \A u \in Threads \ {t} : call'[u] = call[u]
      BY <1>2 DEF Go, RegistryInv, TypeOK
    <2>2. QED BY <1>2, <1>8, <2>1, OthersKeep
  <1>10. QED BY <1>5, <1>6, <1>7, <1>9 DEF RegistryInv

(* A crash empties the maps and ends every request.                        *)
LEMMA CrashKeeps ==
  ASSUME RegistryInv, Crash
  PROVE  RegistryInv'
  BY DEF Crash, RegistryInv, TypeOK, IndexSound, IdsKeepNames,
         CallsKeepNames, KeepsName

(* Coming up makes uuids for new names only, each for one name.            *)
LEMMA Minting ==
  ASSUME RegistryInv, NEW declared \in SUBSET Names,
         NEW fresh \in FreshIds(New(declared)), MintAll(fresh)
  PROVE  /\ minted' \in [Ids -> Names \cup {Absent}]
         /\ \A id \in Ids : minted[id] # Absent => minted'[id] = minted[id]
         /\ DOMAIN fresh = New(declared)
         /\ \A n \in New(declared) : fresh[n] \in Ids /\ minted'[fresh[n]] = n
  <1>1. /\ fresh \in [New(declared) -> {id \in Ids : Unused(id)}]
        /\ \A a, b \in New(declared) : fresh[a] = fresh[b] => a = b
    BY DEF FreshIds, Injection, IsInjective
  <1>2. New(declared) \subseteq Names
    BY DEF New
  <1>3. ASSUME NEW n \in New(declared)
        PROVE  fresh[n] \in Ids /\ Unused(fresh[n]) /\ minted'[fresh[n]] = n
    <2>1. fresh[n] \in Ids /\ Unused(fresh[n])
      BY <1>1
    <2>2. \E m \in DOMAIN fresh : fresh[m] = fresh[n]
      BY <1>1
    <2>3. (CHOOSE m \in DOMAIN fresh : fresh[m] = fresh[n]) = n
      BY <1>1
    <2>4. QED BY <2>1, <2>2, <2>3 DEF MintAll
  <1>4. ASSUME NEW id \in Ids, ~\E n \in DOMAIN fresh : fresh[n] = id
        PROVE  minted'[id] = minted[id]
    BY <1>4 DEF MintAll
  <1>5. minted' \in [Ids -> Names \cup {Absent}]
    <2>1. ASSUME NEW id \in Ids PROVE minted'[id] \in Names \cup {Absent}
      BY <1>1, <1>2, <1>3, <1>4 DEF RegistryInv, TypeOK
    <2>2. QED BY <2>1 DEF MintAll
  <1>6. \A id \in Ids : minted[id] # Absent => minted'[id] = minted[id]
    BY <1>1, <1>3, <1>4 DEF Unused
  <1>7. QED BY <1>1, <1>3, <1>5, <1>6

(* The row bootstrap writes for a name has an id that is the name's.       *)
LEMMA BootRows ==
  ASSUME RegistryInv, NEW declared \in SUBSET Names,
         NEW enabled \in SUBSET declared,
         NEW fresh \in FreshIds(New(declared)), MintAll(fresh),
         NEW n \in Names
  PROVE  LET r == BootRow(n, declared, enabled, fresh)
         IN  /\ r \in Row \cup {Absent}
             /\ r # Absent => minted'[r.id] = n
             /\ rows[n] # Absent \/ n \in declared => r # Absent
             /\ rows[n] # Absent => minted'[rows[n].id] = n
  <1> DEFINE r == BootRow(n, declared, enabled, fresh)
  <1>1. /\ DOMAIN fresh = New(declared)
        /\ \A m \in New(declared) : fresh[m] \in Ids /\ minted'[fresh[m]] = m
        /\ \A id \in Ids : minted[id] # Absent => minted'[id] = minted[id]
    BY Minting
  <1>2. rows[n] # Absent => /\ rows[n] \in Row /\ rows[n].id \in Ids
                            /\ minted'[rows[n].id] = n
    BY <1>1, NullAssumption DEF RegistryInv, TypeOK, IdsKeepNames, Row
  <1>3. CASE rows[n] = Absent /\ n \in declared
    <2>1. n \in New(declared)
      BY <1>3 DEF New
    <2>2. r = [id |-> fresh[n], enabled |-> n \in enabled, source |-> "config"]
      BY <1>1, <1>3, <2>1 DEF BootRow, Upserted
    <2>3. r \in Row /\ r.id = fresh[n]
      BY <1>1, <2>1, <2>2 DEF Row
    <2>4. QED BY <1>1, <1>3, <2>1, <2>3, NullAssumption
  <1>4. CASE rows[n] # Absent /\ n \in declared
    <2>1. r = [id |-> rows[n].id, enabled |-> n \in enabled,
               source |-> IF rows[n].source = "admin" THEN "admin" ELSE "config"]
      BY <1>4 DEF BootRow, Upserted
    <2>2. r \in Row /\ r.id = rows[n].id
      BY <1>2, <1>4, <2>1 DEF Row
    <2>3. QED BY <1>2, <1>4, <2>2, NullAssumption
  <1>5. CASE n \notin declared /\ rows[n] # Absent /\ rows[n].source = "config"
    <2>1. r = [rows[n] EXCEPT !.enabled = FALSE]
      BY <1>5 DEF BootRow
    <2>2. r \in Row /\ r.id = rows[n].id
      BY <1>2, <1>5, <2>1 DEF Row
    <2>3. QED BY <1>2, <1>5, <2>2, NullAssumption
  <1>6. CASE n \notin declared /\ ~(rows[n] # Absent /\ rows[n].source = "config")
    BY <1>2, <1>6 DEF BootRow, RegistryInv, TypeOK
  <1>7. QED BY <1>3, <1>4, <1>5, <1>6

(* Coming up indexes every loaded name once, each under an id of its own.  *)
LEMMA BootWithKeeps ==
  ASSUME RegistryInv, NEW declared \in SUBSET Names,
         NEW enabled \in SUBSET declared,
         NEW fresh \in FreshIds(New(declared)),
         BootWith(declared, enabled, fresh)
  PROVE  RegistryInv'
  <1>1. /\ MintAll(fresh)
        /\ rows' = [n \in Names |-> BootRow(n, declared, enabled, fresh)]
        /\ byName' = [n \in Names |-> IF Loaded(n, declared)
                                      THEN rows'[n].id ELSE NoId]
        /\ byID' = [id \in Ids |->
                      IF \E n \in Names : byName'[n] = id
                      THEN LET n == CHOOSE n \in Names : byName'[n] = id
                           IN  [name |-> n, enabled |-> rows'[n].enabled]
                      ELSE Absent]
        /\ up' = TRUE /\ call' = call
        /\ intent' = [n \in Names |->
                        IF n \in declared \/ intent[n] = "broken"
                        THEN "open" ELSE intent[n]]
    BY DEF BootWith
  <1>2. /\ minted' \in [Ids -> Names \cup {Absent}]
        /\ \A id \in Ids : minted[id] # Absent => minted'[id] = minted[id]
    BY <1>1, Minting
  <1>3. ASSUME NEW n \in Names
        PROVE  /\ rows'[n] \in Row \cup {Absent}
               /\ rows'[n] # Absent => minted'[rows'[n].id] = n
               /\ rows[n] # Absent \/ n \in declared => rows'[n] # Absent
    BY <1>1, BootRows
  <1>4. ASSUME NEW n \in Names, byName'[n] # NoId
        PROVE  /\ rows'[n] \in Row /\ byName'[n] \in Ids
               /\ byName'[n] = rows'[n].id /\ minted'[byName'[n]] = n
    <2>1. Loaded(n, declared) /\ byName'[n] = rows'[n].id
      BY <1>1, <1>4
    <2>2. rows'[n] # Absent
      BY <1>3, <2>1 DEF Loaded
    <2>3. QED BY <1>3, <2>1, <2>2 DEF Row
  <1>5. ASSUME NEW n \in Names, byName'[n] # NoId
        PROVE  /\ byID'[byName'[n]] \in Entry
               /\ byID'[byName'[n]] # Absent
               /\ byID'[byName'[n]].name = n
    <2>1. byName'[n] \in Ids /\ \E m \in Names : byName'[m] = byName'[n]
      BY <1>4, <1>5
    <2>2. (CHOOSE m \in Names : byName'[m] = byName'[n]) = n
      BY <1>4, <1>5
    <2>3. byID'[byName'[n]] = [name |-> n, enabled |-> rows'[n].enabled]
      BY <1>1, <2>1, <2>2
    <2>4. rows'[n].enabled \in BOOLEAN
      BY <1>4, <1>5 DEF Row
    <2> DEFINE e == [name |-> n, enabled |-> rows'[n].enabled]
    <2>5. e \in Entry /\ e # Absent /\ e.name = n
      BY <2>4, EntryThere
    <2> HIDE DEF e
    <2>6. byID'[byName'[n]] = e
      BY <2>3 DEF e
    <2>7. QED BY <2>5, <2>6
  <1>6. ASSUME NEW id \in Ids, byID'[id] # Absent
        PROVE  \E n \in Names : byName'[n] = id
    BY <1>1, <1>6
  <1>7. IndexSound'
    <2> SUFFICES ASSUME NEW n \in Names, byName'[n] # NoId
                 PROVE  /\ byID'[byName'[n]] # Absent
                        /\ byID'[byName'[n]].name = n
      BY DEF IndexSound
    <2>1. QED BY <1>5
  <1>8. IdsKeepNames'
    <2>1. ASSUME NEW id \in Ids, byID'[id] # Absent
          PROVE  byID'[id].name = minted'[id]
      <3>1. PICK n \in Names : byName'[n] = id
        BY <1>6, <2>1
      <3>2. byName'[n] # NoId
        BY <3>1, RegistryAssumption
      <3>3. QED BY <1>4, <1>5, <3>1, <3>2
    <2>2. QED BY <1>3, <2>1 DEF IdsKeepNames
  <1>9. TypeOK'
    <2>1. byName' \in [Names -> Ids \cup {NoId}]
      <3>1. ASSUME NEW n \in Names PROVE byName'[n] \in Ids \cup {NoId}
        BY <1>4
      <3>2. QED BY <1>1, <3>1
    <2>2. byID' \in [Ids -> Entry \cup {Absent}]
      <3>1. ASSUME NEW id \in Ids, byID'[id] # Absent PROVE byID'[id] \in Entry
        <4>1. PICK n \in Names : byName'[n] = id
          BY <1>6, <3>1
        <4>2. byName'[n] # NoId
          BY <4>1, RegistryAssumption
        <4>3. QED BY <1>5, <4>1, <4>2
      <3>2. QED BY <1>1, <3>1
    <2>3. rows' \in [Names -> Row \cup {Absent}]
      BY <1>1, <1>3
    <2>4. intent' \in [Names -> {"open", "added", "removed", "broken"}]
      BY <1>1 DEF RegistryInv, TypeOK
    <2>5. QED BY <1>1, <1>2, <2>1, <2>2, <2>3, <2>4 DEF RegistryInv, TypeOK
  <1>10. CallsKeepNames'
    BY <1>1, <1>2, <1>3, OtherKeeps DEF CallsKeepNames
  <1>11. QED BY <1>7, <1>8, <1>9, <1>10 DEF RegistryInv

(* Giving up half way leaves rows that are as good, and nothing registered. *)
LEMMA BootUpToKeeps ==
  ASSUME RegistryInv, NEW declared \in SUBSET Names, NEW written \in SUBSET Names,
         NEW enabled \in SUBSET declared,
         NEW fresh \in FreshIds(New(declared)),
         BootUpTo(written, declared, enabled, fresh)
  PROVE  RegistryInv'
  <1>1. /\ MintAll(fresh)
        /\ rows' = [n \in Names |-> IF n \in written
                                    THEN BootRow(n, declared, enabled, fresh)
                                    ELSE rows[n]]
        /\ intent' = [n \in Names |->
                        IF n \in declared /\ intent[n] # "broken"
                        THEN "open" ELSE intent[n]]
        /\ UNCHANGED <<up, byID, byName, call>>
    BY DEF BootUpTo
  <1>2. /\ minted' \in [Ids -> Names \cup {Absent}]
        /\ \A id \in Ids : minted[id] # Absent => minted'[id] = minted[id]
    BY <1>1, Minting
  <1>3. ASSUME NEW n \in Names
        PROVE  /\ rows'[n] \in Row \cup {Absent}
               /\ rows'[n] # Absent => minted'[rows'[n].id] = n
               /\ rows[n] # Absent => rows'[n] # Absent
    <2>1. CASE n \in written
      BY <1>1, <2>1, BootRows
    <2>2. CASE n \notin written
      BY <1>1, <2>2, BootRows DEF RegistryInv, TypeOK
    <2>3. QED BY <2>1, <2>2
  <1>4. TypeOK'
    <2>1. rows' \in [Names -> Row \cup {Absent}]
      BY <1>1, <1>3
    <2>2. intent' \in [Names -> {"open", "added", "removed", "broken"}]
      BY <1>1 DEF RegistryInv, TypeOK
    <2>3. QED BY <1>1, <1>2, <2>1, <2>2 DEF RegistryInv, TypeOK
  <1>5. IndexSound'
    BY <1>1 DEF RegistryInv, IndexSound
  <1>6. IdsKeepNames'
    <2>1. ASSUME NEW id \in Ids, byID[id] # Absent
          PROVE  byID[id].name = minted'[id]
      BY <1>2, <2>1, RegisteredName, NullAssumption
    <2>2. QED BY <1>1, <1>3, <2>1 DEF IdsKeepNames
  <1>7. CallsKeepNames'
    BY <1>1, <1>2, <1>3, OtherKeeps DEF CallsKeepNames
  <1>8. QED BY <1>4, <1>5, <1>6, <1>7 DEF RegistryInv

-----------------------------------------------------------------------------

(* Every step of the program preserves the invariant.                      *)
LEMMA RegistryInvNext ==
  ASSUME RegistryInv, [Next]_vars
  PROVE  RegistryInv'
  <1>1. ASSUME NEW t \in Threads, Begin(t) PROVE RegistryInv'
    BY <1>1, AddLockKeeps, UpsertExistingKeeps, UpsertNewKeeps, RemoveLookupKeeps
    DEF Begin
  <1>2. ASSUME NEW t \in Threads, Continue(t) PROVE RegistryInv'
    BY <1>2, AddDuplicateKeeps, AddUpsertKeeps, AddReadBackKeeps,
       AddReadBackOtherKeeps, AddReconcileKeeps, UpsertLookupKeeps,
       RemoveDisableKeeps, RemoveDeleteKeeps, StoreFailsKeeps
    DEF Continue
  <1>3. CASE UNCHANGED vars
    BY <1>3 DEF vars, RegistryInv, TypeOK, IndexSound, IdsKeepNames,
                CallsKeepNames, KeepsName
  <1>4. ASSUME Bootstrap \/ BootstrapFails PROVE RegistryInv'
    BY <1>4, BootWithKeeps, BootUpToKeeps DEF Bootstrap, BootstrapFails
  <1>5. QED BY <1>1, <1>2, <1>3, <1>4, CrashKeeps DEF Next

(* The invariant holds of every behaviour.                                 *)
THEOREM RegistryInvariant == Spec => []RegistryInv
  BY RegistryInvInit, RegistryInvNext, PTL DEF Spec

(* TypeOK holds of every behaviour: the registry's maps, its table and the *)
(* locals of its requests keep their types.                                *)
THEOREM RegistryTypeCorrect == Spec => []TypeOK
  <1>1. RegistryInv => TypeOK
    BY DEF RegistryInv
  <1>2. QED BY <1>1, RegistryInvariant, PTL

(* GetByName never dereferences nil and never returns another upstream     *)
(* than the one asked for, whatever Add, Remove and upsert requests race   *)
(* and whichever of their database calls fail.                             *)
THEOREM NameIndexIsSound == Spec => []IndexSound
  <1>1. RegistryInv => IndexSound
    BY DEF RegistryInv
  <1>2. QED BY <1>1, RegistryInvariant, PTL

(* An id never moves to another name, in memory or in the table: a task's  *)
(* upstream_id means one upstream for good.                                *)
THEOREM IdsNeverChangeNames == Spec => []IdsKeepNames
  <1>1. RegistryInv => IdsKeepNames
    BY DEF RegistryInv
  <1>2. QED BY <1>1, RegistryInvariant, PTL

-----------------------------------------------------------------------------
(* Registered ids are in the table.                                        *)

(* What an Add that is about to rekey has read is still in the table.      *)
RekeysToRow ==
  \A t \in Threads : At(t, "reconcile") =>
    rows[call[t].name] # Absent /\ rows[call[t].name].id = call[t].other

HasRow(id) == \E n \in Names : rows[n] # Absent /\ rows[n].id = id

(* IdsPersisted, with uuids for names: the ids of a name are its own.      *)
Persisted ==
  \A id \in Ids :
    byID[id] # Absent /\ ~Settling(id) /\ intent[minted[id]] # "broken"
      => HasRow(id)

(* What is broken stays so until the process comes up.                     *)
LEMMA BrokenStays ==
  ASSUME RegistryInv, [Next]_vars, ~Bootstrap, NEW n \in Names,
         intent'[n] # "broken"
  PROVE  intent[n] # "broken"
  <1> USE DEF RegistryInv, TypeOK, Intend
  <1>1. ASSUME NEW t \in Threads, Begin(t) PROVE intent[n] # "broken"
    BY <1>1 DEF Begin, AddLock, UpsertExisting, UpsertNew, RemoveLookup
  <1>2. ASSUME NEW t \in Threads, Continue(t) PROVE intent[n] # "broken"
    BY <1>2 DEF Continue, AddDuplicate, AddUpsert, AddReadBack,
                AddReadBackOther, AddReconcile, UpsertLookup, RemoveDisable,
                RemoveDelete, StoreFails
  <1>3. CASE BootstrapFails
    BY <1>3 DEF BootstrapFails, BootUpTo
  <1>4. QED BY <1>1, <1>2, <1>3 DEF Next, Crash, vars

(* A uuid that has been given to a name stays with it.                     *)
LEMMA MintedStay ==
  ASSUME RegistryInv, [Next]_vars, NEW id \in Ids, minted[id] # Absent
  PROVE  minted'[id] = minted[id]
  <1>1. ASSUME NEW t \in Threads, NEW n \in Names, AddLock(t, n)
        PROVE  minted'[id] = minted[id]
    BY <1>1 DEF AddLock, Unused, RegistryInv, TypeOK
  <1>2. ASSUME NEW declared \in SUBSET Names,
               NEW fresh \in FreshIds(New(declared)), MintAll(fresh)
        PROVE  minted'[id] = minted[id]
    BY <1>2, Minting
  <1>3. CASE Bootstrap
    BY <1>2, <1>3 DEF Bootstrap, BootWith
  <1>4. CASE BootstrapFails
    BY <1>2, <1>4 DEF BootstrapFails, BootUpTo
  <1>5. ASSUME NEW t \in Threads, Begin(t) PROVE minted'[id] = minted[id]
    BY <1>1, <1>5 DEF Begin, UpsertExisting, UpsertNew, RemoveLookup
  <1>6. ASSUME NEW t \in Threads, Continue(t) PROVE minted'[id] = minted[id]
    BY <1>6 DEF Continue, AddDuplicate, AddUpsert, AddReadBack,
                AddReadBackOther, AddReconcile, UpsertLookup, RemoveDisable,
                RemoveDelete, StoreFails
  <1>7. QED BY <1>3, <1>4, <1>5, <1>6 DEF Next, Crash, vars

PersistedInv == RegistryInv /\ RekeysToRow /\ Persisted

(* Rows stay, and keep the id they were made with.                         *)
RowsKeepIds ==
  \A n \in Names : rows[n] # Absent =>
    rows'[n] # Absent /\ rows'[n].id = rows[n].id

LEMMA RowsKeepTheirIds ==
  ASSUME RegistryInv, [Next]_vars
  PROVE  RowsKeepIds
  <1> USE NullAssumption DEF RegistryInv, TypeOK, RowsKeepIds
  <1>1. CASE UNCHANGED rows
    BY <1>1
  <1>2. ASSUME NEW t \in Threads, AddUpsert(t) PROVE RowsKeepIds
    <2>1. call[t].name \in Names
      BY <1>2, CallLocals DEF AddUpsert, At
    <2>2. CASE rows[call[t].name] = Absent
      BY <1>2, <2>1, <2>2 DEF AddUpsert
    <2>3. CASE rows[call[t].name] # Absent
      <3> DEFINE n == call[t].name
                 r == Upserted(n, call[t].id, TRUE, "admin")
      <3>1. rows[n] \in Row
        BY <2>1, <2>3
      <3>2. r \in Row /\ r.id = rows[n].id
        BY <2>3, <3>1 DEF Upserted, Row
      <3> HIDE DEF r
      <3>3. rows' = [rows EXCEPT ![n] = r]
        BY <1>2 DEF AddUpsert, r
      <3>4. QED BY <3>2, <3>3
    <2>4. QED BY <2>2, <2>3
  <1>3. ASSUME NEW t \in Threads, RemoveDisable(t) PROVE RowsKeepIds
    <2> SUFFICES ASSUME NEW n \in Names, rows[n] # Absent
                 PROVE  rows'[n] # Absent /\ rows'[n].id = rows[n].id
      OBVIOUS
    <2>1. rows[n] \in Row
      OBVIOUS
    <2>2. [rows[n] EXCEPT !.enabled = FALSE] \in Row
          /\ [rows[n] EXCEPT !.enabled = FALSE].id = rows[n].id
      BY <2>1 DEF Row
    <2>3. rows'[n] \in {rows[n], [rows[n] EXCEPT !.enabled = FALSE]}
      BY <1>3 DEF RemoveDisable, Disabled
    <2>4. QED BY <2>1, <2>2, <2>3
  <1>4. ASSUME NEW n \in Names, rows[n] # Absent,
               NEW declared, NEW enabled, NEW fresh
        PROVE  LET r == BootRow(n, declared, enabled, fresh)
               IN  r # Absent /\ r.id = rows[n].id
    <2> DEFINE r == BootRow(n, declared, enabled, fresh)
               e == n \in enabled
    <2>1. rows[n] \in Row
      BY <1>4
    <2>2. CASE n \in declared
      <3>1. r = [id |-> rows[n].id, enabled |-> e,
                 source |-> IF rows[n].source = "admin" THEN "admin" ELSE "config"]
        BY <1>4, <2>2 DEF BootRow, Upserted
      <3>2. r \in Row /\ r.id = rows[n].id
        BY <2>1, <3>1 DEF Row
      <3>3. QED BY <3>2
    <2>3. CASE n \notin declared
      <3>1. r \in {rows[n], [rows[n] EXCEPT !.enabled = FALSE]}
        BY <2>3 DEF BootRow
      <3>2. [rows[n] EXCEPT !.enabled = FALSE] \in Row
            /\ [rows[n] EXCEPT !.enabled = FALSE].id = rows[n].id
        BY <2>1 DEF Row
      <3>3. QED BY <2>1, <3>1, <3>2
    <2>4. QED BY <2>2, <2>3
  <1>5. CASE Bootstrap
    BY <1>4, <1>5 DEF Bootstrap, BootWith
  <1>6. CASE BootstrapFails
    BY <1>4, <1>6 DEF BootstrapFails, BootUpTo
  <1>7. ASSUME NEW t \in Threads, Begin(t) PROVE UNCHANGED rows
    BY <1>7 DEF Begin, AddLock, UpsertExisting, UpsertNew, RemoveLookup
  <1>8. ASSUME NEW t \in Threads, Continue(t)
        PROVE  AddUpsert(t) \/ RemoveDisable(t) \/ UNCHANGED rows
    BY <1>8 DEF Continue, AddDuplicate, AddReadBack, AddReadBackOther,
                AddReconcile, UpsertLookup, RemoveDelete, StoreFails
  <1>9. QED
    BY <1>1, <1>2, <1>3, <1>5, <1>6, <1>7, <1>8 DEF Next, Crash, vars

(* Who has read back another id than its own rekeys to the row it saw.     *)
LEMMA RekeysToRowKept ==
  ASSUME RegistryInv, RekeysToRow, [Next]_vars, RowsKeepIds
  PROVE  RekeysToRow'
  <1> USE DEF RegistryInv, TypeOK, Go, At
  <1> SUFFICES ASSUME NEW u \in Threads, At(u, "reconcile")'
               PROVE  rows'[call'[u].name] # Absent
                      /\ rows'[call'[u].name].id = call'[u].other
    BY DEF RekeysToRow
  <1>1. CASE call'[u] = call[u]
    <2>1. call[u].name \in Names
      BY <1>1 DEF Call
    <2>2. QED BY <1>1, <2>1 DEF RekeysToRow, RowsKeepIds
  <1>2. CASE AddReadBackOther(u)
    <2> DEFINE k == call[u]
    <2>1. k \in Call /\ rows[k.name] # Absent
      BY <1>2, CallLocals, NullAssumption DEF AddReadBackOther
    <2>2. call'[u] = [k EXCEPT !.step = "reconcile", !.other = rows[k.name].id]
      BY <1>2 DEF AddReadBackOther
    <2>3. call'[u].name = k.name /\ call'[u].other = rows[k.name].id
      BY <2>1, <2>2 DEF Call
    <2>4. UNCHANGED rows
      BY <1>2 DEF AddReadBackOther
    <2>5. QED BY <2>1, <2>3, <2>4
  <1>3. ASSUME NEW t \in Threads, Begin(t)
        PROVE  call'[u] = call[u] \/ call'[u].step # "reconcile"
    BY <1>3 DEF Begin, AddLock, UpsertExisting, UpsertNew, RemoveLookup
  <1>4. ASSUME NEW t \in Threads, Continue(t)
        PROVE  \/ call'[u] = call[u] \/ call'[u] = Idle
               \/ call'[u].step # "reconcile" \/ AddReadBackOther(u)
    <2>1. CASE t # u
      BY <1>4, <2>1 DEF Continue, AddDuplicate, AddUpsert, AddReadBack,
            AddReadBackOther, AddReconcile, UpsertLookup, RemoveDisable,
            RemoveDelete, StoreFails
    <2>2. CASE t = u
      <3>1. call[t] # Idle => call[t] \in Call
        OBVIOUS
      <3>2. ASSUME NEW s \in {"readback", "delete"}, call[u] # Idle
            PROVE  [call[u] EXCEPT !.step = s].step # "reconcile"
        BY <2>2, <3>1, <3>2 DEF Call
      <3>3. CASE AddUpsert(u) \/ RemoveDisable(u)
        BY <3>2, <3>3 DEF AddUpsert, RemoveDisable
      <3>4. CASE RemoveDelete(u)
        <4>1. [call[u] EXCEPT !.step = "lock"].step # "reconcile"
          BY <2>2, <3>1, <3>4 DEF Call, RemoveDelete
        <4>2. QED BY <3>4, <4>1 DEF RemoveDelete
      <3>5. CASE UpsertLookup(u)
        <4> DEFINE d == [call[u] EXCEPT !.step = "disable",
                                        !.name = byID[call[u].id].name]
        <4>1. d.step # "reconcile"
          BY <2>2, <3>1, <3>5 DEF Call, UpsertLookup
        <4> HIDE DEF d
        <4>2. call'[u] = Idle \/ call'[u] = d
          BY <3>5 DEF UpsertLookup, d
        <4>3. QED BY <4>1, <4>2
      <3>6. CASE AddDuplicate(u) \/ AddReadBack(u) \/ AddReconcile(u)
                 \/ StoreFails(u)
        BY <3>6 DEF AddDuplicate, AddReadBack, AddReconcile, StoreFails
      <3>7. QED
        BY <1>4, <2>2, <3>3, <3>4, <3>5, <3>6 DEF Continue
    <2>3. QED BY <2>1, <2>2
  <1>5. CASE Crash
    BY <1>5 DEF Crash
  <1>6. CASE Bootstrap \/ BootstrapFails \/ UNCHANGED vars
    BY <1>1, <1>6 DEF Bootstrap, BootWith, BootstrapFails, BootUpTo, vars
  <1>7. QED
    BY <1>1, <1>2, <1>3, <1>4, <1>5, <1>6 DEF Next

(* An id is registered, or done with by its Add, only with a row to it.    *)
LEMMA PersistedKept ==
  ASSUME PersistedInv, [Next]_vars, RegistryInv', RowsKeepIds
  PROVE  Persisted'
  <1> USE DEF PersistedInv, RegistryInv, TypeOK, Go, At
  <1> SUFFICES ASSUME NEW id \in Ids, byID'[id] # Absent, ~Settling(id)',
                      intent'[minted'[id]] # "broken"
               PROVE  HasRow(id)'
    BY DEF Persisted
  <1>1. CASE HasRow(id)
    BY <1>1 DEF HasRow, RowsKeepIds
  <1>2. CASE Bootstrap
    <2>1. PICK declared \in SUBSET Names :
          \E enabled \in SUBSET declared, fresh \in FreshIds(New(declared)) :
            BootWith(declared, enabled, fresh)
      BY <1>2 DEF Bootstrap
    <2>2. PICK enabled \in SUBSET declared, fresh \in FreshIds(New(declared)) :
            BootWith(declared, enabled, fresh)
      BY <2>1
    <2>3. PICK n \in Names : byName'[n] = id
      BY <2>2 DEF BootWith
    <2>4. id # NoId
      BY RegistryAssumption
    <2>5. Loaded(n, declared) /\ rows'[n].id = id
      BY <2>2, <2>3, <2>4 DEF BootWith
    <2>6. MintAll(fresh) /\ rows'[n] = BootRow(n, declared, enabled, fresh)
      BY <2>2 DEF BootWith
    <2>7. rows[n] # Absent \/ n \in declared
      BY <2>5 DEF Loaded
    <2>8. rows'[n] # Absent
      BY <2>6, <2>7, BootRows
    <2>9. QED BY <2>5, <2>8 DEF HasRow
  <1> SUFFICES ASSUME ~Bootstrap PROVE HasRow(id)'
    BY <1>2
  <1>3. CASE byID[id] # Absent /\ ~Settling(id)
    <2>1. minted[id] \in Names
      BY <1>3, RegisteredName
    <2>2. minted'[id] = minted[id]
      BY <2>1, NullAssumption, MintedStay
    <2>3. intent[minted[id]] # "broken"
      BY <2>1, <2>2, BrokenStays
    <2>4. QED BY <1>1, <1>3, <2>3 DEF Persisted
  <1> DEFINE Settles(t) ==
               /\ call[t] # Idle
               /\ call[t].step \in {"upsert", "readback", "reconcile"}
  <1>4. CASE /\ byID'[id] = byID[id]
             /\ \A t \in Threads : Settles(t) => call'[t] = call[t]
    <2>1. CASE ~Settling(id)
      BY <1>3, <1>4, <2>1
    <2>2. CASE Settling(id)
      <3>1. PICK t \in Threads : Settles(t) /\ call[t].id = id
        BY <2>2 DEF Settling
      <3>2. call'[t] = call[t]
        BY <1>4, <3>1
      <3>3. Settling(id)'
        BY <3>1, <3>2 DEF Settling
      <3>4. QED BY <3>3
    <2>3. QED BY <2>1, <2>2
  <1>5. ASSUME NEW t \in Threads, NEW n \in Names, AddLock(t, n)
        PROVE  HasRow(id)'
    <2>1. PICK i \in Ids :
            /\ byID' = [byID EXCEPT ![i] = [name |-> n, enabled |-> TRUE]]
            /\ call' = [call EXCEPT ![t] =
                          [step |-> "upsert", name |-> n, id |-> i,
                           other |-> NoId, upserting |-> FALSE]]
      BY <1>5 DEF AddLock
    <2> DEFINE c == [step |-> "upsert", name |-> n, id |-> i,
                     other |-> NoId, upserting |-> FALSE]
    <2>2. c \in Call /\ c.step = "upsert" /\ c.id = i
      BY DEF Call
    <2> HIDE DEF c
    <2>3. call' = [call EXCEPT ![t] = c]
      BY <2>1 DEF c
    <2>4. id # i
      <3>1. call'[t] = c /\ c # Idle
        BY <2>2, <2>3, NullAssumption
      <3>2. QED BY <2>2, <3>1 DEF Settling
    <2>5. byID'[id] = byID[id] /\ ~Settles(t)
      BY <1>5, <2>1, <2>4 DEF AddLock, MayLock
    <2>6. QED BY <1>4, <2>3, <2>5
  <1>6. ASSUME NEW t \in Threads, Begin(t) PROVE HasRow(id)'
    <2>1. CASE \/ \E n \in Names : UpsertExisting(t, n) \/ UpsertNew(t, n)
               \/ \E i \in Ids : RemoveLookup(t, i)
      <3>1. /\ byID' = byID /\ call[t] = Idle
            /\ \A u \in Threads \ {t} : call'[u] = call[u]
        BY <2>1 DEF UpsertExisting, UpsertNew, RemoveLookup
      <3>2. QED BY <1>4, <3>1
    <2>2. QED BY <1>5, <1>6, <2>1 DEF Begin
  <1>7. ASSUME NEW t \in Threads, AddUpsert(t) \/ AddReadBackOther(t)
        PROVE  HasRow(id)'
    <2> DEFINE k == call[t]
    <2>1. k \in Call /\ k.step \in {"upsert", "readback"}
      BY <1>7 DEF AddUpsert, AddReadBackOther
    <2>2. \E s \in {"readback", "reconcile"}, o \in Ids \cup {NoId} :
            call' = [call EXCEPT ![t] = [k EXCEPT !.step = s, !.other = o]]
      <3>1. CASE AddUpsert(t)
        <4>1. [k EXCEPT !.step = "readback"]
                = [k EXCEPT !.step = "readback", !.other = k.other]
          BY <2>1 DEF Call
        <4>2. QED BY <2>1, <3>1, <4>1 DEF AddUpsert, Call
      <3>2. CASE AddReadBackOther(t)
        <4>1. rows[k.name] \in Row
          BY <3>2, CallLocals DEF AddReadBackOther
        <4>2. QED BY <3>2, <4>1 DEF AddReadBackOther, Row
      <3>3. QED BY <1>7, <3>1, <3>2
    <2>3. PICK s \in {"readback", "reconcile"}, o \in Ids \cup {NoId} :
            call' = [call EXCEPT ![t] = [k EXCEPT !.step = s, !.other = o]]
      BY <2>2
    <2> DEFINE c == [k EXCEPT !.step = s, !.other = o]
    <2>4. c \in Call /\ c.step = s /\ c.id = k.id
      BY <2>1 DEF Call
    <2> HIDE DEF c
    <2>5. c # Idle
      BY <2>4, NullAssumption
    <2>6. call' = [call EXCEPT ![t] = c] /\ byID' = byID
      BY <1>7, <2>3 DEF c, AddUpsert, AddReadBackOther
    <2>7. Settling(id)' <=> Settling(id)
      BY <1>7, <2>1, <2>4, <2>6, <2>5 DEF Settling, AddUpsert, AddReadBackOther
    <2>8. QED BY <1>3, <2>6, <2>7
  <1>8. ASSUME NEW t \in Threads, AddReadBack(t) PROVE HasRow(id)'
    <2>1. CASE id = call[t].id
      <3>1. call[t].name \in Names /\ rows[call[t].name] # Absent
        BY <1>8, CallLocals, NullAssumption DEF AddReadBack
      <3>2. QED BY <1>1, <1>8, <2>1, <3>1 DEF AddReadBack, HasRow
    <2>2. CASE id # call[t].id
      <3>1. Settling(id) => Settling(id)'
        BY <1>8, <2>2 DEF Settling, AddReadBack
      <3>2. QED BY <1>3, <1>8, <3>1 DEF AddReadBack
    <2>3. QED BY <2>1, <2>2
  <1>9. ASSUME NEW t \in Threads, AddReconcile(t) PROVE HasRow(id)'
    <2> DEFINE k == call[t]
    <2>1. k.name \in Names /\ rows[k.name] # Absent /\ rows[k.name].id = k.other
      BY <1>9, CallLocals DEF AddReconcile, RekeysToRow
    <2>2. CASE id = k.other
      BY <1>1, <2>1, <2>2 DEF HasRow
    <2>3. CASE id # k.other
      <3>1. id # k.id /\ byID'[id] = byID[id]
        BY <1>9, <2>3 DEF AddReconcile, Rekeyed
      <3>2. Settling(id) => Settling(id)'
        BY <1>9, <3>1 DEF Settling, AddReconcile
      <3>3. QED BY <1>3, <3>1, <3>2
    <2>4. QED BY <2>2, <2>3
  <1>10. ASSUME NEW t \in Threads,
               AddDuplicate(t) \/ UpsertLookup(t) \/ RemoveDisable(t)
               \/ RemoveDelete(t)
        PROVE  HasRow(id)'
    <2>1. byID'[id] = byID[id]
      BY <1>10 DEF AddDuplicate, UpsertLookup, RemoveDisable, RemoveDelete
    <2>2. /\ \A u \in Threads \ {t} : call'[u] = call[u]
          /\ call[t].step \in {"lock", "lookup", "disable", "delete"}
      BY <1>10 DEF AddDuplicate, UpsertLookup, RemoveDisable, RemoveDelete
    <2>3. QED BY <1>4, <2>1, <2>2
  <1>11. ASSUME NEW t \in Threads, StoreFails(t) PROVE HasRow(id)'
    <2> DEFINE k == call[t]
    <2>1. /\ byID' = byID /\ minted' = minted
          /\ \A u \in Threads \ {t} : call'[u] = call[u]
          /\ k \in Call /\ k.name \in Names /\ intent'[k.name] = "broken"
          /\ k.id \in Ids /\ minted[k.id] = k.name
      BY <1>11, CallLocals DEF StoreFails, Intend, Call
    <2>2. k.id # id
      BY <2>1
    <2>3. Settling(id) => Settling(id)'
      BY <2>1, <2>2 DEF Settling
    <2>4. QED BY <1>3, <2>1, <2>3
  <1>12. ASSUME NEW t \in Threads, Continue(t) PROVE HasRow(id)'
    BY <1>7, <1>8, <1>9, <1>10, <1>11, <1>12 DEF Continue
  <1>13. CASE Crash
    BY <1>13 DEF Crash
  <1>14. CASE BootstrapFails \/ UNCHANGED vars
    BY <1>4, <1>14 DEF BootstrapFails, BootUpTo, vars
  <1>15. QED
    BY <1>6, <1>13, <1>14, <1>12 DEF Next

(* A registered id is the id its name has in the table, except in the      *)
(* middle of the Add that registers it and after a request for the name    *)
(* that failed half way: a task of an upstream never misses the row it     *)
(* refers to.                                                              *)
THEOREM IdsArePersisted == Spec => []IdsPersisted
  <1>1. Init => PersistedInv
    BY RegistryInvInit DEF Init, PersistedInv, RekeysToRow, Persisted, At
  <1>2. PersistedInv /\ [Next]_vars => PersistedInv'
    BY RegistryInvNext, RowsKeepTheirIds, RekeysToRowKept, PersistedKept
    DEF PersistedInv
  <1>3. PersistedInv => IdsPersisted
    <2> SUFFICES ASSUME PersistedInv, NEW id \in Ids, byID[id] # Absent,
                        ~Settling(id), intent[byID[id].name] # "broken"
                 PROVE  rows[byID[id].name] # Absent
                        /\ rows[byID[id].name].id = id
      BY DEF IdsPersisted
    <2>1. PICK n \in Names : rows[n] # Absent /\ rows[n].id = id
      BY RegisteredName DEF PersistedInv, Persisted, HasRow
    <2>2. byID[id].name = n
      BY <2>1 DEF PersistedInv, RegistryInv, IdsKeepNames
    <2>3. QED BY <2>1, <2>2
  <1>4. QED BY <1>1, <1>2, <1>3, PTL DEF Spec

-----------------------------------------------------------------------------
(* One request at a time.                                                  *)

OneAtATime == \A t, u \in Threads : t = u

Adding(t) ==
  call[t] # Idle /\ call[t].step \in {"upsert", "readback", "reconcile"}

OutOfService(n) == rows[n] = Absent \/ ~rows[n].enabled

InService(n) ==
  rows[n] # Absent /\ rows[n].enabled /\ rows[n].source = "admin"

(* The converse of IndexSound.                                             *)
AllIndexed == \A id \in Ids : byID[id] # Absent => byName[byID[id].name] = id

(* A request's locals are those of the index, and its writes take effect.  *)
CallTrue(t) ==
  call[t] # Idle =>
    /\ intent[call[t].name] \in {"open", "broken"}
    /\ call[t].step # "lock" => byName[call[t].name] = call[t].id
    /\ call[t].step = "delete" /\ intent[call[t].name] # "broken"
         => OutOfService(call[t].name)
    /\ Adding(t) => byID[call[t].id].enabled
    /\ call[t].step \in {"readback", "reconcile"} => InService(call[t].name)

(* What was promised of a name is in the table, where it survives, and in  *)
(* memory; and the two agree about the id unless something broke.          *)
NameTrue(n) ==
  /\ intent[n] = "removed" =>
       OutOfService(n) /\ (byName[n] # NoId => ~byID[byName[n]].enabled)
  /\ intent[n] = "added" =>
       InService(n) /\ (up => byName[n] # NoId /\ byID[byName[n]].enabled)
  /\ intent[n] # "broken" /\ byName[n] # NoId
     /\ (\A t \in Threads : Adding(t) => call[t].name # n)
       => rows[n] # Absent /\ rows[n].id = byName[n]

LoneInv ==
  /\ RegistryInv
  /\ RekeysToRow
  /\ AllIndexed
  /\ ~up => \A t \in Threads : call[t] = Idle
  /\ \A t \in Threads : CallTrue(t)
  /\ \A n \in Names : NameTrue(n)

(* A step of the only request concerns one name, and what is kept of that  *)
(* name is kept of all.                                                    *)
LEMMA Confined ==
  ASSUME OneAtATime, LoneInv, RegistryInv', RekeysToRow',
         NEW t \in Threads, NEW n \in Names,
         up, up',
         \A m \in Names \ {n} : /\ intent'[m] = intent[m]
                                /\ rows'[m] = rows[m]
                                /\ byName'[m] = byName[m],
         \A i \in Ids : byID'[i] = byID[i] \/ minted'[i] = n,
         \A i \in Ids : byID'[i] # Absent /\ minted'[i] = n => byName'[n] = i,
         call[t] = Idle \/ call[t].name = n,
         call'[t] = Idle \/ call'[t].name = n,
         CallTrue(t)', NameTrue(n)'
  PROVE  LoneInv'
  <1> USE DEF LoneInv, OneAtATime
  <1>1. ASSUME NEW i \in Ids, byID'[i] # Absent
        PROVE  byName'[byID'[i].name] = i
    <2>1. byID'[i].name \in Names /\ minted'[i] = byID'[i].name
      BY <1>1 DEF RegistryInv, TypeOK, IdsKeepNames, Entry
    <2>2. CASE byID'[i].name = n
      BY <1>1, <2>1, <2>2
    <2>3. CASE byID'[i].name # n
      BY <1>1, <2>1, <2>3 DEF AllIndexed
    <2>4. QED BY <2>2, <2>3
  <1>2. ASSUME NEW m \in Names, m # n PROVE NameTrue(m)'
    <2>1. /\ intent'[m] = intent[m] /\ rows'[m] = rows[m]
          /\ byName'[m] = byName[m] /\ NameTrue(m)
      BY <1>2
    <2>2. byName[m] # NoId => byID'[byName[m]] = byID[byName[m]]
      <3> SUFFICES ASSUME byName[m] # NoId
                   PROVE  byID'[byName[m]] = byID[byName[m]]
        OBVIOUS
      <3>1. byName[m] \in Ids
        BY DEF RegistryInv, TypeOK
      <3>2. byID'[byName[m]] # Absent /\ byID'[byName[m]].name = m
        BY <2>1 DEF RegistryInv, IndexSound
      <3>3. minted'[byName[m]] = m
        BY <3>1, <3>2 DEF RegistryInv, IdsKeepNames
      <3>4. QED BY <1>2, <3>1, <3>3
    <2>3. \A u \in Threads : Adding(u) => call[u].name # m
      BY <1>2 DEF Adding
    <2>4. QED BY <2>1, <2>2, <2>3 DEF NameTrue, OutOfService, InService
  <1>3. QED BY <1>1, <1>2 DEF AllIndexed

(* What an admin asks for changes the history of one name only.            *)
LEMMA IntendOne ==
  ASSUME RegistryInv, NEW n \in Names, NEW w, Intend(n, w)
  PROVE  /\ intent'[n] = IF intent[n] = "broken" THEN "broken" ELSE w
         /\ \A m \in Names \ {n} : intent'[m] = intent[m]
  BY DEF Intend, RegistryInv, TypeOK

(* A step that only moves the request on.                                  *)
LEMMA ConfinedLocal ==
  ASSUME OneAtATime, LoneInv, RegistryInv', RekeysToRow',
         NEW t \in Threads, NEW n \in Names,
         up, UNCHANGED <<up, byID, byName, rows, minted>>,
         \A m \in Names \ {n} : intent'[m] = intent[m],
         call[t] = Idle \/ call[t].name = n,
         call'[t] = Idle \/ call'[t].name = n,
         CallTrue(t)', NameTrue(n)'
  PROVE  LoneInv'
  <1>1. ASSUME NEW i \in Ids, byID'[i] # Absent, minted'[i] = n
        PROVE  byName'[n] = i
    BY <1>1, RegisteredName DEF LoneInv, AllIndexed
  <1>2. QED BY <1>1, Confined

(* A request that begins.                                                  *)
LEMMA LoneBegin ==
  ASSUME OneAtATime, LoneInv, RegistryInv', RekeysToRow',
         NEW t \in Threads, Begin(t)
  PROVE  LoneInv'
  <1> USE DEF LoneInv, OneAtATime, RegistryInv, TypeOK, Go
  <1>1. ASSUME NEW n \in Names, UpsertExisting(t, n) \/ UpsertNew(t, n)
        PROVE  LoneInv'
    <2>1. /\ call[t] = Idle /\ up
          /\ UNCHANGED <<up, byID, byName, rows, minted>>
          /\ Intend(n, "open")
      BY <1>1 DEF UpsertExisting, UpsertNew
    <2>2. /\ intent'[n] \in {"open", "broken"}
          /\ intent'[n] # "broken" => intent[n] # "broken"
          /\ \A m \in Names \ {n} : intent'[m] = intent[m]
      BY <2>1, IntendOne
    <2>3. /\ call'[t].name = n /\ call'[t].step \in {"lookup", "lock"}
          /\ call'[t].step = "lookup" => call'[t].id = byName[n]
      BY <1>1 DEF UpsertExisting, UpsertNew
    <2>4. CallTrue(t)'
      BY <2>1, <2>2, <2>3 DEF CallTrue, Adding
    <2>5. NameTrue(n)'
      BY <2>1, <2>2 DEF NameTrue, Adding
    <2>6. QED BY <2>1, <2>2, <2>3, <2>4, <2>5, ConfinedLocal
  <1>2. ASSUME NEW id \in Ids, RemoveLookup(t, id)
        PROVE  LoneInv'
    <2> PICK n \in Names : n = byID[id].name
      BY <1>2, RegisteredName DEF RemoveLookup
    <2>1. /\ call[t] = Idle /\ up /\ byID[id] # Absent
          /\ UNCHANGED <<up, byID, byName, rows, minted>>
          /\ Intend(n, "open")
      BY <1>2 DEF RemoveLookup
    <2>2. byName[n] = id
      BY <2>1 DEF AllIndexed
    <2>3. /\ intent'[n] \in {"open", "broken"}
          /\ intent'[n] # "broken" => intent[n] # "broken"
          /\ \A m \in Names \ {n} : intent'[m] = intent[m]
      BY <2>1, <2>2, IntendOne
    <2>4. call'[t].name = n /\ call'[t].step = "disable" /\ call'[t].id = id
      BY <1>2 DEF RemoveLookup
    <2>5. CallTrue(t)'
      BY <2>1, <2>2, <2>3, <2>4 DEF CallTrue, Adding
    <2>6. NameTrue(n)'
      BY <2>1, <2>2, <2>3 DEF NameTrue, Adding
    <2>7. QED BY <2>1, <2>2, <2>3, <2>4, <2>5, <2>6, ConfinedLocal
  <1>3. ASSUME NEW n \in Names, AddLock(t, n) PROVE LoneInv'
    <2>1. PICK id \in Ids :
            /\ Unused(id)
            /\ minted' = [minted EXCEPT ![id] = n]
            /\ byID' = [byID EXCEPT ![id] = [name |-> n, enabled |-> TRUE]]
            /\ byName' = [byName EXCEPT ![n] = id]
            /\ Go(t, [step |-> "upsert", name |-> n, id |-> id,
                      other |-> NoId, upserting |-> FALSE])
      BY <1>3 DEF AddLock
    <2>2. /\ up /\ up' = up /\ rows' = rows /\ byName[n] = NoId
          /\ call[t] = Idle \/ call[t].name = n
          /\ Intend(n, "open")
      BY <1>3 DEF AddLock, MayLock
    <2>3. /\ intent'[n] \in {"open", "broken"}
          /\ \A m \in Names \ {n} : intent'[m] = intent[m]
      BY <2>2, IntendOne
    <2>4. /\ call'[t].name = n /\ call'[t].step = "upsert" /\ call'[t].id = id
          /\ byName'[n] = id /\ minted'[id] = n /\ byID'[id].enabled
          /\ \A m \in Names \ {n} : byName'[m] = byName[m]
          /\ \A i \in Ids \ {id} : byID'[i] = byID[i] /\ minted'[i] = minted[i]
      BY <2>1
    <2>5. ASSUME NEW i \in Ids, byID'[i] # Absent, minted'[i] = n
          PROVE  byName'[n] = i
      <3>1. CASE i = id
        BY <2>4, <3>1
      <3>2. CASE i # id
        <4>1. byID[i] # Absent /\ byID[i].name = n
          BY <2>4, <2>5, <3>2, RegisteredName
        <4>2. QED BY <2>2, <4>1, RegistryAssumption DEF AllIndexed
      <3>3. QED BY <3>1, <3>2
    <2>6. CallTrue(t)'
      BY <2>3, <2>4 DEF CallTrue, Adding
    <2>7. call'[t] # Idle
      <3> DEFINE c == [step |-> "upsert", name |-> n, id |-> id,
                       other |-> NoId, upserting |-> FALSE]
      <3>1. c \in Call
        BY DEF Call
      <3> HIDE DEF c
      <3>2. call'[t] = c
        BY <2>1 DEF c
      <3>3. QED BY <3>1, <3>2, NullAssumption
    <2>8. NameTrue(n)'
      BY <2>3, <2>4, <2>7 DEF NameTrue, Adding
    <2>9. QED BY <2>2, <2>3, <2>4, <2>5, <2>6, <2>8, Confined
  <1>4. QED BY <1>1, <1>2, <1>3 DEF Begin

(* A request that goes on within its name.                                 *)
LEMMA LoneContinue ==
  ASSUME OneAtATime, LoneInv, RegistryInv', RekeysToRow',
         NEW t \in Threads, Continue(t)
  PROVE  LoneInv'
  <1> DEFINE k == call[t]
  <1> USE DEF LoneInv, OneAtATime, RegistryInv, TypeOK, Go, At
  <1>0. k # Idle /\ up' = up
    BY DEF Continue, AddDuplicate, AddUpsert, AddReadBack, AddReadBackOther,
           AddReconcile, UpsertLookup, RemoveDisable, RemoveDelete, StoreFails
  <1> PICK n \in Names : n = k.name
    BY <1>0, CallLocals
  <1>1. /\ up /\ up' = up /\ k \in Call /\ k # Idle /\ k.name = n
        /\ k.step # "lock" => k.id \in Ids /\ k.id # NoId /\ byName[n] = k.id
        /\ CallTrue(t) /\ NameTrue(n)
        /\ intent[n] \in {"open", "broken"}
    BY <1>0, CallLocals, RegistryAssumption DEF CallTrue
  <1>2. CASE AddDuplicate(t)
    <2>1. /\ call'[t] = Idle /\ k.step = "lock"
          /\ UNCHANGED <<up, byID, byName, rows, minted, intent>>
      BY <1>2 DEF AddDuplicate
    <2>2. NameTrue(n)'
      BY <1>1, <2>1 DEF NameTrue, Adding
    <2>3. QED BY <1>1, <2>1, <2>2, ConfinedLocal DEF CallTrue
  <1>3. CASE StoreFails(t)
    <2>1. /\ call'[t] = Idle /\ Intend(n, "broken")
          /\ UNCHANGED <<up, byID, byName, rows, minted>>
      BY <1>3 DEF StoreFails
    <2>2. intent'[n] = "broken" /\ \A m \in Names \ {n} : intent'[m] = intent[m]
      BY <1>1, <2>1, IntendOne
    <2>3. NameTrue(n)'
      BY <2>2 DEF NameTrue
    <2>4. QED BY <1>1, <2>1, <2>2, <2>3, ConfinedLocal DEF CallTrue
  <1>4. CASE UpsertLookup(t)
    <2> DEFINE d == [k EXCEPT !.step = "disable", !.name = byID[k.id].name]
    <2>1. byID[k.id].name = n
      BY <1>1, <1>4 DEF UpsertLookup, IndexSound
    <2>2. d.step = "disable" /\ d.name = n /\ d.id = k.id
      BY <1>1, <2>1 DEF Call
    <2> HIDE DEF d
    <2>3. /\ call'[t] = Idle \/ call'[t] = d
          /\ k.step = "lookup"
          /\ UNCHANGED <<up, byID, byName, rows, minted, intent>>
      BY <1>4 DEF UpsertLookup, d
    <2>4. CallTrue(t)'
      BY <1>1, <2>2, <2>3 DEF CallTrue, Adding
    <2>5. NameTrue(n)'
      BY <1>1, <2>3 DEF NameTrue, Adding
    <2>6. QED BY <1>1, <2>2, <2>3, <2>4, <2>5, ConfinedLocal
  <1>5. CASE AddReadBack(t)
    <2>1. /\ call'[t] = Idle /\ k.step = "readback" /\ rows[n].id = k.id
          /\ Intend(n, "added")
          /\ UNCHANGED <<up, byID, byName, rows, minted>>
      BY <1>5 DEF AddReadBack
    <2>2. /\ intent'[n] \in {"added", "broken"}
          /\ \A m \in Names \ {n} : intent'[m] = intent[m]
      BY <1>1, <2>1, IntendOne
    <2>3. InService(n) /\ byID[k.id].enabled
      BY <1>1, <2>1 DEF CallTrue, Adding
    <2>4. NameTrue(n)'
      BY <1>1, <2>1, <2>2, <2>3 DEF NameTrue, InService
    <2>5. QED BY <1>1, <2>1, <2>2, <2>4, ConfinedLocal DEF CallTrue
  <1>6. CASE AddReadBackOther(t)
    <2> DEFINE d == [k EXCEPT !.step = "reconcile", !.other = rows[n].id]
    <2>1. d.step = "reconcile" /\ d.name = n /\ d.id = k.id
      BY <1>1 DEF Call
    <2> HIDE DEF d
    <2>2. /\ call'[t] = d /\ k.step = "readback"
          /\ UNCHANGED <<up, byID, byName, rows, minted, intent>>
      BY <1>6 DEF AddReadBackOther, d
    <2>3. rows[n] \in Row
      BY <1>6, CallLocals DEF AddReadBackOther
    <2>4. d \in Call
      BY <1>1, <2>3 DEF Call, Row, d
    <2>5. d # Idle
      BY <2>4, NullAssumption
    <2>6. CallTrue(t)'
      BY <1>1, <2>1, <2>2 DEF CallTrue, Adding, InService
    <2>7. NameTrue(n)'
      BY <1>1, <2>1, <2>2, <2>5 DEF NameTrue, Adding
    <2>8. QED BY <1>1, <2>1, <2>2, <2>6, <2>7, ConfinedLocal
  <1>7. CASE AddUpsert(t)
    <2> DEFINE d == [k EXCEPT !.step = "readback"]
               r == Upserted(n, k.id, TRUE, "admin")
    <2>1. d.step = "readback" /\ d.name = n /\ d.id = k.id /\ d \in Call
      BY <1>1 DEF Call
    <2>2. r \in Row /\ r.enabled /\ r.source = "admin"
      BY <1>1, <1>7 DEF Upserted, Row, AddUpsert
    <2> HIDE DEF d, r
    <2>3. /\ call'[t] = d /\ rows' = [rows EXCEPT ![n] = r]
          /\ k.step = "upsert"
          /\ UNCHANGED <<up, byID, byName, minted, intent>>
      BY <1>7 DEF AddUpsert, d, r
    <2>4. InService(n)'
      BY <1>1, <2>2, <2>3, NullAssumption DEF InService
    <2>5. d # Idle
      BY <2>1, NullAssumption
    <2>6. CallTrue(t)'
      BY <1>1, <2>1, <2>3, <2>4 DEF CallTrue, Adding
    <2>7. NameTrue(n)'
      BY <1>1, <2>1, <2>3, <2>5 DEF NameTrue, Adding
    <2>8. ASSUME NEW i \in Ids, byID'[i] # Absent, minted'[i] = n
          PROVE  byName'[n] = i
      BY <2>3, <2>8, RegisteredName DEF AllIndexed
    <2>9. QED BY <1>1, <2>1, <2>3, <2>6, <2>7, <2>8, Confined
  <1>8. CASE AddReconcile(t)
    <2>1. /\ k.step = "reconcile" /\ call'[t] = Idle
          /\ k.other \in Ids /\ minted[k.other] = n /\ minted[k.id] = n
          /\ rows[n] # Absent /\ rows[n].id = k.other
      BY <1>1, <1>8, CallLocals DEF AddReconcile, RekeysToRow
    <2>2. /\ Intend(n, "added") /\ UNCHANGED <<up, rows, minted>>
          /\ byName' = [byName EXCEPT ![n] = k.other]
          /\ byID' = [byID EXCEPT ![k.id] = Absent,
                                  ![k.other] = [name |-> n, enabled |-> TRUE]]
      BY <1>8 DEF AddReconcile, Rekeyed
    <2>3. /\ intent'[n] \in {"added", "broken"}
          /\ \A m \in Names \ {n} : intent'[m] = intent[m]
      BY <1>1, <2>2, IntendOne
    <2>4. /\ byName'[n] = k.other
          /\ byID'[k.other].enabled
          /\ k.id # k.other => byID'[k.id] = Absent
          /\ \A i \in Ids \ {k.id, k.other} : byID'[i] = byID[i]
      BY <1>1, <2>1, <2>2
    <2>5. InService(n)'
      BY <1>1, <2>1, <2>2 DEF CallTrue, InService
    <2>6. ASSUME NEW i \in Ids, byID'[i] # Absent, minted'[i] = n
          PROVE  byName'[n] = i
      <3>1. CASE i = k.id \/ i = k.other
        BY <2>4, <2>6, <3>1
      <3>2. CASE i \notin {k.id, k.other}
        <4>1. byID[i] # Absent /\ byID[i].name = n
          BY <2>2, <2>4, <2>6, <3>2, RegisteredName
        <4>2. QED BY <1>1, <2>1, <3>2, <4>1 DEF AllIndexed
      <3>3. QED BY <3>1, <3>2
    <2>7. k.other # NoId
      BY <2>1, RegistryAssumption
    <2>8. NameTrue(n)'
      BY <2>1, <2>2, <2>3, <2>4, <2>5, <2>7 DEF NameTrue
    <2>9. CallTrue(t)'
      BY <2>1 DEF CallTrue
    <2>10. \A m \in Names \ {n} : rows'[m] = rows[m]
      BY <2>2
    <2>11. \A i \in Ids : byID'[i] = byID[i] \/ minted'[i] = n
      BY <2>1, <2>2, <2>4
    <2>12. \A m \in Names \ {n} : byName'[m] = byName[m] /\ intent'[m] = intent[m]
      BY <1>1, <2>2, <2>3
    <2>13. QED
      BY <1>1, <2>1, <2>2, <2>6, <2>8, <2>9, <2>10, <2>11, <2>12, Confined
  <1>9. CASE RemoveDisable(t)
    <2> DEFINE d == [k EXCEPT !.step = "delete"]
    <2>1. d.step = "delete" /\ d.name = n /\ d.id = k.id
      BY <1>1 DEF Call
    <2> HIDE DEF d
    <2>2. /\ call'[t] = d /\ rows' = Disabled(k) /\ k.step = "disable"
          /\ UNCHANGED <<up, byID, byName, minted, intent>>
      BY <1>9 DEF RemoveDisable, d
    <2>3. ASSUME NEW m \in Names \ {n} PROVE rows'[m] = rows[m]
      <3>1. rows[m] # Absent => rows[m].id # k.id
        BY <1>1, <2>2, <2>3, CallLocals DEF IdsKeepNames
      <3>2. QED BY <2>2, <3>1 DEF Disabled
    <2>4. intent[n] # "broken" => rows[n] # Absent /\ rows[n].id = k.id
      BY <1>1, <2>2 DEF NameTrue, Adding
    <2>5. rows[n] # Absent => rows[n] \in Row
      BY <1>1
    <2>6. rows[n] # Absent =>
            /\ rows[n] \in Row
            /\ [rows[n] EXCEPT !.enabled = FALSE].enabled = FALSE
            /\ [rows[n] EXCEPT !.enabled = FALSE].id = rows[n].id
            /\ [rows[n] EXCEPT !.enabled = FALSE] \in Row
      BY <2>5, DisabledRow
    <2>7. intent[n] # "broken" =>
            /\ OutOfService(n)'
            /\ rows'[n] # Absent /\ rows'[n].id = k.id
      BY <1>1, <2>2, <2>4, <2>6, NullAssumption DEF Disabled, OutOfService
    <2>8. CallTrue(t)'
      BY <1>1, <2>1, <2>2, <2>7 DEF CallTrue, Adding
    <2>9. NameTrue(n)'
      BY <1>1, <2>2, <2>7 DEF NameTrue
    <2>10. ASSUME NEW i \in Ids, byID'[i] # Absent, minted'[i] = n
          PROVE  byName'[n] = i
      BY <2>2, <2>10, RegisteredName DEF AllIndexed
    <2>11. QED BY <1>1, <2>1, <2>2, <2>3, <2>8, <2>9, <2>10, Confined
  <1>10. CASE RemoveDelete(t)
    <2> DEFINE d == [k EXCEPT !.step = "lock"]
    <2>1. d.step = "lock" /\ d.name = n
      BY <1>1 DEF Call
    <2> HIDE DEF d
    <2>2. /\ byID' = [byID EXCEPT ![k.id] = Absent]
          /\ byName' = [byName EXCEPT ![n] = NoId]
          /\ k.step = "delete"
          /\ UNCHANGED <<up, rows, minted>>
          /\ \/ k.upserting /\ call'[t] = d /\ Intend(n, "open")
             \/ call'[t] = Idle /\ Intend(n, "removed")
      BY <1>10 DEF RemoveDelete, d
    <2>3. /\ intent'[n] \in {"open", "removed", "broken"}
          /\ call'[t] # Idle => call'[t] = d /\ intent'[n] # "removed"
          /\ intent'[n] # "broken" => intent[n] # "broken"
          /\ \A m \in Names \ {n} : intent'[m] = intent[m]
      BY <1>1, <2>2, IntendOne
    <2>4. /\ byName'[n] = NoId /\ byID'[k.id] = Absent
          /\ \A i \in Ids \ {k.id} : byID'[i] = byID[i]
          /\ minted[k.id] = n
      BY <1>1, <2>2, CallLocals
    <2>5. ASSUME NEW i \in Ids, byID'[i] # Absent, minted'[i] = n
          PROVE  byName'[n] = i
      <3>1. i # k.id /\ byID[i] # Absent /\ byID[i].name = n
        BY <2>2, <2>4, <2>5, RegisteredName
      <3>2. QED BY <1>1, <2>2, <3>1 DEF AllIndexed
    <2>6. CallTrue(t)'
      BY <2>1, <2>3 DEF CallTrue, Adding
    <2>7. NameTrue(n)'
      BY <1>1, <2>2, <2>3, <2>4 DEF NameTrue, CallTrue, OutOfService
    <2>8. QED
      BY <1>1, <2>1, <2>2, <2>3, <2>4, <2>5, <2>6, <2>7, Confined
  <1>11. QED
    BY <1>2, <1>3, <1>4, <1>5, <1>6, <1>7, <1>8, <1>9, <1>10 DEF Continue

(* What bootstrap registers is what it has written.                        *)
LEMMA BootEntries ==
  ASSUME RegistryInv, RegistryInv', NEW declared \in SUBSET Names,
         NEW enabled \in SUBSET declared,
         NEW fresh \in FreshIds(New(declared)),
         BootWith(declared, enabled, fresh)
  PROVE  /\ AllIndexed'
         /\ \A n \in Names : byName'[n] # NoId =>
              /\ rows'[n] # Absent /\ rows'[n].id = byName'[n]
              /\ byID'[byName'[n]].enabled = rows'[n].enabled
  <1>1. AllIndexed'
    <2> SUFFICES ASSUME NEW id \in Ids, byID'[id] # Absent
                 PROVE  byName'[byID'[id].name] = id
      BY DEF AllIndexed
    <2>1. PICK n \in Names : byName'[n] = id
      BY DEF BootWith
    <2>2. byID'[id].name = n
      BY <2>1, RegistryAssumption DEF RegistryInv, IndexSound
    <2>3. QED BY <2>1, <2>2
  <1>2. ASSUME NEW n \in Names, byName'[n] # NoId
        PROVE  /\ rows'[n] # Absent /\ rows'[n].id = byName'[n]
               /\ byID'[byName'[n]].enabled = rows'[n].enabled
    <2>1. Loaded(n, declared) /\ rows'[n].id = byName'[n]
      BY <1>2 DEF BootWith
    <2>2. rows'[n] # Absent
      BY <2>1, BootRows DEF BootWith, Loaded
    <2>3. byName'[n] \in Ids
      BY <1>2 DEF RegistryInv, TypeOK
    <2>4. \A m \in Names : byName'[m] = byName'[n] => m = n
      BY <1>2 DEF RegistryInv, IndexSound
    <2>5. (CHOOSE m \in Names : byName'[m] = byName'[n]) = n
      BY <2>4
    <2>6. byID'[byName'[n]] = [name |-> n, enabled |-> rows'[n].enabled]
      BY <2>3, <2>5 DEF BootWith
    <2>7. QED BY <2>1, <2>2, <2>6
  <1>3. QED BY <1>1, <1>2

(* Names that the file does not declare are in service again or stay out   *)
(* of it by what their row says.                                           *)
LEMMA Undeclared ==
  ASSUME RegistryInv, NEW n \in Names, NEW declared, n \notin declared,
         NEW enabled, NEW fresh
  PROVE  LET r == BootRow(n, declared, enabled, fresh)
         IN  /\ InService(n) => r = rows[n] /\ Loaded(n, declared)
             /\ OutOfService(n) => r = Absent \/ ~r.enabled
             /\ rows[n] = Absent => ~Loaded(n, declared)
  <1> DEFINE d == [rows[n] EXCEPT !.enabled = FALSE]
  <1>1. rows[n] # Absent => rows[n] \in Row
    BY DEF RegistryInv, TypeOK
  <1>2. rows[n] # Absent => ~d.enabled
    BY <1>1 DEF Row
  <1> HIDE DEF d
  <1>3. BootRow(n, declared, enabled, fresh)
          = IF rows[n] # Absent /\ rows[n].source = "config" THEN d ELSE rows[n]
    BY DEF BootRow, d
  <1>4. QED BY <1>2, <1>3 DEF InService, OutOfService, Loaded

(* Coming up, or failing to, keeps what was promised.                      *)
LEMMA LoneBoot ==
  ASSUME LoneInv, RegistryInv', RekeysToRow', RowsKeepIds,
         Bootstrap \/ BootstrapFails
  PROVE  LoneInv'
  <1> USE DEF LoneInv
  <1>1. CASE Bootstrap
    <2>1. PICK declared \in SUBSET Names :
          \E enabled \in SUBSET declared, fresh \in FreshIds(New(declared)) :
            BootWith(declared, enabled, fresh)
      BY <1>1 DEF Bootstrap
    <2>2. PICK enabled \in SUBSET declared, fresh \in FreshIds(New(declared)) :
            BootWith(declared, enabled, fresh)
      BY <2>1
    <2>3. /\ AllIndexed'
          /\ \A n \in Names : byName'[n] # NoId =>
               /\ rows'[n] # Absent /\ rows'[n].id = byName'[n]
               /\ byID'[byName'[n]].enabled = rows'[n].enabled
      BY <2>2, BootEntries
    <2>4. \A t \in Threads : call'[t] = Idle
      BY <2>2 DEF BootWith
    <2>5. ASSUME NEW n \in Names PROVE NameTrue(n)'
      <3> DEFINE r == BootRow(n, declared, enabled, fresh)
      <3>1. /\ rows'[n] = r
            /\ byName'[n] = IF Loaded(n, declared) THEN rows'[n].id ELSE NoId
            /\ intent'[n] = IF n \in declared \/ intent[n] = "broken"
                            THEN "open" ELSE intent[n]
        BY <2>2 DEF BootWith
      <3> HIDE DEF r
      <3>2. ASSUME intent'[n] = "removed"
            PROVE  /\ OutOfService(n)'
                   /\ byName'[n] # NoId => ~byID'[byName'[n]].enabled
        <4>1. n \notin declared /\ OutOfService(n)
          BY <3>1, <3>2 DEF NameTrue
        <4>2. OutOfService(n)'
          BY <3>1, <4>1, Undeclared DEF OutOfService, r
        <4>3. QED BY <2>3, <4>2 DEF OutOfService
      <3>3. ASSUME intent'[n] = "added"
            PROVE  /\ InService(n)'
                   /\ byName'[n] # NoId /\ byID'[byName'[n]].enabled
        <4>1. n \notin declared /\ InService(n)
          BY <3>1, <3>3 DEF NameTrue
        <4>2. rows'[n] = rows[n] /\ Loaded(n, declared)
          BY <3>1, <4>1, Undeclared DEF r
        <4>3. InService(n)'
          BY <4>1, <4>2 DEF InService
        <4>4. byName'[n] = rows[n].id /\ rows[n] \in Row
          BY <3>1, <4>1, <4>2 DEF InService, RegistryInv, TypeOK
        <4>5. byName'[n] # NoId
          BY <4>4, RegistryAssumption DEF Row
        <4>6. QED BY <2>3, <4>3, <4>5 DEF InService
      <3>4. QED BY <2>3, <3>2, <3>3 DEF NameTrue
    <2>6. up'
      BY <2>2 DEF BootWith
    <2>7. QED BY <2>3, <2>4, <2>5, <2>6 DEF CallTrue
  <1>2. CASE BootstrapFails
    <2>1. PICK declared \in SUBSET Names, written \in SUBSET Names :
          \E enabled \in SUBSET declared, fresh \in FreshIds(New(declared)) :
            BootUpTo(written, declared, enabled, fresh)
      BY <1>2 DEF BootstrapFails
    <2>2. PICK enabled \in SUBSET declared, fresh \in FreshIds(New(declared)) :
            BootUpTo(written, declared, enabled, fresh)
      BY <2>1
    <2>3. /\ UNCHANGED <<up, byID, byName, call>>
          /\ ~up
      BY <2>2 DEF BootUpTo
    <2>4. ASSUME NEW n \in Names PROVE NameTrue(n)'
      <3> DEFINE r == BootRow(n, declared, enabled, fresh)
      <3>1. /\ rows'[n] = IF n \in written THEN r ELSE rows[n]
            /\ intent'[n] = IF n \in declared /\ intent[n] # "broken"
                            THEN "open" ELSE intent[n]
        BY <2>2 DEF BootUpTo
      <3> HIDE DEF r
      <3>2. ASSUME intent'[n] = "removed"
            PROVE  /\ OutOfService(n)'
                   /\ byName'[n] # NoId => ~byID'[byName'[n]].enabled
        <4>1. n \notin declared /\ NameTrue(n) /\ intent[n] = "removed"
          BY <3>1, <3>2
        <4>2. OutOfService(n)'
          BY <3>1, <4>1, Undeclared DEF OutOfService, NameTrue, r
        <4>3. QED BY <2>3, <4>1, <4>2 DEF NameTrue
      <3>3. ASSUME intent'[n] = "added" PROVE InService(n)'
        <4>1. n \notin declared /\ InService(n)
          BY <3>1, <3>3 DEF NameTrue
        <4>2. rows'[n] = rows[n]
          BY <3>1, <4>1, Undeclared DEF r
        <4>3. QED BY <4>1, <4>2 DEF InService
      <3>4. ASSUME intent'[n] # "broken", byName'[n] # NoId
            PROVE  rows'[n] # Absent /\ rows'[n].id = byName'[n]
        <4>1. intent[n] # "broken" /\ NameTrue(n)
          BY <3>1, <3>4
        <4>2. rows[n] # Absent /\ rows[n].id = byName[n]
          BY <2>3, <3>4, <4>1 DEF NameTrue, Adding
        <4>3. QED BY <2>3, <4>2 DEF RowsKeepIds
      <3>5. QED BY <2>3, <3>2, <3>3, <3>4 DEF NameTrue
    <2>5. QED BY <2>3, <2>4 DEF AllIndexed, CallTrue
  <1>3. QED BY <1>1, <1>2

LEMMA LoneInvNext ==
  ASSUME OneAtATime, LoneInv, [Next]_vars
  PROVE  LoneInv'
  <1>1. RegistryInv' /\ RowsKeepIds /\ RekeysToRow'
    BY RegistryInvNext, RowsKeepTheirIds, RekeysToRowKept DEF LoneInv
  <1>2. ASSUME NEW t \in Threads, Begin(t) \/ Continue(t) PROVE LoneInv'
    BY <1>1, <1>2, LoneBegin, LoneContinue
  <1>3. CASE Bootstrap \/ BootstrapFails
    BY <1>1, <1>3, LoneBoot
  <1>4. CASE Crash
    <2>1. ASSUME NEW n \in Names PROVE NameTrue(n)'
      <3>1. ~up' /\ byName'[n] = NoId /\ UNCHANGED <<rows, intent>>
        BY <1>4 DEF Crash
      <3>2. QED BY <3>1 DEF LoneInv, NameTrue, OutOfService, InService
    <2>2. /\ \A t \in Threads : call'[t] = Idle
          /\ \A id \in Ids : byID'[id] = Absent
      BY <1>4 DEF Crash
    <2>3. QED BY <1>1, <2>1, <2>2 DEF LoneInv, AllIndexed, CallTrue
  <1>5. CASE UNCHANGED vars
    <2>1. \A n \in Names : NameTrue(n)'
      BY <1>5 DEF vars, LoneInv, NameTrue, OutOfService, InService, Adding
    <2>2. \A t \in Threads : CallTrue(t)'
      BY <1>5 DEF vars, LoneInv, CallTrue, OutOfService, InService, Adding
    <2>3. QED BY <1>1, <1>5, <2>1, <2>2 DEF vars, LoneInv, AllIndexed
  <1>6. QED BY <1>2, <1>3, <1>4, <1>5 DEF Next

LEMMA LoneInvariant ==
  ASSUME OneAtATime
  PROVE  Spec => []LoneInv
  <1>1. Init => LoneInv
    BY RegistryInvInit
    DEF Init, LoneInv, RekeysToRow, At, AllIndexed, CallTrue, NameTrue
  <1>2. LoneInv /\ [Next]_vars => LoneInv'
    BY LoneInvNext
  <1>3. QED BY <1>1, <1>2, PTL DEF Spec

(* No two registered upstreams share a name, as long as admin requests     *)
(* come one at a time, whatever crashes and database errors do to them.    *)
THEOREM NamesAreUnique ==
  ASSUME OneAtATime
  PROVE  Spec => []NamesUnique
  <1>1. LoneInv => NamesUnique
    BY DEF LoneInv, AllIndexed, NamesUnique
  <1>2. QED BY <1>1, LoneInvariant, PTL

(* What an admin was told stays true through any number of restarts,       *)
(* failed start-ups and failed requests for other names, as long as        *)
(* requests come one at a time: a removed upstream does not resurface and  *)
(* an added one is not forgotten.                                          *)
THEOREM AdminIntentIsKept ==
  ASSUME OneAtATime
  PROVE  Spec => []AdminIntentKept
  <1>1. LoneInv => AdminIntentKept
    <2> SUFFICES ASSUME LoneInv, up, NEW n \in Names
                 PROVE  /\ intent[n] = "removed" =>
                             \A id \in Ids :
                               byID[id] # Absent /\ byID[id].name = n
                                 => ~byID[id].enabled
                        /\ intent[n] = "added" =>
                             byName[n] # NoId /\ byID[byName[n]].enabled
      BY DEF AdminIntentKept
    <2>1. NameTrue(n)
      BY DEF LoneInv
    <2>2. ASSUME NEW id \in Ids, byID[id] # Absent, byID[id].name = n
          PROVE  byName[n] = id /\ id # NoId
      BY <2>2, RegistryAssumption DEF LoneInv, AllIndexed
    <2>3. QED BY <2>1, <2>2 DEF NameTrue
  <1>2. QED BY <1>1, LoneInvariant, PTL

=============================================================================
