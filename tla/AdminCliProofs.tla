--------------------------- MODULE AdminCliProofs ---------------------------
(* Proofs about AdminCli: whatever the commands do between two requests,   *)
(* the hub they talk to stays the registry of module Registry, and what is *)
(* proved of that holds under them, for any number of names, ids and       *)
(* threads.                                                                *)
(*                                                                         *)
(* What a command learns from one answer it uses in a later request, when  *)
(* it may be stale.  CommandOK says what of it is still true then: whose   *)
(* id it has, which row that upstream has, and whose request the hub is    *)
(* working on.  From that follow EditKeepsId, for any number of admins,    *)
(* and, with what has become of the index meanwhile (SteadyOK),            *)
(* CommandsActAsOne.                                                       *)
(***************************************************************************)
EXTENDS AdminCli, RegistryProofs

(* What a command knows by the time it makes a request: whom to delete and *)
(* what to call the new upstream.                                          *)
CliLocals ==
  AtWork =>
    /\ cli.step = "post" => cli.new \in Names
    /\ cli.step = "delete id" =>
         /\ cli.id \in Ids
         /\ cli.name \in Names
         /\ cli.cmd = "edit" => cli.new \in Names

(* The inductive invariant.                                                *)
CliInv == RegistryInv /\ CliTypeOK /\ CliLocals

-----------------------------------------------------------------------------

LEMMA CliInvInit == CliInit => CliInv
<1>1. CliInit => RegistryInv
  BY RegistryInvInit DEF CliInit
<1> QED
  BY <1>1 DEF CliInit, CliInv, CliTypeOK, CliLocals, AtWork, RegistryInv

(* The hub's side of every step is a step of Registry, or none.            *)
LEMMA RegistryStep ==
  ASSUME CliInv, [CliNext]_cliVars
  PROVE  [Next]_vars
<1>1. CASE RunAdd \/ RunRemove \/ PickToRemove \/ RunEdit \/ PickToEdit \/ GiveUp
  BY <1>1 DEF RunAdd, RunRemove, PickToRemove, RunEdit, PickToEdit, GiveUp,
              Start, Fails
<1>2. CASE DeleteArgument
  BY <1>2 DEF DeleteArgument, Next, Begin
<1>3. CASE ListUpstreams
  BY <1>3 DEF ListUpstreams, Fails
<1>4. CASE DeleteById
  BY <1>4 DEF DeleteById, Fails, Ready, CliInv, CliLocals, Next, Begin
<1>5. CASE PostNew
  BY <1>5 DEF PostNew, Fails, Ready, CliInv, CliLocals, Next, Begin
<1>6. ASSUME NEW t \in Threads, HubWorks(t) \/ HubRefuses(t) \/ OthersAsk(t)
      PROVE  Next
  BY <1>6 DEF HubWorks, HubRefuses, OthersAsk, Next, Continue
<1>7. CASE HubStops \/ HubComesUp
  BY <1>7 DEF HubStops, HubComesUp, Next
<1>8. CASE UNCHANGED cliVars
  BY <1>8 DEF cliVars
<1> QED
  BY <1>1, <1>2, <1>3, <1>4, <1>5, <1>6, <1>7, <1>8 DEF CliNext, CliSteps

(* A command that starts.                                                  *)
LEMMA StartLocals ==
  ASSUME CliInv, NEW c \in {"add", "remove", "edit"},
         NEW step \in {"list", "delete", "delete id", "post"},
         NEW arg \in Names \cup Ids, NEW name \in Names \cup {Absent},
         NEW id \in Ids \cup {NoId}, NEW new \in Names \cup {Absent},
         Start(c, step, arg, name, id, new),
         step = "post" => new \in Names,
         step = "delete id" =>
           id \in Ids /\ name \in Names /\ (c = "edit" => new \in Names)
  PROVE  cli' \in Command /\ CliLocals'
<1>1. byName \in [Names -> Ids \cup {NoId}]
  BY DEF CliInv, RegistryInv, TypeOK
<1>2. cli' \in Command
  BY <1>1 DEF Start, Command
<1>3. /\ cli'.step = step /\ cli'.new = new /\ cli'.id = id
      /\ cli'.name = name /\ cli'.cmd = c
  BY DEF Start
<1> QED
  BY <1>2, <1>3 DEF CliLocals

(* A command that asks the hub, or gives up.                               *)
LEMMA AskLocals ==
  ASSUME CliInv, DeleteArgument \/ ListUpstreams \/ DeleteById \/ PostNew
  PROVE  cli' = Idle \/ (cli' \in Command /\ CliLocals')
<1> USE DEF CliInv
<1>1. /\ AtWork => cli \in Command
      /\ \A id \in Ids : Registered(id) => byID[id].name \in Names
  BY DEF CliTypeOK, AtWork, RegistryInv, TypeOK, Registered, Entry
<1>2. CASE DeleteArgument
  <2>1. AtWork /\ cli \in Command /\ cli.step = "delete"
    BY <1>1, <1>2 DEF DeleteArgument, Ready
  <2>2. CASE cli' = [cli EXCEPT !.step = "list"]
    <3>1. cli' \in Command /\ cli'.step = "list"
      BY <2>1, <2>2 DEF Command
    <3> QED
      BY <3>1 DEF CliLocals
  <2>3. CASE \E t \in Threads :
               /\ cli.arg \in Ids
               /\ RemoveLookup(t, cli.arg)
               /\ cli' = [cli EXCEPT !.on = t, !.id = cli.arg,
                                     !.name = byID[cli.arg].name]
    <3>1. cli.arg \in Ids /\ byID[cli.arg].name \in Names
      BY <1>1, <2>3 DEF RemoveLookup, Registered
    <3>2. cli' \in Command /\ cli'.step = "delete"
      BY <2>1, <2>3, <3>1 DEF Command
    <3> QED
      BY <3>2 DEF CliLocals
  <2> QED
    BY <1>2, <2>2, <2>3 DEF DeleteArgument
<1>3. CASE ListUpstreams
  <2>1. AtWork /\ cli \in Command
    BY <1>1, <1>3 DEF ListUpstreams, Ready
  <2>2. CASE Fails
    BY <2>2 DEF Fails
  <2>3. ASSUME NEW id \in Ids, NEW new \in Names \cup {Absent},
               Matches(id), (new = Absent) <=> (cli.cmd = "remove"),
               cli' = [cli EXCEPT !.step = "delete id", !.id = id,
                                  !.name = byID[id].name, !.new = new]
        PROVE  cli' \in Command /\ CliLocals'
    <3>1. byID[id].name \in Names
      BY <1>1, <2>3 DEF Matches, NameMatches
    <3>2. /\ cli' \in Command /\ cli'.id = id /\ cli'.name = byID[id].name
          /\ cli'.new = new /\ cli'.cmd = cli.cmd /\ cli'.step = "delete id"
      BY <2>1, <2>3, <3>1 DEF Command
    <3>3. cli'.cmd = "edit" => cli'.new \in Names
      BY <2>3, <3>2
    <3> QED
      BY <3>1, <3>2, <3>3 DEF CliLocals
  <2> QED
    BY <1>3, <2>2, <2>3 DEF ListUpstreams
<1>4. CASE DeleteById
  <2>1. AtWork /\ cli \in Command
    BY <1>1, <1>4 DEF DeleteById, Ready
  <2>2. CASE Fails
    BY <2>2 DEF Fails
  <2>3. CASE \E t \in Threads :
               cli' = [cli EXCEPT !.on = t,
                                  !.saved = /\ rows[cli.name] # Absent
                                            /\ rows[cli.name].id = cli.id]
    <3>1. /\ cli' \in Command /\ cli'.id = cli.id /\ cli'.name = cli.name
          /\ cli'.new = cli.new /\ cli'.cmd = cli.cmd /\ cli'.step = cli.step
      BY <2>1, <2>3 DEF Command
    <3> QED
      BY <2>1, <3>1 DEF CliLocals
  <2> QED
    BY <1>4, <2>2, <2>3 DEF DeleteById
<1>5. CASE PostNew
  <2>1. AtWork /\ cli \in Command
    BY <1>1, <1>5 DEF PostNew, Ready
  <2>2. CASE Fails
    BY <2>2 DEF Fails
  <2>3. CASE \E t \in Threads : Sent(t)
    <3>1. /\ cli' \in Command /\ cli'.id = cli.id /\ cli'.name = cli.name
          /\ cli'.new = cli.new /\ cli'.cmd = cli.cmd /\ cli'.step = cli.step
      BY <2>1, <2>3 DEF Sent, Command
    <3> QED
      BY <2>1, <3>1 DEF CliLocals
  <2> QED
    BY <1>5, <2>2, <2>3 DEF PostNew
<1> QED
  BY <1>2, <1>3, <1>4, <1>5

LEMMA CliLocalsNext ==
  ASSUME CliInv, [CliNext]_cliVars
  PROVE  cli' \in Command \cup {Idle, Done} /\ CliLocals'
<1> USE DEF CliInv
<1>1. /\ cli \in Command \cup {Idle, Done}
      /\ AtWork => cli \in Command /\ cli # Idle /\ cli # Done
      /\ byID \in [Ids -> Entry \cup {Absent}]
      /\ \A id \in Ids : Registered(id) => byID[id].name \in Names
      /\ ~(Idle \in Command) /\ ~(Done \in Command)
  BY DoneAssumption
     DEF CliTypeOK, AtWork, RegistryInv, TypeOK, Registered, Entry
<1>2. CASE cli' = Idle \/ cli' = Done
  BY <1>2 DEF CliLocals, AtWork
<1>3. CASE cli' = cli
  BY <1>1, <1>3 DEF CliLocals, AtWork
<1>4. CASE RunAdd \/ RunRemove \/ PickToRemove \/ RunEdit \/ PickToEdit
  <2>1. CASE RunAdd
    BY <2>1, StartLocals DEF RunAdd
  <2>2. CASE RunRemove
    BY <2>2, StartLocals DEF RunRemove
  <2>3. CASE PickToRemove
    BY <1>1, <2>3, StartLocals DEF PickToRemove
  <2>4. CASE RunEdit
    BY <2>4, StartLocals DEF RunEdit
  <2>5. CASE PickToEdit
    BY <1>1, <2>5, StartLocals DEF PickToEdit
  <2> QED
    BY <1>4, <2>1, <2>2, <2>3, <2>4, <2>5
<1>5. CASE DeleteArgument \/ ListUpstreams \/ DeleteById \/ PostNew
  BY <1>2, <1>5, AskLocals
<1>6. CASE GiveUp
  BY <1>2, <1>6 DEF GiveUp, Fails
<1>7. ASSUME NEW t \in Threads, HubWorks(t)
       PROVE  cli' \in Command \cup {Idle, Done} /\ CliLocals'
  <2>1. CASE Waits(t) /\ cli' = Resumed
    <3>1. AtWork /\ cli \in Command
      BY <1>1, <2>1 DEF Waits
    <3>2. CASE cli.cmd = "edit" /\ cli.step = "delete id"
      <4>1. cli' \in Command /\ cli'.step = "post" /\ cli'.new = cli.new
        BY <2>1, <3>1, <3>2 DEF Resumed, Command
      <4>2. cli.new \in Names
        BY <3>1, <3>2 DEF CliLocals
      <4> QED
        BY <4>1, <4>2 DEF CliLocals
    <3>3. CASE ~(cli.cmd = "edit" /\ cli.step = "delete id")
      BY <1>2, <2>1, <3>3 DEF Resumed
    <3> QED
      BY <3>2, <3>3
  <2> QED
    BY <1>3, <1>7, <2>1 DEF HubWorks
<1>8. ASSUME NEW t \in Threads, HubRefuses(t)
       PROVE  cli' = Idle \/ cli' = cli
  BY <1>8 DEF HubRefuses
<1>9. CASE Disturbed
  <2>1. CASE AtWork
    <3> DEFINE none == [n \in Names |-> NoId]
    <3>1. none \in [Names -> Ids \cup {NoId}]
      OBVIOUS
    <3>2. cli' = [cli EXCEPT !.steady = FALSE, !.before = none]
      BY <1>9, <2>1 DEF Disturbed
    <3> HIDE DEF none
    <3>3. /\ cli' \in Command /\ cli'.id = cli.id /\ cli'.name = cli.name
          /\ cli'.new = cli.new /\ cli'.cmd = cli.cmd /\ cli'.step = cli.step
      BY <1>1, <2>1, <3>1, <3>2 DEF Command
    <3> QED
      BY <2>1, <3>3 DEF CliLocals
  <2>2. CASE ~AtWork
    BY <1>3, <1>9, <2>2 DEF Disturbed
  <2> QED
    BY <2>1, <2>2
<1>10. CASE HubStops \/ HubComesUp
  BY <1>2, <1>9, <1>10 DEF HubStops, HubComesUp
<1> QED
  BY <1>2, <1>3, <1>4, <1>5, <1>6, <1>7, <1>8, <1>9, <1>10
  DEF CliNext, CliSteps, cliVars, OthersAsk

LEMMA CliInvNext == CliInv /\ [CliNext]_cliVars => CliInv'
<1> SUFFICES ASSUME CliInv, [CliNext]_cliVars PROVE CliInv'
  OBVIOUS
<1>1. RegistryInv'
  BY RegistryStep, RegistryInvNext DEF CliInv
<1> QED
  BY <1>1, CliLocalsNext DEF CliInv, CliTypeOK, RegistryInv

(* The invariant holds of every behaviour.                                 *)
LEMMA CliInvariant == CliSpec => []CliInv
BY CliInvInit, CliInvNext, PTL DEF CliSpec

(* The commands' locals and the registry keep their types.                 *)
THEOREM CliTypeCorrect == CliSpec => []CliTypeOK
<1>1. CliInv => CliTypeOK
  BY DEF CliInv
<1> QED
  BY <1>1, CliInvariant, PTL

(* A hub that the commands talk to does nothing but what the registry does *)
(* for any other admin: what is proved of Registry holds under them.       *)
THEOREM CommandsUseTheRegistry == CliSpec => Spec
<1>1. CliInv /\ [CliNext]_cliVars => [Next]_vars
  BY RegistryStep
<1>2. CliInit => Init
  BY DEF CliInit
<1> QED
  BY <1>1, <1>2, CliInvariant, PTL DEF CliSpec, Spec

(* In particular no sequence of commands makes the name index unsound or   *)
(* gives an id to another name.                                            *)
THEOREM CommandsKeepTheIndex == CliSpec => [](IndexSound /\ IdsKeepNames)
BY CommandsUseTheRegistry, NameIndexIsSound, IdsNeverChangeNames, PTL

(* Nor do commands break a promise, on a hub that is asked one thing at a  *)
(* time: names stay unique, and what was removed or added stays so,        *)
(* wherever a command, the hub or its database gives up.                   *)
THEOREM CommandsKeepPromises ==
  ASSUME OneAtATime
  PROVE  CliSpec => [](NamesUnique /\ AdminIntentKept)
BY CommandsUseTheRegistry, NamesAreUnique, AdminIntentIsKept, PTL

-----------------------------------------------------------------------------
(* What a command and the hub have in common while it runs.                *)

(* From when on a command knows which upstream to delete.                  *)
Knows ==
  \/ cli.step \in {"delete id", "post"} /\ cli.cmd # "add"
  \/ cli.step = "delete" /\ cli.on # NoThread

(* The request that the hub is working on is the command's: the removal of *)
(* the upstream it knows, or the addition of one with an id of its own.    *)
OwnRequest ==
  LET k == call[cli.on] IN
  /\ k # Idle
  /\ cli.step # "list"
  /\ cli.step = "post" =>
       /\ k.step \in {"upsert", "readback", "reconcile"}
       /\ k.name = cli.new
       /\ cli.cmd = "edit" => k.id # cli.id
  /\ cli.step # "post" =>
       /\ k.step \in {"disable", "delete"}
       /\ k.name = cli.name
       /\ k.id = cli.id
       /\ k.upserting = FALSE

CommandOK ==
  AtWork =>
    /\ cli.cmd = "add" => cli.step = "post"
    /\ cli.cmd = "edit" => cli.step # "delete"
    /\ cli.cmd = "remove" => cli.step # "post"
    /\ Knows => cli.name \in Names /\ cli.id \in Ids /\ minted[cli.id] = cli.name
    /\ cli.saved => /\ Knows
                    /\ rows[cli.name] # Absent
                    /\ rows[cli.name].id = cli.id
    /\ cli.on # NoThread => OwnRequest

(* What the two agree on outlasts what others do, and the request moving   *)
(* on, because ids keep their names and rows their ids.                    *)
LEMMA CommonKept ==
  ASSUME CliInv, CommandOK, [Next]_vars, AtWork, cli' \in Command,
         cli'.cmd = cli.cmd, cli'.step = cli.step, cli'.name = cli.name,
         cli'.id = cli.id, cli'.new = cli.new, cli'.on = cli.on,
         cli'.saved = cli.saved,
         cli.on # NoThread =>
           LET k == call[cli.on]
               l == call'[cli.on]
           IN  \/ l = k
               \/ /\ l # Idle /\ l.name = k.name /\ l.id = k.id
                  /\ l.upserting = k.upserting
                  /\ k.step \in {"disable", "delete"}
                       => l.step \in {"disable", "delete"}
                  /\ k.step \in {"upsert", "readback", "reconcile"}
                       => l.step \in {"upsert", "readback", "reconcile"}
  PROVE  CommandOK'
<1>1. RegistryInv /\ RowsKeepIds
  BY RowsKeepTheirIds DEF CliInv
<1>2. Knows' <=> Knows
  BY DEF Knows
<1>3. ASSUME Knows
      PROVE  /\ cli.name \in Names /\ cli.id \in Ids
             /\ minted'[cli.id] = cli.name
  <2>1. cli.name \in Names /\ cli.id \in Ids /\ minted[cli.id] = cli.name
    BY <1>3 DEF CommandOK
  <2>2. minted[cli.id] # Absent
    BY <2>1, NullAssumption
  <2> QED
    BY <1>1, <2>1, <2>2, MintedStay
<1>4. ASSUME cli.saved
      PROVE  rows'[cli.name] # Absent /\ rows'[cli.name].id = cli.id
  BY <1>1, <1>3, <1>4 DEF CommandOK, RowsKeepIds
<1>5. ASSUME cli.on # NoThread PROVE OwnRequest'
  BY <1>5 DEF CommandOK, OwnRequest
<1> QED
  BY <1>2, <1>3, <1>4, <1>5 DEF CommandOK

(* A removal or an addition that moves on stays what it is.                *)
LEMMA RequestMovesOn ==
  ASSUME CliInv, NEW t \in Threads, HubWorks(t), call'[t] # Idle,
         call[t].step \in {"disable", "delete", "upsert", "readback", "reconcile"},
         call[t].step = "delete" => call[t].upserting = FALSE
  PROVE  LET k == call[t]
             l == call'[t]
         IN  /\ UNCHANGED byName
             /\ l.name = k.name /\ l.id = k.id /\ l.upserting = k.upserting
             /\ k.step \in {"disable", "delete"}
                  => l.step \in {"disable", "delete"}
             /\ k.step \in {"upsert", "readback", "reconcile"}
                  => l.step \in {"upsert", "readback", "reconcile"}
<1> USE DEF CliInv, RegistryInv, TypeOK, Go, At
<1> DEFINE k == call[t]
<1>1. CASE AddUpsert(t)
  <2>1. call'[t] = [k EXCEPT !.step = "readback"] /\ k \in Call /\ UNCHANGED byName
        /\ k.step = "upsert"
    BY <1>1 DEF AddUpsert
  <2> QED
    BY <2>1 DEF Call
<1>2. CASE AddReadBackOther(t)
  <2>1. PICK o : /\ call'[t] = [k EXCEPT !.step = "reconcile", !.other = o]
                 /\ k \in Call /\ k.step = "readback" /\ UNCHANGED byName
    BY <1>2 DEF AddReadBackOther
  <2> QED
    BY <2>1 DEF Call
<1>3. CASE RemoveDisable(t)
  <2>1. call'[t] = [k EXCEPT !.step = "delete"] /\ k \in Call /\ UNCHANGED byName
        /\ k.step = "disable"
    BY <1>3 DEF RemoveDisable
  <2> QED
    BY <2>1 DEF Call
<1>4. call'[t] = Idle \/ AddUpsert(t) \/ AddReadBackOther(t) \/ RemoveDisable(t)
  BY DEF HubWorks, AddReadBack, AddReconcile, UpsertLookup, RemoveDelete
<1> QED
  BY <1>1, <1>2, <1>3, <1>4

(* ... and ends with its last step only.                                   *)
LEMMA RequestEnds ==
  ASSUME CliInv, NEW t \in Threads, HubWorks(t), call'[t] = Idle,
         call[t].step \in {"disable", "delete", "upsert", "readback", "reconcile"}
  PROVE  AddReadBack(t) \/ AddReconcile(t) \/ RemoveDelete(t)
<1> DEFINE k == call[t]
<1> USE DEF CliInv, RegistryInv, TypeOK, Go, At
<1>1. ~AddUpsert(t)
  <2> SUFFICES ASSUME AddUpsert(t) PROVE FALSE
    OBVIOUS
  <2>1. k \in Call /\ call'[t] = [k EXCEPT !.step = "readback"]
    BY DEF AddUpsert
  <2> QED
    BY <2>1, NullAssumption DEF Call
<1>2. ~AddReadBackOther(t)
  <2> SUFFICES ASSUME AddReadBackOther(t) PROVE FALSE
    OBVIOUS
  <2>1. /\ k \in Call /\ rows[k.name] \in Row
        /\ call'[t] = [k EXCEPT !.step = "reconcile", !.other = rows[k.name].id]
    BY CallLocals DEF AddReadBackOther
  <2>2. rows[k.name].id \in Ids
    BY <2>1 DEF Row
  <2>3. [k EXCEPT !.step = "reconcile", !.other = rows[k.name].id] \in Call
    BY <2>1, <2>2 DEF Call
  <2> QED
    BY <2>1, <2>3, NullAssumption
<1>3. ~RemoveDisable(t)
  <2> SUFFICES ASSUME RemoveDisable(t) PROVE FALSE
    OBVIOUS
  <2>1. k \in Call /\ call'[t] = [k EXCEPT !.step = "delete"]
    BY DEF RemoveDisable
  <2> QED
    BY <2>1, NullAssumption DEF Call
<1>4. ~UpsertLookup(t)
  BY DEF UpsertLookup
<1> QED
  BY <1>1, <1>2, <1>3, <1>4 DEF HubWorks

(* A request works for nobody else.                                        *)
LEMMA OthersStay ==
  ASSUME CliInv, NEW t \in Threads, HubWorks(t) \/ HubRefuses(t) \/ OthersAsk(t),
         NEW u \in Threads \ {t}
  PROVE  call'[u] = call[u]
BY DEF CliInv, RegistryInv, TypeOK, Go, HubWorks, HubRefuses, OthersAsk, Begin,
       AddUpsert, AddReadBack, AddReadBackOther, AddReconcile, UpsertLookup,
       RemoveDisable, RemoveDelete, AddDuplicate, StoreFails, AddLock,
       UpsertExisting, UpsertNew, RemoveLookup

(* A command that starts has nothing at the hub yet.                       *)
LEMMA StartOK ==
  ASSUME CliInv, NEW c, NEW step, NEW arg, NEW name, NEW id, NEW new,
         Start(c, step, arg, name, id, new),
         c = "add" => step = "post",
         c = "edit" => step # "delete",
         c = "remove" => step # "post",
         step \in {"delete id", "post"} /\ c # "add" =>
           name \in Names /\ id \in Ids /\ minted[id] = name
  PROVE  CommandOK'
<1>1. /\ cli'.step = step /\ cli'.cmd = c /\ cli'.id = id /\ cli'.name = name
      /\ cli'.on = NoThread /\ cli'.saved = FALSE /\ UNCHANGED minted
  BY DEF Start, vars
<1> QED
  BY <1>1 DEF CommandOK, Knows

LEMMA CommandStarts ==
  ASSUME CliInv,
         RunAdd \/ RunRemove \/ PickToRemove \/ RunEdit \/ PickToEdit
  PROVE  CommandOK'
<1>1. \A id \in Ids : Registered(id) =>
        byID[id].name \in Names /\ minted[id] = byID[id].name
  BY RegisteredName DEF CliInv, Registered
<1>2. CASE RunAdd
  BY <1>2, StartOK DEF RunAdd
<1>3. CASE RunRemove
  BY <1>3, StartOK DEF RunRemove
<1>4. CASE PickToRemove
  BY <1>1, <1>4, StartOK DEF PickToRemove
<1>5. CASE RunEdit
  BY <1>5, StartOK DEF RunEdit
<1>6. CASE PickToEdit
  BY <1>1, <1>6, StartOK DEF PickToEdit
<1> QED
  BY <1>2, <1>3, <1>4, <1>5, <1>6

(* The request by which a command deletes what it knows.                   *)
LEMMA DeletionSent ==
  ASSUME CliInv, NEW t \in Threads, NEW id \in Ids, RemoveLookup(t, id)
  PROVE  /\ call'[t] # Idle /\ call'[t].step = "disable"
         /\ call'[t].name = byID[id].name /\ call'[t].id = id
         /\ call'[t].upserting = FALSE
         /\ byID[id].name \in Names /\ minted[id] = byID[id].name
         /\ UNCHANGED <<byName, rows, minted>>
<1> DEFINE k == [step |-> "disable", name |-> byID[id].name, id |-> id,
                 other |-> NoId, upserting |-> FALSE]
<1>1. byID[id].name \in Names /\ minted[id] = byID[id].name
  BY RegisteredName DEF CliInv, RemoveLookup
<1>2. k \in Call /\ k # Idle
  <2>1. k \in Call
    BY <1>1 DEF Call
  <2> QED
    BY <2>1, NullAssumption
<1>3. call'[t] = k /\ UNCHANGED <<byName, rows, minted>>
  BY DEF RemoveLookup, Go, CliInv, RegistryInv, TypeOK
<1> QED
  BY <1>1, <1>2, <1>3

(* ... and the one by which it adds, under an id never used before.        *)
LEMMA AdditionSent ==
  ASSUME CliInv, NEW t \in Threads, NEW n \in Names, AddLock(t, n)
  PROVE  /\ call'[t] # Idle /\ call'[t].step = "upsert"
         /\ call'[t].name = n
         /\ call'[t].id \in Ids /\ minted[call'[t].id] = Absent
         /\ byName' = [byName EXCEPT ![n] = call'[t].id]
         /\ UNCHANGED rows
         /\ \A i \in Ids : minted[i] # Absent => minted'[i] = minted[i]
<1>1. PICK id \in Ids :
        /\ Unused(id)
        /\ minted' = [minted EXCEPT ![id] = n]
        /\ byName' = [byName EXCEPT ![n] = id]
        /\ Go(t, [step |-> "upsert", name |-> n, id |-> id, other |-> NoId,
                  upserting |-> FALSE])
  BY DEF AddLock
<1> DEFINE k == [step |-> "upsert", name |-> n, id |-> id, other |-> NoId,
                 upserting |-> FALSE]
<1>2. k \in Call /\ k # Idle
  <2>1. k \in Call
    BY DEF Call
  <2> QED
    BY <2>1, NullAssumption
<1>3. call'[t] = k /\ UNCHANGED rows
  BY <1>1 DEF AddLock, Go, CliInv, RegistryInv, TypeOK
<1> QED
  BY <1>1, <1>2, <1>3 DEF Unused, CliInv, RegistryInv, TypeOK

LEMMA CommandAsks ==
  ASSUME CliInv, CommandOK,
         DeleteArgument \/ ListUpstreams \/ DeleteById \/ PostNew,
         cli' # Idle
  PROVE  CommandOK'
<1>1. /\ AtWork /\ cli \in Command /\ cli.on = NoThread
      /\ CommandOK /\ CliLocals
  BY DEF CliInv, CliTypeOK, AtWork, DeleteArgument, ListUpstreams, DeleteById,
         PostNew, Ready
<1>2. ASSUME NEW t \in Threads PROVE t # NoThread
  BY AdminCliAssumption
<1>3. CASE DeleteArgument
  <2>1. cli.step = "delete" /\ cli.cmd = "remove" /\ ~cli.saved
    BY <1>1, <1>3 DEF DeleteArgument, Ready, CommandOK, Knows, Command
  <2>2. CASE cli' = [cli EXCEPT !.step = "list"] /\ UNCHANGED vars
    <3>1. /\ cli'.step = "list" /\ cli'.cmd = "remove" /\ ~cli'.saved
          /\ cli'.on = NoThread
      BY <1>1, <2>1, <2>2 DEF Command
    <3> QED
      BY <3>1 DEF CommandOK, Knows
  <2>3. ASSUME NEW t \in Threads, cli.arg \in Ids, RemoveLookup(t, cli.arg),
               cli' = [cli EXCEPT !.on = t, !.id = cli.arg,
                                  !.name = byID[cli.arg].name]
        PROVE  CommandOK'
    <3>1. /\ cli'.step = "delete" /\ cli'.cmd = "remove" /\ ~cli'.saved
          /\ cli'.on = t /\ cli'.id = cli.arg
          /\ cli'.name = byID[cli.arg].name
      BY <1>1, <2>1, <2>3 DEF Command
    <3>2. /\ call'[t] # Idle /\ call'[t].step = "disable"
          /\ call'[t].name = byID[cli.arg].name /\ call'[t].id = cli.arg
          /\ call'[t].upserting = FALSE
      BY <2>3, DeletionSent
    <3>3. /\ byID[cli.arg].name \in Names
          /\ minted[cli.arg] = byID[cli.arg].name
          /\ UNCHANGED minted
      BY <2>3, DeletionSent
    <3>4. OwnRequest'
      BY <3>1, <3>2 DEF OwnRequest
    <3> QED
      BY <2>3, <3>1, <3>3, <3>4 DEF CommandOK
  <2> QED
    BY <1>3, <2>2, <2>3 DEF DeleteArgument
<1>4. CASE ListUpstreams
  <2>1. cli.step = "list" /\ cli.cmd # "add" /\ ~cli.saved
    BY <1>1, <1>4 DEF ListUpstreams, Ready, CommandOK, Knows
  <2>2. PICK id \in Ids, new \in Names \cup {Absent} :
          /\ Matches(id)
          /\ cli' = [cli EXCEPT !.step = "delete id", !.id = id,
                                !.name = byID[id].name, !.new = new]
          /\ UNCHANGED vars
    BY <1>4 DEF ListUpstreams, Fails
  <2>3. byID[id].name \in Names /\ minted[id] = byID[id].name
    BY <2>2, RegisteredName DEF Matches, NameMatches, Registered, CliInv
  <2>4. /\ cli'.step = "delete id" /\ cli'.cmd = cli.cmd /\ ~cli'.saved
        /\ cli'.on = NoThread /\ cli'.id = id /\ cli'.name = byID[id].name
    BY <1>1, <2>1, <2>2 DEF Command
  <2> QED
    BY <2>1, <2>2, <2>3, <2>4 DEF CommandOK, Knows, vars
<1>5. CASE DeleteById
  <2>1. /\ cli.step = "delete id" /\ cli.cmd # "add"
        /\ cli.id \in Ids /\ cli.name \in Names /\ minted[cli.id] = cli.name
    BY <1>1, <1>5 DEF DeleteById, Ready, CommandOK, Knows
  <2>2. PICK t \in Threads :
          /\ RemoveLookup(t, cli.id)
          /\ cli' = [cli EXCEPT !.on = t,
                                !.saved = /\ rows[cli.name] # Absent
                                          /\ rows[cli.name].id = cli.id]
    BY <1>5 DEF DeleteById, Fails
  <2> DEFINE saved == rows[cli.name] # Absent /\ rows[cli.name].id = cli.id
  <2>3. saved \in BOOLEAN /\ cli' = [cli EXCEPT !.on = t, !.saved = saved]
    BY <2>2
  <2>4. saved => rows[cli.name] # Absent /\ rows[cli.name].id = cli.id
    OBVIOUS
  <2> HIDE DEF saved
  <2>5. /\ cli'.step = "delete id" /\ cli'.cmd = cli.cmd
        /\ cli'.on = t /\ cli'.id = cli.id /\ cli'.name = cli.name
        /\ cli'.saved = saved
    BY <1>1, <2>1, <2>3 DEF Command
  <2>6. /\ call'[t] # Idle /\ call'[t].step = "disable"
        /\ call'[t].name = byID[cli.id].name /\ call'[t].id = cli.id
        /\ call'[t].upserting = FALSE
    BY <2>1, <2>2, DeletionSent
  <2>7. minted[cli.id] = byID[cli.id].name /\ UNCHANGED <<rows, minted>>
    BY <2>1, <2>2, DeletionSent
  <2>8. call'[t].name = cli.name
    BY <2>1, <2>6, <2>7
  <2>9. OwnRequest'
    BY <2>5, <2>6, <2>8 DEF OwnRequest
  <2>10. Knows'
    BY <2>1, <2>5 DEF Knows
  <2> QED
    BY <2>1, <2>4, <2>5, <2>7, <2>9, <2>10 DEF CommandOK
<1>6. CASE PostNew
  <2>1. cli.step = "post" /\ cli.new \in Names /\ cli.cmd # "remove"
    BY <1>1, <1>6 DEF PostNew, Ready, CommandOK, CliLocals
  <2>2. PICK t \in Threads : AddLock(t, cli.new) /\ Sent(t)
    BY <1>6 DEF PostNew, Fails
  <2>3. /\ cli'.step = "post" /\ cli'.cmd = cli.cmd /\ cli'.saved = cli.saved
        /\ cli'.on = t /\ cli'.id = cli.id /\ cli'.name = cli.name
        /\ cli'.new = cli.new
    BY <1>1, <2>1, <2>2 DEF Command, Sent
  <2>4. Knows' <=> Knows
    BY <2>1, <2>3 DEF Knows
  <2>5. Knows => minted[cli.id] # Absent /\ minted'[cli.id] = minted[cli.id]
    BY <1>1, <2>1, <2>2, AdditionSent, NullAssumption DEF CommandOK
  <2>6. cli.cmd = "edit" => call'[t].id # cli.id
    BY <2>1, <2>2, <2>5, AdditionSent DEF Knows
  <2>7. cli'.on # NoThread => OwnRequest'
    BY <2>1, <2>2, <2>3, <2>6, AdditionSent DEF OwnRequest
  <2>8. UNCHANGED rows
    BY <2>1, <2>2, AdditionSent
  <2> QED
    BY <1>1, <2>1, <2>3, <2>4, <2>5, <2>7, <2>8 DEF CommandOK
<1> QED
  BY <1>3, <1>4, <1>5, <1>6

(* Others' doings leave a command what it knows.                           *)
LEMMA DisturbedKeeps ==
  ASSUME CliInv, AtWork, Disturbed
  PROVE  /\ cli' \in Command /\ ~cli'.steady
         /\ cli'.cmd = cli.cmd /\ cli'.step = cli.step /\ cli'.name = cli.name
         /\ cli'.id = cli.id /\ cli'.new = cli.new /\ cli'.on = cli.on
         /\ cli'.saved = cli.saved
<1> DEFINE none == [n \in Names |-> NoId]
<1>1. none \in [Names -> Ids \cup {NoId}] /\ cli \in Command
  BY DEF CliInv, CliTypeOK, AtWork
<1>2. cli' = [cli EXCEPT !.steady = FALSE, !.before = none]
  BY DEF Disturbed
<1> HIDE DEF none
<1> QED
  BY <1>1, <1>2 DEF Command

(* A removal that is done: edit goes on, remove has succeeded.             *)
LEMMA ResumedOK ==
  ASSUME CliInv, CommandOK, [Next]_vars, AtWork, cli' = Resumed
  PROVE  CommandOK'
<1>1. CASE cli.cmd = "edit" /\ cli.step = "delete id"
  <2>1. cli \in Command
    BY DEF CliInv, CliTypeOK, AtWork
  <2>2. cli' = [cli EXCEPT !.on = NoThread, !.step = "post"]
    BY <1>1 DEF Resumed
  <2>3. /\ cli'.cmd = "edit" /\ cli'.step = "post" /\ cli'.name = cli.name
        /\ cli'.id = cli.id /\ cli'.on = NoThread /\ cli'.saved = cli.saved
    BY <1>1, <2>1, <2>2 DEF Command
  <2>4. cli.name \in Names /\ cli.id \in Ids /\ minted[cli.id] = cli.name
    BY <1>1 DEF CommandOK, Knows
  <2>5. minted'[cli.id] = cli.name
    BY <2>4, MintedStay, NullAssumption DEF CliInv
  <2>6. cli.saved => rows'[cli.name] # Absent /\ rows'[cli.name].id = cli.id
    BY <2>4, RowsKeepTheirIds DEF CommandOK, RowsKeepIds, CliInv
  <2> QED
    BY <2>3, <2>4, <2>5, <2>6 DEF CommandOK, Knows
<1>2. CASE ~(cli.cmd = "edit" /\ cli.step = "delete id")
  BY <1>2 DEF Resumed, CommandOK, AtWork
<1> QED
  BY <1>1, <1>2

(* Who works for the command is not free and waits for no lock.            *)
LEMMA OwnRequestRuns ==
  ASSUME CliInv, CommandOK, AtWork, cli.on # NoThread
  PROVE  /\ cli.on \in Threads /\ call[cli.on] \in Call
         /\ call[cli.on].step \in
              {"disable", "delete", "upsert", "readback", "reconcile"}
         /\ call[cli.on].step = "delete" => call[cli.on].upserting = FALSE
<1>1. cli \in Command /\ cli.on \in Threads
  BY DEF CliInv, CliTypeOK, AtWork, Command
<1> QED
  BY <1>1 DEF CommandOK, OwnRequest, CliInv, RegistryInv, TypeOK

LEMMA CommandOKNext ==
  ASSUME CliInv, CommandOK, [CliNext]_cliVars
  PROVE  CommandOK'
<1>1. [Next]_vars /\ cli' \in Command \cup {Idle, Done}
  BY RegistryStep, CliLocalsNext
<1>2. CASE ~AtWork'
  BY <1>2 DEF CommandOK
<1>3. CASE RunAdd \/ RunRemove \/ PickToRemove \/ RunEdit \/ PickToEdit
  BY <1>3, CommandStarts
<1>4. CASE DeleteArgument \/ ListUpstreams \/ DeleteById \/ PostNew
  BY <1>2, <1>4, CommandAsks DEF AtWork
<1>5. CASE GiveUp
  BY <1>2, <1>5 DEF GiveUp, Fails, AtWork
<1>6. ASSUME NEW t \in Threads, HubWorks(t) \/ HubRefuses(t) \/ OthersAsk(t),
             AtWork, cli.on # t, cli.on # NoThread
      PROVE  call'[cli.on] = call[cli.on]
  BY <1>6, OthersStay, OwnRequestRuns
<1>7. ASSUME NEW t \in Threads, HubWorks(t), AtWork PROVE CommandOK'
  <2>1. CASE Waits(t) /\ call'[t] = Idle
    BY <1>1, <1>7, <2>1, ResumedOK DEF HubWorks
  <2>2. CASE ~(Waits(t) /\ call'[t] = Idle)
    <3>1. cli' = cli
      BY <1>7, <2>2 DEF HubWorks
    <3>2. cli' \in Command
      BY <1>1, <1>7, <3>1 DEF AtWork
    <3>3. CASE cli.on = t
      <4>1. call'[t] # Idle
        BY <1>7, <2>2, <3>3 DEF Waits
      <4>2. t # NoThread
        BY AdminCliAssumption
      <4> QED
        BY <1>1, <1>7, <3>1, <3>2, <3>3, <4>1, <4>2, OwnRequestRuns,
           RequestMovesOn, CommonKept
    <3>4. CASE cli.on # t
      BY <1>1, <1>6, <1>7, <3>1, <3>2, <3>4, CommonKept
    <3> QED
      BY <3>3, <3>4
  <2> QED
    BY <2>1, <2>2
<1>8. ASSUME NEW t \in Threads, HubRefuses(t), AtWork PROVE CommandOK'
  <2>1. CASE cli.on = t
    BY <1>2, <1>8, <2>1 DEF HubRefuses, Waits, AtWork
  <2>2. CASE cli.on # t
    <3>1. cli' = cli /\ cli' \in Command
      BY <1>1, <1>8, <2>2 DEF HubRefuses, Waits, AtWork
    <3> QED
      BY <1>1, <1>6, <1>8, <2>2, <3>1, CommonKept
  <2> QED
    BY <2>1, <2>2
<1>9. ASSUME NEW t \in Threads, OthersAsk(t), AtWork PROVE CommandOK'
  <2>1. cli.on # t
    <3>1. call[t] = Idle \/ call[t].step = "lock"
      BY <1>9 DEF OthersAsk, Begin, AddLock, MayLock, At, UpsertExisting,
                  UpsertNew, RemoveLookup
    <3>2. Idle \notin Call /\ t # NoThread
      BY NullAssumption, AdminCliAssumption
    <3> QED
      BY <1>9, <3>1, <3>2, OwnRequestRuns
  <2>2. Disturbed
    BY <1>9 DEF OthersAsk
  <2> QED
    BY <1>1, <1>6, <1>9, <2>1, <2>2, DisturbedKeeps, CommonKept
<1>10. ASSUME HubStops \/ HubComesUp, AtWork PROVE CommandOK'
  <2>1. CASE cli' = Idle
    BY <1>2, <2>1 DEF AtWork
  <2>2. CASE cli' # Idle
    <3>1. Disturbed /\ (cli.on # NoThread => UNCHANGED call)
      BY <1>10, <2>2 DEF HubStops, HubComesUp, Bootstrap, BootstrapFails,
                         BootWith, BootUpTo
    <3> QED
      BY <1>1, <1>10, <3>1, DisturbedKeeps, CommonKept
  <2> QED
    BY <2>1, <2>2
<1>11. ASSUME UNCHANGED cliVars, AtWork PROVE CommandOK'
  <2>1. cli' = cli /\ cli' \in Command /\ UNCHANGED call
    BY <1>1, <1>11 DEF cliVars, vars, AtWork
  <2> QED
    BY <1>1, <1>11, <2>1, CommonKept
<1>12. ASSUME ~AtWork, UNCHANGED cli PROVE CommandOK'
  BY <1>2, <1>12 DEF AtWork
<1>13. ASSUME ~AtWork,
              \/ \E t \in Threads : HubWorks(t) \/ HubRefuses(t) \/ OthersAsk(t)
              \/ HubStops \/ HubComesUp \/ UNCHANGED cliVars
       PROVE  UNCHANGED cli
  BY <1>13 DEF HubWorks, HubRefuses, OthersAsk, HubStops, HubComesUp, Waits,
               Disturbed, cliVars
<1> QED
  BY <1>3, <1>4, <1>5, <1>7, <1>8, <1>9, <1>10, <1>11, <1>12, <1>13
  DEF CliNext, CliSteps

(* A command succeeds with the end of its request, nothing else.           *)
LEMMA SuccessIsTheHubs ==
  ASSUME CliInv, [CliNext]_cliVars, Succeeds
  PROVE  \E t \in Threads :
           /\ HubWorks(t) /\ Waits(t) /\ call'[t] = Idle
           /\ ~(cli.cmd = "edit" /\ cli.step = "delete id")
<1>1. AtWork /\ cli \in Command /\ cli' = Done /\ Done \notin Command /\ Done # Idle
  BY DoneAssumption, AdminCliAssumption DEF Succeeds, AtWork, CliInv, CliTypeOK
<1>2. ~(DeleteArgument \/ ListUpstreams \/ DeleteById \/ PostNew)
  BY <1>1, AskLocals
<1>3. ~Disturbed
  BY <1>1, DisturbedKeeps
<1>4. PICK t \in Threads : HubWorks(t)
  BY <1>1, <1>2, <1>3
  DEF CliNext, CliSteps, RunAdd, RunRemove, PickToRemove, RunEdit, PickToEdit,
      Start, GiveUp, Fails, HubRefuses, OthersAsk, HubStops, HubComesUp, cliVars,
      AtWork
<1>5. Waits(t) /\ call'[t] = Idle /\ cli' = Resumed
  BY <1>1, <1>4 DEF HubWorks, AtWork
<1>6. ~(cli.cmd = "edit" /\ cli.step = "delete id")
  <2> SUFFICES ASSUME cli.cmd = "edit" /\ cli.step = "delete id" PROVE FALSE
    OBVIOUS
  <2>1. [cli EXCEPT !.on = NoThread, !.step = "post"] \in Command
    BY <1>1 DEF Command
  <2> QED
    BY <1>1, <1>5, <2>1 DEF Resumed
<1> QED
  BY <1>4, <1>5, <1>6

CommandInv == CliInv /\ CommandOK /\ RekeysToRow

LEMMA CommandInvariant == CliSpec => []CommandInv
<1>1. CliInit => CommandInv
  BY CliInvInit DEF CliInit, Init, CommandInv, CommandOK, AtWork, RekeysToRow, At
<1>2. CommandInv /\ [CliNext]_cliVars => CommandInv'
  <2> SUFFICES ASSUME CommandInv, [CliNext]_cliVars PROVE CommandInv'
    OBVIOUS
  <2>1. CliInv' /\ CommandOK' /\ [Next]_vars
    BY CliInvNext, CommandOKNext, RegistryStep DEF CommandInv
  <2>2. RekeysToRow'
    BY <2>1, RowsKeepTheirIds, RekeysToRowKept DEF CommandInv, CliInv
  <2> QED
    BY <2>1, <2>2 DEF CommandInv
<1> QED
  BY <1>1, <1>2, PTL DEF CliSpec

(* An edit that keeps the name keeps the id: tasks still resolve, whoever  *)
(* added, removed or restarted what between its two requests, for any      *)
(* number of admins at once.  For the row kept the old id, and the new     *)
(* uuid is not that id, so Add rekeys.                                     *)
THEOREM EditsKeepIds == CliSpec => EditKeepsId
<1>1. CommandInv /\ [CliNext]_cliVars =>
        [Succeeds /\ PlainEdit => byName'[cli.name] = cli.id]_cliVars
  <2> SUFFICES ASSUME CommandInv, [CliNext]_cliVars, Succeeds, PlainEdit
               PROVE  byName'[cli.name] = cli.id
    OBVIOUS
  <2>1. PICK t \in Threads :
          /\ HubWorks(t) /\ Waits(t) /\ call'[t] = Idle
          /\ ~(cli.cmd = "edit" /\ cli.step = "delete id")
    BY SuccessIsTheHubs DEF CommandInv
  <2>2. /\ AtWork /\ cli \in Command /\ cli.on = t /\ t # NoThread
        /\ CommandOK /\ RegistryInv /\ RekeysToRow
    BY <2>1, AdminCliAssumption
    DEF CommandInv, CliInv, CliTypeOK, Succeeds, AtWork, Waits
  <2>3. cli.step = "post"
    BY <2>1, <2>2 DEF PlainEdit, CommandOK, OwnRequest, Command
  <2> DEFINE k == call[t]
  <2>4. /\ k # Idle /\ k.step \in {"upsert", "readback", "reconcile"}
        /\ k.name = cli.name /\ k.id # cli.id
        /\ cli.name \in Names
        /\ rows[cli.name] # Absent /\ rows[cli.name].id = cli.id
    BY <2>2, <2>3 DEF PlainEdit, CommandOK, OwnRequest, Knows
  <2>5. AddReconcile(t)
    <3>1. AddReadBack(t) \/ AddReconcile(t)
      BY <2>1, <2>4, RequestEnds DEF CommandInv, RemoveDelete, At
    <3>2. ~AddReadBack(t)
      BY <2>4 DEF AddReadBack
    <3> QED
      BY <3>1, <3>2
  <2>6. k.other = cli.id
    BY <2>2, <2>4, <2>5 DEF AddReconcile, RekeysToRow
  <2> QED
    BY <2>2, <2>4, <2>5, <2>6 DEF AddReconcile, RegistryInv, TypeOK
<1> QED
  BY <1>1, CommandInvariant, PTL DEF CliSpec, EditKeepsId

-----------------------------------------------------------------------------
(* A command on a hub that nobody else changes.                            *)

(* What the index has become of the one the command started with.          *)
Freed ==
  IF cli.cmd = "edit" /\ cli.step = "post"
  THEN [cli.before EXCEPT ![cli.name] = NoId] ELSE cli.before

Progress ==
  IF cli.step = "post" /\ cli.on # NoThread
  THEN [Freed EXCEPT ![cli.new] = call[cli.on].id] ELSE Freed

SteadyOK ==
  AtWork /\ cli.steady =>
    /\ \A u \in Threads : u # cli.on => call[u] = Idle
    /\ Knows => ArgumentOf(cli.name)
    /\ byName = Progress

LEMMA StartSteady ==
  ASSUME CliInv, NEW c, NEW step, NEW arg, NEW name, NEW id, NEW new,
         Start(c, step, arg, name, id, new),
         c = "edit" => step # "post",
         step \in {"delete id", "post"} /\ c # "add" =>
           byName[name] = id /\ arg = id /\ id \in Ids
  PROVE  SteadyOK'
<1>1. /\ cli'.step = step /\ cli'.cmd = c /\ cli'.id = id /\ cli'.name = name
      /\ cli'.on = NoThread /\ cli'.before = byName /\ cli'.arg = arg
      /\ UNCHANGED <<byName, call>>
      /\ cli'.steady = \A t \in Threads : call[t] = Idle
  BY DEF Start, vars
<1>2. Knows' => ArgumentOf(name)'
  BY <1>1, RegistryAssumption DEF Knows, ArgumentOf
<1>3. byName' = Progress'
  BY <1>1 DEF Progress, Freed
<1> QED
  BY <1>1, <1>2, <1>3 DEF SteadyOK

LEMMA SteadyStarts ==
  ASSUME CliInv, AllIndexed,
         RunAdd \/ RunRemove \/ PickToRemove \/ RunEdit \/ PickToEdit
  PROVE  SteadyOK'
<1>1. \A id \in Ids : Registered(id) => byName[byID[id].name] = id
  BY DEF AllIndexed, Registered
<1>2. CASE RunAdd
  BY <1>2, StartSteady DEF RunAdd
<1>3. CASE RunRemove
  BY <1>3, StartSteady DEF RunRemove
<1>4. CASE PickToRemove
  BY <1>1, <1>4, StartSteady DEF PickToRemove
<1>5. CASE RunEdit
  BY <1>5, StartSteady DEF RunEdit
<1>6. CASE PickToEdit
  BY <1>1, <1>6, StartSteady DEF PickToEdit
<1> QED
  BY <1>2, <1>3, <1>4, <1>5, <1>6

(* The upstream that a command finds is the one that was asked for.        *)
LEMMA SteadyAsks ==
  ASSUME CommandInv, SteadyOK, AllIndexed,
         DeleteArgument \/ ListUpstreams \/ DeleteById \/ PostNew,
         cli' # Idle, cli'.steady
  PROVE  SteadyOK'
<1>1. /\ AtWork /\ cli \in Command /\ cli.on = NoThread
      /\ CliInv /\ CommandOK /\ CliLocals
  BY DEF CommandInv, CliInv, CliTypeOK, AtWork, DeleteArgument, ListUpstreams,
         DeleteById, PostNew, Ready
<1>2. /\ call \in [Threads -> Call \cup {Idle}]
      /\ byName \in [Names -> Ids \cup {NoId}]
      /\ NoId \notin Ids /\ NoThread \notin Threads
  BY <1>1, RegistryAssumption, AdminCliAssumption DEF CliInv, RegistryInv, TypeOK
<1>3. ASSUME NEW id \in Ids, Registered(id), cli.steady, byName = cli.before,
             \/ cli.arg = id
             \/ cli.arg \in Names /\ Folded[byID[id].name] = Folded[cli.arg]
      PROVE  ArgumentOf(byID[id].name)
  BY <1>2, <1>3 DEF AllIndexed, Registered, ArgumentOf
<1>4. ASSUME NEW t \in Threads, \E k : Go(t, k), cli.steady
      PROVE  \A u \in Threads : u # t => call'[u] = Idle
  BY <1>1, <1>2, <1>4 DEF SteadyOK, Go
<1>5. CASE DeleteArgument
  <2>1. cli.step = "delete" /\ cli.cmd = "remove"
    BY <1>1, <1>5 DEF DeleteArgument, Ready, CommandOK, Command
  <2>2. CASE cli' = [cli EXCEPT !.step = "list"] /\ UNCHANGED vars
    <3>1. /\ cli'.step = "list" /\ cli'.cmd = "remove" /\ cli'.on = cli.on
          /\ cli'.before = cli.before /\ cli'.steady = cli.steady
          /\ UNCHANGED <<byName, call>>
      BY <1>1, <2>1, <2>2 DEF Command, vars
    <3> QED
      BY <1>1, <2>1, <3>1 DEF SteadyOK, Knows, Progress, Freed
  <2>3. ASSUME NEW t \in Threads, cli.arg \in Ids, RemoveLookup(t, cli.arg),
               cli' = [cli EXCEPT !.on = t, !.id = cli.arg,
                                  !.name = byID[cli.arg].name]
        PROVE  SteadyOK'
    <3>1. /\ cli'.step = "delete" /\ cli'.cmd = "remove" /\ cli'.on = t
          /\ cli'.arg = cli.arg /\ cli'.name = byID[cli.arg].name
          /\ cli'.before = cli.before /\ cli'.steady = cli.steady
      BY <1>1, <2>1, <2>3 DEF Command
    <3>2. byName = cli.before
      BY <1>1, <2>1, <3>1 DEF SteadyOK, Progress, Freed
    <3>3. ArgumentOf(byID[cli.arg].name)
      BY <1>3, <2>3, <3>1, <3>2 DEF RemoveLookup, Registered
    <3>4. /\ cli'.before[cli'.name] # NoId
          /\ \/ cli'.arg = cli'.before[cli'.name]
             \/ cli'.arg \in Names /\ Folded[cli'.name] = Folded[cli'.arg]
      BY <3>1, <3>3 DEF ArgumentOf
    <3>5. \A u \in Threads : u # t => call'[u] = Idle
      BY <1>4, <2>3, <3>1 DEF RemoveLookup
    <3>6. byName' = Progress'
      BY <2>3, <3>1, <3>2 DEF RemoveLookup, Progress, Freed
    <3> QED
      BY <3>1, <3>4, <3>5, <3>6 DEF SteadyOK, ArgumentOf
  <2> QED
    BY <1>5, <2>2, <2>3 DEF DeleteArgument
<1>6. CASE ListUpstreams
  <2>1. cli.step = "list"
    BY <1>6 DEF ListUpstreams, Ready
  <2>2. PICK id \in Ids, new \in Names \cup {Absent} :
          /\ Matches(id)
          /\ cli' = [cli EXCEPT !.step = "delete id", !.id = id,
                                !.name = byID[id].name, !.new = new]
          /\ UNCHANGED vars
    BY <1>6 DEF ListUpstreams, Fails
  <2>3. /\ cli'.step = "delete id" /\ cli'.on = NoThread
        /\ cli'.arg = cli.arg /\ cli'.name = byID[id].name
        /\ cli'.before = cli.before /\ cli'.steady = cli.steady
        /\ UNCHANGED <<byName, call>>
    BY <1>1, <2>2 DEF Command, vars
  <2>4. byName = cli.before
    BY <1>1, <2>1, <2>3 DEF SteadyOK, Progress, Freed
  <2>5. ArgumentOf(byID[id].name)
    BY <1>3, <2>2, <2>3, <2>4 DEF Matches, NameMatches
  <2>6. /\ cli'.before[cli'.name] # NoId
        /\ \/ cli'.arg = cli'.before[cli'.name]
           \/ cli'.arg \in Names /\ Folded[cli'.name] = Folded[cli'.arg]
    BY <2>3, <2>5 DEF ArgumentOf
  <2>7. byName' = Progress'
    BY <2>3, <2>4 DEF Progress, Freed
  <2>8. \A u \in Threads : call'[u] = Idle
    BY <1>1, <1>2, <2>3 DEF SteadyOK
  <2> QED
    BY <2>6, <2>7, <2>8 DEF SteadyOK, ArgumentOf
<1>7. CASE DeleteById
  <2>1. cli.step = "delete id" /\ cli.cmd # "add"
    BY <1>1, <1>7 DEF DeleteById, Ready, CommandOK
  <2> DEFINE saved == rows[cli.name] # Absent /\ rows[cli.name].id = cli.id
  <2>2. PICK t \in Threads :
          RemoveLookup(t, cli.id) /\ cli' = [cli EXCEPT !.on = t, !.saved = saved]
    BY <1>7 DEF DeleteById, Fails
  <2>3. saved \in BOOLEAN
    OBVIOUS
  <2> HIDE DEF saved
  <2>4. /\ cli'.step = "delete id" /\ cli'.on = t /\ cli'.cmd = cli.cmd
        /\ cli'.arg = cli.arg /\ cli'.name = cli.name
        /\ cli'.before = cli.before /\ cli'.steady = cli.steady
    BY <1>1, <2>1, <2>2, <2>3 DEF Command
  <2>5. byName = cli.before /\ ArgumentOf(cli.name)
    BY <1>1, <2>1, <2>4 DEF SteadyOK, Progress, Freed, Knows
  <2>6. /\ cli'.before[cli'.name] # NoId
        /\ \/ cli'.arg = cli'.before[cli'.name]
           \/ cli'.arg \in Names /\ Folded[cli'.name] = Folded[cli'.arg]
    BY <2>4, <2>5 DEF ArgumentOf
  <2>7. byName' = Progress'
    BY <2>2, <2>4, <2>5 DEF RemoveLookup, Progress, Freed
  <2>8. \A u \in Threads : u # t => call'[u] = Idle
    BY <1>4, <2>2, <2>4 DEF RemoveLookup
  <2> QED
    BY <2>4, <2>6, <2>7, <2>8 DEF SteadyOK, ArgumentOf
<1>8. CASE PostNew
  <2>1. cli.step = "post" /\ cli.new \in Names
    BY <1>1, <1>8 DEF PostNew, Ready, CliLocals
  <2>2. PICK t \in Threads : AddLock(t, cli.new) /\ cli' = [cli EXCEPT !.on = t]
    BY <1>8 DEF PostNew, Fails, Sent
  <2>3. /\ cli'.step = "post" /\ cli'.on = t /\ cli'.cmd = cli.cmd
        /\ cli'.arg = cli.arg /\ cli'.name = cli.name /\ cli'.new = cli.new
        /\ cli'.before = cli.before /\ cli'.steady = cli.steady
    BY <1>1, <2>1, <2>2 DEF Command
  <2>4. byName = Freed
    BY <1>1, <2>1, <2>3 DEF SteadyOK, Progress
  <2>5. byName' = [byName EXCEPT ![cli.new] = call'[t].id]
    BY <1>1, <2>1, <2>2, AdditionSent
  <2>6. Freed' = Freed
    BY <2>1, <2>3 DEF Freed
  <2>7. t # NoThread /\ Progress' = [Freed' EXCEPT ![cli.new] = call'[t].id]
    BY <1>2, <2>3 DEF Progress
  <2>8. \A u \in Threads : u # t => call'[u] = Idle
    BY <1>4, <2>2, <2>3 DEF AddLock
  <2>9. Knows' => Knows /\ ArgumentOf(cli.name)
    BY <1>1, <2>1, <2>3 DEF SteadyOK, Knows
  <2>10. Knows' => /\ cli'.before[cli'.name] # NoId
                   /\ \/ cli'.arg = cli'.before[cli'.name]
                      \/ cli'.arg \in Names /\ Folded[cli'.name] = Folded[cli'.arg]
    BY <2>3, <2>9 DEF ArgumentOf
  <2> QED
    BY <2>3, <2>4, <2>5, <2>6, <2>7, <2>8, <2>10 DEF SteadyOK, ArgumentOf
<1> QED
  BY <1>5, <1>6, <1>7, <1>8

(* While nobody else is there, the hub works for the command.              *)
LEMMA SteadyRequest ==
  ASSUME CommandInv, SteadyOK, AtWork, cli.steady, NEW t \in Threads,
         call[t] # Idle
  PROVE  /\ cli.on = t /\ t # NoThread /\ cli \in Command
         /\ CliInv /\ CommandOK /\ OwnRequest /\ call[t] \in Call
BY AdminCliAssumption
DEF SteadyOK, CommandInv, CommandOK, CliInv, CliTypeOK, RegistryInv, TypeOK,
    AtWork

LEMMA SteadyHub ==
  ASSUME CommandInv, SteadyOK, AtWork, cli.steady, NEW t \in Threads,
         HubWorks(t), cli' # Done
  PROVE  SteadyOK'
<1>1. call[t] # Idle
  BY DEF HubWorks, AddUpsert, AddReadBack, AddReadBackOther, AddReconcile,
         UpsertLookup, RemoveDisable, RemoveDelete, At
<1>2. /\ cli.on = t /\ t # NoThread /\ cli \in Command /\ CliInv /\ OwnRequest
      /\ CommandOK /\ call[t] \in Call
  BY <1>1, SteadyRequest
<1>3. \A u \in Threads : u # t => call'[u] = Idle
  BY <1>2, OthersStay DEF SteadyOK
<1>4. CASE call'[t] = Idle
  <2>1. /\ cli.cmd = "edit" /\ cli.step = "delete id"
        /\ cli' = [cli EXCEPT !.on = NoThread, !.step = "post"]
    BY <1>2, <1>4 DEF HubWorks, Waits, Resumed
  <2>2. /\ cli'.step = "post" /\ cli'.on = NoThread /\ cli'.cmd = cli.cmd
        /\ cli'.arg = cli.arg /\ cli'.name = cli.name
        /\ cli'.before = cli.before
    BY <1>2, <2>1 DEF Command
  <2>3. byName = cli.before /\ ArgumentOf(cli.name)
    BY <2>1 DEF SteadyOK, Progress, Freed, Knows
  <2>4. /\ call[t].step \in {"disable", "delete"} /\ call[t].name = cli.name
    BY <1>2, <2>1 DEF OwnRequest
  <2>5. RemoveDelete(t)
    BY <1>2, <1>4, <2>4, RequestEnds DEF AddReadBack, AddReconcile, At
  <2>6. byName' = Progress'
    BY <2>1, <2>2, <2>3, <2>4, <2>5 DEF RemoveDelete, Progress, Freed
  <2>7. /\ cli'.before[cli'.name] # NoId
        /\ \/ cli'.arg = cli'.before[cli'.name]
           \/ cli'.arg \in Names /\ Folded[cli'.name] = Folded[cli'.arg]
    BY <2>2, <2>3 DEF ArgumentOf
  <2> QED
    BY <1>3, <1>4, <2>6, <2>7 DEF SteadyOK, ArgumentOf
<1>5. CASE call'[t] # Idle
  <2>1. cli' = cli
    BY <1>5 DEF HubWorks
  <2>2. UNCHANGED byName /\ call'[t].id = call[t].id
    BY <1>2, <1>5, RequestMovesOn, OwnRequestRuns
  <2>3. byName' = Progress'
    BY <1>2, <2>1, <2>2 DEF SteadyOK, Progress, Freed
  <2>4. Knows' => ArgumentOf(cli.name)
    BY <2>1 DEF SteadyOK, Knows
  <2> QED
    BY <1>2, <1>3, <2>1, <2>3, <2>4 DEF SteadyOK, ArgumentOf
<1> QED
  BY <1>4, <1>5

LEMMA SteadyNext ==
  ASSUME CommandInv, SteadyOK, AllIndexed, [CliNext]_cliVars
  PROVE  SteadyOK'
<1> SUFFICES ASSUME AtWork', cli'.steady PROVE SteadyOK'
  BY DEF SteadyOK
<1>1. CliInv /\ cli' # Idle /\ cli' # Done
  BY DEF CommandInv, AtWork
<1>2. CASE RunAdd \/ RunRemove \/ PickToRemove \/ RunEdit \/ PickToEdit
  BY <1>1, <1>2, SteadyStarts
<1>3. CASE DeleteArgument \/ ListUpstreams \/ DeleteById \/ PostNew
  BY <1>1, <1>3, SteadyAsks
<1>4. ~GiveUp
  BY <1>1 DEF GiveUp, Fails
<1>5. ASSUME NEW t \in Threads, HubWorks(t) PROVE SteadyOK'
  <2>1. AtWork
    BY <1>1, <1>5 DEF HubWorks, Waits, AtWork
  <2>2. cli.steady
    <3>1. CASE Waits(t) /\ call'[t] = Idle
      <4>1. /\ cli \in Command
            /\ cli' = [cli EXCEPT !.on = NoThread, !.step = "post"]
        BY <1>1, <1>5, <2>1, <3>1
        DEF HubWorks, Resumed, CliInv, CliTypeOK, AtWork
      <4> QED
        BY <4>1 DEF Command
    <3>2. CASE ~(Waits(t) /\ call'[t] = Idle)
      BY <1>5, <3>2 DEF HubWorks
    <3> QED
      BY <3>1, <3>2
  <2> QED
    BY <1>1, <1>5, <2>1, <2>2, SteadyHub
<1>6. ASSUME NEW t \in Threads PROVE ~HubRefuses(t)
  <2> SUFFICES ASSUME HubRefuses(t) PROVE FALSE
    OBVIOUS
  <2>1. cli' = cli /\ AtWork /\ ~Waits(t) /\ cli.steady
    BY <1>1 DEF HubRefuses, AtWork
  <2>2. call[t] # Idle
    BY DEF HubRefuses, AddDuplicate, StoreFails, At
  <2> QED
    BY <2>1, <2>2, SteadyRequest DEF Waits
<1>7. ~Disturbed
  BY <1>1, DisturbedKeeps DEF Disturbed, AtWork
<1>8. CASE UNCHANGED cliVars
  BY <1>8 DEF cliVars, vars, SteadyOK, AtWork, Knows, ArgumentOf, Progress, Freed
<1> QED
  BY <1>1, <1>2, <1>3, <1>4, <1>5, <1>6, <1>7, <1>8
  DEF CliNext, CliSteps, OthersAsk, HubStops, HubComesUp

(* The last step of a command completes its change.                        *)
LEMMA SuccessEffect ==
  ASSUME CommandInv, SteadyOK, [CliNext]_cliVars, Succeeds, cli.steady
  PROVE  /\ cli.cmd # "add" =>
              /\ cli.name \in Names /\ ArgumentOf(cli.name)
              /\ byName' = Effect(cli.name)
         /\ cli.cmd = "add" => \A n : byName' = Effect(n)
<1>1. PICK t \in Threads :
        /\ HubWorks(t) /\ Waits(t) /\ call'[t] = Idle
        /\ ~(cli.cmd = "edit" /\ cli.step = "delete id")
  BY SuccessIsTheHubs DEF CommandInv
<1>2. /\ AtWork /\ cli.on = t /\ t # NoThread /\ cli \in Command
      /\ CliInv /\ CommandOK /\ OwnRequest
  BY <1>1, AdminCliAssumption
  DEF Waits, CommandInv, CommandOK, CliInv, CliTypeOK, AtWork
<1>3. AddReadBack(t) \/ AddReconcile(t) \/ RemoveDelete(t)
  BY <1>1, <1>2, RequestEnds DEF OwnRequest
<1>4. byName = Progress /\ cli.before \in [Names -> Ids \cup {NoId}]
      /\ byName \in [Names -> Ids \cup {NoId}]
  BY <1>2 DEF SteadyOK, Command, CliInv, RegistryInv, TypeOK
<1>5. Knows => cli.name \in Names /\ ArgumentOf(cli.name)
  BY <1>2 DEF SteadyOK, CommandOK
<1>6. CASE cli.step = "post"
  <2>1. cli.new \in Names /\ Freed \in [Names -> Ids \cup {NoId}]
    BY <1>2, <1>4, <1>6 DEF CommandInv, CliInv, CliLocals, Freed
  <2>2. byName = [Freed EXCEPT ![cli.new] = call[t].id]
    BY <1>2, <1>4, <1>6 DEF Progress
  <2>3. call[t].name = cli.new
    BY <1>2, <1>6 DEF OwnRequest
  <2>4. byName' = [Freed EXCEPT ![cli.new] = byName'[cli.new]]
    <3>1. CASE AddReadBack(t)
      BY <2>1, <2>2, <3>1 DEF AddReadBack
    <3>2. CASE AddReconcile(t)
      <4>1. byName' = [byName EXCEPT ![cli.new] = call[t].other]
        BY <2>3, <3>2 DEF AddReconcile
      <4> QED
        BY <2>1, <2>2, <4>1
    <3>3. ~RemoveDelete(t)
      BY <1>2, <1>6 DEF RemoveDelete, OwnRequest, At
    <3> QED
      BY <1>3, <3>1, <3>2, <3>3
  <2>5. CASE cli.cmd = "add"
    BY <1>6, <2>4, <2>5 DEF Effect, Freed
  <2>6. CASE cli.cmd = "edit"
    BY <1>5, <1>6, <2>4, <2>6 DEF Effect, Freed, Knows
  <2> QED
    BY <1>2, <1>6, <2>5, <2>6 DEF Command, CommandOK
<1>7. CASE cli.step # "post"
  <2>1. cli.cmd = "remove" /\ Knows
    BY <1>1, <1>2, <1>7 DEF Command, CommandOK, Knows, OwnRequest
  <2>2. RemoveDelete(t) /\ call[t].name = cli.name
    BY <1>2, <1>3, <1>7 DEF OwnRequest, AddReadBack, AddReconcile, At
  <2>3. byName = cli.before
    BY <1>4, <1>7 DEF Progress, Freed
  <2>4. byName' = [cli.before EXCEPT ![cli.name] = NoId]
    BY <2>2, <2>3 DEF RemoveDelete
  <2> QED
    BY <1>5, <2>1, <2>4 DEF Effect
<1> QED
  BY <1>6, <1>7

(* However many requests a command takes, on an index that holds every     *)
(* record and that nobody else changes meanwhile its success means one     *)
(* atomic change: of the name that was asked for and no other.             *)
LEMMA CompleteIndexSuffices ==
  CliSpec /\ []AllIndexed => CommandsActAsOne
<1>1. CliInit => SteadyOK
  BY DEF CliInit, SteadyOK, AtWork
<1>2. CommandInv /\ SteadyOK /\ AllIndexed /\ [CliNext]_cliVars => SteadyOK'
  BY SteadyNext
<1>3. CommandInv /\ SteadyOK /\ [CliNext]_cliVars =>
        [Succeeds /\ cli.steady
           => \A n \in IF cli.cmd = "add" THEN {cli.new}
                       ELSE {m \in Names : ArgumentOf(m)} :
                (\A m \in Names : ArgumentOf(m) => m = n)
                  => byName' = Effect(n)]_cliVars
  BY SuccessEffect
<1> QED
  BY <1>1, <1>2, <1>3, CommandInvariant, PTL DEF CliSpec, CommandsActAsOne

(* The index holds every record where requests come one at a time.         *)
THEOREM CommandsAreAtomic ==
  ASSUME OneAtATime
  PROVE  CliSpec => CommandsActAsOne
<1>1. LoneInv => AllIndexed
  BY DEF LoneInv
<1> QED
  BY <1>1, CommandsUseTheRegistry, LoneInvariant, CompleteIndexSuffices, PTL

=============================================================================
