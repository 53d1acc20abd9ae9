------------------------------ MODULE AdminCli ------------------------------
(* The commands `oah upstream add', `remove' and `edit'                    *)
(* (internal/cli/upstream.go, prompt.go) at work on the registry.          *)
(*                                                                         *)
(* A command is a short program of its own: it asks the hub's admin API    *)
(* once or several times, decides by the answers, and holds nothing of the *)
(* hub between two requests.  In between the hub may stop and come up      *)
(* again, and requests of other admins may run.  The hub's side of each    *)
(* request is module Registry, of which every action is used as it is.     *)
(***************************************************************************)
EXTENDS Registry

CONSTANTS
  Folded,    \* each name without the case of its letters
  NoThread,
  Done

ASSUME AdminCliAssumption ==
  /\ DOMAIN Folded = Names
  /\ NoThread \notin Threads
  /\ Names \cap Ids = {}
  /\ Done # Idle

VARIABLE cli   \* the command being run; Done: the last one has succeeded

cliVars == <<vars, cli>>

-----------------------------------------------------------------------------

(* arg is what was typed, name and id the upstream it stands for once that *)
(* is known, new the name an edit gives; on is the thread of the hub that  *)
(* works on the request.  History: saved, whether the upstream that is     *)
(* being deleted has its row; steady, as long as only this command has     *)
(* changed the registry since it started; before, the ids of that time.    *)
Command == [cmd    : {"add", "remove", "edit"},
            step   : {"list", "delete", "delete id", "post"},
            arg    : Names \cup Ids,
            name   : Names \cup {Absent},
            id     : Ids \cup {NoId},
            new    : Names \cup {Absent},
            on     : Threads \cup {NoThread},
            saved  : BOOLEAN,
            steady : BOOLEAN,
            before : [Names -> Ids \cup {NoId}]]

ASSUME DoneAssumption == {Done, Idle} \cap Command = {}

CliTypeOK == TypeOK /\ cli \in Command \cup {Idle, Done}

CliInit == Init /\ cli = Idle

AtWork == cli \notin {Idle, Done}

Start(c, step, arg, name, id, new) ==
  /\ ~AtWork
  /\ cli' = [cmd |-> c, step |-> step, arg |-> arg, name |-> name, id |-> id,
             new |-> new, on |-> NoThread, before |-> byName, saved |-> FALSE,
             steady |-> \A t \in Threads : call[t] = Idle]
  /\ UNCHANGED vars

Ready(step) == AtWork /\ cli.step = step /\ cli.on = NoThread

(* The hub has taken the request up.                                       *)
Sent(t) == cli' = [cli EXCEPT !.on = t]

Fails == cli' = Idle /\ UNCHANGED vars

Registered(id) == byID[id] # Absent

NameMatches(id) ==
  Registered(id) /\ cli.arg \in Names /\ Folded[byID[id].name] = Folded[cli.arg]

-----------------------------------------------------------------------------
(* The commands.  Without an argument the user picks from the list that    *)
(* was fetched, so that the id is known before the first change.           *)

RunAdd == \E n \in Names : Start("add", "post", n, n, NoId, n)

RunRemove == \E arg \in Names \cup Ids :
               Start("remove", "delete", arg, Absent, NoId, Absent)

PickToRemove ==
  \E id \in Ids : /\ up /\ Registered(id)
                  /\ Start("remove", "delete id", id, byID[id].name, id, Absent)

RunEdit == \E arg \in Names \cup Ids :
             Start("edit", "list", arg, Absent, NoId, Absent)

(* The user has answered all the prompts.                                  *)
PickToEdit ==
  \E id \in Ids, new \in Names :
    /\ up /\ Registered(id)
    /\ Start("edit", "delete id", id, byID[id].name, id, new)

(* remove first takes its argument for an id; a 404 leads to the list.     *)
DeleteArgument ==
  /\ Ready("delete")
  /\ up
  /\ \/ \E t \in Threads :
          /\ cli.arg \in Ids
          /\ RemoveLookup(t, cli.arg)
          /\ cli' = [cli EXCEPT !.on = t, !.id = cli.arg,
                                !.name = byID[cli.arg].name]
     \/ /\ cli.arg \in Ids => ~Registered(cli.arg)
        /\ cli' = [cli EXCEPT !.step = "list"]
        /\ UNCHANGED vars

(* The first that matches: List() has no order.  remove compares names,    *)
(* edit ids as well.                                                       *)
Matches_First(id) ==   \* mutant: the first of the list, without comparing
  Registered(id)

Matches(id) ==
  NameMatches(id) \/ (cli.cmd = "edit" /\ Registered(id) /\ id = cli.arg)

ListUpstreams ==
  /\ Ready("list")
  /\ up
  /\ \/ \E id \in Ids, new \in Names \cup {Absent} :
          /\ Matches(id)
          /\ (new = Absent) <=> (cli.cmd = "remove")
          /\ cli' = [cli EXCEPT !.step = "delete id", !.id = id,
                                !.name = byID[id].name, !.new = new]
          /\ UNCHANGED vars
     \/ (\A id \in Ids : ~Matches(id)) /\ Fails

DeleteById ==
  /\ Ready("delete id")
  /\ up
  /\ \/ \E t \in Threads :
          /\ RemoveLookup(t, cli.id)
          /\ cli' = [cli EXCEPT !.on = t,
                                !.saved = /\ rows[cli.name] # Absent
                                          /\ rows[cli.name].id = cli.id]
     \/ ~Registered(cli.id) /\ Fails

PostNew ==
  /\ Ready("post")
  /\ up
  /\ \/ \E t \in Threads :
          call[t] = Idle /\ AddLock(t, cli.new) /\ Sent(t)
     \/ byName[cli.new] # NoId /\ Fails

(* The command cannot reach the hub, waits too long, or is interrupted;    *)
(* the hub goes on with a request it has taken up.                         *)
GiveUp == AtWork /\ Fails

-----------------------------------------------------------------------------
(* The hub at work, and what its answers do to the command.                *)

Resumed ==
  IF cli.cmd = "edit" /\ cli.step = "delete id"
  THEN [cli EXCEPT !.on = NoThread, !.step = "post"]
  ELSE Done

Waits(t) == AtWork /\ cli.on = t

HubWorks(t) ==
  /\ \/ AddUpsert(t) \/ AddReadBack(t) \/ AddReadBackOther(t)
     \/ AddReconcile(t) \/ UpsertLookup(t) \/ RemoveDisable(t)
     \/ RemoveDelete(t)
  /\ cli' = IF Waits(t) /\ call'[t] = Idle THEN Resumed ELSE cli

HubRefuses(t) ==
  /\ AddDuplicate(t) \/ StoreFails(t)
  /\ cli' = IF Waits(t) THEN Idle ELSE cli

Disturbed ==
  cli' = IF AtWork
         THEN [cli EXCEPT !.steady = FALSE, !.before = [n \in Names |-> NoId]]
         ELSE cli

(* Requests of others.                                                     *)
OthersAsk(t) == Begin(t) /\ Disturbed

HubStops ==
  /\ Crash
  /\ IF AtWork /\ cli.on # NoThread THEN cli' = Idle ELSE Disturbed

HubComesUp == (Bootstrap \/ BootstrapFails) /\ Disturbed

CliSteps ==
  \/ RunAdd \/ RunRemove \/ PickToRemove \/ RunEdit \/ PickToEdit
  \/ DeleteArgument \/ ListUpstreams \/ DeleteById \/ PostNew \/ GiveUp

CliNext ==
  \/ CliSteps
  \/ \E t \in Threads : HubWorks(t) \/ HubRefuses(t) \/ OthersAsk(t)
  \/ HubStops \/ HubComesUp

CliSpec == CliInit /\ [][CliNext]_cliVars

-----------------------------------------------------------------------------
(* Properties.                                                             *)

(* However many requests a command takes, its success means what one       *)
(* atomic change of the registry would have meant, if nobody else changed  *)
(* it meanwhile: add made one new name, remove freed the name that was     *)
(* typed, edit moved the upstream to its new name, and no other upstream   *)
(* was touched.  The name has to be unambiguous: of two names that differ  *)
(* in case only, remove takes whichever the list has first.                *)
ArgumentOf(n) ==
  /\ cli.before[n] # NoId
  /\ \/ cli.arg = cli.before[n]
     \/ cli.arg \in Names /\ Folded[n] = Folded[cli.arg]

Effect(n) ==
  CASE cli.cmd = "add"    -> [cli.before EXCEPT ![cli.new] = byName'[cli.new]]
    [] cli.cmd = "remove" -> [cli.before EXCEPT ![n] = NoId]
    [] cli.cmd = "edit"   -> [cli.before EXCEPT ![n] = NoId,
                                                ![cli.new] = byName'[cli.new]]

Succeeds == AtWork /\ cli' = Done

CommandsActAsOne ==
  [][Succeeds /\ cli.steady
      => \A n \in IF cli.cmd = "add" THEN {cli.new}
                  ELSE {m \in Names : ArgumentOf(m)} :
           (\A m \in Names : ArgumentOf(m) => m = n)
             => byName' = Effect(n)]_cliVars

(* "A subsequent re-add with the same name reuses the same id" (design     *)
(* document, line 398), so that tasks still resolve: an edit that keeps    *)
(* the name keeps the id, also when the hub restarted or others added and  *)
(* removed the name between its two requests.  Only an upstream of which    *)
(* Add failed to write the row has no id to keep.                          *)
PlainEdit ==
  cli.cmd = "edit" /\ cli.new = cli.name /\ cli.saved

EditKeepsId ==
  [][Succeeds /\ PlainEdit => byName'[cli.name] = cli.id]_cliVars

=============================================================================
