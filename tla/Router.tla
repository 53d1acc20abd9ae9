------------------------------- MODULE Router -------------------------------
(***************************************************************************)
(* Choosing the upstream of a message (internal/router; route and snapshot *)
(* of internal/transport/jsonrpc.go) and acting on the choice              *)
(* (prepareSend of internal/dispatch/prepare.go).                          *)
(*                                                                         *)
(* A request copies the registry, looks up whether its conversation has a  *)
(* task under way, resolves, and asks the registry again when it starts    *)
(* its task.  The registry and the tasks change in between.                *)
(*                                                                         *)
(* Names and skill ids are sequences of their dot-separated segments: "%s" *)
(* "." "%s" is concatenation, and cutting at the first dot takes the head. *)
(* A request without a contextId is never stuck and starts a task nobody   *)
(* can follow up: it meets the rules of Resolve, and leaves no trace here. *)
(***************************************************************************)
EXTENDS Integers, Sequences

CONSTANTS
  Ids,       \* upstream ids; bound: no more are registered at once
  Names,     \* names that admins choose for upstreams
  Skills,    \* skill ids that upstreams publish
  Cards,     \* bound: the sets of skills that agent cards hold
  Prefixes,  \* text prefixes that are configured
  Convs,     \* contextIds
  Threads,   \* requests that may run at once
  Absent, Idle, NoCard, NoPrefix, NoName, NoSkill, NoRoute,
  StoreMayFail   \* whether database calls may fail

Segmented(S) == \A s \in S : s \in Seq(STRING) /\ s # <<>>

ASSUME RouterAssumption ==
  /\ Segmented(Names) /\ Segmented(Skills)
  /\ Cards \subseteq SUBSET Skills
  /\ StoreMayFail \in BOOLEAN
  /\ NoRoute \notin Ids /\ NoName \notin Names /\ NoSkill \notin Seq(STRING)
  /\ NoCard \notin Cards /\ NoPrefix \notin Prefixes

VARIABLES
  ups,    \* registry: byID
  rows,   \* by conversation and upstream: whether it has tasks there, and
          \* whether one of them is active
  call,   \* what each thread is in the middle of
  crossed \* history: conversations one of whose tasks came back while
          \* another was active at another upstream

vars == <<ups, rows, call, crossed>>

-----------------------------------------------------------------------------

Upstream == [name    : Names,
             enabled : BOOLEAN,
             status  : {"unknown", "healthy", "unhealthy"},
             card    : Cards \cup {NoCard},
             prefix  : Prefixes \cup {NoPrefix}]

(* A text, by the name mentionRE finds at its start (none in a text of     *)
(* several lines, which the expression does not match) and by the prefixes *)
(* it starts with.                                                         *)
Text == [mention : Names \cup {NoName}, starts : SUBSET Prefixes]

Call == [conv : Convs, step : {"lookup", "prepare"}, id : Ids \cup {NoRoute}]

ASSUME NullAssumption == Absent \notin Upstream /\ Idle \notin Call

TypeOK ==
  /\ ups \in [Ids -> Upstream \cup {Absent}]
  /\ rows \in [Convs -> [Ids -> {"none", "active", "over"}]]
  /\ call \in [Threads -> Call \cup {Idle}]
  /\ crossed \subseteq Convs
  /\ \A t \in Threads :
       call[t] # Idle /\ call[t].step = "prepare" => call[t].id \in Ids

All == {id \in Ids : ups[id] # Absent}

Healthy == {id \in All : ups[id].enabled /\ ups[id].status = "healthy"}

-----------------------------------------------------------------------------
(* Resolve without its first rule: what each of the others finds.  Names   *)
(* are unique, so ByName finds one upstream or none; List() has no order,  *)
(* so that any upstream whose prefix fits may be the first.                *)

Resolution(id, skill, reason) == [id |-> id, skill |-> skill, reason |-> reason]

Publishes(id, s) == ups[id].card # NoCard /\ s \in ups[id].card

(* namespacedRE.                                                           *)
Cut_LastDot(s) ==   \* mutant: the name takes all it can
  [name |-> SubSeq(s, 1, Len(s) - 1), rest |-> <<s[Len(s)]>>]

Cut(s) == [name |-> <<Head(s)>>, rest |-> Tail(s)]

ByNamespace(req) ==
  IF req.skill = NoSkill \/ Len(req.skill) < 2 THEN {}
  ELSE {Resolution(id, Cut(req.skill).rest, "skill") :
          id \in {id \in All : /\ ups[id].name = Cut(req.skill).name
                               /\ ups[id].enabled}}

ByUniqueSkill(req) ==
  {Resolution(id, req.skill, "skill") :
     id \in {id \in Healthy : /\ Publishes(id, req.skill)
                              /\ \A other \in Healthy \ {id} :
                                   ~Publishes(other, req.skill)}}

ByMention(req) ==
  {Resolution(id, NoSkill, "mention") :
     id \in {id \in All : /\ ups[id].name = req.text.mention
                          /\ ups[id].enabled
                          /\ ups[id].status # "unhealthy"}}

ByPrefix(req) ==
  {Resolution(id, NoSkill, "prefix") :
     id \in {id \in Healthy : ups[id].prefix \in req.text.starts}}

(* The first rule that finds something decides.                            *)
Resolve(req) ==
  LET first == ByNamespace(req)
      second == ByUniqueSkill(req)
      third == ByMention(req)
  IN  IF first # {} THEN first
      ELSE IF second # {} THEN second
      ELSE IF third # {} THEN third
      ELSE ByPrefix(req)

(* A skill id in a request: of any upstream, with its name or without.     *)
SkillId == {name \o s : name \in Names, s \in Skills} \cup Skills \cup {NoSkill}

Request == [skill : SkillId, text : Text]

-----------------------------------------------------------------------------

(* What bootstrap leaves: nothing is known yet, names are unique.          *)
Init ==
  /\ ups \in [Ids -> {u \in Upstream : u.status = "unknown" /\ u.card = NoCard}
                     \cup {Absent}]
  /\ \A a, b \in All : ups[a].name = ups[b].name => a = b
  /\ rows = [c \in Convs |-> [id \in Ids |-> "none"]]
  /\ call = [t \in Threads |-> Idle]
  /\ crossed = {}

At(t, step) == call[t] # Idle /\ call[t].step = step

Go(t, k) == call' = [call EXCEPT ![t] = k]

(* snapshot copies List(); what Resolve will find in the copy is settled   *)
(* here, whether it is asked for depends on the lookup.                    *)
Route(t, c, req) ==
  /\ call[t] = Idle
  /\ LET found == {r.id : r \in Resolve(req)}
     IN  \E id \in IF found = {} THEN {NoRoute} ELSE found :
           Go(t, [conv |-> c, step |-> "lookup", id |-> id])
  /\ UNCHANGED <<ups, rows, crossed>>

Active(c) == {id \in Ids : rows[c][id] = "active"}

(* LookupContext orders by updated_at, a text without fixed width, so that *)
(* any active row may come first; on an error it says there is none.  A    *)
(* request that is neither stuck nor routed ends.                          *)
LookUp_Healthy(t) ==   \* mutant: stuck only to upstreams that look well
  /\ At(t, "lookup")
  /\ LET k == call[t]
         stuck == Active(k.conv) \cap Healthy
     IN  \/ \E id \in stuck : Go(t, [k EXCEPT !.step = "prepare", !.id = id])
         \/ /\ stuck = {} \/ StoreMayFail
            /\ Go(t, IF k.id = NoRoute THEN Idle ELSE [k EXCEPT !.step = "prepare"])
  /\ UNCHANGED <<ups, rows, crossed>>

LookUp_Unrouted(t) ==   \* mutant: goes on without a route
  /\ At(t, "lookup")
  /\ LET k == call[t]
         stuck == Active(k.conv)
     IN  \/ \E id \in stuck : Go(t, [k EXCEPT !.step = "prepare", !.id = id])
         \/ stuck = {} /\ Go(t, [k EXCEPT !.step = "prepare"])
  /\ UNCHANGED <<ups, rows, crossed>>

LookUp(t) ==
  /\ At(t, "lookup")
  /\ LET k == call[t]
         stuck == Active(k.conv)
     IN  \/ \E id \in stuck : Go(t, [k EXCEPT !.step = "prepare", !.id = id])
         \/ /\ stuck = {} \/ StoreMayFail
            /\ Go(t, IF k.id = NoRoute THEN Idle ELSE [k EXCEPT !.step = "prepare"])
  /\ UNCHANGED <<ups, rows, crossed>>

(* prepareSend: the upstream is still registered and the breaker lets the  *)
(* request through; a task is found or made.                               *)
Prepare(t) ==
  /\ At(t, "prepare")
  /\ call[t].id \in All
  /\ rows' = [rows EXCEPT ![call[t].conv][call[t].id] = "active"]
  /\ Go(t, Idle)
  /\ UNCHANGED <<ups, crossed>>

(* It is gone, or its breaker is open and the window not over, or a        *)
(* database call failed.                                                   *)
Refuse(t) ==
  /\ At(t, "prepare")
  /\ \/ call[t].id \notin All
     \/ call[t].id \in All /\ ups[call[t].id].status = "unhealthy"
     \/ StoreMayFail
  /\ Go(t, Idle)
  /\ UNCHANGED <<ups, rows, crossed>>

-----------------------------------------------------------------------------
(* What goes on around: module Dispatch has the tasks, modules Registry    *)
(* and Health the upstreams.                                               *)

(* The last active task of the conversation at the upstream ends.          *)
TaskOver(c, id) ==
  /\ rows[c][id] = "active"
  /\ rows' = [rows EXCEPT ![c][id] = "over"]
  /\ UNCHANGED <<ups, call, crossed>>

(* A tasks/get finds a task at work whose row said it had failed.          *)
TaskBack(t, c, id) ==
  /\ call[t] = Idle
  /\ rows[c][id] = "over"
  /\ rows' = [rows EXCEPT ![c][id] = "active"]
  /\ crossed' = IF Active(c) = {} THEN crossed ELSE crossed \cup {c}
  /\ UNCHANGED <<ups, call>>

(* Add, whose ids may be those of a removed upstream of the name.          *)
Add(id, name, prefix) ==
  /\ id \notin All
  /\ \A other \in All : ups[other].name # name
  /\ ups' = [ups EXCEPT ![id] = [name |-> name, enabled |-> TRUE,
                                 status |-> "unknown", card |-> NoCard,
                                 prefix |-> prefix]]
  /\ UNCHANGED <<rows, call, crossed>>

Remove(id) ==
  /\ id \in All
  /\ ups' = [ups EXCEPT ![id] = Absent]
  /\ UNCHANGED <<rows, call, crossed>>

(* RefreshCard, RecordSuccess, RecordFailure: whatever they find.  A fetch *)
(* that fails drops the card and makes a healthy upstream unknown.         *)
Observe(id, status, card) ==
  /\ id \in All
  /\ status = "unknown" => card = NoCard /\ ups[id].status # "unhealthy"
  /\ ups' = [ups EXCEPT ![id] = [@ EXCEPT !.status = status, !.card = card]]
  /\ UNCHANGED <<rows, call, crossed>>

Handle(t) ==
  \/ \E c \in Convs, req \in Request : Route(t, c, req)
  \/ LookUp(t) \/ Prepare(t) \/ Refuse(t)
  \/ \E c \in Convs, id \in Ids : TaskBack(t, c, id)

Registers ==
  \E id \in Ids :
    \/ \E name \in Names, prefix \in Prefixes \cup {NoPrefix} : Add(id, name, prefix)
    \/ Remove(id)
    \/ \E status \in {"unknown", "healthy", "unhealthy"},
          card \in Cards \cup {NoCard} : Observe(id, status, card)

Next ==
  \/ \E t \in Threads : Handle(t)
  \/ \E c \in Convs, id \in Ids : TaskOver(c, id)
  \/ Registers

Spec == Init /\ [][Next]_vars

-----------------------------------------------------------------------------
(* Properties.                                                             *)

(* build of card.go puts these on the composite card.                      *)
Advertised(id) == IF /\ id \in All /\ ups[id].status = "healthy"
                     /\ ups[id].card # NoCard
                  THEN ups[id].card ELSE {}

(* A skill on the composite card leads to the upstream that published it,  *)
(* under the id it has there, whatever else the message says and however   *)
(* other upstreams and their skills are called: build and Resolve agree    *)
(* about the namespace.  Names with a dot and disabled upstreams, which an *)
(* admin may have refreshed, are the exceptions.                           *)
AdvertisedSkillsRoute ==
  \A id \in Ids : \A s \in Advertised(id) :
    Len(ups[id].name) = 1 /\ ups[id].enabled =>
      \A text \in Text :
        {<<r.id, r.skill>> : r \in Resolve([skill |-> ups[id].name \o s,
                                            text  |-> text])} = {<<id, s>>}

(* When messages come one at a time, a conversation has tasks under way at *)
(* one upstream only, whatever else its messages ask for, and even if that *)
(* upstream is unhealthy, disabled or gone; unless a task that was given   *)
(* up came back.                                                           *)
OneUpstream ==
  \A c \in Convs \ crossed : \A a, b \in Active(c) : a = b

=============================================================================
