---------------------------- MODULE RouterProofs ----------------------------
(***************************************************************************)
(* Two facts about Router, for any number of upstreams, names, skills,     *)
(* prefixes and conversations: the composite card's skill ids lead where   *)
(* they should, and a conversation keeps to one upstream while its         *)
(* messages come one at a time.                                            *)
(***************************************************************************)
EXTENDS Router, SequenceTheorems, TLAPS

(* GetByName and ByName rely on it.                                        *)
UniqueNames == \A a, b \in All : ups[a].name = ups[b].name => a = b

(* A message that is about to start a task goes where its conversation     *)
(* has its tasks, if it has any.                                           *)
Lodged ==
  \A t \in Threads :
    call[t] # Idle /\ call[t].step = "prepare" /\ call[t].conv \notin crossed
      => Active(call[t].conv) \subseteq {call[t].id}

RouterInv == TypeOK /\ UniqueNames

SerialInv == RouterInv /\ Lodged /\ OneUpstream

-----------------------------------------------------------------------------

(* The initial states satisfy the invariants.                              *)
LEMMA SerialInvInit ==
  ASSUME Init
  PROVE  SerialInv
  <1>1. TypeOK
    BY NullAssumption DEF Init, TypeOK
  <1>2. UniqueNames
    BY DEF Init, UniqueNames
  <1>3. Lodged /\ OneUpstream
    BY DEF Init, Lodged, OneUpstream, Active
  <1>4. QED BY <1>1, <1>2, <1>3 DEF SerialInv, RouterInv

(* A request that goes on is a well-formed one.                            *)
LEMMA GoType ==
  ASSUME TypeOK, NEW t \in Threads, NEW k \in Call \cup {Idle}, Go(t, k),
         k # Idle /\ k.step = "prepare" => k.id \in Ids,
         rows' \in [Convs -> [Ids -> {"none", "active", "over"}]],
         ups' = ups, crossed' \subseteq Convs
  PROVE  TypeOK'
  BY DEF TypeOK, Go

(* Types and unique names survive every step.                              *)
LEMMA RouterInvNext ==
  ASSUME RouterInv, [Next]_vars
  PROVE  RouterInv'
  <1> USE DEF RouterInv
  <1>1. ASSUME NEW t \in Threads, NEW c \in Convs, NEW req \in Request,
               Route(t, c, req)
        PROVE  RouterInv'
    <2>1. PICK id \in Ids \cup {NoRoute} :
            Go(t, [conv |-> c, step |-> "lookup", id |-> id])
      <3>1. {r.id : r \in Resolve(req)} \subseteq Ids
        BY DEF Resolve, ByNamespace, ByUniqueSkill, ByMention, ByPrefix,
               Resolution, All, Healthy
      <3>2. QED BY <1>1, <3>1 DEF Route
    <2>2. TypeOK'
      BY <1>1, <2>1, GoType DEF Route, Call, TypeOK
    <2>3. UniqueNames'
      BY <1>1 DEF Route, UniqueNames, All
    <2>4. QED BY <2>2, <2>3
  <1>2. ASSUME NEW t \in Threads, LookUp(t)
        PROVE  RouterInv'
    <2>1. call[t] \in Call
      BY <1>2 DEF LookUp, At, TypeOK
    <2>2. PICK k \in Call \cup {Idle} :
            Go(t, k) /\ (k # Idle /\ k.step = "prepare" => k.id \in Ids)
      <3>1. \A id \in Ids : [call[t] EXCEPT !.step = "prepare", !.id = id] \in Call
        BY <2>1 DEF Call
      <3>2. [call[t] EXCEPT !.step = "prepare"] \in Call
        BY <2>1 DEF Call
      <3>3. Active(call[t].conv) \subseteq Ids
        BY DEF Active
      <3>4. CASE \E id \in Active(call[t].conv) :
                   Go(t, [call[t] EXCEPT !.step = "prepare", !.id = id])
        BY <2>1, <3>1, <3>3, <3>4 DEF Call
      <3>5. CASE Go(t, IF call[t].id = NoRoute THEN Idle
                       ELSE [call[t] EXCEPT !.step = "prepare"])
        BY <2>1, <3>2, <3>5 DEF Call
      <3>6. QED BY <1>2, <3>4, <3>5 DEF LookUp
    <2>3. TypeOK'
      BY <1>2, <2>2, GoType DEF LookUp, TypeOK
    <2>4. UniqueNames'
      BY <1>2 DEF LookUp, UniqueNames, All
    <2>5. QED BY <2>3, <2>4
  <1>3. ASSUME NEW t \in Threads, Prepare(t)
        PROVE  RouterInv'
    <2>1. call[t] \in Call
      BY <1>3 DEF Prepare, At, TypeOK
    <2>2. rows' \in [Convs -> [Ids -> {"none", "active", "over"}]]
      BY <1>3, <2>1 DEF Prepare, TypeOK, Call, All
    <2>3. TypeOK'
      BY <1>3, <2>2, GoType DEF Prepare, TypeOK
    <2>4. UniqueNames'
      BY <1>3 DEF Prepare, UniqueNames, All
    <2>5. QED BY <2>3, <2>4
  <1>4. ASSUME NEW t \in Threads, Refuse(t)
        PROVE  RouterInv'
    <2>1. TypeOK'
      BY <1>4, GoType DEF Refuse, TypeOK
    <2>2. UniqueNames'
      BY <1>4 DEF Refuse, UniqueNames, All
    <2>3. QED BY <2>1, <2>2
  <1>5. ASSUME NEW c \in Convs, NEW id \in Ids,
               (\E t \in Threads : TaskBack(t, c, id)) \/ TaskOver(c, id)
        PROVE  RouterInv'
    <2>1. ups' = ups
      BY <1>5 DEF TaskBack, TaskOver
    <2>2. TypeOK'
      BY <1>5 DEF TaskBack, TaskOver, TypeOK
    <2>3. QED BY <2>1, <2>2 DEF UniqueNames, All
  <1>6. ASSUME NEW id \in Ids, NEW name \in Names,
               NEW prefix \in Prefixes \cup {NoPrefix}, Add(id, name, prefix)
        PROVE  RouterInv'
    <2>1. [name |-> name, enabled |-> TRUE, status |-> "unknown",
           card |-> NoCard, prefix |-> prefix] \in Upstream
      BY DEF Upstream
    <2>2. TypeOK'
      BY <1>6, <2>1 DEF Add, TypeOK
    <2>3. UniqueNames'
      BY <1>6, <2>1, NullAssumption DEF Add, UniqueNames, All, TypeOK, Upstream
    <2>4. QED BY <2>2, <2>3
  <1>7. ASSUME NEW id \in Ids, Remove(id)
        PROVE  RouterInv'
    BY <1>7 DEF Remove, TypeOK, UniqueNames, All
  <1>8. ASSUME NEW id \in Ids, NEW status \in {"unknown", "healthy", "unhealthy"},
               NEW card \in Cards \cup {NoCard}, Observe(id, status, card)
        PROVE  RouterInv'
    <2>1. ups[id] \in Upstream
      BY <1>8 DEF Observe, All, TypeOK
    <2>2. [ups[id] EXCEPT !.status = status, !.card = card] \in Upstream
      BY <2>1 DEF Upstream
    <2>3. ups' = [ups EXCEPT ![id] = [ups[id] EXCEPT !.status = status,
                                                     !.card = card]]
      BY <1>8 DEF Observe
    <2>4. TypeOK'
      BY <1>8, <2>2, <2>3 DEF Observe, TypeOK
    <2>5. All' = All /\ \A a \in All : ups'[a].name = ups[a].name
      <3>1. ups'[id].name = ups[id].name /\ ups'[id] # Absent
        BY <2>1, <2>2, <2>3, NullAssumption DEF TypeOK, Upstream
      <3>2. \A a \in Ids \ {id} : ups'[a] = ups[a]
        BY <2>3 DEF TypeOK
      <3>3. QED BY <1>8, <3>1, <3>2 DEF Observe, All
    <2>6. UniqueNames'
      BY <2>5 DEF UniqueNames
    <2>7. QED BY <2>4, <2>6
  <1>9. CASE UNCHANGED vars
    BY <1>9 DEF vars, TypeOK, UniqueNames, All
  <1>10. QED
    BY <1>1, <1>2, <1>3, <1>4, <1>5, <1>6, <1>7, <1>8, <1>9
       DEF Next, Handle, Registers

-----------------------------------------------------------------------------
(* The namespace.                                                          *)

(* Cutting an id at its first dot undoes what the composite card joined,   *)
(* if the name has no dot.                                                 *)
LEMMA CutJoined ==
  ASSUME NEW name \in Names, NEW s \in Skills, Len(name) = 1
  PROVE  /\ name \o s # NoSkill /\ Len(name \o s) >= 2
         /\ Cut(name \o s) = [name |-> name, rest |-> s]
  <1>1. name \in Seq(STRING) /\ s \in Seq(STRING) /\ s # <<>>
    BY RouterAssumption DEF Segmented
  <1>2. name \o s \in Seq(STRING) /\ Len(name \o s) = 1 + Len(s)
    <2>1. Len(name \o s) = Len(name) + Len(s) /\ name \o s \in Seq(STRING)
      BY <1>1, ConcatProperties, Zenon
    <2>2. QED BY <2>1
  <1>3. Len(s) >= 1
    BY <1>1
  <1>4. name = <<name[1]>> /\ Head(name \o s) = name[1]
    <2>1. name = <<name[1]>>
      BY <1>1
    <2>2. (name \o s)[1] = name[1]
      BY <1>1, ConcatProperties
    <2>3. QED BY <1>2, <2>1, <2>2
  <1>5. Tail(name \o s) = s
    BY <1>1, <1>2, <1>3
  <1>6. Cut(name \o s) = [name |-> name, rest |-> s]
    BY <1>4, <1>5 DEF Cut
  <1>7. name \o s # NoSkill
    BY <1>2, RouterAssumption
  <1>8. QED
    <2>1. Len(name \o s) >= 2
      BY <1>1, <1>2, <1>3
    <2>2. QED BY <1>6, <1>7, <2>1

(* What the card builder advertises is what Resolve understands.           *)
LEMMA NamespaceSound ==
  ASSUME RouterInv
  PROVE  AdvertisedSkillsRoute
  <1> SUFFICES ASSUME NEW id \in Ids, NEW s \in Advertised(id),
                      Len(ups[id].name) = 1, ups[id].enabled,
                      NEW text \in Text
               PROVE  {<<r.id, r.skill>> :
                         r \in Resolve([skill |-> ups[id].name \o s,
                                        text |-> text])} = {<<id, s>>}
    BY DEF AdvertisedSkillsRoute
  <1> DEFINE req == [skill |-> ups[id].name \o s, text |-> text]
  <1>1. id \in All /\ ups[id] \in Upstream /\ s \in Skills
    BY RouterAssumption DEF RouterInv, TypeOK, Advertised, All, Upstream
  <1>2. ups[id].name \in Names
    BY <1>1 DEF Upstream
  <1>3. /\ req.skill # NoSkill /\ Len(req.skill) >= 2
        /\ Cut(req.skill).name = ups[id].name /\ Cut(req.skill).rest = s
    <2>1. req.skill = ups[id].name \o s
      OBVIOUS
    <2>2. /\ req.skill # NoSkill /\ Len(req.skill) >= 2
          /\ Cut(req.skill) = [name |-> ups[id].name, rest |-> s]
      BY <1>1, <1>2, <2>1, CutJoined
    <2>3. QED BY <2>2
  <1>4. {other \in All : ups[other].name = ups[id].name /\ ups[other].enabled}
          = {id}
    BY <1>1 DEF RouterInv, UniqueNames
  <1>5. Len(req.skill) \in Nat
    BY <1>1, <1>2, RouterAssumption DEF Segmented
  <1>6. ByNamespace(req) = {Resolution(id, s, "skill")}
    BY <1>3, <1>4, <1>5 DEF ByNamespace
  <1>7. Resolve(req) = {Resolution(id, s, "skill")}
    BY <1>6 DEF Resolve
  <1>8. \A r \in Resolve(req) : r.id = id /\ r.skill = s
    BY <1>7 DEF Resolution
  <1>9. Resolve(req) # {}
    BY <1>7
  <1>10. QED
    <2>1. {<<r.id, r.skill>> : r \in Resolve(req)} = {<<id, s>>}
      <3>1. \A x : x \in {<<r.id, r.skill>> : r \in Resolve(req)} <=> x = <<id, s>>
        BY <1>8, <1>9
      <3>2. QED BY <3>1
    <2>2. QED BY <2>1

(* For any registry, names, skills and texts: a skill on the composite     *)
(* card leads to the upstream that published it.                           *)
THEOREM AdvertisedSkillsLead == Spec => []AdvertisedSkillsRoute
  <1>1. Init => RouterInv
    BY SerialInvInit DEF SerialInv
  <1>2. RouterInv /\ [Next]_vars => RouterInv'
    BY RouterInvNext
  <1>3. RouterInv => AdvertisedSkillsRoute
    BY NamespaceSound
  <1>4. QED BY <1>1, <1>2, <1>3, PTL DEF Spec

(* Types, for any number of concurrent requests.                           *)
THEOREM RouterTypeCorrect == Spec => []TypeOK
  <1>1. Init => RouterInv
    BY SerialInvInit DEF SerialInv
  <1>2. RouterInv /\ [Next]_vars => RouterInv'
    BY RouterInvNext
  <1>3. RouterInv => TypeOK
    BY DEF RouterInv
  <1>4. QED BY <1>1, <1>2, <1>3, PTL DEF Spec

-----------------------------------------------------------------------------
(* Conversations.                                                          *)

Serial == (\A s, t \in Threads : s = t) /\ ~StoreMayFail

(* Active looks at the rows only.                                          *)
LEMMA ActiveKept ==
  ASSUME rows' = rows
  PROVE  \A c : Active(c)' = Active(c)
  BY DEF Active

(* Only rows, requests and crossed matter.                                 *)
LEMMA ConversationsUntouched ==
  ASSUME Lodged, OneUpstream, UNCHANGED <<rows, call, crossed>>
  PROVE  (Lodged /\ OneUpstream)'
  <1>1. OneUpstream'
    BY ActiveKept DEF OneUpstream
  <1>2. Lodged'
    <2> SUFFICES ASSUME NEW t \in Threads, NEW d, call[t] # Idle,
                        call[t].step = "prepare", d = call[t].conv,
                        d \notin crossed
                 PROVE  Active(d)' \subseteq {call[t].id}
      BY DEF Lodged
    <2>1. Active(d) \subseteq {call[t].id}
      BY DEF Lodged
    <2>2. QED BY <2>1, ActiveKept
  <1>3. QED BY <1>1, <1>2

(* Where the tasks of conversations are and which messages are under way   *)
(* decide about both halves of the invariant.                              *)
LEMMA SerialInvNext ==
  ASSUME Serial, SerialInv, [Next]_vars
  PROVE  SerialInv'
  <1> USE DEF SerialInv
  <1>1. RouterInv'
    BY RouterInvNext
  <1>2. TypeOK
    BY DEF RouterInv
  <1>3. ASSUME NEW t \in Threads, NEW c \in Convs, NEW req \in Request,
               Route(t, c, req)
        PROVE  (Lodged /\ OneUpstream)'
    <2>1. PICK k : k.step = "lookup" /\ call' = [call EXCEPT ![t] = k]
      BY <1>3 DEF Route, Go
    <2>2. QED
      BY <1>2, <1>3, <2>1 DEF Route, TypeOK, Lodged, OneUpstream, Active
  <1>4. ASSUME NEW t \in Threads, LookUp(t)
        PROVE  (Lodged /\ OneUpstream)'
    <2>0. PICK c \in Convs : c = call[t].conv
      BY <1>2, <1>4 DEF LookUp, At, TypeOK, Call
    <2>1. call[t] \in Call
      BY <1>2, <1>4 DEF LookUp, At, TypeOK
    <2>2. rows' = rows /\ crossed' = crossed
      BY <1>4 DEF LookUp
    <2>3. call'[t] # Idle /\ call'[t].step = "prepare"
            => /\ call'[t].conv = c
               /\ c \notin crossed => Active(c) \subseteq {call'[t].id}
      <3>1. CASE \E id \in Active(c) :
                   Go(t, [call[t] EXCEPT !.step = "prepare", !.id = id])
        <4>1. PICK id \in Active(c) :
                call' = [call EXCEPT ![t] = [call[t] EXCEPT !.step = "prepare",
                                                            !.id = id]]
          BY <3>1 DEF Go
        <4>2. call'[t] = [call[t] EXCEPT !.step = "prepare", !.id = id]
          BY <1>2, <4>1 DEF TypeOK
        <4>3. call'[t].conv = c /\ call'[t].id = id
          BY <2>0, <2>1, <4>2 DEF Call
        <4>4. c \notin crossed => Active(c) \subseteq {id}
          BY <2>1, <4>1 DEF OneUpstream
        <4>5. QED BY <4>3, <4>4
      <3>2. CASE /\ Active(c) = {}
                 /\ Go(t, IF call[t].id = NoRoute THEN Idle
                          ELSE [call[t] EXCEPT !.step = "prepare"])
        <4>1. call'[t] = Idle \/ call'[t] = [call[t] EXCEPT !.step = "prepare"]
          BY <1>2, <3>2 DEF Go, TypeOK
        <4>2. QED BY <2>0, <2>1, <3>2, <4>1 DEF Call
      <3>3. QED BY <1>4, <2>0, <3>1, <3>2 DEF LookUp, Serial
    <2>4. Active(c)' = Active(c) /\ OneUpstream'
      BY <2>2, ActiveKept DEF OneUpstream
    <2>5. Lodged'
      <3> SUFFICES ASSUME NEW s \in Threads, NEW d, call'[s] # Idle,
                          call'[s].step = "prepare", d = call'[s].conv,
                          d \notin crossed'
                   PROVE  Active(d)' \subseteq {call'[s].id}
        BY DEF Lodged
      <3>1. s = t
        BY DEF Serial
      <3>2. d = c
        BY <2>3, <3>1
      <3>3. QED BY <2>2, <2>3, <2>4, <3>1, <3>2
    <2>6. QED BY <2>4, <2>5
  <1>5. ASSUME NEW t \in Threads, Prepare(t)
        PROVE  (Lodged /\ OneUpstream)'
    <2>0. PICK c \in Convs, id \in Ids : c = call[t].conv /\ id = call[t].id
      BY <1>2, <1>5 DEF Prepare, At, TypeOK, Call, All
    <2>2. call'[t] = Idle /\ crossed' = crossed
      BY <1>2, <1>5 DEF Prepare, Go, TypeOK
    <2>3. Lodged'
      BY <2>2 DEF Lodged, Serial
    <2>4. c \notin crossed => Active(c) \subseteq {id}
      BY <1>5, <2>0 DEF Prepare, At, Lodged
    <2>5. rows' = [rows EXCEPT ![c][id] = "active"]
      BY <1>5, <2>0 DEF Prepare
    <2>6. /\ \A d \in Convs \ {c} : Active(d)' = Active(d)
          /\ Active(c)' \subseteq Active(c) \cup {id}
      BY <1>2, <2>5 DEF Active, TypeOK
    <2>7. OneUpstream'
      BY <2>2, <2>4, <2>6 DEF OneUpstream
    <2>8. QED BY <2>3, <2>7
  <1>6. ASSUME NEW t \in Threads, Refuse(t)
        PROVE  (Lodged /\ OneUpstream)'
    BY <1>2, <1>6 DEF Refuse, Go, TypeOK, Lodged, OneUpstream, Active
  <1>7. ASSUME NEW t \in Threads, NEW c \in Convs, NEW id \in Ids,
               TaskBack(t, c, id)
        PROVE  (Lodged /\ OneUpstream)'
    <2>1. \A s \in Threads : call'[s] = Idle
      BY <1>7 DEF TaskBack, Serial
    <2>2. /\ \A d \in Convs \ {c} : Active(d)' = Active(d)
          /\ Active(c)' \subseteq Active(c) \cup {id}
      BY <1>2, <1>7 DEF TaskBack, Active, TypeOK
    <2>3. OneUpstream'
      <3>1. CASE Active(c) = {}
        BY <1>7, <2>2, <3>1 DEF TaskBack, OneUpstream
      <3>2. CASE Active(c) # {}
        BY <1>7, <2>2, <3>2 DEF TaskBack, OneUpstream
      <3>3. QED BY <3>1, <3>2
    <2>4. QED BY <2>1, <2>3 DEF Lodged
  <1>8. ASSUME NEW c \in Convs, NEW id \in Ids, TaskOver(c, id)
        PROVE  (Lodged /\ OneUpstream)'
    <2>1. \A d \in Convs : Active(d)' \subseteq Active(d)
      BY <1>2, <1>8 DEF TaskOver, Active, TypeOK
    <2>2. call' = call /\ crossed' = crossed
      BY <1>8 DEF TaskOver
    <2>3. OneUpstream'
      BY <2>1, <2>2 DEF OneUpstream
    <2>4. Lodged'
      <3> SUFFICES ASSUME NEW t \in Threads, NEW d \in Convs, call[t] # Idle,
                          call[t].step = "prepare", d = call[t].conv,
                          d \notin crossed
                   PROVE  Active(d)' \subseteq {call[t].id}
        BY <1>2, <2>2 DEF Lodged, TypeOK, Call
      <3>1. Active(d) \subseteq {call[t].id}
        BY DEF Lodged
      <3>2. QED BY <2>1, <3>1
    <2>5. QED BY <2>3, <2>4
  <1>9. CASE Registers
    <2>1. UNCHANGED <<rows, call, crossed>>
      BY <1>9 DEF Registers, Add, Remove, Observe
    <2>2. QED BY <1>1, <2>1, ConversationsUntouched
  <1>10. CASE UNCHANGED vars
    BY <1>1, <1>10, ConversationsUntouched DEF vars
  <1>11. QED
    BY <1>1, <1>3, <1>4, <1>5, <1>6, <1>7, <1>8, <1>9, <1>10 DEF Next, Handle

(* For any registry and any number of conversations and upstreams: while   *)
(* messages come one at a time and the database works, a conversation has  *)
(* tasks under way at one upstream only.                                   *)
THEOREM ConversationsKeepToOne ==
  ASSUME Serial
  PROVE  Spec => []OneUpstream
  <1>1. Init => SerialInv
    BY SerialInvInit
  <1>2. SerialInv /\ [Next]_vars => SerialInv'
    BY SerialInvNext
  <1>3. SerialInv => OneUpstream
    BY DEF SerialInv
  <1>4. QED BY <1>1, <1>2, <1>3, PTL DEF Spec

=============================================================================
