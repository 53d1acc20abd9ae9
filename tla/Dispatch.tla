------------------------------ MODULE Dispatch ------------------------------
(***************************************************************************)
(* Forwarding requests to upstreams and keeping the hub's task rows        *)
(* (internal/dispatch: SendMessage, SendMessageSubscribe, GetTask,         *)
(* CancelTask; internal/store/tasks.go).                                   *)
(*                                                                         *)
(* A hub task is a row of table tasks and, once an upstream has named a    *)
(* task of its own, a row of table task_id_map.  A request reads both,     *)
(* talks to the upstream for seconds or minutes and writes what it learnt: *)
(* there is no transaction and no lock, so the steps of two requests on    *)
(* one task interleave and late answers overwrite later ones.              *)
(*                                                                         *)
(* Routing and the breaker decide only whether a request starts, and a     *)
(* request that does not start leaves no trace here.  Every database call  *)
(* uses the request's context: it also fails when the client goes away.    *)
(***************************************************************************)
CONSTANTS
  Convs,         \* conversations: a contextId at an upstream
  HubIds,        \* hub_task_ids (uuids); bound: no more are ever made
  Remotes,       \* upstream task ids, unique at their upstream; bound
  Threads,       \* requests that may run at once
  Kinds,         \* bound: the kinds of request that clients make
  Reported,      \* bound: the states that upstreams report
  Absent, Idle, NoRemote, NoSnap,
  StoreMayFail   \* whether database calls may fail and clients leave

ASSUME DispatchAssumption ==
  /\ Kinds \subseteq {"send", "stream", "get", "cancel"}
  /\ Reported \subseteq {"submitted", "working", "completed", "failed",
                         "canceled", "other"}
  /\ StoreMayFail \in BOOLEAN
  /\ NoRemote \notin Remotes

VARIABLES
  tasks,     \* table tasks; a row's updated_at only orders Found, see there
  taskIds,   \* table task_id_map
  remotes,   \* the upstreams' own tasks
  call,      \* what each thread is in the middle of
  verdict    \* what the last step reported to the registry (module Health
             \* takes RecordSuccess and RecordFailure from there)

vars == <<tasks, taskIds, remotes, call, verdict>>

-----------------------------------------------------------------------------

(* "working" stands for "input-required" too; "other" for every string an  *)
(* upstream may send that is none of the six, and for none at all.         *)
Active == {"submitted", "working"}

Terminal == {"completed", "failed", "canceled"}

States == Active \cup Terminal \cup {"other"}

TaskRow == [conv : Convs, state : States, snap : States \cup {NoSnap}]

RemoteTask == [conv : Convs, state : States \cup {"lost"}]

(* Answers that carry no task: an HTTP error of the client's or of the     *)
(* upstream's making, the request context's end, a body that is not        *)
(* JSON-RPC or has no task, a JSON-RPC error, and the one for an unknown   *)
(* task.                                                                   *)
Errors == {"4xx", "http", "gone", "garbage", "error", "notfound"}

Call == [kind   : {"send", "stream", "get", "cancel"},
         step   : {"create", "mapping", "post", "answer", "save",
                   "relay", "event"},
         conv   : Convs,
         task   : HubIds,
         remote : Remotes \cup {NoRemote},
         answer : States \cup Errors \cup {"none"},
         mapped : BOOLEAN,     \* pipeSSE: mappedUpstreamTask is set
         seen   : BOOLEAN]     \* pipeSSE: sawTerminal

ASSUME NullAssumption ==
  Absent \notin TaskRow \cup RemoteTask /\ Idle \notin Call /\ NoSnap \notin States

TypeOK ==
  /\ tasks \in [HubIds -> TaskRow \cup {Absent}]
  /\ taskIds \in [HubIds -> Remotes \cup {NoRemote}]
  /\ remotes \in [Remotes -> RemoteTask \cup {Absent}]
  /\ call \in [Threads -> Call \cup {Idle}]
  /\ verdict \in {"none", "success", "failure"}

Init ==
  /\ tasks = [h \in HubIds |-> Absent]
  /\ taskIds = [h \in HubIds |-> NoRemote]
  /\ remotes = [r \in Remotes |-> Absent]
  /\ call = [t \in Threads |-> Idle]
  /\ verdict = "none"

At(t, step) == call[t] # Idle /\ call[t].step = step

Go(t, k) == call' = [call EXCEPT ![t] = k]

Advance(t, step) == Go(t, [call[t] EXCEPT !.step = step])

Unused(h) ==
  /\ tasks[h] = Absent
  /\ \A t \in Threads : call[t] # Idle => call[t].task # h

(* UpdateTaskSnapshot: UPDATE .. WHERE hub_task_id = ?; its error is       *)
(* dropped.                                                                *)
Written_Swapped(h, s, snap) ==   \* mutant: the arguments change places
  IF tasks[h] = Absent THEN tasks
  ELSE [tasks EXCEPT ![h].state = snap, ![h].snap = s]

Written(h, s, snap) ==
  IF tasks[h] = Absent THEN tasks
  ELSE [tasks EXCEPT ![h].state = s, ![h].snap = snap]

UpdateTaskSnapshot(h, s, snap) ==
  tasks' = Written(h, s, snap) \/ (StoreMayFail /\ tasks' = tasks)

(* MapTaskID: ON CONFLICT(hub_task_id) it overwrites; a foreign key needs  *)
(* the task row, UNIQUE(upstream_id, upstream_task_id) a free upstream id. *)
Mappable(h, r) ==
  tasks[h] # Absent /\ \A g \in HubIds \ {h} : taskIds[g] # r

-----------------------------------------------------------------------------
(* prepareSend.                                                            *)

(* LookupHubTaskByContext: any active row of the conversation.  The code   *)
(* orders them by updated_at, a text without fixed width (RFC3339Nano), so *)
(* the row it takes need not be the latest.                                *)
Found_AnyState(c) ==   \* mutant: finished tasks are found too
  {h \in HubIds : tasks[h] # Absent /\ tasks[h].conv = c}

Found_AnyConv(c) ==   \* mutant: looks up by upstream alone
  {h \in HubIds : tasks[h] # Absent /\ tasks[h].state \in Active}

Found(c) == {h \in HubIds : /\ tasks[h] # Absent
                            /\ tasks[h].conv = c
                            /\ tasks[h].state \in Active}

Prepared(t, kind, step, c, h) ==
  Go(t, [kind |-> kind, step |-> step, conv |-> c, task |-> h,
         remote |-> NoRemote, answer |-> "none",
         mapped |-> FALSE, seen |-> FALSE])

Accept(t, kind, c) ==
  /\ call[t] = Idle
  /\ \/ \E h \in Found(c) : Prepared(t, kind, "post", c, h)
     \/ /\ Found(c) = {} \/ StoreMayFail
        /\ \E h \in HubIds : Unused(h) /\ Prepared(t, kind, "create", c, h)
  /\ verdict' = "none"
  /\ UNCHANGED <<tasks, taskIds, remotes>>

CreateTask(t) ==
  /\ At(t, "create")
  /\ LET k == call[t]
     IN  tasks' = [tasks EXCEPT ![k.task] = [conv |-> k.conv,
                                             state |-> "submitted",
                                             snap |-> NoSnap]]
  /\ Advance(t, "post")
  /\ verdict' = "none"
  /\ UNCHANGED <<taskIds, remotes>>

(* The insert fails, and the request with it; or the check whether there   *)
(* is a row fails, and the request goes on without one.                    *)
CreateFails(t) ==
  /\ StoreMayFail
  /\ At(t, "create")
  /\ Go(t, Idle) \/ Advance(t, "post")
  /\ verdict' = "none"
  /\ UNCHANGED <<tasks, taskIds, remotes>>

-----------------------------------------------------------------------------
(* The upstream, as far as the hub can tell: it works on its tasks, gives  *)
(* the next message of a conversation to a task that is live in it or to a *)
(* new one, never goes back on a terminal state, and may restart and lose  *)
(* what it had.                                                            *)

Live(r) == remotes[r] # Absent /\ remotes[r].state \in States \ Terminal

Takes(c, r) == remotes[r] = Absent \/ (Live(r) /\ remotes[r].conv = c)

Works ==
  /\ \E r \in Remotes :
       /\ Live(r)
       /\ \E s \in Reported \ {"submitted"} :
            remotes' = [remotes EXCEPT ![r].state = s]
  /\ verdict' = "none"
  /\ UNCHANGED <<tasks, taskIds, call>>

Forgets ==
  /\ remotes' = [r \in Remotes |-> IF remotes[r] = Absent THEN Absent
                                   ELSE [remotes[r] EXCEPT !.state = "lost"]]
  /\ verdict' = "none"
  /\ UNCHANGED <<tasks, taskIds, call>>

Failures == {"4xx", "http", "garbage", "error"}
            \cup (IF StoreMayFail THEN {"gone"} ELSE {})

-----------------------------------------------------------------------------
(* SendMessage.                                                            *)

(* The upstream takes the message; what it answers is on its way, or an    *)
(* error takes its place.                                                  *)
Served(t) ==
  /\ At(t, "post")
  /\ call[t].kind = "send"
  /\ \E r \in Remotes, s \in Reported, a \in Reported \cup (Failures \ {"4xx"}) :
       /\ Takes(call[t].conv, r)
       /\ a \in States => a = s
       /\ remotes' = [remotes EXCEPT ![r] = [conv |-> call[t].conv, state |-> s]]
       /\ Go(t, [call[t] EXCEPT !.step = "answer", !.remote = r, !.answer = a])
  /\ verdict' = "none"
  /\ UNCHANGED <<tasks, taskIds>>

Refused(t) ==
  /\ At(t, "post")
  /\ call[t].kind = "send"
  /\ \E a \in Failures :
       Go(t, [call[t] EXCEPT !.step = "answer", !.answer = a])
  /\ verdict' = "none"
  /\ UNCHANGED <<tasks, taskIds, remotes>>

(* No task in the answer.  An end of the request's context counts against  *)
(* the upstream and leaves the row as it was, like garbage does.           *)
SendFails_Snapshot(t) ==   \* mutant: caches a task it made up
  /\ At(t, "answer")
  /\ call[t].kind = "send"
  /\ call[t].answer \in Errors
  /\ UpdateTaskSnapshot(call[t].task, "failed", "failed")
  /\ verdict' = IF call[t].answer \in {"http", "gone", "garbage"}
                THEN "failure" ELSE "none"
  /\ Go(t, Idle)
  /\ UNCHANGED <<taskIds, remotes>>

SendFails(t) ==
  /\ At(t, "answer")
  /\ call[t].kind = "send"
  /\ call[t].answer \in Errors
  /\ IF call[t].answer \in {"4xx", "http", "error"}
     THEN UpdateTaskSnapshot(call[t].task, "failed", NoSnap)
     ELSE UNCHANGED tasks
  /\ verdict' = IF call[t].answer \in {"http", "gone", "garbage"}
                THEN "failure" ELSE "none"
  /\ Go(t, Idle)
  /\ UNCHANGED <<taskIds, remotes>>

SendMapped(t) ==
  /\ At(t, "answer")
  /\ call[t].kind = "send"
  /\ call[t].answer \in States
  /\ Mappable(call[t].task, call[t].remote)
  /\ taskIds' = [taskIds EXCEPT ![call[t].task] = call[t].remote]
  /\ Advance(t, "save")
  /\ verdict' = "none"
  /\ UNCHANGED <<tasks, remotes>>

(* The mapping violates a constraint of the table, or the call fails: the  *)
(* upstream's answer is dropped and the client gets an error.              *)
SendUnmapped(t) ==
  /\ At(t, "answer")
  /\ call[t].kind = "send"
  /\ call[t].answer \in States
  /\ StoreMayFail \/ ~Mappable(call[t].task, call[t].remote)
  /\ Go(t, Idle)
  /\ verdict' = "none"
  /\ UNCHANGED <<tasks, taskIds, remotes>>

SendSaved(t) ==
  /\ At(t, "save")
  /\ UpdateTaskSnapshot(call[t].task, call[t].answer, call[t].answer)
  /\ verdict' = "success"
  /\ Go(t, Idle)
  /\ UNCHANGED <<taskIds, remotes>>

-----------------------------------------------------------------------------
(* SendMessageSubscribe and pipeSSE.                                       *)

StreamConnected(t) ==
  /\ At(t, "post")
  /\ call[t].kind = "stream"
  /\ \E r \in Remotes, s \in Reported :
       /\ Takes(call[t].conv, r)
       /\ remotes' = [remotes EXCEPT ![r] = [conv |-> call[t].conv, state |-> s]]
       /\ Go(t, [call[t] EXCEPT !.step = "relay", !.remote = r])
  /\ verdict' = "success"
  /\ UNCHANGED <<tasks, taskIds>>

(* Whatever the error, a 4xx among them, it counts; the row stays.  The    *)
(* upstream may have taken the message all the same.                       *)
StreamRefused(t) ==
  /\ At(t, "post")
  /\ call[t].kind = "stream"
  /\ \/ UNCHANGED remotes
     \/ \E r \in Remotes, s \in Reported :
          /\ Takes(call[t].conv, r)
          /\ remotes' = [remotes EXCEPT ![r] = [conv |-> call[t].conv,
                                               state |-> s]]
  /\ \E a \in Failures \ {"garbage", "error"} :
       Go(t, [call[t] EXCEPT !.step = "answer", !.answer = a])
  /\ verdict' = "none"
  /\ UNCHANGED <<tasks, taskIds>>

StreamFails(t) ==
  /\ At(t, "answer")
  /\ call[t].kind = "stream"
  /\ verdict' = "failure"
  /\ Go(t, Idle)
  /\ UNCHANGED <<tasks, taskIds, remotes>>

(* The next event: a status (a terminal one may be repeated, not undone)   *)
(* or, "none", an artifact.  The first that names the upstream's task is   *)
(* mapped; an error of that is dropped.  An artifact that maps nothing     *)
(* changes nothing and is left out.                                        *)
Emits(r) ==
  IF Live(r) THEN Reported
  ELSE {remotes[r].state} \ {"lost"}

Relay(t) ==
  /\ At(t, "relay")
  /\ \E s \in Emits(call[t].remote) \cup {"none"}, named \in BOOLEAN :
       LET k == call[t]
           maps == named /\ ~k.mapped
       IN  /\ s # "none" \/ maps
           /\ remotes' = IF s = "none" THEN remotes
                         ELSE [remotes EXCEPT ![k.remote].state = s]
           /\ \/ /\ maps /\ Mappable(k.task, k.remote)
                 /\ taskIds' = [taskIds EXCEPT ![k.task] = k.remote]
              \/ /\ ~maps \/ ~Mappable(k.task, k.remote) \/ StoreMayFail
                 /\ taskIds' = taskIds
           /\ Go(t, [k EXCEPT !.step = "event", !.answer = s,
                              !.mapped = @ \/ maps])
  /\ verdict' = "none"
  /\ UNCHANGED tasks

(* The row is updated, then the event goes to the client.                  *)
Relayed(t) ==
  /\ At(t, "event")
  /\ LET k == call[t]
     IN  /\ IF k.answer = "none" THEN UNCHANGED tasks
            ELSE UpdateTaskSnapshot(k.task, k.answer, NoSnap)
         /\ Go(t, [k EXCEPT !.step = "relay", !.answer = "none",
                            !.seen = @ \/ k.answer \in Terminal])
  /\ verdict' = "none"
  /\ UNCHANGED <<taskIds, remotes>>

(* The upstream closes the stream or the connection breaks: unless a       *)
(* terminal event went by, the hub makes one up.                           *)
StreamEnds(t) ==
  /\ At(t, "relay")
  /\ IF call[t].seen THEN UNCHANGED tasks
     ELSE UpdateTaskSnapshot(call[t].task, "failed", NoSnap)
  /\ Go(t, Idle)
  /\ verdict' = "none"
  /\ UNCHANGED <<taskIds, remotes>>

(* The client leaves: the stream ends silently.                            *)
StreamGone(t) ==
  /\ StoreMayFail
  /\ At(t, "relay")
  /\ Go(t, Idle)
  /\ verdict' = "none"
  /\ UNCHANGED <<tasks, taskIds, remotes>>

-----------------------------------------------------------------------------
(* GetTask and CancelTask.                                                 *)

(* A terminal row with a snapshot is answered from the row.                *)
Cached_Terminal(h) == tasks[h].state \in Terminal   \* mutant: or without one

Cached(h) == tasks[h].state \in Terminal /\ tasks[h].snap # NoSnap

GetTask(t, h) ==
  /\ call[t] = Idle
  /\ tasks[h] # Absent
  /\ ~Cached(h)
  /\ Prepared(t, "get", "mapping", tasks[h].conv, h)
  /\ verdict' = "none"
  /\ UNCHANGED <<tasks, taskIds, remotes>>

CancelTask(t, h) ==
  /\ call[t] = Idle
  /\ tasks[h] # Absent
  /\ Prepared(t, "cancel", "mapping", tasks[h].conv, h)
  /\ verdict' = "none"
  /\ UNCHANGED <<tasks, taskIds, remotes>>

(* LookupUpstreamTaskID; with no mapping, or the upstream no longer        *)
(* registered, the request ends.                                           *)
LookedUp(t) ==
  /\ At(t, "mapping")
  /\ taskIds[call[t].task] # NoRemote
  /\ Go(t, [call[t] EXCEPT !.step = "post",
                           !.remote = taskIds[call[t].task]])
  /\ verdict' = "none"
  /\ UNCHANGED <<tasks, taskIds, remotes>>

GivesUp(t) ==
  /\ At(t, "mapping")
  /\ taskIds[call[t].task] = NoRemote \/ StoreMayFail
  /\ Go(t, Idle)
  /\ verdict' = "none"
  /\ UNCHANGED <<tasks, taskIds, remotes>>

(* The upstream answers with the task as it is; a cancel ends a live task, *)
(* if the upstream will.                                                   *)
Reports(t) ==
  /\ At(t, "post")
  /\ call[t].kind \in {"get", "cancel"}
  /\ LET k == call[t]
         s == remotes[k.remote].state
     IN  \/ /\ k.kind = "cancel" /\ Live(k.remote)
            /\ remotes' = [remotes EXCEPT ![k.remote].state = "canceled"]
            /\ Go(t, [k EXCEPT !.step = "answer", !.answer = "canceled"])
         \/ /\ Go(t, [k EXCEPT !.step = "answer",
                               !.answer = IF s = "lost" THEN "notfound" ELSE s])
            /\ UNCHANGED remotes
         \/ /\ \E a \in Failures : Go(t, [k EXCEPT !.step = "answer", !.answer = a])
            /\ UNCHANGED remotes
  /\ verdict' = "none"
  /\ UNCHANGED <<tasks, taskIds>>

(* forwardTaskCall: RecordSuccess, and the row takes the answer.           *)
Refreshed(t) ==
  /\ At(t, "answer")
  /\ call[t].kind \in {"get", "cancel"}
  /\ call[t].answer \in States
  /\ UpdateTaskSnapshot(call[t].task, call[t].answer, call[t].answer)
  /\ verdict' = "success"
  /\ Go(t, Idle)
  /\ UNCHANGED <<taskIds, remotes>>

(* A task the upstream does not know counts as canceled.                   *)
CanceledLocally(t) ==
  /\ At(t, "answer")
  /\ call[t].kind = "cancel"
  /\ call[t].answer = "notfound"
  /\ UpdateTaskSnapshot(call[t].task, "canceled", NoSnap)
  /\ verdict' = "none"
  /\ Go(t, Idle)
  /\ UNCHANGED <<taskIds, remotes>>

ForwardFails(t) ==
  /\ At(t, "answer")
  /\ call[t].kind \in {"get", "cancel"}
  /\ call[t].answer \in Errors
  /\ ~(call[t].kind = "cancel" /\ call[t].answer = "notfound")
  /\ verdict' = IF call[t].answer \in {"4xx", "http", "gone", "garbage"}
                THEN "failure" ELSE "none"
  /\ Go(t, Idle)
  /\ UNCHANGED <<tasks, taskIds, remotes>>

-----------------------------------------------------------------------------

(* The hub stops; its database stays.                                      *)
Crash ==
  /\ call' = [t \in Threads |-> Idle]
  /\ verdict' = "none"
  /\ UNCHANGED <<tasks, taskIds, remotes>>

Begin(t) ==
  \/ \E kind \in Kinds \cap {"send", "stream"}, c \in Convs : Accept(t, kind, c)
  \/ "get" \in Kinds /\ \E h \in HubIds : GetTask(t, h)
  \/ "cancel" \in Kinds /\ \E h \in HubIds : CancelTask(t, h)

Continue(t) ==
  \/ CreateTask(t) \/ CreateFails(t)
  \/ Served(t) \/ Refused(t)
  \/ SendFails(t) \/ SendMapped(t) \/ SendUnmapped(t) \/ SendSaved(t)
  \/ StreamConnected(t) \/ StreamRefused(t) \/ StreamFails(t)
  \/ Relay(t) \/ Relayed(t) \/ StreamEnds(t) \/ StreamGone(t)
  \/ LookedUp(t) \/ GivesUp(t) \/ Reports(t)
  \/ Refreshed(t) \/ CanceledLocally(t) \/ ForwardFails(t)

Next ==
  \/ \E t \in Threads : Begin(t) \/ Continue(t)
  \/ Works \/ Forgets
  \/ Crash

Spec == Init /\ [][Next]_vars

(* A request that began goes on: the unary client gives an upstream 300    *)
(* seconds; a stream may last for ever, but then it keeps taking steps.    *)
(* The client keeps asking for a task until it has a final answer.         *)
Fairness ==
  /\ \A t \in Threads : WF_vars(Continue(t))
  /\ \A h \in HubIds : SF_vars(\E t \in Threads : GetTask(t, h))

FairSpec == Spec /\ Fairness

-----------------------------------------------------------------------------
(* Properties.                                                             *)

(* A hub task stands for an upstream task of its own conversation, through *)
(* every reuse of a hub task by follow-up messages, every remapping and    *)
(* every pair of requests that look up at once: no client is shown the     *)
(* work of another conversation.                                           *)
ConversationsKept ==
  \A h \in HubIds :
    taskIds[h] # NoRemote =>
      /\ tasks[h] # Absent
      /\ remotes[taskIds[h]] # Absent
      /\ remotes[taskIds[h]].conv = tasks[h].conv

(* GetTask answers a cached task for ever after, so it must be true: it    *)
(* has the row's state, and an upstream task of the conversation really    *)
(* ended that way (unless the upstream lost it since).  No reordering of   *)
(* answers, made-up failure or local cancel may end up in the cache.       *)
CachedFinalsAreTrue ==
  \A h \in HubIds :
    tasks[h] # Absent /\ Cached(h) =>
      /\ tasks[h].snap = tasks[h].state
      /\ \E r \in Remotes : /\ remotes[r] # Absent
                            /\ remotes[r].conv = tasks[h].conv
                            /\ remotes[r].state \in {tasks[h].snap, "lost"}

(* While no two requests are about one task, a final answer that was       *)
(* cached stays: only a cancel of that task may replace it.                *)
FinalAnswersKept ==
  [][\A h \in HubIds :
       tasks[h] # Absent /\ Cached(h) =>
         \/ tasks'[h] = tasks[h]
         \/ \E t \in Threads : /\ call[t] # Idle /\ call[t].kind = "cancel"
                              /\ call[t].task = h]_vars

Ended(h) ==
  /\ taskIds[h] # NoRemote
  /\ remotes[taskIds[h]].state \in Terminal

EndedAs(h) ==
  {remotes[r].state : r \in {r \in Remotes : /\ remotes[r] # Absent
                                            /\ remotes[r].conv = tasks[h].conv}}
  \cap Terminal

PollInVain(h) ==
  \E t \in Threads : /\ call[t] # Idle /\ call[t].kind = "get"
                     /\ call[t].task = h
                     /\ ForwardFails(t) \/ GivesUp(t) \/ Crash

StreamedTo(h) == \E t \in Threads : At(t, "event") /\ call[t].task = h

Settled(h) ==
  /\ tasks[h] # Absent
  /\ tasks[h].state \in Terminal
  /\ tasks[h].snap = tasks[h].state \/ tasks[h].state \in EndedAs(h)

(* Polling finds out.  Once the upstream's task has ended, a client that   *)
(* keeps asking sees the row settle on a snapshot of an ended task (see    *)
(* CachedFinalsAreTrue) or on a state in which a task of the upstream      *)
(* ended, whatever streams, made-up failures and late answers wrote to it  *)
(* before, unless its requests go on failing or another task of the        *)
(* conversation is streamed into the row for ever.                         *)
PollingConverges ==
  \A h \in HubIds :
    \/ []<>~Ended(h)
    \/ []<><<PollInVain(h)>>_vars
    \/ []<>StreamedTo(h)
    \/ <>[]Settled(h)

(* What a comment says and the code does not do.                           *)

(* Comment of prepareSend: a hub task is reused so that "we don't violate  *)
(* UNIQUE(upstream_id, upstream_task_id)".                                 *)
MappingNeverConflicts ==
  \A t \in Threads :
    At(t, "answer") /\ call[t].kind = "send" /\ call[t].answer \in States
      => Mappable(call[t].task, call[t].remote)

=============================================================================
