--------------------------- MODULE DispatchProofs ---------------------------
(* Proofs about Dispatch: its types, that a hub task and its upstream task *)
(* belong to one conversation, and that cached final answers are true, for *)
(* any number of tasks and of requests that interleave, whatever fails.    *)
(*                                                                         *)
(* Nothing locks a row, so what a request read may be stale when it is     *)
(* used.  But a row keeps its conversation and an upstream task keeps its  *)
(* conversation and its end (RowsGrow, RemotesGrow): what matters of the   *)
(* locals of a request stays true while others write.                      *)
(*                                                                         *)
(* The last part shows that a final answer is kept, and how much (or how   *)
(* little) clients have to agree on for that: FinalAnswersStay.            *)
(***************************************************************************)
EXTENDS Dispatch, TLAPS

(* The locals of a request, as far as its further steps need them.         *)
CallOK(t) ==
  call[t] # Idle =>
    LET k == call[t] IN
    /\ tasks[k.task] # Absent => tasks[k.task].conv = k.conv
    /\ k.remote # NoRemote => /\ remotes[k.remote] # Absent
                              /\ remotes[k.remote].conv = k.conv
    /\ k.step = "create" =>
         /\ tasks[k.task] = Absent
         /\ \A u \in Threads \ {t} : call[u] # Idle => call[u].task # k.task
    /\ k.kind \in {"get", "cancel"} => /\ k.step \in {"mapping", "post", "answer"}
                                       /\ tasks[k.task] # Absent
    /\ k.kind \in {"get", "cancel"} /\ k.step # "mapping" => k.remote # NoRemote
    /\ k.step = "mapping" => k.kind \in {"get", "cancel"}
    /\ k.step \in {"relay", "event", "save"} => k.remote # NoRemote
    /\ k.step = "event" => k.answer \in States \cup {"none"}
    /\ k.step = "save" => k.answer \in States
    /\ k.step = "answer" /\ k.answer \in States => k.remote # NoRemote
    /\ k.step \in {"answer", "save"} /\ k.answer \in Terminal =>
         remotes[k.remote].state \in {k.answer, "lost"}

(* What is cached for h is how a task of its conversation ended.           *)
TrueRow(h) ==
  /\ tasks[h].snap = tasks[h].state
  /\ \E r \in Remotes : /\ remotes[r] # Absent
                        /\ remotes[r].conv = tasks[h].conv
                        /\ remotes[r].state \in {tasks[h].snap, "lost"}

(* The inductive invariant.                                                *)
IInv ==
  /\ TypeOK
  /\ \A t \in Threads : CallOK(t)
  /\ ConversationsKept
  /\ CachedFinalsAreTrue

RowsGrow ==
  \A h \in HubIds : tasks[h] # Absent =>
    tasks'[h] # Absent /\ tasks'[h].conv = tasks[h].conv

RemotesGrow ==
  \A r \in Remotes : remotes[r] # Absent =>
    /\ remotes'[r] # Absent
    /\ remotes'[r].conv = remotes[r].conv
    /\ remotes[r].state \in Terminal \cup {"lost"} =>
         remotes'[r].state \in {remotes[r].state, "lost"}

-----------------------------------------------------------------------------

LEMMA InitIInv == Init => IInv
BY NullAssumption DEF Init, IInv, TypeOK, CallOK, ConversationsKept,
                      CachedFinalsAreTrue

LEMMA StatesApart ==
  /\ "lost" \notin States /\ Terminal \subseteq States
  /\ States \cap Errors = {} /\ "none" \notin States
BY DEF States, Active, Terminal, Errors

LEMMA CachedIsTrue ==
  CachedFinalsAreTrue <=>
    \A h \in HubIds : tasks[h] # Absent /\ Cached(h) => TrueRow(h)
BY DEF CachedFinalsAreTrue, TrueRow

(* The calls of the other threads.                                         *)
LEMMA OtherCallStays ==
  ASSUME IInv, RowsGrow, RemotesGrow, NEW u \in Threads,
         call'[u] = call[u],
         call[u] # Idle /\ tasks[call[u].task] = Absent
           => tasks'[call[u].task] = Absent \/ tasks'[call[u].task].conv = call[u].conv,
         call[u] # Idle /\ call[u].step = "create" =>
           /\ tasks'[call[u].task] = Absent
           /\ \A v \in Threads \ {u} : call'[v] # Idle
                                       => call'[v].task # call[u].task
  PROVE  CallOK(u)'
<1> SUFFICES ASSUME call[u] # Idle PROVE CallOK(u)'
  BY DEF CallOK
<1> DEFINE k == call[u]
<1>1. k \in Call /\ CallOK(u)
  BY DEF IInv, TypeOK
<1>2. k.task \in HubIds /\ k.remote \in Remotes \cup {NoRemote}
  BY <1>1 DEF Call
<1>3. tasks'[k.task] # Absent => tasks'[k.task].conv = k.conv
  BY <1>1, <1>2 DEF CallOK, RowsGrow
<1>4. k.remote # NoRemote => /\ remotes'[k.remote] # Absent
                             /\ remotes'[k.remote].conv = k.conv
  BY <1>1, <1>2 DEF CallOK, RemotesGrow
<1>5. k.kind \in {"get", "cancel"} => tasks'[k.task] # Absent
  BY <1>1, <1>2 DEF CallOK, RowsGrow
<1>6. ASSUME k.step \in {"answer", "save"}, k.answer \in Terminal
      PROVE  remotes'[k.remote].state \in {k.answer, "lost"}
  <2>1. k.remote \in Remotes /\ remotes[k.remote] # Absent
        /\ remotes[k.remote].state \in {k.answer, "lost"}
    BY <1>1, <1>2, <1>6, StatesApart DEF CallOK
  <2> QED
    BY <1>6, <2>1 DEF RemotesGrow
<1> QED
  BY <1>1, <1>3, <1>4, <1>5, <1>6 DEF CallOK

(* One step of a request: whatever it changes, rows and upstream tasks     *)
(* grow, and what it caches and maps is covered by its locals.             *)
LEMMA CallStep ==
  ASSUME IInv, NEW t \in Threads, NEW k \in Call \cup {Idle}, Go(t, k),
         TypeOK', RowsGrow, RemotesGrow,
         \A h \in HubIds : tasks[h] = Absent /\ tasks'[h] # Absent =>
           call[t] # Idle /\ call[t].step = "create" /\ call[t].task = h,
         \A h \in HubIds : tasks'[h] # Absent /\ Cached(h)' =>
           tasks'[h] = tasks[h] \/ TrueRow(h)',
         \A h \in HubIds : taskIds'[h] # taskIds[h] =>
           /\ tasks[h] # Absent /\ call[t] # Idle /\ call[t].task = h
           /\ taskIds'[h] = call[t].remote,
         k # Idle => \A u \in Threads \ {t} :
           call[u] # Idle /\ call[u].step = "create" => call[u].task # k.task,
         call'[t] = k => CallOK(t)'
  PROVE  IInv'
<1>1. call'[t] = k /\ \A u \in Threads \ {t} : call'[u] = call[u]
  BY DEF Go, IInv, TypeOK
<1>2. ASSUME NEW u \in Threads \ {t} PROVE CallOK(u)'
  <2> SUFFICES ASSUME call[u] # Idle PROVE CallOK(u)'
    BY <1>1 DEF CallOK
  <2>1. call[u] \in Call /\ call[u].task \in HubIds
    BY DEF IInv, TypeOK, Call
  <2>2. tasks[call[u].task] = Absent => tasks'[call[u].task] = Absent
    BY <2>1 DEF IInv, CallOK
  <2>3. call[u].step = "create" =>
          /\ tasks'[call[u].task] = Absent
          /\ \A v \in Threads \ {u} : call'[v] # Idle
                                      => call'[v].task # call[u].task
    BY <1>1, <2>2 DEF IInv, CallOK
  <2> QED
    BY <1>1, <2>2, <2>3, OtherCallStays
<1>3. \A u \in Threads : CallOK(u)'
  BY <1>1, <1>2
<1>4. ConversationsKept'
  <2> SUFFICES ASSUME NEW h \in HubIds, taskIds'[h] # NoRemote
               PROVE  /\ tasks'[h] # Absent
                      /\ remotes'[taskIds'[h]] # Absent
                      /\ remotes'[taskIds'[h]].conv = tasks'[h].conv
    BY DEF ConversationsKept
  <2>1. taskIds'[h] \in Remotes /\ taskIds[h] \in Remotes \cup {NoRemote}
    BY DEF IInv, TypeOK
  <2>2. CASE taskIds'[h] = taskIds[h]
    BY <2>1, <2>2 DEF IInv, ConversationsKept, RowsGrow, RemotesGrow
  <2>3. CASE taskIds'[h] # taskIds[h]
    <3>1. /\ tasks[h] # Absent /\ tasks[h].conv = call[t].conv
          /\ remotes[taskIds'[h]] # Absent
          /\ remotes[taskIds'[h]].conv = call[t].conv
      BY <2>1, <2>3 DEF IInv, CallOK
    <3> QED
      BY <2>1, <3>1 DEF RowsGrow, RemotesGrow
  <2> QED
    BY <2>2, <2>3
<1>5. CachedFinalsAreTrue'
  <2> SUFFICES ASSUME NEW h \in HubIds, tasks'[h] # Absent, Cached(h)',
                      tasks'[h] = tasks[h]
               PROVE  TrueRow(h)'
    BY DEF CachedFinalsAreTrue, TrueRow
  <2>1. TrueRow(h) /\ tasks[h].snap \in Terminal
    BY DEF IInv, CachedFinalsAreTrue, TrueRow, Cached
  <2>2. PICK r \in Remotes : /\ remotes[r] # Absent
                             /\ remotes[r].conv = tasks[h].conv
                             /\ remotes[r].state \in {tasks[h].snap, "lost"}
    BY <2>1 DEF TrueRow
  <2>3. /\ remotes'[r] # Absent /\ remotes'[r].conv = tasks'[h].conv
        /\ remotes'[r].state \in {tasks'[h].snap, "lost"}
    BY <2>1, <2>2 DEF RemotesGrow
  <2> QED
    BY <2>1, <2>3 DEF TrueRow
<1> QED
  BY <1>3, <1>4, <1>5 DEF IInv

(* A write to a row, done or failed.                                       *)
LEMMA WriteRow ==
  ASSUME TypeOK, NEW h \in HubIds, NEW s \in States,
         NEW snap \in States \cup {NoSnap},
         UpdateTaskSnapshot(h, s, snap)
  PROVE  /\ tasks' \in [HubIds -> TaskRow \cup {Absent}]
         /\ RowsGrow
         /\ \A g \in HubIds : tasks[g] = Absent => tasks'[g] = Absent
         /\ \A g \in HubIds : \/ tasks'[g] = tasks[g]
                              \/ /\ g = h /\ tasks[g] # Absent
                                 /\ tasks'[g].state = s /\ tasks'[g].snap = snap
<1>1. CASE tasks' = tasks
  BY <1>1 DEF TypeOK, RowsGrow
<1>2. CASE tasks[h] # Absent /\ tasks' = [tasks EXCEPT ![h].state = s,
                                                       ![h].snap = snap]
  <2>1. tasks[h] \in TaskRow
    BY <1>2 DEF TypeOK
  <2> DEFINE row == [tasks[h] EXCEPT !.state = s, !.snap = snap]
  <2>2. /\ row \in TaskRow /\ row.conv = tasks[h].conv
        /\ row.state = s /\ row.snap = snap
    BY <2>1 DEF TaskRow
  <2>3. tasks' = [tasks EXCEPT ![h] = row]
    BY <1>2 DEF TypeOK
  <2>4. row # Absent
    BY <2>2, NullAssumption
  <2> HIDE DEF row
  <2>5. tasks'[h] = row /\ \A g \in HubIds \ {h} : tasks'[g] = tasks[g]
    BY <2>3 DEF TypeOK
  <2> QED
    BY <1>2, <2>2, <2>3, <2>4, <2>5 DEF TypeOK, RowsGrow
<1> QED
  BY <1>1, <1>2 DEF UpdateTaskSnapshot, Written

(* A request that ends, after it has perhaps written its row.              *)
LEMMA EndStep ==
  ASSUME IInv, NEW t \in Threads, call[t] # Idle, Go(t, Idle),
         UNCHANGED <<taskIds, remotes>>,
         verdict' \in {"none", "success", "failure"},
         \/ tasks' = tasks
         \/ \E s \in States, snap \in States \cup {NoSnap} :
              /\ UpdateTaskSnapshot(call[t].task, s, snap)
              /\ snap # NoSnap => /\ snap = s /\ s = call[t].answer
                                  /\ call[t].step \in {"answer", "save"}
  PROVE  IInv'
<1>1. call[t] \in Call /\ call[t].task \in HubIds /\ CallOK(t)
  BY DEF IInv, TypeOK, Call
<1>2. RemotesGrow /\ call' \in [Threads -> Call \cup {Idle}]
  BY DEF IInv, TypeOK, RemotesGrow, Go
<1>3. CASE tasks' = tasks
  <2>1. TypeOK' /\ RowsGrow
    BY <1>2, <1>3 DEF IInv, TypeOK, RowsGrow
  <2> QED
    BY <1>2, <1>3, <2>1, CallStep DEF CallOK
<1>4. ASSUME NEW s \in States, NEW snap \in States \cup {NoSnap},
             UpdateTaskSnapshot(call[t].task, s, snap),
             snap # NoSnap => /\ snap = s /\ s = call[t].answer
                              /\ call[t].step \in {"answer", "save"}
      PROVE  IInv'
  <2> DEFINE h == call[t].task
  <2>1. /\ tasks' \in [HubIds -> TaskRow \cup {Absent}]
        /\ RowsGrow
        /\ \A g \in HubIds : tasks[g] = Absent => tasks'[g] = Absent
        /\ \A g \in HubIds : \/ tasks'[g] = tasks[g]
                             \/ /\ g = h /\ tasks[g] # Absent
                                /\ tasks'[g].state = s /\ tasks'[g].snap = snap
    BY <1>1, <1>4, WriteRow DEF IInv
  <2>2. TypeOK'
    BY <1>2, <2>1 DEF IInv, TypeOK
  <2>3. ASSUME NEW g \in HubIds, tasks'[g] # Absent, Cached(g)',
               tasks'[g] # tasks[g]
        PROVE  TrueRow(g)'
    <3>1. /\ g = h /\ tasks[h] # Absent /\ tasks'[h].state = s
          /\ tasks'[h].snap = snap /\ tasks'[h].conv = tasks[h].conv
      BY <2>1, <2>3 DEF RowsGrow
    <3>2. s \in Terminal /\ snap = s /\ s = call[t].answer
          /\ call[t].step \in {"answer", "save"}
      BY <1>4, <2>3, <3>1 DEF Cached
    <3>3. /\ call[t].remote \in Remotes /\ remotes[call[t].remote] # Absent
          /\ remotes[call[t].remote].conv = tasks[h].conv
          /\ remotes[call[t].remote].state \in {s, "lost"}
      BY <1>1, <3>1, <3>2, StatesApart DEF CallOK, Call
    <3> QED
      BY <3>1, <3>2, <3>3 DEF TrueRow
  <2> QED
    BY <1>2, <2>1, <2>2, <2>3, CallStep DEF CallOK
<1> QED
  BY <1>3, <1>4

(* The ends of requests.                                                   *)
LEMMA Ends ==
  ASSUME IInv, NEW t \in Threads,
         \/ SendFails(t) \/ SendUnmapped(t) \/ SendSaved(t) \/ StreamFails(t)
         \/ StreamEnds(t) \/ StreamGone(t) \/ GivesUp(t) \/ Refreshed(t)
         \/ CanceledLocally(t) \/ ForwardFails(t)
  PROVE  IInv'
<1> USE DEF At
<1>1. /\ call[t] # Idle => call[t] \in Call /\ CallOK(t)
      /\ {"failed", "canceled"} \subseteq States
  BY DEF IInv, TypeOK, States, Terminal
<1>2. CASE SendFails(t)
  BY <1>1, <1>2, EndStep DEF SendFails
<1>3. CASE SendUnmapped(t) \/ StreamFails(t) \/ StreamGone(t) \/ GivesUp(t)
           \/ ForwardFails(t)
  BY <1>3, EndStep DEF SendUnmapped, StreamFails, StreamGone, GivesUp,
                       ForwardFails
<1>4. CASE SendSaved(t)
  <2>1. call[t].answer \in States
    BY <1>1, <1>4 DEF SendSaved, CallOK
  <2> QED
    BY <1>4, <2>1, EndStep DEF SendSaved
<1>5. CASE StreamEnds(t)
  BY <1>1, <1>5, EndStep DEF StreamEnds
<1>6. CASE Refreshed(t)
  BY <1>6, EndStep DEF Refreshed
<1>7. CASE CanceledLocally(t)
  BY <1>1, <1>7, EndStep DEF CanceledLocally
<1> QED
  BY <1>2, <1>3, <1>4, <1>5, <1>6, <1>7

-----------------------------------------------------------------------------

(* A task that is being created is held by one request only.               *)
LEMMA SameTask ==
  ASSUME IInv, NEW t \in Threads, call[t] # Idle, NEW u \in Threads \ {t},
         call[u] # Idle, call[u].step = "create"
  PROVE  call[u].task # call[t].task
BY DEF IInv, CallOK

(* A request that goes on as k without touching the tables.                *)
LEMMA MoveStep ==
  ASSUME IInv, NEW t \in Threads, NEW k \in Call, Go(t, k),
         UNCHANGED <<tasks, taskIds>>,
         remotes' \in [Remotes -> RemoteTask \cup {Absent}], RemotesGrow,
         verdict' \in {"none", "success", "failure"},
         \A u \in Threads \ {t} :
           call[u] # Idle /\ call[u].step = "create" => call[u].task # k.task,
         call'[t] = k => CallOK(t)'
  PROVE  IInv'
<1>1. TypeOK' /\ RowsGrow
  BY DEF IInv, TypeOK, Go, RowsGrow
<1> QED
  BY <1>1, CallStep

LEMMA PreparedCall ==
  ASSUME NEW t \in Threads, NEW kind \in {"send", "stream", "get", "cancel"},
         NEW step \in {"create", "post", "mapping"}, NEW c \in Convs,
         NEW h \in HubIds, Prepared(t, kind, step, c, h)
  PROVE  \E k \in Call : /\ Go(t, k) /\ k.kind = kind /\ k.step = step
                         /\ k.conv = c /\ k.task = h /\ k.remote = NoRemote
                         /\ k.answer = "none"
<1> DEFINE k == [kind |-> kind, step |-> step, conv |-> c, task |-> h,
                 remote |-> NoRemote, answer |-> "none",
                 mapped |-> FALSE, seen |-> FALSE]
<1>1. k \in Call
  BY DEF Call
<1>2. Go(t, k)
  BY DEF Prepared
<1> QED
  BY <1>1, <1>2

LEMMA BeginStep ==
  ASSUME IInv, NEW t \in Threads, Begin(t)
  PROVE  IInv'
<1>1. RemotesGrow /\ TypeOK /\ UNCHANGED <<tasks, taskIds, remotes>>
      /\ verdict' = "none" /\ call[t] = Idle
  BY DEF Begin, Accept, GetTask, CancelTask, IInv, TypeOK, RemotesGrow
<1>2. ASSUME NEW kind \in {"send", "stream"}, NEW c \in Convs, Accept(t, kind, c)
      PROVE  IInv'
  <2>1. PICK h \in HubIds, step \in {"create", "post"} :
          /\ Prepared(t, kind, step, c, h)
          /\ step = "post" => h \in Found(c)
          /\ step = "create" => Unused(h)
    BY <1>2 DEF Accept, Found
  <2>2. PICK k \in Call : /\ Go(t, k) /\ k.kind = kind /\ k.step = step
                          /\ k.conv = c /\ k.task = h /\ k.remote = NoRemote
                          /\ k.answer = "none"
    BY <2>1, PreparedCall
  <2>3. \A u \in Threads \ {t} :
          call[u] # Idle /\ call[u].step = "create" => call[u].task # h
    BY <2>1 DEF Found, Unused, IInv, CallOK
  <2>4. \A u \in Threads \ {t} : call'[u] = call[u]
    BY <1>1, <2>2 DEF Go, TypeOK
  <2>5. tasks'[h] # Absent => tasks'[h].conv = c
    BY <1>1, <2>1 DEF Found, Unused
  <2>6. step = "create" =>
          /\ tasks'[h] = Absent
          /\ \A u \in Threads \ {t} : call'[u] # Idle => call'[u].task # h
    BY <1>1, <2>1, <2>4 DEF Unused
  <2>7. call'[t] = k => CallOK(t)'
    BY <1>2, <2>2, <2>5, <2>6, StatesApart DEF CallOK
  <2> QED
    BY <1>1, <2>2, <2>3, <2>7, MoveStep DEF TypeOK
<1>3. ASSUME NEW kind \in {"get", "cancel"}, NEW h \in HubIds,
             tasks[h] # Absent, Prepared(t, kind, "mapping", tasks[h].conv, h)
      PROVE  IInv'
  <2>1. tasks[h].conv \in Convs
    BY <1>1, <1>3 DEF TypeOK, TaskRow
  <2>2. PICK k \in Call : /\ Go(t, k) /\ k.kind = kind /\ k.step = "mapping"
                          /\ k.conv = tasks[h].conv /\ k.task = h
                          /\ k.remote = NoRemote /\ k.answer = "none"
    BY <1>3, <2>1, PreparedCall
  <2>3. \A u \in Threads \ {t} :
          call[u] # Idle /\ call[u].step = "create" => call[u].task # h
    BY <1>3 DEF IInv, CallOK
  <2>4. call'[t] = k => CallOK(t)'
    BY <1>1, <1>3, <2>2, StatesApart DEF CallOK
  <2> QED
    BY <1>1, <2>2, <2>3, <2>4, MoveStep DEF TypeOK
<1> QED
  BY <1>2, <1>3 DEF Begin, GetTask, CancelTask

LEMMA CreateStep ==
  ASSUME IInv, NEW t \in Threads, CreateTask(t) \/ CreateFails(t)
  PROVE  IInv'
<1> DEFINE h == call[t].task
           k == [call[t] EXCEPT !.step = "post"]
<1>1. /\ call[t] # Idle /\ call[t].step = "create" /\ call[t] \in Call
      /\ CallOK(t) /\ h \in HubIds /\ call[t].conv \in Convs
      /\ UNCHANGED <<taskIds, remotes>> /\ verdict' = "none" /\ RemotesGrow
  BY DEF CreateTask, CreateFails, At, IInv, TypeOK, Call, RemotesGrow
<1>2. /\ k \in Call /\ k.step = "post" /\ k.task = h /\ k.conv = call[t].conv
      /\ k.kind = call[t].kind /\ k.remote = call[t].remote
      /\ k.kind \in {"send", "stream"}
  BY <1>1 DEF Call, CallOK
<1>3. CASE Go(t, Idle) /\ UNCHANGED tasks
  BY <1>1, <1>3, EndStep
<1>4. CASE Go(t, k) /\ UNCHANGED tasks
  <2>1. call'[t] = k => CallOK(t)'
    BY <1>1, <1>2, <1>4 DEF CallOK
  <2>2. \A u \in Threads \ {t} :
          call[u] # Idle /\ call[u].step = "create" => call[u].task # k.task
    BY <1>1, <1>2, SameTask
  <2> HIDE DEF k
  <2> QED
    BY <1>1, <1>2, <1>4, <2>1, <2>2, MoveStep DEF IInv, TypeOK
<1>5. CASE CreateTask(t)
  <2> DEFINE row == [conv |-> call[t].conv, state |-> "submitted",
                     snap |-> NoSnap]
  <2>1. row \in TaskRow /\ row.conv = call[t].conv /\ row.state = "submitted"
    BY <1>1 DEF TaskRow, States, Active
  <2>2. tasks' = [tasks EXCEPT ![h] = row] /\ Go(t, k)
    BY <1>5 DEF CreateTask, Advance
  <2> HIDE DEF row, k
  <2>3. /\ tasks'[h] = row /\ \A g \in HubIds \ {h} : tasks'[g] = tasks[g]
        /\ tasks[h] = Absent
    BY <1>1, <2>2 DEF IInv, TypeOK, CallOK
  <2>4. TypeOK' /\ RowsGrow
    BY <1>1, <1>2, <2>1, <2>2, <2>3 DEF IInv, TypeOK, Go, RowsGrow
  <2>5. call'[t] = k => CallOK(t)'
    BY <1>1, <1>2, <2>1, <2>3 DEF CallOK
  <2>6. \A g \in HubIds : tasks'[g] # Absent /\ Cached(g)' => tasks'[g] = tasks[g]
    BY <2>1, <2>3 DEF Cached, Terminal
  <2>7. \A u \in Threads \ {t} :
          call[u] # Idle /\ call[u].step = "create" => call[u].task # k.task
    BY <1>1, <1>2, SameTask
  <2> QED
    BY <1>1, <1>2, <2>2, <2>3, <2>4, <2>5, <2>6, <2>7, CallStep
<1> QED
  BY <1>3, <1>4, <1>5 DEF CreateFails, Advance

-----------------------------------------------------------------------------
(* What the upstream does with its tasks.                                  *)

(* It takes a message of conversation c into task r.                       *)
LEMMA TakenStep ==
  ASSUME TypeOK, NEW c \in Convs, NEW r \in Remotes, NEW s \in Reported,
         Takes(c, r),
         remotes' = [remotes EXCEPT ![r] = [conv |-> c, state |-> s]]
  PROVE  /\ remotes' \in [Remotes -> RemoteTask \cup {Absent}]
         /\ RemotesGrow
         /\ remotes'[r] # Absent /\ remotes'[r].conv = c /\ remotes'[r].state = s
<1> DEFINE task == [conv |-> c, state |-> s]
<1>1. s \in States
  BY DispatchAssumption DEF States, Active, Terminal
<1>2. task \in RemoteTask /\ task # Absent /\ task.conv = c /\ task.state = s
  BY <1>1, NullAssumption DEF RemoteTask
<1> HIDE DEF task
<1>3. /\ remotes' = [remotes EXCEPT ![r] = task]
      /\ remotes'[r] = task /\ \A q \in Remotes \ {r} : remotes'[q] = remotes[q]
  BY DEF TypeOK, task
<1>4. remotes[r] # Absent => /\ remotes[r].conv = c
                             /\ remotes[r].state \notin Terminal \cup {"lost"}
  BY StatesApart DEF Takes, Live
<1> QED
  BY <1>2, <1>3, <1>4 DEF TypeOK, RemotesGrow

(* It gives one of its tasks a new state, unless the task has ended.       *)
LEMMA ChangedStep ==
  ASSUME TypeOK, NEW r \in Remotes, remotes[r] # Absent, NEW s \in States,
         Live(r) \/ s = remotes[r].state,
         remotes' = [remotes EXCEPT ![r].state = s]
  PROVE  /\ remotes' \in [Remotes -> RemoteTask \cup {Absent}]
         /\ RemotesGrow
         /\ remotes'[r].state = s
<1> DEFINE task == [remotes[r] EXCEPT !.state = s]
<1>1. remotes[r] \in RemoteTask
  BY DEF TypeOK
<1>2. /\ task \in RemoteTask /\ task # Absent
      /\ task.conv = remotes[r].conv /\ task.state = s
  BY <1>1, NullAssumption DEF RemoteTask
<1>3. remotes' = [remotes EXCEPT ![r] = task]
  BY DEF TypeOK
<1> HIDE DEF task
<1>4. remotes'[r] = task /\ \A q \in Remotes \ {r} : remotes'[q] = remotes[q]
  BY <1>3 DEF TypeOK
<1>5. remotes[r].state \in Terminal \cup {"lost"} => s = remotes[r].state
  BY StatesApart DEF Live
<1> QED
  BY <1>2, <1>3, <1>4, <1>5 DEF TypeOK, RemotesGrow

(* Steps that leave the requests where they are.                           *)
LEMMA RemotesStep ==
  ASSUME IInv, UNCHANGED <<tasks, taskIds, call>>,
         verdict' \in {"none", "success", "failure"},
         remotes' \in [Remotes -> RemoteTask \cup {Absent}], RemotesGrow
  PROVE  IInv'
<1>1. TypeOK' /\ RowsGrow
  BY DEF IInv, TypeOK, RowsGrow
<1>2. \A t \in Threads : CallOK(t)'
  <2> TAKE t \in Threads
  <2>1. call[t] # Idle /\ call[t].step = "create" =>
          \A v \in Threads \ {t} : call[v] # Idle => call[v].task # call[t].task
    BY DEF IInv, CallOK
  <2>2. call[t] # Idle /\ call[t].step = "create" => tasks[call[t].task] = Absent
    BY DEF IInv, CallOK
  <2> QED
    BY <1>1, <2>1, <2>2, OtherCallStays
<1>3. ConversationsKept'
  BY <1>1 DEF IInv, ConversationsKept, RemotesGrow, TypeOK
<1>4. CachedFinalsAreTrue'
  <2> SUFFICES ASSUME NEW h \in HubIds, tasks[h] # Absent, Cached(h)
               PROVE  TrueRow(h)'
    BY DEF CachedFinalsAreTrue, TrueRow, Cached
  <2>1. TrueRow(h) /\ tasks[h].snap \in Terminal
    BY DEF IInv, CachedFinalsAreTrue, TrueRow, Cached
  <2>2. PICK r \in Remotes : /\ remotes[r] # Absent
                             /\ remotes[r].conv = tasks[h].conv
                             /\ remotes[r].state \in {tasks[h].snap, "lost"}
    BY <2>1 DEF TrueRow
  <2>3. /\ remotes'[r] # Absent /\ remotes'[r].conv = tasks[h].conv
        /\ remotes'[r].state \in {tasks[h].snap, "lost"}
    BY <2>1, <2>2 DEF RemotesGrow
  <2> QED
    BY <2>1, <2>3 DEF TrueRow
<1> QED
  BY <1>1, <1>2, <1>3, <1>4 DEF IInv

LEMMA UpstreamStep ==
  ASSUME IInv, Works \/ Forgets
  PROVE  IInv'
<1>1. CASE Works
  <2>1. PICK r \in Remotes, s \in Reported \ {"submitted"} :
          Live(r) /\ remotes' = [remotes EXCEPT ![r].state = s]
    BY <1>1 DEF Works
  <2>2. s \in States /\ remotes[r] # Absent
    BY <2>1, DispatchAssumption DEF States, Active, Terminal, Live
  <2> QED
    BY <1>1, <2>1, <2>2, ChangedStep, RemotesStep DEF Works, IInv
<1>2. CASE Forgets
  <2>1. ASSUME NEW r \in Remotes, remotes[r] # Absent
        PROVE  /\ remotes'[r] \in RemoteTask /\ remotes'[r].state = "lost"
               /\ remotes'[r].conv = remotes[r].conv
    BY <1>2, <2>1 DEF Forgets, IInv, TypeOK, RemoteTask
  <2>2. RemotesGrow
    BY <2>1, NullAssumption DEF RemotesGrow
  <2>3. remotes' \in [Remotes -> RemoteTask \cup {Absent}]
    BY <1>2, <2>1 DEF Forgets
  <2> QED
    BY <1>2, <2>2, <2>3, RemotesStep DEF Forgets
<1> QED
  BY <1>1, <1>2

-----------------------------------------------------------------------------
(* A request that goes on with what the upstream said.                     *)

LEMMA FailuresAreErrors == Failures \subseteq Errors
BY DEF Failures, Errors

(* The message is taken, or refused.                                       *)
LEMMA PostStep ==
  ASSUME IInv, NEW t \in Threads,
         Served(t) \/ Refused(t) \/ StreamConnected(t) \/ StreamRefused(t)
  PROVE  IInv'
<1>1. /\ call[t] # Idle /\ call[t].step = "post" /\ call[t] \in Call
      /\ CallOK(t) /\ call[t].kind \in {"send", "stream"}
      /\ call[t].task \in HubIds /\ call[t].conv \in Convs
      /\ UNCHANGED <<tasks, taskIds>> /\ verdict' \in {"none", "success"}
      /\ TypeOK
  BY DEF Served, Refused, StreamConnected, StreamRefused, At, IInv, TypeOK, Call
<1>2. \A u \in Threads \ {t} :
        call[u] # Idle /\ call[u].step = "create" => call[u].task # call[t].task
  BY <1>1, SameTask
<1>3. ASSUME NEW r \in Remotes, NEW s \in Reported,
             NEW a \in States \cup Errors \cup {"none"},
             NEW step \in {"answer", "relay"},
             Takes(call[t].conv, r), a \in States => a = s,
             remotes' = [remotes EXCEPT ![r] = [conv |-> call[t].conv,
                                                state |-> s]],
             Go(t, [call[t] EXCEPT !.step = step, !.remote = r, !.answer = a])
      PROVE  IInv'
  <2> DEFINE k == [call[t] EXCEPT !.step = step, !.remote = r, !.answer = a]
  <2>1. /\ k \in Call /\ k.step = step /\ k.remote = r /\ k.answer = a
        /\ k.task = call[t].task /\ k.conv = call[t].conv
        /\ k.kind = call[t].kind
    BY <1>1 DEF Call
  <2>2. /\ remotes' \in [Remotes -> RemoteTask \cup {Absent}]
        /\ RemotesGrow
        /\ remotes'[r] # Absent /\ remotes'[r].conv = call[t].conv
        /\ remotes'[r].state = s
    BY <1>1, <1>3, TakenStep
  <2>3. Go(t, k)
    BY <1>3
  <2> HIDE DEF k
  <2>4. r # NoRemote
    BY DispatchAssumption
  <2>5. call'[t] = k => CallOK(t)'
    BY <1>1, <1>3, <2>1, <2>2, <2>4, StatesApart DEF CallOK
  <2> QED
    BY <1>1, <1>2, <2>1, <2>2, <2>3, <2>5, MoveStep
<1>4. ASSUME NEW a \in Failures,
             Go(t, [call[t] EXCEPT !.step = "answer", !.answer = a]),
             RemotesGrow, remotes' \in [Remotes -> RemoteTask \cup {Absent}]
      PROVE  IInv'
  <2> DEFINE k == [call[t] EXCEPT !.step = "answer", !.answer = a]
  <2>1. /\ k \in Call /\ k.step = "answer" /\ k.remote = call[t].remote
        /\ k.answer = a /\ k.task = call[t].task /\ k.conv = call[t].conv
        /\ k.kind = call[t].kind
    BY <1>1, FailuresAreErrors DEF Call
  <2>2. Go(t, k) /\ a \notin States
    BY <1>4, FailuresAreErrors, StatesApart
  <2> HIDE DEF k
  <2>3. k.remote # NoRemote => /\ remotes'[k.remote] # Absent
                              /\ remotes'[k.remote].conv = k.conv
    <3>1. k.remote # NoRemote => k.remote \in Remotes
      BY <1>1, <2>1 DEF Call
    <3> QED
      BY <1>1, <1>4, <2>1, <3>1 DEF CallOK, RemotesGrow
  <2>4. call'[t] = k => CallOK(t)'
    BY <1>1, <1>4, <2>1, <2>2, <2>3, StatesApart DEF CallOK
  <2> QED
    BY <1>1, <1>2, <1>4, <2>1, <2>2, <2>4, MoveStep
<1>5. CASE Served(t)
  <2>1. PICK r \in Remotes, s \in Reported, a \in Reported \cup (Failures \ {"4xx"}) :
          /\ Takes(call[t].conv, r)
          /\ a \in States => a = s
          /\ remotes' = [remotes EXCEPT ![r] = [conv |-> call[t].conv, state |-> s]]
          /\ Go(t, [call[t] EXCEPT !.step = "answer", !.remote = r, !.answer = a])
    BY <1>5 DEF Served
  <2>2. a \in States \cup Errors \cup {"none"}
    BY DispatchAssumption, FailuresAreErrors DEF States, Active, Terminal
  <2> QED
    BY <1>3, <2>1, <2>2
<1>6. CASE StreamConnected(t)
  <2>1. PICK r \in Remotes, s \in Reported :
          /\ Takes(call[t].conv, r)
          /\ remotes' = [remotes EXCEPT ![r] = [conv |-> call[t].conv, state |-> s]]
          /\ Go(t, [call[t] EXCEPT !.step = "relay", !.remote = r])
    BY <1>6 DEF StreamConnected
  <2> DEFINE k == [call[t] EXCEPT !.step = "relay", !.remote = r]
  <2>2. /\ k \in Call /\ k.step = "relay" /\ k.remote = r
        /\ k.task = call[t].task /\ k.conv = call[t].conv
        /\ k.kind = call[t].kind
    BY <1>1 DEF Call
  <2>3. /\ remotes' \in [Remotes -> RemoteTask \cup {Absent}]
        /\ RemotesGrow
        /\ remotes'[r] # Absent /\ remotes'[r].conv = call[t].conv
    BY <1>1, <2>1, TakenStep
  <2>4. Go(t, k) /\ r # NoRemote
    BY <2>1, DispatchAssumption
  <2> HIDE DEF k
  <2>5. call'[t] = k => CallOK(t)'
    BY <1>1, <2>2, <2>3, <2>4 DEF CallOK
  <2> QED
    BY <1>1, <1>2, <2>2, <2>3, <2>4, <2>5, MoveStep
<1>7. CASE Refused(t) \/ StreamRefused(t)
  <2>1. PICK a \in Failures : Go(t, [call[t] EXCEPT !.step = "answer", !.answer = a])
    BY <1>7 DEF Refused, StreamRefused
  <2>2. CASE UNCHANGED remotes
    <3>1. RemotesGrow /\ remotes' \in [Remotes -> RemoteTask \cup {Absent}]
      BY <1>1, <2>2 DEF RemotesGrow, TypeOK
    <3> QED
      BY <1>4, <2>1, <3>1
  <2>3. CASE \E r \in Remotes, s \in Reported :
               /\ Takes(call[t].conv, r)
               /\ remotes' = [remotes EXCEPT ![r] = [conv |-> call[t].conv,
                                                    state |-> s]]
    <3>1. RemotesGrow /\ remotes' \in [Remotes -> RemoteTask \cup {Absent}]
      BY <1>1, <2>3, TakenStep
    <3> QED
      BY <1>4, <2>1, <3>1
  <2> QED
    BY <1>7, <2>2, <2>3 DEF Refused, StreamRefused
<1> QED
  BY <1>5, <1>6, <1>7

(* The mapping of a task, or its use.                                      *)
LEMMA MapStep ==
  ASSUME IInv, NEW t \in Threads, SendMapped(t) \/ LookedUp(t)
  PROVE  IInv'
<1>1. /\ call[t] # Idle /\ call[t] \in Call /\ CallOK(t)
      /\ call[t].task \in HubIds
      /\ UNCHANGED <<tasks, remotes>> /\ verdict' = "none"
      /\ TypeOK /\ RowsGrow /\ RemotesGrow
  BY DEF SendMapped, LookedUp, At, IInv, TypeOK, Call, RowsGrow, RemotesGrow
<1>2. \A u \in Threads \ {t} :
        call[u] # Idle /\ call[u].step = "create" => call[u].task # call[t].task
  BY <1>1, SameTask
<1>3. CASE SendMapped(t)
  <2> DEFINE k == [call[t] EXCEPT !.step = "save"]
  <2>1. /\ k \in Call /\ k.step = "save" /\ k.remote = call[t].remote
        /\ k.task = call[t].task /\ k.conv = call[t].conv
        /\ k.kind = call[t].kind /\ k.answer = call[t].answer
    BY <1>1 DEF Call
  <2>2. /\ call[t].step = "answer" /\ call[t].kind = "send"
        /\ call[t].answer \in States /\ call[t].remote \in Remotes
        /\ tasks[call[t].task] # Absent
        /\ taskIds' = [taskIds EXCEPT ![call[t].task] = call[t].remote]
        /\ Go(t, k)
    BY <1>1, <1>3 DEF SendMapped, At, Mappable, Advance, CallOK, Call
  <2> HIDE DEF k
  <2>3. call'[t] = k => CallOK(t)'
    BY <1>1, <2>1, <2>2, StatesApart DEF CallOK
  <2>4. TypeOK'
    BY <1>1, <2>1, <2>2 DEF TypeOK, Go
  <2>5. \A h \in HubIds : taskIds'[h] # taskIds[h] =>
           /\ tasks[h] # Absent /\ call[t].task = h
           /\ taskIds'[h] = call[t].remote
    BY <1>1, <2>2 DEF TypeOK
  <2> QED
    BY <1>1, <1>2, <2>1, <2>2, <2>3, <2>4, <2>5, CallStep
<1>4. CASE LookedUp(t)
  <2> DEFINE r == taskIds[call[t].task]
             k == [call[t] EXCEPT !.step = "post", !.remote = r]
  <2>1. r \in Remotes /\ Go(t, k) /\ call[t].step = "mapping" /\ UNCHANGED taskIds
    BY <1>1, <1>4 DEF LookedUp, At, TypeOK
  <2>2. /\ remotes[r] # Absent /\ tasks[call[t].task] # Absent
        /\ remotes[r].conv = tasks[call[t].task].conv
    BY <1>1, <2>1, DispatchAssumption DEF IInv, ConversationsKept
  <2> HIDE DEF r
  <2>3. /\ k \in Call /\ k.step = "post" /\ k.remote = r
        /\ k.task = call[t].task /\ k.conv = call[t].conv
        /\ k.kind = call[t].kind
    BY <1>1, <2>1 DEF Call
  <2> HIDE DEF k
  <2>4. call'[t] = k => CallOK(t)'
    BY <1>1, <2>1, <2>2, <2>3, DispatchAssumption DEF CallOK
  <2> QED
    BY <1>1, <1>2, <2>1, <2>3, <2>4, MoveStep DEF TypeOK
<1> QED
  BY <1>3, <1>4

(* The upstream answers for a task of its own.                             *)
LEMMA ReportStep ==
  ASSUME IInv, NEW t \in Threads, Reports(t)
  PROVE  IInv'
<1> DEFINE r == call[t].remote
<1>1. /\ call[t] # Idle /\ call[t].step = "post" /\ call[t] \in Call
      /\ CallOK(t) /\ call[t].kind \in {"get", "cancel"}
      /\ UNCHANGED <<tasks, taskIds>> /\ verdict' = "none" /\ TypeOK
  BY DEF Reports, At, IInv, TypeOK
<1>2. \A u \in Threads \ {t} :
        call[u] # Idle /\ call[u].step = "create" => call[u].task # call[t].task
  BY <1>1, SameTask
<1>3. /\ r \in Remotes /\ r # NoRemote /\ remotes[r] # Absent
      /\ remotes[r].conv = call[t].conv
      /\ remotes[r].state \in States \cup {"lost"}
      /\ tasks[call[t].task] # Absent
  BY <1>1 DEF CallOK, Call, TypeOK, RemoteTask
<1> HIDE DEF r
<1>4. ASSUME NEW a \in States \cup Errors,
             Go(t, [call[t] EXCEPT !.step = "answer", !.answer = a]),
             remotes' \in [Remotes -> RemoteTask \cup {Absent}], RemotesGrow,
             a \in Terminal => remotes'[r].state \in {a, "lost"}
      PROVE  IInv'
  <2> DEFINE k == [call[t] EXCEPT !.step = "answer", !.answer = a]
  <2>1. /\ k \in Call /\ k.step = "answer" /\ k.remote = r
        /\ k.answer = a /\ k.task = call[t].task /\ k.conv = call[t].conv
        /\ k.kind = call[t].kind
    BY <1>1 DEF Call, r
  <2>2. Go(t, k)
    BY <1>4
  <2> HIDE DEF k
  <2>3. remotes'[r] # Absent /\ remotes'[r].conv = call[t].conv
    BY <1>3, <1>4 DEF RemotesGrow
  <2>4. call'[t] = k => CallOK(t)'
    BY <1>1, <1>3, <1>4, <2>1, <2>3 DEF CallOK
  <2> QED
    BY <1>1, <1>2, <1>4, <2>1, <2>2, <2>4, MoveStep
<1>5. UNCHANGED remotes =>
        /\ remotes' \in [Remotes -> RemoteTask \cup {Absent}]
        /\ RemotesGrow
  BY <1>1 DEF TypeOK, RemotesGrow
<1>6. CASE /\ Live(r)
           /\ remotes' = [remotes EXCEPT ![r].state = "canceled"]
           /\ Go(t, [call[t] EXCEPT !.step = "answer", !.answer = "canceled"])
  <2>1. "canceled" \in States
    BY DEF States, Terminal
  <2> QED
    BY <1>1, <1>3, <1>4, <1>6, <2>1, ChangedStep
<1>7. CASE /\ UNCHANGED remotes
           /\ Go(t, [call[t] EXCEPT !.step = "answer",
                                    !.answer = IF remotes[r].state = "lost"
                                               THEN "notfound"
                                               ELSE remotes[r].state])
  <2>1. PICK a \in States \cup Errors :
          /\ a = IF remotes[r].state = "lost" THEN "notfound"
                 ELSE remotes[r].state
          /\ a \in Terminal => a = remotes[r].state
    BY <1>3 DEF Errors, Terminal
  <2> QED
    BY <1>4, <1>5, <1>7, <2>1
<1>8. CASE /\ UNCHANGED remotes
           /\ \E a \in Failures :
                Go(t, [call[t] EXCEPT !.step = "answer", !.answer = a])
  <2>1. PICK a \in Failures :
          Go(t, [call[t] EXCEPT !.step = "answer", !.answer = a])
    BY <1>8
  <2>2. a \in Errors /\ a \notin Terminal
    BY FailuresAreErrors, StatesApart
  <2> QED
    BY <1>4, <1>5, <1>8, <2>1, <2>2
<1> QED
  BY <1>6, <1>7, <1>8 DEF Reports, r

(* An event of a stream comes in: it may map the task.                     *)
LEMMA RelayStep ==
  ASSUME IInv, NEW t \in Threads, Relay(t)
  PROVE  IInv'
<1> DEFINE r == call[t].remote
<1>1. /\ call[t] # Idle /\ call[t].step = "relay" /\ call[t] \in Call
      /\ CallOK(t) /\ UNCHANGED tasks /\ verdict' = "none" /\ TypeOK
      /\ call[t].task \in HubIds /\ RowsGrow
  BY DEF Relay, At, IInv, TypeOK, Call, RowsGrow
<1>2. \A u \in Threads \ {t} :
        call[u] # Idle /\ call[u].step = "create" => call[u].task # call[t].task
  BY <1>1, SameTask
<1>3. /\ r \in Remotes /\ remotes[r] # Absent
      /\ remotes[r].conv = call[t].conv
      /\ remotes[r].state \in States \cup {"lost"}
  BY <1>1 DEF CallOK, Call, TypeOK, RemoteTask
<1>4. PICK s \in Emits(r) \cup {"none"}, named \in BOOLEAN :
        LET k == call[t]
            maps == named /\ ~k.mapped
        IN  /\ remotes' = IF s = "none" THEN remotes
                          ELSE [remotes EXCEPT ![r].state = s]
            /\ \/ /\ maps /\ Mappable(k.task, k.remote)
                  /\ taskIds' = [taskIds EXCEPT ![k.task] = k.remote]
               \/ taskIds' = taskIds
            /\ Go(t, [k EXCEPT !.step = "event", !.answer = s,
                               !.mapped = @ \/ maps])
  BY DEF Relay
<1>5. s # "none" => s \in States /\ (Live(r) \/ s = remotes[r].state)
  BY <1>3, <1>4, DispatchAssumption DEF Emits, States, Active, Terminal
<1>6. remotes' \in [Remotes -> RemoteTask \cup {Absent}] /\ RemotesGrow
  <2>1. CASE s = "none"
    BY <1>1, <1>4, <2>1 DEF TypeOK, RemotesGrow
  <2>2. CASE s # "none"
    BY <1>1, <1>3, <1>4, <1>5, <2>2, ChangedStep
  <2> QED
    BY <2>1, <2>2
<1>7. remotes'[r] # Absent /\ remotes'[r].conv = call[t].conv
  BY <1>3, <1>6 DEF RemotesGrow
<1> DEFINE seen == call[t].mapped \/ (named /\ ~call[t].mapped)
           k == [call[t] EXCEPT !.step = "event", !.answer = s, !.mapped = seen]
<1>8. seen \in BOOLEAN
  OBVIOUS
<1>9. Go(t, k)
  BY <1>4
<1> HIDE DEF seen
<1>10. /\ k \in Call /\ k.step = "event" /\ k.remote = r /\ k.answer = s
       /\ k.task = call[t].task /\ k.conv = call[t].conv
       /\ k.kind = call[t].kind
  BY <1>1, <1>5, <1>8 DEF Call
<1>11. \/ taskIds' = taskIds
       \/ /\ tasks[call[t].task] # Absent
          /\ taskIds' = [taskIds EXCEPT ![call[t].task] = r]
  BY <1>4 DEF Mappable
<1> HIDE DEF k, r
<1>12. call'[t] = k => CallOK(t)'
  BY <1>1, <1>3, <1>5, <1>7, <1>10, DispatchAssumption DEF CallOK
<1>13. /\ taskIds' \in [HubIds -> Remotes \cup {NoRemote}]
       /\ \A h \in HubIds : taskIds'[h] # taskIds[h] =>
            /\ tasks[h] # Absent /\ call[t].task = h /\ taskIds'[h] = r
  BY <1>1, <1>3, <1>11 DEF TypeOK
<1>14. TypeOK'
  BY <1>1, <1>6, <1>9, <1>10, <1>13 DEF TypeOK, Go
<1> QED
  BY <1>1, <1>2, <1>6, <1>9, <1>10, <1>12, <1>13, <1>14, CallStep DEF r

(* The event goes to the row: it never leaves a snapshot.                  *)
LEMMA RelayedStep ==
  ASSUME IInv, NEW t \in Threads, Relayed(t)
  PROVE  IInv'
<1>1. /\ call[t] # Idle /\ call[t].step = "event" /\ call[t] \in Call
      /\ CallOK(t) /\ UNCHANGED <<taskIds, remotes>> /\ verdict' = "none"
      /\ TypeOK /\ call[t].task \in HubIds /\ RemotesGrow
      /\ call[t].seen \in BOOLEAN
  BY DEF Relayed, At, IInv, TypeOK, Call, RemotesGrow
<1>2. \A u \in Threads \ {t} :
        call[u] # Idle /\ call[u].step = "create" => call[u].task # call[t].task
  BY <1>1, SameTask
<1>3. /\ tasks' \in [HubIds -> TaskRow \cup {Absent}]
      /\ RowsGrow
      /\ \A h \in HubIds : tasks[h] = Absent => tasks'[h] = Absent
      /\ \A h \in HubIds : tasks'[h] = tasks[h] \/ tasks'[h].snap = NoSnap
  <2>1. CASE call[t].answer = "none"
    BY <1>1, <2>1 DEF Relayed, TypeOK, RowsGrow
  <2>2. CASE call[t].answer # "none"
    <3>1. call[t].answer \in States
      BY <1>1, <2>2 DEF CallOK
    <3>2. UpdateTaskSnapshot(call[t].task, call[t].answer, NoSnap)
      BY <2>2 DEF Relayed
    <3>3. /\ tasks' \in [HubIds -> TaskRow \cup {Absent}]
          /\ RowsGrow
          /\ \A g \in HubIds : tasks[g] = Absent => tasks'[g] = Absent
          /\ \A g \in HubIds : \/ tasks'[g] = tasks[g]
                               \/ tasks'[g].snap = NoSnap
      BY <1>1, <3>1, <3>2, WriteRow
    <3> QED
      BY <3>3
  <2> QED
    BY <2>1, <2>2
<1> DEFINE seen == call[t].seen \/ call[t].answer \in Terminal
           k == [call[t] EXCEPT !.step = "relay", !.answer = "none",
                                !.seen = seen]
<1>4. seen \in BOOLEAN /\ Go(t, k)
  BY <1>1 DEF Relayed
<1> HIDE DEF seen
<1>5. /\ k \in Call /\ k.step = "relay" /\ k.remote = call[t].remote
      /\ k.answer = "none" /\ k.task = call[t].task /\ k.conv = call[t].conv
      /\ k.kind = call[t].kind
  BY <1>1, <1>4 DEF Call
<1> HIDE DEF k
<1>6. tasks'[call[t].task] # Absent => tasks'[call[t].task].conv = call[t].conv
  BY <1>1, <1>3 DEF CallOK, RowsGrow
<1>7. call'[t] = k => CallOK(t)'
  BY <1>1, <1>5, <1>6 DEF CallOK
<1>8. TypeOK'
  BY <1>1, <1>3, <1>4, <1>5 DEF TypeOK, Go
<1>9. \A h \in HubIds : tasks'[h] # Absent /\ Cached(h)' => tasks'[h] = tasks[h]
  BY <1>3 DEF Cached
<1> QED
  BY <1>1, <1>2, <1>3, <1>4, <1>5, <1>7, <1>8, <1>9, CallStep

-----------------------------------------------------------------------------

LEMMA CrashStep == IInv /\ Crash => IInv'
BY DEF IInv, Crash, TypeOK, CallOK, ConversationsKept, CachedFinalsAreTrue,
       Cached

LEMMA StepIInv == IInv /\ [Next]_vars => IInv'
<1> SUFFICES ASSUME IInv, [Next]_vars PROVE IInv'
  OBVIOUS
<1>1. ASSUME NEW t \in Threads, Continue(t) PROVE IInv'
  BY <1>1, CreateStep, PostStep, Ends, MapStep, ReportStep, RelayStep,
     RelayedStep
  DEF Continue
<1>2. CASE UNCHANGED vars
  BY <1>2 DEF vars, IInv, TypeOK, CallOK, ConversationsKept,
              CachedFinalsAreTrue, Cached
<1> QED
  BY <1>1, <1>2, BeginStep, UpstreamStep, CrashStep DEF Next

LEMMA Invariant == Spec => []IInv
BY InitIInv, StepIInv, PTL DEF Spec

(* The types of the two tables, the upstreams' tasks and the requests.     *)
THEOREM DispatchTypes == Spec => []TypeOK
<1>1. IInv => TypeOK
  BY DEF IInv
<1> QED
  BY <1>1, Invariant, PTL

(* However requests race to create, reuse and map hub tasks, a hub task    *)
(* stands for an upstream task of its own conversation.                    *)
THEOREM TasksKeepConversations == Spec => []ConversationsKept
<1>1. IInv => ConversationsKept
  BY DEF IInv
<1> QED
  BY <1>1, Invariant, PTL

(* What GetTask answers from the cache is true, whatever answers were late *)
(* and whatever ends the hub made up: only an upstream's own answer is     *)
(* cached, and a task that ended stays ended.                              *)
THEOREM CacheIsTrue == Spec => []CachedFinalsAreTrue
<1>1. IInv => CachedFinalsAreTrue
  BY DEF IInv
<1> QED
  BY <1>1, Invariant, PTL

-----------------------------------------------------------------------------
(* Final answers, while requests do not meet.                              *)

(* What the hub's clients would have to see to: at most one request at a   *)
(* time is about a task.                                                   *)
OneRequestPerTask ==
  \A t, u \in Threads :
    t # u /\ call[t] # Idle /\ call[u] # Idle => call[t].task # call[u].task

(* A request that is not a cancel is at work on a task only while that     *)
(* task has no final answer.                                               *)
WorksOnOpenTask(t) ==
  call[t] # Idle /\ call[t].kind # "cancel" /\ tasks[call[t].task] # Absent
    => ~Cached(call[t].task)

OpenInv == IInv /\ \A t \in Threads : WorksOnOpenTask(t)

(* A write to a row is not cached, or fails or ends the request; no other  *)
(* row changes.                                                            *)
LEMMA WriteEffect ==
  ASSUME TypeOK, NEW g \in HubIds, NEW s \in States,
         NEW snap \in States \cup {NoSnap}, UpdateTaskSnapshot(g, s, snap),
         NEW h \in HubIds, tasks'[h] # tasks[h]
  PROVE  g = h /\ (snap = NoSnap => tasks'[h].snap = NoSnap)
BY WriteRow

(* Only a request that is about a task changes its row, and if it goes on  *)
(* afterwards, the row has no final answer.                                *)
LEMMA OnlyItsRequestWrites ==
  ASSUME IInv, Next, NEW h \in HubIds, tasks'[h] # tasks[h]
  PROVE  \E t \in Threads : /\ call[t] # Idle /\ call[t].task = h
                            /\ call'[t] = Idle \/ tasks'[h].snap = NoSnap
<1>1. TypeOK /\ NoSnap \notin States /\ Terminal \subseteq States
      /\ {"failed", "canceled"} \subseteq States
  BY NullAssumption DEF IInv, States, Terminal
<1>2. ASSUME NEW t \in Threads, Continue(t)
      PROVE  /\ call[t] # Idle /\ call[t].task = h
             /\ call'[t] = Idle \/ tasks'[h].snap = NoSnap
  <2> DEFINE k == call[t]
  <2>1. CASE CreateTask(t)
    <3>1. k # Idle /\ tasks' = [tasks EXCEPT ![k.task] =
                                  [conv |-> k.conv, state |-> "submitted",
                                   snap |-> NoSnap]]
      BY <2>1 DEF CreateTask, At
    <3>2. k.task = h /\ tasks'[h].snap = NoSnap
      BY <1>1, <3>1 DEF TypeOK
    <3> QED
      BY <3>1, <3>2
  <2>2. CASE SendFails(t) \/ StreamEnds(t) \/ CanceledLocally(t)
    <3>1. k # Idle /\ k \in Call /\ k.task \in HubIds
      BY <1>1, <2>2 DEF SendFails, StreamEnds, CanceledLocally, At, TypeOK, Call
    <3>2. \E s \in {"failed", "canceled"} : UpdateTaskSnapshot(k.task, s, NoSnap)
      BY <2>2 DEF SendFails, StreamEnds, CanceledLocally
    <3> QED
      BY <1>1, <3>1, <3>2, WriteEffect
  <2>3. CASE SendSaved(t) \/ Refreshed(t)
    <3>1. k # Idle /\ k \in Call /\ k.task \in HubIds /\ k.answer \in States
      BY <1>1, <2>3 DEF SendSaved, Refreshed, At, TypeOK, Call, IInv, CallOK
    <3>2. UpdateTaskSnapshot(k.task, k.answer, k.answer) /\ call'[t] = Idle
      BY <1>1, <2>3 DEF SendSaved, Refreshed, Go, TypeOK
    <3> QED
      BY <1>1, <3>1, <3>2, WriteEffect
  <2>4. CASE Relayed(t)
    <3>1. k # Idle /\ k \in Call /\ k.task \in HubIds /\ k.answer \in States
      BY <1>1, <2>4 DEF Relayed, At, TypeOK, Call, IInv, CallOK
    <3>2. UpdateTaskSnapshot(k.task, k.answer, NoSnap)
      BY <2>4, <3>1 DEF Relayed
    <3> QED
      BY <1>1, <3>1, <3>2, WriteEffect
  <2> QED
    BY <1>2, <2>1, <2>2, <2>3, <2>4
    DEF Continue, CreateFails, Served, Refused, SendMapped, SendUnmapped,
        StreamConnected, StreamRefused, StreamFails, Relay, StreamGone,
        LookedUp, GivesUp, Reports, ForwardFails
<1>3. ASSUME NEW t \in Threads, Begin(t) PROVE FALSE
  BY <1>3 DEF Begin, Accept, GetTask, CancelTask
<1> QED
  BY <1>2, <1>3 DEF Next, Works, Forgets, Crash

(* Requests keep their kind and their task, and begin on an open one.      *)
LEMMA CallsKeepTheirTask ==
  ASSUME IInv, Next, NEW t \in Threads, call'[t] # Idle
  PROVE  \/ /\ call[t] # Idle
            /\ call'[t].task = call[t].task /\ call'[t].kind = call[t].kind
         \/ /\ call[t] = Idle /\ tasks' = tasks /\ call'[t].task \in HubIds
            /\ \/ call'[t].kind = "cancel"
               \/ tasks[call'[t].task] = Absent
               \/ ~Cached(call'[t].task)
<1>1. /\ TypeOK
      /\ call[t] # Idle => call[t] \in Call
      /\ Active \cap Terminal = {}
  BY DEF IInv, TypeOK, Active, Terminal
<1>2. CASE call'[t] = call[t]
  BY <1>2
<1>3. ASSUME Begin(t)
      PROVE  /\ call[t] = Idle /\ tasks' = tasks /\ call'[t].task \in HubIds
             /\ \/ call'[t].kind = "cancel"
                \/ tasks[call'[t].task] = Absent
                \/ ~Cached(call'[t].task)
  <2>1. ASSUME NEW kind, NEW c, Accept(t, kind, c)
        PROVE  /\ call[t] = Idle /\ tasks' = tasks
               /\ \E h \in HubIds : /\ call'[t].task = h
                                    /\ tasks[h] = Absent \/ ~Cached(h)
    BY <1>1, <2>1 DEF Accept, Prepared, Go, TypeOK, Found, Unused, Cached
  <2>2. ASSUME NEW h \in HubIds, GetTask(t, h)
        PROVE  call[t] = Idle /\ tasks' = tasks /\ call'[t].task = h /\ ~Cached(h)
    BY <1>1, <2>2 DEF GetTask, Prepared, Go, TypeOK
  <2>3. ASSUME NEW h \in HubIds, CancelTask(t, h)
        PROVE  /\ call[t] = Idle /\ tasks' = tasks /\ call'[t].task = h
               /\ call'[t].kind = "cancel"
    BY <1>1, <2>3 DEF CancelTask, Prepared, Go, TypeOK
  <2> QED
    BY <1>3, <2>1, <2>2, <2>3 DEF Begin
<1>4. ASSUME NEW u \in Threads, Begin(u) \/ Continue(u), u # t
      PROVE  call'[t] = call[t]
  BY <1>1, <1>4
  DEF Begin, Accept, GetTask, CancelTask, Prepared, Continue, Advance, Go,
      TypeOK, CreateTask, CreateFails, Served, Refused, SendFails, SendMapped,
      SendUnmapped, SendSaved, StreamConnected, StreamRefused, StreamFails,
      Relay, Relayed, StreamEnds, StreamGone, LookedUp, GivesUp, Reports,
      Refreshed, CanceledLocally, ForwardFails
<1>5. ASSUME Continue(t)
      PROVE  /\ call[t] # Idle
             /\ call'[t].task = call[t].task /\ call'[t].kind = call[t].kind
  <2> DEFINE k == call[t]
  <2>1. k # Idle
    BY <1>5
    DEF Continue, At, CreateTask, CreateFails, Served, Refused, SendFails,
        SendMapped, SendUnmapped, SendSaved, StreamConnected, StreamRefused,
        StreamFails, Relay, Relayed, StreamEnds, StreamGone, LookedUp, GivesUp,
        Reports, Refreshed, CanceledLocally, ForwardFails
  <2>2. k \in Call
    BY <1>1, <2>1
  <2>3. ASSUME NEW l, Go(t, l), l.task = k.task, l.kind = k.kind
        PROVE  call'[t].task = k.task /\ call'[t].kind = k.kind
    BY <1>1, <2>3 DEF Go, TypeOK
  <2>4. CASE Go(t, Idle)
    BY <1>1, <2>4 DEF Go, TypeOK
  <2>5. CASE CreateTask(t) \/ CreateFails(t) \/ SendMapped(t)
    <3> SUFFICES ASSUME ~Go(t, Idle) PROVE call'[t].task = k.task /\ call'[t].kind = k.kind
      BY <2>1, <2>4
    <3>1. PICK step : Go(t, [k EXCEPT !.step = step])
      BY <2>5 DEF CreateTask, CreateFails, SendMapped, Advance
    <3> QED
      BY <2>1, <2>2, <2>3, <3>1 DEF Call
  <2>6. CASE Served(t)
    <3>1. PICK r, a : Go(t, [k EXCEPT !.step = "answer", !.remote = r, !.answer = a])
      BY <2>6 DEF Served
    <3> QED
      BY <2>1, <2>2, <2>3, <3>1 DEF Call
  <2>7. CASE StreamConnected(t) \/ LookedUp(t)
    <3>1. PICK step, r : Go(t, [k EXCEPT !.step = step, !.remote = r])
      BY <2>7 DEF StreamConnected, LookedUp
    <3> QED
      BY <2>1, <2>2, <2>3, <3>1 DEF Call
  <2>8. CASE Refused(t) \/ StreamRefused(t) \/ Reports(t)
    <3>1. PICK a : Go(t, [k EXCEPT !.step = "answer", !.answer = a])
      BY <2>8 DEF Refused, StreamRefused, Reports
    <3> QED
      BY <2>1, <2>2, <2>3, <3>1 DEF Call
  <2>9. CASE Relay(t)
    <3>1. PICK a, m : Go(t, [k EXCEPT !.step = "event", !.answer = a, !.mapped = m])
      BY <2>9 DEF Relay
    <3> QED
      BY <2>1, <2>2, <2>3, <3>1 DEF Call
  <2>10. CASE Relayed(t)
    <3>1. PICK e : Go(t, [k EXCEPT !.step = "relay", !.answer = "none", !.seen = e])
      BY <2>10 DEF Relayed
    <3> QED
      BY <2>1, <2>2, <2>3, <3>1 DEF Call
  <2> QED
    BY <1>5, <2>1, <2>4, <2>5, <2>6, <2>7, <2>8, <2>9,
       <2>10
    DEF Continue, SendFails, SendUnmapped, SendSaved, StreamFails, StreamEnds,
        StreamGone, GivesUp, Refreshed, CanceledLocally, ForwardFails
<1> QED
  BY <1>2, <1>3, <1>4, <1>5 DEF Next, Works, Forgets, Crash

LEMMA OpenInvNext ==
  ASSUME OpenInv, OneRequestPerTask, [Next]_vars
  PROVE  OpenInv'
<1>1. IInv'
  BY StepIInv DEF OpenInv
<1>2. CASE Next
  <2>1. ASSUME NEW t \in Threads, NEW h, call'[t] # Idle,
               call'[t].kind # "cancel", h = call'[t].task,
               tasks'[h] # Absent
        PROVE  ~(tasks'[h].state \in Terminal /\ tasks'[h].snap # NoSnap)
    <3>1. CASE call[t] = Idle
      <4>1. tasks' = tasks /\ ~Cached(h)
        BY <1>2, <2>1, <3>1, CallsKeepTheirTask DEF OpenInv
      <4> QED
        BY <4>1 DEF Cached
    <3>2. CASE call[t] # Idle
      <4>1. /\ h = call[t].task /\ call[t].kind # "cancel" /\ h \in HubIds
        BY <1>2, <2>1, <3>2, CallsKeepTheirTask DEF OpenInv, IInv, TypeOK, Call
      <4>2. CASE tasks'[h] = tasks[h]
        BY <2>1, <3>2, <4>1, <4>2 DEF OpenInv, WorksOnOpenTask, Cached
      <4>3. CASE tasks'[h] # tasks[h]
        <5>1. PICK u \in Threads : /\ call[u] # Idle /\ call[u].task = h
                                   /\ call'[u] = Idle \/ tasks'[h].snap = NoSnap
          BY <1>2, <4>1, <4>3, OnlyItsRequestWrites DEF OpenInv
        <5>2. u = t
          BY <2>1, <3>2, <4>1, <5>1 DEF OneRequestPerTask
        <5> QED
          BY <2>1, <5>1, <5>2
      <4> QED
        BY <4>2, <4>3
    <3> QED
      BY <3>1, <3>2
  <2>2. ASSUME NEW t \in Threads PROVE WorksOnOpenTask(t)'
    BY <2>1 DEF WorksOnOpenTask, Cached
  <2> QED
    BY <1>1, <2>2 DEF OpenInv
<1>3. CASE UNCHANGED vars
  BY <1>1, <1>3 DEF vars, OpenInv, WorksOnOpenTask, Cached
<1> QED
  BY <1>2, <1>3

(* If no two requests are about one task at a time, a final answer stays   *)
(* until that task is canceled: no failed send, no stream that breaks off  *)
(* and no client that leaves takes it back.  (With two at a time, a late   *)
(* answer may.)                                                            *)
THEOREM FinalAnswersStay ==
  Spec /\ []OneRequestPerTask => FinalAnswersKept
<1>1. Init => OpenInv
  BY InitIInv DEF Init, OpenInv, WorksOnOpenTask
<1>2. OpenInv /\ OneRequestPerTask /\ [Next]_vars => OpenInv'
  BY OpenInvNext
<1>3. OpenInv /\ OneRequestPerTask /\ [Next]_vars =>
        [\A h \in HubIds :
           tasks[h] # Absent /\ Cached(h) =>
             \/ tasks'[h] = tasks[h]
             \/ \E t \in Threads : /\ call[t] # Idle /\ call[t].kind = "cancel"
                                  /\ call[t].task = h]_vars
  <2> SUFFICES ASSUME OpenInv, Next, NEW h \in HubIds, tasks[h] # Absent,
                      Cached(h), tasks'[h] # tasks[h]
               PROVE  \E t \in Threads : /\ call[t] # Idle
                                         /\ call[t].kind = "cancel"
                                         /\ call[t].task = h
    OBVIOUS
  <2>1. PICK t \in Threads : call[t] # Idle /\ call[t].task = h
    BY OnlyItsRequestWrites DEF OpenInv
  <2> QED
    BY <2>1 DEF OpenInv, WorksOnOpenTask
<1> QED
  BY <1>1, <1>2, <1>3, PTL DEF Spec, FinalAnswersKept

=============================================================================
