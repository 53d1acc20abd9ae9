-------------------------------- MODULE Lists -------------------------------
(* Reading the task list and the audit log page by page while the hub      *)
(* writes them (internal/store/tasks.go, audit.go, the two list handlers   *)
(* of internal/transport/admin.go, `oah task list' and `oah audit').       *)
(*                                                                         *)
(* A page is LIMIT rows from OFFSET on of the query's result, evaluated    *)
(* anew for each request, and the answer puts together two or three        *)
(* queries.  Tasks are ordered by the text of updated_at, the newest       *)
(* first.  RFC3339Nano drops trailing zeros and so the order of two texts  *)
(* is that of the times only if the seconds differ: a row that is written  *)
(* goes in front of the rows of earlier seconds, and anywhere among those  *)
(* of its own.  Audit rows have ascending ids and stay where they are.     *)
(* A page is the set of its rows: who they are says their place, and their *)
(* order on the page is the query's.                                       *)
(***************************************************************************)
EXTENDS Naturals, FiniteSets, SequencesExt

CONSTANTS
  Rows,
  PageSize,      \* limit, 50 where it is not positive
  Retention,     \* storage.audit_retention
  NoWalk,
  StoreMayFail   \* whether the queries for the counts may fail

ASSUME ListsAssumption ==
  /\ PageSize \in Nat \ {0} /\ Retention \in Nat /\ StoreMayFail \in BOOLEAN

VARIABLES
  table,    \* the one that is read in this behaviour
  order,    \* its rows in the order of the query
  sec,      \* how many of them, all in front, were written in this second
  active,   \* the tasks that are not in a terminal state
  walk,     \* the reader and the request it has made
  due,      \* history: rows older than the second in which the walk began,
            \* not written and not deleted since
  seen,     \* history: rows of the pages so far
  shrunk    \* history: during the walk a row left the selection

listVars == <<table, order, sec, active, walk, due, seen, shrunk>>

-----------------------------------------------------------------------------

(* recent: with the tasks in terminal states.  At "page" the reader is     *)
(* between two requests; the other steps are the handler's queries, and    *)
(* "answer" the answer on its way.                                         *)
Walk == [recent : BOOLEAN,
         step   : {"page", "total", "counts", "answer"},
         offset : Nat,
         items  : SUBSET Rows,
         total  : Nat,
         counts : Nat]

ASSUME NoWalkAssumption == NoWalk \notin Walk

ListsTypeOK ==
  /\ table \in {"tasks", "audit"}
  /\ order \in Seq(Rows) /\ IsInjective(order)
  /\ sec \in 0 .. Len(order)
  /\ {active, due, seen} \subseteq SUBSET Rows
  /\ walk # NoWalk => walk \in Walk
  /\ shrunk \in BOOLEAN

ListsInit ==
  /\ table \in {"tasks", "audit"}
  /\ order = <<>> /\ sec = 0 /\ active = {}
  /\ walk = NoWalk /\ due = {} /\ seen = {} /\ shrunk = FALSE

Written == {order[i] : i \in DOMAIN order}

-----------------------------------------------------------------------------
(* The queries.                                                            *)

Selected(recent) == IF recent THEN Written ELSE Written \cap active

Ahead_OldestFirst(r) ==   \* mutant: ORDER BY updated_at
  {order[i] : i \in {j \in DOMAIN order :
                       \E k \in DOMAIN order : k < j /\ order[k] = r}}

Ahead(r) ==
  {order[i] : i \in {j \in DOMAIN order :
                       \E k \in DOMAIN order : j < k /\ order[k] = r}}

(* How many rows of the selection the query gives before r.                *)
Rank(recent, r) == Cardinality(Ahead(r) \cap Selected(recent))

Page(recent, offset) ==
  {r \in Selected(recent) :
     offset <= Rank(recent, r) /\ Rank(recent, r) < offset + PageSize}

(* The errors of the counts are dropped, and the answer has zeros.         *)
Counted(n) == IF StoreMayFail THEN {0, n} ELSE {n}

-----------------------------------------------------------------------------
(* The reader: it asks for page after page until one is not full.          *)

StartWalk ==
  /\ walk = NoWalk
  /\ \E recent \in IF table = "tasks" THEN BOOLEAN ELSE {TRUE} :
       /\ walk' = [recent |-> recent, step |-> "page", offset |-> 0,
                   items |-> {}, total |-> 0, counts |-> 0]
       /\ due' = {order[i] : i \in {j \in DOMAIN order :
                    /\ table = "tasks" => j > sec
                    /\ recent \/ order[j] \in active}}
  /\ seen' = {} /\ shrunk' = FALSE
  /\ UNCHANGED <<table, order, sec, active>>

OnlyReads == UNCHANGED <<table, order, sec, active, due, seen, shrunk>>

ListItems ==
  /\ walk # NoWalk /\ walk.step = "page"
  /\ walk' = [walk EXCEPT !.items = Page(walk.recent, walk.offset),
                          !.step = "total"]
  /\ OnlyReads

CountTotal_Active ==   \* mutant: the count forgets the filter of the list
  /\ walk # NoWalk /\ walk.step = "total"
  /\ \E n \in Counted(Cardinality(Selected(table = "audit"))) :
       walk' = [walk EXCEPT !.total = n,
                  !.step = IF table = "tasks" THEN "counts" ELSE "answer"]
  /\ OnlyReads

CountTotal ==
  /\ walk # NoWalk /\ walk.step = "total"
  /\ \E n \in Counted(Cardinality(Selected(walk.recent))) :
       walk' = [walk EXCEPT !.total = n,
                  !.step = IF table = "tasks" THEN "counts" ELSE "answer"]
  /\ OnlyReads

(* The sum over all states.                                                *)
CountByState ==
  /\ walk # NoWalk /\ walk.step = "counts"
  /\ \E n \in Counted(Cardinality(Written)) :
       walk' = [walk EXCEPT !.counts = n, !.step = "answer"]
  /\ OnlyReads

Shown == seen' = seen \cup walk.items

NextPage ==
  /\ walk # NoWalk /\ walk.step = "answer" /\ Cardinality(walk.items) = PageSize
  /\ walk' = [walk EXCEPT !.offset = @ + PageSize, !.step = "page",
                          !.items = {}, !.total = 0, !.counts = 0]
  /\ Shown
  /\ UNCHANGED <<table, order, sec, active, due, shrunk>>

LastPage ==
  /\ walk # NoWalk /\ walk.step = "answer" /\ Cardinality(walk.items) < PageSize
  /\ walk' = NoWalk
  /\ Shown
  /\ UNCHANGED <<table, order, sec, active, due, shrunk>>

(* The list query fails or the reader leaves.                              *)
BreakOff ==
  /\ walk # NoWalk
  /\ walk' = NoWalk
  /\ due' = {} /\ seen' = {} /\ shrunk' = FALSE
  /\ UNCHANGED <<table, order, sec, active>>

-----------------------------------------------------------------------------
(* The hub.                                                                *)

(* rows is what is left of the list without r, recently the length of its  *)
(* part that was written in this second.                                   *)
Placed(r, rows, recently) ==
  \E i \in 1 .. recently + 1 :
    /\ order' = InsertAt(rows, i, r)
    /\ sec' = recently + 1

CreateTask(r) ==
  /\ table = "tasks" /\ r \notin Written
  /\ Placed(r, order, sec)
  /\ active' = active \cup {r}
  /\ UNCHANGED <<table, walk, due, seen, shrunk>>

UpdateTask_InPlace(r) ==   \* mutant: the row is added once more
  /\ table = "tasks" /\ r \in Written
  /\ Placed(r, order, sec)
  /\ active' \in {active \cup {r}, active \ {r}}
  /\ due' = due \ {r}
  /\ shrunk' = (shrunk \/ (r \in active /\ r \notin active'))
  /\ UNCHANGED <<table, walk, seen>>

UpdateTask(r) ==
  /\ table = "tasks" /\ r \in Written
  /\ \E i \in DOMAIN order :
       /\ order[i] = r
       /\ Placed(r, RemoveAt(order, i), IF i <= sec THEN sec - 1 ELSE sec)
  /\ active' \in {active \cup {r}, active \ {r}}
  /\ due' = due \ {r}
  /\ shrunk' = (shrunk \/ (r \in active /\ r \notin active'))
  /\ UNCHANGED <<table, walk, seen>>

Tick ==
  /\ sec > 0
  /\ sec' = 0
  /\ UNCHANGED <<table, order, active, walk, due, seen, shrunk>>

WriteAudit(r) ==
  /\ table = "audit" /\ r \notin Written
  /\ order' = <<r>> \o order
  /\ UNCHANGED <<table, sec, active, walk, due, seen, shrunk>>

(* A request under way is lost.  Where rows are limited, the start deletes *)
(* all but the newest audit rows; if that fails, it goes on.               *)
Vacuumed ==
  IF table = "audit" /\ 0 < Retention /\ Retention < Len(order)
  THEN {SubSeq(order, 1, Retention), order} ELSE {order}

Restart ==
  /\ order' \in Vacuumed
  /\ IF walk # NoWalk /\ walk.step # "page"
     THEN walk' = NoWalk /\ due' = {}
     ELSE /\ UNCHANGED walk
          /\ due' = due \cap {order'[i] : i \in DOMAIN order'}
  /\ UNCHANGED <<table, sec, active, seen, shrunk>>

Reads ==
  \/ StartWalk \/ ListItems \/ CountTotal \/ CountByState \/ NextPage
  \/ LastPage \/ BreakOff

ListsNext ==
  \/ Reads
  \/ \E r \in Rows : CreateTask(r) \/ UpdateTask(r) \/ WriteAudit(r)
  \/ Tick \/ Restart

ListsSpec == ListsInit /\ [][ListsNext]_listVars

-----------------------------------------------------------------------------
(* Properties.                                                             *)

(* Who reads all pages misses nothing that stood still: a row that was     *)
(* written before the second in which the walk began, and neither written  *)
(* nor deleted since, is on one of the pages, because rows only ever move  *)
(* to the front.  Of the list of the active tasks that can be said only if *)
(* no task ended meanwhile: the rows after it move up by one, over the     *)
(* edge of the page.                                                       *)
PagesComplete ==
  [][walk # NoWalk /\ walk' = NoWalk /\ (walk.recent \/ ~shrunk)
     => due' \subseteq seen']_listVars

(* "Showing n of total" never shows more than there is, and the total is   *)
(* never more than the sum of the counts, because what is listed first is  *)
(* counted later and rows are not deleted while the hub runs.  A total or  *)
(* a sum of zero is a count that failed.                                   *)
TotalsCover ==
  walk # NoWalk /\ walk.step = "answer"
  => /\ (walk.recent /\ walk.items # {} /\ walk.total # 0)
          => walk.offset + Cardinality(walk.items) <= walk.total
     /\ (table = "tasks" /\ walk.counts # 0) => walk.total <= walk.counts

=============================================================================
