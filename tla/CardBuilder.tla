---------------------------- MODULE CardBuilder -----------------------------
(***************************************************************************)
(* The composite agent card (internal/card/card.go) built from the         *)
(* registry's health and card cache (module Health).                       *)
(*                                                                         *)
(* One goroutine takes events off the registry's one-slot channel, waits   *)
(* out a debounce window and rebuilds the card from a fresh List().        *)
(* Events carry no state and may be dropped: what has to hold is that no   *)
(* change of what an upstream advertises goes unannounced.                 *)
(***************************************************************************)
EXTENDS Health

CONSTANTS Unbuilt   \* no snapshot in the builder's hands

ASSUME CardBuilderAssumption == Unbuilt \notin [Ids -> Cards \cup {NoCard}]

VARIABLES
  timer,      \* "seed": Start has yet to build the first card;
              \* "off": the loop waits for an event; "on": pending
  snapshot,   \* what List() returned to a Rebuild that has not stored yet
  published,  \* the card handlers serve, by the skills of each upstream
  lost        \* history: a handler dropped the event it owed, and nothing has
              \* come since that makes up for it

builder == <<timer, snapshot, published>>

allVars == <<mem, rows, call, channel, timer, snapshot, published, lost>>

Composite == [id \in Ids |-> Advertised(id)]

Nothing == [id \in Ids |-> NoCard]

BuilderTypeOK ==
  /\ TypeOK
  /\ timer \in {"seed", "off", "on"}
  /\ snapshot \in [Ids -> Cards \cup {NoCard}] \cup {Unbuilt}
  /\ published \in [Ids -> Cards \cup {NoCard}]
  /\ lost \in BOOLEAN

BuilderInit ==
  /\ Init
  /\ timer = "seed"
  /\ snapshot = Unbuilt
  /\ published = Nothing
  /\ lost = FALSE

-----------------------------------------------------------------------------

Announced ==
  \/ channel
  \/ \E t \in Threads : call[t] # Idle /\ Owes(call[t])

ListToCome == timer # "off" /\ snapshot = Unbuilt

(* When the row write of RefreshCard fails it returns before it posts; the *)
(* next List() or event makes up for that.                                 *)
EventDropped ==
  \E t \in Threads : At(t, "persist") /\ Owes(call[t]) /\ call'[t] = Idle

(* The builder's part in a handler's step: none.                           *)
Rest ==
  /\ lost' = ((lost \/ EventDropped) /\ ~channel' /\ ~ListToCome)
  /\ UNCHANGED builder

(* The loop takes an event; the first of a burst starts the timer.         *)
Receive ==
  /\ channel
  /\ timer # "seed"
  /\ snapshot = Unbuilt
  /\ channel' = FALSE
  /\ timer' = "on"
  /\ UNCHANGED <<mem, rows, call, snapshot, published, lost>>

(* Rebuild, first half: the timer fired, List() copies under a read lock.  *)
RebuildList ==
  /\ timer # "off"
  /\ snapshot = Unbuilt
  /\ snapshot' = Composite
  /\ UNCHANGED <<vars, timer, published, lost>>

(* Rebuild, second half: the new card is swapped in.                       *)
RebuildStore_Drains ==   \* mutant: an event posted meanwhile counts as served
  /\ snapshot # Unbuilt
  /\ published' = snapshot
  /\ snapshot' = Unbuilt
  /\ timer' = "off"
  /\ channel' = FALSE
  /\ UNCHANGED <<mem, rows, call, lost>>

RebuildStore_Unguarded ==   \* mutant: stores what it has, a list or none
  /\ published' = snapshot
  /\ snapshot' = Unbuilt
  /\ timer' = "off"
  /\ UNCHANGED <<vars, lost>>

RebuildStore ==
  /\ snapshot # Unbuilt
  /\ published' = snapshot
  /\ snapshot' = Unbuilt
  /\ timer' = "off"
  /\ UNCHANGED <<vars, lost>>

Build == RebuildList \/ RebuildStore

RestartHub ==
  /\ timer' = "seed"
  /\ snapshot' = Unbuilt
  /\ published' = Nothing
  /\ lost' = FALSE
  /\ Restart

BuilderNext ==
  \/ Operate /\ Rest
  \/ Receive
  \/ Build
  \/ RestartHub

BuilderSpec == BuilderInit /\ [][BuilderNext]_allVars

(* A posted event is received, the 100 ms timer fires and Rebuild ends:    *)
(* the loop does nothing else.  Threads go on as in Health.                *)
BuilderFairness ==
  /\ WF_allVars(Receive)
  /\ WF_allVars(Build)
  /\ \A t \in Threads : WF_allVars(Continue(t) /\ Rest)

FairBuilderSpec == BuilderSpec /\ BuilderFairness

-----------------------------------------------------------------------------
(* Properties.                                                             *)

(* No change goes unannounced: when the builder rests, or is about to      *)
(* store a list it read earlier, and that card is not what the upstreams   *)
(* now advertise, an event is in the channel or some handler still has one *)
(* to post, unless a RefreshCard dropped its event over a failed row write *)
(* and nothing has made up for it.  Events that find the slot taken, the   *)
(* unlocked read in RecordFailure, a failed write in RecordSuccess or      *)
(* RecordFailure, a rebuild that overlaps a change and removals under way  *)
(* must not break this.                                                    *)
StaleIsAnnounced ==
  /\ timer = "off" /\ published # Composite => Announced \/ lost
  /\ snapshot # Unbuilt /\ snapshot # Composite => Announced \/ lost

(* The card is eventually right.  As long as the hub stays up, either what *)
(* an upstream advertises keeps changing, or events keep being dropped or  *)
(* one was and nothing made up for it, or what it advertises is published  *)
(* from some point on.                                                     *)
CardConverges ==
  \A id \in Ids :
    \/ []<><<Advertised(id)' # Advertised(id)>>_allVars
    \/ []<><<RestartHub>>_allVars
    \/ []<>lost
    \/ <>[](published[id] = Advertised(id))

=============================================================================
