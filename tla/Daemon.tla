------------------------------- MODULE Daemon -------------------------------
(* The hub as a background process: `oah start', `stop', `restart' and     *)
(* `status' with the pid file (internal/cli/daemon.go), `config init' and  *)
(* `config migrate' with the configuration file (internal/cli, config) and *)
(* the process itself from its start to its end (cli/serve.go).            *)
(*                                                                         *)
(* A command knows the hub by what it read from the pid file, and looks at *)
(* the process, signals it and rewrites the file in steps, while hubs end, *)
(* other processes take over pids that became free, and commands run in    *)
(* other shells.  Neither file is locked or replaced as a whole: writing   *)
(* one empties it first.                                                   *)
(***************************************************************************)
EXTENDS Naturals, FiniteSets

CONSTANTS
  Shells,   \* where commands are typed; each runs one at a time
  Pids,
  Stranger, \* a process that is no hub of the background, of the same user
  Foreign,  \* a process of another user, which must not be signalled
  NoPid, Absent, Idle

ASSUME DaemonAssumption ==
  /\ NoPid \notin Pids
  /\ Pids \cap {Absent, "empty"} = {}
  /\ Absent \notin {"empty", "whole", "refused", "malformed"}

VARIABLES
  procs,     \* the process of each pid
  pidFile,
  config,    \* what the configuration file holds
  cmd,       \* the command each shell runs
  calm       \* history: no two commands have overlapped, and none was cut
             \* short in the middle of what has to be done as a whole

vars == <<procs, pidFile, config, cmd, calm>>

-----------------------------------------------------------------------------

(* A hub is two goroutines.  One loads the configuration, boots (store,    *)
(* registry, builder) and calls ListenAndServe, which listens, enters the  *)
(* listener in the server and accepts until it is closed.  The other one   *)
(* is made after the boot and shuts the server down:                       *)
(*   term      SIGTERM came, which from "boot" on only cancels a context   *)
(*   closing   Shutdown has begun: the server's flag is set                *)
(*   closed    Shutdown has closed the listener, if there was one          *)
(* A hub run in the foreground is a stranger, too.                         *)
Hub == [stage   : {"load", "boot", "listen", "track", "accept", "return"},
        term    : BOOLEAN,
        closing : BOOLEAN,
        closed  : BOOLEAN]

Loading == [stage |-> "load", term |-> FALSE, closing |-> FALSE,
            closed |-> FALSE]

(* "refused": Validate does not accept it; "malformed": it is no YAML.     *)
Contents == {"whole", "refused", "malformed"}

Truncations == {"truncate pid", "truncate config"}

Command == [run  : {"start", "stop", "kill", "restart", "status", "init",
                    "migrate"},
            step : {"read", "probe", "signal", "wait", "remove", "spawn",
                    "write pid", "load", "write config"} \cup Truncations,
            pid  : Pids \cup {NoPid},
            text : {"whole", "refused"}]

ASSUME CommandAssumption ==
  Idle \notin Command /\ {Absent, Stranger, Foreign} \cap Hub = {}

Process == Hub \cup {Stranger, Foreign}

TypeOK ==
  /\ procs \in [Pids -> Process \cup {Absent}]
  /\ pidFile \in Pids \cup {Absent, "empty"}
  /\ config \in Contents \cup {Absent, "empty"}
  /\ cmd \in [Shells -> Command \cup {Idle}]
  /\ calm \in BOOLEAN

Init ==
  /\ procs = [p \in Pids |-> Absent]
  /\ pidFile = Absent
  /\ config \in Contents \cup {Absent}
  /\ cmd = [s \in Shells |-> Idle]
  /\ calm = TRUE

IsHub(p) == procs[p] \notin {Absent, Stranger, Foreign}

(* signal 0 asks whether the pid is taken by a process, of whatever kind,  *)
(* that may be signalled: another user's counts as not running.            *)
IsRunning(p) == procs[p] \notin {Absent, Foreign}

-----------------------------------------------------------------------------
(* The start, the steps and the end of a command.                          *)

Begin(s, run, step, text) ==
  /\ cmd[s] = Idle
  /\ cmd' = [cmd EXCEPT ![s] = [run |-> run, step |-> step, pid |-> NoPid,
                                text |-> text]]
  /\ calm' = (calm /\ \A r \in Shells : cmd[r] = Idle)
  /\ UNCHANGED <<procs, pidFile, config>>

BeginDaemon(s) ==
  \E run \in {"start", "stop", "kill", "restart", "status"} :
    Begin(s, run, "read", "whole")

(* init writes what the wizard was told, valid or not (nothing validates   *)
(* it), and --defaults writes a valid configuration.                       *)
BeginInit(s) ==
  \E text \in {"whole", "refused"} : Begin(s, "init", "truncate config", text)

BeginMigrate(s) == Begin(s, "migrate", "load", "whole")

At(s, step) == cmd[s] # Idle /\ cmd[s].step = step

Goto(s, step) == cmd' = [cmd EXCEPT ![s] = [@ EXCEPT !.step = step]]

End(s) == cmd' = [cmd EXCEPT ![s] = Idle]

(* restart goes on with start, however its stop ended short of an error.   *)
StopReturns(s) ==
  IF cmd[s].run = "restart"
  THEN cmd' = [cmd EXCEPT ![s] = [@ EXCEPT !.run = "start", !.step = "read"]]
  ELSE End(s)

(* The user interrupts the command or answers no, or a call fails.         *)
CutShort(s) ==
  /\ cmd[s] # Idle
  /\ End(s)
  /\ calm' = (calm /\ cmd[s].step \notin {"truncate pid", "write pid"})
  /\ UNCHANGED <<procs, pidFile, config>>

-----------------------------------------------------------------------------
(* start, stop, restart and status.                                        *)

ReadPid_Unchecked(s) ==   \* mutant: what is no number is taken for a pid
  /\ At(s, "read")
  /\ \/ /\ pidFile # Absent
        /\ cmd' = [cmd EXCEPT ![s] = [@ EXCEPT !.step = "probe",
                                               !.pid = pidFile]]
     \/ /\ pidFile = Absent
        /\ IF cmd[s].run = "start" THEN Goto(s, "spawn") ELSE StopReturns(s)
  /\ UNCHANGED <<procs, pidFile, config, calm>>

ReadPid(s) ==
  /\ At(s, "read")
  /\ \/ /\ pidFile \in Pids
        /\ cmd' = [cmd EXCEPT ![s] = [@ EXCEPT !.step = "probe",
                                               !.pid = pidFile]]
     \/ /\ pidFile \notin Pids
        /\ IF cmd[s].run = "start" THEN Goto(s, "spawn") ELSE StopReturns(s)
  /\ UNCHANGED <<procs, pidFile, config, calm>>

Probe_Never(s) ==   \* mutant: start does not ask whether the hub is running
  /\ At(s, "probe")
  /\ \/ IsRunning(cmd[s].pid) /\ cmd[s].run = "status" /\ End(s)
     \/ IsRunning(cmd[s].pid) /\ cmd[s].run \in {"stop", "kill", "restart"}
                              /\ Goto(s, "signal")
     \/ cmd[s].run = "start" /\ Goto(s, "spawn")
     \/ ~IsRunning(cmd[s].pid) /\ cmd[s].run # "start" /\ Goto(s, "remove")
  /\ UNCHANGED <<procs, pidFile, config, calm>>

Probe(s) ==
  /\ At(s, "probe")
  /\ \/ IsRunning(cmd[s].pid) /\ cmd[s].run \in {"start", "status"} /\ End(s)
     \/ IsRunning(cmd[s].pid) /\ cmd[s].run \in {"stop", "kill", "restart"}
                              /\ Goto(s, "signal")
     \/ ~IsRunning(cmd[s].pid) /\ cmd[s].run = "start" /\ Goto(s, "spawn")
     \/ ~IsRunning(cmd[s].pid) /\ cmd[s].run # "start" /\ Goto(s, "remove")
  /\ UNCHANGED <<procs, pidFile, config, calm>>

(* SIGKILL with --force, or SIGTERM, which ends a hub at once as long as   *)
(* it loads and has not asked for signals yet.  To signal a pid that is    *)
(* free or another user's is an error.  A stranger may survive SIGTERM.    *)
Signal(s) ==
  LET p == cmd[s].pid IN
  /\ At(s, "signal")
  /\ \/ ~IsRunning(p) /\ End(s) /\ UNCHANGED procs
     \/ /\ IsRunning(p)
        /\ Goto(s, "wait")
        /\ \/ /\ cmd[s].run = "kill" \/ (IsHub(p) /\ procs[p].stage = "load")
              /\ procs' = [procs EXCEPT ![p] = Absent]
           \/ /\ cmd[s].run # "kill" /\ IsHub(p) /\ procs[p].stage # "load"
              /\ procs' = [procs EXCEPT ![p] = [@ EXCEPT !.term = TRUE]]
           \/ cmd[s].run # "kill" /\ ~IsHub(p) /\ UNCHANGED procs
  /\ UNCHANGED <<pidFile, config, calm>>

(* Every 100 ms for five seconds.                                          *)
SeesItGone(s) ==
  /\ At(s, "wait")
  /\ ~IsRunning(cmd[s].pid)
  /\ Goto(s, "remove")
  /\ UNCHANGED <<procs, pidFile, config, calm>>

WaitTimesOut_Removes(s) ==   \* mutant: the pid file goes in any case
  /\ At(s, "wait")
  /\ Goto(s, "remove")
  /\ UNCHANGED <<procs, pidFile, config, calm>>

WaitTimesOut_Never(s) ==   \* mutant: wait for as long as it takes
  At(s, "wait") /\ IsRunning(cmd[s].pid) /\ UNCHANGED vars

WaitTimesOut(s) ==
  /\ At(s, "wait")
  /\ IsRunning(cmd[s].pid)
  /\ StopReturns(s)
  /\ UNCHANGED <<procs, pidFile, config, calm>>

RemovePid(s) ==
  /\ At(s, "remove")
  /\ pidFile' = Absent
  /\ StopReturns(s)
  /\ UNCHANGED <<procs, config, calm>>

Spawn(s) ==
  /\ At(s, "spawn")
  /\ \E p \in Pids :
       /\ procs[p] = Absent
       /\ procs' = [procs EXCEPT ![p] = Loading]
       /\ cmd' = [cmd EXCEPT ![s] = [@ EXCEPT !.step = "truncate pid",
                                              !.pid = p]]
  /\ UNCHANGED <<pidFile, config, calm>>

TruncatePid(s) ==
  /\ At(s, "truncate pid")
  /\ pidFile' = "empty"
  /\ Goto(s, "write pid")
  /\ UNCHANGED <<procs, config, calm>>

(* If another command has removed the file since, the pid goes to a file   *)
(* that has no name any more.                                              *)
WritePid(s) ==
  /\ At(s, "write pid")
  /\ pidFile' = IF pidFile = Absent THEN Absent ELSE cmd[s].pid
  /\ End(s)
  /\ UNCHANGED <<procs, config, calm>>

-----------------------------------------------------------------------------
(* config init and config migrate.                                         *)

Parses(text) == text \in {"whole", "refused", "empty"}

(* An empty file stands for the defaults, which have no api_key.           *)
LoadConfig(s) ==
  /\ At(s, "load")
  /\ \/ ~Parses(config) /\ End(s)
     \/ /\ Parses(config)
        /\ cmd' = [cmd EXCEPT ![s] =
                     [@ EXCEPT !.step = "truncate config",
                               !.text = IF config = "whole" THEN "whole"
                                        ELSE "refused"]]
  /\ UNCHANGED <<procs, pidFile, config, calm>>

TruncateConfig(s) ==
  /\ At(s, "truncate config")
  /\ config' = "empty"
  /\ Goto(s, "write config")
  /\ UNCHANGED <<procs, pidFile, calm>>

WriteConfig(s) ==
  /\ At(s, "write config")
  /\ config' = cmd[s].text
  /\ End(s)
  /\ UNCHANGED <<procs, pidFile, calm>>

-----------------------------------------------------------------------------
(* A hub: runServe, ListenAndServe and the goroutine that ends them.       *)

Stands(p, stage) == IsHub(p) /\ procs[p].stage = stage

Becomes(p, hub) ==
  /\ procs' = [procs EXCEPT ![p] = hub]
  /\ UNCHANGED <<pidFile, config, cmd, calm>>

Gone(p) == Becomes(p, Absent)

Reaches(p, stage) == Becomes(p, [procs[p] EXCEPT !.stage = stage])

(* Anything but a configuration that is whole makes the hub start from the *)
(* defaults, or from what there is, which Validate refuses.                *)
HubLoads(p) ==
  /\ Stands(p, "load")
  /\ IF config = "whole" THEN Reaches(p, "boot") ELSE Gone(p)

(* The database calls of Bootstrap fail once the context is cancelled; a   *)
(* signal that comes after the last of them is found by the goroutine.     *)
HubBoots(p) ==
  /\ Stands(p, "boot")
  /\ Reaches(p, "listen") \/ (procs[p].term /\ Gone(p))

(* ListenAndServe (external) asks for the flag before it listens and again *)
(* when it enters the listener, and returns when it is set; runServe       *)
(* returns, and the process ends, as soon as ListenAndServe does.          *)
HubListens(p) ==
  /\ Stands(p, "listen")
  /\ IF procs[p].closing THEN Gone(p) ELSE Reaches(p, "track")

HubTracks(p) ==
  /\ Stands(p, "track")
  /\ IF procs[p].closing THEN Gone(p) ELSE Reaches(p, "accept")

HubReturns(p) == Stands(p, "return") /\ Gone(p)

(* The goroutine waits for the context and calls Shutdown, which sets the  *)
(* flag and then closes the listener that was entered, so that Accept      *)
(* fails.                                                                  *)
Booted(p) == IsHub(p) /\ procs[p].stage \notin {"load", "boot"}

HubShutsDown_Once(p) ==   \* mutant: closes the listener itself, no Shutdown
  /\ Booted(p) /\ procs[p].term /\ ~procs[p].closed
  /\ Becomes(p, [procs[p] EXCEPT
                   !.closed = TRUE,
                   !.stage = IF @ = "accept" THEN "return" ELSE @])

HubShutsDown(p) ==
  /\ Booted(p) /\ procs[p].term /\ ~procs[p].closing
  /\ Becomes(p, [procs[p] EXCEPT !.closing = TRUE])

HubCloses(p) ==
  /\ Booted(p) /\ procs[p].closing /\ ~procs[p].closed
  /\ Becomes(p, [procs[p] EXCEPT
                   !.closed = TRUE,
                   !.stage = IF @ = "accept" THEN "return" ELSE @])

(* The store cannot be opened, the port is taken, the process crashes.     *)
HubFails(p) == IsHub(p) /\ Gone(p)

-----------------------------------------------------------------------------
(* Other processes.                                                        *)

StrangerComes(p) ==
  procs[p] = Absent /\ \E other \in {Stranger, Foreign} : Becomes(p, other)

StrangerGoes(p) == procs[p] \in {Stranger, Foreign} /\ Gone(p)

-----------------------------------------------------------------------------

Works(s) ==
  \/ ReadPid(s) \/ Probe(s) \/ Signal(s) \/ SeesItGone(s) \/ WaitTimesOut(s)
  \/ RemovePid(s) \/ Spawn(s) \/ TruncatePid(s) \/ WritePid(s)
  \/ LoadConfig(s) \/ TruncateConfig(s) \/ WriteConfig(s)

Serves(p) ==
  \/ HubLoads(p) \/ HubBoots(p) \/ HubListens(p) \/ HubTracks(p)
  \/ HubReturns(p)

Shuts(p) == HubShutsDown(p) \/ HubCloses(p)

Next ==
  \/ \E s \in Shells : \/ BeginDaemon(s) \/ BeginInit(s) \/ BeginMigrate(s)
                       \/ Works(s) \/ CutShort(s)
  \/ \E p \in Pids : \/ Serves(p) \/ Shuts(p) \/ HubFails(p)
                     \/ StrangerComes(p) \/ StrangerGoes(p)

Spec == Init /\ [][Next]_vars

(* A command at work and both goroutines of a hub are scheduled; when      *)
(* commands are typed, hubs fail and strangers come and go is nobody's     *)
(* duty.                                                                   *)
Fairness ==
  /\ \A s \in Shells : WF_vars(Works(s))
  /\ \A p \in Pids : WF_vars(Serves(p)) /\ WF_vars(Shuts(p))

FairSpec == Spec /\ Fairness

-----------------------------------------------------------------------------
(* Properties.                                                             *)

(* Every hub that was started in the background can be found: the pid file *)
(* names it, or the start that spawned it is about to write it there.  It  *)
(* takes that stop leaves the file when the hub outlives the wait, that    *)
(* start looks first, and that the file of a dead hub only goes when no    *)
(* other hub was started meanwhile.                                        *)
Tracked(p) ==
  \/ pidFile = p
  \/ \E s \in Shells : /\ cmd[s] # Idle /\ cmd[s].pid = p
                       /\ cmd[s].step \in {"truncate pid", "write pid"}

DaemonTracked == calm => \A p \in Pids : IsHub(p) => Tracked(p)

(* There are never two of them, at work on one database and one log file.  *)
OneDaemon == calm => \A p, q \in Pids : IsHub(p) /\ IsHub(q) => p = q

(* A hub that was sent SIGTERM ends, at whatever point of its start the    *)
(* signal reached it: before the goroutine exists that waits for it, or    *)
(* while Shutdown and ListenAndServe of one server run side by side, so    *)
(* that there may be no listener yet when Shutdown comes to close it.      *)
StoppedHubsEnd ==
  \A p \in Pids : (IsHub(p) /\ procs[p].term) ~> ~IsHub(p)

(* Every command ends, also when the pid it waits for now belongs to a     *)
(* process that ignores SIGTERM.  (A command that finds no free pid fails.)*)
CommandsEnd ==
  \A s \in Shells : (cmd[s] # Idle) ~> (cmd[s] = Idle \/ At(s, "spawn"))

=============================================================================
