---------------------------- MODULE DaemonProofs ----------------------------
(* Proofs about Daemon: the types, and that hubs in the background are     *)
(* found and never doubled, for any number of shells and pids.             *)
(***************************************************************************)
EXTENDS Daemon, TLAPS

(* A command that got so far has a pid.                                    *)
StepsOK ==
  \A s \in Shells :
    /\ cmd[s] # Idle
    /\ cmd[s].step \in {"probe", "signal", "wait", "remove", "truncate pid",
                        "write pid"}
    => cmd[s].pid \in Pids

Alone == \A r, s \in Shells : cmd[r] # Idle /\ cmd[s] # Idle => r = s

NoHub == \A p \in Pids : ~IsHub(p)

(* What the only command at work knows.  A pid that was read is the one in *)
(* the file still, so that a hub, if there is any, has that pid.           *)
Knows(s) ==
  /\ cmd[s].step \in {"probe", "signal", "wait", "remove"}
       => pidFile = cmd[s].pid
  /\ cmd[s].step \in {"remove", "spawn"} => NoHub
  /\ cmd[s].step \in {"truncate pid", "write pid"}
       => \A p \in Pids : IsHub(p) => p = cmd[s].pid
  /\ cmd[s].step = "write pid" => pidFile = "empty"

CalmOK ==
  calm => /\ Alone
          /\ \A s \in Shells : cmd[s] # Idle => Knows(s)
          /\ \A p \in Pids : IsHub(p) => Tracked(p)

(* The inductive invariant.                                                *)
IInv == TypeOK /\ StepsOK /\ CalmOK

-----------------------------------------------------------------------------

LEMMA InitIInv == Init => IInv
BY DaemonAssumption, CommandAssumption
DEF Init, IInv, TypeOK, StepsOK, CalmOK, Alone, IsHub, Contents

(* A command that starts.                                                  *)
LEMMA BeginStep ==
  ASSUME IInv, NEW s \in Shells, BeginDaemon(s) \/ BeginInit(s) \/ BeginMigrate(s)
  PROVE  IInv'
<1>1. PICK run \in {"start", "stop", "kill", "restart", "status", "init",
                    "migrate"},
           step \in {"read", "load", "truncate config"},
           text \in {"whole", "refused"} :
        Begin(s, run, step, text)
  BY DEF BeginDaemon, BeginInit, BeginMigrate
<1> DEFINE k == [run |-> run, step |-> step, pid |-> NoPid,
                 text |-> text]
<1>2. k \in Command
  BY DEF IInv, TypeOK, Command, Truncations
<1>3. /\ cmd[s] = Idle /\ cmd' = [cmd EXCEPT ![s] = k]
      /\ calm' = (calm /\ \A r \in Shells : cmd[r] = Idle)
      /\ UNCHANGED <<procs, pidFile, config>>
  BY <1>1 DEF Begin
<1> HIDE DEF k
<1>4. TypeOK'
  BY <1>2, <1>3 DEF IInv, TypeOK
<1>5. cmd'[s] = k /\ \A r \in Shells \ {s} : cmd'[r] = cmd[r]
  BY <1>3 DEF IInv, TypeOK
<1>6. k.run = run /\ k.step = step
  BY DEF k
<1>7. StepsOK'
  BY <1>1, <1>5, <1>6 DEF IInv, StepsOK
<1>8. CalmOK'
  <2> SUFFICES ASSUME calm' PROVE CalmOK'
    BY DEF CalmOK
  <2>1. calm /\ \A r \in Shells : cmd[r] = Idle
    BY <1>3
  <2>2. Alone' /\ Knows(s)' /\ \A r \in Shells : cmd'[r] # Idle => r = s
    BY <2>1, <1>1, <1>3, <1>5, <1>6 DEF Alone, Knows
  <2>3. \A p \in Pids : IsHub(p)' => Tracked(p)'
    BY <2>1, <1>3 DEF IInv, CalmOK, IsHub, Tracked
  <2> QED
    BY <2>2, <2>3 DEF CalmOK
<1> QED
  BY <1>4, <1>7, <1>8 DEF IInv

(* While calm, the command at work is the only one: a hub is the one in    *)
(* the pid file or the one it has just spawned.                            *)
LEMMA OnlyOne ==
  ASSUME CalmOK, calm, NEW s \in Shells, cmd[s] # Idle
  PROVE  /\ \A r \in Shells : cmd[r] # Idle => r = s
         /\ Knows(s)
         /\ \A p \in Pids : IsHub(p) =>
              \/ pidFile = p
              \/ /\ cmd[s].pid = p
                 /\ cmd[s].step \in {"truncate pid", "write pid"}
BY DEF CalmOK, Alone, Tracked

(* A command that ends or is cut short.                                    *)
LEMMA EndStep ==
  ASSUME IInv, NEW s \in Shells, cmd[s] # Idle, End(s),
         UNCHANGED <<procs, config>>,
         pidFile' \in Pids \cup {Absent, "empty"},
         calm' \in BOOLEAN,
         calm' => /\ calm
                  /\ \A p \in Pids : IsHub(p) => pidFile' = p
  PROVE  IInv'
<1>1. cmd'[s] = Idle /\ \A r \in Shells \ {s} : cmd'[r] = cmd[r]
  BY DEF IInv, TypeOK, End
<1>2. TypeOK'
  BY DEF IInv, TypeOK, End
<1>3. StepsOK'
  BY <1>1 DEF IInv, StepsOK
<1>4. CalmOK'
  <2> SUFFICES ASSUME calm' PROVE CalmOK'
    BY DEF CalmOK
  <2>1. \A r \in Shells : cmd'[r] = Idle
    BY <1>1, OnlyOne DEF IInv
  <2>2. \A p \in Pids : IsHub(p)' => Tracked(p)'
    BY DEF IsHub, Tracked
  <2> QED
    BY <2>1, <2>2 DEF CalmOK, Alone
<1> QED
  BY <1>2, <1>3, <1>4 DEF IInv

(* A command that goes on as k.                                            *)
LEMMA MoveStep ==
  ASSUME IInv, NEW s \in Shells, cmd[s] # Idle, NEW k \in Command,
         cmd' = [cmd EXCEPT ![s] = k], UNCHANGED calm,
         procs' \in [Pids -> Process \cup {Absent}],
         pidFile' \in Pids \cup {Absent, "empty"},
         config' \in Contents \cup {Absent, "empty"},
         k.step \in {"probe", "signal", "wait", "remove", "truncate pid",
                     "write pid"} => k.pid \in Pids,
         cmd'[s] = k /\ calm => Knows(s)' /\ \A p \in Pids : IsHub(p)' => Tracked(p)'
  PROVE  IInv'
<1>1. cmd'[s] = k /\ \A r \in Shells \ {s} : cmd'[r] = cmd[r]
  BY DEF IInv, TypeOK
<1>2. TypeOK'
  BY DEF IInv, TypeOK
<1>3. StepsOK'
  BY <1>1 DEF IInv, StepsOK
<1>4. CalmOK'
  <2> SUFFICES ASSUME calm' PROVE CalmOK'
    BY DEF CalmOK
  <2>1. \A r \in Shells : cmd'[r] # Idle => r = s
    BY <1>1, OnlyOne DEF IInv
  <2> QED
    BY <1>1, <2>1 DEF CalmOK, Alone
<1> QED
  BY <1>2, <1>3, <1>4 DEF IInv

(* A process that ends or a stranger that comes: no hub is new.            *)
LEMMA ProcessStep ==
  ASSUME IInv, UNCHANGED <<pidFile, config, cmd, calm>>,
         procs' \in [Pids -> Process \cup {Absent}],
         \A p \in Pids : IsHub(p)' => IsHub(p)
  PROVE  IInv'
<1>1. TypeOK' /\ StepsOK' /\ (Alone <=> Alone')
  BY DEF IInv, TypeOK, StepsOK, Alone
<1>2. \A s \in Shells : Knows(s) => Knows(s)'
  BY DEF Knows, NoHub
<1>3. \A p \in Pids : Tracked(p) => Tracked(p)'
  BY DEF Tracked
<1> QED
  BY <1>1, <1>2, <1>3 DEF IInv, CalmOK

-----------------------------------------------------------------------------
(* The steps of the commands, one by one.                                  *)

LEMMA CutShortStep ==
  ASSUME IInv, NEW s \in Shells, CutShort(s)
  PROVE  IInv'
<1>1. /\ cmd[s] # Idle /\ End(s) /\ UNCHANGED <<procs, pidFile, config>>
      /\ calm' => calm /\ cmd[s].step \notin {"truncate pid", "write pid"}
      /\ calm' \in BOOLEAN /\ pidFile \in Pids \cup {Absent, "empty"}
  BY DEF CutShort, IInv, TypeOK
<1>2. calm' => \A p \in Pids : IsHub(p) => pidFile' = p
  BY <1>1, OnlyOne DEF IInv
<1> QED
  BY <1>1, <1>2, EndStep

(* A command that ends, or a restart that begins its start half.           *)
LEMMA ReturnStep ==
  ASSUME IInv, NEW s \in Shells, cmd[s] # Idle, StopReturns(s),
         UNCHANGED <<procs, config, calm>>,
         pidFile' \in Pids \cup {Absent, "empty"},
         calm => \A p \in Pids : IsHub(p) => pidFile' = p
  PROVE  IInv'
<1>1. CASE End(s)
  BY <1>1, EndStep DEF IInv, TypeOK
<1>2. CASE ~End(s)
  <2> DEFINE k == [cmd[s] EXCEPT !.run = "start", !.step = "read"]
  <2>1. /\ cmd' = [cmd EXCEPT ![s] = k] /\ k \in Command
        /\ k.step = "read" /\ k.run = "start"
    BY <1>2 DEF StopReturns, IInv, TypeOK, Command
  <2>2. cmd'[s] = k => Knows(s)'
    BY <2>1 DEF Knows
  <2>3. calm => \A p \in Pids : IsHub(p)' => Tracked(p)'
    BY DEF IsHub, Tracked
  <2> HIDE DEF k
  <2> QED
    BY <2>1, <2>2, <2>3, MoveStep DEF IInv, TypeOK
<1> QED
  BY <1>1, <1>2

(* A command that only takes its next step.                                *)
LEMMA GotoStep ==
  ASSUME IInv, NEW s \in Shells, cmd[s] # Idle,
         NEW step \in {"signal", "wait", "remove", "spawn"},
         Goto(s, step), UNCHANGED <<pidFile, config, calm>>,
         procs' \in [Pids -> Process \cup {Absent}],
         \A p \in Pids : IsHub(p)' => IsHub(p),
         step # "spawn" => cmd[s].pid \in Pids,
         calm => /\ step # "spawn" => pidFile = cmd[s].pid
                 /\ \A p \in Pids : IsHub(p) => pidFile = p
                 /\ step \in {"remove", "spawn"} => NoHub
  PROVE  IInv'
<1> DEFINE k == [cmd[s] EXCEPT !.step = step]
<1>1. cmd' = [cmd EXCEPT ![s] = k] /\ k \in Command
  BY DEF Goto, IInv, TypeOK, Command
<1>2. k.run = cmd[s].run /\ k.pid = cmd[s].pid /\ k.step = step
  BY DEF IInv, TypeOK, Command
<1>3. cmd'[s] = k /\ calm => Knows(s)'
  BY <1>2 DEF Knows, NoHub
<1>4. calm => \A p \in Pids : IsHub(p)' => Tracked(p)'
  BY DEF Tracked
<1> HIDE DEF k
<1> QED
  BY <1>1, <1>2, <1>3, <1>4, MoveStep DEF IInv, TypeOK

LEMMA ReadPidStep ==
  ASSUME IInv, NEW s \in Shells, ReadPid(s)
  PROVE  IInv'
<1>1. /\ cmd[s] # Idle /\ cmd[s] \in Command /\ cmd[s].step = "read"
      /\ UNCHANGED <<procs, pidFile, config, calm>>
      /\ pidFile \in Pids \cup {Absent, "empty"}
      /\ procs \in [Pids -> Process \cup {Absent}]
  BY DEF ReadPid, At, IInv, TypeOK, StepsOK
<1>2. calm => \A p \in Pids : IsHub(p) => pidFile = p
  BY <1>1, OnlyOne DEF IInv
<1>3. CASE pidFile \in Pids
  <2> DEFINE k == [cmd[s] EXCEPT !.step = "probe", !.pid = pidFile]
  <2>1. cmd' = [cmd EXCEPT ![s] = k] /\ k \in Command
    BY <1>1, <1>3 DEF ReadPid, IInv, TypeOK, Command
  <2>2. k.run = cmd[s].run /\ k.pid = pidFile /\ k.step = "probe"
    BY <1>1 DEF Command
  <2>3. cmd'[s] = k /\ calm => Knows(s)'
    BY <1>1, <2>2 DEF Knows
  <2>4. calm => \A p \in Pids : IsHub(p)' => Tracked(p)'
    BY <1>1, <1>2 DEF Tracked, IsHub
  <2> HIDE DEF k
  <2> QED
    BY <1>1, <1>3, <2>1, <2>2, <2>3, <2>4, MoveStep DEF IInv, TypeOK
<1>4. CASE pidFile \notin Pids
  <2>1. calm => NoHub
    BY <1>2, <1>4 DEF NoHub
  <2>2. CASE cmd[s].run = "start"
    <3>1. Goto(s, "spawn") /\ \A p \in Pids : IsHub(p)' => IsHub(p)
      BY <1>1, <1>4, <2>2 DEF ReadPid, IsHub
    <3> QED
      BY <1>1, <1>2, <2>1, <3>1, GotoStep DEF IInv, TypeOK
  <2>3. CASE cmd[s].run # "start"
    BY <1>1, <1>2, <1>4, <2>3, ReturnStep DEF ReadPid, IInv, TypeOK
  <2> QED
    BY <2>2, <2>3
<1> QED
  BY <1>3, <1>4

LEMMA ProbeStep ==
  ASSUME IInv, NEW s \in Shells, Probe(s)
  PROVE  IInv'
<1>1. /\ cmd[s] # Idle /\ cmd[s].step = "probe" /\ cmd[s].pid \in Pids
      /\ UNCHANGED <<procs, pidFile, config, calm>>
      /\ procs \in [Pids -> Process \cup {Absent}]
      /\ calm \in BOOLEAN /\ pidFile \in Pids \cup {Absent, "empty"}
      /\ \A p \in Pids : IsHub(p)' => IsHub(p)
  BY DEF Probe, At, IInv, TypeOK, StepsOK, IsHub
<1>2. calm => /\ pidFile = cmd[s].pid
              /\ \A p \in Pids : IsHub(p) => pidFile = p
  BY <1>1, OnlyOne DEF IInv, Knows
<1>3. CASE End(s)
  BY <1>1, <1>2, <1>3, EndStep
<1>4. CASE Goto(s, "signal")
  BY <1>1, <1>2, <1>4, GotoStep
<1>5. CASE ~IsRunning(cmd[s].pid) /\ (Goto(s, "spawn") \/ Goto(s, "remove"))
  <2>1. calm => NoHub
    BY <1>2, <1>5 DEF NoHub, IsHub, IsRunning
  <2> QED
    BY <1>1, <1>2, <1>5, <2>1, GotoStep
<1> QED
  BY <1>3, <1>4, <1>5 DEF Probe

LEMMA SignalStep ==
  ASSUME IInv, NEW s \in Shells, Signal(s)
  PROVE  IInv'
<1> DEFINE p == cmd[s].pid
<1>1. /\ cmd[s] # Idle /\ cmd[s].step = "signal" /\ p \in Pids
      /\ UNCHANGED <<pidFile, config, calm>>
      /\ procs \in [Pids -> Process \cup {Absent}]
      /\ calm \in BOOLEAN /\ pidFile \in Pids \cup {Absent, "empty"}
  BY DEF Signal, At, IInv, TypeOK, StepsOK
<1>2. calm => /\ pidFile = p
              /\ \A q \in Pids : IsHub(q) => pidFile = q
  BY <1>1, OnlyOne DEF IInv, Knows
<1>3. CASE End(s) /\ UNCHANGED procs
  BY <1>1, <1>2, <1>3, EndStep
<1>4. CASE Goto(s, "wait")
  <2>1. /\ procs' \in [Pids -> Process \cup {Absent}]
        /\ \A q \in Pids : IsHub(q)' => IsHub(q)
    <3>1. CASE procs' = [procs EXCEPT ![p] = Absent]
      BY <1>1, <3>1 DEF IsHub, Process
    <3>2. CASE IsHub(p) /\ procs' = [procs EXCEPT ![p] = [@ EXCEPT !.term = TRUE]]
      BY <1>1, <3>2 DEF IsHub, Process, Hub
    <3>3. CASE UNCHANGED procs
      BY <1>1, <3>3 DEF IsHub
    <3>4. CASE End(s) /\ UNCHANGED procs
      BY <3>3, <3>4
    <3> QED
      BY <3>1, <3>2, <3>3, <3>4 DEF Signal
  <2> QED
    BY <1>1, <1>2, <1>4, <2>1, GotoStep
<1> QED
  BY <1>3, <1>4 DEF Signal

LEMMA WaitStep ==
  ASSUME IInv, NEW s \in Shells, SeesItGone(s) \/ WaitTimesOut(s)
  PROVE  IInv'
<1>1. /\ cmd[s] # Idle /\ cmd[s].step = "wait" /\ cmd[s].pid \in Pids
      /\ UNCHANGED <<procs, pidFile, config, calm>>
      /\ procs \in [Pids -> Process \cup {Absent}]
      /\ pidFile \in Pids \cup {Absent, "empty"}
      /\ \A p \in Pids : IsHub(p)' => IsHub(p)
  BY DEF SeesItGone, WaitTimesOut, At, IInv, TypeOK, StepsOK, IsHub
<1>2. calm => /\ pidFile = cmd[s].pid
              /\ \A p \in Pids : IsHub(p) => pidFile = p
  BY <1>1, OnlyOne DEF IInv, Knows
<1>3. CASE SeesItGone(s)
  <2>1. calm => NoHub
    BY <1>2, <1>3 DEF SeesItGone, NoHub, IsHub, IsRunning
  <2> QED
    BY <1>1, <1>2, <1>3, <2>1, GotoStep DEF SeesItGone
<1>4. CASE WaitTimesOut(s)
  BY <1>1, <1>2, <1>4, ReturnStep DEF WaitTimesOut
<1> QED
  BY <1>3, <1>4

LEMMA RemovePidStep ==
  ASSUME IInv, NEW s \in Shells, RemovePid(s)
  PROVE  IInv'
<1>1. /\ cmd[s] # Idle /\ cmd[s].step = "remove"
      /\ StopReturns(s) /\ pidFile' = Absent
      /\ UNCHANGED <<procs, config, calm>>
  BY DEF RemovePid, At, IInv, StepsOK
<1>2. calm => NoHub
  BY <1>1, OnlyOne DEF IInv, Knows
<1> QED
  BY <1>1, <1>2, ReturnStep DEF NoHub

LEMMA SpawnStep ==
  ASSUME IInv, NEW s \in Shells, Spawn(s)
  PROVE  IInv'
<1>1. PICK p \in Pids :
        /\ procs[p] = Absent
        /\ procs' = [procs EXCEPT ![p] = Loading]
        /\ cmd' = [cmd EXCEPT ![s] = [@ EXCEPT !.step = "truncate pid",
                                               !.pid = p]]
  BY DEF Spawn
<1> DEFINE k == [cmd[s] EXCEPT !.step = "truncate pid", !.pid = p]
<1>2. /\ cmd[s] # Idle /\ cmd[s].step = "spawn" /\ cmd[s] \in Command
      /\ UNCHANGED <<pidFile, config, calm>>
  BY DEF Spawn, At, IInv, TypeOK, StepsOK
<1>3. /\ cmd' = [cmd EXCEPT ![s] = k] /\ k \in Command
      /\ k.pid = p /\ k.step = "truncate pid" /\ k.run = cmd[s].run
  BY <1>1, <1>2 DEF Command, Truncations
<1>4. procs' \in [Pids -> Process \cup {Absent}]
  BY <1>1 DEF IInv, TypeOK, Process, Hub, Loading
<1>5. calm => \A q \in Pids : IsHub(q)' => q = p
  BY <1>1, <1>2, OnlyOne DEF IInv, TypeOK, Knows, NoHub, IsHub
<1> HIDE DEF k
<1>6. cmd'[s] = k /\ calm => Knows(s)'
  BY <1>2, <1>3, <1>5 DEF Knows
<1>7. cmd'[s] = k
  BY <1>3 DEF IInv, TypeOK
<1>8. k # Idle
  BY <1>3, CommandAssumption
<1>9. calm => \A q \in Pids : IsHub(q)' => Tracked(q)'
  BY <1>3, <1>5, <1>7, <1>8 DEF Tracked
<1> QED
  BY <1>2, <1>3, <1>4, <1>6, <1>9, MoveStep DEF IInv, TypeOK

LEMMA TruncatePidStep ==
  ASSUME IInv, NEW s \in Shells, TruncatePid(s)
  PROVE  IInv'
<1> DEFINE k == [cmd[s] EXCEPT !.step = "write pid"]
<1>1. /\ cmd[s] # Idle /\ cmd[s].step = "truncate pid" /\ cmd[s] \in Command
      /\ cmd[s].pid \in Pids
      /\ UNCHANGED <<procs, config, calm>> /\ pidFile' = "empty"
  BY DEF TruncatePid, At, IInv, TypeOK, StepsOK
<1>2. /\ cmd' = [cmd EXCEPT ![s] = k] /\ k \in Command
      /\ k.pid = cmd[s].pid /\ k.step = "write pid" /\ k.run = cmd[s].run
  BY <1>1 DEF TruncatePid, Goto, Command
<1>3. calm => \A p \in Pids : IsHub(p)' => p = k.pid
  BY <1>1, <1>2, OnlyOne DEF IInv, Knows, IsHub
<1> HIDE DEF k
<1>4. cmd'[s] = k /\ calm => Knows(s)'
  BY <1>1, <1>2, <1>3 DEF Knows
<1>5. cmd'[s] = k /\ k # Idle
  BY <1>2, CommandAssumption DEF IInv, TypeOK
<1>6. calm => \A p \in Pids : IsHub(p)' => Tracked(p)'
  BY <1>2, <1>3, <1>5 DEF Tracked
<1> QED
  BY <1>1, <1>2, <1>4, <1>6, MoveStep DEF IInv, TypeOK

LEMMA WritePidStep ==
  ASSUME IInv, NEW s \in Shells, WritePid(s)
  PROVE  IInv'
<1>1. /\ cmd[s] # Idle /\ cmd[s].step = "write pid" /\ cmd[s].pid \in Pids
      /\ UNCHANGED <<procs, config, calm>> /\ End(s)
      /\ pidFile' = IF pidFile = Absent THEN Absent ELSE cmd[s].pid
      /\ calm \in BOOLEAN
  BY DEF WritePid, At, IInv, TypeOK, StepsOK
<1>2. calm => \A p \in Pids : IsHub(p) => pidFile' = p
  BY <1>1, OnlyOne, DaemonAssumption DEF IInv, Knows
<1> QED
  BY <1>1, <1>2, EndStep

LEMMA LoadConfigStep ==
  ASSUME IInv, NEW s \in Shells, LoadConfig(s)
  PROVE  IInv'
<1>1. /\ cmd[s] # Idle /\ cmd[s].step = "load" /\ cmd[s] \in Command
      /\ UNCHANGED <<procs, pidFile, config, calm>>
      /\ calm \in BOOLEAN /\ pidFile \in Pids \cup {Absent, "empty"}
  BY DEF LoadConfig, At, IInv, TypeOK
<1>2. calm => Knows(s) /\ \A p \in Pids : IsHub(p) => pidFile = p
  BY <1>1, OnlyOne DEF IInv
<1>3. CASE End(s)
  BY <1>1, <1>2, <1>3, EndStep
<1>4. CASE ~End(s)
  <2> DEFINE k == [cmd[s] EXCEPT
                     !.step = "truncate config",
                     !.text = IF config = "whole" THEN "whole" ELSE "refused"]
  <2>1. cmd' = [cmd EXCEPT ![s] = k] /\ k \in Command
    BY <1>1, <1>4 DEF LoadConfig, Command, Truncations
  <2>2. /\ k.step = "truncate config" /\ k.run = cmd[s].run
        /\ k.text = IF config = "whole" THEN "whole" ELSE "refused"
    BY <1>1 DEF Command
  <2> HIDE DEF k
  <2>3. cmd'[s] = k /\ calm => Knows(s)'
    BY <1>1, <1>2, <2>2 DEF Knows
  <2>4. calm => \A p \in Pids : IsHub(p)' => Tracked(p)'
    BY <1>1, <1>2 DEF IsHub, Tracked
  <2> QED
    BY <1>1, <2>1, <2>2, <2>3, <2>4, MoveStep DEF IInv, TypeOK
<1> QED
  BY <1>3, <1>4

LEMMA TruncateConfigStep ==
  ASSUME IInv, NEW s \in Shells, TruncateConfig(s)
  PROVE  IInv'
<1> DEFINE k == [cmd[s] EXCEPT !.step = "write config"]
<1>1. /\ cmd[s] # Idle /\ cmd[s].step = "truncate config" /\ cmd[s] \in Command
      /\ UNCHANGED <<procs, pidFile, calm>> /\ config' = "empty"
  BY DEF TruncateConfig, At, IInv, TypeOK
<1>2. calm => Knows(s) /\ \A p \in Pids : IsHub(p) => pidFile = p
  BY <1>1, OnlyOne DEF IInv
<1>3. cmd' = [cmd EXCEPT ![s] = k] /\ k \in Command
  BY <1>1 DEF TruncateConfig, Goto, Command
<1>4. /\ k.step = "write config" /\ k.run = cmd[s].run
  BY <1>1 DEF Command
<1> HIDE DEF k
<1>5. cmd'[s] = k /\ calm => Knows(s)'
  BY <1>1, <1>2, <1>4 DEF Knows
<1>6. calm => \A p \in Pids : IsHub(p)' => Tracked(p)'
  BY <1>1, <1>2 DEF IsHub, Tracked
<1> QED
  BY <1>1, <1>3, <1>4, <1>5, <1>6, MoveStep DEF IInv, TypeOK

(* The end of a write leaves the configuration with the command's text.    *)
LEMMA WriteConfigStep ==
  ASSUME IInv, NEW s \in Shells, WriteConfig(s)
  PROVE  IInv'
<1>1. /\ cmd[s] # Idle /\ cmd[s].step = "write config" /\ End(s)
      /\ UNCHANGED <<procs, pidFile, calm>> /\ config' = cmd[s].text
      /\ config' \in Contents
  BY DEF WriteConfig, At, IInv, TypeOK, Command, Contents
<1>2. calm => \A p \in Pids : IsHub(p) => pidFile = p
  BY <1>1, OnlyOne DEF IInv
<1>3. cmd'[s] = Idle /\ \A r \in Shells \ {s} : cmd'[r] = cmd[r]
  BY <1>1 DEF End, IInv, TypeOK
<1>4. TypeOK'
  BY <1>1 DEF IInv, TypeOK, End
<1>5. StepsOK'
  BY <1>3 DEF IInv, StepsOK
<1>6. CalmOK'
  <2> SUFFICES ASSUME calm' PROVE CalmOK'
    BY DEF CalmOK
  <2>1. \A r \in Shells : cmd'[r] = Idle
    BY <1>1, <1>3, OnlyOne DEF IInv
  <2>2. \A p \in Pids : IsHub(p)' => Tracked(p)'
    BY <1>1, <1>2 DEF IsHub, Tracked
  <2> QED
    BY <2>1, <2>2 DEF CalmOK, Alone
<1> QED
  BY <1>4, <1>5, <1>6 DEF IInv

LEMMA WorksStep ==
  ASSUME IInv, NEW s \in Shells, Works(s)
  PROVE  IInv'
BY ReadPidStep, ProbeStep, SignalStep, WaitStep, RemovePidStep, SpawnStep,
   TruncatePidStep, WritePidStep, LoadConfigStep, TruncateConfigStep,
   WriteConfigStep
DEF Works

-----------------------------------------------------------------------------
(* The steps of the processes.                                             *)

LEMMA HubProcessStep ==
  ASSUME IInv, NEW p \in Pids,
         \/ Serves(p) \/ Shuts(p) \/ HubFails(p)
         \/ StrangerComes(p) \/ StrangerGoes(p)
  PROVE  IInv'
<1>1. procs \in [Pids -> Process \cup {Absent}]
  BY DEF IInv, TypeOK
<1>2. ASSUME NEW new \in Process \cup {Absent}, Becomes(p, new),
             new \in Hub => IsHub(p)
      PROVE  IInv'
  <2>1. /\ procs' = [procs EXCEPT ![p] = new]
        /\ UNCHANGED <<pidFile, config, cmd, calm>>
    BY <1>2 DEF Becomes
  <2>2. procs' \in [Pids -> Process \cup {Absent}]
    BY <1>1, <1>2, <2>1
  <2>3. \A q \in Pids : IsHub(q)' => IsHub(q)
    BY <1>1, <1>2, <2>1 DEF IsHub, Process
  <2> QED
    BY <2>1, <2>2, <2>3, ProcessStep
<1>3. CASE Gone(p)
  BY <1>2, <1>3, CommandAssumption DEF Gone
<1>4. CASE StrangerComes(p)
  BY <1>2, <1>4, CommandAssumption DEF StrangerComes, Process
<1>5. ASSUME NEW stage \in {"boot", "listen", "track", "accept", "return"},
             IsHub(p), Reaches(p, stage)
      PROVE  IInv'
  <2>1. [procs[p] EXCEPT !.stage = stage] \in Hub
    BY <1>1, <1>5 DEF IsHub, Process, Hub
  <2> QED
    BY <1>2, <1>5, <2>1 DEF Reaches, Process
<1>6. CASE Serves(p)
  BY <1>3, <1>5, <1>6 DEF Serves, HubLoads, HubBoots, HubListens, HubTracks,
                          HubReturns, Stands
<1>7. CASE HubShutsDown(p)
  <2>1. [procs[p] EXCEPT !.closing = TRUE] \in Hub /\ IsHub(p)
    BY <1>1, <1>7 DEF HubShutsDown, Booted, IsHub, Process, Hub
  <2> QED
    BY <1>2, <1>7, <2>1 DEF HubShutsDown, Process
<1>8. CASE HubCloses(p)
  <2> DEFINE new == [procs[p] EXCEPT
                       !.closed = TRUE,
                       !.stage = IF @ = "accept" THEN "return" ELSE @]
  <2>1. new \in Hub /\ IsHub(p) /\ Becomes(p, new)
    BY <1>1, <1>8 DEF HubCloses, Booted, IsHub, Process, Hub
  <2> HIDE DEF new
  <2> QED
    BY <1>2, <2>1 DEF Process
<1> QED
  BY <1>3, <1>4, <1>6, <1>7, <1>8 DEF Shuts, HubFails, StrangerGoes

-----------------------------------------------------------------------------

LEMMA StepIInv == IInv /\ [Next]_vars => IInv'
<1> SUFFICES ASSUME IInv, [Next]_vars PROVE IInv'
  OBVIOUS
<1>1. CASE \E s \in Shells : \/ BeginDaemon(s) \/ BeginInit(s)
                             \/ BeginMigrate(s)
  BY <1>1, BeginStep
<1>2. CASE \E s \in Shells : Works(s) \/ CutShort(s)
  BY <1>2, WorksStep, CutShortStep
<1>3. CASE \E p \in Pids : \/ Serves(p) \/ Shuts(p) \/ HubFails(p)
                           \/ StrangerComes(p) \/ StrangerGoes(p)
  BY <1>3, HubProcessStep
<1>4. CASE UNCHANGED vars
  BY <1>4 DEF vars, IInv, TypeOK, StepsOK, CalmOK, Alone, Knows, NoHub, IsHub,
              Tracked, At
<1> QED
  BY <1>1, <1>2, <1>3, <1>4 DEF Next

LEMMA Invariant == Spec => []IInv
BY InitIInv, StepIInv, PTL DEF Spec

(* A hub that was started in the background can always be found, by the    *)
(* pid file or by the start that is about to write it.                     *)
THEOREM HubsAreTracked == Spec => []DaemonTracked
<1>1. IInv => DaemonTracked
  BY DEF IInv, CalmOK, DaemonTracked
<1> QED
  BY <1>1, Invariant, PTL

(* The types of the processes, the two files and the commands.             *)
THEOREM DaemonTypes == Spec => []TypeOK
<1>1. IInv => TypeOK
  BY DEF IInv
<1> QED
  BY <1>1, Invariant, PTL

(* No two hubs in the background: each is the one the pid file names or    *)
(* the one that the only command has just spawned, and that command saw    *)
(* that there was none before.                                             *)
THEOREM NeverTwoHubs == Spec => []OneDaemon
<1>1. ASSUME IInv, calm, NEW p \in Pids, NEW q \in Pids, IsHub(p), IsHub(q)
      PROVE  p = q
  <2>1. CASE \A s \in Shells : cmd[s] = Idle
    BY <1>1, <2>1 DEF IInv, CalmOK, Tracked
  <2>2. CASE \E s \in Shells : cmd[s] # Idle
    <3>1. PICK s \in Shells : cmd[s] # Idle
      BY <2>2
    <3>2. CASE cmd[s].step \in {"truncate pid", "write pid"}
      BY <1>1, <3>1, <3>2, OnlyOne DEF IInv, Knows
    <3>3. CASE cmd[s].step \notin {"truncate pid", "write pid"}
      BY <1>1, <3>1, <3>3, OnlyOne DEF IInv
    <3> QED
      BY <3>2, <3>3
  <2> QED
    BY <2>1, <2>2
<1>2. IInv => OneDaemon
  BY <1>1 DEF OneDaemon
<1> QED
  BY <1>2, Invariant, PTL

=============================================================================
