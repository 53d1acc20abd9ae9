-------------------------------- MODULE Tail --------------------------------
(* `oah logs': the last lines of the log file and what is appended to it   *)
(* (internal/tail/tail.go, cli/logs.go), read while the hub appends and    *)
(* something else truncates the file.                                      *)
(*                                                                         *)
(* Follow knows its place in the file as an offset and looks at the size   *)
(* every 250 ms: a file shorter than the offset was truncated.  Lines have *)
(* all the same length here, which makes offset and size numbers of lines; *)
(* and as only whole files are deleted, the file always holds the lines    *)
(* base + 1 to n.                                                          *)
(***************************************************************************)
EXTENDS Integers, Sequences

CONSTANTS
  Tailed,    \* --lines
  MaxLines   \* bound on the lines that are logged

ASSUME TailAssumption == Tailed \in Nat \ {0} /\ MaxLines \in Nat

VARIABLES
  base, n,
  at,        \* where the command is
  offset,
  out,       \* the lines printed
  since,     \* history: the last line when the file was opened to follow
  gone,      \* history: lines that were truncated away before they were read
  hidden     \* history: lines the reader will not see, as the file has
             \* outgrown its offset again since a truncation

tailVars == <<base, n, at, offset, out, since, gone, hidden>>

-----------------------------------------------------------------------------

Size == n - base

Lines(from, to) == [i \in 1 .. to - from + 1 |-> from + i - 1]

Following == at \in {"stat", "read"}

Outgrows == Following /\ Size < offset /\ Size + 1 >= offset

(* What is there to be printed; after a truncation all of the file.        *)
Settled == IF Size < offset THEN base ELSE base + offset

ToRead == IF Following THEN Settled + 1 .. n ELSE {}

TailTypeOK ==
  /\ base \in Nat /\ n \in Nat /\ base <= n
  /\ at \in {"off", "open", "stat", "read"}
  /\ offset \in Nat /\ since \in Nat
  /\ out \in Seq(Nat)
  /\ gone \subseteq 1 .. n /\ hidden \subseteq 1 .. n

TailInit ==
  /\ base = 0 /\ n = 0 /\ at = "off" /\ offset = 0 /\ out = <<>>
  /\ since = 0 /\ gone = {} /\ hidden = {}

-----------------------------------------------------------------------------
(* The file: slog appends (O_APPEND) a line with one write; copying the    *)
(* log and truncating it is not the hub's doing.                           *)

Log ==
  /\ n < MaxLines
  /\ n' = n + 1
  /\ hidden' = IF Outgrows THEN hidden \cup (base + 1 .. n + 1) ELSE hidden
  /\ UNCHANGED <<base, at, offset, out, since, gone>>

Truncate ==
  /\ Size > 0
  /\ base' = n
  /\ gone' = gone \cup ToRead
  /\ UNCHANGED <<n, at, offset, out, since, hidden>>

-----------------------------------------------------------------------------
(* The command.                                                            *)

LastLines ==
  /\ at = "off"
  /\ out' = Lines(IF Size > Tailed THEN n - Tailed + 1 ELSE base + 1, n)
  /\ at' = "open"
  /\ UNCHANGED <<base, n, offset, since, gone, hidden>>

Open ==
  /\ at = "open"
  /\ offset' = Size
  /\ since' = n
  /\ at' = "stat"
  /\ UNCHANGED <<base, n, out, gone, hidden>>

Stat_Stays ==   \* mutant: no seek after a truncation
  /\ at = "stat"
  /\ at' = "read"
  /\ UNCHANGED <<base, n, offset, out, since, gone, hidden>>

Stat_ToTheEnd ==   \* mutant: after a truncation only what is new
  /\ at = "stat"
  /\ offset' = IF Size < offset THEN Size ELSE offset
  /\ at' = "read"
  /\ UNCHANGED <<base, n, out, since, gone, hidden>>

Stat ==
  /\ at = "stat"
  /\ offset' = IF Size < offset THEN 0 ELSE offset
  /\ at' = "read"
  /\ UNCHANGED <<base, n, out, since, gone, hidden>>

(* As much as the buffer takes.                                            *)
Read_Uncounted ==   \* mutant: the offset is not moved by what was read
  /\ at = "read" /\ offset < Size
  /\ \E to \in base + offset + 1 .. n :
       /\ out' = out \o Lines(base + offset + 1, to)
       /\ offset' = offset + 1
  /\ UNCHANGED <<base, n, at, since, gone, hidden>>

Read ==
  /\ at = "read" /\ offset < Size
  /\ \E to \in base + offset + 1 .. n :
       /\ out' = out \o Lines(base + offset + 1, to)
       /\ offset' = to - base
  /\ UNCHANGED <<base, n, at, since, gone, hidden>>

NoMore ==
  /\ at = "read" /\ Size <= offset
  /\ at' = "stat"
  /\ UNCHANGED <<base, n, offset, out, since, gone, hidden>>

(* Without -f, on an error, or when the user has seen enough.              *)
Quit ==
  /\ at # "off"
  /\ at' = "off" /\ offset' = 0 /\ out' = <<>>
  /\ since' = 0 /\ gone' = {} /\ hidden' = {}
  /\ UNCHANGED <<base, n>>

Polls == Stat \/ Read \/ NoMore

TailNext == Log \/ Truncate \/ LastLines \/ Open \/ Polls \/ Quit

TailSpec == TailInit /\ [][TailNext]_tailVars

-----------------------------------------------------------------------------
(* Properties.                                                             *)

(* No line logged since the file was opened is passed over: it was         *)
(* printed, is still to be read, or was lost in a truncation.              *)
NothingPassedOver ==
  Following =>
    since + 1 .. n \subseteq
      {out[i] : i \in DOMAIN out} \cup ToRead \cup gone \cup hidden

(* What is printed is what LogFeed promises, the order of the lines in     *)
(* particular.                                                             *)
Feed == INSTANCE LogFeed WITH
  written <- n, watching <- Following, rotated <- Following /\ Size < offset,
  next <- IF Following THEN Settled ELSE n, got <- out

FollowsLog == Feed!Spec

(* The reader does not stop short of the end of the log: what is there to  *)
(* be read is read in the end, also after a truncation, or truncated       *)
(* before.                                                                 *)
CatchesUp ==
  \A i \in 1 .. MaxLines : i \in ToRead ~> i \notin ToRead

=============================================================================
