------------------------------ MODULE LogFeed -------------------------------
(* What `oah logs -f' promises: the last lines of the log, and from some   *)
(* moment on every new line, in order and once.  Lines are left out only   *)
(* in two ways, when the file is truncated before they were read, and when *)
(* after a truncation that was not noticed yet the file has grown again to *)
(* where the reader stands.                                                *)
(***************************************************************************)
EXTENDS Integers, Sequences

VARIABLES
  written,    \* lines are numbered as they are logged, this is the last one
  watching,   \* whether new lines are being followed
  next,       \* all lines up to this one are shown or will never be
  rotated,    \* the file was truncated and the reader does not know
  got         \* the lines that were shown

feedVars == <<written, watching, next, rotated, got>>

Lines(from, to) == [i \in 1 .. to - from + 1 |-> from + i - 1]

Init ==
  written = 0 /\ watching = FALSE /\ next = 0 /\ rotated = FALSE /\ got = <<>>

Log ==
  /\ written' = written + 1
  /\ next' = IF watching THEN next ELSE written'
  /\ UNCHANGED <<watching, rotated, got>>

(* Before anything else the last lines are shown.                          *)
Begin ==
  /\ ~watching /\ got = <<>>
  /\ \E from \in 1 .. written + 1 : got' = Lines(from, written)
  /\ UNCHANGED <<written, watching, next, rotated>>

Watch == watching' = TRUE /\ UNCHANGED <<written, next, rotated, got>>

Show ==
  /\ watching /\ ~rotated
  /\ \E to \in next + 1 .. written : got' = got \o Lines(next + 1, to)
                                     /\ next' = to
  /\ UNCHANGED <<written, watching, rotated>>

Truncated ==
  /\ next' = written
  /\ rotated' \in BOOLEAN
  /\ UNCHANGED <<written, watching, got>>

Noticed == rotated' = FALSE /\ UNCHANGED <<written, watching, next, got>>

Outgrown ==
  /\ rotated
  /\ written' = written + 1 /\ next' = written' /\ rotated' = FALSE
  /\ UNCHANGED <<watching, got>>

Stop ==
  /\ watching' = FALSE /\ next' = written /\ rotated' = FALSE /\ got' = <<>>
  /\ UNCHANGED written

Next ==
  \/ Log \/ Begin \/ Watch \/ Show \/ Truncated \/ Noticed \/ Outgrown \/ Stop

Spec == Init /\ [][Next]_feedVars

-----------------------------------------------------------------------------

(* No line is shown twice or out of its order.                             *)
InOrder == \A i, j \in 1 .. Len(got) : i < j => got[i] < got[j]

=============================================================================
