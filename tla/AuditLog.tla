----------------------------- MODULE AuditLog -----------------------------
(* What the audit chain promises its readers: a log that only ever grows at  *)
(* its end and only ever loses its oldest entries.  An entry is never        *)
(* changed, never reordered, and never removed while an older one is kept.   *)
EXTENDS Integers, Sequences

CONSTANTS Events

VARIABLES
    log,    \* everything ever committed, oldest first
    gone    \* how many of the oldest entries retention has removed

vars == <<log, gone>>

Init == log = <<>> /\ gone = 0

(* A committed transaction adds its events behind everything before it.      *)
Grow ==
    /\ log' \in Seq(Events) /\ Len(log') > Len(log)
    /\ \A i \in 1..Len(log) : log'[i] = log[i]
    /\ UNCHANGED gone

(* Retention removes a prefix of what is left.                               *)
Purge ==
    /\ gone' \in (gone + 1)..Len(log)
    /\ UNCHANGED log

Next == Grow \/ Purge

Spec == Init /\ [][Next]_vars
============================================================================
