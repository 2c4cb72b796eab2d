------------------------------ MODULE Throttle ------------------------------
(***************************************************************************)
(* What the runner promises YouTube, and nothing of how: one request at a  *)
(* time, and a gap after each before the next.                             *)
(***************************************************************************)
CONSTANT Calls

VARIABLES
  running,  \* the calls whose process is up
  close     \* the gap after the last exit has not passed yet

vars == <<running, close>>

Init == running = {} /\ close = FALSE

Start(c) == /\ running = {} /\ ~close
            /\ running' = {c} /\ UNCHANGED close

Exit(c) == /\ running = {c}
           /\ running' = {} /\ close' = TRUE

Elapse == close' = FALSE /\ UNCHANGED running

Next == Elapse \/ \E c \in Calls : Start(c) \/ Exit(c)

Spec == Init /\ [][Next]_vars

=============================================================================
