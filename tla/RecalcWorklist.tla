--------------------------- MODULE RecalcWorklist ---------------------------
(***************************************************************************)
(* What the event queue, the planner and the portfolio jobs promise        *)
(* together: a day of an account that a change has made out of date stays  *)
(* on a list until a recalculation of it has finished, or is written off   *)
(* in the open (a failed job, a crash).  Nothing leaves the list silently. *)
(*                                                                         *)
(* Cells are pairs <<account, day>>.                                       *)
(***************************************************************************)
CONSTANT Cell

VARIABLES owed,      \* cells whose change no job has taken up yet
          running,   \* cells a job has taken up
          missed     \* cells whose job failed or died

vars == <<owed, running, missed>>

Init == owed = {} /\ running = {} /\ missed = {}

\* A change, or a job that starts on its own account, adds cells; a change
\* may take a cell back from the job that has it.
Note ==
    /\ owed' \in SUBSET Cell /\ owed \subseteq owed'
    /\ running' \in SUBSET Cell /\ running \subseteq running' \union owed'
    /\ missed' = missed

\* A job takes cells up; it may take more than it was asked to, never less.
Take ==
    /\ owed' \subseteq owed
    /\ running' \in SUBSET Cell
    /\ running \union (owed \ owed') \subseteq running'
    /\ missed' = missed

\* A job finishes: its cells are done, and so may be cells missed before.
Finish ==
    /\ owed' = owed
    /\ running' \subseteq running
    /\ missed' \subseteq missed

\* A job fails, or the process dies with everything that was in memory.
GiveUp ==
    /\ owed' \subseteq owed
    /\ running' \subseteq running
    /\ missed' \in SUBSET Cell
    /\ missed \union (owed \ owed') \union (running \ running') \subseteq missed'

Next == Note \/ Take \/ Finish \/ GiveUp

Spec == Init /\ [][Next]_vars

\* Every cell is in a list of its own kind.
TypeOK ==
    /\ owed \subseteq Cell
    /\ running \subseteq Cell
    /\ missed \subseteq Cell
=============================================================================
