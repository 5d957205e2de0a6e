---------------------------- MODULE CronSchedule ----------------------------
(***************************************************************************)
(* What the cron manager promises to an administrator: the policy that     *)
(* runs under a name is the one last asked for, or none when it was asked  *)
(* to be suspended.  The manager may lose track of what runs, and regains  *)
(* it by loading what was asked for.                                       *)
(***************************************************************************)
CONSTANTS Names,        \* names of the policies
          Settings,     \* what a policy may be told to do
          Supported(_, _),  \* the settings that a name can be run with
          Off           \* nothing runs

VARIABLES asked,    \* what was asked for: suspended or not, and the settings
          running,  \* what runs under each name
          trusted   \* the manager knows what runs

vars == <<asked, running, trusted>>

Request == [suspend : BOOLEAN, set : Settings]

Wanted(a) == IF a.suspend THEN Off ELSE a.set

Nothing == [n \in Names |-> Off]

Init ==
    /\ asked \in [Names -> Request]
    /\ \A n \in Names : asked[n].suspend
    /\ running = Nothing
    /\ trusted = FALSE

\* A request takes effect at once, or at the next load.
Ask(n, a) ==
    /\ a.suspend \/ Supported(n, a.set)
    /\ asked' = [asked EXCEPT ![n] = a]
    /\ running' = IF trusted THEN [running EXCEPT ![n] = Wanted(a)] ELSE running
    /\ UNCHANGED trusted

Load ==
    /\ trusted' = TRUE
    /\ running' = [n \in Names |-> Wanted(asked[n])]
    /\ UNCHANGED asked

LoseTrack ==
    /\ trusted' = FALSE
    /\ running' = Nothing
    /\ UNCHANGED asked

Next ==
    \/ \E n \in Names, a \in Request : Ask(n, a)
    \/ Load
    \/ LoseTrack

Spec == Init /\ [][Next]_vars
=============================================================================
