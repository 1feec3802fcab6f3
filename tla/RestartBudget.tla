--------------------------- MODULE RestartBudget ---------------------------
(***************************************************************************)
(* What a miner may expect of the watchdog: an abstract specification of   *)
(* the restarts it is sent.                                                *)
(*                                                                         *)
(* One command is under way at a time.  It begins after the cooldown of    *)
(* every restart before it and, until somebody forgives them, within the   *)
(* budget of the window.  Only a window whose budget is used up hands the  *)
(* miner to a human; from then on nothing begins until the human says so.  *)
(* None of this knows of polls, processes, hydration, rehearsals or rows.  *)
(***************************************************************************)
EXTENDS Integers, FiniteSets

CONSTANTS Cooldown, RateWindow, MaxRestarts

VARIABLES
    now,      \* the wall clock
    restarts, \* when the restarts began that were recorded
    underWay, \* when the restart began that is under way, or Nothing
    charge,   \* who has charge of the miner: "service" or "human"
    clears    \* when the human gave it back

vars == <<now, restarts, underWay, charge, clears>>

Nothing == -1

\* The restarts that count at t.
Recent(t) == {u \in restarts : t - u <= RateWindow}

Init == /\ now = 0 /\ restarts = {} /\ underWay = Nothing
        /\ charge = "service" /\ clears = {}

Begin(t) == /\ underWay = Nothing /\ underWay' = t
            /\ charge = "service"
            /\ \A u \in restarts : t - u >= Cooldown
            /\ clears = {} => Cardinality(Recent(t)) < MaxRestarts
            /\ UNCHANGED <<now, restarts, charge, clears>>

Ends == /\ underWay # Nothing /\ underWay' = Nothing
        /\ restarts' = restarts \cup {underWay}
        /\ UNCHANGED <<now, charge, clears>>

\* The process ends with the command, and nobody writes it down.
Lost == /\ underWay # Nothing /\ underWay' = Nothing
        /\ UNCHANGED <<now, restarts, charge, clears>>

HandOver == /\ underWay = Nothing
            /\ charge = "service" /\ charge' = "human"
            /\ Cardinality(Recent(now)) >= MaxRestarts
            /\ UNCHANGED <<now, restarts, underWay, clears>>

\* At any moment, also while a command is under way.
Clear == /\ charge' = "service" /\ clears' = clears \cup {now}
         /\ UNCHANGED <<now, restarts, underWay>>

Tick == now' = now + 1 /\ UNCHANGED <<restarts, underWay, charge, clears>>

Next == Tick \/ Ends \/ Lost \/ HandOver \/ Clear \/ (\E t \in 0..now : Begin(t))

Spec == Init /\ [][Next]_vars
=============================================================================
