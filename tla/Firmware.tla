------------------------------ MODULE Firmware ------------------------------
(***************************************************************************)
(* A miner behind its API port, as the simulator of sim/miner_sim.py       *)
(* answers and as the drivers expect of the real ones.  A command is a     *)
(* name with an argument; a reply keeps the code of the STATUS envelope,   *)
(* which message it carries and what its payload says.                     *)
(***************************************************************************)
EXTENDS Integers, FiniteSets, SequencesExt

VARIABLES
    build,    \* of the firmware, one of Builds; it does not change
    machine   \* the state it is in

MachineStates == {"mining", "stopped", "restarting", "sleeping"}

\* What a build can do: --stock, --no-null-terminator, --read-only,
\* --no-check-command and --no-sleep-support of the simulator; `restart`, a
\* build that implements it.
Builds == [stock : BOOLEAN, nul : BOOLEAN, privileged : BOOLEAN, check : BOOLEAN,
           sleep : BOOLEAN, restart : BOOLEAN]

Command(name, arg) == [name |-> name, arg |-> arg]
Plain(name)        == Command(name, "none")

\* ascset 0,sleep and ascset 0,wake
AscSleep == Command("ascset", "sleep")
AscWake  == Command("ascset", "wake")

-----------------------------------------------------------------------------
(* Replies.                                                                *)

NoEntry == [hashing |-> "no field", says |-> "nothing"]

\* SimState.summary: the hashrate, and unless it is stock what state it is in.
Summary(state) ==
    [hashing |-> IF state = "mining" THEN "yes" ELSE "no",
     says    |-> IF build.stock THEN "nothing" ELSE state]

Reply(status, msg, entry) == [status |-> status, msg |-> msg, entry |-> entry]
Refusal(msg) == Reply("E", msg, NoEntry)

CheckReply(exists, access) ==
    [status |-> "S", msg |-> "check", entry |-> NoEntry, exists |-> exists, access |-> access]

\* check_status
IsOk(reply) == reply.status \in {"S", "I"}

Known      == {"summary", "stats", "version", "restart", "ascset", "pause", "resume",
               "check", "config"}
Privileged == {"restart", "ascset", "pause", "resume", "quit"}
Sleeping   == {"ascset", "pause", "resume"}

\* The state a command that is carried out leads to.
Effect(c) ==
    IF c = AscSleep \/ c.name = "pause" THEN "sleeping"
    ELSE IF c = AscWake \/ c.name = "resume" THEN "mining"
    ELSE IF c.name = "restart" THEN "restarting"
    ELSE machine

\* Why a command is refused, or "".
WhyRefused(c) ==
    IF \/ c.name = "check" /\ ~build.check
       \/ c.name \in Sleeping /\ ~build.sleep
       \/ c.name = "restart" /\ ~build.restart
    THEN "invalid command"
    ELSE IF c.name \in Sleeping /\ ~build.privileged THEN "access denied"
    ELSE IF c.name = "ascset" /\ c.arg \notin {"sleep", "wake"} THEN "unknown"
    ELSE IF c.name \notin Known \ {"config"} THEN "unknown"
    ELSE ""

\* _dispatch: the answer to a command, and the machine after it.
Dispatch(c) ==
    LET after == Effect(c)
    IN  IF WhyRefused(c) # ""
        THEN [machine |-> machine, reply |-> Refusal(WhyRefused(c))]
        ELSE [machine |-> after,
              reply |->
                IF c.name = "check"
                THEN CheckReply(c.arg \in Known,
                                c.arg \notin Privileged \/ build.privileged)
                ELSE Reply(IF c.name = "ascset" THEN "I" ELSE "S", "ok",
                           IF c.name \in {"stats", "version"} THEN NoEntry
                           ELSE Summary(after))]
=============================================================================
