----------------------------- MODULE MCDrivers -----------------------------
(***************************************************************************)
(* Everything that is sent to one miner: the power mode over its web page, *)
(* the search for the shape of that write, the commands of its API port,   *)
(* and the reading of a poll.  The parts share no state, so a behaviour    *)
(* exercises one of them, chosen at the start, while the others rest.      *)
(***************************************************************************)
EXTENDS WorkMode, MinerApi, CommandDriver, WriteShapes

\* The service sleeps the miner and wakes it again while somebody sleeps it
\* from the command line.
ThreeCommands == 1..3
Targets == <<"sleep", "normal", "sleep">>
Clients == <<"service", "service", "cli">>

VARIABLE exercised

Parts == {"work mode", "write shapes", "commands", "reading"}

driversVars == <<vars, apiVars, driverVars, shapeVars, exercised>>

\* Sleep commands a firmware may not know, and the usual ones.
SleepCommands == <<AscSleep, Plain("pause")>>
WakeCommands  == <<AscWake, Plain("resume")>>
AllMechanisms == {"cgminer", "bitmain_reboot", "auto"}

WorkModePart == /\ exercised = "work mode" /\ Next
                /\ UNCHANGED <<apiVars, driverVars, shapeVars, exercised>>

ShapesPart == /\ exercised = "write shapes" /\ ShapesNext
              /\ UNCHANGED <<vars, apiVars, driverVars, exercised>>

CommandsPart == /\ exercised = "commands" /\ DriverNext
                /\ UNCHANGED <<vars, moves, exchange, wire, buf, written, reading,
                               shapeVars, exercised>>

ReadingPart == /\ exercised = "reading" /\ ApiNext
               /\ UNCHANGED <<vars, op, done, unread, unanswered,
                               shapeVars, exercised>>

AnyPage  == CHOOSE p \in WebPages : TRUE
AnyBuild == CHOOSE b \in Builds : TRUE

DriversInit ==
    /\ exercised \in Parts
    /\ Init
    /\ IF exercised = "write shapes" THEN ShapesInit
       ELSE /\ page = AnyPage /\ conf = Conf("normal", "int", "null") /\ pending = NoWrite
            /\ unsure = FALSE /\ search = [pc |-> "begin", shape |-> 1, original |-> conf]
    /\ IF exercised = "commands" THEN DriverInit
       ELSE /\ op = Op("none", "idle", <<>>, "cgminer")
            /\ done = <<>> /\ unread = 0 /\ unanswered = FALSE
    /\ IF exercised = "reading" THEN ApiInit
       ELSE /\ moves = 0 /\ exchange = "idle" /\ wire = <<>> /\ buf = <<>>
            /\ written = NoReply /\ reading = "none"
    /\ exercised \notin {"commands", "reading"} => build = AnyBuild /\ machine = "mining"

DriversSpec ==
    DriversInit /\ [][WorkModePart \/ ShapesPart \/ CommandsPart \/ ReadingPart]_driversVars
=============================================================================
