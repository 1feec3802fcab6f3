------------------------------ MODULE MCAlerts ------------------------------
(* Values of the constants of Alerts for the model-checking run.  A        *)
(* behaviour exercises one part of the monitor: the copy of the table with *)
(* every kind of row and of reader, the mails over one family of rows, or  *)
(* the mails while settings and fleet change under them.                   *)
EXTENDS Alerts

VARIABLE part

Part(n, actions) == [maxRows |-> n, actions |-> actions]
Parts == [copy  |-> Part(3, {"alert", "needs_attention", "attention_cleared"}),
          latch |-> Part(3, {"alert", "needs_attention", "attention_cleared"}),
          power |-> Part(2, {"none", "alert", "sleep_failed", "awake"}),
          sight |-> Part(2, {"alert", "needs_attention", "sleep_failed"})]

Everything == {"stale", "latched", "unsure", "down"}
Use(on, watch) == [enabled |-> on, watch |-> watch, resolved |-> TRUE]
Watching   == Use(TRUE, Everything)
Unwatching == {Use(on, watch) : on \in BOOLEAN, watch \in {Everything, {"stale", "down"}}}
Always     == 0..20
AllRows    == UNION {Parts[p].actions : p \in DOMAIN Parts}

PartInit == AlertsInit /\ part \in DOMAIN Parts /\ settings = Use(part # "copy", Everything)

\* The rows are one miner's; another stands beside it in the fleet.
TheMiner == CHOOSE m \in Miners : TRUE

PartNext ==
    /\ AlertsNext /\ UNCHANGED part
    /\ Len(rows') <= Parts[part].maxRows
    /\ \A i \in DOMAIN rows' : rows'[i].action \in Parts[part].actions /\ rows'[i].miner = TheMiner
    /\ part # "power" => UNCHANGED inMaintenance
    /\ part \notin {"power", "sight"} => UNCHANGED settings
    /\ part # "sight" => settings'.watch = Everything /\ configured' = Miners
    /\ part \in {"copy", "sight"} => clock' < MaxClock - 1 /\ UNCHANGED trouble
    /\ inMaintenance' \in {{}, Miners}
    /\ part # "copy" =>
           /\ looking'.by # "page" /\ ~swapped' /\ (part # "sight" => replacedN' = 0)
           /\ rows' # rows => Last(rows').ts = clock /\ monitor.pc \in {"idle", "sending"}
           /\ clock' # clock => monitor.pc \in {"idle", "sending"}

PartSpec == PartInit /\ [][PartNext]_<<allVars, part>> /\ Fairness
=============================================================================
