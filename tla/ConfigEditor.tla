---------------------------- MODULE ConfigEditor ----------------------------
(***************************************************************************)
(* The configuration editor of the dashboard: pages that load the file,    *)
(* edit it and save it, each save in a thread of its own, with a refusal   *)
(* of stale edits, a backup of what is replaced and a list of backups cut  *)
(* to KEEP_BACKUPS; a text editor beside them; and the list of miners the  *)
(* dashboard watches, switched after a save.                               *)
(*                                                                         *)
(* A text stands for itself, its digest and the miners it configures.      *)
(***************************************************************************)
EXTENDS Integers, FiniteSets

CONSTANTS
    Pages,         \* browser pages that edit the file
    Texts,         \* what the file may say
    Invalid,       \* texts that do not parse
    First,         \* the text the dashboard was started with
    KeepBackups,   \* KEEP_BACKUPS
    RenameRetries, \* attempts of write_text_atomic to rename
    MaxSaves,      \* bound: saves asked for
    MaxTrouble,    \* bound: refused renames, dashboards that stop
    MaxForeign     \* bound: saves of the text editor

ASSUME EditorConstants ==
    /\ Invalid \subseteq Texts /\ First \in Texts \ Invalid
    /\ KeepBackups \in Nat \ {0} /\ RenameRetries \in Nat \ {0}
    /\ MaxSaves \in Nat /\ MaxTrouble \in Nat /\ MaxForeign \in Nat

VARIABLES
    disk,      \* the text of miners.yaml
    backups,   \* the files in config-backups
    written,   \* backups written so far: the order of their times
    page,      \* per page: its text editor and the save that is under way
    fleet,     \* the text whose miners the dashboard watches
    saves, trouble, foreign, \* how much of each bound is used
    replaced,  \* history: what saves replaced, see OverwrittenIsKept
    clashed,   \* history: backups that another of the same name replaced
    apart      \* history: the file and the fleet were set apart, see FleetFollows

editorVars == <<disk, backups, written, page, fleet, saves, trouble, foreign,
                replaced, clashed, apart>>

\* A backup is the order of its time, the number in its name and its text.  All
\* saves may fall into one second, so the names differ by their numbers only.

\* base: the text whose digest the page sends; text: the candidate; read: what
\* save read from the disk; at: the order of its backup; raced (history): the
\* file was changed since save compared it.
Closed == [pc |-> "closed", base |-> First, text |-> First, read |-> First,
           name |-> 0, at |-> 0, listed |-> {}, tries |-> 0, raced |-> FALSE]

EditorInit ==
    /\ disk = First /\ fleet = First /\ backups = {} /\ written = 0
    /\ page = [e \in Pages |-> Closed]
    /\ saves = 0 /\ trouble = 0 /\ foreign = 0 /\ replaced = {}
    /\ clashed = {} /\ apart = FALSE

-----------------------------------------------------------------------------

Step(e, next) == page' = [page EXCEPT ![e] = next]

\* The page keeps its candidate and the digest it was loaded with.
Back(e) == [page[e] EXCEPT !.pc = "editing"]

\* GET /api/config
Open(e) ==
    /\ page[e].pc \in {"closed", "editing"}
    /\ Step(e, [Closed EXCEPT !.pc = "editing", !.base = disk, !.text = disk])
    /\ UNCHANGED <<disk, backups, written, fleet, saves, trouble, foreign, replaced, clashed, apart>>

\* POST /api/config/save: a candidate that does not parse is answered at once.
Save(e, t) ==
    /\ page[e].pc = "editing" /\ saves < MaxSaves /\ saves' = saves + 1
    /\ Step(e, IF t \in Invalid THEN [page[e] EXCEPT !.text = t]
               ELSE [page[e] EXCEPT !.pc = "comparing", !.text = t, !.raced = FALSE])
    /\ UNCHANGED <<disk, backups, written, fleet, trouble, foreign, replaced, clashed, apart>>

\* Mutant: the digest is not compared.
CompareNothing(e) ==
    /\ page[e].pc = "comparing"
    /\ Step(e, [page[e] EXCEPT !.pc = "naming", !.read = disk])
    /\ UNCHANGED <<disk, backups, written, fleet, saves, trouble, foreign, replaced, clashed, apart>>

\* The digest of the file against the page's: EditConflict leaves everything.
Compare(e) ==
    /\ page[e].pc = "comparing"
    /\ Step(e, IF disk # page[e].base THEN Back(e)
               ELSE [page[e] EXCEPT !.pc = "naming", !.read = disk])
    /\ UNCHANGED <<disk, backups, written, fleet, saves, trouble, foreign, replaced, clashed, apart>>

\* _write_backup: the first name that does not exist ...
IsFreeName(n) == /\ \A b \in backups : b.name # n
                 /\ \A m \in 1..(n - 1) : \E b \in backups : b.name = m

NameBackup(e) ==
    /\ page[e].pc = "naming"
    /\ \E n \in 1..(Cardinality(backups) + 1) :
          IsFreeName(n) /\ Step(e, [page[e] EXCEPT !.pc = "backing", !.name = n])
    /\ UNCHANGED <<disk, backups, written, fleet, saves, trouble, foreign, replaced, clashed, apart>>

\* ... and then the file, over one that another save gave this name meanwhile.
WriteBackup(e) ==
    LET mine == [at |-> written + 1, name |-> page[e].name, text |-> page[e].read]
    IN  /\ page[e].pc = "backing" /\ written' = written + 1
        /\ backups' = {b \in backups : b.name # mine.name} \cup {mine}
        /\ clashed' = clashed \cup {b.at : b \in {c \in backups : c.name = mine.name}}
        /\ Step(e, [page[e] EXCEPT !.pc = "replacing", !.at = mine.at, !.tries = 0])
        /\ UNCHANGED <<disk, fleet, saves, trouble, foreign, replaced, apart>>

\* Everybody but e who has compared and not yet replaced is overtaken.
Overtaken(e) ==
    [f \in Pages |-> IF f # e /\ page[f].pc \in {"naming", "backing", "replacing"}
                     THEN [page[f] EXCEPT !.raced = TRUE] ELSE page[f]]

\* Somebody else's save is on disk and its miners are not in the fleet yet.
Pending(e) == \E f \in Pages \ {e} : page[f].pc \in {"listing", "pruning", "switching"}

\* write_text_atomic renames the candidate over the file.
ReplaceConfig(e) ==
    /\ page[e].pc = "replacing" /\ disk' = page[e].text
    /\ page' = [Overtaken(e) EXCEPT ![e].pc = "listing"]
    /\ replaced' = replaced \cup
                    (IF page[e].raced THEN {} ELSE {[text |-> disk, at |-> page[e].at]})
    /\ apart' = (apart \/ Pending(e))
    /\ UNCHANGED <<backups, written, fleet, saves, trouble, foreign, clashed>>

\* PermissionError, at last answered as an error; the backup stays.
RenameRefused(e) ==
    /\ page[e].pc = "replacing" /\ trouble < MaxTrouble /\ trouble' = trouble + 1
    /\ Step(e, IF page[e].tries + 1 >= RenameRetries THEN Back(e)
               ELSE [page[e] EXCEPT !.tries = @ + 1])
    /\ UNCHANGED <<disk, backups, written, fleet, saves, foreign, replaced, clashed, apart>>

\* _prune: list_backups first collects the files that exist, ...
ListBackups(e) ==
    /\ page[e].pc = "listing"
    /\ Step(e, [page[e] EXCEPT !.pc = "pruning", !.listed = backups])
    /\ UNCHANGED <<disk, backups, written, fleet, saves, trouble, foreign, replaced, clashed, apart>>

\* Mutant: the oldest backups are the ones that are kept.
SurplusOfOldest(bs) == {b \in bs : Cardinality({c \in bs : c.at < b.at}) >= KeepBackups}

\* list_backups[KEEP_BACKUPS:], newest first.
Surplus(bs) == {b \in bs : Cardinality({c \in bs : c.at > b.at}) >= KeepBackups}

\* ... then reads their times.  One that another save has removed meanwhile
\* raises, after the file was replaced and before the fleet is switched.
Names(bs) == {b.name : b \in bs}

PruneBackups(e) ==
    /\ page[e].pc = "pruning" /\ Names(page[e].listed) \subseteq Names(backups)
    /\ backups' = backups \ Surplus({b \in backups : b.name \in Names(page[e].listed)})
    /\ Step(e, [page[e] EXCEPT !.pc = "switching", !.listed = {}])
    /\ UNCHANGED <<disk, written, fleet, saves, trouble, foreign, replaced, clashed, apart>>

PruneRaises(e) ==
    /\ page[e].pc = "pruning" /\ ~(Names(page[e].listed) \subseteq Names(backups))
    /\ Step(e, [Back(e) EXCEPT !.listed = {}]) /\ apart' = TRUE
    /\ UNCHANGED <<disk, backups, written, fleet, saves, trouble, foreign, replaced, clashed>>

\* Mutant: the handler's list of miners is rebound instead of changed in place.
SwitchNothing(e) ==
    /\ page[e].pc = "switching"
    /\ Step(e, [Back(e) EXCEPT !.base = page[e].text])
    /\ apart' = (apart /\ (disk # page[e].text \/ Pending(e)))
    /\ UNCHANGED <<disk, backups, written, fleet, saves, trouble, foreign, replaced, clashed>>

\* replace_miners; the page goes on with the digest of what it saved.
SwitchFleet(e) ==
    /\ page[e].pc = "switching" /\ fleet' = page[e].text
    /\ Step(e, [Back(e) EXCEPT !.base = page[e].text])
    /\ apart' = (apart /\ (disk # page[e].text \/ Pending(e)))
    /\ UNCHANGED <<disk, backups, written, saves, trouble, foreign, replaced, clashed>>

-----------------------------------------------------------------------------

\* A text editor saves something else; the dashboard does not watch the file.
ForeignSave(t) ==
    /\ foreign < MaxForeign /\ foreign' = foreign + 1
    /\ t # disk /\ disk' = t /\ apart' = TRUE
    /\ page' = [e \in Pages |->
                  IF page[e].pc \in {"naming", "backing", "replacing"}
                  THEN [page[e] EXCEPT !.raced = TRUE] ELSE page[e]]
    /\ UNCHANGED <<backups, written, fleet, saves, trouble, replaced, clashed>>

\* The dashboard stops, with every save under way, and is started again; it
\* needs a configuration that parses.  The pages in the browsers stay.
RestartDashboard ==
    /\ trouble < MaxTrouble /\ trouble' = trouble + 1
    /\ disk \notin Invalid /\ fleet' = disk /\ apart' = FALSE
    /\ page' = [e \in Pages |-> IF page[e].pc = "closed" THEN page[e]
                                ELSE [Back(e) EXCEPT !.listed = {}]]
    /\ UNCHANGED <<disk, backups, written, saves, foreign, replaced, clashed>>

EditorNext == \/ \E e \in Pages :
                    \/ Open(e) \/ Compare(e) \/ NameBackup(e) \/ WriteBackup(e)
                    \/ (\E t \in Texts : Save(e, t))
                    \/ ReplaceConfig(e) \/ RenameRefused(e)
                    \/ ListBackups(e) \/ PruneBackups(e) \/ PruneRaises(e)
                    \/ SwitchFleet(e)
              \/ \E t \in Texts : ForeignSave(t)
              \/ RestartDashboard

EditorSpec == EditorInit /\ [][EditorNext]_editorVars

-----------------------------------------------------------------------------
(***************************************************************************)
(* Properties.                                                             *)
(***************************************************************************)

\* No save overwrites a text that its page has not seen, except one that was
\* written after this save had compared the file.
EditsAreSeen ==
    [][\A e \in Pages :
          page[e].pc = "replacing" /\ page'[e].pc = "listing" =>
              disk = page[e].base \/ page[e].raced]_editorVars

\* What a save replaced can be restored until KeepBackups later backups were
\* written, whatever other saves, failed renames and restarts come between, but
\* for a save that had found the same name free and wrote its backup later.
OverwrittenIsKept ==
    \A o \in replaced :
        \/ o.at \in clashed
        \/ \E b \in backups : b.text = o.text /\ b.at >= o.at
        \/ written - o.at >= KeepBackups

\* The dashboard watches the miners of the file when no save is under way,
\* unless the text editor changed it, a save replaced the file before another
\* had switched the fleet, or one lost its backup list to another; and the next
\* undisturbed save, or a restart, puts that right.
FleetFollows ==
    (\A e \in Pages : page[e].pc \in {"closed", "editing"}) => fleet = disk \/ apart
=============================================================================
