---------------------------- MODULE FilesProofs ----------------------------
(***************************************************************************)
(* Proofs about what people and processes write down and the service goes  *)
(* by.  The configuration editor: no save overwrites what its page has not *)
(* seen, what it overwrites can be restored, and the dashboard watches the *)
(* miners of the file, for any number of pages and saves.  The hours: the  *)
(* code that looks at the day before agrees with the circle of the week,   *)
(* however long the day is.  The settings: the merge of three levels keeps *)
(* the nearest that is said.  Of the walk over the log, which is proved in *)
(* EventLogProofs, only that it applies to the logs of the run.            *)
(***************************************************************************)
EXTENDS MCFiles, EventLogProofs

-----------------------------------------------------------------------------
(* The configuration editor.                                               *)

Backups == [at : Nat, name : Nat, text : Texts]

PageStates ==
    [pc : {"closed", "editing", "comparing", "naming", "backing", "replacing",
           "listing", "pruning", "switching"},
     base : Texts, text : Texts, read : Texts, name : Nat, at : Nat,
     listed : SUBSET Backups, tries : Nat, raced : BOOLEAN]

Types ==
    /\ disk \in Texts /\ fleet \in Texts /\ written \in Nat
    /\ page \in [Pages -> PageStates]
    /\ backups \in SUBSET Backups /\ IsFiniteSet(backups)
    /\ replaced \in SUBSET [text : Texts, at : Nat]

-----------------------------------------------------------------------------
(* The inductive invariant.                                                *)

\* A save between its comparison and its rename, and one whose miners are not
\* in the fleet yet.
InHand(p)  == p.pc \in {"naming", "backing", "replacing"}
Landing(p) == p.pc \in {"listing", "pruning", "switching"}

\* Until somebody changes the file it is what a save compared and will back up.
SeenOrRaced ==
    \A e \in Pages : InHand(page[e]) /\ ~page[e].raced =>
        disk = page[e].base /\ disk = page[e].read

\* The order of a backup is its own.
BackupsAreOrdered ==
    /\ \A b \in backups : b.at \in 1..written
    /\ \A b, c \in backups : b.at = c.at => b = c

\* The backup with this order is there, unless another of its name or enough
\* later ones took its place.
Backed(at, text) ==
    /\ at \in 1..written
    /\ \/ at \in clashed
       \/ \E b \in backups : b.at = at /\ b.text = text
       \/ written - at >= KeepBackups

BackupsAreKept ==
    /\ \A e \in Pages : page[e].pc = "replacing" => Backed(page[e].at, page[e].read)
    /\ \A o \in replaced : Backed(o.at, o.text)

\* While the file and the fleet are not set apart, one save at most is landing;
\* it wrote what the file says, and without it the fleet is that already.
FleetIsKnown ==
    ~apart =>
        /\ \A e \in Pages : Landing(page[e]) =>
              /\ disk = page[e].text
              /\ \A f \in Pages \ {e} : ~Landing(page[f])
        /\ (\A e \in Pages : ~Landing(page[e])) => fleet = disk

IInv == Types /\ SeenOrRaced /\ BackupsAreOrdered /\ BackupsAreKept /\ FleetIsKnown
-----------------------------------------------------------------------------
(* Backups.                                                                *)

\* A backup that is cut off the list has KeepBackups later ones, so as many
\* were written since.
LEMMA SurplusIsOld ==
    ASSUME written \in Nat, NEW bs \in SUBSET Backups, IsFiniteSet(bs),
           \A b \in bs : b.at \in 1..written,
           \A b, c \in bs : b.at = c.at => b = c,
           NEW b \in Surplus(bs)
    PROVE  written - b.at >= KeepBackups
  <1> DEFINE Later == {c \in bs : c.at > b.at}
             Orders == (b.at + 1)..written
             order  == [c \in Later |-> c.at]
  <1>1. b \in bs /\ Cardinality(Later) >= KeepBackups BY DEF Surplus
  <1>2. b.at \in Nat /\ b.at <= written BY <1>1
  <1>3. order \in [Later -> Orders]
    <2>1. \A c \in Later : c.at \in Orders BY <1>2
    <2>2. QED BY <2>1
  <1>4. order \in Injection(Later, Orders) BY <1>3 DEF Injection, IsInjective
  <1>5. IsFiniteSet(Orders) /\ Cardinality(Orders) = IF b.at + 1 > written THEN 0
                                                     ELSE written - (b.at + 1) + 1
    <2>1. b.at + 1 \in Int /\ written \in Int BY <1>2
    <2> DEFINE first == b.at + 1
    <2>2. Orders = first..written OBVIOUS
    <2>3. first \in Int BY <2>1
    <2> HIDE DEF first, Orders
    <2>4. IsFiniteSet(Orders) /\ Cardinality(Orders) = IF first > written THEN 0
                                                       ELSE written - first + 1
      BY <2>1, <2>2, <2>3, FS_Interval
    <2>5. QED BY <2>4 DEF first
  <1>6. IsFiniteSet(Later) /\ Cardinality(Later) <= Cardinality(Orders)
    <2> HIDE DEF Later, Orders, order
    <2>1. QED BY <1>4, <1>5, FS_Injection
  <1>7. Cardinality(Later) \in Nat BY <1>6, FS_CardinalityType
  <1> HIDE DEF Later, Orders
  <1>8. KeepBackups \in Nat \ {0} BY EditorConstants DEF EditorConstants
  <1>9. QED BY <1>1, <1>2, <1>5, <1>6, <1>7, <1>8

-----------------------------------------------------------------------------
(* Steps of one page.                                                      *)

\* A page that goes on: what it has in hand it had in hand, or has just
\* compared, and it lands and backs up nothing.
LEMMA PageGoesOn ==
    ASSUME IInv, NEW e \in Pages, NEW next \in PageStates,
           page' = [page EXCEPT ![e] = next],
           UNCHANGED <<disk, backups, written, fleet, replaced, clashed, apart>>,
           InHand(next) => \/ /\ InHand(page[e]) /\ next.raced = page[e].raced
                              /\ next.base = page[e].base /\ next.read = page[e].read
                           \/ disk = next.base /\ disk = next.read,
           next.pc = "replacing" => /\ page[e].pc = "replacing"
                                    /\ next.at = page[e].at /\ next.read = page[e].read,
           Landing(next) <=> Landing(page[e]),
           Landing(next) => next.text = page[e].text
    PROVE  IInv'
  <1>1. \A f \in Pages : page'[f] = IF f = e THEN next ELSE page[f] BY DEF IInv, Types
  <1>2. Types' BY DEF IInv, Types
  <1>3. SeenOrRaced' BY <1>1 DEF IInv, SeenOrRaced
  <1>4. BackupsAreOrdered' BY DEF IInv, BackupsAreOrdered
  <1>5. BackupsAreKept' BY <1>1 DEF IInv, BackupsAreKept, Backed
  <1>6. FleetIsKnown' BY <1>1 DEF IInv, FleetIsKnown
  <1>7. QED BY <1>2, <1>3, <1>4, <1>5, <1>6 DEF IInv

LEMMA InitHolds == EditorInit => IInv
  <1> SUFFICES ASSUME EditorInit PROVE IInv OBVIOUS
  <1>1. First \in Texts BY EditorConstants DEF EditorConstants
  <1>2. Closed \in PageStates /\ Closed.pc = "closed" BY <1>1 DEF Closed, PageStates
  <1>3. \A e \in Pages : page[e] = Closed BY DEF EditorInit
  <1>4. IsFiniteSet(backups) BY FS_EmptySet DEF EditorInit
  <1>5. Types BY <1>1, <1>2, <1>4 DEF EditorInit, Types
  <1>6. SeenOrRaced /\ FleetIsKnown
    BY <1>2, <1>3 DEF EditorInit, SeenOrRaced, FleetIsKnown, InHand, Landing
  <1>7. BackupsAreOrdered /\ BackupsAreKept
    BY <1>2, <1>3 DEF EditorInit, BackupsAreOrdered, BackupsAreKept
  <1>8. QED BY <1>5, <1>6, <1>7 DEF IInv

LEMMA OpenKeeps == ASSUME IInv, NEW e \in Pages, Open(e) PROVE IInv'
  <1> DEFINE next == [Closed EXCEPT !.pc = "editing", !.base = disk, !.text = disk]
  <1>1. disk \in Texts /\ First \in Texts
    BY EditorConstants DEF IInv, Types, EditorConstants
  <1>2. next \in PageStates /\ next.pc = "editing" BY <1>1 DEF Closed, PageStates
  <1>3. ~InHand(next) /\ ~Landing(next) /\ ~Landing(page[e])
    BY <1>2 DEF InHand, Landing, Open
  <1>4. /\ page' = [page EXCEPT ![e] = next]
        /\ UNCHANGED <<disk, backups, written, fleet, replaced, clashed, apart>>
    BY DEF Open, Step
  <1> HIDE DEF next
  <1>5. QED BY <1>2, <1>3, <1>4, PageGoesOn

LEMMA SaveKeeps == ASSUME IInv, NEW e \in Pages, NEW t \in Texts, Save(e, t) PROVE IInv'
  <1> DEFINE answered == [page[e] EXCEPT !.text = t]
             begun    == [page[e] EXCEPT !.pc = "comparing", !.text = t, !.raced = FALSE]
  <1>1. page[e] \in PageStates /\ page[e].pc = "editing" BY DEF IInv, Types, Save
  <1>2. /\ answered \in PageStates /\ answered.pc = "editing"
        /\ begun \in PageStates /\ begun.pc = "comparing"
    BY <1>1 DEF PageStates
  <1>3. /\ \/ page' = [page EXCEPT ![e] = answered]
           \/ page' = [page EXCEPT ![e] = begun]
        /\ UNCHANGED <<disk, backups, written, fleet, replaced, clashed, apart>>
    BY DEF Save, Step
  <1> HIDE DEF answered, begun
  <1>4. /\ ~InHand(answered) /\ ~Landing(answered)
        /\ ~InHand(begun) /\ ~Landing(begun) /\ ~Landing(page[e])
    BY <1>1, <1>2 DEF InHand, Landing
  <1>5. QED BY <1>2, <1>3, <1>4, PageGoesOn

\* The page that goes back to its editor has nothing in hand.
LEMMA BackIsEditing ==
    ASSUME IInv, NEW e \in Pages
    PROVE  /\ Back(e) \in PageStates /\ Back(e).pc = "editing"
           /\ ~InHand(Back(e)) /\ ~Landing(Back(e))
  <1>1. Back(e) \in PageStates /\ Back(e).pc = "editing"
    BY DEF IInv, Types, Back, PageStates
  <1>2. QED BY <1>1 DEF InHand, Landing

LEMMA CompareKeeps == ASSUME IInv, NEW e \in Pages, Compare(e) PROVE IInv'
  <1> DEFINE next == [page[e] EXCEPT !.pc = "naming", !.read = disk]
  <1>1. page[e] \in PageStates /\ page[e].pc = "comparing" /\ disk \in Texts
    BY DEF IInv, Types, Compare
  <1>2. UNCHANGED <<disk, backups, written, fleet, replaced, clashed, apart>>
    BY DEF Compare
  <1>3. CASE disk # page[e].base
    <2>1. page' = [page EXCEPT ![e] = Back(e)] BY <1>3 DEF Compare, Step
    <2>2. ~Landing(page[e]) BY <1>1 DEF Landing
    <2>3. ~Landing(Back(e)) /\ Back(e).pc # "replacing" BY BackIsEditing
    <2>4. QED BY <1>2, <2>1, <2>2, <2>3, BackIsEditing, PageGoesOn
  <1>4. CASE disk = page[e].base
    <2>1. page' = [page EXCEPT ![e] = next] BY <1>4 DEF Compare, Step
    <2>2. /\ next \in PageStates /\ next.pc = "naming"
          /\ next.read = disk /\ next.base = page[e].base
      BY <1>1 DEF PageStates
    <2> HIDE DEF next
    <2>3. ~Landing(page[e]) /\ ~Landing(next) BY <1>1, <2>2 DEF Landing
    <2>4. QED BY <1>2, <1>4, <2>1, <2>2, <2>3, PageGoesOn
  <1>5. QED BY <1>3, <1>4

LEMMA NameBackupKeeps == ASSUME IInv, NEW e \in Pages, NameBackup(e) PROVE IInv'
  <1>1. Cardinality(backups) \in Nat BY FS_CardinalityType DEF IInv, Types
  <1>2. PICK n \in 1..(Cardinality(backups) + 1) :
           page' = [page EXCEPT ![e] = [page[e] EXCEPT !.pc = "backing", !.name = n]]
    BY DEF NameBackup, Step
  <1> DEFINE next == [page[e] EXCEPT !.pc = "backing", !.name = n]
  <1>3. n \in Nat BY <1>1
  <1>4. page[e] \in PageStates /\ page[e].pc = "naming" BY DEF IInv, Types, NameBackup
  <1>5. /\ next \in PageStates /\ next.pc = "backing" /\ next.raced = page[e].raced
        /\ next.base = page[e].base /\ next.read = page[e].read
    BY <1>3, <1>4 DEF PageStates
  <1>6. UNCHANGED <<disk, backups, written, fleet, replaced, clashed, apart>>
    BY DEF NameBackup
  <1>7. page' = [page EXCEPT ![e] = next] BY <1>2
  <1> HIDE DEF next
  <1>8. InHand(page[e]) /\ ~Landing(page[e]) /\ ~Landing(next)
    BY <1>4, <1>5 DEF InHand, Landing
  <1>9. QED BY <1>5, <1>6, <1>7, <1>8, PageGoesOn

LEMMA RenameRefusedKeeps == ASSUME IInv, NEW e \in Pages, RenameRefused(e) PROVE IInv'
  <1> DEFINE next == [page[e] EXCEPT !.tries = @ + 1]
  <1>1. page[e] \in PageStates /\ page[e].pc = "replacing"
    BY DEF IInv, Types, RenameRefused
  <1>2. UNCHANGED <<disk, backups, written, fleet, replaced, clashed, apart>>
    BY DEF RenameRefused
  <1>3. \/ page' = [page EXCEPT ![e] = Back(e)]
        \/ page' = [page EXCEPT ![e] = next]
    BY DEF RenameRefused, Step
  <1>4. /\ next \in PageStates /\ next.pc = "replacing" /\ next.raced = page[e].raced
        /\ next.base = page[e].base /\ next.read = page[e].read /\ next.at = page[e].at
    BY <1>1 DEF PageStates
  <1> HIDE DEF next
  <1>5. InHand(page[e]) /\ ~Landing(page[e]) /\ ~Landing(next)
    BY <1>1, <1>4 DEF InHand, Landing
  <1>6. CASE page' = [page EXCEPT ![e] = Back(e)]
    BY <1>2, <1>5, <1>6, BackIsEditing, PageGoesOn
  <1>7. CASE page' = [page EXCEPT ![e] = next]
    BY <1>1, <1>2, <1>4, <1>5, <1>7, PageGoesOn
  <1>8. QED BY <1>3, <1>6, <1>7

LEMMA ListBackupsKeeps == ASSUME IInv, NEW e \in Pages, ListBackups(e) PROVE IInv'
  <1> DEFINE next == [page[e] EXCEPT !.pc = "pruning", !.listed = backups]
  <1>1. /\ page[e] \in PageStates /\ page[e].pc = "listing" /\ backups \in SUBSET Backups
    BY DEF IInv, Types, ListBackups
  <1>2. next \in PageStates /\ next.pc = "pruning" /\ next.text = page[e].text
    BY <1>1 DEF PageStates
  <1>3. /\ page' = [page EXCEPT ![e] = next]
        /\ UNCHANGED <<disk, backups, written, fleet, replaced, clashed, apart>>
    BY DEF ListBackups, Step
  <1> HIDE DEF next
  <1>4. ~InHand(next) /\ Landing(page[e]) /\ Landing(next)
    BY <1>1, <1>2 DEF InHand, Landing
  <1>5. QED BY <1>2, <1>3, <1>4, PageGoesOn

-----------------------------------------------------------------------------
(* Steps that change the backups, the file or the fleet.                   *)

\* A backup that is written takes the place of one of its name only, which is
\* then known to have clashed.
LEMMA BackedThroughWrite ==
    ASSUME IInv, NEW e \in Pages, WriteBackup(e), NEW at, NEW text, Backed(at, text)
    PROVE  Backed(at, text)'
  <1> DEFINE mine == [at |-> written + 1, name |-> page[e].name, text |-> page[e].read]
  <1>1. /\ written' = written + 1 /\ written \in Nat
        /\ backups' = {b \in backups : b.name # mine.name} \cup {mine}
        /\ clashed' = clashed \cup {b.at : b \in {c \in backups : c.name = mine.name}}
    BY DEF WriteBackup, IInv, Types
  <1>2. at \in 1..written /\ at \in 1..written' BY <1>1 DEF Backed
  <1>3. CASE at \in clashed BY <1>1, <1>2, <1>3 DEF Backed
  <1>4. CASE \E b \in backups : b.at = at /\ b.text = text
    <2>1. PICK b \in backups : b.at = at /\ b.text = text BY <1>4
    <2> HIDE DEF mine
    <2>2. CASE b.name = mine.name BY <1>1, <1>2, <2>1, <2>2 DEF Backed
    <2>3. CASE b.name # mine.name BY <1>1, <1>2, <2>1, <2>3 DEF Backed
    <2>4. QED BY <2>2, <2>3
  <1>5. CASE written - at >= KeepBackups
    <2>1. KeepBackups \in Nat BY EditorConstants DEF EditorConstants
    <2>2. written' - at >= KeepBackups BY <1>1, <1>2, <1>5, <2>1
    <2>3. QED BY <1>2, <2>2 DEF Backed
  <1>6. QED BY <1>3, <1>4, <1>5 DEF Backed

LEMMA WriteBackupKeeps == ASSUME IInv, NEW e \in Pages, WriteBackup(e) PROVE IInv'
  <1> DEFINE mine == [at |-> written + 1, name |-> page[e].name, text |-> page[e].read]
             next == [page[e] EXCEPT !.pc = "replacing", !.at = written + 1, !.tries = 0]
             kept == {b \in backups : b.name # mine.name}
  <1>1. /\ page[e] \in PageStates /\ page[e].pc = "backing" /\ written \in Nat
        /\ backups \in SUBSET Backups /\ IsFiniteSet(backups)
    BY DEF IInv, Types, WriteBackup
  <1>2. /\ written' = written + 1 /\ backups' = kept \cup {mine}
        /\ page' = [page EXCEPT ![e] = next]
        /\ UNCHANGED <<disk, fleet, replaced, apart>>
    BY DEF WriteBackup, Step
  <1>3. /\ mine.at = written + 1 /\ mine.text = page[e].read
        /\ mine \in Backups /\ kept \subseteq backups
    BY <1>1 DEF Backups, PageStates
  <1>4. /\ next \in PageStates /\ next.pc = "replacing" /\ next.raced = page[e].raced
        /\ next.base = page[e].base /\ next.read = page[e].read
        /\ next.at = written + 1
    <2>1. written + 1 \in Nat /\ page[e] \in PageStates BY <1>1
    <2>2. next \in PageStates BY <2>1 DEF PageStates
    <2>3. /\ next.pc = "replacing" /\ next.raced = page[e].raced
          /\ next.base = page[e].base /\ next.read = page[e].read
          /\ next.at = written + 1
      BY <2>1 DEF PageStates
    <2>4. QED BY <2>2, <2>3
  <1> HIDE DEF mine, next, kept
  <1>5. \A f \in Pages : page'[f] = IF f = e THEN next ELSE page[f]
    BY <1>2 DEF IInv, Types
  <1>6. InHand(page[e]) /\ ~Landing(page[e]) /\ ~Landing(next)
    BY <1>1, <1>4 DEF InHand, Landing
  <1>7. IsFiniteSet(backups')
    <2>1. IsFiniteSet(kept) BY <1>1, <1>3, FS_Subset
    <2>2. QED BY <1>2, <2>1, FS_AddElement
  <1>8. Types' BY <1>1, <1>2, <1>3, <1>4, <1>7 DEF IInv, Types
  <1>9. SeenOrRaced' BY <1>2, <1>4, <1>5, <1>6 DEF IInv, SeenOrRaced
  <1>10. BackupsAreOrdered'
    <2>1. \A b \in kept : b.at \in 1..written BY <1>3 DEF IInv, BackupsAreOrdered
    <2>2. \A b \in backups' : b = mine \/ b \in kept BY <1>2
    <2>3. \A b \in backups' : b.at \in 1..written' BY <1>1, <1>2, <1>3, <2>1, <2>2
    <2>4. \A b \in kept : b.at # mine.at BY <1>1, <1>3, <2>1
    <2>5. \A b, c \in kept : b.at = c.at => b = c BY <1>3 DEF IInv, BackupsAreOrdered
    <2>6. \A b, c \in backups' : b.at = c.at => b = c BY <2>2, <2>4, <2>5
    <2>7. QED BY <2>3, <2>6 DEF BackupsAreOrdered
  <1>11. BackupsAreKept'
    <2>1. written + 1 \in 1..written' BY <1>1, <1>2
    <2>2. mine \in backups' BY <1>2
    <2>3. Backed(page[e].at, page[e].read)'
      <3>1. page'[e] = next BY <1>5
      <3>2. page'[e].at = mine.at /\ page'[e].read = mine.text BY <1>3, <1>4, <3>1
      <3>3. page'[e].at \in 1..written' BY <1>4, <2>1, <3>1
      <3>4. QED BY <2>2, <3>2, <3>3 DEF Backed
    <2>4. \A f \in Pages : page'[f].pc = "replacing" => Backed(page[f].at, page[f].read)'
      <3> SUFFICES ASSUME NEW f \in Pages, page'[f].pc = "replacing", f # e
                   PROVE  Backed(page[f].at, page[f].read)'
        BY <2>3
      <3>1. page'[f] = page[f] BY <1>5
      <3>2. PICK at, text : at = page[f].at /\ text = page[f].read OBVIOUS
      <3>3. Backed(at, text) BY <3>1, <3>2 DEF IInv, BackupsAreKept
      <3>4. Backed(at, text)' BY <3>3, BackedThroughWrite
      <3>5. QED BY <3>1, <3>2, <3>4 DEF Backed
    <2>5. \A o \in replaced' : Backed(o.at, o.text)'
      BY <1>2, BackedThroughWrite DEF IInv, BackupsAreKept
    <2>6. QED BY <2>4, <2>5 DEF BackupsAreKept
  <1>12. FleetIsKnown' BY <1>2, <1>5, <1>6 DEF IInv, FleetIsKnown
  <1>13. QED BY <1>8, <1>9, <1>10, <1>11, <1>12 DEF IInv

\* The file changes: whoever has a save in hand is overtaken.
LEMMA OvertakenIsRaced ==
    ASSUME IInv, NEW e \in Pages, NEW f \in Pages
    PROVE  /\ Overtaken(e)[f] \in PageStates /\ Overtaken(e)[f].pc = page[f].pc
           /\ Overtaken(e)[f].at = page[f].at /\ Overtaken(e)[f].read = page[f].read
           /\ Overtaken(e)[f].text = page[f].text
           /\ f # e /\ InHand(page[f]) => Overtaken(e)[f].raced
  <1>1. page[f] \in PageStates BY DEF IInv, Types
  <1>2. Overtaken(e)[f] = IF f # e /\ InHand(page[f])
                          THEN [page[f] EXCEPT !.raced = TRUE] ELSE page[f]
    BY DEF Overtaken, InHand
  <1>3. QED BY <1>1, <1>2 DEF PageStates

LEMMA ReplaceConfigKeeps == ASSUME IInv, NEW e \in Pages, ReplaceConfig(e) PROVE IInv'
  <1> DEFINE o == [text |-> disk, at |-> page[e].at]
             next == [Overtaken(e)[e] EXCEPT !.pc = "listing"]
  <1>1. /\ page[e] \in PageStates /\ page[e].pc = "replacing" /\ disk \in Texts
        /\ disk' = page[e].text /\ page[e].text \in Texts
        /\ UNCHANGED <<backups, written, fleet, clashed>>
    BY DEF IInv, Types, ReplaceConfig, PageStates
  <1>2. Overtaken(e) \in [Pages -> PageStates]
    <2>1. \A f \in Pages : Overtaken(e)[f] \in PageStates BY OvertakenIsRaced
    <2>2. QED BY <2>1 DEF Overtaken
  <1>3. /\ next \in PageStates /\ next.pc = "listing" /\ next.text = page[e].text
    BY <1>2, OvertakenIsRaced DEF PageStates
  <1>4. page' = [Overtaken(e) EXCEPT ![e] = next] BY <1>2 DEF ReplaceConfig
  <1> HIDE DEF next
  <1>5. \A f \in Pages : page'[f] = IF f = e THEN next ELSE Overtaken(e)[f]
    BY <1>2, <1>4
  <1>6. /\ page'[e] = next /\ InHand(page[e]) /\ ~InHand(next)
        /\ ~Landing(page[e]) /\ Landing(next)
    BY <1>1, <1>3, <1>5 DEF InHand, Landing
  <1>7. \A f \in Pages \ {e} :
           /\ page'[f].pc = page[f].pc /\ page'[f].at = page[f].at
           /\ page'[f].read = page[f].read /\ page'[f].text = page[f].text
           /\ InHand(page[f]) => page'[f].raced
    BY <1>5, OvertakenIsRaced
  <1>8. \A p \in replaced' : p \in replaced \/ (~page[e].raced /\ p = o)
    BY DEF ReplaceConfig
  <1>9. Types'
    <2>1. o \in [text : Texts, at : Nat] BY <1>1 DEF PageStates
    <2>2. replaced' \in SUBSET [text : Texts, at : Nat]
      BY <1>8, <2>1 DEF IInv, Types
    <2>3. QED BY <1>1, <1>2, <1>3, <1>4, <2>2 DEF IInv, Types
  <1>10. SeenOrRaced' BY <1>6, <1>7 DEF SeenOrRaced, InHand
  <1>11. BackupsAreOrdered' BY <1>1 DEF IInv, BackupsAreOrdered
  <1>12. BackupsAreKept'
    <2>1. \A f \in Pages : page'[f].pc = "replacing" => Backed(page[f].at, page[f].read)'
      BY <1>1, <1>3, <1>6, <1>7 DEF IInv, BackupsAreKept, Backed
    <2>2. ~page[e].raced => Backed(page[e].at, disk)
      BY <1>1, <1>6 DEF IInv, BackupsAreKept, SeenOrRaced
    <2>3. \A p \in replaced' : Backed(p.at, p.text)
      BY <1>8, <2>2 DEF IInv, BackupsAreKept
    <2>4. \A p \in replaced' : Backed(p.at, p.text)' BY <1>1, <2>3 DEF Backed
    <2>5. QED BY <2>1, <2>4 DEF BackupsAreKept
  <1>13. FleetIsKnown'
    <2> SUFFICES ASSUME ~apart'
                 PROVE  \A f \in Pages : Landing(page'[f]) <=> f = e
      BY <1>1, <1>3, <1>6 DEF FleetIsKnown
    <2>1. ~Pending(e) BY DEF ReplaceConfig
    <2>2. \A f \in Pages \ {e} : ~Landing(page[f]) BY <2>1 DEF Pending, Landing
    <2>3. QED BY <1>6, <1>7, <2>2 DEF Landing
  <1>14. QED BY <1>9, <1>10, <1>11, <1>12, <1>13 DEF IInv

\* A save cuts the list of backups: those it cuts off have enough later ones.
LEMMA PruneBackupsKeeps == ASSUME IInv, NEW e \in Pages, PruneBackups(e) PROVE IInv'
  <1> DEFINE next == [page[e] EXCEPT !.pc = "switching", !.listed = {}]
             bs == {b \in backups : b.name \in Names(page[e].listed)}
  <1>1. /\ page[e] \in PageStates /\ page[e].pc = "pruning" /\ written \in Nat
        /\ backups \in SUBSET Backups /\ IsFiniteSet(backups)
    BY DEF IInv, Types, PruneBackups
  <1>2. /\ backups' = backups \ Surplus(bs) /\ page' = [page EXCEPT ![e] = next]
        /\ UNCHANGED <<disk, written, fleet, replaced, clashed, apart>>
    BY DEF PruneBackups, Step
  <1>3. bs \subseteq backups OBVIOUS
  <1>4. next \in PageStates /\ next.pc = "switching" /\ next.text = page[e].text
    BY <1>1 DEF PageStates
  <1> HIDE DEF next, bs
  <1>5. \A f \in Pages : page'[f] = IF f = e THEN next ELSE page[f]
    BY <1>2 DEF IInv, Types
  <1>6. ~InHand(next) /\ Landing(page[e]) /\ Landing(next)
    BY <1>1, <1>4 DEF InHand, Landing
  <1>7. \A b \in Surplus(bs) : written - b.at >= KeepBackups
    <2>1. IsFiniteSet(bs) BY <1>1, <1>3, FS_Subset
    <2>2. bs \in SUBSET Backups BY <1>1, <1>3
    <2>3. /\ \A b \in bs : b.at \in 1..written
          /\ \A b, c \in bs : b.at = c.at => b = c
      BY <1>3 DEF IInv, BackupsAreOrdered
    <2>4. QED BY <1>1, <2>1, <2>2, <2>3, SurplusIsOld
  <1>8. Types'
    <2>1. IsFiniteSet(backups') /\ backups' \in SUBSET Backups BY <1>1, <1>2, FS_Subset
    <2>2. QED BY <1>2, <1>4, <2>1 DEF IInv, Types
  <1>9. SeenOrRaced' BY <1>2, <1>5, <1>6 DEF IInv, SeenOrRaced
  <1>10. BackupsAreOrdered' BY <1>2 DEF IInv, BackupsAreOrdered
  <1>11. BackupsAreKept'
    <2>1. \A f \in Pages : page'[f].pc = "replacing" => Backed(page[f].at, page[f].read)'
      BY <1>2, <1>4, <1>5, <1>7 DEF IInv, BackupsAreKept, Backed
    <2>2. \A o \in replaced' : Backed(o.at, o.text)'
      BY <1>2, <1>7 DEF IInv, BackupsAreKept, Backed
    <2>3. QED BY <2>1, <2>2 DEF BackupsAreKept
  <1>12. FleetIsKnown' BY <1>2, <1>4, <1>5, <1>6 DEF IInv, FleetIsKnown
  <1>13. QED BY <1>8, <1>9, <1>10, <1>11, <1>12 DEF IInv

LEMMA PruneRaisesKeeps == ASSUME IInv, NEW e \in Pages, PruneRaises(e) PROVE IInv'
  <1> DEFINE next == [Back(e) EXCEPT !.listed = {}]
  <1>1. /\ page' = [page EXCEPT ![e] = next] /\ apart'
        /\ UNCHANGED <<disk, backups, written, fleet, replaced, clashed>>
    BY DEF PruneRaises, Step
  <1>2. Back(e) \in PageStates /\ Back(e).pc = "editing" BY BackIsEditing
  <1>3. next \in PageStates /\ next.pc = "editing" BY <1>2 DEF PageStates
  <1> HIDE DEF next
  <1>4. \A f \in Pages : page'[f] = IF f = e THEN next ELSE page[f]
    BY <1>1 DEF IInv, Types
  <1>5. Types' BY <1>1, <1>3 DEF IInv, Types
  <1>6. SeenOrRaced' BY <1>1, <1>3, <1>4 DEF IInv, SeenOrRaced, InHand
  <1>7. BackupsAreOrdered' BY <1>1 DEF IInv, BackupsAreOrdered
  <1>8. BackupsAreKept' BY <1>1, <1>3, <1>4 DEF IInv, BackupsAreKept, Backed
  <1>9. FleetIsKnown' BY <1>1 DEF FleetIsKnown
  <1>10. QED BY <1>5, <1>6, <1>7, <1>8, <1>9 DEF IInv

\* The fleet is switched.  Unless another save is landing it is the file's then.
LEMMA SwitchFleetKeeps == ASSUME IInv, NEW e \in Pages, SwitchFleet(e) PROVE IInv'
  <1> DEFINE next == [Back(e) EXCEPT !.base = page[e].text]
  <1>1. /\ page[e] \in PageStates /\ page[e].pc = "switching" /\ page[e].text \in Texts
        /\ page' = [page EXCEPT ![e] = next] /\ fleet' = page[e].text
        /\ UNCHANGED <<disk, backups, written, replaced, clashed>>
    BY DEF IInv, Types, SwitchFleet, Step, PageStates
  <1>2. Back(e) \in PageStates /\ Back(e).pc = "editing" BY BackIsEditing
  <1>3. next \in PageStates /\ next.pc = "editing" BY <1>1, <1>2 DEF PageStates
  <1> HIDE DEF next
  <1>4. \A f \in Pages : page'[f] = IF f = e THEN next ELSE page[f]
    BY <1>1 DEF IInv, Types
  <1>5. Types' BY <1>1, <1>3 DEF IInv, Types
  <1>6. SeenOrRaced' BY <1>1, <1>3, <1>4 DEF IInv, SeenOrRaced, InHand
  <1>7. BackupsAreOrdered' BY <1>1 DEF IInv, BackupsAreOrdered
  <1>8. BackupsAreKept' BY <1>1, <1>3, <1>4 DEF IInv, BackupsAreKept, Backed
  <1>9. FleetIsKnown'
    <2> SUFFICES ASSUME ~apart'
                 PROVE  disk = page[e].text /\ \A f \in Pages \ {e} : ~Landing(page[f])
      BY <1>1, <1>3, <1>4 DEF FleetIsKnown, Landing
    <2>1. CASE ~apart
      <3>1. Landing(page[e]) BY <1>1 DEF Landing
      <3>2. QED BY <2>1, <3>1 DEF IInv, FleetIsKnown
    <2>2. CASE apart
      <3>1. disk = page[e].text /\ ~Pending(e) BY <2>2 DEF SwitchFleet
      <3>2. QED BY <3>1 DEF Pending, Landing
    <2>3. QED BY <2>1, <2>2
  <1>10. QED BY <1>5, <1>6, <1>7, <1>8, <1>9 DEF IInv

LEMMA ForeignSaveKeeps == ASSUME IInv, NEW t \in Texts, ForeignSave(t) PROVE IInv'
  <1>1. /\ disk' = t /\ apart'
        /\ UNCHANGED <<backups, written, fleet, replaced, clashed>>
    BY DEF ForeignSave
  <1>2. \A f \in Pages : page[f] \in PageStates BY DEF IInv, Types
  <1>3. page' = [f \in Pages |-> IF InHand(page[f]) THEN [page[f] EXCEPT !.raced = TRUE]
                                 ELSE page[f]]
    BY DEF ForeignSave, InHand
  <1>4. \A f \in Pages :
           /\ page'[f] \in PageStates /\ page'[f].pc = page[f].pc
           /\ page'[f].at = page[f].at /\ page'[f].read = page[f].read
           /\ InHand(page[f]) => page'[f].raced
    BY <1>2, <1>3 DEF PageStates
  <1>5. page' \in [Pages -> PageStates] BY <1>3, <1>4
  <1>6. Types' BY <1>1, <1>5 DEF IInv, Types
  <1>7. SeenOrRaced' BY <1>4 DEF SeenOrRaced, InHand
  <1>8. BackupsAreOrdered' BY <1>1 DEF IInv, BackupsAreOrdered
  <1>9. BackupsAreKept' BY <1>1, <1>4 DEF IInv, BackupsAreKept, Backed
  <1>10. FleetIsKnown' BY <1>1 DEF FleetIsKnown
  <1>11. QED BY <1>6, <1>7, <1>8, <1>9, <1>10 DEF IInv

LEMMA RestartDashboardKeeps == ASSUME IInv, RestartDashboard PROVE IInv'
  <1> DEFINE next(f) == [Back(f) EXCEPT !.listed = {}]
  <1>1. /\ fleet' = disk
        /\ page' = [f \in Pages |-> IF page[f].pc = "closed" THEN page[f] ELSE next(f)]
        /\ UNCHANGED <<disk, backups, written, replaced, clashed>>
    BY DEF RestartDashboard
  <1>2. \A f \in Pages : next(f) \in PageStates /\ next(f).pc = "editing"
    BY BackIsEditing DEF PageStates
  <1> HIDE DEF next
  <1>3. \A f \in Pages : page'[f] \in PageStates /\ page'[f].pc \in {"closed", "editing"}
    BY <1>1, <1>2 DEF IInv, Types
  <1>4. page' \in [Pages -> PageStates] BY <1>1, <1>3
  <1>5. Types' BY <1>1, <1>4 DEF IInv, Types
  <1>6. SeenOrRaced' /\ FleetIsKnown'
    BY <1>1, <1>3 DEF SeenOrRaced, FleetIsKnown, InHand, Landing
  <1>7. BackupsAreOrdered' BY <1>1 DEF IInv, BackupsAreOrdered
  <1>8. BackupsAreKept' BY <1>1, <1>3 DEF IInv, BackupsAreKept, Backed
  <1>9. QED BY <1>5, <1>6, <1>7, <1>8 DEF IInv

-----------------------------------------------------------------------------
(* The theorems.                                                           *)

LEMMA NextKeeps == IInv /\ [EditorNext]_editorVars => IInv'
  <1> SUFFICES ASSUME IInv, [EditorNext]_editorVars PROVE IInv' OBVIOUS
  <1>1. CASE UNCHANGED editorVars
    BY <1>1 DEF editorVars, IInv, Types, SeenOrRaced, BackupsAreOrdered, BackupsAreKept,
                Backed, FleetIsKnown
  <1>2. ASSUME NEW e \in Pages,
               \/ Open(e) \/ Compare(e) \/ NameBackup(e) \/ WriteBackup(e)
               \/ (\E t \in Texts : Save(e, t))
               \/ ReplaceConfig(e) \/ RenameRefused(e)
               \/ ListBackups(e) \/ PruneBackups(e) \/ PruneRaises(e)
               \/ SwitchFleet(e)
        PROVE  IInv'
    BY <1>2, OpenKeeps, CompareKeeps, NameBackupKeeps, WriteBackupKeeps, SaveKeeps,
       ReplaceConfigKeeps, RenameRefusedKeeps, ListBackupsKeeps, PruneBackupsKeeps,
       PruneRaisesKeeps, SwitchFleetKeeps
  <1>3. ASSUME NEW t \in Texts, ForeignSave(t) PROVE IInv' BY <1>3, ForeignSaveKeeps
  <1>4. CASE RestartDashboard BY <1>4, RestartDashboardKeeps
  <1>5. QED BY <1>1, <1>2, <1>3, <1>4 DEF EditorNext

\* The invariant holds in every state of the editor, whatever the number of
\* pages, saves, restarts and edits beside it.
THEOREM InvariantHolds == EditorSpec => []IInv
  <1>1. QED BY InitHolds, NextKeeps, PTL DEF EditorSpec

\* No save overwrites a text that its page has not seen, unless that text was
\* written after the save had compared the file.
THEOREM NoUnseenOverwrite == EditorSpec => EditsAreSeen
  <1>1. IInv => (\A e \in Pages :
                   page[e].pc = "replacing" /\ page'[e].pc = "listing" =>
                      disk = page[e].base \/ page[e].raced)
    BY DEF IInv, SeenOrRaced, InHand
  <1>2. QED BY <1>1, InvariantHolds, PTL DEF EditsAreSeen

\* What a save has overwritten is among the backups until KeepBackups later
\* ones were written, unless two saves gave theirs the same name.
THEOREM Restorable == EditorSpec => []OverwrittenIsKept
  <1>1. IInv => OverwrittenIsKept
    <2> SUFFICES ASSUME IInv, NEW o \in replaced, Backed(o.at, o.text)
                 PROVE  \/ o.at \in clashed
                        \/ \E b \in backups : b.text = o.text /\ b.at >= o.at
                        \/ written - o.at >= KeepBackups
      BY DEF OverwrittenIsKept, IInv, BackupsAreKept
    <2>1. o.at \in Nat BY DEF IInv, Types
    <2>2. QED BY <2>1 DEF Backed
  <1>2. QED BY <1>1, InvariantHolds, PTL

\* With no save under way the dashboard watches the miners of the file, unless
\* something set the two apart since the last undisturbed save or restart.
THEOREM FleetMatches == EditorSpec => []FleetFollows
  <1>1. IInv => FleetFollows BY DEF IInv, FleetIsKnown, FleetFollows, Landing
  <1>2. QED BY <1>1, InvariantHolds, PTL

-----------------------------------------------------------------------------
(* The hours.                                                              *)

\* A whole turn of the circle.
LEMMA Turn ==
    ASSUME NEW n \in Nat \ {0}, NEW x \in Int, -n <= x, x < n
    PROVE  x % n = IF x >= 0 THEN x ELSE x + n
<1>1. CASE x >= 0
  BY <1>1
<1>2. CASE x < 0
  BY <1>2
<1> QED
  BY <1>1, <1>2

\* The time from the start of a range that a day began to an instant of a day,
\* on the circle of the week.
LEMMA Since ==
    ASSUME NEW day \in Weekdays, NEW begun \in Weekdays, NEW minute \in Minutes,
           NEW start \in Minutes
    PROVE  LET k == day - begun
               d == k * DayLength + minute - start
           IN  (day * DayLength + minute - (begun * DayLength + start)) % WeekLength
                  = IF k > 0 \/ (k = 0 /\ minute >= start) THEN d ELSE d + WeekLength
<1>0. DayLength \in Nat \ {0}
  BY DayAssumption
<1>1. day \in {0, 1, 2, 3, 4, 5, 6} /\ begun \in {0, 1, 2, 3, 4, 5, 6}
  BY DEF Weekdays
<1>2. minute \in 0..DayLength - 1 /\ start \in 0..DayLength - 1
  BY DEF Minutes
<1> DEFINE k == day - begun
           x == day * DayLength + minute - (begun * DayLength + start)
           d == k * DayLength + minute - start
<1>3. x = d
  BY <1>0, <1>1, <1>2
<1>4. k \in {-6, -5, -4, -3, -2, -1, 0, 1, 2, 3, 4, 5, 6}
  BY <1>1
<1> HIDE DEF k
<1>5. /\ d \in Int /\ WeekLength \in Nat \ {0} /\ -WeekLength <= d /\ d < WeekLength
      /\ d >= 0 <=> k > 0 \/ (k = 0 /\ minute >= start)
  BY <1>0, <1>2, <1>4 DEF WeekLength
<1> HIDE DEF x, d
<1>6. d % WeekLength = IF d >= 0 THEN d ELSE d + WeekLength
  BY <1>5, Turn
<1>7. x % WeekLength = IF k > 0 \/ (k = 0 /\ minute >= start) THEN d ELSE d + WeekLength
  BY <1>3, <1>5, <1>6
<1> QED
  BY <1>7 DEF x, d, k

\* What one day began.
LEMMA Begun ==
    ASSUME NEW day \in Weekdays, NEW begun \in Weekdays, NEW minute \in Minutes,
           NEW r, IsRange(r)
    PROVE  (day * DayLength + minute - (begun * DayLength + r.start)) % WeekLength < Lasts(r)
             <=> IF CrossesMidnight(r)
                 THEN \/ day = begun /\ minute >= r.start
                      \/ DayBefore(day) = begun /\ minute < r.end
                 ELSE day = begun /\ r.start <= minute /\ minute < r.end
<1> DEFINE start == r.start
           end == r.end
           k == day - begun
           d == k * DayLength + minute - start
           since == (day * DayLength + minute - (begun * DayLength + start)) % WeekLength
<1>0. DayLength \in Nat \ {0}
  BY DayAssumption
<1>1. minute \in 0..DayLength - 1 /\ start \in 0..DayLength - 1 /\ end \in 0..DayLength /\ start # end
  BY DEF Minutes, IsRange
<1>2. since = IF k > 0 \/ (k = 0 /\ minute >= start) THEN d ELSE d + WeekLength
  BY Since DEF IsRange
<1>3. k \in {-6, -5, -4, -3, -2, -1, 0, 1, 2, 3, 4, 5, 6}
      /\ (day = begun <=> k = 0) /\ (DayBefore(day) = begun <=> k \in {1, -6})
  <2>1. day \in {0, 1, 2, 3, 4, 5, 6} /\ begun \in {0, 1, 2, 3, 4, 5, 6}
    BY DEF Weekdays
  <2> QED
    BY <2>1 DEF DayBefore
<1>4. Lasts(r) = IF end > start THEN end - start ELSE end - start + DayLength
  BY DEF Lasts
<1>5. CrossesMidnight(r) <=> start > end
  BY DEF CrossesMidnight
<1> HIDE DEF start, end, k, since
<1>6. CASE start > end
  <2>1. since < end - start + DayLength
          <=> (k = 0 /\ minute >= start) \/ (k \in {1, -6} /\ minute < end)
    BY <1>0, <1>1, <1>2, <1>3, <1>6 DEF WeekLength
  <2> QED
    BY <1>1, <1>3, <1>4, <1>5, <1>6, <2>1 DEF start, end, since
<1>7. CASE start < end
  <2>1. since < end - start <=> k = 0 /\ start <= minute /\ minute < end
    BY <1>0, <1>1, <1>2, <1>3, <1>7 DEF WeekLength
  <2> QED
    BY <1>1, <1>3, <1>4, <1>5, <1>7, <2>1 DEF start, end, since
<1> QED
  BY <1>1, <1>6, <1>7

\* For windows of any days and ranges, however long the day is.
THEOREM WeekIsACircle ==
    ASSUME NEW windows, \A w \in windows : IsWindow(w),
           NEW day \in Weekdays, NEW minute \in Minutes
    PROVE  InWindows(windows, day, minute) <=> IsCovered(windows, day, minute)
<1>1. ASSUME NEW w \in windows, NEW r \in w.ranges
      PROVE  InRange(r, w.days, day, minute)
               <=> \E begun \in w.days :
                      (day * DayLength + minute - (begun * DayLength + r.start)) % WeekLength
                         < Lasts(r)
  <2>1. IsRange(r) /\ w.days \subseteq Weekdays
    BY DEF IsWindow
  <2>2. ASSUME NEW begun \in w.days
        PROVE  (day * DayLength + minute - (begun * DayLength + r.start)) % WeekLength < Lasts(r)
                 <=> IF CrossesMidnight(r)
                     THEN \/ day = begun /\ minute >= r.start
                          \/ DayBefore(day) = begun /\ minute < r.end
                     ELSE day = begun /\ r.start <= minute /\ minute < r.end
    BY <2>1, Begun
  <2> QED
    BY <2>2, Zenon DEF InRange
<1> QED
  BY <1>1, Zenon DEF InWindows, IsCovered

\* A window that is accepted begins, on a day it lists, when its range starts.
LEMMA BeginsSomeTime ==
    ASSUME NEW w, IsWindow(w), w.days # {}, w.ranges # {}
    PROVE  \E day \in Weekdays, minute \in Minutes : InWindows({w}, day, minute)
<1>1. PICK day \in w.days, r \in w.ranges : TRUE
  OBVIOUS
<1>2. IsRange(r) /\ day \in Weekdays
  BY DEF IsWindow
<1>3. InRange(r, w.days, day, r.start)
  BY <1>2, DayAssumption DEF InRange, CrossesMidnight, IsRange, Minutes
<1>4. InWindows({w}, day, r.start)
  BY <1>3 DEF InWindows
<1> QED
  BY <1>2, <1>4 DEF IsRange

\* What the run compares for small windows and a short day.
LEMMA WindowIsAsWritten ==
    ASSUME NEW w, IsWindow(w)
    PROVE  /\ \A day \in Weekdays, minute \in Minutes :
                  LET meant == IsCovered({w}, day, minute)
                      now   == [day |-> day, minute |-> minute]
                  IN  /\ InWindows({w}, day, minute) <=> meant
                      /\ \A m \in Fleetmates, groups \in {{}, {"group"}} :
                            ActiveFor({Weekly(w, groups)}, m, now)
                               <=> meant /\ (groups = {} \/ m.group = "group")
           /\ IsMaintenance(Weekly(w, {}), {}, {}) =>
                  \E day \in Weekdays, minute \in Minutes :
                      InForce(Weekly(w, {}), [day |-> day, minute |-> minute])
<1>1. \A groups, day, minute :
         InForce(Weekly(w, groups), [day |-> day, minute |-> minute])
            <=> InWindows({w}, day, minute)
  BY DEF InForce, InWindows, Weekly
<1>2. ASSUME NEW day \in Weekdays, NEW minute \in Minutes
      PROVE  InWindows({w}, day, minute) <=> IsCovered({w}, day, minute)
  BY WeekIsACircle
<1>3. ASSUME NEW m \in Fleetmates, NEW groups \in {{}, {"group"}}
      PROVE  Covers(Weekly(w, groups), m) <=> groups = {} \/ m.group = "group"
  BY DEF Fleetmates, Covers, Weekly
<1>4. ASSUME NEW day \in Weekdays, NEW minute \in Minutes,
             NEW m \in Fleetmates, NEW groups \in {{}, {"group"}}
      PROVE  ActiveFor({Weekly(w, groups)}, m, [day |-> day, minute |-> minute])
                <=> IsCovered({w}, day, minute) /\ (groups = {} \/ m.group = "group")
  BY <1>1, <1>2, <1>3, Zenon DEF ActiveFor
<1>5. IsMaintenance(Weekly(w, {}), {}, {}) =>
         \E day \in Weekdays, minute \in Minutes :
             InForce(Weekly(w, {}), [day |-> day, minute |-> minute])
  <2>1. IsMaintenance(Weekly(w, {}), {}, {}) => w.days # {} /\ w.ranges # {}
    BY DEF IsMaintenance, Weekly
  <2> QED
    BY <1>1, <2>1, BeginsSomeTime
<1> QED
  BY <1>2, <1>4, <1>5, Zenon

-----------------------------------------------------------------------------
(* The settings.                                                           *)

WatchdogFields == {"enabled", "cooldown", "window", "max", "with"}
SleepFields    == {"enabled", "backend", "commands"}

\* What one level may say: a function on some of the fields.
IsWatchdogBlock(b) == DOMAIN b \subseteq WatchdogFields
IsSleepBlock(b)    == DOMAIN b \subseteq SleepFields

\* A file as the YAML parser and the checks of single values leave it.
IsFile(yaml) ==
    /\ IsWatchdogBlock(yaml.watchdog) /\ IsSleepBlock(yaml.sleep)
    /\ NoGroup \notin DOMAIN yaml.groups
    /\ \A g \in DOMAIN yaml.groups : /\ IsWatchdogBlock(yaml.groups[g].watchdog)
                                     /\ IsSleepBlock(yaml.groups[g].sleep)
    /\ \E S : yaml.miners \in Seq(S)
    /\ \A m \in Range(yaml.miners) : IsWatchdogBlock(m.watchdog) /\ IsSleepBlock(m.sleep)

\* What is said last of a setting holds.
Overlaid(c, block, base) ==
    \A f \in DOMAIN base : c[f] = IF f \in DOMAIN block THEN block[f] ELSE base[f]

LEMMA DefaultFields ==
    DOMAIN DefaultWatchdog = WatchdogFields /\ DOMAIN DefaultSleep = SleepFields
<1> QED
  BY DEF DefaultWatchdog, DefaultSleep, WatchdogFields, SleepFields

LEMMA WatchdogLevel ==
    ASSUME NEW block, NEW base, base # NotLoaded => DOMAIN base = WatchdogFields,
           ParseWatchdog(block, base) # NotLoaded
    PROVE  /\ base # NotLoaded /\ DOMAIN ParseWatchdog(block, base) = WatchdogFields
           /\ Overlaid(ParseWatchdog(block, base), block, base)
<1>0. base # NotLoaded /\ DOMAIN base = WatchdogFields
  BY DEF ParseWatchdog
<1>1. CASE DOMAIN block = {}
  <2>1. ParseWatchdog(block, base) = base
    BY <1>0, <1>1 DEF ParseWatchdog
  <2> QED
    BY <1>0, <1>1, <2>1 DEF Overlaid
<1>2. CASE DOMAIN block # {}
  <2>1. ParseWatchdog(block, base) = Merged(base, block)
    BY <1>0, <1>2 DEF ParseWatchdog
  <2> QED
    BY <1>0, <2>1 DEF Merged, Overlaid
<1> QED
  BY <1>1, <1>2

LEMMA SleepLevel ==
    ASSUME NEW block, NEW base, base # NotLoaded => DOMAIN base = SleepFields,
           ParseSleep(block, base) # NotLoaded
    PROVE  /\ base # NotLoaded /\ DOMAIN ParseSleep(block, base) = SleepFields
           /\ Overlaid(ParseSleep(block, base), block, base)
<1>0. base # NotLoaded /\ DOMAIN base = SleepFields
  BY DEF ParseSleep
<1>1. CASE DOMAIN block = {}
  <2>1. ParseSleep(block, base) = base
    BY <1>0, <1>1 DEF ParseSleep
  <2> QED
    BY <1>0, <1>1, <2>1 DEF Overlaid
<1>2. CASE DOMAIN block # {}
  <2>1. ParseSleep(block, base) = Merged(base, block)
    BY <1>0, <1>2 DEF ParseSleep
  <2> QED
    BY <1>0, <2>1 DEF Merged, Overlaid
<1> QED
  BY <1>1, <1>2

\* The nearest of the levels, the miner's own first.
LEMMA NearestIs ==
    ASSUME NEW yaml, NEW m, NEW kind, NEW f, NEW default
    PROVE  Nearest(yaml, m, kind, f, default)
             = IF f \in DOMAIN m[kind] THEN m[kind][f]
               ELSE IF m.group # NoGroup /\ f \in DOMAIN yaml.groups[m.group][kind]
                    THEN yaml.groups[m.group][kind][f]
               ELSE IF f \in DOMAIN yaml[kind] THEN yaml[kind][f] ELSE default
<1> DEFINE said == Said(yaml, m, kind)
           heard == {i \in DOMAIN said : f \in DOMAIN said[i]}
           first == CHOOSE i \in heard : \A j \in heard : i <= j
<1>1. Nearest(yaml, m, kind, f, default) = IF heard = {} THEN default ELSE said[first][f]
  BY DEF Nearest
<1>2. CASE m.group = NoGroup
  <2>1. said = <<m[kind], yaml[kind]>>
    BY <1>2 DEF Said
  <2>2. /\ DOMAIN said = {1, 2} /\ said[1] = m[kind] /\ said[2] = yaml[kind]
    BY <2>1
  <2> HIDE DEF said
  <2>3. CASE f \in DOMAIN m[kind]
    <3>1. 1 \in heard /\ \A j \in heard : 1 <= j
      BY <2>2, <2>3
    <3>2. first = 1
      BY <2>2, <3>1
    <3> QED
      BY <1>1, <2>2, <2>3, <3>1, <3>2
  <2>4. CASE f \notin DOMAIN m[kind] /\ f \in DOMAIN yaml[kind]
    <3>1. heard = {2}
      BY <2>2, <2>4
    <3>2. first = 2
      BY <3>1
    <3> QED
      BY <1>1, <1>2, <2>2, <2>4, <3>1, <3>2
  <2>5. CASE f \notin DOMAIN m[kind] /\ f \notin DOMAIN yaml[kind]
    <3>1. heard = {}
      BY <2>2, <2>5
    <3> QED
      BY <1>1, <1>2, <2>2, <2>5, <3>1
  <2> QED
    BY <2>3, <2>4, <2>5
<1>3. CASE m.group # NoGroup
  <2>1. said = <<m[kind], yaml.groups[m.group][kind], yaml[kind]>>
    BY <1>3 DEF Said
  <2>2. /\ DOMAIN said = {1, 2, 3} /\ said[1] = m[kind] /\ said[3] = yaml[kind]
        /\ said[2] = yaml.groups[m.group][kind]
    BY <2>1
  <2> HIDE DEF said
  <2>3. CASE f \in DOMAIN said[1]
    <3>1. 1 \in heard /\ \A j \in heard : 1 <= j
      BY <2>2, <2>3
    <3>2. first = 1
      BY <2>2, <3>1
    <3> QED
      BY <1>1, <2>2, <2>3, <3>1, <3>2
  <2>4. CASE f \notin DOMAIN said[1] /\ f \in DOMAIN said[2]
    <3>1. 2 \in heard /\ \A j \in heard : 2 <= j
      BY <2>2, <2>4
    <3>2. first = 2
      BY <2>2, <3>1
    <3> QED
      BY <1>1, <1>3, <2>2, <2>4, <3>1, <3>2
  <2>5. CASE f \notin DOMAIN said[1] /\ f \notin DOMAIN said[2] /\ f \in DOMAIN said[3]
    <3>1. heard = {3}
      BY <2>2, <2>5
    <3>2. first = 3
      BY <3>1
    <3> QED
      BY <1>1, <1>3, <2>2, <2>5, <3>1, <3>2
  <2>6. CASE f \notin DOMAIN said[1] /\ f \notin DOMAIN said[2] /\ f \notin DOMAIN said[3]
    <3>1. heard = {}
      BY <2>2, <2>6
    <3> QED
      BY <1>1, <1>3, <2>2, <2>6, <3>1
  <2> QED
    BY <2>3, <2>4, <2>5, <2>6
<1> QED
  BY <1>2, <1>3

\* The level a miner's own settings are merged onto.
LEMMA BaseIs ==
    ASSUME NEW yaml, NEW m
    PROVE  /\ m.group = NoGroup => /\ Base(yaml, m) = Fleet(yaml)
                                 /\ Base(yaml, m).schedule = "none"
           /\ m.group # NoGroup => Base(yaml, m) = Group(yaml, m.group)
<1> QED
  BY DEF Base, Fleet

\* No two entries of an accepted file have one id.
LEMMA IdsAreOnce ==
    ASSUME NEW yaml, \E S : yaml.miners \in Seq(S),
           Cardinality(Ids(yaml)) = Len(yaml.miners)
    PROVE  \A m, n \in Range(yaml.miners) : m.id = n.id => m = n
<1> DEFINE I == 1..Len(yaml.miners)
           T == Ids(yaml)
           id == [i \in I |-> yaml.miners[i].id]
<1>1. Len(yaml.miners) \in Nat /\ DOMAIN yaml.miners = I
  OBVIOUS
<1>2. IsFiniteSet(I) /\ Cardinality(I) = Len(yaml.miners)
  BY <1>1, FS_Interval
<1>3. id \in Surjection(I, T)
  BY <1>1 DEF Surjection, Ids
<1>4. Cardinality(I) = Cardinality(T)
  BY <1>2
<1> HIDE DEF T
<1>5. id \in Injection(I, T)
  <2> HIDE DEF I, id
  <2> QED
    BY <1>2, <1>3, <1>4, FS_SurjSameCardinalityImpliesInj
<1>6. \A i, j \in I : yaml.miners[i].id = yaml.miners[j].id => i = j
  BY <1>5 DEF Injection, IsInjective
<1> QED
  BY <1>1, <1>6 DEF Range

\* The policy and the sleep of a level that is not refused, and what it was
\* merged from.
LEMMA MinerIsResolved ==
    ASSUME NEW yaml, IsFile(yaml), NEW m, m \in Range(yaml.miners), ~IsRefused(yaml)
    PROVE  LET c == Resolved(yaml, m)
           IN  /\ DOMAIN c.watchdog = WatchdogFields /\ DOMAIN c.sleep = SleepFields
               /\ Overlaid(c.watchdog, m.watchdog, Base(yaml, m).watchdog)
               /\ Overlaid(c.sleep, m.sleep, Base(yaml, m).sleep)
               /\ Overlaid(Fleet(yaml).watchdog, yaml.watchdog, DefaultWatchdog)
               /\ Overlaid(Fleet(yaml).sleep, yaml.sleep, DefaultSleep)
               /\ m.group # NoGroup =>
                     /\ Overlaid(Group(yaml, m.group).watchdog,
                                 yaml.groups[m.group].watchdog, Fleet(yaml).watchdog)
                     /\ Overlaid(Group(yaml, m.group).sleep,
                                 yaml.groups[m.group].sleep, Fleet(yaml).sleep)
               /\ DOMAIN Base(yaml, m).watchdog = WatchdogFields
               /\ DOMAIN Fleet(yaml).watchdog = WatchdogFields
               /\ DOMAIN Base(yaml, m).sleep = SleepFields
               /\ DOMAIN Fleet(yaml).sleep = SleepFields
<1> DEFINE w0 == Fleet(yaml).watchdog
           s0 == Fleet(yaml).sleep
<1>1. w0 # NotLoaded /\ s0 # NotLoaded
  BY DEF IsRefused
<1>2. w0 = ParseWatchdog(yaml.watchdog, DefaultWatchdog) /\ s0 = ParseSleep(yaml.sleep, DefaultSleep)
  BY DEF Fleet
<1>3. DOMAIN w0 = WatchdogFields /\ Overlaid(w0, yaml.watchdog, DefaultWatchdog)
  BY <1>1, <1>2, DefaultFields, WatchdogLevel
<1>4. DOMAIN s0 = SleepFields /\ Overlaid(s0, yaml.sleep, DefaultSleep)
  BY <1>1, <1>2, DefaultFields, SleepLevel
<1>5. ASSUME NEW g, g \in DOMAIN yaml.groups
      PROVE  /\ DOMAIN Group(yaml, g).watchdog = WatchdogFields
             /\ DOMAIN Group(yaml, g).sleep = SleepFields
             /\ Overlaid(Group(yaml, g).watchdog, yaml.groups[g].watchdog, w0)
             /\ Overlaid(Group(yaml, g).sleep, yaml.groups[g].sleep, s0)
  <2> DEFINE w1 == Group(yaml, g).watchdog
             s1 == Group(yaml, g).sleep
  <2>1. w1 # NotLoaded /\ s1 # NotLoaded
    BY <1>5 DEF IsRefused
  <2>2. /\ w1 = ParseWatchdog(yaml.groups[g].watchdog, w0)
        /\ s1 = ParseSleep(yaml.groups[g].sleep, s0)
    BY DEF Group
  <2> HIDE DEF w0, s0, w1, s1
  <2>4. DOMAIN w1 = WatchdogFields /\ Overlaid(w1, yaml.groups[g].watchdog, w0)
    BY <1>3, <2>1, <2>2, WatchdogLevel
  <2>5. DOMAIN s1 = SleepFields /\ Overlaid(s1, yaml.groups[g].sleep, s0)
    BY <1>4, <2>1, <2>2, SleepLevel
  <2> QED
    BY <2>4, <2>5 DEF w1, s1
<1>6. m.group \in DOMAIN yaml.groups \/ m.group = NoGroup
  BY DEF IsRefused
<1> DEFINE wb == Base(yaml, m).watchdog
           sb == Base(yaml, m).sleep
           wm == Resolved(yaml, m).watchdog
           sm == Resolved(yaml, m).sleep
<1>7. DOMAIN wb = WatchdogFields /\ DOMAIN sb = SleepFields
  BY <1>3, <1>4, <1>5, <1>6, BaseIs
<1>8. wm # NotLoaded /\ sm # NotLoaded
  BY DEF IsRefused
<1>9. wm = ParseWatchdog(m.watchdog, wb) /\ sm = ParseSleep(m.sleep, sb)
  BY DEF Resolved
<1> HIDE DEF w0, s0, wb, sb, wm, sm
<1>11. DOMAIN wm = WatchdogFields /\ Overlaid(wm, m.watchdog, wb)
  BY <1>7, <1>8, <1>9, WatchdogLevel
<1>12. DOMAIN sm = SleepFields /\ Overlaid(sm, m.sleep, sb)
  BY <1>7, <1>8, <1>9, SleepLevel
<1>13. DOMAIN w0 = WatchdogFields /\ DOMAIN wb = WatchdogFields
  BY <1>3, <1>7
<1> QED
  BY <1>3, <1>4, <1>5, <1>6, <1>7, <1>11, <1>12, <1>13 DEF w0, s0, wb, sb, wm, sm

\* For every configuration that is accepted: each setting of each miner is the
\* nearest that is said of it, through all three levels.
THEOREM NearestIsInForce ==
    ASSUME NEW yaml, IsFile(yaml)
    PROVE  IsWhatWasSaid(yaml)
<1> SUFFICES ASSUME Loaded(yaml) # NotLoaded, NEW m \in Range(yaml.miners)
             PROVE  LET c == Loaded(yaml)[m.id]
                    IN  /\ \A f \in DOMAIN DefaultWatchdog :
                              c.watchdog[f] = Nearest(yaml, m, "watchdog", f, DefaultWatchdog[f])
                        /\ \A f \in DOMAIN DefaultSleep :
                              c.sleep[f] = Nearest(yaml, m, "sleep", f, DefaultSleep[f])
                        /\ c.schedule = IF m.schedule # "none" \/ m.group = NoGroup
                                        THEN m.schedule
                                        ELSE yaml.groups[m.group].schedule
  BY DEF IsWhatWasSaid
<1> DEFINE c == Resolved(yaml, m)
<1>1. ~IsRefused(yaml)
  BY DEF Loaded
<1>2. Loaded(yaml)[m.id] = c
  <2>1. \A n, o \in Range(yaml.miners) : n.id = o.id => n = o
    BY <1>1, IdsAreOnce DEF IsFile, IsRefused
  <2>2. (CHOOSE n \in Range(yaml.miners) : n.id = m.id) = m
    BY <2>1
  <2>3. m.id \in Ids(yaml)
    BY DEF Ids, Range
  <2> QED
    BY <1>1, <2>2, <2>3 DEF Loaded
<1>3. /\ DOMAIN DefaultWatchdog = WatchdogFields /\ DOMAIN DefaultSleep = SleepFields
  BY DefaultFields
<1> DEFINE wb == Base(yaml, m).watchdog
           sb == Base(yaml, m).sleep
           w0 == Fleet(yaml).watchdog
           s0 == Fleet(yaml).sleep
<1>4. /\ DOMAIN c.watchdog = WatchdogFields /\ DOMAIN c.sleep = SleepFields
      /\ Overlaid(c.watchdog, m.watchdog, wb) /\ Overlaid(c.sleep, m.sleep, sb)
      /\ Overlaid(w0, yaml.watchdog, DefaultWatchdog) /\ Overlaid(s0, yaml.sleep, DefaultSleep)
      /\ DOMAIN wb = WatchdogFields /\ DOMAIN w0 = WatchdogFields
      /\ DOMAIN sb = SleepFields /\ DOMAIN s0 = SleepFields
  BY <1>1, MinerIsResolved
<1>5. m.group # NoGroup => /\ Overlaid(wb, yaml.groups[m.group].watchdog, w0)
                           /\ Overlaid(sb, yaml.groups[m.group].sleep, s0)
  BY <1>1, MinerIsResolved, BaseIs
<1>6. m.group = NoGroup => wb = w0 /\ sb = s0
  BY BaseIs
<1>7. c.schedule = IF m.schedule # "none" \/ m.group = NoGroup THEN m.schedule
                   ELSE yaml.groups[m.group].schedule
  BY BaseIs DEF Resolved, ResolveSchedule, Group
<1> HIDE DEF c, wb, sb, w0, s0
<1>8. ASSUME NEW f \in WatchdogFields
      PROVE  c.watchdog[f] = Nearest(yaml, m, "watchdog", f, DefaultWatchdog[f])
  <2>1. c.watchdog[f] = IF f \in DOMAIN m.watchdog THEN m.watchdog[f] ELSE wb[f]
    BY <1>4 DEF Overlaid
  <2>2. w0[f] = IF f \in DOMAIN yaml.watchdog THEN yaml.watchdog[f] ELSE DefaultWatchdog[f]
    BY <1>3, <1>4 DEF Overlaid
  <2>3. m.group # NoGroup =>
           wb[f] = IF f \in DOMAIN yaml.groups[m.group].watchdog
                   THEN yaml.groups[m.group].watchdog[f] ELSE w0[f]
    BY <1>4, <1>5 DEF Overlaid
  <2> QED
    BY <1>6, <2>1, <2>2, <2>3, NearestIs
<1>9. ASSUME NEW f \in SleepFields
      PROVE  c.sleep[f] = Nearest(yaml, m, "sleep", f, DefaultSleep[f])
  <2>1. c.sleep[f] = IF f \in DOMAIN m.sleep THEN m.sleep[f] ELSE sb[f]
    BY <1>4 DEF Overlaid
  <2>2. s0[f] = IF f \in DOMAIN yaml.sleep THEN yaml.sleep[f] ELSE DefaultSleep[f]
    BY <1>3, <1>4 DEF Overlaid
  <2>3. m.group # NoGroup =>
           sb[f] = IF f \in DOMAIN yaml.groups[m.group].sleep
                   THEN yaml.groups[m.group].sleep[f] ELSE s0[f]
    BY <1>4, <1>5 DEF Overlaid
  <2> QED
    BY <1>6, <2>1, <2>2, <2>3, NearestIs
<1> QED
  BY <1>2, <1>3, <1>4, <1>7, <1>8, <1>9

-----------------------------------------------------------------------------
(* The subjects of the run.                                                *)

\* Row i of a log was recorded at most i ticks before MaxLen.
IsLog(log) == /\ log \in Seq(RowType(Actions)) /\ Len(log) <= MaxLen
              /\ \A i \in DOMAIN log : log[i].ts >= MaxLen - i

\* What is looked at is of the kind that is exercised.
SubjectInv == /\ exercised = "log" => IsLog(subject)
              /\ exercised = "hours" => subject \in Schedules
              /\ exercised = "settings" => subject \in Configurations

LEMMA LastTsIs ==
    ASSUME NEW log, IsLog(log)
    PROVE  LastTs(log) \in Nat /\ LastTs(log) >= MaxLen - Len(log)
<1>1. Len(log) \in Nat /\ DOMAIN log = 1..Len(log) /\ MaxLen \in Nat
  BY ClockBounds DEF IsLog
<1>2. CASE log = <<>>
  BY <1>1, <1>2 DEF LastTs
<1>3. CASE log # <<>>
  <2>1. Len(log) \in DOMAIN log
    BY <1>1, <1>3 DEF IsLog
  <2>2. log[Len(log)] \in RowType(Actions)
    BY <2>1 DEF IsLog
  <2>3. log[Len(log)].ts \in Nat /\ log[Len(log)].ts >= MaxLen - Len(log)
    BY <2>1, <2>2 DEF IsLog, RowType
  <2> QED
    BY <1>3, <2>3 DEF LastTs
<1> QED
  BY <1>2, <1>3

LEMMA LoggingKeeps ==
    ASSUME NEW log, IsLog(log), Len(log) < MaxLen, NEW a \in Actions, NEW d \in -1..MaxStep
    PROVE  IsLog(Record(log, LastTs(log) + d, a))
<1> DEFINE new == Record(log, LastTs(log) + d, a)
<1>1. /\ LastTs(log) \in Nat /\ LastTs(log) >= MaxLen - Len(log)
      /\ Len(log) \in Nat /\ MaxLen \in Nat /\ d \in Int /\ d >= -1
  BY LastTsIs, ClockBounds DEF IsLog
<1>2. LastTs(log) + d \in Nat /\ LastTs(log) + d >= MaxLen - (Len(log) + 1)
  BY <1>1
<1>3. log \in Seq(RowType(Actions))
  BY DEF IsLog
<1>4. /\ new \in Seq(RowType(Actions)) /\ Len(new) = Len(log) + 1
      /\ \A i \in DOMAIN log : new[i] = log[i]
      /\ new[Len(log) + 1] = Row(LastTs(log) + d, a)
  <2> DEFINE t == LastTs(log) + d
  <2>1. t \in Nat
    BY <1>2
  <2> HIDE DEF t
  <2>2. /\ Record(log, t, a) \in Seq(RowType(Actions))
        /\ Len(Record(log, t, a)) = Len(log) + 1
        /\ \A i \in DOMAIN log : Record(log, t, a)[i] = log[i]
        /\ Record(log, t, a)[Len(log) + 1] = Row(t, a)
        /\ Rows(Record(log, t, a), {}) =
              IF a \in {} THEN Rows(log, {}) \cup {Len(log) + 1} ELSE Rows(log, {})
    BY <1>3, <2>1, RecordRows
  <2> QED
    BY <2>2 DEF t
<1>5. DOMAIN log = 1..Len(log) /\ DOMAIN new = 1..Len(log) + 1
  BY <1>3, <1>4
<1> HIDE DEF new
<1>6. ASSUME NEW i \in DOMAIN new PROVE new[i].ts >= MaxLen - i
  <2>1. CASE i \in DOMAIN log
    BY <1>4, <2>1 DEF IsLog
  <2>2. CASE i = Len(log) + 1
    BY <1>2, <1>4, <2>2 DEF Row
  <2> QED
    BY <1>1, <1>5, <2>1, <2>2
<1>7. Len(new) <= MaxLen
  BY <1>1, <1>4
<1> QED
  BY <1>4, <1>6, <1>7 DEF IsLog, new

LEMMA SubjectInvKeeps ==
    ASSUME SubjectInv, [Maintenance \/ Editing \/ Logging \/ Consulted]_fileVars
    PROVE  SubjectInv'
<1>1. CASE UNCHANGED <<exercised, subject>>
  BY <1>1 DEF SubjectInv
<1>2. CASE Logging
  <2>1. PICK a \in Actions, d \in -1..MaxStep :
           subject' = Record(subject, LastTs(subject) + d, a)
    BY <1>2 DEF Logging
  <2>2. exercised' = "log" /\ IsLog(subject) /\ Len(subject) < MaxLen
    BY <1>2 DEF Logging, SubjectInv
  <2>3. IsLog(subject')
    BY <2>1, <2>2, LoggingKeeps
  <2> QED
    BY <2>2, <2>3 DEF SubjectInv
<1>3. Maintenance \/ Editing \/ Consulted \/ UNCHANGED fileVars => UNCHANGED <<exercised, subject>>
  BY DEF Maintenance, Editing, Consulted, fileVars
<1> QED
  BY <1>1, <1>2, <1>3

\* A log of the run has no row from before the clock began, and schedules and
\* configurations are looked at as they were chosen.
THEOREM SubjectsStay == FilesSpec => []SubjectInv
<1>1. FilesInit => SubjectInv
  <2>1. IsLog(<<>>)
    BY ClockBounds DEF IsLog
  <2> QED
    BY <2>1 DEF FilesInit, SubjectInv
<1>2. SubjectInv /\ [Maintenance \/ Editing \/ Logging \/ Consulted]_fileVars => SubjectInv'
  BY SubjectInvKeeps
<1> QED
  BY <1>1, <1>2, PTL DEF FilesSpec

LEMMA BlocksAreBlocks ==
    /\ \A b \in WatchdogBlocks : IsWatchdogBlock(b)
    /\ \A b \in SleepBlocks : IsSleepBlock(b)
<1>1. \A b \in WatchdogBlocks : IsWatchdogBlock(b)
  BY DEF WatchdogBlocks, IsWatchdogBlock, WatchdogFields, Nothing
<1>2. \A b \in SleepBlocks : IsSleepBlock(b)
  BY DEF SleepBlocks, IsSleepBlock, SleepFields, Nothing
<1> QED
  BY <1>1, <1>2

\* A file of miners with small blocks is a file.
LEMMA FileIs ==
    ASSUME NEW w1, NEW w2, NEW s1, NEW s2, NEW miners,
           IsWatchdogBlock(w1), IsWatchdogBlock(w2), IsSleepBlock(s1), IsSleepBlock(s2),
           \E S : miners \in Seq(S),
           \A m \in Range(miners) : IsWatchdogBlock(m.watchdog) /\ IsSleepBlock(m.sleep)
    PROVE  IsFile(File(w1, w2, s1, s2, miners))
<1> DEFINE yaml == File(w1, w2, s1, s2, miners)
<1>1. /\ yaml.watchdog = w1 /\ yaml.sleep = s1 /\ yaml.miners = miners
      /\ DOMAIN yaml.groups = {"group"}
      /\ yaml.groups["group"].watchdog = w2 /\ yaml.groups["group"].sleep = s2
  BY DEF File
<1> HIDE DEF yaml
<1>2. NoGroup # "group"
  BY DEF NoGroup
<1> QED
  BY <1>1, <1>2 DEF IsFile, yaml

LEMMA ConfigurationsAreFiles == \A yaml \in Configurations : IsFile(yaml)
<1>0. IsWatchdogBlock(Nothing) /\ IsSleepBlock(Nothing)
  BY BlocksAreBlocks DEF WatchdogBlocks, SleepBlocks
<1>1. ASSUME NEW w1 \in WatchdogBlocks, NEW w2 \in WatchdogBlocks, NEW w3 \in WatchdogBlocks,
             NEW g \in Groups, NEW s \in {"none", "own"}
      PROVE  IsFile(File(w1, w2, Nothing, Nothing, <<Entry("a", g, w3, Nothing, s)>>))
  <2> DEFINE m == Entry("a", g, w3, Nothing, s)
  <2>1. IsWatchdogBlock(m.watchdog) /\ IsSleepBlock(m.sleep)
    BY <1>0, BlocksAreBlocks DEF Entry
  <2> HIDE DEF m
  <2>2. <<m>> \in Seq({m}) /\ Range(<<m>>) = {m}
    BY DEF Range
  <2> HIDE DEF IsFile
  <2>3. IsFile(File(w1, w2, Nothing, Nothing, <<m>>))
    BY <1>0, <2>1, <2>2, BlocksAreBlocks, FileIs
  <2> QED
    BY <2>3 DEF m
<1>2. ASSUME NEW s1 \in SleepBlocks, NEW s2 \in SleepBlocks, NEW s3 \in SleepBlocks,
             NEW g \in Groups, NEW id \in {"a", "b"}
      PROVE  IsFile(File(Nothing, Nothing, s1, s2,
                         <<Entry("a", g, Nothing, s3, "none"),
                           Entry(id, NoGroup, Nothing, Nothing, "none")>>))
  <2> DEFINE m == Entry("a", g, Nothing, s3, "none")
             n == Entry(id, NoGroup, Nothing, Nothing, "none")
  <2>1. /\ IsWatchdogBlock(m.watchdog) /\ IsSleepBlock(m.sleep)
        /\ IsWatchdogBlock(n.watchdog) /\ IsSleepBlock(n.sleep)
    BY <1>0, BlocksAreBlocks DEF Entry
  <2> HIDE DEF m, n
  <2>2. <<m, n>> \in Seq({m, n}) /\ Range(<<m, n>>) = {m, n}
    BY DEF Range
  <2>3. IsFile(File(Nothing, Nothing, s1, s2, <<m, n>>))
    BY <1>0, <2>1, <2>2, BlocksAreBlocks, FileIs
  <2> QED
    BY <2>3 DEF m, n
<1>3. ASSUME NEW f \in WatchdogFiles PROVE IsFile(f)
  <2>1. \E w1, w2, w3 \in WatchdogBlocks, g \in Groups, s \in {"none", "own"} :
           f = File(w1, w2, Nothing, Nothing, <<Entry("a", g, w3, Nothing, s)>>)
    BY DEF WatchdogFiles
  <2> QED
    BY <1>1, <2>1, Zenon
<1>4. ASSUME NEW f \in SleepFiles PROVE IsFile(f)
  <2>1. \E s1, s2, s3 \in SleepBlocks, g \in Groups, id \in {"a", "b"} :
           f = File(Nothing, Nothing, s1, s2, <<Entry("a", g, Nothing, s3, "none"),
                                                Entry(id, NoGroup, Nothing, Nothing, "none")>>)
    BY DEF SleepFiles
  <2> QED
    BY <1>2, <2>1, Zenon
<1> QED
  BY <1>3, <1>4 DEF Configurations

LEMMA RulesAreApart == RulesApart(Rules) /\ Rules.maxRows \in Nat
<1> QED
  BY ClockBounds DEF Rules, RulesApart

\* The walk of failure_clock_start computes the clock its docstring promises in
\* every log the run can reach, whatever the bounds.
THEOREM WalkKeeps == FilesSpec => []WalkKeepsItsPromise
<1>1. SubjectInv => WalkKeepsItsPromise
  <2> SUFFICES ASSUME SubjectInv, exercised = "log",
                      NEW now \in {LastTs(subject), LastTs(subject) - 1}
               PROVE  FailureClockStart(subject, now, Rules) = PromisedClockStart(subject, now, Rules)
    BY DEF WalkKeepsItsPromise
  <2>1. IsLog(subject)
    BY DEF SubjectInv
  <2>2. subject \in Seq(RowType(Actions)) /\ now \in Int
    BY <2>1, LastTsIs DEF IsLog
  <2> QED
    BY <2>2, RulesAreApart, WalkKeepsPromise
<1> QED
  BY <1>1, SubjectsStay, PTL

\* Every schedule and every weekly maintenance window is in force exactly when
\* it is written to be, however long the day is.
THEOREM HoursAreKept == FilesSpec => []HoursAreAsWritten
<1>1. SubjectInv => HoursAreAsWritten
  <2> SUFFICES ASSUME subject \in Schedules PROVE \A w \in subject : IsWindow(w)
    BY WindowIsAsWritten, Zenon DEF SubjectInv, HoursAreAsWritten
  <2> QED
    BY DEF Schedules
<1> QED
  BY <1>1, SubjectsStay, PTL

\* Every configuration of the run that is accepted says of each miner what was
\* said nearest to it.
THEOREM SettingsAreKept == FilesSpec => []SettingsAreWhatWasSaid
<1>1. SubjectInv => SettingsAreWhatWasSaid
  <2> SUFFICES ASSUME subject \in Configurations PROVE IsWhatWasSaid(subject)
    BY DEF SubjectInv, SettingsAreWhatWasSaid
  <2> QED
    BY ConfigurationsAreFiles, NearestIsInForce
<1> QED
  BY <1>1, SubjectsStay, PTL
=============================================================================
