--------------------------- MODULE WorkspaceProofs ---------------------------
(***************************************************************************)
(* For any sets of projects, boards, cards, notes and tags: rows keep      *)
(* their shape, a note has one link at most, no link dangles, and a board  *)
(* goes with its project.                                                  *)
(*                                                                         *)
(* LinksLive is not inductive alone.  A deletion takes along the cards of  *)
(* a board and whatever notes refer to any of it, and clears project_id:   *)
(* that is all only because no other kind of link exists (Shape: a project *)
(* links to nothing, a board to a project, a card to a board).             *)
(***************************************************************************)
EXTENDS Workspace, TLAPS

Typed(store) == store \in [Rows -> Row \cup {Unborn, Gone}]

(* The foreign keys of each table. *)
Shape(store) ==
  /\ \A p \in Projects : Live(store, p) => \A kind \in Kinds : store[p][kind] = None
  /\ \A b \in Boards : Live(store, b) => store[b].board = None /\ store[b].card = None
  /\ \A k \in Cards : Live(store, k) => store[k].project = None /\ store[k].card = None

NoneDangles(store) ==
  \A r \in Rows, kind \in Kinds :
    Live(store, r) /\ store[r][kind] # None => Live(store, store[r][kind])

Sound(store) == Typed(store) /\ Shape(store) /\ NoneDangles(store)

NotesLinkOnce(store) ==
  \A n \in Notes : Live(store, n) => Cardinality({kind \in Kinds : store[n][kind] # None}) <= 1

TagsOK ==
  /\ tags \in [Notes -> SUBSET Tags]
  /\ \A n \in Notes : ~Live(row, n) => tags[n] = {}

IInv == Sound(row) /\ NotesLinkOnce(row) /\ TagsOK

-----------------------------------------------------------------------------
LEMMA IInvSafe == IInv => TypeOK /\ OneLink /\ LinksLive
BY DEF IInv, Sound, Typed, NotesLinkOnce, TagsOK, NoneDangles, TypeOK, OneLink, LinksLive, TargetsLive

(* A live row is a Row, and a row written as a Row is live. *)
LEMMA LiveRow ==
  ASSUME NEW store, Typed(store), NEW r \in Rows
  PROVE  Live(store, r) <=> store[r] \in Row
BY RowsAssumption DEF Typed, Live

(* What a patched row is. *)
LEMMA PatchedRow ==
  ASSUME NEW old \in Row, NEW kinds \in SUBSET Kinds, NEW links \in Bodies(kinds),
         NEW archived \in BOOLEAN \cup {None}
  PROVE  /\ Patched(old, links, archived) \in Row
         /\ \A kind \in Kinds :
              Patched(old, links, archived)[kind] = IF kind \in kinds THEN links[kind] ELSE old[kind]
<1>1. DOMAIN links = kinds
  BY DEF Bodies
<1>2. \A kind \in kinds : links[kind] \in Target[kind] \cup {None}
  BY DEF Bodies
<1>3. DOMAIN old = Kinds \cup {"archived"}
  BY DEF Row, Kinds
<1>4. \A kind \in Kinds :
        Patched(old, links, archived)[kind] = IF kind \in kinds THEN links[kind] ELSE old[kind]
  BY <1>1, <1>3 DEF Patched, Kinds
<1>5. \A kind \in Kinds : Patched(old, links, archived)[kind] \in Target[kind] \cup {None}
  BY <1>2, <1>4 DEF Row, Kinds, Target
<1>6. Patched(old, links, archived)["archived"] \in BOOLEAN
  BY <1>1, <1>3 DEF Patched, Kinds, Row
<1>7. Patched(old, links, archived)
        = [project |-> Patched(old, links, archived)["project"],
           board |-> Patched(old, links, archived)["board"],
           card |-> Patched(old, links, archived)["card"],
           archived |-> Patched(old, links, archived)["archived"]]
  BY <1>3 DEF Patched, Kinds
<1>8. Patched(old, links, archived) \in Row
  BY <1>5, <1>6, <1>7 DEF Row, Kinds, Target
<1> QED
  BY <1>4, <1>8

LEMMA UnlinkedRow == Unlinked \in Row /\ \A kind \in Kinds : Unlinked[kind] = None
BY DEF Unlinked, Row, Kinds

-----------------------------------------------------------------------------
(* Writing one row whose links fit its table and lead to live rows.        *)

Fits(r, new) ==
  /\ r \in Projects => \A kind \in Kinds : new[kind] = None
  /\ r \in Boards => new.board = None /\ new.card = None
  /\ r \in Cards => new.project = None /\ new.card = None

LEMMA Written ==
  ASSUME NEW store, Sound(store), NEW r \in Rows, NEW new \in Row, Fits(r, new),
         \A kind \in Kinds : new[kind] # None => Live(store, new[kind])
  PROVE  /\ Sound([store EXCEPT ![r] = new])
         /\ Live([store EXCEPT ![r] = new], r)
         /\ \A q \in Rows : q # r => (Live([store EXCEPT ![r] = new], q) <=> Live(store, q))
<1> DEFINE after == [store EXCEPT ![r] = new]
<1>1. Typed(after) /\ after[r] = new /\ \A q \in Rows : q # r => after[q] = store[q]
  BY DEF Sound, Typed
<1> HIDE DEF after
<1>2. Live(after, r) /\ \A q \in Rows : q # r => (Live(after, q) <=> Live(store, q))
  BY <1>1, LiveRow DEF Live
<1>3. \A q \in Rows : Live(store, q) => Live(after, q)
  BY <1>2
<1>4. Shape(after)
  BY <1>1, <1>2 DEF Sound, Shape, Fits, Rows
<1>5. NoneDangles(after)
  <2>1. \A t : Live(store, t) => Live(after, t)
    BY <1>3 DEF Live
  <2> QED
    BY <1>1, <1>2, <2>1 DEF Sound, NoneDangles
<1> QED
  BY <1>1, <1>2, <1>4, <1>5 DEF after, Sound

(* Deleting rows with everything that cascades from them. *)
LEMMA RemovedRows ==
  ASSUME NEW store, Sound(store), NEW gone \in SUBSET Rows
  PROVE  /\ Sound(Removed(store, gone))
         /\ \A r \in Rows : Live(Removed(store, gone), r) <=> Live(store, r) /\ r \notin Cascade(store, gone)
         /\ \A r \in Rows \ Boards : Live(Removed(store, gone), r) => Removed(store, gone)[r] = store[r]
<1> DEFINE after == Removed(store, gone)
           cascade == Cascade(store, gone)
<1> USE RowsAssumption
<1>1. /\ \A r \in cascade : r \in Rows
      /\ \A r \in Rows : r \in cascade => after[r] = Gone
      /\ \A r \in Rows : r \notin cascade /\ r \in Detached(store, gone)
                         => after[r] = [store[r] EXCEPT !.project = None]
      /\ \A r \in Rows : r \notin cascade /\ r \notin Detached(store, gone) => after[r] = store[r]
      /\ after = [r \in Rows |-> after[r]]
  BY DEF Removed, Cascade, Rows
<1>2. \A r \in Detached(store, gone) : r \in Boards /\ Live(store, r) /\ store[r].project \in gone
  BY DEF Detached
<1>3. gone \subseteq cascade
  BY DEF Cascade
<1>4. \A b \in Boards : b \in cascade => b \in gone
  BY DEF Cascade
<1>5. \A p \in Projects : p \in cascade => p \in gone
  BY DEF Cascade
<1>6. \A k \in Cards : Live(store, k) /\ store[k].board \in gone => k \in cascade
  BY DEF Cascade
<1>7. \A n \in Notes, kind \in Kinds :
        Live(store, n) /\ store[n][kind] \in cascade /\ store[n][kind] \notin Notes => n \in cascade
  BY DEF Cascade
<1> HIDE DEF after, cascade
<1>8. \A r \in Rows : Live(store, r) => store[r] \in Row
  BY LiveRow DEF Sound
<1>9. \A r \in Rows : Live(store, r) =>
        /\ store[r].project \in Projects \cup {None} /\ store[r].board \in Boards \cup {None}
        /\ store[r].card \in Cards \cup {None}
  BY <1>8 DEF Row
<1>10. \A r \in Detached(store, gone) : [store[r] EXCEPT !.project = None] \in Row
  BY <1>2, <1>8 DEF Row, Rows
<1>11. Typed(after)
  <2>1. \A r \in Rows : after[r] \in Row \cup {Unborn, Gone}
    BY <1>1, <1>10 DEF Sound, Typed
  <2> QED
    BY <1>1, <2>1 DEF Typed
<1>12. \A r \in Rows : Live(after, r) <=> Live(store, r) /\ r \notin cascade
  <2>1. \A r \in Rows : r \in cascade => ~Live(after, r)
    BY <1>1 DEF Live
  <2>2. \A r \in Rows : r \notin cascade /\ r \in Detached(store, gone) => Live(after, r)
    BY <1>1, <1>10, <1>11, LiveRow
  <2>3. \A r \in Rows : r \notin cascade /\ r \notin Detached(store, gone)
                        => (Live(after, r) <=> Live(store, r))
    BY <1>1 DEF Live
  <2> QED
    BY <1>2, <2>1, <2>2, <2>3
<1>13. \A r \in Rows \ Boards : Live(after, r) => after[r] = store[r]
  BY <1>1, <1>2, <1>12
<1>14. \A b \in Boards : Live(after, b) =>
         /\ after[b].project = IF store[b].project \in gone THEN None ELSE store[b].project
         /\ after[b].board = store[b].board /\ after[b].card = store[b].card
  <2> TAKE b \in Boards
  <2> HAVE Live(after, b)
  <2>1. Live(store, b) /\ b \notin cascade /\ b \in Rows /\ b \notin gone
    BY <1>3, <1>12 DEF Rows
  <2>2. CASE store[b].project \in gone
    <3>1. b \in Detached(store, gone)
      BY <2>1, <2>2 DEF Detached
    <3> QED
      BY <1>1, <1>8, <2>1, <2>2, <3>1 DEF Row
  <2>3. CASE store[b].project \notin gone
    BY <1>1, <1>2, <2>1, <2>3
  <2> QED
    BY <2>2, <2>3
<1>15. Shape(after)
  <2>1. /\ Projects \subseteq Rows \ Boards /\ Cards \subseteq Rows \ Boards
    BY DEF Rows
  <2>2. \A r \in Rows : Live(after, r) => Live(store, r)
    BY <1>12
  <2>3. \A p \in Projects : Live(after, p) => \A kind \in Kinds : after[p][kind] = None
    BY <1>13, <2>1, <2>2 DEF Sound, Shape
  <2>4. \A b \in Boards : Live(after, b) => after[b].board = None /\ after[b].card = None
    BY <1>14, <2>2 DEF Sound, Shape, Rows
  <2>5. \A k \in Cards : Live(after, k) => after[k].project = None /\ after[k].card = None
    BY <1>13, <2>1, <2>2 DEF Sound, Shape
  <2> QED
    BY <2>3, <2>4, <2>5 DEF Shape
<1>16. NoneDangles(after)
  <2> SUFFICES ASSUME NEW r \in Rows, NEW kind \in Kinds, Live(after, r), after[r][kind] # None
               PROVE  Live(after, after[r][kind])
    BY DEF NoneDangles
  <2>1. Live(store, r) /\ r \notin cascade /\ r \notin gone
    BY <1>3, <1>12
  <2>2. SUFFICES ASSUME store[r][kind] = after[r][kind], store[r][kind] \notin cascade
                 PROVE  Live(after, after[r][kind])
    <3>1. CASE r \in Projects
      BY <1>15, <3>1 DEF Shape
    <3>2. CASE r \in Boards
      <4>1. kind = "project"
        BY <1>15, <3>2 DEF Shape, Kinds
      <4>2. store[r].project \notin gone /\ after[r].project = store[r].project
        BY <1>14, <3>2, <4>1
      <4> QED
        BY <1>5, <1>9, <2>1, <2>2, <4>1, <4>2
    <3>3. CASE r \in Cards
      <4>1. kind = "board" /\ after[r] = store[r]
        BY <1>13, <1>15, <3>3 DEF Shape, Kinds, Rows
      <4>2. store[r].board \in Boards /\ store[r].board \notin gone
        BY <1>6, <1>9, <2>1, <3>3, <4>1
      <4> QED
        BY <1>4, <2>2, <4>1, <4>2
    <3>4. CASE r \in Notes
      <4>1. after[r] = store[r]
        BY <1>13, <3>4
      <4>2. store[r][kind] \in Projects \cup Boards \cup Cards
        BY <1>9, <2>1, <4>1 DEF Kinds
      <4> QED
        BY <1>7, <2>1, <2>2, <3>4, <4>1, <4>2
    <3> QED
      BY <3>1, <3>2, <3>3, <3>4 DEF Rows
  <2>3. Live(store, store[r][kind])
    BY <2>1, <2>2 DEF Sound, NoneDangles
  <2> QED
    BY <1>12, <2>2, <2>3 DEF Live
<1> QED
  BY <1>11, <1>12, <1>13, <1>15, <1>16 DEF Sound, after, cascade

-----------------------------------------------------------------------------
(* The steps. *)

LEMMA InitIInv == Init => IInv
BY RowsAssumption DEF Init, IInv, Sound, Typed, Shape, NoneDangles, NotesLinkOnce, TagsOK, Live

(* A create or a patch: r becomes old with the links of the body. *)
LEMMA PatchStep ==
  ASSUME IInv, NEW r \in Rows, NEW old \in Row, old = Unlinked \/ (Live(row, r) /\ old = row[r]),
         NEW kinds \in SUBSET Kinds, NEW links \in Bodies(kinds), NEW archived \in BOOLEAN \cup {None},
         r \in Projects => kinds = {}, r \in Boards => kinds \subseteq {"project"},
         r \in Cards => kinds \subseteq {"board"},
         r \in Notes => archived = None /\ SingleLink(old, links),
         TargetsLive(row, links),
         row' = [row EXCEPT ![r] = Patched(old, links, archived)]
  PROVE  /\ Sound(row') /\ NotesLinkOnce(row')
         /\ Live(row', r) /\ \A q \in Rows : q # r => (Live(row', q) <=> Live(row, q))
<1> DEFINE new == Patched(old, links, archived)
<1>1. /\ new \in Row
      /\ \A kind \in Kinds : new[kind] = IF kind \in kinds THEN links[kind] ELSE old[kind]
  BY PatchedRow
<1>2. DOMAIN links = kinds
  BY DEF Bodies
<1>3. r \in Notes => new = Patched(old, links, None)
  OBVIOUS
<1> HIDE DEF new
<1>4. Fits(r, old)
  BY UnlinkedRow DEF Fits, IInv, Sound, Shape, Kinds
<1>5. Fits(r, new)
  BY <1>1, <1>4, RowsAssumption DEF Fits, Kinds
<1>6. \A kind \in Kinds : new[kind] # None => Live(row, new[kind])
  <2>1. \A kind \in Kinds : old[kind] # None => Live(row, old[kind])
    BY UnlinkedRow DEF IInv, Sound, NoneDangles
  <2> QED
    BY <1>1, <1>2, <2>1 DEF TargetsLive
<1>7. /\ Sound(row') /\ Live(row', r)
      /\ \A q \in Rows : q # r => (Live(row', q) <=> Live(row, q))
  BY <1>1, <1>5, <1>6, Written DEF IInv, new
<1>8. row'[r] = new /\ \A q \in Rows : q # r => row'[q] = row[q]
  BY DEF new, IInv, Sound, Typed
<1>9. NotesLinkOnce(row')
  <2> SUFFICES ASSUME NEW n \in Notes, Live(row', n)
               PROVE  Cardinality({kind \in Kinds : row'[n][kind] # None}) <= 1
    BY DEF NotesLinkOnce
  <2>1. n \in Rows
    BY DEF Rows
  <2>2. CASE n = r
    BY <1>3, <1>8, <2>2 DEF SingleLink
  <2>3. CASE n # r
    BY <1>7, <1>8, <2>1, <2>3 DEF IInv, NotesLinkOnce
  <2> QED
    BY <2>2, <2>3
<1> QED
  BY <1>7, <1>9

(* Tags may stay when no row goes. *)
LEMMA TagsStay ==
  ASSUME TagsOK, UNCHANGED tags, \A n \in Notes : Live(row, n) => Live(row', n)
  PROVE  TagsOK'
BY DEF TagsOK

LEMMA InsertStep ==
  ASSUME IInv, NEW r \in Rows, NEW kinds \in SUBSET Kinds, NEW links \in Bodies(kinds),
         r \in Projects => kinds = {}, r \in Boards => kinds \subseteq {"project"},
         r \in Cards => kinds \subseteq {"board"}, r \in Notes => SingleLink(Unlinked, links),
         Insert(r, links)
  PROVE  /\ Sound(row') /\ NotesLinkOnce(row')
         /\ Live(row', r) /\ \A q \in Rows : q # r => (Live(row', q) <=> Live(row, q))
<1>1. /\ TargetsLive(row, links)
      /\ row' = [row EXCEPT ![r] = Patched(Unlinked, links, None)]
  BY DEF Insert
<1> QED
  BY <1>1, PatchStep, UnlinkedRow

LEMMA EraseStep ==
  ASSUME IInv, NEW r \in Rows, Erase(r)
  PROVE  /\ IInv'
         /\ \A q \in Rows : Live(row', q) <=> Live(row, q) /\ q \notin Cascade(row, {r})
<1>1. /\ Sound(row')
      /\ \A q \in Rows : Live(row', q) <=> Live(row, q) /\ q \notin Cascade(row, {r})
      /\ \A q \in Rows \ Boards : Live(row', q) => row'[q] = row[q]
  <2>1. row' = Removed(row, {r})
    BY DEF Erase
  <2> QED
    BY <2>1, RemovedRows DEF IInv
<1>2. Notes \subseteq Rows \ Boards
  BY RowsAssumption DEF Rows
<1>3. NotesLinkOnce(row')
  BY <1>1, <1>2 DEF IInv, NotesLinkOnce
<1>4. TagsOK'
  BY <1>1, <1>2 DEF IInv, TagsOK, Erase, TagsRemoved
<1> QED
  BY <1>1, <1>3, <1>4 DEF IInv

(* The boards first, then the project: both deletions are sound. *)
LEMMA DeleteProjectStep ==
  ASSUME IInv, NEW p \in Projects, DeleteProject(p)
  PROVE  /\ IInv'
         /\ \A q \in Projects : q # p => (Live(row', q) <=> Live(row, q))
         /\ \A b \in Boards : Live(row, b) /\ row[b].project = p => ~Live(row', b)
<1> DEFINE boards == BoardsIn(row, p)
           left == Removed(row, boards)
           gone == Cascade(row, boards) \cup Cascade(left, {p})
<1>1. row' = Removed(left, {p}) /\ tags' = TagsRemoved(tags, gone)
  BY DEF DeleteProject
<1>2. boards \in SUBSET Rows /\ {p} \in SUBSET Rows /\ p \in Rows
  BY DEF BoardsIn, Rows
<1>3. /\ Sound(left)
      /\ \A q \in Rows : Live(left, q) <=> Live(row, q) /\ q \notin Cascade(row, boards)
      /\ \A q \in Rows \ Boards : Live(left, q) => left[q] = row[q]
  BY <1>2, RemovedRows DEF IInv
<1>4. \A b \in boards : b \in Cascade(row, boards)
  BY DEF Cascade
<1>5. \A q \in Projects : q \notin Cascade(row, boards)
  BY RowsAssumption DEF Cascade, BoardsIn
<1> HIDE DEF boards, left
<1>6. /\ Sound(row')
      /\ \A q \in Rows : Live(row', q) <=> Live(left, q) /\ q \notin Cascade(left, {p})
      /\ \A q \in Rows \ Boards : Live(row', q) => row'[q] = left[q]
  BY <1>1, <1>2, <1>3, RemovedRows
<1>7. \A q \in Projects : q # p => q \notin Cascade(left, {p})
  BY RowsAssumption DEF Cascade
<1>8. \A q \in Projects : q # p => (Live(row', q) <=> Live(row, q))
  BY <1>3, <1>5, <1>6, <1>7 DEF Rows
<1>9. Notes \subseteq Rows \ Boards
  BY RowsAssumption DEF Rows
<1>10. NotesLinkOnce(row')
  BY <1>3, <1>6, <1>9 DEF IInv, NotesLinkOnce
<1>11. TagsOK'
  BY <1>1, <1>3, <1>6, <1>9 DEF IInv, TagsOK, TagsRemoved
<1>12. \A b \in Boards : Live(row, b) /\ row[b].project = p => ~Live(row', b)
  BY <1>3, <1>4, <1>6 DEF boards, BoardsIn, Rows
<1> QED
  BY <1>6, <1>8, <1>10, <1>11, <1>12 DEF IInv

(* No project goes but by DELETE /projects/{id}. *)
LEMMA StepIInv ==
  ASSUME IInv, Next
  PROVE  /\ IInv'
         /\ \A q \in Projects : Live(row, q) => Live(row', q) \/ DeleteProject(q)
<1>r. /\ Projects \subseteq Rows /\ Boards \subseteq Rows /\ Cards \subseteq Rows /\ Notes \subseteq Rows
      /\ \A r \in Rows : Live(row, r) => row[r] \in Row
  BY LiveRow DEF Rows, IInv, Sound
<1>b. \A links \in BoardBodies : \E kinds \in SUBSET Kinds : kinds \subseteq {"project"} /\ links \in Bodies(kinds)
  BY DEF BoardBodies, Kinds
<1>n. \A links \in NoteBodies : \E kinds \in SUBSET Kinds : links \in Bodies(kinds)
  BY DEF NoteBodies
<1>c. {"board"} \in SUBSET Kinds /\ \A links \in CardBodies : links \in Bodies({"board"})
  BY DEF CardBodies, Kinds
<1>1. ASSUME NEW p \in Projects, CreateProject(p)
      PROVE  IInv' /\ \A q \in Projects : Live(row, q) => Live(row', q)
  <2>1. << >> \in Bodies({}) /\ {} \in SUBSET Kinds
    BY DEF Bodies
  <2>2. /\ Sound(row') /\ NotesLinkOnce(row')
        /\ Live(row', p) /\ \A q \in Rows : q # p => (Live(row', q) <=> Live(row, q))
    BY <1>1, <1>r, <2>1, InsertStep, RowsAssumption DEF CreateProject
  <2> QED
    BY <1>1, <1>r, <2>2, TagsStay DEF CreateProject, IInv
<1>2. ASSUME NEW p \in Projects, DeleteProject(p)
      PROVE  IInv' /\ \A q \in Projects : Live(row, q) => Live(row', q) \/ DeleteProject(q)
  BY <1>2, DeleteProjectStep
<1>3. ASSUME NEW b \in Boards, NEW links \in BoardBodies, CreateBoard(b, links)
      PROVE  IInv' /\ \A q \in Projects : Live(row, q) => Live(row', q)
  <2>1. PICK kinds \in SUBSET Kinds : kinds \subseteq {"project"} /\ links \in Bodies(kinds)
    BY <1>b
  <2>2. /\ Sound(row') /\ NotesLinkOnce(row')
        /\ Live(row', b) /\ \A q \in Rows : q # b => (Live(row', q) <=> Live(row, q))
    BY <1>3, <1>r, <2>1, InsertStep, RowsAssumption DEF CreateBoard
  <2> QED
    BY <1>3, <1>r, <2>2, TagsStay DEF CreateBoard, IInv
<1>4. ASSUME NEW b \in Boards, NEW links \in BoardBodies, NEW archived \in BOOLEAN \cup {None},
             PatchBoard(b, links, archived)
      PROVE  IInv' /\ \A q \in Projects : Live(row, q) => Live(row', q)
  <2>1. PICK kinds \in SUBSET Kinds : kinds \subseteq {"project"} /\ links \in Bodies(kinds)
    BY <1>b
  <2>2. /\ Live(row, b) /\ TargetsLive(row, links) /\ row[b] \in Row
        /\ row' = [row EXCEPT ![b] = Patched(row[b], links, archived)]
    BY <1>4, <1>r DEF PatchBoard
  <2>3. /\ Sound(row') /\ NotesLinkOnce(row')
        /\ Live(row', b) /\ \A q \in Rows : q # b => (Live(row', q) <=> Live(row, q))
    BY <1>r, <2>1, <2>2, PatchStep, RowsAssumption
  <2> QED
    BY <1>4, <1>r, <2>3, TagsStay DEF PatchBoard, IInv
<1>5. ASSUME NEW k \in Cards, NEW links \in CardBodies, CreateCard(k, links)
      PROVE  IInv' /\ \A q \in Projects : Live(row, q) => Live(row', q)
  <2>1. /\ Sound(row') /\ NotesLinkOnce(row')
        /\ Live(row', k) /\ \A q \in Rows : q # k => (Live(row', q) <=> Live(row, q))
    BY <1>5, <1>r, <1>c, InsertStep, RowsAssumption DEF CreateCard
  <2> QED
    BY <1>5, <1>r, <2>1, TagsStay DEF CreateCard, IInv
<1>6. ASSUME NEW k \in Cards, NEW links \in CardBodies, MoveCard(k, links)
      PROVE  IInv' /\ \A q \in Projects : Live(row, q) => Live(row', q)
  <2>1. /\ Live(row, k) /\ TargetsLive(row, links) /\ row[k] \in Row
        /\ row' = [row EXCEPT ![k] = Patched(row[k], links, None)]
    BY <1>6, <1>r DEF MoveCard
  <2>2. /\ Sound(row') /\ NotesLinkOnce(row')
        /\ Live(row', k) /\ \A q \in Rows : q # k => (Live(row', q) <=> Live(row, q))
    BY <1>r, <1>c, <2>1, PatchStep, RowsAssumption
  <2> QED
    BY <1>6, <1>r, <2>2, TagsStay DEF MoveCard, IInv
<1>7. ASSUME NEW n \in Notes, NEW links \in NoteBodies, NEW new \in SUBSET Tags, CreateNote(n, links, new)
      PROVE  IInv' /\ \A q \in Projects : Live(row, q) => Live(row', q)
  <2>1. PICK kinds \in SUBSET Kinds : links \in Bodies(kinds)
    BY <1>n
  <2>2. /\ Sound(row') /\ NotesLinkOnce(row')
        /\ Live(row', n) /\ \A q \in Rows : q # n => (Live(row', q) <=> Live(row, q))
    BY <1>7, <1>r, <2>1, InsertStep, RowsAssumption DEF CreateNote
  <2>3. TagsOK'
    BY <1>7, <1>r, <2>2 DEF CreateNote, TagsOK, IInv
  <2> QED
    BY <1>r, <2>2, <2>3 DEF IInv
<1>8. ASSUME NEW n \in Notes, NEW links \in NoteBodies, NEW replacement \in (SUBSET Tags) \cup {None},
             PatchNote(n, links, replacement)
      PROVE  IInv' /\ \A q \in Projects : Live(row, q) => Live(row', q)
  <2>1. PICK kinds \in SUBSET Kinds : links \in Bodies(kinds)
    BY <1>n
  <2>2. /\ Live(row, n) /\ TargetsLive(row, links) /\ row[n] \in Row /\ SingleLink(row[n], links)
        /\ row' = [row EXCEPT ![n] = Patched(row[n], links, None)]
    BY <1>8, <1>r DEF PatchNote
  <2>3. /\ Sound(row') /\ NotesLinkOnce(row')
        /\ Live(row', n) /\ \A q \in Rows : q # n => (Live(row', q) <=> Live(row, q))
    BY <1>r, <2>1, <2>2, PatchStep, RowsAssumption
  <2>4. TagsOK'
    <3>1. \A m \in Notes : ~Live(row', m) => ~Live(row, m) /\ m # n
      BY <1>r, <2>3
    <3>2. tags' \in [Notes -> SUBSET Tags] /\ \A m \in Notes : m # n => tags'[m] = tags[m]
      <4>1. CASE replacement = None
        BY <1>8, <4>1 DEF PatchNote, TagsOK, IInv
      <4>2. CASE replacement # None
        BY <1>8, <4>2 DEF PatchNote, TagsOK, IInv
      <4> QED
        BY <4>1, <4>2
    <3> QED
      BY <3>1, <3>2 DEF TagsOK, IInv
  <2> QED
    BY <1>r, <2>3, <2>4 DEF IInv
<1>9. ASSUME NEW r \in Boards \cup Cards \cup Notes, Erase(r)
      PROVE  IInv' /\ \A q \in Projects : Live(row, q) => Live(row', q)
  <2>1. \A q \in Projects : q \notin Cascade(row, {r})
    BY RowsAssumption DEF Cascade
  <2> QED
    BY <1>9, <1>r, <2>1, EraseStep
<1> QED
  BY <1>1, <1>2, <1>3, <1>4, <1>5, <1>6, <1>7, <1>8, <1>9 DEF Next, DeleteBoard, DeleteCard, DeleteNote

LEMMA NextIInv == IInv /\ [Next]_vars => IInv'
<1>1. IInv /\ Next => IInv'
  BY StepIInv
<1>2. IInv /\ UNCHANGED vars => IInv'
  BY DEF vars, IInv, TagsOK
<1> QED
  BY <1>1, <1>2

-----------------------------------------------------------------------------
(* The rows keep their shape, and a note that is gone has no tags. *)
THEOREM TypeCorrect == Spec => []TypeOK
<1>1. Spec => []IInv
  BY InitIInv, NextIInv, PTL DEF Spec
<1> QED
  BY <1>1, IInvSafe, PTL

(* A note is linked to one row at most. *)
THEOREM LinkedOnce == Spec => []OneLink
<1>1. Spec => []IInv
  BY InitIInv, NextIInv, PTL DEF Spec
<1> QED
  BY <1>1, IInvSafe, PTL

(* No link dangles, whatever is deleted. *)
THEOREM NoDanglingLink == Spec => []LinksLive
<1>1. Spec => []IInv
  BY InitIInv, NextIInv, PTL DEF Spec
<1> QED
  BY <1>1, IInvSafe, PTL

(* The project of a live board is live, so it can only go by its own       *)
(* DELETE, which takes the board first.                                    *)
THEOREM BoardsGo == Spec => BoardsGoWithProject
<1>1. ASSUME IInv, [Next]_vars, NEW b \in Boards, NEW p \in Projects,
             Live(row, b), row[b].project = p, ~Live(row', p)
      PROVE  ~Live(row', b)
  <2>1. p # None /\ b \in Rows /\ "project" \in Kinds
    BY RowsAssumption DEF Rows, Kinds
  <2>2. Live(row, p)
    BY <1>1, <2>1 DEF IInv, Sound, NoneDangles
  <2>3. CASE UNCHANGED vars
    BY <1>1, <2>2, <2>3 DEF vars
  <2>4. CASE Next
    BY <1>1, <2>2, <2>4, StepIInv, DeleteProjectStep
  <2> QED
    BY <1>1, <2>3, <2>4
<1>2. IInv /\ [Next]_vars
        => [\A b \in Boards, p \in Projects :
              Live(row, b) /\ row[b].project = p /\ ~Live(row', p) => ~Live(row', b)]_vars
  BY <1>1
<1> QED
  BY <1>2, InitIInv, NextIInv, PTL DEF Spec, BoardsGoWithProject
=============================================================================
