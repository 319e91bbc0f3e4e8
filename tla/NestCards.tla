----------------------------- MODULE NestCards -----------------------------
(***************************************************************************)
(* Cards and columns in the NestJS backend (src/backend).                  *)
(*                                                                         *)
(* Unlike backend-rs it takes no locks: a handler reads with plain SELECTs *)
(* and writes what it computed later, so each handler is a first action    *)
(* (its checks and reads) and a second one (its writes), update has the    *)
(* transaction's reads in between, and up to Requests handlers overlap.    *)
(* Positions are written as the client sent them and a delete closes no    *)
(* gap.  A repository save() re-reads the row and writes every column of   *)
(* the entity that differs, or inserts the row again when it is gone.      *)
(* Requests answered with a 4xx by their first check change nothing and    *)
(* are not actions.                                                        *)
(***************************************************************************)
EXTENDS Integers, FiniteSets, SequencesExt

CONSTANTS
  Cards,        (* cards.id values, handed out in the order of created_at *)
  Columns,      (* columns.id values                                      *)
  Home,         (* [columns that exist at the start -> their board_id]    *)
  Stored,       (* the cards that exist at the start                      *)
  Boards,
  Places,       (* the positions a request body may carry                 *)
  Requests,     (* the requests the server may be working on at a time    *)
  MaxRequests,  (* bound: the requests of a behaviour                     *)
  None

ASSUME NestCardsAssumption ==
  /\ Cards \subseteq Nat /\ Places \subseteq Nat
  /\ DOMAIN Home \subseteq Columns /\ Stored \subseteq Cards
  /\ Columns \subseteq Nat /\ None \notin Columns \cup Boards \cup Cards \cup Places
  /\ IsFiniteSet(Cards) /\ IsFiniteSet(Columns)    (* ids are 32 bits wide *)
  /\ \A c \in DOMAIN Home : Home[c] \in Boards
  /\ None \notin [board : Boards, position : Nat] \cup [column : Columns, position : Nat]

VARIABLES
  columns,   (* [Columns -> [board, position] or None]           *)
  card,      (* [Cards -> [column, position] or None]            *)
  issued,    (* cards.id and columns.id values already handed out *)
  req,       (* [Requests -> what the handler holds]             *)
  started,
  undo,      (* history: what the last write took out of a column *)
  seen       (* history: [Requests -> the cards when the request began, *)
             (*          and whether it has been alone since]           *)

vars == << columns, card, issued, req, started, undo, seen >>

-----------------------------------------------------------------------------
(* The SELECTs. *)

InColumn(tab, c) == {k \in Cards : tab[k] # None /\ tab[k].column = c}

OnBoard(b) == {c \in Columns : columns[c] # None /\ columns[c].board = b}

(* MAX(position) ?? -1 *)
MaxOf(set) == IF set = {} THEN -1 ELSE CHOOSE m \in set : \A n \in set : n <= m

MaxPositionInColumn(tab, c) == MaxOf({tab[k].position : k \in InColumn(tab, c)})

(* A column as findAllByBoardId returns it: by position. *)
Earlier(tab, c, k) ==
  {j \in InColumn(tab, c) : \/ tab[j].position < tab[k].position
                            \/ tab[j].position = tab[k].position /\ j < k}

Shown(tab, c) ==
  [i \in 1 .. Cardinality(InColumn(tab, c)) |->
     CHOOSE k \in InColumn(tab, c) : Cardinality(Earlier(tab, c, k)) = i - 1]

Gapless(tab, c) ==
  {tab[k].position : k \in InColumn(tab, c)} = 0 .. (Cardinality(InColumn(tab, c)) - 1)

Untied(tab, c) ==
  \A j, k \in InColumn(tab, c) : tab[j].position = tab[k].position => j = k

-----------------------------------------------------------------------------
(* The rows the position helpers of cards.service.ts rewrite: operators    *)
(* from a table to a table.                                                *)

(* The cards of c at positions lo .. hi, and those from lo on. *)
Band(tab, c, lo, hi) == {k \in InColumn(tab, c) : tab[k].position \in lo .. hi}
From(tab, c, lo) == {k \in InColumn(tab, c) : tab[k].position >= lo}

Shifted(tab, rows, by) ==
  [k \in Cards |-> IF k \in rows THEN [tab[k] EXCEPT !.position = @ + by] ELSE tab[k]]

Within(p, top) == IF p > top THEN (IF top < 0 THEN 0 ELSE top) ELSE p

(* Mutant: the upper end of the band is left out. *)
ReorderWithinColumnShort(tab, c, old, new) ==
  LET top  == Cardinality(InColumn(tab, c)) - 1
      from == Within(old, top)
      to   == Within(new, top)
  IN IF from < to THEN Shifted(tab, Band(tab, c, from + 1, to - 1), -1)
     ELSE Shifted(tab, Band(tab, c, to, from - 1), 1)

ReorderWithinColumn(tab, c, old, new) ==
  LET top  == Cardinality(InColumn(tab, c)) - 1
      from == Within(old, top)
      to   == Within(new, top)
  IN IF from < to THEN Shifted(tab, Band(tab, c, from + 1, to), -1)
     ELSE Shifted(tab, Band(tab, c, to, from - 1), 1)

(* Mutant: the cards at the position are pulled down too. *)
RemoveFromColumnAt(tab, c, position) == Shifted(tab, From(tab, c, position), -1)

RemoveFromColumn(tab, c, position) == Shifted(tab, From(tab, c, position + 1), -1)

InsertIntoColumn(tab, c, position) == Shifted(tab, From(tab, c, position), 1)

(* What update() makes of the table its transaction sees. *)
Rearranged(tab, k, old, place, to) ==
  IF place = None THEN tab
  ELSE IF to = old.column
       THEN IF place = old.position THEN tab
            ELSE ReorderWithinColumn(tab, to, old.position, place)
       ELSE LET left == RemoveFromColumn(tab, old.column, old.position)
                top  == MaxPositionInColumn(left, to) + 1
            IN InsertIntoColumn(left, to, IF place > top THEN top ELSE place)

-----------------------------------------------------------------------------
(* Requests. *)

Idle == [at |-> "idle"]

(* r begins, with the handler's state in rec; alone says that no other     *)
(* request has been in flight with it so far.                              *)
Begin(r, rec) ==
  /\ req[r] = Idle
  /\ started < MaxRequests
  /\ started' = started + 1
  /\ req' = [req EXCEPT ![r] = rec]
  /\ seen' = [o \in Requests |->
                IF o = r THEN [alone |-> \A q \in Requests \ {r} : req[q] = Idle,
                               before |-> card]
                ELSE IF req[o] = Idle THEN seen[o] ELSE [seen[o] EXCEPT !.alone = FALSE]]

Unseen == [alone |-> FALSE, before |-> None]

Answer(r) ==
  /\ req' = [req EXCEPT ![r] = Idle]
  /\ seen' = [seen EXCEPT ![r] = Unseen]
  /\ UNCHANGED started

Nothing == UNCHANGED << columns, card, issued, undo >>

(* save(entities): cards' rows written whole, or inserted when they are    *)
(* gone; a column that is gone fails the foreign key and the whole save.   *)
SaveCards(entities) ==
  /\ card' = IF \A k \in DOMAIN entities : columns[entities[k].column] # None
             THEN [k \in Cards |-> IF k \in DOMAIN entities THEN entities[k] ELSE card[k]]
             ELSE card
  /\ undo' = None

-----------------------------------------------------------------------------
(* CardsService *)

CreateCard(r) ==
  \E c \in Columns, place \in Places \cup {None} :
    /\ columns[c] # None
    /\ Begin(r, [at |-> "create", column |-> c,
                 position |-> IF place = None THEN MaxPositionInColumn(card, c) + 1
                              ELSE place])
    /\ Nothing

InsertCard(r) ==
  /\ req[r].at = "create"
  /\ \E k \in Cards \ issued :
       /\ \A j \in Cards \ issued : k <= j
       /\ issued' = issued \cup {k}
       /\ SaveCards([j \in {k} |-> [column |-> req[r].column, position |-> req[r].position]])
  /\ Answer(r)
  /\ UNCHANGED columns

UpdateCard(r) ==
  \E k \in Cards, to \in Columns \cup {None}, place \in Places \cup {None} :
    /\ card[k] # None
    /\ to # None \/ place # None
    /\ Begin(r, [at |-> "update", card |-> k, old |-> card[k], to |-> to, place |-> place])
    /\ Nothing

(* The transaction reads its snapshot and computes the rows to write: only *)
(* the positions that differ from what it read.                            *)
ShiftCards(r) ==
  /\ req[r].at = "update"
  /\ LET q    == req[r]
         new  == Rearranged(card, q.card, q.old, q.place,
                            IF q.to = None THEN q.old.column ELSE q.to)
         rows == {k \in Cards : new[k] # card[k]}
     IN req' = [req EXCEPT ![r] = [at |-> "shifted", card |-> q.card, old |-> q.old,
                                   to |-> q.to, place |-> q.place,
                                   rows |-> [k \in rows |-> new[k].position]]]
  /\ UNCHANGED << columns, card, issued, started, undo, seen >>

(* The transaction ends: position and column_id of the card itself, after  *)
(* the check of the new column, whose failure rolls everything back.       *)
CommitUpdate(r) ==
  /\ req[r].at = "shifted"
  /\ LET q     == req[r]
         done  == q.to = None \/ columns[q.to] # None
         Pos(k) == IF k = q.card /\ q.place # None THEN q.place
                   ELSE IF k \in DOMAIN q.rows THEN q.rows[k]
                   ELSE card[k].position
         Col(k) == IF k = q.card /\ q.to # None THEN q.to ELSE card[k].column
     IN /\ card' = IF done
                   THEN [k \in Cards |-> IF card[k] = None THEN None
                                         ELSE [column |-> Col(k), position |-> Pos(k)]]
                   ELSE card
        /\ undo' = IF done THEN None ELSE undo
  /\ Answer(r)
  /\ UNCHANGED << columns, issued >>

(* Two transactions lock each other's rows: InnoDB rolls one back. *)
DeadlockedUpdate(r) ==
  /\ req[r].at = "shifted"
  /\ \E o \in Requests \ {r} :
       /\ req[o].at = "shifted"
       /\ DOMAIN req[o].rows \cap DOMAIN req[r].rows # {}
  /\ Answer(r)
  /\ Nothing

RemoveCard(r) ==
  \E k \in Cards :
    /\ card[k] # None
    /\ Begin(r, [at |-> "remove", card |-> k])
    /\ Nothing

(* Mutant: the gap is closed, as backend-rs does, but create still inserts *)
(* at the position as sent.                                                *)
DeleteCardClosingGap(r) ==
  /\ req[r].at = "remove"
  /\ LET k == req[r].card
         rest == [card EXCEPT ![k] = None]
     IN /\ card' = IF card[k] = None THEN card
                   ELSE RemoveFromColumn(rest, card[k].column, card[k].position)
        /\ undo' = IF card[k] = None THEN None
                   ELSE [card |-> k, row |-> card[k], list |-> Shown(card, card[k].column)]
  /\ Answer(r)
  /\ UNCHANGED << columns, issued >>

DeleteCard(r) ==
  /\ req[r].at = "remove"
  /\ LET k == req[r].card
     IN /\ card' = [card EXCEPT ![k] = None]
        /\ undo' = IF card[k] = None \/ ~Untied(card, card[k].column) THEN None
                   ELSE [card |-> k, row |-> card[k], list |-> Shown(card, card[k].column)]
  /\ Answer(r)
  /\ UNCHANGED << columns, issued >>

-----------------------------------------------------------------------------
(* ColumnsService *)

CreateColumn(r) ==
  \E b \in Boards :
    /\ Begin(r, [at |-> "createColumn",
                 row |-> [board |-> b,
                          position |-> MaxOf({columns[c].position : c \in OnBoard(b)}) + 1]])
    /\ Nothing

InsertColumn(r) ==
  /\ req[r].at = "createColumn"
  /\ \E c \in Columns \ issued :
       /\ issued' = issued \cup {c}
       /\ columns' = [columns EXCEPT ![c] = req[r].row]
  /\ Answer(r)
  /\ UNCHANGED << card, undo >>

UpdateColumn(r) ==
  \E c \in Columns :
    /\ columns[c] # None
    /\ Begin(r, [at |-> "updateColumn", column |-> c, row |-> columns[c]])
    /\ Nothing

(* save(column): a column removed meanwhile comes back, without its cards. *)
SaveColumn(r) ==
  /\ req[r].at = "updateColumn"
  /\ columns' = [columns EXCEPT ![req[r].column] = req[r].row]
  /\ Answer(r)
  /\ UNCHANGED << card, issued, undo >>

RemoveColumn(r) ==
  \E c \in Columns :
    /\ columns[c] # None
    /\ Begin(r, [at |-> "removeColumn", column |-> c])
    /\ Nothing

DropColumn(r) ==
  /\ req[r].at = "removeColumn"
  /\ LET c == req[r].column
     IN /\ columns' = [columns EXCEPT ![c] = None]
        /\ card' = [k \in Cards |-> IF k \in InColumn(card, c) THEN None ELSE card[k]]
  /\ undo' = None
  /\ Answer(r)
  /\ UNCHANGED issued

(* find() by created_at, then positions 0 .. n-1 in memory *)
SortCards(r) ==
  \E c \in Columns, desc \in BOOLEAN :
    /\ columns[c] # None
    /\ LET cards == InColumn(card, c)
           Before(j, k) == IF desc THEN k < j ELSE j < k
       IN Begin(r, [at |-> "save",
                    rows |-> [k \in cards |->
                                [column |-> c,
                                 position |-> Cardinality({j \in cards : Before(j, k)})]]])
    /\ Nothing

SaveSorted(r) ==
  /\ req[r].at = "save"
  /\ SaveCards(req[r].rows)
  /\ Answer(r)
  /\ UNCHANGED << columns, issued >>

MoveAllCards(r) ==
  \E source, target \in Columns :
    /\ columns[source] # None /\ columns[target] # None
    /\ columns[source].board = columns[target].board
    /\ source # target
    /\ InColumn(card, source) # {}
    /\ Begin(r, [at |-> "moveAll", cards |-> InColumn(card, source), target |-> target])
    /\ Nothing

(* The cards were read without ORDER BY: any order may be given to them. *)
SaveMoved(r) ==
  /\ req[r].at = "moveAll"
  /\ \E order \in SetToSeqs(req[r].cards) :
       SaveCards([k \in req[r].cards |->
                    [column |-> req[r].target,
                     position |-> MaxPositionInColumn(card, req[r].target)
                                  + (CHOOSE i \in DOMAIN order : order[i] = k)]])
  /\ Answer(r)
  /\ UNCHANGED << columns, issued >>

-----------------------------------------------------------------------------
(* A board whose cards were created and dragged about, in any order. *)
Init ==
  /\ columns = [c \in Columns |->
                  IF c \in DOMAIN Home
                  THEN [board |-> Home[c],
                        position |-> Cardinality({d \in DOMAIN Home : d < c /\ Home[d] = Home[c]})]
                  ELSE None]
  /\ card \in [Cards -> [column : DOMAIN Home, position : 0 .. Cardinality(Stored) - 1] \cup {None}]
  /\ {k \in Cards : card[k] # None} = Stored
  /\ \A c \in DOMAIN Home : Gapless(card, c)
  /\ issued = DOMAIN Home \cup Stored
  /\ req = [r \in Requests |-> Idle]
  /\ started = 0
  /\ undo = None
  /\ seen = [r \in Requests |-> Unseen]

CardsController(r) ==
  \/ CreateCard(r)  \/ InsertCard(r)
  \/ UpdateCard(r)  \/ ShiftCards(r) \/ CommitUpdate(r) \/ DeadlockedUpdate(r)
  \/ RemoveCard(r)  \/ DeleteCard(r)

ColumnsController(r) ==
  \/ CreateColumn(r) \/ InsertColumn(r)
  \/ UpdateColumn(r) \/ SaveColumn(r)
  \/ RemoveColumn(r) \/ DropColumn(r)
  \/ SortCards(r)   \/ SaveSorted(r)
  \/ MoveAllCards(r) \/ SaveMoved(r)

Next == \E r \in Requests : CardsController(r) \/ ColumnsController(r)

Spec == Init /\ [][Next]_vars

-----------------------------------------------------------------------------
(* However the shifts of overlapping moves, deletes, sorts and bulk moves  *)
(* combine, no card gets a negative position and every card is in a column *)
(* that exists (the strict comparisons of the shift helpers, the cascade   *)
(* of a column and the foreign key behind save()).                         *)
CardsPlaced ==
  \A k \in Cards : card[k] # None => card[k].position >= 0 /\ columns[card[k].column] # None

Ends(r) == req[r] # Idle /\ req'[r] = Idle

(* A drag lands where the client put it: a move that ran alone, over       *)
(* columns without gaps, leaves the card at the index it asked for, all     *)
(* other cards in their order, and the columns without gaps                 *)
(* (reorderWithinColumn, removeFromColumn and insertIntoColumn agree with   *)
(* taking the card out of a list and putting it into one).                  *)
Lands(r) ==
  LET q    == req[r]
      to   == IF q.to = None THEN q.old.column ELSE q.to
      from == q.old.column
      rest == [seen[r].before EXCEPT ![q.card] = None]
  IN /\ Gapless(seen[r].before, from) /\ Gapless(seen[r].before, to)
     /\ q.place <= Len(Shown(rest, to))
     => /\ Shown(card', to) = InsertAt(Shown(rest, to), q.place + 1, q.card)
        /\ from # to => Shown(card', from) = Shown(rest, from)
        /\ Gapless(card', to) /\ Gapless(card', from)

MovesLand ==
  [][\A r \in Requests :
       /\ Ends(r) /\ req[r].at = "shifted" /\ seen[r].alone
       /\ req[r].place # None
       /\ req[r].to = None \/ columns[req[r].to] # None
       => Lands(r)]_vars

(* Undo after a delete sends the card's old position to create: with no    *)
(* other write in between the new card stands exactly where the old one    *)
(* stood, because the delete left the gap open and create does not clamp.  *)
UndoRestores ==
  [][\A r \in Requests :
       /\ Ends(r) /\ req[r].at = "create" /\ undo # None
       /\ req[r].column = undo.row.column /\ req[r].position = undo.row.position
       /\ columns[req[r].column] # None
       => \E k \in issued' \ issued :
            Shown(card', req[r].column)
              = [i \in DOMAIN undo.list |-> IF undo.list[i] = undo.card THEN k ELSE undo.list[i]]
    ]_vars
=============================================================================
