# KanPad in TLA+

KanPad is a Kanban board with notes. The repository holds three programs: `frontend` (React, TanStack Query), `backend`
(NestJS, TypeORM) and `backend-rs` (Rust, Axum, sqlx). Both backends serve much the same JSON API over MySQL; the frontend asks
`/api/v1/...`, which is the prefix of `backend-rs`, for everything but `/api/auth/*`, which only `backend` serves, so at this
commit no backend alone serves the whole frontend, and all three are specified. This directory models what the three programs
do to the state they share, checks the models with TLC and proves part of them with TLAPS.

What is hard is the same everywhere: a request or a click is several steps with other people's steps in between. In
`backend-rs` the steps are SQL statements under row, gap and foreign-key locks; in `backend` they are repository calls with no
locks at all; in the frontend they are renders, requests, answers, refetches and timers.

## Inventory

### backend-rs

| component | state | operations | what makes it correct |
|---|---|---|---|
| card positions (`features/cards`; sort and move-cards of `features/columns`) | `cards.column_id`, `cards.position` | create, move, delete, sort, move all | a column is numbered 0..N-1, each once; a request moves what it names and nothing else; concurrent requests are as if one after the other |
| columns | `columns.position` | create, rename, delete | as for cards |
| boards, projects, notes, their tags (`common/ownership.rs`) | foreign keys, `is_archived`, `note_tags` | create, patch, delete | one link per note, no dangling link, a project takes its boards, a tag set is replaced as a whole |
| sessions (`features/auth`, `session_store.rs`, `extract.rs`) | `sessions`, `users`, the cookie | register, login, logout, me, sweeper | a destroyed id stays dead; a stored session never changes hands |
| checklists, labels, card labels, tags, create-admin | single rows | CRUD | appended last; unique names |
| http stack, pool, migrations, errors | task handles | timeout, session layer, sweeper | a request dropped anywhere leaves nothing half done |
| config, metrics, docs, pagination, validation, summaries | - | pure | - |

### backend (NestJS)

| component | state | operations | what makes it correct |
|---|---|---|---|
| cards, columns | `cards`, `columns` | create, update (reorder, transfer), remove, sort, move-all, column CRUD | a card lands where it was dragged; Undo puts it back; every card is in a column that exists |
| users, projects, boards, labels, card labels, checklists, notes, tags | their tables and foreign keys | CRUD, assign, archive, seed | what is joined has one owner and a note that is listed can be opened, except a note linked to what is another user's (see below); label names clash only by a race |
| authentication | sessions of connect-typeorm | register, login, logout, me | see sign-in below |

### frontend

| component | state | what makes it correct |
|---|---|---|
| board page (`drag-drop-context`, `use-cards`, `use-columns`) | the cached lists, a drag, mutations | the page ends up as the server; a drag shows what the server will make of it |
| card panel | two text fields, two caches, two flags | what is typed is neither overwritten nor lost |
| notes (editor, list, sidebar) | a draft, auto-save, timers of deletes | every edit reaches the server; a confirmed delete happens unless undone |
| board form | two requests, a ref of created projects | one project and one board per dialog |
| projects, lists of boards, checklists, view switch, list view | optimistic caches with snapshots | caches converge; an edit is saved once; failures are told |
| sign-in (`auth-provider`, forms, routes) | the query of the current user | who signs in lands in the application |

How they interact: the pages share only the query client, of which each uses keys of its own (`Client`); they meet a backend
through requests whose answers may be late or lost. The two backends meet each other only through the tables and are modelled apart.
`PROJECT.json` lists under `hazards` what is hard to test, at its line, with the property that covers it.
That list keeps to the hazards most worth a property; more of them are named under "Met while modelling" below.

## Modules

| module | models | how |
|---|---|---|
| `CardOrder` | what a board promises | each column is a list; insert, move, delete, sort, concatenate |
| `CardPositions` | `backend-rs` position arithmetic | one request, one action; every set-based `UPDATE` an operator from table to table; implements `CardOrder` |
| `CardTx` | the same requests as transactions | one action per statement; locks, restarts, retries, dropped futures, isolation levels |
| `CardTxSerial` | | what a transaction's locks keep for it, what its handler knows and has written: the invariant behind serializability |
| `Workspace` | projects, boards, cards, notes, links | one request, one action; `ON DELETE` rules as operators |
| `WorkspaceTx` | the same as transactions | one action for the reads, one per writing statement |
| `Sessions` | login, rotation, logout, expiry, sweeper | one action per statement of a request |
| `NestCards` | cards and columns of `backend` | checks and reads, then writes; `save()` of a stale entity writes it back |
| `NestWorkspace` | everything around the cards in `backend` | an action that checks and loads, then `Write` one repository call at a time |
| `BoardPage`, `CardPanel`, `NotesPage`, `BoardForm`, `ProjectsPage`, `BoardsPage`, `ChecklistPanel`, `BoardView`, `ListView`, `SignIn` | one page or panel of the frontend each | user gestures, renders, requests, answers, refetches, timers |
| `Client` | the frontend | the page the user is on runs, the others stand still |
| `CardPositionsProofs`, `CardTxProofs`, `WorkspaceProofs`, `WorkspaceTxProofs`, `SessionsProofs`, `NestCardsProofs`, `NestWorkspaceProofs`, `ClientProofs` | | theorems and their proofs |
| `MC*` | | constants, first states and the requests of each run |

### Cards in backend-rs

`column[k]` and `position[k]` are the row of card `k`. `CreateCard`, `ReorderCard`, `TransferCard`, `DeleteCard` are the handlers of
`cards/routes.rs` (the two middle ones are the two branches of `move_card`), `SortColumn` and `MoveCards` those of
`columns/routes.rs`; helpers carry the names of the store functions (`OpenGap` is `open_card_gap`). `Listed` maps a table to the lists of `CardOrder`.

In `CardTx` a request is a record in `tx[p]` whose `pc` names its next statement. `column`, `position` are the committed rows,
`newColumn`, `newPosition` the newest versions. A statement (`LockColumn`, `CloseCardGap`, ...) says which rows and gaps it locks and
what the newest rows are after it; `Run` grants it when nobody else is in the way. The ranges of its WHERE clause (`From`,
`After`, `FromUpTo`, `AfterUpTo`) are also the ranges it scans and whose gaps it locks. `ReadSpot` has the restart of a card that changed columns,
`RetryOrFail` the attempts (`MoveMaxAttempts`), `Abandon` the dropped future. `CommittedDense` and `CommitIsRequest` are stated
with `CardPositions` itself, which `CardTx` extends and whose table is the committed rows: a commit may do what the request does as one action, no less and no more.

### Workspace and sessions in backend-rs

`row[r]` has the foreign keys and `is_archived` of a project, board, card or note, `tags[n]` the tag set of a note. `Patched` is the
double-`Option` rule of the patch bodies. A row of another user is, for every handler, a row that is not there, so one user is
enough. In `WorkspaceTx`, `Read` is all the plain `SELECT`s of a handler (one snapshot under REPEATABLE READ) and `Plan` the
statements that follow; a statement that refers to a row that has gone is error 1452.

`sessions[i]` is a row of the table, `jar[c]` the cookie browser `c` would send, `req[p]` the request a process serves, with the id it
loaded and the id it will save under. tower-sessions' part (load on first use, `cycle_id` deletes and forgets the id, save after the
handler only when modified) is stated at the head of the module; `WithSession` is where a handler goes with what it loaded.

### NestJS

`NestCards`: `req[r]` is a handler between its reads and its writes. `Band`, `From` and `Shifted` are the query builder's relative shifts,
which act on the rows as they are at that moment, while `save()` writes what was loaded, or inserts the row again when it has gone.
`NestWorkspace`: rows are tables from ids to records; a handler's checks leave the list of repository calls it decided on in `req`, and
`Write` performs the next one, cascades and foreign keys of the migrations included; a call that violates a key fails and ends its handler.
A note's create may set several links, all the caller's; its update stores whatever links it is sent (`Links`), as `notes.service.ts:136` does. The history
variable `strayed` has the notes an update was to link to something that was not its caller's (`OwnLink`); the properties say what holds of all others.

### The frontend

Each module keeps the state of a page in the names of its source (`submittingRef` is `submitting`, `titleCommitGuard` is `commitGuard`).
What React and TanStack Query do is modelled as the code relies on it: a flag of a mutation is seen only after a render; `invalidateQueries` cancels
a running fetch if the query has data; a `useMutation` runs only the callbacks of its latest call; a query off the screen is only
marked. The server is what the page needs of it: rows that change when a request is carried out, an answer that arrives later or not at all.

## What is external

InnoDB, tower-sessions, TypeORM, TanStack Query and dnd-kit are not in the repository. Their definitions are marked external and have the
behaviour the code depends on. For InnoDB: an `X` lock excludes others; a locking scan at REPEATABLE READ also locks the gaps of its range, at
READ COMMITTED not; two transactions may hold the same gap; a foreign-key check takes a shared lock on the parent; a blocked
statement may end with 1213 or 1205; a statement gets all its locks at once or waits; gaps are as narrow as the statement
allows (the server locks at least these, and the weaker assumption is the safe one).

## Runs

| run | shows | expect |
|---|---|---|
| `card_positions` | columns stay dense, and positions implement lists, one request at a time | pass |
| `tx_serial` | creates, moves, sorts and move-cards at once, any of them dropped anywhere: commits are atomic requests, and opposite moves never wait in a ring | pass |
| `tx_finishes` | every request is answered | pass |
| `tx_delete` | `delete_card` closes the gap at a stale position | violation |
| `workspace` | one link per note, no dangling links, no board left behind | pass |
| `workspace_tx` | project deletion among creates and moves of boards, tag sets replaced, link targets deleted: commits are atomic requests | pass |
| `sessions` | dead ids stay dead, stored sessions keep their user and role | pass |
| `nest_cards` | overlapping requests keep cards at 0 or above and in columns that exist; a move alone lands where it was dragged; Undo restores | pass |
| `nest_workspace` | what is joined has one owner and listed notes open, except notes that an update was to link to something not its caller's; label names clash only by a race | pass |
| `client_board` | drags, deletes, Undo, sorts and move-alls against late and lost answers: the page converges, and a drag shows what the server makes of it | pass |
| `client_pages` | the nine other pages: the focused field of a card is not overwritten, a note's edits reach the server, a title is saved once per edit and its failure told, dialogs and forms end as they say, and every cache converges | pass |
| `session_expiry` | a 401 leaves the page as signed in | violation |

The two violations are disagreements between the code and a document or comment of the repository, quoted in `PROJECT.json` under
`findings`. Each passing property has a mutant, a plausible slip in one definition (named in a `Mutant:` comment), under which TLC finds it violated.

`tx_serial` delimits where the locking of cards works: without `DELETE /cards/{id}` and moves into empty columns every commit is
a whole request, which is stronger than density: the table moves as if requests came one at a time, in commit order. Column 3 is
empty at the start and fills and empties by creates and move-cards, where the gap locks of REPEATABLE READ suffice.
`NoWaitCycle` is about moves whose card is still in the column the move read it in; other rings exist (a stale move waits for its card out of
order; `create_card` with a position and `delete_card` lock the rows of a column in opposite orders) and are ended by a lock error.

What the client's properties leave out is part of their statement: a lost answer (the page cannot know), and the cases in which the
code does not refetch or cancel: a reorder that succeeded, a `me` answered before a log-in and shown after it. Undo of an
older toast counts in `ConfirmedDeletesHappen` as clearing the newer timer, as the code has it.

### Bounds

- `MCCardPositions`: four cards, three columns. A shift band has a lower end, an inside and an upper end with three cards, and
  the fourth is room for a create. Creation times include a tie; requested positions lie inside, at and beyond the ends.
- `MCCardTx`: three cards and one or two to be created, three columns. Two transactions at a time: a commit is compared with its own
  request, so one other is enough to disturb it, and a ring of waits needs two. `MoveMaxAttempts` is 2: a third attempt starts from the same fresh record as the second.
- `MCWorkspace`: two projects, two boards, a card, a note: the longest cascade, a board that moves and one that stays.
- `MCWorkspaceTx`: two requests in flight, chosen from a named set; an id is created once.
- `MCSessions`: the clock stops at `MaxTime`; three ids let a browser log in, rotate and log in again while an old request is on its way.
- `MCNestCards`: two columns with three cards in any distribution and order, one card and one column more; two requests overlap.
- `MCNestWorkspace`: two users and one row more of most kinds; three requests, two at a time: a check, a deletion in between and a save, and one request before them to set the scene.
  An update may name any board, project and card of either user, or one that is yet to come.
- `MCClient`: per page two or three gestures and one failure (two for the forms); two saves under way are what it takes for one to
  overtake the other, and a third action shows whether the page recovered. The board page has two gestures over three cards in two columns, four cards with a filter's hidden ones.
- Processes, ids, users and tags are symmetric where no liveness is checked.

Rows are never created again under an old id, and users stop after their gestures, so `MCWorkspace`, `MCNestCards`, `MCNestWorkspace` and
`MCClient` end: their configurations say `CHECK_DEADLOCK FALSE`. The others check deadlock.

### Fairness

`CardTx!FairSpec`: weak fairness of each request's own steps. A future that is ready is polled, and InnoDB ends every wait by a grant,
by 1213 or after `innodb_lock_wait_timeout` by 1205 - all steps of the request. New requests and drops are not fair.

`Client!Spec`: weak fairness, while its page is the one on the screen, of each page's network and timers (`Network`, `Clock`,
`ClearDrag`, ...): requests are carried out and answered or fail because the browser ends every connection, timers fire, React renders.
Nothing is assumed of the user, so that a drag that is never dropped, a dialog left open and a field left unblurred are all behaviours.

## Proofs

All are proved for every value of the constants that the modules' named assumptions allow; TLC evaluates those assumptions in the runs.

- `CardPositionsProofs`: `TypeCorrect` (`[]TypeOK`, so no decrement goes below zero), `AlwaysDense` (`[]Dense`), `PositionsAreLists`
  (`ImplementsOrder`, the refinement of `CardOrder`). `Dense` speaks of a cardinality, out of reach for the provers; the invariant `IInv` has the number of
  cards as a witness instead: for every column there is an `n` such that its cards hold `0 .. n-1`, each exactly once. Then each `UPDATE` is linear
  arithmetic. A handler's effect is stated once, row by row (`CreateCardRows`, ...: `CardIn`, `CardOut`, `CardMoved`, `Joined`), and used twice: for the
  numbering (`DenseInsert`, ...) and for the list (`ListedInsert`, ...): a card in or out of a table is `InsertAt` or `RemoveAt` on the list, a move in a
  column is both, a clamped position is the slot nearest to the one asked for, the ranks of a sort are a sorted list, a numbering-on is `\o`.
  No induction is needed: a dense column determines its list slot by slot.
- `CardTxProofs`: `WritersExclude` (`[]TxTypeOK`). The lock discipline (`OneWriter`): a card whose newest version is not committed is locked by its
  writer and nobody else, so a rollback restores and a commit publishes one transaction's work. It rests on
  `WritesWhatItLocks`: every statement, of all eleven, locks each row it changes, because the range an `UPDATE` scans is that of its WHERE clause.
  And positions stay natural, also where a stale delete or an unlocked empty column breaks the dense numbering: what a handler computed from its reads is
  part of the invariant (`Serving`): the spot, counts or maxima of the columns it locked, ranks, and which statement may follow in which request.
  `MAX(position)` exists in any finite column (`Highest`): the card with the fewest above it.
- `CardTxProofs`: `CommitsAreSerial` (`Steady => CommitIsRequest`): every commit changes the rows exactly as its request would alone, for any number of
  transactions, columns and cards and any rows at the start. `Steady` says which requests: no deletes, and into a column a move can enter there is a card that no
  request takes out. Both are needed (`tx_delete`; a move at READ COMMITTED locks nothing in an empty column, `routes.rs:340`), and `MCCardTx` assumes
  `Steady` of the requests of `tx_serial`. The invariant is `CardTxSerial!SerialInv`, which TLC has also checked on that run. A transaction is *sure* of a column once it holds
  its last card, or at REPEATABLE READ the gap of the empty one (`Guards`); two that are sure of one column find it empty, and neither can insert into the other's
  gap (`Exclusive`). So no step of another transaction disturbs what it is sure of (`OthersUndisturbed`), what it has counted and ranked is committed
  (`Counted`, `Placed`), the newest rows of its columns are the committed ones with the statements it has run (`Wrote`), and at its commit that is the request's
  whole action (`CommitCreate`, `CommitMove`, `CommitSort`, `CommitBulk`). From it: `OneByOne`, `CardTx` implements `CardPositions`: a step of the committed
  rows is one of its requests, or none; hence, with the invariant of `CardPositionsProofs`, `StaysDense` (`[]CommittedDense`) and `CommittedLists`
  (`[][Order!Next]`, as for one request at a time), on a board that starts dense.
- `CardTxProofs`: `NoMovesInARing` (`Steady => []NoWaitCycle`), for rings of any length. Beside `SerialInv` it needs what a move holds of other tables: nothing
  before its first lock, and from the read of its spot on the rows of its source column and that board (`CardTxSerial!LockInv`, which TLC has also checked on
  `tx_serial`). So a move that writes waits for no other such move (`WriterWaits`): nobody else has locked cards of its columns, and the row of its target
  column is locked only by moves out of it. One that reads its spot waits at most for a move that writes, on the same board (`SpotWaits`). One that
  still locks columns waits for a move that has locked the column it wants (`LockWaits`); if that one waits too, it wants a higher column, and of finitely many
  such moves the one that holds the highest waits for none (`NoRing`). Column ids are numbers (`RowsAssumption`), as in the table, for the locks are taken
  in their order.
- `WorkspaceProofs`: `TypeCorrect`, `LinkedOnce`, `NoDanglingLink`, `BoardsGo`. `LinksLive` is not inductive: that a deletion takes along all that
  would dangle depends on which kinds of links exist (`Shape`), and is shown for any table before any handler (`EraseStep`, `DeleteProjectStep`).
- `SessionsProofs`: `TypeCorrect`, `Destroyed` (`StaysDestroyed`), `Owner` (`NeverReowned`). Both action properties rest on `Fresh`: between the
  draw of an id and its `INSERT` no row, no cookie and no other request has it.
- `WorkspaceTxProofs`: `WritersExclude` (`[]TypeOK`): rows that are not committed are held by their writer and nobody else, so a rollback, a drop or
  a lost foreign-key target undoes one transaction's work and no other's. Needs that a request's remaining statements are always the end of one of the
  handlers' bodies (`PlanRuns`), and that each kind of statement writes only rows it holds (`InsertWrites`, `UpdateWrites`, `TagWrites`, `DeleteWrites`).
- `NestCardsProofs`: `AlwaysPlaced` (`[]CardsPlaced`), however requests overlap. The invariant `PlacedInv` also speaks of what a handler carries between its
  reads and its writes: rows computed from a table that has changed since still have natural positions, and columns that once existed; the foreign key checks the
  rest at the write.
  `MovesAlwaysLand` (`MovesLand`) is about moves nothing overlapped: `AloneInv` says that then all other requests are idle, the cards are those it began with and
  its rows were computed from them. The rest is the arithmetic of the shift helpers: a column at 0 .. n-1 is a list (`Numbers`); closing the gap is removal from it
  (`TakenOut`), opening one is insertion (`PutIn`), a shifted band is both (`StaysIn`), and a move across is one in each column (`Crosses`).
  `UndoAlwaysRestores` (`UndoRestores`): with the deleted row put back the column still reads as the delete found it (`UndoInv`), the new card's id was never
  used, and a list by position is unique (`OnlyList`, `ShownLists`), so replacing one id by the other gives the list shown.
- `NestWorkspaceProofs`: `OneOwnerAlways`, `ListedNotesAlwaysOpen`, `NamesApartUnlessRaced`. A handler checks, and writes later without a lock, so no
  property of the tables alone is inductive. The invariant says there is a set of claims *row i of table t belongs to user u*, one user per row, that the tables and all
  writes under way agree with (`Agree`): every reference, stored or about to be, is between rows claimed for one user. A row that a cascade or a delete takes away
  keeps its claim, for a stale `save()` may bring it back; an id is claimed for one user for ever. Label names are guarded separately (`NamesGuarded`):
  a name about to be saved is free, or the two requests overlapped. A note in `strayed` is claimed by nobody and may have any links and tags (`Stray`): the first two
  theorems say nothing of it. No other row refers to a note, so nothing else is lost with it.
- `ClientProofs`, the board dialog: `DialogMakesOne`, `NothingAfterDismiss`. One submit runs at a time because `submittingRef` is set exactly as long as it runs;
  the ref of created projects holds exactly those that were made, unless an answer was lost.
- `ClientProofs`, the list view: `SavedOnce`, `NoSilentFailure`. Until React has rendered a save, the commit guard names the open editor; after it, isPending is true:
  one save at a time, hence the callbacks are always its own.
- `ClientProofs`, the sign-in forms: `LandsInside`. What a fetch has read is the session's user, and a registration waits for a fetch until the page has it.
- `ClientProofs`, the card panel: `TypingIsKept`. Of the saves under way only the latest has callbacks, and while it runs its field's saving flag is up, under which
  no field can be in focus (`Heeded`, `PanelInv`): so what a failure puts back is never the text being typed.
- `ClientProofs`, the checklists: `ItemsComeBack`. Rows that the page, a fetch or a snapshot knows have ids handed out before, so nothing asked for before an Undo
  names the row it makes, and nothing after it if the user did nothing (`Kept`): the row is as the first half left it until the second has ticked it.
- `ClientProofs`: `PagesKeepTheirWord`, `PagesDoAsTold`: a step of the client is a step of one page, so the seven properties of these five pages hold of the whole client.

Only model-checked:

- `CommittedDense` and `NoWaitCycle` of `CardTx` where `Steady` does not hold: not true of all requests, which is why `MCCardTx` chooses them. A delete closes its gap at a stale position
  (`tx_delete`); and of two moves into an empty column, which lock nothing at READ COMMITTED, both take position 0 or, after a third filled it, wait in a ring.
- `CommitIsRequest` of `WorkspaceTx`: it compares a commit with the request's action on the rows committed then, and the run enumerates what
  the locks and foreign keys guarantee of them. Of `CardTx` it is proved where `Steady` holds; a delete that races a move breaks it.
- `MoveShowsServer` of the board page: the list a drop shows comes of filters and folds over sequences, which are recursive: induction over data.
- All liveness (`Finishes` and everything that converges), which this prover does not do.

## What the client's properties leave out

Each says in its comment which answers it excuses; taken together:

- `Converges` compares the version of the lists shown with the server's, not the lists: a card that a drop on nothing left under the last hover
  passes, until the next fetch (against `3-3-drag-drop-between-columns.md:25`, above), and so does a reorder that succeeded, which no fetch follows.
- No fetch follows the Undo of a project delete (`ListConverges`), a lost answer of most checklist writes and an Undo whose second half failed (`ItemsConverge`).
- `UndoRestoresItem` holds an Undo to its word only if the user did nothing after it.
- `EditsReachServer` leaves failed saves out; `BoardsConverge` a list left while its fetch ran; `SignInConverges` a me answer older than the log-in or log-out.
- In the list view, nothing says that text in an editor outlives the success of an earlier save: it does not.
- The debounced search of `BoardView` is modelled, but no property speaks of it.

## Met while modelling, without a run of its own

In `backend-rs`:

- two requests for position 0 of one empty column collide: at READ COMMITTED a locking read of no rows locks nothing, so two moves both count no cards,
  against `specs/api-rewrite-rs-specs/50-tasks.md:150`;
- `patch_note` checks the single-link rule on a row it did not lock, so two patches leave two links, against `notes/store.rs:10`;
- the arm for a vanished foreign-key target compares `code()`, which is the SQLSTATE, with 1452 and never matches: a 500, against `boards/store.rs:63`;
- a session in use is not extended (nothing modifies it), against `lib.rs:316`; the sweeper ends at its first database error, against `main.rs:110`;
- `delete_board` decides on an `is_archived` it did not lock, and `delete_column` closes its gap at a position read before the lock, as `delete_card` does;
- a handler dropped between `SET TRANSACTION` and `begin()` leaves an isolation level behind on its connection; the model gives every transaction the level its handler asked for;
- the check for a free session id takes no lock: ids are random, and the model never draws one twice;
- two `me` requests that meet a role change both rotate and leave one live session without an owner; the `Set-Cookie` of a slow 401 may replace that of a newer login;
- two `create-admin` commands at once, and a checklist position at the end of 32 bits.

In `backend`: `update` of a note assigns `board_id`, `project_id` and `card_id` as sent (`notes.service.ts:136-138`), without a look at whether they exist (the foreign
key does that), whose they are, or how many there are; `create` checks the owners and allows several, and `backend-rs` checks all three. So a user can link a note of
theirs to another's board: their list still shows it, `findById` answers 403, and the board's owner may open it and give it tags of their own. `ListedNotesOpen` and
`OneOwner` fail at once without their exception for such notes. Moreover a board a note was loaded with wins over the `board_id` assigned: such a note keeps its board.

Also there: `save()` outside a transaction of a card loaded before a concurrent delete inserts it again (`sort`, `columns.service.ts:160`); a board is saved before its default columns, in separate calls;
deleting a project sets its boards' `project_id` to NULL, against `projects.controller.ts:96` and the text in `project-list.tsx:192`.

In the frontend: a drop on nothing keeps the last hover on the screen, against `3-3-drag-drop-between-columns.md:25`; a reorder under a filter moves another distance than
was seen; Undo of an older note toast clears the newer timer, against `4-6-notes-system.md:176`; permanent delete is sent twice, against
`2-2-board-archiving.md:157`; a cleared description is sent as `undefined` and stays (`card-detail-panel.tsx:130`), against `4-1-card-detail-panel.md:221`; an untouched
title editor of the list view puts an old title back when its row changed; the success of a title's first save closes whatever editor is open by then
(`board-list-view.tsx:110`), and what was typed there is lost; log-out keeps the caches of the pages; the tag picker adds to the tags it was rendered with;
the due-date memo does not notice midnight.

## Not modelled

- Contents and wording of rows, colours, list pages and paging, password hashing, throttling, CSP, metrics, configuration, rendering of errors, request
  validation: pure or single-row, with nothing for an interleaving to break.
- `backend-rs`: column CRUD (positions follow the pattern of cards), checklists, labels and card labels (modelled on the NestJS side, whose rules they share), the admin command.
- Frontend: pickers, tags, labels, column headers, previews (one request per click with an invalidation after it), ui primitives, theme, layout, generated types, Markdown.
- Crash and restart: MySQL's own recovery is outside the repository, and what these models are about is all in tables and in the browser; a process
  that dies in the middle of a request is, for the tables, a request that was dropped (`Abandon`).

## Where it could go on

`ColumnTx` (columns created and deleted while cards move, with the stale gap of `delete_column`); the Rust checklists with their 32-bit `MAX + 1`;
a proof of `CommittedDense` from `OneWriter` and the range locks; the refinement of `CardOrder` in terms of relative order, which needs no recursive operator.
