------------------------- MODULE WorkspaceTxProofs -------------------------
(***************************************************************************)
(* The lock discipline of the transactions on projects, boards and notes,  *)
(* for any rows and tags, any requests and any number of them at a time:   *)
(* what differs from the committed rows is locked by the one transaction   *)
(* that wrote it, cascades and replaced tag sets included.                 *)
(*                                                                         *)
(* What has to be known of a statement is that it keeps the rows in shape  *)
(* and locks every row and every tag set it changes (Writes).  That needs  *)
(* to be known of the request a process serves: a statement is one of its  *)
(* request's plan, so its operands are a row and a body of that kind.      *)
(***************************************************************************)
EXTENDS WorkspaceTx, TLAPS

Store == [Atomic!Rows -> Atomic!Row \cup {Unborn, Gone}]
TagStore == [Notes -> SUBSET Tags]

Steps == {"insert", "update", "clear", "link", "boards", "remove"}

(* The requests that run a statement. *)
Runs(r, step) ==
  /\ step = "insert" => r.op = "create"
  /\ step = "update" => r.op = "patch"
  /\ step = "clear" => r.op = "patch"
  /\ step = "link" => r.tags \in SUBSET Tags
  /\ step \in {"boards", "remove"} => r.op = "delete"

Serving(t) ==
  \/ t.pc = "idle"
  \/ /\ t \in [pc : {"read", "run"}, request : Requests, todo : Seq(Steps)]
     /\ \A i \in 1 .. Len(t.todo) : Runs(t.request, t.todo[i])

Tables ==
  /\ row \in Store /\ newRow \in Store
  /\ tags \in TagStore /\ newTags \in TagStore

Triples == \A l \in locks : l = << l[1], l[2], l[3] >>

Writers ==
  /\ \A r \in Atomic!Rows : row[r] # newRow[r] => \E p \in Procs : r \in Held(p)
  /\ \A n \in Notes : tags[n] # newTags[n] => \E p \in Procs : TagsOf(n) \in Held(p)
  /\ \A p, q \in Procs : p # q => Held(p) \cap Held(q) = {}

IInv ==
  /\ Tables /\ Triples /\ Writers
  /\ tx = [p \in Procs |-> tx[p]]
  /\ \A p \in Procs : Serving(tx[p])

-----------------------------------------------------------------------------
(* Rows. *)

LEMMA LiveRow ==
  ASSUME NEW store \in Store, NEW r \in Atomic!Rows
  PROVE  Atomic!Live(store, r) <=> store[r] \in Atomic!Row
BY RowsAssumption DEF Store, Atomic!Live

LEMMA PatchedRow ==
  ASSUME NEW old \in Atomic!Row, NEW links \in Bodies, NEW archived \in BOOLEAN \cup {None}
  PROVE  Atomic!Patched(old, links, archived) \in Atomic!Row
<1> DEFINE new == Atomic!Patched(old, links, archived)
<1>1. PICK kinds \in SUBSET Atomic!Kinds : links \in Atomic!Bodies(kinds)
  BY DEF Bodies
<1>2. /\ DOMAIN links = kinds
      /\ \A kind \in kinds : links[kind] \in Atomic!Target[kind] \cup {None}
  BY <1>1 DEF Atomic!Bodies
<1>3. DOMAIN old = Atomic!Kinds \cup {"archived"}
  BY DEF Atomic!Row, Atomic!Kinds
<1>4. \A kind \in Atomic!Kinds : new[kind] = IF kind \in kinds THEN links[kind] ELSE old[kind]
  BY <1>2, <1>3 DEF Atomic!Patched, Atomic!Kinds
<1>5. \A kind \in Atomic!Kinds : new[kind] \in Atomic!Target[kind] \cup {None}
  BY <1>2, <1>4 DEF Atomic!Row, Atomic!Kinds, Atomic!Target
<1>6. new["archived"] \in BOOLEAN
  BY <1>1, <1>2, <1>3 DEF Atomic!Patched, Atomic!Kinds, Atomic!Row
<1>7. new = [project |-> new["project"], board |-> new["board"],
             card |-> new["card"], archived |-> new["archived"]]
  BY <1>3 DEF Atomic!Patched, Atomic!Kinds
<1> QED
  BY <1>5, <1>6, <1>7 DEF Atomic!Row, Atomic!Kinds, Atomic!Target

(* A deletion changes the rows it cascades to and those it detaches. *)
LEMMA RemovedRows ==
  ASSUME NEW store \in Store, NEW gone \in SUBSET Atomic!Rows
  PROVE  /\ Atomic!Removed(store, gone) \in Store
         /\ \A r \in Atomic!Rows :
              Atomic!Removed(store, gone)[r] # store[r]
                => r \in Atomic!Cascade(store, gone) \cup Atomic!Detached(store, gone)
<1>1. \A r \in Atomic!Detached(store, gone) :
        r \in Atomic!Rows /\ [store[r] EXCEPT !.project = None] \in Atomic!Row
  <2> SUFFICES ASSUME NEW r \in Atomic!Detached(store, gone)
               PROVE  r \in Atomic!Rows /\ [store[r] EXCEPT !.project = None] \in Atomic!Row
    OBVIOUS
  <2>1. r \in Atomic!Rows /\ Atomic!Live(store, r)
    BY DEF Atomic!Detached, Atomic!Rows
  <2>2. store[r] \in Atomic!Row
    BY <2>1, LiveRow
  <2> QED
    BY <2>1, <2>2 DEF Atomic!Row
<1> QED
  BY <1>1 DEF Atomic!Removed, Store

-----------------------------------------------------------------------------
(* A statement keeps the tables in shape and locks what it changes. *)

Writes(s) ==
  /\ s.row \in Store /\ s.tags \in TagStore
  /\ \A r \in Atomic!Rows : s.row[r] # newRow[r] => r \in s.writes
  /\ \A n \in Notes : s.tags[n] # newTags[n] => TagsOf(n) \in s.writes

LEMMA InsertWrites ==
  ASSUME Tables, NEW p \in Procs, Request(p) \in Requests, Request(p).op = "create"
  PROVE  Writes(InsertRow(p))
<1> DEFINE r == Request(p)
           new == Atomic!Patched(Atomic!Unlinked, r.links, None)
<1>1. Atomic!Unlinked \in Atomic!Row
  BY DEF Atomic!Unlinked, Atomic!Row
<1>2. new \in Atomic!Row
  BY <1>1, PatchedRow, RequestsAssumption
<1>3. r.row \in Atomic!Rows
  BY RequestsAssumption
<1> HIDE DEF new
<1> QED
  BY <1>2, <1>3 DEF InsertRow, Statement, Writes, Tables, Store, new

LEMMA UpdateWrites ==
  ASSUME Tables, NEW p \in Procs, Request(p) \in Requests, Request(p).op = "patch"
  PROVE  Writes(ApplyPatch(p))
<1> DEFINE r == Request(p)
           new == Atomic!Patched(newRow[r.row], r.links, r.archived)
<1>1. r.row \in Atomic!Rows /\ r.links \in Bodies /\ r.archived \in BOOLEAN \cup {None}
  BY RequestsAssumption
<1>2. CASE Atomic!Live(newRow, r.row)
  <2>1. newRow[r.row] \in Atomic!Row
    BY <1>1, <1>2, LiveRow DEF Tables
  <2>2. new \in Atomic!Row
    BY <1>1, <2>1, PatchedRow
  <2> HIDE DEF new
  <2>3. [newRow EXCEPT ![r.row] = new] \in Store
    BY <1>1, <2>2 DEF Tables, Store
  <2> QED
    BY <1>1, <1>2, <2>3 DEF ApplyPatch, Statement, Writes, Tables, Store, new
<1>3. CASE ~Atomic!Live(newRow, r.row)
  BY <1>3 DEF ApplyPatch, Statement, Writes, Tables
<1> QED
  BY <1>2, <1>3

LEMMA TagWrites ==
  ASSUME Tables, NEW p \in Procs, Request(p) \in Requests
  PROVE  /\ Writes(ClearNoteTags(p))
         /\ Request(p).tags \in SUBSET Tags => Writes(LinkNoteTags(p))
<1> DEFINE n == Request(p).row
<1>1. Writes(ClearNoteTags(p))
  <2>1. n \in Notes /\ newTags[n] # {} => TagsOf(n) \in TagRows(n)
    BY DEF TagRows
  <2> QED
    BY <2>1 DEF ClearNoteTags, Statement, Writes, Tables, TagStore
<1>2. ASSUME Request(p).tags \in SUBSET Tags
      PROVE  Writes(LinkNoteTags(p))
  BY <1>2 DEF LinkNoteTags, Statement, Writes, Tables, TagStore
<1> QED
  BY <1>1, <1>2

(* What cascades from the newest rows is met by the scan, and its tags. *)
LEMMA DeleteWrites ==
  ASSUME Tables, NEW deleted \in SUBSET Atomic!Rows, NEW ranges
  PROVE  Writes(DeleteRows(deleted, ranges))
<1> DEFINE there == {r \in deleted : Atomic!Live(newRow, r)}
           touched(t) == Atomic!Cascade(t, there) \cup Atomic!Detached(t, there)
           met == UNION {touched(t) : t \in {row, newRow}}
           writes == deleted \cup met \cup UNION {TagRows(n) : n \in Notes \cap met}
           rows == Atomic!Removed(newRow, there)
           tagsOf == Atomic!TagsRemoved(newTags, Atomic!Cascade(newRow, there))
<1>1. DeleteRows(deleted, ranges) = Statement(writes, {}, ranges, {}, rows, tagsOf)
  BY DEF DeleteRows
<1>2. there \in SUBSET Atomic!Rows
  OBVIOUS
<1>3. touched(newRow) \subseteq met /\ met \subseteq writes
  OBVIOUS
<1>4. rows \in Store /\ \A r \in Atomic!Rows : rows[r] # newRow[r] => r \in touched(newRow)
  BY <1>2, RemovedRows DEF Tables
<1>5. tagsOf \in TagStore
  BY DEF Atomic!TagsRemoved, Tables, TagStore
<1>6. ASSUME NEW n \in Notes, tagsOf[n] # newTags[n]
      PROVE  TagsOf(n) \in writes
  <2>1. n \in Atomic!Cascade(newRow, there) /\ newTags[n] # {}
    BY <1>6 DEF Atomic!TagsRemoved
  <2>2. n \in met
    BY <1>3, <2>1
  <2>3. TagsOf(n) \in TagRows(n)
    BY <2>1 DEF TagRows
  <2> HIDE DEF met
  <2> QED
    BY <2>2, <2>3
<1> HIDE DEF writes, met, touched, rows, tagsOf
<1> QED
  BY <1>1, <1>3, <1>4, <1>5, <1>6 DEF Statement, Writes

LEMMA PendingWrites ==
  ASSUME IInv, NEW p \in Procs, Running(p)
  PROVE  Writes(Pending(p))
<1> DEFINE next == Head(tx[p].todo)
           r == Request(p)
<1>1. /\ tx[p] \in [pc : {"read", "run"}, request : Requests, todo : Seq(Steps)]
      /\ \A i \in 1 .. Len(tx[p].todo) : Runs(tx[p].request, tx[p].todo[i])
  BY DEF IInv, Serving, Running
<1>2. next \in Steps /\ Runs(r, next) /\ r \in Requests
  BY <1>1 DEF Running, Request
<1>3. Tables /\ r.row \in Atomic!Rows
  BY <1>2, RequestsAssumption DEF IInv
<1> HIDE DEF next
<1>4. CASE next = "insert"
  BY <1>2, <1>3, <1>4, InsertWrites DEF Pending, Runs, next
<1>5. CASE next = "update"
  BY <1>2, <1>3, <1>5, UpdateWrites DEF Pending, Runs, next
<1>6. CASE next = "clear"
  BY <1>2, <1>3, <1>6, TagWrites DEF Pending, next
<1>7. CASE next = "link"
  BY <1>2, <1>3, <1>7, TagWrites DEF Pending, Runs, next
<1>8. CASE next = "boards"
  <2>1. BoardsMet(r.row) \in SUBSET Atomic!Rows
    BY DEF BoardsMet, Atomic!BoardsIn, Atomic!Rows
  <2> QED
    BY <1>3, <1>8, <2>1, DeleteWrites DEF Pending, DeleteProjectBoards, next
<1>9. CASE next = "remove"
  BY <1>3, <1>9, DeleteWrites DEF Pending, DeleteRow, next
<1> QED
  BY <1>2, <1>4, <1>5, <1>6, <1>7, <1>8, <1>9 DEF Steps

-----------------------------------------------------------------------------
(* The steps of a transaction. *)

(* A process that turns to another request or to none. *)
LEMMA TxFrame ==
  ASSUME IInv, NEW p \in Procs, NEW t, Serving(t), tx' = [tx EXCEPT ![p] = t]
  PROVE  /\ tx' = [q \in Procs |-> tx'[q]]
         /\ \A q \in Procs : Serving(tx'[q])
BY DEF IInv

LEMMA HeldKeys ==
  ASSUME Triples
  PROVE  \A p, k : k \in Held(p) <=> << p, k, "X" >> \in locks
BY DEF Held, Triples

LEMMA HeldFrame ==
  ASSUME UNCHANGED locks
  PROVE  \A p \in Procs : Held(p)' = Held(p)
BY DEF Held

LEMMA Released ==
  ASSUME NEW p \in Procs, Release(p)
  PROVE  /\ Held(p)' = {}
         /\ \A q \in Procs \ {p} : Held(q)' = Held(q)
BY DEF Held, Release

LEMMA EndWriters ==
  ASSUME IInv, NEW p \in Procs, Commit(p) \/ \E answer : Rollback(p, answer)
  PROVE  Tables' /\ Triples' /\ Writers'
<1>1. Held(p)' = {} /\ \A q \in Procs \ {p} : Held(q)' = Held(q)
  BY Released DEF Rollback, Commit
<1>2. Tables'
  BY DEF IInv, Tables, Store, TagStore, Rollback, Commit, table, newest
<1>3. /\ \A r \in Atomic!Rows : row'[r] # newRow'[r] => r \notin Held(p) /\ row[r] # newRow[r]
      /\ \A n \in Notes : tags'[n] # newTags'[n]
                            => TagsOf(n) \notin Held(p) /\ tags[n] # newTags[n]
  BY DEF IInv, Tables, Store, TagStore, Rollback, Commit, table, newest
<1>4. /\ \A r \in Atomic!Rows : row'[r] # newRow'[r] => \E q \in Procs : r \in Held(q)'
      /\ \A n \in Notes : tags'[n] # newTags'[n] => \E q \in Procs : TagsOf(n) \in Held(q)'
  BY <1>1, <1>3 DEF IInv, Writers
<1>5. \A q, o \in Procs : q # o => Held(q)' \cap Held(o)' = {}
  BY <1>1 DEF IInv, Writers
<1>6. Triples'
  BY DEF IInv, Triples, Rollback, Commit, Release
<1> QED
  BY <1>2, <1>4, <1>5, <1>6 DEF Writers

LEMMA EndInv ==
  ASSUME IInv, NEW p \in Procs, Commit(p) \/ \E answer : Rollback(p, answer)
  PROVE  IInv'
<1>1. PICK answer : tx' = [tx EXCEPT ![p] = Idle(answer)]
  BY DEF Commit, Rollback
<1>2. Serving(Idle(answer))
  BY DEF Serving, Idle
<1> QED
  BY <1>1, <1>2, TxFrame, EndWriters DEF IInv

LEMMA ExecuteInv ==
  ASSUME IInv, NEW p \in Procs, Execute(p)
  PROVE  IInv'
<1> DEFINE s == Pending(p)
<1>1. Writes(s)
  BY PendingWrites DEF Execute
<1>2. /\ Grantable(p, s)
      /\ newRow' = s.row /\ newTags' = s.tags
      /\ locks' = locks \cup {<< p, k, "X" >> : k \in s.writes}
                        \cup {<< p, k, "S" >> : k \in s.reads}
      /\ tx' = [tx EXCEPT ![p].todo = Tail(@)]
      /\ UNCHANGED table
  BY DEF Execute
<1> HIDE DEF s
<1>3. Triples /\ Triples'
  BY <1>2 DEF IInv, Triples
<1>4. /\ \A o, k : k \in Held(o) <=> << o, k, "X" >> \in locks
      /\ \A o, k : k \in Held(o)' <=> << o, k, "X" >> \in locks'
  <2>1. \A o, k : k \in Held(o) <=> << o, k, "X" >> \in locks
    BY <1>3, HeldKeys
  <2>2. ASSUME NEW o, NEW k
        PROVE  k \in Held(o)' <=> << o, k, "X" >> \in locks'
    <3>1. \A l \in locks' : l = << l[1], l[2], l[3] >>
      BY <1>3 DEF Triples
    <3> QED
      BY <3>1 DEF Held
  <2> QED
    BY <2>1, <2>2
<1>11. \A k : k \in Held(p)' <=> k \in Held(p) \/ k \in s.writes
  BY <1>2, <1>4
<1>12. \A q \in Procs \ {p} : \A k : /\ k \in Held(q)' <=> k \in Held(q)
                                     /\ k \in Held(q) => k \notin s.writes
  BY <1>2, <1>4 DEF Grantable, InTheWay
<1>5. Tables'
  BY <1>1, <1>2 DEF IInv, Tables, Writes, table
<1>6. /\ \A r \in Atomic!Rows : row'[r] # newRow'[r] => r \in s.writes \/ row[r] # newRow[r]
      /\ \A n \in Notes : tags'[n] # newTags'[n]
                            => TagsOf(n) \in s.writes \/ tags[n] # newTags[n]
  BY <1>1, <1>2 DEF Writes, table
<1>7. Writers'
  <2>1. /\ \A r \in Atomic!Rows : row'[r] # newRow'[r] => \E q \in Procs : r \in Held(q)'
        /\ \A n \in Notes : tags'[n] # newTags'[n] => \E q \in Procs : TagsOf(n) \in Held(q)'
    BY <1>11, <1>12, <1>6 DEF IInv, Writers
  <2>2. \A q, o \in Procs : q # o => Held(q)' \cap Held(o)' = {}
    BY <1>11, <1>12 DEF IInv, Writers
  <2> QED
    BY <2>1, <2>2 DEF Writers
<1>8. /\ tx[p] \in [pc : {"read", "run"}, request : Requests, todo : Seq(Steps)]
      /\ \A i \in 1 .. Len(tx[p].todo) : Runs(tx[p].request, tx[p].todo[i])
      /\ tx[p].todo # << >>
  BY DEF IInv, Serving, Execute, Running
<1> DEFINE t == [tx[p] EXCEPT !.todo = Tail(@)]
<1>9. Serving(t)
  <2>1. Tail(tx[p].todo) \in Seq(Steps)
    BY <1>8
  <2>2. \A i \in 1 .. Len(Tail(tx[p].todo)) : Runs(tx[p].request, Tail(tx[p].todo)[i])
    BY <1>8
  <2> QED
    BY <1>8, <2>1, <2>2 DEF Serving
<1>10. tx' = [tx EXCEPT ![p] = t]
  BY <1>2
<1> HIDE DEF t
<1> QED
  BY <1>3, <1>5, <1>7, <1>9, <1>10, TxFrame DEF IInv

(* The plan of a request is made of statements the request runs. *)
LEMMA PlanRuns ==
  ASSUME NEW r \in Requests
  PROVE  /\ Plan(r) \in Seq(Steps)
         /\ \A i \in 1 .. Len(Plan(r)) : Runs(r, Plan(r)[i])
<1> DEFINE Fits(q) == q \in Seq(Steps) /\ \A i \in 1 .. Len(q) : Runs(r, q[i])
<1>1. Fits(<< >>)
  OBVIOUS
<1>2. ASSUME NEW a \in Steps, Runs(r, a)
      PROVE  Fits(<< a >>)
  BY <1>2
<1>3. ASSUME NEW a \in Steps, NEW b \in Steps, Runs(r, a), Runs(r, b)
      PROVE  Fits(<< a, b >>)
  BY <1>3
<1>4. ASSUME NEW u, NEW v, Fits(u), Fits(v)
      PROVE  Fits(u \o v)
  <2>1. u \o v \in Seq(Steps) /\ Len(u \o v) = Len(u) + Len(v)
    BY <1>4
  <2>2. ASSUME NEW i \in 1 .. Len(u \o v)
        PROVE  Runs(r, (u \o v)[i])
    <3>1. CASE i <= Len(u)
      BY <1>4, <2>1, <3>1
    <3>2. CASE i > Len(u)
      <4>1. (u \o v)[i] = v[i - Len(u)] /\ i - Len(u) \in 1 .. Len(v)
        BY <1>4, <2>1, <3>2
      <4> QED
        BY <1>4, <4>1
    <3> QED
      BY <1>4, <2>1, <3>1, <3>2
  <2> QED
    BY <2>1, <2>2
<1>5. Fits(Plan(r))
  <2> HIDE DEF Fits
  <2>0. {"insert", "link", "update", "clear", "boards", "remove"} \subseteq Steps
    BY DEF Steps
  <2>1. CASE r.op = "create"
    <3>1. r.tags \in SUBSET Tags /\ r.row \in Boards \cup Notes
      BY <2>1, RequestsAssumption
    <3>2. Runs(r, "insert") /\ (r.tags # {} => Runs(r, "link"))
      BY <2>1, <3>1 DEF Runs
    <3>3. Plan(r) = IF r.tags = {} THEN << "insert" >> ELSE << "insert", "link" >>
      BY <2>1 DEF Plan
    <3> QED
      BY <1>2, <1>3, <2>0, <3>2, <3>3
  <2>2. CASE r.op = "delete"
    <3>1. Runs(r, "remove") /\ (r.row \in Projects => Runs(r, "boards"))
      BY <2>2 DEF Runs
    <3>2. Plan(r) = IF r.row \in Projects THEN << "boards", "remove" >> ELSE << "remove" >>
      BY <2>2 DEF Plan
    <3> QED
      BY <1>2, <1>3, <2>0, <3>1, <3>2
  <2>3. CASE r.op = "patch"
    <3>1. PICK first \in {<< >>, << "update" >>},
               rest \in {<< >>, << "clear" >>, << "clear", "link" >>} :
            /\ Plan(r) = first \o rest
            /\ rest # << >> => r.tags # None
      BY <2>3 DEF Plan
    <3>2. r.tags # None => r.tags \in SUBSET Tags
      BY <2>3, RequestsAssumption
    <3>3. Runs(r, "update") /\ (r.tags # None => Runs(r, "clear") /\ Runs(r, "link"))
      BY <2>3, <3>2 DEF Runs
    <3>4. Fits(first)
      BY <1>1, <1>2, <2>0, <3>3
    <3>5. Fits(rest)
      BY <1>1, <1>2, <1>3, <2>0, <3>1, <3>3
    <3> QED
      BY <1>4, <3>1, <3>4, <3>5
  <2> QED
    BY <2>1, <2>2, <2>3, RequestsAssumption
<1> QED
  BY <1>5

LEMMA BeginInv ==
  ASSUME IInv, NEW p \in Procs, NEW r \in Requests, Begin(p, r)
  PROVE  IInv'
<1>1. PICK pc \in {"read", "run"} :
        tx' = [tx EXCEPT ![p] = [pc |-> pc, request |-> r, todo |-> Plan(r)]]
  BY DEF Begin
<1>2. Serving([pc |-> pc, request |-> r, todo |-> Plan(r)])
  BY PlanRuns DEF Serving
<1> QED
  BY <1>1, <1>2, TxFrame, HeldFrame DEF IInv, Begin, Tables, Writers, Triples, table, newest

LEMMA ReadInv ==
  ASSUME IInv, NEW p \in Procs, Read(p)
  PROVE  IInv'
<1> DEFINE t == IF Verdict(Request(p)) = 200 THEN [tx[p] EXCEPT !.pc = "run"]
                ELSE Idle(Verdict(Request(p)))
<1>1. tx' = [tx EXCEPT ![p] = t] /\ UNCHANGED << table, newest, locks >>
  BY DEF Read
<1>2. /\ tx[p] \in [pc : {"read", "run"}, request : Requests, todo : Seq(Steps)]
      /\ \A i \in 1 .. Len(tx[p].todo) : Runs(tx[p].request, tx[p].todo[i])
  BY DEF IInv, Serving, Read
<1>3. Serving(t)
  BY <1>2 DEF Serving, Idle
<1> HIDE DEF t
<1> QED
  BY <1>1, <1>3, TxFrame, HeldFrame DEF IInv, Tables, Writers, Triples, table, newest

-----------------------------------------------------------------------------
LEMMA InitInv == Init => IInv
<1> SUFFICES ASSUME Init PROVE IInv
  OBVIOUS
<1>1. Tables
  BY InitAssumption DEF Init, Tables, Store, TagStore
<1>2. Triples /\ Writers
  BY DEF Init, Triples, Writers, Held
<1>3. \A p \in Procs : Serving(tx[p])
  BY DEF Init, Serving, Idle
<1> QED
  BY <1>1, <1>2, <1>3 DEF Init, IInv

LEMMA NextInv == IInv /\ [Next]_vars => IInv'
<1> SUFFICES ASSUME IInv, [Next]_vars PROVE IInv'
  OBVIOUS
<1>1. CASE UNCHANGED vars
  BY <1>1, HeldFrame DEF vars, IInv, Tables, Triples, Writers, table, newest
<1>2. ASSUME NEW p \in Procs,
             \/ \E r \in Requests : Begin(p, r)
             \/ Read(p) \/ Execute(p) \/ Commit(p)
             \/ ForeignKeyError(p) \/ ProjectNotFound(p) \/ LockError(p) \/ Abandon(p)
      PROVE  IInv'
  BY <1>2, BeginInv, ReadInv, ExecuteInv, EndInv
     DEF ForeignKeyError, ProjectNotFound, LockError, Abandon
<1> QED
  BY <1>1, <1>2 DEF Next

(* Rows and tag sets keep their shape, and whatever differs from the       *)
(* committed rows is locked by one transaction only, however the requests  *)
(* of boards/, notes/ and projects/routes.rs interleave, fail, wait or are *)
(* dropped: a rollback restores and a commit publishes one request's work. *)
THEOREM WritersExclude == Spec => []TypeOK
<1>1. IInv => TypeOK
  BY DEF IInv, Tables, Writers, Store, TagStore, TypeOK
<1> QED
  BY <1>1, InitInv, NextInv, PTL DEF Spec
=============================================================================
