----------------------------- MODULE CardOrder -----------------------------
(***************************************************************************)
(* What a board promises its user: every column is a list of cards.  A     *)
(* request takes a card out of a list, puts one into a list at the place   *)
(* asked for, or rearranges or concatenates lists; every card it does not  *)
(* name keeps its place relative to its neighbours.  There are no          *)
(* positions here, so nothing can collide or leave a hole: CardPositions   *)
(* and CardTx are shown to implement this.                                 *)
(***************************************************************************)
EXTENDS Integers, SequencesExt

CONSTANTS Cards, Columns, BoardOf, CreatedAt, Requested, Absent

VARIABLES
  order,    (* the list of each column                    *)
  issued    (* the card ids handed out so far, dead or not *)

vars == << order, issued >>

Holds(c, k) == k \in ToSet(order[c])

IndexOf(c, k) == CHOOSE i \in DOMAIN order[c] : order[c][i] = k

(* A place in a list with n slots 0 .. n-1, nearest to the one asked for. *)
Nearest(requested, n) ==
  CHOOSE p \in 0 .. (n - 1) :
    \A q \in 0 .. (n - 1) :
      LET distance(x) == IF x < requested THEN requested - x ELSE x - requested
      IN distance(p) <= distance(q)

(* list with k at the (zero-based) slot nearest to requested, or at its end *)
Placed(list, k, requested) ==
  IF requested = Absent
  THEN Append(list, k)
  ELSE InsertAt(list, Nearest(requested, Len(list) + 1) + 1, k)

Without(c, k) == RemoveAt(order[c], IndexOf(c, k))

(* created_at ASC or DESC, the older id first among equals. *)
Before(j, k, desc) ==
  \/ CreatedAt[j] = CreatedAt[k] /\ j < k
  \/ IF desc THEN CreatedAt[j] > CreatedAt[k] ELSE CreatedAt[j] < CreatedAt[k]

-----------------------------------------------------------------------------
Init ==
  /\ order = [c \in Columns |-> << >>]
  /\ issued = {}

Create(k, c, requested) ==
  /\ k \notin issued
  /\ order' = [order EXCEPT ![c] = Placed(@, k, requested)]
  /\ issued' = issued \cup {k}

Move(k, source, target, requested) ==
  /\ Holds(source, k)
  /\ source = target => requested # Absent
  /\ order' = IF source = target
              THEN [order EXCEPT ![source] = Placed(Without(source, k), k, requested)]
              ELSE [order EXCEPT ![source] = Without(source, k),
                                 ![target] = Placed(@, k, requested)]
  /\ UNCHANGED issued

Delete(c, k) ==
  /\ Holds(c, k)
  /\ order' = [order EXCEPT ![c] = Without(c, k)]
  /\ UNCHANGED issued

Sort(c, desc) ==
  /\ \E list \in Bijection(DOMAIN order[c], ToSet(order[c])) :
       /\ \A i, j \in DOMAIN list : i < j => Before(list[i], list[j], desc)
       /\ order' = [order EXCEPT ![c] = list]
  /\ UNCHANGED issued

Concatenate(source, target) ==
  /\ source # target
  /\ BoardOf[source] = BoardOf[target]
  /\ order' = [order EXCEPT ![target] = @ \o order[source], ![source] = << >>]
  /\ UNCHANGED issued

Next ==
  \/ \E k \in Cards, c \in Columns, r \in Requested \cup {Absent} : Create(k, c, r)
  \/ \E k \in Cards, s, t \in Columns, r \in Requested \cup {Absent} : Move(k, s, t, r)
  \/ \E k \in Cards, c \in Columns : Delete(c, k)
  \/ \E c \in Columns, desc \in BOOLEAN : Sort(c, desc)
  \/ \E s, t \in Columns : Concatenate(s, t)

Spec == Init /\ [][Next]_vars
=============================================================================
