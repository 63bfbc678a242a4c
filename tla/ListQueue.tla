----------------------------- MODULE ListQueue -----------------------------
(***************************************************************************)
(* The queue of Tema_1/lib/queue.c: a linked list of the cells of list.c   *)
(* with a head and a tail.  cells holds the cells that are allocated;      *)
(* malloc may return any other one.  After the last cell is freed tail     *)
(* still points to it.                                                     *)
(***************************************************************************)
EXTENDS Integers, Sequences, FiniteSets

CONSTANTS Cell, NULL

ASSUME ListAssumption == NULL \notin Cell

Free(list) == Cell \ DOMAIN list.cells

create_queue == [head |-> NULL, tail |-> NULL, cells |-> [c \in {} |-> NULL]]

queue_empty(list) == list.head = NULL

\* The cells with one more at c, which constr returned.
constr(cells, c, element) ==
  [a \in DOMAIN cells \cup {c} |->
     IF a = c THEN [element |-> element, next |-> NULL] ELSE cells[a]]

\* Mutant: the queue is taken for empty when tail is NULL.
EnqByTail(list, element, c) ==
  IF list.tail = NULL
  THEN [head |-> c, tail |-> c, cells |-> constr(list.cells, c, element)]
  ELSE [list EXCEPT !.tail = c,
                    !.cells = constr([list.cells EXCEPT ![list.tail].next = c], c, element)]

queue_enq(list, element, c) ==
  IF queue_empty(list)
  THEN [head |-> c, tail |-> c, cells |-> constr(list.cells, c, element)]
  ELSE [list EXCEPT !.tail = c,
                    !.cells = constr([list.cells EXCEPT ![list.tail].next = c], c, element)]

\* cdr_and_free of the head.
queue_deq(list) ==
  [list EXCEPT !.head = list.cells[list.head].next,
               !.cells = [a \in DOMAIN list.cells \ {list.head} |-> list.cells[a]]]

\* The cells of path lead from the head to the tail, no cell is leaked, and they
\* hold s.
Leads(list, path, s) ==
  /\ DOMAIN path = DOMAIN s
  /\ {path[k] : k \in DOMAIN path} = DOMAIN list.cells
  /\ \A k, l \in DOMAIN path : path[k] = path[l] => k = l
  /\ list.head = IF s = <<>> THEN NULL ELSE path[1]
  /\ s # <<>> => list.tail = path[Len(s)]
  /\ \A k \in DOMAIN path :
       list.cells[path[k]] = [element |-> s[k],
                              next |-> IF k = Len(s) THEN NULL ELSE path[k + 1]]

Holds(list, s) == \E path \in [1 .. Len(s) -> DOMAIN list.cells] : Leads(list, path, s)
=============================================================================
