------------------------------ MODULE AllocList ------------------------------
(* fs/gc.c on the lists of fs/list.h: allocations that are nodes of a ring,   *)
(* doubly linked through its head, so that all can be freed at once.  Marks,  *)
(* sizes and trace strings are left out.  Broken... operators are plausible   *)
(* bugs, used by the mutation checks of PROJECT.json only.                    *)
EXTENDS Integers, FiniteSets

CONSTANTS
  Nodes,      \* bound: the addresses there are
  List        \* the gc_list_t

ASSUME AllocAssumption == IsFiniteSet(Nodes) /\ List \notin Nodes

VARIABLES
  ring,    \* next and prev of every address
  nodes,   \* the nodes that are allocated
  heads,   \* those whose client was given the node itself, not the data behind its links
  spoilt   \* whether nobody knows any more what the memory holds

allocVars == <<ring, nodes, heads, spoilt>>

Cells == Nodes \union {List}

\* INIT_LIST_HEAD(); what memory that is not allocated holds does not matter.
AllocInit ==
  /\ nodes = {} /\ heads = {} /\ spoilt = FALSE
  /\ ring = [next |-> [c \in Cells |-> List], prev |-> [c \in Cells |-> List]]

list_add(r, n, head) ==
  [next |-> [r.next EXCEPT ![n] = r.next[head], ![head] = n],
   prev |-> [r.prev EXCEPT ![n] = head, ![r.next[head]] = n]]

BrokenListDel(r, n) == [r EXCEPT !.next[r.prev[n]] = r.next[n]]
list_del(r, n) ==
  [r EXCEPT !.prev[r.next[n]] = r.prev[n], !.next[r.prev[n]] = r.next[n]]

\* Memory is read, written or freed that is not the call's.
Spoils == spoilt' = TRUE /\ UNCHANGED <<ring, nodes, heads>>

\* gc_malloc() and the functions that call it: calloc, strdup, strndup, memclone.
gc_malloc ==
  \E n \in Nodes \ nodes :
    /\ nodes' = nodes \union {n}
    /\ ring' = list_add(ring, n, List)
    /\ UNCHANGED <<heads, spoilt>>

gc_free(n) ==
  /\ n \in nodes \ heads
  /\ nodes' = nodes \ {n}
  /\ ring' = list_del(ring, n)
  /\ UNCHANGED <<heads, spoilt>>

\* Even where realloc() finds the room, the client is given the node itself.  If it
\* moves the node, its neighbours still point to where it was; and the size has no
\* room for the links, of which a small one cuts off a part.
gc_realloc(n) ==
  /\ n \in nodes \ heads
  /\ \/ UNCHANGED allocVars
     \/ heads' = heads \union {n} /\ UNCHANGED <<ring, nodes, spoilt>>
     \/ Spoils

\* A string that is not empty is then appended to what the first link holds.
gc_strncat(n) == n \in nodes \ heads /\ Spoils

\* The client of such a node writes, frees or reallocates what it was given: over
\* the links, or from so far in front of the node as the links are long.
UseHead(n) == n \in heads /\ Spoils

\* The marks are looked for in front of the nodes.
gc_sweep == nodes # {} /\ Spoils

\* The nodes that are met from the head on, forwards or backwards.
Walk(links) ==
  LET reach[k \in 0 .. Cardinality(Nodes)] ==
        IF k = 0 THEN {links[List]} \ {List}
        ELSE reach[k - 1] \union ({links[c] : c \in reach[k - 1]} \ {List})
  IN  reach[Cardinality(Nodes)]

gc_list_destroy ==
  /\ nodes' = nodes \ Walk(ring.next) /\ heads' = heads \ Walk(ring.next)
  /\ ring' = [next |-> [ring.next EXCEPT ![List] = List],
              prev |-> [ring.prev EXCEPT ![List] = List]]
  /\ UNCHANGED spoilt

AllocNext ==
  /\ ~spoilt
  /\ \/ gc_malloc \/ gc_sweep \/ gc_list_destroy
     \/ \E n \in Nodes : gc_free(n) \/ gc_realloc(n) \/ gc_strncat(n) \/ UseHead(n)

AllocSpec == AllocInit /\ [][AllocNext]_allocVars

-----------------------------------------------------------------------------
(* Properties.                                                               *)

\* The ring holds what is allocated and nothing else, in both directions, whatever
\* was freed or reallocated in place in between: gc_list_destroy() misses no node and
\* meets no freed one.  That is so until the memory is spoilt: only gc_realloc() and
\* gc_strncat(), which no other file calls, what they give a client, and gc_sweep() do
\* that.
RingExact ==
  ~spoilt =>
    /\ Walk(ring.next) = nodes /\ Walk(ring.prev) = nodes
    /\ \A c \in nodes \union {List} :
         ring.prev[ring.next[c]] = c /\ ring.next[ring.prev[c]] = c

=============================================================================
