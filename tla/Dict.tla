-------------------------------- MODULE Dict --------------------------------
(* fs/dict.c: a table of keys and values in the order of their adding, in     *)
(* memory that doubles, with strings on the heap.  A value is made by         *)
(* dict_value_new() for one call, as the test program does.  Types that hold  *)
(* their value in place are one, "int"; "string" is a type that holds a       *)
(* pointer.  Broken... operators are plausible bugs, used by the mutation     *)
(* checks of PROJECT.json only.                                               *)
EXTENDS Integers, FiniteSets, Sequences, SequencesExt

CONSTANTS
  Keys,
  Strings,      \* bound: the addresses of the heap, numbers
  MaxEntries    \* bound: the entries of a dictionary

\* No string is at address 0.
ASSUME DictAssumption == Strings \subseteq Nat \ {0} /\ MaxEntries \in Nat

VARIABLES
  dict,    \* n_elems, and the entries in use
  heap     \* the strings that are allocated

dictVars == <<dict, heap>>

DICT_DEFAULT_NUM_ELEMS == 4
NULL == 0

Number    == [type |-> "int", s |-> NULL]
String(p) == [type |-> "string", s |-> p]

dict_init == [n_elems |-> 0, entries |-> <<>>]

DictInit == dict = dict_init /\ heap = {}

\* dict_value_new(): a string is copied to an address that is free, the lowest one
\* since they are told apart only.
dict_value_new(type) ==
  IF type = "int" THEN Number
  ELSE String(CHOOSE p \in Strings \ heap : \A q \in Strings \ heap : p <= q)

HasMemory(type) == type = "int" \/ Strings \ heap # {}

HeldBy(value) == IF value.s = NULL THEN {} ELSE {value.s}

BrokenGrows(d) == Len(d.entries) > d.n_elems
Grows(d) == Len(d.entries) + 1 >= d.n_elems

dict_add_entry(key, type) ==
  /\ Len(dict.entries) < MaxEntries /\ HasMemory(type)
  /\ LET value == dict_value_new(type)
     IN  /\ heap' = heap \union HeldBy(value)
         /\ dict' =
              [n_elems |-> CASE dict.n_elems = 0 -> DICT_DEFAULT_NUM_ELEMS
                             [] dict.n_elems > 0 /\ Grows(dict) -> 2 * dict.n_elems
                             [] dict.n_elems > 0 /\ ~Grows(dict) -> dict.n_elems,
               entries |-> Append(dict.entries, [key |-> key, value |-> value])]

\* dict_search_entry(): the places of a key; the first one is found, if any.
Found(key) == {i \in DOMAIN dict.entries : dict.entries[i].key = key}
First(key) == CHOOSE i \in Found(key) : \A j \in Found(key) : i <= j

\* The entries behind it move up, all of them: memcpy() copies a range onto one it
\* overlaps, which the C library for x86-64 does as memmove() does.  A string
\* stays allocated.
BrokenShift(entries, i) ==
  [j \in 1 .. Len(entries) - 1 |-> entries[IF j < i \/ j = Len(entries) - 1 THEN j ELSE j + 1]]
Shift(entries, i) == RemoveAt(entries, i)

dict_remove_entry(key) ==
  /\ Found(key) # {}
  /\ dict' = [dict EXCEPT !.entries = Shift(@, First(key))]
  /\ UNCHANGED heap

\* The new value is made before the old one is freed.
dict_update_entry(key, type) ==
  /\ HasMemory(type)
  /\ LET value == dict_value_new(type)
         made  == heap \union HeldBy(value)
     IN  IF Found(key) = {} THEN heap' = made /\ UNCHANGED dict ELSE
         /\ heap' = made \ HeldBy(dict.entries[First(key)].value)
         /\ dict' = [dict EXCEPT !.entries[First(key)].value = value]

dict_clean ==
  /\ dict.n_elems > 0
  /\ heap' = heap \ UNION {HeldBy(dict.entries[i].value) : i \in DOMAIN dict.entries}
  /\ dict' = dict_init

DictNext ==
  \/ \E key \in Keys, type \in {"int", "string"} :
       dict_add_entry(key, type) \/ dict_update_entry(key, type)
  \/ \E key \in Keys : dict_remove_entry(key)
  \/ dict_clean

DictSpec == DictInit /\ [][DictNext]_dictVars

-----------------------------------------------------------------------------
(* Properties.                                                               *)

\* The strings of a dictionary are allocated, and each belongs to one entry: an
\* update or dict_clean() frees none twice.
DictOwns ==
  \A i \in DOMAIN dict.entries :
    /\ HeldBy(dict.entries[i].value) \subseteq heap
    /\ \A j \in DOMAIN dict.entries :
         HeldBy(dict.entries[i].value) \intersect HeldBy(dict.entries[j].value) # {} => i = j

\* The entries in use have memory, whatever was added, removed and cleaned before.
DictFits == Len(dict.entries) <= dict.n_elems

=============================================================================
