---------------------------- MODULE MCLibraries ----------------------------
(* The libraries, which share nothing: a client of the bitmap, of a          *)
(* dictionary, or of a list of allocations, whichever lib says.              *)
EXTENDS BitMap, Dict, AllocList

VARIABLE lib

LibrariesInit ==
  /\ lib \in {"map", "dict", "gc"}
  /\ Init /\ DictInit /\ AllocInit

LibrariesNext ==
  /\ UNCHANGED lib
  /\ \/ lib = "map"  /\ Next /\ UNCHANGED <<dictVars, allocVars>>
     \/ lib = "dict" /\ DictNext /\ UNCHANGED <<vars, allocVars>>
     \/ lib = "gc"   /\ AllocNext /\ UNCHANGED <<vars, dictVars>>

LibrariesSpec ==
  LibrariesInit /\ [][LibrariesNext]_<<lib, vars, dictVars, allocVars>>
=============================================================================
