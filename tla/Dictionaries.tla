---------------------------- MODULE Dictionaries ----------------------------
(***************************************************************************)
(* NBLExpDictionaryBase and NBLExpWeakDictionaryBase: the seven            *)
(* dictionaries that the dictionary experiments can be built with, by the  *)
(* number the bench knows them by, and what the wrappers around them       *)
(* do.  Each operation takes effect at one instant, as the libraries       *)
(* promise; a dictionary is then the set of keys in it.                    *)
(***************************************************************************)
EXTENDS Integers

\* Number 0, for the NOBLE library, has no code: it ends the program.
TBB == 1
CBTree == 2
CCKHT == 3
BCCKHT == 4
HSHTs == 5 .. 7

Implementations == {TBB, CBTree, CCKHT, BCCKHT} \cup HSHTs

-----------------------------------------------------------------------------
\* What Insert leaves in the dictionary D, what TryRemove leaves, and whether
\* that returns true.

\* The wrappers of TBB's map and the ETL's tree pass on what those return.
TBBAndETL(D, k) ==
  [insert |-> D \cup {k}, remove |-> D \ {k}, ok |-> k \in D]

\* Remove of the cuckoo hash tables returns nothing, and TryRemove is true
\* without a look ("true || ... Search(key, value)").
Cuckoo(D, k) ==
  [insert |-> D \cup {k}, remove |-> D \ {k}, ok |-> TRUE]

\* The hopscotch tables return the value removed, 0 for none; the experiments
\* only store values that are not 0.
Hopscotch(D, k) ==
  [insert |-> D \cup {k}, remove |-> D \ {k}, ok |-> k \in D]

\* "Set up the collection operations pointers."
Operations(nr, D, k) ==
  CASE nr \in {TBB, CBTree} -> TBBAndETL(D, k)
    [] nr \in {CCKHT, BCCKHT} -> Cuckoo(D, k)
    [] nr \in HSHTs -> Hopscotch(D, k)

\* WeakDictionaryInsert and WeakDictionaryRemove, with any adapter: a key that
\* is there stays, and one that is not may be removed.
WeakInsert(D, k) == D \cup {k}
WeakRemove(D, k) == D \ {k}

\* The tables that DeInitImplementationNr deletes: case 3 falls through to 4.
DeletedBy(nr) == IF nr = CCKHT THEN {CCKHT, BCCKHT} ELSE {nr}

\* The weak experiment has one pointer for whatever dictionary it made.
WeakTable == 0
=============================================================================
