------------------------- MODULE MCDictionaryBench -------------------------
(***************************************************************************)
(* Instances of DictionaryBench for TLC.  Keys are interchangeable, and so *)
(* are threads.                                                            *)
(***************************************************************************)
EXTENDS DictionaryBench, TLC

O(flag, values) == [flag |-> flag, values |-> values]

MCInitialKeys == SUBSET Keys

\* Options in all orders; nothing is run, as there is no -t 3.
Options ==
  {O("-e", <<>>)} \cup {O("-e", <<e>>) : e \in {0, 3, 4}}
  \cup {O("-i", <<t>>) : t \in {8, 12}}
  \cup {O("-s", <<1, 7>>), O("-s", <<2, 9>>), O("-s", <<0, 3>>)}

Pinned == {<<O("-t", <<n>>), O("-p", <<s>>)>> : n \in {2, 15, 16, 17}, s \in 0 .. 2}

\* Exponents of which the last two do not fit an int.
KeySpaces == {<<O("-e", <<4>>), O("-s", <<0, n>>)>> : n \in {0, 30, 31, 32}}

\* Two durations, of which only the first is less than 2^32 microseconds.
Durations == SeqOf({O("-d", <<4294>>), O("-d", <<4295>>), O("-mf", <<>>)}, 2)

\* Sessions that are run: a table that tells whether a key was there before and
\* after one that does not, and the two whose deletion is entangled in either
\* order, with a hopscotch table; and one with a number that is none.
Session(e, nrs) ==
  <<O("-e", <<e>>), O("-t", <<3>>)>> \o [k \in DOMAIN nrs |-> O("-i", <<nrs[k]>>)]

Run ==
  {Session(4, <<1, 3>>), Session(4, <<3, 4, 6>>), Session(4, <<4, 3>>),
   Session(5, <<2, 5>>), Session(4, <<0>>),
   <<O("-i", <<12>>), O("-e", <<5>>), O("-t", <<3>>)>>}

MCCommandLines == Run \cup Pinned \cup Durations \cup KeySpaces \cup SeqOf(Options, 3)

MCSessions == {process_arguments(cl).implementations : cl \in MCCommandLines}

Symmetry == Permutations(Threads) \cup Permutations(Keys)
=============================================================================
