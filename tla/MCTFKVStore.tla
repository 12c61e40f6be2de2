---------------------------- MODULE MCTFKVStore ----------------------------
(* Instances of TFKVStore for TLC.                                           *)
EXTENDS TFKVStore

CONSTANTS writer, reader

\* The contract lists of two deployments, and where the first was before.
Old == <<1>>
New == <<2>>
MCKeys == {Old, New}
MCMoves == {<<Old, New>>, <<Old, Old>>}
Migration == {<<Old, New>>}
MCWriterOf == [k \in MCKeys |-> writer]

MCCharacters == {"a", "b", "c", "d", "e"} \X (1..5)
Chars(c, n) == [i \in 1..n |-> <<c, i>>]

\* With pieces of two characters: one piece, exactly one, two, exactly two.
MCValuesOf == [k \in MCKeys |->
  IF k = New THEN {Chars("a", 1), Chars("b", 2), Chars("a", 3), Chars("c", 4), Chars("b", 5)}
  ELSE {Chars("d", 2), Chars("e", 3)}]
=============================================================================
