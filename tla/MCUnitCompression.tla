------------------------- MODULE MCUnitCompression -------------------------
(* The lists that the work allocation makes of up to five channels of two   *)
(* data sets, whose local channels differ.                                  *)
EXTENDS UnitCompression, SequencesExt

CONSTANTS NChannels, DataSets

Sets == 1..DataSets

Matched(c, data) ==
    LET found == SelectSeq([s \in Sets |-> [set |-> s, chan |-> c + s, nchan |-> 1]],
                           LAMBDA u : <<c, u.set>> \in data)
    IN  IF found = <<>> THEN <<[set |-> NoData, chan |-> -1, nchan |-> 1]>> ELSE found

ListOf(n, data) == FlattenSeq([i \in 1..n |-> Matched(i, data)])

Lists == UNION {{ListOf(n, data) : data \in SUBSET ((1..n) \X Sets)} : n \in 1..NChannels}
=============================================================================
