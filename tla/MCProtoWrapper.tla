--------------------------- MODULE MCProtoWrapper --------------------------
(* Small instances of ProtoWrapper for TLC.                                *)
EXTENDS ProtoWrapper

MCSteps    == {-1, 3}
MCSymmetry == Permutations(References)

Zero    == [seconds |-> 0, nanos |-> 0]
PbEmpty == [has |-> FALSE, level |-> 0, one |-> Zero, many |-> <<>>, keyed |-> <<>>, marks |-> <<>>]

\* Messages as they come from protobuf, besides those that were exported.
MCReceived ==
    LET longest == [seconds |-> 1, nanos |-> SecondInNs - 1]
        set     == [PbEmpty EXCEPT !.has = TRUE, !.one = longest]
    IN  {[PbEmpty EXCEPT !.level = level] : level \in PbLevels}
            \cup {[set EXCEPT !.many = <<Zero>>],
                  [set EXCEPT !.keyed = [k \in MapKeys |-> Zero], !.marks = <<"int">>]}

MCGiven      == {Zero}
MCExtensions == {<<"bool">>, <<"int", "str">>}
============================================================================
