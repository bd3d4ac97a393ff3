------------------------------ MODULE MCStorage ------------------------------
(* Inputs of the model-checked instances of StorageDeck. *)
EXTENDS StorageDeck

OneName == {"a"}
ManyTags == << <<"name", "a">>, <<"kind", "k">>, <<"kind", "l">> >>
TaggedOrTooMany == {<< <<"kind", "k">> >>, ManyTags}
TwoTags == {<<"kind", "k">>, TRASHED}
ThreeBytes == {<<"x", "y", "y">>}
===============================================================================
