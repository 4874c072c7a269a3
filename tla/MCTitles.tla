------------------------------ MODULE MCTitles ------------------------------
EXTENDS Titles
Base == [type |-> "Application", id |-> "app", version |-> 0]
Patch1 == [type |-> "Patch", id |-> "patch", version |-> 1]
Patch2 == [type |-> "Patch", id |-> "patch", version |-> 2]
MCKeys == {Base, Patch1, Patch2}
MCContents == {"b", "m1", "m2", "s"}
\* the two patches share a content
MCHolds == [k \in MCKeys |-> CASE k = Base -> <<"b">> [] k = Patch1 -> <<"m1", "s">> [] k = Patch2 -> <<"m2", "s">>]
MCBatches == {<<Patch1>>, <<Patch2, Base>>}
=============================================================================
