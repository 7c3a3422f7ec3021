---------------------------- MODULE MCResolution ----------------------------
(* The instances of Resolution that TLC checks.                             *)
EXTENDS Resolution

CONSTANTS n1, n2

\* 1 and 2 are one name up to punctuation, 4 is a date like 1 by name; 3 is near
\* 2 and perhaps the same, 5 is as good as 3.
MCNorm == <<1, 1, 3, 1, 5>>
MCKind == <<"concept", "concept", "concept", "date", "concept">>
MCSim == LET near == {<<2, 3>>, <<3, 2>>}
             same == {<<3, 5>>, <<5, 3>>, <<1, 4>>, <<4, 1>>}
         IN  [x \in 1 .. 5 |-> [y \in 1 .. 5 |-> IF x = y \/ <<x, y>> \in same THEN 95
                                ELSE IF <<x, y>> \in near THEN 80 ELSE 10]]
MCFound == <<{{1, 4}}, {{2, 3, 5}}, {{1}}>>

\* A source whose entities are found to be none when it is enriched again.
MCFoundNone == <<{{3}}, {{5}, {}}, {{1}}>>
MCNotebookOf == [s \in Sources |-> IF s = 3 THEN n2 ELSE n1]

=============================================================================
