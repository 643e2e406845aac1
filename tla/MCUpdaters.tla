----------------------------- MODULE MCUpdaters -----------------------------
EXTENDS Updaters

CONSTANTS t1, s1, s2, a1, a2

\* A complete map, that names both nodes or only one, a partial one of either
\* slot, and none.
SomeAnswers ==
    { [slots |-> {s1, s2}, nodes |-> {a1, a2}],
      [slots |-> {s1, s2}, nodes |-> {a2}],
      [slots |-> {s1},     nodes |-> {a1}],
      [slots |-> {s2},     nodes |-> {a2}],
      [slots |-> {},       nodes |-> {}] }

FewAnswers == {r \in SomeAnswers : r.nodes # {a2}}
=============================================================================
