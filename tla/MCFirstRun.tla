---------------------------- MODULE MCFirstRun ----------------------------
EXTENDS FirstRun, TLC

CONSTANTS c1, r1, r2, t1, t2, u1, u2

\* One company to watch, whose program comes second, and one field.
MCDisciplinesOf == [f \in {"data"} |-> {"data"}]
MCTypesOf == [l \in {"internship"} |-> {"internship"}]
MCFacts == (r1 :> [company |-> c1, discipline |-> "data", type |-> "internship", rank |-> 2])
        @@ (r2 :> [company |-> "c2", discipline |-> "design", type |-> "internship", rank |-> 1])

\* A link to the answers that take the field.
MCLinks == {[lookingFor |-> None, fields |-> {"data"}, companies |-> {}]}

=============================================================================
