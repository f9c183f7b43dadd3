------------------------------- MODULE MCSeed -------------------------------
EXTENDS Seed, TLC

CONSTANTS a, b

\* One list names a sheep twice.
ListsOfTwo == {<<a, b>>, <<a, a>>}

\* No option, or either.
OneOption == {o \in [force : BOOLEAN, again : BOOLEAN] : ~o.force \/ ~o.again}

Symmetry == Permutations(Seeders)

=============================================================================
