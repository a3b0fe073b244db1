----------------------- MODULE MCReleaseDeployment -----------------------
EXTENDS ReleaseDeployment, TLC

CONSTANTS o1, o2, legacy, fix, feature

\* A release before the one that runs, and one after it.
Line == {<<legacy, legacy>>, <<fix, fix>>, <<feature, feature>>,
         <<legacy, fix>>, <<fix, feature>>, <<legacy, feature>>}

\* The points at which a kill leaves different things behind: a tree that is not
\* sealed and a lock, one writer of two stopped, a start without its marker, and
\* a marker ahead of the current link. A kill forgets everything but these.
KillPoints == {"seal", "stopWorker", "mark", "switch"}

Symmetry == Permutations(Operators)
==========================================================================
