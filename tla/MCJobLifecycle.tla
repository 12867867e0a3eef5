--------------------------- MODULE MCJobLifecycle ---------------------------
(***************************************************************************)
(* Instances of JobLifecycle for TLC. Threads are interchangeable: nothing *)
(* but the functions over Thread tells them apart.                         *)
(***************************************************************************)
EXTENDS JobLifecycle, TLC

CONSTANTS t1, t2, t3

OneThread == {t1}
TwoThreads == {t1, t2}
ThreeThreads == {t1, t2, t3}

Symmetry == Permutations(Thread)

AllRequests == RequestKind
CreateOnly == {"create"}
CreateAndRetry == {"create", "retry"}
ContinueOnly == {"continue"}
=============================================================================
