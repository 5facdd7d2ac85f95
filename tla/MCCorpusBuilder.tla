--------------------------- MODULE MCCorpusBuilder ---------------------------
(* One synthetic binary, three Go modules for a pool of two threads and one  *)
(* download; two runs.                                                       *)
EXTENDS CorpusBuilder
CONSTANTS s, g1, g2, g3, d

MCQueue == <<<<s>>, <<g1, g2, g3>>, <<d>>>>

Command(force, jobs, target) ==
    [force |-> force, jobs |-> jobs, target |-> target, refresh |-> FALSE]
Refresh == [force |-> FALSE, jobs |-> 1, target |-> 0, refresh |-> TRUE]

MCOptions == <<{Command(FALSE, 2, 2), Command(FALSE, 1, 3)},
               {Command(TRUE, 2, 3), Command(FALSE, 2, 0), Command(TRUE, 1, 0), Refresh}>>
=============================================================================
