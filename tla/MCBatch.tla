------------------------------- MODULE MCBatch -------------------------------
(* Two binaries, two runs of the batch.                                      *)
EXTENDS Batch
CONSTANTS b1, b2, s1, s2

MCQueue == <<b1, b2>>
MCWriters == {b1, b2} \X (1..MaxRuns)
MCStems == {s1, s2}
MCStemOf == [w \in MCWriters |-> IF w[1] = b1 THEN s1 ELSE s2]

Command(skip, noIndex, timeout, jobs, profile) ==
    [skip |-> skip, noIndex |-> noIndex, timeout |-> timeout, jobs |-> jobs,
     profile |-> profile]

\* A first batch, with or without --timeout, and another one or a rerun that
\* skips what is there.
Pool(timeout, noIndex) == Command(FALSE, noIndex, timeout, 2, "full")
Rerun(noIndex, profile) == Command(TRUE, noIndex, FALSE, 1, profile)

CleanOptions == <<{Pool(TRUE, FALSE), Rerun(FALSE, "full")},
                  {Pool(TRUE, FALSE), Rerun(FALSE, "evaluator")}>>
RestartOptions == <<{Pool(TRUE, TRUE), Pool(FALSE, TRUE), Rerun(TRUE, "full")},
                    {Pool(FALSE, TRUE), Rerun(TRUE, "full")}>>
=============================================================================
