----------------------------- MODULE PassDriver -----------------------------
(***************************************************************************)
(* What analyze_semantics promises of its passes, whatever they compute:   *)
(* they run one after another, each from the results of the passes it      *)
(* reads; a pass that fails leaves a result nobody can rely on, and costs  *)
(* no more than its own result and those that are made from it.            *)
(*                                                                         *)
(* shadow is the run of the same program in which no pass fails.           *)
(***************************************************************************)
EXTENDS Naturals

CONSTANTS
    N,                  \* the number of passes
    Reads,              \* Reads[i]: the passes before i whose results i reads
    Programs,
    Compute(_, _, _)    \* Compute(p, i, r): the result of pass i of p, r the results it reads

VARIABLES program, next, results, shadow, failed, tainted

vars == <<program, next, results, shadow, failed, tainted>>

Wellordered == /\ N \in Nat
               /\ Reads \in [1..N -> SUBSET (1..N)]
               /\ \A i \in 1..N : \A j \in Reads[i] : j < i

TypeOK ==
    /\ program \in Programs
    /\ next \in 1..(N+1)
    /\ DOMAIN results = 1..(next-1)
    /\ DOMAIN shadow = 1..(next-1)
    /\ failed \subseteq 1..(next-1)
    /\ tainted \subseteq 1..(next-1)

Init ==
    /\ program \in Programs
    /\ next = 1
    /\ results = [i \in {} |-> i]
    /\ shadow = [i \in {} |-> i]
    /\ failed = {}
    /\ tainted = {}

read(i, of) == [j \in Reads[i] |-> of[j]]

\* Pass next leaves a result beside those there are, which stay as they are.
Leaves(value) == results' = [i \in 1..next |-> IF i = next THEN value ELSE results[i]]

Advance ==
    /\ next \in 1..N
    /\ next' = next + 1
    /\ shadow' = [i \in 1..next |-> IF i = next THEN Compute(program, next, read(next, shadow))
                                   ELSE shadow[i]]
    /\ UNCHANGED program

Succeed ==
    /\ Advance
    /\ Leaves(Compute(program, next, read(next, results)))
    /\ failed' = failed
    /\ tainted' = IF Reads[next] \cap tainted = {} THEN tainted ELSE tainted \cup {next}

\* Whatever the result of a failed pass, those before it are not touched.
Fail ==
    /\ Advance
    /\ Leaves(results'[next])
    /\ failed' = failed \cup {next}
    /\ tainted' = tainted \cup {next}

Next == Succeed \/ Fail
Spec == Init /\ [][Next]_vars

-----------------------------------------------------------------------------

\* A result that no failure can have reached is what a run without failures has: the timed
\* passes of analyze_semantics fail one by one and not all together.
FailuresIsolated == \A i \in 1..(next-1) : i \notin tainted => results[i] = shadow[i]

\* What is tainted was made from a failure: a failed pass, or one that read a tainted one.
TaintHasCause == \A i \in tainted : i \in failed \/ Reads[i] \cap tainted # {}
=============================================================================
