----------------------------- MODULE MCLlmSnapshot -----------------------------
(* Small instances of LlmSnapshot: constant values a .cfg cannot write. *)
EXTENDS LlmSnapshot, TLC

Week(n) == {k \in Keys : k[2] = n}

\* Every repository on the boundary all along, or only up to the first week.
AllMapped == [k \in Keys |-> Repos]
FirstWeekMapped == [k \in Keys |-> IF k \in Week(1) THEN Repos ELSE {}]

NothingPaused == {}
SecondWeekPaused == Week(2)

\* Staged activity: none, or the first week's rows in one batch.
NothingStaged == {}
FirstWeekStaged == {Week(1) \X Repos}

Interchangeable == Permutations(Calls) \cup Permutations(LockIds) \cup Permutations(Repos)
===============================================================================
