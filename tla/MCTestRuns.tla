----------------------------- MODULE MCTestRuns -----------------------------
EXTENDS TestRuns, TLC

(* Callers and names of temporary files are interchangeable.               *)
Symmetric == Permutations(Callers) \cup Permutations(Profiles)
=============================================================================
