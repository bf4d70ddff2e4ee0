----------------------------- MODULE MCSessions -----------------------------
(* Instances of Sessions for TLC. *)
EXTENDS Sessions, TLC

Symmetry == Permutations(User) \cup Permutations(Browser)
            \cup Permutations(Thread) \cup Permutations(Token)

=============================================================================
