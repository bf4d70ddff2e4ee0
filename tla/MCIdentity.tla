---------------------------- MODULE MCIdentity ----------------------------
\* Identity on a small instance: one subject of each provider, the Google one
\* with an address that an e-mail user can also sign up with, in two spellings.
EXTENDS Identity, TLC

CONSTANTS apple, dev, google, lower, upper, spaces, plain, fancy, padded, bad

Emails    == {lower, upper, spaces}
Lowered   == (lower :> lower) @@ (upper :> lower) @@ (spaces :> Blank)
Addresses == (apple :> Blank) @@ (dev :> Blank) @@ (google :> lower)
Values    == {plain, fancy, padded, bad}
Accepted  == [c \in Setting |-> IF c = "profile" THEN {plain, fancy, padded} ELSE {plain, fancy}]
Trims     == [v \in Values |-> IF v = padded THEN fancy ELSE v]
Symmetry  == Permutations(User) \cup Permutations(Thread)
=============================================================================
