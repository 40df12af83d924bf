------------------------------ MODULE MCPickle ------------------------------
(***************************************************************************)
(* Pickles for TLC: bytes of 4 bits, so that all lengths of an encoding    *)
(* occur with small numbers, and numbers around the limits between them.   *)
(***************************************************************************)
EXTENDS Pickle

Near(S) == UNION {{n - 1, n, n + 1} : n \in S} \cap Nat
Of(ty, S) == {[ty |-> ty, v |-> n] : n \in S}
Negated(S) == S \cup {-n : n \in S}

Limits == {0, 4, 64, 1024}
Ints == {n \in Negated(Near({0, 2, 32, 512, 8191})) : n < 8192}
LVars == Near({0, 2, 32, 512, 8192, 32767, 65535, 131072, 2^25})
Powers == {2^k : k \in {0, 2, 5, 7, 8, 13, 15, 16, 18, 23, 24, 26}}

Small == Of("uint", Near(Limits)) \cup Of("int", Ints) \cup Of("lvar", LVars)
         \cup Of("bool", {0, 1}) \cup Of("string", {<<>>, <<15>>, <<7, 0, 3, 1, 12>>})
         \cup Of("integer", Negated(Near(Powers)) \cup {11234567})

Few == Of("uint", {3, 70}) \cup Of("int", {-3}) \cup Of("lvar", {40}) \cup Of("bool", {1})
       \cup Of("string", {<<9>>}) \cup Of("integer", {-300})

Singles == {<<a>> : a \in Small}
           \cup {<<a, b>> : a \in Small, b \in Few}
           \cup {<<a, b>> : a \in Few, b \in Small}
=============================================================================
