--------------------------- MODULE MCSemanticCache ---------------------------
(* Three texts: a question, a rephrasing at the floor, which the verifier   *)
(* must judge, and a rewording at the threshold of the trusted band; the    *)
(* two are below the floor of each other.  Two operations at a time and     *)
(* three in all: a store, a second store or a clear, and a lookup.          *)
EXTENDS SemanticCache, TLC

CONSTANTS p1, p2, e1, e2

MCTexts == {"what", "rephrased", "reworded"}

MCSim == [pair \in MCTexts \X MCTexts |->
            CASE pair[1] = pair[2] -> 10
              [] {pair[1], pair[2]} = {"what", "reworded"} -> 9
              [] {pair[1], pair[2]} = {"what", "rephrased"} -> 7
              [] OTHER -> 5]

HandlerAndUuidSymmetry == Permutations(Procs) \cup Permutations(Entries)
=============================================================================
