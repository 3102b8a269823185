------------------------------ MODULE MCBacktests ------------------------------
(***************************************************************************)
(* Instances of Backtests.                                                 *)
(***************************************************************************)
EXTENDS Backtests, TLC

\* An owner with analyses of two stocks.
CONSTANTS c1, c2, w1, w2, o1, s1, s2
MCOwnerOf == (1 :> o1) @@ (2 :> o1)
MCCodeOf  == (1 :> s1) @@ (2 :> s2)

\* The templates of one number, of two in an order, and of rules; parameters
\* with a fraction and a number of rules among them, in the wrong order, and
\* rules.
CONSTANTS ma, macd, dsl, window, fast, slow, entry
MCFieldsOf  == (ma :> {window}) @@ (macd :> {fast, slow})
MCLeast     == (window :> 4) @@ (fast :> 2) @@ (slow :> 4)
MCMost      == (window :> 8) @@ (fast :> 6) @@ (slow :> 8)
MCDefaultOf == (window :> 6) @@ (fast :> 2) @@ (slow :> 8)
MCBelow     == {<<fast, slow>>}
NoParams    == [f \in Fields |-> None]
MCGiven     == {[NoParams EXCEPT ![window] = 5],
                [NoParams EXCEPT ![fast] = 5, ![slow] = 6],
                [NoParams EXCEPT ![fast] = 5, ![slow] = 4],
                [NoParams EXCEPT ![entry] = 1, ![window] = 9]}

\* Two requests of users are alike, and so are two workers.
RequestSymmetry == Permutations({c1, c2}) \cup Permutations({w1, w2})

=============================================================================
