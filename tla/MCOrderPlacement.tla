--------------------------- MODULE MCOrderPlacement ---------------------------
(***************************************************************************)
(* Instances of OrderPlacement: two terms, a buy and a sell of one size,   *)
(* and every session and task owned by one user.                           *)
(***************************************************************************)
EXTENDS OrderPlacement, TLC

CONSTANTS buy1, sell1, Owner, Stock

MCDirectionOf == [m \in Terms |-> IF m = sell1 THEN "sell" ELSE "buy"]
MCOwnerOf == [x \in Sessions \cup Tasks |-> Owner]
MCStockOf == [t \in Tasks |-> Stock]

CallSymmetry == Permutations(Calls)

=============================================================================
