------------------------------- MODULE AutoOrder -------------------------------
(***************************************************************************)
(* The order that a worker places by itself after an analysis that was to  *)
(* be carried out: its signal, the limits on its size, the look at the     *)
(* account before it, and the account as it is when the order arrives.     *)
(* What an order makes of its idempotency key is OrderPlacement's.         *)
(***************************************************************************)
EXTENDS ApiRequests, Integers

CONSTANTS
    Prices, Quantities,     \* bound: of the signals
    MaxQty, MaxNotional,    \* ANALYSIS_AUTO_ORDER_MAX_QTY, MAX_NOTIONAL
    Margin,                 \* commission and slippage, percent
    MaxCash, MaxHeld        \* bound: of the account

ASSUME AutoOrderConstants ==
    /\ Prices \cup Quantities \subseteq Nat \ {0}
    /\ {MaxQty, MaxNotional, MaxCash, MaxHeld, Margin} \subseteq Nat

VARIABLES
    holding,    \* external: cash and shares of the user's account
    drained     \* history: workers whose look at the account is out of date

autoVars == <<holding, drained>>

Holding == [cash : 0 .. MaxCash, held : 0 .. MaxHeld]

AutoInit ==
    /\ holding \in Holding
    /\ drained = {}

\* The execution snapshot and the quote of the analysis.
Signal == [action : {"buy", "sell", "none"}, wanted : Quantities \cup {0},
           price : Prices \cup {0}]

AutoCall == [kind : {"auto"}, signal : Signal, quantity : Nat]

\* Plans of resolveExecutionPlan, and of payloads from before it that say less,
\* as resolveExecutionMetaFromPayload completes them.
Plans ==
    [requested : {"auto"}, mode : {"broker"}, enabled : {TRUE}]
    \cup [requested : {"auto"}, mode : {"paper"}, enabled : BOOLEAN]
    \cup [requested : {"paper"}, mode : {"paper"}, enabled : {FALSE}]

\* shouldAutoPlaceOrder: when the Agent had the broker, it has placed it.
ShouldPlace(p) == p.requested = "auto" /\ p.mode = "paper" /\ p.enabled

Executable(s) == s.action \in {"buy", "sell"} /\ s.wanted > 0 /\ s.price > 0

\* applyAutoOrderLimits.
Least(S) == CHOOSE n \in S : \A k \in S : n <= k

Limited_Above(s) ==
    Least({s.wanted, MaxQty, (MaxNotional + s.price - 1) \div s.price})
Limited(s) == Least({s.wanted, MaxQty, MaxNotional \div s.price})

\* estimateBuyRequiredCash.
Cost(price, n) == price * n * (100 + Margin)

\* runAutoOrderPrecheck, and external: what the Agent accepts.
Affords_Bare(h, s, n) ==
    IF s.action = "buy" THEN h.cash >= s.price * n ELSE h.held >= n
Affords(h, s, n) ==
    IF s.action = "buy" THEN h.cash * 100 >= Cost(s.price, n)
    ELSE h.held >= n

\* Everything before the first await of maybeAutoPlaceOrder; a task without an
\* owner throws, and a signal that does not come through leaves nothing but the
\* reason in the result.
AutoRequest(c) ==
    /\ \E p \in Plans, owned, aShare, open \in BOOLEAN, s \in Signal :
          /\ ShouldPlace(p) /\ owned /\ aShare /\ open
          /\ Executable(s) /\ Limited(s) > 0
          /\ Arrive(c, "precheck", [kind |-> "auto", signal |-> s,
                                    quantity |-> Limited(s)])
    /\ UNCHANGED autoVars

\* The snapshot is fetched for this look, not taken from the cache.
Precheck(c) ==
    /\ pc[c] = "precheck"
    /\ IF Affords(holding, req[c].signal, req[c].quantity)
       THEN Goto(c, "place", req[c]) ELSE Finish(c)
    /\ drained' = drained \ {c}
    /\ UNCHANGED holding

\* external: what is left of the account; cash is cut to units of the model.
Traded(h, s, n) ==
    IF s.action = "buy"
    THEN [cash |-> h.cash - (Cost(s.price, n) + 99) \div 100,
          held |-> Least({MaxHeld, h.held + n})]
    ELSE [cash |-> Least({MaxCash, h.cash + s.price * n}), held |-> h.held - n]

\* The order arrives at the Agent, which carries it out or rejects it.
Place(c) ==
    /\ pc[c] = "place"
    /\ LET s == req[c].signal
           n == req[c].quantity
       IN  holding' = IF Affords(holding, s, n) THEN Traded(holding, s, n)
                      ELSE holding
    /\ drained' = (drained \ {c})
                  \cup {d \in Clients \ {c} : /\ pc[d] = "place"
                                              /\ holding' # holding}
    /\ Finish(c)

AutoStep(c) == Precheck(c) \/ Place(c)

\* The user trades by hand.
AccountMoves ==
    /\ \E d \in Clients \ drained : pc[d] = "place"
    /\ holding' \in Holding \ {holding}
    /\ drained' = drained \cup {d \in Clients : pc[d] = "place"}
    /\ UNCHANGED apiVars

\* Workers C end without finishing.
Undrained(C) == drained' = drained \ C /\ UNCHANGED holding

AutoTypeOK ==
    /\ holding \in Holding
    /\ drained \subseteq Clients

=============================================================================
