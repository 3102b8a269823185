---------------------------- MODULE PortfolioHealth ----------------------------
(***************************************************************************)
(* The health of a portfolio: a score that starts from full marks and      *)
(* loses points for every metric that is past a threshold.  Percentages    *)
(* are whole numbers, the Sharpe ratio is below or above its threshold,    *)
(* and the equity curve is a short sequence of values.                     *)
(***************************************************************************)
EXTENDS Integers, SequencesExt

CONSTANTS
    Unknown,        \* a metric that the snapshot does not tell
    Weights,        \* bound: weights of positions and of an industry, percent
    CashRatios,     \* bound
    Returns,        \* bound: total returns, percent
    Drawdowns,      \* bound: drawdowns that a snapshot tells, percent
    Equities,       \* bound: values of the equity curve
    MaxPoints       \* bound: its length

ASSUME HealthConstants ==
    /\ Weights \cup CashRatios \cup Drawdowns \subseteq Nat
    /\ Returns \subseteq Int
    /\ Equities \subseteq Nat
    /\ MaxPoints \in Nat

VARIABLE portfolio      \* the metrics of getPortfolioHealth

Portfolio ==
    [top1 : Weights \cup {Unknown}, top3 : Weights \cup {Unknown},
     industry : Weights \cup {Unknown}, classified : BOOLEAN,
     cash : CashRatios \cup {Unknown}, held : BOOLEAN,
     sharpe : {"fine", "weak", Unknown}, return : Returns \cup {Unknown},
     drawdown : Drawdowns \cup {Unknown}, equity : Seq(Equities)]

\* An account that nothing is known of.
NoPortfolio ==
    [top1 |-> Unknown, top3 |-> Unknown, industry |-> Unknown,
     classified |-> FALSE, cash |-> Unknown, held |-> FALSE,
     sharpe |-> Unknown, return |-> Unknown, drawdown |-> Unknown,
     equity |-> <<>>]

OrZero(x) == IF x = Unknown THEN 0 ELSE x

\* The weights of positions are parts of the market value, the weight of an
\* industry is a part of all assets or, when those are not told, of the market
\* value too: the largest position is one of the three largest, and may outweigh
\* its industry.  (Three positions that are none weigh 0, as if Unknown.)
Consistent(p) ==
    /\ (p.top1 = Unknown) = (p.top3 = Unknown)
    /\ p.top1 # Unknown => p.industry # Unknown
    /\ OrZero(p.top1) <= OrZero(p.top3)
    /\ ~p.held => p.industry = Unknown /\ ~p.classified

HealthInit ==
    /\ portfolio \in [top1 : Weights \cup {Unknown},
                      top3 : Weights \cup {Unknown},
                      industry : Weights \cup {Unknown},
                      classified : BOOLEAN, held : BOOLEAN,
                      cash : CashRatios \cup {Unknown},
                      sharpe : {"fine", "weak", Unknown},
                      return : Returns \cup {Unknown},
                      drawdown : Drawdowns \cup {Unknown}, equity : {<<>>}]
    /\ Consistent(portfolio)

\* The market moves: a portfolio gets worse in one metric.
Worsen ==
    \/ \E m \in {"top1", "top3", "industry"}, w \in Weights :
          /\ portfolio[m] # Unknown
          /\ w > portfolio[m]
          /\ portfolio' = [portfolio EXCEPT ![m] = w]
          /\ Consistent(portfolio')
    \/ \E k \in CashRatios : /\ k < OrZero(portfolio.cash)
                             /\ portfolio' = [portfolio EXCEPT !.cash = k]
    \/ /\ portfolio.sharpe = "fine"
       /\ portfolio' = [portfolio EXCEPT !.sharpe = "weak"]
    \/ \E k \in Returns : /\ k < OrZero(portfolio.return)
                          /\ portfolio' = [portfolio EXCEPT !.return = k]
    \/ \E d \in Drawdowns : /\ portfolio.drawdown # Unknown
                            /\ d > portfolio.drawdown
                            /\ portfolio' = [portfolio EXCEPT !.drawdown = d]
    \/ \E e \in Equities :
          /\ portfolio.drawdown = Unknown    \* else no one looks at the curve
          /\ Len(portfolio.equity) < MaxPoints
          /\ portfolio' = [portfolio EXCEPT !.equity = Append(@, e)]

\* computeMaxDrawdownPctFromEquity: the deepest fall from the highest value so
\* far, in percent; a value that is not positive is passed over.
Fall(acc, e) ==
    IF e <= 0 THEN acc
    ELSE IF e > acc.peak THEN [acc EXCEPT !.peak = e]
    ELSE LET d == ((acc.peak - e) * 100) \div acc.peak
         IN  [acc EXCEPT !.deepest = IF d > @ THEN d ELSE @]

MaxDrawdown(equity) ==
    IF Len(equity) < 2 THEN 0
    ELSE FoldLeft(Fall, [peak |-> 0, deepest |-> 0], equity).deepest

\* getPortfolioHealth: the drawdown that the snapshot tells goes before the one
\* computed from the curve.
Drawdown(p) == IF p.drawdown # Unknown THEN p.drawdown
               ELSE MaxDrawdown(p.equity)

\* buildPortfolioDiagnostics: the points that the portfolio loses.
Single_Swapped(p) == IF OrZero(p.top1) >= 45 THEN 14
                      ELSE IF OrZero(p.top1) >= 35 THEN 24 ELSE 0
Single(p) == IF OrZero(p.top1) >= 45 THEN 24
             ELSE IF OrZero(p.top1) >= 35 THEN 14 ELSE 0

Penalties(p) ==
    << Single(p),
       IF OrZero(p.top3) >= 75 THEN 12 ELSE 0,
       IF p.classified /\ OrZero(p.industry) >= 45 THEN 14 ELSE 0,
       IF p.held /\ OrZero(p.cash) < 5 THEN 8 ELSE 0,
       IF Drawdown(p) >= 15 THEN 18 ELSE 0,
       IF p.sharpe = "weak" THEN 8 ELSE 0,
       IF OrZero(p.return) <= -8 THEN 10 ELSE 0 >>

\* The score is never below zero.
Score(p) ==
    FoldLeft(LAMBDA s, x : IF s > x THEN s - x ELSE 0,
             IF p.held THEN 100 ELSE 78, Penalties(p))

\* Rebalancing is advised for what concentrates the portfolio.
RebalancingNeeded(p) ==
    \/ Single(p) > 0
    \/ OrZero(p.top3) >= 75
    \/ p.classified /\ OrZero(p.industry) >= 45

HealthTypeOK ==
    /\ portfolio \in Portfolio
    /\ Len(portfolio.equity) <= MaxPoints

=============================================================================
