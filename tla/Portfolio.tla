----------------------------- MODULE Portfolio -----------------------------
(***************************************************************************)
(* The pages that account for the user's money: the portfolio page with    *)
(* its rotation, and the capital planner. They share the process and no    *)
(* state, so a statement and a plan may change in any order.               *)
(***************************************************************************)
EXTENDS Holdings, Planner

PortfolioSpec == HoldingSpec /\ PlannerSpec

\* Money is neither lost nor made on the portfolio page, in its rotation or in a
\* capital plan: statement and book, exposures and book, sales and what is kept, buys
\* and what was raised, shares and capital agree.
MoneyAddsUp == BookAddsUp /\ RotationAddsUp /\ PlanAddsUp
=============================================================================
