------------------------------- MODULE MCDesk -------------------------------
(***************************************************************************)
(* Model-checking instance of the desk: the journal and what is read out   *)
(* of it, the pages built from the fit universe, the one-place cache that  *)
(* universe is scanned through, the portfolio page and the capital         *)
(* planner. They share no state, so each behaviour exercises one of them   *)
(* and the others rest at their first state.                               *)
(***************************************************************************)
EXTENDS MCPages, MCJournal, JournalViews, FitUniverse, MCPortfolio

MCResults == {-4, 3}

\* A loss that ends after what is closed by hand that day, and a gain of the next.
SheetLine(in, out, pnl) == [entered |-> in, exited |-> out, pnl |-> pnl]
MCSheet == {SheetLine(<<1, 1>>, <<1, 2>>, -1), SheetLine(<<2, 1>>, <<2, 1>>, 3)}

VARIABLE part
allVars == <<part, deskVars, vars, viewVars, fitVars, holdingVars, planVars>>
folio == <<holdingVars, planVars>>

AllInit ==
    /\ part \in {"pages", "journal", "views", "universe", "holdings", "planner"}
    /\ DeskInit /\ (part # "pages" => ask \in MCTiers /\ filled = ask)
    /\ Init /\ ViewInit /\ UniverseInit
    /\ HoldingInit /\ (part # "holdings" => archive = CHOOSE a \in Archives : TRUE)
    /\ PlannerInit
AllNext ==
    /\ UNCHANGED part
    /\ \/ /\ part = "pages" /\ DeskNext
          /\ UNCHANGED <<vars, viewVars, fitVars, folio>>
       \/ /\ part = "journal" /\ Next
          /\ UNCHANGED <<deskVars, viewVars, fitVars, folio>>
       \/ /\ part = "views" /\ ViewNext
          /\ UNCHANGED <<deskVars, vars, fitVars, folio>>
       \/ /\ part = "universe" /\ UniverseNext
          /\ UNCHANGED <<deskVars, vars, viewVars, folio>>
       \/ /\ part = "holdings" /\ HoldingNext
          /\ UNCHANGED <<deskVars, vars, viewVars, fitVars, planVars>>
       \/ /\ part = "planner" /\ PlannerNext
          /\ UNCHANGED <<deskVars, vars, viewVars, fitVars, holdingVars>>
AllSpec == AllInit /\ [][AllNext]_allVars
=============================================================================
