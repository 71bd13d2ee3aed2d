------------------------- MODULE MCBudgetController -------------------------
(***************************************************************************)
(* Small instances of BudgetController.                                    *)
(***************************************************************************)
EXTENDS BudgetController, TLC
=============================================================================
