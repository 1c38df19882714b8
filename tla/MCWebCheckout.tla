--------------------------- MODULE MCWebCheckout ---------------------------
(***************************************************************************)
(* An instance of WebCheckout for TLC: an account of the bot and one of    *)
(* the site.                                                               *)
(***************************************************************************)
EXTENDS WebCheckout

CONSTANTS tg, web

MCUsers == {tg, web}
MCWebOnly == {web}

\* A day: 12 roubles, and 3 for each device above five.
MCPlan == PlanOf(1)
==============================================================================
