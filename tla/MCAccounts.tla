----------------------------- MODULE MCAccounts -----------------------------
(***************************************************************************)
(* Instances of Accounts for TLC: two users after one email, one user with *)
(* two emails, one user over the bot and the API, two logins at once, one  *)
(* user whose merge meets payments, and one whose merge meets invitations. *)
(***************************************************************************)
EXTENDS Accounts, TLC

CONSTANTS u1, u2, e1, e2, l1, k1

Duo == [users |-> {u1, u2}, newcomers |-> {}, emails |-> {e1}, vias |-> {"bot"},
        payments |-> {}, inviters |-> {}, linkers |-> Linkers, logins |-> {k1}]

Payer == [users |-> {u1}, newcomers |-> {u1}, emails |-> {e1}, vias |-> {"bot"},
          payments |-> Payments, inviters |-> {}, linkers |-> {l1}, logins |-> {k1}]

MCCasts ==
  {Duo,
   [Duo EXCEPT !.users = {u1}, !.emails = {e1, e2}, !.linkers = {l1}],
   [Duo EXCEPT !.users = {u1}, !.vias = {"bot", "api"}, !.linkers = {l1}],
   [Duo EXCEPT !.users = {}, !.logins = Logins],
   Payer,
   [Payer EXCEPT !.payments = {}, !.inviters = {u1, e1}]}

Symmetry == Permutations(Payments)
=============================================================================
