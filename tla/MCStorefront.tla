---------------------------- MODULE MCStorefront ----------------------------
(***************************************************************************)
(* Instances of Storefront for TLC.                                        *)
(***************************************************************************)
EXTENDS Storefront, SequencesExt

MCPlanPrice == [p \in Plans |-> IF p = CustomPlan THEN 2 ELSE 1]
MCExtraPrice == [p \in Plans |-> 1]

(***************************************************************************)
(* A newcomer with a referral balance; a subscriber with an extra device.  *)
(***************************************************************************)
MCInitialUsers ==
  {[row |-> [status |-> "none", plan |-> NoPlan, devices |-> DefaultDevices],
    balance |-> 2, trialUsed |-> FALSE],
   [row |-> [status |-> "active", plan |-> MonthPlan, devices |-> DefaultDevices + 1],
    balance |-> 1, trialUsed |-> TRUE]}

(***************************************************************************)
(* Who follows the connection guide, who buys, who changes the number of   *)
(* devices, and who types.  All of it in one behaviour is beyond TLC.      *)
(***************************************************************************)
MCHabits ==
  {ConnectActs \cup KeysActs \cup AccountActs \cup {"main_menu", "start_trial"},
   BuyActs \cup {"main_menu", "start_trial", "do_pay", "pay_balance"},
   DeviceActs \cup {"main_menu", "subscription_settings", "add_dev_pay", "add_dev_bal",
                   "remove_dev_confirm"},
   {"main_menu", "buy_vpn", "custom_days", "link_email", "resend_email_code", "confirm_pay", "do_pay",
    "days", "email", "code"}}

(***************************************************************************)
(* Buttons that lead to the menu by lookups alone, whatever the lookups    *)
(* find: the button is the menu's, or each of its answers has a button     *)
(* that was found to lead there before.                                    *)
(***************************************************************************)
Views == {v \in [status : Statuses, plan : {MonthPlan}, devices : Devices, trial : BOOLEAN,
                 balance : {0, 9}, config : BOOLEAN] : TRUE}

CanLookUp(b) ==
  /\ b[1] \in Lookups
  /\ b[1] = "step" => b[4] \in DOMAIN Guide(b[2], b[3])

LeadsTo(found) ==
  found \cup {b \in Buttons : /\ CanLookUp(b)
                              /\ \A v \in Views : Answer(b, v) \cap found # {}}

Homeward == FoldLeft(LAMBDA found, i : LeadsTo(found), {Menu}, [i \in 1 .. 9 |-> i])

(***************************************************************************)
(* No message is a dead end: it has a button from which the menu is        *)
(* reached without paying or changing anything, whatever happened to the   *)
(* subscription since the message was sent (a test presses each button     *)
(* once, in the state it was made for).                                    *)
(***************************************************************************)
NoDeadEnd == screen.kb # {} => \E b \in screen.kb : b \in Homeward
=============================================================================
