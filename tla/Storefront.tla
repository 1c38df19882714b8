----------------------------- MODULE Storefront -----------------------------
(***************************************************************************)
(* One user's conversation with the bot: the message with the buttons, the *)
(* texts the bot waits for, the row, the referral balance, and the         *)
(* checkouts whose payments the webhook reports while the conversation     *)
(* goes on.                                                                *)
(*                                                                         *)
(* The bot handles updates one after the other; a second press that comes  *)
(* while the first is handled waits (late).  The webhook is a process of   *)
(* its own.  Payments from the balance and by card are single steps here;  *)
(* BalancePayment and Fulfillment look inside them.                        *)
(***************************************************************************)
EXTENDS BotMenus

CONSTANTS
  CustomPlan,       \* the plan of the number of days the user types
  InitialUsers,     \* records of a row and a balance
  Habits,           \* bound: the kinds of buttons and texts one user makes use of
  MaxCheckouts,     \* bound: checkouts a user opens
  MaxDeliveries,    \* bound: times a payment is notified
  Window,           \* _BALANCE_PAYMENT_DEBOUNCE_SECONDS, in units of time
  HandleTimes,      \* how long the bot may be busy with a balance payment
  None

ASSUME StorefrontAssumption ==
  /\ CustomPlan \in Plans
  /\ MaxCheckouts \in Nat /\ Window \in Nat \ {0} /\ HandleTimes \subseteq Nat /\ MaxDeliveries \in Nat \ {0}

\* A row has the devices of its plan at least, and no more than may be bought.
ASSUME UsersAssumption ==
  \A u \in InitialUsers :
    u.row \in [status : Statuses, plan : Plans \cup {NoPlan}, devices : Devices]

VARIABLES
  habit,      \* one of Habits; it does not change
  screen,     \* the latest message: its buttons and what it asks the user to type
  late,       \* a press that waits for the bot, and whether it repeats one that was charged
  busy,       \* a removal between its read and its write
  awaiting,   \* _awaiting_custom_days
  code,       \* the newest unused email code: "none", "pending" or "expired"
  row,        \* the subscription's status, plan and devices
  trialUsed,  \* user_identities.trial_used
  balance,    \* referral balance
  checkout,   \* the checkouts opened so far; extra is what of the amount is for devices
  since,      \* time since the last balance click, as far as Window
  spent       \* what was paid for extra devices so far

shopVars == <<habit, screen, late, busy, awaiting, code, row, trialUsed, balance, checkout, since, spent>>
chat == <<habit, screen, late, busy>>
typed == <<awaiting, code>>
money == <<balance, since>>

Checkouts == 1 .. MaxCheckouts

Unopened == [state |-> "unopened", kind |-> "plan", plan |-> MonthPlan, devices |-> DefaultDevices,
             amount |-> 0, extra |-> 0, read |-> None, tries |-> 0]

-----------------------------------------------------------------------------
(* What handlers look up, and how they answer.                             *)

\* _is_trial_available: the label counts, not the date.
TrialAvailable == ~trialUsed /\ row.status \notin {"active", "lapsed"}

ViewNow(config) ==
  [status |-> row.status, plan |-> row.plan, devices |-> row.devices,
   trial |-> TrialAvailable, balance |-> balance, config |-> config]

Screen(kb, asks) == [kb |-> kb, asks |-> asks]
Show(kb) == screen' = Screen(kb, "none")

\* The answer edits the message of the button, or replaces it; what Telegram
\* refuses leaves no message, for the old one is deleted first.
Lost == Screen({}, "none")

Lookup(b) ==
  /\ b[1] \in Lookups
  /\ \E config \in BOOLEAN :
       IF LinkIsBroken(b, ViewNow(config)) THEN screen' = Lost
       ELSE Show(Answer(b, ViewNow(config)))
  /\ UNCHANGED <<habit, busy, typed, row, trialUsed, money, checkout, spent>>

AskDays(b) ==
  /\ b = <<"custom_days">>
  /\ awaiting' = TRUE
  /\ screen' = Screen(Back(Buy), "days")
  /\ UNCHANGED <<habit, busy, code, row, trialUsed, money, checkout, spent>>

\* Codes still pending are marked used.
AskEmail(b) ==
  /\ b = <<"link_email">>
  /\ code' = "none"
  /\ screen' = Screen(LinkEmail, "email")
  /\ UNCHANGED <<habit, busy, awaiting, row, trialUsed, money, checkout, spent>>

\* _handle_resend_email_code: the old code goes first, then the hourly limit
\* may refuse a new one, or the mail server its delivery.
ResendCode(b) ==
  /\ b = <<"resend_email_code">>
  /\ IF code = "none"
     THEN screen' = Screen(LinkEmail, "email") /\ code' = code
     ELSE \/ code' = "none" /\ screen' = Screen(LinkEmailCode, "none")
          \/ code' = "pending" /\ screen' \in {Screen(LinkEmailCode, a) : a \in {"code", "none"}}
  /\ UNCHANGED <<habit, busy, awaiting, row, trialUsed, money, checkout, spent>>

\* _handle_trial_activation; the claim is given back if the keys fail.
StartTrial(b) ==
  /\ b = <<"start_trial">>
  /\ \/ /\ ~trialUsed
        /\ trialUsed' = TRUE
        /\ row' = [status |-> "active", plan |-> NoPlan, devices |-> DefaultDevices]
        /\ Show(MainMenu(FALSE))
     \/ Show(Back(Menu)) /\ UNCHANGED <<trialUsed, row>>
  /\ UNCHANGED <<habit, busy, typed, money, checkout, spent>>

-----------------------------------------------------------------------------
(* Card payments from the bot.                                             *)

Open(kind, plan, n, amount, extra) ==
  \E c \in Checkouts :
    /\ checkout[c].state = "unopened" /\ \A d \in 1 .. c - 1 : checkout[d].state # "unopened"
    /\ checkout' = [checkout EXCEPT ![c] =
         [Unopened EXCEPT !.state = "open", !.kind = kind, !.plan = plan, !.devices = n,
                          !.amount = amount, !.extra = extra]]

\* _process_yookassa_payment; YooKassa may fail or not be configured.
PayPlanByCard(b) ==
  /\ b[1] = "do_pay"
  /\ \/ Open("plan", b[2], b[3], TotalPrice(b[2], b[3]), TotalPrice(b[2], b[3]) - PlanPrice[b[2]])
     \/ UNCHANGED checkout
  /\ Show(Back(Buy))
  /\ UNCHANGED <<habit, busy, typed, row, trialUsed, money, spent>>

\* _process_add_device_yookassa
PayDevicesByCard(b) ==
  /\ b[1] = "add_dev_pay"
  /\ LET cost == ExtraCost(b[2], row.devices, row.plan)
     IN  IF row.status = "none"
         THEN Show(Back(Menu)) /\ UNCHANGED checkout
         ELSE IF b[2] <= row.devices
         THEN Show(AddDeviceSelect(row.devices)) /\ UNCHANGED checkout
         ELSE /\ Open("devices", row.plan, b[2], cost, cost) \/ UNCHANGED checkout
              /\ Show(Back(AddDevice))
  /\ UNCHANGED <<habit, busy, typed, row, trialUsed, money, spent>>

-----------------------------------------------------------------------------
(* Payments from the balance.                                              *)

FirstClick == since = Window

Stamped(d) == since' = Smaller(d, Window)

\* _process_balance_payment and the outcomes of pay_plan_from_balance.
PayPlanFromBalance(b) ==
  LET total == TotalPrice(b[2], b[3])
  IN  /\ b[1] = "pay_balance"
      /\ IF ~FirstClick
         THEN Show(Back(Menu)) /\ UNCHANGED <<balance, since, row, spent>>
         ELSE \E d \in HandleTimes :
                /\ Stamped(d)
                /\ \/ /\ balance >= total
                      /\ balance' = balance - total
                      /\ row' = [status |-> "active", plan |-> b[2], devices |-> b[3]]
                      /\ spent' = spent + (total - PlanPrice[b[2]])
                      /\ Show(MainMenu(FALSE))
                   \/ balance < total /\ Show(Back(Buy)) /\ UNCHANGED <<balance, row, spent>>
                   \/ Show(Back(Menu)) /\ UNCHANGED <<balance, row, spent>>
      /\ UNCHANGED <<habit, busy, typed, trialUsed, checkout>>

\* The transaction of _add_device_pg.
AddDevices(n) ==
  LET cost == ExtraCost(n, row.devices, row.plan)
  IN  IF balance < cost
      THEN Show(Back(Settings)) /\ UNCHANGED <<balance, row, spent>>
      ELSE /\ balance' = balance - cost
           /\ row' = [row EXCEPT !.devices = n]
           /\ spent' = spent + cost
           /\ Show(Back(Menu))

\* _process_add_device_balance; the label alone makes a row active here.
PayDevicesFromBalance(b) ==
  /\ b[1] = "add_dev_bal"
  /\ IF row.status \notin {"active", "lapsed"}
     THEN Show(Back(Menu)) /\ UNCHANGED <<balance, row, spent>>
     ELSE IF b[2] <= row.devices
     THEN Show(AddDeviceSelect(row.devices)) /\ UNCHANGED <<balance, row, spent>>
     ELSE AddDevices(b[2])
  /\ UNCHANGED <<habit, busy, typed, trialUsed, since, checkout>>

-----------------------------------------------------------------------------
(* Removing a device: the row is read, and later written back whole.       *)

RemoveRead(b) ==
  /\ b[1] = "remove_dev_confirm"
  /\ IF row.status = "none"
     THEN Show(Back(Menu)) /\ busy' = None
     ELSE IF b[2] >= row.devices \/ b[2] < DefaultDevices
     THEN Show(SettingsKeyboard(TRUE, row.devices)) /\ busy' = None
     ELSE busy' = [row EXCEPT !.devices = b[2]] /\ screen' = screen
  /\ UNCHANGED <<habit, typed, row, trialUsed, money, checkout, spent>>

RemoveWrite ==
  /\ busy # None
  /\ row' = busy /\ busy' = None
  /\ Show(Back(Menu))
  /\ UNCHANGED <<habit, late, typed, trialUsed, money, checkout, spent>>

-----------------------------------------------------------------------------
(* Presses.                                                                *)

Look(b) == Lookup(b) \/ AskDays(b) \/ AskEmail(b) \/ ResendCode(b)

Change(b) ==
  \/ StartTrial(b)
  \/ PayPlanByCard(b) \/ PayDevicesByCard(b)
  \/ PayPlanFromBalance(b) \/ PayDevicesFromBalance(b)
  \/ RemoveRead(b)

\* Buttons pressed twice, or one after the other, while the bot is at work.
\* Other late presses are answered like presses made in time.
Hasty == {"start_trial", "do_pay", "pay_balance", "add_dev_pay", "add_dev_bal", "remove_dev_confirm"}

BotFree == late = None /\ busy = None

Press(b) ==
  /\ BotFree /\ b \in screen.kb /\ b[1] \in habit
  /\ \/ Look(b) /\ late' = None
     \/ Change(b) /\ late' = None
     \/ /\ Change(b)
        /\ \E again \in screen.kb :
             /\ again[1] \in Hasty \cap habit
             /\ late' = [button |-> again, twin |-> again = b /\ balance' # balance]

PressLate ==
  /\ late # None /\ busy = None
  /\ Change(late.button)
  /\ late' = None

-----------------------------------------------------------------------------
(* Texts.                                                                  *)

\* /start, for a user who is known: identity_ready.
Start ==
  /\ BotFree
  /\ Show(Welcome(TrialAvailable))
  /\ UNCHANGED <<habit, late, busy, typed, row, trialUsed, money, checkout, spent>>

\* _handle_custom_days_input has the first claim on a text.
TypeWhileAwaiting(text) ==
  /\ awaiting
  /\ IF text = "days"
     THEN Show(DeviceSelect(CustomPlan, DefaultDevices)) /\ awaiting' = FALSE
     ELSE screen' = Screen(Back(Buy), "days") /\ awaiting' = TRUE
  /\ code' = code

\* _handle_email_linking with a code out: every text is taken for the code.
TypeCode(text) ==
  /\ ~awaiting /\ code # "none"
  /\ \/ code = "expired" /\ Show(LinkEmail) /\ code' = code
     \/ code = "pending" /\ text = "code" /\ code' = "none" /\ Show(MainMenu(TrialAvailable))
     \/ code = "pending" /\ screen' = Screen(LinkEmailCode, "code") /\ code' = code
     \/ code = "pending" /\ Show(LinkEmail) /\ code' = code
  /\ awaiting' = awaiting

\* ... and without one: an email gets a code, or is refused; the text of any
\* other message is answered without buttons, below the message that has them.
TypeEmail(text) ==
  /\ ~awaiting /\ code = "none"
  /\ IF text # "email" THEN UNCHANGED <<screen, code>>
     ELSE \/ Show(MainMenu(TrialAvailable)) /\ code' = code
          \/ Show(LinkEmail) /\ code' = code
          \/ code' = "pending" /\ screen' \in {Screen(LinkEmailCode, "code"), Screen(LinkEmail, "none")}
  /\ awaiting' = awaiting

Type(text) ==
  /\ BotFree /\ text \in habit
  /\ TypeWhileAwaiting(text) \/ TypeCode(text) \/ TypeEmail(text)
  /\ UNCHANGED <<habit, late, busy, row, trialUsed, money, checkout, spent>>

-----------------------------------------------------------------------------
(* The payment provider and its webhook.                                   *)

PayCheckout(c) ==
  /\ checkout[c].state = "open"
  /\ checkout' = [checkout EXCEPT ![c].state = "paid"]
  /\ spent' = spent + checkout[c].extra
  /\ UNCHANGED <<chat, typed, row, trialUsed, money>>

Notified(c) ==
  /\ checkout[c].state \in {"paid", "applied"} /\ checkout[c].tries < MaxDeliveries
  /\ checkout[c].read = None

\* _edit_payment_message_success: the invoice is the latest message, or not.
EditInvoice == \/ Show(PaidKeyboard)
               \/ screen' = screen

Settled(c, state) ==
  [checkout EXCEPT ![c].state = state, ![c].tries = @ + 1, ![c].read = None]

\* Mutant: the webhook expects the plan's price only.
PlanPriceOnly(p, n) == PlanPrice[p]

\* _expected_subscription_kopecks: what the plan and its devices cost.
ExpectedAmount(p, n) == TotalPrice(p, n)

\* handle_yookassa_webhook for a plan.
DeliverPlan(c) ==
  /\ Notified(c) /\ checkout[c].kind = "plan"
  /\ IF checkout[c].amount # ExpectedAmount(checkout[c].plan, checkout[c].devices)
     THEN checkout' = Settled(c, "refused") /\ UNCHANGED <<row, screen>>
     ELSE /\ checkout' = Settled(c, "applied")
          /\ row' = [status |-> "active", plan |-> checkout[c].plan, devices |-> checkout[c].devices]
          /\ EditInvoice
  /\ UNCHANGED <<habit, late, busy, typed, trialUsed, money, spent>>

\* metadata.expected_amount_kopecks: the cost the bot put into the checkout.
ExpectedTopUp(c) == checkout[c].extra

\* _apply_add_device_topup: the amount, then SELECT, maximum, UPDATE, without a lock.
TopUpRead(c) ==
  /\ Notified(c) /\ checkout[c].kind = "devices"
  /\ checkout' = IF checkout[c].amount # ExpectedTopUp(c)
                 THEN Settled(c, "refused")
                 ELSE [checkout EXCEPT ![c].read = row.devices]
  /\ UNCHANGED <<chat, typed, row, trialUsed, money, spent>>

TopUpWrite(c) ==
  LET target == Larger(checkout[c].read, checkout[c].devices)
  IN  /\ checkout[c].read # None
      /\ row' = IF target > checkout[c].read THEN [row EXCEPT !.devices = target] ELSE row
      /\ checkout' = Settled(c, "applied")
      /\ EditInvoice
      /\ UNCHANGED <<habit, late, busy, typed, trialUsed, money, spent>>

-----------------------------------------------------------------------------
(* Time.                                                                   *)

\* The date passes; the hourly job changes the label.
Lapse ==
  /\ \/ row.status = "active" /\ row' = [row EXCEPT !.status = "lapsed"]
     \/ row.status = "lapsed" /\ row' = [row EXCEPT !.status = "ended"]
  /\ UNCHANGED <<chat, typed, trialUsed, money, checkout, spent>>

CodeExpires ==
  /\ code = "pending" /\ code' = "expired"
  /\ UNCHANGED <<chat, awaiting, row, trialUsed, money, checkout, spent>>

TimePasses ==
  /\ BotFree /\ since < Window /\ since' = since + 1
  /\ UNCHANGED <<chat, typed, row, trialUsed, balance, checkout, spent>>

\* _awaiting_custom_days and the clicks are in the memory of the bot.
Restart ==
  /\ late' = None /\ busy' = None /\ awaiting' = FALSE /\ since' = Window
  /\ UNCHANGED <<habit, screen, code, row, trialUsed, balance, checkout, spent>>

-----------------------------------------------------------------------------
ShopInit ==
  /\ habit \in Habits
  /\ screen = Lost /\ late = None /\ busy = None /\ awaiting = FALSE /\ code = "none"
  /\ \E u \in InitialUsers :
       row = u.row /\ balance = u.balance /\ trialUsed = u.trialUsed
  /\ checkout = [c \in Checkouts |-> Unopened]
  /\ since = Window
  /\ spent = (row.devices - DefaultDevices) * ExtraPrice[MonthPlan]

Texts == {"days", "email", "code"}

ShopNext ==
  \/ \E b \in screen.kb : Press(b)
  \/ PressLate \/ RemoveWrite
  \/ Start
  \/ \E text \in Texts : Type(text)
  \/ \E c \in Checkouts : PayCheckout(c) \/ DeliverPlan(c) \/ TopUpRead(c) \/ TopUpWrite(c)
  \/ Lapse \/ CodeExpires \/ TimePasses \/ Restart

ShopSpec == ShopInit /\ [][ShopNext]_shopVars

\* YooKassa repeats a notification until it is accepted.
FairShopSpec ==
  ShopSpec /\ \A c \in Checkouts : WF_shopVars(DeliverPlan(c) \/ TopUpRead(c) \/ TopUpWrite(c))

-----------------------------------------------------------------------------
(* Properties.                                                             *)

(***************************************************************************)
(* Whatever was pressed late, removed, paid twice or notified again, the   *)
(* extra devices of the row were paid for, at the lowest rate at least     *)
(* (calculate_total_price, extra_device_cost, the webhook's maximum).      *)
(***************************************************************************)
DevicesArePaidFor ==
  \E p \in Plans : spent >= (row.devices - DefaultDevices) * ExtraPrice[p]

(***************************************************************************)
(* Who has paid a checkout the bot made is not refused, and has what it is *)
(* for at some time after: the plan and its devices, or at least as many   *)
(* devices.  The webhook's own prices agree with the bot's, and repeated   *)
(* notifications finish a top-up that was cut in two                       *)
(* (_expected_subscription_kopecks and _apply_add_device_topup).  How long *)
(* it lasts is not said: a removal or a renewal may follow, and of two     *)
(* top-ups at once, one of them from the balance, the lower count may be   *)
(* written last, against webhook.py:278 "can never reduce the count".      *)
(***************************************************************************)
Has(c) ==
  /\ checkout[c].state # "refused"
  /\ row.devices >= checkout[c].devices
  /\ checkout[c].kind = "plan" =>
       row.status = "active" /\ row.plan = checkout[c].plan /\ row.devices = checkout[c].devices

PaidIsHonoured == \A c \in Checkouts : checkout[c].state = "paid" ~> Has(c)
=============================================================================
