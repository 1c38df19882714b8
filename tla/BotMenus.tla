------------------------------ MODULE BotMenus ------------------------------
(***************************************************************************)
(* The inline keyboards of the bot (storefront_ui.py) and what a pressed   *)
(* button is answered with (_render_storefront_response).                  *)
(*                                                                         *)
(* A button is its callback data, as a tuple; a keyboard is the set of its *)
(* buttons.  Labels, layout, links out of the chat and the "noop" labels   *)
(* are left out.  What the handlers look up before they answer is the view *)
(* v: the user's row, whether a trial is on offer, the balance and whether *)
(* the VPN provider knows the user's configuration.  Buttons that change   *)
(* something are answered in Storefront.                                   *)
(***************************************************************************)
EXTENDS Integers, FiniteSets

CONSTANTS
  Plans,            \* plan ids, those of custom plans ("custom:45") included
  ListedPlans,      \* get_available_plans()
  MonthPlan,        \* "1m", the plan of a row that names none
  PlanPrice,        \* price_rubles of each plan
  ExtraPrice,       \* round(80 / 30 * duration_days) of each plan
  Servers,          \* server labels of a user's configuration
  DefaultDevices,   \* DEFAULT_DEVICE_LIMIT
  MaxDevices,       \* MAX_DEVICE_COUNT
  NoPlan            \* plan_id IS NULL

ASSUME MenuAssumption ==
  /\ ListedPlans \subseteq Plans /\ MonthPlan \in Plans /\ NoPlan \notin Plans
  /\ PlanPrice \in [Plans -> Nat \ {0}] /\ ExtraPrice \in [Plans -> Nat \ {0}]
  /\ DefaultDevices \in Nat \ {0} /\ MaxDevices \in Nat /\ DefaultDevices <= MaxDevices

Devices == DefaultDevices .. MaxDevices

\* "lapsed" is labelled active while its date is past; "ended" is every other
\* label of a row (expired, cancelled); "none" is the missing row.
Statuses == {"none", "active", "lapsed", "ended"}

-----------------------------------------------------------------------------
(* Prices.                                                                 *)

\* calculate_total_price
TotalPrice(p, n) == PlanPrice[p] + (n - DefaultDevices) * ExtraPrice[p]

\* Mutant: the first extra device is taken for included.
CostOfOthers(new, current, plan) ==
  (new - current - 1) * ExtraPrice[IF plan = NoPlan THEN MonthPlan ELSE plan]

\* extra_device_cost at the rate of the row's plan; 30 days if it names none.
ExtraCost(new, current, plan) ==
  (new - current) * ExtraPrice[IF plan = NoPlan THEN MonthPlan ELSE plan]

-----------------------------------------------------------------------------
(* Keyboards of the shop.                                                  *)

Menu == <<"main_menu">>
Buy == <<"buy_vpn">>
Settings == <<"subscription_settings">>
AddDevice == <<"add_device">>
MyKeys == <<"my_keys">>
ConnectDevice == <<"connect_device">>

Back(button) == {button}

MainMenu(trial) ==
  {Buy, <<"my_subscription">>, MyKeys, ConnectDevice, <<"referral">>, <<"balance">>,
   <<"link_email">>, Settings, <<"help">>} \cup (IF trial THEN {<<"start_trial">>} ELSE {})

Welcome(trial) == IF trial THEN {<<"start_trial">>, Menu} ELSE MainMenu(FALSE)

PlanList == {<<"plan", p>> : p \in ListedPlans} \cup {<<"custom_days">>, Menu}

Larger(a, b) == IF a > b THEN a ELSE b
Smaller(a, b) == IF a < b THEN a ELSE b

DeviceSelect(p, n) ==
  {<<"devices", p, Larger(DefaultDevices, n - 1)>>, <<"devices", p, Smaller(MaxDevices, n + 1)>>,
   <<"confirm_pay", p, n>>, Buy}

ConfirmPay(p, n, balance) ==
  {<<"do_pay", p, n>>, <<"devices", p, n>>}
    \cup (IF balance >= TotalPrice(p, n) THEN {<<"pay_balance", p, n>>} ELSE {})

NoSubscription == {Buy, Menu}

SettingsKeyboard(subscribed, n) ==
  {<<"router_config">>, Menu}
    \cup (IF subscribed THEN {AddDevice} ELSE {})
    \cup (IF subscribed /\ n > DefaultDevices THEN {<<"remove_device">>} ELSE {})

AddDeviceSelect(n) ==
  {<<"add_dev", Larger(DefaultDevices, n - 1)>>, <<"add_dev", Smaller(MaxDevices, n + 1)>>, Settings}
    \cup (IF n > DefaultDevices THEN {<<"add_dev:confirm", n>>} ELSE {})

AddDeviceConfirm(n, balance, cost) ==
  {<<"add_dev_pay", n>>, AddDevice}
    \cup (IF balance >= cost /\ cost > 0 THEN {<<"add_dev_bal", n>>} ELSE {})

RemoveDevice(n) == {<<"remove_dev_confirm", n - 1>>, Settings}

MyKeysMenu == {<<"all_keys">>, Menu} \cup {<<"server", s>> : s \in Servers}

LinkEmail == {Menu}
LinkEmailCode == {<<"resend_email_code">>, Menu}

\* The keyboard the payment webhooks edit into the invoice message.
PaidKeyboard == {Menu, MyKeys}

-----------------------------------------------------------------------------
(* Keyboards of the connection guide: a chain of steps per platform and    *)
(* app, then the question whether it worked.                               *)

Connect(platform) == <<"connect", platform>>
Step(platform, app, n) == <<"step", platform, app, n>>
DidWork(platform) == <<"did_work", platform>>
Yes(platform) == <<"yes", platform>>
No(platform) == <<"no", platform>>
Retry(platform) == <<"retry", platform>>

Chain(platform, app, last, entry, done) ==
  [n \in 1 .. last |->
     {IF n = 1 THEN entry ELSE Step(platform, app, n - 1),
      IF n = last THEN done ELSE Step(platform, app, n + 1)}]

Asked(platform, last) == {Yes(platform), No(platform), Step(platform, "karing", last)}
Problem(platform) == {Retry(platform), DidWork(platform)}

ConnectMenu ==
  {Connect(p) : p \in {"win", "android", "ios", "mac", "tv"}} \cup {Menu}

AppChooser(platform) ==
  {Step(platform, "happ", 1), Step(platform, "karing", 1), ConnectDevice}

IosSteps == Chain("ios", "karing", 6, Connect("ios"), DidWork("ios"))
IosAsked == Asked("ios", 6)
IosProblem == Problem("ios")
MacSteps == Chain("mac", "karing", 6, Connect("mac"), DidWork("mac"))
MacAsked == Asked("mac", 6)
MacProblem == Problem("mac")
TvSteps == Chain("tv", "karing", 5, ConnectDevice, DidWork("tv"))
TvAsked == Asked("tv", 5)
TvProblem == Problem("tv")
AndroidSteps == Chain("android", "karing", 6, Connect("android"), DidWork("android"))
AndroidAsked == Asked("android", 6)
AndroidProblem == Problem("android")
WinSteps == Chain("win", "karing", 6, ConnectDevice, DidWork("win"))
WinAsked == Asked("win", 6)
WinProblem == Problem("win")

\* The last Happ step goes straight to success.
HappChain(platform) == Chain(platform, "happ", 6, Connect(platform), Yes(platform))
IosHapp == HappChain("ios")
MacHapp == HappChain("mac")

\* Mutant: a chain whose last step points at itself only.
AndroidHappStuck ==
  [HappChain("android") EXCEPT ![6] = {Step("android", "happ", 6)}]

AndroidHapp == HappChain("android")

\* The keyboards of one guide, by step.
Guide(platform, app) ==
  CASE platform = "ios" /\ app = "karing"     -> IosSteps
    [] platform = "mac" /\ app = "karing"     -> MacSteps
    [] platform = "tv"                        -> TvSteps
    [] platform = "android" /\ app = "karing" -> AndroidSteps
    [] platform = "win"                       -> WinSteps
    [] platform = "ios" /\ app = "happ"       -> IosHapp
    [] platform = "mac" /\ app = "happ"       -> MacHapp
    [] OTHER                                  -> AndroidHapp

DidWorkKeyboard(platform) ==
  CASE platform = "mac"     -> MacAsked
    [] platform = "tv"      -> TvAsked
    [] platform = "win"     -> WinAsked
    [] platform = "android" -> AndroidAsked
    [] OTHER                -> IosAsked

ProblemKeyboard(platform) ==
  CASE platform = "mac"     -> MacProblem
    [] platform = "tv"      -> TvProblem
    [] platform = "win"     -> WinProblem
    [] platform = "android" -> AndroidProblem
    [] OTHER                -> IosProblem

\* The first step of a guide, shown ungated by a retry and by CB_CONNECT_WIN
\* and CB_CONNECT_TV.
FirstStep(platform) == Guide(platform, "karing")[1]

-----------------------------------------------------------------------------
(* Answers.                                                                *)

HasActiveSubscription(v) == v.status = "active"

PlatformStep(b, v) ==
  IF HasActiveSubscription(v) THEN Guide(b[2], b[3])[b[4]] ELSE NoSubscription

\* The Karing import button of step 3 is built from the subscription URL;
\* without one Telegram takes the keyboard for invalid.  TV has no such button.
LinkIsBroken(b, v) ==
  /\ b[1] = "step" /\ HasActiveSubscription(v) /\ ~v.config
  /\ b[3] = "karing" /\ b[4] = 3 /\ b[2] # "tv"

KeysKnown(v) == HasActiveSubscription(v) /\ v.config

ConnectAnswer(b, v) ==
  CASE b[1] = "connect_device" -> IF HasActiveSubscription(v) THEN ConnectMenu ELSE NoSubscription
    [] b[1] = "connect"  -> IF b[2] \in {"win", "tv"} THEN FirstStep(b[2]) ELSE AppChooser(b[2])
    [] b[1] = "step"     -> PlatformStep(b, v)
    [] b[1] = "did_work" -> DidWorkKeyboard(b[2])
    [] b[1] = "yes"      -> MainMenu(v.trial)
    [] b[1] = "no"       -> ProblemKeyboard(b[2])
    [] b[1] = "retry"    -> FirstStep(b[2])

KeysAnswer(b, v) ==
  CASE b = MyKeys -> IF KeysKnown(v) THEN MyKeysMenu ELSE Back(Menu)
    [] OTHER      -> Back(MyKeys)

AccountAnswer(b, v) ==
  CASE b[1] = "my_subscription" ->
         IF HasActiveSubscription(v) THEN MainMenu(v.trial) ELSE NoSubscription
    [] b[1] = "referral"      -> Back(Menu)
    [] b[1] = "balance"       -> NoSubscription
    [] b[1] = "help"          -> Back(Menu)
    [] b[1] = "router_config" -> Back(Settings)
    [] b = Settings           -> SettingsKeyboard(HasActiveSubscription(v), v.devices)

BuyAnswer(b, v) ==
  CASE b = Buy                -> PlanList
    [] b[1] = "plan"          -> DeviceSelect(b[2], DefaultDevices)
    [] b[1] = "devices"       -> DeviceSelect(b[2], b[3])
    [] b[1] = "confirm_pay"   -> ConfirmPay(b[2], b[3], v.balance)

\* _render_add_device_confirm looks at the row, not at whether it is active.
AddConfirmAnswer(n, v) ==
  IF n <= v.devices THEN AddDeviceSelect(v.devices)
  ELSE AddDeviceConfirm(n, v.balance, ExtraCost(n, v.devices, v.plan))

RemoveAnswer(v) ==
  IF ~HasActiveSubscription(v) THEN Back(Menu)
  ELSE IF v.devices <= DefaultDevices THEN SettingsKeyboard(TRUE, v.devices)
  ELSE RemoveDevice(v.devices)

\* _render_add_device_intro
AddDeviceIntro(v) == IF HasActiveSubscription(v) THEN AddDeviceSelect(v.devices) ELSE Back(Menu)

DeviceAnswer(b, v) ==
  CASE b = AddDevice              -> AddDeviceIntro(v)
    [] b[1] = "add_dev"           -> AddDeviceSelect(b[2])
    [] b[1] = "add_dev:confirm"   -> AddConfirmAnswer(b[2], v)
    [] b[1] = "remove_device"     -> RemoveAnswer(v)

Platforms == {"ios", "mac", "tv", "android", "win"}

\* Every callback data a keyboard can carry.
Buttons ==
  {Menu, Buy, Settings, AddDevice, MyKeys, ConnectDevice}
    \cup {<<a>> : a \in {"my_subscription", "referral", "balance", "link_email", "help", "start_trial",
                         "custom_days", "router_config", "remove_device", "all_keys", "resend_email_code"}}
    \cup {<<"plan", p>> : p \in Plans} \cup {<<"server", s>> : s \in Servers}
    \cup {<<a, p, n>> : a \in {"devices", "confirm_pay", "do_pay", "pay_balance"}, p \in Plans, n \in Devices}
    \cup {<<a, n>> : a \in {"add_dev", "add_dev:confirm", "add_dev_pay", "add_dev_bal", "remove_dev_confirm"},
                    n \in Devices}
    \cup {<<a, p>> : a \in {"connect", "did_work", "yes", "no", "retry"}, p \in Platforms}
    \cup {Step(p, a, n) : p \in Platforms, a \in {"karing", "happ"}, n \in 1 .. 6}

\* The buttons whose handlers only look things up, by what answers them.
ConnectActs == {"connect_device", "connect", "step", "did_work", "yes", "no", "retry"}
KeysActs == {"my_keys", "all_keys", "server"}
AccountActs == {"my_subscription", "referral", "balance", "help", "router_config",
                "subscription_settings"}
BuyActs == {"buy_vpn", "plan", "devices", "confirm_pay"}
DeviceActs == {"add_device", "add_dev", "add_dev:confirm", "remove_device"}
Lookups == {"main_menu"} \cup ConnectActs \cup KeysActs \cup AccountActs \cup BuyActs \cup DeviceActs

(***************************************************************************)
(* _render_storefront_response for the buttons that change nothing.        *)
(***************************************************************************)
Answer(b, v) ==
  CASE b = Menu             -> MainMenu(v.trial)
    [] b[1] \in ConnectActs -> ConnectAnswer(b, v)
    [] b[1] \in KeysActs    -> KeysAnswer(b, v)
    [] b[1] \in AccountActs -> AccountAnswer(b, v)
    [] b[1] \in BuyActs     -> BuyAnswer(b, v)
    [] b[1] \in DeviceActs  -> DeviceAnswer(b, v)
=============================================================================
