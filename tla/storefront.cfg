SPECIFICATION FairShopSpec
CONSTANTS
  Plans = {m1, custom}
  ListedPlans = {m1}
  MonthPlan = m1
  CustomPlan = custom
  NoPlan = NoPlan
  PlanPrice <- MCPlanPrice
  ExtraPrice <- MCExtraPrice
  Servers = {fi}
  DefaultDevices = 5
  MaxDevices = 7
  InitialUsers <- MCInitialUsers
  Habits <- MCHabits
  MaxCheckouts = 2
  MaxDeliveries = 2
  Window = 1
  HandleTimes = {0}
  None = None
INVARIANTS NoDeadEnd DevicesArePaidFor
PROPERTY PaidIsHonoured
