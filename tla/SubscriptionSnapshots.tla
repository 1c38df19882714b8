------------------------ MODULE SubscriptionSnapshots ------------------------
(***************************************************************************)
(* One row of the subscription_snapshots table and the statements that     *)
(* write it.  Every component that changes a subscription shares them:     *)
(* the card path, the balance path, the notification scheduler and the     *)
(* operator's apply tool.                                                  *)
(*                                                                         *)
(* Instants are natural numbers starting at 1; 0 is SQL's NULL.            *)
(***************************************************************************)
EXTENDS Naturals

CONSTANT
  DefaultDevices    \* DEFAULT_DEVICE_LIMIT, the 5 of COALESCE($5, 5)

ASSUME DefaultDevicesAssumption == DefaultDevices \in Nat \ {0}

Null == 0

\* state_label values the code writes; "none" stands for the missing row.
StateLabels == {"none", "inactive", "active", "expired", "cancelled", "needs_review"}

(***************************************************************************)
(* plan is plan_id IS NOT NULL: the scheduler tells a trial from a paid    *)
(* subscription by it and nothing else looks inside.                       *)
(***************************************************************************)
Row == [state    : StateLabels,
        until    : Nat,         \* active_until_utc
        plan     : BOOLEAN,     \* plan_id IS NOT NULL
        devices  : Nat,         \* device_count
        trialEnd : Nat,         \* trial_expires_at
        keysOff  : Nat,         \* keys_deactivated_at
        keysGone : Nat]         \* keys_deleted_at

NoRow == [state |-> "none", until |-> Null, plan |-> FALSE, devices |-> Null,
          trialEnd |-> Null, keysOff |-> Null, keysGone |-> Null]

OrDefault(x, default) == IF x = Null THEN default ELSE x

(***************************************************************************)
(* _UPSERT_STATE.  device_count is COALESCEd to the default in the VALUES  *)
(* list already, so the COALESCE of the DO UPDATE branch never sees a NULL *)
(* and never keeps the stored count.  The trial instants are kept when the *)
(* caller passes none, and the two key instants are not in the statement.  *)
(***************************************************************************)
UpsertState(row, state, until, plan, devices, trialEnd) ==
  [row EXCEPT !.state    = state,
              !.until    = until,
              !.plan     = plan,
              !.devices  = OrDefault(devices, DefaultDevices),
              !.trialEnd = OrDefault(trialEnd, @)]

\* UPDATE ... SET keys_deactivated_at = NULL, keys_deleted_at = NULL
ClearKeyInstants(row) == [row EXCEPT !.keysOff = Null, !.keysGone = Null]

\* Mutant: a lapsed subscription is extended from its old end.
RenewedFromLapsed(currentUntil, anchor, period) ==
  (IF currentUntil # Null THEN currentUntil ELSE anchor) + period

(***************************************************************************)
(* The renewal rule of both payment paths: extend from the current end if  *)
(* it is later than the anchor (paid_at, or now), else from the anchor.    *)
(***************************************************************************)
RenewedUntil(currentUntil, anchor, period) ==
  (IF currentUntil > anchor THEN currentUntil ELSE anchor) + period
==============================================================================
