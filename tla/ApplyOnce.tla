------------------------------ MODULE ApplyOnce ------------------------------
(***************************************************************************)
(* What the billing documents promise of a paid event, whatever the        *)
(* provider, the network and the handlers do: it is applied once and then  *)
(* extends its payer's subscription by its period, what it earns the       *)
(* referrers is credited at most once and only afterwards, and the         *)
(* provider is told to stop only when it is applied.  A repeated           *)
(* notification has no new effect (30-uc-05: "must not double-apply period *)
(* extensions"; 40-payment-fulfillment-ingress: "not as a new subscription *)
(* activation").                                                           *)
(*                                                                         *)
(* Replay is no part of the promise.  It is the one thing the code does    *)
(* beyond it, kept apart so that all the rest can be claimed of the code.  *)
(***************************************************************************)
EXTENDS Naturals

CONSTANTS Users, Payments, Payer, Period

VARIABLES
  paidAt,    \* [Payments -> instant of payment, 0 before]
  sent,      \* [Payments -> notifications the provider has sent]
  until,     \* [Users -> end of the subscription]
  from,      \* [Payments -> the instant its period counts from, 0 before it is applied]
  applied, credits, acked

vars == <<paidAt, sent, until, from, applied, credits, acked>>

Later(a, b) == IF a > b THEN a ELSE b

Init ==
  /\ paidAt = [p \in Payments |-> 0]
  /\ sent = [p \in Payments |-> 0]
  /\ until \in [Users -> Nat]
  /\ from = [p \in Payments |-> 0]
  /\ applied = {}
  /\ credits = [p \in Payments |-> 0]
  /\ acked = {}

Pay(p) ==
  /\ paidAt[p] = 0
  /\ paidAt' = [paidAt EXCEPT ![p] = paidAt'[p]]
  /\ paidAt'[p] \in Nat \ {0}
  /\ UNCHANGED <<sent, until, from, applied, credits, acked>>

Notify(p) ==
  /\ paidAt[p] # 0
  /\ sent' = [sent EXCEPT ![p] = @ + 1]
  /\ UNCHANGED <<paidAt, until, from, applied, credits, acked>>

Apply(p) ==
  LET start == Later(until[Payer[p]], paidAt[p])
  IN  /\ sent[p] > 0
      /\ p \notin applied
      /\ applied' = applied \cup {p}
      /\ from' = [from EXCEPT ![p] = start]
      /\ until' = [until EXCEPT ![Payer[p]] = start + Period[p]]
      /\ UNCHANGED <<paidAt, sent, credits, acked>>

Credit(p) ==
  /\ p \in applied
  /\ credits[p] = 0
  /\ credits' = [credits EXCEPT ![p] = 1]
  /\ UNCHANGED <<paidAt, sent, until, from, applied, acked>>

Acknowledge(p) ==
  /\ p \in applied
  /\ acked' = acked \cup {p}
  /\ UNCHANGED <<paidAt, sent, until, from, applied, credits>>

Step(p) == Pay(p) \/ Notify(p) \/ Apply(p) \/ Credit(p) \/ Acknowledge(p)

Spec == Init /\ [][\E p \in Payments : Step(p)]_vars

(***************************************************************************)
(* A notification of an applied event rewrites the end: to a whole number  *)
(* of periods from where the event counted from, at least one and never    *)
(* more than there were notifications.                                     *)
(***************************************************************************)
Replay(p) ==
  /\ p \in applied
  /\ \E k \in 1 .. sent[p] :
        until' = [until EXCEPT ![Payer[p]] = from[p] + k * Period[p]]
  /\ UNCHANGED <<paidAt, sent, from, applied, credits, acked>>

SpecWithReplays == Init /\ [][\E p \in Payments : Step(p) \/ Replay(p)]_vars
==============================================================================
