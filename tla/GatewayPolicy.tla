--------------------------- MODULE GatewayPolicy ---------------------------
(***************************************************************************)
(* The Policy engine attached to the booking Gateway in ENFORCE mode: four *)
(* Cedar permits over one request, and denial when none of them applies.   *)
(* It keeps no state.  A hold request is what holdArguments puts on the    *)
(* wire: price is NoPrice, and approved FALSE, where the field is left     *)
(* out of the request.                                                     *)
(***************************************************************************)
EXTENDS Naturals

CONSTANTS
    Threshold,  \* HOLD_APPROVAL_THRESHOLD_LOCAL_AMOUNT
    NoPrice     \* stands for a price that is not there

ASSUME ThresholdAssumption == Threshold \in Nat \ {0}
ASSUME NoPriceAssumption == NoPrice \notin Nat

Price == Nat \ {0}

HoldArguments(candidateId, price, approved) ==
    [candidateId |-> candidateId, price |-> price, approved |-> approved]

\* "at or under" written as "under"
HoldThresholdPolicyStrict(input) ==
    input.price # NoPrice /\ input.price < Threshold

HoldThresholdPolicy(input) ==
    input.price # NoPrice /\ input.price <= Threshold

HoldApprovedPolicy(input) == input.approved

\* The decision for hold-flight and hold-hotel.  search-flights,
\* search-hotels and approve-hold are permitted unconditionally.
Permits(input) == HoldThresholdPolicy(input) \/ HoldApprovedPolicy(input)

\* A hold nobody may place without the Caller's approval (CONTEXT.md, Gated hold).
Gated(price) == price = NoPrice \/ price > Threshold
=============================================================================
