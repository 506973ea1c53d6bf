---------------------------- MODULE OfferContract ----------------------------
(***************************************************************************)
(* The life of an offer as the caller of one VcalmHolder may rely on it,   *)
(* one call at a time: an offer is held from the reply that brings it      *)
(* until an accept or reject that returns Ok settles it, a newer offer     *)
(* takes its place or a new exchange begins. What has gone never returns.  *)
(***************************************************************************)
EXTENDS Naturals

CONSTANTS
  None,      \* no offer
  OkKinds    \* the ways an operation may succeed

VARIABLES
  held,    \* the offer to be resolved, or None
  given,   \* number of replies the server has given
  open,    \* whether the last of them is still to be taken in
  told     \* operation and outcome of the last call to return

contractVars == <<held, given, open, told>>

Settled == [op : {"accept", "reject"}, kind : OkKinds]

Init ==
  /\ held = None /\ given = 0 /\ open = FALSE
  /\ told = [op |-> "none", kind |-> "none"]

GiveReply ==
  /\ ~open /\ open' = TRUE
  /\ given' = given + 1
  /\ UNCHANGED <<held, told>>

\* Nothing becomes of the offer, unless it was to be settled.
Keep == held' = held /\ (told' \in Settled => told' = told)

Settle == held # None /\ held' = None /\ told' \in Settled

\* The reply in hand, and no earlier one, may bring the next offer.
Capture ==
  /\ open /\ ~open'
  /\ held' # None /\ held'.n = given
  /\ told'.kind = "Offer"

ReturnToCaller ==
  /\ Keep \/ Settle \/ Capture
  /\ open' => open
  /\ UNCHANGED given

BeginExchange == ~open /\ held' = None /\ UNCHANGED <<given, open, told>>

Next == GiveReply \/ ReturnToCaller \/ BeginExchange

Spec == Init /\ [][Next]_contractVars
=============================================================================
