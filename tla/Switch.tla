------------------------------- MODULE Switch -------------------------------
(***************************************************************************)
(* What the supervisor promises (supervise.go:15): each tunnel is a switch *)
(* its user turns on and off, and the machine keeps the last position.     *)
(*                                                                         *)
(* The machine is slow, so a tunnel may come up on an order that was       *)
(* placed while the switch was on and has since been turned off.  What it  *)
(* may not do is come up on nobody's order, or take an order from a switch *)
(* that is off; and it may not stay up for good once the switch is off.    *)
(***************************************************************************)
CONSTANTS Names, Actors

VARIABLES
  choice,   \* the interfaces whose switch is on
  link,     \* the interfaces that are up
  orders    \* the <<actor, interface>> pairs: a is raising n, or is about to

switchVars == <<choice, link, orders>>

Init ==
  /\ choice \in SUBSET Names
  /\ link = {}
  /\ orders = {}

\* A tunnel that comes up comes up on an order.
Ordered == \A n \in link' \ link : \E a \in Actors : <<a, n>> \in orders

\* An order is placed by somebody who saw the switch on.
Authorised == \A o \in orders' \ orders : o[2] \in choice \cup choice'

Next ==
  /\ choice' \in SUBSET Names
  /\ link' \in SUBSET Names
  /\ orders' \in SUBSET (Actors \X Names)
  /\ Ordered
  /\ Authorised

Spec == Init /\ [][Next]_switchVars

\* A switch left off ends with its tunnel down, and a switch left on does not
\* end with its tunnel down.
Follows ==
  \A n \in Names :
    /\ <>[](n \notin choice) => <>[](n \notin link)
    /\ <>[](n \in choice) => []<>(n \in link)
=============================================================================
