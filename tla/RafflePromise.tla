--------------------------- MODULE RafflePromise ---------------------------
(***************************************************************************)
(* What the raffle promises its customers, with no connections, locks,     *)
(* pods or replies: an application is accepted together with its outbox    *)
(* event, once per user and item and never after the item was drawn, and   *)
(* a winner is somebody whose application was accepted.                    *)
(* RaffleService implements this specification.                            *)
(***************************************************************************)
CONSTANTS Users, Items, NoOne

VARIABLES
  accepted,   \* pairs <<user, item>> with a row in raffle_entries
  announced,  \* pairs <<user, item>> with an event in raffle_outbox_events
  drawn,      \* items whose is_drawn flag is set
  winner      \* winner_id of each item

vars == <<accepted, announced, drawn, winner>>

Init ==
  /\ accepted = {} /\ announced = {}
  /\ drawn = {}
  /\ winner = [i \in Items |-> NoOne]

(* One application is accepted, row and event in the same step.            *)
Accept(u, i) ==
  /\ <<u, i>> \notin accepted
  /\ i \notin drawn
  /\ accepted' = accepted \union {<<u, i>>}
  /\ announced' = announced \union {<<u, i>>}
  /\ UNCHANGED <<drawn, winner>>

(* One draw settles a set of items; each keeps its winner or receives one  *)
(* of its accepted applicants.                                             *)
Settle(S) ==
  /\ drawn' = drawn \union S
  /\ winner' \in [Items -> Users \union {NoOne}]
  /\ \A i \in Items : winner'[i] # winner[i] => i \in S /\ <<winner'[i], i>> \in accepted
  /\ UNCHANGED <<accepted, announced>>

Next ==
  \/ \E u \in Users, i \in Items : Accept(u, i)
  \/ \E S \in SUBSET Items : Settle(S)

Spec == Init /\ [][Next]_vars
=============================================================================
