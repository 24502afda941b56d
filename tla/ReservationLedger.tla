------------------------- MODULE ReservationLedger -------------------------
(***************************************************************************)
(* What the notification service promises about a reservation, without     *)
(* requests, runs, statements or connections: it is booked once, under an  *)
(* id of its own; it waits until its subscriber has been told of a song,   *)
(* and only then may it settle; it never waits again once settled, and     *)
(* never comes back once withdrawn.                                        *)
(*                                                                         *)
(* Telling does not settle by itself, so the promise is "at least once":   *)
(* the subscriber may be told again, even of a reservation withdrawn in    *)
(* the meantime.                                                           *)
(***************************************************************************)
EXTENDS Naturals

CONSTANTS Ids, Songs

VARIABLES
    life,             \* life[r]: where reservation r stands
    told              \* <<r, s>>: the subscriber of r has been told of s

Lives == {"unborn", "waiting", "settled", "withdrawn"}

Init ==
    /\ life = [r \in Ids |-> "unborn"]
    /\ told = {}

\* Ids are given out in order and never again.
Book(r) ==
    /\ life[r] = "unborn"
    /\ \A q \in Ids : q < r => life[q] # "unborn"
    /\ life' = [life EXCEPT ![r] = "waiting"]
    /\ UNCHANGED told

Booked == {r \in Ids : life[r] # "unborn"}

Tell(pairs) ==
    /\ pairs \subseteq Booked \X Songs
    /\ told' = told \cup pairs
    /\ UNCHANGED life

Settle(r) ==
    /\ life[r] = "waiting"
    /\ \E s \in Songs : <<r, s>> \in told
    /\ life' = [life EXCEPT ![r] = "settled"]
    /\ UNCHANGED told

Withdraw(r) ==
    /\ life[r] \in {"waiting", "settled"}
    /\ life' = [life EXCEPT ![r] = "withdrawn"]
    /\ UNCHANGED told

Next ==
    \/ \E r \in Ids : Book(r) \/ Settle(r) \/ Withdraw(r)
    \/ \E pairs \in SUBSET (Ids \X Songs) : Tell(pairs)

Spec == Init /\ [][Next]_<<life, told>>
=============================================================================
