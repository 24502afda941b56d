-------------------------- MODULE ReservationApi --------------------------
(***************************************************************************)
(* The HTTP endpoints for devices and reservations.  A handler goroutine   *)
(* serves one request.  Update and Delete read the row and check its owner *)
(* in one statement and change it in another; between the two, any other   *)
(* handler and the scheduler may run.  A request that is refused, and a    *)
(* statement that fails before the last one, change nothing: they are the  *)
(* absence of a step.                                                      *)
(***************************************************************************)
EXTENDS ReservationStore

CONSTANTS
    Handlers,         \* goroutines of the server that can be inside Update/Delete
    NoReq             \* a handler with no checked request

VARIABLE req          \* req[h]: the request h has checked and not yet applied

Request == [op : {"update"}, device : Devices, res : ResIds, terms : Terms]
             \cup [op : {"delete"}, device : Devices, res : ResIds]

ASSUME ApiAssumption == NoReq \notin Request

ApiTypeOK == req \in [Handlers -> Request \cup {NoReq}]
ApiInit   == req = [h \in Handlers |-> NoReq]

-----------------------------------------------------------------------------
Register(d) ==
    /\ UpsertDevice(d)
    /\ UNCHANGED req

\* FindByToken and INSERT: one step, since a device never goes away.
Create(d, terms) ==
    /\ d \in devices
    /\ InsertReservation(d, terms)
    /\ UNCHANGED req

\* FindByToken, FindByID and the owner check of Update and Delete.
Check(h, rq) ==
    /\ req[h] = NoReq
    /\ rq.device \in devices
    /\ Exists(rq.res)
    /\ reservations[rq.res].device = rq.device
    /\ req' = [req EXCEPT ![h] = rq]
    /\ UNCHANGED storeVars

Answer(h) == req' = [req EXCEPT ![h] = NoReq]

ApplyUpdate(h) ==
    /\ req[h] # NoReq
    /\ req[h].op = "update"
    /\ UpdateTerms(req[h].res, req[h].terms)
    /\ Answer(h)

ApplyDelete(h) ==
    /\ req[h] # NoReq
    /\ req[h].op = "delete"
    /\ \E fk \in BOOLEAN : DeleteReservation(req[h].res, fk)
    /\ Answer(h)

\* The second statement fails (SQLITE_BUSY, a cancelled request context).
ApplyFails(h) ==
    /\ req[h] # NoReq
    /\ Answer(h)
    /\ UNCHANGED storeVars

ApiNext ==
    \/ \E d \in Devices : Register(d)
    \/ \E d \in Devices, t \in Terms : Create(d, t)
    \/ \E h \in Handlers, rq \in Request : Check(h, rq)
    \/ \E h \in Handlers : ApplyUpdate(h) \/ ApplyDelete(h) \/ ApplyFails(h)
=============================================================================
