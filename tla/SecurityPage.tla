----------------------------- MODULE SecurityPage -----------------------------
(***************************************************************************)
(* The second factor of the account (app/home/account/security/page.tsx).  *)
(* One handler at a time runs behind run(); a confirmed enrolment answers  *)
(* with the recovery codes, which no later call returns.                   *)
(***************************************************************************)
EXTENDS ConsoleCalls

Unknown == [available |-> FALSE, enabled |-> FALSE, pending |-> FALSE]

Mounted == [known |-> FALSE, status |-> Unknown, enrollment |-> FALSE, codes |-> FALSE,
            code |-> FALSE, password |-> FALSE, error |-> FALSE, busy |-> FALSE, loading |-> TRUE]

\* db: the status the API reports; a second factor may be switched off altogether.
Init ==
    /\ db \in [available : BOOLEAN, enabled : BOOLEAN, pending : {FALSE}]
    /\ ui = Mounted
    /\ calls = <<Get("status", Effect)>>
    /\ clicks = 0

-----------------------------------------------------------------------------
\* What the API makes of the status, when it does not refuse.
After(op) ==
    CASE op = "enroll"  -> [db EXCEPT !.pending = TRUE]
      [] op = "confirm" -> [db EXCEPT !.enabled = TRUE, !.pending = FALSE]
      [] op = "disable" -> [db EXCEPT !.enabled = FALSE, !.pending = FALSE]

Accepts(op) ==
    CASE op = "enroll"  -> db.available /\ ~db.enabled
      [] op = "confirm" -> db.available /\ db.pending
      [] op = "disable" -> db.available /\ db.enabled

\* A wrong code or password is refused as well.
Serve(i) ==
    /\ calls[i].st = "sent"
    /\ IF calls[i].op = "status" THEN calls' = Served(i, Ok(db)) /\ UNCHANGED db
       ELSE \/ Accepts(calls[i].op) /\ calls' = Served(i, Ok(db)) /\ db' = After(calls[i].op)
            \/ calls' = Served(i, Refused("invalid")) /\ UNCHANGED db
    /\ UNCHANGED ui

\* An administrator resets the account's factor meanwhile.
Reset == db.enabled /\ db' = [db EXCEPT !.enabled = FALSE] /\ UNCHANGED <<ui, calls>>

-----------------------------------------------------------------------------
LoadStatus(u, cs, then) ==
    [u |-> [u EXCEPT !.loading = TRUE, !.error = FALSE], cs |-> Append(cs, Get("status", then))]

\* The status is in; the handler that waited for it is over.
DeliverStatus(i) ==
    /\ calls[i].op = "status"
    /\ \E a \in Answers(i) :
           LET shown == IF a.ok THEN [ui EXCEPT !.known = TRUE, !.status = a.data]
                        ELSE [ui EXCEPT !.error = TRUE]
           IN  Show([u |-> [shown EXCEPT !.loading = FALSE,
                                         !.busy = IF calls[i].then = Effect THEN @ ELSE FALSE],
                     cs |-> Rest(i)])

Enrolled == [ui EXCEPT !.enrollment = TRUE, !.busy = FALSE]

Confirmed == [ui EXCEPT !.status.enabled = TRUE, !.status.pending = FALSE, !.codes = TRUE,
                        !.enrollment = FALSE, !.code = FALSE]

TurnedOff == [ui EXCEPT !.status.enabled = FALSE, !.status.pending = FALSE,
                        !.password = FALSE, !.code = FALSE, !.enrollment = FALSE]

DeliverDone(i) ==
    /\ calls[i].op # "status"
    /\ \E a \in Answers(i) :
           Show(IF ~a.ok THEN [u |-> [ui EXCEPT !.error = TRUE, !.busy = FALSE], cs |-> Rest(i)]
                ELSE IF calls[i].op = "enroll" THEN [u |-> Enrolled, cs |-> Rest(i)]
                ELSE LoadStatus(IF calls[i].op = "confirm" THEN Confirmed ELSE TurnedOff,
                                Rest(i), <<calls[i].op, 0>>))

Deliver(i) == (DeliverStatus(i) \/ DeliverDone(i)) /\ UNCHANGED db

-----------------------------------------------------------------------------
(* The section shows one of four panels, or none.                          *)
Panel ==
    IF ~ui.known \/ ~ui.status.available THEN "none"
    ELSE IF ui.codes THEN "codes"
    ELSE IF ui.enrollment THEN "enrollment"
    ELSE IF ui.status.enabled THEN "turn off" ELSE "turn on"

\* run(): one action at a time, the old error forgotten.
Run(u, op) == ~ui.busy /\ Send([u EXCEPT !.busy = TRUE, !.error = FALSE], Get(op, Effect))

StartEnroll == Panel = "turn on" /\ Run([ui EXCEPT !.codes = FALSE, !.code = FALSE], "enroll")
ConfirmEnroll == Panel = "enrollment" /\ ui.code /\ Run(ui, "confirm")
Disable == Panel = "turn off" /\ ui.password /\ ui.code /\ Run(ui, "disable")

CancelEnroll ==
    /\ Panel = "enrollment" /\ ~ui.busy
    /\ Set([ui EXCEPT !.enrollment = FALSE, !.code = FALSE, !.error = FALSE])

TypeCode == Panel \in {"enrollment", "turn off"} /\ Set([ui EXCEPT !.code = ~@])
TypePassword == Panel = "turn off" /\ Set([ui EXCEPT !.password = ~@])

RecoverySaved == Panel = "codes" /\ Set([ui EXCEPT !.codes = FALSE])

Retry == ui.error /\ ~ui.known /\ ~ui.loading /\ Show(LoadStatus(ui, calls, Effect))

Click ==
    /\ \/ StartEnroll \/ ConfirmEnroll \/ Disable \/ CancelEnroll
       \/ TypeCode \/ TypePassword \/ RecoverySaved \/ Retry
    /\ UNCHANGED db

Waiting == ui.loading \/ ui.busy

Next ==
    \/ UserActs /\ (Click \/ Reset)
    \/ (\E i \in DOMAIN calls : Serve(i) \/ Deliver(i)) /\ UNCHANGED clicks
-----------------------------------------------------------------------------
TypeOK ==
    /\ db \in [available : BOOLEAN, enabled : BOOLEAN, pending : BOOLEAN]
    /\ ui \in [known : BOOLEAN, enrollment : BOOLEAN, codes : BOOLEAN, code : BOOLEAN,
               password : BOOLEAN, error : BOOLEAN, busy : BOOLEAN, loading : BOOLEAN,
               status : [available : BOOLEAN, enabled : BOOLEAN, pending : BOOLEAN]]

(* The recovery codes leave the screen when their owner says they are      *)
(* saved (security/page.tsx:60-75).                                        *)
CodesStay == (ui.codes /\ ~ui'.codes) => clicks' # clicks
=============================================================================
