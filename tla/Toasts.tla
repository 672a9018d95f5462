-------------------------------- MODULE Toasts ---------------------------------
(***************************************************************************)
(* Notifications and the button that copies a short link                   *)
(* (web/src/components/toast-provider.tsx, lib/feedback-queue.ts,          *)
(* components/copy-link-button.tsx).  A timer is a call the browser        *)
(* answers when its time has come; clearing it takes it out of the calls.  *)
(* The provider outlives the page the button is on.                        *)
(***************************************************************************)
EXTENDS ConsoleCalls

CONSTANT Limit          \* notifications on the screen: feedback-queue.ts:10

Mounted == [toasts |-> <<>>, sequence |-> 0, status |-> "idle", button |-> TRUE]

Init ==
    /\ db = [clipboard |-> 0]
    /\ ui = Mounted
    /\ calls = <<>>
    /\ clicks = 0

\* addToast: the newest first, and no more than the limit; removeToast.
RemoveToast(state, id) == Drop(state, {k \in DOMAIN state : state[k] = id})
AddToast(state, toast) ==
    LET next == <<toast>> \o RemoveToast(state, toast)
    IN  SubSeq(next, 1, IF Len(next) < Limit THEN Len(next) ELSE Limit)

Timer(op, id) == Call(op, [id |-> id], Effect)
TimersOf(cs, op, id) == {k \in DOMAIN cs : cs[k].op = op /\ cs[k].arg.id = id}
Clear(cs, op, id) == Drop(cs, TimersOf(cs, op, id))

Notify(u, cs) ==
    [u |-> [u EXCEPT !.toasts = AddToast(@, u.sequence), !.sequence = @ + 1],
     cs |-> Append(cs, Timer("dismiss", u.sequence))]

\* Mutant of Dismissed: dismiss() without its clearTimeout.
DismissedKeepingTimer(u, cs, id) == [u |-> [u EXCEPT !.toasts = RemoveToast(@, id)], cs |-> cs]
Dismissed(u, cs, id) ==
    [u |-> [u EXCEPT !.toasts = RemoveToast(@, id)], cs |-> Clear(cs, "dismiss", id)]

-----------------------------------------------------------------------------
\* The clipboard has taken the link, or refuses.
Serve(i) ==
    /\ calls[i].st = "sent" /\ calls[i].op = "write"
    /\ calls' = Served(i, Ok([n |-> 0]))
    /\ db' = [clipboard |-> calls[i].arg.id]
    /\ UNCHANGED ui

\* copy() goes on: the label tells, a notification is added, and the timer that
\* takes the label back starts again.
DeliverWrite(i) ==
    /\ calls[i].op = "write"
    /\ \E a \in Answers(i) :
           LET told == [ui EXCEPT !.status = IF ~ui.button THEN "idle"
                                             ELSE IF a.ok THEN "copied" ELSE "error"]
               n    == Notify(told, Clear(Rest(i), "reset", 0))
           IN  Show([u |-> n.u, cs |-> Append(n.cs, Timer("reset", 0))])

DeliverReset(i) == calls[i].op = "reset" /\ Show([u |-> [ui EXCEPT !.status = "idle"], cs |-> Rest(i)])
DeliverDismiss(i) == calls[i].op = "dismiss" /\ Show(Dismissed(ui, Rest(i), calls[i].arg.id))

Deliver(i) ==
    /\ DeliverWrite(i) \/ DeliverReset(i) \/ DeliverDismiss(i)
    /\ UNCHANGED db

-----------------------------------------------------------------------------
Copy == ui.button /\ Send(ui, Call("write", [id |-> clicks + 1], Effect))

Dismiss(k) ==
    /\ k \in DOMAIN ui.toasts
    /\ Show(Dismissed(ui, calls, ui.toasts[k]))

\* The page goes; its timer with it.  A copy under way still notifies.
Leave ==
    /\ ui.button
    /\ Show([u |-> [ui EXCEPT !.button = FALSE, !.status = "idle"], cs |-> Clear(calls, "reset", 0)])

Click ==
    /\ Copy \/ Leave \/ \E k \in 1 .. Limit : Dismiss(k)
    /\ UNCHANGED db

Waiting == ui.status # "idle" \/ ui.toasts # <<>>

Next ==
    \/ UserActs /\ Click
    \/ (\E i \in DOMAIN calls : Serve(i) \/ Deliver(i)) /\ UNCHANGED clicks
-----------------------------------------------------------------------------
TypeOK ==
    /\ ui.status \in {"idle", "copied", "error"} /\ ui.button \in BOOLEAN
    /\ Len(ui.toasts) <= Limit /\ \A k \in DOMAIN ui.toasts : ui.toasts[k] \in 0 .. ui.sequence - 1
    /\ db.clipboard \in 0 .. MaxClicks

(* No notification stays for ever: each one on the screen has one timer    *)
(* that has not fired, and no more, and none is there twice                *)
(* (toast-provider.tsx:37-56).                                             *)
TimedToasts ==
    \A k \in DOMAIN ui.toasts :
        /\ \E i \in DOMAIN calls : TimersOf(calls, "dismiss", ui.toasts[k]) = {i}
        /\ \A j \in DOMAIN ui.toasts : ui.toasts[j] = ui.toasts[k] => j = k

(* A notification that goes leaves no timer behind, but for the oldest one *)
(* of a full screen that a newer pushes out: the code does not clear its   *)
(* timer, which then removes nothing (toast-provider.tsx:37-44, 49-53,     *)
(* feedback-queue.ts:10-12).                                               *)
PushedOut(k) == k >= Limit /\ ui'.sequence # ui.sequence
TimersGo ==
    \A k \in DOMAIN ui.toasts :
        \/ \E j \in DOMAIN ui'.toasts : ui'.toasts[j] = ui.toasts[k]
        \/ TimersOf(calls', "dismiss", ui.toasts[k]) = {}
        \/ PushedOut(k)
=============================================================================
