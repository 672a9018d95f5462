------------------------------- MODULE Countdown -------------------------------
(***************************************************************************)
(* The countdown of the page in front of a destination                     *)
(* (internal/http/handler/gallery/redirect.js).  It leaves for the         *)
(* destination when its time is up; the visitor may stop it and start it   *)
(* again, look at another tab meanwhile, and the browser may put the page  *)
(* away and bring it back as it was.  The timer is a call the browser      *)
(* answers, early or late, in the background too: the script asks whether  *)
(* its page was put away (pagehide, pageshow), not whether it is visible.  *)
(***************************************************************************)
EXTENDS ConsoleCalls

CONSTANT Durations      \* moments the countdown may be set to

\* now is the clock, ran the time for which the countdown was open and not stopped;
\* away: the browser has put the page away; background: another tab is in front of it.
Init ==
    /\ \E d \in Durations :
           /\ db = [duration |-> d, now |-> 0, ran |-> 0]
           /\ ui = [remaining |-> d, startedAt |-> 0, paused |-> FALSE, leaving |-> FALSE,
                    details |-> FALSE, away |-> FALSE, background |-> FALSE]
    /\ calls = <<Get("tick", Effect)>>
    /\ clicks = 0

Timers(cs) == {k \in DOMAIN cs : cs[k].op = "tick"}
\* Mutant of NoTimer: the timer under way is left to fire.
NoTimerCleared == calls
NoTimer == Drop(calls, Timers(calls))

\* Time passes.
Passes ==
    /\ db' = [db EXCEPT !.now = @ + 1,
                        !.ran = IF ui.away \/ ui.paused \/ ui.leaving THEN @ ELSE @ + 1]
    /\ UNCHANGED <<ui, calls>>

Monus(a, b) == IF a < b THEN 0 ELSE a - b
UpdateRemaining(u) ==
    [u EXCEPT !.remaining = Monus(@, db.now - u.startedAt), !.startedAt = db.now]

\* tick(): nothing while stopped or leaving; the destination when no time is left;
\* otherwise another timer.
Tick(u, cs) ==
    LET v == UpdateRemaining(u)
    IN  IF u.paused \/ u.leaving THEN [u |-> u, cs |-> cs]
        ELSE IF v.remaining = 0
        THEN [u |-> [v EXCEPT !.leaving = TRUE], cs |-> Append(cs, Get("leave", Effect))]
        ELSE [u |-> v, cs |-> Append(cs, Get("tick", Effect))]

DeliverTick(i) == calls[i].op = "tick" /\ Show(Tick(ui, Rest(i)))

-----------------------------------------------------------------------------
Pause(u) ==
    LET v == IF u.paused \/ u.leaving THEN u ELSE UpdateRemaining(u)
    IN  [v EXCEPT !.paused = TRUE]

\* pagehide: the browser puts the page away as the visitor, or the page, goes on.
PageHide(u) == [Pause(u) EXCEPT !.away = TRUE]

DeliverLeave(i) == calls[i].op = "leave" /\ Show([u |-> PageHide(ui), cs |-> <<>>])

Deliver(i) == (DeliverTick(i) \/ DeliverLeave(i)) /\ UNCHANGED db

\* resume(): the time it was stopped for is not taken off.
\* Mutant of Resume: the clock goes on from where it was stopped.
ResumeLate(u) == [u EXCEPT !.paused = FALSE]
Resume(u) == [u EXCEPT !.paused = FALSE, !.startedAt = db.now]

\* Only a page that is on the screen is clicked.
OnScreen == ~ui.away /\ ~ui.background

Button ==
    /\ OnScreen
    /\ IF ~ui.paused THEN Show([u |-> Pause(ui), cs |-> NoTimer])
       ELSE IF ui.leaving THEN Set(ui) ELSE Show(Tick(Resume(ui), calls))

GoAway == ~ui.away /\ Show([u |-> PageHide(ui), cs |-> <<>>])

\* pageshow of a page kept as it was: it waits for the visitor.
ComeBack == ui.away /\ Set([Pause([ui EXCEPT !.leaving = FALSE]) EXCEPT !.away = FALSE])

\* Another tab comes in front, or goes: nothing listens to it.
SwitchTab == Set([ui EXCEPT !.background = ~@])

Details == OnScreen /\ Set([ui EXCEPT !.details = ~@])
Escape == OnScreen /\ ui.details /\ Set([ui EXCEPT !.details = FALSE])

Click == (Button \/ GoAway \/ ComeBack \/ SwitchTab \/ Details \/ Escape) /\ UNCHANGED db

Next ==
    \/ UserActs /\ (Click \/ Passes)
    \/ (\E i \in DOMAIN calls : Deliver(i)) /\ UNCHANGED clicks

\* What the page says: how much of the time is left, or that it is stopped.
Screen(u) == [number |-> IF u.paused THEN "stopped" ELSE "seconds", left |-> u.remaining, of |-> db.duration]
-----------------------------------------------------------------------------
TypeOK ==
    /\ ui.remaining \in 0 .. db.duration /\ ui.startedAt \in 0 .. db.now
    /\ {ui.paused, ui.leaving, ui.details, ui.away, ui.background} \subseteq BOOLEAN
    /\ db.ran \in 0 .. db.now

(* The page leaves only after its countdown ran for the whole of its time: *)
(* what it was stopped for, and what the browser had put it away for, does *)
(* not count, however often and however late (redirect.js:35-39, 68-91).   *)
(* A tab in the background counts down like any other.                     *)
NeverEarly == ui.leaving => db.ran >= db.duration

(* At most one timer runs, and none while the countdown is stopped, the    *)
(* page is leaving or it is put away (redirect.js:30-33, 54-82).           *)
OneTimer ==
    Cardinality(Timers(calls)) = IF ui.paused \/ ui.leaving \/ ui.away THEN 0 ELSE 1
=============================================================================
