---------------------------- MODULE WebShell_proofs ----------------------------
(***************************************************************************)
(* Proofs about what surrounds the pages, the countdown in front of a      *)
(* destination, the trackers of the shell and the notifications, and about *)
(* what a page shows: the answer to what its controls ask.  At the end,    *)
(* all pages together: each keeps to its types.                            *)
(***************************************************************************)
EXTENDS WebPages_proofs, FiniteSetTheorems, WellFoundedInduction

(* NeverEarly for every duration.  While the countdown runs, the time left *)
(* and the time it ran account for the whole of it and for the clock since *)
(* it was last read; while it does not, they account for the whole alone.  *)
CountdownUi ==
    [remaining : Nat, startedAt : Nat, paused : BOOLEAN, leaving : BOOLEAN,
     details : BOOLEAN, away : BOOLEAN, background : BOOLEAN]
CountdownDb == [duration : Nat, now : Nat, ran : Nat]

Owed(u, d) == IF u.paused \/ u.leaving \/ u.away THEN 0 ELSE d.now - u.startedAt

InAccount(u, d) ==
    /\ u \in CountdownUi /\ d \in CountdownDb
    /\ u.startedAt <= d.now /\ u.remaining <= d.duration /\ d.ran <= d.now
    /\ d.ran + u.remaining >= d.duration + Owed(u, d)
    /\ u.leaving => d.ran >= d.duration
    /\ u.away => u.paused

\* The inductive invariant.
CountdownInv == InAccount(ui, db)

\* Reading the clock of a running countdown keeps the account.
LEMMA UpdateInAccount ==
    ASSUME NEW u, InAccount(u, db), ~u.paused, ~u.leaving
    PROVE  /\ InAccount(Interstitial!UpdateRemaining(u), db)
           /\ Interstitial!UpdateRemaining(u).startedAt = db.now
           /\ Interstitial!UpdateRemaining(u).remaining = 0 => db.ran >= db.duration
<1> DEFINE v == Interstitial!UpdateRemaining(u)
<1>1. /\ u \in CountdownUi /\ db \in CountdownDb /\ u.startedAt <= db.now
      /\ u.remaining <= db.duration /\ db.ran <= db.now
      /\ db.ran + u.remaining >= db.duration + Owed(u, db)
      /\ u.away => u.paused
  BY DEF InAccount
<1>2. Owed(u, db) = db.now - u.startedAt
  BY <1>1 DEF Owed
<1>3. /\ u.remaining \in Nat /\ u.startedAt \in Nat /\ u.paused \in BOOLEAN
      /\ db.now \in Nat /\ db.ran \in Nat /\ db.duration \in Nat
  BY <1>1 DEF CountdownUi, CountdownDb
<1>4. Interstitial!Monus(u.remaining, db.now - u.startedAt) \in Nat
  BY <1>1, <1>3 DEF Interstitial!Monus
<1>5. /\ v \in CountdownUi /\ v.startedAt = db.now
      /\ v.remaining = Interstitial!Monus(u.remaining, db.now - u.startedAt)
      /\ v.paused = u.paused /\ v.leaving = u.leaving /\ v.away = u.away
  BY <1>1, <1>3, <1>4 DEF Interstitial!UpdateRemaining, CountdownUi
<1>6. db.ran + v.remaining >= db.duration /\ v.remaining <= db.duration
  BY <1>1, <1>2, <1>3, <1>5 DEF Interstitial!Monus
<1>7. v.remaining = 0 => db.ran >= db.duration
  BY <1>3, <1>6
<1>8. Owed(v, db) = 0
  BY <1>3, <1>5 DEF Owed
<1> QED
  BY <1>1, <1>3, <1>5, <1>6, <1>7, <1>8 DEF InAccount

\* What stops, or changes nothing that counts, keeps the account as well.
LEMMA StopInAccount ==
    ASSUME NEW u, NEW v, InAccount(u, db), v \in CountdownUi,
           v.startedAt = u.startedAt, v.remaining = u.remaining,
           v.paused \/ v.leaving \/ v.away \/ (~u.paused /\ ~u.leaving /\ ~u.away),
           v.leaving => u.leaving \/ db.ran >= db.duration,
           v.away => v.paused
    PROVE  InAccount(v, db)
<1>1. /\ u \in CountdownUi /\ db \in CountdownDb /\ u.startedAt <= db.now
      /\ u.remaining <= db.duration /\ db.ran <= db.now
      /\ db.ran + u.remaining >= db.duration + Owed(u, db)
      /\ u.leaving => db.ran >= db.duration
  BY DEF InAccount
<1>2. /\ u.remaining \in Nat /\ u.startedAt \in Nat
      /\ db.now \in Nat /\ db.ran \in Nat /\ db.duration \in Nat
  BY <1>1 DEF CountdownUi, CountdownDb
<1>3. Owed(v, db) <= Owed(u, db)
  BY <1>1, <1>2 DEF Owed
<1>4. Owed(v, db) \in Nat /\ Owed(u, db) \in Nat
  BY <1>1, <1>2 DEF Owed
<1>5. db.ran + v.remaining >= db.duration + Owed(v, db)
  BY <1>1, <1>2, <1>3, <1>4
<1> QED
  BY <1>1, <1>5 DEF InAccount

LEMMA PauseInAccount ==
    ASSUME NEW u, InAccount(u, db)
    PROVE  InAccount(Interstitial!Pause(u), db) /\ Interstitial!Pause(u).paused
<1>1. CASE u.paused \/ u.leaving
  <2>1. u \in CountdownUi
    BY DEF InAccount
  <2>2. Interstitial!Pause(u) = [u EXCEPT !.paused = TRUE]
    BY <1>1 DEF Interstitial!Pause
  <2>3. /\ Interstitial!Pause(u) \in CountdownUi /\ Interstitial!Pause(u).paused
        /\ Interstitial!Pause(u).startedAt = u.startedAt
        /\ Interstitial!Pause(u).remaining = u.remaining
        /\ Interstitial!Pause(u).leaving = u.leaving
    BY <2>1, <2>2 DEF CountdownUi
  <2> QED
    BY <2>3, StopInAccount
<1>2. CASE ~u.paused /\ ~u.leaving
  <2> DEFINE v == Interstitial!UpdateRemaining(u)
  <2>1. InAccount(v, db) /\ v \in CountdownUi
    BY <1>2, UpdateInAccount DEF InAccount
  <2>2. Interstitial!Pause(u) = [v EXCEPT !.paused = TRUE]
    BY <1>2 DEF Interstitial!Pause
  <2>3. /\ Interstitial!Pause(u) \in CountdownUi /\ Interstitial!Pause(u).paused
        /\ Interstitial!Pause(u).startedAt = v.startedAt
        /\ Interstitial!Pause(u).remaining = v.remaining
        /\ Interstitial!Pause(u).leaving = v.leaving
    BY <2>1, <2>2 DEF CountdownUi
  <2> QED
    BY <2>1, <2>3, StopInAccount
<1> QED
  BY <1>1, <1>2

LEMMA PageHideInAccount ==
    ASSUME NEW u, InAccount(u, db)
    PROVE  InAccount(Interstitial!PageHide(u), db)
<1>1. /\ InAccount(Interstitial!Pause(u), db) /\ Interstitial!Pause(u).paused
      /\ Interstitial!Pause(u) \in CountdownUi
  BY PauseInAccount DEF InAccount
<1>2. /\ Interstitial!PageHide(u) \in CountdownUi /\ Interstitial!PageHide(u).paused
      /\ Interstitial!PageHide(u).startedAt = Interstitial!Pause(u).startedAt
      /\ Interstitial!PageHide(u).remaining = Interstitial!Pause(u).remaining
      /\ Interstitial!PageHide(u).leaving = Interstitial!Pause(u).leaving
  BY <1>1 DEF Interstitial!PageHide, CountdownUi
<1> QED
  BY <1>1, <1>2, StopInAccount

\* A tick leaves only when the countdown ran for the whole of its time.
LEMMA TickInAccount ==
    ASSUME NEW u, NEW cs, InAccount(u, db)
    PROVE  InAccount(Interstitial!Tick(u, cs).u, db)
<1>1. CASE u.paused \/ u.leaving
  BY <1>1 DEF Interstitial!Tick
<1>2. CASE ~u.paused /\ ~u.leaving
  <2> DEFINE v == Interstitial!UpdateRemaining(u)
  <2>1. /\ InAccount(v, db)
        /\ v.remaining = 0 => db.ran >= db.duration
    BY <1>2, UpdateInAccount
  <2>2. CASE v.remaining = 0
    <3>1. Interstitial!Tick(u, cs).u = [v EXCEPT !.leaving = TRUE]
      BY <1>2, <2>2 DEF Interstitial!Tick
    <3>2. v \in CountdownUi
      BY <2>1 DEF InAccount
    <3>3. /\ Interstitial!Tick(u, cs).u \in CountdownUi /\ Interstitial!Tick(u, cs).u.leaving
          /\ Interstitial!Tick(u, cs).u.startedAt = v.startedAt
          /\ Interstitial!Tick(u, cs).u.remaining = v.remaining
          /\ Interstitial!Tick(u, cs).u.away = v.away
          /\ Interstitial!Tick(u, cs).u.paused = v.paused
      BY <3>1, <3>2 DEF CountdownUi
    <3>4. v.away => v.paused
      BY <2>1 DEF InAccount
    <3> QED
      BY <2>1, <2>2, <3>3, <3>4, StopInAccount
  <2>3. CASE v.remaining # 0
    <3>1. Interstitial!Tick(u, cs).u = v
      BY <1>2, <2>3 DEF Interstitial!Tick
    <3> QED
      BY <2>1, <3>1
  <2> QED
    BY <2>2, <2>3
<1> QED
  BY <1>1, <1>2

LEMMA ResumeInAccount ==
    ASSUME NEW u, InAccount(u, db), ~u.away, u.paused
    PROVE  InAccount(Interstitial!Resume(u), db)
<1>1. /\ u \in CountdownUi /\ db \in CountdownDb
      /\ db.ran + u.remaining >= db.duration + Owed(u, db)
      /\ u.leaving => db.ran >= db.duration
  BY DEF InAccount
<1>2. db.now \in Nat /\ Owed(u, db) = 0
  BY <1>1 DEF CountdownDb, Owed
<1>3. /\ Interstitial!Resume(u) \in CountdownUi /\ Interstitial!Resume(u).startedAt = db.now
      /\ Interstitial!Resume(u).remaining = u.remaining
      /\ Interstitial!Resume(u).leaving = u.leaving
      /\ Interstitial!Resume(u).away = u.away
  BY <1>1, <1>2 DEF Interstitial!Resume, CountdownUi
<1>4. Owed(Interstitial!Resume(u), db) = 0
  BY <1>2, <1>3 DEF Owed
<1> QED
  BY <1>1, <1>2, <1>3, <1>4 DEF InAccount

LEMMA CountdownInit == ASSUME Interstitial!Init PROVE CountdownInv
BY DurationsAssumption DEF Interstitial!Init, CountdownInv, InAccount, Owed, CountdownUi,
                           CountdownDb

LEMMA CountdownPasses == ASSUME CountdownInv, Interstitial!Passes PROVE CountdownInv'
<1>1. /\ ui \in CountdownUi /\ db \in CountdownDb /\ ui.startedAt <= db.now /\ ui' = ui
      /\ ui.remaining <= db.duration /\ db.ran <= db.now
      /\ db.ran + ui.remaining >= db.duration + Owed(ui, db)
      /\ ui.leaving => db.ran >= db.duration
      /\ ui.away => ui.paused
  BY DEF Interstitial!Passes, CountdownInv, InAccount
<1>2. /\ ui.remaining \in Nat /\ ui.startedAt \in Nat
      /\ db.now \in Nat /\ db.ran \in Nat /\ db.duration \in Nat
  BY <1>1 DEF CountdownUi, CountdownDb
<1>3. /\ db' \in CountdownDb /\ db'.now = db.now + 1 /\ db'.duration = db.duration
      /\ db'.ran = IF ui.away \/ ui.paused \/ ui.leaving THEN db.ran ELSE db.ran + 1
  <2> DEFINE w == IF ui.away \/ ui.paused \/ ui.leaving THEN db.ran ELSE db.ran + 1
  <2>1. db' = [db EXCEPT !.now = @ + 1, !.ran = w]
    BY DEF Interstitial!Passes
  <2>2. w \in Nat /\ db.now + 1 \in Nat
    BY <1>2
  <2> HIDE DEF w
  <2>3. db' \in CountdownDb /\ db'.now = db.now + 1 /\ db'.duration = db.duration /\ db'.ran = w
    BY <1>1, <2>1, <2>2 DEF CountdownDb
  <2> QED
    BY <2>3 DEF w
<1>4. db'.ran + ui.remaining >= db'.duration + Owed(ui, db')
  BY <1>1, <1>2, <1>3 DEF Owed
<1>5. /\ ui.startedAt <= db'.now /\ (ui.leaving => db'.ran >= db'.duration)
      /\ ui.remaining <= db'.duration /\ db'.ran <= db'.now
  BY <1>1, <1>2, <1>3
<1> QED
  BY <1>1, <1>3, <1>4, <1>5 DEF CountdownInv, InAccount

LEMMA CountdownClick == ASSUME CountdownInv, Interstitial!Click PROVE CountdownInv'
<1> USE DEF CountdownInv
<1>1. db' = db
  BY DEF Interstitial!Click
<1>2. CASE Interstitial!Button
  <2>1. CASE ~ui.paused
    BY <1>1, <1>2, <2>1, PauseInAccount DEF Interstitial!Button, Interstitial!Show
  <2>2. CASE ui.paused /\ ui.leaving
    BY <1>1, <1>2, <2>2 DEF Interstitial!Button, Interstitial!Set
  <2>3. CASE ui.paused /\ ~ui.leaving
    <3>1. ~ui.away /\ ui' = Interstitial!Tick(Interstitial!Resume(ui), calls).u
      BY <1>2, <2>3 DEF Interstitial!Button, Interstitial!OnScreen, Interstitial!Show
    <3>2. InAccount(Interstitial!Resume(ui), db)
      BY <2>3, <3>1, ResumeInAccount
    <3> QED
      BY <1>1, <3>1, <3>2, TickInAccount
  <2> QED
    BY <2>1, <2>2, <2>3
<1>3. CASE Interstitial!GoAway
  BY <1>1, <1>3, PageHideInAccount DEF Interstitial!GoAway, Interstitial!Show
<1>4. CASE Interstitial!ComeBack
  <2> DEFINE u == [ui EXCEPT !.leaving = FALSE]
  <2>1. InAccount(u, db) /\ u.paused
    BY <1>4 DEF Interstitial!ComeBack, InAccount, Owed, CountdownUi, CountdownDb
  <2>2. InAccount(Interstitial!Pause(u), db) /\ Interstitial!Pause(u).paused
    BY <2>1, PauseInAccount
  <2>3. ui' = [Interstitial!Pause(u) EXCEPT !.away = FALSE]
    BY <1>4 DEF Interstitial!ComeBack, Interstitial!Set
  <2>4. Interstitial!Pause(u) \in CountdownUi
    BY <2>2 DEF InAccount
  <2>5. /\ ui' \in CountdownUi /\ ui'.paused /\ ~ui'.away
        /\ ui'.leaving = Interstitial!Pause(u).leaving
        /\ ui'.startedAt = Interstitial!Pause(u).startedAt
        /\ ui'.remaining = Interstitial!Pause(u).remaining
    BY <2>2, <2>3, <2>4 DEF CountdownUi
  <2>6. InAccount(ui', db)
    BY <2>2, <2>5, StopInAccount
  <2> QED
    BY <1>1, <2>6
<1>5. CASE Interstitial!SwitchTab \/ Interstitial!Details \/ Interstitial!Escape
  <2>1. ui \in CountdownUi
    BY DEF InAccount
  <2>2. /\ ui' \in CountdownUi /\ ui'.startedAt = ui.startedAt /\ ui'.remaining = ui.remaining
        /\ ui'.paused = ui.paused /\ ui'.leaving = ui.leaving /\ ui'.away = ui.away
    BY <1>5, <2>1 DEF Interstitial!SwitchTab, Interstitial!Details, Interstitial!Escape, Interstitial!Set, CountdownUi
  <2>3. InAccount(ui', db)
    BY <2>2 DEF InAccount, Owed
  <2> QED
    BY <1>1, <2>3
<1> QED
  BY <1>2, <1>3, <1>4, <1>5 DEF Interstitial!Click

LEMMA CountdownDeliver == ASSUME CountdownInv, NEW i, Interstitial!Deliver(i) PROVE CountdownInv'
<1>1. db' = db
  BY DEF Interstitial!Deliver
<1>2. CASE Interstitial!DeliverTick(i)
  BY <1>1, <1>2, TickInAccount DEF Interstitial!DeliverTick, Interstitial!Show, CountdownInv
<1>3. CASE Interstitial!DeliverLeave(i)
  BY <1>1, <1>3, PageHideInAccount DEF Interstitial!DeliverLeave, Interstitial!Show, CountdownInv
<1> QED
  BY <1>2, <1>3 DEF Interstitial!Deliver

LEMMA CountdownNext == ASSUME CountdownInv, Interstitial!Next \/ Still PROVE CountdownInv'
<1>1. CASE Interstitial!UserActs /\ (Interstitial!Click \/ Interstitial!Passes)
  BY <1>1, CountdownClick, CountdownPasses
<1>2. CASE \E i \in DOMAIN calls : Interstitial!Deliver(i)
  BY <1>2, CountdownDeliver
<1>3. CASE Still
  BY <1>3 DEF Still, CountdownInv, InAccount, Owed
<1> QED
  BY <1>1, <1>2, <1>3 DEF Interstitial!Next

(* Whatever the visitor and the browser do with the page, and whenever its *)
(* timers fire, in the background or late, it leaves only once the         *)
(* countdown ran for the whole of its time: nothing it was stopped or put  *)
(* away for counts (redirect.js:35-39, 68-91).                             *)
THEOREM NeverEarlyAlways == Spec => []NeverEarly
<1> DEFINE I == page = "countdown" => CountdownInv
<1>1. Init => I
  BY Mounts, CountdownInit
<1>2. I /\ [Next]_vars => I'
  BY Steps, CountdownNext
<1>3. I => NeverEarly
  BY DEF CountdownInv, InAccount, Interstitial!NeverEarly, NeverEarly
<1> QED
  BY <1>1, <1>2, <1>3, PTL DEF Spec

-----------------------------------------------------------------------------
(* CountedOnce for every account, path and set of trackers.  What a tracker*)
(* has counted lies at or below the visit under way; a tracker not loaded  *)
(* has counted nothing, so the page a snippet finds is new to it; and      *)
(* between two steps the effect has seen the visit under way.              *)
ShellFields ==
    {"desktop", "drawer", "focus", "path", "visit", "seen", "menu", "group", "user",
     "scopes", "out", "trackers", "log", "loaded"}

OnceEach(s) == \A j, k \in DOMAIN s : s[j] = s[k] => j = k
UpTo(s, n) == s \in Seq(Nat) /\ OnceEach(s) /\ \A j \in DOMAIN s : s[j] <= n

\* The pages counted by u lie at or below n.
Counted(u, n) ==
    /\ DOMAIN u = ShellFields /\ DOMAIN u.log = Console!Told
    /\ \A f \in Console!Told : UpTo(u.log[f], n) /\ (f \notin u.loaded => u.log[f] = <<>>)

CountedSoFar(u) == u.visit \in Nat /\ u.seen = u.visit /\ Counted(u, u.visit)

\* The inductive invariant.
TrackersInv == CountedSoFar(ui)

LEMMA AppendNew ==
    ASSUME NEW n \in Nat, NEW s, UpTo(s, n)
    PROVE  UpTo(Append(s, n + 1), n + 1)
<1> DEFINE t == Append(s, n + 1)
<1>1. s \in Seq(Nat) /\ Len(s) \in Nat /\ DOMAIN s = 1 .. Len(s)
  BY DEF UpTo
<1>2. /\ t \in Seq(Nat) /\ DOMAIN t = 1 .. Len(s) + 1 /\ t[Len(s) + 1] = n + 1
      /\ \A j \in 1 .. Len(s) : t[j] = s[j]
  BY <1>1
<1>3. \A j \in 1 .. Len(s) : t[j] \in Nat /\ t[j] <= n
  BY <1>1, <1>2 DEF UpTo
<1>4. \A j \in DOMAIN t : t[j] <= n + 1
  BY <1>1, <1>2, <1>3
<1>5. ASSUME NEW j \in DOMAIN t, NEW k \in DOMAIN t, t[j] = t[k] PROVE j = k
  <2>1. CASE j \in 1 .. Len(s) /\ k \in 1 .. Len(s)
    BY <1>1, <1>2, <1>5, <2>1 DEF UpTo, OnceEach
  <2>2. CASE j = Len(s) + 1 /\ k = Len(s) + 1
    BY <2>2
  <2>3. CASE j = Len(s) + 1 /\ k \in 1 .. Len(s)
    BY <1>2, <1>3, <1>5, <2>3
  <2>4. CASE k = Len(s) + 1 /\ j \in 1 .. Len(s)
    BY <1>2, <1>3, <1>5, <2>4
  <2> QED
    BY <1>1, <1>2, <2>1, <2>2, <2>3, <2>4
<1> QED
  BY <1>2, <1>4, <1>5 DEF UpTo, OnceEach

LEMMA UpToNext == ASSUME NEW n \in Nat, NEW s, UpTo(s, n) PROVE UpTo(s, n + 1)
<1>1. \A j \in DOMAIN s : s[j] \in Nat
  BY DEF UpTo
<1> QED
  BY <1>1 DEF UpTo

\* What touches neither the visits nor what was counted of them.
LEMMA SameCount ==
    ASSUME NEW u, NEW v, CountedSoFar(u), DOMAIN v = ShellFields,
           v.visit = u.visit, v.seen = u.seen, v.log = u.log, v.loaded = u.loaded
    PROVE  CountedSoFar(v)
BY DEF CountedSoFar, Counted

\* The effect reports a page that is new.
LEMMA ReportsCounted ==
    ASSUME NEW u, NEW n \in Nat, Counted(u, n), u.visit = n + 1, u.seen = n
    PROVE  CountedSoFar(Console!Reports(u))
<1> DEFINE log == [f \in Console!Told |-> IF f \in u.trackers \cap u.loaded
                                  THEN Append(u.log[f], u.visit) ELSE u.log[f]]
           v == Console!Reports(u)
<1>1. v = [u EXCEPT !.seen = u.visit, !.log = log]
  BY DEF Console!Reports
<1>2. DOMAIN u = ShellFields
  BY DEF Counted
<1> HIDE DEF v
<1>3. /\ DOMAIN v = ShellFields /\ v.visit = n + 1 /\ v.seen = n + 1 /\ v.loaded = u.loaded
      /\ v.log = log
  BY <1>1, <1>2 DEF ShellFields
<1>4. ASSUME NEW f \in Console!Told
      PROVE  UpTo(log[f], n + 1) /\ (f \notin u.loaded => log[f] = <<>>)
  <2>1. UpTo(u.log[f], n) /\ (f \notin u.loaded => u.log[f] = <<>>)
    BY DEF Counted
  <2>2. CASE f \in u.trackers \cap u.loaded
    BY <2>1, <2>2, AppendNew
  <2>3. CASE f \notin u.trackers \cap u.loaded
    BY <2>1, <2>3, UpToNext
  <2> QED
    BY <2>2, <2>3
<1>5. DOMAIN log = Console!Told
  OBVIOUS
<1> HIDE DEF log
<1> QED
  BY <1>3, <1>4, <1>5 DEF CountedSoFar, Counted, v

LEMMA ArriveCounted ==
    ASSUME NEW u, NEW path, CountedSoFar(u)
    PROVE  CountedSoFar(Console!Arrive(u, path))
<1>1. CASE path = u.path
  BY <1>1 DEF Console!Arrive
<1>2. CASE path # u.path
  <2> DEFINE w == [u EXCEPT !.path = path, !.visit = @ + 1]
             v == Console!Closed(w)
  <2>1. DOMAIN u = ShellFields /\ u.visit \in Nat /\ u.seen = u.visit
    BY DEF CountedSoFar, Counted
  <2>2. /\ DOMAIN w = ShellFields /\ w.visit = u.visit + 1 /\ w.seen = u.visit
        /\ w.log = u.log /\ w.loaded = u.loaded
    BY <2>1 DEF ShellFields
  <2> HIDE DEF w
  <2>3. /\ DOMAIN v = ShellFields /\ v.visit = u.visit + 1 /\ v.seen = u.visit
        /\ v.log = u.log /\ v.loaded = u.loaded
    BY <2>2 DEF Console!Closed, ShellFields
  <2> HIDE DEF v
  <2>4. Counted(v, u.visit)
    BY <2>3 DEF CountedSoFar, Counted
  <2>5. CountedSoFar(Console!Reports(v))
    BY <2>1, <2>3, <2>4, ReportsCounted
  <2> QED
    BY <1>2, <2>5 DEF Console!Arrive, v, w
<1> QED
  BY <1>1, <1>2

LEMMA LoadsCounted == ASSUME NEW f, TrackersInv, Console!Loads(f) PROVE TrackersInv'
<1> DEFINE log == [ui.log EXCEPT ![f] = Append(@, ui.visit)]
<1>1. f \in Console!Told /\ f \notin ui.loaded
  BY DEF Console!Loads
<1>2. /\ DOMAIN ui = ShellFields /\ ui.visit \in Nat /\ ui.seen = ui.visit
      /\ DOMAIN ui.log = Console!Told
  BY DEF TrackersInv, CountedSoFar, Counted
<1>3. ui' = [ui EXCEPT !.loaded = ui.loaded \cup {f}, !.log = log]
  BY <1>1, <1>2 DEF Console!Loads, Console!Set, ShellFields
<1>4. /\ DOMAIN log = Console!Told /\ log[f] = Append(ui.log[f], ui.visit)
      /\ \A g \in Console!Told \ {f} : log[g] = ui.log[g]
  BY <1>1, <1>2
<1>5. ui.log[f] = <<>>
  BY <1>1 DEF TrackersInv, CountedSoFar, Counted
<1>6. log[f] = <<ui.visit>>
  BY <1>4, <1>5
<1> HIDE DEF log
<1>7. /\ DOMAIN ui' = ShellFields /\ ui'.visit = ui.visit /\ ui'.seen = ui.seen
      /\ ui'.loaded = ui.loaded \cup {f} /\ ui'.log = log
  BY <1>2, <1>3 DEF ShellFields
<1>8. UpTo(log[f], ui.visit)
  BY <1>2, <1>6 DEF UpTo, OnceEach
<1>9. \A g \in Console!Told \ {f} :
          UpTo(log[g], ui.visit) /\ (g \notin ui'.loaded => log[g] = <<>>)
  BY <1>4, <1>7 DEF TrackersInv, CountedSoFar, Counted
<1>10. Counted(ui', ui.visit)
  BY <1>4, <1>7, <1>8, <1>9 DEF Counted
<1> QED
  BY <1>2, <1>7, <1>10 DEF TrackersInv, CountedSoFar

\* Trackers that come back start from the page under way; otherwise the render
\* changes no path and the effect is silent.
LEMMA RerenderCounted == ASSUME TrackersInv, Console!Rerender PROVE TrackersInv'
<1>1. DOMAIN ui = ShellFields /\ ui.seen = ui.visit
  BY DEF TrackersInv, CountedSoFar, Counted
<1>2. PICK now \in {Console!Trackers(db.tracking), {}} :
          Console!Set(IF ui.trackers = {} /\ now # {}
                      THEN [ui EXCEPT !.trackers = now, !.seen = ui.visit]
                      ELSE Console!Reports([ui EXCEPT !.trackers = now]))
  BY DEF Console!Rerender
<1>3. ui' = [ui EXCEPT !.trackers = now, !.seen = ui.visit] \/ ui' = [ui EXCEPT !.trackers = now]
  BY <1>1, <1>2 DEF Console!Set, Console!Reports, ShellFields
<1>4. /\ DOMAIN ui' = ShellFields /\ ui'.visit = ui.visit /\ ui'.seen = ui.seen
      /\ ui'.log = ui.log /\ ui'.loaded = ui.loaded
  BY <1>1, <1>3 DEF ShellFields
<1> QED
  BY <1>4, SameCount DEF TrackersInv

LEMMA DrawerAndMenuCounted ==
    ASSUME TrackersInv,
           \/ Console!Open \/ Console!Close \/ Console!Resize \/ Console!ToggleGroup
           \/ Console!ToggleMenu \/ Console!EscapeMenu \/ Console!PointElsewhere \/ Console!Logout
    PROVE  TrackersInv'
<1>1. DOMAIN ui = ShellFields
  BY DEF TrackersInv, CountedSoFar, Counted
<1>2. /\ DOMAIN ui' = ShellFields /\ ui'.visit = ui.visit /\ ui'.seen = ui.seen
      /\ ui'.log = ui.log /\ ui'.loaded = ui.loaded
  BY <1>1 DEF Console!Open, Console!Close, Console!Closed, Console!Resize, Console!ToggleGroup,
              Console!ToggleMenu, Console!EscapeMenu, Console!PointElsewhere,
              Console!Logout, Console!Set, Console!Send, ShellFields
<1> QED
  BY <1>2, SameCount DEF TrackersInv

LEMMA FollowCounted ==
    ASSUME TrackersInv, NEW p,
           Console!FollowSidebar(p) \/ Console!FollowPage(p) \/ Console!Back(p) \/ Console!FollowMenu(p)
    PROVE  TrackersInv'
<1>1. CASE Console!FollowSidebar(p) \/ Console!FollowPage(p) \/ Console!Back(p)
  <2>1. ui' = Console!Arrive(ui, p)
    BY <1>1 DEF Console!FollowSidebar, Console!FollowPage, Console!Back, Console!Set
  <2> QED
    BY <2>1, ArriveCounted DEF TrackersInv
<1>2. CASE Console!FollowMenu(p)
  <2> DEFINE u == [ui EXCEPT !.menu = FALSE]
  <2>1. ui' = Console!Arrive(u, p)
    BY <1>2 DEF Console!FollowMenu, Console!Set
  <2>2. DOMAIN ui = ShellFields
    BY DEF TrackersInv, CountedSoFar, Counted
  <2>3. /\ DOMAIN u = ShellFields /\ u.visit = ui.visit /\ u.seen = ui.seen
        /\ u.log = ui.log /\ u.loaded = ui.loaded
    BY <2>2 DEF ShellFields
  <2> HIDE DEF u
  <2>4. CountedSoFar(u)
    BY <2>3, SameCount DEF TrackersInv
  <2> QED
    BY <2>1, <2>4, ArriveCounted DEF TrackersInv
<1> QED
  BY <1>1, <1>2

LEMMA DeliverCounted == ASSUME TrackersInv, NEW i, Console!Deliver(i) PROVE TrackersInv'
<1>1. DOMAIN ui = ShellFields
  BY DEF TrackersInv, CountedSoFar, Counted
<1>2. CASE Console!DeliverMe(i)
  <2>1. PICK a \in Console!Answers(i) :
            ui' = [ui EXCEPT !.user = TRUE, !.scopes = IF a.ok THEN a.data.scopes ELSE {}]
    BY <1>2 DEF Console!DeliverMe, Console!Show
  <2>2. /\ DOMAIN ui' = ShellFields /\ ui'.visit = ui.visit /\ ui'.seen = ui.seen
        /\ ui'.log = ui.log /\ ui'.loaded = ui.loaded
    BY <1>1, <2>1 DEF ShellFields
  <2> QED
    BY <2>2, SameCount DEF TrackersInv
<1>3. CASE Console!DeliverLogout(i)
  <2>1. ui' = [ui EXCEPT !.out = "left"]
    BY <1>3 DEF Console!DeliverLogout, Console!Show
  <2>2. /\ DOMAIN ui' = ShellFields /\ ui'.visit = ui.visit /\ ui'.seen = ui.seen
        /\ ui'.log = ui.log /\ ui'.loaded = ui.loaded
    BY <1>1, <2>1 DEF ShellFields
  <2> QED
    BY <2>2, SameCount DEF TrackersInv
<1> QED
  BY <1>2, <1>3 DEF Console!Deliver

LEMMA ShellInit == ASSUME Console!Init PROVE TrackersInv
<1>1. PICK path \in ShellPaths, desktop \in BOOLEAN :
          ui = [Console!Mounted(path, desktop) EXCEPT !.trackers = Console!Trackers(db.tracking)]
  BY DEF Console!Init
<1>2. DOMAIN Console!Mounted(path, desktop) = ShellFields
  BY DEF Console!Mounted, ShellFields
<1>3. /\ DOMAIN ui = ShellFields /\ ui.visit = 1 /\ ui.seen = 1
      /\ ui.log = [f \in Console!Told |-> <<>>]
  BY <1>1, <1>2 DEF Console!Mounted, ShellFields
<1>4. UpTo(<<>>, 1)
  BY DEF UpTo, OnceEach
<1> QED
  BY <1>3, <1>4 DEF TrackersInv, CountedSoFar, Counted

LEMMA TrackersNext == ASSUME TrackersInv, Console!Next \/ Still PROVE TrackersInv'
<1>1. CASE Console!Click
  BY <1>1, LoadsCounted, RerenderCounted, DrawerAndMenuCounted, FollowCounted DEF Console!Click
<1>2. CASE Console!RoleChanges
  BY <1>2 DEF Console!RoleChanges, TrackersInv
<1>3. CASE \E i \in DOMAIN calls : Console!Serve(i) \/ Console!Deliver(i)
  BY <1>3, DeliverCounted DEF Console!Serve, TrackersInv
<1>4. CASE Still
  BY <1>4 DEF Still, TrackersInv
<1> QED
  BY <1>1, <1>2, <1>3, <1>4 DEF Console!Next

(* Wherever the reader goes, whatever trackers load and however often the  *)
(* layout is rendered, no tracker counts a visit twice                     *)
(* (analytics-injector.tsx:90-128).                                        *)
THEOREM CountedOnceAlways == Spec => []CountedOnce
<1> DEFINE I == page = "shell" => TrackersInv
<1>1. Init => I
  BY Mounts, ShellInit
<1>2. I /\ [Next]_vars => I'
  BY Steps, TrackersNext
<1>3. I => CountedOnce
  BY DEF TrackersInv, CountedSoFar, Counted, UpTo, OnceEach, Console!CountedOnce, CountedOnce
<1> QED
  BY <1>1, <1>2, <1>3, PTL DEF Spec
-----------------------------------------------------------------------------
(* TimersTended for every duration and every number of notifications.  The *)
(* one call of the countdown is told by what it is doing.                  *)
TickCall == Interstitial!Get("tick", Interstitial!Effect)
LeaveCall == Interstitial!Get("leave", Interstitial!Effect)

TimerOf(u) ==
    IF u.away \/ (u.paused /\ ~u.leaving) THEN <<>>
    ELSE IF u.leaving THEN <<LeaveCall>> ELSE <<TickCall>>

\* The inductive invariant.
OneTimerInv == CountdownInv /\ calls = TimerOf(ui)

LEMMA OneCall ==
    ASSUME NEW c
    PROVE  /\ Without(<<c>>, 1) = <<>>
           /\ c.op = "tick" => Interstitial!Drop(<<c>>, Interstitial!Timers(<<c>>)) = <<>>
           /\ c.op # "tick" => Interstitial!Drop(<<c>>, Interstitial!Timers(<<c>>)) = <<c>>
           /\ Interstitial!Drop(<<>>, Interstitial!Timers(<<>>)) = <<>>
<1>1. <<c>> \in Seq({c}) /\ DOMAIN <<c>> = {1} /\ <<c>>[1] = c
  OBVIOUS
<1>2. Without(<<c>>, 1) = <<>>
  <2> DEFINE s == <<c>>
  <2>1. s \in Seq({c}) /\ 1 \in DOMAIN s /\ Len(s) = 1
    BY <1>1
  <2> HIDE DEF s
  <2>2. Without(s, 1) \in Seq({c}) /\ Len(Without(s, 1)) = 1 - 1
    BY <2>1, WithoutOne
  <2> QED
    BY <2>2 DEF s
<1>3. c.op = "tick" => Interstitial!Timers(<<c>>) = {1}
  BY <1>1 DEF Interstitial!Timers
<1>4. c.op # "tick" => Interstitial!Timers(<<c>>) = {}
  BY <1>1 DEF Interstitial!Timers
<1>5. Interstitial!Timers(<<>>) = {}
  BY DEF Interstitial!Timers
<1>6. (CHOOSE k \in {1} : TRUE) = 1
  OBVIOUS
<1> QED
  BY <1>2, <1>3, <1>4, <1>5, <1>6 DEF Interstitial!Drop, Interstitial!Without, Without


LEMMA PauseFlags ==
    ASSUME NEW u \in CountdownUi
    PROVE  /\ Interstitial!Pause(u).paused = TRUE
           /\ Interstitial!Pause(u).leaving = u.leaving
           /\ Interstitial!Pause(u).away = u.away
           /\ Interstitial!PageHide(u).away = TRUE
<1> DEFINE v == IF u.paused \/ u.leaving THEN u ELSE Interstitial!UpdateRemaining(u)
<1>1. DOMAIN v = DOMAIN u /\ v.leaving = u.leaving /\ v.away = u.away
  BY DEF Interstitial!UpdateRemaining, CountdownUi
<1>2. {"paused", "leaving", "away"} \subseteq DOMAIN u
  BY DEF CountdownUi
<1> HIDE DEF v
<1>3. Interstitial!Pause(u) = [v EXCEPT !.paused = TRUE]
  BY DEF Interstitial!Pause, v
<1> QED
  BY <1>1, <1>2, <1>3 DEF Interstitial!PageHide

\* tick() of a countdown that runs, with no other timer.
LEMMA TickTimer ==
    ASSUME NEW u \in CountdownUi, u.away = FALSE, u.paused = FALSE, u.leaving = FALSE
    PROVE  Interstitial!Tick(u, <<>>).cs = TimerOf(Interstitial!Tick(u, <<>>).u)
<1> DEFINE v == Interstitial!UpdateRemaining(u)
<1>1. /\ v.away = FALSE /\ v.paused = FALSE /\ v.leaving = FALSE
      /\ {"away", "paused", "leaving"} \subseteq DOMAIN v
  BY DEF Interstitial!UpdateRemaining, CountdownUi
<1> HIDE DEF v
<1>2. Append(<<>>, LeaveCall) = <<LeaveCall>> /\ Append(<<>>, TickCall) = <<TickCall>>
  OBVIOUS
<1>3. CASE v.remaining = 0
  <2>1. Interstitial!Tick(u, <<>>) = [u |-> [v EXCEPT !.leaving = TRUE], cs |-> <<LeaveCall>>]
    BY <1>2, <1>3 DEF Interstitial!Tick, LeaveCall, v
  <2> QED
    BY <1>1, <2>1 DEF TimerOf
<1>4. CASE v.remaining # 0
  <2>1. Interstitial!Tick(u, <<>>) = [u |-> v, cs |-> <<TickCall>>]
    BY <1>2, <1>4 DEF Interstitial!Tick, TickCall, v
  <2> QED
    BY <1>1, <2>1 DEF TimerOf
<1> QED
  BY <1>3, <1>4

LEMMA TimerClick ==
    ASSUME OneTimerInv, Interstitial!Click PROVE calls' = TimerOf(ui')
<1>1. ui \in CountdownUi /\ calls = TimerOf(ui)
  BY DEF OneTimerInv, CountdownInv, InAccount
<1>2. /\ ui.paused \in BOOLEAN /\ ui.leaving \in BOOLEAN /\ ui.away \in BOOLEAN
      /\ TickCall.op = "tick" /\ LeaveCall.op # "tick"
  BY <1>1 DEF CountdownUi, TickCall, LeaveCall, Interstitial!Get, Interstitial!Call
<1>3. CASE Interstitial!Button
  <2>1. CASE ui.paused = FALSE
    <3>1. ui' = Interstitial!Pause(ui) /\ calls' = Interstitial!NoTimer /\ ui.away = FALSE
      BY <1>2, <1>3, <2>1 DEF Interstitial!Button, Interstitial!OnScreen, Interstitial!Show
    <3>2. ui'.paused = TRUE /\ ui'.leaving = ui.leaving /\ ui'.away = FALSE
      BY <1>1, <3>1, PauseFlags
    <3>3. CASE ui.leaving = TRUE
      BY <1>1, <1>2, <2>1, <3>1, <3>2, <3>3, OneCall DEF TimerOf, Interstitial!NoTimer
    <3>4. CASE ui.leaving = FALSE
      BY <1>1, <1>2, <2>1, <3>1, <3>2, <3>4, OneCall DEF TimerOf, Interstitial!NoTimer
    <3> QED
      BY <1>2, <3>3, <3>4
  <2>2. CASE ui.paused = TRUE /\ ui.leaving = TRUE
    BY <1>1, <1>3, <2>2 DEF Interstitial!Button, Interstitial!Set
  <2>3. CASE ui.paused = TRUE /\ ui.leaving = FALSE
    <3> DEFINE u == Interstitial!Resume(ui)
    <3>1. ui.away = FALSE /\ calls = <<>>
      BY <1>1, <1>2, <1>3, <2>3 DEF Interstitial!Button, Interstitial!OnScreen, TimerOf
    <3>2. ui' = Interstitial!Tick(u, <<>>).u /\ calls' = Interstitial!Tick(u, <<>>).cs
      BY <1>3, <2>3, <3>1 DEF Interstitial!Button, Interstitial!Show
    <3>3. u \in CountdownUi /\ u.away = FALSE /\ u.paused = FALSE /\ u.leaving = FALSE
      BY <1>1, <2>3, <3>1 DEF Interstitial!Resume, CountdownUi, OneTimerInv, CountdownInv, InAccount, CountdownDb
    <3> QED
      BY <3>2, <3>3, TickTimer
  <2> QED
    BY <1>2, <2>1, <2>2, <2>3
<1>4. CASE Interstitial!GoAway
  BY <1>1, <1>4, PauseFlags DEF Interstitial!GoAway, Interstitial!Show, TimerOf
<1>5. CASE Interstitial!ComeBack
  <2> DEFINE u == [ui EXCEPT !.leaving = FALSE]
  <2>1. u \in CountdownUi /\ u.leaving = FALSE
    BY <1>1 DEF CountdownUi
  <2>2. ui' = [Interstitial!Pause(u) EXCEPT !.away = FALSE] /\ calls' = calls /\ calls = <<>>
    BY <1>1, <1>5 DEF Interstitial!ComeBack, Interstitial!Set, TimerOf
  <2>3. Interstitial!Pause(u).paused = TRUE /\ Interstitial!Pause(u).leaving = FALSE
    BY <2>1, PauseFlags
  <2>4. {"paused", "leaving", "away"} \subseteq DOMAIN Interstitial!Pause(u)
    BY <2>1 DEF Interstitial!Pause, Interstitial!UpdateRemaining, CountdownUi
  <2> QED
    BY <2>2, <2>3, <2>4 DEF TimerOf
<1>6. CASE Interstitial!SwitchTab \/ Interstitial!Details \/ Interstitial!Escape
  <2>1. /\ ui'.paused = ui.paused /\ ui'.leaving = ui.leaving /\ ui'.away = ui.away
        /\ calls' = calls
    BY <1>1, <1>6 DEF Interstitial!SwitchTab, Interstitial!Details, Interstitial!Escape, Interstitial!Set, CountdownUi
  <2> QED
    BY <1>1, <2>1 DEF TimerOf
<1> QED
  BY <1>3, <1>4, <1>5, <1>6 DEF Interstitial!Click

LEMMA TimerDeliver ==
    ASSUME OneTimerInv, NEW i \in DOMAIN calls, Interstitial!Deliver(i) PROVE calls' = TimerOf(ui')
<1>1. ui \in CountdownUi /\ calls = TimerOf(ui)
  BY DEF OneTimerInv, CountdownInv, InAccount
<1>2. /\ ui.paused \in BOOLEAN /\ ui.leaving \in BOOLEAN /\ ui.away \in BOOLEAN
      /\ LeaveCall.op # "tick"
  BY <1>1 DEF CountdownUi, LeaveCall, Interstitial!Get, Interstitial!Call
<1>3. CASE Interstitial!DeliverTick(i)
  <2>1. calls[i].op = "tick"
    BY <1>3 DEF Interstitial!DeliverTick
  <2>2. ui.away = FALSE /\ ui.paused = FALSE /\ ui.leaving = FALSE /\ calls = <<TickCall>> /\ i = 1
    BY <1>1, <1>2, <2>1 DEF TimerOf
  <2>3. Interstitial!Rest(i) = <<>>
    BY <2>2, OneCall DEF Interstitial!Rest, Interstitial!Without, Without
  <2>4. ui' = Interstitial!Tick(ui, <<>>).u /\ calls' = Interstitial!Tick(ui, <<>>).cs
    BY <1>3, <2>3 DEF Interstitial!DeliverTick, Interstitial!Show
  <2> QED
    BY <1>1, <2>1, <2>2, <2>4, TickTimer
<1>4. CASE Interstitial!DeliverLeave(i)
  BY <1>1, <1>4, PauseFlags DEF Interstitial!DeliverLeave, Interstitial!Show, TimerOf
<1> QED
  BY <1>3, <1>4 DEF Interstitial!Deliver

LEMMA SameCardinality == ASSUME NEW S PROVE Interstitial!Cardinality(S) = Cardinality(S)
BY DEF Cardinality, Interstitial!Cardinality

LEMMA TimerIsOne == ASSUME OneTimerInv PROVE Interstitial!OneTimer
<1>1. ui \in CountdownUi /\ calls = TimerOf(ui)
  BY DEF OneTimerInv, CountdownInv, InAccount
<1>2. /\ ui.paused \in BOOLEAN /\ ui.leaving \in BOOLEAN /\ ui.away \in BOOLEAN
      /\ TickCall.op = "tick" /\ LeaveCall.op # "tick"
  BY <1>1 DEF CountdownUi, TickCall, LeaveCall, Interstitial!Get, Interstitial!Call
<1>3. CASE ui.paused = TRUE \/ ui.leaving = TRUE \/ ui.away = TRUE
  <2>1. calls = <<>> \/ calls = <<LeaveCall>>
    BY <1>1, <1>2, <1>3 DEF TimerOf
  <2>2. Interstitial!Timers(calls) = {}
    BY <1>2, <2>1 DEF Interstitial!Timers
  <2> QED
    BY <1>3, <2>2, FS_EmptySet, SameCardinality DEF Interstitial!OneTimer
<1>4. CASE ui.paused = FALSE /\ ui.leaving = FALSE /\ ui.away = FALSE
  <2>1. calls = <<TickCall>>
    BY <1>1, <1>4 DEF TimerOf
  <2>2. Interstitial!Timers(calls) = {1}
    BY <1>2, <2>1 DEF Interstitial!Timers
  <2>3. Cardinality({1}) = 1
    BY FS_Singleton
  <2> QED
    BY <1>4, <2>2, <2>3, SameCardinality DEF Interstitial!OneTimer
<1> QED
  BY <1>2, <1>3, <1>4


-----------------------------------------------------------------------------
(* The notifications: their numbers are below the next one, none is there  *)
(* twice, and each has a timer of its own among the calls.                 *)
WriteCalls == CallsOf("write", [id : Nat], {Notices!Effect}, Answered({[n |-> 0]}))
DismissCalls == CallsOf("dismiss", [id : Nat], {Notices!Effect}, {})
ResetCalls == CallsOf("reset", [id : {0}], {Notices!Effect}, {})
ToastCalls == WriteCalls \cup DismissCalls \cup ResetCalls

ToastsUi ==
    [toasts : Seq(Nat), sequence : Nat, status : {"idle", "copied", "error"}, button : BOOLEAN]

TimersOf(id) == {c \in DismissCalls : c.arg.id = id}

\* Each of ts has a timer among s, but for the notification id.
TimedBut(id, ts, n, s) ==
    /\ ts \in Seq(Nat) /\ OnceEach(ts) /\ s \in Seq(ToastCalls)
    /\ \A k \in DOMAIN ts : ts[k] < n /\ (ts[k] # id => SomeOf(TimersOf(ts[k]), s))
Timed(ts, n, s) ==
    /\ ts \in Seq(Nat) /\ OnceEach(ts) /\ s \in Seq(ToastCalls)
    /\ \A k \in DOMAIN ts : ts[k] < n /\ SomeOf(TimersOf(ts[k]), s)

\* No notification has two timers, and none that is still to come has one.
Alone(s, n) ==
    \A x \in Nat : OneOf(TimersOf(x), s) /\ (x < n \/ NoneOf(TimersOf(x), s))

\* The inductive invariant.
ToastsInv ==
    /\ clicks \in Nat /\ ui \in ToastsUi
    /\ Timed(ui.toasts, ui.sequence, calls) /\ Alone(calls, ui.sequence)

LEMMA ToastKinds ==
    ASSUME NEW c \in ToastCalls
    PROVE  /\ c.op = "write" => c \in WriteCalls
           /\ c.op = "dismiss" => c \in DismissCalls
           /\ c.op = "reset" => c \in ResetCalls
           /\ c \in WriteCalls => c.op = "write" /\ c.arg \in [id : Nat]
           /\ c \in DismissCalls => c.op = "dismiss" /\ c.arg \in [id : Nat]
           /\ c \in ResetCalls => c.op = "reset"
<1>1. c \in WriteCalls => c.op = "write" /\ c.arg \in [id : Nat]
  BY CallHas DEF WriteCalls
<1>2. c \in DismissCalls => c.op = "dismiss" /\ c.arg \in [id : Nat]
  BY CallHas DEF DismissCalls
<1>3. c \in ResetCalls => c.op = "reset"
  BY CallHas DEF ResetCalls
<1> QED
  BY <1>1, <1>2, <1>3 DEF ToastCalls

LEMMA TimerSent ==
    /\ Notices!Timer("reset", 0) \in ResetCalls
    /\ \A id \in Nat : Notices!Timer("dismiss", id) \in TimersOf(id)
<1>1. Notices!Timer("reset", 0) \in ResetCalls
  BY CallSent DEF Notices!Timer, Notices!Call, Notices!Refused, ResetCalls
<1>2. ASSUME NEW id \in Nat PROVE Notices!Timer("dismiss", id) \in TimersOf(id)
  <2>1. Notices!Timer("dismiss", id) \in DismissCalls
    BY CallSent DEF Notices!Timer, Notices!Call, Notices!Refused, DismissCalls
  <2> QED
    BY <2>1 DEF TimersOf, Notices!Timer, Notices!Call
<1> QED
  BY <1>1, <1>2

\* A sequence without one of its elements, or as it is.
LEMMA Dropped ==
    ASSUME NEW s, NEW K \in SUBSET DOMAIN s
    PROVE  \/ K = {} /\ Notices!Drop(s, K) = s
           \/ \E k \in K : Notices!Drop(s, K) = Without(s, k)
<1>1. CASE K = {}
  BY <1>1 DEF Notices!Drop
<1>2. CASE K # {}
  <2>1. (CHOOSE k \in K : TRUE) \in K
    BY <1>2
  <2> QED
    BY <1>2, <2>1 DEF Notices!Drop, Notices!Without, Without
<1> QED
  BY <1>1, <1>2

\* A call that ends takes no timer but its own, and one that is made takes none.
LEMMA TimedRest ==
    ASSUME NEW ts, NEW n, NEW s, Timed(ts, n, s), NEW i \in DOMAIN s
    PROVE  /\ s[i] \notin DismissCalls => Timed(ts, n, Without(s, i))
           /\ TimedBut(s[i].arg.id, ts, n, Without(s, i))
<1>1. s \in Seq(ToastCalls) /\ ts \in Seq(Nat) /\ OnceEach(ts)
      /\ \A k \in DOMAIN ts : ts[k] < n /\ SomeOf(TimersOf(ts[k]), s)
  BY DEF Timed
<1>2. Without(s, i) \in Seq(ToastCalls)
  BY <1>1, WithoutOne
<1>3. \A id : s[i] \notin TimersOf(id) /\ SomeOf(TimersOf(id), s) => SomeOf(TimersOf(id), Without(s, i))
  BY <1>1, RestOf
<1>4. \A id : s[i] \in TimersOf(id) => s[i] \in DismissCalls /\ s[i].arg.id = id
  BY DEF TimersOf
<1>5. s[i] \notin DismissCalls => Timed(ts, n, Without(s, i))
  BY <1>1, <1>2, <1>3, <1>4 DEF Timed
<1>6. TimedBut(s[i].arg.id, ts, n, Without(s, i))
  BY <1>1, <1>2, <1>3, <1>4 DEF TimedBut
<1> QED
  BY <1>5, <1>6

LEMMA TimedThen ==
    ASSUME NEW ts, NEW n, NEW s, Timed(ts, n, s), NEW c \in ToastCalls
    PROVE  Timed(ts, n, Append(s, c))
<1>1. s \in Seq(ToastCalls)
  BY DEF Timed
<1>2. Append(s, c) \in Seq(ToastCalls) /\ \A id : SomeOf(TimersOf(id), s) => SomeOf(TimersOf(id), Append(s, c))
  BY <1>1, AppendOf
<1> QED
  BY <1>2 DEF Timed

\* Clearing the timer that takes the label back leaves those of the notifications.
LEMMA ResetCleared ==
    ASSUME NEW ts, NEW n, NEW s, Timed(ts, n, s)
    PROVE  Timed(ts, n, Notices!Clear(s, "reset", 0))
<1> DEFINE K == {k \in DOMAIN s : s[k].op = "reset" /\ s[k].arg.id = 0}
<1>1. s \in Seq(ToastCalls)
  BY DEF Timed
<1>2. ASSUME NEW k \in K PROVE Timed(ts, n, Without(s, k))
  <2>1. k \in DOMAIN s /\ s[k] \in ToastCalls /\ s[k].op = "reset"
    BY <1>1, <1>2
  <2>2. s[k] \notin DismissCalls
    BY <2>1, ToastKinds
  <2> QED
    BY <2>1, <2>2, TimedRest
<1> HIDE DEF K
<1>3. K \in SUBSET DOMAIN s /\ Notices!Clear(s, "reset", 0) = Notices!Drop(s, K)
  BY DEF Notices!Clear, Notices!TimersOf, K
<1> QED
  BY <1>2, <1>3, Dropped

\* A notification that goes takes no other's timer with it.
LEMMA DismissedTimed ==
    ASSUME NEW u \in ToastsUi, NEW s, NEW id \in Nat, TimedBut(id, u.toasts, u.sequence, s)
    PROVE  /\ Notices!Dismissed(u, s, id).u \in ToastsUi
           /\ Timed(Notices!Dismissed(u, s, id).u.toasts, Notices!Dismissed(u, s, id).u.sequence,
                    Notices!Dismissed(u, s, id).cs)
<1> DEFINE ts == Notices!RemoveToast(u.toasts, id)
           K  == {k \in DOMAIN u.toasts : u.toasts[k] = id}
           cs == Notices!Clear(s, "dismiss", id)
           C  == {k \in DOMAIN s : s[k].op = "dismiss" /\ s[k].arg.id = id}
<1>1. /\ u.toasts \in Seq(Nat) /\ OnceEach(u.toasts) /\ s \in Seq(ToastCalls)
      /\ \A k \in DOMAIN u.toasts :
            /\ u.toasts[k] < u.sequence
            /\ u.toasts[k] # id => SomeOf(TimersOf(u.toasts[k]), s)
  BY DEF TimedBut
<1> DEFINE Kept == /\ ts \in Seq(Nat) /\ OnceEach(ts)
                   /\ \A j \in DOMAIN ts : ts[j] # id /\ \E k \in DOMAIN u.toasts : ts[j] = u.toasts[k]
           Watched == /\ cs \in Seq(ToastCalls)
                      /\ \A x \in Nat : x # id /\ SomeOf(TimersOf(x), s) => SomeOf(TimersOf(x), cs)
<1>2. Kept
  <2> HIDE DEF ts, K
  <2>1. K \in SUBSET DOMAIN u.toasts /\ ts = Notices!Drop(u.toasts, K)
    BY DEF Notices!RemoveToast, ts, K
  <2>2. CASE K = {} /\ ts = u.toasts
    BY <1>1, <2>2 DEF K
  <2>3. ASSUME NEW k \in K, ts = Without(u.toasts, k)
        PROVE  Kept
    <3>1. k \in DOMAIN u.toasts /\ u.toasts[k] = id
      BY DEF K
    <3>2. PICK f \in [DOMAIN ts -> DOMAIN u.toasts \ {k}] :
              /\ \A j \in DOMAIN ts : ts[j] = u.toasts[f[j]]
              /\ \A j, l \in DOMAIN ts : f[j] = f[l] => j = l
      BY <1>1, <2>3, <3>1, WithoutOld
    <3>3. ts \in Seq(Nat)
      BY <1>1, <2>3, <3>1, WithoutOne
    <3>4. \A j \in DOMAIN ts : f[j] \in DOMAIN u.toasts /\ f[j] # k
      BY <3>2
    <3>5. \A j \in DOMAIN ts : ts[j] # id /\ \E l \in DOMAIN u.toasts : ts[j] = u.toasts[l]
      BY <1>1, <3>1, <3>2, <3>4 DEF OnceEach
    <3>6. OnceEach(ts)
      BY <1>1, <3>2, <3>4 DEF OnceEach
    <3> QED
      BY <3>3, <3>5, <3>6
  <2> QED
    BY <2>1, <2>2, <2>3, Dropped
<1>3. Watched
  <2> HIDE DEF cs, C
  <2>1. C \in SUBSET DOMAIN s /\ cs = Notices!Drop(s, C)
    BY DEF Notices!Clear, Notices!TimersOf, cs, C
  <2>2. CASE C = {} /\ cs = s
    BY <1>1, <2>2
  <2>3. ASSUME NEW k \in C, cs = Without(s, k)
        PROVE  Watched
    <3>1. k \in DOMAIN s /\ s[k].arg.id = id
      BY DEF C
    <3>2. \A x \in Nat : x # id => s[k] \notin TimersOf(x)
      BY <3>1 DEF TimersOf
    <3>3. cs \in Seq(ToastCalls)
      BY <1>1, <2>3, <3>1, WithoutOne
    <3> QED
      BY <1>1, <2>3, <3>1, <3>2, <3>3, RestOf
  <2> QED
    BY <2>1, <2>2, <2>3, Dropped
<1> HIDE DEF ts, cs, K, C
<1>4. /\ Notices!Dismissed(u, s, id).u = [u EXCEPT !.toasts = ts]
      /\ Notices!Dismissed(u, s, id).cs = cs
  BY DEF Notices!Dismissed, ts, cs
<1>5. [u EXCEPT !.toasts = ts] \in ToastsUi
  BY <1>2 DEF ToastsUi
<1>6. [u EXCEPT !.toasts = ts].toasts = ts /\ [u EXCEPT !.toasts = ts].sequence = u.sequence
  BY DEF ToastsUi
<1>7. Timed(ts, u.sequence, cs)
  <2> SUFFICES ASSUME NEW j \in DOMAIN ts
               PROVE  ts[j] < u.sequence /\ SomeOf(TimersOf(ts[j]), cs)
    BY <1>2, <1>3 DEF Timed
  <2>1. PICK k \in DOMAIN u.toasts : ts[j] = u.toasts[k] /\ ts[j] # id
    BY <1>2
  <2>2. u.toasts[k] \in Nat
    BY <1>1
  <2> QED
    BY <1>1, <1>3, <2>1, <2>2
<1> QED
  BY <1>4, <1>5, <1>6, <1>7


\* A notification that comes brings a timer, and pushes the oldest out at the limit.
LEMMA NotifyTimed ==
    ASSUME NEW u \in ToastsUi, NEW s, Timed(u.toasts, u.sequence, s)
    PROVE  /\ Notices!Notify(u, s).u \in ToastsUi
           /\ Timed(Notices!Notify(u, s).u.toasts, Notices!Notify(u, s).u.sequence,
                    Notices!Notify(u, s).cs)
<1> DEFINE new  == u.sequence
           next == <<new>> \o u.toasts
           m    == IF Len(next) < ToastLimit THEN Len(next) ELSE ToastLimit
           ts   == SubSeq(next, 1, m)
           cs   == Append(s, Notices!Timer("dismiss", new))
<1>1. /\ new \in Nat /\ u.toasts \in Seq(Nat) /\ OnceEach(u.toasts) /\ s \in Seq(ToastCalls)
      /\ \A k \in DOMAIN u.toasts :
            u.toasts[k] \in Nat /\ u.toasts[k] < new /\ SomeOf(TimersOf(u.toasts[k]), s)
  BY DEF Timed, ToastsUi
<1>2. Notices!RemoveToast(u.toasts, new) = u.toasts
  <2>1. {k \in DOMAIN u.toasts : u.toasts[k] = new} = {}
    BY <1>1
  <2> QED
    BY <2>1 DEF Notices!RemoveToast, Notices!Drop
<1>3. Notices!AddToast(u.toasts, new) = ts
  BY <1>2 DEF Notices!AddToast
<1>4. /\ next \in Seq(Nat) /\ Len(next) = Len(u.toasts) + 1 /\ Len(next) \in Nat
      /\ next[1] = new /\ \A k \in 1 .. Len(u.toasts) : next[k + 1] = u.toasts[k]
  BY <1>1
<1>5. m \in Nat /\ m <= Len(next)
  BY <1>4, LimitAssumption
<1> HIDE DEF next, m
<1>6. ts \in Seq(Nat) /\ DOMAIN ts = 1 .. m /\ \A k \in 1 .. m : ts[k] = next[k]
  BY <1>4, <1>5
<1>7. ASSUME NEW k \in DOMAIN ts
      PROVE  \/ k = 1 /\ ts[k] = new
             \/ k - 1 \in DOMAIN u.toasts /\ ts[k] = u.toasts[k - 1]
  <2>1. k \in 1 .. m /\ ts[k] = next[k]
    BY <1>6
  <2>2. CASE k = 1
    BY <1>4, <2>1, <2>2
  <2>3. CASE k # 1
    <3>1. k - 1 \in 1 .. Len(u.toasts) /\ (k - 1) + 1 = k /\ DOMAIN u.toasts = 1 .. Len(u.toasts)
      BY <1>1, <1>4, <1>5, <2>1, <2>3
    <3>2. next[(k - 1) + 1] = u.toasts[k - 1]
      BY <1>4, <3>1
    <3> QED
      BY <2>1, <3>1, <3>2
  <2> QED
    BY <2>2, <2>3
<1>8. OnceEach(ts)
  <2> SUFFICES ASSUME NEW j \in DOMAIN ts, NEW k \in DOMAIN ts, ts[j] = ts[k] PROVE j = k
    BY DEF OnceEach
  <2>1. j \in Nat /\ k \in Nat
    BY <1>5, <1>6
  <2>2. \A l \in DOMAIN ts : l # 1 => ts[l] \in Nat /\ ts[l] < new
    BY <1>1, <1>7
  <2>4. CASE j = 1 \/ k = 1
    <3>1. ts[j] = new \/ ts[k] = new
      <4>1. 0 \notin DOMAIN u.toasts
        BY <1>1
      <4>2. ASSUME NEW l \in DOMAIN ts, l = 1 PROVE ts[l] = new
        <5>1. l - 1 = 0
          BY <4>2
        <5> QED
          BY <1>7, <4>1, <5>1
      <4> QED
        BY <2>4, <4>2
    <3>2. ~(new < new)
      BY <1>1
    <3> QED
      BY <2>2, <2>4, <3>1, <3>2
  <2>3. CASE j # 1 /\ k # 1
    <3>1. /\ j - 1 \in DOMAIN u.toasts /\ k - 1 \in DOMAIN u.toasts
          /\ u.toasts[j - 1] = u.toasts[k - 1]
      BY <1>7, <2>3
    <3>2. j - 1 = k - 1
      BY <1>1, <3>1 DEF OnceEach
    <3> QED
      BY <2>1, <3>2
  <2> QED
    BY <2>3, <2>4
<1>9. /\ Notices!Timer("dismiss", new) \in TimersOf(new) /\ Notices!Timer("dismiss", new) \in ToastCalls
  BY <1>1, TimerSent DEF TimersOf, ToastCalls
<1>10. /\ cs \in Seq(ToastCalls) /\ SomeOf(TimersOf(new), cs)
       /\ \A x : SomeOf(TimersOf(x), s) => SomeOf(TimersOf(x), cs)
  BY <1>1, <1>9, AppendOf
<1> HIDE DEF ts, cs
<1>11. Timed(ts, new + 1, cs)
  <2> SUFFICES ASSUME NEW k \in DOMAIN ts PROVE ts[k] < new + 1 /\ SomeOf(TimersOf(ts[k]), cs)
    BY <1>6, <1>8, <1>10 DEF Timed, ts
  <2> QED
    BY <1>1, <1>7, <1>10
<1>12. /\ Notices!Notify(u, s).u = [u EXCEPT !.toasts = ts, !.sequence = new + 1]
       /\ Notices!Notify(u, s).cs = cs
  BY <1>3 DEF Notices!Notify, cs
<1>13. ts \in Seq(Nat) /\ new + 1 \in Nat
  BY <1>1, <1>11 DEF Timed
<1> HIDE DEF new
<1>14. /\ [u EXCEPT !.toasts = ts, !.sequence = new + 1] \in ToastsUi
       /\ [u EXCEPT !.toasts = ts, !.sequence = new + 1].toasts = ts
       /\ [u EXCEPT !.toasts = ts, !.sequence = new + 1].sequence = new + 1
  BY <1>13 DEF ToastsUi
<1> QED
  BY <1>11, <1>12, <1>14

\* A call that ends frees its timer, and no timer comes but the next one's.
LEMMA AloneRest ==
    ASSUME NEW n, NEW s \in Seq(ToastCalls), Alone(s, n), NEW i \in DOMAIN s
    PROVE  /\ Alone(Without(s, i), n)
           /\ \A x \in Nat : s[i] \in TimersOf(x) => NoneOf(TimersOf(x), Without(s, i))
<1>1. ASSUME NEW x \in Nat
      PROVE  /\ OneOf(TimersOf(x), Without(s, i)) /\ (x < n \/ NoneOf(TimersOf(x), Without(s, i)))
             /\ s[i] \in TimersOf(x) => NoneOf(TimersOf(x), Without(s, i))
  BY RestOf DEF Alone
<1> QED
  BY <1>1 DEF Alone

LEMMA AloneThen ==
    ASSUME NEW n, NEW s \in Seq(ToastCalls), Alone(s, n), NEW c, c \notin DismissCalls
    PROVE  Alone(Append(s, c), n)
<1>1. ASSUME NEW x \in Nat
      PROVE  OneOf(TimersOf(x), Append(s, c)) /\ (x < n \/ NoneOf(TimersOf(x), Append(s, c)))
  <2>1. c \notin TimersOf(x)
    BY DEF TimersOf
  <2> QED
    BY <2>1, AppendOf DEF Alone
<1> QED
  BY <1>1 DEF Alone

LEMMA AloneNext ==
    ASSUME NEW n \in Nat, NEW s \in Seq(ToastCalls), Alone(s, n), NEW c \in TimersOf(n)
    PROVE  Alone(Append(s, c), n + 1)
<1>1. ASSUME NEW x \in Nat
      PROVE  OneOf(TimersOf(x), Append(s, c)) /\ (x < n + 1 \/ NoneOf(TimersOf(x), Append(s, c)))
  <2>1. CASE x = n
    <3>1. NoneOf(TimersOf(n), s)
      BY DEF Alone
    <3> QED
      BY <2>1, <3>1, AppendOf
  <2>2. CASE x # n
    <3>1. c \notin TimersOf(x)
      BY <2>2 DEF TimersOf
    <3>2. OneOf(TimersOf(x), s) /\ (x < n \/ NoneOf(TimersOf(x), s))
      BY DEF Alone
    <3>3. OneOf(TimersOf(x), Append(s, c)) /\ (x < n \/ NoneOf(TimersOf(x), Append(s, c)))
      BY <3>1, <3>2, AppendOf
    <3> QED
      BY <3>3
  <2> QED
    BY <2>1, <2>2
<1> QED
  BY <1>1 DEF Alone

\* The timers of a notification, as the properties see them.
LEMMA TimersAre ==
    ASSUME NEW s \in Seq(ToastCalls), NEW id
    PROVE  \A k \in DOMAIN s : s[k] \in TimersOf(id) <=> k \in Notices!TimersOf(s, "dismiss", id)
<1>1. ASSUME NEW k \in DOMAIN s
      PROVE  s[k] \in TimersOf(id) <=> s[k].op = "dismiss" /\ s[k].arg.id = id
  <2>1. s[k] \in ToastCalls
    OBVIOUS
  <2> QED
    BY <2>1, ToastKinds DEF TimersOf
<1> QED
  BY <1>1 DEF Notices!TimersOf

LEMMA AloneClear ==
    ASSUME NEW n, NEW s \in Seq(ToastCalls), Alone(s, n), NEW op, NEW id
    PROVE  /\ Notices!Clear(s, op, id) \in Seq(ToastCalls) /\ Alone(Notices!Clear(s, op, id), n)
           /\ op = "dismiss" /\ id \in Nat => NoneOf(TimersOf(id), Notices!Clear(s, op, id))
<1> DEFINE K == Notices!TimersOf(s, op, id)
           cs == Notices!Clear(s, op, id)
<1>1. K \in SUBSET DOMAIN s /\ cs = Notices!Drop(s, K)
  BY DEF Notices!Clear, Notices!TimersOf
<1>2. op = "dismiss" => \A k \in DOMAIN s : s[k] \in TimersOf(id) <=> k \in K
  BY TimersAre
<1> HIDE DEF K, cs
<1>3. CASE K = {} /\ cs = s
  BY <1>2, <1>3 DEF cs, NoneOf
<1>4. ASSUME NEW k \in K, cs = Without(s, k)
      PROVE  cs \in Seq(ToastCalls) /\ Alone(cs, n) /\ (op = "dismiss" /\ id \in Nat => NoneOf(TimersOf(id), cs))
  <2>1. k \in DOMAIN s
    BY <1>1
  <2>2. /\ Alone(Without(s, k), n)
        /\ \A x \in Nat : s[k] \in TimersOf(x) => NoneOf(TimersOf(x), Without(s, k))
    BY <2>1, AloneRest
  <2>3. Without(s, k) \in Seq(ToastCalls)
    BY <2>1, WithoutOne
  <2> QED
    BY <1>2, <1>4, <2>1, <2>2, <2>3
<1>5. (K = {} /\ cs = s) \/ \E k \in K : cs = Without(s, k)
  BY <1>1, Dropped
<1> QED
  BY <1>3, <1>4, <1>5 DEF cs


LEMMA ToastsInit == ASSUME Notices!Init PROVE ToastsInv
<1>1. ui = Notices!Mounted /\ calls = <<>> /\ clicks = 0
  BY DEF Notices!Init
<1>2. ui \in ToastsUi /\ ui.toasts = <<>>
  BY <1>1 DEF Notices!Mounted, ToastsUi
<1> QED
  BY <1>1, <1>2 DEF Notices!Mounted, ToastsInv, Timed, OnceEach, Alone, OneOf, NoneOf

LEMMA ToastsServe ==
    ASSUME ToastsInv, NEW i \in DOMAIN calls, Notices!Serve(i)
    PROVE  Timed(ui.toasts, ui.sequence, calls') /\ ui' = ui
<1> DEFINE res == Notices!Ok([n |-> 0])
           c   == [calls[i] EXCEPT !.st = "served", !.res = res]
<1>1. Timed(ui.toasts, ui.sequence, calls) /\ calls \in Seq(ToastCalls)
  BY DEF ToastsInv, Timed
<1>2. calls[i].op = "write" /\ calls' = Notices!Served(i, res) /\ ui' = ui
  BY DEF Notices!Serve
<1>3. calls[i] \in WriteCalls /\ calls[i] \notin DismissCalls
  BY <1>1, <1>2, ToastKinds
<1>4. res \in Answered({[n |-> 0]})
  BY DEF Notices!Ok, Answered
<1> HIDE DEF res
<1>5. c \in WriteCalls
  BY <1>3, <1>4, CallServed DEF WriteCalls
<1> HIDE DEF c
<1>6. c \in ToastCalls /\ c \notin DismissCalls
  BY <1>5, ToastKinds DEF ToastCalls
<1>7. \A id : c \notin TimersOf(id) /\ calls[i] \notin TimersOf(id)
  BY <1>3, <1>6 DEF TimersOf
<1>8. Answer(calls, i, res) \in Seq(ToastCalls)
  BY <1>1, <1>6, ServeOne DEF c, Answer
<1>9. ASSUME NEW id, SomeOf(TimersOf(id), calls) PROVE SomeOf(TimersOf(id), Answer(calls, i, res))
  BY <1>1, <1>6, <1>7, <1>9, AnswerOf DEF c
<1>10. calls' = Answer(calls, i, res)
  BY <1>2, Zenon DEF Notices!Served, Answer
<1> QED
  BY <1>1, <1>2, <1>8, <1>9, <1>10 DEF Timed

LEMMA ToastsDeliver ==
    ASSUME ToastsInv, NEW i \in DOMAIN calls, Notices!Deliver(i)
    PROVE  ui' \in ToastsUi /\ Timed(ui'.toasts, ui'.sequence, calls')
<1>1. /\ ui \in ToastsUi /\ Timed(ui.toasts, ui.sequence, calls)
      /\ calls \in Seq(ToastCalls) /\ calls[i] \in ToastCalls
  BY DEF ToastsInv, Timed
<1>2. Notices!Rest(i) = Without(calls, i)
  BY DEF Notices!Rest, Notices!Without, Without
<1>3. CASE Notices!DeliverWrite(i)
  <2> DEFINE cs == Notices!Clear(Without(calls, i), "reset", 0)
  <2>1. PICK a \in Notices!Answers(i) :
            LET told == [ui EXCEPT !.status = IF ~ui.button THEN "idle"
                                              ELSE IF a.ok THEN "copied" ELSE "error"]
                n    == Notices!Notify(told, cs)
            IN  Notices!Show([u |-> n.u, cs |-> Append(n.cs, Notices!Timer("reset", 0))])
    BY <1>2, <1>3 DEF Notices!DeliverWrite
  <2> DEFINE status == IF ~ui.button THEN "idle" ELSE IF a.ok THEN "copied" ELSE "error"
             told   == [ui EXCEPT !.status = status]
             n      == Notices!Notify(told, cs)
  <2>2. ui' = n.u /\ calls' = Append(n.cs, Notices!Timer("reset", 0))
    BY <2>1 DEF Notices!Show
  <2>3. status \in {"idle", "copied", "error"}
    OBVIOUS
  <2> HIDE DEF status, n
  <2>4. told \in ToastsUi /\ told.toasts = ui.toasts /\ told.sequence = ui.sequence
    BY <1>1, <2>3 DEF ToastsUi
  <2> HIDE DEF told
  <2>5. calls[i] \notin DismissCalls
    BY <1>1, <1>3, ToastKinds DEF Notices!DeliverWrite
  <2>6. Timed(ui.toasts, ui.sequence, cs)
    BY <1>1, <2>5, TimedRest, ResetCleared
  <2> HIDE DEF cs
  <2>7. n.u \in ToastsUi /\ Timed(n.u.toasts, n.u.sequence, n.cs)
    BY <2>4, <2>6, NotifyTimed DEF n
  <2>8. Notices!Timer("reset", 0) \in ToastCalls
    BY TimerSent DEF ToastCalls
  <2> QED
    BY <2>2, <2>7, <2>8, TimedThen
<1>4. CASE Notices!DeliverReset(i)
  <2>1. calls[i] \notin DismissCalls
    BY <1>1, <1>4, ToastKinds DEF Notices!DeliverReset
  <2>2. ui' = [ui EXCEPT !.status = "idle"] /\ calls' = Without(calls, i)
    BY <1>2, <1>4 DEF Notices!DeliverReset, Notices!Show
  <2>3. ui' \in ToastsUi /\ ui'.toasts = ui.toasts /\ ui'.sequence = ui.sequence
    BY <1>1, <2>2 DEF ToastsUi
  <2> QED
    BY <1>1, <2>1, <2>2, <2>3, TimedRest
<1>5. CASE Notices!DeliverDismiss(i)
  <2> DEFINE d == Notices!Dismissed(ui, Without(calls, i), calls[i].arg.id)
  <2>1. calls[i].arg.id \in Nat
    BY <1>1, <1>5, ToastKinds DEF Notices!DeliverDismiss
  <2>2. ui' = d.u /\ calls' = d.cs
    BY <1>2, <1>5 DEF Notices!DeliverDismiss, Notices!Show
  <2>3. TimedBut(calls[i].arg.id, ui.toasts, ui.sequence, Without(calls, i))
    BY <1>1, TimedRest
  <2>4. d.u \in ToastsUi /\ Timed(d.u.toasts, d.u.sequence, d.cs)
    BY <1>1, <2>1, <2>3, DismissedTimed
  <2> HIDE DEF d
  <2> QED
    BY <2>2, <2>4
<1> QED
  BY <1>3, <1>4, <1>5 DEF Notices!Deliver

LEMMA ToastsClick ==
    ASSUME ToastsInv, Notices!Click
    PROVE  ui' \in ToastsUi /\ Timed(ui'.toasts, ui'.sequence, calls')
<1>1. ui \in ToastsUi /\ Timed(ui.toasts, ui.sequence, calls) /\ clicks \in Nat
  BY DEF ToastsInv
<1>2. CASE Notices!Copy
  <2> DEFINE c == Notices!Call("write", [id |-> clicks + 1], Notices!Effect)
  <2>1. [id |-> clicks + 1] \in [id : Nat]
    BY <1>1
  <2>2. c \in WriteCalls
    BY <2>1, CallSent DEF Notices!Call, Notices!Refused, WriteCalls
  <2>3. ui' = ui /\ calls' = Append(calls, c)
    BY <1>2 DEF Notices!Copy, Notices!Send
  <2> HIDE DEF c
  <2>4. c \in ToastCalls
    BY <2>2 DEF ToastCalls
  <2> QED
    BY <1>1, <2>3, <2>4, TimedThen
<1>3. CASE Notices!Leave
  <2>1. /\ ui' = [ui EXCEPT !.button = FALSE, !.status = "idle"]
        /\ calls' = Notices!Clear(calls, "reset", 0)
    BY <1>3 DEF Notices!Leave, Notices!Show
  <2>2. ui' \in ToastsUi /\ ui'.toasts = ui.toasts /\ ui'.sequence = ui.sequence
    BY <1>1, <2>1 DEF ToastsUi
  <2> QED
    BY <1>1, <2>1, <2>2, ResetCleared
<1>4. ASSUME NEW k, Notices!Dismiss(k)
      PROVE  ui' \in ToastsUi /\ Timed(ui'.toasts, ui'.sequence, calls')
  <2> DEFINE id == ui.toasts[k]
             d  == Notices!Dismissed(ui, calls, id)
  <2>1. k \in DOMAIN ui.toasts /\ ui.toasts \in Seq(Nat)
    BY <1>1, <1>4 DEF Notices!Dismiss, Timed
  <2>2. id \in Nat /\ TimedBut(id, ui.toasts, ui.sequence, calls)
    BY <1>1, <2>1 DEF Timed, TimedBut
  <2>3. ui' = d.u /\ calls' = d.cs
    BY <1>4 DEF Notices!Dismiss, Notices!Show
  <2> HIDE DEF id
  <2>4. d.u \in ToastsUi /\ Timed(d.u.toasts, d.u.sequence, d.cs)
    BY <1>1, <2>2, DismissedTimed
  <2> HIDE DEF d
  <2> QED
    BY <2>3, <2>4
<1> QED
  BY <1>2, <1>3, <1>4 DEF Notices!Click

\* Where nothing goes, no timer is left behind.
LEMMA NothingGoes == ASSUME ui'.toasts = ui.toasts PROVE Notices!TimersGo
BY DEF Notices!TimersGo

\* What was elsewhere in a sequence is still in it when one position goes.
LEMMA WithoutKeeps ==
    ASSUME NEW S, NEW s \in Seq(S), NEW i \in DOMAIN s, NEW k \in DOMAIN s \ {i}
    PROVE  \E j \in DOMAIN Without(s, i) : Without(s, i)[j] = s[k]
<1> DEFINE t == Without(s, i)
<1>1. PICK f \in [DOMAIN t -> DOMAIN s \ {i}] :
          /\ \A j \in DOMAIN t : t[j] = s[f[j]]
          /\ \A j, m \in DOMAIN t : f[j] = f[m] => j = m
          /\ \A m \in DOMAIN s \ {i} : \E j \in DOMAIN t : f[j] = m
  BY WithoutOld
<1> HIDE DEF t
<1>2. PICK j \in DOMAIN t : f[j] = k
  BY <1>1
<1>3. t[j] = s[k]
  BY <1>1, <1>2
<1> QED
  BY <1>2, <1>3 DEF t

\* dismiss(): one notification goes, and its timer with it.
LEMMA DismissedGoes ==
    ASSUME ToastsInv, NEW cs \in Seq(ToastCalls), Alone(cs, ui.sequence), NEW id \in Nat,
           ui' = Notices!Dismissed(ui, cs, id).u, calls' = Notices!Dismissed(ui, cs, id).cs
    PROVE  Alone(calls', ui'.sequence) /\ Notices!TimersGo
<1> DEFINE ts == ui.toasts
           rest == Notices!RemoveToast(ts, id)
           K == {k \in DOMAIN ts : ts[k] = id}
<1>1. ui \in ToastsUi /\ ts \in Seq(Nat) /\ OnceEach(ts)
  BY DEF ToastsInv, Timed
<1>2. calls' = Notices!Clear(cs, "dismiss", id) /\ ui' = [ui EXCEPT !.toasts = rest]
  BY DEF Notices!Dismissed
<1>3. K \in SUBSET DOMAIN ts /\ rest = Notices!Drop(ts, K)
  BY DEF Notices!RemoveToast
<1> HIDE DEF rest
<1>4. ui'.toasts = rest /\ ui'.sequence = ui.sequence
  BY <1>1, <1>2 DEF ToastsUi
<1>5. /\ calls' \in Seq(ToastCalls) /\ Alone(calls', ui.sequence)
      /\ NoneOf(TimersOf(id), calls')
  BY <1>2, AloneClear
<1>6. Notices!TimersOf(calls', "dismiss", id) = {}
  <2> DEFINE t == calls'
  <2>1. t \in Seq(ToastCalls) /\ NoneOf(TimersOf(id), t)
    BY <1>5
  <2> HIDE DEF t
  <2>2. \A k \in DOMAIN t : k \notin Notices!TimersOf(t, "dismiss", id)
    BY <2>1, TimersAre DEF NoneOf
  <2>3. Notices!TimersOf(t, "dismiss", id) = {}
    BY <2>2 DEF Notices!TimersOf
  <2> QED
    BY <2>3 DEF t
<1>7. ASSUME NEW k \in DOMAIN ts, ts[k] # id
      PROVE  \E j \in DOMAIN rest : rest[j] = ts[k]
  <2>1. CASE rest = ts
    BY <1>7, <2>1
  <2>2. ASSUME NEW l \in K, rest = Without(ts, l)
        PROVE  \E j \in DOMAIN rest : rest[j] = ts[k]
    <3>1. l \in DOMAIN ts /\ k \in DOMAIN ts \ {l}
      BY <1>7
    <3> HIDE DEF ts, K
    <3>2. \E j \in DOMAIN Without(ts, l) : Without(ts, l)[j] = ts[k]
      BY <1>1, <3>1, WithoutKeeps
    <3> QED
      BY <2>2, <3>2
  <2> QED
    BY <1>3, <2>1, <2>2, Dropped
<1>8. Notices!TimersGo
  BY <1>4, <1>6, <1>7 DEF Notices!TimersGo
<1> QED
  BY <1>4, <1>5, <1>8

\* A notification that comes pushes out the oldest of a full screen, and no other.
LEMMA NotifiedGoes ==
    ASSUME ToastsInv, ui'.toasts = Notices!AddToast(ui.toasts, ui.sequence),
           ui'.sequence = ui.sequence + 1
    PROVE  Notices!TimersGo
<1> DEFINE ts   == ui.toasts
           next == <<ui.sequence>> \o ts
           m    == IF Len(next) < ToastLimit THEN Len(next) ELSE ToastLimit
           new  == SubSeq(next, 1, m)
<1>1. /\ ts \in Seq(Nat) /\ ui.sequence \in Nat
      /\ \A k \in DOMAIN ts : ts[k] # ui.sequence
  BY DEF ToastsInv, Timed, ToastsUi
<1>2. Notices!RemoveToast(ts, ui.sequence) = ts
  <2>1. {k \in DOMAIN ts : ts[k] = ui.sequence} = {}
    BY <1>1
  <2> QED
    BY <2>1 DEF Notices!RemoveToast, Notices!Drop
<1>3. ui'.toasts = new
  BY <1>2 DEF Notices!AddToast
<1>4. /\ next \in Seq(Nat) /\ Len(next) = Len(ts) + 1 /\ Len(ts) \in Nat
      /\ \A k \in 1 .. Len(ts) : next[k + 1] = ts[k]
  BY <1>1
<1>5. m \in Nat /\ m <= Len(next) /\ \A k \in 1 .. Len(ts) : k < ToastLimit => k + 1 \in 1 .. m
  BY <1>4, LimitAssumption
<1> HIDE DEF next, m
<1>6. DOMAIN new = 1 .. m /\ \A k \in 1 .. m : new[k] = next[k]
  BY <1>4, <1>5
<1>7. ASSUME NEW k \in DOMAIN ts, k < ToastLimit
      PROVE  \E j \in DOMAIN new : new[j] = ts[k]
  <2>1. k \in 1 .. Len(ts)
    BY <1>1
  <2>2. k + 1 \in DOMAIN new /\ new[k + 1] = ts[k]
    BY <1>4, <1>5, <1>6, <1>7, <2>1
  <2> QED
    BY <2>2
<1> HIDE DEF new
<1>8. ui'.sequence # ui.sequence
  BY <1>1
<1>9. \A k \in DOMAIN ts : k < ToastLimit \/ k >= ToastLimit
  BY <1>1, LimitAssumption
<1> QED
  BY <1>3, <1>7, <1>8, <1>9 DEF Notices!TimersGo, Notices!PushedOut

\* One timer each at most, and none left behind, whatever happens.
LEMMA ToastsTend ==
    ASSUME ToastsInv, Notices!Next
    PROVE  Alone(calls', ui'.sequence) /\ Notices!TimersGo
<1>1. /\ ui \in ToastsUi /\ ui.sequence \in Nat /\ clicks \in Nat /\ ui.toasts \in Seq(Nat)
      /\ calls \in Seq(ToastCalls) /\ Alone(calls, ui.sequence)
  BY DEF ToastsInv, Timed, ToastsUi
<1>2. ASSUME NEW i \in DOMAIN calls
      PROVE  /\ Notices!Rest(i) = Without(calls, i) /\ Without(calls, i) \in Seq(ToastCalls)
             /\ Alone(Without(calls, i), ui.sequence) /\ calls[i] \in ToastCalls
  <2>1. Notices!Rest(i) = Without(calls, i)
    BY DEF Notices!Rest, Notices!Without, Without
  <2>2. Without(calls, i) \in Seq(ToastCalls) /\ calls[i] \in ToastCalls
    BY <1>1, WithoutOne
  <2> QED
    BY <1>1, <2>1, <2>2, AloneRest
<1>3. ASSUME NEW i \in DOMAIN calls, Notices!Serve(i)
      PROVE  Alone(calls', ui'.sequence) /\ Notices!TimersGo
  <2> DEFINE res == Notices!Ok([n |-> 0])
             c   == [calls[i] EXCEPT !.st = "served", !.res = res]
  <2>1. calls[i].op = "write" /\ calls' = Notices!Served(i, res) /\ ui' = ui
    BY <1>3 DEF Notices!Serve
  <2>2. calls[i] \in WriteCalls /\ res \in Answered({[n |-> 0]})
    BY <1>1, <2>1, ToastKinds DEF Notices!Ok, Answered
  <2> HIDE DEF res
  <2>3. c \in WriteCalls
    BY <2>2, CallServed DEF WriteCalls
  <2> HIDE DEF c
  <2>4. c \in ToastCalls /\ c \notin DismissCalls
    BY <2>3, ToastKinds DEF ToastCalls
  <2>5. ASSUME NEW x \in Nat
        PROVE  /\ OneOf(TimersOf(x), Answer(calls, i, res))
               /\ x < ui.sequence \/ NoneOf(TimersOf(x), Answer(calls, i, res))
    <3>1. c \notin TimersOf(x)
      BY <2>4 DEF TimersOf
    <3>2. /\ NoneOf(TimersOf(x), calls) => NoneOf(TimersOf(x), Answer(calls, i, res))
          /\ OneOf(TimersOf(x), calls) => OneOf(TimersOf(x), Answer(calls, i, res))
      BY <1>1, <2>4, <3>1, AnswerOf DEF c
    <3> QED
      BY <1>1, <3>2 DEF Alone
  <2>6. calls' = Answer(calls, i, res)
    BY <2>1, Zenon DEF Notices!Served, Answer
  <2> QED
    BY <2>1, <2>5, <2>6, NothingGoes DEF Alone
<1>4. ASSUME NEW i \in DOMAIN calls, Notices!DeliverWrite(i)
      PROVE  Alone(calls', ui'.sequence) /\ Notices!TimersGo
  <2> DEFINE cs == Notices!Clear(Without(calls, i), "reset", 0)
  <2>1. PICK a \in Notices!Answers(i) :
            LET told == [ui EXCEPT !.status = IF ~ui.button THEN "idle"
                                              ELSE IF a.ok THEN "copied" ELSE "error"]
                n    == Notices!Notify(told, cs)
            IN  Notices!Show([u |-> n.u, cs |-> Append(n.cs, Notices!Timer("reset", 0))])
    BY <1>2, <1>4 DEF Notices!DeliverWrite
  <2> DEFINE status == IF ~ui.button THEN "idle" ELSE IF a.ok THEN "copied" ELSE "error"
             told   == [ui EXCEPT !.status = status]
             seq    == ui.sequence
             timer  == Notices!Timer("dismiss", seq)
             timed  == Append(cs, timer)
             reset  == Notices!Timer("reset", 0)
             toasts == Notices!AddToast(ui.toasts, seq)
  <2>2. cs \in Seq(ToastCalls) /\ Alone(cs, seq)
    BY <1>2, AloneClear
  <2> HIDE DEF cs, status
  <2>3. told \in [DOMAIN ui -> UNION {{told[x]} : x \in DOMAIN ui}] /\ told.toasts = ui.toasts /\ told.sequence = seq
    BY <1>1 DEF ToastsUi
  <2>4. /\ ui' = [told EXCEPT !.toasts = Notices!AddToast(@, told.sequence), !.sequence = @ + 1]
        /\ calls' = Append(Append(cs, Notices!Timer("dismiss", told.sequence)), reset)
    BY <2>1 DEF Notices!Show, Notices!Notify, status
  <2>5. {"toasts", "sequence"} \subseteq DOMAIN told
    BY <1>1 DEF ToastsUi
  <2> HIDE DEF told
  <2>6. ui'.toasts = toasts /\ ui'.sequence = seq + 1 /\ calls' = Append(timed, reset)
    BY <2>3, <2>4, <2>5
  <2>7. timer \in TimersOf(seq) /\ timer \in ToastCalls /\ reset \in ResetCalls
    BY <1>1, TimerSent DEF TimersOf, ToastCalls
  <2>8. reset \in ToastCalls /\ reset \notin DismissCalls
    BY <2>7, ToastKinds DEF ToastCalls
  <2> HIDE DEF toasts, timer, reset
  <2>9. timed \in Seq(ToastCalls) /\ Alone(timed, seq + 1)
    BY <1>1, <2>2, <2>7, AloneNext
  <2> HIDE DEF timed
  <2>10. Alone(Append(timed, reset), seq + 1)
    BY <2>8, <2>9, AloneThen
  <2> QED
    BY <2>6, <2>10, NotifiedGoes DEF toasts
<1>5. ASSUME NEW i \in DOMAIN calls, Notices!DeliverReset(i)
      PROVE  Alone(calls', ui'.sequence) /\ Notices!TimersGo
  <2>1. ui' = [ui EXCEPT !.status = "idle"] /\ calls' = Without(calls, i)
    BY <1>2, <1>5 DEF Notices!DeliverReset, Notices!Show
  <2>2. ui'.toasts = ui.toasts /\ ui'.sequence = ui.sequence
    BY <1>1, <2>1 DEF ToastsUi
  <2> QED
    BY <1>2, <2>1, <2>2, NothingGoes
<1>6. ASSUME NEW i \in DOMAIN calls, Notices!DeliverDismiss(i)
      PROVE  Alone(calls', ui'.sequence) /\ Notices!TimersGo
  <2> DEFINE cs == Without(calls, i)
             id == calls[i].arg.id
  <2>1. id \in Nat /\ cs \in Seq(ToastCalls) /\ Alone(cs, ui.sequence)
    BY <1>2, <1>6, ToastKinds DEF Notices!DeliverDismiss
  <2>2. ui' = Notices!Dismissed(ui, cs, id).u /\ calls' = Notices!Dismissed(ui, cs, id).cs
    BY <1>2, <1>6 DEF Notices!DeliverDismiss, Notices!Show
  <2> HIDE DEF cs, id
  <2> QED
    BY <2>1, <2>2, DismissedGoes
<1>7. CASE Notices!Copy
  <2> DEFINE c == Notices!Call("write", [id |-> clicks + 1], Notices!Effect)
  <2>1. [id |-> clicks + 1] \in [id : Nat]
    BY <1>1
  <2>2. c \in WriteCalls
    BY <2>1, CallSent DEF Notices!Call, Notices!Refused, WriteCalls
  <2>3. ui' = ui /\ calls' = Append(calls, c)
    BY <1>7 DEF Notices!Copy, Notices!Send
  <2> HIDE DEF c
  <2>4. c \notin DismissCalls
    BY <2>2, ToastKinds DEF ToastCalls
  <2> QED
    BY <1>1, <2>3, <2>4, AloneThen, NothingGoes
<1>8. CASE Notices!Leave
  <2>1. /\ ui' = [ui EXCEPT !.button = FALSE, !.status = "idle"]
        /\ calls' = Notices!Clear(calls, "reset", 0)
    BY <1>8 DEF Notices!Leave, Notices!Show
  <2>2. ui'.toasts = ui.toasts /\ ui'.sequence = ui.sequence
    BY <1>1, <2>1 DEF ToastsUi
  <2> QED
    BY <1>1, <2>1, <2>2, AloneClear, NothingGoes
<1>9. ASSUME NEW k, Notices!Dismiss(k)
      PROVE  Alone(calls', ui'.sequence) /\ Notices!TimersGo
  <2> DEFINE id == ui.toasts[k]
  <2>1. k \in DOMAIN ui.toasts
    BY <1>9 DEF Notices!Dismiss
  <2>2. id \in Nat
    BY <1>1, <2>1
  <2>3. ui' = Notices!Dismissed(ui, calls, id).u /\ calls' = Notices!Dismissed(ui, calls, id).cs
    BY <1>9 DEF Notices!Dismiss, Notices!Show
  <2> HIDE DEF id
  <2> QED
    BY <1>1, <2>2, <2>3, DismissedGoes
<1> QED
  BY <1>3, <1>4, <1>5, <1>6, <1>7, <1>8, <1>9 DEF Notices!Next, Notices!Click, Notices!Deliver

LEMMA ToastsNext == ASSUME ToastsInv, Notices!Next PROVE ToastsInv' /\ Notices!TimersGo
<1> DEFINE Rested == clicks' \in Nat /\ ui' \in ToastsUi /\ Timed(ui'.toasts, ui'.sequence, calls')
<1>1. CASE Notices!UserActs /\ Notices!Click
  <2>1. clicks' \in Nat
    BY <1>1 DEF Notices!UserActs, ToastsInv
  <2> QED
    BY <1>1, <2>1, ToastsClick, ToastsTend DEF ToastsInv
<1>2. ASSUME NEW i \in DOMAIN calls, Notices!Serve(i), clicks' = clicks PROVE Rested
  BY <1>2, ToastsServe DEF ToastsInv
<1>3. ASSUME NEW i \in DOMAIN calls, Notices!Deliver(i), clicks' = clicks PROVE Rested
  BY <1>3, ToastsDeliver DEF ToastsInv
<1>4. Alone(calls', ui'.sequence) /\ Notices!TimersGo
  BY ToastsTend
<1> QED
  BY <1>1, <1>2, <1>3, <1>4 DEF Notices!Next, ToastsInv

\* The countdown has its one timer at every step.
LEMMA OneTimerInit == ASSUME Interstitial!Init PROVE OneTimerInv
<1>1. CountdownInv
  BY CountdownInit
<1>2. ui.away = FALSE /\ ui.paused = FALSE /\ ui.leaving = FALSE /\ calls = <<TickCall>>
  BY DEF Interstitial!Init, TickCall
<1> QED
  BY <1>1, <1>2 DEF OneTimerInv, TimerOf

LEMMA OneTimerNext == ASSUME OneTimerInv, Interstitial!Next PROVE OneTimerInv'
<1>1. CASE Interstitial!Click
  BY <1>1, CountdownClick, TimerClick DEF OneTimerInv
<1>2. CASE Interstitial!Passes
  <2>1. CountdownInv' /\ ui' = ui /\ calls' = calls
    BY <1>2, CountdownPasses DEF OneTimerInv, Interstitial!Passes
  <2> QED
    BY <2>1 DEF OneTimerInv, TimerOf
<1>3. ASSUME NEW i \in DOMAIN calls, Interstitial!Deliver(i) PROVE OneTimerInv'
  BY <1>3, CountdownDeliver, TimerDeliver DEF OneTimerInv
<1> QED
  BY <1>1, <1>2, <1>3 DEF Interstitial!Next

(* Whatever is copied, dismissed, left or pushed out by a newer one, each  *)
(* notification on the screen has one timer, and those that go leave none  *)
(* behind but those that were pushed out; and whatever the reader does     *)
(* with the countdown, it has one timer while it runs and none while it    *)
(* does not (toast-provider.tsx:37-56, redirect.js:30-33, 54-91).          *)
THEOREM TimersTendedAlways == Spec => TimersTended
<1> DEFINE I == /\ page = "toasts" => ToastsInv
                /\ page = "countdown" => OneTimerInv
           P == /\ page = "toasts" => Notices!TimedToasts
                /\ page = "countdown" => Interstitial!OneTimer
           G == page = "toasts" => Notices!TimersGo
<1>1. Init => I
  BY Mounts, ToastsInit, OneTimerInit
<1>2. I /\ [Next]_vars => I' /\ [G]_vars
  <2>1. ASSUME page = "toasts", ToastsInv, [Next]_vars PROVE ToastsInv' /\ Notices!TimersGo
    <3>1. CASE Notices!Next
      BY <2>1, <3>1, ToastsNext
    <3>2. CASE Still
      <4>1. ui' = ui /\ ToastsInv'
        BY <2>1, <3>2 DEF Still, ToastsInv
      <4> QED
        BY <4>1, NothingGoes
    <3> QED
      BY <2>1, <3>1, <3>2, Steps
  <2>2. ASSUME page = "countdown", OneTimerInv, [Next]_vars PROVE OneTimerInv'
    <3>1. CASE Interstitial!Next
      BY <2>2, <3>1, OneTimerNext
    <3>2. CASE Still
      BY <2>2, <3>2 DEF Still, OneTimerInv, CountdownInv
    <3> QED
      BY <2>2, <3>1, <3>2, Steps
  <2> QED
    BY <2>1, <2>2, Steps
<1>3. I => P
  <2>1. ASSUME ToastsInv PROVE Notices!TimedToasts
    <3> SUFFICES ASSUME NEW k \in DOMAIN ui.toasts
                 PROVE  /\ \E i \in DOMAIN calls : Notices!TimersOf(calls, "dismiss", ui.toasts[k]) = {i}
                        /\ \A j \in DOMAIN ui.toasts : ui.toasts[j] = ui.toasts[k] => j = k
      BY DEF Notices!TimedToasts
    <3> DEFINE id == ui.toasts[k]
    <3>1. OnceEach(ui.toasts) /\ SomeOf(TimersOf(id), calls) /\ calls \in Seq(ToastCalls) /\ id \in Nat
      BY <2>1 DEF ToastsInv, Timed
    <3> HIDE DEF id
    <3>2. OneOf(TimersOf(id), calls)
      BY <2>1, <3>1 DEF ToastsInv, Alone
    <3>3. PICK i \in DOMAIN calls : calls[i] \in TimersOf(id)
      BY <3>1 DEF SomeOf
    <3>4. \A j \in DOMAIN calls : calls[j] \in TimersOf(id) <=> j = i
      BY <3>2, <3>3 DEF OneOf
    <3>5. \A j \in DOMAIN calls : j \in Notices!TimersOf(calls, "dismiss", id) <=> j = i
      BY <3>1, <3>4, TimersAre
    <3>6. Notices!TimersOf(calls, "dismiss", id) = {i}
      BY <3>5 DEF Notices!TimersOf
    <3> QED
      BY <3>1, <3>6 DEF OnceEach, id
  <2> QED
    BY <2>1, TimerIsOne
<1> HIDE DEF I, P, G
<1>4. Spec => []P /\ [][G]_vars
  BY <1>1, <1>2, <1>3, PTL DEF Spec
<1> QED
  BY <1>4 DEF TimersTended, P, G


-----------------------------------------------------------------------------
(* ShownIsAsked, page by page.  The statistics: the number of a page of the*)
(* log is below what any log has, whichever log it was turned in.          *)
StatsUi(u) ==
    /\ DOMAIN u = {"range", "order", "selected", "page", "ranked", "pages", "error"}
    /\ u.page \in Nat /\ u.pages \in {0, LogPages} /\ (u.page = 0 \/ u.page < LogPages)
PartFields == {"st", "shown", "spin"}
StatsParts(c) == DOMAIN c = Stats!Parts /\ \A p \in Stats!Parts : DOMAIN c[p] = PartFields
StatsInv == StatsUi(ui) /\ StatsParts(calls) /\ Stats!ShownIsAsked

LEMMA WantedAlike ==
    ASSUME NEW u, NEW v, NEW p \in Stats!Parts, Stats!Deps(u, p) = Stats!Deps(v, p)
    PROVE  Stats!Wanted(u, p) <=> Stats!Wanted(v, p)
<1>1. CASE p = "detail"
  BY <1>1 DEF Stats!Deps, Stats!Wanted
<1>2. CASE p = "log"
  BY <1>2 DEF Stats!Deps, Stats!Wanted
<1>3. CASE p \notin {"detail", "log"}
  BY <1>3 DEF Stats!Wanted
<1> QED
  BY <1>1, <1>2, <1>3

\* The effect of a part asks, or empties a part nobody wants.
LEMMA EffectAsks ==
    ASSUME NEW u, NEW c, StatsParts(c), NEW p \in Stats!Parts
    PROVE  /\ DOMAIN Stats!Effect(u, c, p) = PartFields
           /\ Stats!Wanted(u, p) => Stats!Effect(u, c, p).st # "idle"
<1> DEFINE spin == p \in {"detail", "log"}
           e1 == [c[p] EXCEPT !.st = "sent", !.spin = spin]
           e2 == [c[p] EXCEPT !.st = "idle", !.shown = Stats!Nothing]
<1>1. DOMAIN c[p] = PartFields
  BY DEF StatsParts
<1>2. Stats!Effect(u, c, p) = IF Stats!Wanted(u, p) THEN e1 ELSE e2
  BY Zenon DEF Stats!Effect
<1>3. DOMAIN e2 = PartFields
  BY <1>1
<1> HIDE DEF spin, e2
<1>4. DOMAIN e1 = PartFields /\ e1.st = "sent"
  BY <1>1 DEF PartFields
<1> HIDE DEF e1
<1> QED
  BY <1>2, <1>3, <1>4

LEMMA StatsShows ==
    ASSUME StatsInv, NEW u, StatsUi(u), NEW c, StatsParts(c), Stats!Show(u, c),
           \A p \in Stats!Parts : c[p] = calls[p] \/ c[p].st # "idle" \/ c[p].shown = Stats!Deps(ui, p)
    PROVE  StatsInv'
<1> DEFINE v == IF Stats!Deps(u, "detail") # Stats!Deps(ui, "detail") THEN [u EXCEPT !.page = 0] ELSE u
<1>1. /\ ui' = v
      /\ calls' = [p \in Stats!Parts |-> IF Stats!Deps(v, p) = Stats!Deps(ui, p) THEN c[p] ELSE Stats!Effect(v, c, p)]
  BY Zenon DEF Stats!Show
<1>2. StatsUi(v)
  BY DEF StatsUi
<1> HIDE DEF v
<1>3. ASSUME NEW p \in Stats!Parts
      PROVE  /\ DOMAIN calls'[p] = PartFields
             /\ calls'[p].st = "idle" /\ Stats!Wanted(v, p) => calls'[p].shown = Stats!Deps(v, p)
  <2>1. CASE Stats!Deps(v, p) = Stats!Deps(ui, p)
    <3>1. calls'[p] = c[p] /\ (Stats!Wanted(v, p) <=> Stats!Wanted(ui, p))
      BY <1>1, <2>1, WantedAlike
    <3>2. calls[p].st = "idle" /\ Stats!Wanted(ui, p) => calls[p].shown = Stats!Deps(ui, p)
      BY DEF StatsInv, Stats!ShownIsAsked
    <3>3. DOMAIN c[p] = PartFields
      BY DEF StatsParts
    <3> QED
      BY <2>1, <3>1, <3>2, <3>3
  <2>2. CASE Stats!Deps(v, p) # Stats!Deps(ui, p)
    <3>1. calls'[p] = Stats!Effect(v, c, p)
      BY <1>1, <2>2
    <3> QED
      BY <3>1, EffectAsks
  <2> QED
    BY <2>1, <2>2
<1>4. DOMAIN calls' = Stats!Parts
  BY <1>1
<1> QED
  BY <1>1, <1>2, <1>3, <1>4 DEF StatsInv, StatsParts, Stats!ShownIsAsked

LEMMA StatsInit == ASSUME Stats!Init PROVE StatsInv
<1> DEFINE idle == [q \in Stats!Parts |-> Stats!Idle]
<1>1. ui = Stats!Mounted /\ calls = [p \in Stats!Parts |-> Stats!Effect(Stats!Mounted, idle, p)]
  BY Zenon DEF Stats!Init
<1>2. StatsUi(ui)
  BY <1>1 DEF StatsUi, Stats!Mounted
<1>3. StatsParts(idle)
  BY DEF StatsParts, Stats!Idle, PartFields
<1> HIDE DEF idle
<1>4. \A p \in Stats!Parts : /\ DOMAIN calls[p] = PartFields
                             /\ Stats!Wanted(ui, p) => calls[p].st # "idle"
  BY <1>1, <1>3, EffectAsks
<1> QED
  BY <1>1, <1>2, <1>4 DEF StatsInv, StatsParts, Stats!ShownIsAsked

LEMMA StatsDelivers ==
    ASSUME StatsInv, NEW p \in Stats!Parts, Stats!Deliver(p) PROVE StatsInv'
<1>1. StatsUi(ui) /\ StatsParts(calls)
  BY DEF StatsInv
<1>2. CASE Stats!Arrive(p)
  <2> DEFINE k == [st |-> "idle", shown |-> Stats!Deps(ui, p), spin |-> FALSE]
             c == [calls EXCEPT ![p] = k]
  <2>1. PICK u \in Stats!Answered(p, ui) : Stats!Show(u, c)
    BY <1>2, Zenon DEF Stats!Arrive
  <2>2. StatsUi(u)
    <3>1. DOMAIN u = DOMAIN ui /\ u.page = ui.page /\ (u.pages = ui.pages \/ u.pages \in {0, LogPages})
      <4>1. CASE p = "overview"
        BY <1>1, <2>1, <4>1 DEF Stats!Answered, StatsUi
      <4>2. CASE p = "log"
        BY <1>1, <2>1, <4>2 DEF Stats!Answered, StatsUi
      <4>3. CASE p = "detail"
        BY <1>1, <2>1, <4>3 DEF Stats!Answered, StatsUi
      <4>4. CASE p = "ranking"
        <5>1. PICK new \in Stats!Ranked(ui.order, ui.range) : u = Stats!WithRanking(ui, new)
          BY <2>1, <4>4 DEF Stats!Answered
        <5> DEFINE sel == IF \E j \in DOMAIN new : new[j] = ui.selected THEN ui.selected
                          ELSE IF new = <<>> THEN Stats!NoLink ELSE new[1]
        <5>2. u = [ui EXCEPT !.ranked = new, !.selected = sel]
          BY <5>1 DEF Stats!WithRanking
        <5> HIDE DEF sel
        <5> QED
          BY <1>1, <5>2 DEF StatsUi
      <4> QED
        BY <4>1, <4>2, <4>3, <4>4 DEF Stats!Parts
    <3> QED
      BY <1>1, <3>1 DEF StatsUi
  <2>3. DOMAIN k = PartFields /\ k.shown = Stats!Deps(ui, p)
    BY DEF PartFields
  <2> HIDE DEF k
  <2>4. StatsParts(c) /\ \A q \in Stats!Parts : c[q] = calls[q] \/ c[q].shown = Stats!Deps(ui, q)
    BY <1>1, <2>3 DEF StatsParts
  <2> HIDE DEF c
  <2> QED
    BY <2>1, <2>2, <2>4, StatsShows
<1>3. CASE Stats!Fail(p)
  <2> DEFINE u == [ui EXCEPT !.error = TRUE]
             k == [calls[p] EXCEPT !.st = "failed", !.spin = FALSE]
             c == [calls EXCEPT ![p] = k]
  <2>1. Stats!Show(u, [calls EXCEPT ![p].st = "failed", ![p].spin = FALSE])
    BY <1>3, Zenon DEF Stats!Fail
  <2>2. [calls EXCEPT ![p].st = "failed", ![p].spin = FALSE] = c
    BY <1>1 DEF StatsParts
  <2>3. StatsUi(u)
    BY <1>1 DEF StatsUi
  <2>4. DOMAIN k = PartFields /\ k.st = "failed"
    BY <1>1 DEF StatsParts, PartFields
  <2> HIDE DEF u, k
  <2>5. StatsParts(c) /\ \A q \in Stats!Parts : c[q] = calls[q] \/ c[q].st # "idle"
    BY <1>1, <2>4 DEF StatsParts
  <2> HIDE DEF c
  <2> QED
    BY <2>1, <2>2, <2>3, <2>5, StatsShows
<1> QED
  BY <1>2, <1>3 DEF Stats!Deliver

LEMMA StatsNext == ASSUME StatsInv, Stats!Next \/ Still PROVE StatsInv'
<1>1. StatsUi(ui) /\ StatsParts(calls)
  BY DEF StatsInv
<1>2. ASSUME NEW u, StatsUi(u), Stats!Show(u, calls) PROVE StatsInv'
  BY <1>1, <1>2, StatsShows
<1>3. ASSUME NEW r, Stats!ChooseRange(r) PROVE StatsInv'
  <2> DEFINE u == [ui EXCEPT !.range = r]
  <2>1. Stats!Show(u, calls)
    BY <1>3, Zenon DEF Stats!ChooseRange
  <2>2. StatsUi(u)
    BY <1>1 DEF StatsUi
  <2> HIDE DEF u
  <2> QED
    BY <1>2, <2>1, <2>2
<1>4. ASSUME NEW o, Stats!ChooseOrder(o) PROVE StatsInv'
  <2> DEFINE u == [ui EXCEPT !.order = o]
  <2>1. Stats!Show(u, calls)
    BY <1>4, Zenon DEF Stats!ChooseOrder
  <2>2. StatsUi(u)
    BY <1>1 DEF StatsUi
  <2> HIDE DEF u
  <2> QED
    BY <1>2, <2>1, <2>2
<1>5. ASSUME NEW l, Stats!ChooseLink(l) PROVE StatsInv'
  <2> DEFINE u == [ui EXCEPT !.selected = l]
  <2>1. Stats!Show(u, calls)
    BY <1>5, Zenon DEF Stats!ChooseLink
  <2>2. StatsUi(u)
    BY <1>1 DEF StatsUi
  <2> HIDE DEF u
  <2> QED
    BY <1>2, <2>1, <2>2
<1>6. CASE Stats!PreviousClicks
  <2> DEFINE u == [ui EXCEPT !.page = @ - 1]
  <2>1. Stats!Show(u, calls) /\ ui.page > 0
    BY <1>6, Zenon DEF Stats!PreviousClicks
  <2>2. StatsUi(u)
    BY <1>1, <2>1, LogAssumption DEF StatsUi
  <2> HIDE DEF u
  <2> QED
    BY <1>2, <2>1, <2>2
<1>7. CASE Stats!NextClicks
  <2> DEFINE u == [ui EXCEPT !.page = @ + 1]
  <2>1. Stats!Show(u, calls) /\ ui.page + 1 < ui.pages
    BY <1>7, Zenon DEF Stats!NextClicks
  <2>2. StatsUi(u)
    BY <1>1, <2>1, LogAssumption DEF StatsUi
  <2> HIDE DEF u
  <2> QED
    BY <1>2, <2>1, <2>2
<1>8. CASE Still
  BY <1>8 DEF Still, StatsInv, StatsUi, StatsParts, Stats!ShownIsAsked
<1> QED
  BY <1>3, <1>4, <1>5, <1>6, <1>7, <1>8, StatsDelivers DEF Stats!Next, Stats!Click


\* Calls in flight, whatever they ask for.
CallFields == {"op", "arg", "then", "st", "res"}
InFlight(s) ==
    /\ \E n \in Nat : DOMAIN s = 1 .. n /\ s = [k \in 1 .. n |-> s[k]]
    /\ \A k \in DOMAIN s : DOMAIN s[k] = CallFields

LEMMA InFlightIs == ASSUME NEW s, InFlight(s) PROVE s \in Seq({c \in {s[k] : k \in DOMAIN s} : DOMAIN c = CallFields})
<1> DEFINE S == {c \in {s[k] : k \in DOMAIN s} : DOMAIN c = CallFields}
<1>1. PICK n \in Nat : DOMAIN s = 1 .. n /\ s = [k \in 1 .. n |-> s[k]]
  BY DEF InFlight
<1>2. \A k \in 1 .. n : s[k] \in S
  BY <1>1 DEF InFlight
<1> HIDE DEF S
<1>3. s \in Seq(S)
  BY <1>1, <1>2
<1> QED
  BY <1>3 DEF S

LEMMA InFlightSeq == ASSUME NEW S, NEW s \in Seq(S), \A c \in S : DOMAIN c = CallFields PROVE InFlight(s)
<1>1. Len(s) \in Nat /\ DOMAIN s = 1 .. Len(s) /\ s = [k \in 1 .. Len(s) |-> s[k]]
  OBVIOUS
<1> QED
  BY <1>1 DEF InFlight

LEMMA InFlightRest ==
    ASSUME NEW s, InFlight(s), NEW i \in DOMAIN s
    PROVE  /\ InFlight(Without(s, i))
           /\ \A k \in DOMAIN Without(s, i) : \E j \in DOMAIN s : Without(s, i)[k] = s[j]
           /\ \A j \in DOMAIN s \ {i} : \E k \in DOMAIN Without(s, i) : Without(s, i)[k] = s[j]
<1> DEFINE S == {c \in {s[k] : k \in DOMAIN s} : DOMAIN c = CallFields}
<1>1. s \in Seq(S) /\ \A c \in S : DOMAIN c = CallFields
  BY InFlightIs
<1> HIDE DEF S
<1>2. Without(s, i) \in Seq(S)
  BY <1>1, WithoutOne
<1>3. InFlight(Without(s, i))
  BY <1>1, <1>2, InFlightSeq
<1>4. PICK f \in [DOMAIN Without(s, i) -> DOMAIN s \ {i}] :
          /\ \A j \in DOMAIN Without(s, i) : Without(s, i)[j] = s[f[j]]
          /\ \A j, k \in DOMAIN Without(s, i) : f[j] = f[k] => j = k
          /\ \A k \in DOMAIN s \ {i} : \E j \in DOMAIN Without(s, i) : f[j] = k
  BY <1>1, WithoutOld
<1> QED
  BY <1>3, <1>4

LEMMA InFlightAppend ==
    ASSUME NEW s, InFlight(s), NEW c, DOMAIN c = CallFields
    PROVE  /\ InFlight(Append(s, c)) /\ DOMAIN s \subseteq DOMAIN Append(s, c)
           /\ \A k \in DOMAIN s : Append(s, c)[k] = s[k]
           /\ \E k \in DOMAIN Append(s, c) : Append(s, c)[k] = c
           /\ \A k \in DOMAIN Append(s, c) : k \in DOMAIN s \/ Append(s, c)[k] = c
<1> DEFINE S == {d \in {s[k] : k \in DOMAIN s} : DOMAIN d = CallFields}
           T == S \cup {c}
           t == Append(s, c)
<1>1. s \in Seq(S) /\ \A d \in T : DOMAIN d = CallFields
  BY InFlightIs
<1> HIDE DEF S
<1>2. s \in Seq(T)
  BY <1>1
<1>3. t \in Seq(T) /\ Len(t) = Len(s) + 1 /\ t[Len(s) + 1] = c /\ \A k \in 1 .. Len(s) : t[k] = s[k]
  BY <1>2
<1>4. Len(s) \in Nat /\ DOMAIN s = 1 .. Len(s)
  BY <1>1
<1> HIDE DEF t, T
<1>5. DOMAIN t = 1 .. Len(s) + 1
  BY <1>3
<1>6. InFlight(t)
  BY <1>1, <1>3, InFlightSeq
<1> QED
  BY <1>3, <1>4, <1>5, <1>6 DEF t

\* The API answers one of them.
LEMMA InFlightAnswer ==
    ASSUME NEW s, InFlight(s), NEW i \in DOMAIN s, NEW res
    PROVE  /\ InFlight(Answer(s, i, res)) /\ DOMAIN Answer(s, i, res) = DOMAIN s
           /\ \A k \in DOMAIN s : /\ Answer(s, i, res)[k].op = s[k].op
                                  /\ Answer(s, i, res)[k].arg = s[k].arg
                                  /\ Answer(s, i, res)[k].then = s[k].then
<1> DEFINE c == [s[i] EXCEPT !.st = "served", !.res = res]
           t == [s EXCEPT ![i] = c]
<1>1. DOMAIN s[i] = CallFields
  BY DEF InFlight
<1>2. Answer(s, i, res) = t
  BY DEF Answer
<1>3. DOMAIN c = CallFields /\ c.op = s[i].op /\ c.arg = s[i].arg /\ c.then = s[i].then
  BY <1>1 DEF CallFields
<1> HIDE DEF c
<1>4. DOMAIN t = DOMAIN s /\ t[i] = c /\ \A k \in DOMAIN s : k # i => t[k] = s[k]
  OBVIOUS
<1>5. PICK n \in Nat : DOMAIN s = 1 .. n /\ s = [k \in 1 .. n |-> s[k]]
  BY DEF InFlight
<1>6. t = [k \in 1 .. n |-> t[k]]
  BY <1>4, <1>5
<1>7. InFlight(t)
  <2>1. \A k \in DOMAIN t : DOMAIN t[k] = CallFields
    BY <1>3, <1>4 DEF InFlight
  <2> HIDE DEF t
  <2> QED
    BY <1>4, <1>5, <1>6, <2>1 DEF InFlight
<1> HIDE DEF t
<1>8. ASSUME NEW k \in DOMAIN s PROVE t[k].op = s[k].op /\ t[k].arg = s[k].arg /\ t[k].then = s[k].then
  BY <1>3, <1>4
<1> QED
  BY <1>2, <1>4, <1>7, <1>8

(* The link that is edited: the load with the latest number is under way,  *)
(* or its answer is what is shown.                                         *)
EditFields ==
    {"known", "form", "expires", "domains", "error", "loading", "saving", "checking", "checked", "left",
     "asked", "shown"}
Open(n, s) == \E k \in DOMAIN s : s[k].op = "get" /\ s[k].then[2] = n
EditLinkInv ==
    /\ DOMAIN ui = EditFields /\ ui.asked \in Nat /\ InFlight(calls)
    /\ Open(ui.asked, calls) \/ ui.shown = ui.asked

EditKept ==
    /\ DOMAIN ui' = EditFields /\ ui'.asked = ui.asked /\ ui'.shown = ui.shown /\ InFlight(calls')
    /\ Open(ui.asked, calls) => Open(ui.asked, calls')

LEMMA EditKeeps == ASSUME EditLinkInv, EditKept PROVE EditLinkInv'
BY DEF EditLinkInv, EditKept

LEMMA OpenRest ==
    ASSUME InFlight(calls), NEW i \in DOMAIN calls, NEW n, ~(calls[i].op = "get" /\ calls[i].then[2] = n)
    PROVE  InFlight(EditLink!Rest(i)) /\ (Open(n, calls) => Open(n, EditLink!Rest(i)))
<1>1. EditLink!Rest(i) = Without(calls, i)
  BY Zenon DEF EditLink!Rest, EditLink!Without, Without
<1>2. /\ InFlight(Without(calls, i))
      /\ \A j \in DOMAIN calls \ {i} : \E k \in DOMAIN Without(calls, i) : Without(calls, i)[k] = calls[j]
  BY InFlightRest
<1>3. Open(n, calls) => Open(n, Without(calls, i))
  BY <1>2 DEF Open
<1> QED
  BY <1>1, <1>2, <1>3

LEMMA OpenSend ==
    ASSUME NEW s, InFlight(s), NEW c, DOMAIN c = CallFields, NEW n
    PROVE  /\ InFlight(Append(s, c)) /\ (Open(n, s) => Open(n, Append(s, c)))
           /\ c.op = "get" /\ c.then[2] = n => Open(n, Append(s, c))
<1> DEFINE t == Append(s, c)
<1>1. /\ InFlight(t) /\ DOMAIN s \subseteq DOMAIN t
      /\ \A k \in DOMAIN s : t[k] = s[k]
      /\ \E k \in DOMAIN t : t[k] = c
  BY InFlightAppend
<1> HIDE DEF t
<1>2. Open(n, s) => Open(n, t)
  BY <1>1 DEF Open
<1>3. c.op = "get" /\ c.then[2] = n => Open(n, t)
  BY <1>1 DEF Open
<1> QED
  BY <1>1, <1>2, <1>3 DEF t

LEMMA EditCallIs ==
    ASSUME NEW op, NEW arg, NEW then
    PROVE  LET c == EditLink!Call(op, arg, then) IN DOMAIN c = CallFields /\ c.op = op /\ c.then = then
BY DEF EditLink!Call, CallFields

LEMMA EditLinkInit == ASSUME EditLink!Init PROVE EditLinkInv
<1> DEFINE c == EditLink!LoadCall(1)
<1>1. ui = EditLink!Mounted /\ calls = <<c>>
  BY Zenon DEF EditLink!Init
<1>2. EditLink!Mounted =
          [known |-> FALSE, form |-> EditLink!Unhydrated, expires |-> Blank, domains |-> {}, error |-> FALSE,
           loading |-> TRUE, saving |-> FALSE, checking |-> FALSE, checked |-> FALSE, left |-> FALSE,
           asked |-> 1, shown |-> 0]
  BY Zenon DEF EditLink!Mounted, Blank
<1> DEFINE f == EditLink!Unhydrated
<1>3. DOMAIN ui = EditFields /\ ui.asked = 1
  <2> HIDE DEF f
  <2> QED
    BY <1>1, <1>2 DEF EditFields
<1>4. c = EditLink!Call("get", [n |-> 1], <<"load", 1>>)
  BY Zenon DEF EditLink!LoadCall
<1>5. DOMAIN c = CallFields /\ c.op = "get" /\ c.then[2] = 1
  BY <1>4, EditCallIs
<1> HIDE DEF c
<1>6. <<c>> \in Seq({c}) /\ DOMAIN <<c>> = {1} /\ <<c>>[1] = c
  OBVIOUS
<1>7. InFlight(<<c>>)
  <2>1. PICK S : S = {c}
    OBVIOUS
  <2>2. <<c>> \in Seq(S) /\ \A d \in S : DOMAIN d = CallFields
    BY <1>5, <1>6, <2>1
  <2> QED
    BY <2>2, InFlightSeq
<1> QED
  BY <1>1, <1>3, <1>5, <1>6, <1>7 DEF EditLinkInv, Open


LEMMA EditLinkServe == ASSUME EditLinkInv, NEW i \in DOMAIN calls, EditLink!Serve(i) PROVE EditLinkInv'
<1>1. ui' = ui
  BY DEF EditLink!Serve
<1>2. PICK res : calls' = EditLink!Served(i, res)
  BY DEF EditLink!Serve
<1>3. calls' = Answer(calls, i, res)
  BY <1>2, Zenon DEF EditLink!Served, Answer
<1>4. InFlight(calls') /\ (Open(ui.asked, calls) => Open(ui.asked, calls'))
  BY <1>3, InFlightAnswer DEF EditLinkInv, Open
<1> QED
  BY <1>1, <1>4, EditKeeps DEF EditLinkInv, EditKept

LEMMA EditLinkDeliver == ASSUME EditLinkInv, NEW i \in DOMAIN calls, EditLink!Deliver(i) PROVE EditLinkInv'
<1>1. DOMAIN ui = EditFields /\ ui.asked \in Nat /\ InFlight(calls) /\ (Open(ui.asked, calls) \/ ui.shown = ui.asked)
  BY DEF EditLinkInv
<1>2. CASE EditLink!DeliverGet(i)
  <2> DEFINE n == calls[i].then[2]
             c == EditLink!Get("config", EditLink!Effect)
  <2>1. PICK a \in EditLink!Answers(i) :
            EditLink!Show(IF EditLink!Cancelled(n) THEN [u |-> ui, cs |-> EditLink!Rest(i)]
                          ELSE [u |-> EditLink!Loaded(n, a),
                                cs |-> IF a.ok /\ ~ui.known THEN EditLink!Then(i, c) ELSE EditLink!Rest(i)])
    BY <1>2, Zenon DEF EditLink!DeliverGet
  <2>2. CASE n # ui.asked
    <3>1. ui' = ui /\ calls' = EditLink!Rest(i)
      BY <2>1, <2>2 DEF EditLink!Show, EditLink!Cancelled
    <3> QED
      BY <1>1, <2>2, <3>1, OpenRest, EditKeeps DEF EditKept
  <2>3. CASE n = ui.asked
    <3>1. /\ ui' = EditLink!Loaded(n, a)
          /\ calls' = EditLink!Rest(i) \/ calls' = Append(EditLink!Rest(i), c)
      BY <2>1, <2>3 DEF EditLink!Show, EditLink!Cancelled, EditLink!Then
    <3>2. InFlight(EditLink!Rest(i)) /\ DOMAIN c = CallFields
      <4>1. EditLink!Rest(i) = Without(calls, i)
        BY Zenon DEF EditLink!Rest, EditLink!Without, Without
      <4>2. c = EditLink!Call("config", [n |-> 0], EditLink!Effect)
        BY Zenon DEF EditLink!Get
      <4> QED
        BY <1>1, <4>1, <4>2, InFlightRest, EditCallIs
    <3> HIDE DEF c
    <3>3. InFlight(calls')
      BY <3>1, <3>2, OpenSend
    <3> DEFINE form == EditLink!Hydrated(a.data.link)
               expires == EditLink!ExpiryField(a.data.expiry)
    <3>4. \/ ui' = [ui EXCEPT !.known = TRUE, !.form = form, !.shown = n, !.expires = expires, !.loading = FALSE]
          \/ ui' = [ui EXCEPT !.error = TRUE, !.shown = n, !.loading = FALSE]
      BY <3>1, Zenon DEF EditLink!Loaded
    <3> HIDE DEF form, expires, n
    <3>5. DOMAIN ui' = EditFields /\ ui'.asked = ui.asked /\ ui'.shown = n
      BY <1>1, <3>4 DEF EditFields
    <3> QED
      BY <1>1, <2>3, <3>3, <3>5 DEF EditLinkInv
  <2> QED
    BY <2>2, <2>3
<1>3. ASSUME calls[i].op # "get", calls' = EditLink!Rest(i),
             DOMAIN ui' = EditFields, ui'.asked = ui.asked, ui'.shown = ui.shown
      PROVE  EditLinkInv'
  BY <1>1, <1>3, OpenRest, EditKeeps DEF EditKept
<1>4. CASE EditLink!DeliverConfig(i)
  <2>1. PICK domains : ui' = [ui EXCEPT !.domains = domains] /\ calls' = EditLink!Rest(i)
    BY <1>4 DEF EditLink!DeliverConfig, EditLink!Show
  <2>2. DOMAIN ui' = EditFields /\ ui'.asked = ui.asked /\ ui'.shown = ui.shown
    BY <1>1, <2>1 DEF EditFields
  <2>3. calls[i].op # "get"
    BY <1>4 DEF EditLink!DeliverConfig
  <2> QED
    BY <1>3, <2>1, <2>2, <2>3
<1>5. CASE EditLink!DeliverCheck(i)
  <2>1. PICK reached \in BOOLEAN, error \in BOOLEAN :
            EditLink!Show([u |-> [ui EXCEPT !.checking = FALSE, !.checked = @ \/ reached, !.error = @ \/ error],
                           cs |-> EditLink!Rest(i)])
    BY <1>5, Zenon DEF EditLink!DeliverCheck
  <2> DEFINE x == ui.checked \/ reached
             y == ui.error \/ error
  <2>2. ui' = [ui EXCEPT !.checking = FALSE, !.checked = x, !.error = y] /\ calls' = EditLink!Rest(i)
    BY <2>1 DEF EditLink!Show
  <2> HIDE DEF x, y
  <2>3. DOMAIN ui' = EditFields /\ ui'.asked = ui.asked /\ ui'.shown = ui.shown
    BY <1>1, <2>2 DEF EditFields
  <2>4. calls[i].op # "get"
    BY <1>5 DEF EditLink!DeliverCheck
  <2> QED
    BY <1>3, <2>2, <2>3, <2>4
<1>6. CASE EditLink!DeliverUpdate(i)
  <2>1. /\ \/ ui' = [ui EXCEPT !.left = TRUE, !.saving = FALSE]
           \/ ui' = [ui EXCEPT !.error = TRUE, !.saving = FALSE]
        /\ calls' = EditLink!Rest(i)
    BY <1>6 DEF EditLink!DeliverUpdate, EditLink!Show
  <2>2. DOMAIN ui' = EditFields /\ ui'.asked = ui.asked /\ ui'.shown = ui.shown
    BY <1>1, <2>1 DEF EditFields
  <2>3. calls[i].op # "get"
    BY <1>6 DEF EditLink!DeliverUpdate
  <2> QED
    BY <1>3, <2>1, <2>2, <2>3
<1> QED
  BY <1>2, <1>4, <1>5, <1>6 DEF EditLink!Deliver

LEMMA EditLinkClick == ASSUME EditLinkInv, EditLink!Click PROVE EditLinkInv'
<1>1. DOMAIN ui = EditFields /\ ui.asked \in Nat /\ InFlight(calls) /\ (Open(ui.asked, calls) \/ ui.shown = ui.asked)
  BY DEF EditLinkInv
<1>2. ASSUME DOMAIN ui' = EditFields, ui'.asked = ui.asked, ui'.shown = ui.shown,
             \/ calls' = calls
             \/ \E op, arg, then : calls' = Append(calls, EditLink!Call(op, arg, then))
      PROVE  EditLinkInv'
  <2>1. CASE calls' = calls
    BY <1>1, <1>2, <2>1, EditKeeps DEF EditKept
  <2>2. CASE \E op, arg, then : calls' = Append(calls, EditLink!Call(op, arg, then))
    <3>1. PICK op, arg, then : calls' = Append(calls, EditLink!Call(op, arg, then))
      BY <2>2
    <3> DEFINE c == EditLink!Call(op, arg, then)
    <3>2. DOMAIN c = CallFields
      BY EditCallIs
    <3> HIDE DEF c
    <3>3. InFlight(Append(calls, c)) /\ (Open(ui.asked, calls) => Open(ui.asked, Append(calls, c)))
      BY <1>1, <3>2, OpenSend
    <3>4. calls' = Append(calls, c)
      BY <3>1 DEF c
    <3> QED
      BY <1>1, <1>2, <3>3, <3>4, EditKeeps DEF EditKept
  <2> QED
    BY <1>2, <2>1, <2>2
<1>3. CASE EditLink!Edit
  <2>1. \/ \E form : ui' = [ui EXCEPT !.form = form] /\ calls' = calls
        \/ \E expires : ui' = [ui EXCEPT !.expires = expires] /\ calls' = calls
    BY <1>3, Zenon DEF EditLink!Edit, EditLink!Set
  <2>2. DOMAIN ui' = EditFields /\ ui'.asked = ui.asked /\ ui'.shown = ui.shown
    BY <1>1, <2>1 DEF EditFields
  <2> QED
    BY <1>2, <2>1, <2>2
<1>4. CASE EditLink!Submit
  <2> DEFINE arg == [link |-> EditLink!LinkOf(ui.form), expiry |-> EditLink!ExpirySent(ui.expires)]
  <2>1. /\ ui' = [ui EXCEPT !.saving = TRUE, !.error = FALSE]
        /\ calls' = Append(calls, EditLink!Call("update", arg, EditLink!Effect))
    BY <1>4, Zenon DEF EditLink!Submit, EditLink!Send
  <2>2. DOMAIN ui' = EditFields /\ ui'.asked = ui.asked /\ ui'.shown = ui.shown
    BY <1>1, <2>1 DEF EditFields
  <2> HIDE DEF arg
  <2> QED
    BY <1>2, <2>1, <2>2
<1>5. CASE EditLink!CheckNow
  <2>1. /\ ui' = [ui EXCEPT !.checking = TRUE, !.error = FALSE]
        /\ calls' = Append(calls, EditLink!Call("check", [n |-> 0], EditLink!Effect))
    BY <1>5, Zenon DEF EditLink!CheckNow, EditLink!Send, EditLink!Get
  <2>2. DOMAIN ui' = EditFields /\ ui'.asked = ui.asked /\ ui'.shown = ui.shown
    BY <1>1, <2>1 DEF EditFields
  <2> QED
    BY <1>2, <2>1, <2>2
<1>6. CASE EditLink!ChangeLanguage
  <2> DEFINE n == ui.asked + 1
             c == EditLink!Call("get", [n |-> n], <<"load", n>>)
  <2>1. ui' = [ui EXCEPT !.asked = n] /\ calls' = Append(calls, c)
    BY <1>6, Zenon DEF EditLink!ChangeLanguage, EditLink!Send, EditLink!LoadCall
  <2>2. n \in Nat
    BY <1>1
  <2> HIDE DEF n
  <2>3. DOMAIN c = CallFields /\ c.op = "get" /\ c.then[2] = n
    BY EditCallIs
  <2> HIDE DEF c
  <2>4. InFlight(Append(calls, c)) /\ Open(n, Append(calls, c))
    BY <1>1, <2>3, OpenSend
  <2>5. DOMAIN ui' = EditFields /\ ui'.asked = n
    BY <1>1, <2>1 DEF EditFields
  <2> QED
    BY <2>1, <2>2, <2>4, <2>5 DEF EditLinkInv
<1>7. CASE EditLink!Cancel
  <2>1. ui' = [ui EXCEPT !.left = TRUE] /\ calls' = calls
    BY <1>7, Zenon DEF EditLink!Cancel, EditLink!Set
  <2>2. DOMAIN ui' = EditFields /\ ui'.asked = ui.asked /\ ui'.shown = ui.shown
    BY <1>1, <2>1 DEF EditFields
  <2> QED
    BY <1>2, <2>1, <2>2
<1> QED
  BY <1>3, <1>4, <1>5, <1>6, <1>7 DEF EditLink!Click

LEMMA EditLinkNext == ASSUME EditLinkInv, EditLink!Next \/ Still PROVE EditLinkInv'
<1>1. ASSUME ui' = ui, calls' = calls PROVE EditLinkInv'
  BY <1>1 DEF EditLinkInv
<1>2. ASSUME NEW x, EditLink!OtherEdit(x) PROVE EditLinkInv'
  BY <1>1, <1>2 DEF EditLink!OtherEdit
<1>3. CASE Still
  BY <1>1, <1>3 DEF Still
<1> QED
  BY <1>2, <1>3, EditLinkClick, EditLinkServe, EditLinkDeliver DEF EditLink!Next


(* The language: what the switcher names is the language shown, or the last*)
(* one chosen whose answer is still to come.                               *)
LanguageFields == {"path", "shown", "selected", "header", "theme", "stored", "cookie", "accept", "crashed"}
Locales == {"en", "zh-CN"}
LanguageCalls ==
    CallsOf("setLocale", [locale : Locales, landing : BOOLEAN], {Language!Effect}, Answered([locale : Locales]))

\* The language the page ends up in when every answer is in.
Final(u, cs) == IF cs = <<>> THEN u.shown ELSE cs[Len(cs)].arg.locale
Leading(u, cs) == \A k \in DOMAIN cs : cs[k].arg.landing = TRUE <=> u.path # "/home"

LanguageUi(u) ==
    /\ DOMAIN u = LanguageFields /\ u.crashed \in BOOLEAN
    /\ u.path \in {"/i18n/en", "/i18n/zh-CN"} => u.path = Language!LandingOf(u.shown)
LanguageInv ==
    /\ LanguageUi(ui) /\ calls \in Seq(LanguageCalls) /\ Leading(ui, calls)
    /\ ui.crashed = FALSE => ui.selected = ui.shown \/ ui.selected = Final(ui, calls)

LEMMA DocumentIs ==
    ASSUME NEW p, NEW u, NEW v \in Language!Document(p, u)
    PROVE  LanguageUi(v) /\ v.path = p /\ v.selected = v.shown
<1>1. PICK h : v = [path |-> p, shown |-> Language!RequestLocale(p, u.cookie, u.accept),
                    selected |-> Language!RequestLocale(p, u.cookie, u.accept), header |-> h,
                    theme |-> u.stored, stored |-> u.stored, cookie |-> u.cookie, accept |-> u.accept,
                    crashed |-> FALSE]
  BY DEF Language!Document
<1> DEFINE l == Language!RequestLocale(p, u.cookie, u.accept)
<1>2. p \in {"/i18n/en", "/i18n/zh-CN"} => p = Language!LandingOf(l)
  BY DEF Language!RequestLocale, Language!LandingLocale, Language!IsLocale, Language!LandingOf
<1> HIDE DEF l
<1>3. v.path = p /\ v.shown = l /\ v.selected = l /\ v.crashed = FALSE /\ DOMAIN v = LanguageFields
  BY <1>1 DEF l, LanguageFields
<1> QED
  BY <1>2, <1>3 DEF LanguageUi

LEMMA LanguageLoads ==
    ASSUME NEW p, NEW u, ui' \in Language!Document(p, u), calls' = <<>> PROVE LanguageInv'
<1>1. LanguageUi(ui') /\ ui'.selected = ui'.shown
  BY DocumentIs
<1>2. calls' \in Seq(LanguageCalls) /\ DOMAIN calls' = {}
  OBVIOUS
<1> QED
  BY <1>1, <1>2 DEF LanguageInv, Leading

LEMMA LanguageInit == ASSUME Language!Init PROVE LanguageInv
<1>1. PICK p, u : ui \in Language!Document(p, u)
  BY DEF Language!Init
<1>2. LanguageUi(ui) /\ ui.selected = ui.shown
  BY <1>1, DocumentIs
<1>3. calls \in Seq(LanguageCalls) /\ DOMAIN calls = {}
  BY DEF Language!Init
<1> QED
  BY <1>2, <1>3 DEF LanguageInv, Leading

LEMMA LanguageCallHas ==
    ASSUME NEW c \in LanguageCalls PROVE c.arg.locale \in Locales /\ c.arg.landing \in BOOLEAN
<1> DEFINE args == [locale : Locales, landing : BOOLEAN]
           thens == {Language!Effect}
           answers == Answered([locale : Locales])
<1>0. c \in CallsOf("setLocale", args, thens, answers)
  BY DEF LanguageCalls
<1> HIDE DEF args, thens, answers
<1>1. c.arg \in args
  BY <1>0, CallHas
<1> USE DEF args
<1> QED
  BY <1>1

LEMMA LanguageServe == ASSUME LanguageInv, NEW i \in DOMAIN calls, Language!Serve(i) PROVE LanguageInv'
<1>1. calls \in Seq(LanguageCalls) /\ calls[i] \in LanguageCalls /\ ui' = ui
  BY DEF LanguageInv, Language!Serve
<1>2. calls[i].arg.locale \in Locales
  BY <1>1, LanguageCallHas
<1> DEFINE res == Language!Ok([locale |-> calls[i].arg.locale])
<1>3. calls' = Answer(calls, i, res)
  BY Zenon DEF Language!Serve, Language!Served, Answer
<1>4. res \in Answered([locale : Locales])
  BY <1>2 DEF Language!Ok, Answered
<1> HIDE DEF res
<1>5. [calls[i] EXCEPT !.st = "served", !.res = res] \in LanguageCalls
  BY <1>1, <1>4, CallServed DEF LanguageCalls
<1> DEFINE t == Answer(calls, i, res)
<1>6. /\ calls' \in Seq(LanguageCalls) /\ Len(calls') = Len(calls)
      /\ calls'[i] = [calls[i] EXCEPT !.st = "served", !.res = res]
      /\ \A j \in DOMAIN calls : j # i => calls'[j] = calls[j]
  <2>1. /\ t \in Seq(LanguageCalls) /\ Len(t) = Len(calls)
        /\ t[i] = [calls[i] EXCEPT !.st = "served", !.res = res]
        /\ \A j \in DOMAIN calls : j # i => t[j] = calls[j]
    BY <1>1, <1>5, ServeOne DEF Answer
  <2>2. calls' = t
    BY <1>3
  <2> HIDE DEF t
  <2> QED
    BY <2>1, <2>2
<1>7. calls'[i].arg = calls[i].arg
  <2>1. [calls[i] EXCEPT !.st = "served", !.res = res].arg = calls[i].arg
    BY <1>1 DEF LanguageCalls, CallsOf, Sent, Served
  <2> QED
    BY <1>6, <2>1
<1>8. DOMAIN calls' = DOMAIN calls /\ \A k \in DOMAIN calls : calls'[k].arg = calls[k].arg
  <2>1. DOMAIN calls' = DOMAIN calls
    BY <1>1, <1>6
  <2>2. ASSUME NEW k \in DOMAIN calls PROVE calls'[k].arg = calls[k].arg
    <3>1. CASE k = i
      BY <1>7, <3>1
    <3>2. CASE k # i
      BY <1>6, <3>2
    <3> QED
      BY <3>1, <3>2
  <2> QED
    BY <2>1, <2>2
<1>9. (calls' = <<>> <=> calls = <<>>) /\ (calls # <<>> => Len(calls) \in DOMAIN calls)
  BY <1>1, <1>6
<1> QED
  BY <1>1, <1>6, <1>8, <1>9 DEF LanguageInv, Leading, Final

LEMMA LanguageDeliver == ASSUME LanguageInv, NEW i \in DOMAIN calls, Language!Deliver(i) PROVE LanguageInv'
<1> DEFINE next == calls[i].arg.locale
<1>1. LanguageUi(ui) /\ calls \in Seq(LanguageCalls) /\ calls[i] \in LanguageCalls /\ i = 1
  BY DEF LanguageInv, Language!Deliver
<1>2. next \in Locales /\ calls[i].arg.landing \in BOOLEAN
  BY <1>1, LanguageCallHas
<1>3. CASE ui' = [ui EXCEPT !.crashed = TRUE] /\ calls' = <<>>
  <2>1. LanguageUi(ui') /\ ui'.crashed = TRUE
    BY <1>1, <1>3 DEF LanguageUi, LanguageFields
  <2>2. calls' \in Seq(LanguageCalls) /\ DOMAIN calls' = {}
    BY <1>3
  <2> QED
    BY <2>1, <2>2 DEF LanguageInv, Leading
<1>4. CASE \E p, u : ui' \in Language!Document(p, u) /\ calls' = <<>>
  BY <1>4, LanguageLoads
<1>5. CASE /\ calls[i].arg.landing = FALSE
           /\ ui' = Language!Rendered(ui, next) /\ calls' = Without(calls, i)
  <2>1. ui.path = "/home"
    BY <1>5 DEF LanguageInv, Leading
  <2>2. Language!RequestLocale(ui.path, next, ui.accept) = next
    BY <1>2, <2>1 DEF Language!RequestLocale, Language!LandingLocale, Language!IsLocale, Locales
  <2> DEFINE sel == IF next = ui.shown THEN ui.selected ELSE next
  <2>3. ui' = [ui EXCEPT !.cookie = next, !.shown = next, !.selected = sel]
    BY <1>5, <2>2 DEF Language!Rendered
  <2> HIDE DEF next, sel
  <2>4. /\ DOMAIN ui' = LanguageFields /\ ui'.crashed = ui.crashed /\ ui'.path = "/home"
        /\ ui'.shown = next /\ ui'.selected = sel
    BY <1>1, <2>1, <2>3 DEF LanguageUi, LanguageFields
  <2>5. /\ calls' \in Seq(LanguageCalls) /\ Len(calls') = Len(calls) - 1
        /\ \A j \in 1 .. Len(calls) - 1 : calls'[j] = calls[j + 1]
    <3> DEFINE t == Without(calls, i)
    <3>1. /\ t \in Seq(LanguageCalls) /\ Len(t) = Len(calls) - 1
          /\ \A j \in 1 .. Len(calls) - 1 : j >= i => t[j] = calls[j + 1]
      BY <1>1, WithoutOne
    <3>2. calls' = t
      BY <1>5
    <3> HIDE DEF t
    <3> QED
      BY <1>1, <3>1, <3>2
  <2>6. Len(calls) \in Nat \ {0} /\ DOMAIN calls = 1 .. Len(calls) /\ DOMAIN calls' = 1 .. Len(calls) - 1
    BY <1>1, <2>5
  <2>7. Leading(ui', calls')
    <3>1. \A j \in DOMAIN calls' : j + 1 \in DOMAIN calls /\ calls'[j] = calls[j + 1]
      BY <2>5, <2>6
    <3> QED
      BY <2>1, <2>4, <3>1 DEF LanguageInv, Leading
  <2>8. ui.crashed = FALSE => ui'.selected = ui'.shown \/ ui'.selected = Final(ui', calls')
    <3> SUFFICES ASSUME ui.crashed = FALSE PROVE ui'.selected = ui'.shown \/ ui'.selected = Final(ui', calls')
      OBVIOUS
    <3>1. ui.selected = ui.shown \/ ui.selected = Final(ui, calls)
      BY DEF LanguageInv
    <3>2. CASE next # ui.shown
      BY <2>4, <3>2 DEF sel
    <3>3. CASE next = ui.shown /\ Len(calls) = 1
      <4>1. Final(ui, calls) = next
        BY <1>1, <3>3 DEF Final, next
      <4> QED
        BY <2>4, <3>1, <3>3, <4>1 DEF sel
    <3>4. CASE next = ui.shown /\ Len(calls) # 1
      <4>1. calls' # <<>> /\ calls # <<>> /\ calls'[Len(calls')] = calls[Len(calls)]
        BY <2>5, <2>6, <3>4
      <4>2. Final(ui', calls') = Final(ui, calls)
        BY <4>1 DEF Final
      <4> QED
        BY <2>4, <3>1, <3>4, <4>2 DEF sel
    <3> QED
      BY <3>2, <3>3, <3>4
  <2> QED
    BY <1>1, <2>4, <2>5, <2>7, <2>8 DEF LanguageInv, LanguageUi
<1>6. \/ ui' = [ui EXCEPT !.crashed = TRUE] /\ calls' = <<>>
      \/ \E p, u : ui' \in Language!Document(p, u) /\ calls' = <<>>
      \/ /\ calls[i].arg.landing = FALSE
         /\ ui' = Language!Rendered(ui, next) /\ calls' = Without(calls, i)
  BY <1>2 DEF Language!Deliver, Language!Show, Language!Rest, Language!Without, Without
<1> QED
  BY <1>3, <1>4, <1>5, <1>6

LEMMA LanguageClick == ASSUME LanguageInv, Language!Click PROVE LanguageInv'
<1>1. LanguageUi(ui) /\ calls \in Seq(LanguageCalls)
  BY DEF LanguageInv
<1>2. ASSUME NEW l \in Locales, Language!Choose(l) PROVE LanguageInv'
  <2> DEFINE landing == ui.path # "/home"
             arg == [locale |-> l, landing |-> landing]
             c == [op |-> "setLocale", arg |-> arg, then |-> Language!Effect, st |-> "sent",
                   res |-> [ok |-> FALSE, code |-> "pending"]]
  <2>1. ui' = [ui EXCEPT !.selected = l] /\ calls' = Append(calls, c)
    BY <1>2, Zenon DEF Language!Choose, Language!Send, Language!Call, Language!Refused, Language!Console
  <2>2. arg \in [locale : Locales, landing : BOOLEAN] /\ arg.locale = l /\ (arg.landing = TRUE <=> ui.path # "/home")
    OBVIOUS
  <2> HIDE DEF arg
  <2>3. c \in LanguageCalls
    BY <2>2, CallSent DEF LanguageCalls
  <2>4. c.arg = arg
    OBVIOUS
  <2> HIDE DEF c
  <2>5. /\ Append(calls, c) \in Seq(LanguageCalls) /\ Len(Append(calls, c)) = Len(calls) + 1
        /\ Append(calls, c)[Len(calls) + 1] = c /\ Append(calls, c) # <<>>
        /\ \A k \in 1 .. Len(calls) : Append(calls, c)[k] = calls[k]
        /\ DOMAIN Append(calls, c) = 1 .. Len(calls) + 1 /\ Len(calls) \in Nat /\ DOMAIN calls = 1 .. Len(calls)
    BY <1>1, <2>3
  <2>6. /\ DOMAIN ui' = LanguageFields /\ ui'.path = ui.path /\ ui'.shown = ui.shown /\ ui'.crashed = ui.crashed
        /\ ui'.selected = l
    BY <1>1, <2>1 DEF LanguageUi, LanguageFields
  <2>7. Final(ui', calls') = l
    BY <2>1, <2>2, <2>4, <2>5 DEF Final
  <2>8. Leading(ui', calls')
    <3>1. ASSUME NEW k \in DOMAIN calls' PROVE calls'[k].arg.landing = TRUE <=> ui.path # "/home"
      <4>0. k \in 1 .. Len(calls) + 1
        BY <2>1, <2>5
      <4>1. CASE k \in DOMAIN calls
        <5>1. calls'[k] = calls[k]
          BY <2>1, <2>5, <4>1
        <5> QED
          BY <4>1, <5>1 DEF LanguageInv, Leading
      <4>2. CASE k = Len(calls) + 1
        <5>1. calls'[k] = c
          BY <2>1, <2>5, <4>2
        <5> QED
          BY <2>2, <2>4, <5>1
      <4>3. k \in DOMAIN calls \/ k = Len(calls) + 1
        BY <2>5, <4>0
      <4> QED
        BY <4>1, <4>2, <4>3
    <3> QED
      BY <2>6, <3>1 DEF Leading
  <2> QED
    BY <1>1, <2>1, <2>5, <2>6, <2>7, <2>8 DEF LanguageInv, LanguageUi
<1>3. ASSUME NEW theme, Language!SetTheme(theme) PROVE LanguageInv'
  <2>1. ui' = [ui EXCEPT !.theme = theme, !.stored = theme] /\ calls' = calls
    BY <1>3 DEF Language!SetTheme, Language!Set
  <2>2. /\ DOMAIN ui' = LanguageFields /\ ui'.path = ui.path /\ ui'.shown = ui.shown /\ ui'.crashed = ui.crashed
        /\ ui'.selected = ui.selected
    BY <1>1, <2>1 DEF LanguageUi, LanguageFields
  <2> QED
    BY <2>1, <2>2 DEF LanguageInv, LanguageUi, Leading, Final
<1>4. ASSUME NEW p, Language!Visit(p) PROVE LanguageInv'
  BY <1>4, LanguageLoads DEF Language!Visit, Language!Show
<1> QED
  BY <1>2, <1>3, <1>4 DEF Language!Click, Locales

LEMMA LanguageNext == ASSUME LanguageInv, Language!Next \/ Still PROVE LanguageInv'
<1>1. CASE ui' = ui /\ calls' = calls
  BY <1>1 DEF LanguageInv, LanguageUi, Leading, Final
<1>2. CASE Language!SignUpChanges \/ Language!CacheExpires \/ Still
  BY <1>1, <1>2 DEF Language!SignUpChanges, Language!CacheExpires, Still
<1> QED
  BY <1>2, LanguageClick, LanguageServe, LanguageDeliver DEF Language!Next

LEMMA LanguageShown == ASSUME LanguageInv PROVE Language!LanguageAgrees
BY DEF LanguageInv, LanguageUi, Final, Language!LanguageAgrees, Language!Landings


(* The list of links, and with it ClosedIsDeleted.  An answer that a link  *)
(* was removed, and what its handler goes on with, is of a link that is    *)
(* gone, and a link that is gone stays so.                                 *)
ListFields ==
    {"rows", "total", "page", "loading", "error", "filter", "search", "typing", "busy", "report", "selected",
     "action", "value", "bulkDel", "rowDel"}
GoneIn(d, id) == id \in LinkIds /\ d[id] = "gone"
Justified(c, d) ==
    /\ c.res.ok \in BOOLEAN
    /\ c.op = "remove" /\ c.st = "served" /\ c.res.ok = TRUE => GoneIn(d, c.arg.id)
    /\ c.then[1] = "removed" => GoneIn(d, c.then[2])
LinkCalls(cs, d) == InFlight(cs) /\ \A k \in DOMAIN cs : Justified(cs[k], d)
ListUi(u) ==
    /\ DOMAIN u = ListFields /\ DOMAIN u.rowDel = LinkIds
    /\ u.selected \subseteq LinkList!Rows(u)
ListInv == ListUi(ui) /\ DOMAIN db = LinkIds /\ LinkCalls(calls, db)

\* No confirmation has closed on the way to u but over a deleted link.
Minded(u) ==
    \A id \in LinkIds : ui.rowDel[id] = "busy" /\ u.rowDel[id] = "closed" /\ id \in LinkList!Rows(u) => db[id] = "gone"
ListGoes == ListInv' /\ LinkList!ClosedIsDeleted

LEMMA LinkCallsRest ==
    ASSUME NEW cs, NEW d, LinkCalls(cs, d), NEW i \in DOMAIN cs PROVE LinkCalls(Without(cs, i), d)
BY InFlightRest DEF LinkCalls

LEMMA LinkCallsAppend ==
    ASSUME NEW cs, NEW d, LinkCalls(cs, d), NEW op, NEW arg, NEW then, then[1] = "removed" => GoneIn(d, then[2])
    PROVE  LinkCalls(Append(cs, LinkList!Call(op, arg, then)), d)
<1> DEFINE c == LinkList!Call(op, arg, then)
<1>1. DOMAIN c = CallFields
  BY DEF LinkList!Call, CallFields
<1>2. Justified(c, d)
  BY DEF LinkList!Call, LinkList!Refused, Justified
<1> HIDE DEF c
<1>3. /\ InFlight(Append(cs, c)) /\ \A k \in DOMAIN cs : Append(cs, c)[k] = cs[k]
      /\ \A k \in DOMAIN Append(cs, c) : k \in DOMAIN cs \/ Append(cs, c)[k] = c
  BY <1>1, InFlightAppend DEF LinkCalls
<1>4. ASSUME NEW k \in DOMAIN Append(cs, c) PROVE Justified(Append(cs, c)[k], d)
  BY <1>2, <1>3 DEF LinkCalls
<1>5. LinkCalls(Append(cs, c), d)
  BY <1>3, <1>4 DEF LinkCalls
<1> QED
  BY <1>5 DEF c

LEMMA ListGoesTo ==
    ASSUME ListInv, ListUi(ui'), Minded(ui'), db' = db, LinkCalls(calls', db) PROVE ListGoes
BY DEF ListGoes, ListInv, Minded, LinkList!ClosedIsDeleted

\* The list is asked for, or a render asks for it if what it is of has changed.
LEMMA LoadGoes ==
    ASSUME ListInv, NEW u, ListUi(u), Minded(u), db' = db, NEW cs, LinkCalls(cs, db), NEW asked, NEW then,
           then[1] = "removed" => GoneIn(db, then[2])
    PROVE  LET l == LinkList!Load(u, cs, asked, then) IN ListUi(l.u) /\ Minded(l.u) /\ LinkCalls(l.cs, db)
<1> DEFINE v == [u EXCEPT !.loading = TRUE]
           c == LinkList!Call("list", asked, then)
           l == LinkList!Load(u, cs, asked, then)
<1>1. l = [u |-> v, cs |-> Append(cs, c)]
  BY Zenon DEF LinkList!Load
<1>2. /\ DOMAIN v = DOMAIN u /\ v.rowDel = u.rowDel /\ v.selected = u.selected
      /\ LinkList!Rows(v) = LinkList!Rows(u)
  BY DEF ListUi, ListFields, LinkList!Rows
<1>3. LinkCalls(Append(cs, c), db)
  BY LinkCallsAppend
<1> HIDE DEF v, c, l
<1>4. ListUi(v) /\ Minded(v)
  BY <1>2 DEF ListUi, Minded
<1> QED
  BY <1>1, <1>3, <1>4 DEF l

LEMMA RenderGoes ==
    ASSUME ListInv, NEW u, ListUi(u), Minded(u), db' = db, NEW cs, LinkCalls(cs, db),
           LinkList!Show(LinkList!Render(u, cs))
    PROVE  ListGoes
<1> DEFINE l == LinkList!Load(u, cs, LinkList!Asked(u), LinkList!Effect)
<1>1. \/ ui' = u /\ calls' = cs
      \/ ui' = l.u /\ calls' = l.cs
  BY DEF LinkList!Show, LinkList!Render
<1>2. LinkList!Effect[1] # "removed"
  BY DEF LinkList!Effect
<1>3. ListUi(l.u) /\ Minded(l.u) /\ LinkCalls(l.cs, db)
  BY <1>2, LoadGoes
<1> HIDE DEF l
<1> QED
  BY <1>1, <1>3, ListGoesTo

LEMMA DrawGoes ==
    ASSUME ListInv, NEW u, ListUi(u), Minded(u), db' = db, NEW cs, LinkCalls(cs, db), LinkList!Draw(u, cs)
    PROVE  ListGoes
<1> DEFINE b == IF u.selected = {} \/ u.action # "delete" THEN "closed" ELSE u.bulkDel
           r == [id \in LinkIds |-> IF id \in LinkList!Rows(u) THEN u.rowDel[id] ELSE "closed"]
           v == LinkList!Trim(u)
<1>1. v = [u EXCEPT !.bulkDel = b, !.rowDel = r]
  BY DEF LinkList!Trim
<1>2. DOMAIN r = LinkIds /\ \A id \in LinkIds : id \in LinkList!Rows(u) => r[id] = u.rowDel[id]
  OBVIOUS
<1> HIDE DEF b, r, v
<1>3. DOMAIN v = ListFields /\ v.rows = u.rows /\ v.selected = u.selected /\ v.rowDel = r
  BY <1>1 DEF ListUi, ListFields
<1>4. LinkList!Rows(v) = LinkList!Rows(u)
  BY <1>3 DEF LinkList!Rows
<1>5. ListUi(v) /\ Minded(v)
  BY <1>2, <1>3, <1>4 DEF ListUi, Minded
<1>6. LinkList!Show(LinkList!Render(v, cs))
  BY Zenon DEF LinkList!Draw, v
<1> QED
  BY <1>5, <1>6, RenderGoes

\* A change that touches neither the rows nor what hangs on them.
Aside(u) == DOMAIN u = ListFields /\ u.rows = ui.rows /\ u.rowDel = ui.rowDel /\ u.selected = ui.selected

LEMMA AsideIs == ASSUME ListInv, NEW u, Aside(u) PROVE ListUi(u) /\ Minded(u)
<1>1. LinkList!Rows(u) = LinkList!Rows(ui)
  BY DEF Aside, LinkList!Rows
<1> QED
  BY <1>1 DEF Aside, ListInv, ListUi, Minded

\* The buttons of the rows change, none from at work to closed but over a deleted link.
LEMMA RowsAre ==
    ASSUME ListInv, NEW u, DOMAIN u = ListFields, u.rows = ui.rows, u.selected = ui.selected,
           DOMAIN u.rowDel = LinkIds,
           \A id \in LinkIds : ui.rowDel[id] = "busy" /\ u.rowDel[id] = "closed" => db[id] = "gone"
    PROVE  ListUi(u) /\ Minded(u)
<1>1. LinkList!Rows(u) = LinkList!Rows(ui)
  BY DEF LinkList!Rows
<1> QED
  BY <1>1 DEF ListInv, ListUi, Minded

LEMMA ListInit == ASSUME LinkList!Init PROVE ListInv
<1> DEFINE f == LinkList!Mounted.filter
           asked == LinkList!Asked(LinkList!Mounted)
           c == LinkList!Call("list", asked, LinkList!Effect)
<1>1. ui = LinkList!Mounted /\ calls = <<c>> /\ db \in [LinkIds -> {"active", "unborn"}]
  BY Zenon DEF LinkList!Init
<1>2. PICK filter : LinkList!Mounted =
          [rows |-> <<>>, total |-> 0, page |-> 0, loading |-> TRUE, error |-> Blank, filter |-> filter,
           search |-> Blank, typing |-> TRUE, busy |-> FALSE, report |-> FALSE, selected |-> {},
           action |-> "disable", value |-> FALSE, bulkDel |-> "closed", rowDel |-> LinkList!NoneArmed]
  BY Zenon DEF LinkList!Mounted, Blank
<1>3. DOMAIN LinkList!NoneArmed = LinkIds
  BY DEF LinkList!NoneArmed
<1>4. ListUi(ui)
  BY <1>1, <1>2, <1>3 DEF ListUi, ListFields
<1>5. DOMAIN c = CallFields /\ Justified(c, db)
  BY DEF LinkList!Call, LinkList!Refused, LinkList!Effect, CallFields, Justified
<1> HIDE DEF c
<1>6. <<c>> \in Seq({c}) /\ DOMAIN <<c>> = {1} /\ <<c>>[1] = c
  OBVIOUS
<1>7. InFlight(<<c>>)
  <2>1. PICK S : S = {c}
    OBVIOUS
  <2>2. <<c>> \in Seq(S) /\ \A d \in S : DOMAIN d = CallFields
    BY <1>5, <1>6, <2>1
  <2> QED
    BY <2>2, InFlightSeq
<1> QED
  BY <1>1, <1>4, <1>5, <1>6, <1>7 DEF ListInv, LinkCalls


LEMMA ListServe == ASSUME ListInv, NEW i \in DOMAIN calls, LinkList!Serve(i) PROVE ListGoes
<1> DEFINE c == calls[i]
<1>1. ListUi(ui) /\ DOMAIN db = LinkIds /\ LinkCalls(calls, db) /\ ui' = ui
  BY DEF ListInv, LinkList!Serve
<1>2. PICK res : /\ calls' = LinkList!Served(i, res) /\ res.ok \in BOOLEAN
                 /\ DOMAIN db' = LinkIds /\ \A id \in LinkIds : db[id] = "gone" => db'[id] = "gone"
                 /\ c.op = "remove" /\ res.ok = TRUE => GoneIn(db', c.arg.id)
  <2> HIDE DEF c
  <2>1. CASE LinkList!ServeList(i)
    <3>1. PICK data : calls' = LinkList!Served(i, LinkList!Ok(data))
      BY <2>1 DEF LinkList!ServeList
    <3>2. c.op = "list" /\ db' = db
      BY <2>1 DEF LinkList!ServeList, c
    <3>3. LinkList!Ok(data).ok = TRUE
      BY DEF LinkList!Ok
    <3> QED
      BY <1>1, <3>1, <3>2, <3>3
  <2>2. CASE LinkList!ServeRemove(i)
    <3> DEFINE id == c.arg.id
    <3>1. \/ /\ calls' = LinkList!Served(i, LinkList!Ok([n |-> 1])) /\ db' = [db EXCEPT ![id] = "gone"]
             /\ id \in LinkIds
          \/ calls' = LinkList!Served(i, LinkList!Refused("not_found")) /\ db' = db
      BY <2>2 DEF LinkList!ServeRemove, LinkList!Live, c
    <3>2. LinkList!Ok([n |-> 1]).ok = TRUE /\ LinkList!Refused("not_found").ok = FALSE
      BY DEF LinkList!Ok, LinkList!Refused
    <3> HIDE DEF id
    <3>3. CASE /\ calls' = LinkList!Served(i, LinkList!Ok([n |-> 1])) /\ db' = [db EXCEPT ![id] = "gone"]
               /\ id \in LinkIds
      <4>1. DOMAIN db' = LinkIds /\ \A x \in LinkIds : db[x] = "gone" => db'[x] = "gone"
        BY <1>1, <3>3
      <4>2. GoneIn(db', id)
        BY <1>1, <3>3 DEF GoneIn
      <4> QED
        BY <3>2, <3>3, <4>1, <4>2 DEF id
    <3>4. CASE calls' = LinkList!Served(i, LinkList!Refused("not_found")) /\ db' = db
      BY <1>1, <3>2, <3>4
    <3> QED
      BY <3>1, <3>3, <3>4
  <2>3. CASE LinkList!ServeBulk(i)
    <3>1. PICK data : calls' = LinkList!Served(i, LinkList!Ok(data))
      BY <2>3 DEF LinkList!ServeBulk
    <3>2. c.op = "bulk" /\ db' = LinkList!AfterBulk(c.arg.action, c.arg.ids)
      BY <2>3 DEF LinkList!ServeBulk, c
    <3>3. DOMAIN db' = LinkIds /\ \A id \in LinkIds : db[id] = "gone" => db'[id] = "gone"
      BY <3>2 DEF LinkList!AfterBulk, LinkList!Live
    <3>4. LinkList!Ok(data).ok = TRUE
      BY DEF LinkList!Ok
    <3> QED
      BY <3>1, <3>2, <3>3, <3>4
  <2>4. CASE LinkList!ServeImport(i)
    <3>1. PICK created \in SUBSET {id \in LinkIds : db[id] = "unborn"} :
              /\ calls' = LinkList!Served(i, LinkList!Ok([n |-> LinkList!Cardinality(created)]))
              /\ db' = [id \in LinkIds |-> IF id \in created THEN "active" ELSE db[id]]
      BY <2>4, Zenon DEF LinkList!ServeImport
    <3>2. c.op = "import"
      BY <2>4 DEF LinkList!ServeImport, c
    <3>3. DOMAIN db' = LinkIds /\ \A id \in LinkIds : db[id] = "gone" => db'[id] = "gone"
      BY <3>1
    <3> DEFINE data == [n |-> LinkList!Cardinality(created)]
    <3> HIDE DEF data
    <3>4. LinkList!Ok(data).ok = TRUE /\ calls' = LinkList!Served(i, LinkList!Ok(data))
      BY <3>1 DEF LinkList!Ok, data
    <3> QED
      BY <3>2, <3>3, <3>4
  <2>5. CASE LinkList!ServeOther(i)
    <3>1. calls' = LinkList!Served(i, LinkList!Ok([n |-> 0])) /\ db' = db /\ c.op # "remove"
      BY <2>5 DEF LinkList!ServeOther, c
    <3>2. LinkList!Ok([n |-> 0]).ok = TRUE
      BY DEF LinkList!Ok
    <3> QED
      BY <1>1, <3>1, <3>2
  <2> QED
    BY <2>1, <2>2, <2>3, <2>4, <2>5 DEF LinkList!Serve
<1>3. calls' = Answer(calls, i, res)
  BY <1>2, Zenon DEF LinkList!Served, Answer
<1>4. /\ InFlight(calls') /\ DOMAIN calls' = DOMAIN calls
      /\ \A k \in DOMAIN calls : calls'[k].op = calls[k].op /\ calls'[k].arg = calls[k].arg /\ calls'[k].then = calls[k].then
  BY <1>1, <1>3, InFlightAnswer DEF LinkCalls
<1>5. \A id : GoneIn(db, id) => GoneIn(db', id)
  BY <1>2 DEF GoneIn
<1>6. ASSUME NEW k \in DOMAIN calls PROVE Justified(calls'[k], db')
  <2>1. Justified(calls[k], db)
    BY <1>1 DEF LinkCalls
  <2>2. CASE k # i
    <3>1. calls'[k] = calls[k]
      BY <1>3, <2>2 DEF Answer
    <3> QED
      BY <1>5, <2>1, <3>1 DEF Justified
  <2>3. CASE k = i
    <3>1. DOMAIN calls[i] = CallFields
      BY <1>1 DEF LinkCalls, InFlight
    <3>2. calls'[i].res = res
      BY <1>3, <3>1 DEF Answer, CallFields
    <3> QED
      BY <1>2, <1>4, <1>5, <2>1, <2>3, <3>2 DEF Justified
  <2> QED
    BY <2>2, <2>3
<1>7. LinkCalls(calls', db')
  BY <1>4, <1>6 DEF LinkCalls
<1>8. ListInv'
  BY <1>1, <1>2, <1>7 DEF ListInv, ListUi
<1> QED
  BY <1>1, <1>8 DEF ListGoes, LinkList!ClosedIsDeleted

\* What is known of the answer to a call.
LEMMA ListAnswers ==
    ASSUME ListInv, NEW i \in DOMAIN calls, NEW a \in LinkList!Answers(i)
    PROVE  /\ LinkCalls(LinkList!Rest(i), db) /\ a.ok \in BOOLEAN
           /\ calls[i].op = "remove" /\ a.ok = TRUE => GoneIn(db, calls[i].arg.id)
           /\ calls[i].then[1] = "removed" => GoneIn(db, calls[i].then[2])
<1>1. LinkCalls(calls, db) /\ Justified(calls[i], db)
  BY DEF ListInv, LinkCalls
<1>2. LinkList!Rest(i) = Without(calls, i)
  BY Zenon DEF LinkList!Rest, LinkList!Without, Without
<1>3. LinkList!NetworkError.ok = FALSE
  BY DEF LinkList!NetworkError, LinkList!Refused
<1>4. a = LinkList!NetworkError \/ (calls[i].st = "served" /\ a = calls[i].res)
  BY DEF LinkList!Answers
<1> QED
  BY <1>1, <1>2, <1>3, <1>4, LinkCallsRest DEF Justified

LEMMA ListDeliverList ==
    ASSUME ListInv, NEW i \in DOMAIN calls, LinkList!DeliverList(i), db' = db PROVE ListGoes
<1> DEFINE c == calls[i]
           tags == LinkList!Call("tags", [n |-> 0], c.then)
<1>1. ListUi(ui)
  BY DEF ListInv
<1>2. PICK a \in LinkList!Answers(i) :
          LinkList!Draw(LinkList!Loaded(ui, c, a),
                        IF c.then = LinkList!Effect THEN LinkList!Rest(i) ELSE Append(LinkList!Rest(i), tags))
  BY Zenon DEF LinkList!DeliverList, LinkList!LoadTags
<1>3. LinkCalls(LinkList!Rest(i), db) /\ (c.then[1] = "removed" => GoneIn(db, c.then[2]))
  BY ListAnswers
<1>4. LinkCalls(Append(LinkList!Rest(i), tags), db)
  BY <1>3, LinkCallsAppend
<1> DEFINE u == LinkList!Loaded(ui, c, a)
           cs == IF c.then = LinkList!Effect THEN LinkList!Rest(i) ELSE Append(LinkList!Rest(i), tags)
<1>5. LinkCalls(cs, db)
  BY <1>3, <1>4
<1> DEFINE done == [ui EXCEPT !.loading = FALSE]
<1>6. /\ DOMAIN done = ListFields /\ done.rows = ui.rows /\ done.rowDel = ui.rowDel
      /\ done.selected = ui.selected
  BY <1>1 DEF ListUi, ListFields
<1>7. \/ u = [done EXCEPT !.error = "load"]
      \/ u = LinkList!StepBack(done)
      \/ u = [done EXCEPT !.rows = a.data.rows, !.total = a.data.total, !.error = Blank, !.selected = {}]
  BY Zenon DEF LinkList!Loaded, Blank
<1> HIDE DEF cs, u, done
<1>8. \/ Aside(u)
      \/ DOMAIN u = ListFields /\ u.selected = {} /\ u.rowDel = ui.rowDel
  <2>1. CASE u = [done EXCEPT !.error = "load"]
    BY <1>6, <2>1 DEF Aside, ListFields
  <2>2. CASE u = LinkList!StepBack(done)
    BY <1>6, <2>2 DEF Aside, ListFields, LinkList!StepBack
  <2>3. CASE u = [done EXCEPT !.rows = a.data.rows, !.total = a.data.total, !.error = Blank, !.selected = {}]
    <3> DEFINE rows == a.data.rows
               total == a.data.total
    <3>1. u = [done EXCEPT !.rows = rows, !.total = total, !.error = Blank, !.selected = {}]
      BY <2>3
    <3> HIDE DEF rows, total
    <3> QED
      BY <1>6, <3>1 DEF ListFields
  <2> QED
    BY <1>7, <2>1, <2>2, <2>3
<1>9. ListUi(u) /\ Minded(u)
  <2>1. CASE Aside(u)
    BY <2>1, AsideIs
  <2>2. CASE DOMAIN u = ListFields /\ u.selected = {} /\ u.rowDel = ui.rowDel
    BY <1>1, <2>2 DEF ListUi, Minded
  <2> QED
    BY <1>8, <2>1, <2>2
<1>10. LinkList!Draw(u, cs)
  BY <1>2 DEF u, cs
<1> QED
  BY <1>5, <1>9, <1>10, DrawGoes

\* The confirmation of a row is over only when its link was removed.
LEMMA ListDeliverTags ==
    ASSUME ListInv, NEW i \in DOMAIN calls, LinkList!DeliverTags(i), db' = db PROVE ListGoes
<1> DEFINE then == calls[i].then
           u == LinkList!Settle(ui, then)
<1>1. ListUi(ui)
  BY DEF ListInv
<1>2. LinkList!Draw(u, LinkList!Rest(i))
  BY Zenon DEF LinkList!DeliverTags
<1>3. LinkCalls(LinkList!Rest(i), db) /\ (then[1] = "removed" => GoneIn(db, then[2]))
  <2>1. LinkList!NetworkError \in LinkList!Answers(i)
    BY DEF LinkList!Answers
  <2> QED
    BY <2>1, ListAnswers
<1> HIDE DEF then
<1>4. ListUi(u) /\ Minded(u)
  <2>1. CASE then[1] = "removed"
    <3> DEFINE id == then[2]
               b == LinkList!Succeeded(ui.rowDel[id])
               r == [ui.rowDel EXCEPT ![id] = b]
    <3>1. u = [ui EXCEPT !.rowDel = r]
      BY <1>1, <2>1 DEF LinkList!Settle
    <3>2. GoneIn(db, id)
      BY <1>3, <2>1
    <3> HIDE DEF id, b, u
    <3>3. DOMAIN r = LinkIds /\ \A x \in LinkIds : x # id => r[x] = ui.rowDel[x]
      BY <1>1 DEF ListUi
    <3> HIDE DEF r
    <3>4. DOMAIN u = ListFields /\ u.rows = ui.rows /\ u.selected = ui.selected /\ u.rowDel = r
      BY <1>1, <3>1 DEF ListUi, ListFields
    <3>5. \A x \in LinkIds : ui.rowDel[x] = "busy" /\ r[x] = "closed" => db[x] = "gone"
      BY <3>2, <3>3 DEF GoneIn
    <3> QED
      BY <3>3, <3>4, <3>5, RowsAre
  <2>2. CASE then[1] = "bulk"
    <3> DEFINE e == IF then[2] > 0 THEN "skipped" ELSE ui.error
               b == LinkList!Succeeded(ui.bulkDel)
    <3>1. u = [ui EXCEPT !.error = e, !.busy = FALSE, !.bulkDel = b]
      BY <1>1, <2>2 DEF LinkList!Settle, ListUi, ListFields
    <3> HIDE DEF e, b, u
    <3>2. Aside(u)
      BY <1>1, <3>1 DEF Aside, ListUi, ListFields
    <3> QED
      BY <3>2, AsideIs
  <2>3. CASE then[1] \notin {"removed", "bulk"}
    <3>1. u = ui \/ u = [ui EXCEPT !.busy = FALSE]
      BY <2>3 DEF LinkList!Settle
    <3> HIDE DEF u
    <3>2. Aside(u)
      BY <1>1, <3>1 DEF Aside, ListUi, ListFields
    <3> QED
      BY <3>2, AsideIs
  <2> QED
    BY <2>1, <2>2, <2>3
<1> HIDE DEF u
<1> QED
  BY <1>2, <1>3, <1>4, DrawGoes

\* A removal that failed leaves its confirmation open.
LEMMA ListDeliverRemove ==
    ASSUME ListInv, NEW i \in DOMAIN calls, LinkList!DeliverRemove(i), db' = db PROVE ListGoes
<1> DEFINE id == calls[i].arg.id
           asked == calls[i].arg.asked
           then == <<"removed", id>>
           b == LinkList!Threw(ui.rowDel[id])
           r == [ui.rowDel EXCEPT ![id] = b]
           u == [ui EXCEPT !.error = "delete", !.rowDel = r]
           l == LinkList!Load(ui, LinkList!Rest(i), asked, then)
<1>1. ListUi(ui)
  BY DEF ListInv
<1>2. PICK a \in LinkList!Answers(i) :
          IF a.ok THEN LinkList!Show(LinkList!Load(ui, LinkList!Rest(i), asked, then))
          ELSE LinkList!Draw([ui EXCEPT !.error = "delete", !.rowDel[id] = LinkList!Threw(@)], LinkList!Rest(i))
  BY Zenon DEF LinkList!DeliverRemove
<1>3. LinkCalls(LinkList!Rest(i), db) /\ a.ok \in BOOLEAN /\ (a.ok = TRUE => GoneIn(db, id))
  <2>1. calls[i].op = "remove"
    BY Zenon DEF LinkList!DeliverRemove
  <2> QED
    BY <2>1, ListAnswers
<1>4. CASE a.ok = TRUE
  <2>1. ui' = l.u /\ calls' = l.cs
    BY <1>2, <1>4 DEF LinkList!Show
  <2>2. then[1] = "removed" => GoneIn(db, then[2])
    BY <1>3, <1>4
  <2>3. Aside(ui)
    BY <1>1 DEF Aside, ListUi
  <2>4. ListUi(ui) /\ Minded(ui)
    BY <2>3, AsideIs
  <2> HIDE DEF then
  <2>5. ListUi(l.u) /\ Minded(l.u) /\ LinkCalls(l.cs, db)
    BY <1>3, <2>2, <2>4, LoadGoes
  <2> HIDE DEF l
  <2> QED
    BY <2>1, <2>5, ListGoesTo
<1>5. CASE a.ok = FALSE
  <2>1. [ui EXCEPT !.error = "delete", !.rowDel[id] = LinkList!Threw(@)] = u
    BY <1>1 DEF ListUi, ListFields
  <2>2. LinkList!Draw(u, LinkList!Rest(i))
    BY <1>2, <1>5, <2>1
  <2>3. ui.rowDel[id] = "busy" => b # "closed"
    BY DEF LinkList!Threw
  <2> HIDE DEF id, b
  <2>4. DOMAIN r = LinkIds /\ \A x \in LinkIds : ui.rowDel[x] = "busy" => r[x] # "closed"
    BY <1>1, <2>3 DEF ListUi
  <2> HIDE DEF r
  <2>5. DOMAIN u = ListFields /\ u.rows = ui.rows /\ u.selected = ui.selected /\ u.rowDel = r
    BY <1>1 DEF ListUi, ListFields
  <2> HIDE DEF u
  <2>6. ListUi(u) /\ Minded(u)
    BY <2>4, <2>5, RowsAre
  <2> QED
    BY <1>3, <2>2, <2>6, DrawGoes
<1> QED
  BY <1>3, <1>4, <1>5


LEMMA AsideDraws ==
    ASSUME ListInv, NEW u, Aside(u), db' = db, NEW cs, LinkCalls(cs, db), LinkList!Draw(u, cs) PROVE ListGoes
BY AsideIs, DrawGoes

LEMMA ListDeliverOthers ==
    ASSUME ListInv, NEW i \in DOMAIN calls, db' = db,
           LinkList!DeliverBulk(i) \/ LinkList!DeliverImport(i) \/ LinkList!DeliverExport(i)
    PROVE  ListGoes
<1> DEFINE asked == calls[i].arg.asked
<1>1. ListUi(ui)
  BY DEF ListInv
<1>2. LinkCalls(LinkList!Rest(i), db)
  <2>1. LinkList!NetworkError \in LinkList!Answers(i)
    BY DEF LinkList!Answers
  <2> QED
    BY <2>1, ListAnswers
<1> HIDE DEF asked
<1>3. CASE LinkList!DeliverBulk(i)
  <2>1. PICK a : IF a.ok
                 THEN LinkList!Show(LinkList!Load([ui EXCEPT !.value = FALSE], LinkList!Rest(i), asked,
                                      <<"bulk", LinkList!Cardinality(calls[i].arg.ids) - a.data.n>>))
                 ELSE LinkList!Draw(LinkList!Settle([ui EXCEPT !.error = "bulk"], <<"bulk", 0>>), LinkList!Rest(i))
    BY <1>3, Zenon DEF LinkList!DeliverBulk, asked
  <2> DEFINE n == LinkList!Cardinality(calls[i].arg.ids) - a.data.n
             then == <<"bulk", n>>
             u == [ui EXCEPT !.value = FALSE]
             l == LinkList!Load(u, LinkList!Rest(i), asked, then)
  <2>2. CASE LinkList!Show(l)
    <3>1. ui' = l.u /\ calls' = l.cs
      BY <2>2 DEF LinkList!Show
    <3> HIDE DEF n
    <3>2. then[1] # "removed"
      OBVIOUS
    <3>3. Aside(u)
      BY <1>1 DEF Aside, ListUi, ListFields
    <3> HIDE DEF u, then
    <3>4. ListUi(l.u) /\ Minded(l.u) /\ LinkCalls(l.cs, db)
      BY <1>2, <3>2, <3>3, AsideIs, LoadGoes
    <3> HIDE DEF l
    <3> QED
      BY <3>1, <3>4, ListGoesTo
  <2> DEFINE first == [ui EXCEPT !.error = "bulk"]
             none == <<"bulk", 0>>
             v == LinkList!Settle(first, none)
  <2>3. CASE LinkList!Draw(v, LinkList!Rest(i))
    <3>1. none[1] = "bulk"
      OBVIOUS
    <3>2. Aside(first)
      BY <1>1 DEF Aside, ListUi, ListFields
    <3> HIDE DEF first, none
    <3> DEFINE e == IF none[2] > 0 THEN "skipped" ELSE first.error
               b == LinkList!Succeeded(first.bulkDel)
    <3>3. v = [first EXCEPT !.error = e, !.busy = FALSE, !.bulkDel = b]
      BY <3>1, <3>2 DEF LinkList!Settle, Aside, ListFields
    <3> HIDE DEF e, b, v
    <3>4. Aside(v)
      BY <3>2, <3>3 DEF Aside, ListFields
    <3> QED
      BY <1>2, <2>3, <3>4, AsideDraws
  <2> QED
    BY <2>1, <2>2, <2>3
<1>4. CASE LinkList!DeliverImport(i)
  <2> DEFINE u == [ui EXCEPT !.report = TRUE, !.page = 0]
             v == [ui EXCEPT !.error = "import", !.busy = FALSE]
             then == <<"imported", 0>>
             l == LinkList!Load(u, LinkList!Rest(i), asked, then)
  <2>1. \/ LinkList!Show(LinkList!Render(l.u, l.cs))
        \/ LinkList!Draw(v, LinkList!Rest(i))
    BY <1>4, Zenon DEF LinkList!DeliverImport, asked
  <2>2. CASE LinkList!Show(LinkList!Render(l.u, l.cs))
    <3>1. Aside(u)
      BY <1>1 DEF Aside, ListUi, ListFields
    <3>2. then[1] # "removed"
      OBVIOUS
    <3> HIDE DEF u, then
    <3>3. ListUi(l.u) /\ Minded(l.u) /\ LinkCalls(l.cs, db)
      BY <1>2, <3>1, <3>2, AsideIs, LoadGoes
    <3> HIDE DEF l
    <3> QED
      BY <2>2, <3>3, RenderGoes
  <2>3. CASE LinkList!Draw(v, LinkList!Rest(i))
    <3>1. Aside(v)
      BY <1>1 DEF Aside, ListUi, ListFields
    <3> HIDE DEF v
    <3> QED
      BY <1>2, <2>3, <3>1, AsideDraws
  <2> QED
    BY <2>1, <2>2, <2>3
<1>5. CASE LinkList!DeliverExport(i)
  <2>1. PICK a : LinkList!Draw([ui EXCEPT !.busy = FALSE, !.error = IF a.ok THEN @ ELSE "export"], LinkList!Rest(i))
    BY <1>5, Zenon DEF LinkList!DeliverExport
  <2> DEFINE e == IF a.ok THEN ui.error ELSE "export"
             u == [ui EXCEPT !.busy = FALSE, !.error = e]
  <2>2. [ui EXCEPT !.busy = FALSE, !.error = IF a.ok THEN @ ELSE "export"] = u
    BY <1>1 DEF ListUi, ListFields
  <2>3. LinkList!Draw(u, LinkList!Rest(i))
    BY <2>1, <2>2
  <2> HIDE DEF e
  <2>4. Aside(u)
    BY <1>1 DEF Aside, ListUi, ListFields
  <2> HIDE DEF u
  <2> QED
    BY <1>2, <2>3, <2>4, AsideDraws
<1> QED
  BY <1>3, <1>4, <1>5

LEMMA ListDeliver == ASSUME ListInv, NEW i \in DOMAIN calls, LinkList!Deliver(i) PROVE ListGoes
BY ListDeliverList, ListDeliverTags, ListDeliverRemove, ListDeliverOthers DEF LinkList!Deliver

\* The controls that are aside of the rows.
LEMMA ListControls ==
    ASSUME ListInv, db' = db,
           \/ \E s : LinkList!Type(s)
           \/ LinkList!Debounce
           \/ \E control, v : LinkList!Choose(control, v)
           \/ LinkList!Previous \/ LinkList!NextPage \/ LinkList!TypeValue
           \/ \E action : LinkList!ChooseBulk(action)
           \/ LinkList!ArmBulk \/ LinkList!CancelBulk
    PROVE  ListGoes
<1>1. ListUi(ui) /\ LinkCalls(calls, db)
  BY DEF ListInv
<1>2. ASSUME NEW u, Aside(u), LinkList!Draw(u, calls) PROVE ListGoes
  BY <1>1, <1>2, AsideDraws
<1>3. ASSUME NEW s, LinkList!Type(s) PROVE ListGoes
  <2> DEFINE u == [ui EXCEPT !.search = s, !.typing = TRUE]
  <2>1. LinkList!Draw(u, calls)
    BY <1>3, Zenon DEF LinkList!Type
  <2>2. Aside(u)
    BY <1>1 DEF Aside, ListUi, ListFields
  <2> HIDE DEF u
  <2> QED
    BY <1>2, <2>1, <2>2
<1>4. CASE LinkList!Debounce
  <2> DEFINE u == [ui EXCEPT !.typing = FALSE, !.filter.text = ui.search, !.page = 0]
  <2>1. LinkList!Draw(u, calls)
    BY <1>4, Zenon DEF LinkList!Debounce
  <2>2. Aside(u)
    BY <1>1 DEF Aside, ListUi, ListFields
  <2> HIDE DEF u
  <2> QED
    BY <1>2, <2>1, <2>2
<1>5. ASSUME NEW control, NEW v, LinkList!Choose(control, v) PROVE ListGoes
  <2> DEFINE u == [ui EXCEPT !.filter[control] = v, !.page = 0]
  <2>1. LinkList!Draw(u, calls)
    BY <1>5, Zenon DEF LinkList!Choose
  <2>2. Aside(u)
    BY <1>1 DEF Aside, ListUi, ListFields
  <2> HIDE DEF u
  <2> QED
    BY <1>2, <2>1, <2>2
<1>6. CASE LinkList!Previous
  <2> DEFINE u == LinkList!StepBack(ui)
  <2>1. LinkList!Draw(u, calls)
    BY <1>6, Zenon DEF LinkList!Previous
  <2>2. Aside(u)
    BY <1>1 DEF Aside, ListUi, ListFields, LinkList!StepBack
  <2> HIDE DEF u
  <2> QED
    BY <1>2, <2>1, <2>2
<1>7. CASE LinkList!NextPage
  <2> DEFINE u == [ui EXCEPT !.page = @ + 1]
  <2>1. LinkList!Draw(u, calls)
    BY <1>7, Zenon DEF LinkList!NextPage
  <2>2. Aside(u)
    BY <1>1 DEF Aside, ListUi, ListFields
  <2> HIDE DEF u
  <2> QED
    BY <1>2, <2>1, <2>2
<1>8. CASE LinkList!TypeValue
  <2> DEFINE u == [ui EXCEPT !.value = ~@]
             x == ~ui.value
             w == [ui EXCEPT !.value = x]
  <2>1. LinkList!Draw(u, calls)
    BY <1>8, Zenon DEF LinkList!TypeValue
  <2>2. u = w
    OBVIOUS
  <2> HIDE DEF x, u
  <2>3. Aside(w)
    BY <1>1 DEF Aside, ListUi, ListFields
  <2> QED
    BY <1>2, <2>1, <2>2, <2>3
<1>9. ASSUME NEW action, LinkList!ChooseBulk(action) PROVE ListGoes
  <2> DEFINE u == [ui EXCEPT !.action = action, !.value = FALSE]
  <2>1. LinkList!Draw(u, calls)
    BY <1>9, Zenon DEF LinkList!ChooseBulk
  <2>2. Aside(u)
    BY <1>1 DEF Aside, ListUi, ListFields
  <2> HIDE DEF u
  <2> QED
    BY <1>2, <2>1, <2>2
<1>10. CASE LinkList!ArmBulk
  <2> DEFINE b == LinkList!Opened(ui.bulkDel)
             u == [ui EXCEPT !.bulkDel = b]
  <2>1. LinkList!Draw(u, calls)
    BY <1>10 DEF LinkList!ArmBulk
  <2> HIDE DEF b
  <2>2. Aside(u)
    BY <1>1 DEF Aside, ListUi, ListFields
  <2> HIDE DEF u
  <2> QED
    BY <1>2, <2>1, <2>2
<1>11. CASE LinkList!CancelBulk
  <2> DEFINE u == [ui EXCEPT !.bulkDel = "closed"]
  <2>1. LinkList!Draw(u, calls)
    BY <1>11, Zenon DEF LinkList!CancelBulk
  <2>2. Aside(u)
    BY <1>1 DEF Aside, ListUi, ListFields
  <2> HIDE DEF u
  <2> QED
    BY <1>2, <2>1, <2>2
<1> QED
  BY <1>3, <1>4, <1>5, <1>6, <1>7, <1>8, <1>9, <1>10, <1>11

\* Another load, a bulk action, an import, an export.
LEMMA ListSends ==
    ASSUME ListInv, db' = db,
           \/ LinkList!Retry \/ LinkList!Run \/ LinkList!ConfirmBulk \/ LinkList!Import \/ LinkList!Export
    PROVE  ListGoes
<1>1. ListUi(ui) /\ LinkCalls(calls, db) /\ Aside(ui)
  BY DEF ListInv, ListUi, Aside
<1>2. LinkList!Effect[1] # "removed"
  BY DEF LinkList!Effect
<1>3. ASSUME NEW u, Aside(u), NEW op, NEW arg,
             LinkList!Draw(u, Append(calls, LinkList!Call(op, arg, LinkList!Effect)))
      PROVE  ListGoes
  <2>1. LinkCalls(Append(calls, LinkList!Call(op, arg, LinkList!Effect)), db)
    BY <1>1, <1>2, LinkCallsAppend
  <2> QED
    BY <1>3, <2>1, AsideDraws
<1>4. CASE LinkList!Retry
  <2> DEFINE asked == LinkList!Asked(ui)
             l == LinkList!Load(ui, calls, asked, LinkList!Effect)
  <2>1. ui' = l.u /\ calls' = l.cs
    BY <1>4, Zenon DEF LinkList!Retry, LinkList!Show
  <2> HIDE DEF asked
  <2>2. ListUi(l.u) /\ Minded(l.u) /\ LinkCalls(l.cs, db)
    BY <1>1, <1>2, AsideIs, LoadGoes
  <2> HIDE DEF l
  <2> QED
    BY <2>1, <2>2, ListGoesTo
<1>5. ASSUME NEW u, Aside(u), LinkList!RunBulk(u) PROVE ListGoes
  <2> DEFINE v == [u EXCEPT !.error = "needs value"]
             w == [u EXCEPT !.busy = TRUE, !.error = Blank]
             arg == [action |-> u.action, ids |-> u.selected, asked |-> LinkList!Asked(u)]
  <2>1. \/ LinkList!Draw(v, calls)
        \/ LinkList!Draw(w, Append(calls, LinkList!Call("bulk", arg, LinkList!Effect)))
    BY <1>5, Zenon DEF LinkList!RunBulk, Blank
  <2>2. Aside(v) /\ Aside(w)
    BY <1>5 DEF Aside, ListFields
  <2> HIDE DEF v, w, arg
  <2> QED
    BY <1>1, <1>3, <2>1, <2>2, AsideDraws
<1>6. CASE LinkList!Run
  BY <1>1, <1>5, <1>6, Zenon DEF LinkList!Run
<1>7. CASE LinkList!ConfirmBulk
  <2> DEFINE u == [ui EXCEPT !.bulkDel = "busy"]
  <2>1. LinkList!RunBulk(u)
    BY <1>7, Zenon DEF LinkList!ConfirmBulk
  <2>2. Aside(u)
    BY <1>1 DEF Aside, ListUi, ListFields
  <2> HIDE DEF u
  <2> QED
    BY <1>5, <2>1, <2>2
<1>8. CASE LinkList!Import
  <2> DEFINE u == [ui EXCEPT !.busy = TRUE, !.error = Blank, !.report = FALSE]
             arg == [asked |-> LinkList!Asked(ui)]
  <2>1. LinkList!Draw(u, Append(calls, LinkList!Call("import", arg, LinkList!Effect)))
    BY <1>8, Zenon DEF LinkList!Import, Blank
  <2>2. Aside(u)
    BY <1>1 DEF Aside, ListUi, ListFields
  <2> HIDE DEF u, arg
  <2> QED
    BY <1>3, <2>1, <2>2
<1>9. CASE LinkList!Export
  <2> DEFINE u == [ui EXCEPT !.busy = TRUE, !.error = Blank]
             arg == [filter |-> ui.filter]
  <2>1. LinkList!Draw(u, Append(calls, LinkList!Call("export", arg, LinkList!Effect)))
    BY <1>9, Zenon DEF LinkList!Export, Blank
  <2>2. Aside(u)
    BY <1>1 DEF Aside, ListUi, ListFields
  <2> HIDE DEF u, arg
  <2> QED
    BY <1>3, <2>1, <2>2
<1> QED
  BY <1>4, <1>6, <1>7, <1>8, <1>9

\* A selection is made among the rows.
LEMMA ListSelects ==
    ASSUME ListInv, db' = db,
           \/ \E id \in LinkIds : LinkList!ToggleOne(id)
           \/ LinkList!ToggleAll \/ LinkList!ClearSelection
    PROVE  ListGoes
<1>1. ListUi(ui) /\ LinkCalls(calls, db)
  BY DEF ListInv
<1>2. ASSUME NEW s, s \subseteq LinkList!Rows(ui), LinkList!Draw([ui EXCEPT !.selected = s], calls) PROVE ListGoes
  <2> DEFINE u == [ui EXCEPT !.selected = s]
  <2>1. DOMAIN u = ListFields /\ u.rows = ui.rows /\ u.rowDel = ui.rowDel /\ u.selected = s
    BY <1>1 DEF ListUi, ListFields
  <2>2. LinkList!Draw(u, calls)
    BY <1>2
  <2> HIDE DEF u
  <2>3. LinkList!Rows(u) = LinkList!Rows(ui)
    BY <2>1 DEF LinkList!Rows
  <2>4. ListUi(u) /\ Minded(u)
    BY <1>1, <1>2, <2>1, <2>3 DEF ListUi, Minded
  <2> QED
    BY <1>1, <2>2, <2>4, DrawGoes
<1>3. ASSUME NEW id \in LinkIds, LinkList!ToggleOne(id) PROVE ListGoes
  <2> DEFINE s == IF id \in ui.selected THEN ui.selected \ {id} ELSE ui.selected \cup {id}
  <2>1. id \in LinkList!Rows(ui) /\ LinkList!Draw([ui EXCEPT !.selected = s], calls)
    BY <1>3 DEF LinkList!ToggleOne
  <2>2. s \subseteq LinkList!Rows(ui)
    BY <1>1, <2>1 DEF ListUi
  <2> HIDE DEF s
  <2> QED
    BY <1>2, <2>1, <2>2
<1>4. CASE LinkList!ToggleAll
  <2> DEFINE rows == LinkList!Rows(ui)
             s == IF rows \subseteq ui.selected THEN ui.selected \ rows ELSE ui.selected \cup rows
  <2>1. LinkList!Draw([ui EXCEPT !.selected = s], calls)
    BY <1>4 DEF LinkList!ToggleAll
  <2> HIDE DEF rows
  <2>2. s \subseteq rows
    BY <1>1 DEF ListUi, rows
  <2> HIDE DEF s
  <2> QED
    BY <1>2, <2>1, <2>2 DEF rows
<1>5. CASE LinkList!ClearSelection
  <2>1. LinkList!Draw([ui EXCEPT !.selected = {}], calls)
    BY <1>5, Zenon DEF LinkList!ClearSelection
  <2> QED
    BY <1>2, <2>1
<1> QED
  BY <1>3, <1>4, <1>5

\* The confirmations of the rows.
LEMMA ListButtons ==
    ASSUME ListInv, db' = db,
           \/ \E id \in LinkIds : LinkList!ArmRow(id) \/ LinkList!ConfirmRow(id) \/ LinkList!CancelRow(id)
           \/ LinkList!Escape
    PROVE  ListGoes
<1>1. ListUi(ui) /\ LinkCalls(calls, db)
  BY DEF ListInv
<1>2. ASSUME NEW id \in LinkIds, NEW b, ~(ui.rowDel[id] = "busy" /\ b = "closed"), NEW cs, LinkCalls(cs, db),
             LinkList!Draw([ui EXCEPT !.rowDel[id] = b], cs)
      PROVE  ListGoes
  <2> DEFINE r == [ui.rowDel EXCEPT ![id] = b]
             u == [ui EXCEPT !.rowDel = r]
  <2>1. u = [ui EXCEPT !.rowDel[id] = b]
    BY <1>1 DEF ListUi, ListFields
  <2>2. LinkList!Draw(u, cs)
    BY <1>2, <2>1
  <2>3. DOMAIN r = LinkIds /\ \A x \in LinkIds : ~(ui.rowDel[x] = "busy" /\ r[x] = "closed")
    BY <1>1, <1>2 DEF ListUi
  <2> HIDE DEF r
  <2>4. DOMAIN u = ListFields /\ u.rows = ui.rows /\ u.selected = ui.selected /\ u.rowDel = r
    BY <1>1 DEF ListUi, ListFields
  <2> HIDE DEF u
  <2>5. ListUi(u) /\ Minded(u)
    BY <2>3, <2>4, RowsAre
  <2> QED
    BY <1>2, <2>2, <2>5, DrawGoes
<1>3. ASSUME NEW id \in LinkIds, LinkList!ArmRow(id) PROVE ListGoes
  <2> DEFINE b == LinkList!Opened(ui.rowDel[id])
  <2>1. LinkList!Draw([ui EXCEPT !.rowDel[id] = b], calls) /\ ui.rowDel[id] # "busy"
    BY <1>3 DEF LinkList!ArmRow, LinkList!CanOpen
  <2> HIDE DEF b
  <2> QED
    BY <1>1, <1>2, <2>1
<1>4. ASSUME NEW id \in LinkIds, LinkList!ConfirmRow(id) PROVE ListGoes
  <2> DEFINE arg == [id |-> id, asked |-> LinkList!Asked(ui)]
             cs == Append(calls, LinkList!Call("remove", arg, LinkList!Effect))
  <2>1. LinkList!Draw([ui EXCEPT !.rowDel[id] = "busy"], cs)
    BY <1>4, Zenon DEF LinkList!ConfirmRow
  <2> HIDE DEF arg
  <2>2. LinkList!Effect[1] # "removed"
    BY DEF LinkList!Effect
  <2>3. LinkCalls(cs, db)
    BY <1>1, <2>2, LinkCallsAppend
  <2> HIDE DEF cs
  <2> QED
    BY <1>2, <2>1, <2>3
<1>5. ASSUME NEW id \in LinkIds, LinkList!CancelRow(id) PROVE ListGoes
  <2>1. LinkList!Draw([ui EXCEPT !.rowDel[id] = "closed"], calls) /\ ui.rowDel[id] # "busy"
    BY <1>5 DEF LinkList!CancelRow
  <2> QED
    BY <1>1, <1>2, <2>1
<1>6. CASE LinkList!Escape
  <2> DEFINE b == LinkList!Escaped(ui.bulkDel)
             r == [id \in LinkIds |-> LinkList!Escaped(ui.rowDel[id])]
             u == [ui EXCEPT !.bulkDel = b, !.rowDel = r]
  <2>1. LinkList!Draw(u, calls)
    BY <1>1, <1>6 DEF LinkList!Escape, ListUi, ListFields
  <2>2. DOMAIN r = LinkIds /\ \A x \in LinkIds : ~(ui.rowDel[x] = "busy" /\ r[x] = "closed")
    BY DEF LinkList!Escaped
  <2> HIDE DEF b, r
  <2>3. DOMAIN u = ListFields /\ u.rows = ui.rows /\ u.selected = ui.selected /\ u.rowDel = r
    BY <1>1 DEF ListUi, ListFields
  <2> HIDE DEF u
  <2>4. ListUi(u) /\ Minded(u)
    BY <2>2, <2>3, RowsAre
  <2> QED
    BY <1>1, <2>1, <2>4, DrawGoes
<1> QED
  BY <1>3, <1>4, <1>5, <1>6

LEMMA ListNext == ASSUME ListInv, LinkList!Next \/ Still PROVE ListGoes
<1>1. CASE LinkList!Click
  BY <1>1, ListControls, ListSends, ListSelects, ListButtons DEF LinkList!Click
<1>2. CASE LinkList!Debounce
  <2>1. db' = db
    BY <1>2 DEF LinkList!Debounce
  <2> QED
    BY <1>2, <2>1, ListControls
<1>3. CASE Still
  <2>1. ui' = ui /\ calls' = calls /\ db' = db
    BY <1>3 DEF Still
  <2>2. ListInv'
    BY <2>1 DEF ListInv, ListUi
  <2> QED
    BY <2>1, <2>2 DEF ListGoes, LinkList!ClosedIsDeleted
<1> QED
  BY <1>1, <1>2, <1>3, ListServe, ListDeliver DEF LinkList!Next

\* A row's confirmation closes by itself over a deleted link only: a failed delete
\* must not look like a cancelled or a finished one (delete-button.tsx:74-75).
THEOREM ClosedIsDeletedAlways == Spec => ClosedIsDeleted
<1> DEFINE I == page = "links" => ListInv
           A == page = "links" => LinkList!ClosedIsDeleted
<1>1. Init => I
  BY Mounts, ListInit
<1>2. I /\ [Next]_vars => I' /\ [A]_vars
  BY Steps, ListNext DEF ListGoes
<1> QED
  BY <1>1, <1>2, PTL DEF Spec, ClosedIsDeleted
-----------------------------------------------------------------------------
(* The first page of the settings: who is asking is asked once in a load,  *)
(* the sources after it, and only those of the scopes that came back.      *)
HomeFields == {"known", "scopes", "loadError", "loading", "summary", "got", "query", "refresh"}
Matches(f, scopes) == \A s \in Overview!Sources : f[s] # "skipped" <=> s \in Overview!Asked(scopes)
HomeUi(u) ==
    /\ DOMAIN u = HomeFields /\ u.refresh \in Nat /\ DOMAIN u.got = Overview!Sources
    /\ u.loading = FALSE /\ u.loadError = FALSE => Matches(u.summary, u.scopes)
HomeDb(d) ==
    /\ DOMAIN d = {"scopes", "on"} /\ DOMAIN d.on = Overview!Sources
    /\ \A s \in Overview!Sources : d.on[s] # "skipped"

\* What is known of a call of the page: it is of this load or an earlier one, and
\* no source answers that it was skipped.
HomeCall(c, u) ==
    /\ c.op = "me" \/ c.op \in Overview!Sources
    /\ c.then[2] \in Nat /\ c.then[2] <= u.refresh
    /\ c.op \in Overview!Sources /\ c.st = "served" /\ c.res.ok = TRUE => c.res.data.value # "skipped"
AsksWho(c, u) == c.op = "me" /\ c.then[2] = u.refresh
Reads(c, u) == c.op \in Overview!Sources /\ c.then[2] = u.refresh
HomeCalls(cs, u) ==
    /\ InFlight(cs) /\ \A k \in DOMAIN cs : HomeCall(cs[k], u)
    /\ \A j, k \in DOMAIN cs : AsksWho(cs[j], u) /\ AsksWho(cs[k], u) => j = k
    /\ \A k \in DOMAIN cs : Reads(cs[k], u) => cs[k].op \in Overview!Asked(u.scopes)
Asking(cs, u) == \E k \in DOMAIN cs : AsksWho(cs[k], u)
HomeLoad(cs, u) ==
    IF Asking(cs, u)
    THEN /\ u.loading = TRUE /\ u.loadError = FALSE
         /\ \A k \in DOMAIN cs : ~Reads(cs[k], u)
    ELSE u.loadError = TRUE \/ Matches(u.got, u.scopes)
OverviewInv == HomeUi(ui) /\ HomeDb(db) /\ HomeCalls(calls, ui) /\ HomeLoad(calls, ui)

LEMMA SourcesApart == "me" \notin Overview!Sources
BY DEF Overview!Sources

\* The calls but one, and nothing else.
LEMMA HomeRest ==
    ASSUME NEW u, HomeCalls(calls, u), NEW i \in DOMAIN calls
    PROVE  LET t == Overview!Rest(i) IN
           /\ HomeCalls(t, u)
           /\ \A k \in DOMAIN t : \E j \in DOMAIN calls \ {i} : t[k] = calls[j]
           /\ \A j \in DOMAIN calls \ {i} : \E k \in DOMAIN t : t[k] = calls[j]
<1> DEFINE t == Overview!Rest(i)
           S == {c \in {calls[k] : k \in DOMAIN calls} : DOMAIN c = CallFields}
<1>1. t = Without(calls, i)
  BY Zenon DEF Overview!Rest, Overview!Without, Without
<1>2. calls \in Seq(S)
  BY InFlightIs DEF HomeCalls
<1> HIDE DEF t, S
<1>3. PICK f \in [DOMAIN t -> DOMAIN calls \ {i}] :
          /\ \A j \in DOMAIN t : t[j] = calls[f[j]]
          /\ \A j, k \in DOMAIN t : f[j] = f[k] => j = k
          /\ \A k \in DOMAIN calls \ {i} : \E j \in DOMAIN t : f[j] = k
  BY <1>1, <1>2, WithoutOld
<1>4. InFlight(t)
  BY <1>1, InFlightRest DEF HomeCalls
<1>5. /\ \A k \in DOMAIN t : \E j \in DOMAIN calls \ {i} : t[k] = calls[j]
      /\ \A j \in DOMAIN calls \ {i} : \E k \in DOMAIN t : t[k] = calls[j]
  BY <1>3
<1>6. \A k \in DOMAIN t : HomeCall(t[k], u) /\ (Reads(t[k], u) => t[k].op \in Overview!Asked(u.scopes))
  BY <1>5 DEF HomeCalls
<1>7. \A j, k \in DOMAIN t : AsksWho(t[j], u) /\ AsksWho(t[k], u) => j = k
  BY <1>3 DEF HomeCalls
<1> QED
  BY <1>4, <1>5, <1>6, <1>7 DEF HomeCalls, t

\* The reads that follow who is asking.
LEMMA ReadingIs ==
    ASSUME NEW asked, NEW then
    PROVE  LET r == Overview!Reading(asked, then) IN
           /\ InFlight(r)
           /\ \A k \in DOMAIN r : /\ r[k].op \in Overview!Sources /\ r[k].op \in asked
                                  /\ r[k].then = then /\ r[k].st = "sent"
<1> DEFINE G(s) == Overview!Get(s, then)
           S == {G(s) : s \in Overview!Sources \cap asked}
           P(s) == IF s \in asked THEN <<G(s)>> ELSE <<>>
           r == Overview!Reading(asked, then)
<1>1. \A s : /\ DOMAIN G(s) = CallFields /\ G(s).op = s
             /\ G(s).then = then /\ G(s).st = "sent"
  BY DEF Overview!Get, Overview!Call, CallFields
<1>2. r = P("runtime") \o P("captcha") \o P("oidc") \o P("analytics")
  BY Zenon DEF Overview!Reading
<1> HIDE DEF G, r
<1>3. \A c \in S : /\ DOMAIN c = CallFields /\ c.op \in Overview!Sources /\ c.op \in asked
                   /\ c.then = then /\ c.st = "sent"
  BY <1>1
<1>4. \A s \in Overview!Sources : P(s) \in Seq(S)
  <2>1. ASSUME NEW s \in Overview!Sources, s \in asked PROVE P(s) \in Seq(S)
    <3>1. G(s) \in S
      BY <2>1
    <3> HIDE DEF S
    <3> QED
      BY <2>1, <3>1
  <2>2. ASSUME NEW s \in Overview!Sources, s \notin asked PROVE P(s) \in Seq(S)
    <3> HIDE DEF S
    <3> QED
      BY <2>2
  <2> QED
    BY <2>1, <2>2
<1> HIDE DEF S, P
<1>5. r \in Seq(S)
  <2>1. /\ P("runtime") \in Seq(S) /\ P("captcha") \in Seq(S)
        /\ P("oidc") \in Seq(S) /\ P("analytics") \in Seq(S)
    BY <1>4 DEF Overview!Sources
  <2> QED
    BY <1>2, <2>1
<1>6. InFlight(r)
  BY <1>3, <1>5, InFlightSeq
<1>7. \A k \in DOMAIN r : r[k] \in S
  BY <1>5
<1> QED
  BY <1>3, <1>6, <1>7 DEF r

Joined(cs, s, t) == InFlight(s) /\ InFlight(t) /\ cs = s \o t
FromBoth(cs, s, t) ==
    /\ InFlight(cs)
    /\ \A k \in DOMAIN cs : (\E j \in DOMAIN s : cs[k] = s[j]) \/ (\E j \in DOMAIN t : cs[k] = t[j])

LEMMA InFlightJoin == ASSUME NEW s, NEW t, NEW cs, Joined(cs, s, t) PROVE FromBoth(cs, s, t)
<1> DEFINE S == {c \in {s[k] : k \in DOMAIN s} : DOMAIN c = CallFields}
           T == {c \in {t[k] : k \in DOMAIN t} : DOMAIN c = CallFields}
           U == S \cup T
<1>1. s \in Seq(S) /\ t \in Seq(T)
  BY InFlightIs DEF Joined
<1>2. \A c \in U : /\ DOMAIN c = CallFields
                   /\ (\E j \in DOMAIN s : c = s[j]) \/ (\E j \in DOMAIN t : c = t[j])
  OBVIOUS
<1>3. S \subseteq U /\ T \subseteq U
  OBVIOUS
<1> HIDE DEF S, T, U
<1>4. s \in Seq(U) /\ t \in Seq(U)
  BY <1>1, <1>3
<1>5. cs \in Seq(U)
  BY <1>4 DEF Joined
<1>6. \A k \in DOMAIN cs : cs[k] \in U
  BY <1>5
<1>7. InFlight(cs)
  BY <1>2, <1>5, InFlightSeq
<1> QED
  BY <1>2, <1>6, <1>7 DEF FromBoth

LEMMA HomeInit == ASSUME Overview!Init PROVE OverviewInv
<1> DEFINE c == Overview!Load(0)
<1>1. ui = Overview!Mounted /\ calls = <<c>> /\ HomeDb(db)
  <2>1. ui = Overview!Mounted /\ calls = <<c>>
    BY Zenon DEF Overview!Init
  <2>2. PICK d \in [scopes : OverviewScopes, on : {[s \in Overview!Sources |-> "on"]}] : db = d
    BY DEF Overview!Init
  <2>3. HomeDb(db)
    BY <2>2 DEF HomeDb
  <2> QED
    BY <2>1, <2>3
<1>2. DOMAIN c = CallFields /\ c.op = "me" /\ c.then[2] = 0
  BY DEF Overview!Load, Overview!Get, Overview!Call, CallFields
<1> HIDE DEF c
<1>3. calls \in Seq({c}) /\ DOMAIN calls = {1} /\ calls[1] = c
  BY <1>1
<1>4. InFlight(calls)
  <2>1. PICK S : S = {c}
    OBVIOUS
  <2>2. calls \in Seq(S) /\ \A d \in S : DOMAIN d = CallFields
    BY <1>2, <1>3, <2>1
  <2> QED
    BY <2>2, InFlightSeq
<1>5. DOMAIN ui = HomeFields /\ ui.refresh = 0 /\ ui.loading = TRUE /\ ui.loadError = FALSE
  BY <1>1 DEF Overview!Mounted, HomeFields
<1>6. DOMAIN ui.got = Overview!Sources
  BY <1>1 DEF Overview!Mounted, Overview!NotAsked
<1>7. AsksWho(calls[1], ui) /\ ~Reads(calls[1], ui) /\ HomeCall(calls[1], ui)
  BY <1>2, <1>3, <1>5, SourcesApart DEF AsksWho, Reads, HomeCall
<1>8. HomeUi(ui) /\ HomeCalls(calls, ui) /\ HomeLoad(calls, ui)
  BY <1>3, <1>4, <1>5, <1>6, <1>7 DEF HomeUi, HomeCalls, HomeLoad, Asking
<1> QED
  BY <1>1, <1>8 DEF OverviewInv

LEMMA HomeServe == ASSUME OverviewInv, NEW i \in DOMAIN calls, Overview!Serve(i) PROVE OverviewInv'
<1>1. ui' = ui /\ db' = db
  BY DEF Overview!Serve
<1> DEFINE value == db.on[calls[i].op]
<1>2. PICK res : /\ calls' = Overview!Served(i, res)
                 /\ calls[i].op \in Overview!Sources /\ res.ok = TRUE => res.data.value = value
  <2>1. CASE calls[i].op = "me"
    BY <2>1, SourcesApart DEF Overview!Serve
  <2>2. CASE calls[i].op # "me" /\ Overview!ScopeOf(calls[i].op) \in db.scopes
    <3>1. calls' = Overview!Served(i, Overview!Ok([value |-> value]))
      BY <2>2 DEF Overview!Serve
    <3>2. Overview!Ok([value |-> value]).data.value = value
      BY DEF Overview!Ok
    <3> QED
      BY <3>1, <3>2
  <2>3. CASE calls[i].op # "me" /\ Overview!ScopeOf(calls[i].op) \notin db.scopes
    <3>1. calls' = Overview!Served(i, Overview!Refused("forbidden"))
      BY <2>3 DEF Overview!Serve
    <3>2. Overview!Refused("forbidden").ok = FALSE
      BY DEF Overview!Refused
    <3> QED
      BY <3>1, <3>2
  <2> QED
    BY <2>1, <2>2, <2>3
<1>3. calls' = Answer(calls, i, res)
  BY <1>2, Zenon DEF Overview!Served, Answer
<1>4. /\ InFlight(calls') /\ DOMAIN calls' = DOMAIN calls
      /\ \A k \in DOMAIN calls : calls'[k].op = calls[k].op /\ calls'[k].then = calls[k].then
  BY <1>3, InFlightAnswer DEF OverviewInv, HomeCalls
<1>5. \A k \in DOMAIN calls : HomeCall(calls'[k], ui)
  <2> DEFINE c == [calls[i] EXCEPT !.st = "served", !.res = res]
  <2>1. calls' = [calls EXCEPT ![i] = c]
    BY <1>3 DEF Answer
  <2>2. c.res = res
    BY DEF OverviewInv, HomeCalls, InFlight, CallFields
  <2>3. calls[i].op \in Overview!Sources => value # "skipped"
    BY DEF OverviewInv, HomeDb
  <2> HIDE DEF c, value
  <2>4. calls'[i].res = res
    BY <2>1, <2>2
  <2>5. HomeCall(calls'[i], ui)
    BY <1>2, <1>4, <2>3, <2>4 DEF OverviewInv, HomeCalls, HomeCall
  <2>6. \A k \in DOMAIN calls : k # i => calls'[k] = calls[k]
    BY <2>1
  <2> QED
    BY <2>5, <2>6 DEF OverviewInv, HomeCalls
<1>6. \A k \in DOMAIN calls : /\ AsksWho(calls'[k], ui) <=> AsksWho(calls[k], ui)
                              /\ Reads(calls'[k], ui) <=> Reads(calls[k], ui)
  BY <1>4 DEF AsksWho, Reads
<1>7. HomeCalls(calls', ui)
  BY <1>4, <1>5, <1>6 DEF OverviewInv, HomeCalls
<1>8. HomeLoad(calls', ui)
  BY <1>4, <1>6 DEF OverviewInv, HomeLoad, Asking
<1> QED
  BY <1>1, <1>7, <1>8 DEF OverviewInv

\* Once the last read is in, what is shown is what was got.
LEMMA SettledIs ==
    ASSUME NEW u, DOMAIN u = HomeFields, u.refresh \in Nat, DOMAIN u.got = Overview!Sources,
           Matches(u.got, u.scopes), u.loading = FALSE /\ u.loadError = FALSE => Matches(u.summary, u.scopes)
    PROVE  LET v == Overview!Settled(u) IN
           HomeUi(v) /\ v.refresh = u.refresh /\ v.scopes = u.scopes /\ v.got = u.got
<1> DEFINE v == Overview!Settled(u)
           g == u.got
           w == [u EXCEPT !.loading = FALSE, !.summary = g]
<1>1. v = u \/ v = w
  BY DEF Overview!Settled
<1> HIDE DEF v
<1>2. CASE v = u
  BY <1>2 DEF HomeUi, v
<1>3. CASE v = w
  <2>1. /\ DOMAIN v = HomeFields /\ v.refresh = u.refresh /\ v.scopes = u.scopes /\ v.got = u.got
        /\ v.summary = u.got
    BY <1>3 DEF HomeFields
  <2> HIDE DEF w, g
  <2> QED
    BY <2>1 DEF HomeUi, v
<1> QED
  BY <1>1, <1>2, <1>3

LEMMA HomeDeliverMe ==
    ASSUME OverviewInv, NEW i \in DOMAIN calls, Overview!DeliverMe(i), db' = db PROVE OverviewInv'
<1> DEFINE t == Overview!Rest(i)
           then == calls[i].then
<1>1. calls[i].op = "me" /\ then[2] = ui.refresh
  BY DEF Overview!DeliverMe, Overview!Active
<1>2. AsksWho(calls[i], ui) /\ Asking(calls, ui)
  BY <1>1 DEF AsksWho, Asking
<1>3. HomeUi(ui) /\ HomeCalls(calls, ui) /\ ui.loading = TRUE /\ ui.loadError = FALSE
  BY <1>2 DEF OverviewInv, HomeLoad
<1>4. /\ HomeCalls(t, ui)
      /\ \A k \in DOMAIN t : ~AsksWho(t[k], ui) /\ ~Reads(t[k], ui)
  <2>1. /\ HomeCalls(t, ui) /\ \A k \in DOMAIN t : \E j \in DOMAIN calls \ {i} : t[k] = calls[j]
    BY <1>3, HomeRest
  <2>2. \A j \in DOMAIN calls \ {i} : ~AsksWho(calls[j], ui) /\ ~Reads(calls[j], ui)
    BY <1>2 DEF OverviewInv, HomeLoad, HomeCalls
  <2> HIDE DEF t
  <2> QED
    BY <2>1, <2>2
<1> HIDE DEF t
<1>5. PICK a \in Overview!Answers(i) :
          Overview!Show(IF a.ok
               THEN [u |-> Overview!Settled([ui EXCEPT !.known = TRUE, !.scopes = a.data.scopes,
                                    !.got = [s \in Overview!Sources |-> IF s \in Overview!Asked(a.data.scopes)
                                                               THEN "pending" ELSE "skipped"]]),
                     cs |-> t \o Overview!Reading(Overview!Asked(a.data.scopes), then)]
               ELSE [u |-> [ui EXCEPT !.known = TRUE, !.scopes = {}, !.loadError = TRUE,
                                      !.loading = FALSE, !.summary = Overview!NotAsked],
                     cs |-> t])
  BY Zenon DEF Overview!DeliverMe, t
<1>6. CASE a.ok
  <2> DEFINE sc == a.data.scopes
             asked == Overview!Asked(sc)
             g == [s \in Overview!Sources |-> IF s \in asked THEN "pending" ELSE "skipped"]
             w == [ui EXCEPT !.known = TRUE, !.scopes = sc, !.got = g]
             r == Overview!Reading(asked, then)
             v == Overview!Settled(w)
  <2>1. ui' = v /\ calls' = t \o r
    BY <1>5, <1>6 DEF Overview!Show
  <2>2. DOMAIN g = Overview!Sources /\ Matches(g, sc)
    BY DEF Matches
  <2>3. /\ InFlight(r)
        /\ \A k \in DOMAIN r : /\ r[k].op \in Overview!Sources /\ r[k].op \in asked
                               /\ r[k].then = then /\ r[k].st = "sent"
    BY ReadingIs
  <2> HIDE DEF g, sc, then, r
  <2>4. /\ DOMAIN w = HomeFields /\ w.refresh = ui.refresh /\ w.got = g /\ w.scopes = sc
        /\ w.loading = TRUE
    BY <1>3 DEF HomeUi, HomeFields
  <2> HIDE DEF w
  <2>5. w.refresh \in Nat
    BY <1>3, <2>4 DEF HomeUi
  <2>6. HomeUi(v) /\ v.refresh = ui.refresh /\ v.scopes = sc /\ v.got = g
    BY <2>2, <2>4, <2>5, SettledIs
  <2> HIDE DEF v
  <2> DEFINE cs == t \o r
  <2>7. /\ InFlight(cs)
        /\ \A k \in DOMAIN cs : (\E j \in DOMAIN t : cs[k] = t[j]) \/ (\E j \in DOMAIN r : cs[k] = r[j])
    <3>1. Joined(cs, t, r)
      BY <1>4, <2>3 DEF HomeCalls, Joined
    <3> HIDE DEF cs
    <3>2. FromBoth(cs, t, r)
      BY <3>1, InFlightJoin
    <3> QED
      BY <3>2 DEF FromBoth
  <2> HIDE DEF cs
  <2>8. ASSUME NEW j \in DOMAIN t PROVE HomeCall(t[j], v) /\ ~AsksWho(t[j], v) /\ ~Reads(t[j], v)
    BY <1>4, <2>6 DEF HomeCalls, HomeCall, AsksWho, Reads
  <2>9. ASSUME NEW j \in DOMAIN r
        PROVE  HomeCall(r[j], v) /\ ~AsksWho(r[j], v) /\ r[j].op \in Overview!Asked(sc)
    <3>1. then[2] = v.refresh /\ v.refresh \in Nat /\ v.refresh <= v.refresh
      BY <1>1, <2>6 DEF HomeUi
    <3>2. r[j].op \in Overview!Sources /\ r[j].op \in asked /\ r[j].then = then /\ r[j].st = "sent"
      BY <2>3
    <3>3. r[j].op # "me" /\ r[j].st # "served"
      BY <3>2, SourcesApart
    <3> QED
      BY <3>1, <3>2, <3>3 DEF HomeCall, AsksWho
  <2>10. HomeCalls(cs, v)
    BY <2>6, <2>7, <2>8, <2>9 DEF HomeCalls
  <2>11. HomeLoad(cs, v)
    BY <2>2, <2>6, <2>7, <2>8, <2>9 DEF HomeLoad, Asking
  <2> QED
    BY <2>1, <2>6, <2>10, <2>11 DEF OverviewInv, cs
<1>7. CASE ~a.ok
  <2> DEFINE n == Overview!NotAsked
             v == [ui EXCEPT !.known = TRUE, !.scopes = {}, !.loadError = TRUE, !.loading = FALSE,
                             !.summary = n]
  <2>1. ui' = v /\ calls' = t
    BY <1>5, <1>7 DEF Overview!Show
  <2> HIDE DEF n
  <2>2. DOMAIN v = HomeFields /\ v.refresh = ui.refresh /\ v.got = ui.got /\ v.loadError = TRUE
    BY <1>3 DEF HomeUi, HomeFields
  <2> HIDE DEF v
  <2>3. HomeUi(v)
    BY <1>3, <2>2 DEF HomeUi
  <2>4. \A k \in DOMAIN t : HomeCall(t[k], v) /\ ~AsksWho(t[k], v) /\ ~Reads(t[k], v)
    BY <1>4, <2>2 DEF HomeCalls, HomeCall, AsksWho, Reads
  <2>5. HomeCalls(t, v) /\ HomeLoad(t, v)
    BY <1>4, <2>2, <2>4 DEF HomeCalls, HomeLoad, Asking
  <2> QED
    BY <2>1, <2>3, <2>5 DEF OverviewInv
<1> QED
  BY <1>5, <1>6, <1>7

LEMMA HomeDeliverSource ==
    ASSUME OverviewInv, NEW i \in DOMAIN calls, Overview!DeliverSource(i), db' = db PROVE OverviewInv'
<1> DEFINE t == Overview!Rest(i)
           s == calls[i].op
<1>1. s \in Overview!Sources /\ Reads(calls[i], ui)
  BY DEF Overview!DeliverSource, Overview!Active, Reads
<1>2. HomeUi(ui) /\ HomeCalls(calls, ui) /\ ~Asking(calls, ui)
  BY <1>1 DEF OverviewInv, HomeLoad
<1>3. s \in Overview!Asked(ui.scopes) /\ (ui.loadError = TRUE \/ Matches(ui.got, ui.scopes))
  BY <1>1, <1>2 DEF OverviewInv, HomeLoad, HomeCalls
<1>4. HomeCalls(t, ui) /\ ~Asking(t, ui)
  <2>1. HomeCalls(t, ui) /\ \A k \in DOMAIN t : \E j \in DOMAIN calls \ {i} : t[k] = calls[j]
    BY <1>2, HomeRest
  <2> HIDE DEF t
  <2> QED
    BY <1>2, <2>1 DEF Asking
<1>5. PICK a \in Overview!Answers(i) :
          Overview!Show([u |-> Overview!Settled([ui EXCEPT !.got[s] = IF a.ok THEN a.data.value ELSE "failed"]),
                         cs |-> t])
  BY Zenon DEF Overview!DeliverSource, t, s
<1> DEFINE b == IF a.ok THEN a.data.value ELSE "failed"
           g == [ui.got EXCEPT ![s] = b]
           w == [ui EXCEPT !.got = g]
           v == Overview!Settled(w)
<1>6. b # "skipped"
  <2>1. Overview!NetworkError.ok = FALSE
    BY DEF Overview!NetworkError, Overview!Refused
  <2>2. a = Overview!NetworkError \/ (calls[i].st = "served" /\ a = calls[i].res)
    BY DEF Overview!Answers
  <2>3. calls[i].st = "served" /\ calls[i].res.ok = TRUE => calls[i].res.data.value # "skipped"
    BY <1>1, <1>2 DEF HomeCalls, HomeCall
  <2> QED
    BY <2>1, <2>2, <2>3
<1>7. ui' = v /\ calls' = t
  BY <1>5, <1>2 DEF Overview!Show, HomeUi, HomeFields
<1> HIDE DEF t, b, s
<1>8. DOMAIN g = Overview!Sources /\ g[s] = b /\ \A x \in Overview!Sources : x # s => g[x] = ui.got[x]
  BY <1>1, <1>2 DEF HomeUi
<1> HIDE DEF g
<1>9. ui.loadError = TRUE \/ Matches(g, ui.scopes)
  BY <1>3, <1>6, <1>8 DEF Matches
<1>10. /\ DOMAIN w = HomeFields /\ w.refresh = ui.refresh /\ w.got = g /\ w.scopes = ui.scopes
       /\ w.loading = ui.loading /\ w.loadError = ui.loadError /\ w.summary = ui.summary
  BY <1>2 DEF HomeUi, HomeFields
<1> HIDE DEF w
<1>11. HomeUi(v) /\ v.refresh = ui.refresh /\ v.scopes = ui.scopes /\ v.got = g
       /\ v.loadError = ui.loadError
  <2> DEFINE x == [w EXCEPT !.loading = FALSE, !.summary = g]
  <2>1. v = w \/ v = x
    BY <1>10 DEF Overview!Settled
  <2>2. /\ DOMAIN x = HomeFields /\ x.refresh = ui.refresh /\ x.got = g /\ x.scopes = ui.scopes
        /\ x.loadError = ui.loadError /\ x.summary = g
    BY <1>10 DEF HomeFields
  <2> HIDE DEF v, x
  <2> QED
    BY <1>2, <1>8, <1>9, <1>10, <2>1, <2>2 DEF HomeUi
<1> HIDE DEF v
<1>12. \A k \in DOMAIN t : /\ HomeCall(t[k], v) <=> HomeCall(t[k], ui)
                           /\ AsksWho(t[k], v) <=> AsksWho(t[k], ui)
                           /\ Reads(t[k], v) <=> Reads(t[k], ui)
  BY <1>11 DEF HomeCall, AsksWho, Reads
<1>13. HomeCalls(t, v) /\ HomeLoad(t, v)
  BY <1>4, <1>9, <1>11, <1>12 DEF HomeCalls, HomeLoad, Asking
<1> QED
  BY <1>7, <1>11, <1>13 DEF OverviewInv

LEMMA HomeDeliverLate ==
    ASSUME OverviewInv, NEW i \in DOMAIN calls, Overview!DeliverLate(i), db' = db PROVE OverviewInv'
<1> DEFINE t == Overview!Rest(i)
<1>1. ui' = ui /\ calls' = t /\ calls[i].then[2] # ui.refresh
  BY DEF Overview!DeliverLate, Overview!Active, Overview!Show
<1>2. /\ HomeCalls(t, ui)
      /\ \A k \in DOMAIN t : \E j \in DOMAIN calls \ {i} : t[k] = calls[j]
      /\ \A j \in DOMAIN calls \ {i} : \E k \in DOMAIN t : t[k] = calls[j]
  BY HomeRest DEF OverviewInv
<1> HIDE DEF t
<1>3. Asking(t, ui) <=> Asking(calls, ui)
  BY <1>1, <1>2 DEF Asking, AsksWho
<1>4. HomeLoad(t, ui)
  BY <1>2, <1>3 DEF OverviewInv, HomeLoad
<1> QED
  BY <1>1, <1>2, <1>4 DEF OverviewInv

LEMMA HomeRetry == ASSUME OverviewInv, Overview!Retry, db' = db PROVE OverviewInv'
<1> DEFINE n == ui.refresh + 1
           q == ui.query
           m == Overview!Mounted
           v == [m EXCEPT !.query = q, !.refresh = n]
           c == Overview!Load(n)
           cs == Append(calls, c)
<1>1. ui' = v /\ calls' = cs
  BY DEF Overview!Retry, Overview!Send
<1>2. /\ DOMAIN m = HomeFields /\ m.loading = TRUE /\ m.loadError = FALSE
      /\ DOMAIN m.got = Overview!Sources
  BY DEF Overview!Mounted, Overview!NotAsked, HomeFields
<1>3. DOMAIN c = CallFields /\ c.op = "me" /\ c.then[2] = n
  BY DEF Overview!Load, Overview!Get, Overview!Call, CallFields
<1>4. ui.refresh \in Nat /\ HomeCalls(calls, ui)
  BY DEF OverviewInv, HomeUi
<1>5. n \in Nat /\ n > ui.refresh
  BY <1>4
<1> HIDE DEF m, q, c
<1>6. /\ DOMAIN v = HomeFields /\ v.refresh = n /\ v.loading = TRUE /\ v.loadError = FALSE
      /\ DOMAIN v.got = Overview!Sources
  BY <1>2 DEF HomeFields
<1>7. /\ InFlight(cs) /\ DOMAIN calls \subseteq DOMAIN cs
      /\ \A k \in DOMAIN calls : cs[k] = calls[k]
      /\ \E k \in DOMAIN cs : cs[k] = c
      /\ \A k \in DOMAIN cs : k \in DOMAIN calls \/ cs[k] = c
  BY <1>3, <1>4, InFlightAppend DEF HomeCalls
<1>8. DOMAIN cs \ DOMAIN calls = {Len(calls) + 1}
  <2> DEFINE S == {d \in {calls[k] : k \in DOMAIN calls} : DOMAIN d = CallFields}
  <2>1. calls \in Seq(S)
    BY <1>4, InFlightIs DEF HomeCalls
  <2> HIDE DEF S
  <2>2. DOMAIN calls = 1 .. Len(calls) /\ Len(calls) \in Nat /\ DOMAIN cs = 1 .. Len(calls) + 1
    BY <2>1
  <2> QED
    BY <2>2
<1> HIDE DEF cs, v, n
<1>9. ASSUME NEW k \in DOMAIN calls PROVE HomeCall(calls[k], v) /\ ~AsksWho(calls[k], v) /\ ~Reads(calls[k], v)
  <2>1. HomeCall(calls[k], ui)
    BY <1>4 DEF HomeCalls
  <2>2. calls[k].then[2] \in Nat /\ calls[k].then[2] <= ui.refresh
    BY <2>1 DEF HomeCall
  <2>3. calls[k].then[2] <= n /\ calls[k].then[2] # n
    BY <1>4, <1>5, <2>2
  <2> QED
    BY <1>6, <2>1, <2>2, <2>3 DEF HomeCall, AsksWho, Reads
<1>10. HomeCall(c, v) /\ AsksWho(c, v) /\ ~Reads(c, v)
  BY <1>3, <1>5, <1>6, SourcesApart DEF HomeCall, AsksWho, Reads
<1>11. HomeUi(v)
  BY <1>5, <1>6 DEF HomeUi
<1>12. \A j, k \in DOMAIN cs : AsksWho(cs[j], v) /\ AsksWho(cs[k], v) => j = k
  BY <1>7, <1>8, <1>9
<1>13. HomeCalls(cs, v) /\ HomeLoad(cs, v)
  BY <1>6, <1>7, <1>9, <1>10, <1>12 DEF HomeCalls, HomeLoad, Asking
<1> QED
  BY <1>1, <1>11, <1>13 DEF OverviewInv

LEMMA HomeOthers ==
    ASSUME OverviewInv, (Overview!Search /\ db' = db) \/ Overview!RoleChanges \/ Overview!SettingChanges
    PROVE  OverviewInv'
<1>1. CASE Overview!Search /\ db' = db
  <2> DEFINE q == ~ui.query
             v == [ui EXCEPT !.query = q]
  <2>1. calls' = calls /\ ui' = v
    BY <1>1 DEF Overview!Search, Overview!Set, OverviewInv, HomeUi, HomeFields
  <2> HIDE DEF q
  <2>2. /\ DOMAIN v = HomeFields /\ v.refresh = ui.refresh /\ v.got = ui.got /\ v.scopes = ui.scopes
        /\ v.loading = ui.loading /\ v.loadError = ui.loadError /\ v.summary = ui.summary
    BY DEF OverviewInv, HomeUi, HomeFields
  <2> HIDE DEF v
  <2>3. \A k \in DOMAIN calls : /\ HomeCall(calls[k], v) <=> HomeCall(calls[k], ui)
                                /\ AsksWho(calls[k], v) <=> AsksWho(calls[k], ui)
                                /\ Reads(calls[k], v) <=> Reads(calls[k], ui)
    BY <2>2 DEF HomeCall, AsksWho, Reads
  <2>4. HomeUi(v) /\ HomeCalls(calls, v) /\ HomeLoad(calls, v)
    BY <2>2, <2>3 DEF OverviewInv, HomeUi, HomeCalls, HomeLoad, Asking
  <2> QED
    BY <1>1, <2>1, <2>4 DEF OverviewInv
<1>2. CASE Overview!RoleChanges
  <2>1. PICK g : db' = [db EXCEPT !.scopes = g] /\ UNCHANGED <<ui, calls>>
    BY <1>2, Zenon DEF Overview!RoleChanges
  <2>2. HomeDb(db')
    BY <2>1 DEF OverviewInv, HomeDb
  <2> QED
    BY <2>1, <2>2 DEF OverviewInv
<1>3. CASE Overview!SettingChanges
  <2>1. PICK s \in Overview!Sources :
            db' = [db EXCEPT !.on[s] = IF @ = "on" THEN "off" ELSE "on"] /\ UNCHANGED <<ui, calls>>
    BY <1>3, Zenon DEF Overview!SettingChanges
  <2> DEFINE b == IF db.on[s] = "on" THEN "off" ELSE "on"
             f == [db.on EXCEPT ![s] = b]
             d == [db EXCEPT !.on = f]
  <2>2. db' = d
    BY <2>1 DEF OverviewInv, HomeDb
  <2>3. b # "skipped"
    OBVIOUS
  <2> HIDE DEF b
  <2>4. DOMAIN f = Overview!Sources /\ \A x \in Overview!Sources : f[x] # "skipped"
    BY <2>3 DEF OverviewInv, HomeDb
  <2> HIDE DEF f
  <2>5. HomeDb(d)
    BY <2>4 DEF OverviewInv, HomeDb
  <2> QED
    BY <2>1, <2>2, <2>5 DEF OverviewInv
<1> QED
  BY <1>1, <1>2, <1>3

LEMMA OverviewNext == ASSUME OverviewInv, Overview!Next \/ Still PROVE OverviewInv'
<1>1. CASE Still
  BY <1>1 DEF Still, OverviewInv, HomeUi, HomeDb, HomeCalls, HomeLoad, Asking
<1>2. ASSUME NEW i \in DOMAIN calls, Overview!Deliver(i) PROVE OverviewInv'
  BY <1>2, HomeDeliverMe, HomeDeliverSource, HomeDeliverLate DEF Overview!Deliver
<1>3. CASE Overview!Click
  BY <1>3, HomeRetry, HomeOthers DEF Overview!Click
<1>4. CASE Overview!RoleChanges \/ Overview!SettingChanges
  BY <1>4, HomeOthers
<1> QED
  BY <1>1, <1>2, <1>3, <1>4, HomeServe DEF Overview!Next

LEMMA OverviewShown == ASSUME OverviewInv PROVE Overview!SummaryIsOfThisLoad
BY DEF OverviewInv, HomeUi, Matches, Overview!SummaryIsOfThisLoad

(* What the settings search finds is open to the same account.  A path is  *)
(* read off its segments: where two addresses stand for one category, the  *)
(* navigation shows the category.                                          *)
LEMMA PathsAlike ==
    ASSUME NEW S, NEW s \in Seq(S), NEW t \in Seq(S), Len(s) = Len(t),
           \A k \in 1 .. Len(s) : s[k] = t[k]
    PROVE  s = t
OBVIOUS

LEMMA PathJoins ==
    ASSUME NEW S, NEW h \in Seq(S), NEW s \in Seq(S), NEW z \in Seq(S), Len(z) = Len(h) + Len(s),
           \A k \in 1 .. Len(h) : z[k] = h[k],
           \A k \in 1 .. Len(s) : z[Len(h) + k] = s[k]
    PROVE  h \o s = z
<1>1. h \o s \in Seq(S) /\ Len(h \o s) = Len(z)
  OBVIOUS
<1>2. ASSUME NEW k \in 1 .. Len(z) PROVE (h \o s)[k] = z[k]
  <2>1. CASE k <= Len(h)
    BY <2>1
  <2>2. CASE k > Len(h)
    <3>1. k - Len(h) \in 1 .. Len(s) /\ k = Len(h) + (k - Len(h))
      BY <2>2
    <3>2. z[Len(h) + (k - Len(h))] = s[k - Len(h)]
      BY <3>1
    <3> QED
      BY <2>2, <3>1, <3>2
  <2> QED
    BY <2>1, <2>2
<1> QED
  BY <1>1, <1>2, PathsAlike

LEMMA JoinsOne ==
    ASSUME NEW p, NEW q, NEW a
    PROVE  <<p, q>> \o <<a>> = <<p, q, a>>
<1> DEFINE S == {p, q, a}
           h == <<p, q>>
           s == <<a>>
           z == <<p, q, a>>
<1>1. /\ h \in Seq(S) /\ Len(h) = 2 /\ h[1] = p /\ h[2] = q
      /\ s \in Seq(S) /\ Len(s) = 1 /\ s[1] = a
      /\ z \in Seq(S) /\ Len(z) = 3 /\ z[1] = p /\ z[2] = q /\ z[3] = a
  OBVIOUS
<1> HIDE DEF S, h, s, z
<1>2. /\ Len(z) = Len(h) + Len(s)
      /\ \A k \in 1 .. Len(h) : z[k] = h[k]
      /\ \A k \in 1 .. Len(s) : z[Len(h) + k] = s[k]
  BY <1>1
<1>3. h \o s = z
  <2>1. h \in Seq(S) /\ s \in Seq(S) /\ z \in Seq(S)
    BY <1>1
  <2> QED
    BY <1>2, <2>1, PathJoins
<1> QED
  BY <1>3 DEF h, s, z

LEMMA JoinsTwo ==
    ASSUME NEW p, NEW q, NEW a, NEW b
    PROVE  <<p, q>> \o <<a, b>> = <<p, q, a, b>>
<1> DEFINE S == {p, q, a, b}
           h == <<p, q>>
           s == <<a, b>>
           z == <<p, q, a, b>>
<1>1. /\ h \in Seq(S) /\ Len(h) = 2 /\ h[1] = p /\ h[2] = q
      /\ s \in Seq(S) /\ Len(s) = 2 /\ s[1] = a /\ s[2] = b
      /\ z \in Seq(S) /\ Len(z) = 4 /\ z[1] = p /\ z[2] = q /\ z[3] = a /\ z[4] = b
  OBVIOUS
<1> HIDE DEF S, h, s, z
<1>2. /\ Len(z) = Len(h) + Len(s)
      /\ \A k \in 1 .. Len(h) : z[k] = h[k]
      /\ \A k \in 1 .. Len(s) : z[Len(h) + k] = s[k]
  BY <1>1
<1>3. h \o s = z
  <2>1. h \in Seq(S) /\ s \in Seq(S) /\ z \in Seq(S)
    BY <1>1
  <2> QED
    BY <1>2, <2>1, PathJoins
<1> QED
  BY <1>3 DEF h, s, z

LEMMA SettingsPath ==
    ASSUME NEW a, NEW b
    PROVE  /\ Overview!Settings(<<a>>) = <<"home", "settings", a>>
           /\ Overview!Settings(<<a, b>>) = <<"home", "settings", a, b>>
BY JoinsOne, JoinsTwo, Zenon DEF Overview!Settings

LEMMA UnderPath ==
    ASSUME NEW S, NEW whole \in Seq(S), NEW path \in Seq(S)
    PROVE  Overview!Under(whole, path) <=>
               Len(whole) <= Len(path) /\ \A k \in 1 .. Len(whole) : path[k] = whole[k]
<1>1. CASE Len(whole) <= Len(path)
  <2> DEFINE n == Len(whole)
             s == SubSeq(path, 1, n)
  <2>1. n \in Nat /\ DOMAIN whole = 1 .. n /\ whole = [k \in DOMAIN whole |-> whole[k]]
    OBVIOUS
  <2>2. s \in Seq(S) /\ Len(s) = n /\ \A k \in 1 .. n : s[k] = path[k]
    BY <1>1, <2>1
  <2>3. DOMAIN s = 1 .. n /\ s = [k \in DOMAIN s |-> s[k]]
    BY <2>2
  <2> HIDE DEF s
  <2>4. s = whole <=> \A k \in 1 .. n : s[k] = whole[k]
    BY <2>1, <2>3
  <2> QED
    BY <1>1, <2>2, <2>4 DEF Overview!Under, s
<1>2. CASE ~(Len(whole) <= Len(path))
  BY <1>2 DEF Overview!Under
<1> QED
  BY <1>1, <1>2

PageAt(x) == <<"home", "settings", x>>
Moved == {"runtime", "captcha", "oidc", "roles"}

LEMMA AliasesOf ==
    Overview!Aliases = {<<PageAt("runtime"), PageAt("links")>>,
                        <<PageAt("captcha"), PageAt("registration")>>,
                        <<PageAt("oidc"), PageAt("registration")>>,
                        <<PageAt("roles"), Overview!Users>>}
BY SettingsPath DEF Overview!Aliases, PageAt

LEMMA UnderPages ==
    /\ \A x, y : Overview!Under(PageAt(x), PageAt(y)) <=> x = y
    /\ \A x, y, z : Overview!Under(PageAt(x), <<"home", "settings", y, z>>) <=> x = y
    /\ \A x : ~Overview!Under(PageAt(x), Overview!Users)
    /\ Overview!Under(Overview!Users, Overview!Users)
<1> DEFINE h == "home"
           g == "settings"
           u == "users"
<1> HIDE DEF h, g, u
<1>1. ASSUME NEW x, NEW y, NEW z
      PROVE  /\ Overview!Under(<<h, g, x>>, <<h, g, y>>) <=> x = y
             /\ Overview!Under(<<h, g, x>>, <<h, g, y, z>>) <=> x = y
             /\ ~Overview!Under(<<h, g, x>>, <<h, u>>)
             /\ Overview!Under(<<h, u>>, <<h, u>>)
  <2> DEFINE S == {h, g, u, x, y, z}
             p == <<h, u>>
             q == <<h, g, x>>
             s == <<h, g, y>>
             t == <<h, g, y, z>>
  <2>1. /\ p \in Seq(S) /\ Len(p) = 2
        /\ q \in Seq(S) /\ Len(q) = 3 /\ q[1] = h /\ q[2] = g /\ q[3] = x
        /\ s \in Seq(S) /\ Len(s) = 3 /\ s[1] = h /\ s[2] = g /\ s[3] = y
        /\ t \in Seq(S) /\ Len(t) = 4 /\ t[1] = h /\ t[2] = g /\ t[3] = y
    OBVIOUS
  <2> HIDE DEF S, p, q, s, t
  <2>2. /\ Overview!Under(q, s) <=> Len(q) <= Len(s) /\ \A k \in 1 .. Len(q) : s[k] = q[k]
        /\ Overview!Under(q, t) <=> Len(q) <= Len(t) /\ \A k \in 1 .. Len(q) : t[k] = q[k]
        /\ Overview!Under(q, p) <=> Len(q) <= Len(p) /\ \A k \in 1 .. Len(q) : p[k] = q[k]
        /\ Overview!Under(p, p) <=> Len(p) <= Len(p) /\ \A k \in 1 .. Len(p) : p[k] = p[k]
    <3>1. Overview!Under(q, s) <=> Len(q) <= Len(s) /\ \A k \in 1 .. Len(q) : s[k] = q[k]
      BY <2>1, UnderPath, Zenon
    <3>2. Overview!Under(q, t) <=> Len(q) <= Len(t) /\ \A k \in 1 .. Len(q) : t[k] = q[k]
      BY <2>1, UnderPath, Zenon
    <3>3. Overview!Under(q, p) <=> Len(q) <= Len(p) /\ \A k \in 1 .. Len(q) : p[k] = q[k]
      BY <2>1, UnderPath, Zenon
    <3>4. Overview!Under(p, p) <=> Len(p) <= Len(p) /\ \A k \in 1 .. Len(p) : p[k] = p[k]
      BY <2>1, UnderPath, Zenon
    <3> QED
      BY <3>1, <3>2, <3>3, <3>4, Zenon
  <2>3. 1 .. 3 = {1, 2, 3}
    OBVIOUS
  <2>4. Overview!Under(q, s) <=> x = y
    BY <2>1, <2>2, <2>3
  <2>5. Overview!Under(q, t) <=> x = y
    BY <2>1, <2>2, <2>3
  <2>6. ~Overview!Under(q, p) /\ Overview!Under(p, p)
    BY <2>1, <2>2
  <2> QED
    BY <2>4, <2>5, <2>6 DEF p, q, s, t
<1>2. \A x, y : Overview!Under(<<h, g, x>>, <<h, g, y>>) <=> x = y
  BY <1>1
<1>3. \A x, y, z : Overview!Under(<<h, g, x>>, <<h, g, y, z>>) <=> x = y
  BY <1>1
<1>4. (\A x : ~Overview!Under(<<h, g, x>>, <<h, u>>)) /\ Overview!Under(<<h, u>>, <<h, u>>)
  BY <1>1
<1> QED
  BY <1>2, <1>3, <1>4, Zenon DEF PageAt, Overview!Users, h, g, u

LEMMA OwnAddress ==
    /\ \A x : x \notin Moved => Overview!NavigationPath(PageAt(x)) = PageAt(x)
    /\ \A x, y :
           LET p == <<"home", "settings", x, y>> IN x \notin Moved => Overview!NavigationPath(p) = p
    /\ Overview!NavigationPath(Overview!Users) = Overview!Users
<1> HIDE DEF PageAt, Overview!Users
<1>1. \A a \in Overview!Aliases : \E x \in Moved : a[1] = PageAt(x)
  BY AliasesOf DEF Moved
<1> QED
  <2>1. ASSUME NEW x, x \notin Moved PROVE Overview!NavigationPath(PageAt(x)) = PageAt(x)
    <3>1. \A a \in Overview!Aliases : ~Overview!Under(a[1], PageAt(x))
      BY <1>1, <2>1, UnderPages
    <3> QED
      BY <3>1, Zenon DEF Overview!NavigationPath
  <2>2. ASSUME NEW x, NEW y, x \notin Moved
        PROVE  Overview!NavigationPath(<<"home", "settings", x, y>>) = <<"home", "settings", x, y>>
    <3> DEFINE p == <<"home", "settings", x, y>>
    <3>1. \A w : Overview!Under(PageAt(w), p) <=> w = x
      BY UnderPages, Zenon
    <3> HIDE DEF p
    <3>2. \A a \in Overview!Aliases : ~Overview!Under(a[1], p)
      BY <1>1, <2>2, <3>1
    <3> QED
      BY <3>2, Zenon DEF Overview!NavigationPath, p
  <2>3. Overview!NavigationPath(Overview!Users) = Overview!Users
    <3>1. \A a \in Overview!Aliases : ~Overview!Under(a[1], Overview!Users)
      BY <1>1, UnderPages
    <3> QED
      BY <3>1, Zenon DEF Overview!NavigationPath
  <2> QED
    BY <2>1, <2>2, <2>3

LEMMA PathWhole ==
    ASSUME NEW x
    PROVE  /\ Len(PageAt(x)) = 3 /\ SubSeq(PageAt(x), 4, 3) = <<>>
           /\ PageAt(x) \o <<>> = PageAt(x) /\ Overview!Users \o <<>> = Overview!Users
BY DEF PageAt, Overview!Users

LEMMA MovedTo ==
    ASSUME NEW a \in Overview!Aliases, NEW x, a[1] = PageAt(x),
           a[2] \in {PageAt("links"), PageAt("registration"), Overview!Users}
    PROVE  Overview!NavigationPath(PageAt(x)) = a[2]
<1> HIDE DEF PageAt, Overview!Users
<1>1. \A b \in Overview!Aliases : Overview!Under(b[1], PageAt(x)) <=> b[1] = a[1]
  <2>1. \A b \in Overview!Aliases : \E y : b[1] = PageAt(y)
    BY AliasesOf
  <2> QED
    BY <2>1, UnderPages
<1>2. \A b \in Overview!Aliases : b[1] = a[1] => b = a
  <2>1. \A y, z : PageAt(y) = PageAt(z) => y = z
    BY UnderPages
  <2> QED
    BY <2>1, AliasesOf
<1>3. /\ Overview!Under(a[1], PageAt(x))
      /\ (CHOOSE b \in Overview!Aliases : Overview!Under(b[1], PageAt(x))) = a
  BY <1>1, <1>2
<1> DEFINE n == Len(PageAt(x))
<1>4. Overview!NavigationPath(PageAt(x)) = a[2] \o SubSeq(PageAt(x), n + 1, n)
  BY <1>3, Zenon DEF Overview!NavigationPath
<1>5. n = 3
  BY PathWhole, Zenon
<1> HIDE DEF n
<1>6. SubSeq(PageAt(x), n + 1, n) = <<>>
  BY <1>5, PathWhole
<1>7. a[2] \o <<>> = a[2]
  BY PathWhole
<1> QED
  BY <1>4, <1>6, <1>7

SubAt(x) == <<"home", "settings", "links", x>>

LEMMA PagesApart ==
    /\ \A x, y : PageAt(x) = PageAt(y) => x = y
    /\ \A x : PageAt(x) # Overview!Users /\ PageAt(x) # Overview!Home
    /\ \A x, y : PageAt(x) # SubAt(y)
    /\ \A x : SubAt(x) # Overview!Users
    /\ Overview!Users # Overview!Home
<1>1. \A x, y : PageAt(x) = PageAt(y) => x = y
  BY UnderPages
<1>2. \A x : PageAt(x) # Overview!Users
  BY UnderPages
<1>3. \A x : PageAt(x) # Overview!Home
  BY DEF PageAt, Overview!Home
<1>4. \A x, y : PageAt(x) # SubAt(y)
  BY DEF PageAt, SubAt
<1>5. Overview!Users # Overview!Home
  BY DEF Overview!Users, Overview!Home
<1>6. \A x : SubAt(x) # Overview!Users
  BY DEF Overview!Users, SubAt
<1> QED
  BY <1>1, <1>2, <1>3, <1>4, <1>5, <1>6

LEMMA LeadsTo ==
    /\ \A x \in {"links", "registration", "traffic", "analytics"} :
           Overview!NavItemActive(PageAt(x), PageAt(x))
    /\ \A x \in {"redirects", "maintenance"} : Overview!NavItemActive(SubAt(x), PageAt("links"))
    /\ Overview!NavItemActive(PageAt("oidc"), PageAt("registration"))
    /\ \A p, q \in {Overview!Users, PageAt("roles")} : Overview!NavItemActive(p, q)
<1>1. \A x \in {"links", "registration", "traffic", "analytics"} :
          Overview!NavigationPath(PageAt(x)) = PageAt(x)
  BY OwnAddress DEF Moved
<1>2. \A x : Overview!NavigationPath(SubAt(x)) = SubAt(x)
  BY OwnAddress DEF Moved, SubAt
<1>3. Overview!NavigationPath(PageAt("oidc")) = PageAt("registration")
  <2> DEFINE a == <<PageAt("oidc"), PageAt("registration")>>
  <2>1. a \in Overview!Aliases /\ a[1] = PageAt("oidc") /\ a[2] = PageAt("registration")
    BY AliasesOf
  <2> HIDE DEF a
  <2> QED
    BY <2>1, MovedTo
<1>4. Overview!NavigationPath(PageAt("roles")) = Overview!Users
  <2> DEFINE a == <<PageAt("roles"), Overview!Users>>
  <2>1. a \in Overview!Aliases /\ a[1] = PageAt("roles") /\ a[2] = Overview!Users
    BY AliasesOf
  <2> HIDE DEF a
  <2> QED
    BY <2>1, MovedTo
<1>5. Overview!NavigationPath(Overview!Users) = Overview!Users
  BY OwnAddress
<1>6. \A y : Overview!Under(PageAt("links"), SubAt(y))
  BY UnderPages DEF SubAt
<1> HIDE DEF PageAt, SubAt, Overview!Users, Overview!Home
<1>7. ASSUME NEW x \in {"links", "registration", "traffic", "analytics"}
      PROVE  Overview!NavItemActive(PageAt(x), PageAt(x))
  <2>1. /\ Overview!NavigationPath(PageAt(x)) = PageAt(x)
        /\ PageAt(x) # Overview!Home /\ Overview!Under(PageAt(x), PageAt(x))
    BY <1>1, PagesApart, UnderPages
  <2> QED
    BY <2>1, Zenon DEF Overview!NavItemActive
<1>8. ASSUME NEW x \in {"redirects", "maintenance"}
      PROVE  Overview!NavItemActive(SubAt(x), PageAt("links"))
  <2>1. /\ Overview!NavigationPath(SubAt(x)) = SubAt(x)
        /\ Overview!NavigationPath(PageAt("links")) = PageAt("links")
        /\ PageAt("links") # Overview!Home /\ Overview!Under(PageAt("links"), SubAt(x))
    BY <1>1, <1>2, <1>6, PagesApart
  <2> QED
    BY <2>1, Zenon DEF Overview!NavItemActive
<1>9. Overview!NavItemActive(PageAt("oidc"), PageAt("registration"))
  <2>1. /\ Overview!NavigationPath(PageAt("registration")) = PageAt("registration")
        /\ PageAt("registration") # Overview!Home
        /\ Overview!Under(PageAt("registration"), PageAt("registration"))
    BY <1>1, PagesApart, UnderPages
  <2> QED
    BY <1>3, <2>1, Zenon DEF Overview!NavItemActive
<1>10. ASSUME NEW p \in {Overview!Users, PageAt("roles")}, NEW q \in {Overview!Users, PageAt("roles")}
       PROVE  Overview!NavItemActive(p, q)
  <2>1. /\ Overview!NavigationPath(p) = Overview!Users /\ Overview!NavigationPath(q) = Overview!Users
        /\ Overview!Users # Overview!Home /\ Overview!Under(Overview!Users, Overview!Users)
    BY <1>4, <1>5, PagesApart, UnderPages
  <2> QED
    BY <2>1, Zenon DEF Overview!NavItemActive
<1> QED
  BY <1>7, <1>8, <1>9, <1>10

LEMMA EntryOf == \A p, s : Overview!Entry(p, s).path = p /\ Overview!Entry(p, s).scopes = s
BY DEF Overview!Entry

LEMMA TablesAre ==
    /\ Overview!Categories =
           {Overview!Entry(PageAt("links"), {"settings:manage"}),
            Overview!Entry(PageAt("registration"),
                           {"settings:manage", "captcha:manage", "oidc:manage"}),
            Overview!Entry(Overview!Users, {"users:manage", "roles:manage"}),
            Overview!Entry(PageAt("traffic"), {"settings:manage"}),
            Overview!Entry(PageAt("analytics"), {"settings:manage", "analytics:manage"})}
    /\ Overview!Tabs =
           {Overview!Entry(PageAt("links"), {"settings:manage"}),
            Overview!Entry(SubAt("redirects"), {"settings:manage"}),
            Overview!Entry(SubAt("maintenance"), {"settings:manage"}),
            Overview!Entry(PageAt("registration"), {"settings:manage", "captcha:manage"}),
            Overview!Entry(PageAt("oidc"), {"oidc:manage"}),
            Overview!Entry(Overview!Users, {"users:manage"}),
            Overview!Entry(PageAt("roles"), {"roles:manage"})}
<1>1. \A x : Overview!Settings(<<x>>) = PageAt(x)
  BY SettingsPath DEF PageAt
<1>2. \A x : Overview!Settings(<<"links", x>>) = SubAt(x)
  BY SettingsPath DEF SubAt
<1> QED
  BY <1>1, <1>2 DEF Overview!Categories, Overview!Tabs

\* A page the search leads to, and the scope it is for.
LEMMA SearchFinds ==
    ASSUME NEW e \in Overview!SearchEntries
    PROVE  \/ e.path \in {PageAt("links"), SubAt("redirects"), SubAt("maintenance"),
                          PageAt("registration"),
                          PageAt("traffic"), PageAt("analytics")} /\ e.scope = "settings:manage"
           \/ e.path = PageAt("registration") /\ e.scope = "captcha:manage"
           \/ e.path = PageAt("oidc") /\ e.scope = "oidc:manage"
           \/ e.path = Overview!Users /\ e.scope = "users:manage"
           \/ e.path = PageAt("roles") /\ e.scope = "roles:manage"
           \/ e.path = PageAt("analytics") /\ e.scope = "analytics:manage"
<1>1. \A x : Overview!Settings(<<x>>) = PageAt(x)
  BY SettingsPath DEF PageAt
<1>2. \A x : Overview!Settings(<<"links", x>>) = SubAt(x)
  BY SettingsPath DEF SubAt
<1>3. \A p, f, s : \A x \in Overview!Found(p, f, s) : x.path = p /\ x.scope = s
  BY DEF Overview!Found
<1> QED
  BY <1>1, <1>2, <1>3 DEF Overview!SearchEntries

LEMMA SearchReaches ==
    ASSUME NEW scopes, NEW e \in Overview!VisibleSearchEntries(scopes)
    PROVE  Overview!Reachable(e.path, scopes)
<1> DEFINE p == e.path
<1>1. e \in Overview!SearchEntries /\ e.scope \in scopes
  BY DEF Overview!VisibleSearchEntries
<1> HIDE DEF p
<1>2. \A c \in Overview!Categories :
          Overview!May(c, scopes) /\ c.path # Overview!Users =>
              c \in Overview!Visible(Overview!Categories, scopes)
  BY DEF Overview!Visible, Overview!Redirected
<1>3. ASSUME NEW c \in Overview!Categories, Overview!May(c, scopes), c.path = Overview!Users
      PROVE  \E d \in Overview!Visible(Overview!Categories, scopes) :
                 d.path \in {Overview!Users, Overview!Settings(<<"roles">>)}
  <2> DEFINE d == Overview!Redirected(c, scopes)
  <2>1. d \in Overview!Visible(Overview!Categories, scopes)
    BY <1>3 DEF Overview!Visible
  <2>2. DOMAIN c = {"path", "scopes"}
    BY TablesAre DEF Overview!Entry
  <2>3. d.path \in {Overview!Users, Overview!Settings(<<"roles">>)}
    BY <1>3, <2>2 DEF Overview!Redirected
  <2> QED
    BY <2>1, <2>3
<1>4. \A t \in Overview!Tabs : Overview!May(t, scopes) => t \in Overview!VisibleTabs(scopes)
  BY DEF Overview!VisibleTabs
<1>5. \A p1, s, x : x \in s /\ x \in scopes => Overview!May(Overview!Entry(p1, s), scopes)
  BY EntryOf DEF Overview!May
<1>6. \A x : Overview!Settings(<<x>>) = PageAt(x)
  BY SettingsPath DEF PageAt
<1>7. \E c \in Overview!Visible(Overview!Categories, scopes) : Overview!NavItemActive(p, c.path)
  <2> DEFINE links == Overview!Entry(PageAt("links"), {"settings:manage"})
             registration == Overview!Entry(PageAt("registration"),
                                            {"settings:manage", "captcha:manage", "oidc:manage"})
             users == Overview!Entry(Overview!Users, {"users:manage", "roles:manage"})
             traffic == Overview!Entry(PageAt("traffic"), {"settings:manage"})
             analytics == Overview!Entry(PageAt("analytics"), {"settings:manage", "analytics:manage"})
  <2>1. /\ links \in Overview!Categories
        /\ registration \in Overview!Categories /\ users \in Overview!Categories
        /\ traffic \in Overview!Categories /\ analytics \in Overview!Categories
        /\ links.path = PageAt("links")
        /\ registration.path = PageAt("registration") /\ users.path = Overview!Users
        /\ traffic.path = PageAt("traffic") /\ analytics.path = PageAt("analytics")
    BY TablesAre, EntryOf
  <2>2. /\ "settings:manage" \in scopes =>
               /\ Overview!May(links, scopes) /\ Overview!May(registration, scopes)
               /\ Overview!May(traffic, scopes) /\ Overview!May(analytics, scopes)
        /\ "captcha:manage" \in scopes => Overview!May(registration, scopes)
        /\ "oidc:manage" \in scopes => Overview!May(registration, scopes)
        /\ "users:manage" \in scopes => Overview!May(users, scopes)
        /\ "roles:manage" \in scopes => Overview!May(users, scopes)
        /\ "analytics:manage" \in scopes => Overview!May(analytics, scopes)
    BY <1>5
  <2> HIDE DEF links, registration, users, traffic, analytics
  <2>3. CASE /\ p \in {PageAt("links"), SubAt("redirects"), SubAt("maintenance")}
             /\ e.scope = "settings:manage"
    BY <1>1, <1>2, <2>1, <2>2, <2>3, LeadsTo, PagesApart
  <2>4. CASE /\ p \in {PageAt("registration"), PageAt("oidc")}
             /\ e.scope \in {"settings:manage", "captcha:manage", "oidc:manage"}
    BY <1>1, <1>2, <2>1, <2>2, <2>4, LeadsTo, PagesApart
  <2>5. CASE p = PageAt("traffic") /\ e.scope = "settings:manage"
    BY <1>1, <1>2, <2>1, <2>2, <2>5, LeadsTo, PagesApart
  <2>6. CASE p = PageAt("analytics") /\ e.scope \in {"settings:manage", "analytics:manage"}
    BY <1>1, <1>2, <2>1, <2>2, <2>6, LeadsTo, PagesApart
  <2>7. CASE p \in {Overview!Users, PageAt("roles")} /\ e.scope \in {"users:manage", "roles:manage"}
    <3>1. PICK d \in Overview!Visible(Overview!Categories, scopes) :
              d.path \in {Overview!Users, PageAt("roles")}
      BY <1>1, <1>3, <1>6, <2>1, <2>2, <2>7
    <3> QED
      BY <2>7, <3>1, LeadsTo
  <2> QED
    BY <1>1, <2>3, <2>4, <2>5, <2>6, <2>7, SearchFinds DEF p
<1>8. ASSUME NEW t \in Overview!Tabs, t.path = p PROVE Overview!May(t, scopes)
  <2>1. \E x \in t.scopes : x \in scopes
    <3>1. CASE t \in {Overview!Entry(PageAt("links"), {"settings:manage"}),
                      Overview!Entry(SubAt("redirects"), {"settings:manage"}),
                     Overview!Entry(SubAt("maintenance"), {"settings:manage"})}
      BY <1>1, <1>8, <3>1, SearchFinds, EntryOf, PagesApart DEF p
    <3>2. CASE t = Overview!Entry(PageAt("registration"), {"settings:manage", "captcha:manage"})
      BY <1>1, <1>8, <3>2, SearchFinds, EntryOf, PagesApart DEF p
    <3>3. CASE t = Overview!Entry(PageAt("oidc"), {"oidc:manage"})
      BY <1>1, <1>8, <3>3, SearchFinds, EntryOf, PagesApart DEF p
    <3>4. CASE t = Overview!Entry(Overview!Users, {"users:manage"})
      BY <1>1, <1>8, <3>4, SearchFinds, EntryOf, PagesApart DEF p
    <3>5. CASE t = Overview!Entry(PageAt("roles"), {"roles:manage"})
      BY <1>1, <1>8, <3>5, SearchFinds, EntryOf, PagesApart DEF p
    <3> QED
      BY <3>1, <3>2, <3>3, <3>4, <3>5, TablesAre
  <2> QED
    BY <2>1 DEF Overview!May
<1> QED
  BY <1>4, <1>7, <1>8 DEF Overview!Reachable, p

LEMMA SearchShown == Overview!SearchIsReachable
<1>1. ASSUME NEW e \in Overview!Screen(ui).results PROVE Overview!Reachable(e.path, ui.scopes)
  <2> DEFINE r == IF ui.query /\ ui.known THEN Overview!VisibleSearchEntries(ui.scopes) ELSE {}
  <2>1. Overview!Screen(ui).results = r
    BY DEF Overview!Screen
  <2>2. e \in Overview!VisibleSearchEntries(ui.scopes)
    BY <1>1, <2>1
  <2> QED
    BY <2>2, SearchReaches
<1> QED
  BY <1>1, Zenon DEF Overview!SearchIsReachable

\* A page shows the answer to what its controls ask, and to nothing asked before it:
\* the parts of the statistics, the link that is edited, the summary of the settings
\* and what its search finds, the selection of links and the language
\* (stats/page.tsx:119-182, edit/page.tsx:56-81, settings/page.tsx:33-66,
\* links/page.tsx:123-125, locale-switcher.tsx).
THEOREM ShownIsAskedAlways == Spec => []ShownIsAsked
<1> DEFINE I == /\ page = "stats" => StatsInv
                /\ page = "editLink" => EditLinkInv
                /\ page = "settings" => OverviewInv
                /\ page = "links" => ListInv
                /\ page = "language" => LanguageInv
<1>1. Init => I
  BY Mounts, StatsInit, EditLinkInit, HomeInit, ListInit, LanguageInit
<1>2. I /\ [Next]_vars => I'
  BY Steps, StatsNext, EditLinkNext, OverviewNext, ListNext, LanguageNext DEF ListGoes
<1>3. I => ShownIsAsked
  <2>1. StatsInv => Stats!ShownIsAsked /\ Stats!LogPageExists
    BY DEF StatsInv, StatsUi, Stats!LogPageExists
  <2>2. EditLinkInv => EditLink!LastAsked
    BY DEF EditLinkInv, Open, EditLink!LastAsked, EditLink!Cancelled
  <2>3. OverviewInv => Overview!SummaryIsOfThisLoad /\ Overview!SearchIsReachable
    BY OverviewShown, SearchShown
  <2>4. ListInv => LinkList!SelectionOnScreen
    BY DEF ListInv, ListUi, LinkList!SelectionOnScreen
  <2> QED
    BY <2>1, <2>2, <2>3, <2>4, LanguageShown DEF ShownIsAsked
<1> QED
  BY <1>1, <1>2, <1>3, PTL DEF Spec

-----------------------------------------------------------------------------
(* The form for an existing link: it is of what was loaded and typed.       *)
Records == [link : LinksOf(EditTexts), expiry : {"never", "midnight", "noon"}]
EditUi ==
    [known : BOOLEAN, form : FormsOf(EditTexts \cup {Blank}), expires : {Blank, "day"}, domains : {{}, ShortDomains},
     error : BOOLEAN, loading : BOOLEAN, saving : BOOLEAN, checking : BOOLEAN, checked : BOOLEAN, left : BOOLEAN,
     asked : Nat, shown : Nat]
GetCalls == CallsOf("get", [n : Nat], {"load"} \X Nat, Answered(Records))
PickerCalls == CallsOf("config", {[n |-> 0]}, {EditLink!Effect}, Answered({}))
CheckCalls == CallsOf("check", {[n |-> 0]}, {EditLink!Effect}, Answered({}))
StoreCalls == CallsOf("update", Records, {EditLink!Effect}, Answered(Records))
EditCalls == GetCalls \cup PickerCalls \cup CheckCalls \cup StoreCalls
EditTypes ==
    /\ ui \in EditUi /\ ui.shown <= ui.asked
    /\ db \in Records /\ calls \in Seq(EditCalls)

LEMMA EditKinds ==
    ASSUME NEW c \in EditCalls PROVE (c.op = "get" => c \in GetCalls) /\ (c.op = "update" => c \in StoreCalls)
BY CallHas DEF EditCalls, GetCalls, PickerCalls, CheckCalls, StoreCalls

LEMMA EditGetHas == ASSUME NEW c \in GetCalls PROVE c.then[2] \in Nat
<1>1. c.then \in {"load"} \X Nat
  BY CallHas DEF GetCalls
<1> QED
  BY <1>1

LEMMA EditGetSent == ASSUME NEW n \in Nat PROVE EditLink!LoadCall(n) \in EditCalls
<1>1. [n |-> n] \in [n : Nat] /\ <<"load", n>> \in {"load"} \X Nat
  OBVIOUS
<1>2. EditLink!LoadCall(n) \in GetCalls
  BY <1>1, CallSent DEF EditLink!LoadCall, EditLink!Call, EditLink!Refused, GetCalls
<1> QED
  BY <1>2 DEF EditCalls

LEMMA PickerSent == EditLink!Get("config", EditLink!Effect) \in EditCalls
<1>1. EditLink!Get("config", EditLink!Effect) \in PickerCalls
  BY CallSent DEF EditLink!Get, EditLink!Call, EditLink!Refused, PickerCalls
<1> QED
  BY <1>1 DEF EditCalls

LEMMA CheckSent == EditLink!Get("check", EditLink!Effect) \in EditCalls
<1>1. EditLink!Get("check", EditLink!Effect) \in CheckCalls
  BY CallSent DEF EditLink!Get, EditLink!Call, EditLink!Refused, CheckCalls
<1> QED
  BY <1>1 DEF EditCalls

LEMMA EditTypesInit == ASSUME EditLink!Init PROVE EditTypes
<1>1. ui = EditLink!Mounted /\ calls = <<EditLink!LoadCall(1)>>
  BY Zenon DEF EditLink!Init
<1>2. calls \in Seq(EditCalls)
  BY <1>1, EditGetSent
<1>3. db \in Records
  <2>2. PICK x \in EditTexts \ {Blank}, n \in {0, 9}, e \in EditLink!Expiries :
            db = [link |-> [text |-> x, domain |-> Blank, seconds |-> n, rules |-> <<>>], expiry |-> e]
    BY Zenon DEF EditLink!Init, Blank
  <2>3. [text |-> x, domain |-> Blank, seconds |-> n, rules |-> <<>>] \in LinksOf(EditTexts)
    BY NoRules DEF LinksOf
  <2> QED
    BY <2>2, <2>3 DEF Records, EditLink!Expiries
<1>4. ui = [known |-> FALSE, form |-> [text |-> Blank, domain |-> Blank, on |-> FALSE, seconds |-> 2, rules |-> <<>>],
            expires |-> Blank, domains |-> {}, error |-> FALSE, loading |-> TRUE,
            saving |-> FALSE, checking |-> FALSE, checked |-> FALSE, left |-> FALSE, asked |-> 1, shown |-> 0]
  BY <1>1, Zenon DEF EditLink!Mounted, EditLink!Unhydrated, Blank
<1>5. [text |-> Blank, domain |-> Blank, on |-> FALSE, seconds |-> 2, rules |-> <<>>] \in FormsOf(EditTexts \cup {Blank})
  BY NoRules DEF FormsOf
<1>6. ui \in EditUi /\ ui.shown <= ui.asked
  BY <1>4, <1>5 DEF EditUi
<1> QED
  BY <1>2, <1>3, <1>6 DEF EditTypes

LEMMA EditTypesServe == ASSUME EditTypes, NEW i \in DOMAIN calls, EditLink!Serve(i) PROVE EditTypes'
<1> DEFINE c == calls[i]
<1>1. calls \in Seq(EditCalls) /\ c \in EditCalls /\ ui' = ui /\ db \in Records
  BY DEF EditTypes, EditLink!Serve
<1>2. CASE c.op = "get"
  <2>1. c \in GetCalls /\ GetCalls \subseteq EditCalls
    BY <1>1, <1>2, EditKinds DEF EditCalls
  <2>2. calls' = Answer(calls, i, EditLink!Ok(db)) /\ db' = db
    BY <1>2 DEF EditLink!Serve, EditLink!Served, Answer
  <2>3. EditLink!Ok(db) \in Answered(Records)
    BY <1>1, AnswerIs DEF EditLink!Ok
  <2> HIDE DEF c
  <2>4. calls' \in Seq(EditCalls)
    BY <1>1, <2>1, <2>2, <2>3, ServeKeeps DEF GetCalls, c
  <2> QED
    BY <1>1, <2>2, <2>4 DEF EditTypes
<1>3. CASE c.op = "update"
  <2>1. c \in StoreCalls /\ StoreCalls \subseteq EditCalls
    BY <1>1, <1>3, EditKinds DEF EditCalls
  <2>2. c.arg \in Records
    BY <2>1, CallHas, Zenon DEF StoreCalls
  <2>3. PICK res : /\ calls' = EditLink!Served(i, res) /\ db' \in {db, c.arg}
                   /\ res = EditLink!Ok(c.arg) \/ res = EditLink!Refused("refused")
    BY <1>3 DEF EditLink!Serve
  <2>4. calls' = Answer(calls, i, res)
    BY <2>3, Zenon DEF EditLink!Served, Answer
  <2>5. res \in Answered(Records)
    BY <2>2, <2>3, AnswerIs DEF EditLink!Ok, EditLink!Refused, Codes
  <2> HIDE DEF c
  <2>6. calls' \in Seq(EditCalls)
    BY <1>1, <2>1, <2>4, <2>5, ServeKeeps DEF StoreCalls, c
  <2> QED
    BY <1>1, <2>2, <2>3, <2>6 DEF EditTypes
<1> QED
  BY <1>2, <1>3 DEF EditLink!Serve

LEMMA HydratedForm ==
    ASSUME NEW l \in LinksOf(EditTexts) PROVE EditLink!Hydrated(l) \in FormsOf(EditTexts \cup {Blank})
BY DEF EditLink!Hydrated, LinksOf, FormsOf

LEMMA EditTypesDeliver == ASSUME EditTypes, NEW i \in DOMAIN calls, EditLink!Deliver(i) PROVE EditTypes'
<1> DEFINE rest == EditLink!Rest(i)
<1>1. /\ calls \in Seq(EditCalls) /\ calls[i] \in EditCalls /\ db' = db /\ db \in Records
      /\ ui \in EditUi /\ ui.shown <= ui.asked
  BY DEF EditTypes, EditLink!Deliver
<1>2. rest \in Seq(EditCalls)
  BY <1>1, WithoutOne DEF EditLink!Rest, EditLink!Without, Without
<1> HIDE DEF rest
<1>3. CASE EditLink!DeliverGet(i)
  <2> DEFINE n == calls[i].then[2]
  <2>1. calls[i] \in GetCalls /\ n \in Nat
    BY <1>1, <1>3, EditKinds, EditGetHas DEF EditLink!DeliverGet
  <2>2. PICK a \in EditLink!Answers(i) :
            \/ ui' = ui /\ calls' = rest
            \/ /\ n = ui.asked /\ ui' = EditLink!Loaded(n, a)
               /\ calls' = Append(rest, EditLink!Get("config", EditLink!Effect)) \/ calls' = rest
    BY <1>3, Zenon DEF EditLink!DeliverGet, EditLink!Show, EditLink!Then, EditLink!Cancelled, rest
  <2>3. a.ok \in BOOLEAN /\ (a.ok = TRUE => a.data \in Records)
    BY <2>1, <2>2, HandedOver, Zenon DEF GetCalls, EditLink!Answers, EditLink!NetworkError, EditLink!Refused
  <2>4. calls' \in Seq(EditCalls)
    BY <1>2, <2>2, PickerSent
  <2> HIDE DEF n
  <2>5. CASE n = ui.asked /\ ui' = EditLink!Loaded(n, a)
    <3>1. CASE a.ok = TRUE
      <4> DEFINE f == EditLink!Hydrated(a.data.link)
                 e == EditLink!ExpiryField(a.data.expiry)
      <4>1. ui' = [ui EXCEPT !.known = TRUE, !.form = f, !.shown = n, !.expires = e, !.loading = FALSE]
        BY <2>5, <3>1 DEF EditLink!Loaded
      <4>2. f \in FormsOf(EditTexts \cup {Blank})
        BY <2>3, <3>1, HydratedForm DEF Records
      <4>3. e \in {Blank, "day"}
        BY Zenon DEF EditLink!ExpiryField, Blank
      <4> HIDE DEF f, e
      <4>4. ui' \in EditUi /\ ui'.shown = n /\ ui'.asked = ui.asked
        BY <1>1, <2>1, <4>1, <4>2, <4>3 DEF EditUi
      <4> QED
        BY <1>1, <2>1, <2>4, <2>5, <4>4 DEF EditTypes
    <3>2. CASE a.ok = FALSE
      <4>1. ui' = [ui EXCEPT !.error = TRUE, !.shown = n, !.loading = FALSE]
        BY <2>5, <3>2 DEF EditLink!Loaded
      <4>2. ui' \in EditUi /\ ui'.shown = n /\ ui'.asked = ui.asked
        BY <1>1, <2>1, <4>1 DEF EditUi
      <4> QED
        BY <1>1, <2>1, <2>4, <2>5, <4>2 DEF EditTypes
    <3> QED
      BY <2>3, <3>1, <3>2
  <2> QED
    BY <1>1, <2>2, <2>4, <2>5 DEF EditTypes
<1>4. CASE EditLink!DeliverConfig(i)
  <2>1. PICK domains \in {{}, ShortDomains} : ui' = [ui EXCEPT !.domains = domains] /\ calls' = rest
    BY <1>4 DEF EditLink!DeliverConfig, EditLink!Show, rest
  <2>2. ui' \in EditUi /\ ui'.shown = ui.shown /\ ui'.asked = ui.asked
    BY <1>1, <2>1 DEF EditUi
  <2> QED
    BY <1>1, <1>2, <2>1, <2>2 DEF EditTypes
<1>5. CASE EditLink!DeliverCheck(i)
  <2>1. PICK reached \in BOOLEAN, error \in BOOLEAN :
            /\ ui' = [ui EXCEPT !.checking = FALSE, !.checked = @ \/ reached, !.error = @ \/ error]
            /\ calls' = rest
    BY <1>5 DEF EditLink!DeliverCheck, EditLink!Show, rest
  <2>2. (ui.checked \/ reached) \in BOOLEAN /\ (ui.error \/ error) \in BOOLEAN
    OBVIOUS
  <2>3. ui' \in EditUi /\ ui'.shown = ui.shown /\ ui'.asked = ui.asked
    BY <1>1, <2>1, <2>2 DEF EditUi
  <2> QED
    BY <1>1, <1>2, <2>1, <2>3 DEF EditTypes
<1>6. CASE EditLink!DeliverUpdate(i)
  <2>1. /\ \/ ui' = [ui EXCEPT !.left = TRUE, !.saving = FALSE]
           \/ ui' = [ui EXCEPT !.error = TRUE, !.saving = FALSE]
        /\ calls' = rest
    BY <1>6 DEF EditLink!DeliverUpdate, EditLink!Show, rest
  <2>2. ui' \in EditUi /\ ui'.shown = ui.shown /\ ui'.asked = ui.asked
    BY <1>1, <2>1 DEF EditUi
  <2> QED
    BY <1>1, <1>2, <2>1, <2>2 DEF EditTypes
<1> QED
  BY <1>3, <1>4, <1>5, <1>6 DEF EditLink!Deliver

LEMMA EditTypesClick == ASSUME EditTypes, EditLink!Click PROVE EditTypes'
<1>1. /\ calls \in Seq(EditCalls) /\ db' = db /\ db \in Records /\ ui \in EditUi /\ ui.shown <= ui.asked
      /\ ui.form \in FormsOf(EditTexts \cup {Blank}) /\ ui.domains \in {{}, ShortDomains}
      /\ ui.asked \in Nat /\ ui.shown \in Nat
  BY DEF EditTypes, EditLink!Click, EditUi
<1>2. ASSUME EditLink!Edit PROVE EditTypes'
  <2>1. \/ \E f \in EditLink!Edits(ui.form, EditTexts, ui.domains) : ui' = [ui EXCEPT !.form = f] /\ calls' = calls
        \/ \E e \in {Blank, "day"} : ui' = [ui EXCEPT !.expires = e] /\ calls' = calls
    BY <1>2, Zenon DEF EditLink!Edit, EditLink!Set, Blank
  <2>2. ASSUME NEW f \in EditLink!Edits(ui.form, EditTexts, ui.domains), ui' = [ui EXCEPT !.form = f], calls' = calls
        PROVE  EditTypes'
    <3>1. f \in NewLink!Edits(ui.form, EditTexts, ui.domains)
      BY <2>2, SameEdits
    <3> DEFINE texts == EditTexts \cup {Blank}
    <3>2. EditTexts \subseteq texts
      OBVIOUS
    <3> HIDE DEF texts
    <3>3. f \in FormsOf(texts)
      BY <1>1, <3>1, <3>2, LinkFormEdited DEF texts
    <3>4. ui' \in EditUi /\ ui'.shown = ui.shown /\ ui'.asked = ui.asked
      BY <1>1, <2>2, <3>3 DEF EditUi, texts
    <3> QED
      BY <1>1, <2>2, <3>4 DEF EditTypes
  <2>3. ASSUME NEW e \in {Blank, "day"}, ui' = [ui EXCEPT !.expires = e], calls' = calls PROVE EditTypes'
    <3>1. ui' \in EditUi /\ ui'.shown = ui.shown /\ ui'.asked = ui.asked
      BY <1>1, <2>3 DEF EditUi
    <3> QED
      BY <1>1, <2>3, <3>1 DEF EditTypes
  <2> QED
    BY <2>1, <2>2, <2>3
<1>3. ASSUME EditLink!Submit PROVE EditTypes'
  <2> DEFINE arg == [link |-> EditLink!LinkOf(ui.form), expiry |-> EditLink!ExpirySent(ui.expires)]
             call == EditLink!Call("update", arg, EditLink!Effect)
  <2>1. ui' = [ui EXCEPT !.saving = TRUE, !.error = FALSE] /\ calls' = Append(calls, call) /\ ui.form.text # Blank
    BY <1>3, Zenon DEF EditLink!Submit, EditLink!Send, Blank
  <2>2. arg \in Records
    <3>1. EditLink!LinkOf(ui.form) \in LinksOf(EditTexts \cup {Blank}) /\ EditLink!LinkOf(ui.form).text # Blank
      BY <1>1, <2>1, LinkSent
    <3>2. EditLink!LinkOf(ui.form) \in LinksOf(EditTexts)
      BY <3>1 DEF LinksOf
    <3>3. EditLink!ExpirySent(ui.expires) \in {"never", "midnight", "noon"}
      BY DEF EditLink!ExpirySent
    <3> QED
      BY <3>2, <3>3 DEF Records
  <2> HIDE DEF arg
  <2>3. call \in StoreCalls
    BY <2>2, CallSent DEF EditLink!Call, EditLink!Refused, StoreCalls
  <2> HIDE DEF call
  <2>4. calls' \in Seq(EditCalls)
    BY <1>1, <2>1, <2>3 DEF EditCalls
  <2>5. ui' \in EditUi /\ ui'.shown = ui.shown /\ ui'.asked = ui.asked
    BY <1>1, <2>1 DEF EditUi
  <2> QED
    BY <1>1, <2>4, <2>5 DEF EditTypes
<1>4. ASSUME EditLink!CheckNow PROVE EditTypes'
  <2>1. /\ ui' = [ui EXCEPT !.checking = TRUE, !.error = FALSE]
        /\ calls' = Append(calls, EditLink!Get("check", EditLink!Effect))
    BY <1>4 DEF EditLink!CheckNow, EditLink!Send
  <2>2. calls' \in Seq(EditCalls)
    BY <1>1, <2>1, CheckSent
  <2>3. ui' \in EditUi /\ ui'.shown = ui.shown /\ ui'.asked = ui.asked
    BY <1>1, <2>1 DEF EditUi
  <2> QED
    BY <1>1, <2>2, <2>3 DEF EditTypes
<1>5. ASSUME EditLink!ChangeLanguage PROVE EditTypes'
  <2>1. ui' = [ui EXCEPT !.asked = ui.asked + 1] /\ calls' = Append(calls, EditLink!LoadCall(ui.asked + 1))
    BY <1>5 DEF EditLink!ChangeLanguage, EditLink!Send
  <2>2. calls' \in Seq(EditCalls)
    BY <1>1, <2>1, EditGetSent
  <2>3. ui' \in EditUi /\ ui'.shown = ui.shown /\ ui'.asked = ui.asked + 1
    BY <1>1, <2>1 DEF EditUi
  <2> QED
    BY <1>1, <2>2, <2>3 DEF EditTypes
<1>6. ASSUME EditLink!Cancel PROVE EditTypes'
  <2>1. ui' = [ui EXCEPT !.left = TRUE] /\ calls' = calls
    BY <1>6 DEF EditLink!Cancel, EditLink!Set
  <2>2. ui' \in EditUi /\ ui'.shown = ui.shown /\ ui'.asked = ui.asked
    BY <1>1, <2>1 DEF EditUi
  <2> QED
    BY <1>1, <2>1, <2>2 DEF EditTypes
<1> QED
  BY <1>2, <1>3, <1>4, <1>5, <1>6 DEF EditLink!Click

LEMMA EditTypesNext == ASSUME EditTypes, EditLink!Next \/ Still PROVE EditTypes'
<1>1. ASSUME Still PROVE EditTypes'
  BY <1>1 DEF EditTypes, Still
<1>2. ASSUME NEW x \in EditTexts, EditLink!OtherEdit(x) PROVE EditTypes'
  <2>1. db' = [db EXCEPT !.link.text = x] /\ ui' = ui /\ calls' = calls
    BY <1>2 DEF EditLink!OtherEdit
  <2>2. db' \in Records
    BY <2>1 DEF EditTypes, Records, LinksOf
  <2> QED
    BY <2>1, <2>2 DEF EditTypes
<1> QED
  BY <1>1, <1>2, EditTypesServe, EditTypesDeliver, EditTypesClick DEF EditLink!Next

LEMMA EditTyped == ASSUME EditTypes PROVE EditLink!TypeOK
<1>1. /\ ui \in EditUi /\ ui.shown <= ui.asked /\ db.link.text \in EditTexts
      /\ db.expiry \in {"never", "midnight", "noon"}
  BY DEF EditTypes, Records, LinksOf
<1>2. /\ ui.form \in FormsOf(EditTexts \cup {Blank}) /\ ui.expires \in {Blank, "day"} /\ ui.domains \in {{}, ShortDomains}
      /\ {ui.known, ui.error, ui.loading, ui.saving, ui.checking, ui.checked, ui.left} \subseteq BOOLEAN
  BY <1>1 DEF EditUi
<1>3. ui.form \in EditLink!Forms(EditTexts \cup {Blank})
  BY <1>2, SameForms
<1> QED
  BY <1>1, <1>2, <1>3, Zenon DEF EditLink!TypeOK, EditLink!Expiries, Blank

-----------------------------------------------------------------------------
(* The list of links: what is shown, what is asked for and what is on its   *)
(* way is of links that there are.                                          *)
Places == 0 .. Cardinality(LinkIds)
ListErrors == {Blank, "load", "delete", "bulk", "import", "export", "skipped", "needs value"}
ListedLinks == [rows : Seq(LinkIds), total : Places]
ListUiTyped(u) ==
    /\ DOMAIN u = ListFields
    /\ u.rows \in Seq(LinkIds) /\ u.total \in Places /\ u.page \in Places
    /\ u.rowDel \in [LinkIds -> LinkList!ButtonStates] /\ u.bulkDel \in LinkList!ButtonStates
    /\ u.error \in ListErrors
    /\ u.loading \in BOOLEAN /\ u.busy \in BOOLEAN /\ u.report \in BOOLEAN /\ u.typing \in BOOLEAN /\ u.value \in BOOLEAN
ListCallTyped(c) ==
    /\ c.op = "list" => c.arg.page \in Places
    /\ c.op \in {"remove", "bulk", "import"} => c.arg.asked.page \in Places
    /\ c.res.ok \in BOOLEAN
    /\ c.op = "list" /\ c.st = "served" /\ c.res.ok = TRUE => c.res.data \in ListedLinks
ListCallsTyped(cs) == InFlight(cs) /\ \A k \in DOMAIN cs : ListCallTyped(cs[k])
ListTypes ==
    ListUiTyped(ui) /\ db \in [LinkIds -> LinkList!LinkStates] /\ ListCallsTyped(calls)

LEMMA SameCardinalityOfLinks == ASSUME NEW S PROVE LinkList!Cardinality(S) = Cardinality(S)
BY DEF LinkList!Cardinality, Cardinality

LEMMA PlacesAre == Cardinality(LinkIds) \in Nat /\ 0 \in Places
<1>1. Cardinality(LinkIds) \in Nat
  BY FS_CardinalityType, ListsAssumption
<1> QED
  BY <1>1 DEF Places

LEMMA ListTypesRest ==
    ASSUME NEW cs, ListCallsTyped(cs), NEW i \in DOMAIN cs PROVE ListCallsTyped(Without(cs, i))
BY InFlightRest DEF ListCallsTyped

LEMMA ListTypesAppend ==
    ASSUME NEW cs, ListCallsTyped(cs), NEW op, NEW arg, NEW then,
           op = "list" => arg.page \in Places,
           op \in {"remove", "bulk", "import"} => arg.asked.page \in Places
    PROVE  ListCallsTyped(Append(cs, LinkList!Call(op, arg, then)))
<1> DEFINE c == LinkList!Call(op, arg, then)
<1>1. DOMAIN c = CallFields
  BY DEF LinkList!Call, CallFields
<1>2. ListCallTyped(c)
  BY DEF LinkList!Call, LinkList!Refused, ListCallTyped
<1> HIDE DEF c
<1>3. /\ InFlight(Append(cs, c)) /\ \A k \in DOMAIN cs : Append(cs, c)[k] = cs[k]
      /\ \A k \in DOMAIN Append(cs, c) : k \in DOMAIN cs \/ Append(cs, c)[k] = c
  BY <1>1, InFlightAppend DEF ListCallsTyped
<1>4. ASSUME NEW k \in DOMAIN Append(cs, c) PROVE ListCallTyped(Append(cs, c)[k])
  BY <1>2, <1>3 DEF ListCallsTyped
<1>5. ListCallsTyped(Append(cs, c))
  BY <1>3, <1>4 DEF ListCallsTyped
<1> QED
  BY <1>5 DEF c

\* The page is drawn, and the list asked for if what it is of has changed.
LEMMA ListLoadTyped ==
    ASSUME NEW u, ListUiTyped(u), NEW cs, ListCallsTyped(cs), NEW asked, asked.page \in Places, NEW then
    PROVE  LET l == LinkList!Load(u, cs, asked, then) IN ListUiTyped(l.u) /\ ListCallsTyped(l.cs)
<1> DEFINE v == [u EXCEPT !.loading = TRUE]
           c == LinkList!Call("list", asked, then)
           l == LinkList!Load(u, cs, asked, then)
<1>1. l = [u |-> v, cs |-> Append(cs, c)]
  BY Zenon DEF LinkList!Load
<1>2. ListUiTyped(v)
  BY DEF ListUiTyped, ListFields
<1>3. ListCallsTyped(Append(cs, c))
  BY ListTypesAppend
<1> HIDE DEF v, c, l
<1> QED
  BY <1>1, <1>2, <1>3 DEF l

LEMMA ListShowTyped ==
    ASSUME NEW u, ListUiTyped(u), NEW cs, ListCallsTyped(cs), LinkList!Show(LinkList!Render(u, cs))
    PROVE  ListUiTyped(ui') /\ ListCallsTyped(calls')
<1> DEFINE l == LinkList!Load(u, cs, LinkList!Asked(u), LinkList!Effect)
<1>1. \/ ui' = u /\ calls' = cs
      \/ ui' = l.u /\ calls' = l.cs
  BY DEF LinkList!Show, LinkList!Render
<1>2. LinkList!Asked(u).page \in Places
  BY DEF LinkList!Asked, ListUiTyped
<1>3. ListUiTyped(l.u) /\ ListCallsTyped(l.cs)
  BY <1>2, ListLoadTyped
<1> HIDE DEF l
<1> QED
  BY <1>1, <1>3

LEMMA ListDrawTyped ==
    ASSUME NEW u, ListUiTyped(u), NEW cs, ListCallsTyped(cs), LinkList!Draw(u, cs)
    PROVE  ListUiTyped(ui') /\ ListCallsTyped(calls')
<1> DEFINE b == IF u.selected = {} \/ u.action # "delete" THEN "closed" ELSE u.bulkDel
           r == [id \in LinkIds |-> IF id \in LinkList!Rows(u) THEN u.rowDel[id] ELSE "closed"]
           v == LinkList!Trim(u)
<1>1. v = [u EXCEPT !.bulkDel = b, !.rowDel = r]
  BY DEF LinkList!Trim
<1>2. b \in LinkList!ButtonStates /\ r \in [LinkIds -> LinkList!ButtonStates]
  BY DEF ListUiTyped, LinkList!ButtonStates
<1> HIDE DEF b, r, v
<1>3. ListUiTyped(v)
  BY <1>1, <1>2 DEF ListUiTyped, ListFields
<1>4. LinkList!Show(LinkList!Render(v, cs))
  BY Zenon DEF LinkList!Draw, v
<1> QED
  BY <1>3, <1>4, ListShowTyped

LEMMA ListTypesInit == ASSUME LinkList!Init PROVE ListTypes
<1> DEFINE asked == LinkList!Asked(LinkList!Mounted)
           c == LinkList!Call("list", asked, LinkList!Effect)
<1>1. ui = LinkList!Mounted /\ calls = <<c>> /\ db \in [LinkIds -> {"active", "unborn"}]
  BY Zenon DEF LinkList!Init
<1>2. PICK filter : LinkList!Mounted =
          [rows |-> <<>>, total |-> 0, page |-> 0, loading |-> TRUE, error |-> Blank, filter |-> filter,
           search |-> Blank, typing |-> TRUE, busy |-> FALSE, report |-> FALSE, selected |-> {},
           action |-> "disable", value |-> FALSE, bulkDel |-> "closed", rowDel |-> LinkList!NoneArmed]
  BY Zenon DEF LinkList!Mounted, Blank
<1>3. LinkList!NoneArmed \in [LinkIds -> LinkList!ButtonStates] /\ "closed" \in LinkList!ButtonStates
  BY DEF LinkList!NoneArmed, LinkList!ButtonStates
<1>4. ListUiTyped(ui)
  BY <1>1, <1>2, <1>3, PlacesAre DEF ListUiTyped, ListFields, ListErrors
<1>5. asked.page \in Places
  BY <1>2, PlacesAre DEF LinkList!Asked
<1>6. InFlight(<<>>) /\ DOMAIN <<>> = {}
  <2>1. PICK S : S = {}
    OBVIOUS
  <2>2. <<>> \in Seq(S) /\ (\A x \in S : DOMAIN x = CallFields) /\ DOMAIN <<>> = {}
    BY <2>1
  <2> QED
    BY <2>2, InFlightSeq
<1>7. ListCallsTyped(Append(<<>>, c))
  BY <1>5, <1>6, ListTypesAppend DEF ListCallsTyped
<1>8. <<c>> = Append(<<>>, c)
  OBVIOUS
<1> HIDE DEF c
<1>9. db \in [LinkIds -> LinkList!LinkStates]
  BY <1>1 DEF LinkList!LinkStates
<1> QED
  BY <1>1, <1>4, <1>7, <1>8, <1>9 DEF ListTypes

\* A list of distinct links is no longer than they are.
LEMMA LinksListed ==
    ASSUME NEW S, S \subseteq LinkIds, NEW s \in [1 .. LinkList!Cardinality(S) -> S]
    PROVE  s \in Seq(LinkIds) /\ Len(s) \in Places
<1>1. Cardinality(S) \in Nat /\ Cardinality(S) <= Cardinality(LinkIds)
  BY FS_Subset, FS_CardinalityType, ListsAssumption
<1>2. s \in [1 .. Cardinality(S) -> S]
  BY SameCardinalityOfLinks
<1>3. s \in [1 .. Cardinality(S) -> LinkIds]
  BY <1>2
<1>4. s \in Seq(LinkIds) /\ Len(s) = Cardinality(S)
  BY <1>1, <1>3
<1> QED
  BY <1>1, <1>4, PlacesAre DEF Places

LEMMA ListServedIs ==
    ASSUME ListTypes, NEW i \in DOMAIN calls, LinkList!Serve(i)
    PROVE  /\ db' \in [LinkIds -> LinkList!LinkStates]
           /\ \E res : /\ calls' = Answer(calls, i, res) /\ res.ok \in BOOLEAN
                       /\ calls[i].op = "list" /\ res.ok = TRUE => res.data \in ListedLinks
<1> DEFINE c == calls[i]
<1>1. db \in [LinkIds -> LinkList!LinkStates] /\ ListCallTyped(c)
  BY DEF ListTypes, ListCallsTyped
<1>2. \A res : LinkList!Served(i, res) = Answer(calls, i, res)
  BY Zenon DEF LinkList!Served, Answer
<1>3. ASSUME NEW data PROVE LinkList!Ok(data).ok = TRUE /\ LinkList!Ok(data).data = data
  BY DEF LinkList!Ok
<1>4. CASE LinkList!ServeList(i)
  <2> DEFINE f == c.arg.filter
             wanted == {id \in LinkList!Live \cap LinkHits[f.text] : f.status \in {"all", db[id]}}
  <2>1. PICK all \in LinkList!Matching(f) :
            calls' = LinkList!Served(i, LinkList!Ok([rows |-> LinkList!Slice(all, c.arg.page), total |-> Len(all)]))
    BY <1>4, Zenon DEF LinkList!ServeList
  <2>2. db' = db /\ c.arg.page \in Places
    BY <1>1, <1>4 DEF LinkList!ServeList, ListCallTyped
  <2>3. wanted \subseteq LinkIds
    BY DEF LinkList!Live
  <2>4. all \in LinkList!Descending(wanted) \/ all \in LinkList!Ascending(wanted)
    BY <2>1, Zenon DEF LinkList!Matching
  <2> HIDE DEF wanted
  <2>5. all \in [1 .. LinkList!Cardinality(wanted) -> wanted]
    BY <2>4, Zenon DEF LinkList!Descending, LinkList!Ascending
  <2>6. all \in Seq(LinkIds) /\ Len(all) \in Places
    BY <2>3, <2>5, LinksListed
  <2>7. c.arg.page \in Nat
    BY <2>2, PlacesAre DEF Places
  <2>8. LinkList!Slice(all, c.arg.page) \in Seq(LinkIds)
    BY <2>6, <2>7 DEF LinkList!Slice
  <2> DEFINE data == [rows |-> LinkList!Slice(all, c.arg.page), total |-> Len(all)]
  <2>9. data \in ListedLinks
    BY <2>6, <2>8 DEF ListedLinks
  <2>10. calls' = Answer(calls, i, LinkList!Ok(data))
    BY <1>2, <2>1, Zenon
  <2> HIDE DEF data, c
  <2>11. LinkList!Ok(data).ok = TRUE /\ LinkList!Ok(data).data \in ListedLinks
    BY <1>3, <2>9
  <2> QED
    BY <1>1, <2>2, <2>10, <2>11
<1> HIDE DEF c
<1>5. ASSUME NEW res, calls' = LinkList!Served(i, res), res.ok \in BOOLEAN, c.op # "list"
      PROVE  \E r : /\ calls' = Answer(calls, i, r) /\ r.ok \in BOOLEAN
                    /\ c.op = "list" /\ r.ok = TRUE => r.data \in ListedLinks
  BY <1>2, <1>5
<1>6. CASE LinkList!ServeRemove(i)
  <2> DEFINE id == c.arg.id
  <2>1. /\ c.op = "remove"
        /\ \/ calls' = LinkList!Served(i, LinkList!Ok([n |-> 1])) /\ db' = [db EXCEPT ![id] = "gone"]
           \/ calls' = LinkList!Served(i, LinkList!Refused("not_found")) /\ db' = db
    BY <1>6, Zenon DEF LinkList!ServeRemove, c
  <2>2. LinkList!Refused("not_found").ok = FALSE /\ LinkList!Ok([n |-> 1]).ok = TRUE
    BY DEF LinkList!Refused, LinkList!Ok
  <2> HIDE DEF id
  <2>3. db' \in [LinkIds -> LinkList!LinkStates]
    BY <1>1, <2>1 DEF LinkList!LinkStates
  <2>4. PICK res : calls' = LinkList!Served(i, res) /\ res.ok \in BOOLEAN
    BY <2>1, <2>2
  <2> QED
    BY <1>5, <2>1, <2>3, <2>4 DEF c
<1>7. CASE LinkList!ServeBulk(i)
  <2>1. /\ c.op = "bulk" /\ db' = LinkList!AfterBulk(c.arg.action, c.arg.ids)
        /\ \E data : calls' = LinkList!Served(i, LinkList!Ok(data))
    BY <1>7, Zenon DEF LinkList!ServeBulk, c
  <2>2. db' \in [LinkIds -> LinkList!LinkStates]
    BY <1>1, <2>1 DEF LinkList!AfterBulk, LinkList!LinkStates
  <2> QED
    BY <1>3, <1>5, <2>1, <2>2 DEF c
<1>8. CASE LinkList!ServeImport(i)
  <2>1. c.op = "import" /\ \E data : calls' = LinkList!Served(i, LinkList!Ok(data))
    BY <1>8, Zenon DEF LinkList!ServeImport, c
  <2>2. PICK created : db' = [id \in LinkIds |-> IF id \in created THEN "active" ELSE db[id]]
    BY <1>8, Zenon DEF LinkList!ServeImport
  <2>3. db' \in [LinkIds -> LinkList!LinkStates]
    BY <1>1, <2>2 DEF LinkList!LinkStates
  <2> QED
    BY <1>3, <1>5, <2>1, <2>3 DEF c
<1>9. CASE LinkList!ServeOther(i)
  <2>1. c.op # "list" /\ db' = db /\ calls' = LinkList!Served(i, LinkList!Ok([n |-> 0]))
    BY <1>9 DEF LinkList!ServeOther, c
  <2> QED
    BY <1>1, <1>3, <1>5, <2>1 DEF c
<1> QED
  BY <1>4, <1>6, <1>7, <1>8, <1>9 DEF LinkList!Serve

LEMMA ListTypesServe == ASSUME ListTypes, NEW i \in DOMAIN calls, LinkList!Serve(i) PROVE ListTypes'
<1>1. ListUiTyped(ui) /\ ListCallsTyped(calls) /\ ui' = ui
  BY DEF ListTypes, LinkList!Serve
<1>2. PICK res : /\ calls' = Answer(calls, i, res) /\ res.ok \in BOOLEAN
                 /\ calls[i].op = "list" /\ res.ok = TRUE => res.data \in ListedLinks
  BY ListServedIs
<1>3. /\ InFlight(calls') /\ DOMAIN calls' = DOMAIN calls
      /\ \A k \in DOMAIN calls : calls'[k].op = calls[k].op /\ calls'[k].arg = calls[k].arg
  BY <1>1, <1>2, InFlightAnswer DEF ListCallsTyped
<1>4. ASSUME NEW k \in DOMAIN calls PROVE ListCallTyped(calls'[k])
  <2>1. ListCallTyped(calls[k])
    BY <1>1 DEF ListCallsTyped
  <2>2. CASE k # i
    <3>1. calls'[k] = calls[k]
      BY <1>2, <2>2 DEF Answer
    <3> QED
      BY <2>1, <3>1
  <2>3. CASE k = i
    <3>1. DOMAIN calls[i] = CallFields
      BY <1>1 DEF ListCallsTyped, InFlight
    <3>2. calls'[i].res = res
      BY <1>2, <3>1 DEF Answer, CallFields
    <3> QED
      BY <1>2, <1>3, <2>1, <2>3, <3>2 DEF ListCallTyped
  <2> QED
    BY <2>2, <2>3
<1>5. ListCallsTyped(calls')
  BY <1>3, <1>4 DEF ListCallsTyped
<1> QED
  BY <1>1, <1>5, ListServedIs DEF ListTypes, ListUiTyped

LEMMA ListAnswersTyped ==
    ASSUME ListTypes, NEW i \in DOMAIN calls
    PROVE  /\ ListCallsTyped(LinkList!Rest(i))
           /\ \A a \in LinkList!Answers(i) : calls[i].op = "list" /\ a.ok = TRUE => a.data \in ListedLinks
<1>1. ListCallsTyped(calls) /\ ListCallTyped(calls[i])
  BY DEF ListTypes, ListCallsTyped
<1>2. LinkList!Rest(i) = Without(calls, i)
  BY Zenon DEF LinkList!Rest, LinkList!Without, Without
<1>3. LinkList!NetworkError.ok = FALSE
  BY DEF LinkList!NetworkError, LinkList!Refused
<1>4. \A a \in LinkList!Answers(i) : a = LinkList!NetworkError \/ (calls[i].st = "served" /\ a = calls[i].res)
  BY DEF LinkList!Answers
<1> QED
  BY <1>1, <1>2, <1>3, <1>4, ListTypesRest DEF ListCallTyped

LEMMA ListBackTyped == ASSUME NEW u, ListUiTyped(u) PROVE ListUiTyped(LinkList!StepBack(u))
<1> DEFINE p == IF u.page = 0 THEN 0 ELSE u.page - 1
<1>1. p \in Places
  BY PlacesAre DEF ListUiTyped, Places
<1>2. LinkList!StepBack(u) = [u EXCEPT !.page = p]
  BY Zenon DEF LinkList!StepBack
<1> HIDE DEF p
<1> QED
  BY <1>1, <1>2 DEF ListUiTyped, ListFields

\* Where confirmations go.
LEMMA ButtonsTyped ==
    ASSUME NEW b \in LinkList!ButtonStates
    PROVE  /\ LinkList!Succeeded(b) \in LinkList!ButtonStates /\ LinkList!Threw(b) \in LinkList!ButtonStates
           /\ LinkList!Escaped(b) \in LinkList!ButtonStates
           /\ b \in LinkList!CanOpen => LinkList!Opened(b) \in LinkList!ButtonStates
           /\ {"closed", "busy"} \subseteq LinkList!ButtonStates
BY DEF LinkList!ButtonStates, LinkList!Succeeded, LinkList!Threw, LinkList!Escaped, LinkList!CanOpen, LinkList!Opened

LEMMA ButtonTyped ==
    ASSUME NEW u, ListUiTyped(u), NEW id, NEW b, id \in LinkIds => b \in LinkList!ButtonStates
    PROVE  ListUiTyped([u EXCEPT !.rowDel[id] = b])
<1> DEFINE r == [u.rowDel EXCEPT ![id] = b]
<1>1. r \in [LinkIds -> LinkList!ButtonStates]
  BY DEF ListUiTyped
<1>2. [u EXCEPT !.rowDel[id] = b] = [u EXCEPT !.rowDel = r]
  OBVIOUS
<1> HIDE DEF r
<1> QED
  BY <1>1, <1>2 DEF ListUiTyped, ListFields

LEMMA ListSettleTyped == ASSUME NEW u, ListUiTyped(u), NEW then PROVE ListUiTyped(LinkList!Settle(u, then))
<1>1. CASE then[1] = "removed"
  <2> DEFINE b == LinkList!Succeeded(u.rowDel[then[2]])
             id == then[2]
  <2>1. LinkList!Settle(u, then) = [u EXCEPT !.rowDel[id] = b]
    BY <1>1 DEF LinkList!Settle
  <2>2. id \in LinkIds => b \in LinkList!ButtonStates
    BY ButtonsTyped DEF ListUiTyped
  <2> HIDE DEF b, id
  <2> QED
    BY <2>1, <2>2, ButtonTyped
<1>2. CASE then[1] = "bulk"
  <2> DEFINE b == LinkList!Succeeded(u.bulkDel)
             e == IF then[2] > 0 THEN "skipped" ELSE u.error
  <2>1. LinkList!Settle(u, then) = [u EXCEPT !.error = e, !.busy = FALSE, !.bulkDel = b]
    BY <1>2 DEF LinkList!Settle
  <2>2. b \in LinkList!ButtonStates
    BY ButtonsTyped DEF ListUiTyped
  <2>3. e \in ListErrors
    BY Zenon DEF ListUiTyped, ListErrors
  <2> HIDE DEF b, e
  <2> QED
    BY <2>1, <2>2, <2>3 DEF ListUiTyped, ListFields
<1>3. CASE then[1] = "imported"
  BY <1>3 DEF LinkList!Settle, ListUiTyped, ListFields
<1>4. CASE then[1] \notin {"removed", "bulk", "imported"}
  BY <1>4 DEF LinkList!Settle
<1> QED
  BY <1>1, <1>2, <1>3, <1>4

\* A handler's load, shown as it is.
LEMMA ListLoadsTyped ==
    ASSUME NEW u, ListUiTyped(u), NEW cs, ListCallsTyped(cs), NEW asked, asked.page \in Places, NEW then,
           LinkList!Show(LinkList!Load(u, cs, asked, then))
    PROVE  ListUiTyped(ui') /\ ListCallsTyped(calls')
<1> DEFINE l == LinkList!Load(u, cs, asked, then)
<1>1. ui' = l.u /\ calls' = l.cs
  BY DEF LinkList!Show
<1>2. ListUiTyped(l.u) /\ ListCallsTyped(l.cs)
  BY ListLoadTyped
<1> HIDE DEF l
<1> QED
  BY <1>1, <1>2

LEMMA ListTypesDeliver == ASSUME ListTypes, NEW i \in DOMAIN calls, LinkList!Deliver(i) PROVE ListTypes'
<1> DEFINE c == calls[i]
           rest == LinkList!Rest(i)
           asked == c.arg.asked
<1>1. ListUiTyped(ui) /\ ListCallTyped(c) /\ db' = db /\ db \in [LinkIds -> LinkList!LinkStates]
  BY DEF ListTypes, ListCallsTyped, LinkList!Deliver
<1>2. ListCallsTyped(rest)
  BY ListAnswersTyped
<1> SUFFICES ListUiTyped(ui') /\ ListCallsTyped(calls')
  BY <1>1 DEF ListTypes
<1>3. \A e \in {Blank, "load", "delete", "bulk", "import", "export"} : e \in ListErrors
  BY DEF ListErrors
<1>4. CASE LinkList!DeliverList(i)
  <2>1. PICK a \in LinkList!Answers(i) :
            \/ LinkList!Draw(LinkList!Loaded(ui, c, a), rest)
            \/ LinkList!Draw(LinkList!Loaded(ui, c, a), Append(rest, LinkList!Call("tags", [n |-> 0], c.then)))
    BY <1>4, Zenon DEF LinkList!DeliverList, LinkList!LoadTags
  <2>2. a.ok = TRUE => a.data \in ListedLinks
    BY <1>4, ListAnswersTyped DEF LinkList!DeliverList
  <2>3. ListCallsTyped(Append(rest, LinkList!Call("tags", [n |-> 0], c.then)))
    BY <1>2, ListTypesAppend
  <2> DEFINE done == [ui EXCEPT !.loading = FALSE]
  <2>4. ListUiTyped(done)
    BY <1>1 DEF ListUiTyped, ListFields
  <2>5. \/ LinkList!Loaded(ui, c, a) = [done EXCEPT !.error = "load"]
        \/ LinkList!Loaded(ui, c, a) = LinkList!StepBack(done)
        \/ a.ok = TRUE /\ LinkList!Loaded(ui, c, a) =
               [done EXCEPT !.rows = a.data.rows, !.total = a.data.total, !.error = Blank, !.selected = {}]
    BY Zenon DEF LinkList!Loaded, Blank
  <2> HIDE DEF done
  <2>6. ListUiTyped([done EXCEPT !.error = "load"])
    BY <1>3, <2>4 DEF ListUiTyped, ListFields
  <2>7. a.ok = TRUE => ListUiTyped([done EXCEPT !.rows = a.data.rows, !.total = a.data.total, !.error = Blank, !.selected = {}])
    <3>1. SUFFICES ASSUME a.data.rows \in Seq(LinkIds), a.data.total \in Places
                   PROVE  ListUiTyped([done EXCEPT !.rows = a.data.rows, !.total = a.data.total, !.error = Blank, !.selected = {}])
      BY <2>2 DEF ListedLinks
    <3> QED
      BY <1>3, <2>4, <3>1 DEF ListUiTyped, ListFields
  <2>8. ListUiTyped(LinkList!Loaded(ui, c, a))
    BY <2>4, <2>5, <2>6, <2>7, ListBackTyped
  <2> QED
    BY <1>2, <2>1, <2>3, <2>8, ListDrawTyped
<1>5. CASE LinkList!DeliverTags(i)
  <2>1. LinkList!Draw(LinkList!Settle(ui, c.then), rest)
    BY <1>5, Zenon DEF LinkList!DeliverTags
  <2> QED
    BY <1>1, <1>2, <2>1, ListSettleTyped, ListDrawTyped
<1> HIDE DEF rest
<1>6. CASE LinkList!DeliverRemove(i)
  <2> DEFINE id == c.arg.id
             b == LinkList!Threw(ui.rowDel[id])
             u == [ui EXCEPT !.error = "delete"]
  <2>1. \/ LinkList!Show(LinkList!Load(ui, rest, asked, <<"removed", id>>))
        \/ LinkList!Draw([ui EXCEPT !.error = "delete", !.rowDel[id] = b], rest)
    BY <1>6, Zenon DEF LinkList!DeliverRemove, rest
  <2>2. asked.page \in Places
    BY <1>1, <1>6 DEF LinkList!DeliverRemove, ListCallTyped
  <2>3. id \in LinkIds => b \in LinkList!ButtonStates
    BY <1>1, ButtonsTyped DEF ListUiTyped
  <2>4. ListUiTyped(u)
    BY <1>1, <1>3 DEF ListUiTyped, ListFields
  <2> HIDE DEF id, b
  <2>5. [ui EXCEPT !.error = "delete", !.rowDel[id] = b] = [u EXCEPT !.rowDel[id] = b]
    OBVIOUS
  <2> HIDE DEF u, asked
  <2>6. ListUiTyped([ui EXCEPT !.error = "delete", !.rowDel[id] = b])
    BY <2>3, <2>4, <2>5, ButtonTyped
  <2> QED
    BY <1>1, <1>2, <2>1, <2>2, <2>6, ListLoadsTyped, ListDrawTyped
<1>7. CASE LinkList!DeliverBulk(i)
  <2> DEFINE u == [ui EXCEPT !.value = FALSE]
             w == [ui EXCEPT !.error = "bulk"]
             v == LinkList!Settle(w, <<"bulk", 0>>)
  <2>1. \/ \E then : LinkList!Show(LinkList!Load(u, rest, asked, then))
        \/ LinkList!Draw(v, rest)
    BY <1>7, Zenon DEF LinkList!DeliverBulk, rest
  <2>2. asked.page \in Places
    BY <1>1, <1>7 DEF LinkList!DeliverBulk, ListCallTyped
  <2>3. ListUiTyped(u) /\ ListUiTyped(w)
    BY <1>1, <1>3 DEF ListUiTyped, ListFields
  <2> HIDE DEF u, w
  <2>4. ListUiTyped(v)
    BY <2>3, ListSettleTyped
  <2> HIDE DEF v, asked
  <2> QED
    BY <1>2, <2>1, <2>2, <2>3, <2>4, ListLoadsTyped, ListDrawTyped
<1>8. CASE LinkList!DeliverImport(i)
  <2> DEFINE u == [ui EXCEPT !.report = TRUE, !.page = 0]
             l == LinkList!Load(u, rest, asked, <<"imported", 0>>)
             v == [ui EXCEPT !.error = "import", !.busy = FALSE]
  <2>1. \/ LinkList!Show(LinkList!Render(l.u, l.cs))
        \/ LinkList!Draw(v, rest)
    BY <1>8, Zenon DEF LinkList!DeliverImport, rest
  <2>2. asked.page \in Places
    BY <1>1, <1>8 DEF LinkList!DeliverImport, ListCallTyped
  <2>3. ListUiTyped(u) /\ ListUiTyped(v)
    BY <1>1, <1>3, PlacesAre DEF ListUiTyped, ListFields
  <2> HIDE DEF u, v, asked
  <2>4. ListUiTyped(l.u) /\ ListCallsTyped(l.cs)
    BY <1>2, <2>2, <2>3, ListLoadTyped
  <2> HIDE DEF l
  <2> QED
    BY <1>2, <2>1, <2>3, <2>4, ListShowTyped, ListDrawTyped
<1>9. CASE LinkList!DeliverExport(i)
  <2> DEFINE u(e) == [ui EXCEPT !.busy = FALSE, !.error = e]
  <2>1. PICK e \in {ui.error, "export"} : LinkList!Draw(u(e), rest)
    <3>1. PICK a : LinkList!Draw([ui EXCEPT !.busy = FALSE, !.error = IF a.ok THEN @ ELSE "export"], rest)
      BY <1>9, Zenon DEF LinkList!DeliverExport, rest
    <3> DEFINE e == IF a.ok THEN ui.error ELSE "export"
    <3>2. LinkList!Draw(u(e), rest) /\ e \in {ui.error, "export"}
      BY <3>1, Zenon
    <3> QED
      BY <3>2, Zenon
  <2>2. ListUiTyped(u(e))
    BY <1>1, <1>3, <2>1 DEF ListUiTyped, ListFields
  <2> HIDE DEF u
  <2> QED
    BY <1>2, <2>1, <2>2, ListDrawTyped
<1> QED
  BY <1>4, <1>5, <1>6, <1>7, <1>8, <1>9 DEF LinkList!Deliver

\* What a click makes of the page, without a call of its own.
LEMMA ListDrawsTyped ==
    ASSUME ListTypes,
           \/ \E s : LinkList!Type(s)
           \/ LinkList!Debounce
           \/ \E control, v : LinkList!Choose(control, v)
           \/ LinkList!Previous \/ LinkList!NextPage
           \/ \E id : LinkList!ToggleOne(id)
           \/ LinkList!ToggleAll \/ LinkList!ClearSelection \/ LinkList!TypeValue
           \/ \E action : LinkList!ChooseBulk(action)
           \/ LinkList!ArmBulk \/ LinkList!CancelBulk \/ LinkList!Escape
           \/ \E id \in LinkIds : LinkList!ArmRow(id) \/ LinkList!CancelRow(id)
    PROVE  ListUiTyped(ui') /\ ListCallsTyped(calls')
<1>1. ListUiTyped(ui) /\ ListCallsTyped(calls)
  BY DEF ListTypes
<1>2. SUFFICES \E u : ListUiTyped(u) /\ LinkList!Draw(u, calls)
  BY <1>1, ListDrawTyped
<1>3. ASSUME NEW s, LinkList!Type(s) PROVE \E u : ListUiTyped(u) /\ LinkList!Draw(u, calls)
  <2> DEFINE u == [ui EXCEPT !.search = s, !.typing = TRUE]
  <2>1. LinkList!Draw(u, calls)
    BY <1>3, Zenon DEF LinkList!Type
  <2>2. ListUiTyped(u)
    BY <1>1 DEF ListUiTyped, ListFields
  <2> QED
    BY <2>1, <2>2, Zenon
<1>4. CASE LinkList!Debounce
  <2> DEFINE u == [ui EXCEPT !.typing = FALSE, !.filter.text = ui.search, !.page = 0]
  <2>1. LinkList!Draw(u, calls)
    BY <1>4, Zenon DEF LinkList!Debounce
  <2>2. ListUiTyped(u)
    BY <1>1, PlacesAre DEF ListUiTyped, ListFields
  <2> QED
    BY <2>1, <2>2, Zenon
<1>5. ASSUME NEW control, NEW v, LinkList!Choose(control, v) PROVE \E u : ListUiTyped(u) /\ LinkList!Draw(u, calls)
  <2> DEFINE u == [ui EXCEPT !.filter[control] = v, !.page = 0]
  <2>1. LinkList!Draw(u, calls)
    BY <1>5, Zenon DEF LinkList!Choose
  <2>2. ListUiTyped(u)
    BY <1>1, PlacesAre DEF ListUiTyped, ListFields
  <2> QED
    BY <2>1, <2>2, Zenon
<1>6. CASE LinkList!Previous
  BY <1>1, <1>6, ListBackTyped, Zenon DEF LinkList!Previous
<1>7. CASE LinkList!NextPage
  <2> DEFINE u == [ui EXCEPT !.page = @ + 1]
  <2>1. LinkList!Draw(u, calls) /\ ui.page + 1 < LinkList!PageCount(ui)
    BY <1>7, Zenon DEF LinkList!NextPage
  <2>2. ui.page \in Nat /\ ui.total \in Nat /\ ui.total <= Cardinality(LinkIds) /\ ui.page <= Cardinality(LinkIds)
    BY <1>1, PlacesAre DEF ListUiTyped, Places
  <2>3. (ui.total = 0 => LinkList!PageCount(ui) = 1) /\ (ui.total # 0 => LinkList!PageCount(ui) = ui.total)
    BY <2>2 DEF LinkList!PageCount
  <2>4. ui.page + 1 \in Places
    BY <2>1, <2>2, <2>3, PlacesAre DEF Places
  <2>5. ListUiTyped(u)
    BY <1>1, <2>4 DEF ListUiTyped, ListFields
  <2> QED
    BY <2>1, <2>5, Zenon
<1>8. ASSUME NEW s, LinkList!Draw([ui EXCEPT !.selected = s], calls) PROVE \E u : ListUiTyped(u) /\ LinkList!Draw(u, calls)
  <2> DEFINE u == [ui EXCEPT !.selected = s]
  <2>1. ListUiTyped(u)
    BY <1>1 DEF ListUiTyped, ListFields
  <2> QED
    BY <1>8, <2>1, Zenon
<1>9. CASE (\E id : LinkList!ToggleOne(id)) \/ LinkList!ToggleAll \/ LinkList!ClearSelection
  <2>1. \E s : LinkList!Draw([ui EXCEPT !.selected = s], calls)
    BY <1>9, Zenon DEF LinkList!ToggleOne, LinkList!ToggleAll, LinkList!ClearSelection
  <2> QED
    BY <1>8, <2>1
<1>10. CASE LinkList!TypeValue
  <2> DEFINE v == ~ui.value
             u == [ui EXCEPT !.value = v]
  <2>1. LinkList!Draw(u, calls)
    BY <1>10, Zenon DEF LinkList!TypeValue
  <2>2. v \in BOOLEAN
    OBVIOUS
  <2> HIDE DEF v
  <2>3. ListUiTyped(u)
    BY <1>1, <2>2 DEF ListUiTyped, ListFields
  <2> QED
    BY <2>1, <2>3, Zenon
<1>11. ASSUME NEW action, LinkList!ChooseBulk(action) PROVE \E u : ListUiTyped(u) /\ LinkList!Draw(u, calls)
  <2> DEFINE u == [ui EXCEPT !.action = action, !.value = FALSE]
  <2>1. LinkList!Draw(u, calls)
    BY <1>11, Zenon DEF LinkList!ChooseBulk
  <2>2. ListUiTyped(u)
    BY <1>1 DEF ListUiTyped, ListFields
  <2> QED
    BY <2>1, <2>2, Zenon
<1>12. CASE LinkList!ArmBulk \/ LinkList!CancelBulk
  <2>1. PICK b : LinkList!Draw([ui EXCEPT !.bulkDel = b], calls) /\ b \in LinkList!ButtonStates
    <3>1. CASE LinkList!ArmBulk
      <4> DEFINE b == LinkList!Opened(ui.bulkDel)
      <4>1. ui.bulkDel \in LinkList!CanOpen /\ LinkList!Draw([ui EXCEPT !.bulkDel = b], calls)
        BY <3>1, Zenon DEF LinkList!ArmBulk
      <4>2. b \in LinkList!ButtonStates
        BY <1>1, <4>1, ButtonsTyped DEF ListUiTyped
      <4> QED
        BY <4>1, <4>2, Zenon
    <3>2. CASE LinkList!CancelBulk
      <4>1. LinkList!Draw([ui EXCEPT !.bulkDel = "closed"], calls) /\ "closed" \in LinkList!ButtonStates
        BY <3>2, Zenon DEF LinkList!CancelBulk, LinkList!ButtonStates
      <4> QED
        BY <4>1, Zenon
    <3> QED
      BY <1>12, <3>1, <3>2
  <2> DEFINE u == [ui EXCEPT !.bulkDel = b]
  <2>2. ListUiTyped(u)
    BY <1>1, <2>1 DEF ListUiTyped, ListFields
  <2> QED
    BY <2>1, <2>2, Zenon
<1>13. CASE LinkList!Escape
  <2> DEFINE b == LinkList!Escaped(ui.bulkDel)
             r == [id \in LinkIds |-> LinkList!Escaped(ui.rowDel[id])]
             u == [ui EXCEPT !.bulkDel = b, !.rowDel = r]
  <2>1. LinkList!Draw(u, calls)
    BY <1>13, Zenon DEF LinkList!Escape
  <2>2. b \in LinkList!ButtonStates /\ r \in [LinkIds -> LinkList!ButtonStates]
    BY <1>1, ButtonsTyped DEF ListUiTyped
  <2> HIDE DEF b, r
  <2>3. ListUiTyped(u)
    BY <1>1, <2>2 DEF ListUiTyped, ListFields
  <2> QED
    BY <2>1, <2>3, Zenon
<1>14. ASSUME NEW id \in LinkIds, LinkList!ArmRow(id) \/ LinkList!CancelRow(id)
       PROVE  \E u : ListUiTyped(u) /\ LinkList!Draw(u, calls)
  <2>1. \/ ui.rowDel[id] \in LinkList!CanOpen /\ LinkList!Draw([ui EXCEPT !.rowDel[id] = LinkList!Opened(ui.rowDel[id])], calls)
        \/ LinkList!Draw([ui EXCEPT !.rowDel[id] = "closed"], calls)
    BY <1>14, Zenon DEF LinkList!ArmRow, LinkList!CancelRow
  <2>2. ui.rowDel[id] \in LinkList!ButtonStates
    BY <1>1 DEF ListUiTyped
  <2>3. \E b \in LinkList!ButtonStates : LinkList!Draw([ui EXCEPT !.rowDel[id] = b], calls)
    <3>1. /\ ui.rowDel[id] \in LinkList!CanOpen => LinkList!Opened(ui.rowDel[id]) \in LinkList!ButtonStates
          /\ "closed" \in LinkList!ButtonStates
      BY <2>2, ButtonsTyped
    <3> QED
      BY <2>1, <3>1, Zenon
  <2> QED
    BY <1>1, <2>3, ButtonTyped
<1> QED
  BY <1>3, <1>4, <1>5, <1>6, <1>7, <1>9, <1>10, <1>11, <1>12, <1>13, <1>14

\* And with one.
LEMMA ListCallsOnTyped ==
    ASSUME ListTypes,
           \/ LinkList!Retry \/ LinkList!Run \/ LinkList!ConfirmBulk \/ LinkList!Import \/ LinkList!Export
           \/ \E id \in LinkIds : LinkList!ConfirmRow(id)
    PROVE  ListUiTyped(ui') /\ ListCallsTyped(calls')
<1>1. ListUiTyped(ui) /\ ListCallsTyped(calls)
  BY DEF ListTypes
<1>2. ASSUME NEW u, ListUiTyped(u) PROVE LinkList!Asked(u).page \in Places
  BY <1>2 DEF LinkList!Asked, ListUiTyped
<1>3. CASE LinkList!Retry
  <2>1. LinkList!Show(LinkList!Load(ui, calls, LinkList!Asked(ui), LinkList!Effect))
    BY <1>3, Zenon DEF LinkList!Retry
  <2> QED
    BY <1>1, <1>2, <2>1, ListLoadsTyped
<1>4. ASSUME NEW u, ListUiTyped(u), NEW op \in {"remove", "bulk", "import", "export"}, NEW arg,
             op # "export" => arg.asked.page \in Places,
             LinkList!Draw(u, Append(calls, LinkList!Call(op, arg, LinkList!Effect)))
      PROVE  ListUiTyped(ui') /\ ListCallsTyped(calls')
  <2>1. ListCallsTyped(Append(calls, LinkList!Call(op, arg, LinkList!Effect)))
    BY <1>1, <1>4, ListTypesAppend
  <2> QED
    BY <1>4, <2>1, ListDrawTyped
<1>5. ASSUME NEW u, ListUiTyped(u), LinkList!RunBulk(u) PROVE ListUiTyped(ui') /\ ListCallsTyped(calls')
  <2> DEFINE arg == [action |-> u.action, ids |-> u.selected, asked |-> LinkList!Asked(u)]
             v == [u EXCEPT !.error = "needs value"]
             w == [u EXCEPT !.busy = TRUE, !.error = Blank]
  <2>1. \/ LinkList!Draw(v, calls)
        \/ LinkList!Draw(w, Append(calls, LinkList!Call("bulk", arg, LinkList!Effect)))
    BY <1>5, Zenon DEF LinkList!RunBulk, Blank
  <2>2. ListUiTyped(v) /\ ListUiTyped(w)
    BY <1>5 DEF ListUiTyped, ListFields, ListErrors
  <2>3. arg.asked.page \in Places
    BY <1>2, <1>5
  <2> HIDE DEF v, w, arg
  <2> QED
    BY <1>1, <1>4, <2>1, <2>2, <2>3, ListDrawTyped
<1>6. CASE LinkList!Run
  BY <1>1, <1>5, <1>6, Zenon DEF LinkList!Run
<1>7. CASE LinkList!ConfirmBulk
  <2> DEFINE u == [ui EXCEPT !.bulkDel = "busy"]
  <2>1. LinkList!RunBulk(u)
    BY <1>7, Zenon DEF LinkList!ConfirmBulk
  <2>2. ListUiTyped(u)
    BY <1>1 DEF ListUiTyped, ListFields, LinkList!ButtonStates
  <2> HIDE DEF u
  <2> QED
    BY <1>5, <2>1, <2>2
<1>8. CASE LinkList!Import
  <2> DEFINE u == [ui EXCEPT !.busy = TRUE, !.error = Blank, !.report = FALSE]
             arg == [asked |-> LinkList!Asked(ui)]
  <2>1. LinkList!Draw(u, Append(calls, LinkList!Call("import", arg, LinkList!Effect)))
    BY <1>8, Zenon DEF LinkList!Import, Blank
  <2>2. ListUiTyped(u) /\ arg.asked.page \in Places
    BY <1>1, <1>2 DEF ListUiTyped, ListFields, ListErrors
  <2> HIDE DEF u, arg
  <2> QED
    BY <1>4, <2>1, <2>2
<1>9. CASE LinkList!Export
  <2> DEFINE u == [ui EXCEPT !.busy = TRUE, !.error = Blank]
             arg == [filter |-> ui.filter]
  <2>1. LinkList!Draw(u, Append(calls, LinkList!Call("export", arg, LinkList!Effect)))
    BY <1>9, Zenon DEF LinkList!Export, Blank
  <2>2. ListUiTyped(u)
    BY <1>1 DEF ListUiTyped, ListFields, ListErrors
  <2> HIDE DEF u, arg
  <2> QED
    BY <1>4, <2>1, <2>2
<1>10. ASSUME NEW id \in LinkIds, LinkList!ConfirmRow(id) PROVE ListUiTyped(ui') /\ ListCallsTyped(calls')
  <2> DEFINE u == [ui EXCEPT !.rowDel[id] = "busy"]
             arg == [id |-> id, asked |-> LinkList!Asked(ui)]
  <2>1. LinkList!Draw(u, Append(calls, LinkList!Call("remove", arg, LinkList!Effect)))
    BY <1>10, Zenon DEF LinkList!ConfirmRow
  <2>2. "busy" \in LinkList!ButtonStates /\ arg.asked.page \in Places
    BY <1>1, <1>2 DEF LinkList!ButtonStates
  <2>3. ListUiTyped(u)
    BY <1>1, <2>2, ButtonTyped
  <2> HIDE DEF u, arg
  <2> QED
    BY <1>4, <2>1, <2>2, <2>3
<1> QED
  BY <1>3, <1>6, <1>7, <1>8, <1>9, <1>10

LEMMA ListTypesNext == ASSUME ListTypes, LinkList!Next \/ Still PROVE ListTypes'
<1>1. CASE Still
  BY <1>1 DEF Still, ListTypes
<1>2. CASE LinkList!Click \/ LinkList!Debounce
  <2>1. db' = db
    BY <1>2 DEF LinkList!Click, LinkList!Debounce
  <2>2. ListUiTyped(ui') /\ ListCallsTyped(calls')
    BY <1>2, ListDrawsTyped, ListCallsOnTyped, Zenon DEF LinkList!Click
  <2> QED
    BY <2>1, <2>2 DEF ListTypes
<1> QED
  BY <1>1, <1>2, ListTypesServe, ListTypesDeliver, Zenon DEF LinkList!Next

LEMMA ListTyped == ASSUME ListTypes, ListInv PROVE LinkList!TypeOK
<1>1. LinkList!Rows(ui) \subseteq LinkIds
  BY DEF ListTypes, ListUiTyped, LinkList!Rows
<1>2. ui.selected \subseteq LinkIds
  BY <1>1 DEF ListInv, ListUi
<1>3. /\ ui.page \in 0 .. LinkList!Cardinality(LinkIds) /\ ui.total \in 0 .. LinkList!Cardinality(LinkIds)
      /\ {ui.loading, ui.busy, ui.report, ui.typing, ui.value} \subseteq BOOLEAN
      /\ ui.rowDel \in [LinkIds -> LinkList!ButtonStates] /\ ui.bulkDel \in LinkList!ButtonStates
      /\ db \in [LinkIds -> LinkList!LinkStates]
  BY SameCardinalityOfLinks DEF ListTypes, ListUiTyped, Places
<1>4. ui.error \in ListErrors
  BY DEF ListTypes, ListUiTyped
<1> QED
  BY <1>1, <1>2, <1>3, <1>4, Zenon DEF LinkList!TypeOK, ListErrors, Blank

-----------------------------------------------------------------------------
(* The notifications: no more of them than there is room for, and what is   *)
(* copied was asked for by a click.                                         *)
Counts == 0 .. MaxClicks["toasts"]
Unasked == {c \in ToastCalls : c.op = "write" /\ c.arg.id \notin Counts}
Within(cs) == cs \in Seq(ToastCalls) /\ NoneOf(Unasked, cs)
ToastTypes ==
    /\ ToastsInv /\ clicks <= MaxClicks["toasts"]
    /\ Len(ui.toasts) <= ToastLimit /\ Within(calls)
    /\ db.clipboard \in Counts

LEMMA RestWithin == ASSUME NEW cs, Within(cs), NEW i \in DOMAIN cs PROVE Within(Without(cs, i))
BY WithoutOne, RestOf DEF Within

LEMMA ClearWithin == ASSUME NEW cs, Within(cs), NEW op, NEW id PROVE Within(Notices!Clear(cs, op, id))
<1> DEFINE K == {k \in DOMAIN cs : cs[k].op = op /\ cs[k].arg.id = id}
<1>1. K \in SUBSET DOMAIN cs /\ Notices!Clear(cs, op, id) = Notices!Drop(cs, K)
  BY DEF Notices!Clear, Notices!TimersOf
<1> HIDE DEF K
<1> QED
  BY <1>1, Dropped, RestWithin

LEMMA ThenWithin ==
    ASSUME NEW cs, Within(cs), NEW c \in ToastCalls, c.op # "write" \/ c.arg.id \in Counts PROVE Within(Append(cs, c))
<1>1. c \notin Unasked
  BY DEF Unasked
<1>2. cs \in Seq(ToastCalls) /\ NoneOf(Unasked, cs)
  BY DEF Within
<1> HIDE DEF Unasked
<1>3. Append(cs, c) \in Seq(ToastCalls)
  BY <1>2
<1> QED
  BY <1>1, <1>2, <1>3, AppendOf DEF Within

LEMMA FewerToasts ==
    ASSUME NEW ts \in Seq(Nat), NEW id
    PROVE  Notices!RemoveToast(ts, id) \in Seq(Nat) /\ Len(Notices!RemoveToast(ts, id)) <= Len(ts)
<1> DEFINE K == {k \in DOMAIN ts : ts[k] = id}
<1>1. K \in SUBSET DOMAIN ts /\ Notices!RemoveToast(ts, id) = Notices!Drop(ts, K)
  BY DEF Notices!RemoveToast
<1> HIDE DEF K
<1>2. ASSUME NEW k \in K PROVE Without(ts, k) \in Seq(Nat) /\ Len(Without(ts, k)) <= Len(ts)
  <2>1. k \in DOMAIN ts
    BY <1>1
  <2>2. Without(ts, k) \in Seq(Nat) /\ Len(Without(ts, k)) = Len(ts) - 1 /\ Len(ts) \in Nat
    BY <2>1, WithoutOne
  <2> QED
    BY <2>2
<1> QED
  BY <1>1, <1>2, Dropped

LEMMA DismissedWithin ==
    ASSUME NEW u \in ToastsUi, Len(u.toasts) <= ToastLimit, NEW cs, Within(cs), NEW id
    PROVE  LET d == Notices!Dismissed(u, cs, id) IN Len(d.u.toasts) <= ToastLimit /\ Within(d.cs)
<1> DEFINE ts == Notices!RemoveToast(u.toasts, id)
           rest == Notices!Clear(cs, "dismiss", id)
<1>1. u.toasts \in Seq(Nat)
  BY DEF ToastsUi
<1>2. ts \in Seq(Nat) /\ Len(ts) <= Len(u.toasts)
  BY <1>1, FewerToasts
<1>3. Within(rest)
  BY ClearWithin
<1> DEFINE v == [u EXCEPT !.toasts = ts]
           d == Notices!Dismissed(u, cs, id)
<1>4. d = [u |-> v, cs |-> rest]
  BY Zenon DEF Notices!Dismissed
<1> HIDE DEF ts, rest
<1>5. v.toasts = ts
  BY DEF ToastsUi
<1>6. Len(ts) <= ToastLimit
  BY <1>1, <1>2, LimitAssumption
<1> HIDE DEF v, d
<1>7. Len(d.u.toasts) <= ToastLimit /\ Within(d.cs)
  BY <1>3, <1>4, <1>5, <1>6
<1> QED
  BY <1>7, Zenon DEF d

LEMMA NotifyWithin ==
    ASSUME NEW u \in ToastsUi, NEW cs, Within(cs)
    PROVE  LET n == Notices!Notify(u, cs) IN Len(n.u.toasts) <= ToastLimit /\ Within(n.cs)
<1> DEFINE next == <<u.sequence>> \o Notices!RemoveToast(u.toasts, u.sequence)
           ts == Notices!AddToast(u.toasts, u.sequence)
           rest == Append(cs, Notices!Timer("dismiss", u.sequence))
<1>1. u.toasts \in Seq(Nat) /\ u.sequence \in Nat
  BY DEF ToastsUi
<1>2. next \in Seq(Nat)
  BY <1>1, FewerToasts
<1>3. ts = SubSeq(next, 1, IF Len(next) < ToastLimit THEN Len(next) ELSE ToastLimit)
  BY Zenon DEF Notices!AddToast
<1> HIDE DEF next
<1>4. Len(ts) <= ToastLimit
  BY <1>2, <1>3, LimitAssumption
<1>5. Within(rest)
  <2>1. Notices!Timer("dismiss", u.sequence) \in ToastCalls
    BY <1>1, TimerSent DEF TimersOf, ToastCalls
  <2>2. Notices!Timer("dismiss", u.sequence).op # "write"
    BY DEF Notices!Timer, Notices!Call
  <2> QED
    BY <2>1, <2>2, ThenWithin
<1> DEFINE v == [u EXCEPT !.toasts = ts, !.sequence = u.sequence + 1]
           n == Notices!Notify(u, cs)
<1>6. n = [u |-> v, cs |-> rest]
  BY Zenon DEF Notices!Notify
<1> HIDE DEF ts, rest
<1>7. v.toasts = ts
  BY DEF ToastsUi
<1> HIDE DEF v, n
<1>8. Len(n.u.toasts) <= ToastLimit /\ Within(n.cs)
  BY <1>4, <1>5, <1>6, <1>7
<1> QED
  BY <1>8, Zenon DEF n

LEMMA ToastTypesInit == ASSUME Notices!Init PROVE ToastTypes
<1>1. ToastsInv
  BY ToastsInit
<1>2. ui.toasts = <<>> /\ calls = <<>> /\ clicks = 0 /\ db.clipboard = 0
  BY DEF Notices!Init, Notices!Mounted
<1>3. calls \in Seq(ToastCalls) /\ DOMAIN calls = {}
  BY <1>2
<1> QED
  BY <1>1, <1>2, <1>3, LimitAssumption, ClicksAssumption DEF ToastTypes, Counts, Within, NoneOf

LEMMA ToastTypesServe ==
    ASSUME ToastTypes, NEW i \in DOMAIN calls, Notices!Serve(i)
    PROVE  Len(ui'.toasts) <= ToastLimit /\ Within(calls') /\ db'.clipboard \in Counts
<1> DEFINE res == Notices!Ok([n |-> 0])
           c   == [calls[i] EXCEPT !.st = "served", !.res = res]
<1>1. /\ calls \in Seq(ToastCalls) /\ calls[i] \in ToastCalls /\ NoneOf(Unasked, calls)
      /\ Len(ui.toasts) <= ToastLimit
  BY DEF ToastTypes, Within
<1>2. calls[i].op = "write" /\ calls' = Answer(calls, i, res) /\ ui' = ui /\ db' = [clipboard |-> calls[i].arg.id]
  BY Zenon DEF Notices!Serve, Notices!Served, Answer
<1>3. calls[i] \in WriteCalls
  BY <1>1, <1>2, ToastKinds
<1>4. res \in Answered({[n |-> 0]})
  BY DEF Notices!Ok, Answered
<1>5. c.arg = calls[i].arg /\ c.op = calls[i].op
  BY <1>3 DEF WriteCalls, CallsOf, Sent, Served
<1> HIDE DEF res
<1>6. c \in ToastCalls
  BY <1>3, <1>4, CallServed DEF WriteCalls, ToastCalls
<1> HIDE DEF c
<1>7. calls[i].arg.id \in Counts
  BY <1>1, <1>2 DEF NoneOf, Unasked
<1>8. c \notin Unasked
  BY <1>5, <1>7 DEF Unasked
<1>9. Within(calls')
  <2>1. NoneOf(Unasked, Answer(calls, i, res)) /\ Answer(calls, i, res) \in Seq(ToastCalls)
    BY <1>1, <1>6, <1>8, AnswerOf, ServeOne DEF c, Answer
  <2> QED
    BY <1>2, <2>1 DEF Within
<1> QED
  BY <1>1, <1>2, <1>7, <1>9

LEMMA ToastTypesDeliver ==
    ASSUME ToastTypes, NEW i \in DOMAIN calls, Notices!Deliver(i)
    PROVE  Len(ui'.toasts) <= ToastLimit /\ Within(calls')
<1> DEFINE rest == Notices!Rest(i)
<1>1. ui \in ToastsUi /\ Len(ui.toasts) <= ToastLimit
  BY DEF ToastTypes, ToastsInv
<1>2. Within(rest)
  <2>1. Within(calls) /\ Notices!Rest(i) = Without(calls, i)
    BY DEF ToastTypes, Notices!Rest, Notices!Without, Without
  <2> QED
    BY <2>1, RestWithin
<1> HIDE DEF rest
<1>3. CASE Notices!DeliverWrite(i)
  <2> DEFINE cs == Notices!Clear(rest, "reset", 0)
  <2>1. PICK a \in Notices!Answers(i) :
            LET told == [ui EXCEPT !.status = IF ~ui.button THEN "idle"
                                              ELSE IF a.ok THEN "copied" ELSE "error"]
                n    == Notices!Notify(told, cs)
            IN  Notices!Show([u |-> n.u, cs |-> Append(n.cs, Notices!Timer("reset", 0))])
    BY <1>3 DEF Notices!DeliverWrite, rest
  <2> DEFINE status == IF ~ui.button THEN "idle" ELSE IF a.ok THEN "copied" ELSE "error"
             told   == [ui EXCEPT !.status = status]
             n      == Notices!Notify(told, cs)
  <2>2. ui' = n.u /\ calls' = Append(n.cs, Notices!Timer("reset", 0))
    BY <2>1 DEF Notices!Show
  <2>3. status \in {"idle", "copied", "error"}
    OBVIOUS
  <2> HIDE DEF status, n
  <2>4. told \in ToastsUi
    BY <1>1, <2>3 DEF ToastsUi
  <2> HIDE DEF told
  <2>5. Within(cs)
    BY <1>2, ClearWithin
  <2> HIDE DEF cs
  <2>6. Len(n.u.toasts) <= ToastLimit /\ Within(n.cs)
    BY <2>4, <2>5, NotifyWithin DEF n
  <2>7. Notices!Timer("reset", 0) \in ToastCalls /\ Notices!Timer("reset", 0).op # "write"
    <3>1. Notices!Timer("reset", 0) \in ToastCalls
      BY TimerSent DEF ToastCalls
    <3>2. Notices!Timer("reset", 0).op # "write"
      BY DEF Notices!Timer, Notices!Call
    <3> QED
      BY <3>1, <3>2
  <2> QED
    BY <2>2, <2>6, <2>7, ThenWithin
<1>4. CASE Notices!DeliverReset(i)
  <2>1. ui' = [ui EXCEPT !.status = "idle"] /\ calls' = rest
    BY <1>4 DEF Notices!DeliverReset, Notices!Show, rest
  <2>2. ui'.toasts = ui.toasts
    BY <1>1, <2>1 DEF ToastsUi
  <2> QED
    BY <1>1, <1>2, <2>1, <2>2
<1>5. CASE Notices!DeliverDismiss(i)
  <2> DEFINE d == Notices!Dismissed(ui, rest, calls[i].arg.id)
  <2>1. ui' = d.u /\ calls' = d.cs
    BY <1>5 DEF Notices!DeliverDismiss, Notices!Show, rest
  <2>2. Len(d.u.toasts) <= ToastLimit /\ Within(d.cs)
    BY <1>1, <1>2, DismissedWithin
  <2> HIDE DEF d
  <2> QED
    BY <2>1, <2>2
<1> QED
  BY <1>3, <1>4, <1>5 DEF Notices!Deliver

LEMMA ToastTypesClick ==
    ASSUME ToastTypes, Notices!UserActs, Notices!Click
    PROVE  Len(ui'.toasts) <= ToastLimit /\ Within(calls')
<1>1. ui \in ToastsUi /\ Len(ui.toasts) <= ToastLimit /\ Within(calls) /\ clicks \in Nat
  BY DEF ToastTypes, ToastsInv
<1>2. CASE Notices!Copy
  <2> DEFINE c == Notices!Call("write", [id |-> clicks + 1], Notices!Effect)
  <2>1. [id |-> clicks + 1] \in [id : Nat]
    BY <1>1
  <2>2. c \in WriteCalls
    BY <2>1, CallSent DEF Notices!Call, Notices!Refused, WriteCalls
  <2>3. ui' = ui /\ calls' = Append(calls, c)
    BY <1>2 DEF Notices!Copy, Notices!Send
  <2>4. c.arg.id = clicks + 1
    BY DEF Notices!Call
  <2>5. clicks + 1 \in Counts
    BY <1>1, ClicksAssumption DEF Notices!UserActs, Counts
  <2> HIDE DEF c
  <2> QED
    BY <1>1, <2>2, <2>3, <2>4, <2>5, ThenWithin DEF ToastCalls
<1>3. CASE Notices!Leave
  <2>1. /\ ui' = [ui EXCEPT !.button = FALSE, !.status = "idle"]
        /\ calls' = Notices!Clear(calls, "reset", 0)
    BY <1>3 DEF Notices!Leave, Notices!Show
  <2>2. ui'.toasts = ui.toasts
    BY <1>1, <2>1 DEF ToastsUi
  <2> QED
    BY <1>1, <2>1, <2>2, ClearWithin
<1>4. ASSUME NEW k, Notices!Dismiss(k) PROVE Len(ui'.toasts) <= ToastLimit /\ Within(calls')
  <2> DEFINE d == Notices!Dismissed(ui, calls, ui.toasts[k])
  <2>1. ui' = d.u /\ calls' = d.cs
    BY <1>4 DEF Notices!Dismiss, Notices!Show
  <2>2. Len(d.u.toasts) <= ToastLimit /\ Within(d.cs)
    BY <1>1, DismissedWithin
  <2> HIDE DEF d
  <2> QED
    BY <2>1, <2>2
<1> QED
  BY <1>2, <1>3, <1>4 DEF Notices!Click

LEMMA ToastTypesNext == ASSUME ToastTypes, Notices!Next \/ Still PROVE ToastTypes'
<1>1. CASE Still
  BY <1>1 DEF Still, ToastTypes, ToastsInv
<1>2. CASE Notices!Next
  <2>1. ToastsInv'
    BY <1>2, ToastsNext DEF ToastTypes
  <2>2. CASE Notices!UserActs /\ Notices!Click
    <3>1. db' = db /\ clicks' = clicks + 1 /\ clicks < MaxClicks["toasts"] /\ clicks \in Nat
      BY <2>2 DEF Notices!UserActs, Notices!Click, ToastTypes, ToastsInv
    <3>2. clicks' <= MaxClicks["toasts"]
      BY <3>1, ClicksAssumption
    <3> QED
      BY <2>1, <2>2, <3>1, <3>2, ToastTypesClick DEF ToastTypes
  <2>3. ASSUME NEW i \in DOMAIN calls, Notices!Serve(i), clicks' = clicks PROVE ToastTypes'
    BY <2>1, <2>3, ToastTypesServe DEF ToastTypes
  <2>4. ASSUME NEW i \in DOMAIN calls, Notices!Deliver(i), clicks' = clicks PROVE ToastTypes'
    <3>1. db' = db
      BY <2>4 DEF Notices!Deliver
    <3> QED
      BY <2>1, <2>4, <3>1, ToastTypesDeliver DEF ToastTypes
  <2> QED
    BY <1>2, <2>2, <2>3, <2>4 DEF Notices!Next
<1> QED
  BY <1>1, <1>2

LEMMA ToastsTyped == ASSUME ToastTypes PROVE Notices!TypeOK
<1>1. /\ ui.status \in {"idle", "copied", "error"} /\ ui.button \in BOOLEAN
      /\ ui.sequence \in Nat /\ ui.toasts \in Seq(Nat)
  BY DEF ToastTypes, ToastsInv, ToastsUi
<1>2. \A k \in DOMAIN ui.toasts : ui.toasts[k] \in 0 .. ui.sequence - 1
  <2> SUFFICES ASSUME NEW k \in DOMAIN ui.toasts PROVE ui.toasts[k] \in 0 .. ui.sequence - 1
    OBVIOUS
  <2>1. ui.toasts[k] \in Nat /\ ui.toasts[k] < ui.sequence
    BY <1>1 DEF ToastTypes, ToastsInv, Timed
  <2> QED
    BY <1>1, <2>1
<1> QED
  BY <1>1, <1>2 DEF ToastTypes, Counts, Notices!TypeOK

-----------------------------------------------------------------------------
(* The statistics: what is ranked and selected is of links that there are.  *)
StatsState ==
    [range : Ranges, order : {"top", "bottom"}, selected : StatsLinks \cup {Stats!NoLink}, page : Nat,
     ranked : Seq(StatsLinks), pages : Nat, error : BOOLEAN]
PartTyped(k) == DOMAIN k = PartFields /\ k.st \in {"idle", "sent", "failed"} /\ k.spin \in BOOLEAN
PartsTyped(c) == DOMAIN c = Stats!Parts /\ \A p \in Stats!Parts : PartTyped(c[p])
StatsTypes == ui \in StatsState /\ db \in [Ranges -> SUBSET StatsLinks] /\ PartsTyped(calls)

LEMMA EffectTyped ==
    ASSUME NEW u, NEW c, PartsTyped(c), NEW p \in Stats!Parts PROVE PartTyped(Stats!Effect(u, c, p))
<1> DEFINE spin == p \in {"detail", "log"}
           e1 == [c[p] EXCEPT !.st = "sent", !.spin = spin]
           e2 == [c[p] EXCEPT !.st = "idle", !.shown = Stats!Nothing]
<1>1. PartTyped(c[p])
  BY DEF PartsTyped
<1>2. Stats!Effect(u, c, p) = IF Stats!Wanted(u, p) THEN e1 ELSE e2
  BY Zenon DEF Stats!Effect
<1>3. PartTyped(e2)
  BY <1>1 DEF PartTyped, PartFields
<1>4. spin \in BOOLEAN
  OBVIOUS
<1> HIDE DEF spin, e2
<1>5. PartTyped(e1)
  BY <1>1, <1>4 DEF PartTyped, PartFields
<1> HIDE DEF e1
<1> QED
  BY <1>2, <1>3, <1>5

LEMMA StatsShowTyped ==
    ASSUME NEW u \in StatsState, NEW c, PartsTyped(c), Stats!Show(u, c)
    PROVE  ui' \in StatsState /\ PartsTyped(calls')
<1> DEFINE v == IF Stats!Deps(u, "detail") # Stats!Deps(ui, "detail") THEN [u EXCEPT !.page = 0] ELSE u
<1>1. /\ ui' = v
      /\ calls' = [p \in Stats!Parts |-> IF Stats!Deps(v, p) = Stats!Deps(ui, p) THEN c[p] ELSE Stats!Effect(v, c, p)]
  BY Zenon DEF Stats!Show
<1>2. v \in StatsState
  BY DEF StatsState
<1> HIDE DEF v
<1>3. ASSUME NEW p \in Stats!Parts PROVE PartTyped(calls'[p])
  <2>1. PartTyped(c[p]) /\ PartTyped(Stats!Effect(v, c, p))
    BY EffectTyped DEF PartsTyped
  <2>2. calls'[p] = c[p] \/ calls'[p] = Stats!Effect(v, c, p)
    BY <1>1
  <2> QED
    BY <2>1, <2>2
<1>4. DOMAIN calls' = Stats!Parts
  BY <1>1
<1> QED
  BY <1>1, <1>2, <1>3, <1>4 DEF PartsTyped

LEMMA StatsTypesInit == ASSUME Stats!Init PROVE StatsTypes
<1> DEFINE idle == [q \in Stats!Parts |-> Stats!Idle]
<1>1. ui = Stats!Mounted /\ calls = [p \in Stats!Parts |-> Stats!Effect(Stats!Mounted, idle, p)]
  BY Zenon DEF Stats!Init
<1>2. db \in [Ranges -> SUBSET StatsLinks] /\ Start \in Ranges
  BY DEF Stats!Init
<1>3. ui \in StatsState
  BY <1>1, <1>2 DEF StatsState, Stats!Mounted
<1>4. PartsTyped(idle)
  BY DEF PartsTyped, PartTyped, Stats!Idle, PartFields
<1> HIDE DEF idle
<1>5. PartsTyped(calls)
  BY <1>1, <1>4, EffectTyped DEF PartsTyped
<1> QED
  BY <1>2, <1>3, <1>5 DEF StatsTypes

\* A ranking is a list of links; the first of it, if there is one, is a link.
LEMMA RankedLinks ==
    ASSUME db \in [Ranges -> SUBSET StatsLinks], NEW order, NEW range \in Ranges, NEW new \in Stats!Ranked(order, range)
    PROVE  new \in Seq(StatsLinks) /\ (new # <<>> => new[1] \in StatsLinks)
<1> DEFINE S == db[range]
<1>1. S \subseteq StatsLinks /\ IsFiniteSet(S)
  BY FS_Subset, ListsAssumption
<1>2. Cardinality(S) \in Nat /\ Stats!Cardinality(S) = Cardinality(S)
  BY <1>1, FS_CardinalityType DEF Stats!Cardinality, Cardinality
<1>3. new \in [1 .. Stats!Cardinality(S) -> S]
  BY Zenon DEF Stats!Ranked
<1> HIDE DEF S
<1>4. new \in [1 .. Cardinality(S) -> StatsLinks]
  BY <1>1, <1>2, <1>3
<1>5. new \in Seq(StatsLinks)
  BY <1>2, <1>4
<1> QED
  BY <1>5

LEMMA StatsTypesDeliver ==
    ASSUME StatsTypes, StatsInv, NEW p \in Stats!Parts, Stats!Deliver(p) PROVE StatsTypes'
<1>1. ui \in StatsState /\ db \in [Ranges -> SUBSET StatsLinks] /\ PartsTyped(calls) /\ db' = db
  BY DEF StatsTypes, Stats!Deliver, Stats!Arrive, Stats!Fail
<1>2. CASE Stats!Arrive(p)
  <2> DEFINE k == [st |-> "idle", shown |-> Stats!Deps(ui, p), spin |-> FALSE]
             c == [calls EXCEPT ![p] = k]
  <2>1. PICK u \in Stats!Answered(p, ui) : Stats!Show(u, c)
    BY <1>2, Zenon DEF Stats!Arrive
  <2>2. u \in StatsState
    <3>1. CASE p = "overview"
      BY <1>1, <2>1, <3>1 DEF Stats!Answered, StatsState
    <3>2. CASE p = "log"
      BY <1>1, <2>1, <3>2, LogAssumption DEF Stats!Answered, StatsState
    <3>3. CASE p = "detail"
      BY <1>1, <2>1, <3>3 DEF Stats!Answered, StatsState
    <3>4. CASE p = "ranking"
      <4>1. PICK new \in Stats!Ranked(ui.order, ui.range) : u = Stats!WithRanking(ui, new)
        BY <2>1, <3>4 DEF Stats!Answered
      <4> DEFINE sel == IF \E j \in DOMAIN new : new[j] = ui.selected THEN ui.selected
                        ELSE IF new = <<>> THEN Stats!NoLink ELSE new[1]
      <4>2. u = [ui EXCEPT !.ranked = new, !.selected = sel]
        BY <4>1 DEF Stats!WithRanking
      <4>3. ui.range \in Ranges /\ ui.selected \in StatsLinks \cup {Stats!NoLink}
        BY <1>1 DEF StatsState
      <4>4. new \in Seq(StatsLinks) /\ (new # <<>> => new[1] \in StatsLinks)
        BY <1>1, <4>1, <4>3, RankedLinks
      <4>5. sel \in StatsLinks \cup {Stats!NoLink}
        BY <4>3, <4>4
      <4> HIDE DEF sel
      <4> QED
        BY <1>1, <4>2, <4>4, <4>5 DEF StatsState
    <3> QED
      BY <3>1, <3>2, <3>3, <3>4 DEF Stats!Parts
  <2>3. PartTyped(k)
    BY DEF PartTyped, PartFields
  <2> HIDE DEF k
  <2>4. PartsTyped(c)
    BY <1>1, <2>3 DEF PartsTyped
  <2> HIDE DEF c
  <2> QED
    BY <1>1, <2>1, <2>2, <2>4, StatsShowTyped DEF StatsTypes
<1>3. CASE Stats!Fail(p)
  <2> DEFINE u == [ui EXCEPT !.error = TRUE]
             k == [calls[p] EXCEPT !.st = "failed", !.spin = FALSE]
             c == [calls EXCEPT ![p] = k]
  <2>1. Stats!Show(u, [calls EXCEPT ![p].st = "failed", ![p].spin = FALSE])
    BY <1>3, Zenon DEF Stats!Fail
  <2>2. [calls EXCEPT ![p].st = "failed", ![p].spin = FALSE] = c
    BY <1>1 DEF PartsTyped
  <2>3. u \in StatsState
    BY <1>1 DEF StatsState
  <2>4. PartTyped(k)
    BY <1>1 DEF PartsTyped, PartTyped, PartFields
  <2> HIDE DEF u, k
  <2>5. PartsTyped(c)
    BY <1>1, <2>4 DEF PartsTyped
  <2> HIDE DEF c
  <2> QED
    BY <1>1, <2>1, <2>2, <2>3, <2>5, StatsShowTyped DEF StatsTypes
<1> QED
  BY <1>2, <1>3 DEF Stats!Deliver

LEMMA StatsTypesNext == ASSUME StatsTypes, StatsInv, Stats!Next \/ Still PROVE StatsTypes'
<1>1. ui \in StatsState /\ db \in [Ranges -> SUBSET StatsLinks] /\ PartsTyped(calls)
  BY DEF StatsTypes
<1>2. CASE Stats!Click
  <2>1. /\ db' = db
        /\ \/ \E r \in Ranges : Stats!Show([ui EXCEPT !.range = r], calls)
           \/ \E o \in {"top", "bottom"} : Stats!Show([ui EXCEPT !.order = o], calls)
           \/ \E l \in StatsLinks \cup {Stats!NoLink} : Stats!Show([ui EXCEPT !.selected = l], calls)
           \/ ui.page > 0 /\ Stats!Show([ui EXCEPT !.page = @ - 1], calls)
           \/ Stats!Show([ui EXCEPT !.page = @ + 1], calls)
    BY <1>2, Zenon DEF Stats!Click, Stats!ChooseRange, Stats!ChooseOrder, Stats!ChooseLink, Stats!PreviousClicks, Stats!NextClicks
  <2>2. \E u \in StatsState : Stats!Show(u, calls)
    <3>1. /\ \A r \in Ranges : [ui EXCEPT !.range = r] \in StatsState
          /\ \A o \in {"top", "bottom"} : [ui EXCEPT !.order = o] \in StatsState
          /\ \A l \in StatsLinks \cup {Stats!NoLink} : [ui EXCEPT !.selected = l] \in StatsState
      BY <1>1 DEF StatsState
    <3>2. /\ ui.page > 0 => [ui EXCEPT !.page = @ - 1] \in StatsState
          /\ [ui EXCEPT !.page = @ + 1] \in StatsState
      BY <1>1 DEF StatsState
    <3> QED
      BY <2>1, <3>1, <3>2, Zenon
  <2> QED
    BY <1>1, <2>1, <2>2, StatsShowTyped DEF StatsTypes
<1>3. CASE Still
  BY <1>3 DEF Still, StatsTypes
<1> QED
  BY <1>2, <1>3, StatsTypesDeliver DEF Stats!Next

LEMMA StatsTyped == ASSUME StatsTypes, StatsInv PROVE Stats!TypeOK
<1>1. /\ ui.range \in Ranges /\ ui.order \in {"top", "bottom"} /\ ui.selected \in StatsLinks \cup {Stats!NoLink}
      /\ ui.error \in BOOLEAN /\ \A k \in DOMAIN ui.ranked : ui.ranked[k] \in StatsLinks
  BY DEF StatsTypes, StatsState
<1>2. ui.page \in 0 .. LogPages /\ ui.pages \in 0 .. LogPages
  BY LogAssumption DEF StatsInv, StatsUi
<1>3. \A p \in Stats!Parts : calls[p].st \in {"idle", "sent", "failed"} /\ calls[p].spin \in BOOLEAN
  BY DEF StatsTypes, PartsTyped, PartTyped
<1> QED
  BY <1>1, <1>2, <1>3 DEF StatsTypes, Stats!TypeOK

-----------------------------------------------------------------------------
(* The first page of the settings: what came of each source is one of the   *)
(* results, and each load is of a click of its own.                         *)
HomeUiTyped(u) ==
    /\ DOMAIN u = HomeFields
    /\ u.scopes \in OverviewScopes \cup {{}}
    /\ u.summary \in [Overview!Sources -> Overview!Results] /\ u.got \in [Overview!Sources -> Overview!Results]
    /\ u.known \in BOOLEAN /\ u.loadError \in BOOLEAN /\ u.loading \in BOOLEAN /\ u.query \in BOOLEAN
    /\ u.refresh \in Nat
HomeCallTyped(c) ==
    c.st = "served" /\ c.res.ok = TRUE =>
        /\ c.op = "me" => c.res.data.scopes \in OverviewScopes
        /\ c.op # "me" => c.res.data.value \in {"on", "off"}
HomeCallsTyped(cs) == InFlight(cs) /\ \A k \in DOMAIN cs : HomeCallTyped(cs[k])
HomeDbTyped(d) ==
    DOMAIN d = {"scopes", "on"} /\ d.scopes \in OverviewScopes /\ d.on \in [Overview!Sources -> {"on", "off"}]
HomeTypes ==
    /\ HomeUiTyped(ui) /\ HomeDbTyped(db) /\ HomeCallsTyped(calls)
    /\ clicks \in Nat /\ ui.refresh <= clicks /\ clicks <= MaxClicks["settings"]

LEMMA SkippedAreTyped == Overview!NotAsked \in [Overview!Sources -> Overview!Results]
BY DEF Overview!NotAsked, Overview!Results

LEMMA HomeMountedTyped ==
    ASSUME NEW q \in BOOLEAN, NEW n \in Nat
    PROVE  LET v == [Overview!Mounted EXCEPT !.query = q, !.refresh = n] IN HomeUiTyped(v) /\ v.refresh = n
<1> DEFINE k == Overview!NotAsked
           m == [known |-> FALSE, scopes |-> {}, loadError |-> FALSE, loading |-> TRUE,
                 summary |-> k, got |-> k, query |-> FALSE, refresh |-> 0]
           v == [m EXCEPT !.query = q, !.refresh = n]
<1>1. Overview!Mounted = m
  BY Zenon DEF Overview!Mounted
<1>2. k \in [Overview!Sources -> Overview!Results]
  BY SkippedAreTyped
<1> HIDE DEF k
<1>3. /\ DOMAIN v = HomeFields /\ v.scopes = {} /\ v.summary = k /\ v.got = k /\ v.known = FALSE
      /\ v.loadError = FALSE /\ v.loading = TRUE /\ v.query = q /\ v.refresh = n
  BY DEF HomeFields
<1> HIDE DEF v
<1>4. HomeUiTyped(v) /\ v.refresh = n
  BY <1>2, <1>3 DEF HomeUiTyped
<1> QED
  BY <1>1, <1>4, Zenon DEF v

LEMMA HomeLoadTyped == ASSUME NEW n PROVE LET c == Overview!Load(n) IN DOMAIN c = CallFields /\ HomeCallTyped(c)
BY DEF Overview!Load, Overview!Get, Overview!Call, CallFields, HomeCallTyped

LEMMA HomeRestTyped ==
    ASSUME NEW cs, HomeCallsTyped(cs), NEW i \in DOMAIN cs PROVE HomeCallsTyped(Without(cs, i))
BY InFlightRest DEF HomeCallsTyped

LEMMA HomeTypesInit == ASSUME Overview!Init PROVE HomeTypes
<1> DEFINE c == Overview!Load(0)
<1>1. ui = Overview!Mounted /\ calls = <<c>> /\ clicks = 0
  BY Zenon DEF Overview!Init
<1>2. DOMAIN c = CallFields /\ HomeCallTyped(c)
  BY HomeLoadTyped
<1>3. HomeDbTyped(db)
  <2> DEFINE on == [s \in Overview!Sources |-> "on"]
  <2>1. db \in [scopes : OverviewScopes, on : {on}]
    BY Zenon DEF Overview!Init
  <2>2. on \in [Overview!Sources -> {"on", "off"}]
    OBVIOUS
  <2> HIDE DEF on
  <2> QED
    BY <2>1, <2>2 DEF HomeDbTyped
<1>4. HomeUiTyped(ui) /\ ui.refresh = 0
  <2> DEFINE k == Overview!NotAsked
  <2>1. ui = [known |-> FALSE, scopes |-> {}, loadError |-> FALSE, loading |-> TRUE,
                 summary |-> k, got |-> k, query |-> FALSE, refresh |-> 0]
    BY <1>1, Zenon DEF Overview!Mounted
  <2>2. k \in [Overview!Sources -> Overview!Results]
    BY SkippedAreTyped
  <2> HIDE DEF k
  <2> QED
    BY <2>1, <2>2 DEF HomeUiTyped, HomeFields
<1> HIDE DEF c
<1>5. calls \in Seq({c}) /\ DOMAIN calls = {1} /\ calls[1] = c
  BY <1>1
<1>6. InFlight(calls)
  <2>1. PICK S : S = {c}
    OBVIOUS
  <2>2. calls \in Seq(S) /\ \A d \in S : DOMAIN d = CallFields
    BY <1>2, <1>5, <2>1
  <2> QED
    BY <2>2, InFlightSeq
<1>7. HomeCallsTyped(calls)
  BY <1>2, <1>5, <1>6 DEF HomeCallsTyped
<1> QED
  BY <1>1, <1>3, <1>4, <1>7, ClicksAssumption DEF HomeTypes

LEMMA HomeTypesServe ==
    ASSUME HomeTypes, OverviewInv, NEW i \in DOMAIN calls, Overview!Serve(i)
    PROVE  HomeUiTyped(ui') /\ ui'.refresh = ui.refresh /\ HomeDbTyped(db') /\ HomeCallsTyped(calls')
<1> DEFINE op == calls[i].op
           on == db.on
<1>1. ui' = ui /\ db' = db
  BY DEF Overview!Serve
<1>2. HomeDbTyped(db) /\ InFlight(calls) /\ (op = "me" \/ op \in Overview!Sources)
  BY DEF HomeTypes, HomeCallsTyped, OverviewInv, HomeCalls, HomeCall
<1>3. op \in Overview!Sources => on[op] \in {"on", "off"}
  BY <1>2 DEF HomeDbTyped
<1>4. PICK res : /\ calls' = Overview!Served(i, res)
                 /\ res.ok = TRUE /\ op = "me" => res.data.scopes \in OverviewScopes
                 /\ res.ok = TRUE /\ op # "me" => res.data.value \in {"on", "off"}
  <2>1. CASE op = "me"
    <3> DEFINE r == Overview!Ok([scopes |-> db.scopes])
    <3>1. calls' = Overview!Served(i, r)
      BY <2>1 DEF Overview!Serve
    <3>2. r.data.scopes \in OverviewScopes
      BY <1>2 DEF Overview!Ok, HomeDbTyped
    <3> HIDE DEF r
    <3> QED
      BY <2>1, <3>1, <3>2
  <2>2. CASE op # "me" /\ Overview!ScopeOf(op) \in db.scopes
    <3> DEFINE x == on[op]
               r == Overview!Ok([value |-> x])
    <3>1. calls' = Overview!Served(i, r)
      BY <2>2 DEF Overview!Serve
    <3> HIDE DEF x
    <3>2. r.data.value = x
      BY DEF Overview!Ok
    <3>3. x \in {"on", "off"}
      BY <1>2, <1>3, <2>2 DEF x
    <3> HIDE DEF r
    <3> QED
      BY <2>2, <3>1, <3>2, <3>3
  <2>3. CASE op # "me" /\ Overview!ScopeOf(op) \notin db.scopes
    <3> DEFINE r == Overview!Refused("forbidden")
    <3>1. calls' = Overview!Served(i, r)
      BY <2>3 DEF Overview!Serve
    <3>2. r.ok = FALSE
      BY DEF Overview!Refused
    <3> HIDE DEF r
    <3> QED
      BY <3>1, <3>2
  <2> QED
    BY <2>1, <2>2, <2>3
<1>5. calls' = Answer(calls, i, res)
  BY <1>4, Zenon DEF Overview!Served, Answer
<1>6. /\ InFlight(calls') /\ DOMAIN calls' = DOMAIN calls
      /\ \A k \in DOMAIN calls : k # i => calls'[k] = calls[k]
      /\ calls'[i].op = op /\ calls'[i].res = res
  <2> DEFINE c == [calls[i] EXCEPT !.st = "served", !.res = res]
  <2>1. InFlight(calls') /\ DOMAIN calls' = DOMAIN calls /\ calls'[i].op = op
    BY <1>2, <1>5, InFlightAnswer
  <2>2. calls' = [calls EXCEPT ![i] = c]
    BY <1>5 DEF Answer
  <2>3. c.res = res
    BY <1>2 DEF InFlight, CallFields
  <2> HIDE DEF c
  <2> QED
    BY <2>1, <2>2, <2>3
<1>7. ASSUME NEW k \in DOMAIN calls PROVE HomeCallTyped(calls'[k])
  <2>1. CASE k = i
    BY <1>4, <1>6, <2>1 DEF HomeCallTyped
  <2>2. CASE k # i
    BY <1>6, <2>2 DEF HomeTypes, HomeCallsTyped
  <2> QED
    BY <2>1, <2>2
<1>8. HomeCallsTyped(calls')
  BY <1>6, <1>7 DEF HomeCallsTyped
<1> QED
  BY <1>1, <1>2, <1>8 DEF HomeTypes

LEMMA SettledTyped ==
    ASSUME NEW u, HomeUiTyped(u)
    PROVE  HomeUiTyped(Overview!Settled(u)) /\ Overview!Settled(u).refresh = u.refresh
<1> DEFINE v == Overview!Settled(u)
           g == u.got
           w == [u EXCEPT !.loading = FALSE, !.summary = g]
<1>1. v = u \/ v = w
  BY DEF Overview!Settled
<1>2. g \in [Overview!Sources -> Overview!Results]
  BY DEF HomeUiTyped
<1> HIDE DEF v, g
<1>3. HomeUiTyped(w) /\ w.refresh = u.refresh
  BY <1>2 DEF HomeUiTyped, HomeFields
<1> HIDE DEF w
<1>4. HomeUiTyped(v) /\ v.refresh = u.refresh
  BY <1>1, <1>3
<1> QED
  BY <1>4 DEF v

LEMMA HomeTypesDeliverMe ==
    ASSUME HomeTypes, NEW i \in DOMAIN calls, Overview!DeliverMe(i)
    PROVE  HomeUiTyped(ui') /\ ui'.refresh = ui.refresh /\ HomeCallsTyped(calls')
<1> DEFINE t == Overview!Rest(i)
           then == calls[i].then
<1>1. calls[i].op = "me" /\ HomeUiTyped(ui) /\ HomeCallsTyped(calls)
  BY DEF Overview!DeliverMe, HomeTypes
<1>2. HomeCallsTyped(t)
  <2>1. t = Without(calls, i)
    BY Zenon DEF Overview!Rest, Overview!Without, Without
  <2> HIDE DEF t
  <2> QED
    BY <1>1, <2>1, HomeRestTyped
<1> HIDE DEF t
<1>3. PICK a \in Overview!Answers(i) :
          Overview!Show(IF a.ok
               THEN [u |-> Overview!Settled([ui EXCEPT !.known = TRUE, !.scopes = a.data.scopes,
                                    !.got = [s \in Overview!Sources |-> IF s \in Overview!Asked(a.data.scopes)
                                                               THEN "pending" ELSE "skipped"]]),
                     cs |-> t \o Overview!Reading(Overview!Asked(a.data.scopes), then)]
               ELSE [u |-> [ui EXCEPT !.known = TRUE, !.scopes = {}, !.loadError = TRUE,
                                      !.loading = FALSE, !.summary = Overview!NotAsked],
                     cs |-> t])
  BY Zenon DEF Overview!DeliverMe, t
<1>4. CASE a.ok
  <2> DEFINE sc == a.data.scopes
             asked == Overview!Asked(sc)
             g == [s \in Overview!Sources |-> IF s \in asked THEN "pending" ELSE "skipped"]
             w == [ui EXCEPT !.known = TRUE, !.scopes = sc, !.got = g]
             r == Overview!Reading(asked, then)
             v == Overview!Settled(w)
  <2>1. ui' = v /\ calls' = t \o r
    BY <1>3, <1>4 DEF Overview!Show
  <2>2. g \in [Overview!Sources -> Overview!Results]
    BY DEF Overview!Results
  <2>3. sc \in OverviewScopes
    <3>1. Overview!NetworkError.ok = FALSE
      BY DEF Overview!NetworkError, Overview!Refused
    <3>2. a = Overview!NetworkError \/ (calls[i].st = "served" /\ a = calls[i].res)
      BY DEF Overview!Answers
    <3>3. calls[i].st = "served" /\ calls[i].res.ok = TRUE => calls[i].res.data.scopes \in OverviewScopes
      BY <1>1 DEF HomeCallsTyped, HomeCallTyped
    <3> QED
      BY <1>4, <3>1, <3>2, <3>3
  <2>4. /\ InFlight(r)
        /\ \A k \in DOMAIN r : r[k].st = "sent"
    BY ReadingIs
  <2> HIDE DEF g, sc, then, r
  <2>5. HomeUiTyped(w) /\ w.refresh = ui.refresh
    BY <1>1, <2>2, <2>3 DEF HomeUiTyped, HomeFields
  <2> HIDE DEF w
  <2>6. HomeUiTyped(v) /\ v.refresh = ui.refresh
    BY <2>5, SettledTyped
  <2> HIDE DEF v
  <2> DEFINE cs == t \o r
  <2>7. FromBoth(cs, t, r)
    BY <1>2, <2>4, InFlightJoin DEF HomeCallsTyped, Joined
  <2>8. calls' = cs
    BY <2>1
  <2> HIDE DEF cs
  <2>9. \A k \in DOMAIN r : HomeCallTyped(r[k])
    BY <2>4 DEF HomeCallTyped
  <2>10. HomeCallsTyped(cs)
    BY <1>2, <2>7, <2>9 DEF FromBoth, HomeCallsTyped
  <2> QED
    BY <2>1, <2>6, <2>8, <2>10
<1>5. CASE ~a.ok
  <2> DEFINE n == Overview!NotAsked
             v == [ui EXCEPT !.known = TRUE, !.scopes = {}, !.loadError = TRUE, !.loading = FALSE,
                             !.summary = n]
  <2>1. ui' = v /\ calls' = t
    BY <1>3, <1>5 DEF Overview!Show
  <2>2. n \in [Overview!Sources -> Overview!Results]
    BY SkippedAreTyped
  <2> HIDE DEF n
  <2>3. HomeUiTyped(v) /\ v.refresh = ui.refresh
    BY <1>1, <2>2 DEF HomeUiTyped, HomeFields
  <2> HIDE DEF v
  <2> QED
    BY <1>2, <2>1, <2>3
<1> QED
  BY <1>4, <1>5

LEMMA HomeTypesDeliverSource ==
    ASSUME HomeTypes, NEW i \in DOMAIN calls, Overview!DeliverSource(i)
    PROVE  HomeUiTyped(ui') /\ ui'.refresh = ui.refresh /\ HomeCallsTyped(calls')
<1> DEFINE t == Overview!Rest(i)
           s == calls[i].op
<1>1. s \in Overview!Sources /\ HomeUiTyped(ui) /\ HomeCallsTyped(calls)
  BY DEF Overview!DeliverSource, HomeTypes
<1>2. HomeCallsTyped(t)
  <2>1. t = Without(calls, i)
    BY Zenon DEF Overview!Rest, Overview!Without, Without
  <2> HIDE DEF t
  <2> QED
    BY <1>1, <2>1, HomeRestTyped
<1>3. PICK a \in Overview!Answers(i) :
          Overview!Show([u |-> Overview!Settled([ui EXCEPT !.got[s] = IF a.ok THEN a.data.value ELSE "failed"]),
                         cs |-> t])
  BY Zenon DEF Overview!DeliverSource, t, s
<1> DEFINE b == IF a.ok THEN a.data.value ELSE "failed"
           g == [ui.got EXCEPT ![s] = b]
           w == [ui EXCEPT !.got = g]
           v == Overview!Settled(w)
<1>4. b \in Overview!Results
  <2>1. Overview!NetworkError.ok = FALSE
    BY DEF Overview!NetworkError, Overview!Refused
  <2>2. a = Overview!NetworkError \/ (calls[i].st = "served" /\ a = calls[i].res)
    BY DEF Overview!Answers
  <2>3. calls[i].st = "served" /\ calls[i].res.ok = TRUE => calls[i].res.data.value \in {"on", "off"}
    BY <1>1, SourcesApart DEF HomeCallsTyped, HomeCallTyped
  <2> QED
    BY <2>1, <2>2, <2>3 DEF Overview!Results
<1>5. ui' = v /\ calls' = t
  BY <1>3, <1>1 DEF Overview!Show, HomeUiTyped, HomeFields
<1> HIDE DEF t, b, s
<1>6. g \in [Overview!Sources -> Overview!Results]
  BY <1>1, <1>4 DEF HomeUiTyped
<1> HIDE DEF g
<1>7. HomeUiTyped(w) /\ w.refresh = ui.refresh
  BY <1>1, <1>6 DEF HomeUiTyped, HomeFields
<1> HIDE DEF w
<1>8. HomeUiTyped(v) /\ v.refresh = ui.refresh
  BY <1>7, SettledTyped
<1> QED
  BY <1>2, <1>5, <1>8

LEMMA HomeTypesDeliver ==
    ASSUME HomeTypes, NEW i \in DOMAIN calls, Overview!Deliver(i)
    PROVE  HomeUiTyped(ui') /\ ui'.refresh = ui.refresh /\ HomeDbTyped(db') /\ HomeCallsTyped(calls')
<1>1. db' = db /\ HomeDbTyped(db)
  BY DEF Overview!Deliver, HomeTypes
<1>2. CASE Overview!DeliverLate(i)
  <2>1. ui' = ui /\ calls' = Without(calls, i)
    BY <1>2, Zenon DEF Overview!DeliverLate, Overview!Show, Overview!Rest, Overview!Without, Without
  <2>2. HomeUiTyped(ui) /\ HomeCallsTyped(calls)
    BY DEF HomeTypes
  <2> QED
    BY <1>1, <2>1, <2>2, HomeRestTyped
<1> QED
  BY <1>1, <1>2, HomeTypesDeliverMe, HomeTypesDeliverSource DEF Overview!Deliver

LEMMA HomeTypesClick ==
    ASSUME HomeTypes, Overview!Click \/ Overview!RoleChanges \/ Overview!SettingChanges
    PROVE  /\ HomeUiTyped(ui') /\ ui'.refresh <= ui.refresh + 1
           /\ HomeDbTyped(db') /\ HomeCallsTyped(calls')
<1>1. /\ HomeUiTyped(ui) /\ HomeDbTyped(db) /\ HomeCallsTyped(calls)
      /\ ui.refresh \in Nat /\ ui.query \in BOOLEAN
  BY DEF HomeTypes, HomeUiTyped
<1>2. CASE Overview!Retry /\ db' = db
  <2> DEFINE n == ui.refresh + 1
             q == ui.query
             v == [Overview!Mounted EXCEPT !.query = q, !.refresh = n]
             c == Overview!Load(n)
             cs == Append(calls, c)
  <2>1. ui' = v /\ calls' = cs
    BY <1>2 DEF Overview!Retry, Overview!Send
  <2>2. n \in Nat /\ n <= ui.refresh + 1
    BY <1>1
  <2> HIDE DEF n, q
  <2>3. HomeUiTyped(v) /\ v.refresh = n
    BY <1>1, <2>2, HomeMountedTyped DEF q
  <2>4. DOMAIN c = CallFields /\ HomeCallTyped(c)
    BY HomeLoadTyped
  <2> HIDE DEF v, c
  <2>5. /\ InFlight(cs) /\ \A k \in DOMAIN calls : cs[k] = calls[k]
        /\ \A k \in DOMAIN cs : k \in DOMAIN calls \/ cs[k] = c
    BY <1>1, <2>4, InFlightAppend DEF HomeCallsTyped
  <2> HIDE DEF cs
  <2>6. HomeCallsTyped(cs)
    BY <1>1, <2>4, <2>5 DEF HomeCallsTyped
  <2> QED
    BY <1>1, <1>2, <2>1, <2>2, <2>3, <2>6
<1>3. CASE Overview!Search /\ db' = db
  <2> DEFINE q == ~ui.query
             v == [ui EXCEPT !.query = q]
  <2>1. calls' = calls /\ ui' = v
    BY <1>1, <1>3 DEF Overview!Search, Overview!Set, HomeUiTyped, HomeFields
  <2>2. q \in BOOLEAN
    OBVIOUS
  <2> HIDE DEF q
  <2>3. HomeUiTyped(v) /\ v.refresh = ui.refresh
    BY <1>1, <2>2 DEF HomeUiTyped, HomeFields
  <2> HIDE DEF v
  <2> QED
    BY <1>1, <1>3, <2>1, <2>3
<1>4. CASE Overview!RoleChanges
  <2>1. PICK g \in OverviewScopes : db' = [db EXCEPT !.scopes = g] /\ UNCHANGED <<ui, calls>>
    BY <1>4, Zenon DEF Overview!RoleChanges
  <2>2. HomeDbTyped(db')
    BY <1>1, <2>1 DEF HomeDbTyped
  <2> QED
    BY <1>1, <2>1, <2>2
<1>5. CASE Overview!SettingChanges
  <2>1. PICK s \in Overview!Sources :
            db' = [db EXCEPT !.on[s] = IF @ = "on" THEN "off" ELSE "on"] /\ UNCHANGED <<ui, calls>>
    BY <1>5, Zenon DEF Overview!SettingChanges
  <2> DEFINE b == IF db.on[s] = "on" THEN "off" ELSE "on"
             f == [db.on EXCEPT ![s] = b]
             d == [db EXCEPT !.on = f]
  <2>2. db' = d
    BY <1>1, <2>1 DEF HomeDbTyped
  <2>3. b \in {"on", "off"}
    OBVIOUS
  <2> HIDE DEF b
  <2>4. f \in [Overview!Sources -> {"on", "off"}]
    BY <1>1, <2>3 DEF HomeDbTyped
  <2> HIDE DEF f
  <2>5. HomeDbTyped(d)
    BY <1>1, <2>4 DEF HomeDbTyped
  <2> QED
    BY <1>1, <2>1, <2>2, <2>5
<1> QED
  BY <1>2, <1>3, <1>4, <1>5 DEF Overview!Click

LEMMA HomeTypesNext == ASSUME HomeTypes, OverviewInv, Overview!Next \/ Still PROVE HomeTypes'
<1> DEFINE n == ui.refresh
           m == ui'.refresh
<1>1. HomeUiTyped(ui) /\ HomeDbTyped(db) /\ HomeCallsTyped(calls) /\ clicks \in Nat /\ n <= clicks
      /\ clicks <= MaxClicks["settings"] /\ n \in Nat
  BY DEF HomeTypes, HomeUiTyped
<1>2. CASE Still
  BY <1>1, <1>2 DEF Still, HomeTypes
<1>3. ASSUME NEW i \in DOMAIN calls, Overview!Serve(i) \/ Overview!Deliver(i), clicks' = clicks PROVE HomeTypes'
  <2>1. HomeUiTyped(ui') /\ m = n /\ HomeDbTyped(db') /\ HomeCallsTyped(calls')
    BY <1>3, HomeTypesServe, HomeTypesDeliver
  <2> QED
    BY <1>1, <1>3, <2>1 DEF HomeTypes
<1>4. CASE Overview!UserActs /\ (Overview!Click \/ Overview!RoleChanges \/ Overview!SettingChanges)
  <2>1. HomeUiTyped(ui') /\ m <= n + 1 /\ HomeDbTyped(db') /\ HomeCallsTyped(calls')
    BY <1>4, HomeTypesClick
  <2>2. clicks' = clicks + 1 /\ clicks < MaxClicks["settings"]
    BY <1>4 DEF Overview!UserActs
  <2>3. m \in Nat
    BY <2>1 DEF HomeUiTyped
  <2> HIDE DEF n, m
  <2>4. clicks' \in Nat /\ m <= clicks' /\ clicks' <= MaxClicks["settings"]
    BY <1>1, <2>1, <2>2, <2>3, ClicksAssumption
  <2> QED
    BY <2>1, <2>4 DEF HomeTypes, m
<1> QED
  BY <1>2, <1>3, <1>4 DEF Overview!Next

LEMMA OverviewTyped == ASSUME HomeTypes PROVE Overview!TypeOK
<1>1. HomeUiTyped(ui) /\ HomeDbTyped(db) /\ ui.refresh <= MaxClicks["settings"]
  BY ClicksAssumption DEF HomeTypes, HomeUiTyped
<1> QED
  BY <1>1, ClicksAssumption DEF HomeUiTyped, HomeDbTyped, Overview!TypeOK

-----------------------------------------------------------------------------
(* The language: whatever the path, the cookie and the header are, the      *)
(* language served is one of the two.                                       *)
Cookies == Locales \cup {"none"}
Themes == {"dark", "light"}
Less == {ss \in Nat \X Nat : ss[1] < ss[2]}

LEMMA LeastOf == ASSUME NEW T, T \subseteq Nat, T # {} PROVE \E k \in T : \A j \in T : k <= j
<1>1. Less = OpToRel(<, Nat)
  BY DEF Less, OpToRel
<1>2. IsWellFoundedOn(Less, Nat)
  BY <1>1, NatLessThanWellFounded, Zenon
<1>3. PICK k \in T : \A j \in T : <<j, k>> \notin Less
  BY <1>2, WFMin
<1>4. ASSUME NEW j \in T PROVE k <= j
  <2>1. <<j, k>> \notin Less /\ j \in Nat /\ k \in Nat
    BY <1>3
  <2> QED
    BY <2>1 DEF Less
<1> QED
  BY <1>4

LEMMA PreferredTyped == ASSUME NEW header \in AcceptLanguages PROVE Language!PreferredLocale(header) \in Locales
<1> DEFINE usable == {k \in DOMAIN header : Language!Usable(header[k])}
           best == {k \in usable : \A j \in usable : header[j].q <= header[k].q}
           first == CHOOSE k \in best : \A j \in best : k <= j
<1>1. Language!PreferredLocale(header) =
          IF best = {} THEN Language!DefaultLocale ELSE Language!MatchTag(header[first].tag)
  BY Zenon DEF Language!PreferredLocale
<1>2. best \subseteq DOMAIN header /\ \A k \in best : Language!Usable(header[k])
  OBVIOUS
<1> HIDE DEF best
<1>3. CASE best = {}
  BY <1>1, <1>3 DEF Language!DefaultLocale, Locales
<1>4. CASE best # {}
  <2>1. best \subseteq Nat
    BY <1>2, HeadersAssumption
  <2>2. \E k \in best : \A j \in best : k <= j
    BY <1>4, <2>1, LeastOf
  <2>3. first \in best
    BY <2>2, Zenon
  <2> HIDE DEF first
  <2>4. Language!Usable(header[first])
    BY <1>2, <2>3
  <2>5. Language!MatchTag(header[first].tag) \in Locales
    BY <2>4 DEF Language!Usable, Language!MatchTag, Locales
  <2> QED
    BY <1>1, <1>4, <2>5
<1> QED
  BY <1>3, <1>4

LEMMA RequestTyped ==
    ASSUME NEW path, NEW cookie, NEW accept \in AcceptLanguages
    PROVE  Language!RequestLocale(path, cookie, accept) \in Locales
BY PreferredTyped DEF Language!RequestLocale, Language!LandingLocale, Language!IsLocale, Locales

Visitor(u) == u.cookie \in Cookies /\ u.accept \in AcceptLanguages /\ u.stored \in Themes
LanguageUiTyped(u) ==
    /\ DOMAIN u = LanguageFields /\ Visitor(u) /\ u.path \in Language!Paths
    /\ u.shown \in Locales /\ u.selected \in Locales /\ u.theme \in Themes
    /\ u.header.register => u.header.entry = "signIn"
LanguageTypes == LanguageUiTyped(ui)

LEMMA DocumentTyped ==
    ASSUME NEW p \in Language!Paths, NEW u, Visitor(u), NEW v \in Language!Document(p, u)
    PROVE  LanguageUiTyped(v)
<1> DEFINE l == Language!RequestLocale(p, u.cookie, u.accept)
<1>1. PICK h \in Language!Headers(db.live, db.cached) :
          v = [path |-> p, shown |-> l, selected |-> l, header |-> h,
               theme |-> u.stored, stored |-> u.stored, cookie |-> u.cookie, accept |-> u.accept,
               crashed |-> FALSE]
  BY Zenon DEF Language!Document
<1>2. l \in Locales
  BY RequestTyped DEF Visitor
<1>3. h.register => h.entry = "signIn"
  <2>1. PICK s \in {db.live, FALSE}, o \in {db.cached, TRUE} :
            h = [entry |-> IF s THEN "console" ELSE "signIn", register |-> ~s /\ o]
    BY SMT DEF Language!Headers
  <2> DEFINE e == IF s THEN "console" ELSE "signIn"
             r == ~s /\ o
  <2>2. r => e = "signIn"
    OBVIOUS
  <2>3. h = [entry |-> e, register |-> r]
    BY <2>1
  <2> HIDE DEF e, r
  <2>4. h.entry = e /\ (h.register <=> r)
    BY <2>3
  <2> QED
    BY <2>2, <2>4
<1> HIDE DEF l
<1> QED
  BY <1>1, <1>2, <1>3 DEF LanguageUiTyped, Visitor, LanguageFields

LEMMA LanguageTypesInit == ASSUME Language!Init PROVE LanguageTypes
<1>1. PICK a \in AcceptLanguages, path \in Language!Paths, c \in {"none", "en", "zh-CN"} :
          ui \in Language!Document(path, [cookie |-> c, accept |-> a, stored |-> "dark"])
  BY Zenon DEF Language!Init
<1> DEFINE u == [cookie |-> c, accept |-> a, stored |-> "dark"]
<1>2. Visitor(u)
  BY DEF Visitor, Cookies, Locales, Themes
<1> HIDE DEF u
<1> QED
  BY <1>1, <1>2, DocumentTyped DEF LanguageTypes, u

LEMMA LanguageTypesDeliver ==
    ASSUME LanguageTypes, LanguageInv, NEW i \in DOMAIN calls, Language!Deliver(i) PROVE LanguageTypes'
<1> DEFINE next == calls[i].arg.locale
           v == [ui EXCEPT !.cookie = next]
<1>1. LanguageUiTyped(ui) /\ next \in Locales
  BY LanguageCallHas DEF LanguageTypes, LanguageInv
<1> HIDE DEF next
<1>2. \/ ui' = [ui EXCEPT !.crashed = TRUE]
      \/ ui' \in Language!Document(Language!LandingOf(next), v)
      \/ ui' = Language!Rendered(ui, next)
  BY DEF Language!Deliver, Language!Show, next
<1>3. CASE ui' = [ui EXCEPT !.crashed = TRUE]
  BY <1>1, <1>3 DEF LanguageTypes, LanguageUiTyped, LanguageFields, Visitor
<1>4. CASE ui' \in Language!Document(Language!LandingOf(next), v)
  <2>1. Visitor(v)
    BY <1>1 DEF LanguageUiTyped, LanguageFields, Visitor, Cookies
  <2>2. Language!LandingOf(next) \in Language!Paths
    BY DEF Language!LandingOf, Language!Paths, Language!Landings
  <2> HIDE DEF v
  <2> QED
    BY <1>4, <2>1, <2>2, DocumentTyped DEF LanguageTypes
<1>5. CASE ui' = Language!Rendered(ui, next)
  <2> DEFINE shown == Language!RequestLocale(ui.path, next, ui.accept)
             sel == IF shown = ui.shown THEN ui.selected ELSE shown
  <2>1. shown \in Locales
    BY <1>1, RequestTyped DEF LanguageUiTyped, Visitor
  <2>2. ui' = [ui EXCEPT !.cookie = next, !.shown = shown, !.selected = sel]
    BY <1>5 DEF Language!Rendered
  <2>3. sel \in Locales
    BY <1>1, <2>1 DEF LanguageUiTyped
  <2> HIDE DEF shown, sel
  <2> QED
    BY <1>1, <2>1, <2>2, <2>3 DEF LanguageTypes, LanguageUiTyped, LanguageFields, Visitor, Cookies
<1> QED
  BY <1>2, <1>3, <1>4, <1>5

LEMMA LanguageTypesClick == ASSUME LanguageTypes, Language!Click PROVE LanguageTypes'
<1>1. LanguageUiTyped(ui)
  BY DEF LanguageTypes
<1>2. ASSUME NEW l \in {"en", "zh-CN"}, Language!Choose(l) PROVE LanguageTypes'
  <2>1. ui' = [ui EXCEPT !.selected = l]
    BY <1>2, Zenon DEF Language!Choose, Language!Send
  <2> QED
    BY <1>1, <2>1 DEF LanguageTypes, LanguageUiTyped, LanguageFields, Visitor, Locales
<1>3. ASSUME NEW theme \in Themes, Language!SetTheme(theme) PROVE LanguageTypes'
  <2>1. ui' = [ui EXCEPT !.theme = theme, !.stored = theme]
    BY <1>3 DEF Language!SetTheme, Language!Set
  <2> QED
    BY <1>1, <2>1 DEF LanguageTypes, LanguageUiTyped, LanguageFields, Visitor
<1>4. ASSUME NEW p \in Language!Paths, Language!Visit(p) PROVE LanguageTypes'
  <2>1. ui' \in Language!Document(p, ui)
    BY <1>4 DEF Language!Visit, Language!Show
  <2> QED
    BY <1>1, <2>1, DocumentTyped DEF LanguageTypes, LanguageUiTyped
<1> QED
  BY <1>2, <1>3, <1>4 DEF Language!Click, Themes

LEMMA LanguageTypesNext == ASSUME LanguageTypes, LanguageInv, Language!Next \/ Still PROVE LanguageTypes'
<1>1. CASE ui' = ui
  BY <1>1 DEF LanguageTypes
<1>2. ASSUME NEW i \in DOMAIN calls, Language!Serve(i) PROVE ui' = ui
  BY <1>2 DEF Language!Serve
<1> QED
  BY <1>1, <1>2, LanguageTypesClick, LanguageTypesDeliver
     DEF Language!Next, Language!SignUpChanges, Language!CacheExpires, Still

LEMMA LanguageTyped == ASSUME LanguageTypes PROVE Language!TypeOK
<1>1. LanguageUiTyped(ui)
  BY DEF LanguageTypes
<1> QED
  BY <1>1 DEF LanguageUiTyped, Visitor, Language!TypeOK, Language!IsLocale, Locales, Cookies, Themes

-----------------------------------------------------------------------------
LEMMA CountdownTyped == ASSUME CountdownInv PROVE Interstitial!TypeOK
<1>1. /\ ui \in CountdownUi /\ db \in CountdownDb
      /\ ui.startedAt <= db.now /\ ui.remaining <= db.duration /\ db.ran <= db.now
  BY DEF CountdownInv, InAccount
<1>2. /\ ui.remaining \in Nat /\ ui.startedAt \in Nat /\ ui.paused \in BOOLEAN /\ ui.leaving \in BOOLEAN
      /\ ui.details \in BOOLEAN /\ ui.away \in BOOLEAN /\ ui.background \in BOOLEAN
      /\ db.now \in Nat /\ db.ran \in Nat /\ db.duration \in Nat
  BY <1>1 DEF CountdownUi, CountdownDb
<1> QED
  BY <1>1, <1>2 DEF Interstitial!TypeOK

(* The shell: the focus is on a control there is, and the scopes it shows   *)
(* are those of an account.                                                 *)
Focuses == {"page", "menuButton", "closeButton", "trigger"}
Groups == {"auto", "open", "closed"}
Outs == {"no", "leaving", "left"}
ShellUiTyped(u) ==
    /\ DOMAIN u = ShellFields
    /\ u.desktop \in BOOLEAN /\ u.drawer \in BOOLEAN /\ u.menu \in BOOLEAN /\ u.user \in BOOLEAN
    /\ u.focus \in Focuses /\ u.path \in ShellPaths /\ u.scopes \in ShellScopes \cup {{}}
    /\ u.group \in Groups /\ u.out \in Outs
    /\ u.trackers \subseteq Console!Ids /\ u.loaded \subseteq Console!Told
ShellCallTyped(c) == c.st = "served" => c.res.data.scopes \in ShellScopes
ShellCallsTyped(cs) == InFlight(cs) /\ \A k \in DOMAIN cs : ShellCallTyped(cs[k])
ShellDbTyped(d) == DOMAIN d = {"scopes", "tracking"} /\ d.scopes \in ShellScopes
ShellTypes == ShellUiTyped(ui) /\ ShellDbTyped(db) /\ ShellCallsTyped(calls)

LEMMA TrackersAre == ASSUME NEW raw PROVE Console!Trackers(raw) \subseteq Console!Ids
BY DEF Console!Trackers

LEMMA ShellGetTyped == ASSUME NEW op PROVE LET c == Console!Get(op, Console!Effect) IN DOMAIN c = CallFields /\ ShellCallTyped(c)
BY DEF Console!Get, Console!Call, CallFields, ShellCallTyped

LEMMA ShellTypesInit == ASSUME Console!Init PROVE ShellTypes
<1> DEFINE c == Console!Get("me", Console!Effect)
<1>1. /\ db \in [scopes : ShellScopes, tracking : Trackings] /\ calls = <<c>>
      /\ \E path \in ShellPaths, desktop \in BOOLEAN :
             ui = [Console!Mounted(path, desktop) EXCEPT !.trackers = Console!Trackers(db.tracking)]
  BY Zenon DEF Console!Init
<1>2. PICK path \in ShellPaths, desktop \in BOOLEAN :
             ui = [Console!Mounted(path, desktop) EXCEPT !.trackers = Console!Trackers(db.tracking)]
  BY <1>1
<1>3. ShellDbTyped(db)
  BY <1>1 DEF ShellDbTyped
<1>4. ShellUiTyped(ui)
  <2> DEFINE t == Console!Trackers(db.tracking)
             log == [f \in Console!Told |-> <<>>]
             m == [desktop |-> desktop, drawer |-> FALSE, focus |-> "page", path |-> path, visit |-> 1, seen |-> 1,
                   menu |-> FALSE, group |-> "auto", user |-> FALSE, scopes |-> {}, out |-> "no",
                   trackers |-> {}, log |-> log, loaded |-> {}]
  <2>1. Console!Mounted(path, desktop) = m
    BY Zenon DEF Console!Mounted
  <2>2. t \subseteq Console!Ids
    BY TrackersAre
  <2>3. ui = [m EXCEPT !.trackers = t]
    BY <1>2, <2>1
  <2> HIDE DEF t, log
  <2>4. /\ DOMAIN ui = ShellFields /\ ui.desktop = desktop /\ ui.drawer = FALSE /\ ui.menu = FALSE
        /\ ui.user = FALSE /\ ui.focus = "page" /\ ui.path = path /\ ui.scopes = {} /\ ui.group = "auto"
        /\ ui.out = "no" /\ ui.trackers = t /\ ui.loaded = {}
    BY <2>3 DEF ShellFields
  <2> HIDE DEF m
  <2> QED
    BY <2>2, <2>4 DEF ShellUiTyped, Focuses, Groups, Outs
<1>5. DOMAIN c = CallFields /\ ShellCallTyped(c)
  BY ShellGetTyped
<1> HIDE DEF c
<1>6. calls \in Seq({c}) /\ DOMAIN calls = {1} /\ calls[1] = c
  BY <1>1
<1>7. InFlight(calls)
  <2>1. PICK S : S = {c}
    OBVIOUS
  <2>2. calls \in Seq(S) /\ \A d \in S : DOMAIN d = CallFields
    BY <1>5, <1>6, <2>1
  <2> QED
    BY <2>2, InFlightSeq
<1> QED
  BY <1>3, <1>4, <1>5, <1>6, <1>7 DEF ShellTypes, ShellCallsTyped

LEMMA ShellTypesServe ==
    ASSUME ShellTypes, NEW i \in DOMAIN calls, Console!Serve(i) PROVE ShellTypes'
<1> DEFINE data == [scopes |-> db.scopes]
           res == Console!Ok(data)
           c == [calls[i] EXCEPT !.st = "served", !.res = res]
<1>1. ui' = ui /\ db' = db /\ calls' = Answer(calls, i, res)
  BY Zenon DEF Console!Serve, Console!Served, Answer
<1>2. res.data.scopes \in ShellScopes
  BY DEF Console!Ok, ShellTypes, ShellDbTyped
<1> HIDE DEF res
<1>3. InFlight(calls') /\ DOMAIN calls' = DOMAIN calls
  BY <1>1, InFlightAnswer DEF ShellTypes, ShellCallsTyped
<1>4. calls' = [calls EXCEPT ![i] = c]
  BY <1>1 DEF Answer
<1>5. c.res = res
  BY DEF ShellTypes, ShellCallsTyped, InFlight, CallFields
<1> HIDE DEF c
<1>6. ASSUME NEW k \in DOMAIN calls PROVE ShellCallTyped(calls'[k])
  BY <1>2, <1>4, <1>5 DEF ShellTypes, ShellCallsTyped, ShellCallTyped
<1> QED
  BY <1>1, <1>3, <1>6 DEF ShellTypes, ShellCallsTyped

LEMMA ReportsTyped == ASSUME NEW u, ShellUiTyped(u) PROVE ShellUiTyped(Console!Reports(u))
<1> DEFINE log == [f \in Console!Told |-> IF f \in u.trackers \cap u.loaded
                                  THEN Append(u.log[f], u.visit) ELSE u.log[f]]
           n == u.visit
           w == [u EXCEPT !.seen = n, !.log = log]
           v == Console!Reports(u)
<1>1. v = u \/ v = w
  BY DEF Console!Reports
<1> HIDE DEF log, n, v
<1>2. ShellUiTyped(w)
  BY DEF ShellUiTyped, ShellFields
<1> HIDE DEF w
<1>3. ShellUiTyped(v)
  BY <1>1, <1>2
<1> QED
  BY <1>3 DEF v

LEMMA ClosedTyped == ASSUME NEW u, ShellUiTyped(u) PROVE ShellUiTyped(Console!Closed(u))
<1> DEFINE f == IF u.desktop THEN u.focus ELSE "menuButton"
           w == [u EXCEPT !.drawer = FALSE, !.focus = f]
           v == Console!Closed(u)
<1>1. v = u \/ v = w
  BY DEF Console!Closed
<1>2. f \in Focuses
  BY DEF ShellUiTyped, Focuses
<1> HIDE DEF f, v
<1>3. ShellUiTyped(w)
  BY <1>2 DEF ShellUiTyped, ShellFields
<1> HIDE DEF w
<1>4. ShellUiTyped(v)
  BY <1>1, <1>3
<1> QED
  BY <1>4 DEF v

LEMMA ArriveTyped ==
    ASSUME NEW u, NEW path \in ShellPaths, ShellUiTyped(u) PROVE ShellUiTyped(Console!Arrive(u, path))
<1> DEFINE n == u.visit + 1
           w == [u EXCEPT !.path = path, !.visit = n]
<1>1. \/ Console!Arrive(u, path) = u
      \/ Console!Arrive(u, path) = Console!Reports(Console!Closed(w))
  BY DEF Console!Arrive
<1> HIDE DEF n
<1>2. ShellUiTyped(w)
  BY DEF ShellUiTyped, ShellFields
<1> HIDE DEF w
<1>3. ShellUiTyped(Console!Reports(Console!Closed(w)))
  BY <1>2, ClosedTyped, ReportsTyped
<1> QED
  BY <1>1, <1>3

LEMMA DrawerTyped ==
    ASSUME ShellUiTyped(ui),
           \/ Console!Open \/ Console!Close \/ Console!Resize \/ Console!ToggleGroup
           \/ Console!ToggleMenu \/ Console!EscapeMenu \/ Console!PointElsewhere
    PROVE  ShellUiTyped(ui') /\ calls' = calls
<1>1. CASE Console!Open
  BY <1>1 DEF Console!Open, Console!Set, ShellUiTyped, ShellFields, Focuses
<1>2. CASE Console!Close
  BY <1>2, ClosedTyped DEF Console!Close, Console!Set
<1>3. CASE Console!Resize
  <2> DEFINE f == IF ui.drawer /\ ui.desktop THEN "closeButton" ELSE ui.focus
             d == ~ui.desktop
             v == [ui EXCEPT !.desktop = d, !.focus = f]
  <2>1. ui' = v /\ calls' = calls
    BY <1>3 DEF Console!Resize, Console!Set, ShellUiTyped, ShellFields
  <2>2. f \in Focuses /\ d \in BOOLEAN
    BY DEF ShellUiTyped, Focuses
  <2> HIDE DEF f, d
  <2>3. ShellUiTyped(v)
    BY <2>2 DEF ShellUiTyped, ShellFields
  <2> HIDE DEF v
  <2> QED
    BY <2>1, <2>3
<1>4. CASE Console!ToggleGroup
  <2> DEFINE g == IF Console!GroupOpen(ui) THEN "closed" ELSE "open"
  <2>1. ui' = [ui EXCEPT !.group = g] /\ calls' = calls
    BY <1>4 DEF Console!ToggleGroup, Console!Set
  <2>2. g \in Groups
    BY DEF Groups
  <2> HIDE DEF g
  <2> QED
    BY <2>1, <2>2 DEF ShellUiTyped, ShellFields
<1>5. CASE Console!ToggleMenu
  <2> DEFINE m == ~ui.menu
             v == [ui EXCEPT !.menu = m]
  <2>1. ui' = v /\ calls' = calls
    BY <1>5 DEF Console!ToggleMenu, Console!Set, ShellUiTyped, ShellFields
  <2>2. m \in BOOLEAN
    OBVIOUS
  <2> HIDE DEF m
  <2>3. ShellUiTyped(v)
    BY <2>2 DEF ShellUiTyped, ShellFields
  <2> HIDE DEF v
  <2> QED
    BY <2>1, <2>3
<1>6. CASE Console!EscapeMenu \/ Console!PointElsewhere
  BY <1>6 DEF Console!EscapeMenu, Console!PointElsewhere, Console!Set, ShellUiTyped, ShellFields, Focuses
<1> QED
  BY <1>1, <1>2, <1>3, <1>4, <1>5, <1>6

LEMMA RerenderTyped ==
    ASSUME ShellUiTyped(ui), Console!Rerender PROVE ShellUiTyped(ui') /\ calls' = calls
<1>1. PICK now \in {Console!Trackers(db.tracking), {}} :
          Console!Set(IF ui.trackers = {} /\ now # {}
                      THEN [ui EXCEPT !.trackers = now, !.seen = ui.visit]
                      ELSE Console!Reports([ui EXCEPT !.trackers = now]))
  BY DEF Console!Rerender
<1> DEFINE n == ui.visit
           v == [ui EXCEPT !.trackers = now, !.seen = n]
           w == [ui EXCEPT !.trackers = now]
<1>2. calls' = calls /\ (ui' = v \/ ui' = Console!Reports(w))
  BY <1>1 DEF Console!Set
<1>3. now \subseteq Console!Ids
  BY TrackersAre
<1> HIDE DEF n
<1>4. ShellUiTyped(v) /\ ShellUiTyped(w)
  BY <1>3 DEF ShellUiTyped, ShellFields
<1> HIDE DEF v, w
<1>5. ShellUiTyped(Console!Reports(w))
  BY <1>4, ReportsTyped
<1> QED
  BY <1>2, <1>4, <1>5

LEMMA FollowTyped ==
    ASSUME ShellUiTyped(ui), NEW p \in ShellPaths,
           Console!FollowSidebar(p) \/ Console!FollowPage(p) \/ Console!Back(p) \/ Console!FollowMenu(p)
    PROVE  ShellUiTyped(ui') /\ calls' = calls
<1>1. CASE Console!FollowSidebar(p) \/ Console!FollowPage(p) \/ Console!Back(p)
  BY <1>1, ArriveTyped DEF Console!FollowSidebar, Console!FollowPage, Console!Back, Console!Set
<1>2. CASE Console!FollowMenu(p)
  <2> DEFINE u == [ui EXCEPT !.menu = FALSE]
  <2>1. ui' = Console!Arrive(u, p) /\ calls' = calls
    BY <1>2 DEF Console!FollowMenu, Console!Set
  <2>2. ShellUiTyped(u)
    BY DEF ShellUiTyped, ShellFields
  <2> HIDE DEF u
  <2> QED
    BY <2>1, <2>2, ArriveTyped
<1> QED
  BY <1>1, <1>2

LEMMA LogoutTyped ==
    ASSUME ShellUiTyped(ui), ShellCallsTyped(calls), Console!Logout
    PROVE  ShellUiTyped(ui') /\ ShellCallsTyped(calls')
<1> DEFINE c == Console!Get("logout", Console!Effect)
           cs == Append(calls, c)
<1>1. ui' = [ui EXCEPT !.menu = FALSE, !.out = "leaving"] /\ calls' = cs
  BY Zenon DEF Console!Logout, Console!Send
<1>2. DOMAIN c = CallFields /\ ShellCallTyped(c)
  BY ShellGetTyped
<1> HIDE DEF c
<1>3. /\ InFlight(cs) /\ \A k \in DOMAIN calls : cs[k] = calls[k]
      /\ \A k \in DOMAIN cs : k \in DOMAIN calls \/ cs[k] = c
  BY <1>2, InFlightAppend DEF ShellCallsTyped
<1> HIDE DEF cs
<1>4. ShellCallsTyped(cs)
  BY <1>2, <1>3 DEF ShellCallsTyped
<1>5. ShellUiTyped(ui')
  BY <1>1 DEF ShellUiTyped, ShellFields, Outs
<1> QED
  BY <1>1, <1>4, <1>5

LEMMA LoadsTyped ==
    ASSUME ShellUiTyped(ui), NEW f \in Console!Told, Console!Loads(f)
    PROVE  ShellUiTyped(ui') /\ calls' = calls
<1> DEFINE log == [ui.log EXCEPT ![f] = Append(@, ui.visit)]
           l == ui.loaded \cup {f}
<1>1. ui' = [ui EXCEPT !.loaded = l, !.log = log] /\ calls' = calls
  BY DEF Console!Loads, Console!Set, ShellUiTyped, ShellFields
<1>2. l \subseteq Console!Told
  BY DEF ShellUiTyped
<1> HIDE DEF l, log
<1> QED
  BY <1>1, <1>2 DEF ShellUiTyped, ShellFields

LEMMA ShellTypesClick == ASSUME ShellTypes, Console!Click PROVE ShellTypes'
<1>1. ShellUiTyped(ui) /\ ShellDbTyped(db') /\ ShellCallsTyped(calls)
  BY DEF ShellTypes, Console!Click
<1>2. calls' = calls => ShellCallsTyped(calls')
  BY <1>1
<1> QED
  BY <1>1, <1>2, DrawerTyped, RerenderTyped, FollowTyped, LogoutTyped, LoadsTyped DEF Console!Click, ShellTypes

LEMMA ShellTypesDeliver == ASSUME ShellTypes, NEW i \in DOMAIN calls, Console!Deliver(i) PROVE ShellTypes'
<1>1. ShellUiTyped(ui) /\ ShellDbTyped(db') /\ ShellCallsTyped(calls)
  BY DEF ShellTypes, Console!Deliver
<1>2. CASE Console!DeliverMe(i)
  <2> DEFINE t == Console!Rest(i)
  <2>1. t = Without(calls, i)
    BY Zenon DEF Console!Rest, Console!Without, Without
  <2> HIDE DEF t
  <2>2. ShellCallsTyped(t)
    BY <1>1, <2>1, InFlightRest DEF ShellCallsTyped
  <2>3. PICK a \in Console!Answers(i) :
            Console!Show([u |-> [ui EXCEPT !.user = TRUE, !.scopes = IF a.ok THEN a.data.scopes ELSE {}],
                          cs |-> t])
    BY <1>2, Zenon DEF Console!DeliverMe, t
  <2> DEFINE s == IF a.ok THEN a.data.scopes ELSE {}
             v == [ui EXCEPT !.user = TRUE, !.scopes = s]
  <2>4. ui' = v /\ calls' = t
    BY <2>3 DEF Console!Show
  <2>5. s \in ShellScopes \cup {{}}
    <3>1. Console!NetworkError.ok = FALSE
      BY DEF Console!NetworkError, Console!Refused
    <3>2. a = Console!NetworkError \/ (calls[i].st = "served" /\ a = calls[i].res)
      BY DEF Console!Answers
    <3>3. calls[i].st = "served" => calls[i].res.data.scopes \in ShellScopes
      BY <1>1 DEF ShellCallsTyped, ShellCallTyped
    <3> QED
      BY <3>1, <3>2, <3>3
  <2> HIDE DEF s
  <2>6. ShellUiTyped(v)
    BY <1>1, <2>5 DEF ShellUiTyped, ShellFields
  <2> HIDE DEF v
  <2> QED
    BY <1>1, <2>2, <2>4, <2>6 DEF ShellTypes
<1>3. CASE Console!DeliverLogout(i)
  <2>1. ui' = [ui EXCEPT !.out = "left"] /\ calls' = <<>>
    BY <1>3, Zenon DEF Console!DeliverLogout, Console!Show
  <2>2. ShellUiTyped(ui')
    BY <1>1, <2>1 DEF ShellUiTyped, ShellFields, Outs
  <2>3. InFlight(calls') /\ DOMAIN calls' = {}
    BY <2>1 DEF InFlight
  <2> QED
    BY <1>1, <2>2, <2>3 DEF ShellTypes, ShellCallsTyped
<1> QED
  BY <1>2, <1>3 DEF Console!Deliver

LEMMA ShellTypesNext == ASSUME ShellTypes, Console!Next \/ Still PROVE ShellTypes'
<1>1. CASE Still
  BY <1>1 DEF Still, ShellTypes
<1>2. CASE Console!RoleChanges
  <2>1. PICK g \in ShellScopes : db' = [db EXCEPT !.scopes = g] /\ UNCHANGED <<ui, calls>>
    BY <1>2, Zenon DEF Console!RoleChanges
  <2>2. ShellDbTyped(db')
    BY <2>1 DEF ShellTypes, ShellDbTyped
  <2> QED
    BY <2>1, <2>2 DEF ShellTypes
<1> QED
  BY <1>1, <1>2, ShellTypesClick, ShellTypesServe, ShellTypesDeliver DEF Console!Next

LEMMA ShellTyped == ASSUME ShellTypes, TrackersInv PROVE Console!TypeOK
<1>1. ShellUiTyped(ui) /\ ui.seen = ui.visit
  BY DEF ShellTypes, TrackersInv, CountedSoFar
<1> QED
  BY <1>1 DEF ShellUiTyped, Focuses, Groups, Outs, Console!TypeOK

-----------------------------------------------------------------------------
(* The types of every page.  Each conjunct is inductive for its page: the  *)
(* types of its calls and of what the API keeps are part of it, and where  *)
(* they are not enough, the invariant of the page that is proved above.    *)
TypesInv ==
    /\ page = "audit" => AuditInv
    /\ page = "links" => ListTypes /\ ListInv
    /\ page = "newLink" => NewLinkInv
    /\ page = "editLink" => EditTypes
    /\ page = "users" => UsersInv
    /\ page = "roles" => RolesInv
    /\ page = "tokens" => TokensInv /\ clicks \in Nat
    /\ page = "security" => SecurityInv /\ clicks \in Nat
    /\ page = "dashboard" => DashboardInv
    /\ page = "settings" => HomeTypes /\ OverviewInv
    /\ page = "forms" => FormsInv /\ clicks \in Nat
    /\ page = "providers" => ProvidersInv
    /\ page = "session" => SessionTypes
    /\ page = "register" => RegisterInv
    /\ page = "toasts" => ToastTypes
    /\ page = "shell" => ShellTypes /\ TrackersInv
    /\ page = "language" => LanguageTypes /\ LanguageInv
    /\ page = "countdown" => CountdownInv
    /\ page = "stats" => StatsTypes /\ StatsInv

LEMMA TypesInit == Init => TypesInv
<1> SUFFICES ASSUME Init PROVE TypesInv
  OBVIOUS
<1>1. page = "audit" => AuditInv
  BY Mounts, AuditInit
<1>2. page = "links" => ListTypes /\ ListInv
  BY Mounts, ListTypesInit, ListInit
<1>3. page = "newLink" => NewLinkInv
  BY Mounts, NewLinkInit
<1>4. page = "editLink" => EditTypes
  BY Mounts, EditTypesInit
<1>5. page = "users" => UsersInv
  BY Mounts, UsersInit
<1>6. page = "roles" => RolesInv
  BY Mounts, RolesInit
<1>7. page = "tokens" => TokensInv /\ clicks \in Nat
  <2>1. TokenList!Init => clicks = 0
    BY DEF TokenList!Init
  <2> QED
    BY <2>1, Mounts, TokensInit
<1>8. page = "security" => SecurityInv /\ clicks \in Nat
  <2>1. Security!Init => clicks = 0
    BY DEF Security!Init
  <2> QED
    BY <2>1, Mounts, SecurityInit
<1>9. page = "dashboard" => DashboardInv
  BY Mounts, DashboardInit
<1>10. page = "settings" => HomeTypes /\ OverviewInv
  BY Mounts, HomeTypesInit, HomeInit
<1>11. page = "forms" => FormsInv /\ clicks \in Nat
  <2>1. Forms!Init => clicks = 0
    BY DEF Forms!Init
  <2> QED
    BY <2>1, Mounts, FormsInit
<1>12. page = "providers" => ProvidersInv
  BY Mounts, ProvidersInit
<1>13. page = "session" => SessionTypes
  BY Mounts, SessionTypesInit
<1>14. page = "register" => RegisterInv
  BY Mounts, RegisterInit
<1>15. page = "toasts" => ToastTypes
  BY Mounts, ToastTypesInit
<1>16. page = "shell" => ShellTypes /\ TrackersInv
  BY Mounts, ShellTypesInit, ShellInit
<1>17. page = "language" => LanguageTypes /\ LanguageInv
  BY Mounts, LanguageTypesInit, LanguageInit
<1>18. page = "countdown" => CountdownInv
  BY Mounts, CountdownInit
<1>19. page = "stats" => StatsTypes /\ StatsInv
  BY Mounts, StatsTypesInit, StatsInit
<1> QED
  BY <1>1, <1>2, <1>3, <1>4, <1>5, <1>6, <1>7, <1>8, <1>9, <1>10,
     <1>11, <1>12, <1>13, <1>14, <1>15, <1>16, <1>17, <1>18, <1>19 DEF TypesInv

LEMMA TypesNext == TypesInv /\ [Next]_vars => TypesInv'
<1> SUFFICES ASSUME TypesInv, [Next]_vars PROVE TypesInv'
  OBVIOUS
<1>1. page = "audit" => AuditInv'
  <2> SUFFICES ASSUME page = "audit" PROVE AuditInv'
    OBVIOUS
  <2>1. AuditInv /\ (Audit!Next \/ Still)
    BY Steps DEF TypesInv
  <2> QED
    BY <2>1, AuditNext
<1>2. page = "links" => ListTypes' /\ ListInv'
  <2> SUFFICES ASSUME page = "links" PROVE ListTypes' /\ ListInv'
    OBVIOUS
  <2>1. ListTypes /\ ListInv /\ (LinkList!Next \/ Still)
    BY Steps DEF TypesInv
  <2> QED
    BY <2>1, ListTypesNext, ListNext DEF ListGoes
<1>3. page = "newLink" => NewLinkInv'
  <2> SUFFICES ASSUME page = "newLink" PROVE NewLinkInv'
    OBVIOUS
  <2>1. NewLinkInv /\ (NewLink!Next \/ Still)
    BY Steps DEF TypesInv
  <2> QED
    BY <2>1, NewLinkNext
<1>4. page = "editLink" => EditTypes'
  <2> SUFFICES ASSUME page = "editLink" PROVE EditTypes'
    OBVIOUS
  <2>1. EditTypes /\ (EditLink!Next \/ Still)
    BY Steps DEF TypesInv
  <2> QED
    BY <2>1, EditTypesNext
<1>5. page = "users" => UsersInv'
  <2> SUFFICES ASSUME page = "users" PROVE UsersInv'
    OBVIOUS
  <2>1. UsersInv /\ (UserList!Next \/ Still)
    BY Steps DEF TypesInv
  <2> QED
    BY <2>1, UsersNext
<1>6. page = "roles" => RolesInv'
  <2> SUFFICES ASSUME page = "roles" PROVE RolesInv'
    OBVIOUS
  <2>1. RolesInv /\ (RoleList!Next \/ Still)
    BY Steps DEF TypesInv
  <2> QED
    BY <2>1, RolesNext
<1>7. page = "tokens" => TokensInv' /\ clicks' \in Nat
  <2> SUFFICES ASSUME page = "tokens" PROVE TokensInv' /\ clicks' \in Nat
    OBVIOUS
  <2>1. TokensInv /\ clicks \in Nat /\ (TokenList!Next \/ Still)
    BY Steps DEF TypesInv
  <2> QED
    BY <2>1, TokensNext
<1>8. page = "security" => SecurityInv' /\ clicks' \in Nat
  <2> SUFFICES ASSUME page = "security" PROVE SecurityInv' /\ clicks' \in Nat
    OBVIOUS
  <2>1. SecurityInv /\ clicks \in Nat /\ (Security!Next \/ Still)
    BY Steps DEF TypesInv
  <2> QED
    BY <2>1, SecurityNext
<1>9. page = "dashboard" => DashboardInv'
  <2> SUFFICES ASSUME page = "dashboard" PROVE DashboardInv'
    OBVIOUS
  <2>1. DashboardInv /\ (Dashboard!Next \/ Still)
    BY Steps DEF TypesInv
  <2> QED
    BY <2>1, DashboardNext
<1>10. page = "settings" => HomeTypes' /\ OverviewInv'
  <2> SUFFICES ASSUME page = "settings" PROVE HomeTypes' /\ OverviewInv'
    OBVIOUS
  <2>1. HomeTypes /\ OverviewInv /\ (Overview!Next \/ Still)
    BY Steps DEF TypesInv
  <2> QED
    BY <2>1, HomeTypesNext, OverviewNext
<1>11. page = "forms" => FormsInv' /\ clicks' \in Nat
  <2> SUFFICES ASSUME page = "forms" PROVE FormsInv' /\ clicks' \in Nat
    OBVIOUS
  <2>1. FormsInv /\ clicks \in Nat /\ (Forms!Next \/ Still)
    BY Steps DEF TypesInv
  <2> QED
    BY <2>1, FormsNext
<1>12. page = "providers" => ProvidersInv'
  <2> SUFFICES ASSUME page = "providers" PROVE ProvidersInv'
    OBVIOUS
  <2>1. ProvidersInv /\ (ProviderList!Next \/ Still)
    BY Steps DEF TypesInv
  <2> QED
    BY <2>1, ProvidersNext
<1>13. page = "session" => SessionTypes'
  <2> SUFFICES ASSUME page = "session" PROVE SessionTypes'
    OBVIOUS
  <2>1. SessionTypes /\ (Session!Next \/ Still)
    BY Steps DEF TypesInv
  <2> QED
    BY <2>1, SessionTypesNext
<1>14. page = "register" => RegisterInv'
  <2> SUFFICES ASSUME page = "register" PROVE RegisterInv'
    OBVIOUS
  <2>1. RegisterInv /\ (Register!Next \/ Still)
    BY Steps DEF TypesInv
  <2> QED
    BY <2>1, RegisterNext
<1>15. page = "toasts" => ToastTypes'
  <2> SUFFICES ASSUME page = "toasts" PROVE ToastTypes'
    OBVIOUS
  <2>1. ToastTypes /\ (Notices!Next \/ Still)
    BY Steps DEF TypesInv
  <2> QED
    BY <2>1, ToastTypesNext
<1>16. page = "shell" => ShellTypes' /\ TrackersInv'
  <2> SUFFICES ASSUME page = "shell" PROVE ShellTypes' /\ TrackersInv'
    OBVIOUS
  <2>1. ShellTypes /\ TrackersInv /\ (Console!Next \/ Still)
    BY Steps DEF TypesInv
  <2> QED
    BY <2>1, ShellTypesNext, TrackersNext
<1>17. page = "language" => LanguageTypes' /\ LanguageInv'
  <2> SUFFICES ASSUME page = "language" PROVE LanguageTypes' /\ LanguageInv'
    OBVIOUS
  <2>1. LanguageTypes /\ LanguageInv /\ (Language!Next \/ Still)
    BY Steps DEF TypesInv
  <2> QED
    BY <2>1, LanguageTypesNext, LanguageNext
<1>18. page = "countdown" => CountdownInv'
  <2> SUFFICES ASSUME page = "countdown" PROVE CountdownInv'
    OBVIOUS
  <2>1. CountdownInv /\ (Interstitial!Next \/ Still)
    BY Steps DEF TypesInv
  <2> QED
    BY <2>1, CountdownNext
<1>19. page = "stats" => StatsTypes' /\ StatsInv'
  <2> SUFFICES ASSUME page = "stats" PROVE StatsTypes' /\ StatsInv'
    OBVIOUS
  <2>1. StatsTypes /\ StatsInv /\ (Stats!Next \/ Still)
    BY Steps DEF TypesInv
  <2> QED
    BY <2>1, StatsTypesNext, StatsNext
<1>20. page' = page
  BY Steps
<1> QED
  BY <1>1, <1>2, <1>3, <1>4, <1>5, <1>6, <1>7, <1>8, <1>9, <1>10,
     <1>11, <1>12, <1>13, <1>14, <1>15, <1>16, <1>17, <1>18, <1>19, <1>20 DEF TypesInv

LEMMA TypesTyped == TypesInv => TypeOK
<1> SUFFICES ASSUME TypesInv PROVE TypeOK
  OBVIOUS
<1>1. page = "audit" => Audit!TypeOK
  BY AuditTyped DEF TypesInv
<1>2. page = "links" => LinkList!TypeOK
  BY ListTyped DEF TypesInv
<1>3. page = "newLink" => NewLink!TypeOK
  BY NewLinkTyped DEF TypesInv
<1>4. page = "editLink" => EditLink!TypeOK
  BY EditTyped DEF TypesInv
<1>5. page = "users" => UserList!TypeOK
  BY UsersTyped DEF TypesInv
<1>6. page = "roles" => RoleList!TypeOK
  BY RolesTyped DEF TypesInv
<1>7. page = "tokens" => TokenList!TypeOK
  BY TokensTyped DEF TypesInv
<1>8. page = "security" => Security!TypeOK
  BY SecurityTyped DEF TypesInv
<1>9. page = "dashboard" => Dashboard!TypeOK
  BY DashboardTyped DEF TypesInv
<1>10. page = "settings" => Overview!TypeOK
  BY OverviewTyped DEF TypesInv
<1>11. page = "forms" => Forms!TypeOK
  BY FormsTyped DEF TypesInv
<1>12. page = "providers" => ProviderList!TypeOK
  BY ProvidersTyped DEF TypesInv
<1>13. page = "session" => Session!TypeOK
  BY SessionTyped DEF TypesInv
<1>14. page = "register" => Register!TypeOK
  BY RegisterTyped DEF TypesInv
<1>15. page = "toasts" => Notices!TypeOK
  BY ToastsTyped DEF TypesInv
<1>16. page = "shell" => Console!TypeOK
  BY ShellTyped DEF TypesInv
<1>17. page = "language" => Language!TypeOK
  BY LanguageTyped DEF TypesInv
<1>18. page = "countdown" => Interstitial!TypeOK
  BY CountdownTyped DEF TypesInv
<1>19. page = "stats" => Stats!TypeOK
  BY StatsTyped DEF TypesInv
<1> QED
  BY <1>1, <1>2, <1>3, <1>4, <1>5, <1>6, <1>7, <1>8, <1>9, <1>10,
     <1>11, <1>12, <1>13, <1>14, <1>15, <1>16, <1>17, <1>18, <1>19 DEF TypeOK

(* Every page keeps to its types: whatever its user does, and whatever the *)
(* API answers, refuses or loses, what a page shows is of the values its   *)
(* handlers were written for, and so is what it asks and what is kept.     *)
THEOREM TypeOKAlways == Spec => []TypeOK
<1> QED
  BY TypesInit, TypesNext, TypesTyped, PTL DEF Spec
=============================================================================
